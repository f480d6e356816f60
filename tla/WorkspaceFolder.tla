--------------------------- MODULE WorkspaceFolder ---------------------------
(***************************************************************************)
(* Where commands run: config/loader.go finds, reads and merges the        *)
(* configuration and computes the workspace's mount and its folder in the  *)
(* container, config/varsub.go substitutes variables in them, up mounts    *)
(* what was computed (upWorkspaceMounts), and exec, run-user-commands and  *)
(* read-configuration compute it again, each in its own way.               *)
(*                                                                         *)
(* A path is the sequence of its names.  A configuration has some of the   *)
(* fields "folder" (workspaceFolder, a path that may hold variables),      *)
(* "mount" (workspaceMount, empty or one mount) and "compose".             *)
(***************************************************************************)
EXTENDS Naturals, Sequences, FiniteSets, SequencesExt, FiniteSetsExt

CONSTANTS
  Names,        \* what a folder may be called, the variables among them
  Workspace,    \* the workspace folder on the host
  GitHosts,     \* what git may have there: [folder -> .git], some folders
  ConfFiles,    \* where a configuration may be, in the order of discovery
  Documents,    \* what the files may hold
  Flags,        \* the flags a command may be given
  MaxChanges,   \* bound: edits and changes of git
  MaxRuns       \* bound: commands

(* Variables in a path: of the host phase and of the identity phase.       *)
Basename == "${localWorkspaceFolderBasename}"
ContainerFolder == "${containerWorkspaceFolder}"
Identity == "${devcontainerId}"
Variables == {Basename, ContainerFolder, Identity}

Path == Seq(Names)
Mount == [source : Path, target : Path]
Legal(conf) ==
  /\ DOMAIN conf \subseteq {"folder", "mount", "compose"}
  /\ "folder" \in DOMAIN conf => conf.folder \in Path
  /\ "mount" \in DOMAIN conf => conf.mount \in Seq(Mount) /\ Len(conf.mount) <= 1

(* git writes the shortest gitdir that leads from the folder: up, and then *)
(* down another way, by two names at least (.../worktrees/name).           *)
Shortest(folder, gitdir) ==
  \E up \in 0 .. Len(folder) :
    /\ up + 2 <= Len(gitdir)
    /\ \A i \in 1 .. up : gitdir[i] = ".."
    /\ \A i \in up + 1 .. Len(gitdir) : gitdir[i] # ".." /\ gitdir[i] \notin Variables
    /\ up > 0 => gitdir[up + 1] # folder[Len(folder) - up + 1]

ASSUME FolderAssumption ==
  /\ Variables \cup {"..", "workspaces", "id"} \subseteq Names
  /\ Workspace \in Path \ {<<>>} /\ Range(Workspace) \cap Variables = {}
  /\ \A g \in GitHosts :
       /\ <<>> \notin DOMAIN g
       /\ \A x \in DOMAIN g : g[x].kind = "relative" => g[x].to \in Path /\ Shortest(x, g[x].to)
  /\ \A d \in Documents : d.parses => Legal(d.conf)
  /\ \A f \in Flags : f.config = "" \/ f.config \in {ConfFiles[i] : i \in DOMAIN ConfFiles}

VARIABLES
  git,       \* [folder -> .git]: a folder, or a file with a relative or absolute gitdir
  documents, \* [file -> what it holds] of the configurations that are there
  override,  \* what the file of --override-config holds
  boxes,     \* [file -> container] of the workspace's containers
  ran,       \* the last command: what it was asked, what it made of it
  changes,   \* edits so far
  commands   \* commands so far

folderVars == <<git, documents, override, boxes, ran, changes, commands>>

NoFile == ""
Idle == [verb |-> "none", flags |-> {}, file |-> NoFile, folder |-> <<>>, mounts |-> {},
         git |-> {}, conf |-> {}]

FolderInit ==
  /\ git \in GitHosts
  /\ \E d \in Documents : documents = [f \in {ConfFiles[1]} |-> d]
  /\ override \in Documents
  /\ boxes = [f \in {} |-> 0] /\ ran = Idle
  /\ changes = 0 /\ commands = 0

---------------------------------------------------------------------------
(* LoadDevContainerConfigWithMounts.                                       *)

(* The file of --config, the first that is there, or with an override the  *)
(* default one, there or not.                                              *)
ConfFile(f) ==
  LET there == {i \in DOMAIN ConfFiles : ConfFiles[i] \in DOMAIN documents} IN
  IF f.config # "" THEN f.config
  ELSE IF there # {} THEN ConfFiles[Min(there)]
  ELSE IF f.override THEN ConfFiles[1] ELSE NoFile

(* A file that is there must hold an object, with an override or without.  *)
Loads(f) ==
  /\ ConfFile(f) # NoFile
  /\ IF ConfFile(f) \in DOMAIN documents THEN documents[ConfFile(f)].parses ELSE f.override
  /\ f.override => override.parses

(* The override's fields are merged over the configuration's.              *)
Merged(base, over) ==
  [k \in DOMAIN base \cup DOMAIN over |-> IF k \in DOMAIN over THEN over[k] ELSE base[k]]
Loaded(f) ==
  LET base == IF ConfFile(f) \in DOMAIN documents
              THEN documents[ConfFile(f)].conf ELSE [k \in {} |-> 0]
  IN IF f.override THEN Merged(base, override.conf) ELSE base

(* A path from another, over its .. names.                                 *)
Towards(at, name) ==
  IF name # ".." THEN Append(at, name) ELSE IF at = <<>> THEN <<>> ELSE Front(at)
Walk(from, path) ==
  LET at[i \in 0 .. Len(path)] == IF i = 0 THEN from ELSE Towards(at[i - 1], path[i])
  IN at[Len(path)]
Upwards(n) == [i \in 1 .. n |-> ".."]
Below(folder, n) == SubSeq(folder, n + 1, Len(folder))
Above(folder, n) == SubSeq(folder, 1, n)

(* detectGitRoot: the innermost folder around with a .git of any kind.     *)
GitRoots(g) == {n \in 0 .. Len(Workspace) : Above(Workspace, n) \in DOMAIN g}
Source(f, g) ==
  IF f.gitRoot /\ GitRoots(g) # {} THEN Above(Workspace, Max(GitRoots(g))) ELSE Workspace

(* Bug: the gitdir is read from the workspace folder, not from its root.   *)
CommonDirOfWorkspace(source, g) == Walk(Workspace, g[source].to \o Upwards(2))

(* The git folder that worktrees share, two levels above the gitdir.       *)
CommonDir(source, g) == Walk(source, g[source].to \o Upwards(2))

(* Enough of the host's path for the relative gitdir to lead to the common *)
(* folder in the container as well.                                        *)
Segments(source, g) ==
  Below(source, Max({n \in 0 .. Len(source) :
                       n = 0 \/ IsStrictPrefix(Above(source, n), CommonDir(source, g))}))

(* computeWorkspaceConfig.  Compose has mounts of its own.  The common     *)
(* folder is mounted where the configuration leaves the folder or the      *)
(* mount to the CLI.                                                       *)
Remaps(conf, f, g) ==
  /\ ~({"folder", "mount"} \subseteq DOMAIN conf)
  /\ f.gitRoot /\ f.commonDir
  /\ Source(f, g) \in DOMAIN g /\ g[Source(f, g)].kind = "relative"
Target(conf, f, g) ==
  <<"workspaces">> \o IF Remaps(conf, f, g) THEN Segments(Source(f, g), g) ELSE <<Last(Source(f, g))>>
Computed(conf, f, g) ==
  LET root == Source(f, g)
      target == Target(conf, f, g)
  IN IF "compose" \in DOMAIN conf
     THEN [folder |-> IF "folder" \in DOMAIN conf THEN conf.folder ELSE <<>>, mounts |-> {}]
     ELSE [folder |-> IF "folder" \in DOMAIN conf THEN conf.folder
                      ELSE target \o Below(Workspace, Len(root)),
           mounts |->
             (IF "mount" \in DOMAIN conf THEN Range(conf.mount)
              ELSE {[source |-> root, target |-> target]})
             \cup (IF Remaps(conf, f, g)
                   THEN {[source |-> CommonDir(root, g),
                          target |-> Walk(target, g[root].to \o Upwards(2))]}
                   ELSE {})]

(* substituteTags: a phase replaces its own variables and leaves the others *)
(* verbatim.                                                               *)
Replaced(name, values) == IF name \in DOMAIN values THEN values[name] ELSE <<name>>
Substitute(path, values) ==
  LET made[i \in 0 .. Len(path)] ==
        IF i = 0 THEN <<>> ELSE made[i - 1] \o Replaced(path[i], values)
  IN made[Len(path)]
HostPhase(path, folder) ==
  LET own == [x \in {Basename} |-> <<Last(Workspace)>>]
      all == [x \in {Basename, ContainerFolder} |->
                IF x = Basename THEN own[x] ELSE Substitute(folder, own)]
  IN Substitute(path, all)
IdentityPhase(path) == Substitute(path, [x \in {Identity} |-> <<"id">>])

(* The workspace as it is loaded: the host's variables are replaced.       *)
WorkspaceConfig(conf, f, g) ==
  LET made == Computed(conf, f, g)
  IN [folder |-> HostPhase(made.folder, made.folder),
      mounts |-> {[m EXCEPT !.target = HostPhase(@, made.folder)] : m \in made.mounts}]

---------------------------------------------------------------------------
Run(verb, f, made) ==
  /\ commands < MaxRuns /\ commands' = commands + 1
  /\ ran' = [verb |-> verb, flags |-> f, file |-> ConfFile(f),
             folder |-> made.folder, mounts |-> made.mounts, git |-> git, conf |-> Loaded(f)]
  /\ UNCHANGED <<git, documents, override, changes>>

(* up substitutes both phases in what was loaded.  A container that is     *)
(* there keeps the mounts it was made with, the hooks run in the folder of *)
(* this up.                                                                *)
UpWorkspace(conf, f, g) ==
  LET made == WorkspaceConfig(conf, f, g)
      both(path) == IdentityPhase(HostPhase(path, made.folder))
  IN [folder |-> both(made.folder),
      mounts |-> {[m EXCEPT !.target = both(@)] : m \in made.mounts}]

UpRuns(f) ==
  /\ Loads(f)
  /\ Run("up", f, UpWorkspace(Loaded(f), f, git))
  /\ LET made == UpWorkspace(Loaded(f), f, git) IN
     boxes' = IF ConfFile(f) \in DOMAIN boxes THEN boxes
              ELSE [x \in DOMAIN boxes \cup {ConfFile(f)} |->
                      IF x # ConfFile(f) THEN boxes[x]
                      ELSE [folder |-> made.folder, mounts |-> made.mounts, flags |-> f,
                            git |-> git, conf |-> Loaded(f)]]

(* exec and run-user-commands find the container by the configuration's    *)
(* file.  They take the flags of the mounts and use the defaults           *)
(* (LoadDevContainerConfig), and leave ${devcontainerId} in the folder.    *)
Defaults(f) == [f EXCEPT !.gitRoot = TRUE, !.commonDir = FALSE]
CommandRuns(f) ==
  /\ Loads(f) /\ ConfFile(f) \in DOMAIN boxes
  /\ \E verb \in {"exec", "run-user-commands"} : Run(verb, f, WorkspaceConfig(Loaded(f), Defaults(f), git))
  /\ UNCHANGED boxes

(* read-configuration reports the workspace, with a container or without.  *)
ReadRuns(f) ==
  /\ Loads(f)
  /\ Run("read-configuration", f, WorkspaceConfig(Loaded(f), f, git))
  /\ UNCHANGED boxes

(* The user removes a container, edits a configuration, changes git.       *)
Change == changes < MaxChanges /\ changes' = changes + 1
RemoveBox(x) ==
  /\ Change
  /\ boxes' = [y \in DOMAIN boxes \ {x} |-> boxes[y]]
  /\ UNCHANGED <<git, documents, override, ran, commands>>
EditDocument(x, d) ==
  /\ Change
  /\ documents' = Merged(documents, [y \in {x} |-> d])
  /\ UNCHANGED <<git, override, boxes, ran, commands>>
RemoveDocument(x) ==
  /\ Change
  /\ documents' = [y \in DOMAIN documents \ {x} |-> documents[y]]
  /\ UNCHANGED <<git, override, boxes, ran, commands>>
ChangeGit(g) ==
  /\ Change
  /\ git' = g
  /\ UNCHANGED <<documents, override, boxes, ran, commands>>

FolderRest == changes = MaxChanges /\ UNCHANGED folderVars

FolderNext ==
  \/ FolderRest
  \/ \E f \in Flags : UpRuns(f) \/ CommandRuns(f) \/ ReadRuns(f)
  \/ \E x \in DOMAIN boxes : RemoveBox(x)
  \/ \E x \in {ConfFiles[i] : i \in DOMAIN ConfFiles}, d \in Documents : EditDocument(x, d)
  \/ \E x \in DOMAIN documents : RemoveDocument(x)
  \/ \E g \in GitHosts : ChangeGit(g)
FolderSpec == FolderInit /\ [][FolderNext]_folderVars

---------------------------------------------------------------------------
(* What a path of the container shows: a path of the host, or nothing.     *)
Shows(mounts, path) ==
  LET around == {m \in mounts : IsPrefix(m.target, path)} IN
  {m.source \o Below(path, Len(m.target)) :
     m \in {n \in around : \A o \in around : Len(o.target) <= Len(n.target)}}

(* The last command ran on the container of its configuration, which was   *)
(* made of what the command has read, and git is as it was.                *)
Current ==
  /\ ran.verb # "none" /\ ran.file \in DOMAIN boxes
  /\ boxes[ran.file].git = ran.git /\ git = ran.git /\ boxes[ran.file].conf = ran.conf
Box == boxes[ran.file]
SameFlags == ran.flags.gitRoot = Box.flags.gitRoot /\ ran.flags.commonDir = Box.flags.commonDir

(* The configuration leaves folder and mount to the CLI, or mounts the     *)
(* workspace at its folder, which it does not define by itself.            *)
Coherent(conf) ==
  \/ DOMAIN conf \cap {"folder", "mount", "compose"} = {}
  \/ /\ DOMAIN conf = {"folder", "mount"} /\ ContainerFolder \notin Range(conf.folder)
     /\ \E m \in Range(conf.mount) : m.source = Workspace /\ m.target = <<ContainerFolder>>

(* The folder a command runs in, or reports, is the workspace: through the *)
(* container's mounts it shows the workspace folder, below its git root or *)
(* not (computeWorkspaceConfig), as long as the command was asked as the   *)
(* up that made the container was, and the folder has no ${devcontainerId} *)
(* or the command is an up.  Where the CLI mounts a worktree's common      *)
(* folder, the worktree's relative gitdir leads to it in the container:    *)
(* "preserves enough of the host path structure for that relative path to  *)
(* resolve" (gitWorktreeCommonDirMount).                                   *)
WorkspaceIsMounted ==
  Current /\ Coherent(Box.conf) /\ SameFlags
  /\ (ran.verb \in {"exec", "run-user-commands"} => Defaults(ran.flags) = ran.flags)
  /\ (ran.verb = "up" \/ Identity \notin Range(ran.folder)) =>
    /\ Shows(Box.mounts, ran.folder) = {Workspace}
    /\ Remaps(Box.conf, Box.flags, git) =>
         LET root == Source(Box.flags, git)
             target == Above(Box.folder, Len(Box.folder) - Len(Workspace) + Len(root))
         IN Shows(Box.mounts, Walk(target, git[root].to)) = {Walk(root, git[root].to)}
=============================================================================
