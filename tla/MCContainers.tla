---------------------------- MODULE MCContainers ----------------------------
(* Small instances of Containers and of WorkspaceFolder, one after the      *)
(* other in one run.                                                        *)
EXTENDS Containers, WorkspaceFolder
CONSTANTS front, back

R(verb, config) == [verb |-> verb, config |-> config, remove |-> FALSE, expect |-> FALSE, blocked |-> FALSE]
Flagged(r, remove, expect, blocked) ==
  [r EXCEPT !.remove = remove, !.expect = expect, !.blocked = blocked]

(* Requests for each verb, to be run one after the other and side by side.  *)
SomeRequests ==
  {R("up", c) : c \in Configs}
    \cup {Flagged(R("up", front), TRUE, FALSE, FALSE), Flagged(R("up", front), FALSE, TRUE, FALSE),
          Flagged(R("up", front), FALSE, FALSE, TRUE)}
    \cup {R("down", c) : c \in Configs} \cup {R("stop", front), R("exec", front), R("down", NoConfig)}

DownRequests == {R("up", front), R("up", back)} \cup {R(v, front) : v \in {"stop", "down", "exec"}}

NoneExisting == <<>>
(* A container of an older release and one of a configuration.             *)
SomeExisting == <<[config |-> NoConfig, state |-> "exited"], [config |-> front, state |-> "running"]>>

(* A package in a repository or in a worktree, whose gitdir leads out of it *)
(* by two names or lies in another tree.                                    *)
SomeNames == STRING
SomeWorkspace == <<"src", "a", "wt", "pkg">>
Link(kind, to) == [kind |-> kind, to |-> to]
SomeGitHosts ==
  {[x \in {} |-> Link("folder", <<>>)],
   [x \in {<<"src">>, <<"src", "a">>} |-> Link("folder", <<>>)],
   [x \in {<<"src", "a", "wt">>} |-> Link("relative", <<"..", "..", "repo", ".git", "worktrees", "wt">>)],
   [x \in {<<"src", "a", "wt">>} |-> Link("absolute", <<>>)],
   [x \in {SomeWorkspace} |-> Link("relative", <<"..", "main", ".git", "worktrees", "pkg">>)]}

SomeConfFiles == <<"folder", "dotfile">>
Bind(path) == <<[source |-> SomeWorkspace, target |-> path]>>
Document(conf) == [parses |-> TRUE, conf |-> conf]
SomeDocuments ==
  {[parses |-> FALSE, conf |-> [k \in {} |-> 0]],
   Document([k \in {} |-> 0]),
   Document([folder |-> <<"w", Basename>>, mount |-> Bind(<<ContainerFolder>>)]),
   Document([folder |-> <<"w", Identity>>, mount |-> Bind(<<ContainerFolder>>)]),
   Document([mount |-> <<>>]),
   Document([compose |-> <<>>, folder |-> <<"w">>])}

Flag(gitRoot, commonDir, config, over) ==
  [gitRoot |-> gitRoot, commonDir |-> commonDir, config |-> config, override |-> over]
SomeFlags ==
  {Flag(TRUE, FALSE, "", FALSE), Flag(TRUE, TRUE, "", FALSE), Flag(FALSE, TRUE, "", FALSE),
   Flag(TRUE, FALSE, "dotfile", FALSE), Flag(TRUE, TRUE, "", TRUE)}

VARIABLE part  \* which of them
NoFolders ==
  /\ git = [x \in {} |-> 0] /\ documents = [x \in {} |-> 0] /\ boxes = [x \in {} |-> 0]
  /\ override = Document([x \in {} |-> 0]) /\ ran = Idle /\ changes = 0 /\ commands = 0
NoContainers ==
  /\ containers = <<>> /\ pc = [p \in Clients |-> "idle"] /\ request = [p \in Clients |-> CHOOSE r \in Requests : TRUE]
  /\ target = [p \in Clients |-> None] /\ result = [p \in Clients |-> "none"]
  /\ served = 0 /\ calm = TRUE

ContainersInit == part = "containers" /\ Init /\ NoFolders
ContainersNext == part = "containers" /\ Next /\ UNCHANGED <<folderVars, part>>
FoldersInit == part = "folders" /\ FolderInit /\ NoContainers
FoldersNext == part = "folders" /\ FolderNext /\ UNCHANGED <<vars, part>>

WorkspaceSpec ==
  (ContainersInit \/ FoldersInit) /\ [][ContainersNext \/ FoldersNext]_<<vars, folderVars, part>>

(* Containers alone, for what a document says of it.                        *)
ContainersSpec == ContainersInit /\ [][ContainersNext]_<<vars, folderVars, part>>
=============================================================================
