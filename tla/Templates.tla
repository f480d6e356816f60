------------------------------ MODULE Templates ------------------------------
(***************************************************************************)
(* The way of a Template: `templates package` (cli/collection_package.go)  *)
(* completes and archives each item of a collection, publishing makes an   *)
(* archive what a tag names, and `templates apply` (templates/apply.go)    *)
(* writes its files into a workspace, with options in place of             *)
(* ${templateOption:...} and Features added to the configuration.          *)
(* `features package` is the same command with another kind of item.       *)
(*                                                                         *)
(* A path is <<folder, name>>, the root's folder being "".  A file's text  *)
(* is the archive it came from and the options it mentions.  An item's id  *)
(* is what its metadata says, whatever its folder is called.               *)
(***************************************************************************)
EXTENDS Naturals, Sequences, FiniteSets, SequencesExt

CONSTANTS
  CollectionType,  \* "feature" or "template"
  Single,          \* the target folder is itself the item
  Folders,         \* the sub-folders with items, in name order
  Authored,        \* what the author may have there: [folder -> item]
  Workspaces,      \* what an apply may find: [path -> file], some paths
  Requests,        \* what it may be asked: the flags
  Longer,          \* <<d, p>>: the path p, which is not in d, begins with d
  PackageFaults,   \* what goes wrong: "disk", "readonly", "fetch", "write"
  MaxPackages,     \* bound: runs of package
  MaxApplies       \* bound: runs of apply

DotConfig == <<"", ".devcontainer.json">>
Config == <<".devcontainer", "devcontainer.json">>
Docs == {<<"", "devcontainer-template.json">>, <<"", "README.md">>, <<"", "NOTES.md">>}
All(d) == <<d, "*">>  \* an optional or omitted path d/*

ASSUME TemplatesAssumption ==
  /\ CollectionType \in {"feature", "template"}
  /\ Folders \in Seq(STRING) /\ Single \in BOOLEAN /\ (Single => Len(Folders) = 1)
  /\ \A i, j \in DOMAIN Folders : Folders[i] = Folders[j] => i = j
  /\ Authored # {}
  /\ \A c \in Authored : DOMAIN c = {Folders[i] : i \in DOMAIN Folders}
  /\ \A c \in Authored : \A f \in DOMAIN c :
       IsFiniteSet(DOMAIN c[f].files) /\ \A o \in c[f].optional : o = <<o[1], o[2]>>

VARIABLES
  source,    \* the author's items
  out,       \* the output folder: is it there, archives by name, and what the
             \* collection file lists
  pack,      \* the run of package: where it is, the item it is at, the metadata it
             \* has gathered, how the last ended
  packages,  \* runs of package so far
  tagged,    \* what the registry's tag has named, an archive and the metadata
             \* published with it; the last is what it names
  workspace, \* [path -> file] of the workspace
  found,     \* history: the workspace before the last apply
  kept,      \* the extraction folder under --tmp-dir, which is never emptied
  apply,     \* the run of apply
  applies    \* runs of apply so far

packageVars == <<source, out, pack, packages>>
applyVars == <<workspace, found, kept, apply, applies>>
templatesVars == <<source, out, pack, packages, tagged, workspace, found, kept, apply, applies>>

NoFiles == [p \in {} |-> 0]
NoApply == [pc |-> "idle", request |-> 0, tag |-> 0, folder |-> NoFiles, todo |-> {}]

TemplatesInit ==
  /\ source \in Authored
  /\ out = [exists |-> FALSE, archives |-> NoFiles, listed |-> {}]
  /\ pack = [pc |-> "idle", at |-> 0, metas |-> {}, ended |-> "new"] /\ packages = 0
  /\ tagged = <<>>
  /\ workspace \in Workspaces /\ found = workspace
  /\ kept = NoFiles /\ apply = NoApply /\ applies = 0

(* The author edits the collection.                                        *)
Edit(c) ==
  /\ source # c /\ source' = c
  /\ UNCHANGED <<out, pack, packages, tagged, applyVars>>

---------------------------------------------------------------------------
(* Packaging.                                                              *)

(* The files of a Template that an optional path d/* is taken to stand for *)
(* when it is narrowed: those whose path begins with d.                    *)
Begins(item, d) == {p \in DOMAIN item.files : p[1] = d \/ <<d, p>> \in Longer}

(* Bug: narrowed to the first file, however many there are.                *)
NarrowedToFirst(item) ==
  [o \in item.optional |->
     IF o[2] = "*" /\ Begins(item, o[1]) # {} THEN CHOOSE p \in Begins(item, o[1]) : TRUE ELSE o]

Narrowed(item) ==
  [o \in item.optional |->
     IF o[2] = "*" /\ Cardinality(Begins(item, o[1])) = 1
     THEN CHOOSE p \in Begins(item, o[1]) : TRUE ELSE o]

(* completeItemMetadata needs a Template's configuration, and in it an     *)
(* image, a Dockerfile or a Compose file.                                  *)
Completes(item) ==
  IF CollectionType = "template"
  THEN {DotConfig, Config} \cap DOMAIN item.files # {} /\ item.builds
  ELSE Single \/ item.install

(* What is archived of the item in folder f, which is also its metadata as *)
(* read back.  A completed metadata file that cannot be written is left as *)
(* the author had it, and nothing is said.                                 *)
Archives(item, f) ==
  {[item |-> item, from |-> f, complete |-> TRUE,
    optional |-> IF CollectionType = "template" THEN Narrowed(item) ELSE NoFiles]}
  \cup (IF "readonly" \in PackageFaults
        THEN {[item |-> item, from |-> f, complete |-> FALSE,
               optional |-> [o \in item.optional |-> o]]} ELSE {})

EndPackage(how) == pack' = [pc |-> "idle", at |-> 0, metas |-> {}, ended |-> how]

Package(force) ==
  /\ pack.pc = "idle" /\ packages < MaxPackages
  /\ packages' = packages + 1
  /\ IF out.exists /\ ~force THEN EndPackage("refused") /\ UNCHANGED out
     ELSE /\ out' = [exists |-> TRUE, archives |-> NoFiles, listed |-> {}]
          /\ pack' = [pc |-> "items", at |-> 1, metas |-> {}, ended |-> "running"]
  /\ UNCHANGED <<source, tagged, applyVars>>

ItemAt == source[Folders[pack.at]]
AtItem == pack.pc = "items" /\ pack.at <= Len(Folders)

(* The archive of a collection's item is named by its folder, that of a    *)
(* single item by its id.                                                  *)
ArchiveName == IF Single THEN ItemAt.id ELSE Folders[pack.at]
Archived(a) == [n \in DOMAIN out.archives \cup {ArchiveName} |->
                  IF n = ArchiveName THEN a ELSE out.archives[n]]
ArchivesAt == Archives(ItemAt, Folders[pack.at])

(* A folder without metadata is no item.                                   *)
PassItem ==
  /\ AtItem /\ ~ItemAt.meta
  /\ pack' = [pack EXCEPT !.at = @ + 1]
  /\ UNCHANGED <<source, out, packages, tagged, applyVars>>

PackItem ==
  /\ AtItem /\ ItemAt.meta /\ Completes(ItemAt) /\ ItemAt.named
  /\ \E a \in ArchivesAt :
       /\ out' = [out EXCEPT !.archives = Archived(a)]
       /\ pack' = [pack EXCEPT !.at = @ + 1, !.metas = @ \cup {a}]
  /\ UNCHANGED <<source, packages, tagged, applyVars>>

(* Bug: the item that fails is passed over, as one without metadata is.    *)
FailItemAndGoOn ==
  /\ AtItem /\ ItemAt.meta
  /\ \/ /\ ~Completes(ItemAt) \/ "disk" \in PackageFaults
        /\ UNCHANGED out
     \/ /\ Completes(ItemAt) /\ ~ItemAt.named
        /\ \E a \in ArchivesAt : out' = [out EXCEPT !.archives = Archived(a)]
  /\ pack' = [pack EXCEPT !.at = @ + 1]
  /\ UNCHANGED <<source, packages, tagged, applyVars>>

(* One item that fails fails the package.  That an id, a version or a name *)
(* is missing is seen when a collection's item is archived already.        *)
FailItem ==
  /\ AtItem /\ ItemAt.meta
  /\ \/ /\ ~Completes(ItemAt) \/ "disk" \in PackageFaults
        /\ UNCHANGED out
     \/ /\ Completes(ItemAt) /\ ~ItemAt.named
        /\ out' \in IF Single THEN {out}
                   ELSE {[out EXCEPT !.archives = Archived(a)] : a \in ArchivesAt}
  /\ EndPackage("failed")
  /\ UNCHANGED <<source, packages, tagged, applyVars>>

(* The collection file lists the metadata gathered in this run, by id.     *)
ListArchives ==
  /\ pack.pc = "items" /\ pack.at > Len(Folders)
  /\ \/ /\ pack.metas # {} /\ EndPackage("ok")
        /\ out' = [out EXCEPT !.listed = pack.metas]
     \/ /\ pack.metas = {} \/ "disk" \in PackageFaults
        /\ EndPackage("failed") /\ UNCHANGED out
  /\ UNCHANGED <<source, packages, tagged, applyVars>>

(* Publishing a listed item gives the tag the archive that is named by its *)
(* id, with the item's metadata: an item whose folder is called otherwise  *)
(* is not found, or another one's archive is taken for it.                 *)
PublishTemplate(m) ==
  /\ pack.ended = "ok" /\ m \in out.listed /\ m.item.id \in DOMAIN out.archives
  /\ LET new == [archive |-> out.archives[m.item.id], listed |-> m] IN
     /\ IF tagged = <<>> THEN TRUE ELSE Last(tagged) # new
     /\ tagged' = Append(tagged, new)
  /\ UNCHANGED <<packageVars, applyVars>>

---------------------------------------------------------------------------
(* Applying.                                                               *)

Start(q) ==
  /\ apply.pc \in {"idle", "done", "failed"} /\ applies < MaxApplies /\ tagged # <<>>
  /\ apply' = [NoApply EXCEPT !.pc = "manifest", !.request = q]
  /\ applies' = applies + 1 /\ found' = workspace
  /\ UNCHANGED <<packageVars, tagged, workspace, kept>>

Goes(pc) == apply' = [apply EXCEPT !.pc = pc]
Rest == <<packageVars, tagged, found, applies>>

FetchTemplate ==
  /\ apply.pc = "manifest"
  /\ apply' = [apply EXCEPT !.pc = "blob", !.tag = Len(tagged)]
  /\ UNCHANGED <<Rest, workspace, kept>>

(* The optional paths the user leaves out are among those that are offered *)
(* with the archive.                                                       *)
ItemOf(n) == tagged[n].archive.item
Offered(n) == tagged[n].listed.optional
Omits(n, left) == {Offered(n)[o] : o \in left \cap DOMAIN Offered(n)}

(* The layer is fetched by the manifest's digest, whatever the tag names   *)
(* by now.  A folder of the user's own still holds what an earlier apply   *)
(* extracted there.                                                        *)
Over(new, old) == [p \in DOMAIN new \cup DOMAIN old |-> IF p \in DOMAIN new THEN new[p] ELSE old[p]]
Layer(n) == [p \in DOMAIN ItemOf(n).files |-> [tag |-> n, file |-> ItemOf(n).files[p]]]

Omitted(p, omit) == p \in Docs \/ p \in omit \/ All(p[1]) \in omit

Extract ==
  /\ apply.pc = "blob"
  /\ LET dir == IF apply.request.tmpDir THEN Over(Layer(apply.tag), kept) ELSE Layer(apply.tag) IN
     /\ apply' = [apply EXCEPT !.pc = "files", !.folder = dir,
                               !.todo = {p \in DOMAIN dir : ~Omitted(p, Omits(apply.tag, apply.request.left))}]
     /\ kept' = IF apply.request.tmpDir THEN dir ELSE kept
  /\ UNCHANGED <<Rest, workspace>>

(* A value the user gives, or the default that is a true value, or none.   *)
Value(n, q, o) ==
  IF o \in DOMAIN q.options THEN q.options[o]
  ELSE IF o \in DOMAIN ItemOf(n).defaults THEN ItemOf(n).defaults[o] ELSE ""
Written(f) ==
  [tag |-> f.tag, features |-> f.file.features,
   values |-> [o \in f.file.mentions |-> Value(apply.tag, apply.request, o)]]

WriteFile(p) ==
  /\ apply.pc = "files" /\ p \in apply.todo
  /\ workspace' = Over([x \in {p} |-> Written(apply.folder[p])], workspace)
  /\ apply' = [apply EXCEPT !.todo = @ \ {p}]
  /\ UNCHANGED <<Rest, kept>>

(* Features go to the configuration the CLI would open: the one in         *)
(* .devcontainer before the other, whichever the Template brought.         *)
Opens(ws) == IF Config \in DOMAIN ws THEN {Config} ELSE {DotConfig} \cap DOMAIN ws
MergeFeatures ==
  /\ apply.pc = "files" /\ apply.todo = {}
  /\ workspace' = [p \in DOMAIN workspace |->
                     IF p \in Opens(workspace)
                     THEN [workspace[p] EXCEPT !.features = @ \cup apply.request.features]
                     ELSE workspace[p]]
  /\ Goes("done")
  /\ UNCHANGED <<Rest, kept>>

(* What fails leaves the files written so far.                             *)
ApplyFails ==
  /\ \/ apply.pc \in {"manifest", "blob"} /\ "fetch" \in PackageFaults
     \/ apply.pc = "files" /\ "write" \in PackageFaults
  /\ Goes("failed")
  /\ UNCHANGED <<Rest, workspace, kept>>

TemplatesNext ==
  \/ \E c \in Authored : Edit(c)
  \/ \E force \in BOOLEAN : Package(force)
  \/ PassItem \/ PackItem \/ FailItem \/ ListArchives
  \/ \E m \in out.listed : PublishTemplate(m)
  \/ \E q \in Requests : Start(q)
  \/ FetchTemplate \/ Extract \/ MergeFeatures \/ ApplyFails
  \/ \E p \in apply.todo : WriteFile(p)

TemplatesSpec == TemplatesInit /\ [][TemplatesNext]_templatesVars

---------------------------------------------------------------------------
(* A package that succeeds is whole.  Its collection file lists the item   *)
(* of every archive beside it, with the metadata that is in the archive,   *)
(* and no other, none of an earlier run or of an item that failed; and for *)
(* every item listed that is alone in its folder or gave the folder its    *)
(* name, publish finds its own archive by its id.                          *)
PackageIsWhole ==
  pack.ended = "ok" =>
    /\ out.listed = {out.archives[n] : n \in DOMAIN out.archives}
    /\ \A m \in out.listed : Single \/ m.item.id = m.from =>
         m.item.id \in DOMAIN out.archives /\ out.archives[m.item.id] = m

(* What the author means by an optional path.                              *)
Meant(item, left) ==
  {p \in DOMAIN item.files : {p, All(p[1])} \cap item.optional \cap left # {}}

(* The tag names an archive with its own metadata, and what the user left  *)
(* out of it, narrowed or not, is in the folder the author named.          *)
OwnMetadata(n) == tagged[n].archive = tagged[n].listed
StaysInFolder(n, left) ==
  \A o \in left \cap DOMAIN Offered(n) : Offered(n)[o] = o \/ Offered(n)[o][1] = o[1]

(* The files an apply of its request should write of the archive.          *)
ToWrite == DOMAIN ItemOf(apply.tag).files \ (Docs \cup Meant(ItemOf(apply.tag), apply.request.left))

(* An apply that succeeds makes the workspace what the author and the user *)
(* meant: every file of the one archive whose manifest it read, but those  *)
(* of the optional paths left out; in it the user's values and the         *)
(* defaults; every other file as it was; and the Features asked for in the *)
(* configuration that up will open, with those it had.  The package may    *)
(* have narrowed an optional path, and the apply reads it differently: a   *)
(* whole segment there, the beginning of a path here.  Out of it are a     *)
(* path that was narrowed to a file outside of its folder (see             *)
(* LeftOutIsOptional), and a --tmp-dir used before: what an earlier apply  *)
(* left there is applied again.                                            *)
AppliedAsMeant ==
  /\ apply.pc = "done" /\ apply.folder = Layer(apply.tag)
  /\ OwnMetadata(apply.tag) /\ StaysInFolder(apply.tag, apply.request.left)
  =>
    LET item == ItemOf(apply.tag)
        text(p) == [tag |-> apply.tag, features |-> item.files[p].features,
                    values |-> [o \in item.files[p].mentions |-> Value(apply.tag, apply.request, o)]]
        whole == [p \in ToWrite \cup DOMAIN found |-> IF p \in ToWrite THEN text(p) ELSE found[p]]
    IN /\ DOMAIN workspace = DOMAIN whole
       /\ \A p \in DOMAIN whole :
            workspace[p] = IF p \in Opens(whole)
                           THEN [whole[p] EXCEPT !.features = @ \cup apply.request.features]
                           ELSE whole[p]

(* An apply leaves out no file that is not in an optional path the user    *)
(* left out.  The comment of addTemplateProps says that what is narrowed   *)
(* is an optional path "whose folder holds a single file", to that file;   *)
(* it is violated by a path d/* without a file, while one other path       *)
(* begins with d.                                                          *)
LeftOutIsOptional ==
  apply.pc = "done" /\ apply.folder = Layer(apply.tag) /\ OwnMetadata(apply.tag) =>
    ToWrite \subseteq DOMAIN workspace
=============================================================================
