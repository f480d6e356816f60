------------------------------- MODULE Publish -------------------------------
(***************************************************************************)
(* Publishing a collection of Features or Templates to an OCI registry:    *)
(* cli/collection_commands.go publishCollectionWith over oci/push.go.  A   *)
(* job is one run of `features publish` or `templates publish`.  Each item *)
(* of its collection is listed, uploaded and then tagged, one request per  *)
(* tag; the collection's metadata comes last.  Jobs share the registry     *)
(* only, and nothing orders the requests of two of them.                   *)
(*                                                                         *)
(* A tag is the sequence of its numbers: <<1, 2, 0>> is the tag 1.2.0,     *)
(* <<1, 2>> and <<1>> are the floating tags 1.2 and 1, <<>> is latest.     *)
(* Blobs are addressed by content, so uploading one changes nothing a      *)
(* reader of the registry can see.                                         *)
(***************************************************************************)
EXTENDS Integers, Sequences, FiniteSets, SequencesExt

CONSTANTS
  Jobs,         \* the runs of publish
  Repos,        \* the repositories an item's id can name
  Collections,  \* the collections a job may find packaged in its workspace
  MaxActive,    \* bound: jobs that run at the same time
  MaxFaults     \* bound: requests that fail and jobs that are killed

NoVersion == <<>>  \* what an item without a version has
Latest == <<>>

(* An item: its id, its version and its legacyIds (none for a Template).   *)
(* Whatever is not three numbers is not a semantic version.                *)
ASSUME CollectionsAssumption ==
  Collections \subseteq Seq([id: STRING, version: Seq(Nat), legacyIds: Seq(STRING)])
ASSUME BoundsAssumption == MaxActive \in Nat /\ MaxFaults \in Nat

VARIABLES
  tags,        \* per repository, the manifest each tag names
  collection,  \* what the collection's own latest names; empty before that
  pc,          \* where each job is
  packaged,    \* the collection it has packaged
  at,          \* which of its items is in hand
  aliases,     \* the legacyIds left of that item, the one in hand first
  main,        \* is the item itself in hand, not one of its aliases?
  queue,       \* the tags left to push
  pushed,      \* has one of this push's tags been accepted?
  faults,      \* faults so far
  lost,        \* history: <<repository, tag>> of the pushes that failed
  calm,        \* history: have no two jobs overlapped?
  whole        \* history: has no job been killed between two tags?

vars == <<tags, collection, pc, packaged, at, aliases, main, queue, pushed,
          faults, lost, calm, whole>>
registry == <<tags, collection>>
history == <<lost, calm, whole>>

Semantic(v) == Len(v) = 3
Newer(v, w) == \/ v[1] > w[1]
               \/ v[1] = w[1] /\ (v[2] > w[2] \/ (v[2] = w[2] /\ v[3] > w[3]))

(* No published version in the range of tag t is as new as v.              *)
Advances(v, t, published) ==
  \A w \in published : Semantic(w) /\ IsPrefix(t, w) => Newer(v, w)

Major(v) == SubSeq(v, 1, 1)
Minor(v) == SubSeq(v, 1, 2)

(* Bug: the versions in range are not compared.                            *)
SemanticTagsAll(v, published) == <<Major(v), Minor(v), v, Latest>>

(* SemanticTags: the tags to push, in this order.                          *)
SemanticTags(v, published) ==
  LET Float(t) == IF Advances(v, t, published) THEN <<t>> ELSE <<>>
  IN Float(Major(v)) \o Float(Minor(v)) \o <<v>> \o Float(Latest)

Item(j) == packaged[j][at[j]]
Version(j) == Item(j).version
ItemsLeft(j) == at[j] <= Len(packaged[j])
Target(j) == IF main[j] THEN Item(j).id ELSE Head(aliases[j])
Published(r) == DOMAIN tags[r]
Active(j) == pc[j] \notin {"idle", "done", "failed", "killed"}

Init ==
  /\ tags = [r \in Repos |-> <<>>]
  /\ collection = <<>>
  /\ pc = [j \in Jobs |-> "idle"]
  /\ packaged = [j \in Jobs |-> <<>>]
  /\ at = [j \in Jobs |-> 1]
  /\ aliases = [j \in Jobs |-> <<>>]
  /\ main = [j \in Jobs |-> TRUE]
  /\ queue = [j \in Jobs |-> <<>>]
  /\ pushed = [j \in Jobs |-> FALSE]
  /\ faults = 0
  /\ lost = {} /\ calm = TRUE /\ whole = TRUE

Goto(j, where) == pc' = [pc EXCEPT ![j] = where]
Drop(j) == at' = [at EXCEPT ![j] = @ + 1]
Fault == faults < MaxFaults /\ faults' = faults + 1

(* The job ends, and with it the folder it packaged into.                  *)
work == <<packaged, at, aliases, main, queue, pushed>>
End(j, how) ==
  /\ Goto(j, how)
  /\ packaged' = [packaged EXCEPT ![j] = <<>>] /\ at' = [at EXCEPT ![j] = 1]
  /\ aliases' = [aliases EXCEPT ![j] = <<>>] /\ main' = [main EXCEPT ![j] = TRUE]
  /\ queue' = [queue EXCEPT ![j] = <<>>] /\ pushed' = [pushed EXCEPT ![j] = FALSE]

(* The collection is packaged into a folder of the job's own.              *)
Begin(j) ==
  /\ pc[j] = "idle" /\ Cardinality({k \in Jobs : Active(k)}) < MaxActive
  /\ \E c \in Collections : packaged' = [packaged EXCEPT ![j] = c]
  /\ Goto(j, "item")
  /\ calm' = (calm /\ \A k \in Jobs : ~Active(k))
  /\ UNCHANGED <<registry, at, aliases, main, queue, pushed, faults, lost, whole>>

(* The next item, or the collection's metadata.  An item without a version *)
(* is passed over; an id that names no repository ends the job.            *)
NextItem(j) ==
  /\ pc[j] = "item"
  /\ \/ /\ ~ItemsLeft(j)
        /\ Goto(j, "metadata") /\ UNCHANGED work
     \/ /\ ItemsLeft(j) /\ Version(j) = NoVersion
        /\ Drop(j) /\ UNCHANGED <<pc, packaged, aliases, main, queue, pushed>>
     \/ /\ ItemsLeft(j) /\ Version(j) # NoVersion /\ Item(j).id \in Repos
        /\ Goto(j, "list") /\ UNCHANGED work
     \/ /\ ItemsLeft(j) /\ Version(j) # NoVersion /\ Item(j).id \notin Repos
        /\ End(j, "failed")
  /\ UNCHANGED <<registry, faults, history>>

(* publishOne: a version that is there already is skipped; a repository    *)
(* that is not there has no tags.                                          *)
ListTags(j) ==
  /\ pc[j] = "list"
  /\ LET published == Published(Target(j)) IN
       \/ /\ Version(j) \in published
          /\ Goto(j, "next") /\ UNCHANGED work
       \/ /\ Version(j) \notin published /\ ~Semantic(Version(j))
          /\ End(j, "failed")
       \/ /\ Version(j) \notin published /\ Semantic(Version(j))
          /\ queue' = [queue EXCEPT ![j] = SemanticTags(Version(j), published)]
          /\ Goto(j, "upload") /\ UNCHANGED <<packaged, at, aliases, main, pushed>>
  /\ UNCHANGED <<registry, faults, history>>

(* Bug: a listing that failed is one without tags.                         *)
RequestFailsOpen(j) ==
  /\ pc[j] = "list"
  /\ Fault
  /\ Semantic(Version(j))
  /\ queue' = [queue EXCEPT ![j] = SemanticTags(Version(j), {})]
  /\ Goto(j, "upload")
  /\ UNCHANGED <<registry, packaged, at, aliases, main, pushed, history>>

(* Bug: an item that fails is passed over.                                 *)
RequestFailsOn(j) ==
  /\ pc[j] \in {"list", "upload"}
  /\ Fault
  /\ Goto(j, "item")
  /\ Drop(j)
  /\ main' = [main EXCEPT ![j] = TRUE]
  /\ UNCHANGED <<registry, packaged, aliases, queue, pushed, history>>

(* A request that must succeed does not: a listing that is refused or does *)
(* not answer, an upload, the collection's metadata.                       *)
RequestFails(j) ==
  /\ pc[j] \in {"list", "upload", "metadata"}
  /\ Fault
  /\ End(j, "failed")
  /\ UNCHANGED <<registry, history>>

(* The layer and the config are uploaded.                                  *)
Upload(j) ==
  /\ pc[j] = "upload"
  /\ Goto(j, "push")
  /\ UNCHANGED <<registry, work, faults, history>>

(* The manifest of this job's upload.                                      *)
Manifest(j) == [version |-> Version(j), job |-> j]

(* PushReference: the manifest under one more tag.                         *)
PushTag(j) ==
  /\ pc[j] = "push" /\ queue[j] # <<>>
  /\ LET r == Target(j)
         t == Head(queue[j])
     IN tags' = [tags EXCEPT ![r] = [u \in DOMAIN @ \cup {t} |-> IF u = t THEN Manifest(j) ELSE @[u]]]
  /\ queue' = [queue EXCEPT ![j] = Tail(@)]
  /\ pushed' = [pushed EXCEPT ![j] = TRUE]
  /\ UNCHANGED <<collection, pc, packaged, at, aliases, main, faults, history>>

(* A tag that is refused is a warning; the next one is tried.              *)
PushTagFails(j) ==
  /\ pc[j] = "push" /\ queue[j] # <<>>
  /\ Fault
  /\ lost' = lost \cup {<<Target(j), Head(queue[j])>>}
  /\ queue' = [queue EXCEPT ![j] = Tail(@)]
  /\ UNCHANGED <<registry, pc, packaged, at, aliases, main, pushed, calm, whole>>

(* All tags are tried: none accepted is an error.  An item that was        *)
(* published now goes on to its aliases.                                   *)
EndPush(j) ==
  /\ pc[j] = "push" /\ queue[j] = <<>>
  /\ \/ ~pushed[j] /\ End(j, "failed")
     \/ /\ pushed[j] /\ Goto(j, IF main[j] THEN "aliases" ELSE "next")
        /\ aliases' = [aliases EXCEPT ![j] = IF main[j] THEN Item(j).legacyIds ELSE @]
        /\ pushed' = [pushed EXCEPT ![j] = FALSE]
        /\ UNCHANGED <<packaged, at, main, queue>>
  /\ UNCHANGED <<registry, faults, history>>

(* The next alias, if one is left.                                         *)
NextAlias(j) ==
  /\ pc[j] = "aliases"
  /\ \/ /\ aliases[j] = <<>>
        /\ Goto(j, "item") /\ Drop(j)
        /\ UNCHANGED <<packaged, aliases, main, queue, pushed>>
     \/ /\ aliases[j] # <<>> /\ Head(aliases[j]) \in Repos
        /\ Goto(j, "list") /\ main' = [main EXCEPT ![j] = FALSE]
        /\ UNCHANGED <<packaged, at, aliases, queue, pushed>>
     \/ /\ aliases[j] # <<>> /\ Head(aliases[j]) \notin Repos
        /\ End(j, "failed")
  /\ UNCHANGED <<registry, faults, history>>

(* publishOne is done with the item, there before, or with an alias.       *)
EndItem(j) ==
  /\ pc[j] = "next"
  /\ \/ main[j] /\ Goto(j, "item") /\ Drop(j) /\ UNCHANGED <<aliases, main>>
     \/ /\ ~main[j] /\ Goto(j, "aliases") /\ UNCHANGED at
        /\ aliases' = [aliases EXCEPT ![j] = Tail(@)] /\ main' = [main EXCEPT ![j] = TRUE]
  /\ UNCHANGED <<registry, packaged, queue, pushed, faults, history>>

(* PushCollectionMetadata, under latest.                                   *)
PushCollection(j) ==
  /\ pc[j] = "metadata"
  /\ collection' = packaged[j]
  /\ End(j, "done")
  /\ UNCHANGED <<tags, faults, history>>

(* The job is killed.                                                      *)
Kill(j) ==
  /\ Active(j)
  /\ Fault
  /\ End(j, "killed")
  /\ whole' = (whole /\ (pc[j] = "push" => queue[j] = <<>>))
  /\ UNCHANGED <<registry, lost, calm>>

Next ==
  \E j \in Jobs :
    \/ Begin(j) \/ NextItem(j) \/ ListTags(j) \/ Upload(j) \/ RequestFails(j)
    \/ PushTag(j) \/ PushTagFails(j) \/ EndPush(j) \/ NextAlias(j) \/ EndItem(j)
    \/ PushCollection(j) \/ Kill(j)

Spec == Init /\ [][Next]_vars

-----------------------------------------------------------------------------
Tag == {t \in Seq(Nat) : Len(t) <= 3}
Labels == {"idle", "item", "list", "upload", "push", "aliases", "next", "metadata",
           "done", "failed", "killed"}
Versions == {t \in Tag : Semantic(t)}
Exact(r) == {t \in DOMAIN tags[r] : Semantic(t)}

(* Every manifest is some job's and stands for a semantic version; only    *)
(* the tags of that version name it (PushArtifact, publishOne).            *)
TypeOK ==
  /\ \A r \in Repos : \A t \in DOMAIN tags[r] :
       /\ tags[r][t].version \in Versions /\ tags[r][t].job \in Jobs
       /\ IsPrefix(t, tags[r][t].version)
  /\ collection \in Collections \cup {<<>>}
  /\ pc \in [Jobs -> Labels]
  /\ \A j \in Jobs : /\ packaged[j] \in Collections \cup {<<>>}
                      /\ at[j] \in 1 .. Len(packaged[j]) + 1
                      /\ queue[j] \in Seq(Tag)
                      /\ aliases[j] \in Seq(STRING)
  /\ main \in [Jobs -> BOOLEAN] /\ pushed \in [Jobs -> BOOLEAN]
  /\ faults \in 0 .. MaxFaults
  /\ lost \subseteq (Repos \X Tag) /\ calm \in BOOLEAN /\ whole \in BOOLEAN

(* Once a job's tags are all pushed, every floating tag names the highest  *)
(* published version of its range, if jobs did not overlap, none was       *)
(* killed amid its tags and the registry refused none of them              *)
(* (SemanticTags: "only included when the new version is the highest").    *)
FloatsHighest ==
  (calm /\ whole /\ lost = {} /\ \A j \in Jobs : pc[j] = "push" => queue[j] = <<>>) =>
    \A r \in Repos : \A v \in Exact(r) : \A t \in {Latest, Major(v), Minor(v)} :
      /\ t \in DOMAIN tags[r]
      /\ \A w \in Exact(r) : IsPrefix(t, w) => tags[r][t].version = w \/ Newer(tags[r][t].version, w)

(* No job replaces a version that is published, unless two overlap: one    *)
(* that is listed is skipped, and a listing that fails ends the job        *)
(* (IsNotFound, publishOne).  Killed jobs and lost tags change nothing.    *)
ImmutableVersions ==
  [][calm => \A r \in Repos : \A v \in Exact(r) : v \in DOMAIN tags'[r] /\ tags'[r][v] = tags[r][v]]_vars

(* The collection's metadata names no version that cannot be fetched,      *)
(* except where the push of its own tag was refused: it comes after every  *)
(* item, and an item that fails ends the job (publishCollectionWith).      *)
CollectionIsBacked ==
  \A i \in DOMAIN collection :
    LET item == collection[i] IN
      item.version # NoVersion =>
        item.version \in DOMAIN tags[item.id] \/ <<item.id, item.version>> \in lost

(* "a re-publish of an older version never moves latest/major/major.minor  *)
(* backwards" (SemanticTags), here of jobs that do not overlap.            *)
FloatsNeverGoBack ==
  [][calm => \A r \in Repos : \A t \in DOMAIN tags[r] :
       t \in DOMAIN tags'[r] /\ ~Newer(tags[r][t].version, tags'[r][t].version)]_vars
=============================================================================
