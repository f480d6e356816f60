------------------------------ MODULE Lockfile ------------------------------
(***************************************************************************)
(* devcontainer-lock.json: features/lockfile.go, and the commands that     *)
(* resolve Features with it (cli/feature_install.go, cli/compose_up.go,    *)
(* cli/outdated.go's upgrade, cli/features_resolve_deps.go).  A run reads  *)
(* the file, fetches the configured Features and their dependencies at the *)
(* digests it pins, and then checks or rewrites it.  Runs share the file   *)
(* and the registry, without a lock on either.                             *)
(*                                                                         *)
(* An id is the number of a reference in the order of their names, a       *)
(* digest the number of a version.  A dependency has the same options      *)
(* wherever it is asked for.  Local Features are never in the file; of     *)
(* them only that there are any, when there are no others, is modelled.    *)
(* The soft dependencies, fetched for their legacyIds only, are left out.  *)
(***************************************************************************)
EXTENDS Integers, Sequences, FiniteSets, SequencesExt

CONSTANTS
  Runs,        \* the runs of the CLI
  Ids,         \* the OCI Features and tarballs a configuration can name
  Tarballs,    \* those of them that are direct tarballs
  Digests,     \* the digests a version can have
  Needs,       \* Needs[id][digest]: its dependsOn
  Configs,     \* the sets of Features a configuration can have
  Extras,      \* the sets of Features --additional-features can give
  Written,     \* the lockfiles an editor may have left
  MaxActive,   \* bound: runs that overlap
  MaxMoves,    \* bound: tags moved
  MaxFaults    \* bound: failures and kills

None == 0   \* an entry without an integrity
Bad == -1   \* an integrity no reference can be made of
Pins == Digests \cup {None, Bad}

ASSUME IdsAssumption == Ids \subseteq Nat /\ Tarballs \subseteq Ids
ASSUME DigestsAssumption == Digests \subseteq Nat \ {0}
ASSUME NeedsAssumption == Needs \in [Ids -> [Digests -> SUBSET Ids]]
ASSUME ConfigsAssumption == Configs \subseteq SUBSET Ids /\ Extras \subseteq SUBSET Ids
ASSUME BoundsAssumption == {MaxActive, MaxMoves, MaxFaults} \subseteq Nat

(* What the file holds: nothing readable ("blank" is the empty marker and  *)
(* JSON null, "garbage" whatever ReadLockfile refuses), pins in the text   *)
(* GenerateLockfile would give them ("own"), or pins in another ("other":  *)
(* entries in another order, or with another version or resolved).         *)
Holding(state, entries) == [state |-> state, entries |-> entries]
Empty(state) == Holding(state, <<>>)
ASSUME WrittenAssumption ==
  \A f \in Written : /\ f.state \in {"own", "other"} /\ DOMAIN f.entries \subseteq Ids
                     /\ \A id \in DOMAIN f.entries : f.entries[id] \in Pins

VARIABLES
  lock,    \* the file
  latest,  \* what each id's tag, or URI, names in the registry
  pc,      \* where each run is
  kind,    \* build (and up), frozen, resolve, unlocked (--no-lockfile), upgrade
  extra,   \* the ids it leaves out of the file
  pins,    \* the pins it read
  todo,    \* the worklist of its dependency graph
  built,   \* the digests it fetched, per id
  want,    \* the pins it is to write
  moves, faults,
  was,     \* history: the file when the run began
  alone,   \* history: has no other run been active during this one?
  calm     \* history: have no two runs overlapped?

vars == <<lock, latest, pc, kind, extra, pins, todo, built, want, moves, faults,
          was, alone, calm>>
work == <<kind, extra, pins, todo, built, want, was, alone>>

Ended == {"idle", "done", "failed", "killed"}
Active(r) == pc[r] \notin Ended
Reads(k) == k \in {"build", "frozen", "resolve"}
Writes(k) == k \in {"build", "frozen", "upgrade"}

Sorted(ids) == SetToSortSeq(ids, <)
Installed(r) == {id \in Ids : built[r][id] # {}}

Init ==
  /\ lock \in Written \cup {Empty("missing"), Empty("blank"), Empty("garbage")}
  /\ latest \in [Ids -> {CHOOSE d \in Digests : TRUE}]
  /\ pc = [r \in Runs |-> "idle"]
  /\ kind = [r \in Runs |-> "build"]
  /\ extra = [r \in Runs |-> {}]
  /\ pins = [r \in Runs |-> <<>>]
  /\ todo = [r \in Runs |-> <<>>]
  /\ built = [r \in Runs |-> [id \in Ids |-> {}]]
  /\ want = [r \in Runs |-> <<>>]
  /\ moves = 0 /\ faults = 0
  /\ was = [r \in Runs |-> Empty("missing")] /\ alone = [r \in Runs |-> TRUE] /\ calm = TRUE

Goto(r, where) == pc' = [pc EXCEPT ![r] = where]
Go(r, where) == Goto(r, where) /\ UNCHANGED work
Fault == faults < MaxFaults /\ faults' = faults + 1

(* The process ends, and with it what it held.                             *)
End(r, how) ==
  /\ Goto(r, how)
  /\ kind' = [kind EXCEPT ![r] = "build"] /\ extra' = [extra EXCEPT ![r] = {}]
  /\ pins' = [pins EXCEPT ![r] = <<>>] /\ todo' = [todo EXCEPT ![r] = <<>>]
  /\ built' = [built EXCEPT ![r] = [id \in Ids |-> {}]] /\ want' = [want EXCEPT ![r] = <<>>]
  /\ was' = [was EXCEPT ![r] = Empty("missing")] /\ alone' = [alone EXCEPT ![r] = TRUE]

(* A publisher moves a tag, or replaces what is behind a URI.              *)
Move(id) ==
  /\ moves < MaxMoves /\ moves' = moves + 1
  /\ \E d \in Digests \ {latest[id]} : latest' = [latest EXCEPT ![id] = d]
  /\ UNCHANGED <<lock, pc, work, faults, calm>>

(* The configuration is read, and the additional Features are merged into  *)
(* it: of them, those that it has not itself are left out of the file.     *)
Begin(r) ==
  /\ pc[r] = "idle" /\ Cardinality({s \in Runs : Active(s)}) < MaxActive
  /\ \E k \in {"build", "frozen", "resolve", "unlocked", "upgrade"},
        config \in Configs, x \in Extras :
       /\ k \in {"resolve", "upgrade"} => x = {}
       /\ kind' = [kind EXCEPT ![r] = k]
       /\ extra' = [extra EXCEPT ![r] = x \ config]
       /\ todo' = [todo EXCEPT ![r] = Sorted(config \cup x)]
       /\ Goto(r, IF Reads(k) THEN "read" ELSE "fetch")
  /\ was' = [was EXCEPT ![r] = lock]
  /\ LET others == {s \in Runs : Active(s)}
     IN /\ alone' = [s \in Runs |-> IF s = r THEN others = {} ELSE alone[s] /\ s \notin others]
        /\ calm' = (calm /\ others = {})
  /\ UNCHANGED <<lock, latest, pins, built, want, moves, faults>>

(* ReadLockfile: what is missing or blank pins nothing, garbage is an error. *)
ReadLockfile(r) ==
  /\ pc[r] = "read"
  /\ IF lock.state = "garbage"
     THEN End(r, "failed")
     ELSE /\ Goto(r, "fetch") /\ pins' = [pins EXCEPT ![r] = lock.entries]
          /\ UNCHANGED <<kind, extra, todo, built, want, was, alone>>
  /\ UNCHANGED <<lock, latest, moves, faults, calm>>

Pin(r, id) == IF id \in DOMAIN pins[r] THEN pins[r][id] ELSE None

(* Bug: a dependency is fetched without the lockfile.                      *)
FetchedUnpinned(r, id) ==
  IF id \in Tarballs \/ Pin(r, id) \notin Digests \/ Installed(r) # {} THEN latest[id] ELSE Pin(r, id)

(* The digest that is fetched: a tarball is what its URI gives; an OCI     *)
(* Feature is asked for by its pin, if a reference can be made of it.      *)
Fetched(r, id) ==
  IF id \in Tarballs \/ Pin(r, id) \notin Digests THEN latest[id] ELSE Pin(r, id)

(* verifyTarballDigest *)
Mismatched(r, id) == id \in Tarballs /\ Pin(r, id) \notin {None, latest[id]}

(* One node of the worklist.  Its dependencies are appended, unless the    *)
(* same Feature at the same digest is there already.                       *)
Fetch(r) ==
  /\ pc[r] = "fetch" /\ todo[r] # <<>>
  /\ LET id == Head(todo[r]) d == Fetched(r, id)
     IN /\ ~Mismatched(r, id)
        /\ built' = [built EXCEPT ![r][id] = @ \cup {d}]
        /\ todo' = [todo EXCEPT ![r] =
             Tail(@) \o IF d \in built[r][id] THEN <<>> ELSE Sorted(Needs[id][d])]
  /\ UNCHANGED <<lock, latest, pc, kind, extra, pins, want, moves, faults, was, alone, calm>>

DigestMismatch(r) ==
  /\ pc[r] = "fetch" /\ todo[r] # <<>> /\ Mismatched(r, Head(todo[r]))
  /\ End(r, "failed")
  /\ UNCHANGED <<lock, latest, moves, faults, calm>>

(* A request, an extraction or the installation order fails.               *)
FetchFails(r) ==
  /\ pc[r] = "fetch" /\ Fault /\ End(r, "failed")
  /\ UNCHANGED <<lock, latest, moves, calm>>

(* GenerateLockfile: the last one installed, where an id has two digests.  *)
GenerateLockfile(r) ==
  {f \in [Installed(r) \ extra[r] -> Digests] : \A id \in DOMAIN f : f[id] \in built[r][id]}

(* All are fetched.  Without Features there is nothing to lock, which is   *)
(* an error of upgrade; with local ones only the lockfile is an empty one. *)
(* A --dry-run of upgrade and the kinds that do not write end.             *)
Resolved(r) ==
  /\ pc[r] = "fetch" /\ todo[r] = <<>>
  /\ \/ /\ Installed(r) = {}  \* no Features
        /\ End(r, IF kind[r] = "upgrade" THEN "failed" ELSE "done")
     \/ /\ kind[r] = "upgrade" \/ ~Writes(kind[r])  \* --dry-run
        /\ End(r, "done")
     \/ /\ Writes(kind[r])
        /\ \E f \in GenerateLockfile(r) : want' = [want EXCEPT ![r] = f]
        /\ Goto(r, IF kind[r] = "upgrade" THEN "empty" ELSE "compare")
        /\ UNCHANGED <<kind, extra, pins, todo, built, was, alone>>
  /\ UNCHANGED <<lock, latest, moves, faults, calm>>

(* upgrade truncates the file, so that its text is always rewritten.       *)
EmptyLockfile(r) ==
  /\ pc[r] = "empty"
  /\ lock' = Empty("blank") /\ Go(r, "compare")
  /\ UNCHANGED <<latest, moves, faults, calm>>

Unchanged(r) == lock = Holding("own", want[r])

(* Bug: a frozen run with no lockfile checks nothing.                      *)
CompareIfThere(r) ==
  /\ pc[r] = "compare"
  /\ IF Unchanged(r) \/ (kind[r] = "frozen" /\ lock.state = "missing") THEN End(r, "done")
     ELSE IF kind[r] = "frozen" THEN End(r, "failed") ELSE Go(r, "truncate")
  /\ UNCHANGED <<lock, latest, moves, faults, calm>>

(* WriteLockfile up to its WriteFile: the file is compared with what it    *)
(* should hold; a frozen run fails for a file that is missing or differs.  *)
Compare(r) ==
  /\ pc[r] = "compare"
  /\ IF Unchanged(r) THEN End(r, "done")
     ELSE IF kind[r] = "frozen" THEN End(r, "failed") ELSE Go(r, "truncate")
  /\ UNCHANGED <<lock, latest, moves, faults, calm>>

(* Bug: the file is opened without truncating it.                          *)
TruncateNot(r) ==
  /\ pc[r] = "truncate"
  /\ lock' = (IF lock.state = "missing" THEN Empty("blank") ELSE lock) /\ Go(r, "write")
  /\ UNCHANGED <<latest, moves, faults, calm>>

(* os.WriteFile opens the file and truncates it ...                        *)
Truncate(r) ==
  /\ pc[r] = "truncate"
  /\ lock' = Empty("blank") /\ Go(r, "write")
  /\ UNCHANGED <<latest, moves, faults, calm>>

(* ... and writes from its start.  What another run wrote there since is   *)
(* overwritten as far as the new text reaches.                             *)
WriteText(r) ==
  /\ pc[r] = "write"
  /\ \/ lock' = Holding("own", want[r])
     \/ lock.state # "blank" /\ ~Unchanged(r) /\ lock' = Empty("garbage")
  /\ End(r, "done")
  /\ UNCHANGED <<latest, moves, faults, calm>>

(* The disk is full.                                                       *)
WriteFails(r) ==
  /\ pc[r] = "write" /\ Fault
  /\ lock' \in {lock, Empty("garbage")} /\ End(r, "failed")
  /\ UNCHANGED <<latest, moves, calm>>

Kill(r) ==
  /\ Active(r) /\ Fault /\ End(r, "killed")
  /\ UNCHANGED <<lock, latest, moves, calm>>

Step(r) ==
  \/ Begin(r) \/ ReadLockfile(r) \/ Fetch(r) \/ DigestMismatch(r) \/ FetchFails(r)
  \/ Resolved(r) \/ EmptyLockfile(r) \/ Compare(r) \/ Truncate(r) \/ WriteText(r)
  \/ WriteFails(r) \/ Kill(r)

Next == (\E r \in Runs : Step(r)) \/ (\E id \in Ids : Move(id))

Spec == Init /\ [][Next]_vars

-----------------------------------------------------------------------------
Entries(f) == /\ DOMAIN f \subseteq Ids
              /\ \A id \in DOMAIN f : f[id] \in Pins
File(f) == /\ f.state \in {"missing", "blank", "garbage", "own", "other"}
           /\ Entries(f.entries)
           /\ f.state \in {"missing", "blank", "garbage"} => f.entries = <<>>

(* Every variable has its type; what is fetched, and what is to be         *)
(* written, is a digest and never the mere text of a pin.                  *)
TypeOK ==
  /\ File(lock) /\ latest \in [Ids -> Digests]
  /\ pc \in [Runs -> Ended \cup {"read", "fetch", "empty", "compare", "truncate", "write"}]
  /\ kind \in [Runs -> {"build", "frozen", "resolve", "unlocked", "upgrade"}]
  /\ extra \in [Runs -> SUBSET Ids]
  /\ DOMAIN pins = Runs /\ \A r \in Runs : Entries(pins[r])
  /\ todo \in [Runs -> Seq(Ids)] /\ built \in [Runs -> [Ids -> SUBSET Digests]]
  /\ DOMAIN want = Runs
  /\ \A r \in Runs : DOMAIN want[r] \subseteq Ids /\ \A id \in DOMAIN want[r] : want[r][id] \in Digests
  /\ moves \in 0..MaxMoves /\ faults \in 0..MaxFaults
  /\ DOMAIN was = Runs /\ \A r \in Runs : File(was[r])
  /\ alone \in [Runs -> BOOLEAN] /\ calm \in BOOLEAN

Finishes(r) == Active(r) /\ pc'[r] = "done" /\ Installed(r) # {}

(* A frozen run that nobody disturbed succeeds only if it installed        *)
(* exactly what the file it found pins, whatever tags moved before or      *)
(* meanwhile (WriteOptions.Frozen), and it leaves the file as it was.      *)
FrozenIsLocked ==
  [][\A r \in Runs : Finishes(r) /\ kind[r] = "frozen" /\ alone[r] =>
       /\ lock' = was[r] /\ lock.state = "own"
       /\ \A id \in Installed(r) \ extra[r] :
            id \in DOMAIN lock.entries /\ built[r][id] = {lock.entries[id]}]_vars

(* A build that nobody disturbed ends with a lockfile of exactly the       *)
(* Features and dependencies it installed, at digests it installed, and    *)
(* every one of them that was pinned before, by upgrade, by an earlier     *)
(* build or by hand, keeps its pin and was installed at it (processInstall-*)
(* Feature's "reproducible resolution").                                   *)
BuildKeepsPins ==
  [][\A r \in Runs : Finishes(r) /\ kind[r] = "build" /\ alone[r] =>
       /\ lock'.state = "own" /\ DOMAIN lock'.entries = Installed(r) \ extra[r]
       /\ \A id \in Installed(r) :
            LET before == IF id \in DOMAIN was[r].entries THEN was[r].entries[id] ELSE None
            IN /\ id \notin extra[r] => lock'.entries[id] \in built[r][id]
               /\ before \in Digests => built[r][id] = {before}]_vars

(* As long as runs do not overlap, only a failing write makes the file     *)
(* unreadable: no sequence of runs of any kind does, and no kill.          *)
StaysReadable ==
  [][calm /\ lock.state # "garbage" /\ (\A r \in Runs : ~WriteFails(r)) => lock'.state # "garbage"]_vars
=============================================================================
