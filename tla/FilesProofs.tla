---------------------------- MODULE FilesProofs ----------------------------
(***************************************************************************)
(* What processes do to the two files they share: runs to                  *)
(* devcontainer-lock.json, for any number of runs, any Features and        *)
(* dependencies and any file they may find; and any number of processes,   *)
(* whatever fails, to the cache of the control manifest.                   *)
(***************************************************************************)
EXTENDS Lockfile, ControlManifest, TLAPS

---------------------------------------------------------------------------
(* Lockfile: FrozenIsLocked, BuildKeepsPins and StaysReadable.             *)

Labels == Ended \cup {"read", "fetch", "empty", "compare", "truncate", "write"}
Types ==
  /\ pc \in [Runs -> Labels]
  /\ DOMAIN kind = Runs /\ DOMAIN extra = Runs /\ DOMAIN pins = Runs /\ DOMAIN todo = Runs
  /\ DOMAIN want = Runs /\ DOMAIN was = Runs /\ DOMAIN built = Runs
  /\ \A r \in Runs : DOMAIN built[r] = Ids
  /\ alone \in [Runs -> BOOLEAN] /\ calm \in BOOLEAN

(* What a run that reads and writes the file holds: it fetched by the pins *)
(* it read, and it is to write what it fetched.                            *)
Pinned(r) == kind[r] \in {"build", "frozen"}
ByPins(r) == \A id \in Ids : Pin(r, id) \in Digests => built[r][id] \subseteq {Pin(r, id)}
Wanted(r) == /\ DOMAIN want[r] = Installed(r) \ extra[r]
             /\ \A id \in DOMAIN want[r] : want[r][id] \in built[r][id] \cap Digests
Holds(r) ==
  /\ pc[r] \in Ended \cup {"read"} => \A id \in Ids : built[r][id] = {}
  /\ pc[r] \in {"fetch", "compare", "truncate", "write"} /\ Pinned(r) => ByPins(r)
  /\ pc[r] \in {"fetch", "compare", "truncate", "write"} /\ Pinned(r) /\ alone[r] =>
       pins[r] = was[r].entries
  /\ pc[r] \in {"compare", "truncate", "write"} => Wanted(r)
  /\ pc[r] \in {"truncate", "write"} => kind[r] # "frozen"
  /\ pc[r] = "empty" => Wanted(r) /\ kind[r] = "upgrade"

(* The file, for a run that nobody disturbs: it is as it was until the run *)
(* truncates it, and blank until it is written.                            *)
Finds(r) ==
  /\ pc[r] \in {"read", "fetch", "compare"} /\ Pinned(r) /\ alone[r] => lock = was[r]
  /\ pc[r] = "write" /\ (alone[r] \/ calm) => lock.state = "blank"

Alone(r) == alone[r] /\ Active(r) => \A s \in Runs : Active(s) => s = r
Calm == calm => \A r, s \in Runs : Active(r) /\ Active(s) => r = s

IInv == Types /\ (\A r \in Runs : Holds(r) /\ Finds(r) /\ Alone(r)) /\ Calm

-----------------------------------------------------------------------------
(* What a run holds does not change with another run's variables.          *)
LEMMA Frame ==
  ASSUME NEW s \in Runs, Holds(s), pc'[s] = pc[s], kind'[s] = kind[s], extra'[s] = extra[s],
         pins'[s] = pins[s], built'[s] = built[s], want'[s] = want[s], was'[s] = was[s],
         alone'[s] => alone[s]
  PROVE  Holds(s)'
  BY DEF Holds, Pinned, ByPins, Wanted, Pin, Installed

(* Every run is idle and nothing is fetched at first.                      *)
LEMMA Initial == Init => IInv
  BY DEF Init, IInv, Types, Labels, Ended, Holds, Finds, Alone, Calm, Active

(* A step of an active run r leaves IInv to be shown of r alone: whoever   *)
(* else is active is not undisturbed, and then runs have overlapped.       *)
LEMMA Others ==
  ASSUME IInv, NEW r \in Runs, Active(r), Types', calm' = calm,
         \A s \in Runs \ {r} :
           /\ pc'[s] = pc[s] /\ kind'[s] = kind[s] /\ extra'[s] = extra[s] /\ pins'[s] = pins[s]
           /\ built'[s] = built[s] /\ want'[s] = want[s] /\ was'[s] = was[s] /\ alone'[s] = alone[s],
         pc'[r] \in Ended \/ alone'[r] = alone[r],
         Holds(r)', Finds(r)'
  PROVE  IInv'
  <1>1. \A s \in Runs : Active(s)' => Active(s)
    BY DEF Active
  <1>2. ASSUME NEW s \in Runs, s # r PROVE (Holds(s) /\ Finds(s) /\ Alone(s))'
    <2>1. Holds(s)'
      BY <1>2, Frame DEF IInv
    <2>2. Active(s) => ~alone[s] /\ ~calm
      BY <1>2 DEF IInv, Alone, Calm
    <2>3. Finds(s)'
      BY <1>2, <2>2 DEF Finds, Active, Ended
    <2>4. Alone(s)'
      BY <1>1, <1>2, <2>2 DEF Alone
    <2>5. QED
      BY <2>1, <2>3, <2>4
  <1>3. Alone(r)'
    BY <1>1 DEF Alone, IInv, Active
  <1>4. Calm'
    BY <1>1 DEF Calm, IInv
  <1>5. QED
    BY <1>2, <1>3, <1>4 DEF IInv

(* A run that ends keeps IInv, whatever becomes of the file.               *)
LEMMA Ends ==
  ASSUME IInv, NEW r \in Runs, Active(r), NEW how \in {"done", "failed", "killed"}, End(r, how),
         calm' = calm
  PROVE  IInv'
  <1>1. Types'
    <2>1. alone' \in [Runs -> BOOLEAN]
      BY Zenon DEF IInv, Types, End
    <2>2. QED
      BY <2>1 DEF IInv, Types, End, Goto, Labels, Ended
  <1>2. pc'[r] = how /\ \A id \in Ids : built'[r][id] = {}
    BY DEF IInv, Types, End, Goto
  <1>3. (Holds(r) /\ Finds(r))'
    BY <1>2 DEF Holds, Finds
  <1>4. \A s \in Runs \ {r} :
           /\ pc'[s] = pc[s] /\ kind'[s] = kind[s] /\ extra'[s] = extra[s] /\ pins'[s] = pins[s]
           /\ built'[s] = built[s] /\ want'[s] = want[s] /\ was'[s] = was[s]
    BY DEF IInv, Types, End, Goto
  <1>5. \A s \in Runs \ {r} : alone'[s] = alone[s]
    BY DEF IInv, Types, End
  <1>6. pc'[r] \in Ended
    BY <1>2 DEF Ended
  <1>7. QED
    BY <1>1, <1>3, <1>4, <1>5, <1>6, Others

(* A run that goes on with what it holds keeps IInv if the file allows it. *)
LEMMA Goes ==
  ASSUME IInv, NEW r \in Runs, Active(r), NEW where \in Labels \ Ended, Go(r, where), calm' = calm,
         Holds(r)', Finds(r)'
  PROVE  IInv'
  <1>1. Types'
    BY DEF IInv, Types, Go, Goto, work
  <1>2. QED
    BY <1>1, Others DEF Go, Goto, work, IInv, Types

(* Begin keeps IInv: from here on, whoever was active is disturbed.        *)
LEMMA BeginKeeps == ASSUME IInv, NEW r \in Runs, Begin(r) PROVE IInv'
  <1> DEFINE others == {s \in Runs : Active(s)}
  <1>1. PICK k \in {"build", "frozen", "resolve", "unlocked", "upgrade"}, x \in Extras, config \in Configs :
          /\ kind' = [kind EXCEPT ![r] = k]
          /\ extra' = [extra EXCEPT ![r] = x \ config]
          /\ todo' = [todo EXCEPT ![r] = Sorted(config \cup x)]
          /\ pc' = [pc EXCEPT ![r] = IF Reads(k) THEN "read" ELSE "fetch"]
    BY DEF Begin, Goto
  <1>2. /\ pc[r] = "idle" /\ was' = [was EXCEPT ![r] = lock]
        /\ alone' = [s \in Runs |-> IF s = r THEN others = {} ELSE alone[s] /\ s \notin others]
        /\ calm' = (calm /\ others = {})
        /\ UNCHANGED <<lock, latest, pins, built, want, moves, faults>>
    BY DEF Begin
  <1>3. ~Active(r)
    BY <1>2 DEF Active, Ended
  <1>4. Types'
    <2>1. alone' \in [Runs -> BOOLEAN] /\ calm' \in BOOLEAN
      BY <1>2, Zenon DEF IInv, Types
    <2>2. (IF Reads(k) THEN "read" ELSE "fetch") \in Labels
      BY DEF Labels
    <2>3. QED
      BY <1>1, <1>2, <2>1, <2>2 DEF IInv, Types
  <1>5. /\ pc'[r] = IF Reads(k) THEN "read" ELSE "fetch"
        /\ kind'[r] = k /\ was'[r] = lock /\ built'[r] = built[r]
    BY <1>1, <1>2 DEF IInv, Types
  <1>6. \A id \in Ids : built[r][id] = {}
    BY <1>2 DEF IInv, Holds, Ended
  <1>7. (Holds(r) /\ Finds(r))'
    BY <1>2, <1>5, <1>6 DEF Holds, Finds, Pinned, Reads, Ended, ByPins
  <1>8. ASSUME NEW s \in Runs, s # r PROVE (Holds(s) /\ Finds(s))'
    <2>1. /\ pc'[s] = pc[s] /\ kind'[s] = kind[s] /\ extra'[s] = extra[s] /\ pins'[s] = pins[s]
          /\ built'[s] = built[s] /\ want'[s] = want[s] /\ was'[s] = was[s]
      BY <1>1, <1>2, <1>8 DEF IInv, Types
    <2>2. alone'[s] => alone[s]
      BY <1>2, <1>8, Zenon
    <2>3. calm' => calm
      BY <1>2, Zenon
    <2>4. lock' = lock
      BY <1>2
    <2>5. Holds(s)'
      BY <2>1, <2>2, Frame DEF IInv
    <2>6. Finds(s)'
      BY <2>1, <2>2, <2>3, <2>4 DEF Finds, Pinned, IInv
    <2>7. QED
      BY <2>5, <2>6
  <1>9. \A s \in Runs : Active(s)' => s = r \/ s \in others
    BY <1>1 DEF Active, IInv, Types
  <1>10. ASSUME NEW s \in Runs PROVE Alone(s)'
    <2>1. CASE s = r
      <3>1. alone'[r] => others = {}
        BY <1>2, Zenon
      <3>2. QED
        BY <1>9, <2>1, <3>1 DEF Alone
    <2>2. CASE s # r
      <3>1. alone'[s] => s \notin others
        BY <1>2, <2>2, Zenon
      <3>2. QED
        BY <1>9, <2>2, <3>1 DEF Alone
    <2>3. QED
      BY <2>1, <2>2
  <1>11. Calm'
    <2>1. calm' => others = {}
      BY <1>2, Zenon
    <2>2. QED
      BY <1>9, <2>1 DEF Calm
  <1>12. QED
    BY <1>4, <1>7, <1>8, <1>10, <1>11 DEF IInv

(* ReadLockfile keeps IInv: the pins are those of the file it found.       *)
LEMMA ReadLockfileKeeps == ASSUME IInv, NEW r \in Runs, ReadLockfile(r) PROVE IInv'
  <1>1. Active(r) /\ pc[r] = "read" /\ lock' = lock /\ calm' = calm
    BY DEF ReadLockfile, Active, Ended
  <1>2. CASE End(r, "failed")
    BY <1>1, <1>2, Ends
  <1>3. CASE /\ Goto(r, "fetch") /\ pins' = [pins EXCEPT ![r] = lock.entries]
             /\ UNCHANGED <<kind, extra, todo, built, want, was, alone>>
    <2>1. Types' /\ pc' = [pc EXCEPT ![r] = "fetch"] /\ pc'[r] = "fetch" /\ pins'[r] = lock.entries
      BY <1>1, <1>3 DEF IInv, Types, Goto, Labels
    <2>2. (Holds(r) /\ Finds(r))'
      BY <1>1, <1>3, <2>1 DEF IInv, Holds, Finds, Pinned, ByPins, Ended
    <2>3. QED
      BY <1>1, <1>3, <2>1, <2>2, Others DEF IInv, Types
  <1>4. QED
    BY <1>2, <1>3 DEF ReadLockfile

(* Fetch keeps IInv: what is pinned is fetched at its pin, a tarball       *)
(* because verifyTarballDigest lets no other pass.                         *)
LEMMA FetchKeeps == ASSUME IInv, NEW r \in Runs, Fetch(r) PROVE IInv'
  <1> DEFINE id == Head(todo[r])
             d == Fetched(r, id)
  <1>1. /\ pc[r] = "fetch" /\ Active(r) /\ ~Mismatched(r, id)
        /\ built' = [built EXCEPT ![r][id] = @ \cup {d}]
        /\ todo' = [todo EXCEPT ![r] = Tail(@) \o IF d \in built[r][id] THEN <<>> ELSE Sorted(Needs[id][d])]
        /\ UNCHANGED <<lock, latest, pc, kind, extra, pins, want, moves, faults, was, alone, calm>>
    BY DEF Fetch, Active, Ended
  <1>2. Pin(r, id) \in Digests => d = Pin(r, id)
    BY <1>1, DigestsAssumption DEF Fetched, Mismatched, None
  <1> HIDE DEF d, id
  <1>3. Types'
    BY <1>1 DEF IInv, Types
  <1>4. /\ \A i \in Ids : built'[r][i] \subseteq built[r][i] \cup (IF i = id THEN {d} ELSE {})
        /\ \A s \in Runs \ {r} : built'[s] = built[s]
    BY <1>1 DEF IInv, Types
  <1>5. ASSUME Pinned(r) PROVE ByPins(r)'
    BY <1>1, <1>2, <1>4, <1>5 DEF IInv, Holds, ByPins, Pin
  <1>6. (Holds(r) /\ Finds(r))'
    BY <1>1, <1>5 DEF IInv, Holds, Finds, Pinned, Ended
  <1>7. QED
    BY <1>1, <1>3, <1>4, <1>6, Others

(* Resolved keeps IInv: GenerateLockfile takes what was fetched.           *)
LEMMA ResolvedKeeps == ASSUME IInv, NEW r \in Runs, Resolved(r) PROVE IInv'
  <1>1. Active(r) /\ pc[r] = "fetch" /\ lock' = lock /\ calm' = calm
    BY DEF Resolved, Active, Ended
  <1>2. CASE \E how \in {"done", "failed"} : End(r, how)
    BY <1>1, <1>2, Ends
  <1>3. CASE /\ \E f \in GenerateLockfile(r) : want' = [want EXCEPT ![r] = f]
             /\ Goto(r, IF kind[r] = "upgrade" THEN "empty" ELSE "compare")
             /\ UNCHANGED <<kind, extra, pins, todo, built, was, alone>>
    <2>1. /\ Types' /\ pc' = [pc EXCEPT ![r] = IF kind[r] = "upgrade" THEN "empty" ELSE "compare"]
          /\ pc'[r] = IF kind[r] = "upgrade" THEN "empty" ELSE "compare"
          /\ \A s \in Runs \ {r} : want'[s] = want[s]
      BY <1>1, <1>3 DEF IInv, Types, Goto, Labels
    <2>2. want'[r] \in GenerateLockfile(r)
      BY <1>3 DEF IInv, Types
    <2>3. Wanted(r)'
      BY <1>3, <2>2 DEF Wanted, GenerateLockfile, Installed
    <2>4. (Holds(r) /\ Finds(r))'
      BY <1>1, <1>3, <2>1, <2>3 DEF IInv, Holds, Finds, Pinned, ByPins, Pin, Ended
    <2>5. QED
      BY <1>1, <1>3, <2>1, <2>4, Others DEF IInv, Types
  <1>4. QED
    BY <1>2, <1>3 DEF Resolved

(* EmptyLockfile keeps IInv: only upgrade does it.                         *)
LEMMA EmptyLockfileKeeps == ASSUME IInv, NEW r \in Runs, EmptyLockfile(r) PROVE IInv'
  <1>1. /\ Active(r) /\ pc[r] = "empty" /\ calm' = calm /\ Go(r, "compare") /\ kind[r] = "upgrade"
        /\ pc'[r] = "compare" /\ UNCHANGED work
    BY DEF EmptyLockfile, Active, Ended, IInv, Holds, Types, Go, Goto
  <1>2. (Holds(r) /\ Finds(r))'
    BY <1>1 DEF IInv, Holds, Finds, Pinned, Wanted, Installed, Ended, work
  <1>3. QED
    BY <1>1, <1>2, Goes DEF Labels, Ended

(* Compare keeps IInv: a frozen run never goes on to write.                *)
LEMMA CompareKeeps == ASSUME IInv, NEW r \in Runs, Compare(r) PROVE IInv'
  <1>1. Active(r) /\ pc[r] = "compare" /\ lock' = lock /\ calm' = calm
    BY DEF Compare, Active, Ended
  <1>2. CASE \E how \in {"done", "failed"} : End(r, how)
    BY <1>1, <1>2, Ends
  <1>3. CASE kind[r] # "frozen" /\ Go(r, "truncate")
    <2>1. pc'[r] = "truncate" /\ UNCHANGED work
      BY <1>3 DEF Go, Goto, IInv, Types
    <2>2. (Holds(r) /\ Finds(r))'
      BY <1>1, <1>3, <2>1 DEF IInv, Holds, Finds, Pinned, ByPins, Pin, Wanted, Installed, Ended, work
    <2>3. QED
      BY <1>1, <1>3, <2>2, Goes DEF Labels, Ended
  <1>4. QED
    BY <1>2, <1>3 DEF Compare

(* Truncate keeps IInv: the file is blank now.                             *)
LEMMA TruncateKeeps == ASSUME IInv, NEW r \in Runs, Truncate(r) PROVE IInv'
  <1>1. /\ Active(r) /\ pc[r] = "truncate" /\ calm' = calm /\ Go(r, "write")
        /\ pc'[r] = "write" /\ UNCHANGED work /\ lock'.state = "blank"
    BY DEF Truncate, Active, Ended, IInv, Types, Go, Goto, Empty, Holding
  <1>2. (Holds(r) /\ Finds(r))'
    BY <1>1 DEF IInv, Holds, Finds, Pinned, ByPins, Pin, Wanted, Installed, Ended, work
  <1>3. QED
    BY <1>1, <1>2, Goes DEF Labels, Ended

(* Move keeps IInv: nothing a run holds depends on a tag.                  *)
LEMMA MoveKeeps == ASSUME IInv, NEW id \in Ids, Move(id) PROVE IInv'
  BY DEF Move, work, IInv, Types, Holds, Finds, Alone, Calm, Pinned, ByPins, Wanted, Pin, Installed, Active

(* IInv is inductive, hence an invariant.                                  *)
LEMMA Invariant == Spec => []IInv
  <1>1. IInv /\ [Next]_vars => IInv'
    <2> SUFFICES ASSUME IInv, [Next]_vars PROVE IInv'
      OBVIOUS
    <2>1. CASE UNCHANGED vars
      BY <2>1 DEF vars, IInv, Types, Holds, Finds, Alone, Calm, Pinned, ByPins, Wanted, Pin, Installed, Active
    <2>2. ASSUME NEW r \in Runs,
                 DigestMismatch(r) \/ FetchFails(r) \/ WriteText(r) \/ WriteFails(r) \/ Kill(r)
          PROVE  IInv'
      <3>1. Active(r) /\ calm' = calm /\ \E how \in {"done", "failed", "killed"} : End(r, how)
        BY <2>2 DEF DigestMismatch, FetchFails, WriteText, WriteFails, Kill, Active, Ended
      <3>2. QED
        BY <3>1, Ends
    <2>3. QED
      BY <2>1, <2>2, BeginKeeps, ReadLockfileKeeps, FetchKeeps, ResolvedKeeps, EmptyLockfileKeeps,
         CompareKeeps, TruncateKeeps, MoveKeeps DEF Next, Step
  <1>2. QED
    BY <1>1, Initial, PTL DEF Spec

-----------------------------------------------------------------------------
(* Which steps take a run from active to done, and how the file is then.   *)
LEMMA Finishing ==
  ASSUME IInv, Next, NEW r \in Runs, Finishes(r), kind[r] \in {"build", "frozen"}
  PROVE  \/ pc[r] = "compare" /\ Unchanged(r) /\ lock' = lock
         \/ WriteText(r)
  <1>1. pc'[r] # pc[r] /\ pc'[r] = "done" /\ Active(r)
    BY DEF Finishes, Active, Ended
  <1>2. ASSUME NEW s \in Runs, Step(s) PROVE s = r
    <2>1. \A t \in Runs \ {s} : pc'[t] = pc[t]
      BY <1>2 DEF Step, Begin, ReadLockfile, Fetch, DigestMismatch, FetchFails, Resolved, EmptyLockfile,
                  Compare, Truncate, WriteText, WriteFails, Kill, End, Go, Goto, IInv, Types
    <2>2. QED
      BY <1>1, <2>1
  <1>3. ~\E id \in Ids : Move(id)
    BY <1>1 DEF Move
  <1>4. Step(r)
    BY <1>2, <1>3 DEF Next
  <1>5. ~(Begin(r) \/ ReadLockfile(r) \/ Fetch(r) \/ DigestMismatch(r) \/ FetchFails(r) \/ EmptyLockfile(r)
          \/ Truncate(r) \/ WriteFails(r) \/ Kill(r))
    <2>1. ASSUME NEW w, pc' = [pc EXCEPT ![r] = w] PROVE w = "done"
      BY <1>1, <2>1 DEF IInv, Types
    <2>2. ~(Begin(r) \/ ReadLockfile(r))
      BY <2>1 DEF Begin, ReadLockfile, End, Goto
    <2>3. ~Fetch(r)
      BY <1>1 DEF Fetch
    <2>4. ~(DigestMismatch(r) \/ FetchFails(r) \/ EmptyLockfile(r) \/ Truncate(r) \/ WriteFails(r) \/ Kill(r))
      BY <2>1 DEF DigestMismatch, FetchFails, EmptyLockfile, Truncate, WriteFails, Kill, End, Go, Goto
    <2>5. QED
      BY <2>2, <2>3, <2>4
  <1>6. ~Resolved(r)
    BY <1>1 DEF Resolved, Finishes, Writes, Goto, End, IInv, Types
  <1>7. ASSUME Compare(r) PROVE pc[r] = "compare" /\ Unchanged(r) /\ lock' = lock
    BY <1>1, <1>7 DEF Compare, Go, Goto, End, IInv, Types
  <1>8. QED
    BY <1>4, <1>5, <1>6, <1>7 DEF Step

(* A frozen run nobody disturbed succeeds only if it installed exactly     *)
(* what the file it found pins, and leaves the file as it was              *)
(* (WriteLockfile with Frozen), of any Features and whatever tags move.    *)
THEOREM FrozenLocked == Spec => FrozenIsLocked
  <1> DEFINE A(r) == Finishes(r) /\ kind[r] = "frozen" /\ alone[r] =>
                       /\ lock' = was[r] /\ lock.state = "own"
                       /\ \A id \in Installed(r) \ extra[r] :
                            id \in DOMAIN lock.entries /\ built[r][id] = {lock.entries[id]}
             B == \A r \in Runs : A(r)
  <1>1. IInv /\ [Next]_vars => [B]_vars
    <2> SUFFICES ASSUME IInv, Next, NEW r \in Runs, Finishes(r), kind[r] = "frozen", alone[r]
                 PROVE  /\ lock' = was[r] /\ lock.state = "own"
                        /\ \A id \in Installed(r) \ extra[r] :
                             id \in DOMAIN lock.entries /\ built[r][id] = {lock.entries[id]}
      BY DEF vars
    <2>1. pc[r] = "compare" /\ Unchanged(r) /\ lock' = lock
      BY Finishing DEF WriteText, IInv, Holds
    <2>2. /\ lock = was[r] /\ pins[r] = lock.entries /\ Wanted(r) /\ ByPins(r)
          /\ lock.state = "own" /\ lock.entries = want[r]
      BY <2>1 DEF IInv, Holds, Finds, Pinned, Unchanged, Holding
    <2>3. ASSUME NEW id \in Installed(r) \ extra[r]
          PROVE  id \in DOMAIN lock.entries /\ built[r][id] = {lock.entries[id]}
      <3>1. id \in Ids /\ id \in DOMAIN want[r] /\ Pin(r, id) = want[r][id]
            /\ want[r][id] \in built[r][id] \cap Digests
        BY <2>2, <2>3 DEF Wanted, Installed, Pin
      <3>2. QED
        BY <2>2, <3>1 DEF ByPins
    <2>4. QED
      BY <2>1, <2>2, <2>3
  <1>2. QED
    BY <1>1, Invariant, PTL DEF Spec, FrozenIsLocked

(* A build nobody disturbed locks exactly what it installed, and what was  *)
(* pinned before keeps its pin (processInstallFeature, GenerateLockfile,   *)
(* WriteLockfile), of any Features, dependencies and lockfiles.            *)
THEOREM BuildPinned == Spec => BuildKeepsPins
  <1> DEFINE Before(r, id) == IF id \in DOMAIN was[r].entries THEN was[r].entries[id] ELSE None
             A(r) == Finishes(r) /\ kind[r] = "build" /\ alone[r] =>
                       /\ lock'.state = "own" /\ DOMAIN lock'.entries = Installed(r) \ extra[r]
                       /\ \A id \in Installed(r) :
                            /\ id \notin extra[r] => lock'.entries[id] \in built[r][id]
                            /\ Before(r, id) \in Digests => built[r][id] = {Before(r, id)}
             B == \A r \in Runs : A(r)
  <1>1. IInv /\ [Next]_vars => [B]_vars
    <2> SUFFICES ASSUME IInv, Next, NEW r \in Runs, Finishes(r), kind[r] = "build", alone[r]
                 PROVE  /\ lock'.state = "own" /\ DOMAIN lock'.entries = Installed(r) \ extra[r]
                        /\ \A id \in Installed(r) :
                             /\ id \notin extra[r] => lock'.entries[id] \in built[r][id]
                             /\ Before(r, id) \in Digests => built[r][id] = {Before(r, id)}
      BY DEF vars
    <2>1. pc[r] \in {"compare", "write"} /\ lock' = Holding("own", want[r])
      <3>1. CASE pc[r] = "compare" /\ Unchanged(r) /\ lock' = lock
        BY <3>1 DEF Unchanged
      <3>2. CASE WriteText(r)
        BY <3>2 DEF WriteText, IInv, Finds
      <3>3. QED
        BY <3>1, <3>2, Finishing
    <2>2. Wanted(r) /\ ByPins(r) /\ pins[r] = was[r].entries
      BY <2>1 DEF IInv, Holds, Pinned
    <2>3. lock'.state = "own" /\ lock'.entries = want[r]
      BY <2>1 DEF Holding
    <2>4. ASSUME NEW id \in Installed(r), Before(r, id) \in Digests
          PROVE  built[r][id] = {Before(r, id)}
      <3>1. Pin(r, id) = Before(r, id) /\ id \in Ids /\ built[r][id] # {}
        BY <2>2 DEF Pin, Installed
      <3>2. QED
        BY <2>2, <2>4, <3>1 DEF ByPins
    <2>5. QED
      BY <2>2, <2>3, <2>4 DEF Wanted
  <1>2. QED
    BY <1>1, Invariant, PTL DEF Spec, BuildKeepsPins

(* As long as runs do not overlap, only a write that fails makes the file  *)
(* unreadable (WriteLockfile), however many runs there are.                *)
THEOREM Readable == Spec => StaysReadable
  <1> DEFINE B == calm /\ lock.state # "garbage" /\ (\A r \in Runs : ~WriteFails(r)) => lock'.state # "garbage"
  <1>1. IInv /\ [Next]_vars => [B]_vars
    <2> SUFFICES ASSUME IInv, Next, calm, lock.state # "garbage", \A r \in Runs : ~WriteFails(r)
                 PROVE  lock'.state # "garbage"
      BY DEF vars
    <2>1. ASSUME NEW r \in Runs, Step(r) PROVE lock'.state # "garbage"
      <3>1. CASE WriteText(r)
        <4>1. pc[r] = "write" /\ Finds(r)
          BY <3>1 DEF WriteText, IInv
        <4>2. lock.state = "blank"
          BY <4>1, Zenon DEF Finds
        <4>3. QED
          BY <3>1, <4>2 DEF WriteText, Holding
      <3>2. CASE EmptyLockfile(r) \/ Truncate(r)
        <4>1. lock' = Empty("blank")
          BY <3>2 DEF EmptyLockfile, Truncate
        <4>2. QED
          BY <4>1 DEF Empty, Holding
      <3>3. CASE \/ Begin(r) \/ ReadLockfile(r) \/ Fetch(r) \/ DigestMismatch(r) \/ FetchFails(r)
                 \/ Resolved(r) \/ Compare(r) \/ Kill(r)
        BY <3>3 DEF Begin, ReadLockfile, Fetch, DigestMismatch, FetchFails, Resolved, Compare, Kill
      <3>4. QED
        BY <2>1, <3>1, <3>2, <3>3 DEF Step
    <2>2. ASSUME NEW id \in Ids, Move(id) PROVE lock'.state # "garbage"
      BY <2>2 DEF Move
    <2>3. QED
      BY <2>1, <2>2 DEF Next
  <1>2. QED
    BY <1>1, Invariant, PTL DEF Spec, StaysReadable

---------------------------------------------------------------------------
(* ControlManifest: KeepsBlocking and NeverPartial.                        *)

(* As long as no Junk was received there is none in hand or in the cache.  *)
Clean == ~spoilt => cache # Junk /\ \A p \in Procs : body[p] # Junk

(* What p may be answered with while nobody disturbs it: the cache is as   *)
(* it was when p asked, if it could be read, and p has in hand what was    *)
(* cached or served since.                                                 *)
Answers(p) ==
  /\ Asking(p) => served \in offered[p]
  /\ step[p] = "touch" => Usable(body[p])
  /\ Asking(p) /\ undisturbed[p] => /\ Usable(had[p]) => cache = had[p]
                                   /\ \A q \in Procs : Asking(q) => q = p
  /\ undisturbed[p] /\ Usable(had[p]) /\ ~spoilt =>
       /\ step[p] \in {"touch", "write", "rename"} => body[p] \in {had[p]} \cup offered[p]
       /\ ~Asking(p) /\ answer[p] # NoFile => answer[p] \in {had[p]} \cup offered[p]

ManifestInv == ManifestTypeOK /\ Clean /\ \A p \in Procs : Answers(p)

(* The three kinds of content differ.                                      *)
LEMMA Kinds ==
  /\ NoneDisallowed \in Manifests /\ Junk \notin Manifests /\ NoFile \notin Manifests /\ Junk # NoFile
  <1>1. Body("manifest", {}) \in Manifests
    BY DEF Manifests
  <1>2. \A S : /\ Body("manifest", S).kind = "manifest" /\ Body("junk", S).kind = "junk"
               /\ Body("no file", S).kind = "no file"
    BY DEF Body
  <1>3. \A m \in Manifests : m.kind = "manifest"
    BY <1>2 DEF Manifests
  <1>4. QED
    BY <1>1, <1>2, <1>3 DEF NoneDisallowed, Junk, NoFile

(* The counters of failures and changes stay natural numbers.              *)
LEMMA Counts ==
  /\ failures \in Nat /\ Failure => failures' \in Nat
  /\ changes \in Nat /\ Change => changes' \in Nat
  <1>1. \A n \in Nat : n + 1 \in Nat
    OBVIOUS
  <1>2. Failure => failures' = failures + 1
    BY Zenon DEF Failure
  <1>3. Change => changes' = changes + 1
    BY Zenon DEF Change
  <1>4. QED
    BY <1>1, <1>2, <1>3

-----------------------------------------------------------------------------
(* Nobody asks at first.                                                   *)
LEMMA ManifestInitial == ManifestInit => ManifestInv
  <1> SUFFICES ASSUME ManifestInit PROVE ManifestInv
    OBVIOUS
  <1>1. ManifestTypeOK
    BY Kinds DEF ManifestInit, ManifestTypeOK
  <1>2. Clean
    BY Kinds DEF ManifestInit, Clean
  <1>3. \A p \in Procs : Answers(p)
    BY Kinds DEF ManifestInit, Answers, Asking
  <1>4. QED
    BY <1>1, <1>2, <1>3 DEF ManifestInv

(* What p holds is of p's variables, and of who else is asking.            *)
LEMMA CacheFrame ==
  ASSUME NEW p \in Procs, Answers(p), served' = served, cache' = cache,
         step'[p] = step[p], body'[p] = body[p], answer'[p] = answer[p], had'[p] = had[p],
         offered'[p] = offered[p], undisturbed'[p] => undisturbed[p], spoilt => spoilt',
         \A q \in Procs : Asking(q)' => Asking(q)
  PROVE  Answers(p)'
  BY DEF Answers, Asking, Usable

(* When somebody else was asking already, p is idle or disturbed.          *)
LEMMA Elsewhere ==
  ASSUME ManifestInv, NEW p \in Procs, NEW q \in Procs, p # q, Asking(q)
  PROVE  ~Asking(p) \/ ~undisturbed[p]
  BY DEF ManifestInv, Answers

(* A step of q leaves what another process holds.                          *)
LEMMA OtherProcs ==
  ASSUME ManifestInv, NEW q \in Procs, NEW p \in Procs, p # q, Asking(q), served' = served,
         step'[p] = step[p], body'[p] = body[p], answer'[p] = answer[p], had'[p] = had[p],
         offered' = offered, undisturbed' = undisturbed, spoilt => spoilt'
  PROVE  Answers(p)'
  <1>1. ~Asking(p) \/ ~undisturbed[p]
    BY Elsewhere
  <1>2. Answers(p)
    BY DEF ManifestInv
  <1>3. QED
    BY <1>1, <1>2 DEF Answers, Asking, Usable

-----------------------------------------------------------------------------
(* The server's manifest changes for everyone.                             *)
LEMMA ChangeKeeps == ManifestInv /\ Change => ManifestInv'
  <1> SUFFICES ASSUME ManifestInv, Change PROVE ManifestInv'
    OBVIOUS
  <1>1. ManifestTypeOK'
    <2>1. served' \in Manifests /\ changes' \in Nat
      BY Counts DEF ManifestInv, ManifestTypeOK, Change
    <2>2. offered' \in [Procs -> SUBSET Manifests]
      <3>1. offered' = [p \in Procs |-> IF Asking(p) THEN offered[p] \cup {served'} ELSE offered[p]]
        BY Zenon DEF Change
      <3>2. QED
        BY <2>1, <3>1 DEF ManifestInv, ManifestTypeOK
    <2>3. QED
      BY <2>1, <2>2 DEF ManifestInv, ManifestTypeOK, Change, file
  <1>0. Clean'
    BY DEF ManifestInv, Clean, Change, file
  <1>2. ASSUME NEW p \in Procs PROVE Answers(p)'
    <2>1. Answers(p)
      BY DEF ManifestInv
    <2>2. offered'[p] = IF Asking(p) THEN offered[p] \cup {served'} ELSE offered[p]
      <3>1. offered' = [q \in Procs |-> IF Asking(q) THEN offered[q] \cup {served'} ELSE offered[q]]
        BY Zenon DEF Change
      <3>2. QED
        BY <3>1 DEF ManifestInv, ManifestTypeOK
    <2>3. QED
      BY <2>1, <2>2 DEF Answers, Change, Asking, Usable, file
  <1>3. QED
    BY <1>0, <1>1, <1>2 DEF ManifestInv

(* Time passes.                                                            *)
LEMMA ExpireKeeps == ManifestInv /\ Expire => ManifestInv'
  <1> SUFFICES ASSUME ManifestInv, Expire PROVE ManifestInv'
    OBVIOUS
  <1>1. ManifestTypeOK' /\ Clean'
    BY DEF ManifestInv, ManifestTypeOK, Clean, Expire, history
  <1>2. ASSUME NEW p \in Procs PROVE Answers(p)'
    BY CacheFrame DEF ManifestInv, Expire, history, Asking
  <1>3. QED
    BY <1>1, <1>2 DEF ManifestInv

(* One who asks is undisturbed if nobody is asking, and disturbs those who *)
(* are.                                                                    *)
LEMMA AskKeeps == ASSUME NEW p \in Procs PROVE ManifestInv /\ Ask(p) => ManifestInv'
  <1> SUFFICES ASSUME ManifestInv, Ask(p) PROVE ManifestInv'
    OBVIOUS
  <1>0. /\ step'[p] \in {"read", "fetch"} /\ had'[p] = cache /\ offered'[p] = {served} /\ answer'[p] = NoFile
        /\ served' = served /\ cache' = cache /\ fresh' = fresh /\ body' = body
        /\ failures' = failures /\ changes' = changes /\ spoilt' = spoilt
        /\ \A q \in Procs \ {p} : /\ step'[q] = step[q] /\ had'[q] = had[q] /\ offered'[q] = offered[q]
                                  /\ answer'[q] = answer[q]
        /\ undisturbed'[p] => \A q \in Procs \ {p} : ~Asking(q)
        /\ \A q \in Procs \ {p} : undisturbed'[q] => undisturbed[q] /\ ~Asking(q)
    BY DEF ManifestInv, ManifestTypeOK, Ask, GoesTo, file
  <1>1. ManifestTypeOK'
    <2>1. step' \in [Procs -> {"idle", "read", "fetch", "fall back", "touch", "write", "rename"}]
      BY DEF ManifestInv, ManifestTypeOK, Ask, GoesTo
    <2>2. undisturbed' \in [Procs -> BOOLEAN]
      <3> DEFINE others == {q \in Procs \ {p} : Asking(q)}
      <3>1. \A q \in Procs : (IF q = p THEN others = {} ELSE undisturbed[q] /\ q \notin others) \in BOOLEAN
        OBVIOUS
      <3>2. undisturbed' = [q \in Procs |-> IF q = p THEN others = {} ELSE undisturbed[q] /\ q \notin others]
        BY Zenon DEF Ask
      <3> HIDE DEF others
      <3>3. QED
        BY <3>1, <3>2, Zenon
    <2>3. had' \in [Procs -> Manifests \cup {Junk, NoFile}] /\ offered' \in [Procs -> SUBSET Manifests]
      BY DEF ManifestInv, ManifestTypeOK, Ask
    <2>4. answer' \in [Procs -> Manifests \cup {NoFile}]
      BY DEF ManifestInv, ManifestTypeOK, Ask
    <2>5. QED
      BY <1>0, <2>1, <2>2, <2>3, <2>4 DEF ManifestInv, ManifestTypeOK
  <1>2. Clean'
    BY <1>0 DEF ManifestInv, Clean
  <1>3. Answers(p)'
    BY <1>0 DEF Answers, Asking
  <1>4. ASSUME NEW q \in Procs, q # p PROVE Answers(q)'
    <2>1. Answers(q)
      BY DEF ManifestInv
    <2>2. QED
      BY <1>0, <1>4, <2>1 DEF Answers, Asking, Usable
  <1>5. QED
    BY <1>1, <1>2, <1>3, <1>4 DEF ManifestInv

-----------------------------------------------------------------------------
(* A process that asks takes a step and changes nobody else's variables.   *)
Works(p) ==
  \/ Read(p) \/ FetchManifest(p) \/ ManifestFails(p) \/ FallBack(p) \/ Touch(p) \/ Write(p) \/ Rename(p) \/ KillProcess(p)

(* What every such step leaves alone, and its types.                       *)
LEMMA WorksFrame ==
  ASSUME ManifestInv, NEW p \in Procs, Works(p)
  PROVE  /\ ManifestTypeOK' /\ Asking(p) /\ served' = served /\ offered' = offered
         /\ had'[p] \in {had[p], NoFile}
         /\ undisturbed' = undisturbed /\ (spoilt => spoilt')
         /\ \A q \in Procs \ {p} : /\ step'[q] = step[q] /\ body'[q] = body[q]
                                   /\ answer'[q] = answer[q] /\ had'[q] = had[q]
  <1> USE Kinds, Counts DEF ManifestInv, ManifestTypeOK, Asking, GoesTo, Return, file, history
  <1>1. CASE Read(p)
    <2>1. UNCHANGED <<served, cache, fresh, changes, had, offered, undisturbed, spoilt>> /\ Asking(p)
      BY <1>1 DEF Read
    <2>0. failures' \in Nat
      BY <1>1 DEF Read
    <2>2. CASE Usable(cache) /\ Return(p, cache)
      BY <2>0, <2>1, <2>2 DEF Usable
    <2>3. CASE GoesTo(p, "fetch") /\ UNCHANGED <<body, answer>>
      BY <2>0, <2>1, <2>3
    <2>4. QED
      BY <1>1, <2>2, <2>3 DEF Read
  <1>2. CASE FetchManifest(p)
    BY <1>2 DEF FetchManifest
  <1>3. CASE ManifestFails(p)
    BY <1>3 DEF ManifestFails
  <1>4. CASE FallBack(p)
    <2>1. /\ UNCHANGED <<served, cache, fresh, answer, changes, offered, undisturbed, spoilt>>
          /\ Asking(p) /\ failures' \in Nat
          /\ had' = had \/ had' = [had EXCEPT ![p] = NoFile]
      BY <1>4 DEF FallBack
    <2>2. CASE Usable(cache) /\ GoesTo(p, "touch") /\ body' = [body EXCEPT ![p] = cache]
      BY <2>1, <2>2 DEF Usable
    <2>3. CASE GoesTo(p, "write") /\ body' = [body EXCEPT ![p] = NoneDisallowed]
      BY <2>1, <2>3
    <2>4. QED
      BY <1>4, <2>2, <2>3 DEF FallBack
  <1>5. CASE Touch(p)
    <2>1. body[p] \in Manifests
      BY <1>5 DEF Touch, Answers, Usable
    <2>2. QED
      BY <1>5, <2>1 DEF Touch
  <1>0. Answer(p) \in Manifests
    BY DEF Answer, Usable
  <1>6. CASE Write(p)
    <2>1. CASE GoesTo(p, "rename") /\ UNCHANGED <<body, answer, failures>>
      BY <1>6, <2>1 DEF Write
    <2>2. CASE Failure /\ Return(p, Answer(p))
      <3>1. failures' \in Nat
        BY <2>2
      <3>2. QED
        BY <1>0, <1>6, <2>2, <3>1 DEF Write
    <2>3. QED
      BY <1>6, <2>1, <2>2 DEF Write
  <1>7. CASE Rename(p)
    BY <1>0, <1>7 DEF Rename
  <1>8. CASE KillProcess(p)
    BY <1>8 DEF KillProcess
  <1>9. QED
    BY <1>1, <1>2, <1>3, <1>4, <1>5, <1>6, <1>7, <1>8 DEF Works

(* No step makes Junk of what is none: a body that is received as Junk is  *)
(* recorded in spoilt.                                                     *)
LEMMA WorksClean ==
  ASSUME ManifestInv, NEW p \in Procs, Works(p)
  PROVE  Clean'
  <1> SUFFICES ASSUME ~spoilt' PROVE cache' # Junk /\ \A q \in Procs : body'[q] # Junk
    BY DEF Clean
  <1>0. /\ ~spoilt /\ cache # Junk /\ body \in [Procs -> Manifests \cup {Junk}]
        /\ \A q \in Procs : body[q] # Junk
    BY WorksFrame DEF ManifestInv, Clean, ManifestTypeOK
  <1> USE <1>0, Kinds DEF Return, file, history
  <1>1. CASE Read(p)
    BY <1>1 DEF Read, Usable
  <1>2. CASE FetchManifest(p)
    BY <1>2 DEF FetchManifest, ManifestInv, ManifestTypeOK
  <1>3. CASE ManifestFails(p)
    BY <1>3 DEF ManifestFails
  <1>4. CASE FallBack(p)
    BY <1>4 DEF FallBack, Usable
  <1>5. CASE Touch(p)
    BY <1>5 DEF Touch
  <1>6. CASE Write(p)
    BY <1>6 DEF Write
  <1>7. CASE Rename(p)
    BY <1>7 DEF Rename
  <1>8. CASE KillProcess(p)
    BY <1>8 DEF KillProcess
  <1>9. QED
    BY <1>1, <1>2, <1>3, <1>4, <1>5, <1>6, <1>7, <1>8 DEF Works

(* While p is not disturbed it has in hand, and is answered with, what was *)
(* cached when it asked or served since.                                   *)
LEMMA WorksHolds ==
  ASSUME ManifestInv, NEW p \in Procs, Works(p)
  PROVE  Answers(p)'
  <1>0. /\ Asking(p) /\ served' = served /\ had'[p] \in {had[p], NoFile} /\ offered' = offered
        /\ undisturbed' = undisturbed /\ (spoilt => spoilt')
        /\ \A q \in Procs \ {p} : step'[q] = step[q]
    BY WorksFrame
  <1>h. Answers(p) /\ Clean
    BY DEF ManifestInv
  <1>t. /\ step \in [Procs -> {"idle", "read", "fetch", "fall back", "touch", "write", "rename"}]
        /\ body \in [Procs -> Manifests \cup {Junk}] /\ answer \in [Procs -> Manifests \cup {NoFile}]
    BY DEF ManifestInv, ManifestTypeOK
  <1> USE <1>0, <1>h, <1>t, Kinds DEF Answers, Asking, GoesTo, Return, file, history, Usable
  <1>1. CASE Read(p)
    <2>1. CASE Usable(cache) /\ Return(p, cache)
      BY <1>1, <2>1 DEF Read
    <2>2. CASE GoesTo(p, "fetch") /\ UNCHANGED <<body, answer>>
      BY <1>1, <2>2 DEF Read
    <2>3. QED
      BY <1>1, <2>1, <2>2 DEF Read
  <1>2. CASE FetchManifest(p)
    <2>1. step'[p] = "write" /\ cache' = cache /\ answer' = answer
      BY <1>2 DEF FetchManifest
    <2>2. body'[p] = served \/ spoilt'
      BY <1>2 DEF FetchManifest
    <2>3. QED
      BY <2>1, <2>2
  <1>3. CASE ManifestFails(p)
    BY <1>3 DEF ManifestFails
  <1>4. CASE FallBack(p)
    <2>0. cache' = cache /\ spoilt' = spoilt /\ answer' = answer
      BY <1>4 DEF FallBack
    <2>1. CASE Usable(cache) /\ GoesTo(p, "touch") /\ body' = [body EXCEPT ![p] = cache]
      BY <2>0, <2>1
    <2>2. CASE GoesTo(p, "write") /\ ~Usable(had'[p])
      BY <2>0, <2>2
    <2>3. ~Usable(cache) /\ had' = had => ~Usable(had'[p]) \/ ~undisturbed[p]
      OBVIOUS
    <2>4. CASE GoesTo(p, "write") /\ ~undisturbed[p]
      BY <2>0, <2>4
    <2>5. had' = [had EXCEPT ![p] = NoFile] => ~Usable(had'[p])
      BY DEF ManifestInv, ManifestTypeOK
    <2>6. QED
      BY <1>4, <2>1, <2>2, <2>3, <2>4, <2>5 DEF FallBack
  <1>5. CASE Touch(p)
    BY <1>5 DEF Touch
  <1>6. CASE Write(p)
    <2>1. CASE GoesTo(p, "rename") /\ UNCHANGED <<body, answer, failures>>
      BY <1>6, <2>1 DEF Write
    <2>2. CASE Return(p, Answer(p))
      <3>1. step[p] = "write" /\ spoilt' = spoilt /\ cache' = cache
        BY <1>6 DEF Write
      <3>2. step'[p] = "idle" /\ answer'[p] = Answer(p)
        BY <2>2
      <3>3. /\ body[p] \in Manifests \cup {Junk}
            /\ ~spoilt => body[p] # Junk
        BY DEF Clean
      <3>4. ~spoilt => Answer(p) = body[p]
        BY <3>3 DEF Answer
      <3>5. QED
        BY <3>1, <3>2, <3>4
    <2>3. QED
      BY <1>6, <2>1, <2>2 DEF Write
  <1>7. CASE Rename(p)
    <2>1. step[p] = "rename" /\ spoilt' = spoilt
      BY <1>7 DEF Rename
    <2>2. step'[p] = "idle" /\ answer'[p] = Answer(p)
      BY <1>7 DEF Rename
    <2>3. body[p] \in Manifests \cup {Junk} /\ (~spoilt => body[p] # Junk)
      BY DEF Clean
    <2>4. ~spoilt => Answer(p) = body[p]
      BY <2>3 DEF Answer
    <2>5. QED
      BY <2>1, <2>2, <2>4
  <1>8. CASE KillProcess(p)
    BY <1>8 DEF KillProcess
  <1>9. QED
    BY <1>1, <1>2, <1>3, <1>4, <1>5, <1>6, <1>7, <1>8 DEF Works

(* ManifestInv is inductive.                                                      *)
LEMMA ManifestInductive == ManifestInv /\ [ManifestNext]_manifestVars => ManifestInv'
  <1> SUFFICES ASSUME ManifestInv, [ManifestNext]_manifestVars PROVE ManifestInv'
    OBVIOUS
  <1>1. ASSUME NEW p \in Procs, Works(p) PROVE ManifestInv'
    <2>1. ManifestTypeOK' /\ Clean' /\ Answers(p)'
      BY <1>1, WorksFrame, WorksClean, WorksHolds
    <2>2. ASSUME NEW q \in Procs, q # p PROVE Answers(q)'
      BY <1>1, <2>2, WorksFrame, OtherProcs
    <2>3. QED
      BY <2>1, <2>2 DEF ManifestInv
  <1>2. ASSUME NEW p \in Procs, Ask(p) PROVE ManifestInv'
    BY <1>2, AskKeeps
  <1>3. CASE Change
    BY <1>3, ChangeKeeps
  <1>4. CASE Expire
    BY <1>4, ExpireKeeps
  <1>5. CASE UNCHANGED manifestVars
    BY <1>5 DEF manifestVars, ManifestInv, ManifestTypeOK, Clean, Answers, Asking, Usable
  <1>6. QED
    BY <1>1, <1>2, <1>3, <1>4, <1>5 DEF ManifestNext, Works

(* ManifestInv is an invariant.                                                   *)
LEMMA ManifestInvariant == ManifestSpec => []ManifestInv
  BY ManifestInitial, ManifestInductive, PTL DEF ManifestSpec

-----------------------------------------------------------------------------
(* The variables keep their types, in particular nobody is ever answered   *)
(* with a body that is no manifest (GetControlManifest).                   *)
THEOREM TypeCorrect == ManifestSpec => []ManifestTypeOK
  <1>1. ManifestInv => ManifestTypeOK
    BY DEF ManifestInv
  <1>2. QED
    BY <1>1, ManifestInvariant, PTL

(* Failing requests, failing writes and old caches unblock no Feature      *)
(* (GetControlManifest), however many processes ask and how often.         *)
THEOREM KeptBlocking == ManifestSpec => []KeepsBlocking
  <1>1. ManifestInv => KeepsBlocking
    BY DEF ManifestInv, Answers, KeepsBlocking
  <1>2. QED
    BY <1>1, ManifestInvariant, PTL

(* However processes overlap or are killed, the cache is never half of a   *)
(* manifest (GetControlManifest).                                          *)
THEOREM NeverHalf == ManifestSpec => []NeverPartial
  <1>1. ManifestInv => NeverPartial
    BY DEF ManifestInv, Clean, NeverPartial
  <1>2. QED
    BY <1>1, ManifestInvariant, PTL
=============================================================================
