-------------------------- MODULE LifecycleProofs --------------------------
(***************************************************************************)
(* Proofs about Lifecycle: its type invariant and the honesty of the       *)
(* markers for any clients; when clients do not overlap, that no hook is   *)
(* begun twice for a timestamp and that a run leaves none out; when they   *)
(* do, that no hook of a creation is begun twice unless two of them tested *)
(* its marker at the same time; and when no exec fails, that the markers   *)
(* of a creation agree.                                                    *)
(***************************************************************************)
EXTENDS Lifecycle, TLAPS

USE DEF Initialize, OnCreate, UpdateContent, PostCreate, PostStart, PostAttach,
        Phases, Marked, Unknown, Absent, Empty

(* The variables have their types at first.                                *)
LEMMA TypeInit == Init => TypeOK /\ PosInv
  <1> SUFFICES ASSUME Init PROVE TypeOK /\ PosInv
    OBVIOUS
  <1>1. NoOptions \in RunOptions
    BY DEF NoOptions, RunOptions
  <1>2. /\ opt \in [Clients -> RunOptions]
        /\ snap \in [Clients -> [created: Nat, started: Nat]]
        /\ kept \in [Clients -> [Marked -> {"keep", "granted", "dropped", "lost"}]]
    BY <1>1 DEF Init, NoStamps, KeepAll
  <1>3. begun \in [Marked -> Seq(Nat)] /\ marker \in [Marked -> Nat \cup {Empty}]
    BY DEF Init
  <1>4. pc \in [Clients -> PCs] /\ PosInv
    BY DEF Init, PCs, PosInv, Asking
  <1>5. dotfilesMarker \in BOOLEAN /\ cutShort \in BOOLEAN /\ raced \in BOOLEAN
    BY Zenon DEF Init
  <1>6. /\ at \in [Clients -> Phases] /\ next \in [Clients -> Nat \ {0}]
        /\ pending \in [Clients -> SUBSET Nat] /\ failed \in [Clients -> SUBSET Nat]
        /\ created \in Nat \ {0} /\ started \in Nat \ {0} /\ runs \in Nat
    BY DEF Init
  <1>7. QED
    BY <1>2, <1>3, <1>4, <1>5, <1>6 DEF TypeOK

(* The state a client leaves behind has its types.                         *)
LEMMA LeaveType ==
  ASSUME NEW p \in Clients, TypeOK, PosInv, Leave(p)
  PROVE  /\ pc' \in [Clients -> PCs] /\ opt' \in [Clients -> RunOptions]
         /\ snap' \in [Clients -> [created: Nat, started: Nat]]
         /\ kept' \in [Clients -> [Marked -> {"keep", "granted", "dropped", "lost"}]]
         /\ at' \in [Clients -> Phases] /\ next' \in [Clients -> Nat \ {0}]
         /\ pending' \in [Clients -> SUBSET Nat] /\ failed' \in [Clients -> SUBSET Nat]
         /\ PosInv'
  <1>1. pc' \in [Clients -> PCs] /\ at' \in [Clients -> Phases]
    <2>1. "idle" \in PCs /\ OnCreate \in Phases
      BY DEF PCs
    <2>2. QED
      BY <2>1 DEF Leave, Goto, TypeOK
  <1>2. opt' \in [Clients -> RunOptions]
    <2>1. NoOptions \in RunOptions
      BY DEF NoOptions, RunOptions
    <2>2. QED
      BY <2>1 DEF Leave, TypeOK
  <1>3. /\ snap' \in [Clients -> [created: Nat, started: Nat]]
        /\ kept' \in [Clients -> [Marked -> {"keep", "granted", "dropped", "lost"}]]
    BY DEF Leave, TypeOK, NoStamps, KeepAll
  <1>4. /\ next' \in [Clients -> Nat \ {0}]
        /\ pending' \in [Clients -> SUBSET Nat] /\ failed' \in [Clients -> SUBSET Nat]
    BY DEF Leave, TypeOK
  <1>5. PosInv'
    BY DEF Leave, Goto, TypeOK, PosInv, Asking
  <1>6. QED
    BY <1>1, <1>2, <1>3, <1>4, <1>5

(* An answer about a marker has its type and moves on within the marked    *)
(* hooks.                                                                  *)
LEMMA AskedType ==
  ASSUME NEW p \in Clients, NEW answer \in {"keep", "granted", "dropped", "lost"},
         TypeOK, PosInv, Asking(p), Asked(p, answer), UNCHANGED next
  PROVE  /\ pc' \in [Clients -> PCs] /\ at' \in [Clients -> Phases]
         /\ kept' \in [Clients -> [Marked -> {"keep", "granted", "dropped", "lost"}]]
         /\ PosInv'
  <1>1. at[p] \in Marked /\ next[p] = 1
    BY DEF PosInv
  <1>2. pc' \in [Clients -> PCs] /\ at' \in [Clients -> Phases]
    BY <1>1 DEF Asked, Goto, TypeOK, PCs
  <1>3. kept' \in [Clients -> [Marked -> {"keep", "granted", "dropped", "lost"}]]
    BY <1>1 DEF Asked, TypeOK
  <1>4. PosInv'
    BY <1>1 DEF Asked, Goto, TypeOK, PosInv, Asking
  <1>5. QED
    BY <1>2, <1>3, <1>4

(* The next phase is a phase.                                              *)
LEMMA NextPhaseType ==
  ASSUME NEW p \in Clients, TypeOK, PosInv, NextPhase(p),
         pc[p] \in {"phase", "dotfiles", "install"}
  PROVE  /\ pc' \in [Clients -> PCs] /\ at' \in [Clients -> Phases]
         /\ next' \in [Clients -> Nat \ {0}] /\ cutShort' \in BOOLEAN
         /\ PosInv'
  <1>1. cutShort' \in BOOLEAN
    BY Zenon DEF NextPhase
  <1>2. CASE Stops(p) \/ at[p] = PostAttach
    BY <1>1, <1>2 DEF NextPhase, Goto, TypeOK, PCs, PosInv, Asking
  <1>3. CASE ~(Stops(p) \/ at[p] = PostAttach)
    <2>1. at[p] \in Phases /\ at[p] # PostAttach
      BY <1>3 DEF TypeOK
    <2>2. /\ pc' = [pc EXCEPT ![p] = "phase"]
          /\ at' = [at EXCEPT ![p] = at[p] + 1]
          /\ next' = [next EXCEPT ![p] = 1]
      BY <1>3 DEF NextPhase, Goto
    <2>3. at[p] + 1 \in Phases
      BY <2>1
    <2>4. pc' \in [Clients -> PCs] /\ at' \in [Clients -> Phases] /\ next' \in [Clients -> Nat \ {0}]
      BY <2>2, <2>3 DEF TypeOK, PCs
    <2>5. PosInv'
      BY <2>2 DEF PosInv, Asking, TypeOK
    <2>6. QED
      BY <1>1, <2>4, <2>5
  <1>4. QED
    BY <1>2, <1>3

(* What a client runs is a sequence of sets of parts.                      *)
LEMMA CommandsType ==
  ASSUME NEW p \in Clients, TypeOK
  PROVE  CommandsOf(p) \in Seq(SUBSET Nat)
  <1>1. at[p] \in Phases
    BY DEF TypeOK
  <1>2. Commands[at[p]] \in Seq(SUBSET Nat)
    BY <1>1, CommandsAssumption
  <1>3. << >> \in Seq(SUBSET Nat)
    OBVIOUS
  <1>4. QED
    BY <1>2, <1>3 DEF CommandsOf

(* A client that has inspected and goes on, with nothing else changed.     *)
LEMMA GoesOn ==
  ASSUME TypeOK, PosInv, NEW p \in Clients, NEW where \in {"home", "ask", "phase", "failed"},
         pc[p] \in {"inspect", "home"}, pc' = [pc EXCEPT ![p] = where], cutShort' \in BOOLEAN,
         UNCHANGED <<container, opt, snap, kept, at, next, pending, failed, begun, runs, raced>>
  PROVE  TypeOK' /\ PosInv'
  <1>1. pc' \in [Clients -> PCs]
    BY DEF TypeOK, PCs
  <1>2. TypeOK'
    BY <1>1 DEF TypeOK, container
  <1>3. \A q \in Clients \ {p} : pc'[q] = pc[q]
    BY DEF TypeOK
  <1>4. PosInv'
    BY <1>3 DEF PosInv, Asking, TypeOK
  <1>5. QED
    BY <1>2, <1>4

(* Every step keeps the types and the positions.                           *)
LEMMA TypeStep == TypeOK /\ PosInv /\ [Next]_vars => TypeOK' /\ PosInv'
  <1> SUFFICES ASSUME TypeOK, PosInv, [Next]_vars PROVE TypeOK' /\ PosInv'
    OBVIOUS
  <1>1. ASSUME NEW p \in Clients, Begin(p) PROVE TypeOK' /\ PosInv'
    BY <1>1, OptionsAssumption DEF Begin, Goto, TypeOK, PosInv, Asking, PCs, container
  <1>2. ASSUME NEW p \in Clients, Inspect(p) PROVE TypeOK' /\ PosInv'
    BY <1>2 DEF Inspect, Goto, TypeOK, PosInv, Asking, PCs, container, history
  <1>3. ASSUME NEW p \in Clients, InspectFails(p) PROVE TypeOK' /\ PosInv'
    <2>1. PICK where \in {"home", "failed"} : pc' = [pc EXCEPT ![p] = where]
      BY <1>3 DEF InspectFails, Goto
    <2>2. /\ UNCHANGED <<container, opt, snap, kept, at, next, pending, failed, begun, runs, raced>>
          /\ cutShort' = TRUE /\ pc[p] = "inspect"
      BY <1>3 DEF InspectFails
    <2>3. QED
      BY <2>1, <2>2, GoesOn
  <1>4. ASSUME NEW p \in Clients, ResolveHome(p) PROVE TypeOK' /\ PosInv'
    <2>1. /\ pc' = [pc EXCEPT ![p] = "ask"] /\ pc[p] = "home"
          /\ UNCHANGED <<container, opt, snap, kept, at, next, pending, failed, begun, runs, raced, cutShort>>
      BY <1>4 DEF ResolveHome, Goto, history
    <2>2. QED
      BY <2>1, GoesOn DEF TypeOK
  <1>5. ASSUME NEW p \in Clients, ResolveHomeFails(p) PROVE TypeOK' /\ PosInv'
    BY <1>5 DEF ResolveHomeFails, Goto, TypeOK, PosInv, Asking, PCs, container
  <1>6. ASSUME NEW p \in Clients, AskMarker(p) PROVE TypeOK' /\ PosInv'
    <2>0. Asking(p) /\ UNCHANGED <<container, opt, snap, next, pending, failed, begun, cutShort, runs>>
      BY <1>6 DEF AskMarker, Asking
    <2>a. raced' \in BOOLEAN
      BY <1>6, Zenon DEF AskMarker
    <2>1. CASE Asked(p, "keep")
      BY <2>0, <2>a, <2>1, AskedType DEF TypeOK, container
    <2>2. CASE Asked(p, "dropped")
      BY <2>0, <2>a, <2>2, AskedType DEF TypeOK, container
    <2>3. CASE Goto(p, "truncate") /\ UNCHANGED <<kept, at>>
      BY <2>0, <2>a, <2>3 DEF Goto, TypeOK, PosInv, Asking, PCs, container
    <2>4. QED
      BY <1>6, <2>1, <2>2, <2>3 DEF AskMarker
  <1>7. ASSUME NEW p \in Clients, TruncateMarker(p) PROVE TypeOK' /\ PosInv'
    BY <1>7 DEF TruncateMarker, Goto, TypeOK, PosInv, Asking, PCs, history
  <1>8. ASSUME NEW p \in Clients, PrintMarker(p) PROVE TypeOK' /\ PosInv'
    <2>1. Asking(p) /\ Asked(p, "granted") /\ UNCHANGED <<created, started, dotfilesMarker, opt, snap, next, pending, failed, history>>
      BY <1>8 DEF PrintMarker, Asking
    <2>2. marker' \in [Marked -> Nat \cup {Empty}]
      BY <1>8 DEF PrintMarker, TypeOK, Content
    <2>3. QED
      BY <2>1, <2>2, AskedType DEF TypeOK, history
  <1>9. ASSUME NEW p \in Clients, MarkerFails(p) PROVE TypeOK' /\ PosInv'
    <2>1. /\ Asking(p) /\ Asked(p, "lost") /\ cutShort' = TRUE
          /\ UNCHANGED <<created, started, dotfilesMarker, opt, snap, next, pending, failed, begun, runs, raced>>
      BY <1>9 DEF MarkerFails, Asking
    <2>2. marker' \in [Marked -> Nat \cup {Empty}]
      BY <1>9 DEF MarkerFails, TypeOK, Content
    <2>3. QED
      BY <2>1, <2>2, AskedType DEF TypeOK
  <1>10. ASSUME NEW p \in Clients, StartCommand(p) PROVE TypeOK' /\ PosInv'
    <2> DEFINE cmds == CommandsOf(p)
    <2>1. pending' \in [Clients -> SUBSET Nat]
      <3>0. cmds \in Seq(SUBSET Nat)
        BY CommandsType
      <3>a. next[p] \in Nat \ {0} /\ next[p] <= Len(cmds)
        BY <1>10 DEF StartCommand, TypeOK
      <3>1. cmds \in Seq(SUBSET Nat) /\ next[p] \in 1..Len(cmds)
        <4> HIDE DEF cmds
        <4>1. QED
          BY <3>0, <3>a
      <3>2. cmds[next[p]] \in SUBSET Nat
        <4> HIDE DEF cmds
        <4>1. QED
          BY <3>1
      <3>3. pending' = [pending EXCEPT ![p] = cmds[next[p]]]
        BY <1>10 DEF StartCommand
      <3>4. QED
        BY <3>2, <3>3 DEF TypeOK
    <2>2. begun' \in [Marked -> Seq(Nat)]
      <3> DEFINE stamp == Content(p, at[p])
      <3>1. stamp \in Nat
        BY DEF Content, TypeOK
      <3>2. CASE begun' = begun
        BY <3>2 DEF TypeOK
      <3>3. CASE at[p] \in Marked /\ begun' = [begun EXCEPT ![at[p]] = Append(begun[at[p]], stamp)]
        <4> HIDE DEF stamp
        <4>1. begun[at[p]] \in Seq(Nat)
          BY <3>3 DEF TypeOK
        <4>2. Append(begun[at[p]], stamp) \in Seq(Nat)
          BY <3>1, <4>1
        <4>3. QED
          BY <3>3, <4>2 DEF TypeOK
      <3>4. QED
        BY <1>10, <3>2, <3>3 DEF StartCommand
    <2>3. pc' \in [Clients -> PCs] /\ PosInv'
      BY <1>10 DEF StartCommand, Goto, TypeOK, PCs, PosInv, Asking
    <2>4. QED
      BY <1>10, <2>1, <2>2, <2>3 DEF StartCommand, TypeOK, container
  <1>11. ASSUME NEW p \in Clients, EndPart(p) PROVE TypeOK' /\ PosInv'
    <2>1. pending' \in [Clients -> SUBSET Nat] /\ failed' \in [Clients -> SUBSET Nat]
      <3>1. PICK n \in pending[p] :
              /\ pending' = [pending EXCEPT ![p] = @ \ {n}]
              /\ failed' \in {failed, [failed EXCEPT ![p] = @ \cup {n}]}
        BY <1>11 DEF EndPart
      <3>2. n \in Nat
        BY DEF TypeOK
      <3>3. pending[p] \ {n} \in SUBSET Nat /\ failed[p] \cup {n} \in SUBSET Nat
        BY <3>2 DEF TypeOK
      <3>4. QED
        BY <3>1, <3>3 DEF TypeOK
    <2>2. QED
      BY <1>11, <2>1 DEF EndPart, TypeOK, PosInv, Asking, container, history
  <1>12. ASSUME NEW p \in Clients, EndCommand(p) PROVE TypeOK' /\ PosInv'
    <2>1. cutShort' \in BOOLEAN
      BY <1>12, Zenon DEF EndCommand, TypeOK
    <2>2. UNCHANGED <<created, started, marker, dotfilesMarker, opt, snap, kept, at, pending, failed, begun, runs, raced>>
      BY <1>12 DEF EndCommand, container
    <2>3. next' \in [Clients -> Nat \ {0}] /\ pc' \in [Clients -> PCs] /\ PosInv'
      <3>1. CASE next' = [next EXCEPT ![p] = @ + 1] /\ Goto(p, "phase")
        BY <2>2, <3>1 DEF Goto, TypeOK, PosInv, Asking, PCs
      <3>2. CASE UNCHANGED next /\ Goto(p, "failed")
        BY <2>2, <3>2 DEF Goto, TypeOK, PosInv, Asking, PCs
      <3>3. QED
        BY <1>12, <3>1, <3>2 DEF EndCommand
    <2>4. QED
      BY <2>1, <2>2, <2>3 DEF TypeOK
  <1>13. ASSUME NEW p \in Clients, EndPhase(p) PROVE TypeOK' /\ PosInv'
    <2>1. CASE NextPhase(p)
      BY <1>13, <2>1, NextPhaseType DEF EndPhase, TypeOK, container
    <2>2. CASE Goto(p, "dotfiles") /\ UNCHANGED <<at, next, cutShort>>
      BY <1>13, <2>2 DEF EndPhase, Goto, TypeOK, PosInv, Asking, PCs, container
    <2>3. QED
      BY <1>13, <2>1, <2>2 DEF EndPhase
  <1>14. ASSUME NEW p \in Clients, CheckDotfiles(p) PROVE TypeOK' /\ PosInv'
    <2>1. CASE NextPhase(p)
      BY <1>14, <2>1, NextPhaseType DEF CheckDotfiles, TypeOK, container
    <2>2. CASE Goto(p, "install") /\ UNCHANGED <<at, next, cutShort>>
      BY <1>14, <2>2 DEF CheckDotfiles, Goto, TypeOK, PosInv, Asking, PCs, container
    <2>3. QED
      BY <1>14, <2>1, <2>2 DEF CheckDotfiles
  <1>15. ASSUME NEW p \in Clients, InstallDotfiles(p) PROVE TypeOK' /\ PosInv'
    <2>1. dotfilesMarker' \in BOOLEAN
      BY <1>15, Zenon DEF InstallDotfiles, TypeOK
    <2>2. QED
      BY <1>15, <2>1, NextPhaseType DEF InstallDotfiles, TypeOK
  <1>16. ASSUME NEW p \in Clients, Finish(p) PROVE TypeOK' /\ PosInv'
    BY <1>16, LeaveType DEF Finish, TypeOK, container, history
  <1>17. ASSUME NEW p \in Clients, Crash(p) PROVE TypeOK' /\ PosInv'
    <2>1. marker' \in [Marked -> Nat \cup {Empty}]
      BY <1>17 DEF Crash, TypeOK, Content
    <2>2. QED
      BY <1>17, <2>1, LeaveType DEF Crash, TypeOK
  <1>18. ASSUME Restart PROVE TypeOK' /\ PosInv'
    <2>1. cutShort' \in BOOLEAN
      BY <1>18, Zenon DEF Restart
    <2>2. pc' \in [Clients -> PCs]
      BY <1>18 DEF Restart, TypeOK, PCs
    <2>3. PosInv'
      <3>1. \A p \in Clients :
              /\ pc'[p] \in {"idle", "inspect", "home"} => pc[p] = pc'[p]
              /\ Asking(p)' => Asking(p)
        BY <1>18 DEF Restart, Asking
      <3>2. UNCHANGED <<at, next>>
        BY <1>18 DEF Restart
      <3>3. ASSUME NEW p \in Clients
            PROVE  /\ pc'[p] \in {"idle", "inspect", "home"} => at'[p] = OnCreate /\ next'[p] = 1
                   /\ Asking(p)' => at'[p] \in Marked /\ next'[p] = 1
        BY <3>1, <3>2 DEF PosInv, Asking
      <3>4. QED
        BY <3>3 DEF PosInv
    <2>4. pending' \in [Clients -> SUBSET Nat] /\ started' \in Nat \ {0}
      <3>1. pending' = [p \in Clients |-> {}] /\ started' = started + 1
        BY <1>18 DEF Restart
      <3>2. QED
        BY <3>1 DEF TypeOK
    <2>5. QED
      BY <1>18, <2>1, <2>2, <2>3, <2>4 DEF Restart, TypeOK
  <1>19. ASSUME Recreate PROVE TypeOK' /\ PosInv'
    BY <1>19 DEF Recreate, TypeOK, PosInv, Asking, client, history
  <1>20. CASE UNCHANGED vars
    BY <1>20 DEF vars, container, client, history, TypeOK, PosInv, Asking
  <1>21. QED
    BY <1>1, <1>2, <1>3, <1>4, <1>5, <1>6, <1>7, <1>8, <1>9, <1>10, <1>11, <1>12, <1>13,
       <1>14, <1>15, <1>16, <1>17, <1>18, <1>19, <1>20 DEF Next, Step, Fails, Rest

(* The variables of Lifecycle hold values of their types, for any number   *)
(* of clients, whatever commands they run (RunHooks, applyLifecycleMarkers)*)
THEOREM TypeCorrect == Spec => []TypeOK
  <1>1. Spec => [](TypeOK /\ PosInv)
    BY TypeInit, TypeStep, PTL DEF Spec
  <1>2. QED
    BY <1>1, PTL

-----------------------------------------------------------------------------
(***************************************************************************)
(* One client at a time.  Guarded is the part of IInv above the types; its *)
(* preservation needs TypeOK and PosInv in both states, which TypeStep     *)
(* gives.                                                                  *)
(***************************************************************************)
Guarded == Solo /\ StampsInv /\ SpentInv /\ AskInv /\ AwaitInv /\ OncePerStamp

(* Guarded holds at first.                                                 *)
LEMMA GuardedInit == Init => Guarded
  <1> SUFFICES ASSUME Init PROVE Guarded
    OBVIOUS
  <1>1. Solo /\ SpentInv /\ AskInv /\ AwaitInv /\ OncePerStamp
    BY DEF Init, Solo, SpentInv, AskInv, AwaitInv, Awaits, OncePerStamp, Asking, KeepAll
  <1>2. StampsInv
    BY BoundsAssumption DEF Init, StampsInv, Stamp, Content, NoStamps
  <1>3. QED
    BY <1>1, <1>2 DEF Guarded

(* Timestamps are naturals.                                                *)
LEMMA ContentType ==
  ASSUME TypeOK, NEW p \in Clients, NEW h
  PROVE  Content(p, h) \in Nat
  BY DEF TypeOK, Content

(* The begun timestamps of a hook are a sequence of naturals.              *)
LEMMA LedgerType ==
  ASSUME TypeOK, NEW h \in Marked, NEW i \in DOMAIN begun[h]
  PROVE  begun[h][i] \in Nat
  <1>1. begun[h] \in Seq(Nat)
    BY DEF TypeOK
  <1>2. QED
    BY <1>1

(* A step that leaves stamps, markers, answers and the ledger alone and    *)
(* moves its client on without making it wait for a hook anew.             *)
LEMMA QuietStep ==
  ASSUME TypeOK, TypeOK', PosInv', Guarded, NEW p \in Clients, NEW w \in PCs,
         pc[p] # "idle", pc' = [pc EXCEPT ![p] = w],
         w \notin {"idle", "inspect", "truncate", "print"},
         UNCHANGED <<created, started, marker, snap, kept, begun>>,
         \A q \in Clients \ {p} : at'[q] = at[q] /\ next'[q] = next[q],
         w = "home" => \A h \in Marked : kept[p][h] # "granted",
         w \in {"ask", "killed"} => \A h \in at'[p]..PostStart : kept[p][h] # "granted",
         \A h \in Marked : Awaits(p, h)' => Awaits(p, h)
  PROVE  Guarded'
  <1>1. Solo'
    BY DEF Guarded, Solo, TypeOK
  <1>2. StampsInv'
    BY DEF Guarded, StampsInv, Stamp, Content, TypeOK
  <1>3. SpentInv' /\ OncePerStamp'
    BY DEF Guarded, SpentInv, OncePerStamp
  <1>4. AskInv'
    <2> SUFFICES ASSUME NEW q \in Clients
                 PROVE  /\ pc'[q] \in {"idle", "inspect", "home"} => \A h \in Marked : kept[q][h] # "granted"
                        /\ Asking(q)' => \A h \in at'[q]..PostStart : kept[q][h] # "granted"
                        /\ pc'[q] = "truncate" => Content(q, at[q]) # Unknown /\ marker[at[q]] \notin {Empty, Content(q, at[q])}
                        /\ pc'[q] = "print" => Content(q, at[q]) # Unknown /\ marker[at[q]] = Empty /\ BegunBefore(at[q], Content(q, at[q]))
                        /\ pc'[q] \in {"truncate", "print"} => at'[q] = at[q]
      BY DEF AskInv, Content, BegunBefore
    <2>1. CASE q = p
      BY <2>1 DEF Asking, TypeOK
    <2>2. CASE q # p
      BY <2>2 DEF Guarded, AskInv, Asking, TypeOK
    <2>3. QED
      BY <2>1, <2>2
  <1>5. AwaitInv'
    <2> SUFFICES ASSUME NEW q \in Clients, NEW h \in Marked, Awaits(q, h)'
                 PROVE  Content(q, h) # Unknown /\ marker[h] = Content(q, h) /\ BegunBefore(h, Content(q, h))
      BY DEF AwaitInv, Content, BegunBefore
    <2>0. q # p => pc'[q] = pc[q] /\ at'[q] = at[q] /\ next'[q] = next[q]
      BY DEF TypeOK
    <2>1. Awaits(q, h)
      BY <2>0 DEF Awaits, Asking
    <2>2. QED
      BY <2>1 DEF Guarded, AwaitInv
  <1>6. QED
    BY <1>1, <1>2, <1>3, <1>4, <1>5 DEF Guarded

(* A client that leaves takes nothing along, whatever it did to the marker *)
(* it was writing, as long as that holds no less than its ledger.          *)
LEMMA LeaveStep ==
  ASSUME TypeOK, TypeOK', PosInv', Guarded, NEW p \in Clients, pc[p] # "idle", Leave(p),
         UNCHANGED <<created, started, begun>>,
         \A h \in Marked : marker'[h] <= Stamp(h),
         \A h \in Marked : \A i \in DOMAIN begun[h] : marker'[h] = Empty \/ begun[h][i] <= marker'[h]
  PROVE  Guarded'
  <1>0. \A q \in Clients : pc'[q] = "idle" /\ \A h \in Marked : Content(q, h)' = Unknown
    BY DEF Leave, Goto, Guarded, Solo, StampsInv, Content, NoStamps, TypeOK
  <1>1. Solo'
    BY <1>0 DEF Solo
  <1>2. StampsInv'
    <2>1. \A h \in Marked : Stamp(h)' = Stamp(h) /\ Stamp(h) \in Nat
      BY DEF Stamp, TypeOK
    <2>2. created' <= started' /\ started' <= MaxStarts
      BY DEF Guarded, StampsInv
    <2>3. QED
      BY <1>0, <2>1, <2>2 DEF StampsInv
  <1>3. SpentInv' /\ OncePerStamp'
    BY DEF SpentInv, OncePerStamp, Guarded
  <1>4. \A q \in Clients : \A h \in Marked : kept'[q][h] # "granted"
    <2>1. kept' = [kept EXCEPT ![p] = KeepAll]
      BY DEF Leave
    <2>2. \A q \in Clients \ {p} : \A h \in Marked : kept[q][h] # "granted"
      BY DEF Guarded, Solo, AskInv
    <2>3. QED
      BY <2>1, <2>2 DEF KeepAll, TypeOK
  <1>5. AskInv' /\ AwaitInv'
    BY <1>0, <1>4 DEF AskInv, AwaitInv, Awaits, Asking
  <1>6. QED
    BY <1>1, <1>2, <1>3, <1>5 DEF Guarded

(* dropRanHooks moves on to the next hook after a step of the script that  *)
(* leaves the ledger alone; granted is answered only with the timestamp    *)
(* printed.                                                                *)
LEMMA AskedStep ==
  ASSUME TypeOK, PosInv, TypeOK', PosInv', Guarded, NEW p \in Clients, Asking(p),
         NEW answer \in {"keep", "granted", "dropped", "lost"}, Asked(p, answer),
         UNCHANGED <<created, started, snap, next, begun>>,
         marker' \in {marker, [marker EXCEPT ![at[p]] = Content(p, at[p])]},
         marker' # marker => pc[p] = "print",
         answer = "granted" => pc[p] = "print" /\ marker'[at[p]] = Content(p, at[p])
  PROVE  Guarded'
  <1> DEFINE h == at[p]
  <1>1. h \in Marked /\ next[p] = 1
    BY DEF PosInv
  <1>2. /\ pc' = [pc EXCEPT ![p] = IF h = PostStart THEN "phase" ELSE "ask"]
        /\ at' = [at EXCEPT ![p] = IF h = PostStart THEN OnCreate ELSE h + 1]
    BY DEF Asked, Goto
  <1>3. /\ \A q \in Clients \ {p} : kept'[q] = kept[q]
        /\ \A k \in Marked \ {h} : kept'[p][k] = kept[p][k]
        /\ kept'[p][h] = "granted" => answer = "granted"
    BY <1>1 DEF Asked, TypeOK
  <1>4. \A q \in Clients \ {p} : pc[q] = "idle" /\ pc'[q] = "idle" /\ at'[q] = at[q]
    BY <1>2 DEF Guarded, Solo, Asking, TypeOK
  <1>5. \A k \in Marked \ {h} : marker'[k] = marker[k]
    BY DEF TypeOK
  <1>6. marker'[h] = marker[h] \/ (pc[p] = "print" /\ marker'[h] = Content(p, h))
    BY <1>1 DEF TypeOK
  <1>7. \A q \in Clients, k \in Marked : Content(q, k)' = Content(q, k) /\ Stamp(k)' = Stamp(k)
    BY DEF Content, Stamp
  <1>8. \A q \in Clients \ {p} : \A k \in Marked : Content(q, k) = Unknown
    BY <1>4 DEF Guarded, StampsInv
  <1>9. Solo'
    BY <1>4 DEF Solo
  <1>10. StampsInv'
    <2>1. created' <= started' /\ started' <= MaxStarts
      BY DEF Guarded, StampsInv
    <2>2. \A k \in Marked : marker'[k] <= Stamp(k)
      BY <1>1, <1>5, <1>6 DEF Guarded, StampsInv
    <2>3. \A k \in Marked : Content(p, k) # Unknown => marker'[k] <= Content(p, k)
      <3>1. Content(p, h) \in Nat
        BY ContentType
      <3>2. QED
        BY <1>1, <1>5, <1>6, <3>1 DEF Guarded, StampsInv
    <2>4. pc'[p] \notin {"idle", "inspect"}
      BY <1>2 DEF TypeOK
    <2>5. QED
      BY <1>7, <1>8, <2>1, <2>2, <2>3, <2>4 DEF Guarded, StampsInv
  <1>11. SpentInv'
    <2> SUFFICES ASSUME NEW k \in Marked, NEW i \in DOMAIN begun[k]
                 PROVE  marker'[k] = Empty \/ begun[k][i] <= marker'[k]
      BY DEF SpentInv
    <2>1. CASE marker'[k] = marker[k]
      BY <2>1 DEF Guarded, SpentInv
    <2>2. CASE k = h /\ pc[p] = "print" /\ marker'[h] = Content(p, h)
      <3>1. begun[k][i] \in Nat /\ Content(p, h) \in Nat
        BY LedgerType, ContentType
      <3>2. begun[k][i] < Content(p, h)
        BY <2>2 DEF Guarded, AskInv, BegunBefore
      <3>3. QED
        BY <2>2, <3>1, <3>2
    <2>3. QED
      BY <1>5, <1>6, <2>1, <2>2
  <1>12. AskInv'
    <2> SUFFICES ASSUME NEW q \in Clients
                 PROVE  /\ pc'[q] \in {"idle", "inspect", "home"} => \A k \in Marked : kept'[q][k] # "granted"
                        /\ Asking(q)' => \A k \in at'[q]..PostStart : kept'[q][k] # "granted"
                        /\ pc'[q] \notin {"truncate", "print"}
      BY DEF AskInv
    <2>1. CASE q = p
      <3>a. /\ pc'[p] = IF h = PostStart THEN "phase" ELSE "ask"
            /\ at'[p] = IF h = PostStart THEN OnCreate ELSE h + 1
        <4> HIDE DEF h
        <4>1. QED
          BY <1>2 DEF TypeOK
      <3>1. h \in 1..4 /\ (h # 4 => at'[p] = h + 1) /\ pc'[p] \in {"phase", "ask"} /\ (h = 4 => pc'[p] = "phase")
        BY <1>1, <3>a
      <3>2. \A k \in h..4 : kept[p][k] # "granted"
        BY DEF Guarded, AskInv
      <3>3. \A k \in (h + 1)..4 : kept'[p][k] # "granted"
        BY <1>1, <1>3, <3>2
      <3>4. QED
        BY <2>1, <3>1, <3>3 DEF Asking
    <2>2. CASE q # p
      BY <2>2, <1>3, <1>4 DEF Guarded, AskInv, Asking
    <2>3. QED
      BY <2>1, <2>2
  <1>13. AwaitInv'
    <2> SUFFICES ASSUME NEW q \in Clients, NEW k \in Marked, Awaits(q, k)'
                 PROVE  Content(q, k) # Unknown /\ marker'[k] = Content(q, k) /\ BegunBefore(k, Content(q, k))
      BY <1>7 DEF AwaitInv, BegunBefore
    <2>1. q = p
      BY <1>3, <1>4 DEF Awaits, Guarded, AskInv
    <2>2. CASE k = h
      BY <1>1, <1>3, <2>1, <2>2 DEF Awaits, Guarded, AskInv
    <2>3. CASE k # h
      <3>1. Awaits(p, k)
        BY <1>1, <1>3, <2>1, <2>3 DEF Awaits
      <3>2. QED
        BY <1>5, <2>1, <2>3, <3>1 DEF Guarded, AwaitInv
    <2>4. QED
      BY <2>2, <2>3
  <1>14. OncePerStamp'
    BY DEF Guarded, OncePerStamp
  <1>15. QED
    BY <1>9, <1>10, <1>11, <1>12, <1>13, <1>14 DEF Guarded

(* The first command of a granted hook enters the ledger.                  *)
LEMMA StartStep ==
  ASSUME TypeOK, PosInv, TypeOK', PosInv', Guarded, NEW p \in Clients, StartCommand(p)
  PROVE  Guarded'
  <1> DEFINE h == at[p]
             stamp == Content(p, h)
  <1>1. CASE begun' = begun
    <2>1. ASSUME NEW k \in Marked, Awaits(p, k)' PROVE Awaits(p, k)
      BY <2>1 DEF StartCommand, Goto, Awaits, Asking, TypeOK
    <2>2. QED
      BY <1>1, <2>1, QuietStep DEF StartCommand, Goto, PCs, container
  <1>2. CASE /\ h \in Marked /\ kept[p][h] = "granted" /\ next[p] = 1
             /\ begun' = [begun EXCEPT ![h] = Append(@, stamp)]
    <2>1. stamp \in Nat /\ begun[h] \in Seq(Nat)
      BY <1>2, ContentType DEF TypeOK
    <2>2. Awaits(p, h)
      BY <1>2 DEF StartCommand, Awaits
    <2>3. stamp # Unknown /\ marker[h] = stamp /\ BegunBefore(h, stamp)
      BY <1>2, <2>2 DEF Guarded, AwaitInv
    <2>4. begun'[h] = Append(begun[h], stamp) /\ \A k \in Marked \ {h} : begun'[k] = begun[k]
      BY <1>2 DEF TypeOK
    <2>5. /\ \A i \in DOMAIN begun'[h] : begun'[h][i] = stamp \/ (i \in DOMAIN begun[h] /\ begun'[h][i] = begun[h][i])
          /\ \A i, j \in DOMAIN begun'[h] : i < j => begun'[h][i] < begun'[h][j]
      <3> HIDE DEF stamp, h
      <3>1. \A i, j \in DOMAIN begun[h] : i < j => begun[h][i] < begun[h][j]
        BY <1>2 DEF Guarded, OncePerStamp
      <3>2. \A i \in DOMAIN begun[h] : begun[h][i] < stamp
        BY <2>3 DEF BegunBefore
      <3>3. QED
        BY <2>1, <2>4, <3>1, <3>2
    <2>6. /\ UNCHANGED <<created, started, marker, snap, kept, at, next>>
          /\ pc' = [pc EXCEPT ![p] = "running"]
      BY DEF StartCommand, Goto, container
    <2>7. \A q \in Clients \ {p} : pc[q] = "idle" /\ pc'[q] = "idle"
      BY <2>6 DEF StartCommand, Guarded, Solo, TypeOK
    <2>8. Solo'
      BY <2>7 DEF Solo
    <2>9. StampsInv'
      BY <2>6 DEF Guarded, StampsInv, Stamp, Content, TypeOK
    <2>10. SpentInv'
      <3> HIDE DEF stamp, h
      <3> SUFFICES ASSUME NEW k \in Marked, NEW i \in DOMAIN begun'[k]
                   PROVE  marker[k] = Empty \/ begun'[k][i] <= marker[k]
        BY <2>6 DEF SpentInv
      <3>1. CASE k = h
        <4>1. CASE begun'[h][i] = stamp
          BY <3>1, <4>1, <2>1, <2>3
        <4>2. CASE i \in DOMAIN begun[h] /\ begun'[h][i] = begun[h][i]
          <5>1. marker[h] = Empty \/ begun[h][i] <= marker[h]
            BY <3>1, <4>2 DEF Guarded, SpentInv
          <5>2. QED
            BY <3>1, <4>2, <5>1
        <4>3. QED
          BY <3>1, <4>1, <4>2, <2>5
      <3>2. CASE k # h
        BY <3>2, <2>4 DEF Guarded, SpentInv
      <3>3. QED
        BY <3>1, <3>2
    <2>11. AskInv'
      BY <2>6, <2>7 DEF Guarded, AskInv, Asking, TypeOK
    <2>12. AwaitInv'
      <3> SUFFICES ASSUME NEW q \in Clients, NEW k \in Marked, Awaits(q, k)'
                   PROVE  (Content(q, k) # Unknown /\ marker[k] = Content(q, k) /\ BegunBefore(k, Content(q, k)))'
        BY DEF AwaitInv
      <3>1. q = p
        BY <2>6, <2>7 DEF Guarded, AskInv, Awaits
      <3>2. Awaits(p, k) /\ k # h
        BY <2>6, <3>1 DEF Awaits, Asking, StartCommand, TypeOK
      <3>3. Content(p, k)' = Content(p, k) /\ begun'[k] = begun[k]
        BY <2>4, <2>6, <3>2 DEF Content
      <3>4. QED
        BY <2>6, <3>1, <3>2, <3>3 DEF Guarded, AwaitInv, BegunBefore
    <2>13. OncePerStamp'
      <3> HIDE DEF stamp, h
      <3> SUFFICES ASSUME NEW k \in Marked
                   PROVE  \A i, j \in DOMAIN begun'[k] : i < j => begun'[k][i] < begun'[k][j]
        BY DEF OncePerStamp
      <3>1. CASE k = h
        BY <3>1, <2>5
      <3>2. CASE k # h
        BY <3>2, <2>4 DEF Guarded, OncePerStamp
      <3>3. QED
        BY <3>1, <3>2
    <2>14. QED
      BY <2>8, <2>9, <2>10, <2>11, <2>12, <2>13 DEF Guarded
  <1>3. QED
    BY <1>1, <1>2 DEF StartCommand

(* A phase ends: what the client waits for can only become less.           *)
LEMMA NextPhaseStep ==
  ASSUME TypeOK, PosInv, TypeOK', PosInv', Guarded, NEW p \in Clients, NextPhase(p),
         pc[p] \in {"phase", "dotfiles", "install"},
         UNCHANGED <<created, started, marker, snap, kept, begun>>
  PROVE  Guarded'
  <1>1. CASE Stops(p) \/ at[p] = PostAttach
    <2>1. pc' = [pc EXCEPT ![p] = "done"] /\ UNCHANGED <<at, next>>
      BY <1>1 DEF NextPhase, Goto
    <2>2. \A k \in Marked : Awaits(p, k)' => Awaits(p, k)
      BY <2>1 DEF Awaits, Asking, TypeOK
    <2>3. QED
      BY <2>1, <2>2, QuietStep DEF PCs
  <1>2. CASE ~(Stops(p) \/ at[p] = PostAttach)
    <2>1. /\ pc' = [pc EXCEPT ![p] = "phase"] /\ at' = [at EXCEPT ![p] = @ + 1]
          /\ next' = [next EXCEPT ![p] = 1]
      BY <1>2 DEF NextPhase, Goto
    <2>2. at[p] \in Phases /\ at'[p] = at[p] + 1 /\ pc'[p] = "phase"
      BY <2>1 DEF TypeOK
    <2>3. ASSUME NEW k \in Marked, Awaits(p, k)' PROVE Awaits(p, k)
      <3>1. kept[p][k] = "granted" /\ at[p] < k
        BY <2>2, <2>3 DEF Awaits, Asking
      <3>2. QED
        BY <3>1 DEF Awaits
    <2>4. \A q \in Clients \ {p} : at'[q] = at[q] /\ next'[q] = next[q]
      BY <2>1 DEF TypeOK
    <2>5. QED
      BY <2>1, <2>3, <2>4, QuietStep DEF PCs
  <1>3. QED
    BY <1>1, <1>2

(* When clients do not overlap, every step preserves Guarded.              *)
LEMMA GuardedStep ==
  ASSUME ~Concurrent, TypeOK, PosInv, TypeOK', PosInv', Guarded, [Next]_vars
  PROVE  Guarded'
  <1>1. ASSUME NEW p \in Clients, Begin(p) PROVE Guarded'
    <2>1. /\ UNCHANGED <<created, started, marker, snap, kept, at, next, begun>>
          /\ pc' = [pc EXCEPT ![p] = "inspect"] /\ \A q \in Clients : pc[q] = "idle"
      BY <1>1 DEF Begin, Goto, container, Quiescent
    <2>2. Solo'
      BY <2>1 DEF Solo, TypeOK
    <2>3. StampsInv'
      BY <2>1 DEF Guarded, StampsInv, Stamp, Content, TypeOK
    <2>4. SpentInv' /\ OncePerStamp'
      BY <2>1 DEF Guarded, SpentInv, OncePerStamp
    <2>5. AskInv' /\ AwaitInv'
      BY <2>1 DEF Guarded, AskInv, AwaitInv, Awaits, Asking, TypeOK
    <2>6. QED
      BY <2>2, <2>3, <2>4, <2>5 DEF Guarded
  <1>2. ASSUME NEW p \in Clients, Inspect(p) PROVE Guarded'
    <2>1. /\ UNCHANGED <<created, started, marker, kept, at, next, begun>>
          /\ pc[p] = "inspect" /\ pc' = [pc EXCEPT ![p] = "home"]
          /\ snap' = [snap EXCEPT ![p] = [created |-> created, started |-> started]]
      BY <1>2 DEF Inspect, Goto, container, history
    <2>2. \A q \in Clients \ {p} : pc[q] = "idle" /\ pc'[q] = "idle"
      BY <2>1 DEF Guarded, Solo, TypeOK
    <2>3. Solo'
      BY <2>2 DEF Solo
    <2>4. \A h \in Marked : Content(p, h)' = Stamp(h) /\ Stamp(h)' = Stamp(h)
      BY <2>1 DEF Content, Stamp, TypeOK
    <2>5. \A q \in Clients \ {p} : \A h \in Marked : Content(q, h)' = Content(q, h)
      BY <2>1 DEF Content, TypeOK
    <2>6. StampsInv'
      <3>1. pc'[p] = "home"
        BY <2>1 DEF TypeOK
      <3>2. \A h \in Marked : Stamp(h) \in Nat
        BY DEF Stamp, TypeOK
      <3>3. created' <= started' /\ started' <= MaxStarts /\ \A h \in Marked : marker'[h] <= Stamp(h)'
        BY <2>1, <2>4 DEF Guarded, StampsInv
      <3>4. ASSUME NEW q \in Clients, NEW h \in Marked
            PROVE  /\ Content(q, h)' <= Stamp(h)'
                   /\ Content(q, h)' # Unknown => marker'[h] <= Content(q, h)'
                   /\ pc'[q] \in {"idle", "inspect"} => Content(q, h)' = Unknown
        <4>1. CASE q = p
          BY <4>1, <2>1, <2>4, <3>1, <3>2, <3>3
        <4>2. CASE q # p
          BY <4>2, <2>1, <2>2, <2>4, <2>5 DEF Guarded, StampsInv
        <4>3. QED
          BY <4>1, <4>2
      <3>5. QED
        BY <3>3, <3>4 DEF StampsInv
    <2>7. SpentInv' /\ OncePerStamp'
      BY <2>1 DEF Guarded, SpentInv, OncePerStamp
    <2>8. \A q \in Clients : /\ pc'[q] \in {"idle", "home"}
                            /\ \A h \in Marked : kept'[q][h] # "granted"
      BY <2>1, <2>2 DEF Guarded, AskInv, TypeOK
    <2>9. AskInv' /\ AwaitInv'
      BY <2>8 DEF AskInv, AwaitInv, Awaits, Asking
    <2>10. QED
      BY <2>3, <2>6, <2>7, <2>9 DEF Guarded
  <1>3. ASSUME NEW p \in Clients, InspectFails(p) PROVE Guarded'
    <2>1. \A h \in Marked : kept[p][h] # "granted"
      BY <1>3 DEF InspectFails, Guarded, AskInv
    <2>2. \A h \in Marked : ~Awaits(p, h)'
      BY <2>1, <1>3 DEF InspectFails, Awaits
    <2>3. QED
      BY <1>3, <2>1, <2>2, QuietStep DEF InspectFails, Goto, PCs, container
  <1>4. ASSUME NEW p \in Clients, ResolveHome(p) PROVE Guarded'
    <2>1. (\A h \in Marked : kept[p][h] # "granted") /\ at[p] = OnCreate
      BY <1>4 DEF ResolveHome, Guarded, AskInv, PosInv
    <2>2. \A h \in Marked : ~Awaits(p, h)'
      BY <2>1, <1>4 DEF ResolveHome, Awaits
    <2>3. QED
      BY <1>4, <2>1, <2>2, QuietStep DEF ResolveHome, Goto, PCs, container, history
  <1>5. ASSUME NEW p \in Clients, ResolveHomeFails(p) PROVE Guarded'
    <2>1. \A h \in Marked : kept[p][h] # "granted"
      BY <1>5 DEF ResolveHomeFails, Guarded, AskInv
    <2>2. \A h \in Marked : ~Awaits(p, h)'
      BY <2>1, <1>5 DEF ResolveHomeFails, Awaits
    <2>3. QED
      BY <1>5, <2>1, <2>2, QuietStep DEF ResolveHomeFails, Goto, PCs, container
  <1>6. ASSUME NEW p \in Clients, AskMarker(p) PROVE Guarded'
    <2>0. Asking(p) /\ UNCHANGED <<created, started, marker, snap, next, begun>>
      BY <1>6 DEF AskMarker, Asking, container, history
    <2>1. CASE Asked(p, "keep")
      BY <2>0, <2>1, AskedStep
    <2>2. CASE Asked(p, "dropped")
      BY <2>0, <2>2, AskedStep
    <2>3. CASE /\ Content(p, at[p]) # Unknown /\ marker[at[p]] \notin {Empty, Content(p, at[p])}
               /\ Goto(p, "truncate") /\ UNCHANGED <<kept, at>>
      <3>1. pc' = [pc EXCEPT ![p] = "truncate"] /\ pc[p] = "ask"
        BY <1>6, <2>3 DEF AskMarker, Goto
      <3>2. \A q \in Clients, k \in Marked : Content(q, k)' = Content(q, k) /\ Stamp(k)' = Stamp(k)
        BY <2>0 DEF Content, Stamp
      <3>3. Solo'
        BY <3>1 DEF Guarded, Solo, TypeOK
      <3>4. StampsInv'
        BY <2>0, <3>1, <3>2 DEF Guarded, StampsInv, TypeOK
      <3>5. SpentInv' /\ OncePerStamp'
        BY <2>0 DEF Guarded, SpentInv, OncePerStamp
      <3>6. AskInv'
        <4> SUFFICES ASSUME NEW q \in Clients
                     PROVE  /\ pc'[q] \in {"idle", "inspect", "home"} => \A h \in Marked : kept[q][h] # "granted"
                            /\ Asking(q)' => \A h \in at[q]..PostStart : kept[q][h] # "granted"
                            /\ pc'[q] = "truncate" => Content(q, at[q])' # Unknown /\ marker[at[q]] \notin {Empty, Content(q, at[q])'}
                            /\ pc'[q] = "print" => Content(q, at[q])' # Unknown /\ marker[at[q]] = Empty /\ BegunBefore(at[q], Content(q, at[q]))'
          BY <2>0, <2>3 DEF AskInv
        <4>1. Content(q, at[q])' = Content(q, at[q]) /\ (BegunBefore(at[q], Content(q, at[q]))' <=> BegunBefore(at[q], Content(q, at[q])))
          BY <2>0, <2>3 DEF Content, BegunBefore
        <4>2. CASE q = p
          BY <2>0, <2>3, <3>1, <4>1, <4>2 DEF Guarded, AskInv, Asking, TypeOK
        <4>3. CASE q # p
          BY <3>1, <4>1, <4>3 DEF Guarded, AskInv, Asking, TypeOK
        <4>4. QED
          BY <4>2, <4>3
      <3>7. AwaitInv'
        <4> SUFFICES ASSUME NEW q \in Clients, NEW h \in Marked, Awaits(q, h)'
                     PROVE  (Content(q, h) # Unknown /\ marker[h] = Content(q, h) /\ BegunBefore(h, Content(q, h)))'
          BY DEF AwaitInv
        <4>1. Awaits(q, h)
          BY <2>0, <2>3, <3>1 DEF Awaits, Asking, TypeOK
        <4>2. QED
          BY <2>0, <3>2, <4>1 DEF Guarded, AwaitInv, BegunBefore
      <3>8. QED
        BY <3>3, <3>4, <3>5, <3>6, <3>7 DEF Guarded
    <2>4. QED
      BY <1>6, <2>1, <2>2, <2>3 DEF AskMarker
  <1>7. ASSUME NEW p \in Clients, TruncateMarker(p) PROVE Guarded'
    <2> DEFINE h == at[p]
    <2>1. /\ pc[p] = "truncate" /\ pc' = [pc EXCEPT ![p] = "print"] /\ marker' = [marker EXCEPT ![h] = Empty]
          /\ UNCHANGED <<created, started, snap, kept, at, next, begun>>
      BY <1>7 DEF TruncateMarker, Goto, history
    <2>2. \A q \in Clients, k \in Marked : Content(q, k)' = Content(q, k) /\ Stamp(k)' = Stamp(k)
      BY <2>1 DEF Content, Stamp
    <2>3. h \in Marked /\ marker'[h] = Empty /\ \A k \in Marked \ {h} : marker'[k] = marker[k]
      BY <2>1 DEF PosInv, Asking, TypeOK
    <2>4. \A q \in Clients \ {p} : pc[q] = "idle" /\ pc'[q] = "idle"
      BY <2>1 DEF Guarded, Solo, TypeOK
    <2>5. Solo'
      BY <2>4 DEF Solo
    <2>6. StampsInv'
      <3>1. \A k \in Marked : Stamp(k) \in Nat
        BY DEF Stamp, TypeOK
      <3>2. \A q \in Clients, k \in Marked : Content(q, k) \in Nat
        BY ContentType
      <3>3. pc'[p] = "print"
        BY <2>1 DEF TypeOK
      <3>4. QED
        BY <2>1, <2>2, <2>3, <2>4, <3>1, <3>2, <3>3 DEF Guarded, StampsInv
    <2>7. SpentInv' /\ OncePerStamp'
      BY <2>1, <2>3 DEF Guarded, SpentInv, OncePerStamp
    <2>8. BegunBefore(h, Content(p, h))
      <3>1. ASSUME NEW i \in DOMAIN begun[h] PROVE begun[h][i] < Content(p, h)
        <4>1. begun[h][i] \in Nat /\ Content(p, h) \in Nat /\ marker[h] \in Nat \cup {-1}
          BY <2>3, LedgerType, ContentType DEF TypeOK
        <4>2. marker[h] # -1 /\ marker[h] # Content(p, h) /\ Content(p, h) # 0
          BY <2>1 DEF Guarded, AskInv
        <4>3. begun[h][i] <= marker[h] /\ marker[h] <= Content(p, h)
          BY <2>3, <4>2 DEF Guarded, SpentInv, StampsInv
        <4>4. QED
          BY <4>1, <4>2, <4>3
      <3>2. QED
        BY <3>1 DEF BegunBefore
    <2>9. AskInv'
      <3>1. Content(p, h)' = Content(p, h) /\ Content(p, h) # Unknown /\ BegunBefore(h, Content(p, h))'
        BY <2>1, <2>2, <2>3, <2>8 DEF Guarded, AskInv, BegunBefore
      <3>2. pc'[p] = "print" /\ at'[p] = h /\ kept'[p] = kept[p]
        BY <2>1 DEF TypeOK
      <3>3. \A k \in h..PostStart : kept[p][k] # "granted"
        BY <2>1 DEF Guarded, AskInv, Asking
      <3>4. \A q \in Clients \ {p} : \A k \in Marked : kept'[q][k] # "granted"
        BY <2>1, <2>4 DEF Guarded, AskInv
      <3>5. QED
        BY <2>1, <2>3, <2>4, <3>1, <3>2, <3>3, <3>4 DEF AskInv, Asking
    <2>10. AwaitInv'
      <3> SUFFICES ASSUME NEW q \in Clients, NEW k \in Marked, Awaits(q, k)'
                   PROVE  (Content(q, k) # Unknown /\ marker[k] = Content(q, k) /\ BegunBefore(k, Content(q, k)))'
        BY DEF AwaitInv
      <3>1. q = p
        BY <2>1, <2>4 DEF Guarded, AskInv, Awaits
      <3>2. Awaits(p, k) /\ k # h
        BY <2>1, <2>3, <3>1 DEF Awaits, Asking, TypeOK, Guarded, AskInv
      <3>3. QED
        BY <2>1, <2>2, <2>3, <3>1, <3>2 DEF Guarded, AwaitInv, BegunBefore
    <2>11. QED
      BY <2>5, <2>6, <2>7, <2>9, <2>10 DEF Guarded
  <1>8. ASSUME NEW p \in Clients, PrintMarker(p) PROVE Guarded'
    <2>1. /\ pc[p] = "print" /\ Asking(p) /\ Asked(p, "granted")
          /\ marker' = [marker EXCEPT ![at[p]] = Content(p, at[p])]
          /\ UNCHANGED <<created, started, snap, next, begun>>
      BY <1>8 DEF PrintMarker, Asking, history
    <2>2. marker'[at[p]] = Content(p, at[p])
      BY <2>1 DEF PosInv, TypeOK
    <2>3. QED
      BY <2>1, <2>2, AskedStep
  <1>9. ASSUME NEW p \in Clients, MarkerFails(p) PROVE Guarded'
    <2>1. /\ Asking(p) /\ Asked(p, "lost")
          /\ marker' = marker \/ (pc[p] = "print" /\ marker' = [marker EXCEPT ![at[p]] = Content(p, at[p])])
          /\ UNCHANGED <<created, started, snap, next, begun>>
      BY <1>9 DEF MarkerFails, Asking
    <2>2. QED
      BY <2>1, AskedStep
  <1>10. ASSUME NEW p \in Clients, StartCommand(p) PROVE Guarded'
    BY <1>10, StartStep
  <1>11. ASSUME NEW p \in Clients, EndPart(p) PROVE Guarded'
    BY <1>11 DEF EndPart, container, history, Guarded, Solo, StampsInv, Stamp, Content, SpentInv,
                 AskInv, Asking, AwaitInv, Awaits, BegunBefore, OncePerStamp
  <1>12. ASSUME NEW p \in Clients, EndCommand(p) PROVE Guarded'
    <2>1. /\ pc[p] = "running" /\ UNCHANGED <<created, started, marker, snap, kept, at, begun>>
          /\ \/ pc' = [pc EXCEPT ![p] = "phase"] /\ next' = [next EXCEPT ![p] = @ + 1]
             \/ pc' = [pc EXCEPT ![p] = "failed"] /\ next' = next
      BY <1>12 DEF EndCommand, Goto, container
    <2>2. ASSUME NEW h \in Marked, Awaits(p, h)' PROVE Awaits(p, h)
      BY <2>1, <2>2 DEF Awaits, Asking, TypeOK
    <2>3. \A q \in Clients \ {p} : at'[q] = at[q] /\ next'[q] = next[q]
      BY <2>1 DEF TypeOK
    <2>4. QED
      BY <2>1, <2>2, <2>3, QuietStep DEF PCs
  <1>13. ASSUME NEW p \in Clients, EndPhase(p) PROVE Guarded'
    <2>1. CASE NextPhase(p)
      BY <1>13, <2>1, NextPhaseStep DEF EndPhase, container
    <2>2. CASE Goto(p, "dotfiles") /\ UNCHANGED <<at, next>>
      <3>1. \A h \in Marked : Awaits(p, h)' => Awaits(p, h)
        BY <1>13, <2>2 DEF EndPhase, Goto, Awaits, Asking, TypeOK
      <3>2. QED
        BY <1>13, <2>2, <3>1, QuietStep DEF EndPhase, Goto, PCs, container
    <2>3. QED
      BY <1>13, <2>1, <2>2 DEF EndPhase
  <1>14. ASSUME NEW p \in Clients, CheckDotfiles(p) PROVE Guarded'
    <2>1. CASE NextPhase(p)
      BY <1>14, <2>1, NextPhaseStep DEF CheckDotfiles, container
    <2>2. CASE Goto(p, "install") /\ UNCHANGED <<at, next>>
      <3>1. \A h \in Marked : Awaits(p, h)' => Awaits(p, h)
        BY <1>14, <2>2 DEF CheckDotfiles, Goto, Awaits, Asking, TypeOK
      <3>2. QED
        BY <1>14, <2>2, <3>1, QuietStep DEF CheckDotfiles, Goto, PCs, container
    <2>3. QED
      BY <1>14, <2>1, <2>2 DEF CheckDotfiles
  <1>15. ASSUME NEW p \in Clients, InstallDotfiles(p) PROVE Guarded'
    BY <1>15, NextPhaseStep DEF InstallDotfiles
  <1>16. ASSUME NEW p \in Clients, Finish(p) PROVE Guarded'
    <2>1. pc[p] # "idle" /\ Leave(p) /\ UNCHANGED <<created, started, marker, begun>>
      BY <1>16 DEF Finish, container, history
    <2>2. QED
      BY <2>1, LeaveStep DEF Guarded, StampsInv, SpentInv
  <1>17. ASSUME NEW p \in Clients, Crash(p) PROVE Guarded'
    <2> DEFINE h == at[p]
    <2>1. /\ pc[p] # "idle" /\ Leave(p) /\ UNCHANGED <<created, started, begun>>
          /\ \/ marker' = marker
             \/ pc[p] = "truncate" /\ marker' = [marker EXCEPT ![h] = Empty]
             \/ pc[p] \in {"truncate", "print"} /\ marker' = [marker EXCEPT ![h] = Content(p, h)]
      BY <1>17 DEF Crash
    <2>2. CASE marker' = marker
      BY <2>1, <2>2, LeaveStep DEF Guarded, StampsInv, SpentInv
    <2>3. CASE pc[p] = "truncate" /\ marker' = [marker EXCEPT ![h] = Empty]
      <3>1. \A k \in Marked : marker'[k] = marker[k] \/ marker'[k] = Empty
        BY <2>3 DEF TypeOK
      <3>2. \A k \in Marked : Stamp(k) \in Nat
        BY DEF Stamp, TypeOK
      <3>3. \A k \in Marked : marker'[k] <= Stamp(k)
        BY <3>1, <3>2 DEF Guarded, StampsInv
      <3>4. \A k \in Marked : \A i \in DOMAIN begun[k] : marker'[k] = Empty \/ begun[k][i] <= marker'[k]
        BY <3>1 DEF Guarded, SpentInv
      <3>5. QED
        BY <2>1, <3>3, <3>4, LeaveStep
    <2>4. CASE pc[p] \in {"truncate", "print"} /\ marker' = [marker EXCEPT ![h] = Content(p, h)]
      <3>1. h \in Marked /\ marker'[h] = Content(p, h) /\ \A k \in Marked \ {h} : marker'[k] = marker[k]
        BY <2>4 DEF PosInv, Asking, TypeOK
      <3>2. \A k \in Marked : marker'[k] <= Stamp(k)
        BY <3>1 DEF Guarded, StampsInv
      <3>3. ASSUME NEW i \in DOMAIN begun[h] PROVE begun[h][i] <= Content(p, h)
        <4>1. begun[h][i] \in Nat /\ Content(p, h) \in Nat /\ marker[h] \in Nat \cup {-1}
          BY <3>1, LedgerType, ContentType DEF TypeOK
        <4>2. CASE pc[p] = "print"
          BY <4>1, <4>2 DEF Guarded, AskInv, BegunBefore
        <4>3. CASE pc[p] = "truncate"
          <5>1. marker[h] # -1 /\ Content(p, h) # 0
            BY <4>3 DEF Guarded, AskInv
          <5>2. begun[h][i] <= marker[h] /\ marker[h] <= Content(p, h)
            BY <3>1, <5>1 DEF Guarded, SpentInv, StampsInv
          <5>3. QED
            BY <4>1, <5>1, <5>2
        <4>4. QED
          BY <2>4, <4>2, <4>3
      <3>4. \A k \in Marked : \A i \in DOMAIN begun[k] : marker'[k] = Empty \/ begun[k][i] <= marker'[k]
        BY <3>1, <3>3 DEF Guarded, SpentInv
      <3>5. QED
        BY <2>1, <3>2, <3>4, LeaveStep
    <2>5. QED
      BY <2>1, <2>2, <2>3, <2>4
  <1>18. ASSUME Restart PROVE Guarded'
    <2>1. /\ started < MaxStarts /\ started' = started + 1
          /\ UNCHANGED <<created, marker, snap, kept, at, next, begun>>
          /\ \A q \in Clients : \/ pc'[q] = pc[q]
                                \/ pc[q] = "running" /\ pc'[q] = "failed"
                                \/ pc[q] \in {"truncate", "print"} /\ pc'[q] = "killed"
          /\ \A q \in Clients : pc'[q] \notin {"truncate", "print"}
      BY <1>18 DEF Restart
    <2>2. Solo'
      BY <2>1 DEF Guarded, Solo
    <2>3. StampsInv'
      <3>1. \A q \in Clients, k \in Marked : Content(q, k)' = Content(q, k) /\ Content(q, k) \in Nat
        BY <2>1, ContentType DEF Content
      <3>2. \A k \in Marked : Stamp(k) \in Nat /\ Stamp(k)' \in Nat /\ Stamp(k) <= Stamp(k)'
        BY <2>1 DEF Stamp, TypeOK
      <3>3. \A k \in Marked : marker[k] \in Nat \cup {-1}
        BY DEF TypeOK
      <3>4. created' <= started' /\ started' <= MaxStarts
        BY <2>1, BoundsAssumption DEF Guarded, StampsInv, TypeOK
      <3>5. \A k \in Marked : marker'[k] <= Stamp(k)'
        BY <2>1, <3>2, <3>3 DEF Guarded, StampsInv
      <3>6. ASSUME NEW q \in Clients, NEW k \in Marked
            PROVE  /\ Content(q, k)' <= Stamp(k)'
                   /\ Content(q, k)' # Unknown => marker'[k] <= Content(q, k)'
                   /\ pc'[q] \in {"idle", "inspect"} => Content(q, k)' = Unknown
        BY <2>1, <3>1, <3>2 DEF Guarded, StampsInv
      <3>7. QED
        BY <3>4, <3>5, <3>6 DEF StampsInv
    <2>4. SpentInv' /\ OncePerStamp'
      BY <2>1 DEF Guarded, SpentInv, OncePerStamp
    <2>5. AskInv'
      BY <2>1 DEF Guarded, AskInv, Asking
    <2>6. AwaitInv'
      <3> SUFFICES ASSUME NEW q \in Clients, NEW k \in Marked, Awaits(q, k)'
                   PROVE  (Content(q, k) # Unknown /\ marker[k] = Content(q, k) /\ BegunBefore(k, Content(q, k)))'
        BY DEF AwaitInv
      <3>1. Awaits(q, k)
        BY <2>1 DEF Awaits, Asking
      <3>2. QED
        BY <2>1, <3>1 DEF Guarded, AwaitInv, BegunBefore, Content
    <2>7. QED
      BY <2>2, <2>3, <2>4, <2>5, <2>6 DEF Guarded
  <1>19. ASSUME Recreate PROVE Guarded'
    <2>1. /\ started < MaxStarts /\ created' = created + 1 /\ started' = started + 1
          /\ UNCHANGED <<marker, pc, snap, kept, at, next, begun>>
      BY <1>19 DEF Recreate, client, history
    <2>2. StampsInv'
      <3>1. \A q \in Clients, k \in Marked : Content(q, k)' = Content(q, k) /\ Content(q, k) \in Nat
        BY <2>1, ContentType DEF Content
      <3>2. \A k \in Marked : Stamp(k) \in Nat /\ Stamp(k)' \in Nat /\ Stamp(k) <= Stamp(k)'
        BY <2>1 DEF Stamp, TypeOK
      <3>3. \A k \in Marked : marker[k] \in Nat \cup {-1}
        BY DEF TypeOK
      <3>4. created' <= started' /\ started' <= MaxStarts
        BY <2>1, BoundsAssumption DEF Guarded, StampsInv, TypeOK
      <3>5. QED
        BY <2>1, <3>1, <3>2, <3>3, <3>4 DEF Guarded, StampsInv
    <2>3. Solo' /\ SpentInv' /\ OncePerStamp'
      BY <2>1 DEF Guarded, Solo, SpentInv, OncePerStamp
    <2>4. AskInv' /\ AwaitInv'
      BY <2>1 DEF Guarded, AskInv, Asking, AwaitInv, Awaits, BegunBefore, Content
    <2>5. QED
      BY <2>2, <2>3, <2>4 DEF Guarded
  <1>20. CASE UNCHANGED vars
    BY <1>20 DEF vars, container, client, history, Guarded, Solo, StampsInv, Stamp, Content, SpentInv,
                 AskInv, Asking, AwaitInv, Awaits, BegunBefore, OncePerStamp
  <1>21. QED
    BY <1>1, <1>2, <1>3, <1>4, <1>5, <1>6, <1>7, <1>8, <1>9, <1>10, <1>11, <1>12, <1>13,
       <1>14, <1>15, <1>16, <1>17, <1>18, <1>19, <1>20 DEF Next, Step, Fails, Rest

(* When clients do not overlap, Guarded is an invariant.                   *)
LEMMA GuardedAlways == ~Concurrent => (Spec => [](TypeOK /\ PosInv /\ Guarded))
  <1>1. Init => TypeOK /\ PosInv /\ Guarded
    BY TypeInit, GuardedInit
  <1>2. ~Concurrent /\ TypeOK /\ PosInv /\ Guarded /\ [Next]_vars => (TypeOK /\ PosInv /\ Guarded)'
    BY TypeStep, GuardedStep
  <1>3. (~Concurrent) = TRUE => (Init /\ [][Next]_vars => [](TypeOK /\ PosInv /\ Guarded))
    <2> SUFFICES ASSUME ~Concurrent PROVE Init /\ [][Next]_vars => [](TypeOK /\ PosInv /\ Guarded)
      OBVIOUS
    <2>1. TypeOK /\ PosInv /\ Guarded /\ [Next]_vars => (TypeOK /\ PosInv /\ Guarded)'
      BY <1>2
    <2>2. QED
      BY <1>1, <2>1, PTL
  <1>4. QED
    BY <1>3 DEF Spec

(* up.go applyLifecycleMarkers: when clients do not overlap, a hook that   *)
(* its marker lets run is begun at most once for a timestamp, through any  *)
(* crashes, restarts, failing scripts and failing commands.                *)
THEOREM HookBegunOncePerStamp == ~Concurrent => (Spec => []OncePerStamp)
  <1>1. TypeOK /\ PosInv /\ Guarded => OncePerStamp
    BY DEF Guarded
  <1>2. QED
    BY <1>1, GuardedAlways, PTL

-----------------------------------------------------------------------------
(* What a client does or suffers.                                          *)
StepOf(p) == Begin(p) \/ Step(p) \/ Fails(p) \/ Crash(p)

(* It leaves the other clients alone.                                      *)
LEMMA OthersStay ==
  ASSUME TypeOK, NEW p \in Clients, StepOf(p), NEW q \in Clients \ {p}
  PROVE  /\ pc'[q] = pc[q] /\ kept'[q] = kept[q] /\ at'[q] = at[q] /\ next'[q] = next[q]
         /\ snap'[q] = snap[q]
  <1> USE DEF TypeOK, Goto, container, history
  <1>1. CASE Begin(p) \/ Inspect(p) \/ InspectFails(p) \/ ResolveHome(p) \/ ResolveHomeFails(p)
    BY <1>1 DEF Begin, Inspect, InspectFails, ResolveHome, ResolveHomeFails
  <1>2. CASE AskMarker(p)
    BY <1>2 DEF AskMarker, Asked
  <1>3. CASE TruncateMarker(p) \/ PrintMarker(p) \/ MarkerFails(p)
    BY <1>3 DEF TruncateMarker, PrintMarker, MarkerFails, Asked
  <1>4. CASE StartCommand(p) \/ EndPart(p)
    BY <1>4 DEF StartCommand, EndPart
  <1>5. CASE EndCommand(p)
    BY <1>5 DEF EndCommand
  <1>6. CASE EndPhase(p) \/ CheckDotfiles(p) \/ InstallDotfiles(p)
    BY <1>6 DEF EndPhase, CheckDotfiles, InstallDotfiles, NextPhase
  <1>7. CASE Finish(p) \/ Crash(p)
    BY <1>7 DEF Finish, Crash, Leave
  <1>8. QED
    BY <1>1, <1>2, <1>3, <1>4, <1>5, <1>6, <1>7 DEF StepOf, Step, Fails

(* A next state is reached by a client, the environment or nobody.         *)
LEMMA NextIs ==
  ASSUME [Next]_vars
  PROVE  (\E p \in Clients : StepOf(p)) \/ Restart \/ Recreate \/ UNCHANGED vars
  BY DEF Next, StepOf, Rest

(* A hook whose marker was not asked yet is not granted.                   *)
UnaskedInv ==
  \A p \in Clients :
    /\ pc[p] \in {"idle", "inspect", "home"} => \A h \in Marked : kept[p][h] # "granted"
    /\ Asking(p) => \A h \in at[p]..PostStart : kept[p][h] # "granted"

(* A run that was not cut short did not fail, and ends after the marked    *)
(* hooks.                                                                  *)
EndsInv ==
  ~cutShort => \A p \in Clients : pc[p] # "failed" /\ (pc[p] = "done" => at[p] >= PostStart)

(* A marker holds a timestamp its hook was begun for, or is backed by a    *)
(* client: one that prints it, or one that has not come to the hook yet.   *)
Backed(h) ==
  \/ HasBegun(h, marker[h])
  \/ marker[h] = Empty /\ \E p \in Clients : pc[p] \in {"print", "killed"} /\ at[p] = h
  \/ \E p \in Clients : Awaits(p, h) /\ Content(p, h) = marker[h]

HonestInv == ~cutShort => \A h \in Marked : marker[h] # Absent /\ Commands[h] # << >> => Backed(h)

(* What an answer about a marker changes.                                  *)
LEMMA AskedEffect ==
  ASSUME TypeOK, PosInv, NEW p \in Clients, Asking(p), NEW answer \in {"keep", "granted", "dropped", "lost"}, Asked(p, answer)
  PROVE  /\ at[p] \in Marked
         /\ kept'[p][at[p]] = answer \/ (at[p] = UpdateContent /\ answer # "granted" /\ kept'[p][at[p]] = "keep")
         /\ \A h \in Marked \ {at[p]} : kept'[p][h] = kept[p][h]
         /\ at[p] = PostStart => pc'[p] = "phase" /\ at'[p] = OnCreate
         /\ at[p] # PostStart => pc'[p] = "ask" /\ at'[p] = at[p] + 1
  <1>1. at[p] \in Marked
    BY DEF PosInv
  <1>2. kept'[p][at[p]] = answer \/ (at[p] = UpdateContent /\ answer # "granted" /\ kept'[p][at[p]] = "keep")
    BY <1>1 DEF Asked, TypeOK
  <1>3. \A h \in Marked \ {at[p]} : kept'[p][h] = kept[p][h]
    BY <1>1 DEF Asked, TypeOK
  <1>4. /\ at[p] = PostStart => pc'[p] = "phase" /\ at'[p] = OnCreate
        /\ at[p] # PostStart => pc'[p] = "ask" /\ at'[p] = at[p] + 1
    BY <1>1 DEF Asked, Goto, TypeOK
  <1>5. QED
    BY <1>1, <1>2, <1>3, <1>4

(* A client that leaves is as before its run.                              *)
LEMMA LeaveEffect ==
  ASSUME TypeOK, NEW p \in Clients, Leave(p)
  PROVE  pc'[p] = "idle" /\ (\A h \in Marked : kept'[p][h] = "keep") /\ at'[p] = OnCreate
  BY DEF Leave, Goto, TypeOK, KeepAll

(* No hook is granted before its marker is asked.                          *)
LEMMA UnaskedStep == TypeOK /\ PosInv /\ UnaskedInv /\ [Next]_vars => UnaskedInv'
  <1> SUFFICES ASSUME TypeOK, PosInv, UnaskedInv, [Next]_vars PROVE UnaskedInv'
    OBVIOUS
  <1> DEFINE Unasked(p) ==
        /\ pc[p] \in {"idle", "inspect", "home"} => \A h \in Marked : kept[p][h] # "granted"
        /\ Asking(p) => \A h \in at[p]..PostStart : kept[p][h] # "granted"
  <1>1. ASSUME NEW p \in Clients, StepOf(p) PROVE UnaskedInv'
    <2>1. Unasked(p)
      BY DEF UnaskedInv
    <2>2. \A q \in Clients \ {p} : Unasked(q)'
      BY <1>1, OthersStay DEF UnaskedInv, Asking
    <2>3. at[p] \in Phases
      BY DEF TypeOK
    <2>4. ASSUME Asking(p), NEW answer \in {"keep", "granted", "dropped", "lost"}, Asked(p, answer) PROVE Unasked(p)'
      BY <2>1, <2>3, <2>4, AskedEffect DEF Asking
    <2>5. Unasked(p)'
      <3> USE DEF Goto, container, history
      <3>1. CASE Begin(p) \/ Inspect(p) \/ ResolveHome(p)
        BY <2>1, <3>1 DEF Begin, Inspect, ResolveHome, Asking, TypeOK, PosInv
      <3>2. CASE InspectFails(p) \/ ResolveHomeFails(p)
        BY <2>1, <3>2 DEF InspectFails, ResolveHomeFails, Asking, TypeOK
      <3>3. CASE AskMarker(p) \/ PrintMarker(p) \/ MarkerFails(p)
        BY <2>1, <2>4, <3>3 DEF AskMarker, PrintMarker, MarkerFails, Asking, TypeOK
      <3>4. CASE TruncateMarker(p)
        BY <2>1, <3>4 DEF TruncateMarker, Asking, TypeOK
      <3>5. CASE StartCommand(p) \/ EndPart(p)
        BY <3>5 DEF StartCommand, EndPart, Asking, TypeOK
      <3>6. CASE EndCommand(p)
        BY <3>6 DEF EndCommand, Asking, TypeOK
      <3>7. CASE EndPhase(p) \/ CheckDotfiles(p) \/ InstallDotfiles(p)
        BY <3>7 DEF EndPhase, CheckDotfiles, InstallDotfiles, NextPhase, Asking, TypeOK
      <3>8. CASE Finish(p) \/ Crash(p)
        BY <3>8, LeaveEffect DEF Finish, Crash, Asking
      <3>9. QED
        BY <1>1, <3>1, <3>2, <3>3, <3>4, <3>5, <3>6, <3>7, <3>8 DEF StepOf, Step, Fails
    <2>6. QED
      BY <2>2, <2>5 DEF UnaskedInv
  <1>2. CASE Restart
    BY <1>2 DEF Restart, UnaskedInv, Asking
  <1>3. CASE Recreate \/ UNCHANGED vars
    BY <1>3 DEF Recreate, vars, client, container, history, UnaskedInv, Asking
  <1>4. QED
    BY <1>1, <1>2, <1>3, NextIs

(* Once a run was cut short, one was.                                      *)
LEMMA CutStays == ASSUME TypeOK, [Next]_vars, ~cutShort' PROVE ~cutShort
  <1>1. ASSUME NEW p \in Clients, StepOf(p) PROVE ~cutShort
    <2> USE DEF history
    <2>1. CASE Begin(p) \/ Inspect(p) \/ ResolveHome(p) \/ InspectFails(p) \/ ResolveHomeFails(p) \/ Crash(p) \/ MarkerFails(p)
      BY <2>1 DEF Begin, Inspect, ResolveHome, InspectFails, ResolveHomeFails, Crash, MarkerFails
    <2>2. CASE AskMarker(p) \/ TruncateMarker(p) \/ PrintMarker(p) \/ StartCommand(p) \/ EndPart(p) \/ EndCommand(p) \/ Finish(p)
      BY <2>2 DEF AskMarker, TruncateMarker, PrintMarker, StartCommand, EndPart, EndCommand, Finish
    <2>3. CASE EndPhase(p) \/ CheckDotfiles(p) \/ InstallDotfiles(p)
      BY <2>3 DEF EndPhase, CheckDotfiles, InstallDotfiles, NextPhase
    <2>4. QED
      BY <1>1, <2>1, <2>2, <2>3 DEF StepOf, Step, Fails
  <1>2. CASE Restart \/ Recreate \/ UNCHANGED vars
    BY <1>2 DEF Restart, Recreate, vars, history
  <1>3. QED
    BY <1>1, <1>2, NextIs

(* A run that is not cut short stops after the marked hooks only.          *)
LEMMA StopsLate ==
  ASSUME TypeOK, NEW p \in Clients, NextPhase(p), ~cutShort'
  PROVE  Stops(p) => at[p] >= PostStart
  <1>1. cutShort' = (cutShort \/ (Stops(p) /\ at[p] < PostStart))
    BY DEF NextPhase
  <1>2. ~(Stops(p) /\ at[p] < PostStart)
    <2> SUFFICES ASSUME Stops(p) /\ at[p] < PostStart PROVE FALSE
      OBVIOUS
    <2>1. cutShort \/ (Stops(p) /\ at[p] < PostStart)
      OBVIOUS
    <2>2. cutShort' = TRUE
      BY <1>1, <2>1
    <2>3. QED
      BY <2>2
  <1>3. at[p] \in Phases
    BY DEF TypeOK
  <1> HIDE DEF Stops
  <1>4. QED
    BY <1>2, <1>3

(* Runs that go on end after the marked hooks.                             *)
LEMMA EndsStep == TypeOK /\ PosInv /\ EndsInv /\ [Next]_vars => EndsInv'
  <1> SUFFICES ASSUME TypeOK, PosInv, EndsInv, [Next]_vars, ~cutShort'
               PROVE  \A q \in Clients : pc'[q] # "failed" /\ (pc'[q] = "done" => at'[q] >= PostStart)
    BY DEF EndsInv
  <1>1. ~cutShort /\ \A q \in Clients : pc[q] # "failed" /\ (pc[q] = "done" => at[q] >= PostStart)
    BY CutStays DEF EndsInv
  <1>2. ASSUME NEW p \in Clients, StepOf(p)
        PROVE  \A q \in Clients : pc'[q] # "failed" /\ (pc'[q] = "done" => at'[q] >= PostStart)
    <2>1. \A q \in Clients \ {p} : pc'[q] # "failed" /\ (pc'[q] = "done" => at'[q] >= PostStart)
      BY <1>1, <1>2, OthersStay
    <2>2. ASSUME NextPhase(p) PROVE pc'[p] # "failed" /\ (pc'[p] = "done" => at'[p] >= PostStart)
      <3>1. at[p] \in Phases
        BY DEF TypeOK
      <3>2. Stops(p) => at[p] >= PostStart
        BY <2>2, StopsLate
      <3>3. QED
        <4> HIDE DEF Stops
        <4>1. CASE Stops(p) \/ at[p] = PostAttach
          BY <2>2, <3>1, <3>2, <4>1 DEF NextPhase, Goto, TypeOK
        <4>2. CASE ~(Stops(p) \/ at[p] = PostAttach)
          BY <2>2, <4>2 DEF NextPhase, Goto, TypeOK
        <4>3. QED
          BY <4>1, <4>2
    <2>3. pc'[p] # "failed" /\ (pc'[p] = "done" => at'[p] >= PostStart)
      <3> USE DEF Goto, history
      <3>1. CASE Begin(p) \/ Inspect(p) \/ ResolveHome(p) \/ InspectFails(p) \/ ResolveHomeFails(p) \/ MarkerFails(p)
        BY <3>1 DEF Begin, Inspect, ResolveHome, InspectFails, ResolveHomeFails, MarkerFails, TypeOK
      <3>2. CASE AskMarker(p) \/ PrintMarker(p)
        <4>1. Asking(p) /\ pc[p] # "failed" /\ pc[p] # "done"
          BY <3>2 DEF AskMarker, PrintMarker, Asking
        <4>2. ASSUME NEW answer \in {"keep", "granted", "dropped", "lost"}, Asked(p, answer) PROVE pc'[p] \in {"ask", "phase"}
          BY <4>1, <4>2, AskedEffect
        <4>3. CASE pc' = [pc EXCEPT ![p] = "truncate"]
          BY <4>3 DEF TypeOK
        <4>4. QED
          BY <3>2, <4>2, <4>3 DEF AskMarker, PrintMarker
      <3>3. CASE TruncateMarker(p) \/ StartCommand(p)
        BY <3>3 DEF TruncateMarker, StartCommand, TypeOK
      <3>4. CASE EndPart(p) \/ EndCommand(p)
        BY <3>4 DEF EndPart, EndCommand, TypeOK
      <3>5. CASE EndPhase(p) \/ CheckDotfiles(p) \/ InstallDotfiles(p)
        BY <2>2, <3>5 DEF EndPhase, CheckDotfiles, InstallDotfiles, TypeOK
      <3>6. CASE Finish(p) \/ Crash(p)
        BY <3>6, LeaveEffect DEF Finish, Crash
      <3>7. QED
        BY <1>2, <3>1, <3>2, <3>3, <3>4, <3>5, <3>6 DEF StepOf, Step, Fails
    <2>4. QED
      BY <2>1, <2>3
  <1>3. CASE Restart
    BY <1>1, <1>3 DEF Restart
  <1>4. CASE Recreate \/ UNCHANGED vars
    BY <1>1, <1>4 DEF Recreate, vars, client
  <1>5. QED
    BY <1>2, <1>3, <1>4, NextIs

(* What was begun stays so; only StartCommand begins more.                 *)
LEMMA BegunChanges ==
  ASSUME TypeOK, [Next]_vars
  PROVE  begun' = begun \/ \E p \in Clients : StartCommand(p)
  BY NextIs DEF StepOf, Step, Fails, Begin, Inspect, InspectFails, ResolveHome, ResolveHomeFails, AskMarker,
     TruncateMarker, PrintMarker, MarkerFails, EndPart, EndCommand, EndPhase, CheckDotfiles,
     InstallDotfiles, Finish, Crash, Restart, Recreate, vars, history

(* Appending keeps the elements and adds one.                              *)
LEMMA AppendBegins ==
  ASSUME NEW s \in Seq(Nat), NEW n \in Nat
  PROVE  /\ \E i \in DOMAIN Append(s, n) : Append(s, n)[i] = n
         /\ \A i \in DOMAIN s : i \in DOMAIN Append(s, n) /\ Append(s, n)[i] = s[i]
  <1>1. DOMAIN Append(s, n) = 1..(Len(s) + 1) /\ Append(s, n)[Len(s) + 1] = n /\ Len(s) + 1 \in 1..(Len(s) + 1)
    OBVIOUS
  <1>2. QED
    BY <1>1

(* What a hook was begun for, with one more timestamp.                     *)
LEMMA BeginsMore ==
  ASSUME NEW s \in Seq(Nat), NEW n \in Nat, NEW t, t = Append(s, n)
  PROVE  /\ \E i \in DOMAIN t : t[i] = n
         /\ \A i \in DOMAIN s : i \in DOMAIN t /\ t[i] = s[i]
  BY AppendBegins

(* A hook begun for a timestamp stays so.                                  *)
LEMMA BegunGrows ==
  ASSUME TypeOK, [Next]_vars, NEW h \in Marked, NEW stamp, HasBegun(h, stamp)
  PROVE  HasBegun(h, stamp)'
  <1>1. CASE begun' = begun
    BY <1>1 DEF HasBegun
  <1>2. ASSUME NEW p \in Clients, StartCommand(p), begun' # begun PROVE HasBegun(h, stamp)'
    <2> DEFINE n == Content(p, at[p])
    <2>1. n \in Nat /\ begun[h] \in Seq(Nat)
      BY ContentType DEF TypeOK
    <2>2. begun' = [begun EXCEPT ![at[p]] = Append(@, n)]
      BY <1>2 DEF StartCommand
    <2> HIDE DEF n
    <2>3. begun'[h] = begun[h] \/ begun'[h] = Append(begun[h], n)
      BY <2>2 DEF TypeOK
    <2>4. \A i \in DOMAIN begun[h] : i \in DOMAIN begun'[h] /\ begun'[h][i] = begun[h][i]
      <3>1. CASE begun'[h] = begun[h]
        BY <3>1
      <3>2. CASE begun'[h] = Append(begun[h], n)
        BY <2>1, <3>2, BeginsMore
      <3>3. QED
        BY <2>3, <3>1, <3>2
    <2>5. QED
      BY <2>4 DEF HasBegun
  <1>3. QED
    BY <1>1, <1>2, BegunChanges

(* A hook that was granted and is still to come, comes, unless the run is  *)
(* cut short.                                                              *)
LEMMA AwaitsStep ==
  ASSUME TypeOK, PosInv, UnaskedInv, EndsInv, ~cutShort', NEW p \in Clients, StepOf(p), NEW h \in Marked, Commands[h] # << >>,
         Awaits(p, h)
  PROVE  snap'[p] = snap[p] /\ (Awaits(p, h)' \/ HasBegun(h, Content(p, h))')
  <1> USE DEF Goto, history, container
  <1>0. /\ kept[p][h] = "granted" /\ (Asking(p) \/ at[p] < h \/ (at[p] = h /\ pc[p] = "phase" /\ next[p] = 1))
        /\ at[p] \in Phases /\ pc[p] \in PCs /\ next[p] \in Nat \ {0}
    BY DEF Awaits, TypeOK
  <1>1. pc[p] \notin {"idle", "inspect", "home"} /\ (Asking(p) => h < at[p])
    BY <1>0 DEF UnaskedInv
  <1>2. CASE AskMarker(p) \/ PrintMarker(p)
    <2>1. Asking(p) /\ snap'[p] = snap[p] /\ next'[p] = 1
      BY <1>2 DEF AskMarker, PrintMarker, Asking, PosInv
    <2>2. CASE pc' = [pc EXCEPT ![p] = "truncate"] /\ UNCHANGED <<kept, at>>
      BY <1>0, <1>1, <2>1, <2>2 DEF Awaits, Asking, TypeOK
    <2>3. ASSUME NEW answer \in {"keep", "granted", "dropped", "lost"}, Asked(p, answer) PROVE Awaits(p, h)'
      <3>1. kept'[p][h] = "granted" /\ (pc'[p] = "ask" \/ (pc'[p] = "phase" /\ at'[p] = OnCreate))
        BY <1>0, <1>1, <2>1, <2>3, AskedEffect
      <3>2. QED
        BY <2>1, <3>1 DEF Awaits, Asking
    <2>4. QED
      BY <1>2, <2>1, <2>2, <2>3 DEF AskMarker, PrintMarker
  <1>3. CASE TruncateMarker(p)
    BY <1>0, <1>1, <1>3 DEF TruncateMarker, Awaits, Asking, TypeOK
  <1>4. CASE StartCommand(p)
    <2>1. pc[p] = "phase" /\ pc'[p] = "running" /\ UNCHANGED <<snap, kept, at, next>>
      BY <1>4 DEF StartCommand, TypeOK
    <2>2. CASE at[p] < h
      BY <1>0, <2>1, <2>2 DEF Awaits
    <2>3. CASE at[p] = h /\ next[p] = 1
      <3> DEFINE n == Content(p, h)
      <3>1. begun' = [begun EXCEPT ![h] = Append(@, n)]
        BY <1>0, <1>4, <2>3 DEF StartCommand
      <3>2. n \in Nat /\ begun[h] \in Seq(Nat) /\ Content(p, h)' = n
        BY <2>1, ContentType DEF TypeOK, Content
      <3> HIDE DEF n
      <3>3. begun'[h] = Append(begun[h], n)
        BY <3>1 DEF TypeOK
      <3>4. \E i \in DOMAIN begun'[h] : begun'[h][i] = n
        BY <3>2, <3>3, BeginsMore
      <3>5. QED
        BY <2>1, <3>2, <3>4 DEF HasBegun
    <2>4. QED
      BY <1>0, <2>1, <2>2, <2>3 DEF Asking
  <1>5. CASE EndPart(p)
    BY <1>0, <1>5 DEF EndPart, Awaits, Asking
  <1>6. CASE EndCommand(p)
    BY <1>0, <1>6 DEF EndCommand, Awaits, Asking, TypeOK
  <1>7. ASSUME NextPhase(p), UNCHANGED <<snap, kept>>, at[p] < h PROVE Awaits(p, h)'
    <2>1. ~Stops(p) /\ at[p] # PostAttach
      BY <1>0, <1>7, StopsLate
    <2>2. pc'[p] = "phase" /\ at'[p] = at[p] + 1 /\ next'[p] = 1
      BY <1>7, <2>1 DEF NextPhase, TypeOK
    <2>3. QED
      BY <1>0, <1>7, <2>2 DEF Awaits
  <1>8. CASE EndPhase(p)
    <2>1. at[p] < h
      <3>1. pc[p] = "phase" /\ next[p] > Len(CommandsOf(p))
        BY <1>8 DEF EndPhase
      <3>2. CASE at[p] = h
        <4>1. CommandsOf(p) = Commands[h]
          BY <1>0, <3>2 DEF CommandsOf
        <4>2. Commands[h] \in Seq(SUBSET Nat)
          BY CommandsAssumption
        <4>3. Len(Commands[h]) \in Nat \ {0}
          BY <4>2
        <4>4. QED
          BY <1>0, <3>1, <3>2, <4>1, <4>3 DEF Asking
      <3>3. QED
        BY <1>0, <3>1, <3>2 DEF Asking
    <2>2. QED
      BY <1>0, <1>7, <1>8, <2>1 DEF EndPhase, Awaits, TypeOK
  <1>9. CASE CheckDotfiles(p) \/ InstallDotfiles(p)
    <2>1. at[p] < h
      BY <1>0, <1>9 DEF CheckDotfiles, InstallDotfiles, Asking
    <2>2. QED
      BY <1>0, <1>7, <1>9, <2>1 DEF CheckDotfiles, InstallDotfiles, Awaits, TypeOK
  <1>10. ~Finish(p)
    <2>1. SUFFICES ASSUME Finish(p) PROVE FALSE
      OBVIOUS
    <2>2. ~cutShort
      BY <2>1 DEF Finish
    <2>3. pc[p] = "done" /\ at[p] >= PostStart
      BY <2>1, <2>2 DEF Finish, EndsInv
    <2>4. QED
      BY <1>0, <2>3 DEF Asking
  <1>11. ~(Begin(p) \/ Inspect(p) \/ ResolveHome(p))
    BY <1>1 DEF Begin, Inspect, ResolveHome
  <1>12. ~(InspectFails(p) \/ ResolveHomeFails(p) \/ MarkerFails(p) \/ Crash(p))
    BY DEF InspectFails, ResolveHomeFails, MarkerFails, Crash
  <1>13. QED
    BY <1>2, <1>3, <1>4, <1>5, <1>6, <1>8, <1>9, <1>10, <1>11, <1>12 DEF StepOf, Step, Fails, EndPart, EndCommand

(* Who prints a marker goes on to, or the run is cut short.                *)
LEMMA PrintingStep ==
  ASSUME NEW p \in Clients, pc[p] \in {"print", "killed"}, StepOf(p), ~cutShort'
  PROVE  PrintMarker(p)
  <1>1. ~(Begin(p) \/ Inspect(p) \/ ResolveHome(p) \/ AskMarker(p) \/ TruncateMarker(p) \/ StartCommand(p))
    BY DEF Begin, Inspect, ResolveHome, AskMarker, TruncateMarker, StartCommand
  <1>2. ~(EndPart(p) \/ EndCommand(p) \/ EndPhase(p) \/ CheckDotfiles(p) \/ InstallDotfiles(p) \/ Finish(p))
    BY DEF EndPart, EndCommand, EndPhase, CheckDotfiles, InstallDotfiles, Finish
  <1>3. ~(InspectFails(p) \/ ResolveHomeFails(p) \/ MarkerFails(p) \/ Crash(p))
    BY DEF InspectFails, ResolveHomeFails, MarkerFails, Crash
  <1>4. QED
    BY <1>1, <1>2, <1>3 DEF StepOf, Step, Fails

(* Only the scripts write markers while no run is cut short.               *)
LEMMA MarkerWritten ==
  ASSUME NEW p \in Clients, StepOf(p), ~cutShort'
  PROVE  marker' = marker \/ TruncateMarker(p) \/ PrintMarker(p)
  <1> USE DEF container
  <1>1. CASE Begin(p) \/ Inspect(p) \/ ResolveHome(p) \/ AskMarker(p) \/ StartCommand(p)
    BY <1>1 DEF Begin, Inspect, ResolveHome, AskMarker, StartCommand
  <1>2. CASE EndPart(p) \/ EndCommand(p) \/ EndPhase(p) \/ CheckDotfiles(p) \/ InstallDotfiles(p) \/ Finish(p)
    BY <1>2 DEF EndPart, EndCommand, EndPhase, CheckDotfiles, InstallDotfiles, Finish
  <1>3. ~(InspectFails(p) \/ ResolveHomeFails(p) \/ MarkerFails(p) \/ Crash(p))
    BY DEF InspectFails, ResolveHomeFails, MarkerFails, Crash
  <1>4. QED
    BY <1>1, <1>2, <1>3 DEF StepOf, Step, Fails

(* Whatever a client does, each marker stays backed.                       *)
LEMMA HonestStep ==
  ASSUME TypeOK, PosInv, UnaskedInv, EndsInv, HonestInv, [Next]_vars
  PROVE  HonestInv'
  <1> SUFFICES ASSUME ~cutShort', NEW h \in Marked, marker'[h] # Absent, Commands[h] # << >> PROVE Backed(h)'
    BY DEF HonestInv
  <1>1. marker[h] # Absent => Backed(h)
    BY CutStays DEF HonestInv
  <1>2. ASSUME NEW p \in Clients, StepOf(p), marker'[h] = marker[h] PROVE Backed(h)'
    <2>1. CASE HasBegun(h, marker[h])
      BY <1>2, <2>1, BegunGrows DEF Backed, HasBegun
    <2>2. ASSUME marker[h] = Empty, NEW q \in Clients, pc[q] \in {"print", "killed"}, at[q] = h PROVE Backed(h)'
      <3>1. CASE q # p
        <4>1. pc'[q] = pc[q] /\ at'[q] = at[q]
          BY <1>2, <3>1, OthersStay
        <4>2. QED
          BY <1>2, <2>2, <4>1 DEF Backed
      <3>2. CASE q = p
        <4>1. PrintMarker(p)
          BY <1>2, <2>2, <3>2, PrintingStep
        <4>2. marker'[h] = Content(p, h)
          BY <2>2, <3>2, <4>1 DEF PrintMarker, TypeOK
        <4>3. Content(p, h) \in Nat
          BY ContentType
        <4>4. QED
          BY <1>2, <2>2, <4>2, <4>3
      <3>3. QED
        BY <3>1, <3>2
    <2>3. ASSUME NEW q \in Clients, Awaits(q, h), Content(q, h) = marker[h] PROVE Backed(h)'
      <3>1. CASE q # p
        <4>1. Awaits(q, h)' /\ Content(q, h)' = Content(q, h)
          BY <1>2, <2>3, <3>1, OthersStay DEF Awaits, Asking, Content
        <4>2. QED
          BY <1>2, <2>3, <4>1 DEF Backed
      <3>2. CASE q = p
        <4>1. snap'[p] = snap[p] /\ (Awaits(p, h)' \/ HasBegun(h, Content(p, h))')
          BY <1>2, <2>3, <3>2, AwaitsStep
        <4>2. Content(p, h)' = marker'[h]
          BY <1>2, <2>3, <3>2, <4>1 DEF Content
        <4>3. HasBegun(h, Content(p, h))' => HasBegun(h, marker[h])'
          BY <4>2 DEF HasBegun
        <4>4. QED
          BY <4>1, <4>2, <4>3 DEF Backed
      <3>3. QED
        BY <3>1, <3>2
    <2>4. QED
      BY <1>1, <1>2, <2>1, <2>2, <2>3 DEF Backed
  <1>3. ASSUME NEW p \in Clients, StepOf(p), marker'[h] # marker[h] PROVE Backed(h)'
    <2>1. CASE TruncateMarker(p)
      <3>1. at[p] = h /\ marker'[h] = Empty
        BY <1>3, <2>1 DEF TruncateMarker, TypeOK
      <3>2. pc'[p] = "print" /\ at'[p] = h
        BY <2>1, <3>1 DEF TruncateMarker, Goto, TypeOK
      <3>3. QED
        BY <3>1, <3>2 DEF Backed
    <2>2. CASE PrintMarker(p)
      <3>1. at[p] = h /\ marker'[h] = Content(p, h)
        BY <1>3, <2>2 DEF PrintMarker, TypeOK
      <3>2. Asking(p) /\ Asked(p, "granted") /\ snap' = snap
        BY <2>2 DEF PrintMarker, Asking
      <3>3. kept'[p][h] = "granted" /\ (pc'[p] = "ask" \/ (pc'[p] = "phase" /\ at'[p] < h))
        BY <3>1, <3>2, AskedEffect
      <3>4. Awaits(p, h)' /\ Content(p, h)' = marker'[h]
        BY <3>1, <3>2, <3>3 DEF Awaits, Asking, Content
      <3>5. QED
        BY <3>4 DEF Backed
    <2>3. QED
      BY <1>3, <2>1, <2>2, MarkerWritten
  <1>4. CASE Restart
    <2>1. /\ UNCHANGED <<marker, kept, at, next, snap, begun>>
          /\ \A q \in Clients : /\ pc[q] \in {"print", "killed"} => pc'[q] = "killed"
                                /\ Asking(q) => Asking(q)'
                                /\ pc[q] = "phase" => pc'[q] = "phase"
      BY <1>4 DEF Restart, Asking
    <2>2. HasBegun(h, marker[h]) => HasBegun(h, marker[h])'
      BY <2>1 DEF HasBegun
    <2>3. \A q \in Clients : Awaits(q, h) /\ Content(q, h) = marker[h] => Awaits(q, h)' /\ Content(q, h)' = marker'[h]
      BY <2>1 DEF Awaits, Content
    <2>4. QED
      BY <1>1, <2>1, <2>2, <2>3 DEF Backed
  <1>5. CASE Recreate \/ UNCHANGED vars
    <2>1. UNCHANGED <<marker, pc, kept, at, next, snap, begun>>
      BY <1>5 DEF Recreate, vars, client, container, history
    <2>2. QED
      BY <1>1, <2>1 DEF Backed, Awaits, Asking, Content, HasBegun
  <1>6. QED
    BY <1>2, <1>3, <1>4, <1>5, NextIs

(* At first no marker exists and no client works.                          *)
LEMMA HonestInit == Init => UnaskedInv /\ EndsInv /\ HonestInv
  BY DEF Init, UnaskedInv, EndsInv, HonestInv, Asking, KeepAll

(* up.go applyLifecycleMarkers, hooks.go updateMarkerFile: whoever         *)
(* overlaps, and whatever the engine does, as long as no run is cut short  *)
(* a marker that is left stands for a hook that was begun.                 *)
THEOREM MarkersAreHonest == Spec => []MarkersHonest
  <1>1. Init => TypeOK /\ PosInv /\ UnaskedInv /\ EndsInv /\ HonestInv
    BY TypeInit, HonestInit
  <1>2. TypeOK /\ PosInv /\ UnaskedInv /\ EndsInv /\ HonestInv /\ [Next]_vars
        => (TypeOK /\ PosInv /\ UnaskedInv /\ EndsInv /\ HonestInv)'
    BY TypeStep, UnaskedStep, EndsStep, HonestStep
  <1>3. UnaskedInv /\ HonestInv => MarkersHonest
    BY DEF UnaskedInv, HonestInv, Backed, MarkersHonest, Quiescent, Awaits
  <1>4. QED
    BY <1>1, <1>2, <1>3, PTL DEF Spec

-----------------------------------------------------------------------------
(* The hooks whose markers client p has asked.                             *)
AskedFor(p, h) ==
  \/ pc[p] \in {"phase", "running", "dotfiles", "install", "done"}
  \/ Asking(p) /\ h < at[p]

(* A run that goes on has seen the container's timestamps, and for each    *)
(* hook it asked about, the hook was begun or is still to come.            *)
RanInv ==
  ~cutShort => \A p \in Clients, h \in Marked :
    /\ pc[p] \notin {"idle", "inspect"} => Content(p, h) # Unknown
    /\ AskedFor(p, h) /\ Commands[h] # << >> => HasBegun(h, Content(p, h)) \/ Awaits(p, h)

(* A run that is not cut short keeps the timestamps it read.               *)
LEMMA SeenStep ==
  ASSUME TypeOK, PosInv, NEW p \in Clients, StepOf(p), ~cutShort', NEW h \in Marked,
         pc[p] \notin {"idle", "inspect"} => Content(p, h) # Unknown,
         pc'[p] \notin {"idle", "inspect"}
  PROVE  Content(p, h)' # Unknown
  <1> USE DEF Goto, history, container
  <1>1. CASE Inspect(p)
    BY <1>1 DEF Inspect, Content, TypeOK
  <1>2. CASE Begin(p)
    BY <1>2 DEF Begin, TypeOK
  <1>3. CASE Finish(p)
    BY <1>3, LeaveEffect DEF Finish
  <1>4. CASE ResolveHome(p) \/ AskMarker(p) \/ TruncateMarker(p) \/ PrintMarker(p) \/ StartCommand(p)
    BY <1>4 DEF ResolveHome, AskMarker, TruncateMarker, PrintMarker, StartCommand, Content
  <1>5. CASE EndPart(p) \/ EndCommand(p) \/ EndPhase(p) \/ CheckDotfiles(p) \/ InstallDotfiles(p)
    BY <1>5 DEF EndPart, EndCommand, EndPhase, CheckDotfiles, InstallDotfiles, Content
  <1>6. ~(InspectFails(p) \/ ResolveHomeFails(p) \/ MarkerFails(p) \/ Crash(p))
    BY DEF InspectFails, ResolveHomeFails, MarkerFails, Crash
  <1>7. QED
    BY <1>1, <1>2, <1>3, <1>4, <1>5, <1>6 DEF StepOf, Step, Fails

(* A hook is newly asked about by its script only.                         *)
LEMMA AskedForStep ==
  ASSUME TypeOK, PosInv, NEW p \in Clients, StepOf(p), ~cutShort', NEW h \in Marked, AskedFor(p, h)'
  PROVE  \/ AskedFor(p, h) /\ snap'[p] = snap[p]
         \/ at[p] = h /\ snap'[p] = snap[p] /\ (AskMarker(p) \/ PrintMarker(p))
  <1> USE DEF Goto, history, container
  <1>1. CASE Begin(p) \/ Inspect(p)
    BY <1>1 DEF Begin, Inspect, AskedFor, Asking, TypeOK
  <1>2. CASE ResolveHome(p)
    BY <1>2 DEF ResolveHome, AskedFor, Asking, TypeOK, PosInv
  <1>3. CASE AskMarker(p) \/ PrintMarker(p)
    <2>1. Asking(p) /\ snap' = snap
      BY <1>3 DEF AskMarker, PrintMarker, Asking
    <2>2. CASE pc' = [pc EXCEPT ![p] = "truncate"] /\ UNCHANGED at
      BY <2>1, <2>2 DEF AskedFor, Asking, TypeOK
    <2>3. ASSUME NEW answer \in {"keep", "granted", "dropped", "lost"}, Asked(p, answer) PROVE h <= at[p]
      BY <2>1, <2>3, AskedEffect DEF AskedFor, Asking
    <2>4. h < at[p] => AskedFor(p, h)
      BY <2>1 DEF AskedFor
    <2>5. at[p] \in Phases
      BY DEF TypeOK
    <2>6. CASE h < at[p]
      BY <2>1, <2>4, <2>6
    <2>7. CASE h >= at[p]
      <3>1. CASE \E answer \in {"keep", "granted", "dropped", "lost"} : Asked(p, answer)
        BY <1>3, <2>1, <2>3, <2>5, <2>7, <3>1
      <3>2. CASE pc' = [pc EXCEPT ![p] = "truncate"] /\ UNCHANGED at
        BY <2>1, <2>2, <3>2
      <3>3. QED
        BY <1>3, <3>1, <3>2 DEF AskMarker, PrintMarker
    <2>8. QED
      BY <2>5, <2>6, <2>7
  <1>4. CASE TruncateMarker(p)
    BY <1>4 DEF TruncateMarker, AskedFor, Asking, TypeOK
  <1>5. CASE StartCommand(p) \/ EndPart(p) \/ EndCommand(p)
    BY <1>5 DEF StartCommand, EndPart, EndCommand, AskedFor
  <1>6. CASE EndPhase(p) \/ CheckDotfiles(p) \/ InstallDotfiles(p)
    BY <1>6 DEF EndPhase, CheckDotfiles, InstallDotfiles, AskedFor
  <1>7. ~Finish(p)
    BY LeaveEffect DEF Finish, AskedFor, Asking
  <1>8. ~(InspectFails(p) \/ ResolveHomeFails(p) \/ MarkerFails(p) \/ Crash(p))
    BY DEF InspectFails, ResolveHomeFails, MarkerFails, Crash
  <1>9. QED
    BY <1>1, <1>2, <1>3, <1>4, <1>5, <1>6, <1>7, <1>8 DEF StepOf, Step, Fails

(* When clients do not overlap, a hook that its marker drops was begun for *)
(* the timestamp this run read.                                            *)
LEMMA DroppedWasBegun ==
  ASSUME TypeOK, PosInv, UnaskedInv, HonestInv, Solo, ~cutShort, NEW p \in Clients, pc[p] = "ask",
         Commands[at[p]] # << >>, Content(p, at[p]) # Unknown, marker[at[p]] \in {Empty, Content(p, at[p])}
  PROVE  HasBegun(at[p], Content(p, at[p]))
  <1> DEFINE h == at[p]
  <1>1. h \in Marked /\ Asking(p)
    BY DEF PosInv, Asking
  <1>2. kept[p][h] # "granted"
    BY <1>1 DEF UnaskedInv
  <1>3. Backed(h)
    BY <1>1 DEF HonestInv
  <1>4. \A q \in Clients : pc[q] # "idle" => q = p
    BY DEF Solo
  <1>5. ~\E q \in Clients : pc[q] \in {"print", "killed"} /\ at[q] = h
    BY <1>4
  <1>6. ~\E q \in Clients : Awaits(q, h)
    <2> SUFFICES ASSUME NEW q \in Clients, Awaits(q, h) PROVE FALSE
      OBVIOUS
    <2>1. kept[q][h] = "granted"
      BY DEF Awaits
    <2>2. pc[q] # "idle"
      BY <1>1, <2>1 DEF UnaskedInv
    <2>3. QED
      BY <1>2, <1>4, <2>1, <2>2
  <1>7. HasBegun(h, marker[h])
    BY <1>3, <1>5, <1>6 DEF Backed
  <1>8. marker[h] # Empty
    BY <1>1, <1>7, LedgerType DEF HasBegun
  <1>9. QED
    BY <1>7, <1>8

(* What was begun for the timestamp a client read stays so.                *)
LEMMA BegunForSeen ==
  ASSUME TypeOK, [Next]_vars, NEW p \in Clients, NEW h \in Marked,
         snap'[p] = snap[p], HasBegun(h, Content(p, h))
  PROVE  HasBegun(h, Content(p, h))'
  <1> DEFINE stamp == Content(p, h)
  <1>1. HasBegun(h, stamp)
    OBVIOUS
  <1>2. HasBegun(h, Content(p, h))' <=> \E i \in DOMAIN begun'[h] : begun'[h][i] = stamp
    BY DEF HasBegun, Content
  <1> HIDE DEF stamp
  <1>3. HasBegun(h, stamp) => \E i \in DOMAIN begun'[h] : begun'[h][i] = stamp
    BY BegunGrows DEF HasBegun
  <1>4. QED
    BY <1>1, <1>2, <1>3

(* While clients do not overlap, the hooks asked about stay accounted for. *)
LEMMA RanStep ==
  ASSUME TypeOK, PosInv, UnaskedInv, EndsInv, HonestInv, Solo, RanInv, [Next]_vars
  PROVE  RanInv'
  <1> DEFINE Seen(p, h) == pc[p] \notin {"idle", "inspect"} => Content(p, h) # Unknown
             Ran(p, h) == AskedFor(p, h) => HasBegun(h, Content(p, h)) \/ Awaits(p, h)
  <1> SUFFICES ASSUME ~cutShort', NEW q \in Clients, NEW h \in Marked
               PROVE  Seen(q, h)' /\ (Commands[h] # << >> => Ran(q, h)')
    BY DEF RanInv
  <1>1. ~cutShort /\ Seen(q, h) /\ (Commands[h] # << >> => Ran(q, h))
    BY CutStays DEF RanInv
  <1>2. ASSUME NEW p \in Clients, StepOf(p), p = q PROVE Seen(q, h)' /\ (Commands[h] # << >> => Ran(q, h)')
    <2>1. Seen(p, h)'
      BY <1>1, <1>2, SeenStep
    <2>2. ASSUME Commands[h] # << >>, AskedFor(p, h)' PROVE HasBegun(h, Content(p, h))' \/ Awaits(p, h)'
      <3>1. CASE AskedFor(p, h) /\ snap'[p] = snap[p]
        <4>1. CASE HasBegun(h, Content(p, h))
          BY <3>1, <4>1, BegunForSeen
        <4>2. CASE Awaits(p, h)
          BY <1>2, <2>2, <4>2, AwaitsStep
        <4>3. QED
          BY <1>1, <1>2, <2>2, <3>1, <4>1, <4>2
      <3>2. CASE at[p] = h /\ AskMarker(p)
        <4>0. pc[p] = "ask" /\ UNCHANGED <<snap, begun>>
          BY <3>2 DEF AskMarker, history
        <4>1. Content(p, h) # Unknown
          BY <1>1, <1>2, <4>0
        <4>2. CASE marker[h] \in {Empty, Content(p, h)}
          <5>1. HasBegun(h, Content(p, h))
            BY <1>1, <2>2, <3>2, <4>0, <4>1, <4>2, DroppedWasBegun
          <5>2. QED
            BY <4>0, <5>1 DEF HasBegun, Content
        <4>3. CASE pc' = [pc EXCEPT ![p] = "truncate"] /\ at' = at
          BY <2>2, <3>2, <4>3 DEF AskedFor, Asking, TypeOK
        <4>4. QED
          BY <3>2, <4>1, <4>2, <4>3 DEF AskMarker, Goto
      <3>3. CASE at[p] = h /\ PrintMarker(p)
        <4>1. Asking(p) /\ Asked(p, "granted")
          BY <3>3 DEF PrintMarker, Asking
        <4>2. kept'[p][h] = "granted" /\ (pc'[p] = "ask" \/ (pc'[p] = "phase" /\ at'[p] < h))
          BY <3>3, <4>1, AskedEffect
        <4>3. QED
          BY <4>2 DEF Awaits, Asking
      <3>4. QED
        BY <1>2, <2>2, <3>1, <3>2, <3>3, AskedForStep
    <2>3. QED
      BY <1>2, <2>1, <2>2
  <1>3. ASSUME NEW p \in Clients, StepOf(p), p # q PROVE Seen(q, h)' /\ (Commands[h] # << >> => Ran(q, h)')
    <2>1. /\ pc'[q] = pc[q] /\ kept'[q] = kept[q] /\ at'[q] = at[q] /\ next'[q] = next[q]
          /\ snap'[q] = snap[q]
      BY <1>3, OthersStay
    <2>2. Content(q, h)' = Content(q, h) /\ (AskedFor(q, h)' => AskedFor(q, h)) /\ (Awaits(q, h) => Awaits(q, h)')
      BY <2>1 DEF Content, AskedFor, Asking, Awaits
    <2>3. HasBegun(h, Content(q, h)) => HasBegun(h, Content(q, h))'
      BY <2>1, BegunForSeen
    <2>4. QED
      BY <1>1, <2>1, <2>2, <2>3
  <1>4. CASE Restart
    <2>1. UNCHANGED <<kept, at, next, snap, begun>>
      BY <1>4 DEF Restart
    <2>2. /\ pc[q] = pc'[q] \/ (pc[q] \in {"truncate", "print"} /\ pc'[q] = "killed")
          /\ pc'[q] \in {"idle", "inspect"} <=> pc[q] \in {"idle", "inspect"}
      BY <1>4, <1>1 DEF Restart
    <2>3. QED
      BY <1>1, <2>1, <2>2 DEF AskedFor, Asking, Awaits, HasBegun, Content
  <1>5. CASE Recreate \/ UNCHANGED vars
    <2>1. UNCHANGED <<pc, kept, at, next, snap, begun>>
      BY <1>5 DEF Recreate, vars, client, history
    <2>2. QED
      BY <1>1, <2>1 DEF AskedFor, Asking, Awaits, HasBegun, Content
  <1>6. QED
    BY <1>2, <1>3, <1>4, <1>5, NextIs

(* No client has asked about anything at first.                            *)
LEMMA RanInit == Init => RanInv
  BY DEF Init, RanInv, AskedFor, Asking

(* up.go runLifecycleForUp: when clients do not overlap and none was cut   *)
(* short, a run that reached its last phase left every marked hook begun   *)
(* for the timestamps the run read: no hook was dropped that had not run.  *)
THEOREM CompleteRunsRanAll == ~Concurrent => (Spec => []CompleteRunRanAll)
  <1>1. Init => UnaskedInv /\ EndsInv /\ HonestInv /\ RanInv
    BY HonestInit, RanInit
  <1>2. TypeOK /\ PosInv /\ Guarded /\ UnaskedInv /\ EndsInv /\ HonestInv /\ RanInv /\ [Next]_vars
        => (UnaskedInv /\ EndsInv /\ HonestInv /\ RanInv)'
    BY UnaskedStep, EndsStep, HonestStep, RanStep DEF Guarded
  <1>3. TypeOK /\ EndsInv /\ RanInv => CompleteRunRanAll
    <2> SUFFICES ASSUME TypeOK, EndsInv, RanInv, NEW p \in Clients, NEW h \in Marked,
                        pc[p] = "done", ~cutShort, Commands[h] # << >>
                 PROVE  HasBegun(h, Content(p, h))
      BY DEF CompleteRunRanAll
    <2>1. at[p] \in Phases /\ at[p] >= PostStart
      BY DEF TypeOK, EndsInv
    <2>2. ~Awaits(p, h)
      BY <2>1 DEF Awaits, Asking
    <2>3. QED
      BY <2>2 DEF RanInv, AskedFor
  <1>4. QED
    BY <1>1, <1>2, <1>3, GuardedAlways, PTL DEF Spec

-----------------------------------------------------------------------------
(* The hooks of a creation: their markers hold its timestamp.              *)
Creation == OnCreate..PostCreate
Settled(h) == marker[h] \in {Empty, created}

(* A client with timestamps asks; one without leaves the markers alone.    *)
Sees(p) == Asking(p) /\ snap[p].created # Unknown

(* What a client knows of the present creation, if anything.               *)
SnapInv ==
  \A p \in Clients :
    /\ pc[p] # "killed" /\ snap[p].created \in {Unknown, created}
    /\ (snap[p].created = Unknown) = (snap[p].started = Unknown)
    /\ pc[p] = "idle" => snap[p].created = Unknown
    /\ pc[p] \in {"truncate", "print"} => snap[p].created # Unknown

(* Without crashes, restarts and failing execs: a client that asks has     *)
(* settled the markers it passed, a truncated marker has someone who       *)
(* prints it, and the markers agree, are settled or are being asked.       *)
SharedInv ==
  /\ SnapInv
  /\ \A p \in Clients, h \in Creation : Sees(p) /\ h < at[p] => Settled(h)
  /\ \A h \in Creation : marker[h] = Empty => \E p \in Clients : pc[p] = "print" /\ at[p] = h
  /\ \/ \A h, g \in Creation : marker[h] = marker[g]
     \/ \A h \in Creation : Settled(h)
     \/ \E p \in Clients : Sees(p)

(* What a client's step has to do for SharedInv to hold after it.          *)
LEMMA SharedKept ==
  ASSUME TypeOK, SharedInv, NEW p \in Clients, StepOf(p), created' = created,
         pc'[p] # "killed", snap'[p].created \in {Unknown, created},
         (snap'[p].created = Unknown) = (snap'[p].started = Unknown),
         pc'[p] = "idle" => snap'[p].created = Unknown,
         pc'[p] \in {"truncate", "print"} => snap'[p].created # Unknown,
         \A h \in Creation : \/ marker'[h] = marker[h] /\ ~(pc[p] = "print" /\ at[p] = h)
                             \/ marker'[h] = Empty /\ Sees(p) /\ pc'[p] = "print" /\ at'[p] = h
                             \/ marker'[h] = created /\ Sees(p),
         \A h \in Creation : Sees(p)' /\ h < at'[p] => Settled(h)',
         Sees(p) /\ ~Sees(p)' => \A h \in Creation : Settled(h)'
  PROVE  SharedInv'
  <1>1. \A q \in Clients \ {p} : pc'[q] = pc[q] /\ at'[q] = at[q] /\ snap'[q] = snap[q]
    BY OthersStay
  <1>2. \A h \in Creation : Settled(h) => Settled(h)'
    BY DEF Settled
  <1>3. SnapInv'
    <2>1. ASSUME NEW q \in Clients \ {p}
          PROVE  /\ pc'[q] # "killed" /\ snap'[q].created \in {Unknown, created'}
                 /\ (snap'[q].created = Unknown) = (snap'[q].started = Unknown)
                 /\ pc'[q] = "idle" => snap'[q].created = Unknown
                 /\ pc'[q] \in {"truncate", "print"} => snap'[q].created # Unknown
      BY <1>1 DEF SharedInv, SnapInv
    <2>2. QED
      BY <2>1 DEF SnapInv
  <1>4. ASSUME NEW q \in Clients, NEW h \in Creation, Sees(q)', h < at'[q] PROVE Settled(h)'
    <2>1. CASE q # p
      BY <1>1, <1>2, <1>4, <2>1 DEF SharedInv, Sees, Asking
    <2>2. QED
      BY <1>4, <2>1
  <1>5. ASSUME NEW h \in Creation, marker'[h] = Empty PROVE \E q \in Clients : pc'[q] = "print" /\ at'[q] = h
    <2>1. CASE marker'[h] = marker[h] /\ ~(pc[p] = "print" /\ at[p] = h)
      <3>1. PICK q \in Clients : pc[q] = "print" /\ at[q] = h
        BY <1>5, <2>1 DEF SharedInv
      <3>2. QED
        BY <1>1, <2>1, <3>1
    <2>2. created # Empty
      BY DEF TypeOK
    <2>3. QED
      BY <1>5, <2>1, <2>2
  <1>6. \/ \A h, g \in Creation : marker'[h] = marker'[g]
        \/ \A h \in Creation : Settled(h)'
        \/ \E q \in Clients : Sees(q)'
    <2>1. CASE \A h \in Creation : marker'[h] = marker[h]
      <3>1. CASE \E q \in Clients : Sees(q)
        BY <1>1, <3>1 DEF Sees, Asking
      <3>2. QED
        BY <1>2, <2>1, <3>1 DEF SharedInv
    <2>2. QED
      BY <2>1
  <1>7. QED
    BY <1>3, <1>4, <1>5, <1>6 DEF SharedInv

(* A client's answer about a marker leaves its markers settled.            *)
LEMMA SharedAsked ==
  ASSUME TypeOK, PosInv, SharedInv, NEW p \in Clients, StepOf(p), Sees(p),
         NEW answer \in {"keep", "granted", "dropped"}, Asked(p, answer), UNCHANGED <<created, snap>>,
         \A h \in Creation : \/ marker'[h] = marker[h] /\ ~(pc[p] = "print" /\ at[p] = h)
                             \/ marker'[h] = created,
         at[p] \in Creation => marker'[at[p]] \in {Empty, created}
  PROVE  SharedInv'
  <1>1. at[p] \in Marked /\ Asking(p)
    BY DEF PosInv, Sees
  <1>2. /\ at[p] = PostStart => pc'[p] = "phase" /\ at'[p] = OnCreate
        /\ at[p] # PostStart => pc'[p] = "ask" /\ at'[p] = at[p] + 1
    BY <1>1, AskedEffect
  <1>3. ASSUME NEW h \in Creation, h <= at[p] PROVE Settled(h)'
    <2>1. CASE h = at[p]
      BY <2>1 DEF Settled
    <2>2. CASE h # at[p]
      BY <1>1, <1>3, <2>2 DEF SharedInv, Settled, Creation
    <2>3. QED
      BY <2>1, <2>2
  <1>4. \A h \in Creation : Sees(p)' /\ h < at'[p] => Settled(h)'
    BY <1>1, <1>2, <1>3 DEF Sees, Asking, Creation
  <1>5. ~Sees(p)' => \A h \in Creation : Settled(h)'
    <2>1. ~Sees(p)' => at[p] = PostStart
      BY <1>1, <1>2 DEF Sees, Asking
    <2>2. QED
      BY <1>3, <2>1 DEF Creation
  <1>6. pc'[p] \notin {"killed", "idle", "truncate", "print"} /\ snap'[p] = snap[p]
    BY <1>1, <1>2
  <1>7. snap[p].created \in {Unknown, created} /\ (snap[p].created = Unknown) = (snap[p].started = Unknown)
    BY DEF SharedInv, SnapInv
  <1>8. QED
    BY <1>4, <1>5, <1>6, <1>7, SharedKept

(* A client that does not ask, or does not know what to ask, leaves the    *)
(* markers alone.                                                          *)
LEMMA SharedQuiet ==
  ASSUME TypeOK, PosInv, SharedInv, NEW p \in Clients, StepOf(p), UNCHANGED <<created, marker>>, ~Sees(p),
         ~Sees(p)' \/ (pc'[p] = "ask" /\ at'[p] = OnCreate),
         pc'[p] \notin {"killed", "truncate", "print"},
         snap'[p].created \in {Unknown, created}, (snap'[p].created = Unknown) = (snap'[p].started = Unknown),
         pc'[p] = "idle" => snap'[p].created = Unknown
  PROVE  SharedInv'
  <1>1. pc[p] # "print"
    BY DEF SharedInv, SnapInv, Sees, Asking
  <1>2. \A h \in Creation : Sees(p)' /\ h < at'[p] => Settled(h)'
    BY DEF Creation
  <1>3. QED
    BY <1>1, <1>2, SharedKept

(* Every step keeps SharedInv when nothing but HOME and the inspection may *)
(* fail.                                                                   *)
LEMMA SharedStep ==
  ASSUME Faults \subseteq {"home", "inspect", "recreate"}, TypeOK, PosInv, SharedInv, [Next]_vars
  PROVE  SharedInv'
  <1>1. ASSUME NEW p \in Clients, StepOf(p) PROVE SharedInv'
    <2> USE DEF Goto, history, container
    <2>0. /\ at[p] \in Phases /\ pc[p] # "killed" /\ snap[p].created \in {Unknown, created}
          /\ (snap[p].created = Unknown) = (snap[p].started = Unknown)
          /\ pc[p] = "idle" => snap[p].created = Unknown
          /\ pc[p] \in {"truncate", "print"} => snap[p].created # Unknown
      BY DEF TypeOK, SharedInv, SnapInv
    <2>1. CASE Begin(p) \/ Inspect(p) \/ InspectFails(p) \/ ResolveHome(p) \/ ResolveHomeFails(p)
      <3>1. UNCHANGED <<created, marker>> /\ ~Sees(p)
        BY <2>1 DEF Begin, Inspect, InspectFails, ResolveHome, ResolveHomeFails, Asking, Sees
      <3>2. /\ ~Sees(p)' \/ (pc'[p] = "ask" /\ at'[p] = OnCreate)
            /\ pc'[p] \notin {"killed", "truncate", "print", "idle"}
        BY <2>1 DEF Begin, Inspect, InspectFails, ResolveHome, ResolveHomeFails, Asking, Sees, TypeOK, PosInv
      <3>3. CASE Inspect(p)
        <4>1. snap'[p] = [created |-> created, started |-> started] /\ created # Unknown /\ started # Unknown
          BY <3>3 DEF Inspect, TypeOK
        <4>2. QED
          BY <1>1, <3>1, <3>2, <4>1, SharedQuiet
      <3>4. CASE ~Inspect(p)
        <4>1. snap'[p] = snap[p]
          BY <2>1, <3>4 DEF Begin, InspectFails, ResolveHome, ResolveHomeFails
        <4>2. QED
          BY <1>1, <2>0, <3>1, <3>2, <4>1, SharedQuiet
      <3>5. QED
        BY <3>3, <3>4
    <2>2. CASE AskMarker(p)
      <3>1. pc[p] = "ask" /\ Asking(p) /\ UNCHANGED <<created, marker, snap>>
        BY <2>2 DEF AskMarker, Asking
      <3>2. /\ Content(p, at[p]) = Unknown <=> ~Sees(p)
            /\ Sees(p) /\ at[p] \in Creation => Content(p, at[p]) = created
        BY <2>0, <3>1 DEF Content, Creation, Sees
      <3>3. ASSUME NEW answer \in {"keep", "dropped"}, Asked(p, answer), at[p] \in Creation => Settled(at[p]), Sees(p)
            PROVE  SharedInv'
        <4>1. at[p] \in Creation => marker'[at[p]] \in {Empty, created}
          BY <3>1, <3>3 DEF Settled
        <4>2. QED
          BY <1>1, <3>1, <3>3, <4>1, SharedAsked
      <3>4. CASE pc' = [pc EXCEPT ![p] = "truncate"] /\ UNCHANGED at /\ Content(p, at[p]) # Unknown
        <4>1. pc'[p] = "truncate" /\ Sees(p)' /\ Sees(p)
          BY <3>1, <3>2, <3>4 DEF TypeOK, Asking, Sees
        <4>2. \A h \in Creation : Sees(p)' /\ h < at'[p] => Settled(h)'
          BY <3>1, <3>4, <4>1 DEF SharedInv, Settled
        <4>3. snap'[p].created # Unknown
          BY <4>1 DEF Sees
        <4>4. QED
          BY <1>1, <2>0, <3>1, <4>1, <4>2, <4>3, SharedKept
      <3>5. CASE Content(p, at[p]) = Unknown /\ Asked(p, "keep")
        <4>1. ~Sees(p) /\ pc'[p] \in {"ask", "phase"} /\ snap[p].created = Unknown
          BY <3>1, <3>2, <3>5, AskedEffect DEF PosInv, Sees
        <4>2. ~Sees(p)' /\ snap'[p] = snap[p]
          BY <3>1, <4>1 DEF Sees
        <4>3. QED
          BY <1>1, <2>0, <3>1, <4>1, <4>2, SharedQuiet
      <3>6. CASE Content(p, at[p]) # Unknown /\ marker[at[p]] \in {Empty, Content(p, at[p])} /\ Asked(p, "dropped")
        BY <3>2, <3>3, <3>6 DEF Settled
      <3>7. QED
        BY <2>2, <3>4, <3>5, <3>6 DEF AskMarker
    <2>3. CASE TruncateMarker(p)
      <3>1. /\ pc[p] = "truncate" /\ pc'[p] = "print" /\ at'[p] = at[p] /\ UNCHANGED <<created, snap>>
        BY <2>3 DEF TruncateMarker, TypeOK
      <3>2. Sees(p) /\ Sees(p)'
        BY <2>0, <3>1 DEF Sees, Asking
      <3>3. \A h \in Creation : marker'[h] = IF h = at[p] THEN Empty ELSE marker[h]
        BY <2>3 DEF TruncateMarker, TypeOK, Creation
      <3>4. \A h \in Creation : Sees(p)' /\ h < at'[p] => Settled(h)'
        BY <2>0, <3>1, <3>2, <3>3 DEF SharedInv, Settled
      <3>5. QED
        BY <1>1, <2>0, <3>1, <3>2, <3>3, <3>4, SharedKept
    <2>4. CASE PrintMarker(p)
      <3>1. pc[p] = "print" /\ Asked(p, "granted") /\ UNCHANGED <<created, snap>> /\ snap[p].created = created
        BY <2>0, <2>4 DEF PrintMarker
      <3>2. Sees(p)
        BY <2>0, <3>1 DEF Sees, Asking
      <3>3. \A h \in Creation : marker'[h] = IF h = at[p] THEN created ELSE marker[h]
        BY <2>4, <3>1 DEF PrintMarker, TypeOK, Creation, Content
      <3>4. at[p] \in Creation => marker'[at[p]] \in {Empty, created}
        BY <3>1, <3>3 DEF Settled
      <3>5. QED
        BY <1>1, <3>1, <3>2, <3>3, <3>4, SharedAsked
    <2>5. CASE StartCommand(p) \/ EndPart(p) \/ EndCommand(p)
      <3>1. UNCHANGED <<created, marker, snap>> /\ ~Sees(p) /\ ~Sees(p)'
            /\ pc'[p] \notin {"killed", "truncate", "print", "idle"}
        BY <2>5 DEF StartCommand, EndPart, EndCommand, Asking, Sees, TypeOK
      <3>2. QED
        BY <1>1, <2>0, <3>1, SharedQuiet
    <2>6. CASE EndPhase(p) \/ CheckDotfiles(p) \/ InstallDotfiles(p)
      <3>1. UNCHANGED <<created, marker, snap>> /\ ~Sees(p)
        BY <2>6 DEF EndPhase, CheckDotfiles, InstallDotfiles, Asking, Sees
      <3>2. pc'[p] \notin {"idle", "ask", "truncate", "print", "killed"}
        BY <2>6 DEF EndPhase, CheckDotfiles, InstallDotfiles, NextPhase, TypeOK
      <3>3. ~Sees(p)'
        BY <3>2 DEF Sees, Asking
      <3>4. QED
        BY <1>1, <2>0, <3>1, <3>2, <3>3, SharedQuiet
    <2>7. CASE Finish(p)
      <3>1. UNCHANGED <<created, marker>> /\ ~Sees(p) /\ Leave(p)
        BY <2>7 DEF Finish, Asking, Sees
      <3>2. pc'[p] = "idle" /\ snap'[p] = NoStamps
        BY <3>1 DEF Leave, TypeOK
      <3>3. ~Sees(p)'
        BY <3>2 DEF Sees, Asking
      <3>4. QED
        BY <1>1, <3>1, <3>2, <3>3, SharedQuiet DEF NoStamps
    <2>8. ~(MarkerFails(p) \/ Crash(p))
      BY <2>0 DEF MarkerFails, Crash
    <2>9. QED
      BY <1>1, <2>1, <2>2, <2>3, <2>4, <2>5, <2>6, <2>7, <2>8 DEF StepOf, Step, Fails
  <1>2. ~Restart
    BY DEF Restart
  <1>3. CASE Recreate
    <2>1. UNCHANGED <<marker, pc, snap, at>>
          /\ \A p \in Clients : pc[p] = "idle" /\ snap[p].created = Unknown /\ ~Sees(p) /\ ~Sees(p)'
      BY <1>3 DEF Recreate, client, Quiescent, Asking, Sees, SharedInv, SnapInv
    <2>2. \A h \in Creation : marker[h] # Empty
      BY <2>1 DEF SharedInv
    <2>3. \A h, g \in Creation : marker[h] = marker[g]
      BY <2>1, <2>2 DEF SharedInv, Settled
    <2>4. SnapInv'
      BY <2>1 DEF SharedInv, SnapInv
    <2>5. QED
      BY <2>1, <2>2, <2>3, <2>4 DEF SharedInv
  <1>4. CASE UNCHANGED vars
    BY <1>4 DEF vars, client, container, SharedInv, SnapInv, Settled, Asking, Sees
  <1>5. QED
    BY <1>1, <1>2, <1>3, <1>4, NextIs

(* up.go applyLifecycleMarkers: however many clients overlap, as long as   *)
(* none is killed in the middle, the container is not restarted and no     *)
(* exec fails, the markers of the three hooks of a creation agree whenever *)
(* nobody runs, through every replacement of the container under the same  *)
(* HOME, and whether or not HOME and the timestamps could be read.         *)
THEOREM CreationMarkersAgree == Faults \subseteq {"home", "inspect", "recreate"} => (Spec => []MarkersAgree)
  <1>1. Init => SharedInv
    BY DEF Init, SharedInv, SnapInv, Settled, Asking, Sees, Creation, NoStamps
  <1>2. SharedInv => MarkersAgree
    BY DEF SharedInv, MarkersAgree, Quiescent, Settled, Asking, Sees, Creation
  <1>3. Faults \subseteq {"home", "inspect", "recreate"} /\ TypeOK /\ PosInv /\ SharedInv /\ [Next]_vars => SharedInv'
    BY SharedStep
  <1>4. (Faults \subseteq {"home", "inspect", "recreate"}) = TRUE => (Init /\ [][Next]_vars => []MarkersAgree)
    <2> SUFFICES ASSUME Faults \subseteq {"home", "inspect", "recreate"} PROVE Init /\ [][Next]_vars => []MarkersAgree
      OBVIOUS
    <2>1. TypeOK /\ PosInv /\ SharedInv /\ [Next]_vars => SharedInv'
      BY <1>3
    <2>2. QED
      BY <1>1, <1>2, <2>1, TypeInit, TypeStep, PTL
  <1>5. QED
    BY <1>4 DEF Spec

-----------------------------------------------------------------------------
(* Between the test of a creation hook's marker and the hook's first       *)
(* command a client holds the hook.                                        *)
Within(p, h) == pc[p] \in {"truncate", "print"} /\ at[p] = h
Holds(p, h) == Within(p, h) \/ Awaits(p, h)

(* A client knows the time of the present creation or none.                *)
KnowInv ==
  \A p \in Clients : /\ snap[p].created \in {Unknown, created}
                     /\ pc[p] \in {"idle", "inspect"} => snap[p].created = Unknown

(* One client at most holds a hook; its marker tells how far it is; and    *)
(* the hook was not begun for this creation while it is held, or while its *)
(* marker holds another time.                                              *)
HeldInv(h) ==
  /\ \A p, q \in Clients : Holds(p, h) /\ Holds(q, h) => p = q
  /\ \A p \in Clients :
       /\ Holds(p, h) => snap[p].created = created
       /\ Within(p, h) => IF pc[p] = "truncate" THEN marker[h] \notin {Empty, created} ELSE marker[h] = Empty
       /\ Awaits(p, h) => marker[h] = created
  /\ marker[h] \notin {Empty, created} \/ (\E p \in Clients : Holds(p, h)) => BegunBefore(h, created)

GrowsInv(h) ==
  /\ \A i \in DOMAIN begun[h] : begun[h][i] <= created
  /\ \A i, j \in DOMAIN begun[h] : i < j => begun[h][i] < begun[h][j]

RacedInv == KnowInv /\ (~raced => \A h \in Creation : HeldInv(h) /\ GrowsInv(h))

(* Clients learn the time of the creation from the engine only.            *)
LEMMA KnowStep == TypeOK /\ KnowInv /\ [Next]_vars => KnowInv'
  <1> SUFFICES ASSUME TypeOK, KnowInv, [Next]_vars PROVE KnowInv'
    OBVIOUS
  <1>1. ASSUME NEW p \in Clients, StepOf(p) PROVE KnowInv'
    <2>1. created' = created
      BY <1>1 DEF StepOf, Step, Fails, Begin, Inspect, InspectFails, ResolveHome, ResolveHomeFails, AskMarker,
         TruncateMarker, PrintMarker, MarkerFails, StartCommand, EndPart, EndCommand, EndPhase, CheckDotfiles,
         InstallDotfiles, Finish, Crash, container
    <2>2. /\ snap'[p].created \in {Unknown, created}
          /\ pc'[p] \in {"idle", "inspect"} => snap'[p].created = Unknown
      <3> USE DEF Goto, container, history
      <3>1. CASE Inspect(p)
        BY <3>1 DEF Inspect, TypeOK
      <3>2. CASE Finish(p) \/ Crash(p)
        BY <3>2 DEF Finish, Crash, Leave, NoStamps, TypeOK
      <3>3. CASE Begin(p) \/ InspectFails(p) \/ ResolveHome(p) \/ ResolveHomeFails(p)
        BY <3>3 DEF Begin, InspectFails, ResolveHome, ResolveHomeFails, KnowInv, TypeOK
      <3>4. CASE AskMarker(p) \/ TruncateMarker(p) \/ PrintMarker(p) \/ MarkerFails(p)
        BY <3>4 DEF AskMarker, TruncateMarker, PrintMarker, MarkerFails, Asked, KnowInv, TypeOK
      <3>5. CASE StartCommand(p) \/ EndPart(p) \/ EndCommand(p)
        BY <3>5 DEF StartCommand, EndPart, EndCommand, KnowInv, TypeOK
      <3>6. CASE EndPhase(p) \/ CheckDotfiles(p) \/ InstallDotfiles(p)
        BY <3>6 DEF EndPhase, CheckDotfiles, InstallDotfiles, NextPhase, KnowInv, TypeOK
      <3>7. QED
        BY <1>1, <3>1, <3>2, <3>3, <3>4, <3>5, <3>6 DEF StepOf, Step, Fails
    <2>3. QED
      BY <1>1, <2>1, <2>2, OthersStay DEF KnowInv
  <1>2. CASE Restart
    BY <1>2 DEF Restart, KnowInv, TypeOK
  <1>3. CASE Recreate \/ UNCHANGED vars
    BY <1>3 DEF Recreate, Quiescent, vars, client, container, KnowInv
  <1>4. QED
    BY <1>1, <1>2, <1>3, NextIs

(* A step that leaves the hook's marker and ledger alone and lets its      *)
(* client hold the hook at most as before.                                 *)
LEMMA HeldQuiet ==
  ASSUME TypeOK, NEW p \in Clients, StepOf(p), NEW h \in Creation, HeldInv(h), GrowsInv(h),
         created' = created, marker'[h] = marker[h], begun'[h] = begun[h],
         Within(p, h)' => Within(p, h) /\ pc'[p] = pc[p], Awaits(p, h)' => Awaits(p, h),
         Holds(p, h)' => snap'[p] = snap[p]
  PROVE  HeldInv(h)' /\ GrowsInv(h)'
  <1>1. ASSUME NEW q \in Clients \ {p}
        PROVE  Within(q, h)' = Within(q, h) /\ Awaits(q, h)' = Awaits(q, h) /\ pc'[q] = pc[q] /\ snap'[q] = snap[q]
    BY OthersStay DEF Within, Awaits, Asking
  <1>2. GrowsInv(h)'
    BY DEF GrowsInv
  <1>3. \A q \in Clients : /\ Holds(q, h)' => Holds(q, h) /\ snap'[q] = snap[q]
                           /\ Within(q, h)' => Within(q, h) /\ pc'[q] = pc[q]
                           /\ Awaits(q, h)' => Awaits(q, h)
    BY <1>1 DEF Holds
  <1> QED BY <1>2, <1>3 DEF HeldInv, BegunBefore

(* A step that takes the hook's marker on while its client holds the hook  *)
(* alone.                                                                  *)
LEMMA HeldMoves ==
  ASSUME TypeOK, NEW p \in Clients, StepOf(p), NEW h \in Creation, GrowsInv(h), created' = created, begun'[h] = begun[h],
         \A q \in Clients \ {p} : ~Holds(q, h), BegunBefore(h, created),
         Holds(p, h)' => snap'[p].created = created,
         Within(p, h)' => IF pc'[p] = "truncate" THEN marker'[h] \notin {Empty, created} ELSE marker'[h] = Empty,
         Awaits(p, h)' => marker'[h] = created
  PROVE  HeldInv(h)' /\ GrowsInv(h)'
  <1>1. ASSUME NEW q \in Clients \ {p} PROVE ~Within(q, h)' /\ ~Awaits(q, h)' /\ ~Holds(q, h)'
    BY OthersStay DEF Within, Awaits, Asking, Holds
  <1>2. GrowsInv(h)' /\ BegunBefore(h, created)'
    BY DEF GrowsInv, BegunBefore
  <1> QED BY <1>1, <1>2 DEF HeldInv

(* An answer about a marker is that of the client that asked.              *)
LEMMA AskedAwaits ==
  ASSUME TypeOK, PosInv, UnaskedInv, NEW p \in Clients, Asking(p),
         NEW answer \in {"keep", "granted", "dropped", "lost"}, Asked(p, answer), NEW h \in Creation
  PROVE  ~Within(p, h)' /\ (Awaits(p, h)' => Awaits(p, h) \/ (at[p] = h /\ answer = "granted"))
  <1>1. h \in Marked
    BY DEF Creation
  <1>2. pc'[p] \in {"ask", "phase"} /\ (kept'[p][h] = "granted" => kept[p][h] = "granted" \/ (at[p] = h /\ answer = "granted"))
    BY <1>1, AskedEffect
  <1> QED BY <1>2 DEF Within, Awaits

(* A step of a client keeps what is known of a hook of the creation.       *)
LEMMA HeldStep ==
  ASSUME TypeOK, PosInv, UnaskedInv, KnowInv, NEW p \in Clients, StepOf(p), ~raced',
         NEW h \in Creation, HeldInv(h), GrowsInv(h)
  PROVE  HeldInv(h)' /\ GrowsInv(h)'
  <1> USE DEF Goto, container, history
  <1>0. /\ h \in Marked /\ at[p] \in Phases /\ Content(p, h) = snap[p].created
        /\ (Asking(p) => at[p] \in Marked /\ kept[p][at[p]] # "granted")
        /\ created \in Nat \ {0} /\ created # Empty
    BY DEF Creation, Content, TypeOK, PosInv, UnaskedInv
  <1>1. CASE Begin(p) \/ Inspect(p) \/ InspectFails(p) \/ ResolveHome(p) \/ ResolveHomeFails(p)
    <2>1. UNCHANGED <<created, marker, begun>> /\ kept'[p][h] # "granted" /\ pc'[p] \notin {"truncate", "print"}
      BY <1>0, <1>1 DEF Begin, Inspect, InspectFails, ResolveHome, ResolveHomeFails, UnaskedInv, TypeOK
    <2>2. ~Within(p, h)' /\ ~Awaits(p, h)' /\ ~Holds(p, h)'
      BY <2>1 DEF Within, Awaits, Holds
    <2> QED BY <2>1, <2>2, HeldQuiet
  <1>2. CASE AskMarker(p)
    <2>1. pc[p] = "ask" /\ Asking(p) /\ UNCHANGED <<created, marker, begun, snap>>
      BY <1>2 DEF AskMarker, Asking
    <2>2. ASSUME NEW answer \in {"keep", "dropped"}, Asked(p, answer) PROVE HeldInv(h)' /\ GrowsInv(h)'
      BY <2>1, <2>2, AskedAwaits, HeldQuiet
    <2>3. CASE /\ Content(p, at[p]) # Unknown /\ marker[at[p]] \notin {Empty, Content(p, at[p])}
               /\ pc' = [pc EXCEPT ![p] = "truncate"] /\ UNCHANGED <<kept, at>>
      <3>1. pc'[p] = "truncate" /\ ~Within(p, h) /\ (Awaits(p, h)' => Awaits(p, h)) /\ at'[p] = at[p]
        BY <2>1, <2>3 DEF TypeOK, Within, Awaits, Asking, AskMarker
      <3>2. CASE at[p] # h
        BY <2>1, <3>1, <3>2, HeldQuiet DEF Within
      <3>3. CASE at[p] = h
        <4>1. snap[p].created = created /\ marker[h] \notin {Empty, created}
          BY <1>0, <2>3, <3>3 DEF KnowInv
        <4>2. BegunBefore(h, created)
          BY <4>1 DEF HeldInv
        <4>3. \A q \in Clients \ {p} : ~(pc[q] = "truncate" /\ at[q] = at[p])
          BY <1>2, <3>1 DEF AskMarker
        <4>4. \A q \in Clients \ {p} : ~Holds(q, h)
          BY <3>3, <4>1, <4>3 DEF HeldInv, Holds, Within
        <4>5. ~Awaits(p, h)'
          BY <1>0, <2>1, <2>3, <3>1, <3>3 DEF Awaits
        <4> QED BY <2>1, <3>1, <4>1, <4>2, <4>4, <4>5, HeldMoves
      <3> QED BY <3>2, <3>3
    <2> QED BY <1>2, <2>2, <2>3 DEF AskMarker
  <1>3. CASE TruncateMarker(p)
    <2>1. /\ pc[p] = "truncate" /\ pc'[p] = "print" /\ at'[p] = at[p] /\ UNCHANGED <<created, begun, snap, kept>>
          /\ marker' = [marker EXCEPT ![at[p]] = Empty] /\ (Awaits(p, h)' => Awaits(p, h))
      BY <1>3 DEF TruncateMarker, TypeOK, Awaits, Asking
    <2>2. CASE at[p] # h
      BY <1>0, <2>1, <2>2, HeldQuiet DEF Within, TypeOK
    <2>3. CASE at[p] = h
      <3>1. Holds(p, h) /\ ~Awaits(p, h)
        BY <1>0, <2>1, <2>3 DEF Holds, Within, Awaits, Asking
      <3>2. marker'[h] = Empty
        BY <1>0, <2>1, <2>3 DEF TypeOK
      <3> QED BY <2>1, <3>1, <3>2, HeldMoves DEF HeldInv
    <2> QED BY <2>2, <2>3
  <1>4. CASE PrintMarker(p)
    <2>1. /\ pc[p] = "print" /\ Asking(p) /\ Asked(p, "granted") /\ UNCHANGED <<created, begun, snap>>
          /\ marker' = [marker EXCEPT ![at[p]] = Content(p, at[p])]
      BY <1>4 DEF PrintMarker, Asking
    <2>2. ~Within(p, h)' /\ (Awaits(p, h)' => Awaits(p, h) \/ at[p] = h)
      BY <2>1, AskedAwaits
    <2>3. CASE at[p] # h
      BY <1>0, <2>1, <2>2, <2>3, HeldQuiet DEF TypeOK
    <2>4. CASE at[p] = h
      <3>1. Holds(p, h)
        BY <2>1, <2>4 DEF Holds, Within
      <3>2. marker'[h] = created /\ snap[p].created = created
        BY <1>0, <2>1, <2>4, <3>1 DEF TypeOK, HeldInv
      <3> QED BY <2>1, <2>2, <3>1, <3>2, HeldMoves DEF HeldInv
    <2> QED BY <2>3, <2>4
  <1>5. CASE MarkerFails(p)
    <2>1. /\ Asking(p) /\ Asked(p, "lost") /\ UNCHANGED <<created, begun, snap>>
          /\ marker' # marker => pc[p] = "print" /\ marker' = [marker EXCEPT ![at[p]] = Content(p, at[p])]
      BY <1>5 DEF MarkerFails, Asking
    <2>2. ~Within(p, h)' /\ (Awaits(p, h)' => Awaits(p, h))
      BY <2>1, AskedAwaits
    <2>3. CASE marker'[h] = marker[h]
      BY <2>1, <2>2, <2>3, HeldQuiet
    <2>4. CASE marker'[h] # marker[h]
      <3>1. at[p] = h /\ Holds(p, h)
        BY <1>0, <2>1, <2>4 DEF TypeOK, Holds, Within
      <3>2. ~Awaits(p, h)'
        BY <1>0, <2>1, <2>2, <3>1 DEF Awaits
      <3> QED BY <2>1, <2>2, <3>1, <3>2, HeldMoves DEF HeldInv, Holds
    <2> QED BY <2>3, <2>4
  <1>6. CASE StartCommand(p)
    <2>1. /\ pc[p] = "phase" /\ pc'[p] = "running" /\ UNCHANGED <<created, marker, snap, kept, at, next>>
          /\ ~Within(p, h)' /\ (Awaits(p, h)' => Awaits(p, h) /\ at[p] # h)
      <3>1. /\ pc[p] = "phase" /\ UNCHANGED <<created, marker, snap, kept, at, next>>
            /\ pc' = [pc EXCEPT ![p] = "running"]
        BY <1>6 DEF StartCommand
      <3>2. pc'[p] = "running"
        BY <1>0, <3>1 DEF TypeOK
      <3>3. at[p] \in Nat /\ h \in Nat
        BY <1>0 DEF TypeOK, Creation
      <3> QED BY <3>1, <3>2, <3>3 DEF Within, Awaits, Asking
    <2>2. CASE begun'[h] = begun[h]
      BY <2>1, <2>2, HeldQuiet
    <2>3. CASE begun'[h] # begun[h]
      <3>1. at[p] = h /\ Awaits(p, h) /\ begun'[h] = Append(begun[h], Content(p, h))
        <4>1. /\ at[p] \in Marked /\ kept[p][at[p]] = "granted" /\ next[p] = 1
              /\ begun' = [begun EXCEPT ![at[p]] = Append(@, Content(p, at[p]))]
          BY <1>6, <2>3 DEF StartCommand
        <4> QED BY <1>0, <2>1, <2>3, <4>1 DEF TypeOK, Awaits
      <3>2. Holds(p, h) /\ Content(p, h) = created /\ marker[h] = created /\ BegunBefore(h, created)
        BY <1>0, <3>1 DEF HeldInv, Holds
      <3>3. begun[h] \in Seq(Nat)
        BY <1>0 DEF TypeOK
      <3>4. GrowsInv(h)'
        <4>1. /\ \A i \in DOMAIN begun[h] : begun[h][i] < created
              /\ \A i, j \in DOMAIN begun[h] : i < j => begun[h][i] < begun[h][j]
          BY <3>2 DEF GrowsInv, BegunBefore
        <4> DEFINE old == begun[h] new == begun'[h]
        <4> HIDE DEF old, new
        <4>2. old \in Seq(Nat) /\ new = Append(old, created)
          BY <3>1, <3>2, <3>3 DEF old, new
        <4>3. \A i \in DOMAIN old : old[i] < created
          BY <4>1 DEF old
        <4>4. \A i, j \in DOMAIN old : i < j => old[i] < old[j]
          BY <4>1 DEF old
        <4>5. /\ \A i \in DOMAIN new : new[i] <= created
              /\ \A i, j \in DOMAIN new : i < j => new[i] < new[j]
          BY <1>0, <4>2, <4>3, <4>4
        <4> QED BY <2>1, <4>5 DEF GrowsInv, new
      <3>5. \A q \in Clients \ {p} : ~Holds(q, h)'
        <4>1. \A q \in Clients \ {p} : ~Holds(q, h)
          BY <3>2 DEF HeldInv
        <4> QED BY <4>1, OthersStay DEF Holds, Within, Awaits, Asking
      <3>6. ~Holds(p, h)'
        BY <2>1, <3>1 DEF Holds
      <3>7. \A q \in Clients : ~Holds(q, h)' /\ ~Within(q, h)' /\ ~Awaits(q, h)'
        BY <3>5, <3>6 DEF Holds
      <3> QED BY <2>1, <3>2, <3>4, <3>7 DEF HeldInv
    <2> QED BY <2>2, <2>3
  <1>7. CASE EndPart(p) \/ EndCommand(p)
    <2>1. UNCHANGED <<created, marker, begun, snap, kept, at>>
      BY <1>7 DEF EndPart, EndCommand
    <2>2. pc'[p] \in {"running", "failed"} \/ (pc'[p] = "phase" /\ next'[p] = next[p] + 1)
      BY <1>0, <1>7 DEF EndPart, EndCommand, TypeOK
    <2>3. ~Within(p, h)' /\ (Awaits(p, h)' => Awaits(p, h))
      <3>1. next[p] \in Nat \ {0}
        BY <1>0 DEF TypeOK
      <3> QED BY <2>1, <2>2, <3>1 DEF Within, Awaits, Asking
    <2> QED BY <1>0, <2>1, <2>3, HeldQuiet
  <1>8. CASE EndPhase(p) \/ CheckDotfiles(p) \/ InstallDotfiles(p)
    <2>1. UNCHANGED <<created, begun, snap, kept>> /\ marker' = marker /\ pc[p] \in {"phase", "dotfiles", "install"}
      BY <1>8 DEF EndPhase, CheckDotfiles, InstallDotfiles
    <2>2. /\ pc'[p] \in {"phase", "dotfiles", "install", "done"}
          /\ \/ at'[p] = at[p] /\ next'[p] = next[p] /\ pc'[p] # "phase"
             \/ at'[p] = at[p] + 1
      BY <1>8 DEF EndPhase, CheckDotfiles, InstallDotfiles, NextPhase, TypeOK
    <2>3. Awaits(p, h)' => Awaits(p, h)
      BY <1>0, <2>1, <2>2 DEF Awaits, Asking
    <2> QED BY <2>1, <2>2, <2>3, HeldQuiet DEF Within
  <1>9. CASE Finish(p) \/ Crash(p)
    <2>1. UNCHANGED <<created, begun>> /\ Leave(p)
      BY <1>9 DEF Finish, Crash
    <2>2. pc'[p] = "idle" /\ kept'[p][h] = "keep"
      BY <1>0, <2>1, LeaveEffect
    <2>3. ~Within(p, h)' /\ ~Awaits(p, h)' /\ ~Holds(p, h)'
      BY <2>2 DEF Within, Awaits, Holds
    <2>4. marker'[h] = marker[h] \/ Within(p, h)
      BY <1>0, <1>9 DEF Finish, Crash, Within, TypeOK
    <2>5. CASE marker'[h] = marker[h]
      BY <2>1, <2>3, <2>5, HeldQuiet
    <2>6. CASE Within(p, h)
      <3>1. Holds(p, h) /\ (\A q \in Clients \ {p} : ~Holds(q, h)) /\ BegunBefore(h, created)
        BY <2>6 DEF HeldInv, Holds
      <3> QED BY <2>1, <2>3, <3>1, HeldMoves
    <2> QED BY <2>4, <2>5, <2>6
  <1> QED BY <1>1, <1>2, <1>3, <1>4, <1>5, <1>6, <1>7, <1>8, <1>9 DEF StepOf, Step, Fails

(* Once two clients raced, they did.                                       *)
LEMMA RacedStays == ASSUME TypeOK, [Next]_vars, ~raced' PROVE ~raced
  BY NextIs DEF StepOf, Step, Fails, Begin, Inspect, InspectFails, ResolveHome, ResolveHomeFails, AskMarker,
     TruncateMarker, PrintMarker, MarkerFails, StartCommand, EndPart, EndCommand, EndPhase, CheckDotfiles,
     InstallDotfiles, Finish, Crash, Restart, Recreate, vars, history

(* Every step keeps RacedInv.                                              *)
LEMMA RacedStep ==
  ASSUME TypeOK, TypeOK', PosInv, UnaskedInv, RacedInv, [Next]_vars
  PROVE  RacedInv'
  <1>1. KnowInv'
    BY KnowStep DEF RacedInv
  <1> SUFFICES ASSUME ~raced', NEW h \in Creation PROVE HeldInv(h)' /\ GrowsInv(h)'
    BY <1>1 DEF RacedInv
  <1>2. KnowInv /\ HeldInv(h) /\ GrowsInv(h)
    BY RacedStays DEF RacedInv
  <1>3. ASSUME NEW p \in Clients, StepOf(p) PROVE HeldInv(h)' /\ GrowsInv(h)'
    BY <1>2, <1>3, HeldStep
  <1>4. CASE Restart
    <2>1. UNCHANGED <<created, marker, begun, snap, kept, at, next>>
      BY <1>4 DEF Restart
    <2>2. \A p \in Clients : /\ pc'[p] = pc[p] \/ pc'[p] \in {"failed", "killed"}
                             /\ pc'[p] = "killed" /\ pc[p] # "killed" => pc[p] \in {"truncate", "print"}
      BY <1>4 DEF Restart
    <2>3. \A p \in Clients : /\ Within(p, h)' => Within(p, h) /\ pc'[p] = pc[p]
                             /\ Awaits(p, h)' => Awaits(p, h)
                             /\ Holds(p, h)' => Holds(p, h)
      BY <2>1, <2>2 DEF Within, Awaits, Asking, Holds
    <2> QED BY <1>2, <2>1, <2>3 DEF HeldInv, GrowsInv, BegunBefore
  <1>5. CASE Recreate
    <2>1. created' = created + 1 /\ UNCHANGED <<marker, begun, pc, kept, at>> /\ \A p \in Clients : pc[p] = "idle"
      BY <1>5 DEF Recreate, client, history, Quiescent
    <2>2. \A p \in Clients : kept[p][h] # "granted"
      BY <2>1 DEF UnaskedInv, Creation
    <2>3. \A p \in Clients : ~Within(p, h)' /\ ~Awaits(p, h)' /\ ~Holds(p, h)'
      BY <2>1, <2>2 DEF Within, Awaits, Holds
    <2>4. \A i \in DOMAIN begun[h] : begun[h][i] \in Nat
      BY LedgerType DEF Creation
    <2>5. BegunBefore(h, created)' /\ GrowsInv(h)'
      BY <1>2, <2>1, <2>4 DEF BegunBefore, GrowsInv, TypeOK
    <2> QED BY <2>3, <2>5 DEF HeldInv
  <1>6. CASE UNCHANGED vars
    BY <1>2, <1>6 DEF vars, client, container, history, HeldInv, GrowsInv, Holds, Within, Awaits, Asking, BegunBefore
  <1> QED BY <1>3, <1>4, <1>5, <1>6, NextIs

(* up.go markerShouldRun: however many clients overlap, crash, fail or are *)
(* restarted under, no hook of a creation is begun twice for it, unless    *)
(* two of them tested its marker before either truncated it.               *)
THEOREM OverlappingRunsOnce == Spec => []OnceUnlessRaced
  <1>1. Init => RacedInv
    BY DEF Init, RacedInv, KnowInv, HeldInv, GrowsInv, Holds, Within, Awaits, Asking, BegunBefore, Creation,
       NoStamps, KeepAll
  <1>2. RacedInv => OnceUnlessRaced
    BY DEF RacedInv, GrowsInv, OnceUnlessRaced, Creation
  <1>3. TypeOK /\ TypeOK' /\ PosInv /\ UnaskedInv /\ RacedInv /\ [Next]_vars => RacedInv'
    BY RacedStep
  <1>4. Init => UnaskedInv
    BY HonestInit
  <1> QED BY <1>1, <1>2, <1>3, <1>4, TypeInit, TypeStep, UnaskedStep, PTL DEF Spec
=============================================================================
