-------------------------- MODULE ContainersProofs --------------------------
(***************************************************************************)
(* Containers for any number of clients, configurations, requests and      *)
(* containers, and any faults; and ImageBuild for any workspaces,          *)
(* configurations, flags and faults.                                       *)
(***************************************************************************)
EXTENDS Containers, ImageBuild, SequenceTheorems, TLAPS

Places == {"idle", "list", "removeExisting", "blocked", "stopBlocked", "initialize", "reuse",
           "create", "start", "inspect", "lookup", "lookupFolder", "stop", "remove", "enter"}
Ends == {"none", "ok", "error", "nothing", "crashed"}

(* What every step does to the containers: none disappears from the        *)
(* sequence or changes its configuration.                                  *)
Kept ==
  /\ containers' \in Seq(Containers)
  /\ Len(containers') >= Len(containers)
  /\ \A j \in 1..Len(containers) : containers'[j].config = containers[j].config

(* A container that changes its state keeps its place and configuration.   *)
LEMMA BecomesKeeps ==
  ASSUME containers \in Seq(Containers), NEW i \in 1..Len(containers), NEW s \in States, Becomes(i, s)
  PROVE  /\ Kept
         /\ Len(containers') = Len(containers)
         /\ \A j \in 1..Len(containers) :
              containers'[j] = IF j = i THEN [config |-> containers[i].config, state |-> s] ELSE containers[j]
  <1> DEFINE c == [config |-> containers[i].config, state |-> s]
  <1>1. containers[i] \in Containers
    BY ElementOfSeq
  <1>2. c \in Containers /\ [containers[i] EXCEPT !.state = s] = c
    BY <1>1 DEF Containers
  <1>3. containers' = [containers EXCEPT ![i] = c]
    BY <1>2 DEF Becomes
  <1>4. containers' \in Seq(Containers) /\ Len(containers') = Len(containers)
    BY <1>2, <1>3, ExceptSeq
  <1>5. \A j \in 1..Len(containers) : containers'[j] = IF j = i THEN c ELSE containers[j]
    BY <1>3
  <1>6. Len(containers) \in Nat
    OBVIOUS
  <1>7. QED
    BY <1>4, <1>5, <1>6 DEF Kept

(* A container that is made is the last, and the others are kept.          *)
LEMMA AppendKeeps ==
  ASSUME containers \in Seq(Containers), NEW c \in Containers, containers' = Append(containers, c)
  PROVE  /\ Kept
         /\ Len(containers') = Len(containers) + 1
         /\ containers'[Len(containers')] = c
         /\ \A j \in 1..Len(containers) : containers'[j] = containers[j]
  <1>1. /\ containers' \in Seq(Containers)
        /\ Len(containers') = Len(containers) + 1
        /\ containers'[Len(containers')] = c
        /\ \A j \in 1..Len(containers) : containers'[j] = containers[j]
    BY AppendProperties
  <1>2. QED
    BY <1>1 DEF Kept

(* Doing nothing keeps the containers.                                     *)
LEMMA UnchangedKeeps ==
  ASSUME containers \in Seq(Containers), UNCHANGED containers
  PROVE  Kept
  BY DEF Kept

(* Finds aims at a container the daemon listed, or at none when it listed  *)
(* none.                                                                   *)
LEMMA FindsProperties ==
  ASSUME containers \in Seq(Containers), target \in [Clients -> 0..Len(containers)],
         NEW p \in Clients, NEW c \in Configs \cup {NoConfig}, Finds(p, c)
  PROVE  /\ target' = [target EXCEPT ![p] = target'[p]]
         /\ target'[p] \in 0..Len(containers)
         /\ target'[p] # None => target'[p] \in Matching(c)
         /\ target'[p] = None => Matching(c) = {}
  <1>1. PICK i \in Matching(c) \cup {None} : IsFirst(i, Matching(c)) /\ Aim(p, i)
    BY DEF Finds
  <1>2. Matching(c) \subseteq 1..Len(containers)
    BY DEF Matching, Live, Of
  <1>3. target'[p] = i /\ target' = [target EXCEPT ![p] = i] /\ i \in 0..Len(containers)
    BY <1>1, <1>2 DEF Aim, None
  <1>4. i # None => i \in Matching(c)
    BY <1>1
  <1>5. i = None => Matching(c) = {}
    BY <1>1, <1>2 DEF IsFirst, None
  <1>6. QED
    BY <1>3, <1>4, <1>5

(* No step calms what is not calm.                                         *)
LEMMA CalmStep ==
  ASSUME calm \in BOOLEAN, NEW p \in Clients, Begin(p) \/ Up(p) \/ StopDownExec(p) \/ Crash(p)
  PROVE  calm' \in BOOLEAN /\ (calm' => calm)
  <1>1. calm' = calm \/ calm' = FALSE \/ calm' = (calm /\ \A q \in Clients : pc[q] = "idle")
    BY Zenon DEF Begin, Up, List, RemoveExisting, Blocked, StopBlocked, Initialize, Reuse, Create, StartTarget,
       Inspect, StopDownExec, Lookup, LookupFails, LookupFolder, StopTarget, RemoveTarget, Enter, Crash
  <1> DEFINE quiet == \A q \in Clients : pc[q] = "idle"
  <1> HIDE DEF quiet
  <1>2. CASE calm' = calm
    BY <1>2
  <1>3. CASE calm' = FALSE
    BY <1>3
  <1>4. CASE calm' = (calm /\ quiet)
    BY <1>4
  <1>5. QED
    BY <1>1, <1>2, <1>3, <1>4 DEF quiet

(* A step of the request of one client preserves IInv when its client      *)
(* does.                                                                   *)
LEMMA ClientStep ==
  ASSUME IInv, NEW p \in Clients, Kept, UNCHANGED <<request, served>>, calm' \in BOOLEAN,
         pc'[p] \in Places, pc' = [pc EXCEPT ![p] = pc'[p]],
         result'[p] \in Ends, result' = [result EXCEPT ![p] = result'[p]],
         target'[p] \in 0..Len(containers'), target' = [target EXCEPT ![p] = target'[p]],
         pc'[p] \in UpPlaces => request[p].verb = "up",
         pc'[p] \notin UpPlaces \cup {"idle"} => request[p].verb # "up",
         pc'[p] \in AimedPlaces => target'[p] # None,
         pc'[p] = "create" => ~request[p].expect,
         request[p].verb = "up" /\ target'[p] # None => containers'[target'[p]].config = request[p].config
  PROVE  IInv'
  <1> USE DEF IInv, TypeOK
  <1>1. Len(containers) \in Nat /\ Len(containers') \in Nat /\ Len(containers') >= Len(containers)
    BY DEF Kept
  <1>2. TypeOK'
    <2>1. containers' \in Seq(Containers) /\ request' \in [Clients -> Requests] /\ served' \in 0..MaxRequests
      BY DEF Kept
    <2>2. pc' \in [Clients -> Places] /\ result' \in [Clients -> Ends]
      BY DEF Places, Ends
    <2>3. target' \in [Clients -> 0..Len(containers')]
      BY <1>1
    <2>4. QED
      BY <2>1, <2>2, <2>3 DEF Places, Ends
  <1>3. PlacesInv'
    BY DEF PlacesInv, UpPlaces, AimedPlaces
  <1>4. OwnInv'
    <2>1. ASSUME NEW q \in Clients, q # p, request[q].verb = "up", target[q] # None
          PROVE  containers'[target[q]].config = request[q].config
      <3>1. target[q] \in 1..Len(containers)
        BY <1>1, <2>1 DEF None
      <3>2. QED
        BY <2>1, <3>1 DEF OwnInv, Kept
    <2>2. QED
      BY <2>1 DEF OwnInv
  <1>5. QED
    BY <1>2, <1>3, <1>4

(* IInv holds at first.                                                    *)
LEMMA InitialIInv == Init => IInv
  <1> SUFFICES ASSUME Init PROVE IInv
    OBVIOUS
  <1>1. Existing \in Seq(Containers) /\ MaxRequests \in Nat /\ Requests \subseteq Request
    BY ExistingAssumption, BoundAssumption, RequestsAssumption
  <1>2. TypeOK
    <2>1. calm \in BOOLEAN
      BY Zenon DEF Init, AtMostOne
    <2>2. QED
      BY <1>1, <2>1 DEF Init, TypeOK, None
  <1>3. PlacesInv /\ OwnInv
    BY DEF Init, PlacesInv, OwnInv, UpPlaces, AimedPlaces
  <1>4. QED
    BY <1>2, <1>3 DEF IInv

(* What IInv says of one client that serves a request.                     *)
LEMMA ClientFacts ==
  ASSUME IInv, NEW p \in Clients
  PROVE  /\ containers \in Seq(Containers) /\ Len(containers) \in Nat
         /\ pc \in [Clients -> Places] /\ result \in [Clients -> Ends]
         /\ request[p] \in Request
         /\ request[p].verb = "up" => request[p].config \in Configs
         /\ target \in [Clients -> 0..Len(containers)]
         /\ target[p] # None => target[p] \in 1..Len(containers)
         /\ request[p].verb = "up" /\ target[p] # None => containers[target[p]].config = request[p].config
         /\ pc[p] \in UpPlaces => request[p].verb = "up"
         /\ pc[p] \notin UpPlaces \cup {"idle"} => request[p].verb # "up"
         /\ pc[p] \in AimedPlaces => target[p] # None
         /\ pc[p] = "create" => ~request[p].expect
  <1>1. request[p] \in Request /\ (request[p].verb = "up" => request[p].config \in Configs)
    BY RequestsAssumption DEF IInv, TypeOK, Request
  <1>2. QED
    BY <1>1 DEF IInv, TypeOK, PlacesInv, OwnInv, Places, Ends, None

(* IInv is preserved when a request begins.                                *)
LEMMA BeginInductive ==
  ASSUME IInv, NEW p \in Clients, Begin(p)
  PROVE  IInv'
  <1>1. PICK r \in Requests :
          /\ request' = [request EXCEPT ![p] = r]
          /\ pc' = [pc EXCEPT ![p] = IF r.verb = "up" THEN "list"
                                     ELSE IF r.config = NoConfig THEN "lookupFolder" ELSE "lookup"]
    BY DEF Begin
  <1>2. r \in Request
    BY RequestsAssumption
  <1>3. /\ result' = [result EXCEPT ![p] = "none"] /\ target' = [target EXCEPT ![p] = None]
        /\ served' = served + 1 /\ served < MaxRequests /\ UNCHANGED containers
    BY DEF Begin, Aim
  <1>4. TypeOK'
    <2>1. containers' \in Seq(Containers) /\ served' \in 0..MaxRequests
      BY <1>3, BoundAssumption DEF IInv, TypeOK
    <2>2. Len(containers) \in Nat
      BY DEF IInv, TypeOK
    <2>3. /\ pc' \in [Clients -> Places] /\ result' \in [Clients -> Ends]
          /\ request' \in [Clients -> Requests] /\ target' \in [Clients -> 0..Len(containers')]
      BY <1>1, <1>2, <1>3, <2>2 DEF IInv, TypeOK, Places, Ends, None
    <2>4. calm' \in BOOLEAN
      BY CalmStep DEF IInv, TypeOK
    <2>5. QED
      BY <2>1, <2>3, <2>4 DEF TypeOK, Places, Ends
  <1>5. PlacesInv'
    BY <1>1, <1>3 DEF IInv, TypeOK, PlacesInv, UpPlaces, AimedPlaces
  <1>6. OwnInv'
    BY <1>1, <1>3 DEF IInv, TypeOK, OwnInv
  <1>7. QED
    BY <1>4, <1>5, <1>6 DEF IInv

(* IInv is preserved by every step of up.                                  *)
LEMMA UpInductive ==
  ASSUME IInv, NEW p \in Clients, Up(p)
  PROVE  IInv'
  <1>0. calm' \in BOOLEAN
    BY CalmStep DEF IInv, TypeOK
  <1>1. /\ containers \in Seq(Containers) /\ Len(containers) \in Nat
        /\ pc \in [Clients -> Places] /\ result \in [Clients -> Ends]
        /\ request[p] \in Request /\ target \in [Clients -> 0..Len(containers)]
        /\ target[p] # None => target[p] \in 1..Len(containers) /\ containers[target[p]].config = request[p].config
        /\ pc[p] \in AimedPlaces => target[p] # None
        /\ pc[p] = "create" => ~request[p].expect
    <2>1. pc[p] \in UpPlaces
      BY DEF Up, UpPlaces, List, RemoveExisting, Blocked, StopBlocked, Initialize, Reuse, Create, StartTarget, Inspect
    <2>2. QED
      BY <2>1, ClientFacts
  <1>2. request[p].verb = "up" /\ request[p].config \in Configs
    BY ClientFacts DEF Up, UpPlaces, List, RemoveExisting, Blocked, StopBlocked, Initialize, Reuse,
         Create, StartTarget, Inspect
  <1>3. \A i \in Matching(request[p].config) :
          i \in 1..Len(containers) /\ containers[i].config = request[p].config
    BY <1>1, <1>2, ConfigsAssumption DEF Matching, Of, Live
  <1>4. ASSUME Finds(p, request[p].config), UNCHANGED containers
        PROVE  /\ target' = [target EXCEPT ![p] = target'[p]] /\ target'[p] \in 0..Len(containers')
               /\ target'[p] # None => containers'[target'[p]].config = request[p].config
    BY <1>1, <1>2, <1>3, <1>4, FindsProperties
  <1>5. ASSUME Aim(p, None)
        PROVE  target' = [target EXCEPT ![p] = target'[p]] /\ target'[p] = None
    BY <1>1, <1>5 DEF Aim
  <1>6. ASSUME NEW w \in Places, Goto(p, w)
        PROVE  /\ pc' = [pc EXCEPT ![p] = pc'[p]] /\ pc'[p] = w
               /\ result' = [result EXCEPT ![p] = result'[p]] /\ result'[p] \in Ends
    BY <1>1, <1>6 DEF Goto
  <1>7. ASSUME NEW h \in Ends, End(p, h)
        PROVE  /\ pc' = [pc EXCEPT ![p] = pc'[p]] /\ pc'[p] = "idle"
               /\ result' = [result EXCEPT ![p] = result'[p]] /\ result'[p] \in Ends
    BY <1>1, <1>7 DEF End
  <1>8. UNCHANGED containers => Kept
    BY <1>1, UnchangedKeeps
  <1>9. ASSUME NEW s \in States, Becomes(target[p], s), target[p] # None
        PROVE  Kept /\ containers'[target[p]].config = request[p].config
    <2>1. target[p] \in 1..Len(containers) /\ containers[target[p]].config = request[p].config
      BY <1>1, <1>9
    <2>2. Kept
      BY <1>1, <1>9, <2>1, BecomesKeeps
    <2>3. QED
      BY <2>1, <2>2 DEF Kept
  <1>10. Checks(p) \in {"blocked", "initialize"}
    BY DEF Checks
  <1>11. {"idle", "list", "removeExisting", "blocked", "stopBlocked", "initialize", "reuse",
           "create", "start", "inspect"} \subseteq Places /\ {"ok", "error"} \subseteq Ends
    BY DEF Places, Ends
  <1>12. UNCHANGED target => target' = [target EXCEPT ![p] = target'[p]] /\ target'[p] = target[p]
    BY <1>1
  <1>13. /\ \A x \in {"list", "removeExisting", "blocked", "stopBlocked", "initialize", "reuse",
                       "create", "start", "inspect"} : x \in UpPlaces
         /\ \A x \in {"idle", "list", "blocked", "initialize", "create"} : x \notin AimedPlaces
         /\ \A x \in {"removeExisting", "stopBlocked", "reuse", "start", "inspect"} : x \in AimedPlaces /\ x # "create"
    BY DEF UpPlaces, AimedPlaces
  <1>20. CASE List(p)
    <2>1. UNCHANGED <<containers, request, served>> /\ Kept
      BY <1>8, <1>20 DEF List
    <2>2. /\ target' = [target EXCEPT ![p] = target'[p]] /\ target'[p] \in 0..Len(containers')
          /\ target'[p] # None => containers'[target'[p]].config = request[p].config
      BY <1>1, <1>4, <1>5, <1>20, <2>1 DEF List, None
    <2>3. \E w \in {"blocked", "initialize", "removeExisting"} :
            Goto(p, w) /\ (w = "removeExisting" => target'[p] # None)
      BY <1>10, <1>20 DEF List
    <2>4. QED
      BY <1>2, <1>6, <1>11, <1>13, <2>1, <2>2, <2>3, <1>0, ClientStep
  <1>21. CASE RemoveExisting(p)
    <2>1. target[p] # None
      BY <1>1, <1>13, <1>21 DEF RemoveExisting
    <2>2. Kept /\ UNCHANGED <<request, served>>
      BY <1>8, <1>9, <1>21, <2>1 DEF RemoveExisting, States
    <2>3. /\ target' = [target EXCEPT ![p] = target'[p]] /\ target'[p] = None
          /\ target'[p] \in 0..Len(containers')
      BY <1>1, <1>5, <1>21, <2>2 DEF RemoveExisting, None, Kept
    <2>4. \E w \in {"blocked", "initialize"} : Goto(p, w)
      BY <1>10, <1>21 DEF RemoveExisting
    <2>5. QED
      BY <1>2, <1>6, <1>11, <1>13, <2>2, <2>3, <2>4, <1>0, ClientStep
  <1>22. CASE Blocked(p)
    <2>1. UNCHANGED <<containers, request, served>> /\ Kept
      BY <1>8, <1>22 DEF Blocked
    <2>2. /\ target' = [target EXCEPT ![p] = target'[p]] /\ target'[p] \in 0..Len(containers')
          /\ target'[p] # None => containers'[target'[p]].config = request[p].config
      BY <1>1, <1>4, <1>5, <1>22, <2>1 DEF Blocked, None
    <2>3. End(p, "error") \/ (Goto(p, "stopBlocked") /\ target'[p] # None)
      BY <1>22 DEF Blocked
    <2>4. QED
      BY <1>2, <1>6, <1>7, <1>11, <1>13, <2>1, <2>2, <2>3, <1>0, ClientStep
  <1>23. CASE StopBlocked(p)
    <2>1. target[p] # None
      BY <1>1, <1>13, <1>23 DEF StopBlocked
    <2>2. Kept /\ UNCHANGED <<request, served, target>> /\ containers'[target[p]].config = request[p].config
      BY <1>1, <1>8, <1>9, <1>23, <2>1 DEF StopBlocked, States
    <2>3. End(p, "error")
      BY <1>23 DEF StopBlocked
    <2>4. target[p] \in 0..Len(containers')
      BY <1>1, <2>2 DEF Kept
    <2>5. QED
      BY <1>2, <1>7, <1>11, <1>12, <1>13, <2>2, <2>3, <2>4, <1>0, ClientStep
  <1>24. CASE Initialize(p)
    <2>1. Kept /\ UNCHANGED <<containers, request, served, target>>
      BY <1>8, <1>24 DEF Initialize
    <2>2. \/ target[p] # None /\ Goto(p, "reuse")
          \/ ~request[p].expect /\ Goto(p, "create")
          \/ End(p, "error")
      BY <1>24 DEF Initialize
    <2>3. target[p] # None => containers'[target[p]].config = request[p].config
      BY <1>1, <2>1
    <2>4. target'[p] \in 0..Len(containers')
      BY <1>1, <2>1
    <2>5. QED
      BY <1>2, <1>6, <1>7, <1>11, <1>12, <1>13, <2>1, <2>2, <2>3, <2>4, <1>0, ClientStep
  <1>25. CASE Reuse(p)
    <2>1. Kept /\ UNCHANGED <<containers, request, served, target>>
      BY <1>8, <1>25 DEF Reuse
    <2>2. \E w \in {"inspect", "start"} : Goto(p, w)
      BY <1>25 DEF Reuse
    <2>3. target[p] # None /\ containers'[target[p]].config = request[p].config
      BY <1>1, <1>13, <1>25, <2>1 DEF Reuse
    <2>4. target'[p] \in 0..Len(containers')
      BY <1>1, <2>1
    <2>5. QED
      BY <1>2, <1>6, <1>11, <1>12, <1>13, <2>1, <2>2, <2>3, <2>4, <1>0, ClientStep
  <1>26. CASE Create(p)
    <2>1. CASE End(p, "error") /\ UNCHANGED <<containers, target>>
      <3>1. Kept /\ UNCHANGED <<containers, request, served, target>>
        BY <1>8, <1>26, <2>1 DEF Create
      <3>2. target[p] # None => containers'[target[p]].config = request[p].config
        BY <1>1, <3>1
      <3>3. target'[p] \in 0..Len(containers')
        BY <1>1, <3>1
      <3>4. QED
        BY <1>2, <1>7, <1>11, <1>12, <1>13, <2>1, <3>1, <3>2, <3>3, <1>0, ClientStep
    <2>2. CASE /\ containers' = Append(containers, [config |-> request[p].config, state |-> "created"])
               /\ Aim(p, Len(containers')) /\ Goto(p, "start")
      <3> DEFINE c == [config |-> request[p].config, state |-> "created"]
      <3>1. c \in Containers
        BY <1>2 DEF Containers, States
      <3>2. Kept /\ Len(containers') = Len(containers) + 1 /\ containers'[Len(containers')] = c
        BY <1>1, <2>2, <3>1, AppendKeeps
      <3>3. target' = [target EXCEPT ![p] = target'[p]] /\ target'[p] = Len(containers')
        BY <1>1, <2>2 DEF Aim
      <3>4. target'[p] # None /\ target'[p] \in 0..Len(containers')
        BY <1>1, <3>2, <3>3 DEF None
      <3>5. UNCHANGED <<request, served>> /\ containers'[target'[p]].config = request[p].config
        BY <1>26, <3>2, <3>3 DEF Create
      <3>6. QED
        BY <1>2, <1>6, <1>11, <1>13, <2>2, <3>2, <3>3, <3>4, <3>5, <1>0, ClientStep
    <2>3. QED
      BY <1>26, <2>1, <2>2 DEF Create
  <1>27. CASE StartTarget(p)
    <2>1. target[p] # None
      BY <1>1, <1>13, <1>27 DEF StartTarget
    <2>2. Kept /\ UNCHANGED <<request, served, target>> /\ containers'[target[p]].config = request[p].config
      BY <1>1, <1>8, <1>9, <1>27, <2>1 DEF StartTarget, States
    <2>3. Goto(p, "inspect") \/ End(p, "error")
      BY <1>27 DEF StartTarget
    <2>4. target[p] \in 0..Len(containers')
      BY <1>1, <2>2 DEF Kept
    <2>5. QED
      BY <1>2, <1>6, <1>7, <1>11, <1>12, <1>13, <2>1, <2>2, <2>3, <2>4, <1>0, ClientStep
  <1>28. CASE Inspect(p)
    <2>1. Kept /\ UNCHANGED <<containers, request, served, target>>
      BY <1>8, <1>28 DEF Inspect
    <2>2. \E h \in {"ok", "error"} : End(p, h)
      BY <1>28 DEF Inspect
    <2>3. target[p] # None => containers'[target[p]].config = request[p].config
      BY <1>1, <2>1
    <2>4. target'[p] \in 0..Len(containers')
      BY <1>1, <2>1
    <2>5. QED
      BY <1>2, <1>7, <1>11, <1>12, <1>13, <2>1, <2>2, <2>3, <2>4, <1>0, ClientStep
  <1>30. QED
    BY <1>20, <1>21, <1>22, <1>23, <1>24, <1>25, <1>26, <1>27, <1>28 DEF Up

(* IInv is preserved by every step of stop, down and exec.                 *)
LEMMA StopDownExecInductive ==
  ASSUME IInv, NEW p \in Clients, StopDownExec(p)
  PROVE  IInv'
  <1>0. calm' \in BOOLEAN
    BY CalmStep DEF IInv, TypeOK
  <1>1. /\ containers \in Seq(Containers) /\ Len(containers) \in Nat
        /\ pc \in [Clients -> Places] /\ result \in [Clients -> Ends]
        /\ request[p] \in Request /\ target \in [Clients -> 0..Len(containers)]
        /\ target[p] # None => target[p] \in 1..Len(containers)
        /\ pc[p] \in AimedPlaces => target[p] # None
    BY ClientFacts
  <1>2. request[p].verb # "up" /\ request[p].config \in Configs \cup {NoConfig}
    <2>1. pc[p] \in {"lookup", "lookupFolder", "stop", "remove", "enter"}
      BY DEF StopDownExec, Lookup, LookupFails, LookupFolder, StopTarget, RemoveTarget, Enter
    <2>2. pc[p] \notin UpPlaces \cup {"idle"}
      BY <2>1 DEF UpPlaces
    <2>3. QED
      BY <1>1, <2>2, ClientFacts DEF Request
  <1>3. ASSUME NEW c \in Configs \cup {NoConfig}, Finds(p, c), UNCHANGED containers
        PROVE  target' = [target EXCEPT ![p] = target'[p]] /\ target'[p] \in 0..Len(containers')
    BY <1>1, <1>3, FindsProperties
  <1>4. ASSUME NEW w \in Places, Goto(p, w)
        PROVE  /\ pc' = [pc EXCEPT ![p] = pc'[p]] /\ pc'[p] = w
               /\ result' = [result EXCEPT ![p] = result'[p]] /\ result'[p] \in Ends
    BY <1>1, <1>4 DEF Goto
  <1>5. ASSUME NEW h \in Ends, End(p, h)
        PROVE  /\ pc' = [pc EXCEPT ![p] = pc'[p]] /\ pc'[p] = "idle"
               /\ result' = [result EXCEPT ![p] = result'[p]] /\ result'[p] \in Ends
    BY <1>1, <1>5 DEF End
  <1>6. UNCHANGED containers => Kept
    BY <1>1, UnchangedKeeps
  <1>7. ASSUME NEW s \in States, Becomes(target[p], s), target[p] # None
        PROVE  Kept
    BY <1>1, <1>7, BecomesKeeps
  <1>8. {"idle", "lookup", "lookupFolder", "stop", "remove", "enter"} \subseteq Places /\ Ends \subseteq Ends
        /\ {"ok", "error", "nothing"} \subseteq Ends
    BY DEF Places, Ends
  <1>9. UNCHANGED target => target' = [target EXCEPT ![p] = target'[p]] /\ target'[p] = target[p]
    BY <1>1
  <1>10. /\ \A x \in {"idle", "lookup", "lookupFolder", "stop", "remove", "enter"} : x \notin UpPlaces
         /\ \A x \in {"idle", "lookup", "lookupFolder"} : x \notin AimedPlaces
         /\ \A x \in {"stop", "remove", "enter"} : x \in AimedPlaces
    BY DEF UpPlaces, AimedPlaces
  <1>11. AfterLookup(p) \in {"stop", "enter"}
    BY DEF AfterLookup
  <1>12. NotFound(p) => \E h \in {"error", "nothing"} : End(p, h)
    BY DEF NotFound
  <1>20. CASE Lookup(p)
    <2>1. UNCHANGED <<containers, request, served>> /\ Kept
      BY <1>6, <1>20 DEF Lookup
    <2>2. target' = [target EXCEPT ![p] = target'[p]] /\ target'[p] \in 0..Len(containers')
      BY <1>2, <1>3, <1>20, <2>1 DEF Lookup
    <2>3. \E w \in {"stop", "enter", "lookupFolder"} : Goto(p, w) /\ (w # "lookupFolder" => target'[p] # None)
      BY <1>11, <1>20 DEF Lookup
    <2>4. QED
      BY <1>2, <1>4, <1>8, <1>10, <2>1, <2>2, <2>3, <1>0, ClientStep
  <1>21. CASE LookupFolder(p)
    <2>1. UNCHANGED <<containers, request, served>> /\ Kept
      BY <1>6, <1>21 DEF LookupFolder
    <2>2. target' = [target EXCEPT ![p] = target'[p]] /\ target'[p] \in 0..Len(containers')
      BY <1>3, <1>21, <2>1 DEF LookupFolder
    <2>3. \/ \E h \in {"error", "nothing"} : End(p, h)
          \/ \E w \in {"stop", "enter"} : Goto(p, w) /\ target'[p] # None
      BY <1>11, <1>12, <1>21 DEF LookupFolder
    <2>4. QED
      BY <1>2, <1>4, <1>5, <1>8, <1>10, <2>1, <2>2, <2>3, <1>0, ClientStep
  <1>22. CASE LookupFails(p)
    <2>1. UNCHANGED <<containers, request, target, served>> /\ Kept
      BY <1>6, <1>22 DEF LookupFails
    <2>2. \E h \in {"error", "nothing"} : End(p, h)
      BY <1>12, <1>22 DEF LookupFails
    <2>3. target'[p] \in 0..Len(containers')
      BY <1>1, <2>1
    <2>4. QED
      BY <1>2, <1>5, <1>8, <1>9, <1>10, <2>1, <2>2, <2>3, <1>0, ClientStep
  <1>23. CASE StopTarget(p)
    <2>1. target[p] # None
      BY <1>1, <1>10, <1>23 DEF StopTarget
    <2>2. Kept /\ UNCHANGED <<request, served, target>>
      BY <1>6, <1>7, <1>23, <2>1 DEF StopTarget, States
    <2>3. Goto(p, "remove") \/ End(p, "ok") \/ End(p, "error")
      BY <1>23 DEF StopTarget
    <2>4. target'[p] \in 0..Len(containers')
      BY <1>1, <2>2 DEF Kept
    <2>5. QED
      BY <1>2, <1>4, <1>5, <1>8, <1>9, <1>10, <2>1, <2>2, <2>3, <2>4, <1>0, ClientStep
  <1>24. CASE RemoveTarget(p)
    <2>1. target[p] # None
      BY <1>1, <1>10, <1>24 DEF RemoveTarget
    <2>2. Kept /\ UNCHANGED <<request, served, target>>
      BY <1>6, <1>7, <1>24, <2>1 DEF RemoveTarget, States
    <2>3. End(p, "ok") \/ End(p, "error")
      BY <1>24 DEF RemoveTarget
    <2>4. target'[p] \in 0..Len(containers')
      BY <1>1, <2>2 DEF Kept
    <2>5. QED
      BY <1>2, <1>5, <1>8, <1>9, <1>10, <2>2, <2>3, <2>4, <1>0, ClientStep
  <1>25. CASE Enter(p)
    <2>1. UNCHANGED <<containers, request, target, served>> /\ Kept
      BY <1>6, <1>25 DEF Enter
    <2>2. \E h \in {"error", "ok"} : End(p, h)
      BY <1>25 DEF Enter
    <2>3. target'[p] \in 0..Len(containers')
      BY <1>1, <2>1
    <2>4. QED
      BY <1>2, <1>5, <1>8, <1>9, <1>10, <2>1, <2>2, <2>3, <1>0, ClientStep
  <1>30. QED
    BY <1>20, <1>21, <1>22, <1>23, <1>24, <1>25 DEF StopDownExec

(* IInv is preserved when a client crashes.                                *)
LEMMA CrashInductive ==
  ASSUME IInv, NEW p \in Clients, Crash(p)
  PROVE  IInv'
  <1>1. UNCHANGED <<containers, request, target, served, calm>>
    BY DEF Crash
  <1>2. pc' = [pc EXCEPT ![p] = "idle"] /\ result' = [result EXCEPT ![p] = "crashed"]
    BY DEF Crash, End
  <1>3. TypeOK'
    BY <1>1, <1>2 DEF IInv, TypeOK
  <1>4. PlacesInv' /\ OwnInv'
    BY <1>1, <1>2 DEF IInv, TypeOK, PlacesInv, OwnInv, UpPlaces, AimedPlaces
  <1>5. QED
    BY <1>3, <1>4 DEF IInv

(* IInv is inductive.                                                      *)
LEMMA Inductive == IInv /\ [Next]_vars => IInv'
  <1> SUFFICES ASSUME IInv, [Next]_vars PROVE IInv'
    OBVIOUS
  <1>1. ASSUME UNCHANGED vars PROVE IInv'
    BY <1>1 DEF vars, IInv, TypeOK, PlacesInv, OwnInv
  <1>2. ASSUME NEW p \in Clients, Begin(p) \/ Up(p) \/ StopDownExec(p) \/ Crash(p) PROVE IInv'
    BY <1>2, BeginInductive, UpInductive, StopDownExecInductive, CrashInductive
  <1>3. QED
    BY <1>1, <1>2 DEF Next, Rest

(* IInv is an invariant.                                                   *)
LEMMA Invariant == Spec => []IInv
  BY InitialIInv, Inductive, PTL DEF Spec

(* The variables of Containers keep their types, in particular every       *)
(* client works on a container that was made (up.go runUp, stop.go         *)
(* runStopOrDown, exec.go runExec).                                        *)
THEOREM TypeCorrect == Spec => []TypeOK
  <1>1. IInv => TypeOK
    BY DEF IInv
  <1>2. QED
    BY <1>1, Invariant, PTL

-----------------------------------------------------------------------------
(* A request that a step advances is the request of the client that takes  *)
(* the step.                                                               *)
LEMMA OwnStep ==
  ASSUME IInv, [Next]_vars, NEW p \in Clients, pc[p] # "idle", pc'[p] # pc[p]
  PROVE  Up(p) \/ StopDownExec(p) \/ Crash(p)
  <1>1. ~UNCHANGED vars /\ pc \in [Clients -> Places]
    BY ClientFacts DEF vars
  <1>2. PICK q \in Clients : Begin(q) \/ Up(q) \/ StopDownExec(q) \/ Crash(q)
    BY <1>1 DEF Next, Rest
  <1>3. pc' = [pc EXCEPT ![q] = pc'[q]]
    <2>1. CASE Begin(q)
      BY <1>1, <2>1 DEF Begin
    <2>2. CASE Up(q)
      BY <1>1, <2>2 DEF Up, List, RemoveExisting, Blocked, StopBlocked, Initialize, Reuse, Create, StartTarget,
           Inspect, Goto, End
    <2>3. CASE StopDownExec(q)
      BY <1>1, <2>3 DEF StopDownExec, Lookup, LookupFails, LookupFolder, NotFound, StopTarget, RemoveTarget, Enter,
           Goto, End
    <2>4. CASE Crash(q)
      BY <1>1, <2>4 DEF Crash, End
    <2>5. QED
      BY <1>2, <2>1, <2>2, <2>3, <2>4
  <1>4. q = p
    BY <1>1, <1>3
  <1>5. QED
    BY <1>2, <1>4 DEF Begin

(* up.go: an up that expects a container makes none, whatever overlaps it  *)
(* and fails.                                                              *)
THEOREM ExpectNeverCreates == Spec => ExpectMakesNothing
  <1>1. ASSUME IInv, [Next]_vars, NEW p \in Clients, request[p].expect, pc[p] # "idle", pc'[p] # pc[p]
        PROVE  Len(containers') = Len(containers)
    <2>1. containers \in Seq(Containers) /\ ~Create(p) /\ (target[p] # None => target[p] \in 1..Len(containers))
      BY <1>1, ClientFacts DEF Create
    <2>2. ASSUME NEW i \in 1..Len(containers), NEW s \in States, Becomes(i, s)
          PROVE  Len(containers') = Len(containers)
      BY <2>1, <2>2, BecomesKeeps
    <2>3. CASE UNCHANGED containers
      BY <2>3
    <2>4. CASE target[p] # None /\ \E s \in States : Becomes(target[p], s)
      BY <2>1, <2>2, <2>4
    <2>5. pc[p] \in AimedPlaces => target[p] # None
      BY <1>1, ClientFacts
    <2>6. CASE Up(p)
      BY <2>1, <2>3, <2>4, <2>5, <2>6 DEF Up, List, RemoveExisting, Blocked, StopBlocked, Initialize, Reuse,
           StartTarget, Inspect, AimedPlaces, States
    <2>7. CASE StopDownExec(p)
      BY <2>3, <2>4, <2>5, <2>7 DEF StopDownExec, Lookup, LookupFails, LookupFolder, StopTarget, RemoveTarget,
           Enter, AimedPlaces, States
    <2>8. CASE Crash(p)
      BY <2>3, <2>8 DEF Crash
    <2>9. QED
      BY <1>1, <2>6, <2>7, <2>8, OwnStep
  <1>2. IInv /\ [Next]_vars => [\A p \in Clients :
           request[p].expect /\ pc[p] # "idle" /\ pc'[p] # pc[p] => Len(containers') = Len(containers)]_vars
    BY <1>1
  <1>3. QED
    BY <1>2, Invariant, PTL DEF Spec, ExpectMakesNothing

(* up.go runUp, disallowed.go stopRunningContainer: whatever runs beside   *)
(* it, up changes and makes containers of its own configuration only.      *)
THEOREM UpStaysInItsConfig == Spec => UpTouchesOwn
  <1>1. ASSUME IInv, [Next]_vars, NEW p \in Clients, NEW i \in DOMAIN containers',
               request[p].verb = "up", pc[p] # "idle", pc'[p] # pc[p],
               i \in DOMAIN containers => containers'[i] # containers[i]
        PROVE  containers'[i].config = request[p].config
    <2>1. /\ containers \in Seq(Containers) /\ Len(containers) \in Nat
          /\ request[p].config \in Configs
          /\ target[p] # None => target[p] \in 1..Len(containers) /\ containers[target[p]].config = request[p].config
          /\ pc[p] \in AimedPlaces => target[p] # None
          /\ pc[p] \in UpPlaces
      BY <1>1, ClientFacts
    <2>2. ~UNCHANGED containers
      BY <1>1
    <2>3. Up(p)
      <3>1. ~Crash(p)
        BY <2>2 DEF Crash
      <3>2. ~StopDownExec(p)
        BY <2>1 DEF StopDownExec, Lookup, LookupFails, LookupFolder, StopTarget, RemoveTarget, Enter, UpPlaces
      <3>3. QED
        BY <1>1, <3>1, <3>2, OwnStep
    <2>4. CASE target[p] # None /\ \E s \in States : Becomes(target[p], s)
      <3>1. PICK s \in States : Becomes(target[p], s)
        BY <2>4
      <3>2. target[p] \in 1..Len(containers) /\ containers[target[p]].config = request[p].config
        BY <2>1, <2>4
      <3>3. /\ Kept /\ Len(containers') = Len(containers)
            /\ \A j \in 1..Len(containers) : j # target[p] => containers'[j] = containers[j]
        BY <2>1, <3>1, <3>2, BecomesKeeps
      <3>4. DOMAIN containers' = 1..Len(containers) /\ DOMAIN containers = 1..Len(containers)
        BY <2>1, <3>3 DEF Kept
      <3>5. i = target[p]
        BY <1>1, <3>3, <3>4
      <3>6. QED
        BY <3>2, <3>3, <3>5 DEF Kept
    <2>5. CASE Create(p)
      <3> DEFINE c == [config |-> request[p].config, state |-> "created"]
      <3>1. containers' = Append(containers, c) /\ c \in Containers
        BY <2>1, <2>2, <2>5 DEF Create, Containers, States
      <3>2. /\ Kept /\ Len(containers') = Len(containers) + 1 /\ containers'[Len(containers')] = c
            /\ \A j \in 1..Len(containers) : containers'[j] = containers[j]
        BY <2>1, <3>1, AppendKeeps
      <3>3. DOMAIN containers' = 1..(Len(containers) + 1) /\ DOMAIN containers = 1..Len(containers)
        BY <2>1, <3>2 DEF Kept
      <3>4. i = Len(containers')
        BY <1>1, <2>1, <3>2, <3>3
      <3>5. QED
        BY <3>2, <3>4
    <2>6. QED
      BY <2>1, <2>2, <2>3, <2>4, <2>5 DEF Up, List, RemoveExisting, Blocked, StopBlocked, Initialize, Reuse,
           StartTarget, Inspect, AimedPlaces, States
  <1>2. IInv /\ [Next]_vars => [\A p \in Clients : \A i \in DOMAIN containers' :
           /\ request[p].verb = "up" /\ pc[p] # "idle" /\ pc'[p] # pc[p]
           /\ i \in DOMAIN containers => containers'[i] # containers[i]
           => containers'[i].config = request[p].config]_vars
    BY <1>1
  <1>3. QED
    BY <1>2, Invariant, PTL DEF Spec, UpTouchesOwn

-----------------------------------------------------------------------------
(* A step that leaves no new live container, or makes one of a             *)
(* configuration that had none, keeps one container per configuration.     *)
LiveAfter(c) == {i \in DOMAIN containers' : containers'[i].state # "gone" /\ containers'[i].config = c}

SerialInv == IInv /\ AtMostOne /\ OneAtATime /\ NoneBeforeCreate

(* The live containers of a configuration after a step.                    *)
LEMMA OfPrimed == \A c : Of(c)' = LiveAfter(c)
  BY DEF Of, Live, LiveAfter

(* A change of state gives a configuration no container unless it revives  *)
(* one.                                                                    *)
LEMMA BecomesOf ==
  ASSUME containers \in Seq(Containers), NEW i \in 1..Len(containers), NEW s \in States, Becomes(i, s),
         containers[i].state # "gone" \/ s = "gone", NEW c
  PROVE  LiveAfter(c) \subseteq Of(c) /\ (s = "gone" => i \notin LiveAfter(c))
  <1>1. /\ Kept /\ Len(containers') = Len(containers)
        /\ \A j \in 1..Len(containers) :
              containers'[j] = IF j = i THEN [config |-> containers[i].config, state |-> s] ELSE containers[j]
    BY BecomesKeeps
  <1>2. DOMAIN containers' = 1..Len(containers) /\ DOMAIN containers = 1..Len(containers)
    BY <1>1 DEF Kept
  <1>3. \A j \in LiveAfter(c) : j \in Of(c) /\ (s = "gone" => j # i)
    BY <1>1, <1>2 DEF LiveAfter, Of, Live
  <1>4. QED
    BY <1>3

(* Up to the state of one client: no step of another client is possible.   *)
LEMMA SerialStep ==
  ASSUME SerialInv, NEW p \in Clients, pc[p] # "idle",
         pc' = [pc EXCEPT ![p] = pc'[p]], UNCHANGED request,
         \A c \in Configs : \A i, j \in LiveAfter(c) : i = j,
         pc'[p] = "create" \/ (pc'[p] = "initialize" /\ target'[p] = None) => LiveAfter(request[p].config) = {},
         pc'[p] = "removeExisting" => target'[p] \in LiveAfter(request[p].config)
  PROVE  AtMostOne' /\ OneAtATime' /\ NoneBeforeCreate'
  <1>1. pc \in [Clients -> Places] /\ \A q \in Clients : q # p => pc[q] = "idle"
    BY ClientFacts DEF SerialInv, OneAtATime
  <1>2. \A q \in Clients : q # p => pc'[q] = "idle"
    BY <1>1
  <1>3. OneAtATime'
    BY <1>2 DEF OneAtATime
  <1>4. AtMostOne'
    BY OfPrimed DEF AtMostOne
  <1>5. NoneBeforeCreate'
    <2>1. ASSUME NEW q \in Clients
          PROVE  /\ pc'[q] = "create" \/ (pc'[q] = "initialize" /\ target'[q] = None) => LiveAfter(request'[q].config) = {}
                 /\ pc'[q] = "removeExisting" => target'[q] \in LiveAfter(request'[q].config)
      BY <1>2
    <2>2. QED
      BY <2>1 DEF NoneBeforeCreate, LiveAfter, Of, Live
  <1>6. QED
    BY <1>3, <1>4, <1>5

(* When all is calm, a step of up keeps one container per configuration    *)
(* and makes one only when there is none.                                  *)
LEMMA SerialUp ==
  ASSUME calm, calm', SerialInv, NEW p \in Clients, Up(p)
  PROVE  AtMostOne' /\ OneAtATime' /\ NoneBeforeCreate'
  <1> DEFINE c0 == request[p].config
  <1>1. /\ containers \in Seq(Containers) /\ Len(containers) \in Nat
        /\ pc \in [Clients -> Places] /\ target \in [Clients -> 0..Len(containers)]
        /\ pc[p] \in UpPlaces /\ request[p].config \in Configs /\ request[p].config # NoConfig
        /\ target[p] # None => target[p] \in 1..Len(containers) /\ containers[target[p]].config = request[p].config
        /\ pc[p] \in AimedPlaces => target[p] # None
    <2>1. pc[p] \in UpPlaces
      BY DEF Up, UpPlaces, List, RemoveExisting, Blocked, StopBlocked, Initialize, Reuse, Create, StartTarget, Inspect
    <2>2. QED
      BY <2>1, ClientFacts, ConfigsAssumption DEF SerialInv
  <1>2. pc[p] # "idle" /\ UNCHANGED request /\ pc' = [pc EXCEPT ![p] = pc'[p]]
    BY <1>1 DEF Up, List, RemoveExisting, Blocked, StopBlocked, Initialize, Reuse, Create, StartTarget, Inspect,
       Goto, End
  <1>3. \A c \in Configs : \A i, j \in Of(c) : i = j
    BY DEF SerialInv, AtMostOne
  <1>4. /\ pc[p] = "create" \/ (pc[p] = "initialize" /\ target[p] = None) => Of(request[p].config) = {}
        /\ pc[p] = "removeExisting" => target[p] \in Of(request[p].config)
    BY DEF SerialInv, NoneBeforeCreate
  <1>5. ASSUME UNCHANGED containers PROVE \A c : LiveAfter(c) = Of(c)
    BY <1>5 DEF LiveAfter, Of, Live
  <1>6. Matching(request[p].config) = Of(request[p].config)
    BY <1>1 DEF Matching
  <1>7. ASSUME Finds(p, request[p].config)
        PROVE  /\ target'[p] # None => target'[p] \in Of(request[p].config)
               /\ target'[p] = None => Of(request[p].config) = {}
    BY <1>1, <1>6, <1>7, FindsProperties
  <1>8. CASE List(p)
    <2>1. Finds(p, request[p].config) /\ UNCHANGED containers
          /\ pc' = [pc EXCEPT ![p] = IF target'[p] # None /\ request[p].remove THEN "removeExisting" ELSE Checks(p)]
      BY <1>8, Zenon DEF List, Goto
    <2>2. pc'[p] = IF target'[p] # None /\ request[p].remove THEN "removeExisting" ELSE Checks(p)
      BY <1>1, <2>1
    <2>3. \A c : LiveAfter(c) = Of(c)
      BY <1>5, <2>1
    <2>4. pc'[p] = "removeExisting" => target'[p] \in LiveAfter(request[p].config)
      BY <1>7, <2>1, <2>2, <2>3 DEF Checks
    <2>5. pc'[p] # "create" /\ (target'[p] = None => LiveAfter(request[p].config) = {})
      BY <1>7, <2>1, <2>2, <2>3 DEF Checks
    <2>6. \A c \in Configs : \A i, j \in LiveAfter(c) : i = j
      BY <1>3, <2>3
    <2>7. QED
      BY <1>2, <2>4, <2>5, <2>6, SerialStep
  <1>9. CASE RemoveExisting(p)
    <2>0. pc[p] = "removeExisting" /\ Becomes(target[p], "gone")
      <3>1. pc[p] = "removeExisting" /\ (Becomes(target[p], "gone") \/ calm' = FALSE)
        BY <1>9 DEF RemoveExisting
      <3>2. QED
        BY <3>1
    <2>1. target[p] \in 1..Len(containers) /\ target[p] \in Of(request[p].config) /\ Becomes(target[p], "gone")
      BY <1>1, <1>4, <2>0 DEF AimedPlaces
    <2>2. \A c : LiveAfter(c) \subseteq Of(c) /\ target[p] \notin LiveAfter(c)
      BY <1>1, <2>1, BecomesOf DEF States
    <2>3. LiveAfter(request[p].config) = {}
      <3>1. \A i \in Of(request[p].config) : i = target[p]
        BY <1>1, <1>3, <2>1
      <3>2. LiveAfter(request[p].config) \subseteq Of(request[p].config) /\ target[p] \notin LiveAfter(request[p].config)
        BY <2>2
      <3>3. QED
        BY <3>1, <3>2
    <2>4. pc'[p] \in {"blocked", "initialize"}
      BY <1>1, <1>9 DEF RemoveExisting, Goto, Checks
    <2>5. QED
      BY <1>2, <1>3, <2>2, <2>3, <2>4, SerialStep
  <1>10. CASE Blocked(p)
    <2>1. UNCHANGED containers /\ pc'[p] \in {"idle", "stopBlocked"}
      BY <1>1, <1>10 DEF Blocked, End, Goto
    <2>2. QED
      BY <1>2, <1>3, <1>5, <2>1, SerialStep
  <1>11. CASE StopBlocked(p) \/ StartTarget(p)
    <2>1. target[p] \in 1..Len(containers) /\ pc'[p] \in {"idle", "inspect"}
      BY <1>1, <1>11 DEF StopBlocked, StartTarget, End, Goto, AimedPlaces
    <2>2. CASE UNCHANGED containers
      BY <1>2, <1>3, <1>5, <2>1, <2>2, SerialStep
    <2>3. CASE ~UNCHANGED containers
      <3>1. PICK s \in States : Becomes(target[p], s)
        BY <1>11, <2>3 DEF StopBlocked, StartTarget, States
      <3>2. containers[target[p]].state # "gone"
        BY <1>11, <2>3 DEF StopBlocked, StartTarget, Running, Live, Gone
      <3>3. \A c : LiveAfter(c) \subseteq Of(c)
        BY <1>1, <2>1, <3>1, <3>2, BecomesOf
      <3>4. QED
        BY <1>2, <1>3, <2>1, <3>3, SerialStep
    <2>4. QED
      BY <2>2, <2>3
  <1>12. CASE Initialize(p)
    <2>1. UNCHANGED <<containers, target>> /\ pc'[p] \in {"idle", "reuse", "create"} /\ pc[p] = "initialize"
          /\ (pc'[p] = "create" => target[p] = None)
      BY <1>1, <1>12 DEF Initialize, End, Goto
    <2>2. QED
      BY <1>2, <1>3, <1>4, <1>5, <2>1, SerialStep
  <1>13. CASE Reuse(p) \/ Inspect(p)
    <2>1. UNCHANGED containers /\ pc'[p] \in {"idle", "inspect", "start"}
      BY <1>1, <1>13 DEF Reuse, Inspect, End, Goto
    <2>2. QED
      BY <1>2, <1>3, <1>5, <2>1, SerialStep
  <1>14. CASE Create(p)
    <2>1. pc'[p] \in {"idle", "start"}
      BY <1>1, <1>14 DEF Create, End, Goto
    <2>2. CASE UNCHANGED containers
      BY <1>2, <1>3, <1>5, <2>1, <2>2, SerialStep
    <2>3. CASE ~UNCHANGED containers
      <3> DEFINE new == [config |-> request[p].config, state |-> "created"]
      <3>1. containers' = Append(containers, new) /\ new \in Containers
        BY <1>1, <1>14, <2>3 DEF Create, Containers, States
      <3>2. /\ Kept /\ Len(containers') = Len(containers) + 1 /\ containers'[Len(containers')] = new
            /\ \A j \in 1..Len(containers) : containers'[j] = containers[j]
        BY <1>1, <3>1, AppendKeeps
      <3>3. DOMAIN containers' = 1..(Len(containers) + 1) /\ DOMAIN containers = 1..Len(containers)
        BY <1>1, <3>2 DEF Kept
      <3>4. Of(request[p].config) = {}
        BY <1>4, <1>14 DEF Create
      <3>5. \A c : \A j \in LiveAfter(c) :
              j \in Of(c) \/ (j = Len(containers) + 1 /\ c = request[p].config)
        <4>1. ASSUME NEW c, NEW j \in LiveAfter(c)
              PROVE  j \in Of(c) \/ (j = Len(containers) + 1 /\ c = request[p].config)
          <5>1. j \in 1..(Len(containers) + 1) /\ containers'[j].state # "gone" /\ containers'[j].config = c
            BY <3>3, <4>1 DEF LiveAfter
          <5>2. CASE j = Len(containers) + 1
            BY <3>2, <5>1, <5>2
          <5>3. CASE j # Len(containers) + 1
            <6>1. j \in 1..Len(containers)
              BY <1>1, <5>1, <5>3
            <6>2. QED
              BY <3>2, <3>3, <5>1, <6>1 DEF Of, Live
          <5>4. QED
            BY <5>2, <5>3
        <4>2. QED
          BY <4>1
      <3>6. \A c \in Configs : \A i, j \in LiveAfter(c) : i = j
        <4>1. ASSUME NEW c \in Configs, NEW i \in LiveAfter(c), NEW j \in LiveAfter(c) PROVE i = j
          BY <1>3, <3>4, <3>5, <4>1
        <4>2. QED
          BY <4>1
      <3>7. QED
        BY <1>2, <2>1, <3>6, SerialStep
    <2>4. QED
      BY <2>2, <2>3
  <1>15. QED
    BY <1>8, <1>9, <1>10, <1>11, <1>12, <1>13, <1>14 DEF Up

(* When all is calm, a step of stop, down or exec does.                    *)
LEMMA SerialStopDownExec ==
  ASSUME SerialInv, NEW p \in Clients, StopDownExec(p)
  PROVE  AtMostOne' /\ OneAtATime' /\ NoneBeforeCreate'
  <1>1. /\ containers \in Seq(Containers) /\ pc \in [Clients -> Places]
        /\ target[p] # None => target[p] \in 1..Len(containers)
        /\ pc[p] \in AimedPlaces => target[p] # None
    BY ClientFacts DEF SerialInv
  <1>2. pc[p] # "idle" /\ UNCHANGED request /\ pc' = [pc EXCEPT ![p] = pc'[p]]
    BY <1>1 DEF StopDownExec, Lookup, LookupFails, LookupFolder, NotFound, StopTarget, RemoveTarget, Enter, Goto, End
  <1>3. pc'[p] \in {"idle", "lookupFolder", "stop", "remove", "enter"}
    BY <1>1 DEF StopDownExec, Lookup, LookupFails, LookupFolder, NotFound, StopTarget, RemoveTarget, Enter, Goto, End,
       AfterLookup
  <1>4. \A c \in Configs : \A i, j \in Of(c) : i = j
    BY DEF SerialInv, AtMostOne
  <1>5. \A c : LiveAfter(c) \subseteq Of(c)
    <2>1. CASE UNCHANGED containers
      BY <2>1 DEF LiveAfter, Of, Live
    <2>2. CASE ~UNCHANGED containers
      <3>1. PICK s \in States : /\ pc[p] \in AimedPlaces /\ Becomes(target[p], s)
                                /\ containers[target[p]].state # "gone" \/ s = "gone"
        BY <2>2 DEF StopDownExec, Lookup, LookupFails, LookupFolder, StopTarget, RemoveTarget, Enter, AimedPlaces,
           States, Gone
      <3>2. target[p] \in 1..Len(containers)
        BY <1>1, <3>1
      <3>3. QED
        BY <1>1, <3>1, <3>2, BecomesOf
    <2>3. QED
      BY <2>1, <2>2
  <1>6. QED
    BY <1>2, <1>3, <1>4, <1>5, SerialStep

(* CalmInv is inductive.                                                   *)
LEMMA CalmInductive == CalmInv /\ [Next]_vars => CalmInv'
  <1> SUFFICES ASSUME CalmInv, [Next]_vars PROVE CalmInv'
    OBVIOUS
  <1>1. IInv /\ IInv'
    BY Inductive DEF CalmInv
  <1>2. pc \in [Clients -> Places] /\ calm \in BOOLEAN
    BY <1>1 DEF IInv, TypeOK, Places
  <1>3. CASE UNCHANGED vars
    <2>1. UNCHANGED <<containers, pc, request, target, calm>>
      BY <1>3 DEF vars
    <2>2. AtMostOne' = AtMostOne /\ OneAtATime' = OneAtATime /\ NoneBeforeCreate' = NoneBeforeCreate
      BY <2>1 DEF AtMostOne, OneAtATime, NoneBeforeCreate, Of, Live
    <2>3. QED
      BY <1>1, <2>1, <2>2, Zenon DEF CalmInv
  <1>4. SUFFICES ASSUME calm', NEW p \in Clients, Begin(p) \/ Up(p) \/ StopDownExec(p) \/ Crash(p)
                 PROVE  AtMostOne' /\ OneAtATime' /\ NoneBeforeCreate'
    BY <1>1, <1>3, Zenon DEF CalmInv, Next, Rest
  <1>5. calm /\ SerialInv
    BY <1>1, <1>2, <1>4, CalmStep, Zenon DEF CalmInv, SerialInv
  <1>6. CASE Begin(p)
    <2>1. PICK r \in Requests :
            pc' = [pc EXCEPT ![p] = IF r.verb = "up" THEN "list"
                                    ELSE IF r.config = NoConfig THEN "lookupFolder" ELSE "lookup"]
      BY <1>6 DEF Begin
    <2>2. UNCHANGED containers /\ \A q \in Clients : pc[q] = "idle"
      BY <1>4, <1>6, Zenon DEF Begin
    <2>3. OneAtATime' /\ \A q \in Clients : pc'[q] \notin {"create", "initialize", "removeExisting"}
      BY <1>2, <2>1, <2>2 DEF OneAtATime
    <2>4. AtMostOne' /\ NoneBeforeCreate'
      BY <1>5, <2>2, <2>3 DEF SerialInv, AtMostOne, NoneBeforeCreate, Of, Live
    <2>5. QED
      BY <2>3, <2>4
  <1>7. CASE Crash(p)
    <2>1. pc' = [pc EXCEPT ![p] = "idle"] /\ UNCHANGED <<containers, request, target>>
      BY <1>7 DEF Crash, End
    <2>2. QED
      BY <1>2, <1>5, <2>1 DEF SerialInv, AtMostOne, OneAtATime, NoneBeforeCreate, Of, Live
  <1>8. CASE Up(p) \/ StopDownExec(p)
    BY <1>4, <1>5, <1>8, SerialUp, SerialStopDownExec, Zenon
  <1>9. QED
    BY <1>4, <1>6, <1>7, <1>8, Zenon

(* CalmInv holds at first.                                                 *)
LEMMA CalmInitial == Init => CalmInv
  <1> SUFFICES ASSUME Init PROVE CalmInv
    OBVIOUS
  <1>1. IInv
    BY InitialIInv
  <1>2. calm = AtMostOne
    BY DEF Init
  <1>3. OneAtATime /\ NoneBeforeCreate
    BY DEF Init, OneAtATime, NoneBeforeCreate
  <1>4. QED
    BY <1>1, <1>2, <1>3, Zenon DEF CalmInv

(* up.go runUp, container_lookup.go: as long as requests do not overlap    *)
(* and lookups and removals answer, ups that crash, fail to build, to      *)
(* start or in their initializeCommand, stops and downs never give a       *)
(* configuration a second container.                                       *)
THEOREM OneContainerPerConfig == Spec => []OnePerConfig
  <1>1. CalmInv => OnePerConfig
    BY Zenon DEF CalmInv, OnePerConfig
  <1>2. QED
    BY <1>1, CalmInitial, CalmInductive, PTL DEF Spec

-----------------------------------------------------------------------------
(* What one client's step has to leave for Held to hold of the client.     *)
LEMMA HeldAfter ==
  ASSUME NEW p \in Clients, UNCHANGED request,
         pc'[p] # "idle" => result'[p] = "none",
         pc'[p] = "enter" => request[p].verb = "exec",
         pc'[p] \in {"reuse", "start", "inspect"} \/ (pc'[p] = "initialize" /\ target'[p] # None)
           => target'[p] \in LiveAfter(request[p].config),
         pc'[p] = "inspect" => containers'[target'[p]].state = "running",
         request[p].verb = "down" /\ request[p].config # NoConfig
           => /\ pc'[p] = "lookupFolder" => LiveAfter(request[p].config) = {}
              /\ pc'[p] \in {"stop", "remove"} => LiveAfter(request[p].config) \subseteq {target'[p]}
  PROVE  Held(p)'
  <1>1. Of(request[p].config)' = LiveAfter(request[p].config)
    BY DEF Of, Live, LiveAfter
  <1>2. pc'[p] = "inspect" => target'[p] \in Running'
    BY DEF Running, Live, LiveAfter
  <1>3. QED
    BY <1>1, <1>2 DEF Held

(* When requests do not overlap, what holds of the client that takes a     *)
(* step holds of all.                                                      *)
LEMMA HeldOthers ==
  ASSUME SerialInv, NEW p \in Clients, pc[p] # "idle", pc' = [pc EXCEPT ![p] = pc'[p]], Held(p)'
  PROVE  \A q \in Clients : Held(q)'
  <1>1. pc \in [Clients -> Places] /\ \A q \in Clients : q # p => pc[q] = "idle"
    BY ClientFacts DEF SerialInv, OneAtATime
  <1>2. ASSUME NEW q \in Clients, q # p PROVE Held(q)'
    BY <1>1, <1>2 DEF Held
  <1>3. QED
    BY <1>2

(* A step of up keeps Held, and reports success only of a container that   *)
(* runs and is the only one of its configuration.                          *)
LEMMA HeldUp ==
  ASSUME calm, calm', SerialInv, NEW p \in Clients, Held(p), Up(p)
  PROVE  /\ Held(p)'
         /\ result'[p] = "ok" => target[p] \in Running /\ Of(request[p].config) = {target[p]}
  <1>1. /\ containers \in Seq(Containers) /\ Len(containers) \in Nat
        /\ pc \in [Clients -> Places] /\ result \in [Clients -> Ends] /\ target \in [Clients -> 0..Len(containers)]
        /\ pc[p] \in UpPlaces /\ request[p].verb = "up"
        /\ request[p].config \in Configs /\ request[p].config # NoConfig
        /\ target[p] # None => target[p] \in 1..Len(containers) /\ containers[target[p]].config = request[p].config
        /\ pc[p] \in AimedPlaces => target[p] # None
    <2>1. pc[p] \in UpPlaces
      BY DEF Up, UpPlaces, List, RemoveExisting, Blocked, StopBlocked, Initialize, Reuse, Create, StartTarget, Inspect
    <2>2. QED
      BY <2>1, ClientFacts, ConfigsAssumption DEF SerialInv
  <1>2. pc[p] # "idle" /\ UNCHANGED request /\ result[p] = "none"
    BY <1>1 DEF Up, List, RemoveExisting, Blocked, StopBlocked, Initialize, Reuse, Create, StartTarget, Inspect, Held
  <1>3. ASSUME UNCHANGED containers PROVE LiveAfter(request[p].config) = Of(request[p].config)
    BY <1>3 DEF LiveAfter, Of, Live
  <1>4. ASSUME NEW w, Goto(p, w) PROVE pc'[p] = w /\ result'[p] = "none"
    BY <1>1, <1>2, <1>4 DEF Goto
  <1>5. ASSUME NEW h, End(p, h) PROVE pc'[p] = "idle" /\ result'[p] = h
    BY <1>1, <1>5 DEF End
  <1>6. ASSUME NEW h \in {"error"}, End(p, h) PROVE Held(p)' /\ result'[p] # "ok"
    BY <1>1, <1>2, <1>5, <1>6, HeldAfter
  <1>7. CASE List(p)
    <2>1. UNCHANGED containers /\ Finds(p, request[p].config)
      BY <1>7 DEF List
    <2>2. target'[p] # None => target'[p] \in LiveAfter(request[p].config)
      <3>1. Matching(request[p].config) = Of(request[p].config)
        BY <1>1 DEF Matching
      <3>2. QED
        BY <1>1, <1>3, <2>1, <3>1, FindsProperties
    <2>3. \E w \in {"blocked", "initialize", "removeExisting"} : Goto(p, w)
      BY <1>7 DEF List, Checks
    <2>4. QED
      BY <1>1, <1>2, <1>4, <2>2, <2>3, HeldAfter
  <1>8. CASE RemoveExisting(p)
    <2>1. target'[p] = None /\ \E w \in {"blocked", "initialize"} : Goto(p, w)
      BY <1>1, <1>8 DEF RemoveExisting, Aim, Checks
    <2>2. QED
      BY <1>1, <1>2, <1>4, <2>1, HeldAfter
  <1>9. CASE Blocked(p)
    <2>1. End(p, "error") \/ Goto(p, "stopBlocked")
      BY <1>9 DEF Blocked
    <2>2. QED
      BY <1>1, <1>2, <1>4, <1>6, <2>1, HeldAfter
  <1>10. CASE StopBlocked(p)
    BY <1>6, <1>10 DEF StopBlocked
  <1>11. CASE Initialize(p)
    <2>1. /\ UNCHANGED <<containers, target>> /\ pc[p] = "initialize"
          /\ (target[p] # None /\ Goto(p, "reuse")) \/ Goto(p, "create") \/ End(p, "error")
      BY <1>11 DEF Initialize
    <2>2. CASE target[p] # None /\ Goto(p, "reuse")
      <3>1. target[p] \in Of(request[p].config)
        BY <2>1, <2>2 DEF Held
      <3>2. QED
        BY <1>1, <1>2, <1>3, <1>4, <2>1, <2>2, <3>1, HeldAfter
    <2>3. CASE Goto(p, "create")
      BY <1>1, <1>2, <1>4, <2>3, HeldAfter
    <2>4. QED
      BY <1>6, <2>1, <2>2, <2>3
  <1>12. CASE Reuse(p)
    <2>1. target[p] \in Of(request[p].config) /\ UNCHANGED <<containers, target>>
      BY <1>12 DEF Reuse, Held
    <2>2. ~Gone(target[p]) /\ target[p] \in Live
      BY <2>1 DEF Of, Live, Gone
    <2>3. (target[p] \in Running /\ Goto(p, "inspect")) \/ Goto(p, "start")
      BY <1>12, <2>2 DEF Reuse
    <2>4. target[p] \in Running => containers'[target[p]].state = "running"
      BY <2>1 DEF Running
    <2>5. QED
      BY <1>1, <1>2, <1>3, <1>4, <2>1, <2>3, <2>4, HeldAfter
  <1>13. CASE Create(p)
    <2>1. CASE End(p, "error")
      BY <1>6, <2>1
    <2>2. CASE ~End(p, "error")
      <3> DEFINE new == [config |-> request[p].config, state |-> "created"]
      <3>1. /\ containers' = Append(containers, new) /\ new \in Containers
            /\ Aim(p, Len(containers')) /\ Goto(p, "start")
        BY <1>1, <1>13, <2>2 DEF Create, Containers, States
      <3>2. Kept /\ Len(containers') = Len(containers) + 1 /\ containers'[Len(containers')] = new
        BY <1>1, <3>1, AppendKeeps
      <3>3. DOMAIN containers' = 1..(Len(containers) + 1)
        BY <1>1, <3>2 DEF Kept
      <3>4. target'[p] = Len(containers) + 1
        BY <1>1, <3>1, <3>2 DEF Aim
      <3>5. target'[p] \in LiveAfter(request[p].config)
        BY <1>1, <3>2, <3>3, <3>4 DEF LiveAfter
      <3>6. pc'[p] = "start" /\ result'[p] = "none"
        BY <1>4, <3>1
      <3>7. QED
        BY <1>1, <1>2, <3>5, <3>6, HeldAfter
    <2>3. QED
      BY <2>1, <2>2
  <1>14. CASE StartTarget(p)
    <2>1. CASE End(p, "error")
      BY <1>6, <2>1
    <2>2. CASE ~End(p, "error")
      <3>1. Becomes(target[p], "running") /\ Goto(p, "inspect") /\ UNCHANGED target
            /\ target[p] \in Of(request[p].config) /\ target[p] \in 1..Len(containers)
        BY <1>1, <1>14, <2>2 DEF StartTarget, Held, AimedPlaces
      <3>2. /\ Kept /\ Len(containers') = Len(containers)
            /\ containers'[target[p]] = [config |-> containers[target[p]].config, state |-> "running"]
        BY <1>1, <3>1, BecomesKeeps DEF States
      <3>3. target[p] \in DOMAIN containers'
        BY <1>1, <3>1, <3>2 DEF Kept
      <3>4. target[p] \in LiveAfter(request[p].config) /\ containers'[target[p]].state = "running"
        BY <1>1, <3>1, <3>2, <3>3 DEF LiveAfter, Of
      <3>5. pc'[p] = "inspect" /\ result'[p] = "none" /\ target'[p] = target[p]
        BY <1>4, <3>1
      <3>6. QED
        BY <1>1, <1>2, <3>4, <3>5, HeldAfter
    <2>3. QED
      BY <2>1, <2>2
  <1>15. CASE Inspect(p)
    <2>1. target[p] \in Of(request[p].config) /\ target[p] \in Running
      BY <1>15 DEF Inspect, Held
    <2>2. Of(request[p].config) = {target[p]}
      BY <1>1, <2>1 DEF SerialInv, AtMostOne
    <2>3. pc'[p] = "idle"
      BY <1>1, <1>15 DEF Inspect, End
    <2>4. QED
      BY <1>1, <1>2, <2>1, <2>2, <2>3, HeldAfter
  <1>16. QED
    BY <1>7, <1>8, <1>9, <1>10, <1>11, <1>12, <1>13, <1>14, <1>15 DEF Up

(* A step of stop, down or exec does, and a down of a configuration        *)
(* reports success only when it has no container left.                     *)
LEMMA HeldStopDownExec ==
  ASSUME calm, calm', SerialInv, NEW p \in Clients, Held(p), StopDownExec(p)
  PROVE  /\ Held(p)'
         /\ request[p].verb = "down" /\ request[p].config # NoConfig /\ result'[p] \in {"ok", "nothing"}
            => LiveAfter(request[p].config) = {}
  <1> DEFINE down == request[p].verb = "down" /\ request[p].config # NoConfig
  <1>1. /\ containers \in Seq(Containers) /\ Len(containers) \in Nat
        /\ pc \in [Clients -> Places] /\ result \in [Clients -> Ends] /\ target \in [Clients -> 0..Len(containers)]
        /\ target[p] # None => target[p] \in 1..Len(containers)
        /\ pc[p] \in AimedPlaces => target[p] # None
        /\ request[p].config \in Configs \cup {NoConfig}
    BY ClientFacts DEF SerialInv, Request
  <1>2. pc[p] # "idle" /\ UNCHANGED request /\ result[p] = "none"
    BY DEF StopDownExec, Lookup, LookupFails, LookupFolder, StopTarget, RemoveTarget, Enter, Held
  <1>3. ASSUME UNCHANGED containers PROVE LiveAfter(request[p].config) = Of(request[p].config)
    BY <1>3 DEF LiveAfter, Of, Live
  <1>4. ASSUME NEW w, Goto(p, w) PROVE pc'[p] = w /\ result'[p] = "none"
    BY <1>1, <1>2, <1>4 DEF Goto
  <1>5. ASSUME NEW h, End(p, h) PROVE pc'[p] = "idle" /\ result'[p] = h
    BY <1>1, <1>5 DEF End
  <1>6. ASSUME NEW h, End(p, h) PROVE Held(p)'
    BY <1>2, <1>5, <1>6, HeldAfter
  <1>7. down => /\ request[p].config \in Configs
                /\ Matching(request[p].config) = Of(request[p].config)
                /\ \A i, j \in Of(request[p].config) : i = j
    BY <1>1 DEF Matching, SerialInv, AtMostOne
  <1>8. AfterLookup(p) \in {"enter", "stop"} /\ (AfterLookup(p) = "enter" => request[p].verb = "exec")
    BY DEF AfterLookup
  <1>9. CASE Lookup(p)
    <2>1. UNCHANGED containers /\ Finds(p, request[p].config)
          /\ Goto(p, IF target'[p] = None THEN "lookupFolder" ELSE AfterLookup(p))
      BY <1>9 DEF Lookup
    <2>2. pc'[p] = (IF target'[p] = None THEN "lookupFolder" ELSE AfterLookup(p)) /\ result'[p] = "none"
      BY <1>4, <2>1
    <2>3. /\ target'[p] # None => target'[p] \in Matching(request[p].config)
          /\ target'[p] = None => Matching(request[p].config) = {}
      BY <1>1, <2>1, FindsProperties
    <2>4. down /\ target'[p] # None => Of(request[p].config) \subseteq {target'[p]}
      BY <1>7, <2>3
    <2>5. down /\ target'[p] = None => Of(request[p].config) = {}
      BY <1>7, <2>3
    <2>6. Held(p)'
      BY <1>2, <1>3, <1>8, <2>1, <2>2, <2>4, <2>5, HeldAfter
    <2>7. QED
      BY <2>2, <2>6
  <1>10. CASE LookupFails(p)
    BY <1>10 DEF LookupFails
  <1>11. CASE LookupFolder(p)
    <2>1. UNCHANGED containers /\ pc[p] = "lookupFolder"
      BY <1>11 DEF LookupFolder
    <2>2. down => LiveAfter(request[p].config) = {}
      BY <1>3, <2>1 DEF Held
    <2>3. CASE NotFound(p)
      BY <1>6, <2>2, <2>3 DEF NotFound
    <2>4. CASE Goto(p, AfterLookup(p))
      <3>1. pc'[p] = AfterLookup(p) /\ result'[p] = "none"
        BY <1>4, <2>4
      <3>2. Held(p)'
        BY <1>2, <1>8, <2>2, <3>1, HeldAfter
      <3>3. QED
        BY <3>1, <3>2
    <2>5. QED
      BY <1>11, <2>3, <2>4 DEF LookupFolder
  <1>12. CASE StopTarget(p)
    <2>1. pc[p] = "stop" /\ UNCHANGED target /\ target[p] \in 1..Len(containers)
      BY <1>1, <1>12 DEF StopTarget, AimedPlaces
    <2>2. LiveAfter(request[p].config) \subseteq Of(request[p].config)
      <3>1. CASE UNCHANGED containers
        BY <1>3, <3>1
      <3>2. CASE ~Gone(target[p]) /\ Becomes(target[p], "exited")
        BY <1>1, <2>1, <3>2, BecomesOf DEF Gone, States
      <3>3. QED
        BY <1>12, <3>1, <3>2 DEF StopTarget
    <2>3. CASE request[p].verb = "down" /\ Goto(p, "remove")
      <3>1. pc'[p] = "remove" /\ result'[p] = "none"
        BY <1>4, <2>3
      <3>2. down => LiveAfter(request[p].config) \subseteq {target'[p]}
        BY <2>1, <2>2 DEF Held
      <3>3. Held(p)'
        BY <1>2, <3>1, <3>2, HeldAfter
      <3>4. QED
        BY <3>1, <3>3
    <2>4. CASE End(p, "error") \/ (request[p].verb # "down" /\ End(p, "ok"))
      BY <1>5, <1>6, <2>4
    <2>5. QED
      BY <1>12, <2>3, <2>4 DEF StopTarget
  <1>13. CASE RemoveTarget(p)
    <2>1. CASE Becomes(target[p], "gone") /\ End(p, "ok")
      <3>1. target[p] \in 1..Len(containers) /\ pc[p] = "remove"
        BY <1>1, <1>13 DEF RemoveTarget, AimedPlaces
      <3>2. LiveAfter(request[p].config) \subseteq Of(request[p].config) \ {target[p]}
        BY <1>1, <2>1, <3>1, BecomesOf DEF States
      <3>3. down => LiveAfter(request[p].config) = {}
        BY <3>1, <3>2 DEF Held
      <3>4. QED
        BY <1>6, <2>1, <3>3
    <2>2. CASE End(p, "error")
      BY <1>5, <1>6, <2>2
    <2>3. QED
      BY <1>13, <2>1, <2>2 DEF RemoveTarget
  <1>14. CASE Enter(p)
    <2>1. request[p].verb = "exec" /\ (End(p, "ok") \/ End(p, "error"))
      BY <1>14 DEF Enter, Held
    <2>2. QED
      BY <1>6, <2>1
  <1>15. QED
    BY <1>9, <1>10, <1>11, <1>12, <1>13, <1>14 DEF StopDownExec

(* While all is calm, the one client that takes a step is the only one     *)
(* with a request, and what a step says it found before is true.           *)
LEMMA CalmBefore ==
  ASSUME HeldInv, calm', NEW q \in Clients, Begin(q) \/ Up(q) \/ StopDownExec(q) \/ Crash(q)
  PROVE  calm /\ SerialInv /\ \A p \in Clients : Held(p)
  <1>1. IInv /\ calm \in BOOLEAN
    BY DEF HeldInv, CalmInv, IInv, TypeOK
  <1>2. calm
    BY <1>1, CalmStep
  <1>3. QED
    BY <1>1, <1>2, Zenon DEF HeldInv, CalmInv, SerialInv

(* A step of Begin leaves Held to every client.                            *)
LEMMA HeldBegin ==
  ASSUME IInv, calm', NEW q \in Clients, Begin(q)
  PROVE  \A p \in Clients : Held(p)'
  <1>1. PICK r \in Requests :
          /\ request' = [request EXCEPT ![q] = r]
          /\ pc' = [pc EXCEPT ![q] = IF r.verb = "up" THEN "list"
                                     ELSE IF r.config = NoConfig THEN "lookupFolder" ELSE "lookup"]
    BY DEF Begin
  <1>2. result' = [result EXCEPT ![q] = "none"] /\ \A p \in Clients : pc[p] = "idle"
    BY Zenon DEF Begin
  <1>3. /\ pc \in [Clients -> Places] /\ request \in [Clients -> Requests] /\ result \in [Clients -> Ends]
    BY DEF IInv, TypeOK, Places, Ends
  <1>4. \A p \in Clients :
          /\ pc'[p] \in {"idle", "list", "lookup", "lookupFolder"}
          /\ pc'[p] # "idle" => result'[p] = "none"
          /\ pc'[p] = "lookupFolder" => request'[p].config = NoConfig
    BY <1>1, <1>2, <1>3
  <1>5. QED
    BY <1>4 DEF Held

(* HeldInv is inductive.                                                   *)
LEMMA HeldInductive == HeldInv /\ [Next]_vars => HeldInv'
  <1> SUFFICES ASSUME HeldInv, [Next]_vars PROVE HeldInv'
    OBVIOUS
  <1>1. IInv /\ CalmInv'
    BY CalmInductive DEF HeldInv, CalmInv
  <1>2. CASE UNCHANGED vars
    <2>1. calm' = calm /\ \A p \in Clients : Held(p)' = Held(p)
      BY <1>2 DEF vars, Held, Of, Live, Running
    <2>2. QED
      BY <1>1, <2>1 DEF HeldInv
  <1>3. SUFFICES ASSUME calm', NEW q \in Clients, Begin(q) \/ Up(q) \/ StopDownExec(q) \/ Crash(q)
                 PROVE  \A p \in Clients : Held(p)'
    BY <1>1, <1>2, Zenon DEF HeldInv, Next, Rest
  <1>4. calm /\ SerialInv /\ Held(q)
    BY <1>3, CalmBefore
  <1>5. pc \in [Clients -> Places] /\ result \in [Clients -> Ends]
    BY <1>1 DEF IInv, TypeOK, Places, Ends
  <1>6. CASE Begin(q)
    BY <1>1, <1>3, <1>6, HeldBegin
  <1>7. CASE Up(q)
    <2>1. Held(q)'
      BY <1>3, <1>4, <1>7, HeldUp
    <2>2. pc[q] # "idle" /\ pc' = [pc EXCEPT ![q] = pc'[q]]
      BY <1>5, <1>7 DEF Up, List, RemoveExisting, Blocked, StopBlocked, Initialize, Reuse, Create, StartTarget,
         Inspect, Goto, End
    <2>3. QED
      BY <1>4, <2>1, <2>2, HeldOthers
  <1>8. CASE StopDownExec(q)
    <2>1. Held(q)'
      BY <1>3, <1>4, <1>8, HeldStopDownExec
    <2>2. pc[q] # "idle" /\ pc' = [pc EXCEPT ![q] = pc'[q]]
      BY <1>5, <1>8 DEF StopDownExec, Lookup, LookupFails, LookupFolder, NotFound, StopTarget, RemoveTarget, Enter,
         Goto, End
    <2>3. QED
      BY <1>4, <2>1, <2>2, HeldOthers
  <1>9. CASE Crash(q)
    <2>1. pc[q] # "idle" /\ pc' = [pc EXCEPT ![q] = "idle"]
      BY <1>9 DEF Crash, End
    <2>2. pc'[q] = "idle"
      BY <1>5, <2>1
    <2>3. Held(q)'
      BY <2>2 DEF Held
    <2>4. QED
      BY <1>4, <2>1, <2>2, <2>3, HeldOthers
  <1>10. QED
    BY <1>3, <1>6, <1>7, <1>8, <1>9

(* HeldInv holds of every reachable state.                                 *)
LEMMA HeldInvariant == Spec => []HeldInv
  <1>1. Init => HeldInv
    <2>1. Init => \A p \in Clients : Held(p)
      BY DEF Init, Held
    <2>2. QED
      BY <2>1, CalmInitial DEF HeldInv
  <1>2. QED
    BY <1>1, HeldInductive, PTL DEF Spec

(* The step in which a calm request ends well is one of its own client.    *)
LEMMA EndsItself ==
  ASSUME HeldInv, [Next]_vars, calm', NEW p \in Clients,
         pc[p] # "idle", result'[p] \in {"ok", "nothing"}
  PROVE  calm /\ SerialInv /\ Held(p) /\ (Up(p) \/ StopDownExec(p))
  <1>1. IInv /\ calm \in BOOLEAN
    BY DEF HeldInv, CalmInv, IInv, TypeOK
  <1>2. pc \in [Clients -> Places] /\ result \in [Clients -> Ends]
    BY <1>1 DEF IInv, TypeOK, Places, Ends
  <1>3. ~UNCHANGED vars
    <2>1. SUFFICES ASSUME UNCHANGED vars PROVE FALSE
      OBVIOUS
    <2>2. calm /\ result'[p] = result[p]
      BY <2>1 DEF vars
    <2>3. result[p] = "none"
      BY <2>2 DEF HeldInv, Held
    <2>4. QED
      BY <2>2, <2>3
  <1>4. PICK q \in Clients : Begin(q) \/ Up(q) \/ StopDownExec(q) \/ Crash(q)
    BY <1>3, Zenon DEF Next, Rest
  <1>5. calm /\ SerialInv /\ Held(p)
    BY <1>4, CalmBefore
  <1>6. ~Begin(q)
    <2>1. SUFFICES ASSUME Begin(q) PROVE FALSE
      OBVIOUS
    <2>2. \A c \in Clients : pc[c] = "idle"
      BY <2>1, Zenon DEF Begin
    <2>3. QED
      BY <2>2
  <1>7. pc[q] # "idle"
    BY <1>4, <1>6 DEF Up, List, RemoveExisting, Blocked, StopBlocked, Initialize, Reuse, Create, StartTarget, Inspect,
       StopDownExec, Lookup, LookupFails, LookupFolder, StopTarget, RemoveTarget, Enter, Crash
  <1>8. p = q
    BY <1>5, <1>7 DEF SerialInv, OneAtATime
  <1>9. ~Crash(p)
    BY <1>2 DEF Crash, End
  <1>10. QED
    BY <1>4, <1>5, <1>6, <1>8, <1>9

(* up.go runUp, runContainer: when requests do not overlap and lookups,    *)
(* removals and stops answer, the container an up reports runs and is the  *)
(* only one of its configuration, whatever crashed or failed before.       *)
THEOREM UpReportsTheOneRunning == Spec => UpReportsRunning
  <1>1. ASSUME HeldInv, [Next]_vars, NEW p \in Clients,
               calm', request[p].verb = "up", pc[p] # "idle", result'[p] = "ok"
        PROVE  target[p] \in Running /\ Of(request[p].config) = {target[p]}
    <2>1. calm /\ SerialInv /\ Held(p) /\ (Up(p) \/ StopDownExec(p))
      BY <1>1, EndsItself
    <2>2. pc[p] \in UpPlaces
      BY <1>1, <2>1, ClientFacts DEF SerialInv
    <2>3. ~StopDownExec(p)
      BY <2>2 DEF StopDownExec, Lookup, LookupFails, LookupFolder, StopTarget, RemoveTarget, Enter, UpPlaces
    <2>4. QED
      BY <1>1, <2>1, <2>3, HeldUp
  <1>2. HeldInv /\ [Next]_vars => [\A p \in Clients :
           calm' /\ request[p].verb = "up" /\ pc[p] # "idle" /\ result'[p] = "ok"
             => target[p] \in Running /\ Of(request[p].config) = {target[p]}]_vars
    BY <1>1
  <1>3. QED
    BY <1>2, HeldInvariant, PTL DEF Spec, UpReportsRunning

(* stop.go runStopOrDown: when requests do not overlap and lookups answer, *)
(* a down of a configuration that reports success leaves it without a      *)
(* container.                                                              *)
THEOREM DownRemovesAll == Spec => DownLeavesNothing
  <1>1. ASSUME HeldInv, [Next]_vars, NEW p \in Clients,
               calm', request[p].verb = "down", request[p].config # NoConfig,
               pc[p] # "idle", result'[p] \in {"ok", "nothing"}
        PROVE  Of(request[p].config)' = {}
    <2>1. calm /\ SerialInv /\ Held(p) /\ (Up(p) \/ StopDownExec(p))
      BY <1>1, EndsItself
    <2>2. pc[p] \notin UpPlaces
      BY <1>1, <2>1, ClientFacts DEF SerialInv
    <2>3. ~Up(p)
      BY <2>2 DEF Up, List, RemoveExisting, Blocked, StopBlocked, Initialize, Reuse, Create, StartTarget, Inspect,
         UpPlaces
    <2>4. LiveAfter(request[p].config) = {} /\ UNCHANGED request
      BY <1>1, <2>1, <2>3, HeldStopDownExec DEF StopDownExec, Lookup, LookupFails, LookupFolder, StopTarget,
         RemoveTarget, Enter
    <2>5. QED
      BY <2>4 DEF Of, Live, LiveAfter
  <1>2. HeldInv /\ [Next]_vars => [\A p \in Clients :
           /\ calm' /\ request[p].verb = "down" /\ request[p].config # NoConfig
           /\ pc[p] # "idle" /\ result'[p] \in {"ok", "nothing"}
           => Of(request[p].config)' = {}]_vars
    BY <1>1
  <1>3. QED
    BY <1>2, HeldInvariant, PTL DEF Spec, DownLeavesNothing

-----------------------------------------------------------------------------
(***************************************************************************)
(* ImageBuild: what a tag holds at each step of a command, and what a      *)
(* finished build leaves under --image-name for a later --cache-image.     *)
(***************************************************************************)
Base(w) == setup[w].base

(* The names an image has on the way: before the Features, and after.      *)
FirstNames(w) == {<<Base(w)>>, <<w>>, <<w, "given">>}
LastNames(w)  == FirstNames(w) \cup {<<Base(w), "features">>, <<w, "features">>}
UidNames(w)   == {<<w, "uid">>, <<w, "given", "uid">>, <<w, "features", "uid">>}

(* A name with a suffix.                                                   *)
LEMMA SuffixOne ==
  ASSUME NEW T, NEW a \in T, NEW s \in T
  PROVE  Append(<<a>>, s) = <<a, s>>
  <1> DEFINE l == Append(<<a>>, s)
             r == <<a, s>>
  <1>1. <<a>> \in Seq(T) /\ Len(<<a>>) = 1 /\ <<a>>[1] = a
    OBVIOUS
  <1>2. l \in Seq(T) /\ Len(l) = 2 /\ l[1] = a /\ l[2] = s
    BY <1>1, AppendProperties
  <1>3. r \in Seq(T) /\ Len(r) = 2 /\ r[1] = a /\ r[2] = s
    OBVIOUS
  <1> HIDE DEF l, r
  <1>4. \A i \in 1..Len(l) : l[i] = r[i]
    BY <1>2, <1>3
  <1>5. l = r
    BY <1>2, <1>3, <1>4, SeqEqual
  <1> QED BY <1>5 DEF l, r

LEMMA SuffixTwo ==
  ASSUME NEW T, NEW a \in T, NEW b \in T, NEW s \in T
  PROVE  Append(<<a, b>>, s) = <<a, b, s>>
  <1> DEFINE l == Append(<<a, b>>, s)
             r == <<a, b, s>>
  <1>1. <<a, b>> \in Seq(T) /\ Len(<<a, b>>) = 2 /\ <<a, b>>[1] = a /\ <<a, b>>[2] = b
    OBVIOUS
  <1>2. l \in Seq(T) /\ Len(l) = 3 /\ l[1] = a /\ l[2] = b /\ l[3] = s
    BY <1>1, AppendProperties
  <1>3. r \in Seq(T) /\ Len(r) = 3 /\ r[1] = a /\ r[2] = b /\ r[3] = s
    OBVIOUS
  <1> HIDE DEF l, r
  <1>4. \A i \in 1..Len(l) : l[i] = r[i]
    BY <1>2, <1>3
  <1>5. l = r
    BY <1>2, <1>3, <1>4, SeqEqual
  <1> QED BY <1>5 DEF l, r

(* The tags are in the map of the daemon.                                  *)
LEMMA NamesThere ==
  ASSUME NEW w \in Workspaces, setup \in [Workspaces -> ConfSpace]
  PROVE  /\ LastNames(w) \cup UidNames(w) \cup {ContentName} \subseteq AllNames
         /\ Given(w) = <<w, "given">> /\ WithFeatures(<<w>>) = <<w, "features">>
         /\ WithFeatures(<<Base(w)>>) = <<Base(w), "features">>
<1> DEFINE B == Base(w)
           T == {w, B, "given", "features", "uid"}
<1>1. B \in Bases
  BY DEF ConfSpace, Base
<1>2. w \in T /\ B \in T /\ "given" \in T /\ "features" \in T /\ "uid" \in T
  OBVIOUS
<1> HIDE DEF T, B
<1>3. /\ Append(<<w>>, "features") = <<w, "features">> /\ Append(<<B>>, "features") = <<B, "features">>
      /\ Append(<<w>>, "uid") = <<w, "uid">> /\ Append(<<w, "given">>, "uid") = <<w, "given", "uid">>
      /\ Append(<<w, "features">>, "uid") = <<w, "features", "uid">>
  BY <1>2, SuffixOne, SuffixTwo
<1>4. <<B>> \in Names /\ <<w>> \in Names /\ <<w, "given">> \in Names /\ ContentName \in Names
  BY <1>1 DEF Names, Given
<1>5. \A n \in Names : n \in AllNames /\ Append(n, "features") \in AllNames /\ Append(n, "uid") \in AllNames
                       /\ Append(WithFeatures(n), "uid") \in AllNames
  BY DEF AllNames
<1>6. /\ <<B>> \in AllNames /\ <<w>> \in AllNames /\ <<w, "given">> \in AllNames /\ ContentName \in AllNames
      /\ <<B, "features">> \in AllNames /\ <<w, "features">> \in AllNames
      /\ <<w, "uid">> \in AllNames /\ <<w, "given", "uid">> \in AllNames /\ <<w, "features", "uid">> \in AllNames
  BY <1>3, <1>4, <1>5 DEF WithFeatures
<1> QED BY <1>3, <1>6 DEF B, LastNames, FirstNames, UidNames, WithFeatures, Given

(* Which tags are no other than they seem.                                 *)
LEMMA NamesApart ==
  ASSUME NEW w \in Workspaces, NEW v \in Workspaces, setup \in [Workspaces -> ConfSpace]
  PROVE  /\ ContentName \notin LastNames(w)
         /\ \A n \in LastNames(w) \cup UidNames(w) \cup {ContentName} :
              n = Given(v) => w = v /\ n = <<w, "given">>
<1>1. Base(w) \in Bases
  BY DEF ConfSpace, Base
<1>2. ContentTag # w /\ ContentTag # Base(w)
  BY <1>1, NamesAssumption
<1>3. ContentName \notin LastNames(w)
  BY <1>2 DEF ContentName, LastNames, FirstNames
<1>4. \A n \in LastNames(w) \cup UidNames(w) \cup {ContentName} :
        n = <<v, "given">> => w = v /\ n = <<w, "given">>
  BY <1>2 DEF ContentName, LastNames, FirstNames, UidNames
<1> QED BY <1>3, <1>4 DEF Given

(* The tag of the UID build.                                               *)
LEMMA UidTagIs ==
  ASSUME NEW w \in Workspaces, NEW n \in LastNames(w)
  PROVE  UidTag(w, n) \in UidNames(w)
<1> DEFINE B == Base(w)
           T == {w, B, "given", "features", "uid"}
<1>1. w \in T /\ "given" \in T /\ "features" \in T /\ "uid" \in T
  OBVIOUS
<1> HIDE DEF T, B
<1>2. /\ Append(<<w>>, "uid") = <<w, "uid">> /\ Append(<<w, "given">>, "uid") = <<w, "given", "uid">>
      /\ Append(<<w, "features">>, "uid") = <<w, "features", "uid">>
  BY <1>1, SuffixOne, SuffixTwo
<1>3. n \in {<<B>>, <<w>>, <<w, "given">>, <<B, "features">>, <<w, "features">>}
  BY DEF B, LastNames, FirstNames
<1>4. n[1] = w => n \in {<<w>>, <<w, "given">>, <<w, "features">>}
  BY <1>3
<1> QED BY <1>2, <1>4 DEF UidTag, UidNames

LEMMA NotEmpty ==
  ASSUME NEW S, NEW s \in Seq(S), NEW t \in Seq(S), Len(t) = 1
  PROVE  s \o t \in Seq(S) /\ s \o t # <<>>
<1>1. s \o t \in Seq(S) /\ t # <<>>
  BY ConcatProperties
<1> QED BY <1>1, ConcatEqualIffEmpty

(* The entries of a configuration are sequences.                           *)
EntryWords ==
  {<<"absent">>, <<"base">>} \cup {<<k, w>> : k \in {"stage", "feature", "config"}, w \in Workspaces}
LEMMA EntriesAre ==
  ASSUME NEW w \in Workspaces
  PROVE  /\ BaseEntries(Base(w)) \in Seq(EntryWords) /\ OwnLabel(w) \in Seq(EntryWords)
         /\ Features(w) \in Seq(EntryWords) /\ Config(w) \in Seq(EntryWords) /\ Len(Config(w)) = 1
         /\ Below(w) \in Seq(EntryWords) /\ Expected(w) \in Seq(EntryWords) /\ Expected(w) # <<>>
         /\ Below(w) = BaseEntries(Base(w)) \o OwnLabel(w)
         /\ Expected(w) = (Below(w) \o Features(w)) \o Config(w)
<1>1. /\ <<"base">> \in EntryWords /\ <<"stage", w>> \in EntryWords /\ <<"feature", w>> \in EntryWords
      /\ <<"config", w>> \in EntryWords
  BY DEF EntryWords
<1>2. <<>> \in Seq(EntryWords) /\ \A x \in EntryWords : <<x>> \in Seq(EntryWords) /\ Len(<<x>>) = 1
  OBVIOUS
<1>3. BaseEntries(Base(w)) \in Seq(EntryWords)
  BY <1>1, <1>2 DEF BaseEntries
<1>4. OwnLabel(w) \in Seq(EntryWords) /\ Features(w) \in Seq(EntryWords)
  BY <1>1, <1>2 DEF OwnLabel, Features
<1>5. Config(w) \in Seq(EntryWords) /\ Len(Config(w)) = 1
  BY <1>1, <1>2 DEF Config
<1>6. Below(w) = BaseEntries(Base(w)) \o OwnLabel(w) /\ Below(w) \in Seq(EntryWords)
  BY <1>3, <1>4, ConcatProperties DEF Below, Base
<1>7. Below(w) \o Features(w) \in Seq(EntryWords)
  BY <1>4, <1>6, ConcatProperties
<1>8. /\ (Below(w) \o Features(w)) \o Config(w) \in Seq(EntryWords)
      /\ (Below(w) \o Features(w)) \o Config(w) # <<>>
  BY <1>5, <1>7, NotEmpty
<1> QED BY <1>3, <1>4, <1>5, <1>6, <1>8 DEF Expected

(* What ends in the entry of the configuration.                            *)
LEMMA EndsInOwn ==
  ASSUME NEW w \in Workspaces, NEW s \in Seq(EntryWords)
  PROVE  s \o Config(w) \in Seq(EntryWords) /\ EndsIn(s \o Config(w), w)
<1>1. Config(w) \in Seq(EntryWords) /\ Len(Config(w)) = 1 /\ Config(w)[1] = <<"config", w>>
  BY EntriesAre DEF Config
<1>2. /\ s \o Config(w) \in Seq(EntryWords) /\ s \o Config(w) # <<>>
      /\ Len(s \o Config(w)) = Len(s) + 1 /\ Len(s) \in Nat
  BY <1>1, ConcatProperties, NotEmpty
<1>3. (s \o Config(w))[Len(s) + 1] = Config(w)[1]
  BY <1>1, <1>2, ConcatProperties
<1> QED BY <1>1, <1>2, <1>3 DEF EndsIn

(* Who knows less expects less.                                            *)
LEMMA Weaker ==
  ASSUME NEW e, NEW w, NEW a, NEW b, Describes(e, w, a), b => a
  PROVE  Describes(e, w, b)
BY DEF Describes

(* The entries of a build on the way, once its Features are in or without. *)
LEMMA EntriesDescribe ==
  ASSUME NEW w \in Workspaces
  PROVE  /\ \A informed : Describes((Below(w) \o Features(w)) \o Config(w), w, informed)
         /\ ~setup[w].features => \A informed : Describes(Below(w) \o Config(w), w, informed)
         /\ \A s \in Seq(EntryWords) : \A informed :
              ~informed => Describes((s \o Features(w)) \o Config(w), w, informed) /\ Describes(s \o Config(w), w, informed)
<1>1. \A informed : Describes((Below(w) \o Features(w)) \o Config(w), w, informed)
  BY EntriesAre DEF Describes
<1>2. ASSUME ~setup[w].features PROVE \A informed : Describes(Below(w) \o Config(w), w, informed)
  <2>1. Below(w) \o Features(w) = Below(w)
    BY <1>2, EntriesAre, ConcatEmptySeq DEF Features
  <2> QED BY <1>1, <2>1
<1>3. ASSUME NEW s \in Seq(EntryWords), NEW informed, ~informed
      PROVE  Describes((s \o Features(w)) \o Config(w), w, informed) /\ Describes(s \o Config(w), w, informed)
  <2>1. s \o Features(w) \in Seq(EntryWords)
    BY EntriesAre, ConcatProperties
  <2> QED BY <1>3, <2>1, EndsInOwn DEF Describes
<1> QED BY <1>1, <1>2, <1>3

(* An image on the way of w without the Features: what it is built on, of  *)
(* which, when that was not read, the label of its Dockerfile may be left. *)
BareFor(i, w, informed) ==
  /\ i.entries = Below(w) \/ (~informed /\ i.entries = OwnLabel(w))
  /\ i.features = Nobody /\ i.uid = FALSE

LEMMA BareDescribes ==
  ASSUME NEW w \in Workspaces, NEW i, NEW informed, BareFor(i, w, informed)
  PROVE  /\ i.entries \in Seq(EntryWords)
         /\ Describes((i.entries \o Features(w)) \o Config(w), w, informed)
         /\ ~setup[w].features => Describes(i.entries \o Config(w), w, informed) /\ HasFeaturesOf(i, w)
<1>1. CASE i.entries = Below(w)
  BY <1>1, EntriesAre, EntriesDescribe DEF BareFor, HasFeaturesOf
<1>2. CASE ~informed /\ i.entries = OwnLabel(w)
  BY <1>2, EntriesAre, EntriesDescribe DEF BareFor, HasFeaturesOf
<1> QED BY <1>1, <1>2 DEF BareFor

(* The base itself, of an image configuration.                             *)
LEMMA BaseIsBare ==
  ASSUME NEW w \in Workspaces, ~setup[w].dockerfile
  PROVE  \A informed : BareFor(FromBase(Base(w)), w, informed)
<1>1. Below(w) = BaseEntries(Base(w))
  BY EntriesAre, ConcatEmptySeq DEF OwnLabel
<1> QED BY <1>1 DEF BareFor, FromBase

(* What the build of a Dockerfile puts on its image.                       *)
LEMMA StageIs ==
  ASSUME NEW w \in Workspaces, NEW i, i.features = Nobody, i.uid = FALSE,
         i.entries = IF StageEntries(w) = <<>> THEN BaseEntries(Base(w)) ELSE StageEntries(w)
  PROVE  /\ i.entries \in Seq(EntryWords)
         /\ setup[w].features => BareFor(i, w, command[w].informed)
         /\ ~setup[w].features => Describes(i.entries, w, command[w].informed) /\ HasFeaturesOf(i, w)
<1> DEFINE X == IF command[w].informed THEN Below(w) ELSE OwnLabel(w)
<1>1. X \in Seq(EntryWords) /\ X \o <<>> = X
  BY EntriesAre, ConcatEmptySeq
<1>2. StageEntries(w) = X \o (IF setup[w].features THEN <<>> ELSE Config(w))
  BY DEF StageEntries
<1>3. X = <<>> => BaseEntries(Base(w)) = Below(w)
  <2>1. CASE OwnLabel(w) = <<>>
    BY <2>1, EntriesAre, ConcatEmptySeq
  <2>2. CASE OwnLabel(w) # <<>>
    <3>1. Below(w) # <<>>
      BY <2>2, EntriesAre, ConcatEqualIffEmpty
    <3> QED BY <2>2, <3>1
  <2> QED BY <2>1, <2>2
<1>4. CASE setup[w].features
  <2>1. StageEntries(w) = X
    BY <1>1, <1>2, <1>4
  <2> QED BY <1>1, <1>3, <1>4, <2>1, EntriesAre DEF BareFor
<1>5. CASE ~setup[w].features
  <2>1. StageEntries(w) = X \o Config(w)
    BY <1>2, <1>5
  <2> HIDE DEF X
  <2>2. X \o Config(w) \in Seq(EntryWords) /\ X \o Config(w) # <<>>
    BY <1>1, EntriesAre, NotEmpty
  <2>3. i.entries = X \o Config(w)
    BY <2>1, <2>2
  <2>4. Describes(i.entries, w, command[w].informed)
    <3>1. CASE command[w].informed
      BY <1>5, <2>3, <3>1, EntriesDescribe DEF X
    <3>2. CASE ~command[w].informed
      BY <1>1, <2>3, <3>2, EntriesDescribe
    <3> QED BY <3>1, <3>2
  <2> QED BY <1>5, <2>2, <2>3, <2>4 DEF HasFeaturesOf
<1> QED BY <1>4, <1>5

CommandFields == {"pc", "verb", "named", "push", "output", "buildx", "cached", "name", "informed", "last"}
Whole(i) == i = [entries |-> i.entries, features |-> i.features, uid |-> i.uid] /\ i.entries \in Seq(EntryWords)

(* The daemon and the commands; one command is under way.                  *)
DaemonInv ==
  /\ setup \in [Workspaces -> ConfSpace]
  /\ DOMAIN images = AllNames /\ \A n \in AllNames : Whole(images[n])
  /\ DOMAIN command = Workspaces /\ \A w \in Workspaces : DOMAIN command[w] = CommandFields
  /\ DOMAIN box = Workspaces
  /\ \A v, w \in Workspaces : v = w \/ Over(command[v]) \/ Over(command[w])

(* An image built for w, for a user whose ids are not yet the host's.      *)
BuiltFor(i, w, informed) == Describes(i.entries, w, informed) /\ HasFeaturesOf(i, w) /\ i.uid = FALSE

(* A build under --image-name that stayed in the daemon is still there.    *)
KeptBuild(w) ==
  command[w].last \in {"done", "blind"} => BuiltFor(images[Given(w)], w, command[w].last = "done")

(* What is pushed under the name of --image-name is a build of its         *)
(* workspace.                                                              *)
Pushed ==
  \A e \in exported, v \in Workspaces :
    e.at = Given(v) => Whole(e.image) /\ BuiltFor(e.image, v, e.informed)

(* What runContainer will read back when it sees the labels, and when it   *)
(* has to be the configuration's.                                          *)
Trusted(w)  == command[w].cached => command[w].last \in {"done", "blind"}
ReadBack(w) ==
  IF ConfigInImage(w, TRUE) THEN images[command[w].name].entries ELSE images[command[w].name].entries \o Config(w)

(* What the flags allow, what the image so far is, and what is built.      *)
FlagsInv(w) ==
  LET c == command[w] IN
  /\ c.named => c.last \notin {"done", "blind"}
  /\ c.verb = "up" => ~c.named /\ ~c.push /\ ~c.output
  /\ c.cached => c.verb = "up"
  /\ c.pc \notin {"base", "uid", "run"} => ~c.cached
FirstInv(w) ==
  LET c == command[w] IN
  /\ c.pc = "dockerfile" => setup[w].dockerfile
  /\ c.pc \in {"content", "features"} => setup[w].features
  /\ c.pc = "relabel" => c.verb # "up" /\ ~setup[w].features /\ ~setup[w].dockerfile
  /\ c.pc \in {"content", "features", "relabel"} =>
       c.name \in FirstNames(w) /\ (c.name = Given(w) => c.named) /\ BareFor(images[c.name], w, c.informed)
  /\ c.pc = "features" /\ ~c.buildx => images[ContentName].features = w
LastInv(w) ==
  LET c == command[w] IN
  /\ c.pc = "uid" => c.name \in LastNames(w)
  /\ c.pc = "run" => c.name \in LastNames(w) \cup UidNames(w)
  /\ c.pc \in {"uid", "run"} /\ Trusted(w) =>
       /\ Describes(ReadBack(w), w, c.informed) /\ HasFeaturesOf(images[c.name], w)
       /\ c.pc = "uid" => images[c.name].uid = FALSE
       /\ c.pc = "run" /\ c.informed => images[c.name].uid = setup[w].uid
  /\ c.pc = "end" /\ c.named /\ ~Sends(c) => BuiltFor(images[Given(w)], w, c.informed)
StepInv(w) == ~Over(command[w]) => FlagsInv(w) /\ FirstInv(w) /\ LastInv(w)

OwnBuild(w) ==
  box[w].trusted =>
    /\ Describes(box[w].entries, w, box[w].informed)
    /\ HasFeaturesOf(box[w].image, w)
    /\ box[w].informed => box[w].image.uid = setup[w].uid

BuildInv ==
  /\ DaemonInv /\ Pushed
  /\ \A w \in Workspaces : KeptBuild(w) /\ StepInv(w) /\ OwnBuild(w)

(* A step of a command changes the fields it names, of its own workspace.  *)
CommandIs(w, fields) ==
  /\ DOMAIN command' = Workspaces /\ DOMAIN command'[w] = CommandFields
  /\ \A v \in Workspaces \ {w} : command'[v] = command[v]
  /\ \A f \in CommandFields : command'[w][f] = IF f \in DOMAIN fields THEN fields[f] ELSE command[w][f]
LEMMA CommandTo ==
  ASSUME DaemonInv, NEW w \in Workspaces, NEW fields, To(w, fields)
  PROVE  CommandIs(w, fields)
<1> DEFINE new == [f \in DOMAIN command[w] |-> IF f \in DOMAIN fields THEN fields[f] ELSE command[w][f]]
<1>1. command' = [command EXCEPT ![w] = new]
  BY DEF To
<1>2. DOMAIN command[w] = CommandFields /\ DOMAIN command = Workspaces
  BY DEF DaemonInv
<1> QED BY <1>1, <1>2 DEF CommandIs

(* What the words of the properties say depends on the configurations.     *)
LEMMA SameWords ==
  ASSUME setup' = setup
  PROVE  /\ \A x, v, b : Describes(x, v, b)' <=> Describes(x, v, b)
         /\ \A i, v : HasFeaturesOf(i, v)' <=> HasFeaturesOf(i, v)
         /\ \A i, v, b : BuiltFor(i, v, b)' <=> BuiltFor(i, v, b)
         /\ \A i, v, b : BareFor(i, v, b)' <=> BareFor(i, v, b)
         /\ \A v : Base(v)' = Base(v) /\ FirstNames(v)' = FirstNames(v) /\ LastNames(v)' = LastNames(v)
BY DEF Describes, EndsIn, HasFeaturesOf, BuiltFor, BareFor, Base, FirstNames, LastNames, Expected, Below, OwnLabel,
       Features

(* An image is written under a tag of w: the tags of the others stay.      *)
Writes(w, t, i) == images' = [images EXCEPT ![t] = i] /\ t \in LastNames(w) \cup UidNames(w) \cup {ContentName} /\ Whole(i)
ImagesIn(w) ==
  /\ DOMAIN images' = AllNames /\ \A n \in AllNames : Whole(images'[n])
  /\ \A v \in Workspaces \ {w} : images'[Given(v)] = images[Given(v)]
LEMMA WriteOne ==
  ASSUME DaemonInv, NEW w \in Workspaces, NEW t, NEW i, Writes(w, t, i)
  PROVE  /\ ImagesIn(w) /\ images'[t] = i /\ \A n \in AllNames \ {t} : images'[n] = images[n]
         /\ t # <<w, "given">> => images'[Given(w)] = images[Given(w)]
<1>1. t \in AllNames
  BY NamesThere DEF DaemonInv, Writes
<1>2. /\ DOMAIN images' = AllNames /\ images'[t] = i
      /\ \A n \in AllNames \ {t} : images'[n] = images[n]
  BY <1>1 DEF DaemonInv, Writes
<1>3. \A n \in AllNames : Whole(images'[n])
  BY <1>2 DEF DaemonInv, Writes
<1>4. \A v \in Workspaces : Given(v) \in AllNames
  BY DEF AllNames, Names
<1>5. \A v \in Workspaces : v # w \/ t # <<w, "given">> => t # Given(v)
  BY NamesApart DEF DaemonInv, Writes
<1> QED BY <1>2, <1>3, <1>4, <1>5 DEF ImagesIn

LEMMA WriteNone ==
  ASSUME DaemonInv, NEW w \in Workspaces, UNCHANGED images
  PROVE  ImagesIn(w)
BY DEF DaemonInv, ImagesIn

(* One command steps: only what is of its workspace has to be shown.       *)
LEMMA OneSteps ==
  ASSUME BuildInv, NEW w \in Workspaces, ~Over(command[w]), UNCHANGED setup,
         NEW fields, CommandIs(w, fields), ImagesIn(w),
         DOMAIN box' = Workspaces, \A v \in Workspaces \ {w} : box'[v] = box[v],
         Pushed', KeptBuild(w)', StepInv(w)', OwnBuild(w)'
  PROVE  BuildInv'
<1>1. DaemonInv'
  <2>1. \A v \in Workspaces : DOMAIN command'[v] = CommandFields
    BY DEF BuildInv, DaemonInv, CommandIs
  <2>2. \A u, v \in Workspaces : u = v \/ Over(command'[u]) \/ Over(command'[v])
    BY DEF BuildInv, DaemonInv, CommandIs
  <2> QED BY <2>1, <2>2 DEF BuildInv, DaemonInv, CommandIs, ImagesIn
<1>2. ASSUME NEW v \in Workspaces \ {w} PROVE KeptBuild(v)' /\ StepInv(v)' /\ OwnBuild(v)'
  <2>1. command'[v] = command[v] /\ images'[Given(v)] = images[Given(v)] /\ Given(v)' = Given(v) /\ box'[v] = box[v]
    BY DEF CommandIs, ImagesIn, Given
  <2>2. KeptBuild(v)'
    BY <2>1, SameWords DEF BuildInv, KeptBuild
  <2>3. Over(command'[v])
    BY <2>1 DEF BuildInv, DaemonInv
  <2>4. OwnBuild(v)'
    BY <2>1, SameWords DEF BuildInv, OwnBuild
  <2> QED BY <2>2, <2>3, <2>4 DEF StepInv
<1> QED BY <1>1, <1>2 DEF BuildInv

LEMMA BoxStays ==
  ASSUME BuildInv, NEW w \in Workspaces, UNCHANGED <<setup, box>>
  PROVE  OwnBuild(w)' /\ DOMAIN box' = Workspaces
BY SameWords DEF BuildInv, DaemonInv, OwnBuild

LEMMA PushedStay ==
  ASSUME BuildInv, UNCHANGED <<setup, exported>>
  PROVE  Pushed'
BY SameWords DEF BuildInv, Pushed, Given, Whole

(* What a build makes goes to its tag, or away.                            *)
LEMMA ProduceOne ==
  ASSUME BuildInv, NEW w \in Workspaces, NEW t, NEW i, NEW send, NEW informed, Produce(w, t, i, send, informed),
         t \in LastNames(w) \cup UidNames(w) \cup {ContentName}, Whole(i)
  PROVE  /\ ImagesIn(w)
         /\ send => UNCHANGED images
         /\ ~send => Writes(w, t, i) /\ UNCHANGED exported
BY WriteOne, WriteNone DEF BuildInv, Produce, Writes

LEMMA PushOne ==
  ASSUME BuildInv, UNCHANGED setup, NEW w \in Workspaces, NEW t \in LastNames(w), NEW i, NEW send, NEW informed,
         Produce(w, t, i, send, informed), Whole(i), BuiltFor(i, w, informed)
  PROVE  Pushed'
<1>1. CASE send
  <2> DEFINE at == IF command[w].push THEN t ELSE <<>>
             e == [of |-> w, image |-> i, informed |-> informed, at |-> at]
  <2>1. exported' = exported \cup {e}
    BY <1>1 DEF Produce
  <2>2. ASSUME NEW v \in Workspaces, at = Given(v) PROVE w = v
    <3>1. t = Given(v)
      BY <2>2 DEF Given
    <3> QED BY <3>1, NamesApart DEF BuildInv, DaemonInv
  <2> HIDE DEF at
  <2>3. e.image = i /\ e.informed = informed /\ e.at = at
    OBVIOUS
  <2> HIDE DEF e
  <2>4. ASSUME NEW x \in exported', NEW v \in Workspaces, x.at = Given(v)
        PROVE  Whole(x.image) /\ BuiltFor(x.image, v, x.informed)
    BY <2>1, <2>2, <2>3, <2>4 DEF BuildInv, Pushed
  <2> QED BY <2>4, SameWords DEF Pushed, Given, Whole
<1>2. CASE ~send
  BY <1>2, PushedStay DEF Produce
<1> QED BY <1>1, <1>2

(* A command that is over, with the tags as they were.                     *)
LEMMA StepOver ==
  ASSUME BuildInv, NEW w \in Workspaces, ~Over(command[w]), UNCHANGED <<setup, images, exported, box>>,
         NEW fields, CommandIs(w, fields), Over(command'[w]), command'[w].last = command[w].last
  PROVE  BuildInv'
<1>1. KeptBuild(w)'
  BY SameWords DEF BuildInv, KeptBuild, Given
<1>2. StepInv(w)'
  BY DEF StepInv
<1> QED BY <1>1, <1>2, OneSteps, BoxStays, PushedStay, WriteNone DEF BuildInv

LEMMA FailsKeeps ==
  ASSUME BuildInv, NEW w \in Workspaces, BuildFails(w)
  PROVE  BuildInv'
<1> DEFINE fields == [pc |-> "failed"]
<1>1. CommandIs(w, fields) /\ UNCHANGED <<setup, images, exported, box>>
  BY CommandTo DEF BuildFails, BuildInv, Then
<1>2. command'[w].pc = "failed" /\ command'[w].last = command[w].last
  BY <1>1 DEF CommandIs, CommandFields
<1> HIDE DEF fields
<1> QED BY <1>1, <1>2, StepOver DEF BuildFails, Over

LEMMA EndKeeps ==
  ASSUME BuildInv, NEW w \in Workspaces, EndBuild(w)
  PROVE  BuildInv'
<1> DEFINE c == command[w]
           last == IF ~c.named \/ Sends(c) THEN c.last ELSE IF c.informed THEN "done" ELSE "blind"
           fields == [pc |-> "done", last |-> last]
<1>1. CommandIs(w, fields) /\ UNCHANGED <<setup, images, exported, box>> /\ c.pc = "end"
  BY CommandTo DEF EndBuild, BuildInv, On
<1>2. command'[w].pc = "done" /\ command'[w].last = last
  BY <1>1 DEF CommandIs, CommandFields
<1>3. ~Over(c)
  BY <1>1 DEF Over
<1>4. KeptBuild(w)'
  <2>1. CASE ~c.named \/ Sends(c)
    <3>1. command'[w].last = c.last
      BY <1>2, <2>1
    <3> QED BY <1>1, <3>1, SameWords DEF BuildInv, KeptBuild, Given
  <2>2. CASE c.named /\ ~Sends(c)
    <3>1. BuiltFor(images[Given(w)], w, c.informed)
      BY <1>1, <1>3, <2>2 DEF BuildInv, StepInv, LastInv
    <3>2. command'[w].last = "done" => c.informed
      BY <1>2, <2>2
    <3>3. BuiltFor(images[Given(w)], w, command'[w].last = "done")
      BY <3>1, <3>2, Weaker DEF BuiltFor
    <3> QED BY <1>1, <3>3, SameWords DEF KeptBuild, Given
  <2> QED BY <2>1, <2>2
<1> HIDE DEF fields, last
<1>5. StepInv(w)'
  BY <1>2 DEF StepInv, Over
<1> QED BY <1>1, <1>3, <1>4, <1>5, OneSteps, BoxStays, PushedStay, WriteNone DEF BuildInv

(* A cached image that may be believed, in the daemon or pulled again.     *)
LEMMA CachedIs ==
  ASSUME BuildInv, NEW w \in Workspaces, UNCHANGED <<setup, exported, box>>, command[w].pc = "base", command[w].cached,
         NEW fields, CommandIs(w, fields), ImagesIn(w), command'[w].pc = "uid", command'[w].name = Given(w),
         \A f \in {"verb", "named", "push", "output", "buildx", "cached"} : command'[w][f] = command[w][f],
         KeptBuild(w)', command'[w].informed => command'[w].last = "done"
  PROVE  BuildInv'
<1> DEFINE c == command[w]
           i == images'[Given(w)]
<1>1. /\ command'[w].cached /\ ~command'[w].named /\ command'[w].verb = "up"
      /\ ~command'[w].push /\ ~command'[w].output /\ ~Over(c)
  BY DEF BuildInv, StepInv, FlagsInv, Over
<1>2. FlagsInv(w)' /\ FirstInv(w)'
  BY <1>1 DEF FlagsInv, FirstInv
<1>3. Given(w)' = Given(w) /\ Given(w) \in LastNames(w) /\ LastNames(w)' = LastNames(w)
  BY SameWords, NamesThere DEF Given, LastNames, FirstNames
<1>4. ASSUME Trusted(w)'
      PROVE  Describes(ReadBack(w)', w, command'[w].informed) /\ HasFeaturesOf(i, w) /\ i.uid = FALSE
  <2>1. BuiltFor(i, w, command'[w].last = "done")
    BY <1>1, <1>3, <1>4, SameWords DEF KeptBuild, Trusted
  <2>2. i.entries # <<>>
    BY <2>1, EntriesAre DEF BuiltFor, Describes, EndsIn
  <2>3. ReadBack(w)' = i.entries
    BY <1>1, <2>2 DEF ReadBack, ConfigInImage
  <2> QED BY <2>1, <2>3, Weaker DEF BuiltFor
<1>5. LastInv(w)'
  BY <1>3, <1>4, SameWords DEF LastInv
<1> QED BY <1>1, <1>2, <1>5, OneSteps, BoxStays, PushedStay DEF BuildInv, StepInv

LEMMA CacheKeeps ==
  ASSUME BuildInv, NEW w \in Workspaces, UseCacheImage(w)
  PROVE  BuildInv'
<1> DEFINE c == command[w]
           there == [name |-> Given(w), pc |-> "uid", informed |-> c.last = "done"]
           failed == [pc |-> "failed"]
           pulled(informed) == [name |-> Given(w), pc |-> "uid", informed |-> informed,
                                last |-> IF informed THEN "done" ELSE "blind"]
<1>1. UNCHANGED <<setup, exported, box>> /\ c.pc = "base" /\ c.cached /\ ~Over(c)
  BY DEF UseCacheImage, On, Over
<1>2. CASE To(w, there) /\ UNCHANGED images
  <2>1. CommandIs(w, there)
    BY <1>2, CommandTo DEF BuildInv
  <2>2. /\ command'[w].pc = "uid" /\ command'[w].name = Given(w) /\ command'[w].last = c.last
        /\ command'[w].informed = (c.last = "done")
        /\ \A f \in {"verb", "named", "push", "output", "buildx", "cached"} : command'[w][f] = c[f]
    BY <2>1 DEF CommandIs, CommandFields
  <2> HIDE DEF there
  <2>3. KeptBuild(w)'
    BY <1>1, <1>2, <2>2, SameWords DEF BuildInv, KeptBuild, Given
  <2> QED BY <1>1, <1>2, <2>1, <2>2, <2>3, CachedIs, WriteNone DEF BuildInv
<1>3. CASE Then(w, "failed") /\ UNCHANGED images
  <2>1. CommandIs(w, failed)
    BY <1>3, CommandTo DEF BuildInv, Then
  <2>2. command'[w].pc = "failed" /\ command'[w].last = c.last
    BY <2>1 DEF CommandIs, CommandFields
  <2> HIDE DEF failed
  <2> QED BY <1>1, <1>3, <2>1, <2>2, StepOver DEF Over
<1>4. ASSUME NEW e \in exported, e.at = Given(w), images' = [images EXCEPT ![Given(w)] = e.image], To(w, pulled(e.informed))
      PROVE  BuildInv'
  <2>1. CommandIs(w, pulled(e.informed))
    BY <1>4, CommandTo DEF BuildInv
  <2>2. /\ command'[w].pc = "uid" /\ command'[w].name = Given(w)
        /\ command'[w].last = (IF e.informed THEN "done" ELSE "blind") /\ command'[w].informed = e.informed
        /\ \A f \in {"verb", "named", "push", "output", "buildx", "cached"} : command'[w][f] = c[f]
    BY <2>1 DEF CommandIs, CommandFields
  <2> HIDE DEF pulled
  <2>3. Whole(e.image) /\ BuiltFor(e.image, w, e.informed)
    BY <1>4 DEF BuildInv, Pushed
  <2>4. Writes(w, Given(w), e.image)
    BY <1>4, <2>3, NamesThere DEF Writes, LastNames, FirstNames, BuildInv, DaemonInv
  <2>5. ImagesIn(w) /\ images'[Given(w)] = e.image
    BY <2>4, WriteOne DEF BuildInv
  <2>6. BuiltFor(e.image, w, command'[w].last = "done")
    BY <2>2, <2>3, Weaker DEF BuiltFor
  <2>7. KeptBuild(w)'
    BY <1>1, <2>5, <2>6, SameWords DEF KeptBuild, Given
  <2> QED BY <1>1, <2>1, <2>2, <2>5, <2>7, CachedIs
<1> QED BY <1>2, <1>3, <1>4 DEF UseCacheImage

(* The flags of a command, and the part of the invariant about them, stay. *)
SameFlags(w) ==
  \A f \in {"verb", "named", "push", "output", "buildx", "cached", "last"} : command'[w][f] = command[w][f]
LEMMA FlagsStay ==
  ASSUME NEW w, FlagsInv(w), SameFlags(w), command'[w].pc \notin {"base", "uid", "run"} => ~command[w].cached
  PROVE  /\ FlagsInv(w)'
         /\ /\ command'[w].verb = command[w].verb /\ command'[w].named = command[w].named
            /\ command'[w].push = command[w].push /\ command'[w].output = command[w].output
            /\ command'[w].buildx = command[w].buildx /\ command'[w].cached = command[w].cached
            /\ command'[w].last = command[w].last
<1>1. /\ command'[w].verb = command[w].verb /\ command'[w].named = command[w].named
      /\ command'[w].push = command[w].push /\ command'[w].output = command[w].output
      /\ command'[w].buildx = command[w].buildx /\ command'[w].cached = command[w].cached
      /\ command'[w].last = command[w].last
  BY DEF SameFlags
<1> QED BY <1>1 DEF FlagsInv

(* What is kept under --image-name stays when its tag is not written, and  *)
(* nothing is said of it while it is.                                      *)
LEMMA KeptStays ==
  ASSUME BuildInv, NEW w \in Workspaces, ~Over(command[w]), UNCHANGED setup, command'[w].last = command[w].last,
         images'[Given(w)] = images[Given(w)] \/ command[w].named
  PROVE  KeptBuild(w)'
<1>1. command[w].named => command[w].last \notin {"done", "blind"}
  BY DEF BuildInv, StepInv, FlagsInv
<1> QED BY <1>1, SameWords DEF BuildInv, KeptBuild, Given

(* A command that has its last image before the UID build.                 *)
LEMMA NowUid ==
  ASSUME BuildInv, NEW w \in Workspaces, UNCHANGED setup, SameFlags(w), ~command[w].cached, command'[w].cached = command[w].cached,
         command'[w].pc = "uid", command'[w].name \in LastNames(w),
         Describes(ReadBack(w)', w, command'[w].informed), HasFeaturesOf(images'[command'[w].name], w),
         images'[command'[w].name].uid = FALSE
  PROVE  FirstInv(w)' /\ LastInv(w)'
BY SameWords DEF FirstInv, LastInv

LEMMA BaseKeeps ==
  ASSUME BuildInv, NEW w \in Workspaces, EnsureBase(w)
  PROVE  BuildInv'
<1> DEFINE c == command[w]
           name == <<Base(w)>>
           next == IF setup[w].dockerfile THEN "dockerfile" ELSE IF setup[w].features THEN "content"
                   ELSE IF c.verb = "up" THEN "uid" ELSE "relabel"
           read == [name |-> name, pc |-> next]
           unread == [name |-> name, pc |-> next, informed |-> FALSE]
<1>1. c.pc = "base" /\ ~c.cached /\ UNCHANGED <<setup, exported, box>>
  BY DEF EnsureBase, On
<1>2. \/ To(w, read) /\ Writes(w, name, FromBase(Base(w)))
      \/ To(w, unread) /\ setup[w].dockerfile /\ UNCHANGED images
  <2>1. Whole(FromBase(Base(w)))
    BY EntriesAre DEF Whole, FromBase
  <2> QED BY <2>1 DEF EnsureBase, Base, Writes, FromBase, LastNames, FirstNames
<1>3. PICK fields \in {read, unread} : CommandIs(w, fields)
  BY <1>2, CommandTo DEF BuildInv
<1>4. command'[w].pc = next /\ command'[w].name = name /\ SameFlags(w) /\ command'[w].cached = c.cached
  BY <1>3 DEF CommandIs, CommandFields, SameFlags
<1>5. /\ ImagesIn(w) /\ images'[Given(w)] = images[Given(w)]
      /\ ~setup[w].dockerfile => images'[name] = FromBase(Base(w))
  <2>1. name # <<w, "given">>
    OBVIOUS
  <2> QED BY <1>2, <2>1, WriteOne, WriteNone DEF BuildInv
<1> HIDE DEF read, unread
<1>6. ~Over(c) /\ FlagsInv(w)
  BY <1>1 DEF Over, BuildInv, StepInv
<1>7. FlagsInv(w)' /\ command'[w].verb = c.verb /\ command'[w].last = c.last
  BY <1>1, <1>4, <1>6, FlagsStay
<1>8. KeptBuild(w)'
  BY <1>1, <1>5, <1>6, <1>7, KeptStays
<1>9. FirstInv(w)' /\ LastInv(w)'
  <2>1. name \in FirstNames(w) /\ name # Given(w) /\ name \in LastNames(w)
    BY DEF FirstNames, LastNames, Given
  <2>2. CASE next = "uid"
    <3>1. ~setup[w].dockerfile /\ ~setup[w].features
      BY <2>2
    <3>2. BareFor(images'[name], w, command'[w].informed)
      BY <1>5, <3>1, BaseIsBare
    <3>3. ReadBack(w)' = images'[name].entries \o Config(w)
      BY <1>1, <1>4, <3>1 DEF ReadBack, ConfigInImage, Config
    <3>4. HasFeaturesOf(images'[name], w) /\ images'[name].uid = FALSE
      BY <3>1, <3>2, BareDescribes DEF BareFor
    <3>5. Describes(ReadBack(w)', w, command'[w].informed)
      BY <3>1, <3>2, <3>3, BareDescribes
    <3> QED BY <1>1, <1>4, <2>1, <2>2, <3>4, <3>5, NowUid
  <2>3. CASE next # "uid"
    <3>1. next \in {"dockerfile", "content", "relabel"}
      BY <2>3
    <3>2. FirstNames(w)' = FirstNames(w) /\ Base(w)' = Base(w) /\ Given(w)' = Given(w)
      BY <1>1, SameWords DEF Given
    <3>3. next # "dockerfile" => BareFor(images'[name], w, command'[w].informed)
      BY <1>5, BaseIsBare
    <3>a. FirstInv(w)'
      BY <1>1, <1>4, <1>7, <2>1, <2>3, <3>1, <3>2, <3>3, SameWords DEF FirstInv
    <3>4. LastInv(w)'
      BY <1>4, <3>1 DEF LastInv
    <3> QED BY <3>a, <3>4
  <2> QED BY <2>2, <2>3
<1>10. StepInv(w)'
  BY <1>7, <1>9 DEF StepInv
<1> QED BY <1>1, <1>3, <1>5, <1>6, <1>8, <1>10, OneSteps, BoxStays, PushedStay DEF BuildInv

(* The last build of a configuration is made.                              *)
LEMMA LastBuilt ==
  ASSUME BuildInv, NEW w \in Workspaces, UNCHANGED <<setup, box>>, ~Over(command[w]), ~command[w].cached,
         NEW fields, CommandIs(w, fields), SameFlags(w),
         NEW t \in LastNames(w), NEW i, NEW send, Produce(w, t, i, send, command'[w].informed), command'[w].name = t,
         Whole(i), Describes(i.entries, w, command'[w].informed), HasFeaturesOf(i, w), i.uid = FALSE,
         send => Sends(command[w]), command[w].named <=> t = Given(w),
         \/ command'[w].pc = "uid" /\ command[w].verb = "up" /\ (setup[w].dockerfile \/ setup[w].features)
         \/ command'[w].pc = "end"
  PROVE  BuildInv'
<1> DEFINE c == command[w]
<1>0. BuiltFor(i, w, command'[w].informed)
  BY DEF BuiltFor
<1>1. /\ ImagesIn(w) /\ (send => UNCHANGED images) /\ (~send => Writes(w, t, i)) /\ Pushed'
  BY <1>0, ProduceOne, PushOne
<1>2. FlagsInv(w)
  BY DEF BuildInv, StepInv
<1>3. /\ FlagsInv(w)' /\ command'[w].last = c.last /\ command'[w].cached = c.cached /\ command'[w].named = c.named
      /\ command'[w].buildx = c.buildx /\ command'[w].push = c.push /\ command'[w].output = c.output
  BY <1>2, FlagsStay
<1>4. Given(w) \in AllNames /\ Given(w) = <<w, "given">> /\ Given(w)' = Given(w) /\ Base(w)' = Base(w)
      /\ LastNames(w)' = LastNames(w)
  BY NamesThere, SameWords DEF BuildInv, DaemonInv, LastNames, FirstNames, Given
<1>5. images'[Given(w)] = images[Given(w)] \/ c.named
  BY <1>1, <1>4, WriteOne DEF BuildInv
<1>6. KeptBuild(w)'
  BY <1>3, <1>5, KeptStays
<1>8. CASE command'[w].pc = "uid" /\ c.verb = "up" /\ (setup[w].dockerfile \/ setup[w].features)
  <2>1. ~send
    BY <1>2, <1>8 DEF FlagsInv, Sends
  <2>2. images'[t] = i
    BY <1>1, <2>1, WriteOne DEF BuildInv
  <2>4. ReadBack(w)' = i.entries
    BY <1>3, <1>8, <2>2 DEF ReadBack, ConfigInImage
  <2>5. FirstInv(w)' /\ LastInv(w)'
    BY <1>3, <1>8, <2>2, <2>4, NowUid
  <2> QED BY <1>1, <1>3, <1>6, <2>5, OneSteps, BoxStays DEF StepInv
<1>9. CASE command'[w].pc = "end"
  <2>1. FirstInv(w)'
    BY <1>9 DEF FirstInv
  <2>2. c.named /\ ~Sends(c) => images'[Given(w)] = i
    BY <1>1, WriteOne DEF BuildInv
  <2>3. Sends(command'[w]) = Sends(c)
    BY <1>3 DEF Sends
  <2>5. LastInv(w)'
    BY <1>0, <1>3, <1>4, <1>9, <2>2, <2>3, SameWords DEF LastInv
  <2> QED BY <1>1, <1>3, <1>6, <2>1, <2>5, OneSteps, BoxStays DEF StepInv
<1> QED BY <1>8, <1>9

(* The same, with the Features this build lays on top.                     *)
LEMMA LastFeaturesBuilt ==
  ASSUME BuildInv, NEW w \in Workspaces, UNCHANGED <<setup, box>>, ~Over(command[w]), ~command[w].cached,
         NEW fields, CommandIs(w, fields), SameFlags(w), NEW t \in LastNames(w), NEW i, command'[w].name = t,
         Whole(i), Describes(i.entries, w, command'[w].informed), HasFeaturesOf(i, w), i.uid = FALSE,
         command[w].named <=> t = Given(w), setup[w].features,
         \/ command'[w].pc = "uid" /\ command[w].verb = "up"
         \/ command'[w].pc = "end"
  PROVE  Produce(w, t, i, Sends(command[w]), command'[w].informed) => BuildInv'
<1>1. ASSUME NEW send, Produce(w, t, i, send, command'[w].informed), send => Sends(command[w])
      PROVE  BuildInv'
  BY <1>1, LastBuilt
<1> QED BY <1>1

LEMMA DockerfileKeeps ==
  ASSUME BuildInv, NEW w \in Workspaces, BuildDockerfile(w)
  PROVE  BuildInv'
<1> DEFINE c == command[w]
           tag == TagOf(w, FALSE)
           next == IF setup[w].features THEN "content" ELSE After(w)
           fields == [name |-> tag, pc |-> next]
           label == IF StageEntries(w) = <<>> THEN BaseEntries(Base(w)) ELSE StageEntries(w)
           i == [entries |-> label, features |-> Nobody, uid |-> FALSE]
<1>1. c.pc = "dockerfile" /\ UNCHANGED <<setup, box>> /\ To(w, fields) /\ Produce(w, tag, i, SendsBase(w), c.informed)
  BY DEF BuildDockerfile, On, Base
<1>2. CommandIs(w, fields)
  BY <1>1, CommandTo DEF BuildInv
<1>3. /\ command'[w].pc = next /\ command'[w].name = tag /\ command'[w].informed = c.informed /\ SameFlags(w)
  BY <1>2 DEF CommandIs, CommandFields, SameFlags
<1> HIDE DEF fields
<1>4. ~Over(c) /\ FlagsInv(w) /\ ~c.cached /\ setup[w].dockerfile
  BY <1>1 DEF Over, BuildInv, StepInv, FlagsInv, FirstInv
<1>5. /\ tag \in FirstNames(w) /\ tag \in LastNames(w) /\ (c.named <=> tag = Given(w))
  <2>1. <<w>> # <<w, "given">>
    OBVIOUS
  <2> QED BY <2>1 DEF TagOf, FolderName, FirstNames, LastNames, Given
<1>6. /\ i = [entries |-> i.entries, features |-> Nobody, uid |-> FALSE]
      /\ i.entries = (IF StageEntries(w) = <<>> THEN BaseEntries(Base(w)) ELSE StageEntries(w))
      /\ i.features = Nobody /\ i.uid = FALSE
  OBVIOUS
<1> HIDE DEF i, tag, label
<1>7. /\ Whole(i)
      /\ setup[w].features => BareFor(i, w, c.informed)
      /\ ~setup[w].features => Describes(i.entries, w, c.informed) /\ HasFeaturesOf(i, w)
  BY <1>6, StageIs DEF Whole
<1>8. CASE setup[w].features
  <2>1. /\ ImagesIn(w) /\ Writes(w, tag, i) /\ UNCHANGED exported
    BY <1>1, <1>5, <1>7, <1>8, ProduceOne DEF SendsBase
  <2>2. images'[tag] = i /\ (tag # <<w, "given">> => images'[Given(w)] = images[Given(w)])
    BY <2>1, WriteOne DEF BuildInv
  <2>3. FlagsInv(w)' /\ command'[w].last = c.last /\ command'[w].named = c.named
    BY <1>3, <1>4, FlagsStay
  <2>4. KeptBuild(w)'
    BY <1>1, <1>4, <1>5, <2>2, <2>3, KeptStays DEF Given
  <2>5. FirstInv(w)'
    <3>1. FirstNames(w)' = FirstNames(w) /\ Base(w)' = Base(w) /\ Given(w)' = Given(w)
      BY <1>1, SameWords DEF Given
    <3> QED BY <1>1, <1>3, <1>5, <1>7, <1>8, <2>2, <2>3, <3>1, SameWords DEF FirstInv
  <2>6. LastInv(w)'
    BY <1>3, <1>8 DEF LastInv
  <2> QED BY <1>1, <1>2, <1>4, <2>1, <2>3, <2>4, <2>5, <2>6, OneSteps, BoxStays, PushedStay DEF StepInv
<1>9. CASE ~setup[w].features
  <2>1. \/ next = "uid" /\ c.verb = "up"
        \/ next = "end"
    BY <1>9 DEF After
  <2> QED BY <1>1, <1>2, <1>3, <1>4, <1>5, <1>6, <1>7, <1>9, <2>1, LastBuilt DEF SendsBase
<1> QED BY <1>8, <1>9

LEMMA ContentKeeps ==
  ASSUME BuildInv, NEW w \in Workspaces, BuildContent(w)
  PROVE  BuildInv'
<1> DEFINE c == command[w]
           i == [entries |-> <<>>, features |-> w, uid |-> FALSE]
           fields == [pc |-> "features"]
<1>1. c.pc = "content" /\ UNCHANGED <<setup, exported, box>> /\ To(w, fields)
      /\ ((c.buildx /\ UNCHANGED images) \/ (~c.buildx /\ Writes(w, ContentName, i)))
  <2>1. Whole(i)
    <3>1. <<>> \in Seq(EntryWords)
      OBVIOUS
    <3> QED BY <3>1 DEF Whole
  <2> QED BY <2>1 DEF BuildContent, On, Then, Writes
<1>2. CommandIs(w, fields)
  BY <1>1, CommandTo DEF BuildInv
<1>3. /\ command'[w].pc = "features" /\ command'[w].informed = c.informed /\ command'[w].name = c.name /\ SameFlags(w)
  BY <1>2 DEF CommandIs, CommandFields, SameFlags
<1> HIDE DEF fields
<1>4. ~Over(c) /\ FlagsInv(w) /\ FirstInv(w) /\ ~c.cached
  BY <1>1 DEF Over, BuildInv, StepInv, FlagsInv
<1>5. c.name \in FirstNames(w) /\ c.name # ContentName /\ Given(w) # ContentName
      /\ c.name \in AllNames /\ ContentName # <<w, "given">>
  <2>1. c.name \in FirstNames(w)
    BY <1>1, <1>4 DEF FirstInv
  <2> QED BY <2>1, NamesThere, NamesApart DEF LastNames, FirstNames, BuildInv, DaemonInv
<1>6. /\ ImagesIn(w) /\ images'[c.name] = images[c.name] /\ images'[Given(w)] = images[Given(w)]
      /\ ~c.buildx => images'[ContentName].features = w
  BY <1>1, <1>5, WriteOne, WriteNone DEF BuildInv
<1>7. FlagsInv(w)' /\ command'[w].last = c.last /\ command'[w].named = c.named /\ command'[w].buildx = c.buildx
  BY <1>3, <1>4, FlagsStay
<1>8. KeptBuild(w)'
  BY <1>1, <1>4, <1>6, <1>7, KeptStays
<1>9. FirstInv(w)'
  <2>1. FirstNames(w)' = FirstNames(w) /\ Base(w)' = Base(w) /\ Given(w)' = Given(w) /\ ContentName' = ContentName
    BY <1>1, SameWords DEF Given, ContentName
  <2> QED BY <1>1, <1>3, <1>4, <1>6, <1>7, <2>1, SameWords DEF FirstInv
<1>10. LastInv(w)'
  BY <1>3 DEF LastInv
<1> QED BY <1>1, <1>2, <1>4, <1>6, <1>7, <1>8, <1>9, <1>10, OneSteps, BoxStays, PushedStay DEF StepInv, BuildInv

LEMMA FeaturesKeep ==
  ASSUME BuildInv, NEW w \in Workspaces, BuildFeatures(w)
  PROVE  BuildInv'
<1> DEFINE c == command[w]
           base == images[c.name]
           from == IF c.buildx THEN w ELSE images[ContentName].features
           tag == FeatureTag(w)
           below(seen) == IF seen THEN base.entries ELSE <<>>
           informed(seen) == c.informed /\ seen
           fields(seen) == [name |-> tag, pc |-> After(w), informed |-> informed(seen)]
           image(seen) == [entries |-> below(seen) \o Features(w) \o Config(w), features |-> from, uid |-> base.uid]
<1>1. c.pc = "features" /\ UNCHANGED <<setup, box>>
  BY DEF BuildFeatures, On
<1>2. PICK seen \in BOOLEAN : To(w, fields(seen)) /\ Produce(w, tag, image(seen), Sends(c), informed(seen))
  BY DEF BuildFeatures, Answers
<1>3. CommandIs(w, fields(seen)) /\ command'[w].pc = After(w) /\ command'[w].name = tag
      /\ command'[w].informed = informed(seen) /\ SameFlags(w)
  <2>1. CommandIs(w, fields(seen))
    BY <1>2, CommandTo DEF BuildInv
  <2> QED BY <2>1 DEF CommandIs, CommandFields, SameFlags
<1> HIDE DEF fields
<1>4. /\ ~Over(c) /\ FlagsInv(w) /\ ~c.cached /\ setup[w].features
      /\ c.name \in FirstNames(w) /\ (c.name = Given(w) => c.named) /\ BareFor(base, w, c.informed) /\ from = w
  BY <1>1 DEF Over, BuildInv, StepInv, FlagsInv, FirstInv
<1> DEFINE i == image(seen)
<1>5. i = [entries |-> i.entries, features |-> i.features, uid |-> i.uid] /\ i.features = w /\ i.uid = FALSE
      /\ i.entries = (below(seen) \o Features(w)) \o Config(w)
  BY <1>4 DEF BareFor
<1>6. /\ Whole(i) /\ Describes(i.entries, w, informed(seen)) /\ HasFeaturesOf(i, w) /\ i.uid = FALSE
  <2> HIDE DEF i, image
  <2>1. below(seen) \in Seq(EntryWords)
    BY <1>4, BareDescribes
  <2>2. Describes((below(seen) \o Features(w)) \o Config(w), w, informed(seen))
    <3>1. CASE seen
      <4>1. Describes((base.entries \o Features(w)) \o Config(w), w, c.informed)
        BY <1>4, BareDescribes
      <4> HIDE DEF base
      <4> QED BY <3>1, <4>1, Weaker
    <3>2. CASE ~seen
      <4> HIDE DEF below
      <4> QED BY <2>1, <3>2, EntriesDescribe
    <3> QED BY <3>1, <3>2
  <2> HIDE DEF below, base
  <2>3. (below(seen) \o Features(w)) \o Config(w) \in Seq(EntryWords)
    BY <2>1, EntriesAre, ConcatProperties
  <2> QED BY <1>4, <1>5, <2>2, <2>3 DEF HasFeaturesOf, Whole
<1>9. Produce(w, tag, i, Sends(c), informed(seen))
  BY <1>2
<1> HIDE DEF i, image, informed
<1>7. tag \in LastNames(w) /\ (c.named <=> tag = Given(w))
  <2>1. /\ Given(w) = <<w, "given">> /\ WithFeatures(<<w>>) = <<w, "features">>
        /\ WithFeatures(<<Base(w)>>) = <<Base(w), "features">>
    BY NamesThere DEF BuildInv, DaemonInv
  <2>2. /\ <<w>> # <<w, "given">> /\ <<w, "features">> # <<w, "given">> /\ <<Base(w), "features">> # <<w, "given">>
    OBVIOUS
  <2>3. CASE c.verb = "up"
    <3>1. ~c.named /\ tag = WithFeatures(c.name) /\ c.name \in {<<w>>, <<Base(w)>>}
      BY <1>4, <2>1, <2>3 DEF FlagsInv, FeatureTag, FirstNames
    <3> QED BY <2>1, <2>2, <3>1 DEF LastNames
  <2>4. CASE c.verb # "up"
    <3>1. tag = IF c.named THEN Given(w) ELSE IF ~setup[w].dockerfile THEN WithFeatures(<<w>>) ELSE <<w>>
      BY <2>4 DEF FeatureTag, TagOf, FolderName
    <3> QED BY <2>1, <2>2, <3>1 DEF LastNames, FirstNames
  <2> QED BY <2>3, <2>4
<1> HIDE DEF tag
<1>8. \/ After(w) = "uid" /\ c.verb = "up"
      \/ After(w) = "end"
  BY DEF After
<1> DEFINE f == fields(seen)
<1>10. /\ CommandIs(w, f) /\ command'[w].name = tag /\ SameFlags(w)
       /\ Produce(w, tag, i, Sends(c), command'[w].informed) /\ Describes(i.entries, w, command'[w].informed)
       /\ \/ command'[w].pc = "uid" /\ c.verb = "up"
          \/ command'[w].pc = "end"
  BY <1>3, <1>6, <1>8, <1>9
<1> HIDE DEF f
<1>11. /\ ~Over(c) /\ ~c.cached /\ setup[w].features /\ Whole(i) /\ HasFeaturesOf(i, w) /\ i.uid = FALSE
  BY <1>4, <1>6
<1> HIDE DEF c
<1> QED BY <1>1, <1>7, <1>10, <1>11, LastFeaturesBuilt DEF c

LEMMA RelabelKeeps ==
  ASSUME BuildInv, NEW w \in Workspaces, RelabelImage(w)
  PROVE  BuildInv'
<1> DEFINE c == command[w]
           base == images[c.name]
           exports == c.push \/ c.output
           tag == TagOf(w, exports)
           labelled == [entries |-> base.entries \o Config(w), features |-> base.features, uid |-> base.uid]
           fields(pc1) == [name |-> tag, pc |-> pc1]
<1>1. c.pc = "relabel" /\ UNCHANGED <<setup, box>>
  BY DEF RelabelImage, On
<1>2. /\ ~Over(c) /\ FlagsInv(w) /\ ~c.cached /\ ~setup[w].features /\ c.name \in FirstNames(w)
      /\ BareFor(base, w, c.informed)
  BY <1>1 DEF Over, BuildInv, StepInv, FlagsInv, FirstInv
<1>3. tag \in LastNames(w) /\ (c.named <=> tag = Given(w))
  <2>1. Given(w) = <<w, "given">> /\ WithFeatures(<<w>>) = <<w, "features">>
    BY NamesThere DEF BuildInv, DaemonInv
  <2>2. <<w>> # <<w, "given">> /\ <<w, "features">> # <<w, "given">>
    OBVIOUS
  <2> QED BY <2>1, <2>2 DEF TagOf, FolderName, LastNames, FirstNames
<1>4. ASSUME NEW next, To(w, fields(next))
      PROVE  /\ CommandIs(w, fields(next)) /\ command'[w].pc = next /\ command'[w].name = tag
             /\ command'[w].informed = c.informed /\ SameFlags(w)
  <2>1. CommandIs(w, fields(next))
    BY <1>4, CommandTo DEF BuildInv
  <2> QED BY <2>1 DEF CommandIs, CommandFields, SameFlags
<1>5. CASE Produce(w, tag, labelled, exports /\ c.buildx, c.informed) /\ To(w, fields("end"))
  <2>1. /\ labelled = [entries |-> labelled.entries, features |-> labelled.features, uid |-> labelled.uid]
        /\ labelled.entries = base.entries \o Config(w) /\ labelled.features = base.features /\ labelled.uid = FALSE
    BY <1>2 DEF BareFor
  <2> HIDE DEF labelled
  <2>2. Describes(labelled.entries, w, c.informed) /\ HasFeaturesOf(labelled, w)
    BY <1>2, <2>1, BareDescribes DEF HasFeaturesOf
  <2>3. Whole(labelled)
    BY <1>2, <2>1, BareDescribes, EndsInOwn DEF Whole
  <2>4. exports /\ c.buildx => Sends(c)
    BY DEF Sends
  <2> HIDE DEF fields, tag, exports
  <2> QED BY <1>1, <1>2, <1>3, <1>4, <1>5, <2>1, <2>2, <2>3, <2>4, LastBuilt
<1>6. CASE c.named /\ Produce(w, tag, base, FALSE, c.informed) /\ To(w, fields("done"))
  <2>1. Whole(base) /\ Writes(w, tag, base) /\ UNCHANGED exported
    BY <1>2, <1>3, <1>6, NamesThere DEF Produce, Writes, LastNames, BuildInv, DaemonInv
  <2>2. ImagesIn(w)
    BY <2>1, WriteOne DEF BuildInv
  <2>3. CommandIs(w, fields("done")) /\ command'[w].pc = "done" /\ SameFlags(w)
    BY <1>4, <1>6
  <2>4. command'[w].last = c.last
    BY <2>3 DEF SameFlags
  <2>5. KeptBuild(w)'
    BY <1>1, <1>2, <1>6, <2>4, KeptStays
  <2>6. StepInv(w)'
    BY <2>3 DEF StepInv, Over
  <2> HIDE DEF fields
  <2> QED BY <1>1, <1>2, <2>1, <2>2, <2>3, <2>5, <2>6, OneSteps, BoxStays, PushedStay DEF BuildInv
<1>7. CASE UNCHANGED <<images, exported>> /\ To(w, fields("done"))
  <2>1. CommandIs(w, fields("done")) /\ command'[w].pc = "done" /\ SameFlags(w)
    BY <1>4, <1>7
  <2>2. command'[w].last = c.last
    BY <2>1 DEF SameFlags
  <2> HIDE DEF fields
  <2> QED BY <1>1, <1>2, <1>7, <2>1, <2>2, StepOver DEF Over
<1> QED BY <1>5, <1>6, <1>7 DEF RelabelImage

(* An image whose user has the ids of the host.                            *)
LEMMA WithIds ==
  ASSUME NEW b, NEW e, NEW f, NEW u, b = [entries |-> e, features |-> f, uid |-> u], NEW x
  PROVE  [b EXCEPT !.uid = x] = [entries |-> e, features |-> f, uid |-> x]
OBVIOUS

LEMMA UidKeeps ==
  ASSUME BuildInv, NEW w \in Workspaces, UpdateUid(w)
  PROVE  BuildInv'
<1> DEFINE c == command[w]
           old == images[c.name]
           name(due) == IF due THEN UidTag(w, c.name) ELSE c.name
           i == [old EXCEPT !.uid = TRUE]
           informed(seen) == c.informed /\ seen
           fields(seen, due) == [pc |-> "run", name |-> name(due), informed |-> informed(seen)]
<1>1. c.pc = "uid" /\ UNCHANGED <<setup, exported, box>>
  BY DEF UpdateUid, On
<1>2. PICK seen \in BOOLEAN, due \in BOOLEAN :
        /\ informed(seen) => due = setup[w].uid
        /\ images' = IF due THEN [images EXCEPT ![UidTag(w, c.name)] = i] ELSE images
        /\ To(w, fields(seen, due))
  BY DEF UpdateUid, Answers
<1>3. /\ CommandIs(w, fields(seen, due)) /\ command'[w].pc = "run" /\ command'[w].name = name(due)
      /\ command'[w].informed = informed(seen) /\ SameFlags(w)
  <2>1. CommandIs(w, fields(seen, due))
    BY <1>2, CommandTo DEF BuildInv
  <2> QED BY <2>1 DEF CommandIs, CommandFields, SameFlags
<1> HIDE DEF fields
<1>4. /\ ~Over(c) /\ FlagsInv(w) /\ c.name \in LastNames(w) /\ c.name \in AllNames /\ Whole(old)
      /\ Trusted(w) => /\ Describes(ReadBack(w), w, c.informed) /\ HasFeaturesOf(old, w) /\ old.uid = FALSE
  <2>1. ~Over(c) /\ FlagsInv(w) /\ LastInv(w)
    BY <1>1 DEF Over, BuildInv, StepInv
  <2>2. c.name \in LastNames(w)
    BY <1>1, <2>1 DEF LastInv
  <2>3. c.name \in AllNames /\ Whole(old)
    BY <2>2, NamesThere DEF BuildInv, DaemonInv
  <2> QED BY <1>1, <2>1, <2>2, <2>3 DEF LastInv
<1>5. due => name(due) \in UidNames(w)
  BY <1>4, UidTagIs
<1>6. /\ ImagesIn(w) /\ images'[Given(w)] = images[Given(w)]
      /\ images'[name(due)].entries = old.entries /\ images'[name(due)].features = old.features
      /\ images'[name(due)].uid = IF due THEN TRUE ELSE old.uid
  <2>1. CASE due
    <3>1. i = [entries |-> old.entries, features |-> old.features, uid |-> TRUE]
      <4>1. old = [entries |-> old.entries, features |-> old.features, uid |-> old.uid]
        BY <1>4 DEF Whole
      <4> HIDE DEF old
      <4> QED BY <4>1, WithIds
    <3>a. images' = [images EXCEPT ![name(due)] = i]
      BY <1>2, <2>1
    <3> HIDE DEF i
    <3>2. i.entries = old.entries /\ i.features = old.features /\ i.uid = TRUE /\ Whole(i)
      BY <1>4, <3>1 DEF Whole
    <3>3. Writes(w, name(due), i) /\ name(due) # <<w, "given">>
      BY <1>5, <2>1, <3>2, <3>a DEF Writes, UidNames
    <3> HIDE DEF name, old
    <3>4. ImagesIn(w) /\ images'[name(due)] = i /\ images'[Given(w)] = images[Given(w)]
      BY <3>3, WriteOne DEF BuildInv
    <3> QED BY <2>1, <3>2, <3>4
  <2>2. CASE ~due
    BY <1>2, <2>2, WriteNone DEF BuildInv
  <2> QED BY <2>1, <2>2
<1>7. /\ FlagsInv(w)' /\ command'[w].last = c.last /\ command'[w].cached = c.cached
  BY <1>3, <1>4, FlagsStay
<1>8. KeptBuild(w)'
  BY <1>1, <1>4, <1>6, <1>7, KeptStays
<1>9. FirstInv(w)'
  BY <1>3 DEF FirstInv
<1>10. LastInv(w)'
  <2>0. name(due) \in LastNames(w) \cup UidNames(w)
    BY <1>4, <1>5
  <2> HIDE DEF name, old
  <2>1. LastNames(w)' = LastNames(w) /\ UidNames(w)' = UidNames(w)
    BY <1>1, SameWords DEF UidNames
  <2>2. Trusted(w)' = Trusted(w)
    BY <1>7 DEF Trusted
  <2>3. ConfigInImage(w, TRUE)' = ConfigInImage(w, TRUE)
    BY <1>1, <1>3, <1>6, <1>7 DEF ConfigInImage, old
  <2>4. ReadBack(w)' = ReadBack(w)
    BY <1>3, <1>6, <2>3 DEF ReadBack, Config, old
  <2>5. ASSUME Trusted(w)
        PROVE  /\ Describes(ReadBack(w), w, command'[w].informed) /\ HasFeaturesOf(images'[name(due)], w)
               /\ command'[w].informed => images'[name(due)].uid = setup[w].uid
    <3>1. setup[w].uid \in BOOLEAN
      BY DEF BuildInv, DaemonInv, ConfSpace
    <3>2. Describes(ReadBack(w), w, command'[w].informed)
      BY <1>3, <1>4, <2>5, Weaker
    <3>3. HasFeaturesOf(images'[name(due)], w)
      BY <1>4, <1>6, <2>5 DEF HasFeaturesOf
    <3>4. images'[name(due)].uid = due
      BY <1>4, <1>6, <2>5
    <3> QED BY <1>2, <1>3, <3>2, <3>3, <3>4
  <2> QED BY <1>1, <1>3, <2>0, <2>1, <2>2, <2>4, <2>5, SameWords DEF LastInv
<1> QED BY <1>1, <1>3, <1>4, <1>6, <1>7, <1>8, <1>9, <1>10, OneSteps, BoxStays, PushedStay DEF StepInv, BuildInv

LEMMA RunKeeps ==
  ASSUME BuildInv, NEW w \in Workspaces, RunContainer(w)
  PROVE  BuildInv'
<1> DEFINE c == command[w]
           image == images[c.name]
           inherits(label) == ConfigInImage(w, label)
           seeing(seen) == IF seen THEN image.entries ELSE <<>>
           informed(label, seen) == c.informed /\ (inherits(label) \/ seen) /\ (c.cached => label)
           new(label, seen) ==
             [image |-> image, entries |-> IF inherits(label) THEN image.entries ELSE seeing(seen) \o Config(w),
              trusted |-> c.cached => c.last \in {"done", "blind"}, informed |-> informed(label, seen)]
           fields == [pc |-> "done"]
<1>1. c.pc = "run" /\ UNCHANGED <<setup, images, exported>> /\ To(w, fields)
  BY DEF RunContainer, On, Then
<1>a. PICK label \in BOOLEAN, seen \in BOOLEAN : box' = [box EXCEPT ![w] = new(label, seen)]
  BY DEF RunContainer, Answers
<1>2. CommandIs(w, fields)
  BY <1>1, CommandTo DEF BuildInv
<1>3. command'[w].pc = "done" /\ command'[w].last = c.last
  BY <1>2 DEF CommandIs, CommandFields
<1> HIDE DEF fields
<1>4. /\ DOMAIN box' = Workspaces /\ box'[w] = new(label, seen) /\ \A v \in Workspaces \ {w} : box'[v] = box[v]
  BY <1>a DEF BuildInv, DaemonInv
<1>5. ~Over(c) /\ LastInv(w)
  BY <1>1 DEF Over, BuildInv, StepInv
<1>6. OwnBuild(w)'
  <2> DEFINE box1 == new(label, seen)
  <2>0. /\ box1.image = image /\ box1.informed = informed(label, seen)
        /\ box1.trusted = (c.cached => c.last \in {"done", "blind"})
        /\ box1.entries = IF inherits(label) THEN image.entries ELSE seeing(seen) \o Config(w)
    OBVIOUS
  <2> HIDE DEF box1
  <2> SUFFICES ASSUME Trusted(w)
               PROVE  /\ Describes(box1.entries, w, informed(label, seen)) /\ HasFeaturesOf(image, w)
                      /\ informed(label, seen) => image.uid = setup[w].uid
    <3>1. box'[w] = box1
      BY <1>4 DEF box1
    <3> HIDE DEF new, informed, image
    <3> QED BY <1>1, <2>0, <3>1, SameWords DEF OwnBuild, Trusted
  <2>1. /\ Describes(ReadBack(w), w, c.informed) /\ HasFeaturesOf(image, w)
        /\ c.informed => image.uid = setup[w].uid
    BY <1>1, <1>5 DEF LastInv
  <2>2. c.name \in AllNames
    BY <1>1, <1>5, NamesThere DEF LastInv, BuildInv, DaemonInv
  <2>3. image.entries \in Seq(EntryWords)
    BY <2>2 DEF BuildInv, DaemonInv, Whole
  <2>5. inherits(label) => ConfigInImage(w, TRUE)
    BY DEF ConfigInImage
  <2>6. (c.cached => label) /\ ~inherits(label) => ~ConfigInImage(w, TRUE)
    BY DEF ConfigInImage
  <2>7. Describes(box1.entries, w, informed(label, seen))
    <3>1. CASE inherits(label)
      <4>1. ReadBack(w) = image.entries
        BY <2>5, <3>1 DEF ReadBack
      <4> HIDE DEF image
      <4> QED BY <2>1, <2>0, <3>1, <4>1, Weaker
    <3>2. CASE ~inherits(label) /\ informed(label, seen)
      <4>1. ReadBack(w) = image.entries \o Config(w)
        BY <2>6, <3>2 DEF ReadBack
      <4>2. box1.entries = image.entries \o Config(w)
        BY <2>0, <3>2
      <4> HIDE DEF image
      <4> QED BY <2>1, <3>2, <4>1, <4>2, Weaker
    <3>3. CASE ~inherits(label) /\ ~informed(label, seen)
      <4>1. seeing(seen) \in Seq(EntryWords)
        BY <2>3
      <4> HIDE DEF seeing, informed
      <4> QED BY <2>0, <3>3, <4>1, EntriesDescribe
    <3> QED BY <3>1, <3>2, <3>3
  <2> QED BY <2>1, <2>7
<1> HIDE DEF new
<1>7. KeptBuild(w)'
  BY <1>1, <1>3, SameWords DEF BuildInv, KeptBuild, Given
<1>8. StepInv(w)'
  BY <1>3 DEF StepInv, Over
<1> QED BY <1>1, <1>2, <1>4, <1>5, <1>6, <1>7, <1>8, OneSteps, PushedStay, WriteNone DEF BuildInv

(* When commands do not overlap, one begins when no other is under way.    *)
LEMMA BeginKeeps ==
  ASSUME BuildInv, ~Concurrent, NEW w \in Workspaces, NEW o \in Options, BeginCommand(w, o)
  PROVE  BuildInv'
<1> DEFINE c == command[w]
           last == IF o.named /\ ~FlagConflict(o) THEN "failed" ELSE c.last
           fields == [pc |-> IF FlagConflict(o) THEN "failed" ELSE "base", verb |-> o.verb, named |-> o.named,
                      push |-> o.push, output |-> o.output, buildx |-> o.buildx, cached |-> o.cached,
                      name |-> <<>>, informed |-> TRUE, last |-> last]
<1>1. /\ \A v \in Workspaces : Over(command[v])
      /\ UNCHANGED <<setup, images, exported, box>> /\ To(w, fields)
      /\ IF o.verb = "up" THEN ~o.named /\ ~o.push /\ ~o.output ELSE ~o.cached
  BY DEF BeginCommand
<1>2. CommandIs(w, fields)
  BY <1>1, CommandTo DEF BuildInv
<1>3. /\ command'[w].pc = (IF FlagConflict(o) THEN "failed" ELSE "base") /\ command'[w].last = last
      /\ command'[w].verb = o.verb /\ command'[w].named = o.named /\ command'[w].push = o.push
      /\ command'[w].output = o.output /\ command'[w].cached = o.cached
  BY <1>2 DEF CommandIs, CommandFields
<1> HIDE DEF fields
<1>4. DaemonInv'
  <2>1. \A v \in Workspaces : DOMAIN command'[v] = CommandFields
    BY <1>2 DEF BuildInv, DaemonInv, CommandIs
  <2>2. \A u, v \in Workspaces : u = v \/ Over(command'[u]) \/ Over(command'[v])
    BY <1>1, <1>2 DEF CommandIs
  <2> QED BY <1>1, <1>2, <2>1, <2>2 DEF BuildInv, DaemonInv, CommandIs
<1>5. KeptBuild(w)' /\ StepInv(w)'
  <2>1. KeptBuild(w)'
    <3>1. CASE last = c.last
      BY <1>1, <1>3, <3>1, SameWords DEF BuildInv, KeptBuild, Given
    <3>2. CASE last = "failed"
      BY <1>3, <3>2 DEF KeptBuild
    <3> QED BY <3>1, <3>2
  <2>2. CASE FlagConflict(o)
    BY <1>3, <2>1, <2>2 DEF StepInv, Over
  <2>3. CASE ~FlagConflict(o)
    <3>1. command'[w].pc = "base"
      BY <1>3, <2>3
    <3>2. FirstInv(w)' /\ LastInv(w)'
      BY <3>1 DEF FirstInv, LastInv
    <3>3. FlagsInv(w)'
      BY <1>1, <1>3, <2>3, <3>1 DEF FlagsInv
    <3> QED BY <2>1, <3>2, <3>3 DEF StepInv
  <2> QED BY <2>2, <2>3
<1>6. ASSUME NEW v \in Workspaces, v # w PROVE KeptBuild(v)' /\ StepInv(v)'
  <2>1. command'[v] = command[v]
    BY <1>2, <1>6 DEF CommandIs
  <2> QED BY <1>1, <2>1, SameWords DEF BuildInv, KeptBuild, StepInv, Given
<1>7. \A v \in Workspaces : OwnBuild(v)'
  BY <1>1, BoxStays
<1> QED BY <1>1, <1>4, <1>5, <1>6, <1>7, PushedStay DEF BuildInv

LEMMA BuildInductive == ~Concurrent /\ BuildInv /\ [BuildNext]_buildVars => BuildInv'
<1> SUFFICES ASSUME ~Concurrent, BuildInv, [BuildNext]_buildVars PROVE BuildInv'
  OBVIOUS
<1>1. ASSUME NEW w \in Workspaces, NEW o \in Options, BeginCommand(w, o) PROVE BuildInv'
  BY <1>1, BeginKeeps
<1>2. ASSUME NEW w \in Workspaces, BuildStep(w) \/ BuildFails(w) PROVE BuildInv'
  BY <1>2, CacheKeeps, BaseKeeps, DockerfileKeeps, ContentKeeps, FeaturesKeep, RelabelKeeps, UidKeeps, RunKeeps,
     EndKeeps, FailsKeeps DEF BuildStep
<1>3. CASE UNCHANGED buildVars
  <2>1. UNCHANGED <<setup, images, exported, command, box>>
    BY <1>3 DEF buildVars
  <2>2. DaemonInv'
    BY <2>1 DEF BuildInv, DaemonInv
  <2>3. ASSUME NEW w \in Workspaces PROVE KeptBuild(w)' /\ StepInv(w)' /\ OwnBuild(w)'
    <3>1. KeptBuild(w)' /\ OwnBuild(w)'
      BY <2>1, SameWords, BoxStays DEF BuildInv, KeptBuild, Given
    <3>2. Trusted(w)' = Trusted(w) /\ ReadBack(w)' = ReadBack(w)
      BY <2>1 DEF Trusted, ReadBack, ConfigInImage, Config
    <3>3. LastNames(w)' = LastNames(w) /\ FirstNames(w)' = FirstNames(w) /\ Base(w)' = Base(w)
          /\ UidNames(w)' = UidNames(w) /\ Given(w)' = Given(w)
      BY <2>1, SameWords DEF UidNames, Given
    <3>4. FlagsInv(w) => FlagsInv(w)'
      BY <2>1 DEF FlagsInv
    <3>5. FirstInv(w) => FirstInv(w)'
      BY <2>1, <3>3, SameWords DEF FirstInv
    <3>6. LastInv(w) => LastInv(w)'
      BY <2>1, <3>2, <3>3, SameWords DEF LastInv
    <3>7. StepInv(w)'
      BY <2>1, <3>4, <3>5, <3>6 DEF BuildInv, StepInv
    <3> QED BY <3>1, <3>7
  <2> QED BY <2>1, <2>2, <2>3, PushedStay DEF BuildInv
<1> QED BY <1>1, <1>2, <1>3 DEF BuildNext

LEMMA BuildStart == BuildInit => BuildInv
<1> SUFFICES ASSUME BuildInit PROVE BuildInv
  OBVIOUS
<1>1. setup \in [Workspaces -> ConfSpace]
  BY SetupsAssumption DEF BuildInit
<1>2. /\ images = [n \in AllNames |-> NoBuilt] /\ exported = {} /\ command = [w \in Workspaces |-> NoCommand]
      /\ box = [w \in Workspaces |-> NoBox]
  BY DEF BuildInit
<1>a. <<"absent">> \in EntryWords
  BY DEF EntryWords
<1>3. /\ Whole(NoBuilt) /\ DOMAIN NoCommand = CommandFields /\ NoCommand.pc = "idle" /\ NoCommand.last = "none"
      /\ NoBox.trusted = FALSE
  BY <1>a DEF Whole, NoBuilt, NoCommand, CommandFields, NoBox
<1>4. DaemonInv
  BY <1>1, <1>2, <1>3 DEF DaemonInv, Over
<1>5. \A w \in Workspaces : KeptBuild(w) /\ StepInv(w) /\ OwnBuild(w)
  BY <1>2, <1>3 DEF KeptBuild, StepInv, OwnBuild, Over
<1>6. Pushed
  BY <1>2 DEF Pushed
<1> QED BY <1>4, <1>5, <1>6 DEF BuildInv

(* up.go fromImage, fromDockerfile, fromCacheImage: when the commands of   *)
(* one daemon do not overlap, for any configurations, flags and failures,  *)
(* what runs is the build of its own configuration, and what is read from  *)
(* it describes it, whichever tags other workspaces wrote in between.      *)
THEOREM ContainersRunTheirBuild == ~Concurrent => (BuildSpec => []RunsOwnBuild)
<1> SUFFICES ASSUME ~Concurrent PROVE BuildSpec => []RunsOwnBuild
  OBVIOUS
<1>1. BuildInv => RunsOwnBuild
  BY DEF BuildInv, OwnBuild, RunsOwnBuild
<1>2. BuildInv /\ [BuildNext]_buildVars => BuildInv'
  BY BuildInductive
<1> QED BY <1>1, <1>2, BuildStart, PTL DEF BuildSpec

(* Commands of many workspaces at once: what each still relies on is the   *)
(* image it builds upon, whose tag no other writes but to the same.        *)
SharedInv ==
  /\ setup \in [Workspaces -> ConfSpace]
  /\ DOMAIN images = AllNames
  /\ DOMAIN command = Workspaces /\ \A w \in Workspaces : DOMAIN command[w] = CommandFields
Along(w) ==
  LET c == command[w] IN
  /\ c.verb = "up" => ~c.named
  /\ c.pc = "dockerfile" => setup[w].dockerfile
  /\ c.pc \in {"content", "features"} => setup[w].features
  /\ c.pc = "relabel" => ~setup[w].features
  /\ c.pc \in {"content", "features", "relabel"} =>
       /\ c.name \in FirstNames(w) /\ (c.name = Given(w) => c.named) /\ BareFor(images[c.name], w, c.informed)
       /\ c.name = <<Base(w)>> => ~setup[w].dockerfile
  /\ c.pc = "uid" => c.name \in LastNames(w)
WayInv == SharedInv /\ ExportsComplete /\ \A w \in Workspaces : Along(w)

LEMMA CommandOf ==
  ASSUME SharedInv, NEW w \in Workspaces, NEW fields, To(w, fields)
  PROVE  CommandIs(w, fields)
<1> DEFINE new == [f \in DOMAIN command[w] |-> IF f \in DOMAIN fields THEN fields[f] ELSE command[w][f]]
<1>1. command' = [command EXCEPT ![w] = new]
  BY DEF To
<1>2. DOMAIN command[w] = CommandFields /\ DOMAIN command = Workspaces
  BY DEF SharedInv
<1> QED BY <1>1, <1>2 DEF CommandIs

(* The tags that another workspace builds upon are written by none but the *)
(* pull of their base.                                                     *)
LEMMA OwnNames ==
  ASSUME SharedInv, NEW w \in Workspaces, NEW v \in Workspaces \ {w},
         NEW t \in LastNames(w) \cup UidNames(w) \cup {ContentName}, t # <<Base(w)>>
  PROVE  t \notin FirstNames(v)
<1>1. /\ Base(w) \in Bases /\ Base(v) \in Bases /\ Base(v) # w /\ Base(w) # v
      /\ ContentTag # v /\ ContentTag # Base(v)
  BY NamesAssumption DEF SharedInv, ConfSpace, Base
<1> QED BY <1>1 DEF LastNames, FirstNames, UidNames, ContentName

(* What a step makes of the daemon: at most one tag, of w, is written.     *)
Touches(w) ==
  \/ UNCHANGED images
  \/ \E t, i : /\ images' = [images EXCEPT ![t] = i]
               /\ t \in LastNames(w) \cup UidNames(w) \cup {ContentName}
               /\ t = <<Base(w)>> => i = FromBase(Base(w))

LEMMA WrittenAre ==
  ASSUME SharedInv, NEW w \in Workspaces, NEW t, NEW i, images' = [images EXCEPT ![t] = i],
         t \in LastNames(w) \cup UidNames(w) \cup {ContentName}
  PROVE  DOMAIN images' = AllNames /\ images'[t] = i /\ \A n \in AllNames \ {t} : images'[n] = images[n]
<1>1. t \in AllNames
  BY NamesThere DEF SharedInv
<1> QED BY <1>1 DEF SharedInv

(* A step of one command: only what is of its workspace has to be shown.   *)
LEMMA OneGoes ==
  ASSUME WayInv, NEW w \in Workspaces, UNCHANGED setup, NEW fields, CommandIs(w, fields), Touches(w),
         ExportsComplete', Along(w)'
  PROVE  WayInv'
<1>1. DOMAIN images' = AllNames
  BY WrittenAre DEF WayInv, SharedInv, Touches
<1>2. SharedInv'
  BY <1>1 DEF WayInv, SharedInv, CommandIs
<1>3. ASSUME NEW v \in Workspaces \ {w} PROVE Along(v)'
  <2>1. command'[v] = command[v] /\ Given(v)' = Given(v)
    BY DEF CommandIs, Given
  <2>2. ASSUME NEW n \in FirstNames(v), NEW informed, BareFor(images[n], v, informed), n = <<Base(v)>> => ~setup[v].dockerfile
        PROVE  BareFor(images'[n], v, informed)
    <3>1. n \in AllNames
      BY NamesThere DEF WayInv, SharedInv, LastNames
    <3>2. ASSUME NEW t, NEW i, images' = [images EXCEPT ![t] = i],
                 t \in LastNames(w) \cup UidNames(w) \cup {ContentName}, t = <<Base(w)>> => i = FromBase(Base(w))
          PROVE  BareFor(images'[n], v, informed)
      <4>1. images'[t] = i /\ \A m \in AllNames \ {t} : images'[m] = images[m]
        BY <3>2, WrittenAre DEF WayInv
      <4>2. CASE n # t
        BY <2>2, <3>1, <4>1, <4>2
      <4>3. CASE n = t
        <5>1. t = <<Base(w)>>
          BY <3>2, <4>3, OwnNames DEF WayInv
        <5>2. Base(w) \in Bases /\ n \in {<<Base(v)>>, <<v>>, <<v, "given">>}
          BY DEF WayInv, SharedInv, ConfSpace, Base, FirstNames
        <5>3. Base(w) # v
          BY <5>2, NamesAssumption
        <5>4. Base(v) = Base(w)
          BY <4>3, <5>1, <5>2, <5>3
        <5> QED BY <2>2, <3>2, <4>1, <4>3, <5>1, <5>4, BaseIsBare
      <4> QED BY <4>2, <4>3
    <3> QED BY <2>2, <3>2 DEF Touches
  <2>3. Along(v)
    BY DEF WayInv
  <2> QED BY <2>1, <2>2, <2>3, SameWords DEF Along
<1> QED BY <1>2, <1>3 DEF WayInv

LEMMA ExportsStay ==
  ASSUME ExportsComplete, UNCHANGED <<setup, exported>>
  PROVE  ExportsComplete'
BY SameWords DEF ExportsComplete

LEMMA SendOne ==
  ASSUME WayInv, NEW w \in Workspaces, UNCHANGED setup, NEW t, NEW i, NEW send, NEW informed, Produce(w, t, i, send, informed),
         t \in LastNames(w), t # <<Base(w)>> \/ send \/ i = FromBase(Base(w)),
         send => Describes(i.entries, w, informed) /\ HasFeaturesOf(i, w)
  PROVE  ExportsComplete' /\ Touches(w)
<1>1. CASE send
  <2> DEFINE e == [of |-> w, image |-> i, informed |-> informed, at |-> IF command[w].push THEN t ELSE <<>>]
  <2>1. exported' = exported \cup {e} /\ UNCHANGED images
    BY <1>1 DEF Produce
  <2>2. Describes(e.image.entries, e.of, e.informed) /\ HasFeaturesOf(e.image, e.of)
    BY <1>1
  <2> HIDE DEF e
  <2>3. ExportsComplete'
    BY <2>1, <2>2, SameWords DEF WayInv, ExportsComplete
  <2> QED BY <2>1, <2>3 DEF Touches
<1>2. CASE ~send
  BY <1>2, ExportsStay DEF Produce, WayInv, Touches
<1> QED BY <1>1, <1>2

(* The tags of a build's names.                                            *)
LEMMA TagsAre ==
  ASSUME WayInv, NEW w \in Workspaces, NEW x \in BOOLEAN
  PROVE  TagOf(w, x) \in LastNames(w) /\ TagOf(w, x) # <<Base(w)>>
         /\ TagOf(w, FALSE) \in FirstNames(w) /\ (TagOf(w, FALSE) = Given(w) => command[w].named)
<1>1. Given(w) = <<w, "given">> /\ WithFeatures(<<w>>) = <<w, "features">>
  BY NamesThere DEF WayInv, SharedInv
<1>2. Base(w) # w
  BY NamesAssumption DEF WayInv, SharedInv, ConfSpace, Base
<1>3. <<w>> # <<w, "given">>
  OBVIOUS
<1> QED BY <1>1, <1>2, <1>3 DEF TagOf, FolderName, LastNames, FirstNames

LEMMA AlongBase ==
  ASSUME WayInv, NEW w \in Workspaces, EnsureBase(w)
  PROVE  WayInv'
<1> DEFINE c == command[w]
           name == <<Base(w)>>
           next == IF setup[w].dockerfile THEN "dockerfile" ELSE IF setup[w].features THEN "content"
                   ELSE IF c.verb = "up" THEN "uid" ELSE "relabel"
           read == [name |-> name, pc |-> next]
           unread == [name |-> name, pc |-> next, informed |-> FALSE]
<1>1. UNCHANGED <<setup, exported>> /\ ExportsComplete'
  BY ExportsStay DEF EnsureBase, WayInv
<1>2. \/ To(w, read) /\ images' = [images EXCEPT ![name] = FromBase(Base(w))]
      \/ To(w, unread) /\ setup[w].dockerfile /\ UNCHANGED images
  BY DEF EnsureBase, Base
<1>3. PICK fields \in {read, unread} : CommandIs(w, fields)
  BY <1>2, CommandOf DEF WayInv
<1>4. /\ command'[w].pc = next /\ command'[w].name = name
      /\ command'[w].verb = c.verb /\ command'[w].named = c.named
  BY <1>3 DEF CommandIs, CommandFields
<1> HIDE DEF read, unread
<1>5. name \in LastNames(w) /\ name \in FirstNames(w) /\ name # Given(w)
  BY DEF LastNames, FirstNames, Given
<1>6. Touches(w) /\ (~setup[w].dockerfile => images'[name] = FromBase(Base(w)))
  BY <1>2, <1>5, WrittenAre DEF Touches, WayInv
<1>7. next # "dockerfile" => BareFor(images'[name], w, command'[w].informed)
  BY <1>6, BaseIsBare
<1>8. Along(w)'
  <2>1. Given(w)' = Given(w)
    BY DEF Given
  <2> QED BY <1>1, <1>4, <1>5, <1>7, <2>1, SameWords DEF WayInv, Along
<1> QED BY <1>1, <1>3, <1>6, <1>8, OneGoes

LEMMA AlongCache ==
  ASSUME WayInv, NEW w \in Workspaces, UseCacheImage(w)
  PROVE  WayInv'
<1> DEFINE c == command[w]
           there == [name |-> Given(w), pc |-> "uid", informed |-> c.last = "done"]
           failed == [pc |-> "failed"]
           pulled(informed) == [name |-> Given(w), pc |-> "uid", informed |-> informed,
                                last |-> IF informed THEN "done" ELSE "blind"]
<1>1. UNCHANGED <<setup, exported>> /\ ExportsComplete'
  BY ExportsStay DEF UseCacheImage, WayInv
<1>2. Given(w) \in LastNames(w) /\ Given(w) # <<Base(w)>>
  BY DEF LastNames, FirstNames, Given
<1>3. Touches(w)
  BY <1>2 DEF UseCacheImage, Touches
<1>4. PICK fields : /\ CommandIs(w, fields) /\ command'[w].verb = c.verb /\ command'[w].named = c.named
                    /\ \/ command'[w].pc = "failed"
                       \/ command'[w].pc = "uid" /\ command'[w].name = Given(w)
  <2>1. CASE To(w, there)
    <3>1. CommandIs(w, there)
      BY <2>1, CommandOf DEF WayInv
    <3>2. /\ command'[w].verb = c.verb /\ command'[w].named = c.named
          /\ command'[w].pc = "uid" /\ command'[w].name = Given(w)
      BY <3>1 DEF CommandIs, CommandFields
    <3> QED BY <3>1, <3>2
  <2>2. CASE To(w, failed)
    <3>1. CommandIs(w, failed)
      BY <2>2, CommandOf DEF WayInv
    <3>2. command'[w].verb = c.verb /\ command'[w].named = c.named /\ command'[w].pc = "failed"
      BY <3>1 DEF CommandIs, CommandFields
    <3> QED BY <3>1, <3>2
  <2>3. CASE \E e \in exported : To(w, pulled(e.informed))
    <3>1. PICK e \in exported : CommandIs(w, pulled(e.informed))
      BY <2>3, CommandOf DEF WayInv
    <3>2. /\ command'[w].verb = c.verb /\ command'[w].named = c.named
          /\ command'[w].pc = "uid" /\ command'[w].name = Given(w)
      BY <3>1 DEF CommandIs, CommandFields
    <3> QED BY <3>1, <3>2
  <2> QED BY <2>1, <2>2, <2>3 DEF UseCacheImage, Then
<1>5. Along(w)'
  BY <1>1, <1>2, <1>4, SameWords DEF WayInv, Along
<1> QED BY <1>1, <1>3, <1>4, <1>5, OneGoes

LEMMA AlongDockerfile ==
  ASSUME WayInv, NEW w \in Workspaces, BuildDockerfile(w)
  PROVE  WayInv'
<1> DEFINE c == command[w]
           tag == TagOf(w, FALSE)
           next == IF setup[w].features THEN "content" ELSE After(w)
           fields == [name |-> tag, pc |-> next]
           label == IF StageEntries(w) = <<>> THEN BaseEntries(Base(w)) ELSE StageEntries(w)
           i == [entries |-> label, features |-> Nobody, uid |-> FALSE]
<1>1. c.pc = "dockerfile" /\ UNCHANGED setup /\ To(w, fields) /\ Produce(w, tag, i, SendsBase(w), c.informed)
  BY DEF BuildDockerfile, On, Base
<1>2. CommandIs(w, fields)
  BY <1>1, CommandOf DEF WayInv
<1>3. /\ command'[w].pc = next /\ command'[w].name = tag /\ command'[w].informed = c.informed
      /\ command'[w].verb = c.verb /\ command'[w].named = c.named
  BY <1>2 DEF CommandIs, CommandFields
<1> HIDE DEF fields
<1>4. c.verb = "up" => ~c.named
  BY DEF WayInv, Along
<1>5. tag \in LastNames(w) /\ tag # <<Base(w)>> /\ tag \in FirstNames(w) /\ (tag = Given(w) => c.named)
  BY TagsAre
<1>6. /\ i.entries = (IF StageEntries(w) = <<>> THEN BaseEntries(Base(w)) ELSE StageEntries(w))
      /\ i.features = Nobody /\ i.uid = FALSE
  OBVIOUS
<1> HIDE DEF i, tag, label
<1>7. /\ setup[w].features => BareFor(i, w, c.informed)
      /\ ~setup[w].features => Describes(i.entries, w, c.informed) /\ HasFeaturesOf(i, w)
  BY <1>6, StageIs
<1>8. ExportsComplete' /\ Touches(w)
  BY <1>1, <1>5, <1>7, SendOne DEF SendsBase
<1>9. setup[w].features => images'[tag] = i
  BY <1>1, <1>5, WrittenAre DEF Produce, SendsBase, WayInv
<1>10. Along(w)'
  <2>1. Given(w)' = Given(w)
    BY DEF Given
  <2> QED BY <1>1, <1>3, <1>4, <1>5, <1>7, <1>9, <2>1, SameWords DEF Along, After
<1> QED BY <1>1, <1>2, <1>8, <1>10, OneGoes

LEMMA AlongContent ==
  ASSUME WayInv, NEW w \in Workspaces, BuildContent(w)
  PROVE  WayInv'
<1> DEFINE c == command[w]
           i == [entries |-> <<>>, features |-> w, uid |-> FALSE]
           fields == [pc |-> "features"]
<1>1. c.pc = "content" /\ UNCHANGED <<setup, exported>> /\ To(w, fields)
      /\ (UNCHANGED images \/ images' = [images EXCEPT ![ContentName] = i])
  BY DEF BuildContent, On, Then
<1>2. CommandIs(w, fields)
  BY <1>1, CommandOf DEF WayInv
<1>3. /\ command'[w].pc = "features" /\ command'[w].name = c.name /\ command'[w].informed = c.informed
      /\ command'[w].verb = c.verb /\ command'[w].named = c.named
  BY <1>2 DEF CommandIs, CommandFields
<1> HIDE DEF fields, i
<1>4. Along(w) /\ c.name \in FirstNames(w) /\ c.name \in AllNames
  BY <1>1, NamesThere DEF WayInv, Along, SharedInv, LastNames
<1>5. ContentName \notin LastNames(w) /\ c.name \in LastNames(w) /\ <<Base(w)>> \in LastNames(w)
  BY <1>4, NamesApart DEF WayInv, SharedInv, LastNames, FirstNames
<1>6. images'[c.name] = images[c.name] /\ Touches(w)
  <2>1. CASE UNCHANGED images
    BY <2>1 DEF Touches
  <2>2. CASE images' = [images EXCEPT ![ContentName] = i]
    BY <1>4, <1>5, <2>2, WrittenAre DEF WayInv, Touches
  <2> QED BY <1>1, <2>1, <2>2
<1>7. Along(w)'
  <2>1. Given(w)' = Given(w)
    BY DEF Given
  <2> QED BY <1>1, <1>3, <1>4, <1>6, <2>1, SameWords DEF Along
<1> QED BY <1>1, <1>2, <1>6, <1>7, OneGoes, ExportsStay DEF WayInv

LEMMA AlongFeatures ==
  ASSUME WayInv, NEW w \in Workspaces, BuildFeatures(w)
  PROVE  WayInv'
<1> DEFINE c == command[w]
           base == images[c.name]
           from == IF c.buildx THEN w ELSE images[ContentName].features
           tag == FeatureTag(w)
           below(seen) == IF seen THEN base.entries ELSE <<>>
           informed(seen) == c.informed /\ seen
           fields(seen) == [name |-> tag, pc |-> After(w), informed |-> informed(seen)]
           image(seen) == [entries |-> below(seen) \o Features(w) \o Config(w), features |-> from, uid |-> base.uid]
<1>1. c.pc = "features" /\ UNCHANGED setup
  BY DEF BuildFeatures, On
<1>2. PICK seen \in BOOLEAN : To(w, fields(seen)) /\ Produce(w, tag, image(seen), Sends(c), informed(seen))
  BY DEF BuildFeatures, Answers
<1>3. /\ CommandIs(w, fields(seen)) /\ command'[w].pc = After(w) /\ command'[w].name = tag
      /\ command'[w].verb = c.verb /\ command'[w].named = c.named
  <2>1. CommandIs(w, fields(seen))
    BY <1>2, CommandOf DEF WayInv
  <2> QED BY <2>1 DEF CommandIs, CommandFields
<1> HIDE DEF fields
<1>4. /\ Along(w) /\ setup[w].features /\ c.name \in FirstNames(w) /\ (c.name = Given(w) => c.named)
      /\ BareFor(base, w, c.informed)
  BY <1>1 DEF WayInv, Along
<1> DEFINE i == image(seen)
<1>5. Sends(c) => Describes(i.entries, w, informed(seen)) /\ HasFeaturesOf(i, w)
  <2>1. i.entries = (below(seen) \o Features(w)) \o Config(w) /\ i.features = from
    OBVIOUS
  <2>2. Sends(c) => from = w
    BY DEF Sends
  <2> HIDE DEF i, image, from
  <2>3. Describes((below(seen) \o Features(w)) \o Config(w), w, informed(seen))
    <3>1. CASE seen
      <4>1. Describes((base.entries \o Features(w)) \o Config(w), w, c.informed)
        BY <1>4, BareDescribes
      <4> HIDE DEF base
      <4> QED BY <3>1, <4>1, Weaker
    <3>2. CASE ~seen
      <4>1. below(seen) \in Seq(EntryWords)
        BY <3>2
      <4> HIDE DEF below
      <4> QED BY <3>2, <4>1, EntriesDescribe
    <3> QED BY <3>1, <3>2
  <2> QED BY <1>4, <2>1, <2>2, <2>3 DEF HasFeaturesOf
<1> HIDE DEF i, image, informed
<1>6. tag \in LastNames(w) /\ tag # <<Base(w)>>
  <2>1. /\ Given(w) = <<w, "given">> /\ WithFeatures(<<w>>) = <<w, "features">>
        /\ WithFeatures(<<Base(w)>>) = <<Base(w), "features">>
    BY NamesThere DEF WayInv, SharedInv
  <2>2. CASE c.verb = "up"
    <3>1. tag = WithFeatures(c.name) /\ c.name \in {<<w>>, <<Base(w)>>}
      BY <1>4, <2>1, <2>2 DEF Along, FeatureTag, FirstNames
    <3> QED BY <2>1, <3>1 DEF LastNames
  <2>3. CASE c.verb # "up"
    BY <2>3, TagsAre DEF FeatureTag
  <2> QED BY <2>2, <2>3
<1> HIDE DEF tag
<1>7. ExportsComplete' /\ Touches(w)
  BY <1>1, <1>2, <1>5, <1>6, SendOne DEF i
<1>8. Along(w)'
  <2>1. LastNames(w)' = LastNames(w)
    BY <1>1, SameWords
  <2> QED BY <1>3, <1>4, <1>6, <2>1 DEF Along, After
<1> QED BY <1>1, <1>3, <1>7, <1>8, OneGoes

LEMMA AlongRelabel ==
  ASSUME WayInv, NEW w \in Workspaces, RelabelImage(w)
  PROVE  WayInv'
<1> DEFINE c == command[w]
           base == images[c.name]
           exports == c.push \/ c.output
           tag == TagOf(w, exports)
           labelled == [entries |-> base.entries \o Config(w), features |-> base.features, uid |-> base.uid]
           fields(pc1) == [name |-> tag, pc |-> pc1]
<1>1. c.pc = "relabel" /\ UNCHANGED setup
  BY DEF RelabelImage, On
<1>2. Along(w) /\ ~setup[w].features /\ BareFor(base, w, c.informed)
  BY <1>1 DEF WayInv, Along
<1>3. tag \in LastNames(w) /\ tag # <<Base(w)>>
  BY TagsAre DEF TagOf, FolderName
<1>4. ASSUME NEW next \in {"end", "done"}, To(w, fields(next))
      PROVE  CommandIs(w, fields(next)) /\ Along(w)'
  <2>1. CommandIs(w, fields(next))
    BY <1>4, CommandOf DEF WayInv
  <2>2. command'[w].pc = next /\ command'[w].verb = c.verb /\ command'[w].named = c.named
    BY <2>1 DEF CommandIs, CommandFields
  <2> HIDE DEF fields, tag
  <2> QED BY <1>2, <2>1, <2>2 DEF Along
<1>5. CASE Produce(w, tag, labelled, exports /\ c.buildx, c.informed) /\ To(w, fields("end"))
  <2>1. Describes(labelled.entries, w, c.informed) /\ HasFeaturesOf(labelled, w)
    BY <1>2, BareDescribes DEF HasFeaturesOf
  <2>2. CommandIs(w, fields("end")) /\ Along(w)'
    BY <1>4, <1>5
  <2> HIDE DEF fields, tag, exports, labelled
  <2>3. ExportsComplete' /\ Touches(w)
    BY <1>1, <1>3, <1>5, <2>1, SendOne
  <2> QED BY <1>1, <2>2, <2>3, OneGoes
<1>6. CASE Produce(w, tag, base, FALSE, c.informed) /\ To(w, fields("done"))
  <2>1. CommandIs(w, fields("done")) /\ Along(w)'
    BY <1>4, <1>6
  <2> HIDE DEF fields, tag, exports, base
  <2>2. ExportsComplete' /\ Touches(w)
    BY <1>1, <1>3, <1>6, SendOne
  <2> QED BY <1>1, <2>1, <2>2, OneGoes
<1>7. CASE UNCHANGED <<images, exported>> /\ To(w, fields("done"))
  <2>1. CommandIs(w, fields("done")) /\ Along(w)'
    BY <1>4, <1>7
  <2> HIDE DEF fields
  <2> QED BY <1>1, <1>7, <2>1, OneGoes, ExportsStay DEF WayInv, Touches
<1> QED BY <1>5, <1>6, <1>7 DEF RelabelImage

LEMMA AlongUid ==
  ASSUME WayInv, NEW w \in Workspaces, UpdateUid(w)
  PROVE  WayInv'
<1> DEFINE c == command[w]
           tag == UidTag(w, c.name)
           i == [images[c.name] EXCEPT !.uid = TRUE]
           fields(due, informed) == [pc |-> "run", name |-> IF due THEN tag ELSE c.name, informed |-> informed]
<1>1. c.pc = "uid" /\ UNCHANGED <<setup, exported>> /\ (UNCHANGED images \/ images' = [images EXCEPT ![tag] = i])
  BY DEF UpdateUid, On
<1>2. PICK due \in BOOLEAN, seen \in BOOLEAN : CommandIs(w, fields(due, c.informed /\ seen))
  <2>1. PICK due \in BOOLEAN, seen \in BOOLEAN : To(w, fields(due, c.informed /\ seen))
    BY DEF UpdateUid, Answers
  <2> HIDE DEF fields
  <2> QED BY <2>1, CommandOf DEF WayInv
<1>3. command'[w].pc = "run" /\ command'[w].verb = c.verb /\ command'[w].named = c.named
  BY <1>2 DEF CommandIs, CommandFields
<1> HIDE DEF fields, i
<1>4. tag \in UidNames(w) /\ tag # <<Base(w)>>
  <2>1. tag \in UidNames(w)
    BY <1>1, UidTagIs DEF WayInv, Along
  <2> HIDE DEF tag
  <2> QED BY <2>1 DEF UidNames
<1> HIDE DEF tag
<1>5. Touches(w)
  BY <1>1, <1>4 DEF Touches
<1>6. Along(w)'
  BY <1>3 DEF WayInv, Along
<1> QED BY <1>1, <1>2, <1>5, <1>6, OneGoes, ExportsStay DEF WayInv

(* Commands begin and end, with the tags as they are.                      *)
LEMMA AlongOthers ==
  ASSUME WayInv, NEW w \in Workspaces,
         RunContainer(w) \/ EndBuild(w) \/ BuildFails(w) \/ \E o \in Options : BeginCommand(w, o)
  PROVE  WayInv'
<1>1. UNCHANGED <<setup, images, exported>>
  <2>1. RunContainer(w) => UNCHANGED <<setup, images, exported>>
    BY Zenon DEF RunContainer
  <2>2. CASE ~RunContainer(w)
    BY <2>2 DEF EndBuild, BuildFails, BeginCommand
  <2> QED BY <2>1, <2>2
<1>2. PICK fields : To(w, fields) /\ DOMAIN fields \cap {"pc", "verb", "named"} \in {{"pc"}, {"pc", "verb", "named"}}
                    /\ fields.pc \in {"base", "done", "failed"}
                    /\ ("verb" \in DOMAIN fields => (fields.verb = "up" => ~fields.named))
  <2>1. CASE RunContainer(w) \/ EndBuild(w) \/ BuildFails(w)
    <3> DEFINE Small(fields) == /\ To(w, fields) /\ DOMAIN fields \cap {"pc", "verb", "named"} = {"pc"}
                                /\ fields.pc \in {"done", "failed"} /\ "verb" \notin DOMAIN fields
    <3>1. CASE RunContainer(w)
      <4>1. Small([pc |-> "done"])
        BY <3>1 DEF RunContainer, Then
      <4> QED BY <4>1
    <3>2. CASE EndBuild(w)
      <4>1. PICK last : To(w, [pc |-> "done", last |-> last])
        BY <3>2 DEF EndBuild
      <4>2. Small([pc |-> "done", last |-> last])
        BY <4>1
      <4> QED BY <4>2
    <3>3. CASE BuildFails(w)
      <4>1. Small([pc |-> "failed"])
        BY <3>3 DEF BuildFails, Then
      <4> QED BY <4>1
    <3> QED BY <2>1, <3>1, <3>2, <3>3
  <2>2. CASE \E o \in Options : BeginCommand(w, o)
    <3>1. PICK o \in Options : BeginCommand(w, o)
      BY <2>2
    <3> DEFINE fields == [pc |-> IF FlagConflict(o) THEN "failed" ELSE "base", verb |-> o.verb, named |-> o.named,
                 push |-> o.push, output |-> o.output, buildx |-> o.buildx, cached |-> o.cached, name |-> <<>>,
                 informed |-> TRUE, last |-> IF o.named /\ ~FlagConflict(o) THEN "failed" ELSE command[w].last]
    <3>2. To(w, fields) /\ (fields.verb = "up" => ~fields.named) /\ fields.pc \in {"base", "failed"}
          /\ DOMAIN fields = CommandFields
      BY <3>1 DEF BeginCommand, CommandFields
    <3> HIDE DEF fields
    <3> QED BY <3>2 DEF CommandFields
  <2> QED BY <2>1, <2>2
<1>3. CommandIs(w, fields)
  BY <1>2, CommandOf DEF WayInv
<1>4. /\ command'[w].pc \in {"base", "done", "failed"}
      /\ command'[w].verb = "up" => ~command'[w].named
  <2>1. command'[w].pc = fields.pc
    BY <1>2, <1>3 DEF CommandIs, CommandFields
  <2>2. CASE "verb" \in DOMAIN fields
    BY <1>2, <1>3, <2>1, <2>2 DEF CommandIs, CommandFields
  <2>3. CASE "verb" \notin DOMAIN fields
    <3>1. command'[w].verb = command[w].verb /\ command'[w].named = command[w].named
      BY <1>2, <1>3, <2>3 DEF CommandIs, CommandFields
    <3> QED BY <1>2, <2>1, <3>1 DEF WayInv, Along
  <2> QED BY <2>2, <2>3
<1>5. Along(w)'
  BY <1>4 DEF Along
<1> QED BY <1>1, <1>3, <1>5, OneGoes, ExportsStay DEF WayInv, Touches

LEMMA WayInductive == WayInv /\ [BuildNext]_buildVars => WayInv'
<1> SUFFICES ASSUME WayInv, [BuildNext]_buildVars PROVE WayInv'
  OBVIOUS
<1>1. ASSUME NEW w \in Workspaces, BuildStep(w) \/ BuildFails(w) \/ \E o \in Options : BeginCommand(w, o)
      PROVE  WayInv'
  BY <1>1, AlongBase, AlongCache, AlongDockerfile, AlongContent, AlongFeatures, AlongRelabel, AlongUid, AlongOthers DEF BuildStep
<1>2. CASE UNCHANGED buildVars
  <2>1. UNCHANGED <<setup, images, exported, command>>
    BY <1>2 DEF buildVars
  <2>2. SharedInv' /\ ExportsComplete'
    BY <2>1, ExportsStay DEF WayInv, SharedInv
  <2>3. ASSUME NEW w \in Workspaces PROVE Along(w)'
    <3>1. Given(w)' = Given(w)
      BY DEF Given
    <3> QED BY <2>1, <3>1, SameWords DEF WayInv, Along
  <2> QED BY <2>2, <2>3 DEF WayInv
<1> QED BY <1>1, <1>2 DEF BuildNext

LEMMA WayStart == BuildInit => WayInv
<1> SUFFICES ASSUME BuildInit PROVE WayInv
  OBVIOUS
<1>1. /\ NoCommand.pc = "idle" /\ NoCommand.named = FALSE /\ DOMAIN NoCommand = CommandFields
  BY DEF NoCommand, CommandFields
<1>2. SharedInv
  BY <1>1, SetupsAssumption DEF BuildInit, SharedInv
<1>3. ExportsComplete
  BY DEF BuildInit, ExportsComplete
<1>4. \A w \in Workspaces : Along(w)
  BY <1>1 DEF BuildInit, Along
<1> QED BY <1>2, <1>3, <1>4 DEF WayInv

(* build.go dockerfileBaseExport: nor does a build send an image away that *)
(* lacks what its configuration asks for, here whichever commands overlap: *)
(* --push and --output need buildx, which takes the Features from the      *)
(* build's own context and not from the shared content image.              *)
THEOREM ExportsAreWhole == BuildSpec => []ExportsComplete
<1>1. WayInv => ExportsComplete
  BY DEF WayInv
<1> QED BY <1>1, WayInductive, WayStart, PTL DEF BuildSpec
=============================================================================
