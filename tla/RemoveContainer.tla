--------------------------- MODULE RemoveContainer ---------------------------
(***************************************************************************)
(* EngineClient.RemoveContainer (src/internal/docker/engine.go): force-     *)
(* remove a container, and while the daemon says that a removal is already *)
(* in progress, wait up to a second for its destroy event and try again.   *)
(* Each remover is a process of the CLI; Other is any other client of the  *)
(* daemon (`docker rm`).                                                   *)
(***************************************************************************)
EXTENDS Integers

CONSTANTS
  Removers,    \* calls of RemoveContainer on one container
  Other,       \* a client of the daemon that is not the CLI
  maxRetries,  \* calls of the daemon before giving up
  Faults       \* a subset of FaultKinds

FaultKinds == {"fail", "stream", "cancel"}

ASSUME RemoversAssumption == Other \notin Removers
ASSUME RetriesAssumption == maxRetries \in Nat \ {0}
ASSUME FaultsAssumption == Faults \subseteq FaultKinds

VARIABLES
  state,     \* the container: "present", "removing" or "gone"
  owner,     \* whose request the daemon is executing or executed last
  pc,        \* where each call is
  tries,     \* requests it has sent to the daemon
  watching,  \* is it subscribed to the destroy event?
  event      \* was the event delivered to its subscription?

vars == <<state, owner, pc, tries, watching, event>>

Init ==
  /\ state = "present" /\ owner = Other
  /\ pc = [p \in Removers |-> "idle"]
  /\ tries = [p \in Removers |-> 0]
  /\ watching = [p \in Removers |-> FALSE]
  /\ event = [p \in Removers |-> FALSE]

Goto(p, where) == pc' = [pc EXCEPT ![p] = where]

Start(p) ==
  /\ pc[p] = "idle"
  /\ Goto(p, "request")
  /\ UNCHANGED <<state, owner, tries, watching, event>>

(* Bug: the last busy answer leaves the loop for its `return nil`.         *)
RequestFallsThrough(p) ==
  /\ pc[p] = "request"
  /\ tries' = [tries EXCEPT ![p] = @ + 1]
  /\ \/ state = "present" /\ state' = "removing" /\ owner' = p /\ Goto(p, "inflight")
     \/ state = "removing" /\ Goto(p, IF tries'[p] = maxRetries THEN "ok" ELSE "wait") /\ UNCHANGED <<state, owner>>
     \/ state = "gone" /\ Goto(p, "error") /\ UNCHANGED <<state, owner>>
  /\ UNCHANGED <<watching, event>>

(* ContainerRemove reaches the daemon.  Only "already in progress" is      *)
(* tried again, and not after the last try.                                *)
Request(p) ==
  /\ pc[p] = "request"
  /\ tries' = [tries EXCEPT ![p] = @ + 1]
  /\ \/ /\ state = "present"
        /\ state' = "removing" /\ owner' = p
        /\ Goto(p, "inflight")
     \/ /\ state = "removing"
        /\ Goto(p, IF tries'[p] = maxRetries THEN "error"
                   ELSE IF watching[p] THEN "wait" ELSE "subscribe")
        /\ UNCHANGED <<state, owner>>
     \/ /\ state = "gone"
        /\ Goto(p, "error")
        /\ UNCHANGED <<state, owner>>
  /\ UNCHANGED <<watching, event>>

(* Another client asks for the same removal.                               *)
OtherRequest ==
  /\ state = "present"
  /\ state' = "removing" /\ owner' = Other
  /\ UNCHANGED <<pc, tries, watching, event>>

(* The removal is over: who is subscribed by now gets the event.           *)
Destroy ==
  /\ state = "removing"
  /\ state' = "gone"
  /\ event' = [p \in Removers |-> event[p] \/ watching[p]]
  /\ UNCHANGED <<owner, pc, tries, watching>>

(* The removal fails, and so does the request that asked for it.           *)
DestroyFails ==
  /\ "fail" \in Faults
  /\ state = "removing"
  /\ state' = "present"
  /\ pc' = [p \in Removers |-> IF p = owner THEN "error" ELSE pc[p]]
  /\ UNCHANGED <<owner, tries, watching, event>>

Respond(p) ==
  /\ pc[p] = "inflight" /\ state = "gone"
  /\ Goto(p, "ok")
  /\ UNCHANGED <<state, owner, tries, watching, event>>

Subscribe(p) ==
  /\ pc[p] = "subscribe"
  /\ watching' = [watching EXCEPT ![p] = TRUE]
  /\ Goto(p, "wait")
  /\ UNCHANGED <<state, owner, tries, event>>

(* The select of the waiting loop.  What is ready first wins.              *)
Destroyed(p) ==
  /\ pc[p] = "wait" /\ event[p]
  /\ Goto(p, "ok")
  /\ UNCHANGED <<state, owner, tries, watching, event>>

(* Bug: the end of the stream is read as the event.                        *)
StreamFailsAsEvent(p) ==
  /\ "stream" \in Faults
  /\ pc[p] = "wait"
  /\ Goto(p, "ok")
  /\ UNCHANGED <<state, owner, tries, watching, event>>

StreamFails(p) ==
  /\ "stream" \in Faults
  /\ pc[p] = "wait"
  /\ Goto(p, "error")
  /\ UNCHANGED <<state, owner, tries, watching, event>>

(* Bug: the timer is not reset after it fired.                             *)
TimerOnce(p) ==
  /\ pc[p] = "wait" /\ tries[p] = 1
  /\ Goto(p, "request")
  /\ UNCHANGED <<state, owner, tries, watching, event>>

Timer(p) ==
  /\ pc[p] = "wait"
  /\ Goto(p, "request")
  /\ UNCHANGED <<state, owner, tries, watching, event>>

Cancel(p) ==
  /\ "cancel" \in Faults
  /\ pc[p] = "wait"
  /\ Goto(p, "error")
  /\ UNCHANGED <<state, owner, tries, watching, event>>

Returned(p) == pc[p] \in {"ok", "error"}

(* Every call has returned and the daemon has nothing to do.               *)
Rest == (\A p \in Removers : Returned(p)) /\ state # "removing" /\ UNCHANGED vars

(* The steps of the goroutine that runs a call, and those of its faults.   *)
Runs(p)  == Request(p) \/ Respond(p) \/ Subscribe(p) \/ Destroyed(p) \/ Timer(p)
Fails(p) == StreamFails(p) \/ Cancel(p)

(* The daemon answers the removals it was asked for by the CLI.            *)
Answer == owner \in Removers /\ (Destroy \/ DestroyFails)

Next ==
  \/ \E p \in Removers : Start(p) \/ Runs(p) \/ Fails(p)
  \/ OtherRequest \/ Destroy \/ DestroyFails \/ Rest

(* The goroutine of a call runs on and its timer fires; no fault has to    *)
(* happen, and nothing makes the daemon end a removal somebody else asked  *)
(* for.                                                                    *)
Fairness == (\A p \in Removers : WF_vars(Runs(p))) /\ WF_vars(Answer)

Spec == Init /\ [][Next]_vars /\ Fairness

-----------------------------------------------------------------------------
(* engine.go RemoveContainer: the variables have their types, and no call  *)
(* asks the daemon more than maxRetries times.                             *)
TypeOK ==
  /\ state \in {"present", "removing", "gone"}
  /\ owner \in Removers \cup {Other}
  /\ pc \in [Removers -> {"idle", "request", "inflight", "subscribe", "wait", "ok", "error"}]
  /\ tries \in [Removers -> 0..maxRetries]
  /\ watching \in [Removers -> BOOLEAN]
  /\ event \in [Removers -> BOOLEAN]

(* engine.go RemoveContainer returns nil: the container is gone, whoever   *)
(* removed it.                                                             *)
SuccessMeansGone == \A p \in Removers : pc[p] = "ok" => state = "gone"

(* engine.go RemoveContainer: a call returns although a removal that       *)
(* somebody else asked for never ends.                                     *)
EveryCallReturns == \A p \in Removers : pc[p] # "idle" ~> Returned(p)

(* The inductive invariant behind SuccessMeansGone: an event is delivered  *)
(* only when the container is gone, and a request in flight is the one the *)
(* daemon executes.                                                        *)
IInv ==
  /\ TypeOK
  /\ SuccessMeansGone
  /\ \A p \in Removers : event[p] => state = "gone"
  /\ \A p \in Removers : pc[p] = "inflight" => owner = p /\ state \in {"removing", "gone"}
  /\ \A p \in Removers : pc[p] \in {"request", "subscribe", "wait"} => tries[p] < maxRetries
  /\ \A p \in Removers : pc[p] = "idle" => tries[p] = 0

(* What the callers are promised.                                          *)
Promise == INSTANCE Removal WITH
             outcome <- [p \in Removers |-> IF Returned(p) THEN pc[p] ELSE "none"]
PromiseSpec == Promise!Spec
=============================================================================
