----------------------------- MODULE Containers -----------------------------
(***************************************************************************)
(* The containers of one workspace folder and the processes of the CLI     *)
(* that create, reuse, stop, remove and enter them: up (up.go runUp and    *)
(* runContainer, for an image or a Dockerfile), stop and down (stop.go)    *)
(* and exec (exec.go).  They share nothing but the daemon, in which they   *)
(* look a container up by its labels: the folder's, which every container  *)
(* here has, and its configuration's.                                      *)
(*                                                                         *)
(* One call of the daemon is one step.  RemoveContainer is the one step    *)
(* that module Removal promises; the hooks that up ends with are in        *)
(* Lifecycle.                                                              *)
(***************************************************************************)
EXTENDS Integers, Sequences

CONSTANTS
  Clients,      \* processes that serve one request after the other
  Configs,      \* the devcontainer.json files of the folder
  NoConfig,     \* no --config; the label of a container made without one
  Existing,     \* a sequence of the containers there are at first
  Requests,     \* the requests the clients may be started with
  MaxRequests,  \* bound: how many requests are served
  Faults        \* a subset of FaultKinds

FaultKinds == {"crash", "list", "inspect", "build", "initialize", "start", "stop", "remove"}

Request == [verb: {"up", "stop", "down", "exec"}, config: Configs \cup {NoConfig},
            remove: BOOLEAN,    \* --remove-existing-container
            expect: BOOLEAN,    \* --expect-existing-container
            blocked: BOOLEAN]   \* does the configuration name a disallowed Feature?

(* What `docker ps -a` can show of a container, and that it was removed.   *)
States == {"created", "running", "exited", "gone"}
Containers == [config: Configs \cup {NoConfig}, state: States]

(* up and exec have read a configuration; the flags are up's.              *)
ASSUME RequestsAssumption ==
  /\ Requests \subseteq Request
  /\ \A r \in Requests : r.verb \in {"up", "exec"} => r.config # NoConfig
ASSUME ConfigsAssumption == NoConfig \notin Configs
ASSUME ExistingAssumption == Existing \in Seq(Containers)
ASSUME BoundAssumption == MaxRequests \in Nat
ASSUME FaultsAssumption == Faults \subseteq FaultKinds

VARIABLES
  containers,  \* all containers ever made, oldest first
  pc,          \* where each client is; "idle" between two requests
  request,     \* the request it serves or served last
  target,      \* the container it works on, or None
  result,      \* how the last request ended
  served,      \* requests started so far
  calm         \* history: did no two requests overlap, did every lookup
               \* answer, the inspection before a start, and every removal
               \* and stop that up only tries?

vars == <<containers, pc, request, target, result, served, calm>>

None == 0

Live == {i \in DOMAIN containers : containers[i].state # "gone"}
Of(c) == {i \in Live : containers[i].config = c}
Running == {i \in Live : containers[i].state = "running"}

(* No configuration has two containers.                                    *)
AtMostOne == \A c \in Configs : \A i, j \in Of(c) : i = j

(* Bug: a container that does not run is not listed.                       *)
MatchingRunning(c) == (IF c = NoConfig THEN Live ELSE Of(c)) \cap Running
(* Bug: the configuration's label is left out of the filter.               *)
MatchingFolder(c) == Live

(* ListContainers(all = true): the containers with the folder's label and, *)
(* when a configuration is given, with its label.                          *)
Matching(c) == IF c = NoConfig THEN Live ELSE Of(c)

(* The daemon lists the newest first, and the callers take ids[0].         *)
IsFirst(i, S) == IF S = {} THEN i = None ELSE i \in S /\ \A j \in S : j <= i

Init ==
  /\ containers = Existing
  /\ pc = [p \in Clients |-> "idle"]
  /\ \E r \in Requests : request = [p \in Clients |-> r]
  /\ target = [p \in Clients |-> None]
  /\ result = [p \in Clients |-> "none"]
  /\ served = 0
  /\ calm = AtMostOne

Goto(p, where) == pc' = [pc EXCEPT ![p] = where] /\ UNCHANGED result
End(p, how) == pc' = [pc EXCEPT ![p] = "idle"] /\ result' = [result EXCEPT ![p] = how]
Aim(p, i) == target' = [target EXCEPT ![p] = i]
Finds(p, c) == \E i \in Matching(c) \cup {None} : IsFirst(i, Matching(c)) /\ Aim(p, i)
Becomes(i, s) == containers' = [containers EXCEPT ![i].state = s]
Gone(i) == containers[i].state = "gone"

Begin(p) ==
  /\ pc[p] = "idle" /\ served < MaxRequests
  /\ \E r \in Requests :
       /\ request' = [request EXCEPT ![p] = r]
       /\ pc' = [pc EXCEPT ![p] = IF r.verb = "up" THEN "list"
                                  ELSE IF r.config = NoConfig THEN "lookupFolder" ELSE "lookup"]
  /\ result' = [result EXCEPT ![p] = "none"]
  /\ Aim(p, None)
  /\ served' = served + 1
  /\ calm' = (calm /\ \A q \in Clients : pc[q] = "idle")
  /\ UNCHANGED containers

-----------------------------------------------------------------------------
(* up.                                                                     *)

Checks(p) == IF request[p].blocked THEN "blocked" ELSE "initialize"

(* The containers of this configuration.  A failed listing is none.        *)
List(p) ==
  /\ pc[p] = "list"
  /\ \/ /\ Finds(p, request[p].config)
        /\ Goto(p, IF target'[p] # None /\ request[p].remove THEN "removeExisting" ELSE Checks(p))
        /\ UNCHANGED calm
     \/ /\ "list" \in Faults
        /\ Aim(p, None) /\ Goto(p, Checks(p)) /\ calm' = FALSE
  /\ UNCHANGED <<containers, request, served>>

(* Bug: the container is forgotten and not removed.                        *)
RemoveExistingForgets(p) ==
  /\ pc[p] = "removeExisting"
  /\ Aim(p, None) /\ Goto(p, Checks(p))
  /\ UNCHANGED <<containers, request, served, calm>>

(* --remove-existing-container.  The container is forgotten, and an error  *)
(* of its removal with it.                                                 *)
RemoveExisting(p) ==
  /\ pc[p] = "removeExisting"
  /\ \/ Becomes(target[p], "gone") /\ UNCHANGED calm
     \/ "remove" \in Faults /\ UNCHANGED containers /\ calm' = FALSE
  /\ Aim(p, None) /\ Goto(p, Checks(p))
  /\ UNCHANGED <<request, served>>

(* A disallowed Feature ends up, and stops the container before.           *)
Blocked(p) ==
  /\ pc[p] = "blocked"
  /\ \/ /\ Finds(p, request[p].config)
        /\ IF target'[p] = None THEN End(p, "error") ELSE Goto(p, "stopBlocked")
        /\ UNCHANGED calm
     \/ /\ "list" \in Faults
        /\ Aim(p, None) /\ End(p, "error") /\ calm' = FALSE
  /\ UNCHANGED <<containers, request, served>>

StopBlocked(p) ==
  /\ pc[p] = "stopBlocked"
  /\ \/ target[p] \in Running /\ Becomes(target[p], "exited") /\ UNCHANGED calm
     \/ target[p] \notin Running /\ UNCHANGED <<containers, calm>>
     \/ /\ target[p] \in Running /\ Faults \cap {"inspect", "stop"} # {}
        /\ UNCHANGED containers /\ calm' = FALSE
  /\ End(p, "error")
  /\ UNCHANGED <<request, target, served>>

(* initializeCommand on the host; then a container is reused, expected or  *)
(* made.                                                                   *)
Initialize(p) ==
  /\ pc[p] = "initialize"
  /\ \/ target[p] # None /\ Goto(p, "reuse")
     \/ target[p] = None /\ request[p].expect /\ End(p, "error")
     \/ target[p] = None /\ ~request[p].expect /\ Goto(p, "create")
     \/ "initialize" \in Faults /\ End(p, "error")
  /\ UNCHANGED <<containers, request, target, served, calm>>

(* Bug: the stopped container is reported as it is.                        *)
ReuseStopped(p) ==
  /\ pc[p] = "reuse"
  /\ Goto(p, "inspect")
  /\ UNCHANGED <<containers, request, target, served, calm>>

(* A container that cannot be inspected, gone or not, is left as it is to  *)
(* the last inspection, which does not look whether it runs.               *)
Reuse(p) ==
  /\ pc[p] = "reuse"
  /\ \/ /\ Goto(p, IF Gone(target[p]) \/ target[p] \in Running THEN "inspect" ELSE "start")
        /\ UNCHANGED calm
     \/ "inspect" \in Faults /\ Goto(p, "inspect") /\ calm' = FALSE
  /\ UNCHANGED <<containers, request, target, served>>

(* The image is there or made, and `docker create` labels the container.   *)
Create(p) ==
  /\ pc[p] = "create"
  /\ \/ /\ containers' = Append(containers, [config |-> request[p].config, state |-> "created"])
        /\ Aim(p, Len(containers'))
        /\ Goto(p, "start")
     \/ /\ "build" \in Faults
        /\ End(p, "error") /\ UNCHANGED <<containers, target>>
  /\ UNCHANGED <<request, served, calm>>

StartTarget(p) ==
  /\ pc[p] = "start"
  /\ \/ ~Gone(target[p]) /\ Becomes(target[p], "running") /\ Goto(p, "inspect")
     \/ /\ Gone(target[p]) \/ "start" \in Faults
        /\ End(p, "error") /\ UNCHANGED containers
  /\ UNCHANGED <<request, target, served, calm>>

Inspect(p) ==
  /\ pc[p] = "inspect"
  /\ \/ ~Gone(target[p]) /\ End(p, "ok")
     \/ (Gone(target[p]) \/ "inspect" \in Faults) /\ End(p, "error")
  /\ UNCHANGED <<containers, request, target, served, calm>>

-----------------------------------------------------------------------------
(* stop, down and exec.                                                    *)

AfterLookup(p) == IF request[p].verb = "exec" THEN "enter" ELSE "stop"
(* stop and down: nothing to do; exec: "Dev container not found."          *)
NotFound(p) == End(p, IF request[p].verb = "exec" THEN "error" ELSE "nothing")

(* A failed lookup fails exec, and is no container for stop and down.      *)
LookupFails(p) ==
  /\ "list" \in Faults
  /\ pc[p] \in {"lookup", "lookupFolder"}
  /\ NotFound(p)
  /\ calm' = FALSE
  /\ UNCHANGED <<containers, request, target, served>>

Lookup(p) ==
  /\ pc[p] = "lookup"
  /\ Finds(p, request[p].config)
  /\ Goto(p, IF target'[p] = None THEN "lookupFolder" ELSE AfterLookup(p))
  /\ UNCHANGED <<containers, request, served, calm>>

LookupFolder(p) ==
  /\ pc[p] = "lookupFolder"
  /\ Finds(p, NoConfig)
  /\ IF target'[p] = None THEN NotFound(p) ELSE Goto(p, AfterLookup(p))
  /\ UNCHANGED <<containers, request, served, calm>>

(* StopContainer: a container that does not run is left as it is.          *)
StopTarget(p) ==
  /\ pc[p] = "stop"
  /\ \/ /\ ~Gone(target[p])
        /\ IF target[p] \in Running THEN Becomes(target[p], "exited") ELSE UNCHANGED containers
        /\ IF request[p].verb = "down" THEN Goto(p, "remove") ELSE End(p, "ok")
     \/ /\ Gone(target[p]) \/ "stop" \in Faults
        /\ End(p, "error") /\ UNCHANGED containers
  /\ UNCHANGED <<request, target, served, calm>>

(* The removal of a container that somebody else removes meanwhile ends in *)
(* success or in an error.                                                 *)
RemoveTarget(p) ==
  /\ pc[p] = "remove"
  /\ \/ Becomes(target[p], "gone") /\ End(p, "ok")
     \/ /\ Gone(target[p]) \/ "remove" \in Faults
        /\ End(p, "error") /\ UNCHANGED containers
  /\ UNCHANGED <<request, target, served, calm>>

(* exec inspects the container, and enters it only when it runs.           *)
Enter(p) ==
  /\ pc[p] = "enter"
  /\ \/ target[p] \in Running /\ End(p, "ok")
     \/ (target[p] \notin Running \/ "inspect" \in Faults) /\ End(p, "error")
  /\ UNCHANGED <<containers, request, target, served, calm>>

-----------------------------------------------------------------------------
(* The process ends in the middle of a request.                            *)
Crash(p) ==
  /\ "crash" \in Faults
  /\ pc[p] # "idle"
  /\ End(p, "crashed")
  /\ UNCHANGED <<containers, request, target, served, calm>>

Rest == served = MaxRequests /\ (\A p \in Clients : pc[p] = "idle") /\ UNCHANGED vars

Up(p) ==
  \/ List(p) \/ RemoveExisting(p) \/ Blocked(p) \/ StopBlocked(p) \/ Initialize(p)
  \/ Reuse(p) \/ Create(p) \/ StartTarget(p) \/ Inspect(p)
StopDownExec(p) ==
  \/ Lookup(p) \/ LookupFails(p) \/ LookupFolder(p)
  \/ StopTarget(p) \/ RemoveTarget(p) \/ Enter(p)

Next == Rest \/ \E p \in Clients : Begin(p) \/ Up(p) \/ StopDownExec(p) \/ Crash(p)

Spec == Init /\ [][Next]_vars

-----------------------------------------------------------------------------
(* Containers.tla's variables have their types (up.go upRunner, stop.go    *)
(* stopOpts, exec.go execOpts; the states are the daemon's).               *)
TypeOK ==
  /\ containers \in Seq(Containers)
  /\ pc \in [Clients -> {"idle", "list", "removeExisting", "blocked", "stopBlocked", "initialize", "reuse",
                         "create", "start", "inspect", "lookup", "lookupFolder", "stop", "remove", "enter"}]
  /\ request \in [Clients -> Requests]
  /\ target \in [Clients -> 0..Len(containers)]
  /\ result \in [Clients -> {"none", "ok", "error", "nothing", "crashed"}]
  /\ served \in 0..MaxRequests
  /\ calm \in BOOLEAN

(* up.go runUp finds a container by [local_folder, config_file] and reuses *)
(* it, stopped or half made by an up that died: as long as lookups and     *)
(* removals answer and requests do not overlap, a configuration never has  *)
(* two containers.                                                         *)
OnePerConfig == calm => AtMostOne

(* up.go runUp reports success: the container it reports runs and is the   *)
(* only one of its configuration, unless the inspection on which it would  *)
(* have started it failed: then up reports one that was stopped.           *)
UpReportsRunning ==
  [][\A p \in Clients :
       calm' /\ request[p].verb = "up" /\ pc[p] # "idle" /\ result'[p] = "ok"
         => target[p] \in Running /\ Of(request[p].config) = {target[p]}]_vars

(* stop.go runStopOrDown: after a down --config that reports success the   *)
(* configuration has no container, whatever its state was.                 *)
DownLeavesNothing ==
  [][\A p \in Clients :
       /\ calm' /\ request[p].verb = "down" /\ request[p].config # NoConfig
       /\ pc[p] # "idle" /\ result'[p] \in {"ok", "nothing"}
       => Of(request[p].config)' = {}]_vars

(* up.go runUp, stopRunningContainer: up starts, stops, removes and makes  *)
(* containers of its own configuration only, whatever runs beside it.      *)
UpTouchesOwn ==
  [][\A p \in Clients : \A i \in DOMAIN containers' :
       /\ request[p].verb = "up" /\ pc[p] # "idle" /\ pc'[p] # pc[p]
       /\ i \in DOMAIN containers => containers'[i] # containers[i]
       => containers'[i].config = request[p].config]_vars

(* up.go: --expect-existing-container never makes a container, also when   *)
(* the container it found is removed before it is used.                    *)
ExpectMakesNothing ==
  [][\A p \in Clients :
       request[p].expect /\ pc[p] # "idle" /\ pc'[p] # pc[p] => Len(containers') = Len(containers)]_vars

(* docs/go-only-features.md:122-127: stop, down and exec resolve the       *)
(* container of --config, and fall back to the folder's for a container    *)
(* made without a configuration.                                           *)
ConfigFindsItsOwn ==
  [][\A p \in Clients :
       pc[p] \in {"lookup", "lookupFolder"} /\ request[p].config # NoConfig /\ target'[p] # None
         => containers[target'[p]].config \in {request[p].config, NoConfig}]_vars

(* The inductive invariant behind UpTouchesOwn and ExpectMakesNothing: a   *)
(* step of up belongs to a request of up, one that needs a container has   *)
(* one, up only ever aims at its configuration's, and an up that expects a *)
(* container does not get to make one.                                     *)
UpPlaces == {"list", "removeExisting", "blocked", "stopBlocked", "initialize", "reuse", "create", "start", "inspect"}
AimedPlaces == {"removeExisting", "stopBlocked", "reuse", "start", "inspect", "stop", "remove", "enter"}

PlacesInv ==
  \A p \in Clients :
    /\ pc[p] \in UpPlaces => request[p].verb = "up"
    /\ pc[p] \notin UpPlaces \cup {"idle"} => request[p].verb # "up"
    /\ pc[p] \in AimedPlaces => target[p] # None
    /\ pc[p] = "create" => ~request[p].expect
OwnInv ==
  \A p \in Clients : request[p].verb = "up" /\ target[p] # None => containers[target[p]].config = request[p].config
IInv == TypeOK /\ PlacesInv /\ OwnInv

(* The inductive invariant behind OnePerConfig: as long as all is calm, an *)
(* up without a target was told by the daemon, truthfully, that there is   *)
(* no container.                                                           *)
OneAtATime == \A p, q \in Clients : pc[p] # "idle" /\ pc[q] # "idle" => p = q
NoneBeforeCreate ==
  \A p \in Clients :
    /\ pc[p] = "create" \/ (pc[p] = "initialize" /\ target[p] = None) => Of(request[p].config) = {}
    /\ pc[p] = "removeExisting" => target[p] \in Of(request[p].config)
CalmInv == IInv /\ (calm => AtMostOne /\ OneAtATime /\ NoneBeforeCreate)

(* The inductive invariant behind UpReportsRunning and DownLeavesNothing:  *)
(* as long as all is calm, the container an up goes on with is its         *)
(* configuration's, and runs before the last inspection; what a down is    *)
(* about to remove is all its configuration has.                           *)
Held(p) ==
  /\ pc[p] # "idle" => result[p] = "none"
  /\ pc[p] = "enter" => request[p].verb = "exec"
  /\ pc[p] \in {"reuse", "start", "inspect"} \/ (pc[p] = "initialize" /\ target[p] # None)
       => target[p] \in Of(request[p].config)
  /\ pc[p] = "inspect" => target[p] \in Running
  /\ request[p].verb = "down" /\ request[p].config # NoConfig
       => /\ pc[p] = "lookupFolder" => Of(request[p].config) = {}
          /\ pc[p] \in {"stop", "remove"} => Of(request[p].config) \subseteq {target[p]}
HeldInv == CalmInv /\ (calm => \A p \in Clients : Held(p))
=============================================================================
