------------------------------ MODULE Lifecycle ------------------------------
(***************************************************************************)
(* The lifecycle hooks of one dev container, run by `up`, `set-up` and     *)
(* `run-user-commands` (src/internal/cli/up.go runLifecycleForUp and       *)
(* applyLifecycleMarkers, src/internal/lifecycle/hooks.go RunHooks).       *)
(*                                                                         *)
(* A run inspects the container, resolves HOME in it, asks the marker file *)
(* of each of the four marked hooks, and only then runs the hooks that are *)
(* left, phase by phase.  Asking is a shell script in the container: it    *)
(* reads the marker, compares it with a timestamp, truncates it and prints *)
(* the timestamp, so another client, a restart or a crash can come between *)
(* any two of these steps.                                                 *)
(***************************************************************************)
EXTENDS Integers, Sequences, FiniteSets

CONSTANTS
  Clients,     \* processes that run hooks in the container
  Options,     \* the flags and the waitFor a run may have
  Commands,    \* Commands[h]: hook h's commands, each a set of parallel parts
  Faults,      \* what the environment may do: a subset of FaultKinds
  Concurrent,  \* may two clients work at the same time?
  MaxRuns,     \* bound: runs started
  MaxStarts    \* bound: starts of the container, those of a new one included

(* The phases in the order of RunHooks.  Initialize is a value of waitFor  *)
(* only: initializeCommand runs on the host, before the container exists.  *)
Initialize    == 0
OnCreate      == 1
UpdateContent == 2
PostCreate    == 3
PostStart     == 4
PostAttach    == 5
Phases == OnCreate..PostAttach
Marked == OnCreate..PostStart

Unknown == 0    \* the empty timestamp of a container that was not inspected
Absent  == 0    \* no marker file: `cat` fails and the script reads ENOENT
Empty   == -1   \* a marker file that was truncated and not yet printed to

RunOptions == [command: {"up", "set-up", "run-user-commands"},
               prebuild: BOOLEAN, skipNonBlocking: BOOLEAN,
               skipPostAttach: BOOLEAN, dotfiles: BOOLEAN,
               waitFor: Initialize..PostAttach]

FaultKinds == {"crash", "exec", "home", "inspect", "restart", "recreate"}

ASSUME OptionsAssumption ==
  /\ Options \subseteq RunOptions
  /\ \A o \in Options : o.command = "set-up" => ~o.prebuild /\ ~o.skipPostAttach
ASSUME CommandsAssumption == Commands \in [Phases -> Seq(SUBSET Nat)]
ASSUME FaultsAssumption == Faults \subseteq FaultKinds
ASSUME BoundsAssumption == MaxRuns \in Nat /\ MaxStarts \in Nat \ {0}
ASSUME ConcurrentAssumption == Concurrent \in BOOLEAN

VARIABLES
  created,         \* the container's createdAt
  started,         \* its startedAt
  marker,          \* the four marker files in its HOME
  dotfilesMarker,  \* does .dotfilesMarker exist?
  pc,              \* where each client is
  opt,             \* the options of its run
  snap,            \* the timestamps it read from the engine
  kept,            \* what became of each marked hook when its marker was asked
  at,              \* the hook it asks about or runs
  next,            \* the index of the hook's next command
  pending,         \* parts of the current command still running
  failed,          \* parts of the run's commands that failed
  begun,           \* history: timestamps each marked hook was begun for
  cutShort,        \* history: has a run been cut short or gone without markers?
  runs,            \* history: runs started
  raced            \* history: have two clients tested a marker before either truncated it?

container == <<created, started, marker, dotfilesMarker>>
client    == <<pc, opt, snap, kept, at, next, pending, failed>>
history   == <<begun, cutShort, runs, raced>>
vars      == <<container, client, history>>

(***************************************************************************)
(* What a client sees.                                                     *)
(***************************************************************************)
NoOptions == [command |-> "up", prebuild |-> FALSE, skipNonBlocking |-> FALSE,
              skipPostAttach |-> FALSE, dotfiles |-> FALSE, waitFor |-> UpdateContent]
NoStamps  == [created |-> Unknown, started |-> Unknown]
KeepAll   == [h \in Marked |-> "keep"]

Stamp(h)      == IF h = PostStart THEN started ELSE created
Content(p, h) == IF h = PostStart THEN snap[p].started ELSE snap[p].created

Quiescent == \A p \in Clients : pc[p] = "idle"

(* The commands client p has to run in its current phase.  A dropped hook  *)
(* has none, and postAttachCommand is never dropped, only skipped.         *)
CommandsOf(p) ==
  IF \/ at[p] \in Marked /\ kept[p][at[p]] \in {"dropped", "lost"}
     \/ at[p] = PostAttach /\ opt[p].skipPostAttach
  THEN << >>
  ELSE Commands[at[p]]

(* The run ends after this phase although later phases remain.  A waitFor  *)
(* of Initialize is no phase, and stops nothing.                           *)
Stops(p) ==
  \/ opt[p].prebuild /\ at[p] = UpdateContent
  \/ opt[p].skipNonBlocking /\ at[p] = opt[p].waitFor

Init ==
  /\ created = 1 /\ started = 1
  /\ marker = [h \in Marked |-> Absent]
  /\ dotfilesMarker = FALSE
  /\ pc = [p \in Clients |-> "idle"]
  /\ opt = [p \in Clients |-> NoOptions]
  /\ snap = [p \in Clients |-> NoStamps]
  /\ kept = [p \in Clients |-> KeepAll]
  /\ at = [p \in Clients |-> OnCreate]
  /\ next = [p \in Clients |-> 1]
  /\ pending = [p \in Clients |-> {}]
  /\ failed = [p \in Clients |-> {}]
  /\ begun = [h \in Marked |-> << >>]
  /\ cutShort = FALSE /\ runs = 0 /\ raced = FALSE

Goto(p, where) == pc' = [pc EXCEPT ![p] = where]

(* The client's process is gone; its local state is that of a fresh one.   *)
Leave(p) ==
  /\ Goto(p, "idle")
  /\ opt' = [opt EXCEPT ![p] = NoOptions]
  /\ snap' = [snap EXCEPT ![p] = NoStamps]
  /\ kept' = [kept EXCEPT ![p] = KeepAll]
  /\ at' = [at EXCEPT ![p] = OnCreate]
  /\ next' = [next EXCEPT ![p] = 1]
  /\ pending' = [pending EXCEPT ![p] = {}]
  /\ failed' = [failed EXCEPT ![p] = {}]

(***************************************************************************)
(* A run up to its markers.                                                *)
(***************************************************************************)
Begin(p) ==
  /\ pc[p] = "idle"
  /\ Concurrent \/ Quiescent
  /\ runs < MaxRuns
  /\ \E o \in Options : opt' = [opt EXCEPT ![p] = o]
  /\ Goto(p, "inspect")
  /\ runs' = runs + 1
  /\ UNCHANGED <<container, snap, kept, at, next, pending, failed, begun, cutShort, raced>>

Inspect(p) ==
  /\ pc[p] = "inspect"
  /\ snap' = [snap EXCEPT ![p] = [created |-> created, started |-> started]]
  /\ Goto(p, "home")
  /\ UNCHANGED <<container, opt, kept, at, next, pending, failed, history>>

(* up goes on with an inspection that failed and so without timestamps,    *)
(* set-up and run-user-commands report the error.                          *)
InspectFails(p) ==
  /\ "inspect" \in Faults
  /\ pc[p] = "inspect"
  /\ Goto(p, IF opt[p].command = "up" THEN "home" ELSE "failed")
  /\ cutShort' = TRUE
  /\ UNCHANGED <<container, opt, snap, kept, at, next, pending, failed, begun, runs, raced>>

ResolveHome(p) ==
  /\ pc[p] = "home"
  /\ Goto(p, "ask")
  /\ UNCHANGED <<container, opt, snap, kept, at, next, pending, failed, history>>

(* Without a HOME no marker is asked and every hook is kept.               *)
ResolveHomeFails(p) ==
  /\ "home" \in Faults
  /\ pc[p] = "home"
  /\ Goto(p, "phase")
  /\ cutShort' = TRUE
  /\ UNCHANGED <<container, opt, snap, kept, at, next, pending, failed, begun, runs, raced>>

(* Bug: a dropped hook's marker is asked again until it can be granted.    *)
AskedUntilGranted(p, answer) ==
  LET h == at[p]
  IN /\ kept' = [kept EXCEPT ![p][h] = answer]
     /\ Goto(p, IF h = PostStart /\ answer # "dropped" THEN "phase" ELSE "ask")
     /\ at' = [at EXCEPT ![p] = IF answer = "dropped" THEN h
                                ELSE IF h = PostStart THEN OnCreate ELSE h + 1]

(* dropRanHooks after the answer about hook at[p]: --prebuild keeps        *)
(* updateContentCommand whatever its marker says.                          *)
Asked(p, answer) ==
  LET h == at[p]
      forced == h = UpdateContent /\ opt[p].prebuild /\ answer # "granted"
  IN /\ kept' = [kept EXCEPT ![p][h] = IF forced THEN "keep" ELSE answer]
     /\ Goto(p, IF h = PostStart THEN "phase" ELSE "ask")
     /\ at' = [at EXCEPT ![p] = IF h = PostStart THEN OnCreate ELSE h + 1]

(* Bug: the script of the hooks in hs tests that the marker file exists    *)
(* and not what it holds.                                                  *)
AskMarkerExists(p, hs) ==
  /\ pc[p] = "ask"
  /\ LET drop == \/ marker[at[p]] \in {Empty, Content(p, at[p])}
                 \/ at[p] \in hs /\ marker[at[p]] # Absent
     IN \/ drop /\ Asked(p, "dropped")
        \/ ~drop /\ Goto(p, "truncate") /\ UNCHANGED <<kept, at>>
  /\ UNCHANGED <<container, opt, snap, next, pending, failed, history>>
AskMarkerExistsAny(p) == AskMarkerExists(p, Marked)
AskMarkerExistsPostCreate(p) == AskMarkerExists(p, {PostCreate})

(* The script's test: an unknown timestamp runs no script and keeps the    *)
(* hook, an empty marker and one that holds the timestamp drop it.         *)
AskMarker(p) ==
  /\ pc[p] = "ask"
  /\ \/ /\ Content(p, at[p]) = Unknown
        /\ Asked(p, "keep")
     \/ /\ Content(p, at[p]) # Unknown
        /\ marker[at[p]] \in {Empty, Content(p, at[p])}
        /\ Asked(p, "dropped")
     \/ /\ Content(p, at[p]) # Unknown
        /\ marker[at[p]] \notin {Empty, Content(p, at[p])}
        /\ Goto(p, "truncate")
        /\ UNCHANGED <<kept, at>>
  /\ raced' = \/ raced
              \/ pc'[p] = "truncate" /\ \E q \in Clients \ {p} : pc[q] = "truncate" /\ at[q] = at[p]
  /\ UNCHANGED <<container, opt, snap, next, pending, failed, begun, cutShort, runs>>

(* Bug: the script does not truncate the marker before it prints to it.    *)
TruncateMarkerNot(p) ==
  /\ pc[p] = "truncate"
  /\ Goto(p, "print")
  /\ UNCHANGED <<container, opt, snap, kept, at, next, pending, failed, history>>

TruncateMarker(p) ==
  /\ pc[p] = "truncate"
  /\ marker' = [marker EXCEPT ![at[p]] = Empty]
  /\ Goto(p, "print")
  /\ UNCHANGED <<created, started, dotfilesMarker, opt, snap, kept, at, next, pending, failed, history>>

(* Bug: every marker is printed the time of creation.                      *)
PrintMarkerCreated(p) ==
  /\ pc[p] = "print"
  /\ marker' = [marker EXCEPT ![at[p]] = snap[p].created]
  /\ Asked(p, "granted")
  /\ UNCHANGED <<created, started, dotfilesMarker, opt, snap, next, pending, failed, history>>

(* Bug: the marker is created but nothing is printed to it.                *)
PrintMarkerNothing(p) ==
  /\ pc[p] = "print"
  /\ Asked(p, "granted")
  /\ UNCHANGED <<container, opt, snap, next, pending, failed, history>>

PrintMarker(p) ==
  /\ pc[p] = "print"
  /\ marker' = [marker EXCEPT ![at[p]] = Content(p, at[p])]
  /\ Asked(p, "granted")
  /\ UNCHANGED <<created, started, dotfilesMarker, opt, snap, next, pending, failed, history>>

(* The exec returned an error or the script a non-zero code, wherever it   *)
(* was: the hook is dropped.                                               *)
MarkerFails(p) ==
  /\ \/ "exec" \in Faults /\ pc[p] \in {"ask", "truncate", "print"} /\ Content(p, at[p]) # Unknown
     \/ pc[p] = "killed"
  /\ \/ marker' = marker
     \/ pc[p] = "print" /\ marker' = [marker EXCEPT ![at[p]] = Content(p, at[p])]
  /\ Asked(p, "lost")
  /\ cutShort' = TRUE
  /\ UNCHANGED <<created, started, dotfilesMarker, opt, snap, next, pending, failed, begun, runs, raced>>

(***************************************************************************)
(* RunHooks over the hooks that are kept.                                  *)
(***************************************************************************)
StartCommand(p) ==
  /\ pc[p] = "phase"
  /\ next[p] <= Len(CommandsOf(p))
  /\ pending' = [pending EXCEPT ![p] = CommandsOf(p)[next[p]]]
  /\ Goto(p, "running")
  /\ begun' = IF next[p] = 1 /\ at[p] \in Marked /\ kept[p][at[p]] = "granted"
              THEN [begun EXCEPT ![at[p]] = Append(@, Content(p, at[p]))]
              ELSE begun
  /\ UNCHANGED <<container, opt, snap, kept, at, next, failed, cutShort, runs, raced>>

(* One of the command's parts ends, with success or failure.               *)
EndPart(p) ==
  /\ pc[p] = "running"
  /\ \E n \in pending[p] :
       /\ pending' = [pending EXCEPT ![p] = @ \ {n}]
       /\ failed' \in {failed, [failed EXCEPT ![p] = @ \cup {n}]}
  /\ UNCHANGED <<container, pc, opt, snap, kept, at, next, history>>

EndCommand(p) ==
  /\ pc[p] = "running"
  /\ pending[p] = {}
  /\ \/ /\ failed[p] = {}
        /\ next' = [next EXCEPT ![p] = @ + 1]
        /\ Goto(p, "phase")
        /\ UNCHANGED cutShort
     \/ /\ failed[p] # {}
        /\ Goto(p, "failed")
        /\ cutShort' = TRUE
        /\ UNCHANGED next
  /\ UNCHANGED <<container, opt, snap, kept, at, pending, failed, begun, runs, raced>>

NextPhase(p) ==
  /\ IF Stops(p) \/ at[p] = PostAttach
     THEN Goto(p, "done") /\ UNCHANGED <<at, next>>
     ELSE /\ Goto(p, "phase")
          /\ at' = [at EXCEPT ![p] = @ + 1]
          /\ next' = [next EXCEPT ![p] = 1]
  /\ cutShort' = (cutShort \/ (Stops(p) /\ at[p] < PostStart))

EndPhase(p) ==
  /\ pc[p] = "phase"
  /\ next[p] > Len(CommandsOf(p))
  /\ IF at[p] = PostCreate /\ opt[p].dotfiles
     THEN Goto(p, "dotfiles") /\ UNCHANGED <<at, next, cutShort>>
     ELSE NextPhase(p)
  /\ UNCHANGED <<container, opt, snap, kept, pending, failed, begun, runs, raced>>

(* The dotfiles script leaves when its marker exists.                      *)
CheckDotfiles(p) ==
  /\ pc[p] = "dotfiles"
  /\ IF dotfilesMarker THEN NextPhase(p) ELSE Goto(p, "install") /\ UNCHANGED <<at, next, cutShort>>
  /\ UNCHANGED <<container, opt, snap, kept, pending, failed, begun, runs, raced>>

(* It creates the marker, goes on to install whether or not it could, and  *)
(* a failure of the script is not the run's.                               *)
InstallDotfiles(p) ==
  /\ pc[p] = "install"
  /\ \/ dotfilesMarker' = TRUE
     \/ Faults \cap {"home", "exec"} # {} /\ UNCHANGED dotfilesMarker
  /\ NextPhase(p)
  /\ UNCHANGED <<created, started, marker, opt, snap, kept, pending, failed, begun, runs, raced>>

Finish(p) ==
  /\ pc[p] \in {"done", "failed"}
  /\ Leave(p)
  /\ UNCHANGED <<container, history>>

(***************************************************************************)
(* The environment.                                                        *)
(***************************************************************************)

(* The CLI process dies.  A marker script it had started in the container  *)
(* is killed with it or runs to its end.                                   *)
Crash(p) ==
  /\ "crash" \in Faults
  /\ pc[p] # "idle"
  /\ \/ marker' = marker
     \/ pc[p] = "truncate" /\ marker' = [marker EXCEPT ![at[p]] = Empty]
     \/ pc[p] \in {"truncate", "print"} /\ marker' = [marker EXCEPT ![at[p]] = Content(p, at[p])]
  /\ Leave(p)
  /\ cutShort' = TRUE
  /\ UNCHANGED <<created, started, dotfilesMarker, begun, runs, raced>>

(* The container is stopped and started: what runs in it is killed.        *)
Restart ==
  /\ "restart" \in Faults
  /\ started < MaxStarts
  /\ started' = started + 1
  /\ pc' = [p \in Clients |->
              CASE pc[p] = "running" -> "failed"
                [] pc[p] \in {"truncate", "print"} -> "killed"
                [] OTHER -> pc[p]]
  /\ pending' = [p \in Clients |-> {}]
  /\ cutShort' = (cutShort \/ \E p \in Clients : pc[p] = "running")
  /\ UNCHANGED <<created, marker, dotfilesMarker, opt, snap, kept, at, next, failed, begun, runs, raced>>

(* The container is replaced by a new one whose HOME is the same volume.   *)
Recreate ==
  /\ "recreate" \in Faults
  /\ Quiescent
  /\ started < MaxStarts
  /\ created' = created + 1
  /\ started' = started + 1
  /\ UNCHANGED <<marker, dotfilesMarker, client, history>>

(* No run is left to start: the bound MaxRuns is used up.                  *)
Rest == Quiescent /\ runs = MaxRuns /\ UNCHANGED vars

(* What a client does by itself, and what fails it.                        *)
Step(p) ==
  \/ Inspect(p) \/ ResolveHome(p)
  \/ AskMarker(p) \/ TruncateMarker(p) \/ PrintMarker(p)
  \/ (pc[p] = "killed" /\ MarkerFails(p))
  \/ StartCommand(p) \/ EndPart(p) \/ EndCommand(p) \/ EndPhase(p)
  \/ CheckDotfiles(p) \/ InstallDotfiles(p) \/ Finish(p)
Fails(p) == InspectFails(p) \/ ResolveHomeFails(p) \/ MarkerFails(p)

Next ==
  \/ \E p \in Clients : Begin(p) \/ Step(p) \/ Fails(p) \/ Crash(p)
  \/ Restart \/ Recreate \/ Rest

(* A started process is scheduled, and the commands a user configured are  *)
(* taken to end.  Nothing obliges a user to start a run, and no fault has  *)
(* to happen.                                                              *)
Fairness == \A p \in Clients : WF_vars(Step(p))

Spec == Init /\ [][Next]_vars /\ Fairness

-----------------------------------------------------------------------------
PCs == {"idle", "inspect", "home", "ask", "truncate", "print", "killed", "phase",
        "running", "dotfiles", "install", "done", "failed"}

(* The variables hold values of their types (updateMarkerFile's stamps,    *)
(* the phases of RunHooks, the flags of up.go).                            *)
TypeOK ==
  /\ created \in Nat \ {0} /\ started \in Nat \ {0}
  /\ marker \in [Marked -> Nat \cup {Empty}]
  /\ dotfilesMarker \in BOOLEAN
  /\ pc \in [Clients -> PCs]
  /\ opt \in [Clients -> RunOptions]
  /\ snap \in [Clients -> [created: Nat, started: Nat]]
  /\ kept \in [Clients -> [Marked -> {"keep", "granted", "dropped", "lost"}]]
  /\ at \in [Clients -> Phases]
  /\ next \in [Clients -> Nat \ {0}]
  /\ pending \in [Clients -> SUBSET Nat]
  /\ failed \in [Clients -> SUBSET Nat]
  /\ begun \in [Marked -> Seq(Nat)]
  /\ cutShort \in BOOLEAN /\ runs \in Nat /\ raced \in BOOLEAN

HasBegun(h, stamp) == \E i \in DOMAIN begun[h] : begun[h][i] = stamp

(* up.go applyLifecycleMarkers: a hook a marker lets run is begun at most  *)
(* once for a timestamp, and never for one older than its last.            *)
OncePerStamp ==
  \A h \in Marked : \A i, j \in DOMAIN begun[h] : i < j => begun[h][i] < begun[h][j]

(* Runs may ask at any time while others ask or run their hooks, and still *)
(* no hook of a creation is begun twice for it, unless two of them tested  *)
(* its marker before either had truncated it (up.go markerShouldRun, whose *)
(* script is all that keeps clients apart).                                *)
OnceUnlessRaced ==
  ~raced => \A h \in OnCreate..PostCreate :
              \A i, j \in DOMAIN begun[h] : i < j => begun[h][i] < begun[h][j]

(* up.go dropRanHooks: a hook is dropped because a previous run ran it.    *)
DroppedHadRun ==
  \A p \in Clients, h \in Marked :
    kept[p][h] = "dropped" /\ Commands[h] # << >> => HasBegun(h, Content(p, h))

(* A run that reached its last phase, on a container where no run was ever *)
(* cut short, leaves every marked hook begun for the timestamps it saw.    *)
CompleteRunRanAll ==
  \A p \in Clients, h \in Marked :
    pc[p] = "done" /\ ~cutShort /\ Commands[h] # << >> => HasBegun(h, Content(p, h))

(* The markers tell the truth between runs: unless some run was cut short, *)
(* no marker is left truncated and each stands for a hook that was begun.  *)
MarkersHonest ==
  Quiescent /\ ~cutShort =>
    \A h \in Marked : marker[h] # Absent /\ Commands[h] # << >> => HasBegun(h, marker[h])

(* The three hooks of a creation share their fate: between runs their      *)
(* markers hold the same timestamp, so no run gets only some of them.      *)
MarkersAgree ==
  Quiescent => marker[OnCreate] = marker[UpdateContent] /\ marker[UpdateContent] = marker[PostCreate]

(* Every run comes to an end, whatever its commands return.                *)
EveryRunEnds == \A p \in Clients : pc[p] # "idle" ~> pc[p] = "idle"

(***************************************************************************)
(* The inductive invariant behind OncePerStamp when one client works at a  *)
(* time: a marker holds at least the last timestamp its hook was begun     *)
(* for, and a hook that was granted but not yet begun has a marker holding *)
(* just the timestamp it will be begun for.                                *)
(***************************************************************************)
Asking(p) == pc[p] \in {"ask", "truncate", "print", "killed"}

BegunBefore(h, stamp) == \A i \in DOMAIN begun[h] : begun[h][i] < stamp

Awaits(p, h) ==
  /\ kept[p][h] = "granted"
  /\ Asking(p) \/ at[p] < h \/ (at[p] = h /\ pc[p] = "phase" /\ next[p] = 1)

Solo == \A p, q \in Clients : pc[p] # "idle" /\ pc[q] # "idle" => p = q

StampsInv ==
  /\ created <= started /\ started <= MaxStarts
  /\ \A h \in Marked : marker[h] <= Stamp(h)
  /\ \A p \in Clients, h \in Marked :
       /\ Content(p, h) <= Stamp(h)
       /\ Content(p, h) # Unknown => marker[h] <= Content(p, h)
       /\ pc[p] \in {"idle", "inspect"} => Content(p, h) = Unknown

SpentInv ==
  \A h \in Marked : \A i \in DOMAIN begun[h] :
    marker[h] = Empty \/ begun[h][i] <= marker[h]

PosInv ==
  \A p \in Clients :
    /\ pc[p] \in {"idle", "inspect", "home"} => at[p] = OnCreate /\ next[p] = 1
    /\ Asking(p) => at[p] \in Marked /\ next[p] = 1

AskInv ==
  \A p \in Clients :
    /\ pc[p] \in {"idle", "inspect", "home"} => \A h \in Marked : kept[p][h] # "granted"
    /\ Asking(p) => \A h \in at[p]..PostStart : kept[p][h] # "granted"
    /\ pc[p] = "truncate" => /\ Content(p, at[p]) # Unknown
                             /\ marker[at[p]] \notin {Empty, Content(p, at[p])}
    /\ pc[p] = "print" => /\ Content(p, at[p]) # Unknown
                          /\ marker[at[p]] = Empty
                          /\ BegunBefore(at[p], Content(p, at[p]))

AwaitInv ==
  \A p \in Clients, h \in Marked : Awaits(p, h) =>
    /\ Content(p, h) # Unknown
    /\ marker[h] = Content(p, h)
    /\ BegunBefore(h, Content(p, h))

IInv == TypeOK /\ PosInv /\ Solo /\ StampsInv /\ SpentInv /\ AskInv /\ AwaitInv /\ OncePerStamp

=============================================================================
