------------------------ MODULE RemoveContainerProofs ------------------------
(***************************************************************************)
(* RemoveContainer for any number of calls and of tries; ComposeUp for any *)
(* services, runs and faults; RemoteEnv for any commands, configurations   *)
(* and labels.                                                             *)
(***************************************************************************)
EXTENDS RemoveContainer, ComposeUp, RemoteEnv, FiniteSetTheorems, SequenceTheorems, TLAPS

(* IInv holds at first.                                                    *)
LEMMA Initial == Init => IInv
  BY RetriesAssumption DEF Init, IInv, TypeOK, SuccessMeansGone

(* IInv is inductive.                                                      *)
LEMMA Inductive == IInv /\ [Next]_vars => IInv'
  <1> SUFFICES ASSUME IInv, [Next]_vars PROVE IInv'
    OBVIOUS
  <1> USE DEF IInv, TypeOK, SuccessMeansGone, Goto
  <1>1. ASSUME NEW p \in Removers, Start(p) PROVE IInv'
    BY <1>1, RetriesAssumption DEF Start
  <1>2. ASSUME NEW p \in Removers, Request(p) PROVE IInv'
    <2>1. tries[p] + 1 \in 0..maxRetries /\ tries'[p] = tries[p] + 1
      BY <1>2, RetriesAssumption DEF Request
    <2>2. CASE state = "present"
      BY <1>2, <2>1, <2>2, RetriesAssumption, RemoversAssumption DEF Request
    <2>3. CASE state = "removing"
      <3>1. CASE tries'[p] = maxRetries
        BY <1>2, <2>1, <2>3, <3>1, RetriesAssumption DEF Request
      <3>2. CASE tries'[p] # maxRetries
        <4>1. pc'[p] \in {"wait", "subscribe"} /\ tries'[p] < maxRetries
          BY <1>2, <2>1, <2>3, <3>2, RetriesAssumption DEF Request
        <4>2. UNCHANGED <<state, owner, watching, event>>
          BY <1>2, <2>3 DEF Request
        <4>3. pc' = [pc EXCEPT ![p] = pc'[p]] /\ tries' = [tries EXCEPT ![p] = tries[p] + 1]
          BY <1>2, <2>3, <4>1 DEF Request
        <4>4. QED
          BY <2>1, <2>3, <4>1, <4>2, <4>3, RetriesAssumption
      <3>3. QED
        BY <3>1, <3>2
    <2>4. CASE state = "gone"
      BY <1>2, <2>1, <2>4, RetriesAssumption DEF Request
    <2>5. QED
      BY <2>2, <2>3, <2>4
  <1>3. ASSUME NEW p \in Removers, Respond(p) PROVE IInv'
    BY <1>3 DEF Respond
  <1>4. ASSUME NEW p \in Removers, Subscribe(p) PROVE IInv'
    BY <1>4 DEF Subscribe
  <1>5. ASSUME NEW p \in Removers, Destroyed(p) PROVE IInv'
    BY <1>5 DEF Destroyed
  <1>6. ASSUME NEW p \in Removers, StreamFails(p) PROVE IInv'
    BY <1>6 DEF StreamFails
  <1>7. ASSUME NEW p \in Removers, Timer(p) PROVE IInv'
    BY <1>7 DEF Timer
  <1>8. ASSUME NEW p \in Removers, Cancel(p) PROVE IInv'
    BY <1>8 DEF Cancel
  <1>9. CASE OtherRequest
    BY <1>9, RemoversAssumption DEF OtherRequest
  <1>10. CASE Destroy
    <2>1. event' \in [Removers -> BOOLEAN] /\ state' = "gone" /\ UNCHANGED <<owner, pc, tries, watching>>
      BY <1>10, Zenon DEF Destroy
    <2>2. QED
      BY <1>10, <2>1 DEF Destroy
  <1>11. CASE DestroyFails
    BY <1>11 DEF DestroyFails
  <1>12. CASE Rest
    BY <1>12 DEF Rest, vars
  <1>13. CASE UNCHANGED vars
    BY <1>13 DEF vars
  <1>14. QED
    BY <1>1, <1>2, <1>3, <1>4, <1>5, <1>6, <1>7, <1>8, <1>9, <1>10, <1>11, <1>12, <1>13 DEF Next, Runs, Fails

(* IInv is an invariant.                                                   *)
LEMMA Invariant == Spec => []IInv
  BY Initial, Inductive, PTL DEF Spec

(* engine.go RemoveContainer: the variables keep their types, so a call    *)
(* sends at most maxRetries requests.                                      *)
THEOREM TypeCorrect == Spec => []TypeOK
  <1>1. IInv => TypeOK
    BY DEF IInv
  <1>2. QED
    BY <1>1, Invariant, PTL

(* engine.go RemoveContainer: nil is returned only when the container is   *)
(* gone, for any number of calls, other clients and failing removals.      *)
THEOREM NilMeansGone == Spec => []SuccessMeansGone
  <1>1. IInv => SuccessMeansGone
    BY DEF IInv
  <1>2. QED
    BY <1>1, Invariant, PTL

(* engine.go RemoveContainer implements the promise of Removal: each step  *)
(* is a stutter, a step of the daemon or the return of one call.           *)
THEOREM ImplementsPromise == Spec => PromiseSpec
  <1> DEFINE outcome == [p \in Removers |-> IF Returned(p) THEN pc[p] ELSE "none"]
  <1>1. Init => Promise!Init
    BY DEF Init, Promise!Init, Returned
  <1>2. IInv /\ IInv' /\ [Next]_vars => [Promise!Next]_<<state, outcome>>
    <2> SUFFICES ASSUME IInv, IInv', [Next]_vars PROVE [Promise!Next]_<<state, outcome>>
      OBVIOUS
    <2> USE DEF IInv, TypeOK, SuccessMeansGone, Goto, Returned
    <2>1. ASSUME NEW p \in Removers, UNCHANGED state, pc'[p] \in {"ok", "error"}, pc[p] \notin {"ok", "error"},
                 pc' = [pc EXCEPT ![p] = pc'[p]]
          PROVE  Promise!Next
      <3>1. outcome[p] = "none" /\ outcome' = [outcome EXCEPT ![p] = pc'[p]]
        BY <2>1
      <3>2. pc'[p] = "ok" => state = "gone"
        BY <2>1
      <3>3. QED
        BY <2>1, <3>1, <3>2 DEF Promise!Next, Promise!Return
    <2>2. ASSUME NEW p \in Removers, pc'[p] \notin {"ok", "error"}, pc[p] \notin {"ok", "error"},
                 pc' = [pc EXCEPT ![p] = pc'[p]]
          PROVE  outcome' = outcome
      BY <2>2
    <2>3. ASSUME NEW p \in Removers, Start(p) \/ Runs(p) \/ Fails(p) PROVE [Promise!Next]_<<state, outcome>>
      <3>1. pc' = [pc EXCEPT ![p] = pc'[p]] /\ pc[p] \notin {"ok", "error"}
        BY <2>3 DEF Start, Runs, Fails, Request, Respond, Subscribe, Destroyed, StreamFails, Timer, Cancel
      <3>2. CASE UNCHANGED state
        BY <2>1, <2>2, <3>1, <3>2
      <3>3. CASE ~UNCHANGED state
        <4>1. state = "present" /\ state' = "removing" /\ pc'[p] = "inflight"
          BY <2>3, <3>3 DEF Start, Runs, Fails, Request, Respond, Subscribe, Destroyed, StreamFails, Timer, Cancel
        <4>2. outcome' = outcome
          BY <2>2, <3>1, <4>1
        <4>3. QED
          BY <4>1, <4>2 DEF Promise!Next, Promise!Begin
      <3>4. QED
        BY <3>2, <3>3
    <2>4. CASE OtherRequest
      BY <2>4 DEF OtherRequest, Promise!Next, Promise!Begin
    <2>5. CASE Destroy
      <3>1. state = "removing" /\ state' = "gone" /\ outcome' = outcome
        BY <2>5 DEF Destroy
      <3>2. outcome' \in [Removers -> {"none", "ok", "error"}]
        BY <3>1
      <3>3. QED
        BY <3>1, <3>2 DEF Promise!Next, Promise!End
    <2>6. CASE DestroyFails
      <3>1. state = "removing" /\ state' = "present"
        BY <2>6 DEF DestroyFails
      <3>2. outcome' \in [Removers -> {"none", "ok", "error"}]
        OBVIOUS
      <3>3. \A p \in Removers : outcome'[p] # outcome[p] => outcome[p] = "none" /\ outcome'[p] = "error"
        BY <2>6 DEF DestroyFails
      <3>4. QED
        BY <3>1, <3>2, <3>3 DEF Promise!Next, Promise!End
    <2>7. CASE Rest \/ UNCHANGED vars
      BY <2>7 DEF Rest, vars
    <2>8. QED
      BY <2>3, <2>4, <2>5, <2>6, <2>7 DEF Next
  <1>3. QED
    BY <1>1, <1>2, Invariant, PTL DEF Spec, PromiseSpec, Promise!Spec

-----------------------------------------------------------------------------
(* The types of the records of ComposeUp.                                  *)
ComposeConfs == [says : Services, rev : Nat]
EntryLists   == {<<>>, NoLabel, BaseImage.entries} \cup {Entries(conf) : conf \in ComposeConfs}
Overriding   == {OfImage} \cup {OverriddenLine(says) : says \in Services}
Running      == {<<>>} \cup {CommandLine([entrypoint |-> o.entrypoint, command |-> c]) :
                               o \in Overriding, c \in Lines \cup {p.command : p \in Overriding}}
Images     == [entries : EntryLists, features : Int, uid : BOOLEAN]
Files      == [run : Nat, kind : {"build", "start"}, image : ImageNames \cup {Unnamed}, label : EntryLists,
               line : Overriding]
ServiceSet == [running : BOOLEAN, image : Images, label : EntryLists, line : Running, files : Seq(Files),
               of : ComposeConfs, clean : BOOLEAN]
Steps      == {"find", "restore", "extend", "build", "uid", "override", "start", "list"}

ComposeTypeOK ==
  /\ composeConf \in ComposeConfs
  /\ tags \in [ImageNames -> Images]
  /\ service \in ServiceSet
  /\ compose \in [pc : Steps \cup {"idle", "done", "failed"}, verb : {"up", "build"}, conf : ComposeConfs,
                  expect : BOOLEAN, cacheFrom : BOOLEAN, found : ServiceSet, files : Seq(Files),
                  image : ImageNames \cup {Unnamed}, original : ImageNames \cup {Unnamed}, restored : BOOLEAN]
  /\ compose.pc \in {"build", "uid"} => compose.image \in ImageNames
  /\ composeRuns \in Nat

(* The files a container is made with: the container override and, below   *)
(* it, at most one build override, written by the same run.                *)
OfOneRun(fs) ==
  /\ Len(fs) \in {1, 2}
  /\ fs[Len(fs)].kind = "start"
  /\ Len(fs) = 2 => fs[1].kind = "build" /\ fs[1].run = fs[2].run

FilesInv ==
  /\ service = NoService \/ OfOneRun(service.files)
  /\ compose.found = NoService \/ OfOneRun(compose.found.files)
  /\ compose.pc \in {"build", "uid", "override"} =>
       /\ Len(compose.files) \in {0, 1}
       /\ Len(compose.files) = 1 => compose.files[1].kind = "build" /\ compose.files[1].run = composeRuns
  /\ compose.pc = "start" => OfOneRun(compose.files) /\ (compose.restored => compose.files = compose.found.files)
  /\ compose.restored => compose.found # NoService /\ compose.pc \in {"start", "list", "done", "failed"}

(* What is kept of no configuration and of no service is of the types.     *)
LEMMA NoServiceType == Services # {} => NoConf \in ComposeConfs /\ NoService \in ServiceSet /\ BaseImage \in Images
  BY DEF NoConf, ComposeConfs, NoService, ServiceSet, NoImage, Images, EntryLists, Running, BaseImage

(* A sequence of one.                                                      *)
LEMMA SingleIsSeq == ASSUME NEW S, NEW x \in S PROVE <<x>> \in Seq(S) /\ Len(<<x>>) = 1 /\ <<x>>[1] = x
  OBVIOUS

(* The first and the others of a sequence of at most two.                  *)
LEMMA SplitShort ==
  ASSUME NEW S, NEW s \in Seq(S) PROVE
    /\ Len(s) = 1 => <<>> \o <<s[1]>> = s
    /\ Len(s) = 2 => <<s[1]>> \o <<s[2]>> = s
  <1>1. CASE Len(s) = 1
    <2>1. s[1] \in S
      BY <1>1
    <2>2. <<s[1]>> \in Seq(S) /\ <<>> \o <<s[1]>> = <<s[1]>>
      BY <2>1
    <2>3. QED
      BY <1>1, <2>2
  <1>2. CASE Len(s) = 2
    <2>1. s[1] \in S /\ s[2] \in S
      <3>1. \A i \in 1..2 : s[i] \in S
        BY <1>2
      <3>2. QED
        BY <3>1
    <2>2. <<s[1]>> \in Seq(S) /\ <<s[2]>> \in Seq(S) /\ Len(<<s[1]>>) = 1 /\ Len(<<s[2]>>) = 1
      BY <2>1
    <2> DEFINE t == <<s[1]>> \o <<s[2]>>
    <2>3. t \in Seq(S) /\ Len(t) = 2 /\ t[1] = s[1] /\ t[2] = s[2]
      BY <2>1, <2>2
    <2> HIDE DEF t
    <2>4. t = s
      BY <1>2, <2>3
    <2>5. QED
      BY <1>2, <2>4 DEF t
  <1>3. QED
    BY <1>1, <1>2

(* The first of one sequence, one of at most one, and another.             *)
LEMMA FirstOfThree ==
  ASSUME NEW x, NEW y, NEW z, NEW s \in {<<>>, <<y>>} PROVE (<<x>> \o s \o <<z>>)[1] = x
  <1>1. <<x>> \in Seq({x, y, z}) /\ <<y>> \in Seq({x, y, z}) /\ <<z>> \in Seq({x, y, z}) /\ <<>> \in Seq({x, y, z})
    OBVIOUS
  <1>2. QED
    BY <1>1

(* The metadata of a configuration.                                        *)
LEMMA EntriesType == ASSUME NEW conf \in ComposeConfs PROVE Entries(conf) \in EntryLists /\ Entries(conf) # NoLabel
  <1> DEFINE base     == <<"base">>
             feature  == <<"feature", conf.rev>>
             config   == <<"config", conf.rev>>
             features == IF conf.says.features THEN <<feature>> ELSE <<>>
  <1>1. features \in {<<>>, <<feature>>}
    OBVIOUS
  <1>2. Entries(conf) = <<base>> \o features \o <<config>>
    BY DEF Entries
  <1>3. base # <<"none">>
    OBVIOUS
  <1> HIDE DEF base, feature, config, features
  <1>4. Entries(conf)[1] = base
    BY <1>1, <1>2, FirstOfThree
  <1>5. QED
    BY <1>3, <1>4 DEF NoLabel, EntryLists

(* generateComposeBuildOverride writes one build override of this run or none. *)
LEMMA BuildOverrideType ==
  ASSUME ComposeTypeOK PROVE
    /\ BuildOverride(compose) \in Seq(Files)
    /\ Len(BuildOverride(compose)) \in {0, 1}
    /\ Len(BuildOverride(compose)) = 1 => BuildOverride(compose)[1].kind = "build" /\ BuildOverride(compose)[1].run = composeRuns
  <1> DEFINE build == [run |-> composeRuns, kind |-> "build",
                       image |-> IF ~LabelsContainer(compose.conf.says, compose.verb) /\ ~compose.conf.says.build THEN "vsc" ELSE Unnamed,
                       label |-> NoLabel, line |-> OfImage]
  <1>1. build \in Files /\ build.kind = "build" /\ build.run = composeRuns
    BY DEF ComposeTypeOK, Files, ImageNames, EntryLists, Overriding
  <1>2. BuildOverride(compose) \in {<<>>, <<build>>}
    BY DEF BuildOverride
  <1> HIDE DEF build
  <1>3. <<build>> \in Seq(Files) /\ Len(<<build>>) = 1 /\ <<build>>[1] = build
    BY <1>1, SingleIsSeq, Zenon
  <1>4. CASE BuildOverride(compose) = <<>>
    BY <1>4
  <1>5. CASE BuildOverride(compose) = <<build>>
    BY <1>1, <1>3, <1>5
  <1>6. QED
    BY <1>2, <1>4, <1>5

(* The override that an up writes to start the service.                    *)
LEMMA StartOverrideType ==
  ASSUME ComposeTypeOK PROVE
    StartOverride(compose) \in Files /\ StartOverride(compose).kind = "start" /\ StartOverride(compose).run = composeRuns
  BY EntriesType DEF ComposeTypeOK, ComposeConfs, StartOverride, Files, EntryLists, Overriding

(* EffectiveName is what the last naming file says, or the original name.  *)
LEMMA EffectiveNameOfFiles ==
  ASSUME NEW says, NEW fs \in Seq(Files), Len(fs) \in {0, 1, 2} PROVE
    EffectiveName(says, fs) =
      IF Len(fs) = 2 /\ fs[2].image # Unnamed THEN fs[2].image
      ELSE IF Len(fs) >= 1 /\ fs[1].image # Unnamed THEN fs[1].image ELSE OriginalName(says)
  <1>1. Naming(fs) \subseteq 1..2
    BY DEF Naming
  <1>2. ASSUME NEW n \in Naming(fs), \A i \in Naming(fs) : n >= i PROVE Max(Naming(fs)) = n
    BY <1>1, <1>2 DEF Max
  <1>3. CASE Naming(fs) = {}
    BY <1>3 DEF EffectiveName, Naming
  <1>4. CASE 2 \in Naming(fs)
    BY <1>1, <1>2, <1>4 DEF EffectiveName, Naming
  <1>5. CASE Naming(fs) = {1}
    BY <1>2, <1>5 DEF EffectiveName, Naming
  <1>6. QED
    BY <1>1, <1>3, <1>4, <1>5

(* The image that the files name is one of the images.                     *)
LEMMA EffectiveNameType ==
  ASSUME NEW says, NEW fs \in Seq(Files), Len(fs) \in {0, 1, 2} PROVE EffectiveName(says, fs) \in ImageNames
  <1>1. \A i \in 1..2 : i <= Len(fs) => fs[i] \in Files
    OBVIOUS
  <1>4. \A f \in Files : f.image \in ImageNames \cup {Unnamed}
    BY DEF Files
  <1>2. OriginalName(says) \in ImageNames
    BY DEF OriginalName, ImageNames
  <1>3. QED
    BY <1>1, <1>2, <1>4, EffectiveNameOfFiles

(* What compose up makes of the files of a run has the type of a container. *)
LEMMA MadeType ==
  ASSUME ComposeTypeOK, Len(compose.files) \in {1, 2} PROVE Made(compose) \in ServiceSet
  <1> DEFINE last == Last(compose.files)
  <1>0. compose.files \in Seq(Files)
    BY DEF ComposeTypeOK
  <1>1. last \in Files
    BY <1>0 DEF Last
  <1>2. tags[EffectiveName(compose.conf.says, compose.files)] \in Images
    BY EffectiveNameType DEF ComposeTypeOK
  <1>3. last.label \in EntryLists /\ last.line \in Overriding
    BY <1>1 DEF Files
  <1>4. compose.conf.says.command \in Lines
    BY ServicesAssumption DEF ComposeTypeOK, ComposeConfs, ServiceSpace
  <1> DEFINE command == IF last.line.command # Unset THEN last.line.command ELSE compose.conf.says.command
             line    == CommandLine([entrypoint |-> last.line.entrypoint, command |-> command])
  <1>5. line \in Running
    <2>1. command \in Lines \cup {p.command : p \in Overriding}
      BY <1>3, <1>4
    <2> HIDE DEF command
    <2>2. QED
      BY <1>3, <2>1 DEF Running
  <1>6. Made(compose) = [running |-> TRUE, image |-> tags[EffectiveName(compose.conf.says, compose.files)], label |-> last.label,
                         line |-> line, files |-> compose.files, of |-> compose.conf, clean |-> compose.found = NoService]
    BY DEF Made
  <1> HIDE DEF last, line
  <1>7. QED
    BY <1>2, <1>3, <1>5, <1>6 DEF ComposeTypeOK, ServiceSet

(* checkPersistedComposeFile finds the one file of each kind.              *)
LEMMA PersistedOfOneRun ==
  ASSUME NEW fs \in Seq(Files), OfOneRun(fs) PROVE
    /\ Persisted(fs, "start") = {fs[Len(fs)]}
    /\ Persisted(fs, "build") = IF Len(fs) = 2 THEN {fs[1]} ELSE {}
  <1>1. CASE Len(fs) = 1
    <2>1. DOMAIN fs = {1} /\ fs[1].kind = "start" /\ "start" # "build" /\ 1..(1 - 1) = {}
      BY <1>1 DEF OfOneRun
    <2>2. QED
      BY <1>1, <2>1 DEF Persisted
  <1>2. CASE Len(fs) = 2
    <2>1. DOMAIN fs = {1, 2} /\ fs[1].kind = "build" /\ fs[2].kind = "start" /\ "start" # "build"
          /\ 1..(1 - 1) = {} /\ 1..(2 - 1) = {1}
      BY <1>2 DEF OfOneRun
    <2>2. QED
      BY <1>2, <2>1 DEF Persisted
  <1>3. QED
    BY <1>1, <1>2 DEF OfOneRun

ComposeInv == ComposeTypeOK /\ FilesInv

(* ComposeInv holds at first.                                              *)
LEMMA ComposeInitial == ComposeInit => ComposeInv
  <1> SUFFICES ASSUME ComposeInit PROVE ComposeInv
    OBVIOUS
  <1>1. Services # {}
    BY DEF ComposeInit
  <1>2. NoConf \in ComposeConfs /\ NoService \in ServiceSet /\ NoImage \in Images
    BY <1>1, NoServiceType DEF NoImage, Images, EntryLists
  <1>3. <<>> \in Seq(Files)
    OBVIOUS
  <1>4. ComposeTypeOK
    BY <1>2, <1>3 DEF ComposeInit, ComposeTypeOK, Idle, ComposeConfs
  <1>5. FilesInv
    BY DEF ComposeInit, FilesInv, Idle
  <1>6. QED
    BY <1>4, <1>5 DEF ComposeInv

(* ComposeInv is inductive.                                                *)
LEMMA ComposeInductive == ComposeInv /\ [ComposeNext]_composeVars => ComposeInv'
  <1> SUFFICES ASSUME ComposeInv, [ComposeNext]_composeVars PROVE ComposeInv'
    OBVIOUS
  <1> USE DEF ComposeInv
  <1>1. ASSUME NEW verb \in {"up", "build"}, NEW expect \in BOOLEAN, NEW cacheFrom \in BOOLEAN,
               BeginCompose(verb, expect, cacheFrom)
        PROVE  ComposeInv'
    <2>1. Services # {} /\ <<>> \in Seq(Files)
      BY DEF ComposeTypeOK, ComposeConfs
    <2>2. NoService \in ServiceSet
      BY <2>1, NoServiceType
    <2> DEFINE here == IF verb = "up" THEN "find" ELSE "extend"
    <2>7. here \in {"find", "extend"}
      OBVIOUS
    <2>3. compose' = [pc |-> here, verb |-> verb, conf |-> composeConf,
                      expect |-> expect, cacheFrom |-> cacheFrom, found |-> NoService, files |-> <<>>,
                      image |-> Unnamed, original |-> Unnamed, restored |-> FALSE]
      BY <1>1 DEF BeginCompose, Idle
    <2> HIDE DEF here
    <2>8. composeRuns' = composeRuns + 1 /\ UNCHANGED <<composeConf, tags, service>>
      BY <1>1 DEF BeginCompose
    <2>4. ComposeTypeOK'
      BY <2>1, <2>2, <2>3, <2>7, <2>8 DEF ComposeTypeOK, Steps
    <2>5. FilesInv'
      BY <2>3, <2>7, <2>8 DEF FilesInv
    <2>6. QED
      BY <2>4, <2>5
  <1>2. CASE FindService
    <2>1. compose' \in {[compose EXCEPT !.pc = "failed"], [compose EXCEPT !.pc = "done", !.found = service],
                        [compose EXCEPT !.pc = "restore", !.found = service]}
      BY <1>2 DEF FindService
    <2>2. compose.pc = "find" /\ UNCHANGED <<composeConf, tags, service, composeRuns>>
      BY <1>2 DEF FindService, At
    <2>3. CASE compose' = [compose EXCEPT !.pc = "failed"]
      BY <2>2, <2>3 DEF ComposeTypeOK, FilesInv
    <2>4. CASE compose' = [compose EXCEPT !.pc = "done", !.found = service]
      BY <2>2, <2>4 DEF ComposeTypeOK, FilesInv
    <2>5. CASE compose' = [compose EXCEPT !.pc = "restore", !.found = service]
      BY <2>2, <2>5 DEF ComposeTypeOK, FilesInv, Steps
    <2>6. QED
      BY <2>1, <2>3, <2>4, <2>5
  <1>3. CASE RestoreOverrides
    <2> DEFINE found == compose.found.files
               start == Persisted(found, "start")
               build == Persisted(found, "build")
               back  == compose.found # NoService /\ (Exists(build) \/ build = {}) /\ Exists(start)
               files == (IF Exists(build) THEN <<The(build)>> ELSE <<>>) \o <<The(start)>>
    <2>1. compose.found \in ServiceSet /\ found \in Seq(Files) /\ compose.pc = "restore"
      BY <1>3 DEF ComposeTypeOK, ServiceSet, RestoreOverrides, At
    <2>2. CASE back
      <3>1. OfOneRun(found)
        BY <2>2 DEF FilesInv
      <3>2. start = {found[Len(found)]} /\ build = IF Len(found) = 2 THEN {found[1]} ELSE {}
        BY <2>1, <3>1, PersistedOfOneRun
      <3>3. files = found
        <4>1. The(start) = found[Len(found)]
          BY <3>2 DEF The
        <4>2. CASE Len(found) = 1
          <5>1. ~Exists(build)
            BY <3>2, <4>2 DEF Exists
          <5>2. files = <<>> \o <<found[1]>>
            BY <4>1, <4>2, <5>1
          <5>3. QED
            BY <2>1, <4>2, <5>2, SplitShort
        <4>3. CASE Len(found) = 2
          <5>1. The(build) = found[1] /\ Exists(build)
            BY <2>2, <3>2, <4>3 DEF The
          <5>2. files = <<found[1]>> \o <<found[2]>>
            BY <4>1, <4>3, <5>1
          <5>3. QED
            BY <2>1, <4>3, <5>2, SplitShort
        <4>4. QED
          BY <3>1, <4>2, <4>3 DEF OfOneRun
      <3>4. compose' = [compose EXCEPT !.pc = "start", !.restored = TRUE, !.files = found]
        BY <1>3, <2>2, <3>3 DEF RestoreOverrides
      <3> HIDE DEF files, found, start, build, back
      <3>5. UNCHANGED <<composeConf, tags, service, composeRuns>>
        BY <1>3 DEF RestoreOverrides
      <3>6. ComposeTypeOK'
        BY <2>1, <3>4, <3>5 DEF ComposeTypeOK, Steps
      <3>7. compose.found # NoService /\ found = compose.found.files
        BY <2>2 DEF back, found
      <3>9. FilesInv'
        BY <3>1, <3>4, <3>5, <3>7 DEF FilesInv, ComposeTypeOK
      <3>8. QED
        BY <3>6, <3>9
    <2>3. CASE ~back
      <3>1. compose' = [compose EXCEPT !.pc = "extend"] /\ UNCHANGED <<composeConf, tags, service, composeRuns>>
        BY <1>3, <2>3 DEF RestoreOverrides
      <3>2. QED
        BY <2>1, <3>1 DEF ComposeTypeOK, Steps, FilesInv
    <2>4. QED
      BY <2>2, <2>3
  <1>4. CASE ExtendService
    <2> DEFINE build == BuildOverride(compose)
               name  == EffectiveName(compose.conf.says, build)
    <2>1. build \in Seq(Files) /\ Len(build) \in {0, 1} /\ (Len(build) = 1 => build[1].kind = "build" /\ build[1].run = composeRuns)
      BY BuildOverrideType
    <2>2. name \in ImageNames
      BY <2>1, EffectiveNameType
    <2>3. BaseImage \in Images
      BY NoServiceType DEF ComposeTypeOK, ComposeConfs
    <2>4. /\ tags' = [tags EXCEPT !["image"] = BaseImage]
          /\ compose' = [compose EXCEPT !.files = build, !.image = name, !.original = name,
                          !.pc = IF compose.found # NoService THEN "override" ELSE "build"]
          /\ UNCHANGED <<composeConf, service, composeRuns>> /\ compose.pc = "extend"
      BY <1>4 DEF ExtendService, At
    <2> HIDE DEF build, name
    <2>5. ComposeTypeOK'
      BY <2>1, <2>2, <2>3, <2>4 DEF ComposeTypeOK, Steps
    <2>6. FilesInv'
      BY <2>1, <2>4 DEF FilesInv, ComposeTypeOK
    <2>7. QED
      BY <2>5, <2>6
  <1>5. CASE BuildService
    <2> DEFINE built == [entries |-> Entries(compose.conf), uid |-> FALSE,
                         features |-> IF compose.conf.says.features THEN compose.conf.rev ELSE 0]
    <2>1. built \in Images
      BY EntriesType DEF ComposeTypeOK, ComposeConfs, Images
    <2>2. tags' \in {tags, [tags EXCEPT ![compose.image] = built]}
      BY <1>5 DEF BuildService
    <2> HIDE DEF built
    <2>3. tags' \in [ImageNames -> Images]
      BY <2>1, <2>2 DEF ComposeTypeOK
    <2>4. compose.pc = "build" /\ compose' \in {[compose EXCEPT !.pc = "uid"], [compose EXCEPT !.pc = "done"]}
          /\ UNCHANGED <<composeConf, service, composeRuns>>
      BY <1>5 DEF BuildService, At
    <2>5. ComposeTypeOK'
      BY <2>3, <2>4 DEF ComposeTypeOK, Steps
    <2>6. FilesInv'
      BY <2>4 DEF ComposeTypeOK, FilesInv
    <2>7. QED
      BY <2>5, <2>6
  <1>6. CASE UpdateUser
    <2>1. tags' \in {tags, [tags EXCEPT !["vsc-uid"] = [tags[compose.image] EXCEPT !.uid = TRUE]]}
      BY <1>6 DEF UpdateUser
    <2>2. compose.pc = "uid" /\ UNCHANGED <<composeConf, service, composeRuns>>
          /\ compose' \in {[compose EXCEPT !.pc = "override", !.image = "vsc-uid"], [compose EXCEPT !.pc = "override"]}
      BY <1>6 DEF UpdateUser, At
    <2>7. tags \in [ImageNames -> Images] /\ compose.image \in ImageNames
      BY <2>2 DEF ComposeTypeOK
    <2>8. [tags[compose.image] EXCEPT !.uid = TRUE] \in Images
      BY <2>7 DEF Images
    <2>3. tags' \in [ImageNames -> Images]
      BY <2>1, <2>7, <2>8
    <2>4. ComposeTypeOK'
      BY <2>2, <2>3 DEF ComposeTypeOK, Steps, ImageNames
    <2>5. FilesInv'
      BY <2>2 DEF ComposeTypeOK, FilesInv
    <2>6. QED
      BY <2>4, <2>5
  <1>7. CASE WriteStartOverride
    <2> DEFINE start == StartOverride(compose)
               files == Append(compose.files, start)
    <2>1. start \in Files /\ start.kind = "start" /\ start.run = composeRuns
      BY StartOverrideType
    <2>2. compose' = [compose EXCEPT !.pc = "start", !.files = files] /\ UNCHANGED <<composeConf, tags, service, composeRuns>>
      BY <1>7 DEF WriteStartOverride
    <2>3. compose.files \in Seq(Files) /\ compose.pc = "override"
      BY <1>7 DEF WriteStartOverride, At, ComposeTypeOK
    <2>4. Len(compose.files) \in {0, 1} /\ (Len(compose.files) = 1 => compose.files[1].kind = "build" /\ compose.files[1].run = composeRuns)
      BY <2>3 DEF FilesInv
    <2>5. files \in Seq(Files) /\ Len(files) = Len(compose.files) + 1 /\ files[Len(files)] = start
          /\ (Len(compose.files) = 1 => files[1] = compose.files[1])
      BY <2>1, <2>3
    <2> HIDE DEF start, files
    <2>6. OfOneRun(files)
      <3>1. CASE Len(compose.files) = 0
        BY <2>1, <2>5, <3>1 DEF OfOneRun
      <3>2. CASE Len(compose.files) = 1
        BY <2>1, <2>4, <2>5, <3>2 DEF OfOneRun
      <3>3. QED
        BY <2>4, <3>1, <3>2
    <2>7. ~compose.restored
      BY <2>3 DEF FilesInv, ComposeTypeOK
    <2>8. ComposeTypeOK'
      BY <2>2, <2>5 DEF ComposeTypeOK, Steps
    <2>9. FilesInv'
      BY <2>2, <2>6, <2>7 DEF ComposeTypeOK, FilesInv
    <2>10. QED
      BY <2>8, <2>9
  <1>8. CASE StartService
    <2>1. compose.pc = "start" /\ compose' = [compose EXCEPT !.pc = "list"] /\ UNCHANGED <<composeConf, tags, composeRuns>>
          /\ \/ service # NoService /\ service' = [service EXCEPT !.running = TRUE]
             \/ service' = Made(compose)
      BY <1>8 DEF StartService, At
    <2>2. OfOneRun(compose.files) /\ Len(compose.files) \in {1, 2}
      BY <2>1 DEF FilesInv, OfOneRun
    <2>3. Made(compose) \in ServiceSet /\ Made(compose).files = compose.files
      BY <2>2, MadeType DEF Made
    <2>4. ComposeTypeOK'
      BY <2>1, <2>3 DEF ComposeTypeOK, Steps, ServiceSet
    <2>5. FilesInv'
      BY <2>1, <2>2, <2>3 DEF ComposeTypeOK, FilesInv, ServiceSet
    <2>6. QED
      BY <2>4, <2>5
  <1>9. CASE ListStarted \/ ComposeFails
    <2>1. compose' \in {[compose EXCEPT !.pc = "failed"], [compose EXCEPT !.pc = "done"]}
          /\ UNCHANGED <<composeConf, tags, service, composeRuns>>
      BY <1>9 DEF ListStarted, ComposeFails
    <2>2. ComposeTypeOK'
      BY <2>1 DEF ComposeTypeOK
    <2>3. FilesInv'
      BY <2>1 DEF ComposeTypeOK, FilesInv
    <2>4. QED
      BY <2>2, <2>3
  <1>10. CASE StopService
    <2>1. service' = [service EXCEPT !.running = FALSE] /\ service # NoService
          /\ UNCHANGED <<composeConf, tags, compose, composeRuns>>
      BY <1>10 DEF StopService, NoService
    <2>6. service' \in ServiceSet /\ service'.files = service.files
      <3>1. service \in ServiceSet
        BY DEF ComposeTypeOK
      <3>2. QED
        BY <2>1, <3>1 DEF ServiceSet
    <2>2. ComposeTypeOK'
      BY <2>1, <2>6 DEF ComposeTypeOK
    <2>3. service'.files = service.files
      BY <2>6
    <2>4. FilesInv'
      BY <2>1, <2>3 DEF FilesInv
    <2>5. QED
      BY <2>2, <2>4
  <1>11. CASE DownService \/ LoseOverride \/ EditService
    <2>1. NoService \in ServiceSet
      BY NoServiceType DEF ComposeTypeOK, ComposeConfs
    <2>2. UNCHANGED <<tags, compose, composeRuns>> /\ service' \in {service, NoService} /\ composeConf' \in ComposeConfs
      BY <1>11 DEF DownService, LoseOverride, EditService, ComposeTypeOK, ComposeConfs
    <2>3. QED
      BY <2>1, <2>2 DEF ComposeTypeOK, FilesInv
  <1>12. CASE UNCHANGED composeVars
    BY <1>12 DEF composeVars, ComposeTypeOK, FilesInv
  <1>13. QED
    BY <1>1, <1>2, <1>3, <1>4, <1>5, <1>6, <1>7, <1>8, <1>9, <1>10, <1>11, <1>12 DEF ComposeNext, ComposeStep

(* ... hence an invariant.                                                 *)
LEMMA ComposeInvariant == ComposeSpec => []ComposeInv
  BY ComposeInitial, ComposeInductive, PTL DEF ComposeSpec

(* compose_up.go startComposeContainer: Compose is given the override files *)
(* of one run, and all of those a found container was made with or none.    *)
THEOREM ComposeFilesOfOneRun == ComposeSpec => []OverridesOfOneRun
  <1>1. ComposeInv => OverridesOfOneRun
    <2> SUFFICES ASSUME ComposeInv, compose.pc = "start"
                 PROVE  /\ \A f, g \in Range(compose.files) : f.run = g.run
                        /\ compose.restored => Range(compose.files) = Range(compose.found.files)
      BY DEF OverridesOfOneRun
    <2>1. compose.files \in Seq(Files) /\ OfOneRun(compose.files) /\ (compose.restored => compose.files = compose.found.files)
      BY DEF ComposeInv, ComposeTypeOK, FilesInv
    <2>2. DOMAIN compose.files \subseteq 1..2 /\ \A i, j \in DOMAIN compose.files : compose.files[i].run = compose.files[j].run
      BY <2>1 DEF OfOneRun
    <2>3. QED
      BY <2>1, <2>2 DEF Range
  <1>2. QED
    BY <1>1, ComposeInvariant, PTL

(* compose.go Up: an up that found the container starts that one, whatever  *)
(* is edited, lost or stopped meanwhile.                                    *)
THEOREM ComposeKeepsFound == ComposeSpec => FoundServiceKept
  <1> DEFINE Kept == compose.found # NoService /\ service # NoService /\ service' # NoService
                       => service' = [service EXCEPT !.running = service'.running]
  <1>1. ComposeInv /\ ComposeInv' /\ [ComposeNext]_composeVars => [Kept]_composeVars
    <2> SUFFICES ASSUME ComposeInv, ComposeNext, compose.found # NoService, service # NoService, service' # NoService
                 PROVE  service' = [service EXCEPT !.running = service'.running]
      OBVIOUS
    <2>1. service \in ServiceSet
      BY DEF ComposeInv, ComposeTypeOK
    <2>2. service' \in {service, [service EXCEPT !.running = TRUE], [service EXCEPT !.running = FALSE]}
      BY DEF ComposeNext, ComposeStep, BeginCompose, FindService, RestoreOverrides, ExtendService, BuildService, UpdateUser,
             WriteStartOverride, StartService, ListStarted, ComposeFails, StopService, DownService, LoseOverride, EditService
    <2>3. QED
      BY <2>1, <2>2 DEF ServiceSet
  <1>2. QED
    BY <1>1, ComposeInvariant, PTL DEF ComposeSpec, FoundServiceKept

(* What an up promises of a container that it made anew.                   *)
Fits(c) ==
  /\ (IF c.label # NoLabel THEN c.label ELSE c.image.entries) = Entries(c.of)
  /\ c.image.features = IF c.of.says.features THEN c.of.rev ELSE 0
  /\ c.image.uid = c.of.says.uid
  /\ c.line = <<"wrapper">> \o (IF c.of.says.override THEN <<>> ELSE CommandLine(c.of.says))

(* The image an up has before the update of the user.                      *)
Built(conf, verb) ==
  IF LabelsContainer(conf.says, verb) THEN BaseImage
  ELSE [entries |-> Entries(conf), uid |-> FALSE, features |-> IF conf.says.features THEN conf.rev ELSE 0]

MatchInv ==
  /\ service.clean => Fits(service)
  /\ compose.pc \notin {"idle", "done", "failed", "extend", "build"} => compose.verb = "up"
  /\ compose.verb = "build" => compose.found = NoService
  /\ compose.verb = "build" /\ compose.pc = "done" => tags[compose.image].entries = Entries(compose.conf)
  /\ compose.pc \in {"build", "uid"} =>
       /\ compose.found = NoService
       /\ compose.image = compose.original
  /\ compose.pc \in {"build", "uid", "override"} /\ compose.found = NoService =>
       /\ compose.files = BuildOverride(compose)
       /\ compose.original = EffectiveName(compose.conf.says, compose.files)
  /\ compose.pc = "build" => tags["image"] = BaseImage
  /\ compose.pc = "uid" => tags[compose.image] = Built(compose.conf, compose.verb)
  /\ compose.pc = "override" /\ compose.found = NoService =>
       /\ compose.image = IF compose.conf.says.uid THEN "vsc-uid" ELSE compose.original
       /\ tags[compose.image] = [Built(compose.conf, compose.verb) EXCEPT !.uid = compose.conf.says.uid]
  /\ compose.pc = "start" /\ compose.found = NoService => Fits(Made(compose))

(* The name of the image an up asks for is known once it wrote the build override. *)
LEMMA NameOfBuild ==
  ASSUME ComposeTypeOK PROVE
    EffectiveName(compose.conf.says, BuildOverride(compose)) =
      IF LabelsContainer(compose.conf.says, compose.verb) THEN "image"
      ELSE IF compose.conf.says.build THEN "project-service" ELSE "vsc"
  <1> DEFINE says == compose.conf.says
             files == BuildOverride(compose)
  <1>1. files \in Seq(Files) /\ Len(files) \in {0, 1}
    BY BuildOverrideType
  <1>2. EffectiveName(says, files) = IF Len(files) = 1 /\ files[1].image # Unnamed THEN files[1].image ELSE OriginalName(says)
    BY <1>1, EffectiveNameOfFiles
  <1>3. LabelsContainer(says, compose.verb) => ~says.build /\ (Len(files) = 1 => files[1].image = Unnamed)
    BY DEF LabelsContainer, BuildOverride
  <1>4. ~LabelsContainer(says, compose.verb) => Len(files) = 1 /\ files[1].image = IF says.build THEN Unnamed ELSE "vsc"
    BY DEF BuildOverride
  <1>5. QED
    BY <1>2, <1>3, <1>4 DEF OriginalName, Unnamed

(* The container override names the image when the UID update renamed it.  *)
LEMMA NameOfStart ==
  ASSUME ComposeTypeOK, compose.files = BuildOverride(compose),
         compose.original = EffectiveName(compose.conf.says, compose.files), compose.image \in ImageNames
  PROVE  EffectiveName(compose.conf.says, Append(compose.files, StartOverride(compose))) = compose.image
  <1> DEFINE says == compose.conf.says
             start == StartOverride(compose)
             old == compose.files
             files == Append(old, start)
  <1>1. old \in Seq(Files) /\ Len(old) \in {0, 1} /\ start \in Files
    BY BuildOverrideType, StartOverrideType
  <1>2. files \in Seq(Files) /\ Len(files) = Len(old) + 1 /\ files[Len(files)] = start /\ (Len(old) = 1 => files[1] = old[1])
    BY <1>1
  <1>3. start.image = IF compose.image # compose.original THEN compose.image ELSE Unnamed
    BY DEF StartOverride
  <1>4. Unnamed \notin ImageNames
    BY DEF Unnamed, ImageNames
  <1> HIDE DEF start, files, old
  <1>12. (Len(old) = 0 /\ Len(files) = 1) \/ (Len(old) = 1 /\ Len(files) = 2)
    BY <1>1, <1>2
  <1>10. Len(files) \in {0, 1, 2} /\ Len(old) \in {0, 1, 2}
    BY <1>12, Zenon
  <1>5. EffectiveName(says, files) = IF Len(files) = 2 /\ files[2].image # Unnamed THEN files[2].image
                                     ELSE IF Len(files) >= 1 /\ files[1].image # Unnamed THEN files[1].image ELSE OriginalName(says)
    BY <1>2, <1>10, EffectiveNameOfFiles
  <1>6. EffectiveName(says, old) = IF Len(old) = 1 /\ old[1].image # Unnamed THEN old[1].image ELSE OriginalName(says)
    BY <1>1, <1>10, EffectiveNameOfFiles
  <1>11. compose.original = EffectiveName(says, old) /\ compose.image \in ImageNames
    BY DEF old
  <1>7. Len(old) = 0 => EffectiveName(says, files) = compose.image
    BY <1>2, <1>3, <1>4, <1>5, <1>6, <1>11
  <1>8. Len(old) = 1 => EffectiveName(says, files) = compose.image
    BY <1>2, <1>3, <1>4, <1>5, <1>6, <1>11
  <1>9. QED
    BY <1>1, <1>7, <1>8 DEF start, files, old

Words == {"wrapper", "unset", "service", "image-entrypoint", "image-command"}

(* generateComposeFeaturesOverride: below the wrapper runs what would run  *)
(* without it.                                                             *)
LEMMA LineRuns ==
  ASSUME NEW says \in ServiceSpace
  PROVE  LET o == OverriddenLine(says) IN
         CommandLine([entrypoint |-> o.entrypoint, command |-> IF o.command # Unset THEN o.command ELSE says.command])
           = <<"wrapper">> \o (IF says.override THEN <<>> ELSE CommandLine(says))
  <1> DEFINE w == <<"wrapper">>
             e == IF says.entrypoint # Unset THEN says.entrypoint ELSE OfImage.entrypoint
             c == IF says.entrypoint # Unset THEN <<>> ELSE OfImage.command
             o == OverriddenLine(says)
  <1>1. w \in Seq(Words) /\ e \in Seq(Words) /\ c \in Seq(Words) /\ says.command \in Seq(Words)
    <2>1. <<"wrapper">> \in Seq(Words) /\ <<"unset">> \in Seq(Words) /\ <<"service">> \in Seq(Words)
          /\ <<"image-entrypoint">> \in Seq(Words) /\ <<"image-command">> \in Seq(Words) /\ <<>> \in Seq(Words)
      <3>1. \A x \in Words : <<x>> \in Seq(Words)
        BY SingleIsSeq
      <3>2. QED
        BY <3>1 DEF Words
    <2>2. Lines \subseteq Seq(Words) /\ says.entrypoint \in Lines /\ says.command \in Lines
      BY <2>1 DEF ServiceSpace, Lines, Unset
    <2>3. QED
      BY <2>1, <2>2 DEF OfImage
  <1>2. c # Unset /\ <<>> # Unset /\ w # Unset
    BY DEF OfImage, Unset
  <1>3. w \o e # Unset /\ w \o <<>> = w
    <2>3. Len(w) = 1 /\ w[1] = "wrapper"
      OBVIOUS
    <2> HIDE DEF w, e
    <2>1. (w \o e)[1] = "wrapper"
      BY <1>1, <2>3, ConcatProperties
    <2>4. w \o <<>> = w
      BY <1>1, ConcatEmptySeq
    <2>5. "wrapper" # "unset"
      OBVIOUS
    <2>6. Unset[1] = "unset"
      BY DEF Unset
    <2>2. QED
      BY <2>1, <2>4, <2>5, <2>6
  <1>4. CASE says.override
    <2>1. o.entrypoint = w /\ o.command = <<>>
      BY <1>4 DEF OverriddenLine
    <2>2. QED
      BY <1>2, <1>3, <1>4, <2>1 DEF CommandLine
  <1>5. CASE ~says.override
    <2>1. o.entrypoint = w \o e /\ o.command = IF says.command = Unset THEN c ELSE Unset
      BY <1>5 DEF OverriddenLine
    <2> DEFINE d == IF says.command # Unset THEN says.command ELSE c
    <2>2. (IF o.command # Unset THEN o.command ELSE says.command) = d
      BY <1>2, <2>1
    <2>3. CommandLine(says) = e \o d
      BY DEF CommandLine
    <2>4. CommandLine([entrypoint |-> w \o e, command |-> d]) = (w \o e) \o d
      BY <1>2, <1>3 DEF CommandLine
    <2>5. (w \o e) \o d = w \o (e \o d)
      <3>1. d \in Seq(Words)
        BY <1>1
      <3> HIDE DEF w, e, d
      <3>2. QED
        BY <1>1, <3>1, ConcatAssociative
    <2>6. QED
      BY <1>5, <2>1, <2>2, <2>3, <2>4, <2>5
  <1>6. QED
    BY <1>4, <1>5 DEF ServiceSpace

(* A build override depends on the run and what it was asked for alone.    *)
LEMMA SameBuild ==
  ASSUME composeRuns' = composeRuns, compose'.conf = compose.conf, compose'.verb = compose.verb, compose'.cacheFrom = compose.cacheFrom
  PROVE  BuildOverride(compose)' = BuildOverride(compose)
  BY DEF BuildOverride, LabelsContainer

(* MatchInv holds at first.                                                *)
LEMMA MatchInitial == ComposeInit => MatchInv
  BY DEF ComposeInit, MatchInv, Idle, NoService

(* What concerns the run stays while the run does nothing.                 *)
LEMMA MatchFrame ==
  ASSUME MatchInv, UNCHANGED <<compose, tags, composeRuns>>, service'.clean => Fits(service') PROVE MatchInv'
  <1>1. BuildOverride(compose)' = BuildOverride(compose)
    BY SameBuild
  <1>2. Made(compose)' = Made(compose)
    BY DEF Made
  <1>3. QED
    BY <1>1, <1>2 DEF MatchInv

(* MatchInv is inductive, relative to ComposeInv.                          *)
LEMMA MatchInductive == ComposeInv /\ MatchInv /\ [ComposeNext]_composeVars => MatchInv'
  <1> SUFFICES ASSUME ComposeInv, MatchInv, [ComposeNext]_composeVars PROVE MatchInv'
    OBVIOUS
  <1> USE DEF ComposeInv
  <1> DEFINE says == compose.conf.says
             verb == compose.verb
             here == compose.pc
  <1>1. ASSUME NEW v \in {"up", "build"}, NEW expect \in BOOLEAN, NEW cacheFrom \in BOOLEAN, BeginCompose(v, expect, cacheFrom)
        PROVE  MatchInv'
    <2>1. service' = service
      BY <1>1 DEF BeginCompose
    <2>2. compose'.verb = v /\ compose'.pc = (IF v = "up" THEN "find" ELSE "extend") /\ compose'.found = NoService
      BY <1>1 DEF BeginCompose, Idle
    <2>3. QED
      BY <2>1, <2>2 DEF MatchInv
  <1>2. CASE FindService
    <2>1. here = "find" /\ service' = service /\ compose' \in {[compose EXCEPT !.pc = "failed"],
             [compose EXCEPT !.pc = "done", !.found = service], [compose EXCEPT !.pc = "restore", !.found = service]}
      BY <1>2 DEF FindService, At
    <2>2. verb = "up"
      BY <2>1 DEF MatchInv
    <2>3. compose'.verb = "up" /\ compose'.pc \in {"failed", "done", "restore"}
      BY <2>1, <2>2 DEF ComposeTypeOK
    <2>4. QED
      BY <2>1, <2>3 DEF MatchInv
  <1>3. CASE RestoreOverrides
    <2>1. here = "restore" /\ service' = service /\ compose'.verb = verb /\ compose'.found = compose.found
          /\ compose'.pc \in {"start", "extend"} /\ (compose'.pc = "start" => compose'.found # NoService)
      BY <1>3 DEF RestoreOverrides, At, ComposeTypeOK
    <2>2. verb = "up"
      BY <2>1 DEF MatchInv
    <2>3. QED
      BY <2>1, <2>2 DEF MatchInv
  <1>4. CASE ExtendService
    <2> DEFINE build == BuildOverride(compose)
               name  == EffectiveName(says, build)
    <2>1. /\ here = "extend"
          /\ tags' = [tags EXCEPT !["image"] = BaseImage]
          /\ compose' = [compose EXCEPT !.files = build, !.image = name, !.original = name,
                          !.pc = IF compose.found # NoService THEN "override" ELSE "build"]
          /\ UNCHANGED <<composeConf, service, composeRuns>>
      BY <1>4 DEF ExtendService, At
    <2>2. BuildOverride(compose)' = build
      <3>1. composeRuns' = composeRuns /\ compose'.conf = compose.conf /\ compose'.verb = verb /\ compose'.cacheFrom = compose.cacheFrom
        BY <2>1 DEF ComposeTypeOK
      <3>2. QED
        BY <3>1, SameBuild
    <2>3. /\ service' = service /\ compose'.verb = verb /\ compose'.conf = compose.conf /\ compose'.found = compose.found
          /\ compose'.files = build /\ compose'.image = name /\ compose'.original = name
          /\ compose'.pc = IF compose.found # NoService THEN "override" ELSE "build"
          /\ tags'["image"] = BaseImage
      BY <2>1 DEF ComposeTypeOK, ImageNames
    <2> HIDE DEF build, name
    <2>4. EffectiveName(compose'.conf.says, compose'.files) = compose'.original
      BY <2>3 DEF name
    <2>5. (verb = "build" => compose.found = NoService) /\ verb \in {"up", "build"}
      BY <2>1 DEF MatchInv, ComposeTypeOK
    <2>6. QED
      BY <2>2, <2>3, <2>4, <2>5 DEF MatchInv
  <1>5. CASE BuildService
    <2> DEFINE built == [entries |-> Entries(compose.conf), uid |-> FALSE,
                         features |-> IF says.features THEN compose.conf.rev ELSE 0]
    <2>1. /\ here = "build" /\ compose' = [compose EXCEPT !.pc = IF verb = "up" THEN "uid" ELSE "done"]
          /\ UNCHANGED <<service, composeRuns>>
          /\ tags' = IF LabelsContainer(says, verb) THEN tags ELSE [tags EXCEPT ![compose.image] = built]
      BY <1>5 DEF BuildService, At
    <2>2. compose.files = BuildOverride(compose) /\ compose.original = EffectiveName(says, compose.files)
          /\ compose.image = compose.original /\ compose.found = NoService
      BY <2>1 DEF MatchInv
    <2>3. compose.image \in ImageNames /\ tags["image"] = BaseImage
      BY <2>1 DEF ComposeTypeOK, MatchInv
    <2>4. LabelsContainer(says, verb) => compose.image = "image" /\ verb = "up"
      BY <2>2, NameOfBuild DEF LabelsContainer
    <2>5. tags'[compose.image] = Built(compose.conf, verb)
      BY <2>1, <2>3, <2>4 DEF Built, ComposeTypeOK
    <2>6. verb # "up" => tags'[compose.image].entries = Entries(compose.conf)
      BY <2>4, <2>5 DEF Built
    <2>7. /\ compose'.pc = IF verb = "up" THEN "uid" ELSE "done"
          /\ \A f \in {"verb", "conf", "expect", "cacheFrom", "found", "files", "image", "original", "restored"} : compose'[f] = compose[f]
      BY <2>1 DEF ComposeTypeOK
    <2>8. BuildOverride(compose)' = BuildOverride(compose)
      BY <2>1, <2>7, SameBuild
    <2>9. QED
      BY <2>1, <2>2, <2>5, <2>6, <2>7, <2>8 DEF MatchInv
  <1>6. CASE UpdateUser
    <2>1. compose.files = BuildOverride(compose) /\ compose.original = EffectiveName(says, compose.files)
          /\ compose.image = compose.original /\ compose.found = NoService /\ here = "uid" /\ verb = "up"
          /\ tags[compose.image] = Built(compose.conf, verb) /\ compose.image \in ImageNames
      BY <1>6 DEF UpdateUser, At, MatchInv, ComposeTypeOK
    <2>2. says.uid \in BOOLEAN /\ Built(compose.conf, verb).uid = FALSE
      BY ServicesAssumption DEF Built, BaseImage, ComposeTypeOK, ComposeConfs, ServiceSpace
    <2>3. compose'.image = IF says.uid THEN "vsc-uid" ELSE compose.original
      BY <1>6, <2>1 DEF UpdateUser, ComposeTypeOK
    <2>4. /\ service' = service /\ composeRuns' = composeRuns
          /\ compose'.pc = "override"
          /\ \A f \in {"verb", "conf", "expect", "cacheFrom", "found", "files", "original", "restored"} : compose'[f] = compose[f]
      BY <1>6 DEF UpdateUser, ComposeTypeOK
    <2>5. tags'[compose'.image] = [Built(compose.conf, verb) EXCEPT !.uid = says.uid]
      <3>1. CASE says.uid
        <4>1. says.uid = TRUE /\ compose'.image = "vsc-uid" /\ tags' = [tags EXCEPT !["vsc-uid"] = [tags[compose.image] EXCEPT !.uid = TRUE]]
          BY <1>6, <2>2, <2>3, <3>1 DEF UpdateUser
        <4>2. "vsc-uid" \in DOMAIN tags
          BY DEF ComposeTypeOK, ImageNames
        <4>3. QED
          BY <2>1, <4>1, <4>2
      <3>2. CASE ~says.uid
        <4>1. Built(compose.conf, verb) = [Built(compose.conf, verb) EXCEPT !.uid = FALSE]
          BY <2>2 DEF Built, BaseImage
        <4>2. tags' = tags /\ says.uid = FALSE /\ compose'.image = compose.image
          BY <1>6, <2>1, <2>2, <2>3, <3>2 DEF UpdateUser
        <4>3. QED
          BY <2>1, <4>1, <4>2
      <3>3. QED
        BY <3>1, <3>2
    <2>6. BuildOverride(compose)' = BuildOverride(compose)
      BY <2>4, SameBuild
    <2>7. QED
      BY <2>1, <2>3, <2>4, <2>5, <2>6 DEF MatchInv
  <1>7. CASE WriteStartOverride
    <2> DEFINE start == StartOverride(compose)
               files == Append(compose.files, start)
    <2>1. /\ here = "override" /\ service' = service /\ tags' = tags
          /\ compose'.pc = "start" /\ compose'.files = files
          /\ \A f \in {"verb", "conf", "expect", "cacheFrom", "found", "image", "original", "restored"} : compose'[f] = compose[f]
      BY <1>7 DEF WriteStartOverride, At, ComposeTypeOK
    <2>2. verb = "up"
      BY <2>1 DEF MatchInv
    <2>3. ASSUME compose.found = NoService PROVE Fits(Made(compose)')
      <3> DEFINE made  == Made(compose)'
                 built == Built(compose.conf, verb)
      <3>1. /\ compose.files = BuildOverride(compose) /\ compose.original = EffectiveName(says, compose.files)
            /\ compose.image = IF says.uid THEN "vsc-uid" ELSE compose.original
            /\ tags[compose.image] = [built EXCEPT !.uid = says.uid]
        BY <2>1, <2>3 DEF MatchInv
      <3>2. compose.files \in Seq(Files) /\ Len(compose.files) \in {0, 1} /\ start \in Files
        BY <3>1, BuildOverrideType, StartOverrideType
      <3>3. compose.image \in ImageNames
        BY <3>1, <3>2, EffectiveNameType DEF ImageNames
      <3>4. EffectiveName(says, files) = compose.image
        BY <3>1, <3>3, NameOfStart
      <3>5. Last(files) = start
        BY <3>2 DEF Last
      <3>6. says \in ServiceSpace /\ compose.conf \in ComposeConfs
        BY ServicesAssumption DEF ComposeTypeOK, ComposeConfs
      <3>7. start.line = OverriddenLine(says) /\ start.label = IF LabelsContainer(says, verb) THEN Entries(compose.conf) ELSE NoLabel
        BY DEF StartOverride
      <3> HIDE DEF files, start
      <3>8. /\ made.image = tags[compose.image] /\ made.label = start.label /\ made.of = compose.conf
            /\ made.line = CommandLine([entrypoint |-> start.line.entrypoint,
                                        command |-> IF start.line.command # Unset THEN start.line.command ELSE says.command])
        BY <2>1, <3>4, <3>5 DEF Made
      <3>9. made.line = <<"wrapper">> \o (IF says.override THEN <<>> ELSE CommandLine(says))
        BY <3>6, <3>7, <3>8, LineRuns
      <3>10. /\ made.image.uid = says.uid /\ made.image.features = built.features /\ made.image.entries = built.entries
        BY <3>1, <3>8 DEF Built, BaseImage
      <3>11. built.features = IF says.features THEN compose.conf.rev ELSE 0
        BY DEF Built, BaseImage, LabelsContainer
      <3>12. (IF made.label # NoLabel THEN made.label ELSE made.image.entries) = Entries(compose.conf)
        BY <3>6, <3>7, <3>8, <3>10, EntriesType DEF Built
      <3> HIDE DEF made, built
      <3>13. QED
        BY <3>8, <3>9, <3>10, <3>11, <3>12 DEF Fits, made
    <2>4. QED
      BY <2>1, <2>2, <2>3 DEF MatchInv
  <1>8. CASE StartService
    <2>1. /\ here = "start" /\ compose'.pc = "list" /\ compose'.verb = verb /\ compose'.found = compose.found
          /\ \/ service # NoService /\ service' = [service EXCEPT !.running = TRUE]
             \/ service' = Made(compose)
      BY <1>8 DEF StartService, At, ComposeTypeOK
    <2>2. verb = "up" /\ (compose.found = NoService => Fits(Made(compose)))
      BY <2>1 DEF MatchInv
    <2>3. service'.clean => Fits(service')
      <3>1. CASE service' = [service EXCEPT !.running = TRUE]
        BY <3>1 DEF MatchInv, Fits, ComposeTypeOK, ServiceSet
      <3>2. CASE service' = Made(compose)
        BY <2>2, <3>2 DEF Made
      <3>3. QED
        BY <2>1, <3>1, <3>2
    <2>4. QED
      BY <2>1, <2>2, <2>3 DEF MatchInv
  <1>9. CASE ListStarted \/ ComposeFails
    <2>1. UNCHANGED service /\ compose'.verb = verb /\ compose'.pc \in {"failed", "done"} /\ compose'.found = compose.found
          /\ (compose'.pc = "done" => here = "list")
      BY <1>9 DEF ListStarted, ComposeFails, At, ComposeTypeOK
    <2>2. compose'.verb = "build" => compose'.pc # "done" /\ compose'.found = NoService
      BY <2>1 DEF MatchInv
    <2>3. QED
      BY <2>1, <2>2 DEF MatchInv
  <1>10. CASE StopService
    <2>1. service' = [service EXCEPT !.running = FALSE] /\ UNCHANGED <<compose, tags, composeRuns>>
      BY <1>10 DEF StopService
    <2>2. service'.clean => Fits(service')
      BY <2>1 DEF MatchInv, Fits, ComposeTypeOK, ServiceSet
    <2>3. QED
      BY <2>1, <2>2, MatchFrame
  <1>11. CASE DownService \/ LoseOverride \/ EditService \/ UNCHANGED composeVars
    <2>1. service' \in {service, NoService} /\ UNCHANGED <<compose, tags, composeRuns>>
      BY <1>11 DEF DownService, LoseOverride, EditService, composeVars
    <2>2. service'.clean => Fits(service')
      BY <2>1 DEF MatchInv, NoService
    <2>3. QED
      BY <2>1, <2>2, MatchFrame
  <1>13. QED
    BY <1>1, <1>2, <1>3, <1>4, <1>5, <1>6, <1>7, <1>8, <1>9, <1>10, <1>11 DEF ComposeNext, ComposeStep

(* compose_up.go startComposeContainer, up.go metadataOfContainer: what is  *)
(* read from a container an up made anew, its image, user and command line  *)
(* are those of its configuration, and so is the metadata of an image that  *)
(* a build reports.                                                         *)
THEOREM ComposeMatches == ComposeSpec => []ContainerMatchesConfig
  <1>1. MatchInv => ContainerMatchesConfig
    BY DEF MatchInv, ContainerMatchesConfig, Fits
  <1>2. QED
    BY <1>1, ComposeInvariant, MatchInitial, MatchInductive, PTL DEF ComposeSpec

-----------------------------------------------------------------------------
(* A finite set of numbers has a greatest element.                         *)
LEMMA MaxExists ==
  ASSUME NEW n \in Nat, NEW S \in SUBSET (1..n), S # {}
  PROVE  \E m \in S : \A i \in S : m >= i
  <1> DEFINE Above(m) == {i \in S : i > m}
             T == {Above(m) : m \in S}
  <1>1. S \subseteq Nat
    OBVIOUS
  <1>2. IsFiniteSet(1..n)
    <2>1. 1 \in Int /\ n \in Int
      OBVIOUS
    <2>2. QED
      BY <2>1, FS_Interval
  <1>3. IsFiniteSet(S)
    BY <1>2, FS_Subset
  <1>4. \A m : Above(m) \in FiniteSubsetsOf(S)
    <2>1. SUFFICES ASSUME NEW m PROVE Above(m) \in FiniteSubsetsOf(S)
      OBVIOUS
    <2>2. Above(m) \in SUBSET S
      OBVIOUS
    <2> HIDE DEF Above
    <2>3. QED
      BY <1>3, <2>2, FS_Subset DEF FiniteSubsetsOf
  <1> HIDE DEF Above
  <1>5. T \subseteq FiniteSubsetsOf(S) /\ T # {}
    BY <1>4
  <1>6. PICK A \in T : \A B \in T : ~(<<B, A>> \in StrictSubsetOrdering(S))
    <2> HIDE DEF T
    <2>1. QED
      BY <1>5, FS_StrictSubsetOrderingWellFounded, WFMin
  <1>7. PICK m \in S : A = Above(m)
    BY <1>6
  <1>8. ASSUME NEW i \in S, i > m PROVE FALSE
    <2>1. Above(i) \subseteq Above(m)
      <3>1. \A j \in S : j > i => j > m
        BY <1>1, <1>8
      <3>2. QED
        BY <3>1 DEF Above
    <2>2. i \in Above(m) /\ i \notin Above(i)
      BY <1>1, <1>8 DEF Above
    <2>3. Above(i) \subseteq S /\ Above(m) \subseteq S
      BY DEF Above
    <2>4. <<Above(i), A>> \in StrictSubsetOrdering(S)
      BY <1>7, <2>1, <2>2, <2>3 DEF StrictSubsetOrdering
    <2>5. QED
      BY <1>6, <2>4
  <1>9. m \in S /\ \A i \in S : m >= i
    BY <1>1, <1>7, <1>8
  <1>10. QED
    BY <1>9

Scalars == {"user", "probe", "remote"}

(* imagemeta.MergeConfiguration: an entry overrules those before it.       *)
LEMMA LastSetAppend ==
  ASSUME NEW s \in Seq(EntrySpace), NEW e \in EntrySpace, NEW f \in Scalars
  PROVE  LastSet(s \o <<e>>, f) = IF e[f] # NotSet THEN e[f] ELSE LastSet(s, f)
  <1> DEFINE t   == s \o <<e>>
             old == {i \in DOMAIN s : s[i][f] # NotSet}
             new == {i \in DOMAIN t : t[i][f] # NotSet}
             n   == Len(s) + 1
  <1>1. DOMAIN s = 1..Len(s) /\ DOMAIN t = 1..n /\ t[n] = e /\ \A i \in DOMAIN s : t[i] = s[i]
    OBVIOUS
  <1>2. CASE e[f] # NotSet
    <2>1. n \in new /\ \A i \in new : n >= i
      BY <1>1, <1>2
    <2>2. \A m \in new : (\A i \in new : m >= i) => m = n
      BY <1>1, <2>1
    <2> HIDE DEF new, n
    <2>3. Max(new) = n
      BY <2>1, <2>2 DEF Max
    <2>4. LastSet(t, f) = t[Max(new)][f]
      BY <2>1 DEF LastSet, new
    <2>5. QED
      BY <1>1, <1>2, <2>3, <2>4
  <1>3. CASE e[f] = NotSet
    <2>1. new = old /\ old \subseteq DOMAIN s
      BY <1>1, <1>3
    <2>2. LastSet(s, f) = IF old = {} THEN NotSet ELSE s[Max(old)][f]
      BY DEF LastSet
    <2>3. LastSet(t, f) = IF new = {} THEN NotSet ELSE t[Max(new)][f]
      BY DEF LastSet
    <2> HIDE DEF old, new, t
    <2>4. old # {} => Max(old) \in old
      <3>1. ASSUME old # {} PROVE \E m \in old : \A i \in old : m >= i
        <4>1. old \in SUBSET (1..Len(s)) /\ Len(s) \in Nat
          BY <1>1, <2>1
        <4>2. QED
          BY <3>1, <4>1, MaxExists
      <3>2. QED
        BY <3>1 DEF Max
    <2>5. QED
      BY <1>1, <1>3, <2>1, <2>2, <2>3, <2>4 DEF t
  <1>4. QED
    BY <1>2, <1>3

(* ... and nothing is set when no entry sets it.                           *)
LEMMA LastSetNone ==
  ASSUME NEW s \in Seq(EntrySpace), NEW f \in Scalars
  PROVE  LastSet(s, f) = NotSet <=> \A i \in DOMAIN s : s[i][f] = NotSet
  <1> DEFINE setting == {i \in DOMAIN s : s[i][f] # NotSet}
  <1>1. LastSet(s, f) = IF setting = {} THEN NotSet ELSE s[Max(setting)][f]
    BY DEF LastSet
  <1>2. setting \subseteq 1..Len(s) /\ Len(s) \in Nat
    OBVIOUS
  <1>3. setting # {} => Max(setting) \in setting
    <2> HIDE DEF setting
    <2>1. ASSUME setting # {} PROVE \E m \in setting : \A i \in setting : m >= i
      BY <1>2, <2>1, MaxExists
    <2>2. QED
      BY <2>1 DEF Max
  <1>4. QED
    BY <1>1, <1>3

(* The first user that is given.                                           *)
LEMMA FirstOfUsers ==
  ASSUME NEW a, NEW b
  PROVE  /\ FirstSet(<<a>>) = (IF a # NotSet THEN a ELSE ImageUser)
         /\ FirstSet(<<a, b>>) = (IF a # NotSet THEN a ELSE IF b # NotSet THEN b ELSE ImageUser)
         /\ \A c : FirstSet(<<a, b, c>>) = (IF a # NotSet THEN a ELSE IF b # NotSet THEN b
                                           ELSE IF c # NotSet THEN c ELSE ImageUser)
  <1>1. ASSUME NEW S \in SUBSET {1, 2, 3}, NEW m \in S, \A i \in S : m =< i PROVE Min(S) = m
    <2>1. \A k \in S : (\A i \in S : k =< i) => k = m
      BY <1>1
    <2>2. QED
      BY <1>1, <2>1 DEF Min
  <1>2. ASSUME NEW users, DOMAIN users \subseteq {1, 2, 3}, NEW m \in DOMAIN users, users[m] # NotSet,
               \A i \in DOMAIN users : users[i] # NotSet => m =< i
        PROVE  FirstSet(users) = users[m]
    <2> DEFINE given == {i \in DOMAIN users : users[i] # NotSet}
    <2>1. given \in SUBSET {1, 2, 3} /\ m \in given /\ \A i \in given : m =< i
      BY <1>2
    <2>2. FirstSet(users) = IF given = {} THEN ImageUser ELSE users[Min(given)]
      BY DEF FirstSet
    <2> HIDE DEF given
    <2>3. QED
      BY <1>1, <2>1, <2>2
  <1>3. ASSUME NEW users, \A i \in DOMAIN users : users[i] = NotSet
        PROVE  FirstSet(users) = ImageUser
    BY <1>3 DEF FirstSet
  <1>4. FirstSet(<<a>>) = IF a # NotSet THEN a ELSE ImageUser
    <2> DEFINE us == <<a>>
    <2>1. DOMAIN us = {1} /\ us[1] = a
      OBVIOUS
    <2> HIDE DEF us
    <2>2. FirstSet(us) = IF a # NotSet THEN a ELSE ImageUser
      BY <1>2, <1>3, <2>1
    <2>3. QED
      BY <2>2 DEF us
  <1>5. FirstSet(<<a, b>>) = IF a # NotSet THEN a ELSE IF b # NotSet THEN b ELSE ImageUser
    <2> DEFINE us == <<a, b>>
    <2>1. DOMAIN us = {1, 2} /\ us[1] = a /\ us[2] = b
      OBVIOUS
    <2> HIDE DEF us
    <2>2. FirstSet(us) = IF a # NotSet THEN a ELSE IF b # NotSet THEN b ELSE ImageUser
      BY <1>2, <1>3, <2>1
    <2>3. QED
      BY <2>2 DEF us
  <1>6. ASSUME NEW c
        PROVE  FirstSet(<<a, b, c>>) = (IF a # NotSet THEN a ELSE IF b # NotSet THEN b
                                        ELSE IF c # NotSet THEN c ELSE ImageUser)
    <2> DEFINE us == <<a, b, c>>
    <2>1. DOMAIN us = {1, 2, 3} /\ us[1] = a /\ us[2] = b /\ us[3] = c
      OBVIOUS
    <2> HIDE DEF us
    <2>2. FirstSet(us) = (IF a # NotSet THEN a ELSE IF b # NotSet THEN b ELSE IF c # NotSet THEN c ELSE ImageUser)
      <3>1. CASE a # NotSet
        BY <1>2, <2>1, <3>1
      <3>2. CASE a = NotSet /\ b # NotSet
        BY <1>2, <2>1, <3>2
      <3>3. CASE a = NotSet /\ b = NotSet /\ c # NotSet
        BY <1>2, <2>1, <3>3
      <3>4. CASE a = NotSet /\ b = NotSet /\ c = NotSet
        BY <1>3, <2>1, <3>4
      <3>5. QED
        BY <3>1, <3>2, <3>3, <3>4
    <2>3. QED
      BY <2>2 DEF us
  <1>7. QED
    BY <1>4, <1>5, <1>6

-----------------------------------------------------------------------------
(* What the label of a container is: the base image's of one run by hand,  *)
(* and with a configuration's, its Dockerfile's and its Features' entries  *)
(* of one up made.                                                         *)
KnownLabel(c) ==
  \/ ~c.idLabelled /\ c.label = Base
  \/ c.idLabelled /\ \E e \in Confs, omit \in BOOLEAN : c.label = ImageEntries(e) \o <<LabelEntry(e, omit)>>

(* A configuration that was given, or none; the user it comes to.          *)
Confs1 == {<<e>> : e \in Confs} \cup {<<>>}
UserOf(c, conf) ==
  IF ConfUser(conf) # NotSet THEN ConfUser(conf)
  ELSE IF LastSet(c.label, "user") # NotSet THEN LastSet(c.label, "user") ELSE ImageUser

(* The merged user is the last one.                                        *)
LEMMA MergedUser == ASSUME NEW s PROVE Merge(s).user = LastSet(s, "user")
  BY DEF Merge

(* What an image says is entries, its base's first.                        *)
LEMMA ImageEntriesType ==
  ASSUME NEW e \in Confs
  PROVE  /\ ImageEntries(e) \in Seq(EntrySpace) /\ Len(ImageEntries(e)) >= Len(Base)
         /\ \A i \in DOMAIN Base : i \in DOMAIN ImageEntries(e) /\ ImageEntries(e)[i] = Base[i]
  <1>1. StageOf[e] \in Seq(EntrySpace) /\ Base \in Seq(EntrySpace) /\ Feature \in Seq(EntrySpace)
    BY EntriesAssumption, StagesAssumption
  <1>2. PICK b \in Seq(EntrySpace) : b = Base \o StageOf[e]
    BY <1>1, ConcatProperties
  <1>3. /\ Len(b) = Len(Base) + Len(StageOf[e])
        /\ \A i \in 1..Len(Base) : i \in 1..Len(b) /\ b[i] = Base[i]
    BY <1>1, <1>2
  <1>4. PICK s \in Seq(EntrySpace) : s = b \o Feature
    BY <1>1, <1>2, ConcatProperties
  <1>5. /\ Len(s) = Len(b) + Len(Feature)
        /\ \A i \in 1..Len(b) : i \in 1..Len(s) /\ s[i] = b[i]
    BY <1>1, <1>2, <1>4
  <1>6. ImageEntries(e) = s
    BY <1>2, <1>4 DEF ImageEntries
  <1>7. Len(StageOf[e]) \in Nat /\ Len(Feature) \in Nat /\ Len(Base) \in Nat
    BY <1>1
  <1>8. Len(s) >= Len(Base)
    BY <1>3, <1>5, <1>7
  <1>9. DOMAIN Base = 1..Len(Base) /\ DOMAIN s = 1..Len(s)
    BY <1>1, <1>4
  <1>10. QED
    BY <1>3, <1>4, <1>5, <1>6, <1>8, <1>9

(* A label is entries, the base image's first.                             *)
LEMMA LabelType ==
  ASSUME NEW c, KnownLabel(c)
  PROVE  /\ c.label \in Seq(EntrySpace)
         /\ c.idLabelled => c.label # <<>>
         /\ LastSet(c.label, "user") = NotSet => LastSet(Base, "user") = NotSet
  <1>1. CASE ~c.idLabelled /\ c.label = Base
    BY <1>1, EntriesAssumption
  <1>2. ASSUME c.idLabelled, NEW e \in Confs, NEW omit \in BOOLEAN,
               c.label = ImageEntries(e) \o <<LabelEntry(e, omit)>>
        PROVE  /\ c.label \in Seq(EntrySpace) /\ c.label # <<>>
               /\ LastSet(c.label, "user") = NotSet => LastSet(Base, "user") = NotSet
    <2>1. LabelEntry(e, omit) \in EntrySpace
      BY EntriesAssumption DEF LabelEntry, EntrySpace
    <2> DEFINE l == LabelEntry(e, omit)
    <2>2. <<l>> \in Seq(EntrySpace) /\ Len(<<l>>) = 1
      BY <2>1
    <2> HIDE DEF l
    <2> DEFINE s == ImageEntries(e)
    <2>7. /\ s \in Seq(EntrySpace) /\ Len(s) >= Len(Base)
          /\ \A i \in DOMAIN Base : i \in DOMAIN s /\ s[i] = Base[i]
      BY ImageEntriesType
    <2> HIDE DEF s
    <2>3. c.label \in Seq(EntrySpace) /\ Len(c.label) = Len(s) + 1
      BY <1>2, <2>2, <2>7 DEF l, s
    <2>4. \A i \in DOMAIN Base : i \in DOMAIN c.label /\ c.label[i] = Base[i]
      BY <1>2, <2>2, <2>3, <2>7, EntriesAssumption DEF l, s
    <2>5. LastSet(c.label, "user") = NotSet => LastSet(Base, "user") = NotSet
      <3>1. "user" \in Scalars
        BY DEF Scalars
      <3>2. QED
        BY <2>3, <2>4, <3>1, LastSetNone, EntriesAssumption
    <2>6. QED
      BY <2>3, <2>5, EntriesAssumption
  <1>3. QED
    BY <1>1, <1>2 DEF KnownLabel

(* pickUpdateableConfigProperties keeps the scalars.                       *)
LEMMA UpdateableType ==
  ASSUME NEW e \in EntrySpace
  PROVE  Updateable(e) \in EntrySpace /\ \A f \in Scalars : Updateable(e)[f] = e[f]
  <1> DEFINE u == Updateable(e)
             Field(f) == IF f = "remote" THEN e.remote ELSE IF f = "probe" THEN e.probe ELSE IF f = "user" THEN e.user ELSE Empty[f]
  <1>1. Empty = [user |-> NotSet, probe |-> NotSet, remote |-> NotSet, hooks |-> <<>>, mounts |-> <<>>, init |-> FALSE, cpus |-> 0]
    BY DEF Empty
  <1>2. u = [f \in DOMAIN Empty |-> Field(f)]
    BY <1>1 DEF Updateable
  <1> HIDE DEF u
  <1>3. u = [f \in {"user", "probe", "remote", "hooks", "mounts", "init", "cpus"} |-> Field(f)]
    BY <1>1, <1>2
  <1>4. /\ u.user = e.user /\ u.probe = e.probe /\ u.remote = e.remote
        /\ u.hooks = <<>> /\ u.mounts = <<>> /\ u.init = FALSE /\ u.cpus = 0
    BY <1>1, <1>3
  <1>5. e.user \in STRING /\ e.probe \in Strategies \cup {"none", NotSet} /\ e.remote \in STRING \cup {NotSet}
    BY DEF EntrySpace
  <1>6. <<>> \in Seq(STRING) /\ <<>> \in Seq([target: STRING, source: STRING])
    OBVIOUS
  <1>7. \A f \in Scalars : u[f] = e[f]
    BY <1>4 DEF Scalars
  <1>8. u \in EntrySpace
    <2>1. /\ u.user \in STRING /\ u.probe \in Strategies \cup {"none", NotSet} /\ u.remote \in STRING \cup {NotSet}
      BY <1>4, <1>5
    <2>4. u.hooks \in Seq(STRING) /\ u.mounts \in Seq([target: STRING, source: STRING])
      BY <1>4, <1>6, Zenon
    <2>5. u.init \in BOOLEAN
      BY <1>4, Zenon
    <2>6. u.cpus \in Nat
      BY <1>4
    <2>2. u = [user |-> u.user, probe |-> u.probe, remote |-> u.remote, hooks |-> u.hooks, mounts |-> u.mounts,
               init |-> u.init, cpus |-> u.cpus]
      BY <1>3
    <2>3. QED
      BY <2>1, <2>2, <2>4, <2>5, <2>6 DEF EntrySpace
  <1>9. QED
    BY <1>7, <1>8 DEF u

(* metadata_label.go: whichever way a command merges, what it finds out of *)
(* a configuration's scalar is the configuration's, else the label's.      *)
LEMMA FromContainerScalar ==
  ASSUME NEW c, KnownLabel(c), NEW e \in Confs, NEW f \in Scalars
  PROVE  LastSet(FromContainer(c, <<e>>, <<>>), f) = IF e[f] # NotSet THEN e[f] ELSE LastSet(c.label, f)
  <1>1. c.label \in Seq(EntrySpace) /\ e \in EntrySpace
    BY LabelType, EntriesAssumption
  <1>2. Updateable(e) \in EntrySpace /\ Updateable(e)[f] = e[f]
    BY <1>1, UpdateableType
  <1>3. CASE c.label # <<>> /\ c.idLabelled
    <2>1. FromContainer(c, <<e>>, <<>>) = c.label \o <<Updateable(e)>>
      BY <1>3 DEF FromContainer
    <2> DEFINE u == Updateable(e)
    <2>2. u \in EntrySpace /\ u[f] = e[f]
      BY <1>2
    <2> HIDE DEF u
    <2>3. LastSet(c.label \o <<u>>, f) = IF e[f] # NotSet THEN e[f] ELSE LastSet(c.label, f)
      BY <1>1, <2>2, LastSetAppend
    <2>4. QED
      BY <2>1, <2>3 DEF u
  <1>4. CASE ~(c.label # <<>> /\ c.idLabelled)
    <2>1. FromContainer(c, <<e>>, <<>>) = c.label \o <<>> \o <<e>>
      BY <1>4 DEF FromContainer
    <2>2. c.label \o <<>> = c.label
      BY <1>1
    <2>3. FromContainer(c, <<e>>, <<>>) = c.label \o <<e>>
      BY <2>1, <2>2
    <2>4. LastSet(c.label \o <<e>>, f) = IF e[f] # NotSet THEN e[f] ELSE LastSet(c.label, f)
      BY <1>1, LastSetAppend
    <2>5. QED
      BY <2>3, <2>4
  <1>5. QED
    BY <1>3, <1>4

(* upRemoteUser, setUpContainer, lifecycleRemoteUser and execRemoteUser    *)
(* come to the same user.                                                  *)
LEMMA SameUser ==
  ASSUME NEW c, KnownLabel(c), NEW conf \in Confs1, NEW kind \in {"up", "setup", "hooks", "exec"}
  PROVE  RemoteUser(kind, c, conf) = UserOf(c, conf)
  <1> DEFINE own == LastSet(c.label, "user")
  <1>1. "user" \in Scalars /\ c.label \in Seq(EntrySpace) /\ (own = NotSet => LastSet(Base, "user") = NotSet)
    BY LabelType DEF Scalars
  <1>2. LastSet(c.label \o conf, "user") = IF ConfUser(conf) # NotSet THEN ConfUser(conf) ELSE own
    <2>1. CASE conf = <<>>
      <3>1. c.label \o conf = c.label
        BY <1>1, <2>1
      <3>2. QED
        BY <2>1, <3>1 DEF ConfUser
    <2>2. ASSUME NEW e \in Confs, conf = <<e>>
          PROVE  LastSet(c.label \o conf, "user") = IF ConfUser(conf) # NotSet THEN ConfUser(conf) ELSE own
      <3>1. e \in EntrySpace /\ ConfUser(conf) = e["user"]
        BY <2>2, EntriesAssumption DEF ConfUser
      <3>2. QED
        BY <1>1, <2>2, <3>1, LastSetAppend
    <2>3. QED
      BY <2>1, <2>2 DEF Confs1
  <1>3. LastSet(FromContainer(c, conf, <<>>), "user") = IF ConfUser(conf) # NotSet THEN ConfUser(conf) ELSE own
    <2>1. CASE conf = <<>>
      BY <2>1 DEF ConfUser, FromContainer
    <2>2. ASSUME NEW e \in Confs, conf = <<e>>
          PROVE  LastSet(FromContainer(c, conf, <<>>), "user") = IF ConfUser(conf) # NotSet THEN ConfUser(conf) ELSE own
      <3>1. ConfUser(conf) = e["user"]
        BY <2>2 DEF ConfUser
      <3>2. QED
        BY <1>1, <2>2, <3>1, FromContainerScalar
    <2>3. QED
      BY <2>1, <2>2 DEF Confs1
  <1> HIDE DEF own
  <1>4. UserOf(c, conf) = IF ConfUser(conf) # NotSet THEN ConfUser(conf) ELSE IF own # NotSet THEN own ELSE ImageUser
    BY DEF UserOf, own
  <1>5. CASE kind = "up"
    <2>1. RemoteUser(kind, c, conf) = FirstSet(<<ConfUser(conf), own, LastSet(Base, "user")>>)
      BY <1>5, MergedUser DEF RemoteUser, own
    <2>2. \A x, y, z : FirstSet(<<x, y, z>>)
                         = (IF x # NotSet THEN x ELSE IF y # NotSet THEN y ELSE IF z # NotSet THEN z ELSE ImageUser)
      BY FirstOfUsers, Zenon
    <2>3. QED
      BY <1>1, <1>4, <2>1, <2>2, Zenon
  <1>6. CASE kind = "setup"
    <2>1. RemoteUser(kind, c, conf) = FirstSet(<<LastSet(c.label \o conf, "user")>>)
      BY <1>6, MergedUser DEF RemoteUser
    <2>2. QED
      BY <1>2, <1>4, <2>1, FirstOfUsers
  <1>7. CASE kind \in {"hooks", "exec"}
    <2>1. RemoteUser(kind, c, conf) = FirstSet(<<ConfUser(conf), LastSet(FromContainer(c, conf, <<>>), "user")>>)
      BY <1>7, MergedUser DEF RemoteUser
    <2>2. QED
      BY <1>3, <1>4, <2>1, FirstOfUsers
  <1>8. QED
    BY <1>5, <1>6, <1>7

(* hookRemoteEnv, lifecycleRemoteEnv, execRemoteEnv: what the              *)
(* configuration sets is what the variable is set to.                      *)
LEMMA SameVar ==
  ASSUME NEW c, KnownLabel(c), NEW e \in Confs, e.remote # NotSet, NEW kind
  PROVE  RemoteVar(kind, c, <<e>>) = e.remote
  <1>1. "remote" \in Scalars /\ e \in EntrySpace /\ c.label \in Seq(EntrySpace)
    BY LabelType, EntriesAssumption DEF Scalars
  <1>2. FromContainer(c, <<e>>, <<>>) \in Seq(EntrySpace)
    <2>1. Updateable(e) \in EntrySpace
      BY <1>1, UpdateableType
    <2>2. QED
      BY <1>1, <2>1 DEF FromContainer
  <1>3. LastSet(FromContainer(c, <<e>>, <<>>) \o <<e>>, "remote") = e["remote"]
    BY <1>1, <1>2, LastSetAppend
  <1>4. QED
    BY <1>3 DEF RemoteVar

-----------------------------------------------------------------------------
(* What a command keeps of the configuration it loaded, and has computed   *)
(* from the container it inspected.                                        *)
TaskFields == DOMAIN NoTask
Early      == {"idle", "find", "registry", "pull", "report", "failed"}

UserSpace  == STRING \cup {ImageUser, NotSet}
Cell(s)    == [user : UserSpace, strategy : {s}]

TaskShape == DOMAIN task = Tasks /\ \A t \in Tasks : DOMAIN task[t] = TaskFields

(* The configuration a command loaded is that of its revision.             *)
HeldConf(k) ==
  \/ k.rev = 0 /\ k.conf = <<>> /\ k.kind # "up"
  \/ /\ k.rev \in 1..envConf.rev
     /\ \E e \in Confs : k.conf = <<e>>
     /\ k.rev = envConf.rev => k.conf = <<envConf.entry>>

(* What it computed is what it finds of the container, while that stands.  *)
Inspected(k) ==
  /\ k.gen \in 0..ctr.gen
  /\ k.pc \in Early => k.gen = 0
  /\ k.kind \in {"up", "setup", "hooks", "exec", "read"}
  /\ k.user \in UserSpace /\ k.omit \in BOOLEAN
  /\ k.gen # 0 /\ k.kind # "read" =>
       /\ k.strategy = Strategy(k.conf)
       /\ k.conf # <<>> /\ k.conf[1].remote # NotSet => k.var = k.conf[1].remote
       /\ ctr.exists /\ k.gen = ctr.gen => k.user = UserOf(ctr, k.conf)

(* What holds of any two commands.                                         *)
SameTask(a, b) ==
  /\ a.rev = b.rev => a.conf = b.conf
  /\ a.gen = b.gen /\ a.gen # 0 /\ a.rev = b.rev /\ a.kind # "read" /\ b.kind # "read" => a.user = b.user

AgreeInv ==
  /\ TaskShape
  /\ envConf.entry \in Confs /\ envConf.rev \in Nat \ {0}
  /\ ctr.gen \in Nat /\ ctr.exists \in BOOLEAN
  /\ ctr.exists => KnownLabel(ctr) /\ ctr.gen # 0
  /\ \A t \in Tasks : HeldConf(task[t]) /\ Inspected(task[t])
  /\ \A t, u \in Tasks : SameTask(task[t], task[u])

(* What a command has of a probe, at each of its steps.                    *)
ProbedBy(k) ==
  /\ k.pc \notin {"truncate", "print", "done"} => k.probed = <<>>
  /\ k.pc \in {"cached", "probe", "truncate", "print"} => k.strategy \in Strategies
  /\ k.pc \in {"cached", "truncate", "print"} => k.folder
  /\ k.pc \in {"truncate", "print"} => k.probed = Cells(k.user, k.strategy)
  /\ k.pc = "done" /\ k.probed # <<>> =>
       /\ Parses(k.probed) /\ k.probed[1].strategy = k.strategy
       /\ ~k.folder => k.probed[1].user = k.user

ProbeInv ==
  /\ DOMAIN envCache = Strategies
  /\ \A s \in Strategies : envCache[s] \in Seq(Cell(s))
  /\ \A t \in Tasks : ProbedBy(task[t])

(* Goes changes the fields given of one task.                              *)
LEMMA GoesEffect ==
  ASSUME TaskShape, NEW t \in Tasks, NEW fields, Goes(t, fields)
  PROVE  /\ TaskShape'
         /\ \A f \in TaskFields : task'[t][f] = IF f \in DOMAIN fields THEN fields[f] ELSE task[t][f]
         /\ \A u \in Tasks \ {t} : task'[u] = task[u]
  <1>1. /\ DOMAIN task' = Tasks
        /\ task'[t] = [f \in DOMAIN task[t] |-> IF f \in DOMAIN fields THEN fields[f] ELSE task[t][f]]
        /\ \A u \in Tasks \ {t} : task'[u] = task[u]
    BY DEF Goes, TaskShape
  <1>2. DOMAIN task'[t] = TaskFields
    BY <1>1 DEF TaskShape
  <1>3. TaskShape'
    BY <1>1, <1>2 DEF TaskShape
  <1>4. QED
    BY <1>1, <1>3 DEF TaskShape

(* The fields of a task.                                                   *)
LEMMA FieldsKnown ==
  TaskFields = {"pc", "kind", "conf", "rev", "folder", "omit", "tries", "gen", "user", "strategy", "probed", "var",
                "foresaw", "merged"}
  BY DEF TaskFields, NoTask

(* The steps after the inspection, and before it.                          *)
LEMMA AgreeKept ==
  ASSUME AgreeInv, NEW t \in Tasks, NEW fields, Goes(t, fields), UNCHANGED <<envConf, ctr>>,
         "pc" \in DOMAIN fields, DOMAIN fields \subseteq {"pc", "probed", "merged", "tries"},
         fields["pc"] \in Early => task[t].gen = 0
  PROVE  AgreeInv'
  <1>1. TaskShape' /\ \A u \in Tasks \ {t} : task'[u] = task[u]
    BY GoesEffect DEF AgreeInv
  <1>2. /\ task'[t].kind = task[t].kind /\ task'[t].conf = task[t].conf /\ task'[t].rev = task[t].rev
        /\ task'[t].gen = task[t].gen /\ task'[t].user = task[t].user /\ task'[t].strategy = task[t].strategy
        /\ task'[t].var = task[t].var /\ task'[t].omit = task[t].omit /\ task'[t].pc = fields["pc"]
    BY GoesEffect, FieldsKnown DEF AgreeInv
  <1>3. HeldConf(task[t])' /\ Inspected(task[t])'
    BY <1>2 DEF AgreeInv, HeldConf, Inspected
  <1>4. \A u \in Tasks : HeldConf(task[u])' /\ Inspected(task[u])'
    BY <1>1, <1>3 DEF AgreeInv, HeldConf, Inspected
  <1>5. \A u, v \in Tasks : SameTask(task[u], task[v])'
    BY <1>1, <1>2 DEF AgreeInv, SameTask
  <1>6. QED
    BY <1>1, <1>4, <1>5 DEF AgreeInv

(* A command that starts, or fails.                                        *)
LEMMA AgreeReset ==
  ASSUME AgreeInv, NEW t \in Tasks, NEW k, DOMAIN k = TaskFields, task' = [task EXCEPT ![t] = k], UNCHANGED <<envConf, ctr>>,
         HeldConf(k), k.rev \in {0, envConf.rev}, k.gen = 0, k.omit \in BOOLEAN, k.user = NotSet, k.kind \in {"up", "setup", "hooks", "exec", "read"}
  PROVE  AgreeInv'
  <1>1. TaskShape' /\ task'[t] = k /\ \A u \in Tasks \ {t} : task'[u] = task[u]
    BY DEF AgreeInv, TaskShape
  <1>2. HeldConf(k)' /\ Inspected(k)'
    BY DEF AgreeInv, HeldConf, Inspected, UserSpace
  <1>3. \A u \in Tasks : HeldConf(task[u])' /\ Inspected(task[u])'
    BY <1>1, <1>2 DEF AgreeInv, HeldConf, Inspected
  <1>4. \A u \in Tasks : SameTask(k, task[u]) /\ SameTask(task[u], k)
    BY DEF AgreeInv, HeldConf, SameTask
  <1>5. SameTask(k, k)
    BY DEF SameTask
  <1>6. \A u, v \in Tasks : SameTask(task'[u], task'[v])
    BY <1>1, <1>4, <1>5 DEF AgreeInv
  <1>7. QED
    BY <1>1, <1>3, <1>6 DEF AgreeInv, SameTask

(* A client without a command ...                                          *)
LEMMA NoTaskIs ==
  /\ NoTask.pc = "idle" /\ NoTask.kind = "read" /\ NoTask.conf = <<>> /\ NoTask.rev = 0 /\ NoTask.gen = 0
  /\ NoTask.user = NotSet /\ NoTask.omit = FALSE /\ NoTask.probed = <<>> /\ DOMAIN NoTask = TaskFields
  BY DEF NoTask, TaskFields

(* ... and one whose command starts or failed.                             *)
LEMMA FailedIs ==
  ASSUME NEW here
  PROVE  LET k == [NoTask EXCEPT !.pc = here]
         IN  /\ k.pc = here /\ k.kind = "read" /\ k.conf = <<>> /\ k.rev = 0 /\ k.gen = 0
             /\ k.user = NotSet /\ k.omit = FALSE /\ k.probed = <<>> /\ DOMAIN k = TaskFields
  BY DEF NoTask, TaskFields

(* The user of metadata is a string or not set.                            *)
LEMMA UserOfType == ASSUME NEW c, KnownLabel(c), NEW conf \in Confs1 PROVE UserOf(c, conf) \in UserSpace
  <1>1. LastSet(c.label, "user") \in UserSpace
    <2> DEFINE l == c.label
               setting == {i \in DOMAIN l : l[i]["user"] # NotSet}
    <2>1. l \in Seq(EntrySpace)
      BY LabelType
    <2>2. LastSet(l, "user") = IF setting = {} THEN NotSet ELSE l[Max(setting)]["user"]
      BY DEF LastSet
    <2>3. \A i \in DOMAIN l : l[i]["user"] \in UserSpace
      <3>1. \A x \in EntrySpace : x["user"] \in UserSpace
        BY DEF EntrySpace, UserSpace
      <3>2. \A i \in DOMAIN l : l[i] \in EntrySpace
        BY <2>1
      <3>3. QED
        BY <3>1, <3>2
    <2>4. setting # {} => Max(setting) \in DOMAIN l
      <3>1. setting \in SUBSET (1..Len(l)) /\ Len(l) \in Nat /\ DOMAIN l = 1..Len(l)
        BY <2>1
      <3> HIDE DEF l, setting
      <3>2. setting # {} => \E m \in setting : \A i \in setting : m >= i
        BY <3>1, MaxExists
      <3>3. QED
        BY <3>1, <3>2 DEF Max
    <2> HIDE DEF setting, l
    <2>5. QED
      BY <2>2, <2>3, <2>4 DEF UserSpace, l
  <1>2. ConfUser(conf) \in UserSpace
    BY EntriesAssumption DEF Confs1, ConfUser, EntrySpace, UserSpace
  <1>3. QED
    BY <1>1, <1>2 DEF UserOf, UserSpace

(* The container is inspected.                                             *)
LEMMA AgreeInspect ==
  ASSUME AgreeInv, NEW t \in Tasks, InspectContainer(t)
  PROVE  AgreeInv'
  <1> DEFINE k == task[t]
             n == task'[t]
             fields == [pc |-> IF Strategy(k.conf) = "none" THEN "done" ELSE IF k.folder THEN "cached" ELSE "probe",
                        gen |-> ctr.gen, user |-> RemoteUser(k.kind, ctr, k.conf), strategy |-> Strategy(k.conf),
                        var |-> RemoteVar(k.kind, ctr, k.conf)]
  <1>1. Goes(t, fields) /\ UNCHANGED <<envConf, ctr>> /\ ctr.exists /\ k.kind # "read"
    BY DEF InspectContainer
  <1>2. TaskShape' /\ \A u \in Tasks \ {t} : task'[u] = task[u]
    BY <1>1, GoesEffect DEF AgreeInv
  <1>3. /\ n.kind = k.kind /\ n.omit = k.omit /\ n.conf = k.conf /\ n.rev = k.rev
        /\ n.pc = fields.pc /\ n.gen = ctr.gen /\ n.user = RemoteUser(k.kind, ctr, k.conf) /\ n.strategy = Strategy(k.conf)
        /\ n.var = RemoteVar(k.kind, ctr, k.conf)
    <2>1. TaskShape
      BY DEF AgreeInv
    <2> HIDE DEF fields
    <2>2. \A f \in TaskFields : task'[t][f] = IF f \in DOMAIN fields THEN fields[f] ELSE task[t][f]
      BY <1>1, <2>1, GoesEffect
    <2>3. DOMAIN fields = {"pc", "gen", "user", "strategy", "var"}
      BY DEF fields
    <2>4. /\ fields.gen = ctr.gen /\ fields.user = RemoteUser(k.kind, ctr, k.conf) /\ fields.strategy = Strategy(k.conf)
          /\ fields.var = RemoteVar(k.kind, ctr, k.conf)
      BY DEF fields
    <2>5. QED
      BY <2>2, <2>3, <2>4, FieldsKnown
  <1>4. n.pc \notin Early
    BY <1>3 DEF Early
  <1>5. k.conf \in Confs1 /\ KnownLabel(ctr) /\ ctr.gen \in Nat \ {0} /\ k.kind \in {"up", "setup", "hooks", "exec"}
    BY <1>1 DEF AgreeInv, HeldConf, Inspected, Confs1
  <1>6. n.user = UserOf(ctr, k.conf) /\ n.user \in UserSpace
    BY <1>3, <1>5, SameUser, UserOfType
  <1>7. k.conf # <<>> /\ k.conf[1].remote # NotSet => n.var = k.conf[1].remote
    <2>1. ASSUME NEW e \in Confs, k.conf = <<e>>, e.remote # NotSet PROVE n.var = e.remote
      BY <1>3, <1>5, <2>1, SameVar
    <2>2. QED
      BY <1>5, <2>1 DEF Confs1
  <1> HIDE DEF fields
  <1>8. HeldConf(task[t])' /\ Inspected(task[t])'
    <2>1. HeldConf(k) /\ Inspected(k)
      BY DEF AgreeInv
    <2>2. HeldConf(task[t])'
      BY <1>1, <1>3, <2>1 DEF HeldConf
    <2>3. n.gen \in 0..ctr.gen /\ (n.pc \in Early => n.gen = 0)
      BY <1>1, <1>3, <1>4, <1>5
    <2>4. n.omit \in BOOLEAN
      BY <1>3, <2>1 DEF Inspected
    <2>5. QED
      BY <1>1, <1>3, <1>4, <1>5, <1>6, <1>7, <2>2, <2>3, <2>4 DEF Inspected
  <1>9. \A u \in Tasks : HeldConf(task[u])' /\ Inspected(task[u])'
    BY <1>1, <1>2, <1>8 DEF AgreeInv, HeldConf, Inspected
  <1>10. \A u \in Tasks : SameTask(n, task[u]) /\ SameTask(task[u], n)
    BY <1>1, <1>3, <1>5, <1>6 DEF AgreeInv, SameTask, Inspected
  <1>11. \A u, v \in Tasks : SameTask(task'[u], task'[v])
    BY <1>2, <1>10 DEF AgreeInv, SameTask
  <1>12. QED
    BY <1>1, <1>2, <1>9, <1>11 DEF AgreeInv, SameTask

(* read-configuration reports the container.                               *)
LEMMA AgreeReport ==
  ASSUME AgreeInv, NEW t \in Tasks, ReportContainer(t)
  PROVE  AgreeInv'
  <1> DEFINE k == task[t]
             n == task'[t]
             fields == [pc |-> "done", gen |-> ctr.gen, merged |-> Merge(FromContainer(ctr, task[t].conf, <<>>)),
                        foresaw |-> IF task[t].rev = foreseen.rev /\ ctr.rev = foreseen.rev THEN foreseen.merged ELSE <<>>]
  <1>1. Goes(t, fields) /\ UNCHANGED <<envConf, ctr>> /\ ctr.exists /\ k.kind = "read"
    BY DEF ReportContainer
  <1>2. TaskShape' /\ \A u \in Tasks \ {t} : task'[u] = task[u]
    BY <1>1, GoesEffect DEF AgreeInv
  <1>3. /\ n.kind = k.kind /\ n.omit = k.omit /\ n.conf = k.conf /\ n.rev = k.rev /\ n.user = k.user
        /\ n.pc = "done" /\ n.gen = ctr.gen
    <2>1. TaskShape
      BY DEF AgreeInv
    <2>2. DOMAIN fields = {"pc", "gen", "merged", "foresaw"} /\ fields.gen = ctr.gen /\ fields.pc = "done"
      OBVIOUS
    <2> HIDE DEF fields
    <2>3. \A f \in TaskFields : task'[t][f] = IF f \in DOMAIN fields THEN fields[f] ELSE task[t][f]
      BY <1>1, <2>1, GoesEffect
    <2>4. QED
      BY <2>2, <2>3, FieldsKnown
  <1> HIDE DEF fields
  <1>4. HeldConf(task[t])' /\ Inspected(task[t])'
    BY <1>1, <1>3 DEF AgreeInv, HeldConf, Inspected, Early
  <1>5. \A u \in Tasks : HeldConf(task[u])' /\ Inspected(task[u])'
    BY <1>1, <1>2, <1>4 DEF AgreeInv, HeldConf, Inspected
  <1>6. \A u \in Tasks : SameTask(n, task[u]) /\ SameTask(task[u], n)
    BY <1>1, <1>3 DEF AgreeInv, SameTask
  <1>7. \A u, v \in Tasks : SameTask(task'[u], task'[v])
    BY <1>2, <1>6 DEF AgreeInv, SameTask
  <1>8. QED
    BY <1>1, <1>2, <1>5, <1>7 DEF AgreeInv, SameTask

(* The container and the configuration change.                             *)
LEMMA AgreeCtr ==
  ASSUME AgreeInv, UNCHANGED <<envConf, task>>, ctr'.gen \in Nat, ctr'.exists \in BOOLEAN, ctr'.gen >= ctr.gen,
         ctr'.exists => KnownLabel(ctr') /\ ctr'.gen > ctr.gen
  PROVE  AgreeInv'
  <1>1. ASSUME NEW u \in Tasks PROVE HeldConf(task[u])' /\ Inspected(task[u])'
    BY DEF AgreeInv, HeldConf, Inspected
  <1>2. KnownLabel(ctr)' <=> KnownLabel(ctr')
    BY DEF KnownLabel
  <1>3. \A u, v \in Tasks : SameTask(task[u], task[v])'
    BY DEF AgreeInv, SameTask
  <1>4. QED
    BY <1>1, <1>2, <1>3 DEF AgreeInv, TaskShape

(* AgreeInv holds at first.                                                *)
LEMMA AgreeInitial == EnvInit => AgreeInv
  <1> SUFFICES ASSUME EnvInit PROVE AgreeInv
    OBVIOUS
  <1>1. envConf.entry \in Confs /\ envConf.rev = 1 /\ ctr = NoCtr /\ task = [t \in Tasks |-> NoTask]
    BY DEF EnvInit
  <1>2. ctr.gen = 0 /\ ctr.exists = FALSE
    BY <1>1 DEF NoCtr
  <1>3. ctr.exists \in BOOLEAN /\ ~ctr.exists
    BY <1>2, Zenon
  <1>4. \A t \in Tasks : task[t] = NoTask
    BY <1>1
  <1>5. NoTask.omit \in BOOLEAN
    BY NoTaskIs, Zenon
  <1>6. HeldConf(NoTask) /\ Inspected(NoTask) /\ SameTask(NoTask, NoTask)
    BY <1>2, <1>5, NoTaskIs DEF HeldConf, Inspected, SameTask, UserSpace
  <1>7. TaskShape
    BY <1>1, NoTaskIs DEF TaskShape
  <1>8. QED
    BY <1>1, <1>2, <1>3, <1>4, <1>6, <1>7 DEF AgreeInv

(* AgreeInv is inductive.                                                  *)
LEMMA AgreeInductive == AgreeInv /\ [EnvNext]_envVars => AgreeInv'
  <1> SUFFICES ASSUME AgreeInv, [EnvNext]_envVars PROVE AgreeInv'
    OBVIOUS
  <1>1. ASSUME NEW t \in Tasks, NEW kind \in Kinds, NEW given \in BOOLEAN, NEW folder \in BOOLEAN, NEW omit \in BOOLEAN,
               BeginTask(t, kind, given, folder, omit)
        PROVE  AgreeInv'
    <2> DEFINE k == [NoTask EXCEPT !.pc = "find", !.kind = kind, !.folder = folder, !.omit = omit,
                               !.conf = IF given THEN <<envConf.entry>> ELSE <<>>,
                               !.rev = IF given THEN envConf.rev ELSE 0]
    <2>1. task' = [task EXCEPT ![t] = k] /\ UNCHANGED <<envConf, ctr>> /\ (kind = "up" => given)
      BY <1>1 DEF BeginTask
    <2>2. /\ DOMAIN k = TaskFields /\ k.kind = kind /\ k.conf = (IF given THEN <<envConf.entry>> ELSE <<>>)
          /\ k.rev = (IF given THEN envConf.rev ELSE 0) /\ k.gen = 0 /\ k.user = NotSet /\ k.omit = omit
      BY DEF NoTask, TaskFields
    <2> HIDE DEF k
    <2>3. kind \in {"up", "setup", "hooks", "exec", "read"}
      BY KindsAssumption
    <2>4. envConf.entry \in Confs /\ envConf.rev \in Nat \ {0}
      BY DEF AgreeInv
    <2>5. HeldConf(k) /\ k.rev \in {0, envConf.rev}
      BY <2>1, <2>2, <2>4 DEF HeldConf
    <2>6. QED
      BY <2>1, <2>2, <2>3, <2>5, AgreeReset
  <1>2. ASSUME NEW t \in Tasks, NotFound(t) \/ TaskFails(t) PROVE AgreeInv'
    <2> DEFINE k == [NoTask EXCEPT !.pc = "failed"]
    <2>1. task' = [task EXCEPT ![t] = k] /\ UNCHANGED <<envConf, ctr>>
      BY <1>2 DEF NotFound, TaskFails
    <2>2. k.kind = "read" /\ k.conf = <<>> /\ k.rev = 0 /\ k.gen = 0 /\ k.user = NotSet /\ DOMAIN k = TaskFields
      BY FailedIs
    <2>3. k.omit \in BOOLEAN
      BY FailedIs, Zenon
    <2> HIDE DEF k
    <2>4. HeldConf(k)
      BY <2>2 DEF HeldConf
    <2>5. QED
      BY <2>1, <2>2, <2>3, <2>4, AgreeReset
  <1>3. ASSUME NEW t \in Tasks, UseCachedEnv(t) PROVE AgreeInv'
    <2> DEFINE found == ReadEnvCache(task[t].strategy)
               fields == IF found # <<>> THEN [pc |-> "done", probed |-> found] ELSE [pc |-> "probe"]
    <2>1. Goes(t, fields) /\ UNCHANGED <<envConf, ctr>>
      BY <1>3 DEF UseCachedEnv
    <2>2. "pc" \in DOMAIN fields /\ DOMAIN fields \subseteq {"pc", "probed", "merged", "tries"} /\ fields["pc"] \in {"done", "probe"}
      BY Zenon
    <2>3. fields["pc"] \notin Early
      BY <2>2 DEF Early
    <2> HIDE DEF fields
    <2>4. QED
      BY <2>1, <2>2, <2>3, AgreeKept
  <1>4. ASSUME NEW t \in Tasks, ProbeEnv(t) PROVE AgreeInv'
    <2> DEFINE made == [pc |-> IF task[t].folder THEN "truncate" ELSE "done", probed |-> Cells(task[t].user, task[t].strategy)]
               none == [pc |-> "done"]
    <2>1. (Goes(t, made) \/ Goes(t, none)) /\ UNCHANGED <<envConf, ctr>>
      BY <1>4 DEF ProbeEnv
    <2>2. /\ DOMAIN made = {"pc", "probed"} /\ DOMAIN none = {"pc"}
          /\ made["pc"] \notin Early /\ none["pc"] \notin Early
      BY DEF Early
    <2> HIDE DEF made, none
    <2>3. QED
      BY <2>1, <2>2, AgreeKept
  <1>5. ASSUME NEW t \in Tasks, TruncateCache(t) PROVE AgreeInv'
    <2> DEFINE fields == [pc |-> "print"]
    <2>1. Goes(t, fields) /\ UNCHANGED <<envConf, ctr>>
      BY <1>5 DEF TruncateCache
    <2>2. DOMAIN fields = {"pc"} /\ fields["pc"] \notin Early
      BY DEF Early
    <2> HIDE DEF fields
    <2>3. QED
      BY <2>1, <2>2, AgreeKept
  <1>6. ASSUME NEW t \in Tasks, PrintCache(t) PROVE AgreeInv'
    <2> DEFINE fields == [pc |-> "done"]
    <2>1. Goes(t, fields) /\ UNCHANGED <<envConf, ctr>>
      BY <1>6 DEF PrintCache
    <2>2. DOMAIN fields = {"pc"} /\ fields["pc"] \notin Early
      BY DEF Early
    <2> HIDE DEF fields
    <2>3. QED
      BY <2>1, <2>2, AgreeKept
  <1>7. ASSUME NEW t \in Tasks, InspectImage(t) PROVE AgreeInv'
    <2> DEFINE fields == [pc |-> IF task[t].conf = <<>> THEN "failed" ELSE IF local THEN "report" ELSE "registry"]
    <2>1. Goes(t, fields) /\ UNCHANGED <<envConf, ctr>> /\ task[t].gen = 0
      BY <1>7 DEF InspectImage, In, AgreeInv, Inspected, Early
    <2>2. DOMAIN fields = {"pc"}
      OBVIOUS
    <2> HIDE DEF fields
    <2>3. QED
      BY <2>1, <2>2, AgreeKept
  <1>8. ASSUME NEW t \in Tasks, InspectInRegistry(t) PROVE AgreeInv'
    <2> DEFINE found == [pc |-> "report"]
               none  == [pc |-> "pull"]
    <2>1. (Goes(t, found) \/ Goes(t, none)) /\ UNCHANGED <<envConf, ctr>> /\ task[t].gen = 0
      BY <1>8 DEF InspectInRegistry, In, AgreeInv, Inspected, Early
    <2>2. DOMAIN found = {"pc"} /\ DOMAIN none = {"pc"}
      OBVIOUS
    <2> HIDE DEF found, none
    <2>3. QED
      BY <2>1, <2>2, AgreeKept
  <1>9. ASSUME NEW t \in Tasks, PullAgain(t) PROVE AgreeInv'
    <2> DEFINE found == [pc |-> "report"]
               none  == [tries |-> task[t].tries + 1, pc |-> IF task[t].tries + 1 = PullAttempts THEN "failed" ELSE "pull"]
    <2>1. (Goes(t, found) \/ Goes(t, none)) /\ UNCHANGED <<envConf, ctr>> /\ task[t].gen = 0
      BY <1>9 DEF PullAgain, In, AgreeInv, Inspected, Early
    <2>2. DOMAIN found = {"pc"} /\ DOMAIN none = {"tries", "pc"}
      OBVIOUS
    <2> HIDE DEF found, none
    <2>3. QED
      BY <2>1, <2>2, AgreeKept
  <1>10. ASSUME NEW t \in Tasks, ReportImage(t) PROVE AgreeInv'
    <2> DEFINE fields == [pc |-> "done", merged |-> Merge(Base \o Feature \o task[t].conf)]
    <2>1. Goes(t, fields) /\ UNCHANGED <<envConf, ctr>>
      BY <1>10 DEF ReportImage
    <2>2. DOMAIN fields = {"pc", "merged"} /\ fields["pc"] \notin Early
      BY DEF Early
    <2> HIDE DEF fields
    <2>3. QED
      BY <2>1, <2>2, AgreeKept
  <1>11. ASSUME NEW t \in Tasks, MakeContainer(t) PROVE AgreeInv'
    <2> DEFINE c == [exists |-> TRUE, idLabelled |-> TRUE, rev |-> task[t].rev, gen |-> ctr.gen + 1,
                     label |-> ImageEntries(task[t].conf[1]) \o <<LabelEntry(task[t].conf[1], task[t].omit)>>]
    <2>1. ctr' = c /\ UNCHANGED <<envConf, task>> /\ task[t].kind = "up"
      BY <1>11 DEF MakeContainer
    <2>2. PICK e \in Confs : task[t].conf = <<e>>
      BY <2>1 DEF AgreeInv, HeldConf
    <2>3. KnownLabel(c)
      <3>1. task[t].omit \in BOOLEAN
        BY DEF AgreeInv, Inspected
      <3>2. c.label = ImageEntries(e) \o <<LabelEntry(e, task[t].omit)>>
        BY <2>2
      <3>3. c.idLabelled
        OBVIOUS
      <3> HIDE DEF c
      <3>4. QED
        BY <3>1, <3>2, <3>3 DEF KnownLabel
    <2>4. c.gen = ctr.gen + 1 /\ c.exists \in BOOLEAN
      BY Zenon
    <2> HIDE DEF c
    <2>5. ctr.gen \in Nat
      BY DEF AgreeInv
    <2>6. QED
      BY <2>1, <2>3, <2>4, <2>5, AgreeCtr
  <1>12. CASE EditConf
    <2>1. PICK e \in Confs \ {envConf.entry} : envConf' = [entry |-> e, rev |-> envConf.rev + 1]
      BY <1>12 DEF EditConf
    <2>2. envConf'.entry = e /\ envConf'.rev = envConf.rev + 1 /\ UNCHANGED <<ctr, task>>
      BY <1>12, <2>1 DEF EditConf
    <2>3. ASSUME NEW u \in Tasks PROVE HeldConf(task[u])' /\ Inspected(task[u])'
      BY <2>2 DEF AgreeInv, HeldConf, Inspected
    <2>4. QED
      BY <2>2, <2>3 DEF AgreeInv, TaskShape, SameTask
  <1>13. CASE RemoveCtr
    <2>1. ctr'.gen = ctr.gen /\ ctr'.exists = FALSE /\ UNCHANGED <<envConf, task>>
      BY <1>13 DEF RemoveCtr, NoCtr
    <2>2. ctr'.exists \in BOOLEAN /\ ~ctr'.exists
      BY <2>1, Zenon
    <2>3. ctr.gen \in Nat
      BY DEF AgreeInv
    <2>4. QED
      BY <2>1, <2>2, <2>3, AgreeCtr
  <1>14. CASE RunByHand
    <2> DEFINE c == [exists |-> TRUE, label |-> Base, idLabelled |-> FALSE, rev |-> 0, gen |-> ctr.gen + 1]
    <2>1. ctr' = c /\ UNCHANGED <<envConf, task>>
      BY <1>14 DEF RunByHand
    <2>2. c.gen = ctr.gen + 1 /\ c.exists \in BOOLEAN /\ c.label = Base /\ ~c.idLabelled
      BY Zenon
    <2> HIDE DEF c
    <2>3. KnownLabel(c) /\ ctr.gen \in Nat
      BY <2>2 DEF KnownLabel, AgreeInv
    <2>4. QED
      BY <2>1, <2>2, <2>3, AgreeCtr
  <1>15. CASE UNCHANGED envVars
    BY <1>15 DEF envVars, AgreeInv, TaskShape, HeldConf, Inspected, SameTask, UserOf, KnownLabel
  <1>16. QED
    BY <1>1, <1>2, <1>3, <1>4, <1>5, <1>6, <1>7, <1>8, <1>9, <1>10, <1>11, <1>12, <1>13, <1>14, <1>15, AgreeInspect,
       AgreeReport DEF EnvNext, TaskStep

(* ... hence an invariant.                                                 *)
LEMMA AgreeInvariant == EnvSpec => []AgreeInv
  BY AgreeInitial, AgreeInductive, PTL DEF EnvSpec

(* upRemoteUser, setUpContainer, lifecycleRemoteUser and execRemoteUser:   *)
(* commands that found one container and read one configuration run as the *)
(* same user, probe in the same way and set the variable to the same,      *)
(* whatever the labels and configurations are (RemoteEnv.CommandsAgree).   *)
THEOREM CommandsSeeTheSame == EnvSpec => []CommandsAgree
  <1>1. AgreeInv => CommandsAgree
    <2> SUFFICES ASSUME AgreeInv, NEW t \in Tasks, NEW u \in Tasks,
                        task[t].pc = "done", task[u].pc = "done", task[t].gen = task[u].gen, task[t].gen # 0,
                        task[t].rev = task[u].rev, task[t].kind # "read", task[u].kind # "read"
                 PROVE  /\ task[t].user = task[u].user /\ task[t].strategy = task[u].strategy
                        /\ (task[t].conf # <<>> /\ task[t].conf[1].remote # NotSet => task[t].var = task[u].var)
      BY DEF CommandsAgree
    <2>1. SameTask(task[t], task[u]) /\ Inspected(task[t]) /\ Inspected(task[u])
      BY DEF AgreeInv
    <2>2. QED
      BY <2>1 DEF SameTask, Inspected
  <1>2. QED
    BY <1>1, AgreeInvariant, PTL

-----------------------------------------------------------------------------
(* What is probed is probed with one of the strategies.                    *)
LEMMA StrategyType == ASSUME NEW conf \in Confs1, Strategy(conf) # "none" PROVE Strategy(conf) \in Strategies
  <1>1. ASSUME NEW e \in Confs PROVE e.probe \in Strategies \cup {"none", NotSet}
    BY EntriesAssumption DEF EntrySpace
  <1>2. QED
    BY <1>1 DEF Confs1, Strategy, Strategies

(* What a probe prints is whole and of its user and strategy.              *)
LEMMA CellsWhole ==
  ASSUME NEW u, NEW s
  PROVE  /\ Parses(Cells(u, s)) /\ Cells(u, s)[1].user = u /\ Cells(u, s)[1].strategy = s
         /\ u \in UserSpace => Cells(u, s) \in Seq(Cell(s))
  <1> DEFINE c == [user |-> u, strategy |-> s]
             n == Size(u)
             cs == Cells(u, s)
  <1>1. n \in {1, 2}
    BY DEF Size
  <1>2. cs = [i \in 1..n |-> c]
    BY DEF Cells
  <1>3. c.user = u /\ c.strategy = s /\ (u \in UserSpace => c \in Cell(s))
    BY DEF Cell
  <1> HIDE DEF c, n, cs
  <1>4. cs[1] = c /\ cs # <<>>
    BY <1>1, <1>2
  <1>5. cs[1].user = u
    BY <1>3, <1>4
  <1>6. cs = [i \in 1..Size(cs[1].user) |-> cs[1]]
    BY <1>2, <1>4, <1>5 DEF n
  <1>7. Parses(cs)
    BY <1>4, <1>6 DEF Parses
  <1>8. u \in UserSpace => cs \in Seq(Cell(s))
    BY <1>1, <1>2, <1>3
  <1>9. QED
    BY <1>3, <1>4, <1>7, <1>8 DEF cs

(* Printing over what is there.                                            *)
LEMMA OverwriteType ==
  ASSUME NEW S, NEW old \in Seq(S), NEW new \in Seq(S)
  PROVE  Overwrite(old, new) \in Seq(S)
  <1>1. Len(new) \in Nat /\ Len(old) \in Nat
    OBVIOUS
  <1>2. \A i \in (Len(new) + 1)..Len(old) : i \in 1..Len(old)
    BY <1>1
  <1>3. SubSeq(old, Len(new) + 1, Len(old)) \in Seq(S)
    BY <1>1, <1>2, SubSeqProperties
  <1>4. QED
    BY <1>3 DEF Overwrite

(* The fields that the probe is about, after a step.                       *)
LEMMA FieldsAfter ==
  ASSUME TaskShape, NEW t \in Tasks, NEW fields, Goes(t, fields)
  PROVE  LET After(f) == IF f \in DOMAIN fields THEN fields[f] ELSE task[t][f]
         IN  /\ task'[t].pc = After("pc") /\ task'[t].user = After("user") /\ task'[t].strategy = After("strategy")
             /\ task'[t].folder = After("folder") /\ task'[t].probed = After("probed")
  BY GoesEffect, FieldsKnown

(* One command steps; what is in the files is of the right strategy.       *)
LEMMA ProbedStep ==
  ASSUME ProbeInv, NEW t \in Tasks, ProbedBy(task'[t]), \A u \in Tasks \ {t} : task'[u] = task[u],
         DOMAIN envCache' = Strategies, \A s \in Strategies : envCache'[s] \in Seq(Cell(s))
  PROVE  ProbeInv'
  <1>1. \A u \in Tasks : ProbedBy(task'[u])
    BY DEF ProbeInv
  <1>2. QED
    BY <1>1 DEF ProbeInv, ProbedBy

(* The steps of a command that has probed nothing yet and does not now.    *)
LEMMA ProbedNothing ==
  ASSUME AgreeInv, ProbeInv, NEW t \in Tasks, NEW fields, Goes(t, fields), UNCHANGED envCache,
         task[t].probed = <<>>, "pc" \in DOMAIN fields, fields["pc"] \notin {"truncate", "print"},
         DOMAIN fields \cap {"folder", "probed"} = {},
         fields["pc"] = "cached" => task[t].folder,
         fields["pc"] \in {"cached", "probe"} =>
           (IF "strategy" \in DOMAIN fields THEN fields["strategy"] ELSE task[t].strategy) \in Strategies
  PROVE  ProbeInv'
  <1>1. TaskShape /\ \A u \in Tasks \ {t} : task'[u] = task[u]
    BY GoesEffect DEF AgreeInv
  <1>2. /\ task'[t].pc = fields["pc"] /\ task'[t].probed = <<>> /\ task'[t].folder = task[t].folder
        /\ task'[t].strategy = IF "strategy" \in DOMAIN fields THEN fields["strategy"] ELSE task[t].strategy
    BY <1>1, FieldsAfter
  <1>3. ProbedBy(task'[t])
    BY <1>2 DEF ProbedBy
  <1>4. DOMAIN envCache' = Strategies /\ \A s \in Strategies : envCache'[s] \in Seq(Cell(s))
    BY DEF ProbeInv
  <1>5. QED
    BY <1>1, <1>3, <1>4, ProbedStep

(* A command that starts, or fails.                                        *)
LEMMA ProbedReset ==
  ASSUME AgreeInv, ProbeInv, NEW t \in Tasks, NEW k, task' = [task EXCEPT ![t] = k], UNCHANGED envCache,
         k.probed = <<>>, k.pc \in {"find", "failed"}
  PROVE  ProbeInv'
  <1>1. task'[t] = k /\ \A u \in Tasks \ {t} : task'[u] = task[u]
    BY DEF AgreeInv, TaskShape
  <1>2. ProbedBy(k)
    BY DEF ProbedBy
  <1>3. DOMAIN envCache' = Strategies /\ \A s \in Strategies : envCache'[s] \in Seq(Cell(s))
    BY DEF ProbeInv
  <1>4. QED
    BY <1>1, <1>2, <1>3, ProbedStep

(* ProbeInv holds at first.                                                *)
LEMMA ProbeInitial == EnvInit => ProbeInv
  <1> SUFFICES ASSUME EnvInit PROVE ProbeInv
    OBVIOUS
  <1>1. envCache = [s \in Strategies |-> <<>>] /\ \A t \in Tasks : task[t] = NoTask
    BY DEF EnvInit
  <1>2. ProbedBy(NoTask)
    BY NoTaskIs DEF ProbedBy
  <1>3. QED
    BY <1>1, <1>2 DEF ProbeInv

(* ProbeInv is inductive, relative to AgreeInv.                            *)
LEMMA ProbeInductive == AgreeInv /\ ProbeInv /\ [EnvNext]_envVars => ProbeInv'
  <1> SUFFICES ASSUME AgreeInv, ProbeInv, [EnvNext]_envVars PROVE ProbeInv'
    OBVIOUS
  <1>1. ASSUME NEW t \in Tasks, NEW kind \in Kinds, NEW given \in BOOLEAN, NEW folder \in BOOLEAN, NEW omit \in BOOLEAN,
               BeginTask(t, kind, given, folder, omit)
        PROVE  ProbeInv'
    <2> DEFINE k == [NoTask EXCEPT !.pc = "find", !.kind = kind, !.folder = folder, !.omit = omit,
                               !.conf = IF given THEN <<envConf.entry>> ELSE <<>>,
                               !.rev = IF given THEN envConf.rev ELSE 0]
    <2>1. task' = [task EXCEPT ![t] = k] /\ UNCHANGED envCache
      BY <1>1 DEF BeginTask
    <2>2. k.pc = "find" /\ k.probed = <<>>
      BY DEF NoTask
    <2> HIDE DEF k
    <2>3. QED
      BY <2>1, <2>2, ProbedReset
  <1>2. ASSUME NEW t \in Tasks, NotFound(t) \/ TaskFails(t) PROVE ProbeInv'
    <2> DEFINE k == [NoTask EXCEPT !.pc = "failed"]
    <2>1. task' = [task EXCEPT ![t] = k] /\ UNCHANGED envCache
      BY <1>2 DEF NotFound, TaskFails
    <2>2. k.pc = "failed" /\ k.probed = <<>>
      BY FailedIs
    <2> HIDE DEF k
    <2>3. QED
      BY <2>1, <2>2, ProbedReset
  <1>3. ASSUME NEW t \in Tasks, InspectContainer(t) PROVE ProbeInv'
    <2> DEFINE k == task[t]
               fields == [pc |-> IF Strategy(k.conf) = "none" THEN "done" ELSE IF k.folder THEN "cached" ELSE "probe",
                          gen |-> ctr.gen, user |-> RemoteUser(k.kind, ctr, k.conf), strategy |-> Strategy(k.conf),
                          var |-> RemoteVar(k.kind, ctr, k.conf)]
    <2>1. Goes(t, fields) /\ UNCHANGED envCache /\ k.pc = "find"
      BY <1>3 DEF InspectContainer, In
    <2>2. k.probed = <<>>
      BY <2>1 DEF ProbeInv, ProbedBy
    <2>3. k.conf \in Confs1
      BY DEF AgreeInv, HeldConf, Confs1
    <2>4. DOMAIN fields = {"pc", "gen", "user", "strategy", "var"} /\ fields["strategy"] = Strategy(k.conf)
      OBVIOUS
    <2>5. fields["pc"] = IF Strategy(k.conf) = "none" THEN "done" ELSE IF k.folder THEN "cached" ELSE "probe"
      OBVIOUS
    <2> HIDE DEF fields
    <2>6. fields["pc"] \in {"cached", "probe"} => Strategy(k.conf) \in Strategies
      BY <2>3, <2>5, StrategyType
    <2>7. fields["pc"] \notin {"truncate", "print"} /\ (fields["pc"] = "cached" => k.folder)
      BY <2>5
    <2>8. QED
      BY <2>1, <2>2, <2>4, <2>6, <2>7, ProbedNothing
  <1>4. ASSUME NEW t \in Tasks, UseCachedEnv(t) PROVE ProbeInv'
    <2> DEFINE s == task[t].strategy
               found == ReadEnvCache(s)
    <2>1. /\ task[t].pc = "cached" /\ UNCHANGED envCache
          /\ Goes(t, IF found # <<>> THEN [pc |-> "done", probed |-> found] ELSE [pc |-> "probe"])
      BY <1>4 DEF UseCachedEnv, In
    <2>2. s \in Strategies /\ task[t].folder /\ task[t].probed = <<>> /\ envCache[s] \in Seq(Cell(s))
      BY <2>1 DEF ProbeInv, ProbedBy
    <2>3. CASE found = <<>>
      <3> DEFINE fields == [pc |-> "probe"]
      <3>1. Goes(t, fields)
        BY <2>1, <2>3
      <3>2. DOMAIN fields = {"pc"} /\ fields["pc"] = "probe"
        OBVIOUS
      <3> HIDE DEF fields
      <3>3. QED
        BY <2>1, <2>2, <3>1, <3>2, ProbedNothing
    <2>4. CASE found # <<>>
      <3> DEFINE fields == [pc |-> "done", probed |-> found]
      <3>1. Goes(t, fields)
        BY <2>1, <2>4
      <3>2. DOMAIN fields = {"pc", "probed"} /\ fields["pc"] = "done" /\ fields["probed"] = found
        OBVIOUS
      <3> HIDE DEF fields
      <3>3. TaskShape /\ \A u \in Tasks \ {t} : task'[u] = task[u]
        BY <3>1, GoesEffect DEF AgreeInv
      <3>4. /\ task'[t].pc = "done" /\ task'[t].probed = found /\ task'[t].folder = task[t].folder
            /\ task'[t].strategy = s
        BY <3>1, <3>2, <3>3, FieldsAfter
      <3>5. Parses(found) /\ found = envCache[s]
        BY <2>4 DEF ReadEnvCache
      <3>6. found[1].strategy = s
        <4>1. found[1] \in Cell(s)
          BY <2>2, <2>4, <3>5
        <4>2. QED
          BY <4>1 DEF Cell
      <3>7. ProbedBy(task'[t])
        BY <2>2, <3>4, <3>5, <3>6 DEF ProbedBy
      <3>8. DOMAIN envCache' = Strategies /\ \A x \in Strategies : envCache'[x] \in Seq(Cell(x))
        BY <2>1 DEF ProbeInv
      <3>9. QED
        BY <3>3, <3>7, <3>8, ProbedStep
    <2>5. QED
      BY <2>3, <2>4
  <1>5. ASSUME NEW t \in Tasks, ProbeEnv(t) PROVE ProbeInv'
    <2> DEFINE k == task[t]
               made == [pc |-> IF k.folder THEN "truncate" ELSE "done", probed |-> Cells(k.user, k.strategy)]
               none == [pc |-> "done"]
    <2>1. k.pc = "probe" /\ UNCHANGED envCache /\ (Goes(t, made) \/ Goes(t, none))
      BY <1>5 DEF ProbeEnv, In
    <2>2. k.strategy \in Strategies /\ k.probed = <<>>
      BY <2>1 DEF ProbeInv, ProbedBy
    <2>3. /\ DOMAIN made = {"pc", "probed"} /\ made["pc"] = (IF k.folder THEN "truncate" ELSE "done")
          /\ made["probed"] = Cells(k.user, k.strategy)
      OBVIOUS
    <2>4. DOMAIN none = {"pc"} /\ none["pc"] = "done"
      OBVIOUS
    <2> HIDE DEF made, none
    <2>5. CASE Goes(t, none)
      BY <2>1, <2>2, <2>4, <2>5, ProbedNothing
    <2>6. CASE Goes(t, made)
      <3>1. TaskShape /\ \A u \in Tasks \ {t} : task'[u] = task[u]
        BY <2>6, GoesEffect DEF AgreeInv
      <3>2. /\ task'[t].pc = (IF k.folder THEN "truncate" ELSE "done") /\ task'[t].probed = Cells(k.user, k.strategy)
            /\ task'[t].folder = k.folder /\ task'[t].strategy = k.strategy /\ task'[t].user = k.user
        BY <2>3, <2>6, <3>1, FieldsAfter
      <3>3. ProbedBy(task'[t])
        BY <2>2, <3>2, CellsWhole DEF ProbedBy
      <3>4. DOMAIN envCache' = Strategies /\ \A x \in Strategies : envCache'[x] \in Seq(Cell(x))
        BY <2>1 DEF ProbeInv
      <3>5. QED
        BY <3>1, <3>3, <3>4, ProbedStep
    <2>7. QED
      BY <2>1, <2>5, <2>6
  <1>6. ASSUME NEW t \in Tasks, TruncateCache(t) PROVE ProbeInv'
    <2> DEFINE k == task[t]
               fields == [pc |-> "print"]
    <2>1. k.pc = "truncate" /\ Goes(t, fields) /\ envCache' = [envCache EXCEPT ![k.strategy] = <<>>]
      BY <1>6 DEF TruncateCache, In
    <2>2. DOMAIN fields = {"pc"} /\ fields["pc"] = "print"
      OBVIOUS
    <2> HIDE DEF fields
    <2>3. TaskShape /\ \A u \in Tasks \ {t} : task'[u] = task[u]
      BY <2>1, GoesEffect DEF AgreeInv
    <2>4. /\ task'[t].pc = "print" /\ task'[t].probed = k.probed
          /\ task'[t].folder = k.folder /\ task'[t].strategy = k.strategy /\ task'[t].user = k.user
      BY <2>1, <2>2, <2>3, FieldsAfter
    <2>5. ProbedBy(k)
      BY DEF ProbeInv
    <2>6. ProbedBy(task'[t])
      BY <2>1, <2>4, <2>5 DEF ProbedBy
    <2>7. DOMAIN envCache' = Strategies /\ \A x \in Strategies : envCache'[x] \in Seq(Cell(x))
      <3>1. \A x \in Strategies : envCache'[x] = <<>> \/ envCache'[x] = envCache[x]
        BY <2>1 DEF ProbeInv
      <3>2. QED
        BY <2>1, <3>1 DEF ProbeInv
    <2>8. QED
      BY <2>3, <2>6, <2>7, ProbedStep
  <1>7. ASSUME NEW t \in Tasks, PrintCache(t) PROVE ProbeInv'
    <2> DEFINE k == task[t]
               fields == [pc |-> "done"]
    <2>1. /\ k.pc = "print" /\ Goes(t, fields)
          /\ envCache' = [envCache EXCEPT ![k.strategy] = Overwrite(envCache[k.strategy], k.probed)]
      BY <1>7 DEF PrintCache, In
    <2>2. DOMAIN fields = {"pc"} /\ fields["pc"] = "done"
      OBVIOUS
    <2> HIDE DEF fields
    <2>3. TaskShape /\ \A u \in Tasks \ {t} : task'[u] = task[u]
      BY <2>1, GoesEffect DEF AgreeInv
    <2>4. /\ task'[t].pc = "done" /\ task'[t].probed = k.probed
          /\ task'[t].folder = k.folder /\ task'[t].strategy = k.strategy /\ task'[t].user = k.user
      BY <2>1, <2>2, <2>3, FieldsAfter
    <2>5. k.probed = Cells(k.user, k.strategy) /\ k.folder /\ k.strategy \in Strategies /\ k.user \in UserSpace
      BY <2>1 DEF ProbeInv, ProbedBy, AgreeInv, Inspected
    <2>6. ProbedBy(task'[t])
      BY <2>4, <2>5, CellsWhole DEF ProbedBy
    <2>7. DOMAIN envCache' = Strategies /\ \A x \in Strategies : envCache'[x] \in Seq(Cell(x))
      <3>1. k.probed \in Seq(Cell(k.strategy)) /\ envCache[k.strategy] \in Seq(Cell(k.strategy))
        BY <2>5, CellsWhole DEF ProbeInv
      <3>2. Overwrite(envCache[k.strategy], k.probed) \in Seq(Cell(k.strategy))
        BY <3>1, OverwriteType
      <3>3. QED
        BY <2>1, <3>2 DEF ProbeInv
    <2>8. QED
      BY <2>3, <2>6, <2>7, ProbedStep
  <1>8. ASSUME NEW t \in Tasks, ReportContainer(t) PROVE ProbeInv'
    <2> DEFINE fields == [pc |-> "done", gen |-> ctr.gen, merged |-> Merge(FromContainer(ctr, task[t].conf, <<>>)),
                          foresaw |-> IF task[t].rev = foreseen.rev /\ ctr.rev = foreseen.rev THEN foreseen.merged ELSE <<>>]
    <2>1. Goes(t, fields) /\ UNCHANGED envCache /\ task[t].pc = "find"
      BY <1>8 DEF ReportContainer, In
    <2>2. task[t].probed = <<>>
      BY <2>1 DEF ProbeInv, ProbedBy
    <2>3. DOMAIN fields = {"pc", "gen", "merged", "foresaw"} /\ fields["pc"] \in {"done"}
      OBVIOUS
    <2> HIDE DEF fields
    <2>4. QED
      BY <2>1, <2>2, <2>3, ProbedNothing
  <1>9. ASSUME NEW t \in Tasks, InspectImage(t) PROVE ProbeInv'
    <2> DEFINE fields == [pc |-> IF task[t].conf = <<>> THEN "failed" ELSE IF local THEN "report" ELSE "registry"]
    <2>1. Goes(t, fields) /\ UNCHANGED envCache /\ task[t].pc = "find"
      BY <1>9 DEF InspectImage, In
    <2>2. task[t].probed = <<>>
      BY <2>1 DEF ProbeInv, ProbedBy
    <2>3. DOMAIN fields = {"pc"} /\ fields["pc"] \in {"failed", "report", "registry"}
      OBVIOUS
    <2> HIDE DEF fields
    <2>4. QED
      BY <2>1, <2>2, <2>3, ProbedNothing
  <1>10. ASSUME NEW t \in Tasks, InspectInRegistry(t) PROVE ProbeInv'
    <2> DEFINE found == [pc |-> "report"]
               none  == [pc |-> "pull"]
    <2>1. (Goes(t, found) \/ Goes(t, none)) /\ UNCHANGED envCache /\ task[t].pc = "registry"
      BY <1>10 DEF InspectInRegistry, In
    <2>2. task[t].probed = <<>>
      BY <2>1 DEF ProbeInv, ProbedBy
    <2>3. DOMAIN found = {"pc"} /\ found["pc"] = "report" /\ DOMAIN none = {"pc"} /\ none["pc"] \in {"pull"}
      OBVIOUS
    <2> HIDE DEF found, none
    <2>4. QED
      BY <2>1, <2>2, <2>3, ProbedNothing
  <1>11. ASSUME NEW t \in Tasks, PullAgain(t) PROVE ProbeInv'
    <2> DEFINE found == [pc |-> "report"]
               none  == [tries |-> task[t].tries + 1, pc |-> IF task[t].tries + 1 = PullAttempts THEN "failed" ELSE "pull"]
    <2>1. (Goes(t, found) \/ Goes(t, none)) /\ UNCHANGED envCache /\ task[t].pc = "pull"
      BY <1>11 DEF PullAgain, In
    <2>2. task[t].probed = <<>>
      BY <2>1 DEF ProbeInv, ProbedBy
    <2>3. DOMAIN found = {"pc"} /\ found["pc"] = "report" /\ DOMAIN none = {"tries", "pc"} /\ none["pc"] \in {"failed", "pull"}
      OBVIOUS
    <2> HIDE DEF found, none
    <2>4. QED
      BY <2>1, <2>2, <2>3, ProbedNothing
  <1>12. ASSUME NEW t \in Tasks, ReportImage(t) PROVE ProbeInv'
    <2> DEFINE fields == [pc |-> "done", merged |-> Merge(Base \o Feature \o task[t].conf)]
    <2>1. Goes(t, fields) /\ UNCHANGED envCache /\ task[t].pc = "report"
      BY <1>12 DEF ReportImage, In
    <2>2. task[t].probed = <<>>
      BY <2>1 DEF ProbeInv, ProbedBy
    <2>3. DOMAIN fields = {"pc", "merged"} /\ fields["pc"] \in {"done"}
      OBVIOUS
    <2> HIDE DEF fields
    <2>4. QED
      BY <2>1, <2>2, <2>3, ProbedNothing
  <1>13. CASE RemoveCtr
    <2>1. envCache' = [s \in Strategies |-> <<>>] /\ UNCHANGED task
      BY <1>13 DEF RemoveCtr
    <2>2. QED
      BY <2>1 DEF ProbeInv, ProbedBy
  <1>14. ASSUME UNCHANGED <<task, envCache>> PROVE ProbeInv'
    BY <1>14 DEF ProbeInv, ProbedBy
  <1>15. ASSUME NEW t \in Tasks, MakeContainer(t) PROVE ProbeInv'
    BY <1>14, <1>15 DEF MakeContainer
  <1>16. CASE EditConf \/ RunByHand \/ UNCHANGED envVars
    BY <1>14, <1>16 DEF EditConf, RunByHand, envVars
  <1>17. QED
    BY <1>1, <1>2, <1>3, <1>4, <1>5, <1>6, <1>7, <1>8, <1>9, <1>10, <1>11, <1>12, <1>13, <1>15, <1>16
    DEF EnvNext, TaskStep

(* lifecycle/probe.go: what a command takes for the probed environment is  *)
(* whole and of the strategy it asked for, however the probes of others    *)
(* interleave with its own on the file (RemoteEnv.ProbedEnvWhole).         *)
THEOREM ProbesAreWhole == EnvSpec => []ProbedEnvWhole
  <1>1. ProbeInv => ProbedEnvWhole
    BY DEF ProbeInv, ProbedBy, ProbedEnvWhole
  <1>2. QED
    BY <1>1, AgreeInvariant, ProbeInitial, ProbeInductive, PTL DEF EnvSpec


-----------------------------------------------------------------------------
(* The fields that are not scalars.                                        *)
LEMMA MergeOthers ==
  ASSUME NEW a \in Seq(EntrySpace), NEW b \in Seq(EntrySpace), Len(a) = Len(b) + 1,
         \A i \in 1..Len(b) : /\ a[i].hooks = b[i].hooks /\ a[i].mounts = b[i].mounts
                              /\ a[i].init = b[i].init /\ a[i].cpus = b[i].cpus,
         a[Len(a)].hooks = <<>>, a[Len(a)].mounts = <<>>, a[Len(a)].init = FALSE, a[Len(a)].cpus = 0
  PROVE  /\ Collected(a, "hooks") = Collected(b, "hooks") /\ DedupeMounts(a) = DedupeMounts(b)
         /\ ((\E i \in DOMAIN a : a[i].init) <=> (\E i \in DOMAIN b : b[i].init)) /\ Greatest(a) = Greatest(b)
  <1> DEFINE n == Len(b)
  <1>1. n \in Nat /\ DOMAIN b = 1..n /\ DOMAIN a = 1..n \cup {n + 1} /\ n + 1 \notin 1..n /\ Len(a) = n + 1
    OBVIOUS
  <1>2. /\ \A i \in 1..n : /\ a[i].hooks = b[i].hooks /\ a[i].mounts = b[i].mounts
                           /\ a[i].init = b[i].init /\ a[i].cpus = b[i].cpus
        /\ a[n + 1].hooks = <<>> /\ a[n + 1].mounts = <<>> /\ a[n + 1].init = FALSE /\ a[n + 1].cpus = 0
    BY <1>1
  <1> HIDE DEF n
  <1>3. Collected(a, "hooks") = Collected(b, "hooks")
    <2> DEFINE some(s) == {j \in DOMAIN s : s[j]["hooks"] # <<>>}
    <2>1. some(a) = some(b) /\ some(b) \subseteq 1..n
      BY <1>1, <1>2
    <2>2. Collected(a, "hooks") = [i \in some(a) |-> a[i]["hooks"]] /\ Collected(b, "hooks") = [i \in some(b) |-> b[i]["hooks"]]
      BY DEF Collected
    <2>3. \A i \in some(b) : a[i]["hooks"] = b[i]["hooks"]
      BY <1>2, <2>1
    <2> HIDE DEF some
    <2>4. QED
      BY <2>1, <2>2, <2>3
  <1>4. DedupeMounts(a) = DedupeMounts(b)
    <2> DEFINE Place(s)    == UNION {{i} \X DOMAIN s[i].mounts : i \in DOMAIN s}
               On(s, p)    == s[p[1]].mounts[p[2]]
               Later(p, q) == q[1] < p[1] \/ (q[1] = p[1] /\ q[2] < p[2])
               Kept(s)     == {x \in Place(s) : \A q \in Place(s) : Later(q, x) => On(s, q).target # On(s, x).target}
    <2>1. Place(a) = Place(b)
      <3>1. DOMAIN <<>> = {}
        OBVIOUS
      <3>2. {n + 1} \X DOMAIN a[n + 1].mounts = {}
        BY <1>2, <3>1
      <3>3. \A i \in 1..n : {i} \X DOMAIN a[i].mounts = {i} \X DOMAIN b[i].mounts
        BY <1>2
      <3>4. QED
        BY <1>1, <3>2, <3>3
    <2>2. \A p \in Place(b) : On(a, p) = On(b, p)
      <3>1. \A p \in Place(b) : p[1] \in 1..n
        BY <1>1
      <3>2. QED
        BY <1>2, <3>1
    <2>3. DedupeMounts(a) = [p \in Kept(a) |-> On(a, p)] /\ DedupeMounts(b) = [p \in Kept(b) |-> On(b, p)]
      BY DEF DedupeMounts
    <2> HIDE DEF Place, On, Later
    <2>4. Kept(a) = Kept(b) /\ Kept(b) \subseteq Place(b)
      BY <2>1, <2>2
    <2> HIDE DEF Kept
    <2>5. \A p \in Kept(b) : On(a, p) = On(b, p)
      BY <2>2, <2>4
    <2>6. QED
      BY <2>3, <2>4, <2>5
  <1>5. (\E i \in DOMAIN a : a[i].init) <=> (\E i \in DOMAIN b : b[i].init)
    BY <1>1, <1>2, Zenon
  <1>6. Greatest(a) = Greatest(b)
    <2>1. {0} \cup {a[i].cpus : i \in DOMAIN a} = {0} \cup {b[i].cpus : i \in DOMAIN b}
      BY <1>1, <1>2
    <2>2. QED
      BY <2>1 DEF Greatest
  <1>7. QED
    BY <1>3, <1>4, <1>5, <1>6

(* imagemeta.MergeConfiguration: to merge the label made of a              *)
(* configuration's entry, with remoteEnv in it or not, with what may have  *)
(* changed of that entry is to merge the entry itself.                     *)
LEMMA MergeOfLabel ==
  ASSUME NEW s \in Seq(EntrySpace), NEW e \in EntrySpace, NEW omit \in BOOLEAN
  PROVE  Merge(s \o <<LabelEntry(e, omit)>> \o <<Updateable(e)>>) = Merge(s \o <<e>>)
  <1> DEFINE l == LabelEntry(e, omit)
             u == Updateable(e)
             m == s \o <<l>>
             a == m \o <<u>>
             b == s \o <<e>>
             n == Len(b)
  <1>1. /\ l \in EntrySpace /\ l.user = e.user /\ l.probe = e.probe /\ l.hooks = e.hooks /\ l.mounts = e.mounts
        /\ l.init = e.init /\ l.cpus = e.cpus /\ (e.remote = NotSet => l.remote = NotSet)
        /\ (l.remote # NotSet => l.remote = e.remote)
    BY DEF LabelEntry, EntrySpace
  <1>2. u \in EntrySpace /\ \A f \in Scalars : u[f] = e[f]
    BY UpdateableType
  <1>3. u.hooks = <<>> /\ u.mounts = <<>> /\ u.init = FALSE /\ u.cpus = 0
    BY DEF Updateable, Empty
  <1> HIDE DEF l, u
  <1>4. m \in Seq(EntrySpace) /\ a \in Seq(EntrySpace) /\ b \in Seq(EntrySpace)
    BY <1>1, <1>2
  <1>5. Len(m) = n /\ Len(a) = n + 1 /\ n \in Nat /\ a[n + 1] = u /\ a[n] = l /\ b[n] = e /\ \A i \in 1..n : i # n => a[i] = b[i]
    BY <1>1, <1>2
  <1>6. \A f \in Scalars : LastSet(a, f) = LastSet(b, f)
    <2> SUFFICES ASSUME NEW f \in Scalars PROVE LastSet(a, f) = LastSet(b, f)
      OBVIOUS
    <2>1. LastSet(a, f) = IF u[f] # NotSet THEN u[f] ELSE LastSet(m, f)
      BY <1>2, <1>4, LastSetAppend DEF a
    <2>2. LastSet(m, f) = IF l[f] # NotSet THEN l[f] ELSE LastSet(s, f)
      BY <1>1, LastSetAppend
    <2>3. LastSet(b, f) = IF e[f] # NotSet THEN e[f] ELSE LastSet(s, f)
      BY LastSetAppend
    <2>4. u[f] = e[f] /\ (e[f] = NotSet => l[f] = NotSet)
      BY <1>1, <1>2 DEF Scalars
    <2> HIDE DEF a, b, m
    <2>5. QED
      BY <2>1, <2>2, <2>3, <2>4
  <1> HIDE DEF a, b, m, n
  <1>7. /\ Collected(a, "hooks") = Collected(b, "hooks") /\ DedupeMounts(a) = DedupeMounts(b)
        /\ ((\E i \in DOMAIN a : a[i].init) <=> (\E i \in DOMAIN b : b[i].init)) /\ Greatest(a) = Greatest(b)
    <2>1. n = Len(b)
      BY DEF n
    <2>2. \A i \in 1..n : /\ a[i].hooks = b[i].hooks /\ a[i].mounts = b[i].mounts
                          /\ a[i].init = b[i].init /\ a[i].cpus = b[i].cpus
      BY <1>1, <1>5
    <2>3. /\ Len(a) = Len(b) + 1
          /\ a[Len(a)].hooks = <<>> /\ a[Len(a)].mounts = <<>> /\ a[Len(a)].init = FALSE /\ a[Len(a)].cpus = 0
      BY <1>3, <1>5, <2>1
    <2>4. QED
      BY <1>4, <2>1, <2>2, <2>3, MergeOthers
  <1>8. Merge(a) = Merge(b)
    <2>1. LastSet(a, "user") = LastSet(b, "user") /\ LastSet(a, "probe") = LastSet(b, "probe") /\ LastSet(a, "remote") = LastSet(b, "remote")
      BY <1>6 DEF Scalars
    <2>2. /\ Merge(a) = [user |-> LastSet(a, "user"), probe |-> LastSet(a, "probe"), remote |-> LastSet(a, "remote"),
                         hooks |-> Collected(a, "hooks"), mounts |-> DedupeMounts(a),
                         init |-> \E i \in DOMAIN a : a[i].init, cpus |-> Greatest(a)]
          /\ Merge(b) = [user |-> LastSet(b, "user"), probe |-> LastSet(b, "probe"), remote |-> LastSet(b, "remote"),
                         hooks |-> Collected(b, "hooks"), mounts |-> DedupeMounts(b),
                         init |-> \E i \in DOMAIN b : b[i].init, cpus |-> Greatest(b)]
      BY Zenon DEF Merge
    <2> DEFINE ia == \E i \in DOMAIN a : a[i].init
               ib == \E i \in DOMAIN b : b[i].init
    <2>3. ia = ib
      BY <1>7, Zenon
    <2> HIDE DEF ia, ib
    <2>4. QED
      BY <1>7, <2>1, <2>2, <2>3, Zenon DEF ia, ib
  <1>9. QED
    BY <1>8 DEF a, b, m, l, u

(* What the configuration said at each of its revisions: all that is kept  *)
(* of a revision is of what it said, the label of the container that was   *)
(* made of it and the merged configuration that was reported of it.        *)
Loaded(k, says) ==
  /\ k.rev \in 0..envConf.rev
  /\ k.conf = IF k.rev = 0 THEN <<>> ELSE <<says[k.rev]>>
  /\ k.kind = "up" => k.rev # 0
  /\ k.pc \in {"registry", "pull", "report"} => k.rev # 0
  /\ k.pc # "done" => k.foresaw = <<>>
  /\ k.foresaw # <<>> /\ DeclaresNothing(k.conf) => k.merged = k.foresaw

Reported(says) ==
  /\ foreseen.rev \in 0..envConf.rev
  /\ foreseen.merged = IF foreseen.rev = 0 THEN <<>> ELSE Merge(Base \o Feature \o <<says[foreseen.rev]>>)

MadeOf(says) ==
  /\ ctr.rev \in 0..envConf.rev
  /\ ctr.rev # 0 =>
       ctr.idLabelled /\ \E omit \in BOOLEAN : ctr.label = ImageEntries(says[ctr.rev]) \o <<LabelEntry(says[ctr.rev], omit)>>

Foresees(says) ==
  /\ says[envConf.rev] = envConf.entry
  /\ \A t \in Tasks : Loaded(task[t], says)
  /\ Reported(says) /\ MadeOf(says)

ForeseenInv == \E says \in [Nat -> Confs] : Foresees(says)

(* A step of one command that only goes on.                                *)
LEMMA ForeseesKept ==
  ASSUME AgreeInv, NEW says \in [Nat -> Confs], Foresees(says), NEW t \in Tasks, NEW fields, Goes(t, fields),
         UNCHANGED <<envConf, ctr, foreseen>>, task[t].foresaw = <<>>,
         DOMAIN fields \cap {"kind", "conf", "rev", "foresaw"} = {}, "pc" \in DOMAIN fields,
         fields["pc"] \in {"registry", "pull", "report"} => task[t].rev # 0
  PROVE  Foresees(says)'
  <1>1. /\ \A u \in Tasks \ {t} : task'[u] = task[u]
        /\ \A f \in TaskFields : task'[t][f] = IF f \in DOMAIN fields THEN fields[f] ELSE task[t][f]
    BY GoesEffect DEF AgreeInv
  <1>2. /\ task'[t].kind = task[t].kind /\ task'[t].conf = task[t].conf /\ task'[t].rev = task[t].rev
        /\ task'[t].foresaw = <<>> /\ task'[t].pc = fields["pc"]
    BY <1>1, FieldsKnown
  <1>3. Loaded(task[t], says)'
    BY <1>2 DEF Foresees, Loaded
  <1>4. \A u \in Tasks : Loaded(task[u], says)'
    BY <1>1, <1>3 DEF Foresees, Loaded
  <1>5. QED
    BY <1>4 DEF Foresees, Reported, MadeOf

(* A command that starts, or fails.                                        *)
LEMMA ForeseesReset ==
  ASSUME AgreeInv, NEW says \in [Nat -> Confs], Foresees(says), NEW t \in Tasks, NEW k, task' = [task EXCEPT ![t] = k],
         UNCHANGED <<envConf, ctr, foreseen>>, Loaded(k, says)
  PROVE  Foresees(says)'
  <1>1. task'[t] = k /\ \A u \in Tasks \ {t} : task'[u] = task[u]
    BY DEF AgreeInv, TaskShape
  <1>2. \A u \in Tasks : Loaded(task[u], says)'
    BY <1>1 DEF Foresees, Loaded
  <1>3. QED
    BY <1>2 DEF Foresees, Reported, MadeOf

(* read-configuration reports the container: what was foreseen.            *)
LEMMA ForeseesReport ==
  ASSUME AgreeInv, NEW says \in [Nat -> Confs], Foresees(says), NEW t \in Tasks, ReportContainer(t)
  PROVE  Foresees(says)'
  <1> DEFINE k == task[t]
             n == task'[t]
             c == ctr
             fields == [pc |-> "done", gen |-> ctr.gen, merged |-> Merge(FromContainer(ctr, task[t].conf, <<>>)),
                        foresaw |-> IF task[t].rev = foreseen.rev /\ ctr.rev = foreseen.rev THEN foreseen.merged ELSE <<>>]
  <1>1. Goes(t, fields) /\ UNCHANGED <<envConf, ctr, foreseen>> /\ k.kind = "read"
    BY DEF ReportContainer
  <1>2. \A u \in Tasks \ {t} : task'[u] = task[u]
    BY <1>1, GoesEffect DEF AgreeInv
  <1>3. /\ n.kind = k.kind /\ n.conf = k.conf /\ n.rev = k.rev /\ n.pc = "done"
        /\ n.merged = Merge(FromContainer(c, k.conf, <<>>))
        /\ n.foresaw = IF k.rev = foreseen.rev /\ c.rev = foreseen.rev THEN foreseen.merged ELSE <<>>
    <2>1. TaskShape
      BY DEF AgreeInv
    <2>2. /\ DOMAIN fields = {"pc", "gen", "merged", "foresaw"} /\ fields.pc = "done"
          /\ fields.merged = Merge(FromContainer(c, k.conf, <<>>))
          /\ fields.foresaw = IF k.rev = foreseen.rev /\ c.rev = foreseen.rev THEN foreseen.merged ELSE <<>>
      OBVIOUS
    <2> HIDE DEF fields
    <2>3. \A f \in TaskFields : task'[t][f] = IF f \in DOMAIN fields THEN fields[f] ELSE task[t][f]
      BY <1>1, <2>1, GoesEffect
    <2>4. QED
      BY <2>2, <2>3, FieldsKnown
  <1> HIDE DEF fields
  <1>4. ASSUME n.foresaw # <<>>, DeclaresNothing(n.conf) PROVE n.merged = n.foresaw
    <2> DEFINE r == foreseen.rev
               e == says[r]
    <2>1. k.rev = r /\ c.rev = r /\ n.foresaw = foreseen.merged /\ foreseen.merged # <<>>
      BY <1>3, <1>4
    <2>2. r # 0 /\ r \in Nat /\ foreseen.merged = Merge(Base \o Feature \o <<e>>)
      BY <2>1 DEF Foresees, Reported, AgreeInv
    <2>3. k.conf = <<e>> /\ c.idLabelled
      BY <2>1, <2>2 DEF Foresees, Loaded, MadeOf
    <2>12. ImageEntries(e) = Base \o Feature
      <3>1. StageOf[e] = <<>> /\ Base \o <<>> = Base
        BY <1>3, <1>4, <2>3, EntriesAssumption DEF DeclaresNothing
      <3> QED BY <3>1 DEF ImageEntries
    <2>4. PICK omit \in BOOLEAN : c.label = Base \o Feature \o <<LabelEntry(e, omit)>>
      BY <2>1, <2>2, <2>12 DEF Foresees, MadeOf
    <2>5. e \in Confs /\ e \in EntrySpace /\ Base \o Feature \in Seq(EntrySpace)
      BY <2>2, EntriesAssumption
    <2> DEFINE l == LabelEntry(e, omit)
               s == Base \o Feature
    <2>6. s \o <<l>> # <<>>
      BY <2>5
    <2>7. c.label = s \o <<l>>
      BY <2>4
    <2> HIDE DEF e, r, l, s
    <2>8. FromContainer(c, <<e>>, <<>>) = c.label \o <<Updateable(e)>>
      BY <2>3, <2>6, <2>7 DEF FromContainer
    <2>9. Merge(s \o <<l>> \o <<Updateable(e)>>) = Merge(s \o <<e>>)
      BY <2>5, MergeOfLabel DEF l, s
    <2>10. foreseen.merged = Merge(s \o <<e>>)
      BY <2>2 DEF e, s
    <2>11. QED
      BY <1>3, <2>1, <2>3, <2>7, <2>8, <2>9, <2>10
  <1>5. Loaded(task[t], says)'
    BY <1>1, <1>3, <1>4 DEF Foresees, Loaded
  <1>6. \A u \in Tasks : Loaded(task[u], says)'
    BY <1>1, <1>2, <1>5 DEF Foresees, Loaded
  <1>7. QED
    BY <1>1, <1>6 DEF Foresees, Reported, MadeOf

(* ForeseenInv holds at first.                                             *)
LEMMA ForeseenInitial == EnvInit => ForeseenInv
  <1> SUFFICES ASSUME EnvInit PROVE ForeseenInv
    OBVIOUS
  <1>1. envConf.entry \in Confs /\ envConf.rev = 1 /\ ctr = NoCtr /\ \A t \in Tasks : task[t] = NoTask
    BY DEF EnvInit
  <1>2. foreseen.rev = 0 /\ foreseen.merged = <<>>
    BY DEF EnvInit
  <1> DEFINE says == [n \in Nat |-> envConf.entry]
  <1>3. says \in [Nat -> Confs] /\ says[1] = envConf.entry
    BY <1>1
  <1> HIDE DEF says
  <1>4. NoTask.foresaw = <<>>
    BY DEF NoTask
  <1>5. Loaded(NoTask, says)
    BY <1>1, <1>4, NoTaskIs DEF Loaded
  <1>6. ctr.rev = 0
    BY <1>1 DEF NoCtr
  <1>7. Foresees(says)
    BY <1>1, <1>2, <1>3, <1>5, <1>6 DEF Foresees, Reported, MadeOf
  <1>8. QED
    BY <1>3, <1>7 DEF ForeseenInv

(* ForeseenInv is inductive, relative to AgreeInv.                         *)
LEMMA ForeseenInductive == AgreeInv /\ ForeseenInv /\ [EnvNext]_envVars => ForeseenInv'
  <1> SUFFICES ASSUME AgreeInv, NEW says \in [Nat -> Confs], Foresees(says), [EnvNext]_envVars PROVE ForeseenInv'
    BY DEF ForeseenInv
  <1>0. Foresees(says)' => ForeseenInv'
    BY DEF ForeseenInv
  <1>1. ASSUME NEW t \in Tasks, NEW kind \in Kinds, NEW given \in BOOLEAN, NEW folder \in BOOLEAN, NEW omit \in BOOLEAN,
               BeginTask(t, kind, given, folder, omit)
        PROVE  Foresees(says)'
    <2> DEFINE k == [NoTask EXCEPT !.pc = "find", !.kind = kind, !.folder = folder, !.omit = omit,
                               !.conf = IF given THEN <<envConf.entry>> ELSE <<>>,
                               !.rev = IF given THEN envConf.rev ELSE 0]
    <2>1. task' = [task EXCEPT ![t] = k] /\ UNCHANGED <<envConf, ctr, foreseen>> /\ (kind = "up" => given)
      BY <1>1 DEF BeginTask
    <2>2. /\ k.kind = kind /\ k.conf = (IF given THEN <<envConf.entry>> ELSE <<>>) /\ k.pc = "find"
          /\ k.rev = (IF given THEN envConf.rev ELSE 0) /\ k.foresaw = <<>>
      BY DEF NoTask
    <2> HIDE DEF k
    <2>3. says[envConf.rev] = envConf.entry /\ envConf.rev \in Nat \ {0}
      BY DEF AgreeInv, Foresees
    <2>4. Loaded(k, says)
      BY <2>1, <2>2, <2>3 DEF Loaded
    <2>5. QED
      BY <2>1, <2>4, ForeseesReset
  <1>2. ASSUME NEW t \in Tasks, NotFound(t) \/ TaskFails(t) PROVE Foresees(says)'
    <2> DEFINE k == [NoTask EXCEPT !.pc = "failed"]
    <2>1. task' = [task EXCEPT ![t] = k] /\ UNCHANGED <<envConf, ctr, foreseen>>
      BY <1>2 DEF NotFound, TaskFails
    <2>2. k.kind = "read" /\ k.conf = <<>> /\ k.rev = 0 /\ k.pc = "failed"
      BY FailedIs
    <2>3. k.foresaw = <<>>
      BY DEF NoTask
    <2> HIDE DEF k
    <2>4. Loaded(k, says)
      BY <2>2, <2>3 DEF Loaded, AgreeInv
    <2>5. QED
      BY <2>1, <2>4, ForeseesReset
  <1>3. ASSUME NEW t \in Tasks, UseCachedEnv(t) PROVE Foresees(says)'
    <2> DEFINE found == ReadEnvCache(task[t].strategy)
               fields == IF found # <<>> THEN [pc |-> "done", probed |-> found] ELSE [pc |-> "probe"]
    <2>1. Goes(t, fields) /\ UNCHANGED <<envConf, ctr, foreseen>> /\ task[t].foresaw = <<>>
      BY <1>3 DEF UseCachedEnv, In, Foresees, Loaded
    <2>2. "pc" \in DOMAIN fields /\ DOMAIN fields \subseteq {"pc", "probed"} /\ fields["pc"] \in {"done", "probe"}
      BY Zenon
    <2> HIDE DEF fields
    <2>3. QED
      BY <2>1, <2>2, ForeseesKept
  <1>4. ASSUME NEW t \in Tasks, ProbeEnv(t) PROVE Foresees(says)'
    <2> DEFINE made == [pc |-> IF task[t].folder THEN "truncate" ELSE "done", probed |-> Cells(task[t].user, task[t].strategy)]
               none == [pc |-> "done"]
    <2>1. (Goes(t, made) \/ Goes(t, none)) /\ UNCHANGED <<envConf, ctr, foreseen>> /\ task[t].foresaw = <<>>
      BY <1>4 DEF ProbeEnv, In, Foresees, Loaded
    <2>2. DOMAIN made = {"pc", "probed"} /\ DOMAIN none = {"pc"} /\ made["pc"] \in {"truncate", "done"} /\ none["pc"] = "done"
      OBVIOUS
    <2> HIDE DEF made, none
    <2>3. QED
      BY <2>1, <2>2, ForeseesKept
  <1>5. ASSUME NEW t \in Tasks, TruncateCache(t) \/ PrintCache(t) PROVE Foresees(says)'
    <2> DEFINE print == [pc |-> "print"]
               done  == [pc |-> "done"]
    <2>1. (Goes(t, print) \/ Goes(t, done)) /\ UNCHANGED <<envConf, ctr, foreseen>> /\ task[t].foresaw = <<>>
      BY <1>5 DEF TruncateCache, PrintCache, In, Foresees, Loaded
    <2>2. DOMAIN print = {"pc"} /\ DOMAIN done = {"pc"} /\ print["pc"] = "print" /\ done["pc"] = "done"
      OBVIOUS
    <2> HIDE DEF print, done
    <2>3. QED
      BY <2>1, <2>2, ForeseesKept
  <1>6. ASSUME NEW t \in Tasks, InspectContainer(t) PROVE Foresees(says)'
    <2> DEFINE k == task[t]
               fields == [pc |-> IF Strategy(k.conf) = "none" THEN "done" ELSE IF k.folder THEN "cached" ELSE "probe",
                          gen |-> ctr.gen, user |-> RemoteUser(k.kind, ctr, k.conf), strategy |-> Strategy(k.conf),
                          var |-> RemoteVar(k.kind, ctr, k.conf)]
    <2>1. Goes(t, fields) /\ UNCHANGED <<envConf, ctr, foreseen>> /\ task[t].foresaw = <<>>
      BY <1>6 DEF InspectContainer, In, Foresees, Loaded
    <2>2. DOMAIN fields = {"pc", "gen", "user", "strategy", "var"} /\ fields["pc"] \in {"done", "cached", "probe"}
      OBVIOUS
    <2> HIDE DEF fields
    <2>3. QED
      BY <2>1, <2>2, ForeseesKept
  <1>7. ASSUME NEW t \in Tasks, InspectImage(t) PROVE Foresees(says)'
    <2> DEFINE fields == [pc |-> IF task[t].conf = <<>> THEN "failed" ELSE IF local THEN "report" ELSE "registry"]
    <2>1. Goes(t, fields) /\ UNCHANGED <<envConf, ctr, foreseen>> /\ task[t].foresaw = <<>>
      BY <1>7 DEF InspectImage, In, Foresees, Loaded
    <2>2. DOMAIN fields = {"pc"} /\ (fields["pc"] # "failed" => task[t].conf # <<>>)
      OBVIOUS
    <2>3. task[t].conf # <<>> => task[t].rev # 0
      BY DEF Foresees, Loaded
    <2> HIDE DEF fields
    <2>4. QED
      BY <2>1, <2>2, <2>3, ForeseesKept
  <1>8. ASSUME NEW t \in Tasks, InspectInRegistry(t) \/ PullAgain(t) PROVE Foresees(says)'
    <2> DEFINE found == [pc |-> "report"]
               pull  == [pc |-> "pull"]
               none  == [tries |-> task[t].tries + 1, pc |-> IF task[t].tries + 1 = PullAttempts THEN "failed" ELSE "pull"]
    <2>1. /\ Goes(t, found) \/ Goes(t, pull) \/ Goes(t, none)
          /\ UNCHANGED <<envConf, ctr, foreseen>> /\ task[t].foresaw = <<>> /\ task[t].rev # 0
      BY <1>8 DEF InspectInRegistry, PullAgain, In, Foresees, Loaded
    <2>2. DOMAIN found = {"pc"} /\ DOMAIN pull = {"pc"} /\ DOMAIN none = {"tries", "pc"}
      OBVIOUS
    <2> HIDE DEF found, pull, none
    <2>3. QED
      BY <2>1, <2>2, ForeseesKept
  <1>9. ASSUME NEW t \in Tasks, ReportImage(t) PROVE Foresees(says)'
    <2> DEFINE k == task[t]
               n == task'[t]
               m == Merge(Base \o Feature \o k.conf)
               fields == [pc |-> "done", merged |-> m]
    <2>1. Goes(t, fields) /\ foreseen' = [rev |-> k.rev, merged |-> m] /\ UNCHANGED <<envConf, ctr>>
          /\ k.foresaw = <<>> /\ k.rev # 0
      BY <1>9 DEF ReportImage, In, Foresees, Loaded
    <2>2. Loaded(k, says)
      BY DEF Foresees
    <2>3. foreseen'.rev = k.rev /\ foreseen'.merged = Merge(Base \o Feature \o <<says[k.rev]>>)
      BY <2>1, <2>2 DEF Loaded
    <2>4. /\ \A u \in Tasks \ {t} : task'[u] = task[u]
          /\ \A f \in TaskFields : n[f] = IF f \in DOMAIN fields THEN fields[f] ELSE k[f]
      <3> HIDE DEF fields
      <3>1. QED
        BY <2>1, GoesEffect DEF AgreeInv
    <2>5. DOMAIN fields = {"pc", "merged"} /\ fields["pc"] = "done"
      OBVIOUS
    <2> HIDE DEF fields, m
    <2>6. n.kind = k.kind /\ n.conf = k.conf /\ n.rev = k.rev /\ n.foresaw = <<>> /\ n.pc = "done"
      BY <2>1, <2>4, <2>5, FieldsKnown
    <2>7. Loaded(task[t], says)'
      BY <2>1, <2>2, <2>6 DEF Loaded
    <2>8. \A u \in Tasks : Loaded(task[u], says)'
      BY <2>1, <2>4, <2>7 DEF Foresees, Loaded
    <2>9. Reported(says)'
      BY <2>1, <2>2, <2>3 DEF Reported, Loaded
    <2>10. QED
      BY <2>1, <2>8, <2>9 DEF Foresees, MadeOf
  <1>10. ASSUME NEW t \in Tasks, MakeContainer(t) PROVE Foresees(says)'
    <2> DEFINE k == task[t]
    <2>1. /\ ctr'.rev = k.rev /\ ctr'.idLabelled /\ ctr'.label = ImageEntries(k.conf[1]) \o <<LabelEntry(k.conf[1], k.omit)>>
          /\ UNCHANGED <<envConf, task, foreseen>> /\ k.kind = "up"
      BY <1>10 DEF MakeContainer
    <2>2. Loaded(k, says) /\ Inspected(k)
      BY DEF Foresees, AgreeInv
    <2> HIDE DEF k
    <2>3. k.conf[1] = says[k.rev] /\ k.rev \in 0..envConf.rev
      BY <2>1, <2>2 DEF Loaded
    <2>4. k.omit \in BOOLEAN
      BY <2>2 DEF Inspected
    <2>5. MadeOf(says)'
      BY <2>1, <2>3, <2>4 DEF MadeOf
    <2>6. QED
      BY <2>1, <2>5 DEF Foresees, Loaded, Reported
  <1>11. ASSUME RemoveCtr \/ RunByHand PROVE Foresees(says)'
    <2>1. ctr'.rev = 0 /\ UNCHANGED <<envConf, task, foreseen>>
      BY <1>11 DEF RemoveCtr, RunByHand, NoCtr
    <2>2. QED
      BY <2>1 DEF Foresees, Loaded, Reported, MadeOf, AgreeInv
  <1>12. CASE EditConf
    <2>1. PICK e \in Confs \ {envConf.entry} : envConf' = [entry |-> e, rev |-> envConf.rev + 1]
      BY <1>12 DEF EditConf
    <2>2. envConf'.entry = e /\ envConf'.rev = envConf.rev + 1 /\ UNCHANGED <<ctr, task, foreseen>> /\ envConf.rev \in Nat
      BY <1>12, <2>1 DEF EditConf, AgreeInv
    <2>3. PICK now \in [Nat -> Confs] : now = [says EXCEPT ![envConf.rev + 1] = e]
      BY <2>2
    <2>4. now[envConf'.rev] = e /\ \A i \in 0..envConf.rev : now[i] = says[i] /\ i \in 0..envConf'.rev
      BY <2>2, <2>3
    <2>5. ASSUME NEW u \in Tasks PROVE Loaded(task[u], now)'
      BY <2>2, <2>4 DEF Foresees, Loaded
    <2>6. Reported(now)'
      BY <2>2, <2>4 DEF Foresees, Reported
    <2>7. MadeOf(now)'
      BY <2>2, <2>4 DEF Foresees, MadeOf
    <2>8. Foresees(now)'
      BY <2>2, <2>4, <2>5, <2>6, <2>7 DEF Foresees
    <2>9. QED
      BY <2>8 DEF ForeseenInv
  <1>13. CASE UNCHANGED envVars
    BY <1>0, <1>13 DEF envVars, Foresees, Loaded, Reported, MadeOf
  <1>14. QED
    BY <1>0, <1>1, <1>2, <1>3, <1>4, <1>5, <1>6, <1>7, <1>8, <1>9, <1>10, <1>11, <1>12, <1>13, ForeseesReport
    DEF EnvNext, TaskStep

(* read_configuration.go, metadata_label.go: what read-configuration       *)
(* reports before a container exists is what it reports of the container   *)
(* made of that configuration, whatever the entries say, unless its        *)
(* Dockerfile declares some of its own (RemoteEnv.ReportForesees).         *)
THEOREM ReportsForesee == EnvSpec => []ReportForesees
  <1>1. ForeseenInv => ReportForesees
    BY DEF ForeseenInv, Foresees, Loaded, ReportForesees
  <1>2. QED
    BY <1>1, AgreeInvariant, AgreeInitial, ForeseenInitial, ForeseenInductive, PTL DEF EnvSpec
=============================================================================
