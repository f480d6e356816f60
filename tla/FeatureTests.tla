---------------------------- MODULE FeatureTests ----------------------------
(***************************************************************************)
(* `features test` (cli/features_test_runner.go): each test project is a   *)
(* temporary folder, a container that a child `up` makes from it, and the  *)
(* scripts a child `exec` runs there.  Several runs of one machine share   *)
(* the label devcontainer.is_test_run, by which each of them cleans up.    *)
(*                                                                         *)
(* A test is <<folder, name>>: the test.sh of a Feature's folder, or a     *)
(* scenario of a Feature's folder or of _global.                           *)
(***************************************************************************)
EXTENDS Naturals, FiniteSets

CONSTANTS
  TestRuns,     \* the runs of the machine
  Tested,       \* the Features under test/
  Scenarios,    \* [folder -> the scenarios of its scenarios.json]
  Scripts,      \* the tests that have their script
  Garbled,      \* the folders whose scenarios.json does not parse
  Uses,         \* [scenario -> the Features its configuration names]
  Sources,      \* the Features under src/
  TestOptions,  \* the command lines
  TestFaults    \* what goes wrong: "disk", "up", "script", "docker", "remove"

Global == "_global"
AutoTest(f) == <<f, "test.sh">>
Setup == <<"autogenerated", "setup">>  \* the name their project reports under

ASSUME FeatureTestsAssumption ==
  /\ Global \notin Tested
  /\ DOMAIN Scenarios \subseteq Tested \cup {Global}
  /\ Garbled \subseteq DOMAIN Scenarios
  /\ \A d \in DOMAIN Scenarios : Scenarios[d] \subseteq DOMAIN Uses
  /\ \A o \in TestOptions :
       /\ {o.globalOnly, o.skipAuto, o.skipScenarios, o.preserve} \subseteq BOOLEAN
       /\ o.features \subseteq Tested      \* --features, none for all
       /\ o.filter \subseteq DOMAIN Uses   \* the scenarios --filter keeps
       /\ o.globalOnly => o.features = {} /\ ~o.skipScenarios

VARIABLES
  boxes,     \* the containers labelled is_test_run: <<run, project>>
  projects,  \* the temporary folders: where, and could it not be removed?
  run,       \* each run
  earned     \* history: <<run, test>> whose script succeeded in its container

testsVars == <<boxes, projects, run, earned>>

(* A run's newest test project is the one at hand; results are [test,      *)
(* status].                                                                *)
NewRun(o) ==
  [opts |-> o, pc |-> "new", folders |-> {}, tests |-> {}, of |-> <<>>, project |-> 0,
   results |-> {}, doomed |-> {}, exit |-> 0]

TestsInit ==
  /\ boxes = {} /\ projects = {} /\ earned = {}
  /\ run \in [TestRuns -> {NewRun(o) : o \in TestOptions}]

At(r, pc) == run[r].pc = pc
To(r, changes) ==
  run' = [run EXCEPT ![r] = [x \in DOMAIN @ |-> IF x \in DOMAIN changes THEN changes[x] ELSE @[x]]]
Result(r, test, status) == run[r].results \cup {[test |-> test, status |-> status]}
Here(r) == <<r, run[r].project>>
FolderAt(place) == [at |-> place, stuck |-> FALSE]

(* The Features of the run: the ones named, or all that have a folder.     *)
TestedBy(o) == IF o.features = {} THEN Tested ELSE o.features
Folders(o) ==
  IF o.globalOnly THEN {Global}
  ELSE (IF o.skipScenarios THEN {} ELSE TestedBy(o))
       \cup (IF o.features = {} THEN {Global} ELSE {})

(* Nothing to test is a failure: the run ends before its report, and its   *)
(* cleanup.                                                                *)
Start(r) ==
  /\ At(r, "new")
  /\ LET o == run[r].opts IN
     IF ~o.globalOnly /\ TestedBy(o) = {} THEN To(r, [pc |-> "done", exit |-> 1])
     ELSE To(r, [pc |-> IF o.globalOnly \/ o.skipAuto THEN "folders" ELSE "auto",
                 folders |-> Folders(o) \cap DOMAIN Scenarios])
  /\ UNCHANGED <<boxes, projects, earned>>

(* A test project is a new temporary folder.  Its container's test_id      *)
(* label is the folder's name, so that no up finds another's container.    *)
MakeProject(r, pc) ==
  /\ projects' = projects \cup {FolderAt(<<r, run[r].project + 1>>)}
  /\ To(r, [pc |-> pc, project |-> run[r].project + 1])

(* os.RemoveAll: what a container's root left in the folder may not be the *)
(* user's to remove, and nobody looks at the error.                        *)
DropProject(r) ==
  \/ projects' = projects \ {FolderAt(Here(r))}
  \/ /\ "remove" \in TestFaults
     /\ projects' = (projects \ {FolderAt(Here(r))}) \cup {[at |-> Here(r), stuck |-> TRUE]}

(* The Features' own tests share one project and one container.            *)
AutoProject(r) ==
  /\ At(r, "auto")
  /\ MakeProject(r, "auto staged")
  /\ UNCHANGED <<boxes, earned>>

AutoFails(r) ==
  /\ \/ At(r, "auto") /\ "disk" \in TestFaults /\ UNCHANGED projects
     \/ /\ At(r, "auto staged")
        /\ "disk" \in TestFaults \/ ~(TestedBy(run[r].opts) \subseteq Sources)
        /\ DropProject(r)
  /\ To(r, [pc |-> "folders", results |-> Result(r, Setup, "error")])
  /\ UNCHANGED <<boxes, earned>>

(* upTestContainer makes a container or fails, and then may leave one.     *)
AutoUp(r) ==
  /\ At(r, "auto staged") /\ TestedBy(run[r].opts) \subseteq Sources
  /\ boxes' = boxes \cup {Here(r)}
  /\ To(r, [pc |-> "auto test", tests |-> {AutoTest(f) : f \in TestedBy(run[r].opts)}])
  /\ UNCHANGED <<projects, earned>>

UpFails(r) == "up" \in TestFaults /\ boxes' \in {boxes, boxes \cup {Here(r)}}

AutoUpFails(r) ==
  /\ At(r, "auto staged") /\ TestedBy(run[r].opts) \subseteq Sources
  /\ UpFails(r)
  /\ DropProject(r)
  /\ To(r, [pc |-> "folders", results |-> Result(r, Setup, "error")])
  /\ UNCHANGED earned

(* The script runs in the container, if it is there.                       *)
Runs(r, test, status, pc) ==
  /\ status \in (IF Here(r) \notin boxes THEN {"failed"}
                 ELSE {"passed"} \cup (IF "script" \in TestFaults THEN {"failed"} ELSE {}))
  /\ To(r, [pc |-> pc, tests |-> run[r].tests \ {test}, results |-> Result(r, test, status)])
  /\ earned' = IF status = "passed" THEN earned \cup {<<r, test>>} ELSE earned

RunAuto(r, test) ==
  /\ At(r, "auto test") /\ test \in run[r].tests /\ test \in Scripts
  /\ \E status \in {"passed", "failed"} : Runs(r, test, status, "auto test")
  /\ UNCHANGED <<boxes, projects>>

(* A test without a script is skipped; one whose files cannot be copied    *)
(* beside the project is an error.                                         *)
PassOver(r, test) ==
  /\ At(r, "auto test") /\ test \in run[r].tests
  /\ \/ test \notin Scripts /\ To(r, [tests |-> run[r].tests \ {test},
                                      results |-> Result(r, test, "skipped")])
     \/ /\ test \in Scripts /\ "disk" \in TestFaults
        /\ To(r, [tests |-> run[r].tests \ {test}, results |-> Result(r, test, "error")])
  /\ UNCHANGED <<boxes, projects, earned>>

EndAuto(r) ==
  /\ At(r, "auto test") /\ run[r].tests = {}
  /\ DropProject(r)
  /\ To(r, [pc |-> "folders"])
  /\ UNCHANGED <<boxes, earned>>

(* runScenarioTests on the next folder, the Features' before _global.      *)
OpenFolder(r, d) ==
  /\ At(r, "folders") /\ d \in run[r].folders
  /\ d = Global => run[r].folders = {Global}
  /\ \/ /\ d \notin Garbled
        /\ To(r, [pc |-> "scenarios", folders |-> run[r].folders \ {d},
                  tests |-> {<<d, s>> : s \in Scenarios[d] \cap run[r].opts.filter}])
     \/ /\ d \in Garbled \/ "disk" \in TestFaults
        /\ To(r, [folders |-> run[r].folders \ {d},
                  results |-> Result(r, <<d, "scenarios">>, "error")])
  /\ UNCHANGED <<boxes, projects, earned>>

EndFolder(r) ==
  /\ At(r, "scenarios") /\ run[r].tests = {}
  /\ To(r, [pc |-> "folders"])
  /\ UNCHANGED <<boxes, projects, earned>>

(* Without its script a scenario is skipped before it has a project.       *)
SkipScenario(r, test) ==
  /\ At(r, "scenarios") /\ test \in run[r].tests \ Scripts
  /\ To(r, [tests |-> run[r].tests \ {test}, results |-> Result(r, test, "skipped")])
  /\ UNCHANGED <<boxes, projects, earned>>

(* The scenarios are a Go map: any of them may be next.                    *)
OpenScenario(r, test) ==
  /\ At(r, "scenarios") /\ test \in run[r].tests \cap Scripts
  /\ projects' = projects \cup {FolderAt(<<r, run[r].project + 1>>)}
  /\ To(r, [pc |-> "stage", project |-> run[r].project + 1, of |-> test])
  /\ UNCHANGED <<boxes, earned>>

(* What fails ends the scenario and drops its project.                     *)
EndScenario(r, status) ==
  To(r, [pc |-> "scenarios", tests |-> run[r].tests \ {run[r].of},
         results |-> Result(r, run[r].of, status)])

NoProject(r, test) ==
  /\ At(r, "scenarios") /\ test \in run[r].tests \cap Scripts
  /\ "disk" \in TestFaults
  /\ To(r, [tests |-> run[r].tests \ {test}, results |-> Result(r, test, "error")])
  /\ UNCHANGED <<boxes, projects, earned>>

ScenarioFails(r) ==
  /\ \/ At(r, "stage") \/ At(r, "scenario up")
  /\ "disk" \in TestFaults
  /\ DropProject(r)
  /\ EndScenario(r, "error")
  /\ UNCHANGED <<boxes, earned>>

(* Bug: the early return forgets the result.                               *)
StagingFailsSilently(r) ==
  /\ At(r, "stage") /\ Uses[run[r].of[2]] \cap Sources # {}
  /\ "disk" \in TestFaults
  /\ DropProject(r)
  /\ To(r, [pc |-> "folders", tests |-> {}])
  /\ UNCHANGED <<boxes, earned>>

(* A Feature that cannot be copied ends the whole folder: the scenarios    *)
(* still to come do not run, and are not in the report.                    *)
StagingFails(r) ==
  /\ At(r, "stage") /\ Uses[run[r].of[2]] \cap Sources # {}
  /\ "disk" \in TestFaults
  /\ DropProject(r)
  /\ To(r, [pc |-> "folders", tests |-> {}, results |-> Result(r, run[r].of, "error")])
  /\ UNCHANGED <<boxes, earned>>

(* A Feature that is not under src/ is named all the same, and up fails.   *)
ScenarioUp(r) ==
  /\ At(r, "stage") /\ Uses[run[r].of[2]] \subseteq Sources
  /\ boxes' = boxes \cup {Here(r)}
  /\ To(r, [pc |-> "scenario up"])
  /\ UNCHANGED <<projects, earned>>

ScenarioUpFails(r) ==
  /\ At(r, "stage")
  /\ \/ UpFails(r)
     \/ /\ ~(Uses[run[r].of[2]] \subseteq Sources)
        /\ UNCHANGED boxes
  /\ DropProject(r)
  /\ EndScenario(r, "error")
  /\ UNCHANGED earned

RunScenario(r) ==
  /\ At(r, "scenario up")
  /\ \E status \in {"passed", "failed"} : Runs(r, run[r].of, status, "scenarios")
  /\ DropProject(r)
  /\ UNCHANGED boxes

(* cleanupTestContainers asks for every test container of the machine, its *)
(* own or not, and removes them one by one.  A listing that fails is none; *)
(* a removal that fails is passed over.                                    *)
Listed(r) == boxes

CleanUp(r) ==
  /\ At(r, "folders") /\ run[r].folders = {}
  /\ IF run[r].opts.preserve THEN To(r, [pc |-> "report"])
     ELSE \/ To(r, [pc |-> "clean", doomed |-> Listed(r)])
          \/ "docker" \in TestFaults /\ To(r, [pc |-> "report"])
  /\ UNCHANGED <<boxes, projects, earned>>

Remove(r, box) ==
  /\ At(r, "clean") /\ box \in run[r].doomed
  /\ \/ boxes' = boxes \ {box} /\ To(r, [doomed |-> run[r].doomed \ {box}])
     \/ /\ "docker" \in TestFaults /\ UNCHANGED boxes
        /\ To(r, [doomed |-> run[r].doomed \ {box}])
  /\ UNCHANGED <<projects, earned>>

Cleaned(r) ==
  /\ At(r, "clean") /\ run[r].doomed = {}
  /\ To(r, [pc |-> "report"])
  /\ UNCHANGED <<boxes, projects, earned>>

(* The run succeeds unless a result is an error or a failure.              *)
Bad == {"error", "failed"}
Report(r) ==
  /\ At(r, "report")
  /\ To(r, [pc |-> "done",
            exit |-> IF \E x \in run[r].results : x.status \in Bad THEN 1 ELSE 0])
  /\ UNCHANGED <<boxes, projects, earned>>

Step(r) ==
  \/ Start(r)
  \/ AutoProject(r) \/ AutoFails(r) \/ AutoUp(r) \/ AutoUpFails(r) \/ EndAuto(r)
  \/ \E test \in run[r].tests : RunAuto(r, test) \/ PassOver(r, test)
  \/ \E d \in run[r].folders : OpenFolder(r, d)
  \/ \E test \in run[r].tests : SkipScenario(r, test) \/ OpenScenario(r, test) \/ NoProject(r, test)
  \/ EndFolder(r) \/ ScenarioFails(r) \/ StagingFails(r)
  \/ ScenarioUp(r) \/ ScenarioUpFails(r) \/ RunScenario(r)
  \/ CleanUp(r) \/ Cleaned(r) \/ Report(r)
  \/ \E box \in run[r].doomed : Remove(r, box)

TestsNext == \E r \in TestRuns : Step(r)
TestsSpec == TestsInit /\ [][TestsNext]_testsVars

(* The tests a command line selects, of those that have a script.          *)
Selected(o) ==
  ({AutoTest(f) : f \in IF o.globalOnly \/ o.skipAuto THEN {} ELSE TestedBy(o)}
   \cup {t \in {<<d, s>> : d \in DOMAIN Scenarios, s \in o.filter} :
           t[1] \in Folders(o) /\ t[2] \in Scenarios[t[1]]}) \cap Scripts

(* reportTestResults: a run that exits with 0 has run every test the       *)
(* command line selects, in a container of its own, and none failed: no    *)
(* error before the script, no folder cut short and no container another   *)
(* run took away ends as a success.  And whichever way it ends, a folder   *)
(* it leaves is one that it tried to remove and could not.                 *)
VerdictEarned ==
  \A r \in TestRuns : run[r].pc = "done" =>
    /\ run[r].exit = 0 => /\ \A t \in Selected(run[r].opts) : <<r, t>> \in earned
                         /\ Garbled \cap Folders(run[r].opts) = {}
    /\ \A p \in projects : p.at[1] = r => p.stuck
=============================================================================
