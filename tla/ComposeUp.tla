----------------------------- MODULE ComposeUp -----------------------------
(***************************************************************************)
(* The dev container service of a Docker Compose project                   *)
(* (src/internal/cli/compose_up.go, compose_override.go,                   *)
(* src/internal/docker/compose.go, and the Compose parts of up.go and      *)
(* build.go).  An up finds the service's container and starts it with the  *)
(* override files it was made with, or writes new ones: one for the build, *)
(* which puts the Features and the metadata label on the image, and one    *)
(* for the container.  A build writes and runs the first alone.            *)
(*                                                                         *)
(* One CLI runs at a time; other clients of the daemon stop and remove the *)
(* container at any moment, override files get lost, and the configuration *)
(* is edited between the runs.                                             *)
(***************************************************************************)
EXTENDS Integers, Sequences, SequencesExt, FiniteSets

CONSTANTS
  Services,        \* what the configuration may say, see ServiceSpace
  MaxComposeRuns,  \* runs of up and build
  ComposeFaults    \* a subset of {"down", "lost", "fail"}

(* Its build, Features and updateRemoteUserUID; the service's entrypoint   *)
(* and command (Unset for none); overrideCommand.                          *)
Unset == <<"unset">>
Lines == {Unset, <<>>, <<"service">>}
ServiceSpace ==
  [build: BOOLEAN, features: BOOLEAN, uid: BOOLEAN, entrypoint: Lines, command: Lines, override: BOOLEAN]

ASSUME ServicesAssumption == Services \subseteq ServiceSpace
ASSUME ComposeRunsAssumption == MaxComposeRuns \in Nat

VARIABLES
  composeConf,  \* the configuration: what it says, and its revision
  tags,         \* the images of the daemon, by name
  service,      \* the service's container, or NoService
  overrides,    \* the override files of the persisted folder
  compose,      \* the run in progress
  composeRuns   \* runs so far

composeVars == <<composeConf, tags, service, overrides, compose, composeRuns>>

(* ext.overrideImageName, svc image, DefaultImageName, the UID image.      *)
Unnamed    == "unnamed"
ImageNames == {"image", "project-service", "vsc", "vsc-uid"}

(* An image: the entries of its metadata label, the revision its Features  *)
(* are of (0 for none), and whether the remote user has the host's ids.    *)
BaseImage == [entries |-> <<<<"base">>>>, features |-> 0, uid |-> FALSE]
NoImage   == [entries |-> <<>>, features |-> -1, uid |-> FALSE]
NoLabel   == <<<<"none">>>>
OfImage   == [entrypoint |-> <<"image-entrypoint">>, command |-> <<"image-command">>]
NoConf    == [says |-> CHOOSE s \in Services : TRUE, rev |-> 0]
NoService == [running |-> FALSE, image |-> NoImage, label |-> NoLabel, line |-> <<>>, files |-> <<>>, of |-> NoConf, clean |-> FALSE]

-----------------------------------------------------------------------------
(* What a run reads and computes.                                          *)

(* The metadata of the image, the Features and the configuration.          *)
Entries(conf) ==
  <<<<"base">>>> \o (IF conf.says.features THEN <<<<"feature", conf.rev>>>> ELSE <<>>) \o <<<<"config", conf.rev>>>>

(* The name Compose gives the service's image without an override.         *)
OriginalName(says) == IF says.build THEN "project-service" ELSE "image"

(* Bug: an image without Features is always labelled on the container,     *)
(* for build too.                                                          *)
LabelsContainerAlways(says, verb) == ~says.features /\ ~says.build

(* No Features and no Dockerfile: an up labels the container only.         *)
LabelsContainer(says, verb) == ~says.features /\ ~says.build /\ verb = "up"

(* The override that builds the image under the name an image-only service *)
(* is given, so that no pulled image is retagged; nothing to write without *)
(* a build and --cache-from.                                               *)
BuildOverride(r) ==
  LET extends == ~LabelsContainer(r.conf.says, r.verb)
  IN  IF ~extends /\ ~r.cacheFrom THEN <<>>
      ELSE <<[run |-> composeRuns, kind |-> "build",
              image |-> IF extends /\ ~r.conf.says.build THEN "vsc" ELSE Unnamed, label |-> NoLabel,
              line |-> OfImage]>>

(* What Compose runs: an entrypoint of the service's own drops the command *)
(* of the image.                                                           *)
CommandLine(svc) ==
  (IF svc.entrypoint # Unset THEN svc.entrypoint ELSE OfImage.entrypoint)
    \o (IF svc.command # Unset THEN svc.command ELSE IF svc.entrypoint # Unset THEN <<>> ELSE OfImage.command)

(* generateComposeFeaturesOverride: the wrapper, and below it what the     *)
(* service or the image runs; the command is left to the service's own.    *)
OverriddenLine(says) ==
  LET entrypoint == IF says.entrypoint # Unset THEN says.entrypoint ELSE OfImage.entrypoint
      command == IF says.entrypoint # Unset THEN <<>> ELSE OfImage.command
  IN  IF says.override THEN [entrypoint |-> <<"wrapper">>, command |-> <<>>]
      ELSE [entrypoint |-> <<"wrapper">> \o entrypoint, command |-> IF says.command = Unset THEN command ELSE Unset]

(* The override that makes the container: the image when the UID update    *)
(* renamed it, the command line, and the metadata label when no image      *)
(* carries it.                                                             *)
StartOverride(r) ==
  [run |-> composeRuns, kind |-> "start",
   image |-> IF r.image # r.original THEN r.image ELSE Unnamed,
   label |-> IF LabelsContainer(r.conf.says, r.verb) THEN Entries(r.conf) ELSE NoLabel,
   line |-> OverriddenLine(r.conf.says)]

(* The last file that names an image decides.                              *)
Naming(files) == {i \in DOMAIN files : files[i].image # Unnamed}
EffectiveName(says, files) ==
  IF Naming(files) = {} THEN OriginalName(says) ELSE files[Max(Naming(files))].image

(* The first file of the container's label with the prefix of this kind.   *)
Persisted(files, kind) ==
  {files[i] : i \in {n \in DOMAIN files : files[n].kind = kind /\ \A m \in 1..(n - 1) : files[m].kind # kind}}
Exists(found) == found # {} /\ found \subseteq overrides
The(found)    == CHOOSE f \in found : TRUE

-----------------------------------------------------------------------------
Idle == [pc |-> "idle", verb |-> "up", conf |-> NoConf,
         expect |-> FALSE, cacheFrom |-> FALSE, found |-> NoService, files |-> <<>>,
         image |-> Unnamed, original |-> Unnamed, restored |-> FALSE]

ComposeInit ==
  /\ \E says \in Services : composeConf = [says |-> says, rev |-> 1]
  /\ tags = [n \in ImageNames |-> NoImage]
  /\ service = NoService
  /\ overrides = {}
  /\ compose = Idle
  /\ composeRuns = 0

(* runUp and runBuild as far as the Compose client and its configuration.  *)
BeginCompose(verb, expect, cacheFrom) ==
  /\ compose.pc \in {"idle", "done", "failed"} /\ composeRuns < MaxComposeRuns
  /\ verb = "build" => ~expect
  /\ composeRuns' = composeRuns + 1
  /\ compose' = [Idle EXCEPT !.pc = IF verb = "up" THEN "find" ELSE "extend", !.verb = verb, !.conf = composeConf,
                             !.expect = expect, !.cacheFrom = cacheFrom]
  /\ UNCHANGED <<composeConf, tags, service, overrides>>

At(pc) == compose.pc = pc

(* fromCompose: a running container is used as it is.                      *)
FindService ==
  /\ At("find")
  /\ compose' = IF service = NoService /\ compose.expect THEN [compose EXCEPT !.pc = "failed"]
                ELSE IF service.running THEN [compose EXCEPT !.pc = "done", !.found = service]
                ELSE [compose EXCEPT !.pc = "restore", !.found = service]
  /\ UNCHANGED <<composeConf, tags, service, overrides, composeRuns>>

(* Bug: a build override that is gone does not matter.                     *)
RestoreStartAlone ==
  /\ At("restore")
  /\ LET start == Persisted(compose.found.files, "start")
         build == Persisted(compose.found.files, "build")
     IN  IF compose.found # NoService /\ Exists(start)
         THEN compose' = [compose EXCEPT !.pc = "start", !.restored = TRUE,
                            !.files = (IF Exists(build) THEN <<The(build)>> ELSE <<>>) \o <<The(start)>>]
         ELSE compose' = [compose EXCEPT !.pc = "extend"]
  /\ UNCHANGED <<composeConf, tags, service, overrides, composeRuns>>

(* The files of the container's label are used again when none is missing. *)
RestoreOverrides ==
  /\ At("restore")
  /\ LET start == Persisted(compose.found.files, "start")
         build == Persisted(compose.found.files, "build")
     IN  IF compose.found # NoService /\ (Exists(build) \/ build = {}) /\ Exists(start)
         THEN compose' = [compose EXCEPT !.pc = "start", !.restored = TRUE,
                            !.files = (IF Exists(build) THEN <<The(build)>> ELSE <<>>) \o <<The(start)>>]
         ELSE compose' = [compose EXCEPT !.pc = "extend"]
  /\ UNCHANGED <<composeConf, tags, service, overrides, composeRuns>>

(* buildAndExtendCompose as far as the build override: the base image is   *)
(* inspected, and pulled when it is not there.                             *)
ExtendService ==
  /\ At("extend")
  /\ tags' = [tags EXCEPT !["image"] = BaseImage]
  /\ LET build == BuildOverride(compose)
         name  == EffectiveName(compose.conf.says, build)
     IN  /\ overrides' = overrides \cup Range(build)
         /\ compose' = [compose EXCEPT !.files = build, !.image = name, !.original = name,
                          !.pc = IF compose.found # NoService THEN "override" ELSE "build"]
  /\ UNCHANGED <<composeConf, service, composeRuns>>

(* `docker compose build`: nothing is built for an image-only service      *)
(* that the override gives no Dockerfile.                                  *)
BuildService ==
  /\ At("build")
  /\ tags' = IF LabelsContainer(compose.conf.says, compose.verb) THEN tags
             ELSE [tags EXCEPT ![compose.image] =
                     [entries |-> Entries(compose.conf), uid |-> FALSE,
                      features |-> IF compose.conf.says.features THEN compose.conf.rev ELSE 0]]
  /\ compose' = [compose EXCEPT !.pc = IF compose.verb = "up" THEN "uid" ELSE "done"]
  /\ UNCHANGED <<composeConf, service, overrides, composeRuns>>

(* updateRemoteUserUID: a new image on top, under a name of the folder.    *)
UpdateUser ==
  /\ At("uid")
  /\ IF compose.conf.says.uid
     THEN /\ tags' = [tags EXCEPT !["vsc-uid"] = [tags[compose.image] EXCEPT !.uid = TRUE]]
          /\ compose' = [compose EXCEPT !.pc = "override", !.image = "vsc-uid"]
     ELSE /\ compose' = [compose EXCEPT !.pc = "override"]
          /\ UNCHANGED tags
  /\ UNCHANGED <<composeConf, service, overrides, composeRuns>>

WriteStartOverride ==
  /\ At("override")
  /\ overrides' = overrides \cup {StartOverride(compose)}
  /\ compose' = [compose EXCEPT !.pc = "start", !.files = Append(@, StartOverride(compose))]
  /\ UNCHANGED <<composeConf, tags, service, composeRuns>>

(* The container Compose makes of the files.                               *)
Made(r) == [running |-> TRUE, image |-> tags[EffectiveName(r.conf.says, r.files)], label |-> Last(r.files).label,
            line |-> CommandLine([entrypoint |-> Last(r.files).line.entrypoint,
                                  command |-> IF Last(r.files).line.command # Unset THEN Last(r.files).line.command
                                              ELSE r.conf.says.command]),
            files |-> r.files, of |-> r.conf, clean |-> r.found = NoService]

(* Bug: --no-recreate is given with --expect-existing-container only.      *)
StartServiceRecreates ==
  /\ At("start")
  /\ service' = IF service # NoService /\ compose.expect THEN [service EXCEPT !.running = TRUE] ELSE Made(compose)
  /\ compose' = [compose EXCEPT !.pc = "list"]
  /\ UNCHANGED <<composeConf, tags, overrides, composeRuns>>

(* `docker compose up`, with --no-recreate when a container was found: one *)
(* that is there by now is only started.                                   *)
StartService ==
  /\ At("start")
  /\ service' = IF service # NoService /\ (compose.found # NoService \/ compose.expect)
                THEN [service EXCEPT !.running = TRUE] ELSE Made(compose)
  /\ compose' = [compose EXCEPT !.pc = "list"]
  /\ UNCHANGED <<composeConf, tags, overrides, composeRuns>>

ListStarted ==
  /\ At("list")
  /\ compose' = [compose EXCEPT !.pc = IF service = NoService THEN "failed" ELSE "done"]
  /\ UNCHANGED <<composeConf, tags, service, overrides, composeRuns>>

(* A read, an inspection, a pull, a build or a Compose command fails, or   *)
(* the CLI is killed: what was written stays.                              *)
ComposeFails ==
  /\ "fail" \in ComposeFaults
  /\ compose.pc \in {"find", "extend", "build", "uid", "override", "start", "list"}
  /\ compose' = [compose EXCEPT !.pc = "failed"]
  /\ UNCHANGED <<composeConf, tags, service, overrides, composeRuns>>

(* stop, down, and the loss of a file the container was made with (nobody  *)
(* reads the others).                                                      *)
StopService ==
  /\ service.running
  /\ service' = [service EXCEPT !.running = FALSE]
  /\ UNCHANGED <<composeConf, tags, overrides, compose, composeRuns>>

DownService ==
  /\ "down" \in ComposeFaults
  /\ service # NoService /\ service' = NoService
  /\ UNCHANGED <<composeConf, tags, overrides, compose, composeRuns>>

LoseOverride ==
  /\ "lost" \in ComposeFaults
  /\ \E f \in overrides \cap Range(service.files) : overrides' = overrides \ {f}
  /\ UNCHANGED <<composeConf, tags, service, compose, composeRuns>>

EditService ==
  /\ composeRuns < MaxComposeRuns
  /\ composeConf.rev = composeRuns
  /\ \E says \in Services : composeConf' = [says |-> says, rev |-> composeConf.rev + 1]
  /\ UNCHANGED <<tags, service, overrides, compose, composeRuns>>

ComposeStep ==
  \/ FindService \/ RestoreOverrides \/ ExtendService \/ BuildService \/ UpdateUser
  \/ WriteStartOverride \/ StartService \/ ListStarted

ComposeNext ==
  \/ \E verb \in {"up", "build"}, expect, cacheFrom \in BOOLEAN : BeginCompose(verb, expect, cacheFrom)
  \/ ComposeStep \/ ComposeFails
  \/ StopService \/ DownService \/ LoseOverride \/ EditService

ComposeSpec == ComposeInit /\ [][ComposeNext]_composeVars

-----------------------------------------------------------------------------
(* compose_up.go startComposeContainer, up.go metadataOfContainer: what is *)
(* read from a container that an up made anew (its label, else that of its *)
(* image) describes the configuration it was made of, its image has the    *)
(* Features of that configuration, its user the ids of the host when asked *)
(* for, and below the wrapper it runs what it would run without overrides; *)
(* and the image a build reports exists and carries the configuration's    *)
(* metadata, for an image-only service without Features too: whatever      *)
(* names the images went by on the way.                                    *)
ContainerMatchesConfig ==
  /\ service.clean =>
       /\ (IF service.label # NoLabel THEN service.label ELSE service.image.entries) = Entries(service.of)
       /\ service.image.features = IF service.of.says.features THEN service.of.rev ELSE 0
       /\ service.image.uid = service.of.says.uid
       /\ service.line = <<"wrapper">> \o (IF service.of.says.override THEN <<>> ELSE CommandLine(service.of.says))
  /\ compose.verb = "build" /\ compose.pc = "done" => tags[compose.image].entries = Entries(compose.conf)

(* compose_up.go startComposeContainer: `compose up` is never given the    *)
(* override of one run together with that of another, nor the container    *)
(* override without the build override it was written with.                *)
OverridesOfOneRun ==
  compose.pc = "start" =>
    /\ \A f, g \in Range(compose.files) : f.run = g.run
    /\ compose.restored => Range(compose.files) = Range(compose.found.files)

(* compose_up.go startComposeContainer, compose.go Up: an up that found    *)
(* the container, running or stopped, starts it and never puts another one *)
(* in its place, whatever was edited or lost since.                        *)
FoundServiceKept ==
  [][compose.found # NoService /\ service # NoService /\ service' # NoService
       => service' = [service EXCEPT !.running = service'.running]]_composeVars

=============================================================================
