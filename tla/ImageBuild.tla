----------------------------- MODULE ImageBuild -----------------------------
(***************************************************************************)
(* The images of an up and a build of image and Dockerfile configurations  *)
(* (src/internal/cli/build.go, feature_install.go, the same paths of up.go, *)
(* src/internal/docker/updateuid.go and client.go).  What a later command  *)
(* knows of a container it reads from a label, which is on the image when  *)
(* an image was built for the configuration and else on the container; on  *)
(* the way to the container the image goes from tag to tag, and the tags   *)
(* are shared by everything on the daemon.                                 *)
(***************************************************************************)
EXTENDS Integers, Sequences, FiniteSets

CONSTANTS
  Workspaces,   \* workspace folders, each with one configuration
  Setups,       \* what their configurations may be: functions to ConfSpace
  Bases,        \* images of registries
  Labelled,     \* those with a metadata label
  Concurrent,   \* may commands of different workspaces overlap?
  MaxCommands,  \* commands
  BuildFaults   \* a subset of {"fail", "relabel", "pull", "inspect"}

(* A configuration: of a Dockerfile or an image, with Features, with a      *)
(* Dockerfile that declares a metadata label, and one whose remote user is *)
(* given the ids of the host.                                              *)
ConfSpace == [dockerfile: BOOLEAN, features: BOOLEAN, label: BOOLEAN, uid: BOOLEAN, base: Bases]

ASSUME SetupsAssumption == Setups \subseteq [Workspaces -> ConfSpace]
ASSUME CommandsAssumption == MaxCommands \in Nat /\ Concurrent \in BOOLEAN

(* ComposeFeatureContentImage, and the vsc-<folder>-<hash> of a folder's   *)
(* folderImageName, are no images of a registry.                           *)
ContentTag == "dev_container_feature_content_temp"
ASSUME NamesAssumption == ContentTag \notin Bases \cup Workspaces /\ Bases \cap Workspaces = {}

VARIABLES
  setup,     \* the configurations
  images,    \* the daemon's images, by name
  exported,  \* what --push and --output sent away
  command,   \* the command of each workspace
  box,       \* the container of each workspace
  commands   \* commands so far

buildVars == <<setup, images, exported, command, box, commands>>

(* Names: a base, the folder's name, --image-name, each with the suffixes  *)
(* of the Feature and the UID build; and the image of the Features' files. *)
ContentName    == <<ContentTag>>
Given(w)       == <<w, "given">>
WithFeatures(name) == Append(name, "features")
Names == {<<b>> : b \in Bases} \cup {<<w>> : w \in Workspaces} \cup {Given(w) : w \in Workspaces} \cup {ContentName}
AllNames == Names \cup {Append(n, s) : n \in Names, s \in {"features", "uid"}}
            \cup {Append(WithFeatures(n), "uid") : n \in Names}

(* An image: the entries of its metadata label, whose Features it has, and *)
(* whether its remote user has the ids of the host.                        *)
Nobody  == "nobody"
NoBuilt == [entries |-> <<<<"absent">>>>, features |-> Nobody, uid |-> FALSE]
BaseEntries(b) == IF b \in Labelled THEN <<<<"base">>>> ELSE <<>>
FromBase(b) == [entries |-> BaseEntries(b), features |-> Nobody, uid |-> FALSE]

(* StageLabels, featureMetadataEntry, configLabelEntry: what a Dockerfile, *)
(* the Features and a configuration add, on top of their base.             *)
OwnLabel(w) == IF setup[w].dockerfile /\ setup[w].label THEN <<<<"stage", w>>>> ELSE <<>>
Features(w) == IF setup[w].features THEN <<<<"feature", w>>>> ELSE <<>>
Config(w)   == <<<<"config", w>>>>
Below(w)    == BaseEntries(setup[w].base) \o OwnLabel(w)
Expected(w) == Below(w) \o Features(w) \o Config(w)

NoBox == [image |-> NoBuilt, entries |-> <<<<"absent">>>>, trusted |-> FALSE, informed |-> FALSE]
NoCommand == [pc |-> "idle", verb |-> "up", named |-> FALSE, push |-> FALSE, output |-> FALSE, buildx |-> TRUE,
              cached |-> FALSE, name |-> <<>>, informed |-> TRUE, last |-> "none"]

BuildInit ==
  /\ setup \in Setups
  /\ images = [n \in AllNames |-> NoBuilt]
  /\ exported = {}
  /\ command = [w \in Workspaces |-> NoCommand]
  /\ box = [w \in Workspaces |-> NoBox]
  /\ commands = 0

Over(c)   == c.pc \in {"idle", "done", "failed"}
On(w, pc) == command[w].pc = pc
To(w, fields) == command' = [command EXCEPT ![w] = [f \in DOMAIN @ |-> IF f \in DOMAIN fields THEN fields[f] ELSE @[f]]]
Then(w, pc) == To(w, [pc |-> pc])

(* --push needs BuildKit and does not go with --output.                    *)
FlagConflict(o) == (o.push /\ ~o.buildx) \/ (o.output /\ o.push)

(* runUp, runBuild: an up has no names, no --push and no --output; a build *)
(* no --cache-image.                                                       *)
BeginCommand(w, o) ==
  /\ commands < MaxCommands
  /\ Over(command[w]) /\ (Concurrent \/ \A v \in Workspaces : Over(command[v]))
  /\ IF o.verb = "up" THEN ~o.named /\ ~o.push /\ ~o.output ELSE ~o.cached
  /\ commands' = commands + 1
  /\ To(w, [pc |-> IF FlagConflict(o) THEN "failed" ELSE "base", verb |-> o.verb, named |-> o.named, push |-> o.push,
            output |-> o.output, buildx |-> o.buildx, cached |-> o.cached, name |-> <<>>, informed |-> TRUE,
            last |-> IF o.named /\ ~FlagConflict(o) THEN "failed" ELSE command[w].last])
  /\ UNCHANGED <<setup, images, exported, box>>

(* imageNamesOr: --image-name, else the folder's name, with a suffix for   *)
(* the Features of an image configuration.                                 *)
FolderName(w, features) == IF features THEN WithFeatures(<<w>>) ELSE <<w>>
TagOf(w, features) == IF command[w].named THEN Given(w) ELSE FolderName(w, features)

(* InspectImage: those who read metadata go on without when it fails.      *)
Answers == IF "inspect" \in BuildFaults THEN BOOLEAN ELSE {TRUE}

(* Client.Build: --push, to a registry, and --output, which only buildx    *)
(* takes, leave nothing in the daemon.                                     *)
Sends(c) == c.buildx /\ (c.push \/ c.output)
Produce(w, name, image, send, informed) ==
  IF send
  THEN /\ exported' = exported \cup {[of |-> w, image |-> image, informed |-> informed,
                                     at |-> IF command[w].push THEN name ELSE <<>>]}
       /\ UNCHANGED images
  ELSE images' = [images EXCEPT ![name] = image] /\ UNCHANGED exported

After(w) == IF command[w].verb = "up" THEN "uid" ELSE "end"

(* fromCacheImage: the prebuilt image, or, when the inspection finds none, *)
(* one that a build pushed under its name, or nothing.                     *)
UseCacheImage(w) ==
  /\ On(w, "base") /\ command[w].cached
  /\ \/ /\ images[Given(w)] # NoBuilt
        /\ To(w, [name |-> Given(w), pc |-> "uid", informed |-> command[w].last = "done"])
        /\ UNCHANGED images
     \/ /\ images[Given(w)] = NoBuilt \/ FALSE \in Answers
        /\ \/ Then(w, "failed") /\ UNCHANGED images
           \/ \E e \in exported :
                /\ e.at = Given(w)
                /\ images' = [images EXCEPT ![Given(w)] = e.image]
                /\ To(w, [name |-> Given(w), pc |-> "uid", informed |-> e.informed,
                          last |-> IF e.informed THEN "done" ELSE "blind"])
  /\ UNCHANGED <<setup, exported, box, commands>>

(* The base image is there, or is pulled.  An image configuration fails    *)
(* without it (BuildFails); a Dockerfile's base is pulled for its metadata *)
(* alone (ImageLabelsEnsuringPresent), and a failed pull reads as none.    *)
EnsureBase(w) ==
  /\ On(w, "base") /\ ~command[w].cached
  /\ LET name == <<setup[w].base>>
         next == IF setup[w].dockerfile THEN "dockerfile" ELSE IF setup[w].features THEN "content"
                 ELSE IF command[w].verb = "up" THEN "uid" ELSE "relabel"
     IN  \/ /\ images' = [images EXCEPT ![name] = FromBase(setup[w].base)]
            /\ To(w, [name |-> name, pc |-> next])
         \/ /\ "pull" \in BuildFaults /\ setup[w].dockerfile /\ images[name] = NoBuilt
            /\ To(w, [name |-> name, pc |-> next, informed |-> FALSE])
            /\ UNCHANGED images
  /\ UNCHANGED <<setup, exported, box, commands>>

(* Bug: the intermediate image of a Feature build is pushed too.           *)
SendsAlways(w) == Sends(command[w])

(* dockerfileBaseExport: an intermediate image stays in the daemon.        *)
SendsBase(w) == Sends(command[w]) /\ ~setup[w].features

(* dockerfileImageMetadata: the Feature build adds the configuration's.    *)
StageEntries(w) ==
  (IF command[w].informed THEN Below(w) ELSE OwnLabel(w)) \o (IF setup[w].features THEN <<>> ELSE Config(w))

(* The build of the configuration's Dockerfile.  Without entries there is  *)
(* no label, and that of the base stays.                                   *)
BuildDockerfile(w) ==
  /\ On(w, "dockerfile")
  /\ LET tag == TagOf(w, FALSE)
         label == IF StageEntries(w) = <<>> THEN BaseEntries(setup[w].base) ELSE StageEntries(w)
     IN  /\ Produce(w, tag, [entries |-> label, features |-> Nobody, uid |-> FALSE], SendsBase(w),
                    command[w].informed)
         /\ To(w, [name |-> tag, pc |-> IF setup[w].features THEN "content" ELSE After(w)])
  /\ UNCHANGED <<setup, box, commands>>

(* buildFeatureContentImage, for a build without BuildKit contexts.        *)
BuildContent(w) ==
  /\ On(w, "content")
  /\ images' = IF command[w].buildx THEN images
               ELSE [images EXCEPT ![ContentName] = [entries |-> <<>>, features |-> w, uid |-> FALSE]]
  /\ Then(w, "features")
  /\ UNCHANGED <<setup, exported, box, commands>>

(* extendImageWithFeatures: on the image that has the base's name by now,  *)
(* tagged like the base when no names are given (an up), and with the      *)
(* metadata an inspection of it shows.                                     *)
FeatureTag(w) ==
  IF command[w].verb = "up" THEN WithFeatures(command[w].name) ELSE TagOf(w, ~setup[w].dockerfile)

BuildFeatures(w) ==
  /\ On(w, "features")
  /\ \E seen \in Answers :
       LET base == images[command[w].name]
           from == IF command[w].buildx THEN w ELSE images[ContentName].features
           entries == (IF seen THEN base.entries ELSE <<>>) \o Features(w) \o Config(w)
           informed == command[w].informed /\ seen
       IN  /\ Produce(w, FeatureTag(w), [entries |-> entries, features |-> from, uid |-> base.uid],
                      Sends(command[w]), informed)
           /\ To(w, [name |-> FeatureTag(w), pc |-> After(w), informed |-> informed])
  /\ UNCHANGED <<setup, box, commands>>

(* imageBuildFor, without Features: exported, labelled again under         *)
(* --image-name, or left as it is.  When the labelling fails the image is  *)
(* tagged without a label.                                                 *)
RelabelImage(w) ==
  /\ On(w, "relabel")
  /\ LET c == command[w]
         base == images[c.name]
         labelled == [entries |-> base.entries \o Config(w), features |-> base.features, uid |-> base.uid]
         exports == c.push \/ c.output
         tag == TagOf(w, exports)
     IN  \/ /\ exports \/ c.named
            /\ Produce(w, tag, labelled, exports /\ c.buildx, c.informed)
            /\ To(w, [name |-> tag, pc |-> "end"])
         \/ /\ "relabel" \in BuildFaults /\ ~exports /\ c.named
            /\ Produce(w, tag, base, FALSE, c.informed)
            /\ To(w, [name |-> tag, pc |-> "done"])
         \/ /\ ~exports /\ ~c.named
            /\ To(w, [name |-> tag, pc |-> "done"])
            /\ UNCHANGED <<images, exported>>
  /\ UNCHANGED <<setup, box, commands>>

(* The folder's name with a suffix, or the image's when it starts with it. *)
UidTag(w, name) == IF name[1] = w THEN Append(name, "uid") ELSE <<w, "uid">>

(* singleContainerRemoteUserUID, BuildUIDImage.  Whose ids to change comes *)
(* from the metadata: without it, it may be another user's, or nobody's.   *)
UpdateUid(w) ==
  /\ On(w, "uid")
  /\ \E seen \in Answers, due \in BOOLEAN :
       LET name == command[w].name
           informed == command[w].informed /\ seen
       IN  /\ informed => due = setup[w].uid
           /\ images' = IF due THEN [images EXCEPT ![UidTag(w, name)] = [images[name] EXCEPT !.uid = TRUE]] ELSE images
           /\ To(w, [pc |-> "run", name |-> IF due THEN UidTag(w, name) ELSE name, informed |-> informed])
  /\ UNCHANGED <<setup, exported, box, commands>>

(* Bug: only a Feature build is taken for a build.                         *)
ConfigInImageFeatures(w, seen) == setup[w].features

(* Is the configuration's entry on the image?  A cached image with a label *)
(* that is seen is taken for a build of the configuration.                 *)
ConfigInImage(w, seen) ==
  IF command[w].cached THEN seen /\ images[command[w].name].entries # <<>>
  ELSE setup[w].dockerfile \/ setup[w].features

(* runContainer: what a later command reads from the container, which has  *)
(* the label of its image, or one made of what an inspection shows.        *)
RunContainer(w) ==
  /\ On(w, "run")
  /\ \E label, seen \in Answers :
       LET c == command[w]
           image == images[c.name]
           inherits == ConfigInImage(w, label)
       IN  box' = [box EXCEPT ![w] =
                     [image |-> image,
                      entries |-> IF inherits THEN image.entries ELSE (IF seen THEN image.entries ELSE <<>>) \o Config(w),
                      trusted |-> c.cached => c.last \in {"done", "blind"},
                      informed |-> c.informed /\ (inherits \/ seen) /\ (c.cached => label)]]
  /\ Then(w, "done")
  /\ UNCHANGED <<setup, images, exported, commands>>

EndBuild(w) ==
  /\ On(w, "end")
  /\ To(w, [pc |-> "done", last |-> IF ~command[w].named \/ Sends(command[w]) THEN command[w].last
                                    ELSE IF command[w].informed THEN "done" ELSE "blind"])
  /\ UNCHANGED <<setup, images, exported, box, commands>>

(* A pull, a build or the CLI fails: the tags made so far stay.            *)
BuildFails(w) ==
  /\ "fail" \in BuildFaults
  /\ command[w].pc \in {"base", "dockerfile", "content", "features", "relabel", "uid", "run"}
  /\ Then(w, "failed")
  /\ UNCHANGED <<setup, images, exported, box, commands>>

Options == [verb: {"up", "build"}, named: BOOLEAN, push: BOOLEAN, output: BOOLEAN, buildx: BOOLEAN, cached: BOOLEAN]

BuildStep(w) ==
  \/ UseCacheImage(w) \/ EnsureBase(w) \/ BuildDockerfile(w) \/ BuildContent(w) \/ BuildFeatures(w) \/ RelabelImage(w)
  \/ UpdateUid(w) \/ RunContainer(w) \/ EndBuild(w)

BuildNext ==
  \E w \in Workspaces :
    \/ \E o \in Options : BeginCommand(w, o)
    \/ BuildStep(w) \/ BuildFails(w)

BuildSpec == BuildInit /\ [][BuildNext]_buildVars

-----------------------------------------------------------------------------
(* Metadata that is the configuration's: its base's, its Dockerfile's, the *)
(* Features' and its own, each once and in this order.  Where a pull or an *)
(* inspection failed, what it should have shown may be missing or twice,   *)
(* but the configuration's own entry is there, and overrules the others.   *)
EndsIn(entries, w) == entries # <<>> /\ entries[Len(entries)] = <<"config", w>>
Describes(entries, w, informed) == entries = Expected(w) \/ (~informed /\ EndsIn(entries, w))

HasFeaturesOf(image, w) == image.features = IF setup[w].features THEN w ELSE Nobody

(* up.go fromImage, fromDockerfile: "installs its Features and starts the  *)
(* container".  The container of an up runs its own Features, for a user   *)
(* with the host's ids when asked for, and what is read from it describes  *)
(* its configuration, although the entries travel on an image or on the    *)
(* container, through tags that other builds overwrite.  A cached image    *)
(* counts when the workspace's last build under --image-name succeeded and *)
(* stayed in the daemon or was pushed and is pulled again.                 *)
RunsOwnBuild ==
  \A w \in Workspaces :
    box[w].trusted =>
      /\ Describes(box[w].entries, w, box[w].informed)
      /\ HasFeaturesOf(box[w].image, w)
      /\ box[w].informed => box[w].image.uid = setup[w].uid

(* build.go dockerfileBaseExport: nothing is pushed or written out that    *)
(* lacks the Features or the metadata of its configuration, whichever of   *)
(* the builds on the way is the one that exports.                          *)
ExportsComplete ==
  \A e \in exported : Describes(e.image.entries, e.of, e.informed) /\ HasFeaturesOf(e.image, e.of)

=============================================================================
