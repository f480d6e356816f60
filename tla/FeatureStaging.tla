--------------------------- MODULE FeatureStaging ---------------------------
(***************************************************************************)
(* How the Features of a build get from where they are published into the  *)
(* image: cli/feature_install.go over features/resolve.go and              *)
(* imagemeta/extend.go.  Every reference the dependency graph asks for is  *)
(* fetched into a folder of its own, .stage-0, .stage-1, ..., in the order *)
(* the graph asks; when the installation order is known the folders are    *)
(* renamed after it, <id>_0, <id>_1, ..., and the generated Dockerfile     *)
(* copies each layer from the folder of its place.  Meanwhile the world    *)
(* moves: a local Feature is edited, a tag is pushed again, the file behind*)
(* a URL is replaced.  The lockfile a run writes pins the next one's.      *)
(*                                                                         *)
(* What a reference names is a version, counted from 1.  FeatureOrder says *)
(* which order is right; here any order of the fetched Features will do.   *)
(***************************************************************************)
EXTENDS Naturals, Sequences, FiniteSets

CONSTANTS
  FeatureRefs,      \* the references the graph may ask for
  Kind,             \* how each is written, see Kinds
  Wanted,           \* the value the configuration gives each
  Offers,           \* the names of the options each declares
  SkipAutoMapping,  \* --skip-feature-auto-mapping
  StagingFaults,    \* what goes wrong: "fail", "rename", "file"
  MaxVersion,       \* bound: versions of a Feature
  MaxFetches,       \* bound: references one run processes
  MaxBuilds         \* bound: builds of the workspace

(* A reference is a folder under .devcontainer or one outside it, a URL, a *)
(* registry's, or a name without a registry: of a Feature that moved to    *)
(* the official registry ("shorthand"), of one that became an option of    *)
(* another ("folded"), or of none the CLI knows ("unknown").               *)
Kinds == {"local", "outside", "tarball", "oci", "shorthand", "folded", "unknown"}
FromRegistry == {"oci", "shorthand", "folded"}

(* The configuration gives a Feature values for some of its options, or    *)
(* just a string, which is a value for the option named version.           *)
Folded == "installGradle"  \* the option a folded name turns on
ASSUME StagingAssumption ==
  /\ Kind \in [FeatureRefs -> Kinds]
  /\ Wanted \in [FeatureRefs -> [string : BOOLEAN, options : SUBSET STRING]]
  /\ Offers \in [FeatureRefs -> SUBSET STRING]
  /\ {MaxVersion, MaxFetches, MaxBuilds} \subseteq Nat

VARIABLES
  published,  \* the version each reference names now
  pins,       \* the lockfile: the version each is pinned to, 0 for none
  at,         \* how far the build is
  pinned,     \* the lockfile it started from
  folder,     \* the features folder: what each of its folders holds
  half,       \* the reference being copied or pulled, and its version
  sets,       \* the Features processed, in that order
  arranged,   \* the Features to install, in that order
  image,      \* what the built image's layers installed, and its label's entries
  builds      \* builds so far

stagingVars == <<published, pins, at, pinned, folder, half, sets, arranged, image, builds>>

NoImage == [layers |-> <<>>, label |-> <<>>]
Stage(n) == <<"stage", n>>
Place(f, i) == <<f.ref, i>>
Nothing == [p \in {} |-> 0]

StagingInit ==
  /\ published = [r \in FeatureRefs |-> 1]
  /\ pins = [r \in FeatureRefs |-> 0]
  /\ pinned = pins
  /\ at = "idle" /\ builds = 0
  /\ folder = Nothing
  /\ half = <<>> /\ sets = <<>> /\ arranged = <<>> /\ image = NoImage

(* Somebody edits the local Feature, moves the tag, replaces the file.     *)
Republish(r) ==
  /\ published[r] < MaxVersion
  /\ published' = [published EXCEPT ![r] = @ + 1]
  /\ UNCHANGED <<pins, at, pinned, folder, half, sets, arranged, image, builds>>

(* extendImageWithFeatures reads the lockfile and makes the folder.        *)
BeginBuild ==
  /\ at = "idle" /\ builds < MaxBuilds
  /\ at' = "resolve" /\ builds' = builds + 1
  /\ pinned' = pins
  /\ folder' = Nothing
  /\ sets' = <<>> /\ arranged' = <<>> /\ image' = NoImage
  /\ UNCHANGED <<published, pins, half>>

(* A resolution that fails takes the features folder with it.              *)
Abandon ==
  /\ at' = "idle"
  /\ folder' = Nothing
  /\ half' = <<>> /\ sets' = <<>>
  /\ UNCHANGED <<published, pins, pinned, arranged, image, builds>>

(* The options a Feature is given.  Folding a name into an option keeps    *)
(* the object the user wrote; a string is lost.                            *)
Given(r) ==
  IF Kind[r] = "folded" THEN Wanted[r].options \cup {Folded}
  ELSE IF Wanted[r].string THEN Offers[r] \cap {"version"}
  ELSE Wanted[r].options

(* The next fetch goes to the next stage folder.  A Feature is asked for   *)
(* because it is to be installed, or as a probe: to learn about one that   *)
(* is installed before another if something else wants it.                 *)
Asks(r) == at = "resolve" /\ Len(sets) < MaxFetches /\ r \in FeatureRefs
StageAt == Stage(Len(sets) + 1)
Staged(r, json, scripts, meta) ==
  \E probe \in BOOLEAN :
    /\ folder' = [p \in DOMAIN folder \cup {StageAt} |->
                    IF p = StageAt THEN [ref |-> r, json |-> json, scripts |-> scripts, env |-> Nothing]
                    ELSE folder[p]]
    /\ sets' = Append(sets, [ref |-> r, meta |-> meta, path |-> StageAt, probe |-> probe])

(* What no source can serve: an unknown name, a shorthand that is not to   *)
(* be mapped, a folder outside .devcontainer.                              *)
Refused(r) ==
  \/ Kind[r] \in {"unknown", "outside"}
  \/ Kind[r] = "shorthand" /\ SkipAutoMapping
Refuse(r) == Asks(r) /\ Refused(r) /\ Abandon

(* A fetch, a copy or the dependency graph fails.                          *)
FailResolution ==
  /\ "fail" \in StagingFaults
  /\ at \in {"resolve", "copy", "pull"}
  /\ Abandon

(* A local Feature: its folder is copied file by file, devcontainer-       *)
(* feature.json before the scripts, and its metadata is read from the copy.*)
CopyMetadata(r) ==
  /\ Asks(r) /\ Kind[r] = "local"
  /\ at' = "copy" /\ half' = <<r, published[r]>>
  /\ UNCHANGED <<published, pins, pinned, folder, sets, arranged, image, builds>>

MetadataRead(copied, there) == copied
CopyScripts ==
  /\ at = "copy"
  /\ LET r == half[1] IN
       Staged(r, half[2], published[r], MetadataRead(half[2], published[r]))
  /\ at' = "resolve" /\ half' = <<>>
  /\ UNCHANGED <<published, pins, pinned, arranged, image, builds>>

(* A tarball is whatever its URL serves, refused unless it has the digest  *)
(* the lockfile records.  One without a devcontainer-feature.json is taken *)
(* (version 0): only the staging of its build files fails on it.           *)
Published(r) == {published[r]} \cup (IF "file" \in StagingFaults THEN {0} ELSE {})
Matches(r, v) == pinned[r] \in {0, v}
Download(r) ==
  /\ Asks(r) /\ Kind[r] = "tarball"
  /\ \E v \in Published(r) :
       IF Matches(r, published[r])
       THEN /\ Staged(r, v, published[r], v)
            /\ UNCHANGED <<published, pins, at, pinned, half, arranged, image, builds>>
       ELSE Abandon

(* A registry's Feature: the manifest the lockfile names, or else the      *)
(* tag's; then the blob that manifest names, whatever the tag says by now. *)
Reference(r) == IF pinned[r] # 0 THEN pinned[r] ELSE published[r]
PullManifest(r) ==
  /\ Asks(r) /\ Kind[r] \in FromRegistry /\ ~Refused(r)
  /\ at' = "pull" /\ half' = <<r, Reference(r)>>
  /\ UNCHANGED <<published, pins, pinned, folder, sets, arranged, image, builds>>
Blob(manifest, tag) == manifest
PullBlob ==
  /\ at = "pull"
  /\ LET r == half[1]
         v == Blob(half[2], published[r])
     IN \E json \in {v} \cup (Published(r) \cap {0}) : Staged(r, json, v, half[2])
  /\ at' = "resolve" /\ half' = <<>>
  /\ UNCHANGED <<published, pins, pinned, arranged, image, builds>>

(* Two processed references are one Feature when they are one reference    *)
(* and, from a registry, one digest; each is installed once, the probes    *)
(* are not.  Then every folder moves to its place in the order, by a copy  *)
(* when it cannot be renamed; the stage folders that are left are removed. *)
SameFeature(s, t) == s.ref = t.ref /\ (Kind[s.ref] \in FromRegistry => s.meta = t.meta)
Orders ==
  LET all == 1..Len(sets)
  IN {f \in UNION {[1..n -> all] : n \in 1..Len(sets)} :
        /\ \A i, j \in DOMAIN f : i # j => ~SameFeature(sets[f[i]], sets[f[j]])
        /\ \A k \in all : ~sets[k].probe => \E i \in DOMAIN f : SameFeature(sets[k], sets[f[i]])
        /\ \A i \in DOMAIN f : \E k \in all : ~sets[k].probe /\ SameFeature(sets[k], sets[f[i]])}

(* Bug: the places are taken for the order of the fetches.                 *)
SourceByPlace(f, i) == Stage(i)
Source(f, i) == sets[f[i]].path
Realign(f) ==
  /\ arranged' = [i \in DOMAIN f |-> [sets[f[i]] EXCEPT !.path = Place(sets[f[i]], i)]]
  /\ folder' = [p \in {arranged'[i].path : i \in DOMAIN f} |-> folder[Source(f, p[2])]]
Arrange ==
  /\ at = "resolve" /\ \E f \in Orders : Realign(f)
  /\ at' = "ordered" /\ sets' = <<>>
  /\ UNCHANGED <<published, pins, pinned, half, image, builds>>

(* A folder that can be neither renamed nor copied ends the run.           *)
FailRealign == "rename" \in StagingFaults /\ at = "resolve" /\ sets # <<>> /\ Abandon

(* GenerateLockfile: every Feature of a registry or a URL with its digest, *)
(* the last of the order's when a reference resolved twice.                *)
Pin(r) ==
  LET of == {i \in DOMAIN arranged : arranged[i].ref = r /\ Kind[r] # "local"}
  IN IF of = {} THEN 0 ELSE folder[arranged[CHOOSE i \in of : \A j \in of : j <= i].path].scripts
SaveLockfile ==
  /\ at = "ordered" /\ at' = "pinned"
  /\ pins' = [r \in FeatureRefs |-> Pin(r)]
  /\ UNCHANGED <<published, pinned, folder, half, sets, arranged, image, builds>>

(* stageFeatureBuildFiles: each Feature's options are the defaults its     *)
(* metadata declares, overlaid by the values it is given.                  *)
User == "user"
Options(r, meta) == [o \in Offers[r] \cup Given(r) |-> IF o \in Given(r) THEN User ELSE meta]
StageFiles ==
  /\ at = "pinned"
  /\ IF \E i \in DOMAIN arranged : folder[arranged[i].path].json = 0
     THEN at' = "idle" /\ UNCHANGED folder
     ELSE /\ at' = "staged"
          /\ folder' = [p \in DOMAIN folder |->
               [folder[p] EXCEPT !.env = Options(folder[p].ref, arranged[p[2]].meta)]]
  /\ UNCHANGED <<published, pins, pinned, half, sets, arranged, image, builds>>

(* The generated Dockerfile: one layer per Feature, from the folder its    *)
(* consecutiveId names, and the label with one entry per Feature.  The     *)
(* features folder is kept.                                                *)
Layer(i) == folder[Place(arranged[i], i)]
BuildImage ==
  /\ at = "staged" /\ at' = "idle"
  /\ image' = [layers |-> [i \in DOMAIN arranged |-> Layer(i)],
               label |-> [i \in DOMAIN arranged |-> <<arranged[i].ref, arranged[i].meta>>]]
  /\ UNCHANGED <<published, pins, pinned, folder, half, sets, arranged, builds>>
FailBuild ==
  /\ "fail" \in StagingFaults /\ at = "staged" /\ at' = "idle"
  /\ UNCHANGED <<published, pins, pinned, folder, half, sets, arranged, image, builds>>

StagingNext ==
  \/ BeginBuild \/ CopyScripts \/ PullBlob \/ FailResolution \/ Arrange \/ FailRealign
  \/ SaveLockfile \/ StageFiles \/ BuildImage \/ FailBuild
  \/ \E r \in FeatureRefs :
       Republish(r) \/ Refuse(r) \/ CopyMetadata(r) \/ Download(r) \/ PullManifest(r)
StagingSpec == StagingInit /\ [][StagingNext]_stagingVars

-----------------------------------------------------------------------------
(* Every layer installs what was resolved for its place: the Feature of    *)
(* that place, described in the label by the metadata that lies in its own *)
(* folder, its scripts of the same version (an edit may slip between a     *)
(* local Feature's files), the version the lockfile pinned when the build  *)
(* began, with the user's value for each option given one and that         *)
(* version's default for the others.  The folder may have been fetched     *)
(* before its place was known, and the source may have moved since.        *)
LayersAsResolved ==
  \A i \in DOMAIN image.layers :
    LET l == image.layers[i] IN
      /\ image.label[i] = <<l.ref, l.json>> /\ l.ref = arranged[i].ref
      /\ Kind[l.ref] # "local" => l.scripts = l.json /\ pinned[l.ref] \in {0, l.json}
      /\ \A o \in DOMAIN l.env :
           l.env[o] = IF o \in Given(l.ref) THEN User ELSE l.json
=============================================================================
