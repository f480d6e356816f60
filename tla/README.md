# A TLA+ model of the dev container CLI

The CLI (`src/`, Go) builds, starts, enters, stops and removes development
containers from a `devcontainer.json`, and publishes the Features and Templates
they are made from. It is a command-line program: each command is one process,
and most of its code reads, computes and prints. What makes it hard is what
the processes leave behind and find again, and that what one command computed is
computed again, in another way, by the next. This directory models those parts:
marker files in the container, the containers and Compose projects of a workspace,
the images and tags of a daemon, the metadata they carry, the lockfile, the caches, the tags
of a registry and the credentials for it, and the algorithm whose order
everything depends on, the ordering of Features.

Contents: 1 The system, 2 The modules, 3 The runs, 4 Fairness, 5 The proofs,
6 Where the code and its documentation disagree, 7 Not modelled, 8 What is left,
9 Running it.

## 1. The system

### Components that keep state, and what makes them correct

| Component (source) | State | Operations | Hard behaviour | What makes it correct |
|---|---|---|---|---|
| Lifecycle hooks (`cli/up.go`, `cli/run_user_commands.go`, `cli/setup.go`, `lifecycle/hooks.go`, `lifecycle/dotfiles.go`) | four marker files and a dotfiles marker in the container's HOME; the container's creation and start times | `up`, `set-up`, `run-user-commands`: inspect, resolve HOME, ask four markers, run the phases | all markers are written before any hook runs; each marker script is read, compare, truncate, print; a client may die, a container restart or be recreated between any two steps; parallel commands | a hook is begun at most once for a creation or start; a full run left every hook begun; every run ends |
| Feature order (`features/graph.go`, `features/order.go`) | worklist, nodes, priorities, rounds | resolve dependencies, apply overrides, prune soft edges, order by rounds | cycles, duplicates under several tags and options, references that meet nothing | dependencies first, everything once, "circular" only for a cycle, overrides honoured, termination |
| Feature staging (`cli/feature_install.go`, `features/resolve.go`, `imagemeta/extend.go`) | the features folder of a build, the image's layers and label | fetch into `.stage-n`, rename by order, write options, build | two orders of the same folders; sources that move between two looks at them; pins | a layer installs what was resolved for its place |
| `features test` (`cli/features_test_runner.go`) | temporary projects, containers with a test label | tests and scenarios per folder, report, cleanup | failing disks, ups and scripts; cleanup by a label other runs share | exit 0 only if every selected test succeeded in its own container; no folder left behind that could be removed |
| Container removal (`docker/engine.go`) | the daemon's container, an event subscription, a timer | `RemoveContainer` with its retries | the daemon is already removing; the event may come before the subscription; the stream may end; the context may be cancelled | nil means gone; every call returns |
| Containers of a workspace (`cli/up.go`, `cli/stop.go`, `cli/exec.go`, `cli/container_lookup.go`, `cli/disallowed.go`) | the daemon's containers with their labels | `up`, `stop`, `down`, `exec` | lookups and inspections that fail, ups that die between create and start, user code between lookup and use, a fallback to the folder's label | one container per configuration; `up` reports one that runs; `down` leaves none; `up` touches its own only |
| Compose projects (`cli/compose_up.go`, `cli/compose_override.go`, `docker/compose.go`) | the service's container, its images, the persisted override files | up, build, restore, start | some override files are gone; a stopped service is started again; edits in between; metadata on the image or on the container | a found container is started with the files it was made with, or all new ones, and kept; a new one matches its configuration |
| Image builds (`cli/build.go`, `cli/feature_install.go`, `docker/updateuid.go`) | the daemon's images by name | build, extend with Features, user id update, push and output | an image passes through tags that other builds overwrite; `--cache-image`; two builds of which one exports; inspections that fail and are ignored | a container runs its own Features, its label describes it, what is exported is complete |
| Remote user, environment and inspection (`imagemeta/merge.go`, `cli/exec.go`, `cli/read_configuration.go`, `cli/image_build_info.go`, `lifecycle/probe.go`) | the container's label, the local image, a cache file per probe strategy | merge metadata, choose the user, probe, cache, report; inspect locally, in the registry, pull | every command computes these in its own way, over edits; a Dockerfile may declare metadata of its own; the cache is truncated and printed side by side | commands agree; a report before creation foresees the one after; a cached environment is whole |
| Workspace folder (`config/loader.go`, `config/varsub.go`, `cli/up.go`, `cli/exec.go`) | `.git` folders and files, configurations, mounts | discover, override, substitute, compute mount and folder | worktrees with relative gitdirs, several configurations and flags, substitution in two phases | the folder a command runs in is the mounted workspace, and a worktree's gitdir leads to its repository |
| Publishing (`cli/collection_commands.go`, `oci/push.go`, `oci/client.go`) | the tags of every repository, the collection's metadata | `features publish`, `templates publish` | tags are pushed one by one from an old listing; a tag may be refused, an item fail, the process be killed; two publishes overlap | floating tags name the highest version; versions are not replaced; the metadata lists only what is there |
| Packaging and applying Templates (`cli/collection_package.go`, `templates/apply.go`) | the output folder, archives, the extraction folder, the workspace | `package`, `templates apply` | items that fail midway; archives named by folder and listed by id; optional paths that are rewritten; the tag moves between manifest and archive | a package lists what it archived; an apply writes what author and user meant |
| Registry authentication (`oci/auth.go`, `oci/authpolicy.go`, `cli/build_auth.go`) | tokens and diagnostics of a run, the docker configuration of a build | challenges, token requests, redirects; credentials by source | token services elsewhere, redirects, helpers that fail, hardening that is only measured | diagnostics foresee hardening; a build keeps its user's credentials for what it is handed |
| Feature lockfile (`features/lockfile.go`, `cli/feature_install.go`, `cli/compose_up.go`, `cli/outdated.go`, `cli/features_resolve_deps.go`) | `devcontainer-lock.json` | build (plain, frozen, `--no-lockfile`), resolve, upgrade | tags move while Features are fetched one by one; the file is truncated, then written; two runs overlap | frozen means exactly what is locked; a build keeps its pins and locks what it installed; the file stays readable |
| Control manifest (`features/advisory.go`, `cli/disallowed.go`) | a cache file, its age | ask for the manifest | expired and unreadable caches, failing requests, malformed bodies, several processes on one file | a failure unblocks nothing |
| initializeCommand (`lifecycle/initialize.go`), other reports (`outdated`, `features info`, `doctor`, ...), command line, support packages, maintenance tools | none | run a command on the host; conversions, printing | – | – |

### How they interact

`up` ties them together. It computes the workspace's folder and mount
(WorkspaceFolder), asks the control manifest whether a Feature is
disallowed (ControlManifest), looks for a container and creates or starts it
(Containers, RemoveContainer; ComposeUp for a Compose project), for a new one
orders the Features (FeatureOrder), at the digests of the lockfile (Lockfile), stages
them (FeatureStaging) and extends the image (ImageBuild), reading base images
with the user's credentials (RegistryAuth); it then merges the metadata, chooses
the remote user and probes its environment (RemoteEnv), and ends in the hooks (Lifecycle).
`run-user-commands`, `set-up` and `exec` are other ways into the last two, `build`,
`upgrade` and `features resolve-dependencies` other ways into the middle ones, `features test`
runs all of it in child processes (FeatureTests), and `package` and `publish` produce what builds and
`templates apply` fetch (Templates, Publish). Two processes never call each other: they share the daemon, the
container's HOME, the workspace's files, the user's cache folder and the
registry, and **nothing in the code locks any of these**. So each module's
actors are processes of the CLI over one shared store, and one step is one
access to the store: one call of the daemon, one command of a marker script,
one request to the registry, one system call on a file.

The seams between the modules are the following.

- `Containers` uses `RemoveContainer` as the one step that `Removal` promises;
  `RemoveContainer` is shown to implement `Removal`.
- `Lifecycle` starts with a container that exists, where `Containers` ends an
  `up`; what may happen to that container during the hooks (restart, recreation,
  removal by others) are faults of `Lifecycle`.
- `Containers` takes "is a Feature disallowed?" as part of a request
  (`blocked`); `ControlManifest` says what the answer is worth.
- `Lockfile` fetches Features with their dependencies in any order that is
  reachable; `FeatureOrder` says which order they are then installed in, and
  `FeatureStaging` installs them in any order it is given.
- `ImageBuild` and `ComposeUp` treat an image with Features as one build;
  `FeatureStaging` says what is in its layers. `RemoteEnv` reads the label that
  those two put on the image or the container.
- `Publish` starts from packages, which `Templates` makes.

The hazards, each at its line and with the properties that are about it, are
listed in `PROJECT.json`.

## 2. The modules

| Module | Models | About it |
|---|---|---|
| `Lifecycle` | hooks, markers, dotfiles | `LifecycleProofs`, `MCLifecycle` |
| `FeatureOrder` | graph and order of Features | `FeatureOrderProofs`, `MCFeatureOrder` |
| `FeatureStaging` | the features folder of a build | `FeatureOrderProofs`, `MCFeatureOrder` |
| `FeatureTests` | `features test` | `FeatureOrderProofs`, `MCFeatureOrder` |
| `RemoveContainer` | `EngineClient.RemoveContainer` | `RemoveContainerProofs`, `MCRemoveContainer`; abstract: `Removal` |
| `ComposeUp` | up and build of a Compose project | `RemoveContainerProofs`, `MCRemoveContainer` |
| `ImageBuild` | images of up and build | `ContainersProofs`, `MCRemoveContainer` |
| `RemoteEnv` | merged metadata, remote user, probe, image inspection | `RemoveContainerProofs`, `MCRemoveContainer` |
| `Containers` | up, stop, down, exec on one folder | `ContainersProofs`, `MCContainers` |
| `WorkspaceFolder` | configuration, mounts and folder | `WorkspaceFolderProofs`, `MCContainers` |
| `Publish` | publishing a collection | `PublishProofs`, `MCPublish` |
| `Templates` | packaging and applying | `PublishProofs`, `MCPublish` |
| `RegistryAuth` | authentication to registries | `RegistryAuthProofs`, `MCPublish` |
| `Lockfile` | `devcontainer-lock.json` | `FilesProofs`, `MCFiles` |
| `ControlManifest` | the control manifest's cache | `FilesProofs`, `MCFiles` |

An MC module holds small instances of the modules of one row of commands. They
share a run and nothing else: the variable `part` says which of them a behaviour
is of, and the others do not move in it.

An operator whose comment begins with "Bug:" is no part of the system: it is
what a definition would be after a plausible mistake, and `PROJECT.json` says
which property notices it.

### Lifecycle

One container, any number of clients. `pc`, `opt` and `at` say where a client
is: inspecting the container for its creation and start times (`knows`),
resolving HOME, asking the marker of one of the four marked hooks, or in a
phase. Asking follows the shell script of `applyLifecycleMarkers` step by
step: it reads the marker, compares, truncates it, prints the timestamp; the
client then learns "granted", "dropped", or that the script could not be run,
which drops the hook like a hook that has run (`up.go:1399`). A phase runs
the commands of every Feature and of the configuration, an object's parts in
parallel, and waits for all of them before it fails. The environment can kill
a client at any step, fail an exec or an inspection, restart the container,
or recreate it, with HOME (a volume) or without. Timestamps are the number of
creations and starts: the code only compares them for equality.

What a user sees of the markers is `begun`, the timestamps each hook was begun
for, in order. `raced` remembers whether two clients have both tested the marker of a hook
before either truncated it, which nothing in the scripts prevents.

### FeatureOrder

One goroutine, from the configuration's references to an order or an error.
A node is a reference: a Feature with its options. How options compare and
names match is left to three parameters: `Same` (`nodesEqual`), `Satisfies`
(`nodeSatisfiesSoftDep`, with legacy ids) and `Rank` (the sort key among
equals). `Same` is assumed reflexive and symmetric but *not* transitive, because
the comparison of option values of different types in `order.go` is not. The
actions are the worklist's step (a duplicate, a new node, a reference that
cannot be processed), an override's step, pruning of soft edges nothing meets,
and one round of the order: the Features that can be installed, of them those of
the highest priority.

### RemoveContainer and Removal

A call sends a request; when the daemon is busy with a removal somebody else
asked for, it subscribes to events and waits for the destroy event, the end of
the stream, one second, or the cancellation of its context, and tries again, up
to `maxRetries` times. The daemon and any other client are part of the model.
`Removal` promises the callers: nil means there is no container; an error
promises nothing.

### Containers

All containers ever made for one workspace folder, in the order of their
creation, each with the label of its configuration (or none, for one of an
older release) and its state. A client serves requests one after the other;
several clients overlap. `up` lists the containers of its configuration (a
failing listing counts as none), removes one for `--remove-existing-container`
(a failing removal is ignored), stops it when the configuration is disallowed,
runs initializeCommand, and then starts the container it found, or builds,
creates and starts one, and inspects it. `stop`, `down` and `exec` look up
`--config` and fall back to the folder. A client can die between any two calls.
An `up` that found a container starts it unless an inspection shows it running, and goes on without a start when
that inspection fails (`up.go:398`), be the container gone or not.
The history variable `calm` remembers whether requests overlapped or a lookup, that inspection, or a
removal or stop that `up` only tries failed.

### Publish

Jobs publish collections, item by item: list the repository's tags, compute
the semantic tags from the listing, upload, push one tag at a time (a refused
tag is a warning), the same for the legacy ids, and last the metadata. A tag is
a sequence of numbers, so `<<1, 2>>` is the tag `1.2`, and an item whose version
reads `1.2` or `1`, which is no semantic version, is a possible input; what the code does
with it is in the model. Blobs are left out: they are
addressed by content.

### Lockfile

Runs of five kinds share the file and the registry, in which tags move. A run
reads the file (missing, blank and garbage are different), fetches what the
configuration asks for and, one after the other, what that depends on, each by
its pin if it has one and by its tag otherwise, then generates the new pins,
compares text with text, fails if frozen, and truncates and writes the file
when it differs. A state of the file that reads as the same pins but is another
text (`"other"`) is told apart, because frozen compares texts. Features given on
the command line are fetched but not locked; local Features are never in the file, and a configuration with none but them is left with an empty one. Two runs that write at once leave
whatever text the system calls leave: that is the state `"garbage"` when
the shorter text lands in the longer.

### ControlManifest

The server, the cache file with its age, and processes that ask: a young cache
is read, an old one or one that cannot be read refetched, on failure the old one is used, if it can be read now, and made young
again, whatever is there by then; a body is written to a temporary file and
renamed. A manifest is the set of Features it disallows.

### FeatureStaging

One build after another over one lockfile, while references are edited, pushed
again or replaced. What a reference names is a version. A build fetches what the
graph asks for, in that order, each into its stage: a local Feature file by file,
an OCI Feature at its pin or tag, a tarball by its URL, and the kinds of
reference that are rewritten or refused. It then takes any order of what it
fetched, renames the stages, removes the rest, writes the options and builds.
A fetch, a rename and a write can fail.

### FeatureTests

Runs of one machine, each over its folders: the automatic test of a Feature, and
the scenarios of its `scenarios.json`, or of `_global`. A test is a temporary
folder, a child `up`, a child `exec`. Containers carry a label that all runs
share; the cleanup removes all of them. A temporary folder is removed on every way out, and the error of that is ignored: a folder that is `stuck` stays. `earned` remembers for which test a
script succeeded in the container made for it.

### ComposeUp

One service. A run finds its container or not; for a found one it looks for the
override files named in the container's label and starts it with these; otherwise
it builds, with a build override that puts Features and metadata on the image
or, for a service without Features, metadata on the container's labels, updates the user id, and writes the
container override with labels, entrypoint and command. Meanwhile others stop
and remove the container, override files get lost and the configuration is edited.

### ImageBuild

Two workspaces and the images of one daemon by name. A command is an up or a
build; the steps are the Dockerfile build, the Features' content image, the
Feature build, the user id build and the run, each of which reads an image by its name and
tags another. The container of a workspace holds the image it was made of and
the entries that are read from it. `trusted` says that the up had what it needs:
it took no image from the cache, or the workspace's own last build.
A pull or an inspection may fail, and every place that ignores it goes on with what it has: the label is then incomplete, or
holds an entry twice. `informed` says whether all of them answered. A Dockerfile may declare
a label of its own, which `build.go:684-690` reads from its text.

### RemoteEnv

One container and the commands on it. The merge of metadata has one property for
each way of merging: the last one set (user, probe), one per key (environment),
all of them (hooks), one per target (mounts), any (init), the largest (cpus).
Each command computes user, probe strategy and environment as its own file does;
`read-configuration` without a container inspects the image, locally, in the registry,
or by five pulls. `StageOf` is what the Dockerfile of a configuration declares in its own label: the container's label has it, the
report before the container has not. The cache of the probed environment is a sequence of cells that
a writer truncates and then prints to at its own offset, so two writers leave
what the system calls leave.

### WorkspaceFolder

Paths are sequences of names. `git` says which host folders have a `.git` and
what it is: a folder, or a file with an absolute or a relative gitdir. Configuration
files hold a `workspaceFolder` with variables of either phase, a `workspaceMount`,
a Compose project, or text that does not parse; `--override-config` merges another one. An up mounts; every later
command computes the folder again, as its own file does. `Shows` follows a path
of the container through the mounts to the host.

### Templates

Packaging goes through the items in name order, completes the metadata of each
(among it the optional paths, of which one that matches a single file is
replaced by that file; the files are found by the beginning of their path) and archives it under the name of its folder, or of its id when it is single; the collection file is written from the metadata the run gathered,
by id. Publishing is one step, which looks the archive up by an id that is listed and makes it, with the listed metadata, what the tag
names. An apply fetches the manifest, then the archive, extracts it, leaves out
optional paths, substitutes options, writes file by file into the workspace, and
adds Features to the configuration there is then.

### RegistryAuth

The same command twice against the same world, without hardening ("soft") and
with it ("hard"), so that what the first records can be held against what the
second meets; and the docker build the command starts. A build touches the images `bridgeBuildAuth` is `handed` (one base image,
the tags, the caches) and those of the Dockerfile's other `stages`. A world says how each
registry challenges, how its token service answers, and where the user keeps
credentials. The registry client and the docker CLI are external: they
are modelled as the code relies on them.

## 3. The runs

Every run is complete: TLC exhausts the instance. "Deadlock not checked" in a
`.cfg` stands where the system really stops: all jobs or commands have ended.

| Run | Properties | Shows |
|---|---|---|
| `lifecycle_sequential` | CompleteRunRanAll, OncePerStamp, EveryRunEnds | two runs one after the other, with kills, failing execs and inspections, restarts and recreations, over hooks with parallel, empty and missing commands |
| `lifecycle_concurrent` | MarkersHonest, MarkersAgree, OnceUnlessRaced | two clients that overlap, three runs, two starts, recreations that keep HOME |
| `lifecycle_dropped` | DroppedHadRun | violation, section 6 |
| `feature_order` | FeatureOrder: DependenciesFirst, CompleteOnce, CircularIsReal, OverrideHonoured, Terminates; FeatureStaging: LayersAsResolved; FeatureTests: VerdictEarned | 24 576 combinations of edges, configurations, overrides and broken references over five references of three Features; two builds whose sources move; two overlapping test runs, with folders that cannot be removed |
| `remove_container` | RemoveContainer: SuccessMeansGone, EveryCallReturns, PromiseSpec; ComposeUp: ContainerMatchesConfig, OverridesOfOneRun, FoundServiceKept; ImageBuild: RunsOwnBuild, ExportsComplete; RemoteEnv: CommandsAgree, ReportForesees, ProbedEnvWhole | two calls and another client, all faults; two Compose commands of four services; two commands of two workspaces, with pulls and inspections that fail; three commands on one container, with and without metadata in the Dockerfile, and three probes side by side |
| `containers` | Containers: OnePerConfig, UpReportsRunning, DownLeavesNothing, UpTouchesOwn; WorkspaceFolder: WorkspaceIsMounted | four requests of two clients, sequential and overlapping, all faults; two commands over five repositories, six documents and five sets of flags, with a change between them |
| `containers_fallback` | ConfigFindsItsOwn | violation, section 6 |
| `publish` | Publish: FloatsHighest, CollectionIsBacked, ImmutableVersions; Templates: PackageIsWhole, AppliedAsMeant; RegistryAuth: DiagnosticsForesee, BuildKeepsCredentials | three jobs, two at a time, one refused tag, failing request or kill; two packages and two applies; a command of three requests, and its build of one stage or several, in 1440 worlds |
| `publish_partial`, `publish_hub`, `publish_narrowed` | FloatsNeverGoBack, AmbientAuthApplies, LeftOutIsOptional | violations, section 6 |
| `files` | Lockfile: FrozenIsLocked, BuildKeepsPins, StaysReadable; ControlManifest: KeepsBlocking | three runs on one lockfile, two at a time; two processes on one cache |

### Bounds, and why they are enough

- **Lifecycle**: `MaxRuns = 2` (3 when clients overlap) and `MaxStarts = 2`. A
  marker relates one run to the one before it, and a restart or recreation to
  the timestamp before it; a third run over two stamps repeats a pair. The
  commands have what the code tells apart: a list of two commands, an object of
  two parts, an object without parts, none. `Faults` selects the environment:
  all of them in the sequential run except "home", and "home" with "recreate" in
  the concurrent one, where the markers outlive the container only if HOME does.
- **FeatureOrder**: the graphs have a Feature under two sets of options, one
  under two tags of one digest, one with a legacy name, cycles of length one to
  three, soft edges to nodes outside the graph, overrides that agree and that
  conflict with dependencies, and a reference that cannot be processed. The proofs carry the safety
  properties to all graphs.
- **FeatureStaging**: one reference of each kind that takes a way of its own; `MaxFetches = 2` is the
  least with which an order can differ from the order of fetching, `MaxBuilds = 2` with which a build meets a
  lockfile of another, `MaxVersion = 2` with which what it pins is not the newest.
- **FeatureTests**: two Features and `_global`, tests with and without scripts and a `scenarios.json` that
  does not parse. A run that cleans up matters to another one in two places: while it is at
  a script, and when it cleans up itself; the second run moves only there.
- **RemoveContainer**: `maxRetries = 7` is the code's own value.
- **ComposeUp**: services with each combination that takes another way (image or build, Features or not, host user
  or not, own entrypoint, command, `overrideCommand`); two runs are a first and one that finds what it left, with an edit,
  a loss and an intruder between them.
- **ImageBuild**: two workspaces, of which one can overwrite the tags of the other; a second command is the least that
  meets the first one's tags.
- **RemoteEnv**: two clients, three commands, one edit: any pair of commands is compared before and after an edit, with a third,
  the `up` or `read-configuration`, before them. The configurations say something about every way of merging that the base image's
  label says otherwise. `PullAttempts` is 2 for the code's 5; nothing depends on the number. Side by
  side, the commands are those that only read the container and its cache.
- **Containers**: two configurations, so that one can be mistaken for another;
  two containers at first, of an older release and of a configuration; two
  clients; `MaxRequests = 4` lets a leftover of one request (a container that was
  never started) meet an up, and that one a down, with a fourth beside them.
- **WorkspaceFolder**: the workspace is a package four names deep, below no repository, two nested
  ones, or a worktree with a relative or absolute gitdir that leads to a sibling, out of the mounted
  folder, or into another tree; the first command makes the container and the second meets it.
- **Publish**: three versions in two majors are the least in which a floating tag
  `1` and `latest` differ; three jobs let a third meet what two left behind;
  `MaxActive = 2` and `MaxFaults = 1` are the least with an overlap and a fault.
- **Templates**: two items, so that one can fail after the other; optional paths that are a folder, a folder of one file,
  the beginning of another file's name with and without files of its own; an item whose id is not its folder's name but a name of its own or the other item's; two packages, because the second cleans up after the first, and two applies,
  because the second finds the first one's files.
- **RegistryAuth**: two registries asked in turn, the first a second time with its token kept; every combination of challenge,
  token service, redirect and refusal for it, and of the places credentials can be in for four users, and three builds: of Docker Hub and a registry, of a registry and two more in
  other stages, and of two registries.
- **Lockfile**, **ControlManifest**: three ids, one of them a tarball and one a dependency that appears
  only in a later version; two digests; `MaxMoves = 1`, `MaxFaults = 1`,
  `MaxActive = 2`: a pin is wrong as soon as one tag moved once. The file may
  be anything at first, so a longer history adds nothing but overlaps. For the
  manifest: two processes, two failures of requests, reads and writes, one change.

The MC modules restrict the instances further where two choices have nothing to do with each other, and
say so: which of the commands of `RemoteEnv` run side by side, when the author of a Template edits, or which world
a part that does not move starts in.

### What the properties are about

- `OncePerStamp`: a hook that its marker lets run is begun at most
  once for a creation or start, through kills, restarts and failing scripts.
  It is stated of clients that do not overlap. `OnceUnlessRaced` is about clients that do: of the hooks of a creation none is begun
  twice for it, unless two clients tested its marker before either had truncated it (`raced`). That race is the
  code's, and the marker does not close it; the property says that there is no other way, by a crash, a restart, a stale
  timestamp or a marker of an earlier creation.
- `CompleteRunRanAll` and `MarkersHonest` are the other side: nothing that a
  marker claims is missing, unless some run was cut short. The exception is
  real (section 6).
- `MarkersAgree`: no run gets some of the three hooks of a creation, so updateContent
  never runs without onCreate.
- `LayersAsResolved`: what is installed in a place of the image, by scripts, metadata and options, is what was resolved for that place,
  at the version the lockfile pinned when the build began. The scripts of a local Feature may be of a later edit than its metadata.
- `VerdictEarned`: exit 0 means that every test the command line selects succeeded in the container made for it, whatever other runs
  removed, and a folder a run leaves is one it tried to remove and could not.
- `ContainerMatchesConfig` is about a service an `up` made anew (`clean`); `OverridesOfOneRun` and `FoundServiceKept` about all.
- `RunsOwnBuild` is about a container whose up had what it needs (`trusted`), and where a pull or an inspection failed (not `informed`) about the Features and the last entry only; `ExportsComplete` about everything that is
  pushed or written out. Both are checked for commands of the two workspaces that do not overlap: the tags are shared, and overlapping
  builds of one base image may take each other's.
- `CommandsAgree` compares commands that read the same revision of the configuration on the same container; `ReportForesees` the report
  of `read-configuration` before the container with the one after it, of configurations whose Dockerfile declares no metadata of its own (the code does not foresee that); `ProbedEnvWhole` says that no command uses half of an environment, or one of another strategy.
- `WorkspaceIsMounted` is about a command given the flags of the up that made the container, and a folder without `${devcontainerId}`; section 6 says why. A configuration with a folder and a mount of its own is `Coherent` when it mounts the workspace at
  `${containerWorkspaceFolder}` and does not use that variable in the folder it stands for, which the code would leave in it.
- `FrozenIsLocked`, `BuildKeepsPins` speak of runs during which no other run was
  active (`alone`); tags may move all the while. `StaysReadable` needs that runs
  never overlapped (`calm`).
- `KeepsBlocking`: of a process that no other disturbed, an answer is the manifest
  that was cached when it asked, if it could be read, or one the server had since. Once
  a malformed body was received (`spoilt`) the code may answer with an empty
  manifest, and the property says nothing.
- `OnePerConfig`, `UpReportsRunning`, `DownLeavesNothing` hold
  while all is `calm`; `UpTouchesOwn` always. After a failed inspection (`up.go:398`) an `up` reports success for a container that is stopped.
- `FloatsHighest` needs jobs that do not overlap, are not killed amid their tags
  and are refused none; `ImmutableVersions` only the first; `CollectionIsBacked`
  none of the three, but for a version whose own tag was refused.
- `PackageIsWhole`: what the collection file lists are the items of the archives beside it, as they are in them. Publishing looks an
  archive up by id, so only an item that is single, or in a folder named by its id, is sure to be found.
- `AppliedAsMeant`: an optional path is what the author wrote, although the package rewrites it and the apply reads it as a beginning; but for one
  that was narrowed to a file outside of its folder (`LeftOutIsOptional`, section 6) and an archive published with another item's metadata. It is not
  about a `--tmp-dir` that was used before: what an earlier apply left in it is applied again.
- `DiagnosticsForesee` compares a run with and without hardening, request by request, kept tokens included. `BuildKeepsCredentials`
  compares the docker configuration of a build with the user's own, for the registries it is handed but Docker Hub; what it touches
  beside these is `AmbientAuthApplies` (section 6).

The history variables and fields (`calm`, `alone`, `undisturbed`, `cutShort`, `spoilt`,
`whole`, `lost`, `raced`, `trusted`, `informed`, `clean`, `earned`, `stuck`) are written by the actions and read by no guard: they state
under which conditions the code keeps a promise, and do not restrict it.

## 4. Fairness

`Lifecycle`: weak fairness on each client's own steps. A process that has begun
a run is scheduled, an exec returns or fails, and the commands a user configured are
taken to end. Starting runs, faults, restarts and recreations are not fair.
`FeatureOrder`: weak fairness of `Next`; it is one goroutine without I/O it could
wait for. `RemoveContainer`: weak fairness of each call's own steps, its timer
among them, and of the daemon's answers to its requests; *not* of the end of a removal somebody else
asked for, which is why `EveryCallReturns` says something. The other modules
state no liveness and assume no fairness: their commands make a bounded number of
requests, and whether one of those returns is a matter of the network.

## 5. The proofs

TLAPS checks these theorems for every value of the constants under the named
assumptions of the modules. These say that the constants have their types
(`ServicesAssumption`, `EntriesAssumption`, `StagesAssumption`, `KindsAssumption`, `SetupsAssumption`, `StagingAssumption`, ...), that
`MaxStarts`, `maxRetries` and `PullAttempts` are positive, that `NoConfig` is no configuration and
`Other` no remover, that the references of a graph are finitely many, that `Same`
is reflexive and symmetric, that the images of registries, those of the folders and the image of the Features' content have names apart
(`NamesAssumption`: `vsc-<folder>-<hash>` and `dev_container_feature_content_temp`),
that a Template has finitely many files, its optional paths are pairs, and the folders of a collection have names apart (`TemplatesAssumption`),
that `_global` is no Feature, and that no registry of `RegistryAuth` is Docker Hub. `ControlManifest` assumes nothing.
`FolderAssumption` says what `WorkspaceFolder` is given: the workspace is not the root of the file system, which has no `.git` either, and
none of its folders is called like a variable; a configuration has at most one `workspaceMount`; and a relative gitdir is one git
writes (`Shortest`): up to where the two paths part, and from there down by two names at least (`worktrees/<name>`). The code counts on the last
when it goes back up by two (`config/loader.go:504`).

| Module | About | Theorem | States |
|---|---|---|---|
| LifecycleProofs | Lifecycle | TypeCorrect | `Spec => []TypeOK` |
| | | HookBegunOncePerStamp | `~Concurrent => (Spec => []OncePerStamp)` |
| | | OverlappingRunsOnce | `Spec => []OnceUnlessRaced` |
| | | CompleteRunsRanAll | `~Concurrent => (Spec => []CompleteRunRanAll)` |
| | | MarkersAreHonest | `Spec => []MarkersHonest` |
| | | CreationMarkersAgree | `Faults \subseteq {"home", "inspect", "recreate"} => (Spec => []MarkersAgree)` |
| FeatureOrderProofs | FeatureOrder | TypeCorrect, Inductive | `[]TypeOK`, `[]IInv` |
| | | DependenciesInstalledFirst | `[]DependenciesFirst` |
| | | EverythingInstalledOnce | `[]CompleteOnce` |
| | | ReportedCyclesAreReal | `[]CircularIsReal` |
| | | OverridesAreHonoured | `[]OverrideHonoured` |
| | FeatureStaging | LayersInstallTheResolved | `[]LayersAsResolved` |
| | FeatureTests | VerdictsAreEarned | `[]VerdictEarned` |
| RemoveContainerProofs | RemoveContainer | TypeCorrect, NilMeansGone | `[]TypeOK`, `[]SuccessMeansGone` |
| | | ImplementsPromise | `Spec => PromiseSpec` |
| | ComposeUp | ComposeFilesOfOneRun | `ComposeSpec => []OverridesOfOneRun` |
| | | ComposeKeepsFound | `ComposeSpec => FoundServiceKept` |
| | | ComposeMatches | `ComposeSpec => []ContainerMatchesConfig` |
| | RemoteEnv | CommandsSeeTheSame | `EnvSpec => []CommandsAgree` |
| | | ReportsForesee | `EnvSpec => []ReportForesees` |
| | | ProbesAreWhole | `EnvSpec => []ProbedEnvWhole` |
| ContainersProofs | Containers | TypeCorrect | `[]TypeOK` |
| | | ExpectNeverCreates, UpStaysInItsConfig | `ExpectMakesNothing`, `UpTouchesOwn` |
| | | OneContainerPerConfig | `[]OnePerConfig` |
| | | UpReportsTheOneRunning, DownRemovesAll | `UpReportsRunning`, `DownLeavesNothing` |
| | ImageBuild | ContainersRunTheirBuild | `~Concurrent => (BuildSpec => []RunsOwnBuild)` |
| | | ExportsAreWhole | `BuildSpec => []ExportsComplete` |
| WorkspaceFolderProofs | WorkspaceFolder | WorkspaceMounted | `FolderSpec => []WorkspaceIsMounted` |
| PublishProofs | Publish | CollectionBacked, VersionsImmutable | `[]CollectionIsBacked`, `ImmutableVersions` |
| | | FloatsAreHighest | `[]FloatsHighest` |
| | Templates | PackagesAreWhole | `TemplatesSpec => []PackageIsWhole` |
| | | AppliesAreMeant | `CollectionType = "template" => (TemplatesSpec => []AppliedAsMeant)` |
| RegistryAuthProofs | RegistryAuth | DiagnosticsForeseen, CredentialsKept | `[]DiagnosticsForesee`, `[]BuildKeepsCredentials` |
| FilesProofs | Lockfile | FrozenLocked, BuildPinned, Readable | `FrozenIsLocked`, `BuildKeepsPins`, `StaysReadable` |
| | ControlManifest | TypeCorrect, KeptBlocking, NeverHalf | `[]ManifestTypeOK`, `[]KeepsBlocking`, `[]NeverPartial` |

`ExpectMakesNothing` (an up with `--expect-existing-container` makes nothing), `NeverPartial` (nobody reads half of the
manifest's cache) and the type invariants are proved and not checked by a run: the proof says more than an instance would.

Five theorems have a hypothesis, and each is where the code stops keeping the promise:

- `~Concurrent` (`HookBegunOncePerStamp`, `CompleteRunsRanAll`): two clients that overlap can both read a
  marker before either writes it, and both begin the hook, or one of them takes for done a hook the other has yet to begin.
- `~Concurrent` (`ContainersRunTheirBuild`): the tags of a base image with Features, and of the Features' content without BuildKit
  contexts, are shared by all workspaces. The run of this property sets `Concurrent` to `FALSE` for the same reason.
  What is exported does not pass through them, and `ExportsAreWhole` needs no hypothesis.
- `Faults \subseteq {"home", "inspect", "recreate"}` (`CreationMarkersAgree`): a client killed between two markers, an exec that fails,
  or a container restarted while one is written leaves markers of different creations.
- `CollectionType = "template"` (`AppliesAreMeant`): only Templates are applied.

The arguments, each an inductive invariant that is kept by every action (one
lemma or step per action):

- **Lifecycle.** `OncePerStamp` is not inductive: a client that was granted a hook has
  yet to begin it. `IInv` adds that clients are alone (`Solo`), that no marker and
  nothing a client has read is later than the present timestamp (`StampsInv`), that a marker that is
  not truncated is at least every timestamp its hook was begun for (`SpentInv`), what a client in the middle of a
  script knows (`AskInv`), and that a granted hook that was not yet begun has not been begun for its timestamp
  (`AwaitInv`).
  With clients that overlap, `OnceUnlessRaced` rests on `RacedInv`: a client knows the time of the present creation or none (`KnowInv`), and as long
  as nobody raced, at most one client *holds* a hook, is between its test of the marker and its begin; the marker tells how far it is, and while it is held,
  or its marker is neither empty nor of this creation, the hook was begun for earlier creations only (`HeldInv`).
  The other side is `HonestInv`: as long as no run was cut short, whatever a marker claims is *backed*: its hook was begun, some client was
  granted it and is still on its way to it, or the marker is truncated and somebody is about to print it. `RanInv` says the same of a client
  that read the claim: what it asked about was begun or awaits it. `SharedInv` has clients that overlap: whoever asks with timestamps in hand (`Sees`) has settled the
  markers it passed, and the three markers of a creation agree, or are all settled, or somebody is still asking.
- **FeatureOrder.** `GraphInv`: no two nodes are equal, and all that is asked for is a node or in
  the worklist. `OrderInv`: the order and what is left partition the nodes, and what a
  node waits for is what some node meets. A round whose candidates are empty then yields a
  cycle, and an order with nothing left is complete. `PriorityInv` says what the priority of a node is while the overrides are
  applied from the last to the first: the place of the first entry of those applied so far that it meets. `RoundsInv` says that
  what is left was held back in every round that took something of a lower priority, which speaks of Features that are in no round yet:
  without it `OverrideHonoured` is not inductive.
- **FeatureStaging.** `StagingInv` follows a Feature: what is fetched lies whole in its stage, is what its reference was resolved
  to and at its pin (`InStages`); between two renames each is in one of the two places (`Halfway`); then it is in its place in
  the order, with its options (`InPlaces`).
- **FeatureTests.** `TestsInv` says for each selected test that it succeeded, or is still owed: waits in the run's list, in
  the folder that is open, or is the one in hand (`Owed`), and that the run has at most the one project it will remove (`OneProject`).
- **RemoveContainer.** A destroy event means the container is gone, a request in flight
  owns the removal, and a call that can still try has tries left.
- **ComposeUp.** `FilesInv`: files of two kinds in one hand are of one run, those of a container were written by the run that made it,
  and a persisted file names its run. `MatchInv` says what image and which override each step of a build has in its hand, so that what
  is started at the end is what the configuration asks for (`Fits`).
- **RemoteEnv.** `AgreeInv`: two commands of one revision hold one configuration, a command's user, strategy and variable are what the
  label of the container it inspected and that configuration give, whichever way it computes them (`SameUser`, `SameVar`, about a
  label that is the base image's or one an up wrote). `ForeseenInv` says that there is *one* history of the
  configuration by revisions such that what each command, the container and the last report hold of a revision is what it says; that the two reports are
  the same is then `MergeOfLabel`: to merge an entry's label with the updateable part of the entry is to merge the entry.
  `ProbeInv`: every cell of a cache file is of that file's strategy, and every text that parses is whole.
- **Containers.** `IInv` says that a client's target was made and, for an `up`, is
  of its own configuration. `CalmInv` adds that, as long as all is calm, requests are served one
  at a time and an `up` that is about to create was told, truthfully, that there is nothing. `HeldInv` adds that what an
  `up` reuses, starts or inspects is still its configuration's, and that a `down` that is about to remove has all there is in its hand.
- **ImageBuild.** `BuildInv` says, for the one command that is not over, what the daemon has under the name it will use next
  (`FirstInv` before the Features, `LastInv` after them) and what the flags allow (`FlagsInv`), that an image once built for a workspace under a
  name of its own is still there (`KeptBuild`), and what is in the container (`OwnBuild`). Commands of
  other workspaces change the shared tags in between, and nothing that is under them then counts. `WayInv` has
  commands that overlap: what each still builds upon (`Along`) is the image of its base, whatever the others write, for a tag that
  it builds upon is written by nobody else but to pull that same base (`OwnNames`).
- **WorkspaceFolder.** `FolderInv` says that a container is what its up computed of what it read (`MadeByUp`), and that the last command's folder
  is what that command computes (`Reported`). That these fit is a fact about the computations (`CoherentIsMounted`), for paths of any
  length. `Walk` and `Substitute` go name by name; what they make of a path is shown by induction over its length (`Climbs`, `Descends`,
  `SubstituteIn`, `SubstituteNone`). From it follow where a gitdir leads (`GitdirLeads`), that the names the code keeps of the host's path
  (`Segments`) reach up to where the gitdir turns (`SegmentsSuffice`), so that the same gitdir leads to the same place below `/workspaces` as
  below the folder the host's paths share (`RemapKeepsTree`), and that mounts which keep one tree show it, whichever of them is the innermost (`ShowsTree`).
- **Publish.** A job's place in its collection, that all items before it are backed, and
  that what it has yet to push holds at most its own full version, once. `FloatInv` adds that a repository nobody pushes to is settled
  (each of its floating tags is the highest), and that the one a job pushes to will be, once the tags in its queue are there (`Halfway`).
- **Templates.** `PackInv`: what is archived, and what a tag has ever named, is an archive of an item the author wrote
  (`Shelved`), and as long as no item failed every archive is of an item with a name (`NamedSoFar`), so that the collection file leaves none out.
  `ApplyInv`: until an apply writes, the workspace is as it was found and its tag is one that exists (`Fetching`); what is written is
  what the author and the request make of it (`WrittenSoFar`), and with the Features once it is over (`Merged`).
- **RegistryAuth.** Whether a request succeeds is a function of its registry alone (`OkSoft`, `OkHard`), kept tokens
  or not: a token is only held for a registry that answers (`TokensInv`). `OutcomesInv` says so of the outcomes, and that each
  success of the soft run the hard one would not have is recorded; `AskedInv` says what a challenge that was let through is worth.
- **Lockfile.** A run holds what it fetched by the pins it read (`Holds`), and the file of
  an undisturbed run is what it found until it truncates it (`Finds`).
- **ControlManifest.** The same shape: the cache of an undisturbed process is what it was
  when it asked, and what it has in hand was cached or served since.

So that they can be proved about, `ComposeUp`, `ImageBuild` and `RemoteEnv` say what a sequence holds by sets and
functions on its places, where the code walks along it: the metadata of `ImageBuild` is described by the sequence it must be, the
mounts of `RemoteEnv` are the places that no later one covers.

The library's induction theorems take a predicate as a parameter, which the installed provers cannot instantiate. Where a
proof goes by induction it is stated of sets of numbers instead (`EveryNumber`: a set that has 0, and n + 1 with every n, is
`Nat`), which follows from `WFMin`, and recursive operators are functions on an interval, so that one step is a fact about two neighbours (`Walks`, `Makes`).

Only model-checked: the liveness properties (`EveryRunEnds`, `Terminates`,
`EveryCallReturns`), which TLAPS cannot do under fairness, and the findings of section 6. That `RunsOwnBuild`, `OncePerStamp`, `CompleteRunRanAll` and `MarkersAgree` need their hypotheses is shown by TLC, which
finds counterexamples to them without.

## 6. Where the code and its documentation disagree

- **Dropped hooks that never ran** (`lifecycle_dropped`). All markers are written before the first hook
  runs (`cli/up.go:1332`). When onCreateCommand fails, the next `up` drops the hooks behind
  it, which never ran; the comment at line 1316 says it "drops the hooks a previous run already ran".
- **Fallback to another configuration** (`containers_fallback`). `cli/container_lookup.go:75` falls back to the
  folder's label for any container, so `down --config` of a configuration without a container removes
  another's; `docs/go-only-features.md:127-129` says the fallback is for legacy containers.
- **Floating tags that go back** (`publish_partial`). A refused tag, or a kill between two
  tags, leaves a floating tag on a version that has no tag of its own; the next publish of an older version
  moves the floating tag back, which the comment at `oci/push.go:25-27` excludes.
- **Ambient credentials of a build** (`publish_hub`). As soon as one registry that `bridgeBuildAuth` is handed has credentials, the
  build's `DOCKER_CONFIG` is replaced by one that holds those alone (`cli/build_auth.go:22`). Docker Hub is never handed on, and of a Dockerfile
  one base image only (`cli/build.go:444`, none in `cli/build.go:569` and `cli/feature_install.go:858`), so the credentials the user has for
  Docker Hub and for the registries of other stages are lost to the build. The comments at `cli/build_auth.go:10-14` and `50-51` say that they are
  resolved "for every registry a build touches" and that for Docker Hub "ambient auth already applies". A build still finds public images without them.
- **An optional folder without files** (`publish_narrowed`). `cli/collection_package.go:259` takes the files whose path begins with `d` for those of
  `d/*`. With no file in `d` and one in the root whose name begins with `d`, the optional path becomes that file, and an apply that
  leaves it out leaves the file out; the comment at `cli/collection_package.go:198-199` says that what is narrowed is a `dir/*` "whose folder holds a single file".

Smaller disagreements are in the models, and the properties exempt them:

- `lifecycle/hooks.go:168` compares `waitFor` with the phases it runs, and initializeCommand is none, so
  `--skip-non-blocking-commands` with `waitFor: initializeCommand` runs every hook, where the flag says "Stop after waitFor command." (`Lifecycle.Stops`).
- `exec` takes `--mount-workspace-git-root` and `--mount-git-worktree-common-dir`, loads the configuration with their defaults
  (`cli/exec.go:278`), and leaves `${devcontainerId}` in `workspaceFolder`, which `up` replaces; the comment at `cli/exec.go:342-344` says the command
  runs "in the container's workspace folder". `run-user-commands` does the same (`WorkspaceFolder`; exempt from `WorkspaceIsMounted`).
- `up.go:398` takes a failed inspection for a container that need not be started (`Containers.Reuse`; not `calm`).
- A `LABEL devcontainer.metadata` in the Dockerfile is not in the report before the container (`RemoteEnv.ImageEntries` and `MakeContainer`; exempt
  from `ReportForesees`).
- `package` names the archive of a collection's item by its folder and lists it by its id (`Templates.ArchiveName`; exempt from the last part of `PackageIsWhole`).

## 7. Not modelled

Section 1 names every part; `PROJECT.json` says of each why it is modelled or not. Not in
the models on purpose: the shell and Docker commands themselves, texts and
formats, blobs, the transport of requests and its retries (the oras and Docker
libraries), and clocks: an age is young or old, a timer may fire. Of the modelled parts, left out are

- listings of several pages and prerelease versions in `Publish`;
- the matching of an advisory to a version in `ControlManifest`;
- `upgrade --feature`, which edits the configuration (every run of `Lockfile` chooses its
  configuration freely);
- the reading and merging of Compose files, and which services a project has beside the one of the dev container, in `ComposeUp`;
- the parsing of Dockerfiles, the computation of cache keys and the build's secrets in `ImageBuild`;
- the syntax of references and the conversion of option values in `FeatureStaging`, and the comparison of option values, which
  `FeatureOrder` takes as `Same`;
- the fields of a configuration that are merged as one of the modelled ones, and the validation of all, in `RemoteEnv` and `WorkspaceFolder`;
- which files count as text in `Templates`.

Whole parts that are not modelled: initializeCommand beyond its place in an up, the command line and its output, the
support packages, the maintenance tools, and the reports other than read-configuration. They keep no state, and what could go wrong in them is wording.

The hazards in `PROJECT.json` without a property are the ones nothing in the repository
promises anything about, two ups that overlap both create and failures that are ignored by
design, and the `waitFor` of section 6, of which a property would only repeat the comparison. Three smaller ones are not listed there: a publish that ends between an item and its legacyIds leaves the aliases
behind; the dotfiles' marker is made before their installation; and `optionsCompareTo` calls
option values of different types equal (`Same` is not assumed transitive for that reason).

## 8. What is left

The plan of this project is done: the modules above were its items, in the order of their
importance. Worth having beside them:

1. Proofs: that `Containers` with `RemoveContainer`'s steps in the place of the one step implements `Containers`; type invariants of
   the modules that have none; an abstract specification of `Publish` (a set of versions, with tags that follow) and its refinement.
2. Pure algorithms against reference definitions: the base image and USER over the stages of a Dockerfile, version ranges
   and advisories, the comparison of options, the normalisation of the lockfile.
3. `ImageBuild` with `Concurrent = TRUE`: which of the shared tags overlapping builds take from each other.

## 9. Running it

    tlc -workers 2 -config MCLifecycle_sequential.cfg MCLifecycle
    tlapm LifecycleProofs.tla

and so on with each `.cfg` and the module it is named after, and each `*Proofs` module. A run takes from
seconds to two or three minutes.
