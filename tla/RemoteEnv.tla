----------------------------- MODULE RemoteEnv -----------------------------
(***************************************************************************)
(* What the commands make of one container: its metadata merged with the   *)
(* configuration of the moment, the remote user, the probed environment    *)
(* (src/internal/imagemeta/merge.go, cli/metadata_label.go, exec.go,       *)
(* run_user_commands.go, setup.go, up.go, read_configuration.go,           *)
(* image_build_info.go, lifecycle/probe.go, shell.go).                     *)
(*                                                                         *)
(* Commands overlap; between and during them devcontainer.json is edited   *)
(* and the container is removed.  The probed environment is kept in a file *)
(* in the container, which every command reads, truncates and prints to.   *)
(***************************************************************************)
EXTENDS Integers, Sequences, FiniteSetsExt

CONSTANTS
  Tasks,         \* clients that run commands
  Kinds,         \* commands: a subset of {"up", "setup", "hooks", "exec", "read"}
  Confs,         \* what devcontainer.json may say: entries
  Base,          \* the entries of the base image's label
  StageOf,       \* [conf -> entries]: the LABEL devcontainer.metadata of its Dockerfile
  Feature,       \* the entries of the configuration's Features
  ImageUser,     \* the image's USER
  Long,          \* the users whose environment prints long
  PullAttempts,  \* 5
  MaxTasks,      \* commands
  MaxEdits,      \* edits of the configuration, and containers that are lost
  EnvFaults      \* a subset of {"fail", "registry", "remove", "foreign"}

NotSet == "unset"

(* UserEnvProbeStrategy, "none" aside; an entry of metadata, see Merge.    *)
Strategies == {"loginInteractiveShell", "interactiveShell", "loginShell"}
EntrySpace == [user: STRING, probe: Strategies \cup {"none", NotSet}, remote: STRING \cup {NotSet}, hooks: Seq(STRING),
               mounts: Seq([target: STRING, source: STRING]), init: BOOLEAN, cpus: Nat]

ASSUME EntriesAssumption == Confs \subseteq EntrySpace /\ Base \in Seq(EntrySpace) /\ Feature \in Seq(EntrySpace)
ASSUME StagesAssumption == StageOf \in [Confs -> Seq(EntrySpace)]
ASSUME KindsAssumption == Kinds \subseteq {"up", "setup", "hooks", "exec", "read"}
ASSUME PullAttemptsAssumption == PullAttempts \in Nat \ {0}
ASSUME TasksAssumption == MaxTasks \in Nat /\ MaxEdits \in Nat

VARIABLES
  envConf,   \* the configuration's entry, and its revision
  local,     \* is the base image on the daemon?
  ctr,       \* the container
  envCache,  \* per probe strategy, the cells of the file
  task,      \* the command of each client
  foreseen,  \* the last merged configuration reported without a container
  tasks      \* commands so far

envVars == <<envConf, local, ctr, envCache, task, foreseen, tasks>>

-----------------------------------------------------------------------------
(* imagemeta.MergeConfiguration, one property per way of merging.          *)

Empty == [user |-> NotSet, probe |-> NotSet, remote |-> NotSet, hooks |-> <<>>, mounts |-> <<>>, init |-> FALSE, cpus |-> 0]

(* Scalars and keys of objects: the last entry that sets it.               *)
LastSet(entries, field) ==
  LET setting == {i \in DOMAIN entries : entries[i][field] # NotSet}
  IN  IF setting = {} THEN NotSet ELSE entries[Max(setting)][field]

(* Commands and entrypoints: those of every entry that has some, in its    *)
(* place.                                                                  *)
Collected(entries, field) == [i \in {j \in DOMAIN entries : entries[j][field] # <<>>} |-> entries[i][field]]

(* dedupeMountsByTarget: of the mounts on a target, the last one, in its   *)
(* place: the entry, and the mount of the entry.                           *)
DedupeMounts(entries) ==
  LET mount(p) == entries[p[1]].mounts[p[2]]
      Later(p, q) == q[1] < p[1] \/ (q[1] = p[1] /\ q[2] < p[2])
      places == UNION {{i} \X DOMAIN entries[i].mounts : i \in DOMAIN entries}
  IN  [p \in {x \in places : \A q \in places : Later(q, x) => mount(q).target # mount(x).target} |-> mount(p)]

(* mergeHostRequirements: the greatest.                                    *)
Greatest(entries) == Max({0} \cup {entries[i].cpus : i \in DOMAIN entries})

Merge(entries) ==
  [user   |-> LastSet(entries, "user"),
   probe  |-> LastSet(entries, "probe"),
   remote |-> LastSet(entries, "remote"),
   hooks  |-> Collected(entries, "hooks"),
   mounts |-> DedupeMounts(entries),
   init   |-> \E i \in DOMAIN entries : entries[i].init,
   cpus   |-> Greatest(entries)]

(* configLabelEntry, with --omit-config-remote-env-from-metadata or not.   *)
LabelEntry(entry, omit) == IF omit THEN [entry EXCEPT !.remote = NotSet] ELSE entry

(* Bug: the lifecycle commands are taken for updateable too.               *)
UpdateableWithHooks(entry) ==
  [Empty EXCEPT !.user = entry.user, !.probe = entry.probe, !.remote = entry.remote, !.hooks = entry.hooks]

(* pickUpdateableConfigProperties.                                         *)
Updateable(entry) == [Empty EXCEPT !.user = entry.user, !.probe = entry.probe, !.remote = entry.remote]

(* imageMetadataFromContainer: the container's label, then of the          *)
(* configuration (a sequence of at most one entry) what may have changed,  *)
(* or all of it for a container the CLI has not labelled.                  *)
FromContainer(c, conf, features) ==
  IF conf = <<>> THEN c.label
  ELSE IF c.label # <<>> /\ c.idLabelled THEN c.label \o <<Updateable(conf[1])>>
  ELSE c.label \o features \o conf

-----------------------------------------------------------------------------
(* The remote user: upRemoteUser, setUpContainer, lifecycleRemoteUser,     *)
(* execRemoteUser.  Without any, docker exec takes the container's.        *)
FirstSet(users) ==
  LET given == {i \in DOMAIN users : users[i] # NotSet}
  IN  IF given = {} THEN ImageUser ELSE users[Min(given)]
ConfUser(conf) == IF conf = <<>> THEN NotSet ELSE conf[1].user

(* Bug: exec runs as the container's user when the configuration of the    *)
(* moment names none.                                                      *)
RemoteUserExecUSER(kind, c, conf) ==
  IF kind = "exec" THEN FirstSet(<<ConfUser(conf)>>)
  ELSE FirstSet(<<ConfUser(conf), Merge(c.label).user, Merge(Base).user>>)

RemoteUser(kind, c, conf) ==
  CASE kind = "up"    -> FirstSet(<<ConfUser(conf), Merge(c.label).user, Merge(Base).user>>)
    [] kind = "setup" -> FirstSet(<<Merge(c.label \o conf).user>>)
    [] OTHER          -> FirstSet(<<ConfUser(conf), Merge(FromContainer(c, conf, <<>>)).user>>)

(* execProbeStrategy, lifecycleUserEnvProbe: the configuration's, else the *)
(* flag's.                                                                 *)
Strategy(conf) ==
  IF conf # <<>> /\ conf[1].probe # NotSet THEN conf[1].probe ELSE "loginInteractiveShell"

(* What the variable is set to over the probed environment: hookRemoteEnv, *)
(* lifecycleRemoteEnv; execRemoteEnv, which alone has the metadata's.      *)
RemoteVar(kind, c, conf) ==
  IF kind = "exec" THEN LastSet(FromContainer(c, conf, <<>>) \o conf, "remote")
  ELSE IF conf = <<>> THEN NotSet ELSE conf[1].remote

-----------------------------------------------------------------------------
(* The file of a strategy: an environment is some cells long.              *)
Users == ({ImageUser} \cup {e.user : e \in Confs} \cup {Base[i].user : i \in DOMAIN Base}
            \cup UNION {{StageOf[e][i].user : i \in DOMAIN StageOf[e]} : e \in Confs}) \ {NotSet}
Size(u) == IF u \in Long THEN 2 ELSE 1
Cells(u, s) == [i \in 1..Size(u) |-> [user |-> u, strategy |-> s]]

(* JSON that parses.                                                       *)
Parses(cells) == cells # <<>> /\ cells = [i \in 1..Size(cells[1].user) |-> cells[1]]

(* Bug: any text is taken for an environment.                              *)
ReadEnvCacheAny(s) == envCache[s]

(* readEnvCache: nothing for an empty file or one that does not parse.     *)
ReadEnvCache(s) == IF Parses(envCache[s]) THEN envCache[s] ELSE <<>>

(* Printing to a file another command printed to since it was truncated.   *)
Overwrite(old, new) == new \o SubSeq(old, Len(new) + 1, Len(old))

NoCtr  == [exists |-> FALSE, label |-> <<>>, idLabelled |-> FALSE, rev |-> 0, gen |-> 0]
NoTask == [pc |-> "idle", kind |-> "read", conf |-> <<>>, rev |-> 0, folder |-> FALSE, omit |-> FALSE,
           tries |-> 0, gen |-> 0, user |-> NotSet, strategy |-> "none", probed |-> <<>>, var |-> NotSet, foresaw |-> <<>>,
           merged |-> <<>>]

EnvInit ==
  /\ \E e \in Confs : envConf = [entry |-> e, rev |-> 1]
  /\ local = FALSE
  /\ ctr = NoCtr
  /\ envCache = [s \in Strategies |-> <<>>]
  /\ task = [t \in Tasks |-> NoTask]
  /\ foreseen = [rev |-> 0, merged |-> <<>>]
  /\ tasks = 0

Resting(t) == task[t].pc \in {"idle", "done", "failed"}
In(t, pc)  == task[t].pc = pc
Goes(t, fields) == task' = [task EXCEPT ![t] = [f \in DOMAIN @ |-> IF f \in DOMAIN fields THEN fields[f] ELSE @[f]]]

(* A command starts and loads the configuration, if it is given one.  exec *)
(* and read-configuration have no session folder; up is never without      *)
(* configuration.                                                          *)
BeginTask(t, kind, given, folder, omit) ==
  /\ Resting(t) /\ tasks < MaxTasks
  /\ kind = "up" => given
  /\ kind \in {"exec", "read"} => ~folder
  /\ omit => kind = "up"
  /\ tasks' = tasks + 1
  /\ task' = [task EXCEPT ![t] =
                [NoTask EXCEPT !.pc = "find", !.kind = kind, !.folder = folder, !.omit = omit,
                               !.conf = IF given THEN <<envConf.entry>> ELSE <<>>,
                               !.rev = IF given THEN envConf.rev ELSE 0]]
  /\ UNCHANGED <<envConf, local, ctr, envCache, foreseen>>

(* What the image says that a configuration is built to: its base, what    *)
(* the Dockerfile declares itself, its Features.                           *)
ImageEntries(e) == Base \o StageOf[e] \o Feature

(* An up that finds no container makes one: its label is the image's and   *)
(* the configuration's entry.                                              *)
MakeContainer(t) ==
  /\ In(t, "find") /\ task[t].kind = "up" /\ ~ctr.exists
  /\ local' = TRUE
  /\ ctr' = [exists |-> TRUE, idLabelled |-> TRUE, rev |-> task[t].rev, gen |-> ctr.gen + 1,
             label |-> ImageEntries(task[t].conf[1]) \o <<LabelEntry(task[t].conf[1], task[t].omit)>>]
  /\ UNCHANGED <<envConf, envCache, task, foreseen, tasks>>

(* The container is found and inspected: all that follows is computed from *)
(* this inspection.                                                        *)
InspectContainer(t) ==
  /\ In(t, "find") /\ task[t].kind # "read" /\ ctr.exists
  /\ LET k == task[t]
     IN  Goes(t, [pc |-> IF Strategy(k.conf) = "none" THEN "done" ELSE IF k.folder THEN "cached" ELSE "probe",
                  gen |-> ctr.gen, user |-> RemoteUser(k.kind, ctr, k.conf), strategy |-> Strategy(k.conf),
                  var |-> RemoteVar(k.kind, ctr, k.conf)])
  /\ UNCHANGED <<envConf, local, ctr, envCache, foreseen, tasks>>

NotFound(t) ==
  /\ In(t, "find") /\ task[t].kind \notin {"up", "read"} /\ ~ctr.exists
  /\ task' = [task EXCEPT ![t] = [NoTask EXCEPT !.pc = "failed"]]
  /\ UNCHANGED <<envConf, local, ctr, envCache, foreseen, tasks>>

(* ProbeRemoteEnv: the cached environment, whoever it is of.               *)
UseCachedEnv(t) ==
  /\ In(t, "cached") /\ ctr.exists /\ task[t].gen = ctr.gen
  /\ LET found == ReadEnvCache(task[t].strategy)
     IN  Goes(t, IF found # <<>> THEN [pc |-> "done", probed |-> found] ELSE [pc |-> "probe"])
  /\ UNCHANGED <<envConf, local, ctr, envCache, foreseen, tasks>>

(* The probe; a failing one leaves the environment empty.                  *)
ProbeEnv(t) ==
  /\ In(t, "probe") /\ ctr.exists /\ task[t].gen = ctr.gen
  /\ \/ Goes(t, [pc |-> IF task[t].folder THEN "truncate" ELSE "done",
                 probed |-> Cells(task[t].user, task[t].strategy)])
     \/ "fail" \in EnvFaults /\ Goes(t, [pc |-> "done"])
  /\ UNCHANGED <<envConf, local, ctr, envCache, foreseen, tasks>>

(* writeEnvCache: the shell truncates the file, then prints to it.         *)
TruncateCache(t) ==
  /\ In(t, "truncate") /\ ctr.exists /\ task[t].gen = ctr.gen
  /\ envCache' = [envCache EXCEPT ![task[t].strategy] = <<>>]
  /\ Goes(t, [pc |-> "print"])
  /\ UNCHANGED <<envConf, local, ctr, foreseen, tasks>>

PrintCache(t) ==
  /\ In(t, "print") /\ ctr.exists /\ task[t].gen = ctr.gen
  /\ envCache' = [envCache EXCEPT ![task[t].strategy] = Overwrite(@, task[t].probed)]
  /\ Goes(t, [pc |-> "done"])
  /\ UNCHANGED <<envConf, local, ctr, foreseen, tasks>>

-----------------------------------------------------------------------------
(* read-configuration --include-merged-configuration.                      *)

(* readConfigurationMetadata with a container.                             *)
ReportContainer(t) ==
  /\ In(t, "find") /\ task[t].kind = "read" /\ ctr.exists
  /\ Goes(t, [pc |-> "done", gen |-> ctr.gen, merged |-> Merge(FromContainer(ctr, task[t].conf, <<>>)),
              foresaw |-> IF task[t].rev = foreseen.rev /\ ctr.rev = foreseen.rev THEN foreseen.merged ELSE <<>>])
  /\ UNCHANGED <<envConf, local, ctr, envCache, foreseen, tasks>>

(* Without one: the Features, then the image, of a Dockerfile the one it   *)
(* is built from, which is inspected on the daemon, else in its registry,  *)
(* else pulled.  No configuration names no image.                          *)
InspectImage(t) ==
  /\ In(t, "find") /\ task[t].kind = "read" /\ ~ctr.exists
  /\ Goes(t, [pc |-> IF task[t].conf = <<>> THEN "failed" ELSE IF local THEN "report" ELSE "registry"])
  /\ UNCHANGED <<envConf, local, ctr, envCache, foreseen, tasks>>

InspectInRegistry(t) ==
  /\ In(t, "registry")
  /\ \/ Goes(t, [pc |-> "report"])
     \/ "registry" \in EnvFaults /\ Goes(t, [pc |-> "pull"])
  /\ UNCHANGED <<envConf, local, ctr, envCache, foreseen, tasks>>

PullAgain(t) ==
  /\ In(t, "pull")
  /\ \/ local' = TRUE /\ Goes(t, [pc |-> "report"])
     \/ /\ UNCHANGED local
        /\ Goes(t, [tries |-> task[t].tries + 1,
                    pc |-> IF task[t].tries + 1 = PullAttempts THEN "failed" ELSE "pull"])
  /\ UNCHANGED <<envConf, ctr, envCache, foreseen, tasks>>

ReportImage(t) ==
  /\ In(t, "report")
  /\ LET merged == Merge(Base \o Feature \o task[t].conf)
     IN  /\ foreseen' = [rev |-> task[t].rev, merged |-> merged]
         /\ Goes(t, [pc |-> "done", merged |-> merged])
  /\ UNCHANGED <<envConf, local, ctr, envCache, tasks>>

-----------------------------------------------------------------------------
(* A command is killed or an exec, a request or an inspection fails; what  *)
(* it did to the file stays.  One whose container is gone fails.           *)
TaskFails(t) ==
  /\ ~Resting(t)
  /\ "fail" \in EnvFaults \/ (task[t].gen # 0 /\ ~(ctr.exists /\ task[t].gen = ctr.gen))
  /\ task' = [task EXCEPT ![t] = [NoTask EXCEPT !.pc = "failed"]]
  /\ UNCHANGED <<envConf, local, ctr, envCache, foreseen, tasks>>

EditConf ==
  /\ envConf.rev <= MaxEdits
  /\ \E e \in Confs \ {envConf.entry} : envConf' = [entry |-> e, rev |-> envConf.rev + 1]
  /\ UNCHANGED <<local, ctr, envCache, task, foreseen, tasks>>

RemoveCtr ==
  /\ "remove" \in EnvFaults
  /\ ctr.exists /\ ctr.gen <= MaxEdits
  /\ ctr' = [NoCtr EXCEPT !.gen = ctr.gen]
  /\ envCache' = [s \in Strategies |-> <<>>]
  /\ UNCHANGED <<envConf, local, task, foreseen, tasks>>

(* A container made of the image by hand, which set-up and the commands    *)
(* with --container-id take.                                               *)
RunByHand ==
  /\ "foreign" \in EnvFaults
  /\ ~ctr.exists /\ ctr.gen <= MaxEdits
  /\ ctr' = [exists |-> TRUE, label |-> Base, idLabelled |-> FALSE, rev |-> 0, gen |-> ctr.gen + 1]
  /\ local' = TRUE
  /\ UNCHANGED <<envConf, envCache, task, foreseen, tasks>>

TaskStep(t) ==
  \/ MakeContainer(t) \/ InspectContainer(t) \/ NotFound(t)
  \/ UseCachedEnv(t) \/ ProbeEnv(t) \/ TruncateCache(t) \/ PrintCache(t)
  \/ ReportContainer(t) \/ InspectImage(t) \/ InspectInRegistry(t) \/ PullAgain(t) \/ ReportImage(t)

EnvNext ==
  \/ \E t \in Tasks :
       \/ \E kind \in Kinds, given, folder, omit \in BOOLEAN : BeginTask(t, kind, given, folder, omit)
       \/ TaskStep(t) \/ TaskFails(t)
  \/ EditConf \/ RemoveCtr \/ RunByHand

EnvSpec == EnvInit /\ [][EnvNext]_envVars

-----------------------------------------------------------------------------
(* exec.go execRemoteUser, up.go upRemoteUser, setup.go,                   *)
(* run_user_commands.go: whatever was edited since the container was made, *)
(* the commands that read the same configuration run as the same user,     *)
(* probe in the same way, and see what it sets the variable to.            *)
CommandsAgree ==
  \A t, u \in Tasks :
    LET a == task[t]
        b == task[u]
    IN  a.pc = "done" /\ b.pc = "done" /\ a.gen = b.gen /\ a.gen # 0 /\ a.rev = b.rev
          /\ a.kind # "read" /\ b.kind # "read"
        => /\ a.user = b.user /\ a.strategy = b.strategy
           /\ (a.conf # <<>> /\ a.conf[1].remote # NotSet => a.var = b.var)

(* read_configuration.go: "VS Code calls this before creating the          *)
(* container."  What is reported then is what is reported of the container *)
(* made of that configuration, with remoteEnv in its label or not.  That   *)
(* is so unless its Dockerfile has a LABEL devcontainer.metadata of its    *)
(* own: the build puts it in the container's label, and the report before  *)
(* it reads the base image only.                                           *)
DeclaresNothing(conf) == conf # <<>> /\ StageOf[conf[1]] = <<>>
ReportForesees ==
  \A t \in Tasks :
    task[t].foresaw # <<>> /\ DeclaresNothing(task[t].conf) => task[t].merged = task[t].foresaw

(* lifecycle/probe.go: a probed environment is whole, of one user and the  *)
(* strategy asked for, although the file is truncated, printed over and    *)
(* left half done; and it is the remote user's own when it does not come   *)
(* from the file.                                                          *)
ProbedEnvWhole ==
  \A t \in Tasks :
    LET k == task[t]
    IN  k.pc = "done" /\ k.probed # <<>> =>
          /\ Parses(k.probed) /\ k.probed[1].strategy = k.strategy
          /\ (~k.folder => k.probed[1].user = k.user)
=============================================================================
