-------------------------- MODULE MCRemoveContainer --------------------------
(* Small instances for TLC of what commands do to containers and images:    *)
(* RemoveContainer, ComposeUp, ImageBuild or RemoteEnv.  They have nothing  *)
(* to do with each other: a behaviour is one of them.                       *)
EXTENDS RemoveContainer, ComposeUp, ImageBuild, RemoteEnv, TLC

----------------------------------------------------------------------------
(* ComposeUp: a service of an image with Features, with Features and a host *)
(* user, of a build, and of neither, with a command line of its own or not. *)
Service(build, features, uid, e, c, override) ==
  [build |-> build, features |-> features, uid |-> uid, entrypoint |-> e, command |-> c,
   override |-> override]
SomeServices ==
  {Service(FALSE, FALSE, TRUE, Unset, Unset, FALSE), Service(FALSE, TRUE, FALSE, <<"service">>, Unset, FALSE),
   Service(TRUE, TRUE, TRUE, Unset, <<"service">>, FALSE), Service(TRUE, FALSE, FALSE, Unset, <<>>, TRUE)}

(* ImageBuild: two workspaces, one base with a label and one without.       *)
C(dockerfile, features, uid, base) ==
  [dockerfile |-> dockerfile, features |-> features, label |-> dockerfile, uid |-> uid, base |-> base]
Folder(here, there) == "here" :> here @@ "there" :> there
SomeSetups ==
  {Folder(C(FALSE, TRUE, FALSE, "plain"), C(FALSE, TRUE, TRUE, "plain")),
   Folder(C(TRUE, TRUE, FALSE, "labelled"), C(FALSE, FALSE, TRUE, "plain")),
   Folder(C(TRUE, FALSE, TRUE, "labelled"), C(FALSE, FALSE, FALSE, "labelled"))}

(* RemoteEnv: a configuration with nothing, one that overrules what the     *)
(* base image says, and one without a probe, whose Dockerfile says more.    *)
SomeConfs ==
  {[Empty EXCEPT !.probe = "loginShell"],
   [Empty EXCEPT !.user = "vscode", !.remote = "a", !.hooks = <<"make">>,
                 !.mounts = <<[target |-> "/data", source |-> "mine"]>>],
   [Empty EXCEPT !.user = "vscode", !.probe = "none", !.cpus = 2]}
SomeBase == <<[Empty EXCEPT !.user = "node", !.remote = "b", !.hooks = <<"base">>,
                            !.mounts = <<[target |-> "/data", source |-> "theirs"]>>, !.cpus = 4]>>
SomeStages ==
  [e \in SomeConfs |-> IF e.cpus = 0 THEN <<>> ELSE <<[Empty EXCEPT !.user = "stage", !.hooks = <<"stage">>]>>]
SomeFeature == <<[Empty EXCEPT !.hooks = <<"feature">>, !.init = TRUE]>>

----------------------------------------------------------------------------
VARIABLE part  \* which of them; RemoteEnv's commands one by one, or its probes side by side
allVars == <<part, vars, composeVars, buildVars, envVars>>
First(S) == CHOOSE x \in S : TRUE

MadeInit ==
  /\ part \in {"remove", "compose", "image", "commands", "probes"}
  /\ Init /\ ComposeInit /\ BuildInit /\ EnvInit
  /\ part # "compose" => composeConf.says = First(Services)
  /\ part # "image" => setup = First(Setups)
  /\ part \notin {"commands", "probes"} => envConf.entry = First(Confs)

Busy == {t \in Tasks : ~Resting(t)}
OneByOne ==
  /\ Cardinality(Busy') <= 1
  /\ Busy # {} => UNCHANGED <<envConf, ctr>> \/ \E t \in Tasks : MakeContainer(t)
  /\ \A t \in Tasks : /\ ~task'[t].folder /\ task'[t].pc # "failed"
                      /\ t \in Busy' => (t = "t1") = (tasks' % 2 = 1)
SideBySide ==
  /\ UNCHANGED envConf
  /\ \A t \in Tasks : /\ task'[t].kind \in {"read", "hooks", "exec"}
                      /\ task'[t].pc \notin {"registry", "report", "pull"}

MadeNext ==
  \/ part = "remove" /\ Next /\ UNCHANGED <<part, composeVars, buildVars, envVars>>
  \/ part = "compose" /\ ComposeNext /\ UNCHANGED <<part, vars, buildVars, envVars>>
  \/ part = "image" /\ BuildNext /\ UNCHANGED <<part, vars, composeVars, envVars>>
  \/ /\ part \in {"commands", "probes"} /\ EnvNext
     /\ IF part = "commands" THEN OneByOne ELSE SideBySide
     /\ UNCHANGED <<part, vars, composeVars, buildVars>>

MadeSpec == MadeInit /\ [][MadeNext]_allVars /\ Fairness
=============================================================================
