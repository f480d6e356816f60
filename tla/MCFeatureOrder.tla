--------------------------- MODULE MCFeatureOrder ---------------------------
(* Small instances for TLC of what is done with Features: FeatureOrder over *)
(* many graphs, and when the first of them is ordered FeatureStaging or     *)
(* FeatureTests, which have nothing to do with each other.                  *)
(*                                                                          *)
(* FeatureOrder: many graphs over a few references, with cycles, duplicates *)
(* and soft edges to nodes outside it.                                      *)
EXTENDS FeatureOrder, FeatureStaging, FeatureTests, TLC

(* Feature a with two sets of options, Feature b under two tags of the same *)
(* digest, and Feature c.                                                   *)
MCRefs == {"a1", "a2", "b", "btag", "c"}
Resource == [r \in MCRefs |-> CASE r \in {"a1", "a2"} -> "a" [] r \in {"b", "btag"} -> "b" [] OTHER -> "c"]
MCRank == [r \in MCRefs |-> CASE r = "a1" -> 1 [] r = "a2" -> 2 [] r = "b" -> 3 [] r = "btag" -> 4 [] OTHER -> 5]

MCSame == {<<r, s>> \in MCRefs \X MCRefs : r = s \/ {r, s} = {"b", "btag"}}
(* Feature b was once named c: what names b is met by c as well.            *)
MCSatisfies == {<<r, s>> \in MCRefs \X MCRefs : Resource[r] = Resource[s] \/ (r = "c" /\ Resource[s] = "b")}

InRankOrder(S) == SelectSeq(<<"a1", "a2", "b", "btag", "c">>, LAMBDA r : r \in S)

(* Feature b depends on the same under both its tags, and a1 on nothing.    *)
Graph(x, y, z, s, t, users, overrides, broken) ==
  [hard |-> [r \in MCRefs |-> CASE r = "a1" -> << >> [] r = "a2" -> InRankOrder(x)
                                [] r = "c" -> InRankOrder(z) [] OTHER -> InRankOrder(y)],
   soft |-> [r \in MCRefs |-> CASE r = "c" -> t [] r \in {"b", "btag"} -> s [] OTHER -> {}],
   users |-> users, overrides |-> overrides, broken |-> broken]

(* What a2, b and c depend on and b and c install after, the references of  *)
(* the configuration, the order it asks for, and what cannot be processed.  *)
MCInputs ==
  {Graph(x, y, z, s, t, users, overrides, broken) :
     x \in {{}, {"a1"}, {"b"}, {"c"}},
     y \in SUBSET {"a1", "a2", "c"}, z \in SUBSET {"a2", "b", "c"},
     s \in {{}, {"a1"}, {"c"}}, t \in {{}, {"a2", "b"}},
     users \in {<<"a2", "b">>, <<"c", "btag", "b">>},
     overrides \in {<< >>, <<"b", "c">>, <<"c", "a2">>, <<"a1", "b">>},
     broken \in {{}, {"c"}}}

----------------------------------------------------------------------------
(* FeatureStaging: a reference of each kind that takes its own way, the     *)
(* local one with an option of the user's, the others with a plain value.   *)
SomeRefs == {"l", "t", "s", "f", "x"}
SomeKinds == [r \in SomeRefs |->
  CASE r = "l" -> "local" [] r = "t" -> "tarball" [] r = "s" -> "shorthand" [] r = "f" -> "folded"
    [] OTHER -> "outside"]
SomeWanted == [r \in SomeRefs |-> IF r = "l" THEN [string |-> FALSE, options |-> {"level"}]
                                 ELSE [string |-> TRUE, options |-> {}]]
SomeOffers == [r \in SomeRefs |-> IF r = "l" THEN {"level", "version"} ELSE {"version"}]

----------------------------------------------------------------------------
(* FeatureTests: Feature a with a test and three scenarios, of which one     *)
(* names a Feature that is not under src/ and one has no script, Feature b   *)
(* with a file that does not parse, and a scenario of _global.               *)
Everything == [globalOnly |-> FALSE, features |-> {}, skipAuto |-> FALSE, skipScenarios |-> FALSE,
               preserve |-> FALSE, filter |-> {"one", "two"}]
OnlyGlobal == [Everything EXCEPT !.globalOnly = TRUE, !.filter = {"far"}]
SomeOptions ==
  {Everything, OnlyGlobal,
   [Everything EXCEPT !.features = {"a"}, !.skipScenarios = TRUE, !.preserve = TRUE],
   [Everything EXCEPT !.features = {"a"}, !.skipAuto = TRUE, !.filter = {"two", "bare"}]}
SomeScenarios == "a" :> {"one", "two", "bare"} @@ "b" :> {} @@ "_global" :> {"far"}
SomeUses == "one" :> {"a"} @@ "two" :> {"z"} @@ "bare" :> {} @@ "far" :> {"a"}
SomeScripts == {<<"a", "test.sh">>, <<"a", "one">>, <<"a", "two">>, <<"_global", "far">>}

(* The second run has one scenario; it moves while the first is at a script *)
(* or at its cleanup.  Two errors in all.                                   *)
Errors == Cardinality({x \in run[1].results \cup run[2].results : x.status = "error"})
SomeTests ==
  /\ TestsNext /\ Errors' <= 2
  /\ run[2]' # run[2] => run[1].pc \in {"auto test", "scenario up", "clean", "done"}

----------------------------------------------------------------------------
VARIABLE part
OneGraph == Graph({}, {}, {}, {}, {}, <<"a2", "b">>, << >>, {})
allVars == <<part, vars, stagingVars, testsVars>>

FeaturesInit ==
  /\ part = "order"
  /\ Init /\ StagingInit /\ TestsInit
  /\ run[2].opts = OnlyGlobal /\ (input # OneGraph => run[1].opts = Everything)

FeaturesNext ==
  \/ part = "order" /\ Next /\ UNCHANGED <<part, stagingVars, testsVars>>
  \/ /\ part = "order" /\ pc \in Outcomes /\ input = OneGraph
     /\ part' = "tests" \/ (part' = "staging" /\ run[1].opts = Everything)
     /\ UNCHANGED <<vars, stagingVars, testsVars>>
  \/ part = "staging" /\ StagingNext /\ UNCHANGED <<part, vars, testsVars>>
  \/ part = "tests" /\ SomeTests /\ UNCHANGED <<part, vars, stagingVars>>

FeaturesSpec == FeaturesInit /\ [][FeaturesNext]_allVars /\ WF_vars(Next)
=============================================================================
