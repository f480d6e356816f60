------------------------------ MODULE MCPublish ------------------------------
(* Small instances for TLC of what goes over a registry: Publish, Templates *)
(* or RegistryAuth.  They have nothing to do with each other: a behaviour   *)
(* is one of them.                                                          *)
EXTENDS Publish, Templates, RegistryAuth, TLC

----------------------------------------------------------------------------
(* Publish.                                                                 *)
I(id, version, legacyIds) == [id |-> id, version |-> version, legacyIds |-> legacyIds]

(* One Feature in three versions of two majors, with an alias or without.   *)
Releases == {<<I("go", <<1, 0, 0>>, <<"golang">>)>>, <<I("go", <<1, 1, 0>>, <<>>)>>,
             <<I("go", <<2, 0, 0>>, <<"golang">>)>>}

(* No version and one that reads as a floating tag; ids that name no        *)
(* repository, of an item and of an alias.                                  *)
Odd == {<<I("go", <<>>, <<>>), I("node", <<1, 0, 0>>, <<"Bad id">>)>>,
        <<I("node", <<1, 0, 0>>, <<>>), I("Bad id", <<1, 0, 0>>, <<>>)>>,
        <<I("go", <<1>>, <<>>)>>}

SomeCollections == Releases \cup Odd
JobSymmetry == Permutations(Jobs)

(* One of those comes first and alone.                                      *)
SomePublishes ==
  /\ Next
  /\ \A j \in Jobs : packaged'[j] \in Odd => \A k \in Jobs \ {j} : pc'[k] = "idle"

----------------------------------------------------------------------------
(* Templates: of two items the first is a Template with an option that has  *)
(* a default, or one that has not and of whose two optional paths one holds *)
(* a single file and another of the root begins with its name; or it is not *)
(* complete, or that path has no file; or the second has no metadata, no    *)
(* name, or an id that is not its folder's name but perhaps the first's.    *)
Meta == <<"", "devcontainer-template.json">>
Text(mentions, features) == [mentions |-> mentions, features |-> features]
Nothing == Text({}, {})
Size == Text({"size"}, {})
Sized ==
  [id |-> "go", meta |-> TRUE, install |-> FALSE, named |-> TRUE, builds |-> TRUE,
   defaults |-> "size" :> "big", optional |-> {All("docs"), All("ci")},
   files |-> Meta :> Nothing @@ Config :> Text({"size", "user"}, {"git"})
             @@ <<"docs", "a">> :> Size @@ <<"ci", "x">> :> Nothing]
Plain ==
  [Sized EXCEPT !.defaults = [o \in {} |-> ""],
                !.files = Meta :> Nothing @@ DotConfig :> Size @@ <<"docs", "a">> :> Nothing
                          @@ <<"", "docs.md">> :> Nothing @@ <<"ci", "x">> :> Nothing
                          @@ <<"ci", "y">> :> Nothing]
Aside ==
  [Plain EXCEPT !.files = Meta :> Nothing @@ DotConfig :> Size @@ <<"", "docs.md">> :> Nothing
                          @@ <<"ci", "x">> :> Nothing @@ <<"ci", "y">> :> Nothing]
Second == [Sized EXCEPT !.id = "rust", !.files = Config :> Nothing]
Pair(first, second) == "go" :> first @@ "rust" :> second
Usual ==
  {Pair(Sized, Second), Pair(Plain, [Second EXCEPT !.meta = FALSE]),
   Pair(Sized, [Second EXCEPT !.named = FALSE]), Pair([Plain EXCEPT !.builds = FALSE], Second)}
SomeAuthored ==
  Usual \cup {Pair(Aside, [Second EXCEPT !.id = "cargo"]), Pair(Sized, [Second EXCEPT !.id = "go"])}
SomeFolders == <<"go", "rust">>
SomeLonger == {<<"docs", <<"", "docs.md">>>>}

Own(features) == [tag |-> 0, features |-> features, values |-> NoFiles]
SomeWorkspaces == {NoFiles, Config :> Own({"node"}) @@ <<"ci", "y">> :> Own({})}
SomeRequests ==
  {[options |-> NoFiles, features |-> {"node"}, left |-> {All("docs"), All("ci")}, tmpDir |-> FALSE],
   [options |-> "size" :> "small", features |-> {}, left |-> {All("ci")}, tmpDir |-> TRUE]}

(* The author edits after the first package was begun, and what is usual    *)
(* only; the first item only is published, twice at most, and beside an     *)
(* apply nothing else is done, before it is at its files.                   *)
SomeTemplates ==
  /\ TemplatesNext
  /\ source' # source => packages = 1 /\ applies <= 1 /\ {source, source'} \subseteq Usual
  /\ Len(tagged') <= 2 /\ \A i \in DOMAIN tagged' : tagged'[i].archive.item.files # Second.files
  /\ apply.pc \in {"manifest", "blob", "files"} => UNCHANGED packageVars
  /\ apply.pc = "files" => UNCHANGED tagged

----------------------------------------------------------------------------
(* RegistryAuth: a registry that does everything and one that does as it    *)
(* should, for users with nothing, with a credsStore, with static entries   *)
(* and a helper that fails, and with a configuration that cannot be read.   *)
SomeRegistries == {"ghcr.io", "own.test"}
SomeFetches == <<"ghcr.io", "own.test", "ghcr.io">>
User == [file |-> "missing", env |-> {}, helpers |-> NoFiles, store |-> NoCred, auths |-> {},
         answers |-> {<<Default, "ghcr.io">>}, github |-> FALSE]
SomeUsers ==
  {User,
   [User EXCEPT !.file = "read", !.store = "desktop", !.answers = {<<"desktop", Hub>>, <<"desktop", "own.test">>}, !.github = TRUE],
   [User EXCEPT !.file = "read", !.env = {"own.test"}, !.helpers = "ghcr.io" :> "helper",
                !.auths = {"ghcr.io", Hub}, !.answers = {}],
   [User EXCEPT !.file = "broken", !.answers = {}]}
Behaviours ==
  [realm: Realms, token: Tokens, moved: BOOLEAN, forbidden: BOOLEAN, public: BOOLEAN]
Good == [realm |-> "own", token |-> "answers", moved |-> FALSE, forbidden |-> FALSE, public |-> FALSE]
SomeImages ==
  {[handed |-> {"ghcr.io", Hub}, stages |-> {}], [handed |-> {"ghcr.io"}, stages |-> {Hub, "own.test"}],
   [handed |-> {"ghcr.io", "own.test"}, stages |-> {}]}
SomeWorlds ==
  {u @@ [f \in DOMAIN Good |-> "ghcr.io" :> b[f] @@ "own.test" :> Good[f]] @@ i :
     u \in SomeUsers, b \in Behaviours, i \in SomeImages}

----------------------------------------------------------------------------
VARIABLE part
FirstWorld == CHOOSE w \in AuthWorlds : TRUE
FirstSource == CHOOSE c \in Authored : TRUE
allVars == <<part, vars, templatesVars, authVars>>

PublishedInit ==
  /\ part \in {"publish", "templates", "auth"}
  /\ Init /\ TemplatesInit /\ AuthInit
  /\ part # "templates" => source = FirstSource /\ workspace = NoFiles
  /\ part # "auth" => world = FirstWorld

PublishedNext ==
  \/ part = "publish" /\ SomePublishes /\ UNCHANGED <<part, templatesVars, authVars>>
  \/ part = "templates" /\ SomeTemplates /\ UNCHANGED <<part, vars, authVars>>
  \/ part = "auth" /\ AuthNext /\ UNCHANGED <<part, vars, templatesVars>>

PublishedSpec == PublishedInit /\ [][PublishedNext]_allVars
=============================================================================
