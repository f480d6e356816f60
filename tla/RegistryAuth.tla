---------------------------- MODULE RegistryAuth ----------------------------
(***************************************************************************)
(* How a command authenticates to registries: oci/authpolicy.go and        *)
(* oci/auth.go under the registry client, and cli/build_auth.go, which     *)
(* hands what the command knows to the docker build it starts.             *)
(*                                                                         *)
(* The same command is run side by side against the same world, once as it *)
(* is ("soft") and once with --oci-auth-hardening ("hard"), so that what   *)
(* the first reports can be held against what the second meets.  The       *)
(* registry client (oras-go) and the docker CLI are external: the client   *)
(* asks, takes the token service the challenge names, asks it for a token  *)
(* and asks again, keeping the token for the command's next requests.      *)
(***************************************************************************)
EXTENDS Naturals, Sequences, FiniteSets

CONSTANTS
  Registries,  \* the registries with a host of their own
  Fetches,     \* the registries the command asks, in order
  AuthWorlds   \* what the registries do and what the user has set up

Hub == "docker.io"    \* images without a host are Docker Hub's
Default == "default"  \* the credential helper the platform comes with
NoCred == "none"

(* A registry's challenge names a token service: none (the registry is     *)
(* open), its own authority, one mapped to it, a foreign one, or nothing   *)
(* that can be parsed.  A token request is answered, or redirected, to the *)
(* same origin or to another.                                              *)
Realms == {"open", "own", "mapped", "foreign", "unparsable"}
Tokens == {"answers", "within", "across"}
ASSUME AuthAssumption ==
  /\ Fetches \in Seq(Registries) /\ Hub \notin Registries
  /\ \A w \in AuthWorlds :
       /\ \A r \in Registries : w.realm[r] \in Realms /\ w.token[r] \in Tokens
       /\ w.handed \cup w.stages \subseteq Registries \cup {Hub}

VARIABLES
  world,   \* the registries and the user's setup
  runs,    \* per run: the request in hand and where it is, its tokens and outcomes
  diag,    \* per run: the diagnostics recorded
  config   \* what the docker build authenticates with

authVars == <<world, runs, diag, config>>

Modes == {"soft", "hard"}
NoConfig == [bridged |-> FALSE, auths |-> {}, done |-> FALSE]

AuthInit ==
  /\ world \in AuthWorlds
  /\ runs = [m \in Modes |-> [at |-> "ask", tokens |-> {}, outcomes |-> <<>>]]
  /\ diag = [m \in Modes |-> {}]
  /\ config = NoConfig

-----------------------------------------------------------------------------
(* getCredential: DEVCONTAINERS_OCI_AUTH, the docker configuration, the    *)
(* environment's GITHUB_TOKEN.  A registry's own helper hides the          *)
(* credsStore; one that fails or times out leaves the static auths; the    *)
(* platform's helper is for those who configured nothing.                  *)
Answers(w, helper, reg) == <<helper, reg>> \in w.answers
Helper(w, reg) == IF reg \in DOMAIN w.helpers THEN w.helpers[reg] ELSE w.store
DockerCredential(w, reg) ==
  CASE w.file = "broken" -> NoCred
    [] w.file = "read" /\ Answers(w, Helper(w, reg), reg) -> "helper"
    [] w.file = "read" /\ reg \in w.auths -> "auths"
    [] /\ w.file = "missing" \/ (w.auths = {} /\ w.store = NoCred /\ DOMAIN w.helpers = {})
       /\ Answers(w, Default, reg) -> "helper"
    [] OTHER -> NoCred
Credential(w, reg) ==
  IF reg \in w.env THEN "env"
  ELSE IF DockerCredential(w, reg) # NoCred THEN DockerCredential(w, reg)
  ELSE IF reg = "ghcr.io" /\ w.github THEN "github"
  ELSE NoCred

-----------------------------------------------------------------------------
InHand(m) == Fetches[Len(runs[m].outcomes) + 1]
More(m) == Len(runs[m].outcomes) < Len(Fetches)

Answered(m, outcome, tokens) ==
  runs' = [runs EXCEPT ![m].at = "ask", ![m].tokens = tokens,
                       ![m].outcomes = Append(@, outcome)]
Record(m, what) == diag' = [diag EXCEPT ![m] = @ \cup what]

(* inspectRegistryResponse on a 401 or 403.  One that comes from another   *)
(* host, where the registry redirected the request, is recorded; so is a   *)
(* token service that is neither the challenging authority's own nor       *)
(* mapped to it.  Hardened, an untrusted or unparsable one is an error.    *)
Trusted(r) == world.realm[r] \in {"own", "mapped"}
Parsed(r) == world.realm[r] # "unparsable"
Untrusted(r) == Parsed(r) /\ ~Trusted(r)
Noted(r) ==
  (IF world.moved[r] THEN {"forwarding"} ELSE {}) \cup (IF Untrusted(r) THEN {"lookup"} ELSE {})

Ask(m) ==
  /\ More(m) /\ runs[m].at = "ask"
  /\ LET r == InHand(m) IN
       IF world.realm[r] = "open" \/ r \in runs[m].tokens
       THEN Answered(m, "ok", runs[m].tokens) /\ UNCHANGED diag
       ELSE /\ Record(m, Noted(r))
            /\ IF ~Parsed(r) \/ (m = "hard" /\ Untrusted(r)) \/ world.forbidden[r]
               THEN Answered(m, "failed", runs[m].tokens)
               ELSE runs' = [runs EXCEPT ![m].at = "token"]
  /\ UNCHANGED <<world, config>>

(* The registry client sends the registry's credentials with the token     *)
(* request, unless the challenge came from another host; a redirect to     *)
(* another origin takes them off.                                          *)
Grants(r, across) ==
  world.public[r] \/ (Credential(world, r) # NoCred /\ ~world.moved[r] /\ ~across)
Given(m, across) ==
  IF Grants(InHand(m), across)
  THEN Answered(m, "ok", runs[m].tokens \cup {InHand(m)})
  ELSE Answered(m, "failed", runs[m].tokens)

AskToken(m) ==
  /\ More(m) /\ runs[m].at = "token" /\ world.token[InHand(m)] = "answers"
  /\ Given(m, FALSE)
  /\ UNCHANGED <<world, diag, config>>

(* Bug: a redirect within the token service's origin is not worth a word.  *)
NotedRedirectAcross(r) == IF world.token[r] = "across" THEN {"redirect"} ELSE {}

(* inspectTokenResponse on a redirect: an error when hardened, recorded    *)
(* and followed when not.                                                  *)
NotedRedirect(r) == {"redirect"}
Redirected(m) ==
  /\ More(m) /\ runs[m].at = "token"
  /\ world.token[InHand(m)] \in {"within", "across"}
  /\ IF m = "hard"
     THEN Answered(m, "failed", runs[m].tokens) /\ UNCHANGED diag
     ELSE /\ Record(m, NotedRedirect(InHand(m)))
          /\ Given(m, world.token[InHand(m)] = "across")
  /\ UNCHANGED <<world, config>>

-----------------------------------------------------------------------------
(* The registries of a build: those of the images bridgeBuildAuth is       *)
(* handed, the base of the target stage, the tags and the caches; and      *)
(* those of the Dockerfile's other stages, which it is not.                *)
Touched(w) == w.handed \cup w.stages

(* Bug: the registry of the base image alone, not those of tags and caches. *)
BuildRegistriesOfBase(w) == w.handed \cap {"ghcr.io"}

(* collectBuildRegistries: the hosts among what it is handed.  An image of *)
(* Docker Hub has none (registryHostFromImageRef).                         *)
BuildRegistries(w) == w.handed \ {Hub}

(* bridgeBuildAuth: what getCredential finds for them becomes the auths of *)
(* a docker configuration of its own.                                      *)
Bridge ==
  /\ ~More("soft") /\ config = NoConfig
  /\ LET found == {r \in BuildRegistries(world) : Credential(world, r) # NoCred}
     IN config' = [bridged |-> found # {}, auths |-> found, done |-> FALSE]
  /\ config'.bridged
  /\ UNCHANGED <<world, runs, diag>>

(* The build runs with that configuration, or with the user's where        *)
(* nothing was found, and the bridged one is removed after it.             *)
RunBuild ==
  /\ ~More("soft") /\ ~config.done
  /\ config.bridged \/ \A r \in BuildRegistries(world) : Credential(world, r) = NoCred
  /\ config' = [config EXCEPT !.done = TRUE]
  /\ UNCHANGED <<world, runs, diag>>

(* What the docker CLI (external) finds for a registry in the user's own   *)
(* configuration, and in the one it is run with.                           *)
Ambient(w, reg) ==
  /\ w.file = "read"
  /\ IF Helper(w, reg) # NoCred THEN Answers(w, Helper(w, reg), reg) ELSE reg \in w.auths
Sees(reg) == IF config.bridged THEN reg \in config.auths ELSE Ambient(world, reg)

AuthNext == (\E m \in Modes : Ask(m) \/ AskToken(m) \/ Redirected(m)) \/ Bridge \/ RunBuild
AuthSpec == AuthInit /\ [][AuthNext]_authVars

-----------------------------------------------------------------------------
(* The diagnostics of a run without hardening foresee the hardened one:    *)
(* "It reports what WOULD change if --oci-auth-hardening were enabled"     *)
(* (authpolicy.go:14).  Wherever the two runs end differently on a         *)
(* request, the soft one has recorded a lookup that would be blocked or a  *)
(* redirect of the token service.                                          *)
DiagnosticsForesee ==
  \A i \in DOMAIN runs["soft"].outcomes \cap DOMAIN runs["hard"].outcomes :
    runs["soft"].outcomes[i] # runs["hard"].outcomes[i]
      => diag["soft"] \cap {"lookup", "redirect"} # {}

(* bridgeBuildAuth never costs a build the credentials the user has set up *)
(* for the hosts it is handed: whichever of the user's helpers, auths and  *)
(* variables answers for one, the configuration made in the place of the   *)
(* user's does.  It says nothing of Docker Hub and of the other stages:    *)
(* those lose them (AmbientAuthApplies).                                   *)
BuildKeepsCredentials ==
  config.done => \A reg \in world.handed \ {Hub} : Ambient(world, reg) => Sees(reg)

(* build_auth.go:10-15, 47-51: credentials are resolved "for every         *)
(* registry a build touches", or its ambient auth is left "untouched", and *)
(* for Docker Hub "ambient auth already applies".  So whatever registry    *)
(* the build touches, it would see the credentials that the user's own     *)
(* configuration has for it.                                               *)
AmbientAuthApplies ==
  config.done => \A reg \in Touched(world) : Ambient(world, reg) => Sees(reg)
=============================================================================
