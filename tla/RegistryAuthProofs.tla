------------------------- MODULE RegistryAuthProofs -------------------------
(***************************************************************************)
(* What RegistryAuth's run shows for two registries, proved for any number *)
(* of them, any requests and any setup: the diagnostics of a run foresee   *)
(* what hardening would change, and a build keeps the credentials its user *)
(* has set up.                                                             *)
(***************************************************************************)
EXTENDS RegistryAuth, TLAPS

(* What a run's request to a registry comes to, however often it is made.  *)
OkSoft(r) ==
  \/ world.realm[r] = "open"
  \/ Parsed(r) /\ ~world.forbidden[r] /\ Grants(r, world.token[r] = "across")
OkHard(r) ==
  \/ world.realm[r] = "open"
  \/ Trusted(r) /\ ~world.forbidden[r] /\ world.token[r] = "answers" /\ Grants(r, FALSE)
Ok(m, r) == IF m = "soft" THEN OkSoft(r) ELSE OkHard(r)

Blamed == diag["soft"] \cap {"lookup", "redirect"} # {}
Explained(m, r) == m = "soft" /\ ~OkHard(r) => Blamed

TypeOK ==
  /\ runs \in [Modes -> [at: {"ask", "token"}, tokens: SUBSET Registries,
                         outcomes: Seq({"ok", "failed"})]]
  /\ diag \in [Modes -> SUBSET {"forwarding", "lookup", "redirect"}]

(* The parts of the invariant: the tokens a run holds, the outcomes it has *)
(* seen and the token request it is about to make are those of its         *)
(* registries, and what the hardened run would not get is explained.       *)
TokensInv == \A m \in Modes : \A r \in runs[m].tokens : Ok(m, r) /\ Explained(m, r)
OutcomesInv ==
  \A m \in Modes : \A i \in DOMAIN runs[m].outcomes :
    /\ runs[m].outcomes[i] = "ok" <=> Ok(m, Fetches[i])
    /\ runs[m].outcomes[i] = "ok" => Explained(m, Fetches[i])
AskedInv ==
  \A m \in Modes :
    runs[m].at = "token" =>
      /\ world.realm[InHand(m)] # "open" /\ Parsed(InHand(m)) /\ ~world.forbidden[InHand(m)]
      /\ m = "hard" => Trusted(InHand(m))
      /\ m = "soft" /\ ~Trusted(InHand(m)) => Blamed
Inv == TypeOK /\ TokensInv /\ OutcomesInv /\ AskedInv

(* A response the strict reading takes, the lax one takes.                 *)
LEMMA Hardened == \A r : OkHard(r) => OkSoft(r)
  BY DEF OkHard, OkSoft, Trusted, Parsed

(* A request that ends, as its registry has it and with what it is worth,  *)
(* keeps the invariant.                                                    *)
LEMMA AnsweredKeeps ==
  ASSUME Inv, NEW m \in Modes, More(m), NEW r, r = InHand(m), NEW outcome \in {"ok", "failed"},
         NEW tokens, tokens = runs[m].tokens \/ (outcome = "ok" /\ tokens = runs[m].tokens \cup {r}),
         Answered(m, outcome, tokens), UNCHANGED world,
         diag' \in [Modes -> SUBSET {"forwarding", "lookup", "redirect"}],
         \A n \in Modes : diag[n] \subseteq diag'[n],
         outcome = "ok" <=> Ok(m, r),
         outcome = "ok" /\ m = "soft" /\ ~OkHard(r) => Blamed'
  PROVE  Inv'
  <1>1. r \in Registries
    BY AuthAssumption DEF InHand, More, Inv, TypeOK
  <1>2. Blamed => Blamed'
    BY DEF Blamed, Modes
  <1>3. \A n, x : Ok(n, x)' <=> Ok(n, x)
    BY DEF Ok, OkSoft, OkHard, Parsed, Trusted, Grants
  <1>4. \A n, x : Explained(n, x) => Explained(n, x)'
    BY <1>2 DEF Explained, OkHard, Trusted, Grants
  <1>5. /\ runs'[m].at = "ask" /\ runs'[m].tokens = tokens
        /\ runs'[m].outcomes = Append(runs[m].outcomes, outcome)
        /\ \A n \in Modes \ {m} : runs'[n] = runs[n]
    BY DEF Answered, Inv, TypeOK
  <1>6. TypeOK'
    BY <1>1 DEF Answered, Inv, TypeOK
  <1>7. outcome = "ok" => Explained(m, r)'
    BY DEF Explained, OkHard, Trusted, Grants
  <1>8. TokensInv'
    <2> SUFFICES ASSUME NEW n \in Modes, NEW x \in runs'[n].tokens
                 PROVE  Ok(n, x)' /\ Explained(n, x)'
      BY DEF TokensInv
    <2>1. CASE x \in runs[n].tokens
      BY <2>1, <1>3, <1>4 DEF Inv, TokensInv
    <2>2. CASE x \notin runs[n].tokens
      BY <2>2, <1>3, <1>5, <1>7
    <2>3. QED
      BY <2>1, <2>2
  <1>9. OutcomesInv'
    <2> SUFFICES ASSUME NEW n \in Modes, NEW i \in DOMAIN runs'[n].outcomes
                 PROVE  /\ runs'[n].outcomes[i] = "ok" <=> Ok(n, Fetches[i])'
                        /\ runs'[n].outcomes[i] = "ok" => Explained(n, Fetches[i])'
      BY DEF OutcomesInv
    <2>1. CASE i \in DOMAIN runs[n].outcomes
      <3>1. runs'[n].outcomes[i] = runs[n].outcomes[i]
        <4>1. runs[n].outcomes \in Seq({"ok", "failed"})
          BY DEF Inv, TypeOK
        <4>2. QED
          BY <2>1, <4>1, <1>5
      <3>2. QED
        BY <2>1, <3>1, <1>3, <1>4 DEF Inv, OutcomesInv
    <2>2. CASE i \notin DOMAIN runs[n].outcomes
      <3>1. n = m /\ i = Len(runs[m].outcomes) + 1 /\ runs'[n].outcomes[i] = outcome
        BY <2>2, <1>5 DEF Inv, TypeOK
      <3>2. QED
        BY <3>1, <1>3, <1>7 DEF InHand
    <2>3. QED
      BY <2>1, <2>2
  <1>10. AskedInv'
    <2> SUFFICES ASSUME NEW n \in Modes, runs'[n].at = "token", n # m
                 PROVE  /\ world.realm[InHand(n)'] # "open" /\ Parsed(InHand(n))'
                        /\ ~world.forbidden[InHand(n)']
                        /\ n = "hard" => Trusted(InHand(n))'
                        /\ n = "soft" /\ ~Trusted(InHand(n))' => Blamed'
      BY <1>5 DEF AskedInv
    <2>1. runs'[n] = runs[n] /\ InHand(n)' = InHand(n)
      BY <1>5 DEF InHand
    <2>2. QED
      BY <2>1, <1>2 DEF Inv, AskedInv, Parsed, Trusted
  <1>11. QED
    BY <1>6, <1>8, <1>9, <1>10 DEF Inv

(* The invariant holds at first.                                           *)
LEMMA InitInv == AuthInit => Inv
  <1> SUFFICES ASSUME AuthInit PROVE Inv
    OBVIOUS
  <1>1. \A m \in Modes : runs[m] = [at |-> "ask", tokens |-> {}, outcomes |-> <<>>]
    BY DEF AuthInit
  <1>2. TypeOK
    BY DEF AuthInit, TypeOK
  <1>3. QED
    BY <1>1, <1>2 DEF Inv, TokensInv, OutcomesInv, AskedInv

(* A request that is answered at once, and one that is sent for a token:   *)
(* nothing is trusted that hardening would refuse, or it has been noted.   *)
LEMMA AskKeeps == ASSUME Inv, NEW m \in Modes, Ask(m) PROVE Inv'
  <1>1. PICK r : r = InHand(m)
    OBVIOUS
  <1>2. CASE world.realm[r] = "open" \/ r \in runs[m].tokens
    <2>1. Answered(m, "ok", runs[m].tokens) /\ UNCHANGED <<world, diag>>
      BY <1>1, <1>2 DEF Ask
    <2>2. Ok(m, r)
      BY <1>1, <1>2 DEF Inv, TokensInv, Ok, OkSoft, OkHard
    <2>3. m = "soft" /\ ~OkHard(r) => Blamed'
      BY <1>1, <1>2, <2>1 DEF Inv, TokensInv, Explained, Blamed, OkHard
    <2>4. QED
      BY <1>1, <2>1, <2>2, <2>3, AnsweredKeeps DEF Ask, Inv, TypeOK
  <1>3. CASE ~(world.realm[r] = "open" \/ r \in runs[m].tokens)
    <2>1. Record(m, Noted(r)) /\ UNCHANGED world
      BY <1>1, <1>3 DEF Ask
    <2>2. /\ diag' \in [Modes -> SUBSET {"forwarding", "lookup", "redirect"}]
          /\ \A n \in Modes : diag[n] \subseteq diag'[n]
      BY <2>1 DEF Record, Noted, Inv, TypeOK
    <2>3. m = "soft" /\ Untrusted(r) => Blamed'
      BY <2>1 DEF Record, Noted, Blamed, Inv, TypeOK
    <2>4. CASE ~Parsed(r) \/ (m = "hard" /\ Untrusted(r)) \/ world.forbidden[r]
      <3>1. Answered(m, "failed", runs[m].tokens)
        BY <1>1, <1>3, <2>4 DEF Ask
      <3>2. ~Ok(m, r)
        BY <1>3, <2>4 DEF Ok, OkSoft, OkHard, Untrusted, Trusted, Parsed, Modes
      <3>3. QED
        BY <1>1, <2>1, <2>2, <3>1, <3>2, AnsweredKeeps DEF Ask
    <2>5. CASE ~(~Parsed(r) \/ (m = "hard" /\ Untrusted(r)) \/ world.forbidden[r])
      <3>1. runs' = [runs EXCEPT ![m].at = "token"]
        BY <1>1, <1>3, <2>5 DEF Ask
      <3>2. /\ runs'[m].at = "token" /\ \A n \in Modes \ {m} : runs'[n].at = runs[n].at
            /\ \A n \in Modes : runs'[n].tokens = runs[n].tokens
                             /\ runs'[n].outcomes = runs[n].outcomes
        BY <3>1 DEF Inv, TypeOK
      <3>3. TypeOK'
        BY <2>2, <3>1 DEF Inv, TypeOK
      <3>4. /\ Blamed => Blamed'
            /\ \A n, x : (Ok(n, x)' <=> Ok(n, x)) /\ (Explained(n, x) => Explained(n, x)')
        BY <2>1, <2>2 DEF Blamed, Modes, Ok, OkSoft, OkHard, Explained, Parsed, Trusted, Grants
      <3>5. TokensInv' /\ OutcomesInv'
        BY <3>2, <3>4 DEF Inv, TokensInv, OutcomesInv
      <3>6. ASSUME NEW n \in Modes PROVE InHand(n)' = InHand(n)
        BY <3>2 DEF InHand
      <3>7. AskedInv'
        <4> SUFFICES ASSUME NEW n \in Modes, runs'[n].at = "token"
                     PROVE  /\ world.realm[InHand(n)'] # "open" /\ Parsed(InHand(n))'
                            /\ ~world.forbidden[InHand(n)']
                            /\ n = "hard" => Trusted(InHand(n))'
                            /\ n = "soft" /\ ~Trusted(InHand(n))' => Blamed'
          BY <2>1 DEF AskedInv
        <4>1. CASE n = m
          BY <4>1, <1>1, <1>3, <2>1, <2>3, <2>5, <3>6 DEF Untrusted, Parsed, Trusted
        <4>2. CASE n # m
          BY <4>2, <2>1, <3>2, <3>4, <3>6 DEF Inv, AskedInv, Parsed, Trusted
        <4>3. QED
          BY <4>1, <4>2
      <3>8. QED
        BY <3>3, <3>5, <3>7 DEF Inv
    <2>6. QED
      BY <2>4, <2>5
  <1>4. QED
    BY <1>2, <1>3

(* A token service that answers, or redirects the request.                 *)
LEMMA AskTokenKeeps == ASSUME Inv, NEW m \in Modes, AskToken(m) PROVE Inv'
  <1>1. PICK r : r = InHand(m)
    OBVIOUS
  <1>2. /\ More(m) /\ UNCHANGED <<world, diag>> /\ world.token[r] = "answers"
        /\ world.realm[r] # "open" /\ Parsed(r) /\ ~world.forbidden[r]
        /\ m = "hard" => Trusted(r)
        /\ m = "soft" /\ ~Trusted(r) => Blamed
    BY <1>1 DEF AskToken, Inv, AskedInv
  <1>3. Ok(m, r) <=> Grants(r, FALSE)
    BY <1>2 DEF Ok, OkSoft, OkHard, Modes, Parsed, Trusted
  <1>4. m = "soft" /\ ~OkHard(r) /\ Grants(r, FALSE) => Blamed'
    BY <1>2 DEF OkHard, Blamed
  <1>5. diag' \in [Modes -> SUBSET {"forwarding", "lookup", "redirect"}]
    BY <1>2 DEF Inv, TypeOK
  <1>6. CASE Grants(r, FALSE)
    <2>1. Answered(m, "ok", runs[m].tokens \cup {r})
      BY <1>1, <1>6 DEF AskToken, Given
    <2>2. QED
      BY <2>1, <1>1, <1>2, <1>3, <1>4, <1>5, <1>6, AnsweredKeeps
  <1>7. CASE ~Grants(r, FALSE)
    <2>1. Answered(m, "failed", runs[m].tokens)
      BY <1>1, <1>7 DEF AskToken, Given
    <2>2. QED
      BY <2>1, <1>1, <1>2, <1>3, <1>5, <1>7, AnsweredKeeps
  <1>8. QED
    BY <1>6, <1>7

(* Following a redirect keeps the invariant.                               *)
LEMMA RedirectedKeeps == ASSUME Inv, NEW m \in Modes, Redirected(m) PROVE Inv'
  <1>1. PICK r : r = InHand(m)
    OBVIOUS
  <1>2. /\ More(m) /\ UNCHANGED world /\ world.token[r] \in {"within", "across"}
        /\ world.realm[r] # "open" /\ Parsed(r) /\ ~world.forbidden[r]
    BY <1>1 DEF Redirected, Inv, AskedInv
  <1>3. ~OkHard(r)
    BY <1>2 DEF OkHard
  <1>4. CASE m = "hard"
    <2>1. Answered(m, "failed", runs[m].tokens) /\ UNCHANGED diag
      BY <1>4 DEF Redirected
    <2>2. ~Ok(m, r)
      BY <1>3, <1>4 DEF Ok
    <2>3. QED
      BY <2>1, <2>2, <1>1, <1>2, AnsweredKeeps DEF Inv, TypeOK
  <1>5. CASE m = "soft"
    <2>1. Record(m, {"redirect"}) /\ Given(m, world.token[r] = "across")
      BY <1>1, <1>5 DEF Redirected, NotedRedirect
    <2>2. /\ diag' \in [Modes -> SUBSET {"forwarding", "lookup", "redirect"}]
          /\ \A n \in Modes : diag[n] \subseteq diag'[n]
      BY <2>1 DEF Record, Inv, TypeOK
    <2>3. Blamed'
      BY <2>1, <1>5 DEF Record, Blamed, Inv, TypeOK
    <2>4. Ok(m, r) <=> Grants(r, world.token[r] = "across")
      BY <1>2, <1>5 DEF Ok, OkSoft
    <2>5. CASE Grants(r, world.token[r] = "across")
      <3>1. Answered(m, "ok", runs[m].tokens \cup {r})
        BY <1>1, <2>1, <2>5 DEF Given
      <3>2. QED
        BY <3>1, <1>1, <1>2, <2>2, <2>3, <2>4, <2>5, AnsweredKeeps
    <2>6. CASE ~Grants(r, world.token[r] = "across")
      <3>1. Answered(m, "failed", runs[m].tokens)
        BY <1>1, <2>1, <2>6 DEF Given
      <3>2. QED
        BY <3>1, <1>1, <1>2, <2>2, <2>4, <2>6, AnsweredKeeps
    <2>7. QED
      BY <2>5, <2>6
  <1>6. QED
    BY <1>4, <1>5 DEF Modes

LEMMA StepInv == Inv /\ [AuthNext]_authVars => Inv'
  <1> SUFFICES ASSUME Inv, [AuthNext]_authVars PROVE Inv'
    OBVIOUS
  <1>1. ASSUME NEW m \in Modes, Ask(m) PROVE Inv'
    BY <1>1, AskKeeps
  <1>2. ASSUME NEW m \in Modes, AskToken(m) PROVE Inv'
    BY <1>2, AskTokenKeeps
  <1>3. ASSUME NEW m \in Modes, Redirected(m) PROVE Inv'
    BY <1>3, RedirectedKeeps
  <1>4. CASE UNCHANGED <<world, runs, diag>>
    BY <1>4 DEF Inv, TypeOK, TokensInv, OutcomesInv, AskedInv, Explained, Blamed, Ok, OkSoft,
                OkHard, Parsed, Trusted, Grants, InHand
  <1>5. QED
    BY <1>1, <1>2, <1>3, <1>4 DEF AuthNext, authVars, Bridge, RunBuild

(* Whatever the registries, the requests and the user's setup, the         *)
(* diagnostics of a run foresee where it would end differently if it were  *)
(* hardened (authpolicy.go).                                               *)
THEOREM DiagnosticsForeseen == AuthSpec => []DiagnosticsForesee
  <1>1. Inv => DiagnosticsForesee
    <2> SUFFICES ASSUME Inv,
                        NEW i \in DOMAIN runs["soft"].outcomes \cap DOMAIN runs["hard"].outcomes,
                        runs["soft"].outcomes[i] # runs["hard"].outcomes[i]
                 PROVE  Blamed
      BY DEF DiagnosticsForesee, Blamed
    <2>1. /\ runs["soft"].outcomes[i] = "ok" <=> OkSoft(Fetches[i])
          /\ runs["hard"].outcomes[i] = "ok" <=> OkHard(Fetches[i])
          /\ runs["soft"].outcomes[i] = "ok" /\ ~OkHard(Fetches[i]) => Blamed
      BY DEF Inv, OutcomesInv, Ok, Explained, Modes
    <2>2. runs["soft"].outcomes[i] \in {"ok", "failed"} /\ runs["hard"].outcomes[i] \in {"ok", "failed"}
      <3>1. runs["soft"].outcomes \in Seq({"ok", "failed"}) /\ runs["hard"].outcomes \in Seq({"ok", "failed"})
        BY DEF Inv, TypeOK, Modes
      <3>2. QED
        BY <3>1
    <2>3. QED
      BY <2>1, <2>2, Hardened
  <1>2. QED
    BY <1>1, InitInv, StepInv, PTL DEF AuthSpec

-----------------------------------------------------------------------------
(* What docker finds in the user's configuration, getCredential finds too. *)
LEMMA AmbientIsFound ==
  ASSUME NEW w, NEW reg, Ambient(w, reg)
  PROVE  Credential(w, reg) # NoCred
  <1>1. w.file = "read" /\ (Answers(w, Helper(w, reg), reg) \/ reg \in w.auths)
    BY DEF Ambient
  <1>2. DockerCredential(w, reg) \in {"helper", "auths"}
    BY <1>1 DEF DockerCredential
  <1>3. QED
    BY <1>2 DEF Credential, NoCred

Found(r) == Credential(world, r) # NoCred
BuildInv ==
  /\ config.bridged => config.auths = {r \in BuildRegistries(world) : Found(r)}
  /\ config.done /\ ~config.bridged => \A r \in BuildRegistries(world) : ~Found(r)

(* A build finds the credentials that its user has set up for a registry   *)
(* of its base image, its tags and its caches that has a host of its own   *)
(* (build_auth.go).  Of Docker Hub and the other stages it is not true.    *)
THEOREM CredentialsKept == AuthSpec => []BuildKeepsCredentials
  <1>1. AuthInit => BuildInv
    BY DEF AuthInit, BuildInv, NoConfig
  <1>2. BuildInv /\ [AuthNext]_authVars => BuildInv'
    <2> SUFFICES ASSUME BuildInv, [AuthNext]_authVars PROVE BuildInv'
      OBVIOUS
    <2>1. CASE UNCHANGED <<world, config>>
      BY <2>1 DEF BuildInv, Found
    <2>2. CASE Bridge
      BY <2>2 DEF Bridge, BuildInv, Found
    <2>3. CASE RunBuild
      <3>1. config'.bridged = config.bridged /\ config'.auths = config.auths /\ world' = world
        BY <2>3 DEF RunBuild
      <3>2. config.bridged \/ \A r \in BuildRegistries(world) : ~Found(r)
        BY <2>3 DEF RunBuild, Found
      <3>3. QED
        BY <3>1, <3>2 DEF BuildInv, Found
    <2>4. QED
      BY <2>1, <2>2, <2>3 DEF AuthNext, authVars, Ask, AskToken, Redirected
  <1>3. BuildInv => BuildKeepsCredentials
    BY AmbientIsFound DEF BuildInv, BuildKeepsCredentials, Sees, Found, BuildRegistries
  <1>4. QED
    BY <1>1, <1>2, <1>3, PTL DEF AuthSpec
=============================================================================
