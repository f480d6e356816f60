-------------------------- MODULE ControlManifest --------------------------
(***************************************************************************)
(* The control manifest, which names the Features that must not be used:   *)
(* features/advisory.go GetControlManifest, as cli/disallowed.go and the   *)
(* advisories of a build ask for it.  It is kept in a cache file for five  *)
(* minutes, and the cache is shared by every process of the CLI.           *)
(*                                                                         *)
(* A manifest is abstracted to the set of Features it disallows.  A body   *)
(* that is no JSON object is Junk: sanitizeManifest returns nil for it.    *)
(***************************************************************************)
EXTENDS Integers

CONSTANTS
  Procs,       \* the processes; each may ask many times
  Features,    \* the Features that manifests may disallow
  MaxFailures, \* bound: requests, reads and writes that fail, Junk, and kills
  MaxChanges   \* bound: changes of the manifest on the server

Body(kind, disallowed) == [kind |-> kind, disallowed |-> disallowed]
Manifests == {Body("manifest", S) : S \in SUBSET Features}
NoneDisallowed == Body("manifest", {})
Junk == Body("junk", {})
NoFile == Body("no file", {})

VARIABLES
  served,    \* what the server has
  cache,     \* what the cache file holds
  fresh,     \* is it younger than five minutes?
  step,      \* where each process is
  body,      \* what it fetched, or is to cache
  answer,    \* the manifest it was given last; NoFile while it has none
  failures, changes,
  had,       \* history: what the cache held when it asked, and let it read
  offered,   \* history: what the server had meanwhile
  undisturbed,     \* history: has no other process been asking meanwhile?
  spoilt     \* history: has a Junk body been received?

manifestVars == <<served, cache, fresh, step, body, answer, failures, changes, had, offered, undisturbed, spoilt>>
file == <<cache, fresh>>
history == <<had, offered, undisturbed, spoilt>>

Usable(content) == content \notin {Junk, NoFile}   \* sanitizeManifest
Asking(p) == step[p] # "idle"
GoesTo(p, where) == step' = [step EXCEPT ![p] = where]
Failure == failures < MaxFailures /\ failures' = failures + 1

ManifestInit ==
  /\ served \in Manifests
  /\ cache \in Manifests \cup {Junk, NoFile} /\ fresh \in BOOLEAN /\ (cache = NoFile => ~fresh)
  /\ step = [p \in Procs |-> "idle"]
  /\ body = [p \in Procs |-> NoneDisallowed]
  /\ answer = [p \in Procs |-> NoFile]
  /\ failures = 0 /\ changes = 0
  /\ had = [p \in Procs |-> NoFile] /\ offered = [p \in Procs |-> {}]
  /\ undisturbed = [p \in Procs |-> TRUE] /\ spoilt = (cache = Junk)

(* The server's manifest changes.                                          *)
Change ==
  /\ changes < MaxChanges /\ changes' = changes + 1
  /\ served' \in Manifests \ {served}
  /\ offered' = [p \in Procs |-> IF Asking(p) THEN offered[p] \cup {served'} ELSE offered[p]]
  /\ UNCHANGED <<file, step, body, answer, failures, had, undisturbed, spoilt>>

(* Five minutes pass.                                                      *)
Expire ==
  /\ fresh /\ fresh' = FALSE
  /\ UNCHANGED <<served, cache, step, body, answer, failures, changes, history>>

(* os.Stat                                                                 *)
Ask(p) ==
  /\ ~Asking(p)
  /\ GoesTo(p, IF fresh THEN "read" ELSE "fetch")
  /\ answer' = [answer EXCEPT ![p] = NoFile]
  /\ had' = [had EXCEPT ![p] = cache] /\ offered' = [offered EXCEPT ![p] = {served}]
  /\ LET others == {q \in Procs \ {p} : Asking(q)}
     IN undisturbed' = [q \in Procs |-> IF q = p THEN others = {} ELSE undisturbed[q] /\ q \notin others]
  /\ UNCHANGED <<served, file, body, failures, changes, spoilt>>

Return(p, manifest) ==
  /\ GoesTo(p, "idle")
  /\ answer' = [answer EXCEPT ![p] = manifest] /\ body' = [body EXCEPT ![p] = NoneDisallowed]

(* A fresh cache is read, which may be another by now.                     *)
Read(p) ==
  /\ step[p] = "read"
  /\ \/ Usable(cache) /\ Return(p, cache) /\ UNCHANGED failures
     \/ ~Usable(cache) /\ GoesTo(p, "fetch") /\ UNCHANGED <<body, answer, failures>>
     \/ Failure /\ GoesTo(p, "fetch") /\ UNCHANGED <<body, answer>>  \* os.ReadFile
  /\ UNCHANGED <<served, file, changes, history>>

(* fetchControlManifest: what the server has, or a body that is no JSON.   *)
FetchManifest(p) ==
  /\ step[p] = "fetch"
  /\ \/ body' = [body EXCEPT ![p] = served] /\ UNCHANGED <<failures, spoilt>>
     \/ body' = [body EXCEPT ![p] = Junk] /\ Failure /\ spoilt' = TRUE
  /\ GoesTo(p, "write")
  /\ UNCHANGED <<served, file, answer, changes, had, offered, undisturbed>>

ManifestFails(p) ==
  /\ step[p] = "fetch" /\ Failure
  /\ GoesTo(p, "fall back")
  /\ UNCHANGED <<served, file, body, answer, changes, history>>

(* Bug: a failed request is answered with the empty manifest.              *)
FallBackEmpty(p) ==
  /\ step[p] = "fall back"
  /\ GoesTo(p, "write") /\ body' = [body EXCEPT ![p] = NoneDisallowed]
  /\ UNCHANGED <<served, file, answer, failures, changes, history>>

(* The cache is read, however old; one that cannot be is as good as none ... *)
FallBack(p) ==
  /\ step[p] = "fall back"
  /\ \/ /\ Usable(cache) /\ GoesTo(p, "touch") /\ body' = [body EXCEPT ![p] = cache]
        /\ UNCHANGED <<failures, had>>
     \/ /\ GoesTo(p, "write") /\ body' = [body EXCEPT ![p] = NoneDisallowed]
        /\ \/ ~Usable(cache) /\ UNCHANGED <<failures, had>>
           \/ Failure /\ had' = [had EXCEPT ![p] = NoFile]  \* os.ReadFile
  /\ UNCHANGED <<served, file, answer, changes, offered, undisturbed, spoilt>>

(* ... and os.Chtimes makes whatever file is there now young again.        *)
Touch(p) ==
  /\ step[p] = "touch"
  /\ fresh' = TRUE /\ Return(p, body[p])
  /\ UNCHANGED <<served, cache, failures, changes, history>>

Answer(p) == IF Usable(body[p]) THEN body[p] ELSE NoneDisallowed

(* The body is written to a temporary file; when it cannot be, the file is *)
(* removed, and the answer is the body all the same ...                    *)
Write(p) ==
  /\ step[p] = "write"
  /\ \/ GoesTo(p, "rename") /\ UNCHANGED <<body, answer, failures>>
     \/ Failure /\ Return(p, Answer(p))
  /\ UNCHANGED <<served, file, changes, history>>

(* ... and renamed over the cache.                                         *)
Rename(p) ==
  /\ step[p] = "rename"
  /\ cache' = body[p] /\ fresh' = TRUE
  /\ Return(p, Answer(p))
  /\ UNCHANGED <<served, failures, changes, history>>

(* The command is interrupted: what it had written stays where it is.      *)
KillProcess(p) ==
  /\ Asking(p) /\ Failure
  /\ Return(p, NoFile)
  /\ UNCHANGED <<served, file, changes, history>>

ManifestNext ==
  \/ Change \/ Expire
  \/ \E p \in Procs : \/ Ask(p) \/ Read(p) \/ FetchManifest(p) \/ ManifestFails(p) \/ FallBack(p)
                      \/ Touch(p) \/ Write(p) \/ Rename(p) \/ KillProcess(p)

ManifestSpec == ManifestInit /\ [][ManifestNext]_manifestVars

-----------------------------------------------------------------------------
(* Every variable has its type: nobody is ever answered with Junk.         *)
ManifestTypeOK ==
  /\ served \in Manifests /\ cache \in Manifests \cup {Junk, NoFile} /\ fresh \in BOOLEAN
  /\ step \in [Procs -> {"idle", "read", "fetch", "fall back", "touch", "write", "rename"}]
  /\ body \in [Procs -> Manifests \cup {Junk}]
  /\ answer \in [Procs -> Manifests \cup {NoFile}]
  /\ failures \in Nat /\ changes \in Nat
  /\ had \in [Procs -> Manifests \cup {Junk, NoFile}] /\ offered \in [Procs -> SUBSET Manifests]
  /\ undisturbed \in [Procs -> BOOLEAN] /\ spoilt \in BOOLEAN

(* A failed request, a failed write or an expired cache unblocks nothing:  *)
(* a process that was not disturbed is answered with the manifest that was *)
(* cached when it asked, or with one the server had meanwhile, and with    *)
(* the empty one otherwise only when there was no cache it could fall back *)
(* on, or read, or a malformed body was taken for a manifest               *)
(* (GetControlManifest).                                                   *)
KeepsBlocking ==
  \A p \in Procs :
    ~Asking(p) /\ answer[p] # NoFile /\ undisturbed[p] /\ Usable(had[p]) /\ ~spoilt =>
      answer[p] \in {had[p]} \cup offered[p]

(* The cache is never seen half written: it holds no Junk that was not     *)
(* received as such, however processes overlap or are killed               *)
(* (GetControlManifest: "a concurrent reader never sees a partial          *)
(* manifest").                                                             *)
NeverPartial == cache = Junk => spoilt
=============================================================================
