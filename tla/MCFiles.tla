------------------------------ MODULE MCFiles ------------------------------
(* Small instances, for TLC, of the two files that processes of the CLI     *)
(* share: Lockfile and ControlManifest.  They have nothing to do with       *)
(* each other: a behaviour is one of either.                                *)
EXTENDS Lockfile, ControlManifest

(* Lockfile: the OCI Feature 1 depends on the OCI Feature 2 and, from its   *)
(* second version on, on the tarball 3.                                     *)
SomeNeeds == (1 :> (1 :> {2} @@ 2 :> {2, 3})) @@ (2 :> (1 :> {} @@ 2 :> {})) @@ (3 :> (1 :> {} @@ 2 :> {}))
SomeConfigs == {{}, {1}, {1, 2}}
SomeExtras == {{}, {2}}
(* Pins of all of them, and pins that pin nothing.                          *)
SomeWritten == {Holding("own", 1 :> 2 @@ 2 :> 1 @@ 3 :> 1),
                Holding("other", 1 :> None @@ 2 :> Bad @@ 3 :> 2)}

VARIABLE part  \* which of them
allVars == <<part, vars, manifestVars>>

FilesInit ==
  /\ Init /\ ManifestInit
  /\ \/ part = "lockfile" /\ cache = NoFile /\ served = NoneDisallowed
     \/ part = "manifest" /\ lock = Empty("missing")

FilesNext ==
  \/ part = "lockfile" /\ Next /\ UNCHANGED <<part, manifestVars>>
  \/ part = "manifest" /\ ManifestNext /\ UNCHANGED <<part, vars>>

FilesSpec == FilesInit /\ [][FilesNext]_allVars

RunSymmetry == Permutations(Runs)
=============================================================================
