------------------------- MODULE MCHostedCompletion -------------------------
(* A hosted configuration, and the manifest at the root. *)
EXTENDS HostedCompletion, TLC
CONSTANTS old, new
MCDirOf == 1 :> "config" @@ 2 :> "root"
Contents == Permutations({old, new})
=============================================================================
