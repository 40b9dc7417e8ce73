-------------------------- MODULE MCTransactionFS ---------------------------
(* Two resources, the second in a directory that may have to be created. *)
EXTENDS TransactionFS, TLC
CONSTANTS old, new
MCDirOf == 1 :> "agents" @@ 2 :> "skills"
Contents == Permutations({old, new})
=============================================================================
