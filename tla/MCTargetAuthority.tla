------------------------- MODULE MCTargetAuthority --------------------------
(* Three attempts, two of them in one process. *)
EXTENDS TargetAuthority, TLC
CONSTANTS a1, a2, a3, p1, p2
MCHome == a1 :> p1 @@ a2 :> p1 @@ a3 :> p2
Neighbours == Permutations({a1, a2})
=============================================================================
