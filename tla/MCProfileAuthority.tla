------------------------- MODULE MCProfileAuthority -------------------------
(* Two processes, and enough inodes for all that they can have open. *)
EXTENDS ProfileAuthority, TLC
CONSTANTS p1, p2, lean, full
Alike == Permutations({p1, p2}) \cup Permutations({lean, full})
=============================================================================
