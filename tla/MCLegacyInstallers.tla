------------------------- MODULE MCLegacyInstallers -------------------------
EXTENDS LegacyInstallers
(* Two releases of lore for Pi, the second of which renders one overlay less. *)
TwoReleases == << {"o1", "o2"}, {"o2"} >>
=============================================================================
