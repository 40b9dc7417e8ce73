----------------------------- MODULE MCCommands -----------------------------
EXTENDS Commands
CONSTANTS c1, c2
(* A menu with one item of each kind, two targets that can be chosen and one *)
(* that cannot; the canonical route of the first is open.                    *)
SmallMenu == << "status", "login", "install", "update" >>
ThreeTargets == << [id |-> "pi", available |-> TRUE], [id |-> "claude", available |-> FALSE],
                   [id |-> "codex", available |-> TRUE] >>
OpenGate == [t \in {"pi", "claude", "codex"} |-> IF t = "pi" THEN 3 ELSE 0]
(* Three releases of which two differ in their middle number. *)
Installed == <<1, 9, 0>>
Releases == {Installed, <<2, 0, 0>>, <<2, 1, 0>>}
=============================================================================
