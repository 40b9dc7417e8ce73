---------------------------- MODULE MCInstallTui ----------------------------
(* A menu with one item of each kind, two targets that can be chosen and one *)
(* that cannot; the canonical route of the first is open.                    *)
EXTENDS InstallTui
SmallMenu == << "status", "login", "install", "update" >>
ThreeTargets == << [id |-> "pi", available |-> TRUE], [id |-> "claude", available |-> FALSE],
                   [id |-> "codex", available |-> TRUE] >>
OpenGate == [t \in {"pi", "claude", "codex"} |-> IF t = "pi" THEN 3 ELSE 0]
=============================================================================
