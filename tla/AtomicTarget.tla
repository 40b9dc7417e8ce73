---------------------------- MODULE AtomicTarget ----------------------------
(***************************************************************************)
(* What one canonical apply promises about the selected target: the files  *)
(* it plans are installed all together or not at all, whatever fails or    *)
(* crashes on the way, and its report agrees with what happened.           *)
(* `store' is the target as it stands once a pending journal is settled;   *)
(* TransactionFS is shown to implement this module.                        *)
(***************************************************************************)
EXTENDS Integers

CONSTANTS
  Paths,        \* resources of the target
  Value,        \* what a resource may hold, Absent included
  Absent        \* no file

VARIABLES
  store,        \* [Paths -> Value]
  plan,         \* what the running apply wants installed; Absent: untouched
  phase,        \* "quiet", "pending" or "installed"
  report        \* outcome of the last apply that lived to report one

avars == <<store, plan, phase, report>>

NoPlan == [p \in Paths |-> Absent]

\* The target after the whole plan is in place.
Overlay(s, w) == [p \in Paths |-> IF w[p] = Absent THEN s[p] ELSE w[p]]

\* Outcomes after which nothing of the plan may be visible.
NotInstalled == {"failed", "aborted", "rolled_back", "rollback_error", "residual"}
\* Outcomes after which all of it must be.
Installed == {"committed", "cleanup_failed"}

AInit ==
  /\ store \in [Paths -> Value]
  /\ plan = NoPlan
  /\ phase = "quiet"
  /\ report = "none"

Begin ==
  /\ phase = "quiet"
  /\ phase' = "pending"
  /\ plan' \in [Paths -> Value]
  /\ report' = "none"
  /\ UNCHANGED store

\* The owner may still refine what it is going to install.
Amend ==
  /\ phase = "pending"
  /\ plan' \in [Paths -> Value]
  /\ UNCHANGED <<store, phase, report>>

Install ==
  /\ phase = "pending"
  /\ store' = Overlay(store, plan)
  /\ phase' = "installed"
  /\ UNCHANGED <<plan, report>>

End(r) ==
  /\ phase' = "quiet"
  /\ plan' = NoPlan
  /\ report' = r

Refuse ==
  /\ phase = "pending"
  /\ UNCHANGED store
  /\ \E r \in NotInstalled : End(r)

Confirm ==
  /\ phase = "installed"
  /\ UNCHANGED store
  /\ \E r \in Installed : End(r)

\* A commit whose marker could not be confirmed: all or nothing, unknown which.
Doubt ==
  /\ phase = "pending"
  /\ store' \in {store, Overlay(store, plan)}
  /\ End("commit_failed")

Die ==
  /\ phase # "quiet"
  /\ UNCHANGED store
  /\ End("none")

\* Somebody else changes one file while no apply is running.
Touch ==
  /\ phase = "quiet"
  /\ \E p \in Paths, c \in Value : store' = [store EXCEPT ![p] = c]
  /\ UNCHANGED <<plan, phase, report>>

ANext == Begin \/ Amend \/ Install \/ Refuse \/ Confirm \/ Doubt \/ Die \/ Touch

ASpec == AInit /\ [][ANext]_avars
=============================================================================
