---------------------------- MODULE ApplyProofs -----------------------------
(***************************************************************************)
(* The journaled transaction, and the canonical apply that is built on it. *)
(*                                                                         *)
(* First about TransactionFS, for every number of resources, every         *)
(* content, every layout of directories and every set of late faults; then *)
(* about HostedCompletion, for every profile too: the order of its         *)
(* publications, what a complete rollback means for the profile, that the  *)
(* whole apply is atomic, and that what it reports is true.                *)
(***************************************************************************)
EXTENDS HostedCompletion, TLAPS

\* The backups of S hold what the files hold now.
Faithful(S) == \A p \in S : jnl.backup[p] = file[p]

\* The header agrees with its backups, and one marker at most decides it.
JournalOK ==
  /\ jnl.at # "journal" => jnl.marks = {}
  /\ jnl.at = "journal" =>
       /\ "prepared" \in jnl.marks
       /\ ~({"committed", "restored"} \subseteq jnl.marks)
  /\ jnl.kept \subseteq jnl.entries
  /\ \A p \in jnl.entries : p \in jnl.kept <=> jnl.backup[p] # Absent

\* No resource is in the owner's hands before the journal is begun.
StartingOK ==
  /\ pc = "idle" => plan = NoPlan
  /\ pc \in {"idle", "residue", "inspect", "begin"} => states = {} /\ todo = {}
  /\ pc \in {"residue", "inspect"} => task = "recover"
  /\ pc = "begin" => task = "apply"
  /\ pc \in {"begin", "purge"} => jnl.at = "none"

\* The journal is being filled with the present contents.
SealingOK ==
  pc \in {"backup", "seal"} =>
    /\ task = "apply"
    /\ jnl.at = "prepare" /\ jnl.entries = states /\ Faithful(states)
    /\ states \cup todo = Touched(plan)
    /\ pc = "seal" => todo = {}

\* The sealed journal lists what the plan touches; visited resources have it.
WritingOK ==
  pc \in {"write", "writeRename", "held", "mark"} =>
    /\ jnl.at = "journal" /\ jnl.marks = {"prepared"}
    /\ jnl.entries = states /\ states = Touched(plan) /\ todo \subseteq states
    /\ \A p \in states \ todo : file[p] = plan[p]
    /\ pc \in {"held", "mark"} => todo = {}
    /\ task \in IF pc = "mark" THEN {"commit"} ELSE {"apply", "finalize"}

\* Unless a step failed, visited resources have their backup back.
RestoringOK ==
  pc \in {"temps", "restore", "restoreRename", "rmdirs", "markRestored"} =>
    /\ task \in {"recover", "abort", "rollback"}
    /\ jnl.at = "journal" /\ jnl.marks = {"prepared"}
    /\ jnl.entries = states /\ todo \subseteq states
    /\ pc # "temps" /\ ~bad => Faithful(states \ todo)
    /\ pc \in {"rmdirs", "markRestored"} => todo = {}
    /\ pc = "markRestored" => ~bad

\* A journal is moved out of the way only when the target agrees with it.
CleaningOK ==
  pc \in {"cleanup", "purge"} =>
    /\ task \in {"recover", "abandon", "abort", "rollback", "commit"}
    /\ Unsettled => Faithful(jnl.entries)

IInv == /\ TypeOK /\ JournalOK /\ StartingOK /\ SealingOK
        /\ WritingOK /\ RestoringOK /\ CleaningOK

-----------------------------------------------------------------------------

USE DEF Pcs, Tasks, Results

\* The two journals that begin and cleanup write are well typed.
LEMMA NoJournalType == NoJournal \in Journal /\ [NoJournal EXCEPT !.at = "prepare"] \in Journal
  BY DEF NoJournal, Journal, NoPlan, Value, Marks

\* Init makes every conjunct of the invariant true.
LEMMA InitIInv == Init => IInv
  <1> SUFFICES ASSUME Init PROVE IInv OBVIOUS
  <1>1. TypeOK BY NoJournalType DEF Init, TypeOK, NoPlan, Value
  <1>2. QED BY <1>1 DEF Init, IInv, JournalOK, StartingOK, SealingOK, WritingOK, RestoringOK,
              CleaningOK, NoJournal
-----------------------------------------------------------------------------
(* Type correctness *)

\* What leaving the target does to the owner's variables is well typed.
LEMMA ReturnType ==
  ASSUME NEW r \in Results, Return(r)
  PROVE  /\ pc' \in Pcs /\ task' \in Tasks /\ plan' \in [Paths -> Value] /\ result' \in Results
         /\ todo' \in SUBSET Paths /\ states' \in SUBSET Paths /\ bad' \in BOOLEAN
  BY DEF Return, NoPlan, Value

\* Adding a marker keeps the journal well typed.
LEMMA MarkType == ASSUME jnl \in Journal, NEW m \in Marks, Mark(m) PROVE jnl' \in Journal
  BY DEF Mark, Journal

\* Every step keeps every variable in its type.
LEMMA TypeStep == TypeOK /\ [Next]_vars => TypeOK'
  <1> SUFFICES ASSUME TypeOK, [Next]_vars PROVE TypeOK' OBVIOUS
  <1> USE NoJournalType, ReturnType, MarkType DEF TypeOK
  <1>1. CASE CleanupPrepare BY <1>1 DEF CleanupPrepare, Goto, CleanupFailed
  <1>2. CASE CleanupJournal BY <1>2 DEF CleanupJournal, Goto, CleanupFailed
  <1>3. CASE Purge BY <1>3 DEF Purge, CleanupDone, CleanupFailed
  <1>4. CASE RemoveTemps BY <1>4 DEF RemoveTemps
  <1>5. CASE RestoreDone BY <1>5 DEF RestoreDone, Goto, disk
  <1>6. CASE RemoveCreatedDirs BY <1>6 DEF RemoveCreatedDirs, Goto
  <1>7. CASE MarkRestored BY <1>7 DEF MarkRestored, Goto, Marks
  <1>8. ASSUME NEW p \in Paths, RestoreAbsent(p) PROVE TypeOK'
    BY <1>8 DEF RestoreAbsent, Visited, Value, Last
  <1>9. ASSUME NEW p \in Paths, RestoreTemp(p) PROVE TypeOK'
    BY <1>9 DEF RestoreTemp, Visited, Goto, Last
  <1>10. ASSUME NEW p \in Paths, RestoreRename(p) PROVE TypeOK'
    <2>1. jnl.backup[p] \in Value BY DEF Journal
    <2>2. QED BY ZenonT(40), <1>10, <2>1 DEF RestoreRename, Visited, Last
  <1>11. CASE RemoveResidue BY <1>11 DEF RemoveResidue, Unprepared, Goto
  <1>12. CASE Inspect BY <1>12 DEF Inspect, Goto, disk, Journal
  <1>13. CASE BeginJournal BY <1>13 DEF BeginJournal, Touched
  <1>14. CASE Seal
    <2>1. Sealed => jnl' \in Journal
      <3>1. {DirOf[p] : p \in states} \ dirs \in SUBSET Dirs BY DirAssumption
      <3>2. ASSUME NEW D \in SUBSET Dirs
            PROVE  [jnl EXCEPT !.at = "journal", !.marks = {"prepared"}, !.planned = D] \in Journal
        BY DEF Journal, Marks
      <3>3. QED BY <3>1, <3>2 DEF Sealed
    <2>2. QED BY <1>14, <2>1 DEF Seal, AbortUnsealed
  <1>15. ASSUME NEW p \in Paths, Backup(p) PROVE TypeOK'
    <2>1. jnl' \in Journal
      <3>1. jnl \in Journal /\ file[p] \in Value OBVIOUS
      <3>2. CASE Saved(p) BY <3>1, <3>2 DEF Saved, Journal
      <3>3. QED BY <1>15, <3>1, <3>2 DEF Backup
    <2>2. QED BY <1>15, <2>1 DEF Backup, AbortUnsealed, First
  <1>16. ASSUME NEW p \in Paths, WriteTemp(p) PROVE TypeOK'
    BY <1>16, DirAssumption DEF WriteTemp, Goto, Undo, RollBack, First, Journal
  <1>17. ASSUME NEW p \in Paths, WriteRename(p) PROVE TypeOK'
    BY <1>17 DEF WriteRename, Undo, RollBack, First
  <1>18. CASE Rewrite BY <1>18 DEF Rewrite, CallRewrite, disk, Value
  <1>19. CASE CallRollback BY <1>19 DEF CallRollback, RollBack, disk
  <1>20. CASE CallCommit BY <1>20 DEF CallCommit, disk
  <1>21. CASE MarkCommitted BY <1>21 DEF MarkCommitted, Goto, Marks
  <1>22. ASSUME NEW w \in Plans, StartApply(w) PROVE TypeOK'
    BY <1>22 DEF StartApply, Plans, disk
  <1>23. CASE Crash BY <1>23 DEF Crash, disk
  <1>24. CASE Heal BY <1>24 DEF Heal, disk, owner
  <1>25. ASSUME NEW p \in Editable, NEW c \in Value, Edit(p, c) PROVE TypeOK'
    BY <1>25, FaultAssumption DEF Edit, owner
  <1>26. CASE UNCHANGED vars BY <1>26 DEF vars, disk, owner
  <1> QED
    BY <1>1, <1>2, <1>3, <1>4, <1>5, <1>6, <1>7, <1>8, <1>9, <1>10, <1>11, <1>12, <1>13, <1>14, <1>15, <1>16, <1>17, <1>18, <1>19, <1>20, <1>21, <1>22, <1>23, <1>24, <1>25, <1>26 DEF Next, Owner, Settle, Advance

\* Every reachable state of the transaction is well typed (transaction_fs.go).
THEOREM TypeCorrect == Spec => []TypeOK
  <1>1. Init => TypeOK BY InitIInv DEF IInv
  <1>2. QED BY <1>1, TypeStep, PTL DEF Spec

-----------------------------------------------------------------------------
(* The inductive invariant *)

\* The parts of the invariant that say what the owner's next step may rely on.
StagesOK == StartingOK /\ SealingOK /\ WritingOK /\ RestoringOK /\ CleaningOK

\* Every step of the owner and of its environment keeps the invariant.
LEMMA IInvStep == IInv /\ [Next]_vars => IInv'
  <1> SUFFICES ASSUME IInv, [Next]_vars PROVE JournalOK' /\ StagesOK'
    BY TypeStep DEF IInv, StagesOK
  <1> USE DEF IInv, TypeOK, JournalOK, StagesOK, StartingOK, SealingOK, WritingOK, RestoringOK,
              CleaningOK, Faithful, Unsettled
  <1>1. CASE CleanupPrepare BY <1>1 DEF CleanupPrepare, Goto, CleanupFailed, Return, NoJournal
  <1>2. CASE CleanupJournal BY <1>2 DEF CleanupJournal, Goto, CleanupFailed, Return, NoJournal
  <1>3. CASE Purge BY <1>3 DEF Purge, CleanupDone, CleanupFailed, Return
  <1>4. CASE RemoveTemps BY <1>4 DEF RemoveTemps
  <1>5. CASE RestoreDone BY <1>5 DEF RestoreDone, Goto, disk
  <1>6. CASE RemoveCreatedDirs BY <1>6 DEF RemoveCreatedDirs, Goto, Return
  <1>7. CASE MarkRestored BY <1>7 DEF MarkRestored, Goto, Return, Mark, Journal
  <1>8. ASSUME NEW p \in Paths, RestoreAbsent(p) PROVE JournalOK' /\ StagesOK'
    BY <1>8 DEF RestoreAbsent, Visited, Last
  <1>9. ASSUME NEW p \in Paths, RestoreTemp(p) PROVE JournalOK' /\ StagesOK'
    <2>1. CASE Goto("restoreRename") BY <1>9, <2>1 DEF RestoreTemp, Goto
    <2>2. CASE Visited(p, TRUE) BY <1>9, <2>2 DEF RestoreTemp, Visited
    <2>3. QED BY <1>9, <2>1, <2>2 DEF RestoreTemp
  <1>10. ASSUME NEW p \in Paths, RestoreRename(p) PROVE JournalOK' /\ StagesOK'
    BY <1>10 DEF RestoreRename, Visited, Last
  <1>11. CASE RemoveResidue
    <2>1. jnl' \in {jnl, NoJournal} BY <1>11 DEF RemoveResidue, Unprepared
    <2>2. JournalOK' BY <2>1 DEF NoJournal
    <2>3. StagesOK' BY <1>11, <2>1 DEF RemoveResidue, Goto, Return
    <2>4. QED BY <2>2, <2>3
  <1>12. CASE Inspect BY <1>12 DEF Inspect, Goto, disk, Return, Journal, Marks
  <1>13. CASE BeginJournal BY <1>13 DEF BeginJournal, NoJournal, NoPlan
  <1>14. CASE Seal
    <2>1. Sealed => /\ jnl'.at = "journal" /\ jnl'.marks = {"prepared"}
                    /\ jnl'.entries = jnl.entries /\ jnl'.kept = jnl.kept
                    /\ jnl'.backup = jnl.backup
      BY DEF Sealed, Journal
    <2>2. JournalOK' BY <1>14, <2>1 DEF Seal
    <2>3. StagesOK' BY <1>14, <2>1 DEF Seal, AbortUnsealed
    <2>4. QED BY <2>2, <2>3
  <1>15. ASSUME NEW p \in Paths, Backup(p) PROVE JournalOK' /\ StagesOK'
    <2>1. CASE UNCHANGED jnl /\ AbortUnsealed BY <1>15, <2>1 DEF Backup, AbortUnsealed
    <2>2. CASE Saved(p)
      <3>1. /\ jnl'.at = jnl.at /\ jnl'.marks = jnl.marks
            /\ jnl'.entries = jnl.entries \cup {p}
            /\ jnl'.kept = IF file[p] = Absent THEN jnl.kept ELSE jnl.kept \cup {p}
            /\ \A q \in Paths : jnl'.backup[q] = IF q = p THEN file[p] ELSE jnl.backup[q]
        BY <2>2 DEF Saved, Journal
      <3>2. pc = "backup" /\ UNCHANGED file BY <1>15 DEF Backup
      <3>3. JournalOK' BY <3>1, <3>2, <2>2
      <3>4. SealingOK' BY <1>15, <3>1, <3>2 DEF Backup, First, AbortUnsealed, Saved
      <3>5. QED BY <1>15, <3>1, <3>3, <3>4 DEF Backup, AbortUnsealed
    <2>3. QED BY <1>15, <2>1, <2>2 DEF Backup
  <1>16. ASSUME NEW p \in Paths, WriteTemp(p) PROVE JournalOK' /\ StagesOK'
    BY <1>16 DEF WriteTemp, Goto, Undo, RollBack, First
  <1>17. ASSUME NEW p \in Paths, WriteRename(p) PROVE JournalOK' /\ StagesOK'
    BY <1>17 DEF WriteRename, Undo, RollBack, First
  <1>18. CASE Rewrite BY <1>18, ValueAssumption DEF Rewrite, CallRewrite, disk, Touched
  <1>19. CASE CallRollback BY <1>19 DEF CallRollback, RollBack, disk
  <1>20. CASE CallCommit BY <1>20 DEF CallCommit, disk
  <1>21. CASE MarkCommitted BY <1>21 DEF MarkCommitted, Goto, Return, Mark, Journal
  <1>22. ASSUME NEW w \in Plans, StartApply(w) PROVE JournalOK' /\ StagesOK'
    BY <1>22 DEF StartApply, Plans, disk
  <1>23. CASE Crash BY <1>23 DEF Crash, disk, Return
  <1>24. CASE Heal BY <1>24 DEF Heal, disk, owner
  <1>25. ASSUME NEW p \in Editable, NEW c \in Value, Edit(p, c) PROVE JournalOK' /\ StagesOK'
    BY <1>25, FaultAssumption DEF Edit, owner
  <1>26. CASE UNCHANGED vars BY <1>26 DEF vars, disk, owner
  <1> QED
    BY <1>1, <1>2, <1>3, <1>4, <1>5, <1>6, <1>7, <1>8, <1>9, <1>10, <1>11, <1>12, <1>13, <1>14, <1>15, <1>16, <1>17, <1>18, <1>19, <1>20, <1>21, <1>22, <1>23, <1>24, <1>25, <1>26 DEF Next, Owner, Settle, Advance

\* Every reachable state satisfies the inductive invariant.
THEOREM Invariant == Spec => []IInv
  BY InitIInv, IInvStep, PTL DEF Spec

\* No failure and no death leaves a journal that recover() would refuse.
THEOREM AlwaysRecoverable == Spec => []Recoverable
  <1>1. IInv => Recoverable
    BY DEF IInv, JournalOK, Recoverable, Admissible, Unsettled
  <1>2. QED BY Invariant, <1>1, PTL

\* Once a marker decides the journal, no step of an owner touches a file.
THEOREM MarkersDecide == Spec => DecidedIsFinal
  <1>1. ASSUME IInv, [Next]_vars, pc # "idle",
               jnl.marks \cap {"committed", "restored"} # {}
        PROVE  file' = file
    <2> USE <1>1 DEF IInv, SealingOK, WritingOK, RestoringOK
    <2>1. ASSUME NEW p \in Paths PROVE ~RestoreAbsent(p) /\ ~RestoreRename(p) /\ ~WriteRename(p)
      BY DEF RestoreAbsent, RestoreRename, WriteRename
    <2>2. CASE UNCHANGED file BY <2>2
    <2>3. QED
      BY <2>1 DEF Next, Owner, Settle, Advance, Rewrite, CleanupPrepare, CleanupJournal, Purge,
         RemoveTemps, RestoreDone, RemoveCreatedDirs, MarkRestored, RestoreTemp, RemoveResidue,
         Inspect, BeginJournal, Seal, Backup, WriteTemp, CallRewrite, CallRollback, CallCommit,
         MarkCommitted, StartApply, Crash, Heal, Edit, disk, vars
  <1>2. IInv /\ [Next]_vars =>
          [pc # "idle" /\ jnl.marks \cap {"committed", "restored"} # {} => file' = file]_vars
    BY <1>1
  <1>3. QED BY Invariant, <1>2, PTL DEF Spec, DecidedIsFinal

-----------------------------------------------------------------------------
(* The refinement: every step is a step of AtomicTarget or a stutter *)

\* The store AtomicTarget sees has not changed.
Same == Logical' = Logical

\* A step that keeps the files and the journal keeps the store.
LEMMA SameFiles == UNCHANGED <<file, jnl>> => Same
  BY DEF Same, Logical, Unsettled

\* So does one that restores or overwrites what a pending journal backs up.
LEMMA SameUnderJournal ==
  ASSUME IInv, Unsettled, UNCHANGED jnl, NEW p \in jnl.entries, NEW c, file' = [file EXCEPT ![p] = c]
  PROVE  Same
  BY DEF IInv, TypeOK, Same, Logical, Unsettled

\* And one that settles, drops or seals a journal whose backups are the files.
LEMMA SameWhenFaithful ==
  ASSUME Unsettled => Faithful(jnl.entries), Unsettled' => Faithful(jnl.entries)',
         UNCHANGED file, TypeOK
  PROVE  Same
  BY DEF TypeOK, Same, Logical, Unsettled, Faithful

\* A step inside an apply that nobody outside can see.
LEMMA HiddenStep ==
  ASSUME Same, UNCHANGED <<plan, result>>, pc # "idle", pc' # "idle",
         (task = "commit" /\ pc # "mark") <=> (task' = "commit" /\ pc' # "mark")
  PROVE  UNCHANGED Atomic!avars
  BY DEF Same, Atomic!avars, Phase

\* Giving the target up without having installed anything.
LEMMA RefuseStep ==
  ASSUME pc # "idle", task # "commit", Same, NEW r \in Atomic!NotInstalled, Return(r)
  PROVE  Atomic!ANext
  BY DEF Same, Return, Phase, Atomic!ANext, Atomic!Refuse, Atomic!End, NoPlan, Atomic!NoPlan

\* Giving it up with the plan installed.
LEMMA ConfirmStep ==
  ASSUME pc \in {"cleanup", "purge"}, task = "commit", Same, NEW r \in Atomic!Installed, Return(r)
  PROVE  Atomic!ANext
  BY DEF Same, Return, Phase, Atomic!ANext, Atomic!Confirm, Atomic!End, NoPlan, Atomic!NoPlan

\* What a step of TransactionFS has to be for AtomicTarget.
Implemented == [Atomic!ANext]_(Atomic!avars)

\* Cleanup and restoration are invisible until they hand the target back.
LEMMA SettleImplemented == IInv /\ IInv' /\ Settle => Implemented
  <1> SUFFICES ASSUME IInv, IInv', Settle PROVE Implemented OBVIOUS
  <1> USE DEF Implemented, IInv
  <1>1. CASE CleanupPrepare
    <2>1. Same BY <1>1, SameWhenFaithful DEF CleanupPrepare, JournalOK, Unsettled, NoJournal
    <2>2. QED
      BY <1>1, <2>1, HiddenStep, RefuseStep, ConfirmStep
      DEF CleanupPrepare, Goto, CleanupFailed, CleaningOK, Atomic!NotInstalled, Atomic!Installed
  <1>2. CASE CleanupJournal
    <2>1. Same BY <1>2, SameWhenFaithful, SameFiles DEF CleanupJournal, CleaningOK, Unsettled, NoJournal
    <2>2. QED
      BY <1>2, <2>1, HiddenStep, RefuseStep, ConfirmStep
      DEF CleanupJournal, Goto, CleanupFailed, CleaningOK, Atomic!NotInstalled, Atomic!Installed
  <1>3. CASE Purge
    <2>1. Same BY <1>3, SameFiles DEF Purge
    <2>2. CASE pc' = "begin" /\ task' = "apply" /\ task = "recover" /\ UNCHANGED <<plan, result>>
      BY <1>3, <2>1, <2>2, HiddenStep DEF Purge
    <2>3. QED
      BY <1>3, <2>1, <2>2, RefuseStep, ConfirmStep
      DEF Purge, CleanupDone, CleanupFailed, CleaningOK, Atomic!NotInstalled, Atomic!Installed
  <1>4. CASE RemoveTemps
    BY <1>4, SameFiles, HiddenStep DEF RemoveTemps
  <1>5. CASE RestoreDone
    BY <1>5, SameFiles, HiddenStep DEF RestoreDone, disk, Goto
  <1>6. CASE RemoveCreatedDirs
    BY <1>6, SameFiles, HiddenStep, RefuseStep
    DEF RemoveCreatedDirs, RestoringOK, Goto, Atomic!NotInstalled
  <1>7. CASE MarkRestored
    <2>1. Faithful(jnl.entries) BY <1>7 DEF MarkRestored, RestoringOK, Faithful
    <2>2. CASE UNCHANGED jnl /\ Return("residual")
      BY <1>7, <2>2, SameFiles, RefuseStep DEF MarkRestored, RestoringOK, Atomic!NotInstalled
    <2>3. CASE Mark("restored")
      <3>1. ~Unsettled' BY <2>3 DEF Mark, Unsettled, TypeOK, Journal
      <3>2. Same BY <1>7, <2>1, <3>1, SameWhenFaithful DEF MarkRestored
      <3>3. QED BY <1>7, <3>2, HiddenStep, RefuseStep DEF MarkRestored, RestoringOK, Goto, Atomic!NotInstalled
    <2>4. QED BY <1>7, <2>2, <2>3 DEF MarkRestored
  <1>8. ASSUME NEW p \in Paths, RestoreAbsent(p) PROVE Implemented
    <2>1. Unsettled /\ p \in jnl.entries BY <1>8 DEF RestoreAbsent, RestoringOK, Unsettled, Last
    <2>2. Same BY <1>8, <2>1, SameUnderJournal, SameFiles DEF RestoreAbsent
    <2>3. QED BY <1>8, <2>2, HiddenStep DEF RestoreAbsent, Visited
  <1>9. ASSUME NEW p \in Paths, RestoreTemp(p) PROVE Implemented
    BY <1>9, SameFiles, HiddenStep DEF RestoreTemp, Visited, Goto
  <1>10. ASSUME NEW p \in Paths, RestoreRename(p) PROVE Implemented
    <2>1. Unsettled /\ p \in jnl.entries BY <1>10 DEF RestoreRename, RestoringOK, Unsettled, Last
    <2>2. Same BY <1>10, <2>1, SameUnderJournal, SameFiles DEF RestoreRename
    <2>3. QED BY <1>10, <2>2, HiddenStep DEF RestoreRename, Visited
  <1> QED
    BY <1>1, <1>2, <1>3, <1>4, <1>5, <1>6, <1>7, <1>8, <1>9, <1>10 DEF Settle

\* Recovery, backup, seal and the writes stay behind the journal.
LEMMA AdvanceImplemented == IInv /\ IInv' /\ Advance => Implemented
  <1> SUFFICES ASSUME IInv, IInv', Advance PROVE Implemented OBVIOUS
  <1> USE DEF Implemented, IInv
  <1>1. CASE RemoveResidue
    <2>1. (UNCHANGED file /\ jnl' = Unprepared) \/ UNCHANGED <<file, jnl>> BY <1>1 DEF RemoveResidue
    <2>2. jnl.at = "prepare" => Same
      BY <2>1, SameWhenFaithful, SameFiles DEF Unprepared, Unsettled, NoJournal
    <2>3. jnl.at # "prepare" => Same BY <2>1, SameFiles DEF Unprepared
    <2>4. Same BY <2>1, <2>2, <2>3
    <2>5. QED
      BY <1>1, <2>4, HiddenStep, RefuseStep DEF RemoveResidue, StartingOK, Goto, Atomic!NotInstalled
  <1>2. CASE Inspect
    BY <1>2, SameFiles, HiddenStep, RefuseStep DEF Inspect, StartingOK, disk, Goto, Atomic!NotInstalled
  <1>3. CASE BeginJournal
    <2>1. Same BY <1>3, SameWhenFaithful DEF BeginJournal, StartingOK, Unsettled, NoJournal
    <2>2. QED BY <1>3, <2>1, HiddenStep DEF BeginJournal, StartingOK
  <1>4. CASE Seal
    <2>1. Same BY <1>4, SameWhenFaithful, SameFiles DEF Seal, SealingOK, Unsettled, WritingOK, CleaningOK, Sealed, TypeOK, Journal, Faithful
    <2>2. QED BY <1>4, <2>1, HiddenStep DEF Seal, SealingOK, AbortUnsealed
  <1>5. ASSUME NEW p \in Paths, Backup(p) PROVE Implemented
    <2>1. Same BY <1>5, SameWhenFaithful DEF Backup, SealingOK, Saved, Unsettled, TypeOK, Journal
    <2>2. QED BY <1>5, <2>1, HiddenStep DEF Backup, SealingOK, AbortUnsealed
  <1>6. ASSUME NEW p \in Paths, WriteTemp(p) PROVE Implemented
    BY <1>6, SameFiles, HiddenStep DEF WriteTemp, WritingOK, Goto, Undo, RollBack
  <1>7. ASSUME NEW p \in Paths, WriteRename(p) PROVE Implemented
    <2>1. Unsettled /\ p \in jnl.entries BY <1>7 DEF WriteRename, WritingOK, Unsettled, First
    <2>2. Same BY <1>7, <2>1, SameUnderJournal, SameFiles DEF WriteRename
    <2>3. QED BY <1>7, <2>2, HiddenStep DEF WriteRename, WritingOK, Undo, RollBack
  <1> QED
    BY <1>1, <1>2, <1>3, <1>4, <1>5, <1>6, <1>7 DEF Advance

\* The commit marker, confirmed or not, installs the whole plan at one instant.
LEMMA CommitImplemented == IInv /\ MarkCommitted => Implemented
  <1> SUFFICES ASSUME IInv, MarkCommitted PROVE Atomic!ANext BY DEF Implemented
  <1> USE DEF IInv, WritingOK
  <1>1. /\ pc = "mark" /\ Unsettled /\ UNCHANGED file /\ task = "commit"
        /\ \A p \in Paths : p \in jnl.entries <=> plan[p] # Absent
        /\ \A p \in jnl.entries : file[p] = plan[p]
    BY DEF MarkCommitted, Unsettled, Touched
  <1>2. Mark("committed") => ~Unsettled'
    BY DEF Mark, Unsettled, TypeOK, Journal
  <1>3. Mark("committed") => Logical' = Atomic!Overlay(Logical, plan)
    BY <1>1, <1>2 DEF Logical, Atomic!Overlay, TypeOK
  <1>4. CASE Mark("committed") /\ Goto("cleanup")
    BY <1>1, <1>3, <1>4 DEF Goto, Phase, Atomic!ANext, Atomic!Install
  <1>5. CASE Return("commit_failed") /\ (UNCHANGED jnl \/ Mark("committed"))
    <2>1. Logical' \in {Logical, Atomic!Overlay(Logical, plan)}
      BY <1>1, <1>3, <1>5, SameFiles DEF Same
    <2>2. QED
      BY <1>1, <1>5, <2>1
      DEF Return, Phase, Atomic!ANext, Atomic!Doubt, Atomic!End, NoPlan, Atomic!NoPlan
  <1>6. QED BY <1>4, <1>5 DEF MarkCommitted

\* An edit shows in the store unless a pending journal hides it.
LEMMA EditImplemented ==
  ASSUME IInv, NEW p \in Paths, NEW c \in Value, Edit(p, c)
  PROVE  Implemented
  <1> USE DEF IInv, TypeOK, Edit
  <1>0. pc = "idle" /\ UNCHANGED <<pc, plan, result>> BY DEF owner
  <1>1. UNCHANGED <<plan, Phase, result>> /\ Phase = "quiet" BY <1>0 DEF Phase
  <1>2. CASE Unsettled /\ p \in jnl.entries
    BY <1>1, <1>2, SameUnderJournal DEF Implemented, Atomic!avars, Same
  <1>3. CASE ~(Unsettled /\ p \in jnl.entries)
    <2>1. Logical' = [Logical EXCEPT ![p] = c] BY <1>3 DEF Logical, Unsettled
    <2>2. QED BY <1>1, <2>1 DEF Implemented, Atomic!ANext, Atomic!Touch
  <1>4. QED BY <1>2, <1>3

\* Every step is a step of AtomicTarget or none.
LEMMA StepImplemented == IInv /\ IInv' /\ [Next]_vars => Implemented
  <1> SUFFICES ASSUME IInv, IInv', [Next]_vars PROVE Implemented OBVIOUS
  <1> USE DEF IInv
  <1>1. CASE Settle BY <1>1, SettleImplemented
  <1>2. CASE Advance BY <1>2, AdvanceImplemented
  <1>3. ASSUME NEW p \in Paths, NEW c \in Content, CallRewrite(p, c) PROVE Implemented
    <2>1. Same BY <1>3, SameFiles DEF CallRewrite, disk
    <2>2. plan' \in [Paths -> Value] BY <1>3 DEF CallRewrite, TypeOK, Value
    <2>3. QED
      BY <1>3, <2>1, <2>2 DEF CallRewrite, Same, Phase, Implemented, Atomic!ANext, Atomic!Amend
  <1>4. CASE CallRollback
    BY <1>4, SameFiles, HiddenStep DEF CallRollback, RollBack, disk, WritingOK, Implemented
  <1>5. CASE CallCommit
    BY <1>5, SameFiles, HiddenStep DEF CallCommit, disk, WritingOK, Implemented
  <1>6. CASE MarkCommitted BY <1>6, CommitImplemented
  <1>7. ASSUME NEW w \in Plans, StartApply(w) PROVE Implemented
    <2>1. Same BY <1>7, SameFiles DEF StartApply, disk
    <2>2. Phase = "quiet" /\ Phase' = "pending" BY <1>7 DEF StartApply, Phase
    <2>3. plan' \in [Paths -> Value] /\ result' = "none" BY <1>7 DEF StartApply, Plans
    <2>4. QED BY <2>1, <2>2, <2>3 DEF Same, Implemented, Atomic!ANext, Atomic!Begin
  <1>8. CASE Crash
    <2>1. Same /\ Phase # "quiet" BY <1>8, SameFiles DEF Crash, disk, Phase
    <2>2. QED
      BY <1>8, <2>1 DEF Crash, Return, Same, Phase, Implemented, Atomic!ANext, Atomic!Die,
      Atomic!End, NoPlan, Atomic!NoPlan
  <1>9. CASE Heal \/ UNCHANGED vars
    BY <1>9, SameFiles DEF Heal, vars, disk, owner, Same, Phase, Implemented, Atomic!avars
  <1>10. ASSUME NEW p \in Editable, NEW c \in Value, Edit(p, c) PROVE Implemented
    BY <1>10, FaultAssumption, EditImplemented
  <1> QED
    BY <1>1, <1>2, <1>3, <1>4, <1>5, <1>6, <1>7, <1>8, <1>9, <1>10 DEF Next, Owner, Rewrite

\* Whatever fails or dies, an apply installs its whole plan or nothing of it,
\* and reports which: TransactionFS implements AtomicTarget.
THEOREM ImplementsAtomicTarget == Spec => AllOrNothing
  <1>1. Init => Atomic!AInit
    BY DEF Init, Atomic!AInit, Logical, Phase, Unsettled, NoJournal, NoPlan, Atomic!NoPlan
  <1>2. IInv /\ IInv' /\ [Next]_vars => [Atomic!ANext]_(Atomic!avars)
    BY StepImplemented DEF Implemented
  <1>3. QED BY Invariant, <1>1, <1>2, PTL DEF Spec, AllOrNothing, Atomic!ASpec


-----------------------------------------------------------------------------
(* What a transaction creates beside the resources: temporaries and parent *)
(* directories never outlive the journal that lists them                   *)


\* On disk, whoever owns the target: a journal that recovery will roll back
\* lists every temporary, a restored one has no directory left to remove.
OnDisk ==
  /\ temps # {} => Unsettled /\ temps \subseteq jnl.entries
  /\ "restored" \in jnl.marks => jnl.planned \cap dirs = {}

\* In the owner's hands: between two writes there is no temporary, during one
\* there is that of the resource in turn; a restoration that leaves one behind
\* has recorded a failure.
InHand ==
  /\ pc \in {"write", "held", "mark", "cleanup", "purge"} => temps = {}
  /\ pc = "writeRename" => \A p \in temps : First(p)
  /\ pc \in {"restore", "rmdirs", "markRestored"} /\ ~bad => temps = {}
  /\ pc = "restoreRename" /\ ~bad => \A p \in temps : Last(p)
  /\ pc = "markRestored" => jnl.planned \cap dirs = {}

OInv == IInv /\ OnDisk /\ InHand

-----------------------------------------------------------------------------
\* One resource is visited first, and one last.
LEMMA OneFirst == \A p, q \in Paths : First(p) /\ First(q) => p = q
BY NAssumption DEF Paths, First

\* The order of the visits can be read from its end as well.
LEMMA OneLast == \A p, q \in Paths : Last(p) /\ Last(q) => p = q
BY NAssumption DEF Paths, Last

\* At the start there is nothing beside the resources.
LEMMA InitOInv == Init => OInv
BY InitIInv DEF Init, OInv, OnDisk, InHand, NoJournal

\* Every step keeps what is on disk, and in hand, accounted for.
LEMMA OInvStep == OInv /\ [Next]_vars => OInv'
<1> SUFFICES ASSUME OInv, [Next]_vars PROVE OnDisk' /\ InHand'
  BY IInvStep DEF OInv
<1>0. IInv /\ OnDisk /\ InHand  BY DEF OInv
<1> USE <1>0 DEF OnDisk, InHand, Unsettled
<1>1. CASE CleanupPrepare
  BY <1>1 DEF CleanupPrepare, Goto, CleanupFailed, Return, NoJournal, IInv, CleaningOK
<1>2. CASE CleanupJournal
  BY <1>2 DEF CleanupJournal, Goto, CleanupFailed, Return, NoJournal, IInv, CleaningOK
<1>3. CASE Purge
  BY <1>3 DEF Purge, CleanupDone, CleanupFailed, Return, IInv, CleaningOK
<1>4. CASE RemoveTemps
  BY <1>4 DEF RemoveTemps, IInv, RestoringOK
<1>5. CASE RestoreDone
  BY <1>5 DEF RestoreDone, Goto, disk
<1>6. CASE RemoveCreatedDirs
  <2>1. /\ pc = "rmdirs" /\ UNCHANGED <<temps, jnl>> /\ dirs' \subseteq dirs
        /\ \/ Return("residual")
           \/ Goto("markRestored") /\ ~bad /\ dirs' = dirs \ jnl.planned
    BY <1>6 DEF RemoveCreatedDirs
  <2> QED  BY <2>1 DEF Goto, Return
<1>7. CASE MarkRestored
  BY <1>7 DEF MarkRestored, Goto, Return, Mark, IInv, TypeOK, Journal, RestoringOK
<1>8. ASSUME NEW p \in Paths, RestoreAbsent(p)  PROVE OnDisk' /\ InHand'
  BY <1>8 DEF RestoreAbsent, Visited
<1>9. ASSUME NEW p \in Paths, RestoreTemp(p)  PROVE OnDisk' /\ InHand'
  <2>1. pc = "restore" /\ Last(p) /\ UNCHANGED <<dirs, jnl>> /\ Unsettled /\ p \in jnl.entries
    BY <1>9 DEF RestoreTemp, IInv, RestoringOK, Last
  <2>2. CASE temps' = temps \cup {p} /\ Goto("restoreRename")
    <3>1. Last(p)'  BY <2>1, <2>2 DEF Goto, Last
    <3> QED  BY <2>1, <2>2, <3>1 DEF Goto
  <2>3. CASE UNCHANGED temps /\ Visited(p, TRUE)
    BY <2>1, <2>3 DEF Visited
  <2> QED  BY <1>9, <2>2, <2>3 DEF RestoreTemp
<1>10. ASSUME NEW p \in Paths, RestoreRename(p)  PROVE OnDisk' /\ InHand'
  <2>1. ASSUME ~bad, NEW q \in temps  PROVE q = p
    <3>1. Last(p) /\ Last(q) /\ q \in Paths  BY <1>10, <2>1 DEF RestoreRename, IInv, TypeOK
    <3> QED  BY <3>1, OneLast
  <2> QED  BY <1>10, <2>1 DEF RestoreRename, Visited
<1>11. CASE RemoveResidue
  <2>1. UNCHANGED <<temps, dirs>> /\ pc' \in {"inspect", "idle"}
    BY <1>11 DEF RemoveResidue, Goto, Return
  <2>2. jnl' = jnl \/ (temps = {} /\ jnl' = NoJournal)
    BY <1>11 DEF RemoveResidue, Unprepared
  <2>3. NoJournal.marks = {}  BY DEF NoJournal
  <2> QED  BY <2>1, <2>2, <2>3
<1>12. CASE Inspect
  BY <1>12 DEF Inspect, Goto, Return, disk
<1>13. CASE BeginJournal
  BY <1>13 DEF BeginJournal, NoJournal, IInv, StartingOK
<1>14. CASE Seal
  <2>1. temps = {}  BY <1>14 DEF Seal, IInv, SealingOK
  <2>2. Sealed => "restored" \notin jnl'.marks  BY DEF Sealed, IInv, TypeOK, Journal
  <2> QED  BY <1>14, <2>1, <2>2 DEF Seal, AbortUnsealed
<1>15. ASSUME NEW p \in Paths, Backup(p)  PROVE OnDisk' /\ InHand'
  <2>1. temps = {} /\ jnl.marks = {}  BY <1>15 DEF Backup, IInv, SealingOK, JournalOK
  <2>2. Saved(p) => jnl'.marks = jnl.marks  BY DEF Saved, IInv, TypeOK, Journal
  <2> QED  BY <1>15, <2>1, <2>2 DEF Backup, AbortUnsealed
<1>16. ASSUME NEW p \in Paths, WriteTemp(p)  PROVE OnDisk' /\ InHand'
  BY <1>16 DEF WriteTemp, Goto, Undo, RollBack, First, IInv, WritingOK
<1>17. ASSUME NEW p \in Paths, WriteRename(p)  PROVE OnDisk' /\ InHand'
  <2>1. temps \subseteq {p}
    <3>1. ASSUME NEW q \in temps  PROVE q = p
      <4>1. First(p) /\ First(q) /\ q \in Paths  BY <1>17 DEF WriteRename, IInv, TypeOK
      <4> QED  BY <4>1, OneFirst
    <3> QED  BY <3>1
  <2> QED  BY <1>17, <2>1 DEF WriteRename, Undo, RollBack
<1>18. CASE Rewrite
  BY <1>18 DEF Rewrite, CallRewrite, disk
<1>19. CASE CallRollback
  BY <1>19 DEF CallRollback, RollBack, disk
<1>20. CASE CallCommit
  BY <1>20 DEF CallCommit, disk
<1>21. CASE MarkCommitted
  BY <1>21 DEF MarkCommitted, Goto, Return, Mark, IInv, TypeOK, Journal, WritingOK
<1>22. ASSUME NEW w \in Plans, StartApply(w)  PROVE OnDisk' /\ InHand'
  BY <1>22 DEF StartApply, disk
<1>23. CASE Crash
  BY <1>23 DEF Crash, Return, disk
<1>24. CASE Heal
  BY <1>24 DEF Heal, disk, owner, First, Last
<1>25. ASSUME NEW p \in Editable, NEW c \in Value, Edit(p, c)  PROVE OnDisk' /\ InHand'
  BY <1>25 DEF Edit, owner, First, Last
<1>26. CASE UNCHANGED vars
  BY <1>26 DEF vars, disk, owner, First, Last
<1> QED
  BY <1>1, <1>2, <1>3, <1>4, <1>5, <1>6, <1>7, <1>8, <1>9, <1>10, <1>11, <1>12, <1>13, <1>14,
     <1>15, <1>16, <1>17, <1>18, <1>19, <1>20, <1>21, <1>22, <1>23, <1>24, <1>25, <1>26
     DEF Next, Owner, Settle, Advance

\* Whatever step fails or death strikes, no temporary is left that a journal
\* does not list, and no journal is marked restored while a directory it was
\* to remove stands (removeTemps, removeCreatedDirs, seal, Commit).
THEOREM NothingOrphaned == Spec => []NoOrphans
<1>1. OInv => NoOrphans  BY DEF OInv, OnDisk, NoOrphans, Unsettled
<1> QED  BY <1>1, InitOInv, OInvStep, PTL DEF Spec

-----------------------------------------------------------------------------
(* The hosted completion.                                                   *)

Filling == {"backup", "seal"}
Writing == {"write", "writeRename", "held"}
Restoring == {"temps", "restore", "restoreRename", "rmdirs", "markRestored"}
Publishing == {"encode", "append", "publish", "publishRename", "mark"}

\* The apply has begun and its completion has not taken the profile.
Unleased == {"begin", "profile"} \cup Filling \cup Writing

\* What the loops have behind them agrees with the plan.
ProgressOK ==
  /\ pc \in {"idle", "residue", "inspect", "begin"} => states = {} /\ todo = {}
  /\ pc \in Filling => states \cup todo = Touched(plan)
  /\ pc = "seal" => todo = {}
  /\ pc \in Writing =>
       /\ states = Touched(plan)
       /\ \A p \in states \ todo : file[p] = plan[p]
  /\ pc = "held" => todo = {}
  /\ pc \in CompletionPcs => \A p \in Touched(plan) \ {Manifest} : file[p] = plan[p]

\* Only a completion takes the lease, and it publishes under it.
LeaseOK ==
  /\ pc = "idle" => task = "none"
  /\ pc \in {"residue", "inspect"} => task = "recover"
  /\ lease \in {"held", "restored"} => task \in {"complete", "rollback", "commit"}
  /\ pc = "profile" => task = "complete"
  /\ pc \in Unleased => lease \in {"none", "parting"} /\ ~provisional
  /\ pc \in Publishing => lease = "held" /\ profile = want

\* A rollback that has recorded no failure has no profile write left.
ProfileBack ==
  task = "rollback" /\ fate # "tainted" =>
    /\ pc \in Restoring /\ lease \in {"none", "parting"} => ~provisional
    /\ pc \in Restoring /\ lease = "restored" /\ ~bad => ~provisional /\ profile = prior
    /\ pc \in {"cleanup", "purge"} =>
         ~provisional /\ lease # "held" /\ (lease = "restored" => profile = prior)

RestorationOK ==
  /\ pc = "temps" => lease # "restored"
  /\ pc \in {"rmdirs", "markRestored"} => lease # "held"
  /\ pc = "markRestored" => ~bad
  /\ pc = "purge" => jnl.at = "none"
  /\ pc \in Writing \cup CompletionPcs \cup {"mark"} \cup Restoring => jnl.at = "journal"
  /\ jnl.at # "journal" => jnl.marks = {}
  /\ "restored" \in jnl.marks => pc \in {"idle", "residue", "inspect", "cleanup", "purge"}

CInv == HTypeOK /\ ProgressOK /\ LeaseOK /\ ProfileBack /\ RestorationOK

-----------------------------------------------------------------------------
USE DEF Pcs, Tasks, Results, CompletionPcs, Leases, Fates, Statuses

\* The journals that are begun, marked and extended are well typed.
LEMMA JournalTypes ==
  ASSUME jnl \in Journal
  PROVE  /\ NoJournal \in Journal /\ [NoJournal EXCEPT !.at = "prepare"] \in Journal
         /\ \A m \in Marks : Mark(m) => jnl' \in Journal
         /\ Unprepared \in Journal
<1>1. NoJournal \in Journal /\ [NoJournal EXCEPT !.at = "prepare"] \in Journal
  BY DEF NoJournal, Journal, NoPlan, Value, Marks
<1>2. \A m \in Marks : Mark(m) => jnl' \in Journal  BY DEF Mark, Journal
<1> QED  BY <1>1, <1>2 DEF Unprepared

\* So are those that are filled, sealed and extended by the completion.
LEMMA FilledTypes ==
  ASSUME jnl \in Journal, file \in [Paths -> Value], states \in SUBSET Paths
  PROVE  /\ \A p \in Paths : Saved(p) => jnl' \in Journal
         /\ Sealed => jnl' \in Journal
         /\ \A c \in Value : Appended(c) => jnl' \in Journal
<1>1. ASSUME NEW p \in Paths, Saved(p)  PROVE jnl' \in Journal
  BY <1>1 DEF Saved, Journal
<1>2. ASSUME Sealed  PROVE jnl' \in Journal
  <2>1. {DirOf[p] : p \in states} \ dirs \in SUBSET Dirs  BY DirAssumption
  <2>2. ASSUME NEW D \in SUBSET Dirs
        PROVE  [jnl EXCEPT !.at = "journal", !.marks = {"prepared"}, !.planned = D] \in Journal
    BY DEF Journal, Marks
  <2> QED  BY <1>2, <2>1, <2>2 DEF Sealed
<1>3. ASSUME NEW c \in Value, Appended(c)  PROVE jnl' \in Journal
  <2>1. Manifest \in Paths  BY NAssumption DEF Manifest, Paths
  <2> QED  BY <1>3, <2>1 DEF Appended, Journal
<1> QED  BY <1>1, <1>2, <1>3

\* The variables TransactionFS and the completion share, and those they do not.
DataOK ==
  /\ file \in [Paths -> Value] /\ temps \in SUBSET Paths /\ dirs \in SUBSET Dirs
  /\ jnl \in Journal /\ residue \in BOOLEAN
  /\ pc \in Pcs \cup CompletionPcs /\ task \in Tasks \cup {"complete"}
  /\ plan \in [Paths -> Value] /\ todo \in SUBSET Paths /\ states \in SUBSET Paths
  /\ result \in Results /\ bad \in BOOLEAN /\ healthy \in BOOLEAN

LeaseTypeOK ==
  /\ provisional \in BOOLEAN /\ changed \in BOOLEAN
  /\ profile \in Profiles /\ want \in Profiles /\ prior \in Profiles
  /\ lease \in Leases /\ fate \in Fates /\ status \in Statuses

\* Together they are the type invariant.
LEMMA TypeParts == HTypeOK <=> DataOK /\ LeaseTypeOK
BY DEF HTypeOK, DataOK, LeaseTypeOK

\* What leaving the target does to the owner's variables is well typed.
LEMMA ReturnTypes ==
  ASSUME NEW r \in Results, Return(r)
  PROVE  /\ pc' \in Pcs /\ task' \in Tasks /\ plan' \in [Paths -> Value] /\ result' \in Results
         /\ todo' \in SUBSET Paths /\ states' \in SUBSET Paths /\ bad' \in BOOLEAN
BY DEF Return, NoPlan, Value

\* The steps on the journal keep the variables of TransactionFS in their types.
LEMMA SettleType == DataOK /\ Settle => DataOK'
<1> SUFFICES ASSUME DataOK, Settle PROVE DataOK'  OBVIOUS
<1> USE JournalTypes, ReturnTypes DEF DataOK
<1>1. CASE CleanupPrepare  BY <1>1 DEF CleanupPrepare, Goto, CleanupFailed
<1>2. CASE CleanupJournal  BY ZenonT(40), <1>2 DEF CleanupJournal, Goto, CleanupFailed
<1>3. CASE Purge  BY <1>3 DEF Purge, CleanupDone, CleanupFailed
<1>4. CASE RemoveTemps  BY <1>4 DEF RemoveTemps
<1>5. CASE RestoreDone  BY <1>5 DEF RestoreDone, Goto, disk
<1>6. CASE RemoveCreatedDirs  BY <1>6 DEF RemoveCreatedDirs, Goto
<1>7. CASE MarkRestored  BY <1>7 DEF MarkRestored, Goto, Marks
<1>8. ASSUME NEW p \in Paths, RestoreAbsent(p)  PROVE DataOK'
  BY ZenonT(40), <1>8 DEF RestoreAbsent, Visited, Value, Last
<1>9. ASSUME NEW p \in Paths, RestoreTemp(p)  PROVE DataOK'
  BY ZenonT(40), <1>9 DEF RestoreTemp, Visited, Goto, Last
<1>10. ASSUME NEW p \in Paths, RestoreRename(p)  PROVE DataOK'
  <2>1. jnl.backup[p] \in Value  BY DEF Journal
  <2> QED  BY ZenonT(40), <1>10, <2>1 DEF RestoreRename, Visited, Last
<1> QED
  BY <1>1, <1>2, <1>3, <1>4, <1>5, <1>6, <1>7, <1>8, <1>9, <1>10 DEF Settle

\* The steps that do not give up keep the shared variables well typed.
LEMMA AdvanceType == DataOK /\ Advance => DataOK'
<1> SUFFICES ASSUME DataOK, Advance PROVE DataOK'  OBVIOUS
<1> USE JournalTypes, ReturnTypes DEF DataOK
<1>1. CASE RemoveResidue  BY ZenonT(40), <1>1 DEF RemoveResidue, Goto
<1>2. CASE Inspect  BY <1>2 DEF Inspect, Goto, disk, Journal
<1>3. CASE BeginJournal  BY <1>3 DEF BeginJournal, Touched
<1>4. CASE Seal  BY <1>4, FilledTypes DEF Seal, AbortUnsealed
<1>5. ASSUME NEW p \in Paths, Backup(p)  PROVE DataOK'
  BY <1>5, FilledTypes DEF Backup, AbortUnsealed, First
<1>6. ASSUME NEW p \in Paths, WriteTemp(p)  PROVE DataOK'
  BY <1>6, DirAssumption DEF WriteTemp, Goto, Undo, RollBack, First, Journal
<1>7. ASSUME NEW p \in Paths, WriteRename(p)  PROVE DataOK'
  BY <1>7 DEF WriteRename, Undo, RollBack, First
<1> QED  BY <1>1, <1>2, <1>3, <1>4, <1>5, <1>6, <1>7 DEF Advance

\* An ending keeps the completion's variables in theirs.
LEMMA EndingType == LeaseTypeOK /\ Ending => LeaseTypeOK'
<1> SUFFICES ASSUME LeaseTypeOK, Ending PROVE LeaseTypeOK'  OBVIOUS
<1>1. CASE pc' = "idle"
  <2>1. Report(result') \in Statuses  BY DEF Report
  <2>2. (result' \in {"committed", "cleanup_failed"}) \in BOOLEAN  OBVIOUS
  <2>3. changed' \in BOOLEAN
    <3>1. changed' = (result' \in {"committed", "cleanup_failed"})  BY <1>1 DEF Ending, Released
    <3> QED  BY <3>1
  <2>4. status' \in Statuses /\ lease' \in Leases /\ fate' \in Fates
    BY <1>1, <2>1 DEF Ending, Released
  <2> QED  BY <1>1, <2>3, <2>4 DEF Ending, Released, LeaseTypeOK
<1>2. CASE pc' # "idle"
  <2>1. provisional' = (provisional /\ pc' # "begin")  BY <1>2 DEF Ending
  <2>2. provisional' \in BOOLEAN  BY <2>1
  <2> QED  BY <1>2, <2>2 DEF Ending, LeaseTypeOK
<1> QED  BY <1>1, <1>2

\* The shape of the variables a step leaves alone is left alone.
LEMMA DataKept == DataOK /\ UNCHANGED vars => DataOK'
<1> SUFFICES ASSUME DataOK, UNCHANGED vars PROVE DataOK'  OBVIOUS
<1>1. UNCHANGED disk /\ UNCHANGED owner /\ UNCHANGED healthy  BY DEF vars
<1>2. UNCHANGED <<file, temps, dirs, jnl, residue>>  BY <1>1 DEF disk
<1>3. UNCHANGED <<pc, task, plan, todo, states, bad, result>>  BY <1>1 DEF owner
<1> QED  BY <1>1, <1>2, <1>3 DEF DataOK

\* Every step keeps the shape of the state.
LEMMA HTypeStep == HTypeOK /\ [HNext]_hvars => HTypeOK'
<1> SUFFICES ASSUME DataOK, LeaseTypeOK, [HNext]_hvars PROVE DataOK' /\ LeaseTypeOK'
  BY TypeParts DEF HTypeOK, DataOK, LeaseTypeOK
<1>0. Manifest \in Paths /\ DirOf[Manifest] \in Dirs
  BY NAssumption, DirAssumption DEF Manifest, Paths
<1>1. CASE JournalStep
  <2>1. DataOK'  BY <1>1, SettleType, AdvanceType DEF JournalStep
  <2>2. LeaseTypeOK'  BY <1>1, EndingType DEF JournalStep
  <2> QED  BY <2>1, <2>2
<1> USE DEF DataOK, LeaseTypeOK
<1>2. CASE HandOff  BY <1>2 DEF HandOff, disk, completion
<1>3. CASE BeginProfile  BY <1>3 DEF BeginProfile, Goto, disk
<1>4. CASE ProfileRefused  BY <1>4 DEF ProfileRefused, RollBack, disk
<1>5. CASE Encode  BY <1>0, <1>5 DEF Encode, RollBack, disk, completion, Value
<1>6. CASE AppendBackup
  BY <1>0, <1>6, FilledTypes DEF AppendBackup, RollBack, completion, Value
<1>7. CASE PublishTemp  BY <1>0, <1>7 DEF PublishTemp, Goto, RollBack, completion
<1>8. CASE PublishRename  BY <1>0, <1>8 DEF PublishRename, Goto, RollBack, completion
<1>9. CASE Decide
  <2>1. jnl' \in Journal
    <3>1. Mark("committed") => jnl' \in Journal  BY JournalTypes DEF Marks
    <3> QED  BY <1>9, <3>1 DEF Decide
  <2>2. provisional' \in BOOLEAN  BY <1>9 DEF Decide
  <2>3. pc' \in Pcs /\ task' \in Tasks /\ todo' \in SUBSET Paths
    BY <1>9 DEF Decide, RollBack
  <2> QED  BY <1>9, <2>1, <2>2, <2>3 DEF Decide, RollBack
<1>10. CASE RestoreProfile
  <2>1. bad' \in BOOLEAN /\ profile' \in Profiles  BY <1>10 DEF RestoreProfile
  <2>2. provisional' \in BOOLEAN
    <3>1. provisional' = (provisional /\ profile' # prior)  BY <1>10 DEF RestoreProfile
    <3>2. CASE profile' # prior  BY <3>1, <3>2
    <3>3. CASE profile' = prior  BY <3>1, <3>3
    <3> QED  BY <3>2, <3>3
  <2> QED  BY <1>10, <2>1, <2>2 DEF RestoreProfile, disk
<1>11. CASE GiveUpLease
  <2>1. DataOK'  BY <1>11, DataKept DEF GiveUpLease
  <2>2. changed' \in BOOLEAN /\ status' \in Statuses  BY <1>11 DEF GiveUpLease
  <2> QED  BY <1>11, <2>1, <2>2 DEF GiveUpLease
<1>12. ASSUME NEW w \in Plans, NEW u \in Profiles, Begin(w, u)  PROVE DataOK' /\ LeaseTypeOK'
  BY <1>12 DEF Begin, StartApply, Plans, disk
<1>13. CASE Cancel  BY <1>13 DEF Cancel, CallRollback, RollBack, disk
<1>14. CASE FinalizeFailed  BY <1>14 DEF FinalizeFailed, CallRollback, RollBack, disk, completion
<1>15. ASSUME NEW c \in Content, Finalize(c)  PROVE DataOK' /\ LeaseTypeOK'
  BY <1>15 DEF Finalize, CallRewrite, disk, completion, Value
<1>16. CASE Die  BY <1>16, ReturnTypes DEF Die, Crash, disk
<1>17. ASSUME NEW u \in Profiles, Select(u)  PROVE DataOK' /\ LeaseTypeOK'
  <2>1. DataOK'  BY <1>17, DataKept DEF Select
  <2> QED  BY <1>17, <2>1 DEF Select
<1>18. CASE UNCHANGED hvars  BY <1>18 DEF hvars, vars, disk, owner, completion
<1> QED
  BY <1>1, <1>2, <1>3, <1>4, <1>5, <1>6, <1>7, <1>8, <1>9, <1>10, <1>11, <1>12, <1>13, <1>14,
     <1>15, <1>16, <1>17, <1>18 DEF HNext, Complete

-----------------------------------------------------------------------------
\* What the invariant asks of the steps, without the types.
Staged == ProgressOK /\ LeaseOK /\ ProfileBack /\ RestorationOK

\* At the start nothing is under way.
LEMMA InitCInv == HInit => CInv
<1> SUFFICES ASSUME HInit PROVE CInv  OBVIOUS
<1>1. NoJournal \in Journal  BY DEF NoJournal, Journal, NoPlan, Value, Marks
<1>2. HTypeOK  BY <1>1 DEF HInit, Init, HTypeOK, NoPlan, Value
<1>3. Staged
  BY DEF HInit, Init, Staged, ProgressOK, LeaseOK, ProfileBack, RestorationOK, NoJournal,
         Filling, Writing, Restoring, Publishing, Unleased
<1> QED  BY <1>2, <1>3 DEF CInv, Staged

\* An apply that ends gives up its lease and its task with the target.
LEMMA EndsStaged ==
  ASSUME CInv, Return(result'), Ending, jnl'.at # "journal" => jnl'.marks = {}
  PROVE  Staged'
<1>1. pc' = "idle" /\ task' = "none" /\ todo' = {} /\ states' = {} /\ lease' \in {"none", "parting"}
  BY DEF Return, Ending, Released
<1> QED
  BY <1>1 DEF Staged, ProgressOK, LeaseOK, ProfileBack, RestorationOK,
              Filling, Writing, Restoring, Publishing, Unleased

\* The other steps on the journal leave profile and lease alone.
Unended ==
  /\ provisional' = (provisional /\ pc' # "begin")
  /\ UNCHANGED <<profile, want, lease, prior, fate>>

\* Cleanup and restoration.
LEMMA SettleStaged == CInv /\ ~ProfileDue /\ Settle /\ Ending => Staged'
<1> SUFFICES ASSUME CInv, ~ProfileDue, Settle, Ending PROVE Staged'  OBVIOUS
<1>0. pc' # "idle" => Unended  BY DEF Ending, Unended
<1>r. \A r \in Results : Return(r) => Return(result') /\ pc' = "idle"  BY DEF Return
<1> USE DEF CInv, HTypeOK, Staged, ProgressOK, LeaseOK, ProfileBack, RestorationOK, Unended,
            Filling, Writing, Restoring, Publishing, Unleased
<1>1. CASE CleanupPrepare
  <2>1. jnl' \in {jnl, NoJournal}  BY <1>1 DEF CleanupPrepare
  <2>2. NoJournal.at = "none" /\ NoJournal.marks = {}  BY DEF NoJournal
  <2>3. CASE jnl' = NoJournal /\ Goto("purge")
    BY <1>0, <1>1, <2>2, <2>3 DEF CleanupPrepare, Goto
  <2>4. CASE CleanupFailed
    BY <1>r, <2>1, <2>2, <2>4, EndsStaged DEF CleanupFailed
  <2> QED  BY <1>1, <2>3, <2>4 DEF CleanupPrepare
<1>2. CASE CleanupJournal
  <2>1. jnl' \in {jnl, NoJournal}  BY <1>2 DEF CleanupJournal
  <2>2. NoJournal.at = "none" /\ NoJournal.marks = {}  BY DEF NoJournal
  <2>3. CASE jnl' = NoJournal /\ Goto("purge")
    BY <1>0, <1>2, <2>2, <2>3 DEF CleanupJournal, Goto
  <2>4. CASE CleanupFailed
    BY <1>r, <2>1, <2>2, <2>4, EndsStaged DEF CleanupFailed
  <2> QED  BY <1>2, <2>3, <2>4 DEF CleanupJournal
<1>3. CASE Purge
  <2>1. CASE task = "recover" /\ CleanupDone
    BY <1>0, <1>3, <2>1 DEF Purge, CleanupDone
  <2>2. CASE task # "recover" /\ CleanupDone
    BY <1>r, <1>3, <2>2, EndsStaged DEF Purge, CleanupDone
  <2>3. CASE CleanupFailed
    BY <1>r, <1>3, <2>3, EndsStaged DEF Purge, CleanupFailed
  <2> QED  BY <1>3, <2>1, <2>2, <2>3 DEF Purge
<1>4. CASE RemoveTemps
  BY <1>0, <1>4 DEF RemoveTemps
<1>5. CASE RestoreDone
  BY <1>0, <1>5 DEF RestoreDone, Goto, disk, ProfileDue
<1>6. CASE RemoveCreatedDirs
  <2>1. CASE Return("residual")  BY <1>r, <1>6, <2>1, EndsStaged DEF RemoveCreatedDirs
  <2>2. CASE Goto("markRestored") /\ ~bad
    BY <1>0, <1>6, <2>2 DEF RemoveCreatedDirs, Goto
  <2> QED  BY <1>6, <2>1, <2>2 DEF RemoveCreatedDirs
<1>7. CASE MarkRestored
  <2>1. Mark("restored") => jnl'.at = jnl.at /\ jnl'.marks = jnl.marks \cup {"restored"}
    BY DEF Mark, Journal
  <2>2. CASE Mark("restored") /\ Goto("cleanup")
    BY <1>0, <1>7, <2>1, <2>2 DEF MarkRestored, Goto
  <2>3. CASE Return("residual")
    BY <1>r, <1>7, <2>1, <2>3, EndsStaged DEF MarkRestored
  <2> QED  BY <1>7, <2>2, <2>3 DEF MarkRestored
<1>8. ASSUME NEW p \in Paths, RestoreAbsent(p)  PROVE Staged'
  BY <1>0, <1>8 DEF RestoreAbsent, Visited
<1>9. ASSUME NEW p \in Paths, RestoreTemp(p)  PROVE Staged'
  <2>1. CASE Goto("restoreRename")  BY <1>0, <1>9, <2>1 DEF RestoreTemp, Goto
  <2>2. CASE Visited(p, TRUE)  BY <1>0, <1>9, <2>2 DEF RestoreTemp, Visited
  <2> QED  BY <1>9, <2>1, <2>2 DEF RestoreTemp
<1>10. ASSUME NEW p \in Paths, RestoreRename(p)  PROVE Staged'
  BY <1>0, <1>10 DEF RestoreRename, Visited
<1> QED
  BY <1>1, <1>2, <1>3, <1>4, <1>5, <1>6, <1>7, <1>8, <1>9, <1>10 DEF Settle

\* Recovery, backup, seal and the writes.
LEMMA AdvanceStaged == CInv /\ Advance /\ Ending => Staged'
<1> SUFFICES ASSUME CInv, Advance, Ending PROVE Staged'  OBVIOUS
<1>0. pc' # "idle" => Unended  BY DEF Ending, Unended
<1>r. \A r \in Results : Return(r) => Return(result') /\ pc' = "idle"  BY DEF Return
<1> USE DEF CInv, HTypeOK, Staged, ProgressOK, LeaseOK, ProfileBack, RestorationOK, Unended,
            Filling, Writing, Restoring, Publishing, Unleased
<1>1. CASE RemoveResidue
  <2>1. jnl' = jnl \/ (jnl'.at = "none" /\ jnl'.marks = {})
    <3>1. jnl' \in {jnl, NoJournal}  BY <1>1 DEF RemoveResidue, Unprepared
    <3> QED  BY <3>1 DEF NoJournal
  <2>2. CASE Goto("inspect")  BY <1>0, <1>1, <2>1, <2>2 DEF RemoveResidue, Goto
  <2>3. CASE Return("residual")  BY <1>r, <2>1, <2>3, EndsStaged
  <2> QED  BY <1>1, <2>2, <2>3 DEF RemoveResidue
<1>2. CASE Inspect
  <2>1. CASE Return("residual")  BY <1>r, <1>2, <2>1, EndsStaged DEF Inspect, disk
  <2>2. CASE ~Return("residual")
    BY <1>0, <1>2, <2>2 DEF Inspect, Goto, disk, Unsettled
  <2> QED  BY <2>1, <2>2
<1>3. CASE BeginJournal
  <2>1. jnl' = jnl \/ (jnl'.at = "prepare" /\ jnl'.marks = {})
    BY <1>3 DEF BeginJournal, NoJournal
  <2>2. CASE pc' = "backup"  BY <1>0, <1>3, <2>1, <2>2 DEF BeginJournal
  <2>3. CASE pc' = "cleanup"  BY <1>0, <1>3, <2>1, <2>3 DEF BeginJournal
  <2> QED  BY <1>3, <2>2, <2>3 DEF BeginJournal
<1>4. CASE Seal
  <2>1. Sealed => jnl'.at = "journal" /\ jnl'.marks = {"prepared"}  BY DEF Sealed, Journal
  <2>2. CASE AbortUnsealed
    BY <1>0, <1>4, <2>1, <2>2 DEF Seal, AbortUnsealed
  <2>3. CASE Sealed /\ pc' = "write"
    <3>1. /\ pc = "seal" /\ todo' = states /\ UNCHANGED <<file, task, plan, states, bad>>
          /\ states = Touched(plan)
      BY <1>4, <2>3 DEF Seal, AbortUnsealed
    <3>2. ProgressOK'  BY <2>3, <3>1 DEF Touched
    <3>3. LeaseOK' /\ ProfileBack' /\ RestorationOK'  BY <1>0, <2>1, <2>3, <3>1
    <3> QED  BY <3>2, <3>3
  <2> QED  BY <1>4, <2>2, <2>3 DEF Seal
<1>5. ASSUME NEW p \in Paths, Backup(p)  PROVE Staged'
  <2>1. Saved(p) => jnl'.at = jnl.at /\ jnl'.marks = jnl.marks  BY DEF Saved, Journal
  <2>2. CASE AbortUnsealed /\ UNCHANGED jnl
    BY <1>0, <1>5, <2>2 DEF Backup, AbortUnsealed
  <2>3. CASE Saved(p) /\ states' = states \cup {p} /\ pc' \in Filling
    <3>1. /\ pc = "backup" /\ p \in todo /\ UNCHANGED <<file, task, plan, bad>>
          /\ todo' = todo \ {p} /\ pc' = IF todo' = {} THEN "seal" ELSE "backup"
      BY <1>5, <2>3 DEF Backup, First, AbortUnsealed, Saved
    <3>2. ProgressOK'  BY <2>3, <3>1 DEF Touched
    <3>3. LeaseOK' /\ ProfileBack' /\ RestorationOK'  BY <1>0, <2>1, <2>3, <3>1
    <3> QED  BY <3>2, <3>3
  <2> QED  BY <1>5, <2>2, <2>3 DEF Backup
<1>6. ASSUME NEW p \in Paths, WriteTemp(p)  PROVE Staged'
  <2>1. CASE Goto("writeRename")  BY <1>0, <1>6, <2>1 DEF WriteTemp, Goto
  <2>2. CASE Undo  BY <1>0, <1>6, <2>2 DEF WriteTemp, Undo, RollBack
  <2> QED  BY <1>6, <2>1, <2>2 DEF WriteTemp
<1>7. ASSUME NEW p \in Paths, WriteRename(p)  PROVE Staged'
  <2>1. CASE Undo  BY <1>0, <1>7, <2>1 DEF WriteRename, Undo, RollBack
  <2>2. CASE todo' = todo \ {p} /\ pc' \in {"write", "held"} /\ file' = [file EXCEPT ![p] = plan[p]]
    <3>1. pc = "writeRename" /\ UNCHANGED <<jnl, task, plan, states, bad>>
          /\ pc' = IF todo' = {} THEN "held" ELSE "write"
      BY <1>7, <2>2 DEF WriteRename, Undo, RollBack
    <3>2. ProgressOK'  BY <2>2, <3>1 DEF Touched
    <3>3. LeaseOK' /\ ProfileBack' /\ RestorationOK'  BY <1>0, <2>2, <3>1
    <3> QED  BY <3>2, <3>3
  <2> QED  BY <1>7, <2>1, <2>2 DEF WriteRename
<1> QED  BY <1>1, <1>2, <1>3, <1>4, <1>5, <1>6, <1>7 DEF Advance

\* The completion's own steps, its callers', and those of others.
LEMMA CompleteStaged == CInv /\ HTypeOK' /\ [HNext]_hvars => Staged'
<1> SUFFICES ASSUME CInv, HTypeOK', [HNext]_hvars PROVE Staged'  OBVIOUS
<1>0. Manifest \in Paths  BY NAssumption DEF Manifest, Paths
<1>1. CASE JournalStep  BY <1>1, SettleStaged, AdvanceStaged DEF JournalStep
<1> USE DEF CInv, HTypeOK, Staged, ProgressOK, LeaseOK, ProfileBack, RestorationOK,
            Filling, Writing, Restoring, Publishing, Unleased
<1>2. CASE HandOff  BY <1>2 DEF HandOff, disk, completion
<1>3. CASE BeginProfile
  <2>1. /\ pc = "profile" /\ pc' = "encode" /\ lease' = "held" /\ profile' = want /\ want' = want
        /\ UNCHANGED <<task, plan, todo, states, file, jnl>>
    BY <1>3 DEF BeginProfile, Goto, disk
  <2>2. task = "complete"  BY <2>1
  <2> QED  BY <2>1, <2>2
<1>4. CASE ProfileRefused  BY <1>4 DEF ProfileRefused, RollBack, disk
<1>5. CASE Encode
  <2>1. CASE RollBack("rollback")  BY <1>5, <2>1 DEF Encode, RollBack, disk, completion
  <2>2. ASSUME NEW c \in Content, plan' = [plan EXCEPT ![Manifest] = c], pc' = "append",
               UNCHANGED <<task, todo, states, bad, result>>
        PROVE  Staged'
    <3>1. Touched(plan)' \ {Manifest} \subseteq Touched(plan) \ {Manifest}
      BY <2>2 DEF Touched
    <3>2. \A p \in Paths \ {Manifest} : plan'[p] = plan[p]  BY <2>2
    <3>3. ProgressOK'  BY <1>5, <2>2, <3>1, <3>2 DEF Encode, disk, Touched
    <3> QED  BY <1>5, <2>2, <3>3 DEF Encode, disk, completion
  <2> QED  BY <1>5, <2>1, <2>2 DEF Encode
<1>6. CASE AppendBackup
  <2>1. \A c : Appended(c) => jnl'.at = jnl.at /\ jnl'.marks = jnl.marks
    BY DEF Appended, Journal
  <2>2. UNCHANGED jnl \/ (jnl'.at = jnl.at /\ jnl'.marks = jnl.marks)
    BY <1>6, <2>1 DEF AppendBackup
  <2>3. CASE RollBack("rollback")
    BY <1>6, <2>2, <2>3 DEF AppendBackup, RollBack, completion
  <2>4. CASE pc' = "publish"
    BY <1>6, <2>2, <2>4 DEF AppendBackup, RollBack, completion
  <2> QED  BY <1>6, <2>3, <2>4 DEF AppendBackup
<1>7. CASE PublishTemp
  <2>1. CASE RollBack("rollback")  BY <1>7, <2>1 DEF PublishTemp, RollBack, completion
  <2>2. CASE Goto("publishRename")  BY <1>7, <2>2 DEF PublishTemp, Goto, completion
  <2> QED  BY <1>7, <2>1, <2>2 DEF PublishTemp
<1>8. CASE PublishRename
  <2>1. CASE RollBack("rollback")  BY <1>8, <2>1 DEF PublishRename, RollBack, completion
  <2>2. CASE Goto("mark")  BY <1>8, <2>2 DEF PublishRename, Goto, completion
  <2> QED  BY <1>8, <2>1, <2>2 DEF PublishRename
<1>9. CASE Decide
  <2>1. Mark("committed") =>
          jnl'.at = jnl.at /\ ("restored" \in jnl'.marks => "restored" \in jnl.marks)
    BY DEF Mark, Journal
  <2>2. CASE pc' = "cleanup"  BY <1>9, <2>1, <2>2 DEF Decide, RollBack
  <2>3. CASE RollBack("rollback")  BY <1>9, <2>1, <2>3 DEF Decide, RollBack
  <2> QED  BY <1>9, <2>2, <2>3 DEF Decide
<1>10. CASE RestoreProfile
  <2>1. pc = "restore" /\ lease' = "restored" /\ task' = task /\ pc' = pc /\ fate' = fate
    BY <1>10 DEF RestoreProfile, ProfileDue
  <2>2. ~bad' => profile' = prior' /\ ~provisional'
    BY <1>10 DEF RestoreProfile
  <2> QED  BY <1>10, <2>1, <2>2 DEF RestoreProfile, ProfileDue, disk
<1>11. CASE GiveUpLease
  <2>1. UNCHANGED disk /\ UNCHANGED owner  BY <1>11 DEF GiveUpLease, vars
  <2> QED  BY <1>11, <2>1 DEF GiveUpLease, disk, owner
<1>12. ASSUME NEW w \in Plans, NEW u \in Profiles, Begin(w, u)  PROVE Staged'
  BY <1>12 DEF Begin, StartApply, disk
<1>13. CASE Cancel  BY <1>13 DEF Cancel, CallRollback, RollBack, disk
<1>14. CASE FinalizeFailed  BY <1>14 DEF FinalizeFailed, CallRollback, RollBack, disk, completion
<1>15. ASSUME NEW c \in Content, Finalize(c)  PROVE Staged'
  <2>1. c # Absent  BY ValueAssumption
  <2>2. /\ pc = "held" /\ Hosted \in states /\ todo' = {Hosted} /\ pc' = "write"
        /\ plan' = [plan EXCEPT ![Hosted] = c] /\ UNCHANGED <<states, disk, completion>>
        /\ task' = "finalize" /\ task = "apply"
    BY <1>15 DEF Finalize, CallRewrite
  <2>3. Touched(plan)' = Touched(plan)  BY <2>1, <2>2 DEF Touched
  <2> QED  BY <2>2, <2>3 DEF disk, completion
<1>16. CASE Die
  <2>1. pc' = "idle" /\ task' = "none" /\ todo' = {} /\ states' = {} /\ lease' \in {"none", "parting"}
        /\ UNCHANGED jnl
    BY <1>16 DEF Die, Crash, Return, disk
  <2> QED  BY <2>1
<1>17. ASSUME NEW u \in Profiles, Select(u)  PROVE Staged'
  <2>1. UNCHANGED disk /\ UNCHANGED owner  BY <1>17 DEF Select, vars
  <2> QED  BY <1>17, <2>1 DEF Select, disk, owner
<1>18. CASE UNCHANGED hvars
  <2>1. UNCHANGED disk /\ UNCHANGED owner /\ UNCHANGED completion  BY <1>18 DEF hvars, vars
  <2> QED  BY <2>1 DEF disk, owner, completion
<1> QED
  BY <1>1, <1>2, <1>3, <1>4, <1>5, <1>6, <1>7, <1>8, <1>9, <1>10, <1>11, <1>12, <1>13, <1>14,
     <1>15, <1>16, <1>17, <1>18 DEF HNext, Complete

-----------------------------------------------------------------------------
\* Every step keeps the invariant.
LEMMA CInvStep == CInv /\ [HNext]_hvars => CInv'
<1> SUFFICES ASSUME CInv, [HNext]_hvars PROVE CInv'  OBVIOUS
<1>1. HTypeOK'  BY HTypeStep DEF CInv
<1>2. Staged'  BY <1>1, CompleteStaged
<1> QED  BY <1>1, <1>2 DEF CInv, Staged

\* The invariant holds throughout.
LEMMA CInvariant == HSpec => []CInv
BY InitCInv, CInvStep, PTL DEF HSpec

\* The canonical apply keeps the journal, the profile store and what it tells
\* its caller well formed, whatever fails, dies or is selected meanwhile.
THEOREM CompletionTypeCorrect == HSpec => []HTypeOK
<1>1. CInv => HTypeOK  BY DEF CInv
<1> QED  BY <1>1, CInvariant, PTL

\* A rollback settles the journal only with the selection its lease captured
\* back in the profile store: there is no state in which the resources are as
\* before and the profile is not (rollbackHostedMCPCompletionD).
THEOREM RollbackTakesTheProfile == HSpec => []RollbackIsCoherent
<1>1. CInv => RollbackIsCoherent
  <2> SUFFICES ASSUME CInv, "restored" \in jnl.marks, task = "rollback", fate # "tainted"
               PROVE  ~provisional /\ (lease \in {"held", "restored"} => profile = prior)
    BY DEF RollbackIsCoherent
  <2>1. pc \in {"idle", "residue", "inspect", "cleanup", "purge"}
    BY DEF CInv, RestorationOK
  <2>2. pc \in {"cleanup", "purge"}  BY <2>1 DEF CInv, LeaseOK
  <2> QED  BY <2>2 DEF CInv, ProfileBack
<1> QED  BY <1>1, CInvariant, PTL

\* The manifest is the last resource to change: when it is published, every
\* other planned resource has its final contents and the profile is written
\* and held (completeHostedMCPCompletion).
THEOREM ManifestIsLast == HSpec => ManifestLast
<1>1. CInv => [pc = "publishRename" /\ file'[Manifest] # file[Manifest] =>
                 /\ lease = "held" /\ profile = want
                 /\ \A p \in Touched(plan) \ {Manifest} : file[p] = plan[p]]_hvars
  BY DEF CInv, ProgressOK, LeaseOK, Publishing
<1> QED  BY <1>1, CInvariant, PTL DEF ManifestLast

-----------------------------------------------------------------------------
(* The whole canonical apply implements AtomicTarget.  Only while the      *)
(* completion has the journal is there something to prove: all the other   *)
(* steps are steps of TransactionFS, and have been dealt with above.       *)


\* The completion has the journal.
Completing == pc \in CompletionPcs \cup {"mark"}

\* Every resource but the manifest has its final contents; the manifest joins
\* the plan when it is encoded, and the journal before it is written.
CompletingOK ==
  /\ file \in [Paths -> Value] /\ temps \in SUBSET Paths /\ dirs \in SUBSET Dirs
  /\ jnl \in Journal /\ residue \in BOOLEAN /\ healthy \in BOOLEAN
  /\ plan \in [Paths -> Value] /\ states \in SUBSET Paths /\ result \in Results /\ bad \in BOOLEAN
  /\ task = "complete" /\ todo = {}
  /\ jnl.at = "journal" /\ jnl.marks = {"prepared"} /\ jnl.entries = states
  /\ \A p \in states \ {Manifest} : file[p] = plan[p]
  /\ pc \in {"profile", "encode"} => states = Touched(plan)
  /\ pc \in {"profile", "encode", "append"} => Manifest \notin states
  /\ pc = "append" => states \cup {Manifest} = Touched(plan)
  /\ pc \in {"publish", "publishRename", "mark"} => Manifest \in states /\ states = Touched(plan)
  /\ pc = "mark" => file[Manifest] = plan[Manifest]

\* Nobody else plans to write the manifest.
PlanOK ==
  plan[Manifest] # Absent =>
    \/ task \in {"rollback", "commit"}
    \/ Completing /\ pc \notin {"profile", "encode"}

RInv ==
  /\ ~Completing => IInv
  /\ Completing => JournalOK /\ CompletingOK
  /\ PlanOK

\* The faults after which the code itself does not keep the promise: the commit
\* marker is written and the rollback begins, or the header lists a manifest
\* whose backup has been deleted (the run commit_fault shows the first).
NoTornHeader == LateFaults \cap {"commit", "header"} = {}

-----------------------------------------------------------------------------
USE DEF CompletionPcs, Pcs, Tasks, Results

\* The manifest is a resource, and not the finalizer's.
LEMMA ManifestIsAPath == Manifest \in Paths /\ Hosted \in Paths /\ Hosted # Manifest
BY NAssumption, HostedAssumption DEF Manifest, Paths

\* The steps on the journal are those of TransactionFS, and not the completion's.
LEMMA JournalSteps == ASSUME RInv, Settle \/ Advance  PROVE Next /\ ~Completing /\ ~Completing' /\ IInv /\ IInv'
<1>1. ~Completing
  BY DEF Completing, Settle, Advance, CleanupPrepare, CleanupJournal, Purge, RemoveTemps, RestoreDone,
         RemoveCreatedDirs, MarkRestored, RestoreAbsent, RestoreTemp, RestoreRename, RemoveResidue,
         Inspect, BeginJournal, Seal, Backup, WriteTemp, WriteRename
<1>2. Next /\ IInv  BY <1>1 DEF RInv, Next, Owner
<1>3. IInv'  BY <1>2, IInvStep
<1>4. pc' # "mark"
  BY DEF Settle, Advance, CleanupPrepare, CleanupJournal, Purge, RemoveTemps, RestoreDone,
         RemoveCreatedDirs, MarkRestored, RestoreAbsent, RestoreTemp, RestoreRename, RemoveResidue,
         Inspect, BeginJournal, Seal, Backup, WriteTemp, WriteRename, Goto, Return, CleanupFailed,
         CleanupDone, Visited, AbortUnsealed, Undo, RollBack
<1>5. ~Completing'  BY <1>3, <1>4 DEF IInv, TypeOK, Completing
<1> QED  BY <1>1, <1>2, <1>3, <1>5

\* They give up a planned manifest only together with the target.
LEMMA JournalPlan == ASSUME RInv, Settle \/ Advance  PROVE PlanOK'
<1>1. ~Completing /\ IInv  BY JournalSteps
<1>2. (plan' = NoPlan \/ plan' = plan) /\ (plan' = plan /\ task \in {"rollback", "commit"} => task' = task \/ plan' = NoPlan)
  BY <1>1 DEF IInv, SealingOK, WritingOK, StartingOK, Settle, Advance, CleanupPrepare, CleanupJournal, Purge,
         RemoveTemps, RestoreDone,
         RemoveCreatedDirs, MarkRestored, RestoreAbsent, RestoreTemp, RestoreRename, RemoveResidue,
         Inspect, BeginJournal, Seal, Backup, WriteTemp, WriteRename, Goto, Return, CleanupFailed,
         CleanupDone, Visited, AbortUnsealed, Undo, RollBack
<1> QED  BY <1>1, <1>2, ManifestIsAPath DEF RInv, PlanOK, NoPlan

\* The rollback of the completion is one of TransactionFS.
LEMMA CompletionRollsBack ==
  ASSUME Completing, CompletingOK, RollBack("rollback"), JournalOK',
         (jnl \in Journal)', (file \in [Paths -> Value])', (temps \in SUBSET Paths)',
         (dirs \in SUBSET Dirs)', residue' = residue, healthy' = healthy,
         jnl'.at = "journal", jnl'.marks = {"prepared"}, jnl'.entries = states
  PROVE  RInv'
<1>1. /\ pc' = "temps" /\ task' = "rollback" /\ todo' = {}
      /\ UNCHANGED <<plan, states, bad, result>>
  BY DEF RollBack
<1>2. TypeOK'  BY <1>1 DEF CompletingOK, TypeOK
<1>3. IInv'
  BY <1>1, <1>2 DEF IInv, StartingOK, SealingOK, WritingOK, RestoringOK, CleaningOK
<1> QED  BY <1>1, <1>3 DEF RInv, PlanOK, Completing

\* At the start no apply runs.
LEMMA InitRInv == HInit => RInv
BY InitIInv, ManifestIsAPath DEF HInit, Init, RInv, Completing, PlanOK, NoPlan

\* Every step of the canonical apply keeps the invariant.
LEMMA RInvStep == ASSUME NoTornHeader, RInv, [HNext]_hvars  PROVE RInv'
<1>0. Manifest \in Paths  BY ManifestIsAPath
<1>1. CASE JournalStep
  BY <1>1, JournalSteps, JournalPlan DEF JournalStep, RInv
<1>2. CASE HandOff
  <2>1. IInv /\ pc = "held" /\ task = "finalize" /\ pc' = "profile" /\ task' = "complete"
        /\ UNCHANGED <<file, temps, dirs, jnl, residue, plan, todo, states, bad, result, healthy>>
    BY <1>2 DEF HandOff, RInv, Completing, disk
  <2>2. Manifest \notin states
    BY <1>0, <2>1 DEF RInv, PlanOK, Completing, IInv, WritingOK, Touched
  <2>3. CompletingOK' /\ JournalOK'
    BY <2>1, <2>2 DEF IInv, TypeOK, WritingOK, JournalOK, CompletingOK, Touched
  <2> QED  BY <2>1, <2>3 DEF RInv, PlanOK, Completing
<1>3. CASE BeginProfile
  BY <1>3 DEF BeginProfile, Goto, disk, RInv, Completing, JournalOK, CompletingOK, PlanOK, Touched
<1>4. CASE ProfileRefused
  <2>1. Completing /\ CompletingOK /\ JournalOK  BY <1>4 DEF ProfileRefused, RInv, Completing
  <2> QED  BY <1>4, <2>1, CompletionRollsBack DEF ProfileRefused, disk, CompletingOK, JournalOK
<1>5. CASE Encode
  <2>1. Completing /\ CompletingOK /\ JournalOK  BY <1>5 DEF Encode, RInv, Completing
  <2>2. CASE RollBack("rollback")
    BY <1>5, <2>1, <2>2, CompletionRollsBack DEF Encode, disk, CompletingOK, JournalOK
  <2>3. ASSUME NEW c \in Content, plan' = [plan EXCEPT ![Manifest] = c], pc' = "append",
               UNCHANGED <<task, todo, states, bad, result>>
        PROVE  RInv'
    <3>1. c \in Value /\ c # Absent  BY ValueAssumption DEF Value
    <3>2. Touched(plan)' = states \cup {Manifest} /\ Manifest \notin states
      BY <1>0, <1>5, <2>1, <2>3, <3>1 DEF Encode, CompletingOK, Touched
    <3>3. plan' \in [Paths -> Value] /\ \A p \in states : plan'[p] = plan[p]
      BY <2>1, <2>3, <3>1, <3>2 DEF CompletingOK
    <3>4. CompletingOK' /\ JournalOK'
      BY <1>5, <2>1, <2>3, <3>2, <3>3 DEF Encode, disk, CompletingOK, JournalOK
    <3> QED  BY <2>3, <3>4 DEF RInv, PlanOK, Completing
  <2> QED  BY <1>5, <2>2, <2>3 DEF Encode
<1>6. CASE AppendBackup
  <2>1. Completing /\ CompletingOK /\ JournalOK  BY <1>6 DEF AppendBackup, RInv, Completing
  <2>2. CASE UNCHANGED jnl /\ RollBack("rollback")
    BY <1>6, <2>1, <2>2, CompletionRollsBack DEF AppendBackup, CompletingOK, JournalOK
  <2>3. CASE Appended(file[Manifest]) /\ states' = states \cup {Manifest} /\ pc' = "publish"
    <3>1. /\ jnl'.at = jnl.at /\ jnl'.marks = jnl.marks /\ jnl'.entries = jnl.entries \cup {Manifest}
          /\ jnl'.kept = IF file[Manifest] = Absent THEN jnl.kept ELSE jnl.kept \cup {Manifest}
          /\ \A p \in Paths : jnl'.backup[p] = IF p = Manifest THEN file[p] ELSE jnl.backup[p]
          /\ jnl' \in Journal
      BY <1>0, <2>1, <2>3 DEF Appended, Journal, CompletingOK
    <3>2. JournalOK'
      BY <1>0, <1>6, <2>1, <3>1 DEF JournalOK, CompletingOK, AppendBackup
    <3>3. /\ pc = "append" /\ UNCHANGED <<file, temps, dirs, residue, healthy>>
          /\ UNCHANGED <<task, plan, todo, bad, result>>
      BY <1>6, <2>3 DEF AppendBackup, RollBack
    <3>4. CompletingOK'
      BY <1>0, <2>1, <2>3, <3>1, <3>3 DEF CompletingOK, Touched
    <3> QED  BY <2>3, <3>2, <3>3, <3>4 DEF RInv, PlanOK, Completing
  <2> QED  BY <1>6, <2>2, <2>3 DEF AppendBackup, FailsLate, NoTornHeader
<1>7. CASE PublishTemp
  <2>1. Completing /\ CompletingOK /\ JournalOK  BY <1>7 DEF PublishTemp, RInv, Completing
  <2>2. UNCHANGED <<file, jnl, residue, healthy>>  BY <1>7 DEF PublishTemp
  <2>3. temps' \in SUBSET Paths /\ dirs' \in SUBSET Dirs
    BY <1>0, <1>7, <2>1, DirAssumption DEF PublishTemp, CompletingOK
  <2>4. CASE RollBack("rollback")
    BY <2>1, <2>2, <2>3, <2>4, CompletionRollsBack DEF CompletingOK, JournalOK
  <2>5. CASE Goto("publishRename")
    BY <1>7, <2>1, <2>2, <2>3, <2>5
    DEF PublishTemp, Goto, CompletingOK, JournalOK, RInv, PlanOK, Completing, Touched
  <2> QED  BY <1>7, <2>4, <2>5 DEF PublishTemp
<1>8. CASE PublishRename
  <2>1. Completing /\ CompletingOK /\ JournalOK /\ pc = "publishRename"
    BY <1>8 DEF PublishRename, RInv, Completing
  <2>2. UNCHANGED <<dirs, jnl, residue, healthy>> /\ temps' \in SUBSET Paths
        /\ file' \in {file, [file EXCEPT ![Manifest] = plan[Manifest]]}
    BY <1>8, <2>1 DEF PublishRename, CompletingOK
  <2>3. file' \in [Paths -> Value]  BY <1>0, <2>1, <2>2 DEF CompletingOK
  <2>4. CASE RollBack("rollback")
    BY <2>1, <2>2, <2>3, <2>4, CompletionRollsBack DEF CompletingOK, JournalOK
  <2>5. CASE Goto("mark") /\ file' = [file EXCEPT ![Manifest] = plan[Manifest]]
    <3>1. JournalOK' /\ CompletingOK'
      BY <1>0, <2>1, <2>2, <2>3, <2>5 DEF Goto, CompletingOK, JournalOK, Touched
    <3> QED  BY <2>5, <3>1 DEF Goto, RInv, PlanOK, Completing
  <2> QED  BY <1>8, <2>4, <2>5 DEF PublishRename, RollBack, Goto
<1>9. CASE Decide
  <2>1. Completing /\ CompletingOK /\ JournalOK /\ UNCHANGED <<file, temps, dirs, residue, healthy>>
    BY <1>9 DEF Decide, RInv, Completing
  <2>2. CASE UNCHANGED jnl /\ RollBack("rollback")
    BY <2>1, <2>2, CompletionRollsBack DEF CompletingOK, JournalOK
  <2>3. CASE Mark("committed") /\ pc' = "cleanup" /\ task' = "commit"
             /\ UNCHANGED <<plan, todo, states, bad, result>>
    <3>1. /\ jnl' \in Journal /\ jnl'.marks = {"prepared", "committed"}
          /\ jnl'.at = jnl.at /\ jnl'.entries = jnl.entries
          /\ jnl'.kept = jnl.kept /\ jnl'.backup = jnl.backup
      BY <2>1, <2>3, MarkType DEF Mark, Journal, CompletingOK, Marks
    <3>2. TypeOK'  BY <2>1, <2>3, <3>1 DEF CompletingOK, TypeOK
    <3>3. JournalOK'  BY <2>1, <3>1 DEF JournalOK, CompletingOK
    <3>4. IInv'
      BY <2>3, <3>1, <3>2, <3>3
      DEF IInv, StartingOK, SealingOK, WritingOK, RestoringOK, CleaningOK, Unsettled
    <3> QED  BY <2>3, <3>4 DEF RInv, PlanOK, Completing
  <2> QED  BY <1>9, <2>2, <2>3 DEF Decide, FailsLate, NoTornHeader
<1>10. CASE RestoreProfile
  <2>1. IInv /\ pc = "restore" /\ bad' \in BOOLEAN /\ (bad => bad')
        /\ UNCHANGED <<file, temps, dirs, jnl, residue, healthy, pc, task, plan, todo, states, result>>
    <3>1. pc = "restore" /\ IInv  BY <1>10 DEF RestoreProfile, ProfileDue, RInv, Completing
    <3>2. bad \in BOOLEAN  BY <3>1 DEF IInv, TypeOK
    <3>3. UNCHANGED <<file, temps, dirs, jnl, residue, healthy, pc, task, plan, todo, states, result>>
      BY <1>10 DEF RestoreProfile, disk
    <3>4. bad' = bad \/ bad' = TRUE  BY <1>10 DEF RestoreProfile
    <3> QED  BY <3>1, <3>2, <3>3, <3>4
  <2>2. IInv'
    BY <2>1 DEF IInv, TypeOK, JournalOK, StartingOK, SealingOK, WritingOK, RestoringOK, CleaningOK,
                Faithful, Unsettled
  <2> QED  BY <2>1, <2>2 DEF RInv, PlanOK, Completing
<1>11. CASE UNCHANGED vars
  <2>1. UNCHANGED <<file, temps, dirs, jnl, residue, healthy, pc, task, plan, todo, states, bad, result>>
    BY <1>11 DEF vars, disk, owner
  <2>2. ~Completing => IInv'  BY <1>11, IInvStep DEF RInv
  <2> QED  BY <2>1, <2>2 DEF RInv, PlanOK, Completing, JournalOK, CompletingOK, Touched
<1>12. ASSUME NEW w \in Plans, NEW u \in Profiles, Begin(w, u)  PROVE RInv'
  <2>1. Next /\ IInv  BY <1>12 DEF Begin, StartApply, Next, RInv, Completing
  <2>2. IInv'  BY <2>1, IInvStep
  <2> QED  BY <1>0, <1>12, <2>2 DEF Begin, StartApply, RInv, PlanOK, Completing, Touched
<1>13. CASE CallRollback
  <2>1. Next /\ IInv  BY <1>13 DEF CallRollback, Next, Owner, RInv, Completing
  <2>2. IInv'  BY <2>1, IInvStep
  <2> QED  BY <1>13, <2>2 DEF CallRollback, RollBack, RInv, PlanOK, Completing
<1>14. ASSUME NEW c \in Content, Finalize(c)  PROVE RInv'
  <2>1. IInv /\ Rewrite  BY <1>14, ManifestIsAPath DEF Finalize, Rewrite, CallRewrite, RInv, Completing
  <2>2. IInv'  BY <2>1, IInvStep DEF Next, Owner
  <2>3. plan[Manifest] = Absent /\ plan'[Manifest] = plan[Manifest] /\ pc' = "write"
    BY <1>0, <1>14, <2>1, ManifestIsAPath
    DEF Finalize, CallRewrite, RInv, PlanOK, Completing, IInv, TypeOK
  <2> QED  BY <2>2, <2>3 DEF RInv, PlanOK, Completing
<1>15. CASE Crash
  <2>1. /\ pc' = "idle" /\ plan' = NoPlan /\ todo' = {} /\ states' = {} /\ bad' = FALSE /\ result' = "none"
        /\ task' = "none" /\ UNCHANGED <<file, temps, dirs, jnl, residue, healthy>>
    BY <1>15 DEF Crash, Return, disk
  <2>2. CASE ~Completing
    <3>1. IInv'  BY <1>15, <2>2, IInvStep DEF RInv, Next
    <3> QED  BY <1>0, <2>1, <3>1 DEF RInv, PlanOK, Completing, NoPlan
  <2>3. CASE Completing
    <3>1. TypeOK'  BY <2>1, <2>3 DEF RInv, CompletingOK, TypeOK, NoPlan, Value
    <3>2. IInv'
      BY <2>1, <2>3, <3>1
      DEF RInv, IInv, JournalOK, StartingOK, SealingOK, WritingOK, RestoringOK, CleaningOK
    <3> QED  BY <1>0, <2>1, <3>2 DEF RInv, PlanOK, Completing, NoPlan
  <2> QED  BY <2>2, <2>3
<1> QED
  BY <1>1, <1>2, <1>3, <1>4, <1>5, <1>6, <1>7, <1>8, <1>9, <1>10, <1>11, <1>12, <1>13, <1>14, <1>15
  DEF HNext, Complete, GiveUpLease, Cancel, FinalizeFailed, Die, Select, hvars

\* The canonical apply never leaves a journal that recover() refuses: the header
\* that lists the manifest replaces the sealed one with its backup in place.
THEOREM CompletionRecoverable == ASSUME NoTornHeader  PROVE HSpec => []Recoverable
<1>1. RInv => Recoverable
  BY DEF RInv, IInv, JournalOK, CompletingOK, Recoverable, Admissible, Unsettled
<1>2. RInv /\ [HNext]_hvars => RInv'  BY RInvStep
<1> QED  BY <1>1, <1>2, InitRInv, PTL DEF HSpec

-----------------------------------------------------------------------------
(* The refinement: the completion is invisible until its marker *)

\* Nothing the completion does before the marker shows in the store.
LEMMA CompletionHidden ==
  ASSUME Completing, CompletingOK, Same, pc' # "idle", task' # "commit", UNCHANGED <<plan, result>>
  PROVE  Implemented
<1>1. pc # "idle" /\ task # "commit"  BY DEF Completing, CompletingOK
<1> QED  BY <1>1, HiddenStep DEF Implemented

\* The marker installs resources, configuration and manifest at one instant.
LEMMA DecideImplemented ==
  ASSUME Completing, CompletingOK, UNCHANGED file, pc = "mark", Mark("committed"),
         pc' = "cleanup", task' = "commit", UNCHANGED <<plan, result>>
  PROVE  Implemented
<1>1. Unsettled /\ \A p \in Paths : p \in jnl.entries <=> plan[p] # Absent
  BY DEF CompletingOK, Unsettled, Touched
<1>2. \A p \in jnl.entries : file[p] = plan[p]  BY DEF CompletingOK
<1>3. ~Unsettled'  BY DEF Mark, Unsettled, CompletingOK, Journal
<1>4. Logical' = Atomic!Overlay(Logical, plan)
  BY <1>1, <1>2, <1>3 DEF Logical, Atomic!Overlay, CompletingOK
<1>5. Phase = "pending" /\ Phase' = "installed"  BY DEF Phase, CompletingOK
<1> QED  BY <1>4, <1>5 DEF Implemented, Atomic!ANext, Atomic!Install

\* The backup of the manifest is what the manifest holds.
LEMMA AppendHidden ==
  ASSUME CompletingOK, UNCHANGED file, pc = "append", Appended(file[Manifest])
  PROVE  Same
<1>1. /\ jnl'.at = jnl.at /\ jnl'.marks = jnl.marks /\ jnl'.entries = jnl.entries \cup {Manifest}
      /\ \A p \in Paths : jnl'.backup[p] = IF p = Manifest THEN file[p] ELSE jnl.backup[p]
  BY ManifestIsAPath DEF Appended, Journal, CompletingOK
<1>2. Unsettled /\ Unsettled' /\ Manifest \notin jnl.entries
  BY <1>1 DEF CompletingOK, Unsettled
<1> QED  BY <1>1, <1>2, ManifestIsAPath DEF Same, Logical

\* The manifest is written behind its backup.
LEMMA PublishHidden ==
  ASSUME CompletingOK, UNCHANGED jnl, pc = "publishRename",
         file' \in {file, [file EXCEPT ![Manifest] = plan[Manifest]]}
  PROVE  Same
<1>1. Unsettled /\ Unsettled' /\ Manifest \in jnl.entries
  BY DEF CompletingOK, Unsettled
<1>2. \A p \in Paths : p # Manifest => file'[p] = file[p]
  BY DEF CompletingOK
<1> QED  BY <1>1, <1>2 DEF Same, Logical

\* Every step of the canonical apply is a step of AtomicTarget or none.
LEMMA HStepImplemented ==
  ASSUME NoTornHeader, RInv, RInv', [HNext]_hvars  PROVE Implemented
<1>1. CASE JournalStep
  <2>1. IInv /\ IInv'  BY <1>1, JournalSteps DEF JournalStep
  <2> QED  BY <1>1, <2>1, SettleImplemented, AdvanceImplemented DEF JournalStep
<1>2. CASE HandOff
  <2>1. Same  BY <1>2, SameFiles DEF HandOff, disk
  <2> QED  BY <1>2, <2>1, HiddenStep DEF HandOff, Implemented
<1>3. CASE BeginProfile
  <2>1. Completing /\ CompletingOK  BY <1>3 DEF BeginProfile, RInv, Completing
  <2>2. Same  BY <1>3, SameFiles DEF BeginProfile, disk
  <2> QED  BY <1>3, <2>1, <2>2, CompletionHidden DEF BeginProfile, Goto, CompletingOK
<1>4. CASE ProfileRefused
  <2>1. Completing /\ CompletingOK  BY <1>4 DEF ProfileRefused, RInv, Completing
  <2>2. Same  BY <1>4, SameFiles DEF ProfileRefused, disk
  <2> QED  BY <1>4, <2>1, <2>2, CompletionHidden DEF ProfileRefused, RollBack
<1>5. CASE Encode
  <2>1. Completing /\ CompletingOK  BY <1>5 DEF Encode, RInv, Completing
  <2>2. Same  BY <1>5, SameFiles DEF Encode, disk
  <2>3. CASE RollBack("rollback")
    BY <2>1, <2>2, <2>3, CompletionHidden DEF RollBack
  <2>4. ASSUME NEW c \in Content, plan' = [plan EXCEPT ![Manifest] = c], pc' = "append",
               UNCHANGED <<task, result>>
        PROVE  Implemented
    <3>1. plan' \in [Paths -> Value]  BY <2>1, <2>4 DEF CompletingOK, Value
    <3>2. Phase = "pending" /\ Phase' = "pending"
      BY <1>5, <2>1, <2>4 DEF Encode, CompletingOK, Phase
    <3> QED  BY <2>2, <2>4, <3>1, <3>2 DEF Same, Implemented, Atomic!ANext, Atomic!Amend
  <2> QED  BY <1>5, <2>3, <2>4 DEF Encode
<1>6. CASE AppendBackup
  <2>1. Completing /\ CompletingOK  BY <1>6 DEF AppendBackup, RInv, Completing
  <2>2. CASE UNCHANGED jnl /\ RollBack("rollback")
    BY <1>6, <2>1, <2>2, SameFiles, CompletionHidden DEF AppendBackup, RollBack
  <2>3. CASE Appended(file[Manifest]) /\ pc' = "publish" /\ UNCHANGED <<task, plan, result>>
    <3>1. Same  BY <1>6, <2>1, <2>3, AppendHidden DEF AppendBackup
    <3> QED  BY <2>1, <2>3, <3>1, CompletionHidden DEF CompletingOK
  <2> QED  BY <1>6, <2>2, <2>3 DEF AppendBackup, FailsLate, NoTornHeader
<1>7. CASE PublishTemp
  <2>1. Completing /\ CompletingOK  BY <1>7 DEF PublishTemp, RInv, Completing
  <2>2. Same  BY <1>7, SameFiles DEF PublishTemp
  <2> QED  BY <1>7, <2>1, <2>2, CompletionHidden DEF PublishTemp, Goto, RollBack, CompletingOK
<1>8. CASE PublishRename
  <2>1. Completing /\ CompletingOK  BY <1>8 DEF PublishRename, RInv, Completing
  <2>2. Same  BY <1>8, <2>1, PublishHidden DEF PublishRename
  <2> QED  BY <1>8, <2>1, <2>2, CompletionHidden DEF PublishRename, Goto, RollBack, CompletingOK
<1>9. CASE Decide
  <2>1. Completing /\ CompletingOK  BY <1>9 DEF Decide, RInv, Completing
  <2>2. CASE UNCHANGED jnl /\ RollBack("rollback")
    BY <1>9, <2>1, <2>2, SameFiles, CompletionHidden DEF Decide, RollBack
  <2>3. CASE Mark("committed") /\ pc' = "cleanup" /\ task' = "commit" /\ UNCHANGED <<plan, result>>
    BY <1>9, <2>1, <2>3, DecideImplemented DEF Decide
  <2> QED  BY <1>9, <2>2, <2>3 DEF Decide, FailsLate, NoTornHeader
<1>10. CASE RestoreProfile \/ UNCHANGED vars
  BY <1>10, SameFiles
  DEF RestoreProfile, vars, disk, owner, Same, Phase, Implemented, Atomic!avars
<1>11. ASSUME NEW w \in Plans, NEW u \in Profiles, Begin(w, u)  PROVE Implemented
  <2>1. Next /\ IInv  BY <1>11 DEF Begin, StartApply, Next, RInv, Completing
  <2> QED  BY <2>1, IInvStep, StepImplemented
<1>12. CASE CallRollback
  <2>1. Next /\ IInv  BY <1>12 DEF CallRollback, Next, Owner, RInv, Completing
  <2> QED  BY <2>1, IInvStep, StepImplemented
<1>13. ASSUME NEW c \in Content, Finalize(c)  PROVE Implemented
  <2>1. IInv /\ Rewrite  BY <1>13, ManifestIsAPath DEF Finalize, Rewrite, CallRewrite, RInv, Completing
  <2> QED  BY <2>1, IInvStep, StepImplemented DEF Next, Owner
<1>14. CASE Crash
  <2>1. Same /\ Phase # "quiet"  BY <1>14, SameFiles DEF Crash, disk, Phase
  <2> QED
    BY <1>14, <2>1 DEF Crash, Return, Same, Phase, Implemented, Atomic!ANext, Atomic!Die,
       Atomic!End, NoPlan, Atomic!NoPlan
<1> QED
  BY <1>1, <1>2, <1>3, <1>4, <1>5, <1>6, <1>7, <1>8, <1>9, <1>10, <1>11, <1>12, <1>13, <1>14
  DEF HNext, Complete, GiveUpLease, Cancel, FinalizeFailed, Die, Select, hvars

\* Resources, hosted configuration and manifest are installed all together or
\* not at all, whatever fails or dies, and the report says which: the canonical
\* apply of apply.go and transaction.go implements AtomicTarget.
THEOREM CanonicalApplyIsAtomic == ASSUME NoTornHeader  PROVE HSpec => AllOrNothing
<1>1. HInit => Atomic!AInit
  BY DEF HInit, Init, Atomic!AInit, Logical, Phase, Unsettled, NoJournal, NoPlan, Atomic!NoPlan
<1>2. RInv /\ RInv' /\ [HNext]_hvars => [Atomic!ANext]_(Atomic!avars)
  BY HStepImplemented DEF Implemented
<1>3. RInv /\ [HNext]_hvars => RInv'  BY RInvStep
<1> QED  BY <1>1, <1>2, <1>3, InitRInv, PTL DEF HSpec, AllOrNothing, Atomic!ASpec
-----------------------------------------------------------------------------
(* The report is true, unless the fsync after a publishing rename fails.   *)

\* Who cleans up after the marker has installed everything and still holds the
\* profile; who gives up before the completion has not touched it; and who has
\* undone the apply leaves no journal for a later recovery.
OutcomeOK ==
  /\ task = "commit" =>
       /\ pc \in {"cleanup", "purge"} /\ lease = "held" /\ profile = want
       /\ plan[Manifest] # Absent /\ \A p \in Touched(plan) : file[p] = plan[p]
  /\ task \in {"abandon", "abort"} => lease \in {"none", "parting"} /\ ~provisional
  /\ pc \in {"cleanup", "purge"} /\ task \in {"abort", "rollback"} => ~Unsettled

\* A journal published by a rename that was reported as failed stays behind an
\* apply that only cleans up.
NoTornSeal == "seal" \notin LateFaults

\* An apply that ends keeps nothing.
LEMMA EndedOutcome == ASSUME pc' = "idle", task' = "none"  PROVE OutcomeOK'
BY DEF OutcomeOK

\* What stays away from the marker and from cleanup keeps what was given up.
LEMMA EarlyOutcome ==
  ASSUME pc' \notin {"cleanup", "purge"}, task' \notin {"abandon", "abort", "commit"}
  PROVE  OutcomeOK'
BY DEF OutcomeOK

\* Cleanup and restoration.
LEMMA SettleOutcome ==
  ASSUME RInv, CInv, OutcomeOK, Settle, Ending
  PROVE  OutcomeOK'
<1>1. IInv  BY JournalSteps
<1>2. pc' # "idle" => Unended  BY DEF Ending, Unended
<1>3. \A r \in Results : Return(r) => OutcomeOK'  BY EndedOutcome DEF Return
<1>4. CleanupFailed => OutcomeOK'  BY <1>3 DEF CleanupFailed
<1>5. CASE CleanupPrepare \/ CleanupJournal
  <2>1. CASE CleanupFailed  BY <1>4, <2>1
  <2>2. CASE jnl' = NoJournal /\ Goto("purge")
    <3>1. /\ pc = "cleanup" /\ pc' = "purge" /\ UNCHANGED <<file, task, plan>>
      BY <1>5, <2>2 DEF CleanupPrepare, CleanupJournal, Goto
    <3>2. ~Unsettled'  BY <2>2 DEF Unsettled, NoJournal
    <3>3. UNCHANGED <<profile, want, lease>> /\ (provisional' => provisional)
      BY <1>2, <3>1 DEF Unended
    <3> QED  BY <3>1, <3>2, <3>3 DEF OutcomeOK, Touched
  <2> QED  BY <1>5, <2>1, <2>2 DEF CleanupPrepare, CleanupJournal
<1>6. CASE Purge
  <2>1. CASE CleanupFailed  BY <1>4, <2>1
  <2>2. CASE CleanupDone
    <3>1. CASE task = "recover"  BY <2>2, <3>1, EarlyOutcome DEF CleanupDone
    <3>2. CASE task # "recover"  BY <1>3, <2>2, <3>2 DEF CleanupDone
    <3> QED  BY <3>1, <3>2
  <2> QED  BY <1>6, <2>1, <2>2 DEF Purge
<1>7. ASSUME pc \in Restoring, UNCHANGED task, pc' \in Restoring  PROVE OutcomeOK'
  <2>1. task \in {"recover", "abort", "rollback"}
    BY <1>1, <1>7 DEF IInv, RestoringOK, Restoring
  <2>2. UNCHANGED <<lease>> /\ (provisional' => provisional)
    BY <1>2, <1>7 DEF Unended, Restoring
  <2> QED  BY <1>7, <2>1, <2>2 DEF OutcomeOK, Restoring
<1>8. CASE RemoveTemps \/ RestoreDone
  BY <1>7, <1>8 DEF RemoveTemps, RestoreDone, Goto, Restoring
<1>9. CASE RemoveCreatedDirs
  BY <1>3, <1>7, <1>9 DEF RemoveCreatedDirs, Goto, Restoring
<1>10. CASE MarkRestored
  <2>1. CASE Return("residual")  BY <1>3, <2>1
  <2>2. CASE Mark("restored") /\ Goto("cleanup")
    <3>1. task \in {"recover", "abort", "rollback"} /\ task' = task /\ pc' = "cleanup"
      BY <1>1, <1>10, <2>2 DEF IInv, RestoringOK, MarkRestored, Goto
    <3>2. ~Unsettled'  BY <1>1, <2>2 DEF IInv, TypeOK, Journal, Mark, Unsettled
    <3>3. UNCHANGED <<lease>> /\ (provisional' => provisional)
      BY <1>2, <3>1 DEF Unended
    <3> QED  BY <3>1, <3>2, <3>3 DEF OutcomeOK
  <2> QED  BY <1>10, <2>1, <2>2 DEF MarkRestored
<1>11. ASSUME NEW p \in Paths, RestoreAbsent(p) \/ RestoreTemp(p) \/ RestoreRename(p)
       PROVE  OutcomeOK'
  BY <1>7, <1>11 DEF RestoreAbsent, RestoreTemp, RestoreRename, Visited, Goto, Restoring
<1> QED
  BY <1>5, <1>6, <1>8, <1>9, <1>10, <1>11 DEF Settle

\* Recovery, backup, seal and the writes.
LEMMA AdvanceOutcome ==
  ASSUME NoTornSeal, RInv, CInv, OutcomeOK, Advance, Ending
  PROVE  OutcomeOK'
<1>1. IInv  BY JournalSteps
<1>2. pc' # "idle" => Unended  BY DEF Ending, Unended
<1>3. \A r \in Results : Return(r) => OutcomeOK'  BY EndedOutcome DEF Return
<1>4. ASSUME pc \in {"begin"} \cup Filling \cup Writing, task' \in {"abandon", "abort"},
             pc' \in {"temps", "cleanup"}, pc' = "cleanup" /\ task' = "abort" => ~Unsettled'
      PROVE  OutcomeOK'
  <2>1. lease \in {"none", "parting"} /\ ~provisional
    BY <1>4 DEF CInv, LeaseOK, Unleased
  <2> QED  BY <1>2, <1>4, <2>1 DEF Unended, OutcomeOK
<1>5. CASE RemoveResidue
  BY <1>1, <1>3, <1>5, EarlyOutcome DEF RemoveResidue, Goto, IInv, StartingOK
<1>6. CASE Inspect
  BY <1>1, <1>3, <1>6 DEF Inspect, Goto, IInv, StartingOK, OutcomeOK
<1>7. CASE BeginJournal
  <2>1. CASE pc' = "backup"
    BY <1>1, <1>7, <2>1, EarlyOutcome DEF BeginJournal, IInv, StartingOK
  <2>2. CASE pc' = "cleanup"  BY <1>4, <1>7, <2>2 DEF BeginJournal
  <2> QED  BY <1>7, <2>1, <2>2 DEF BeginJournal
<1>8. ASSUME NEW p \in Paths, Backup(p)  PROVE OutcomeOK'
  <2>1. CASE UNCHANGED jnl /\ AbortUnsealed
    <3>1. pc = "backup" /\ ~Unsettled'
      BY <1>1, <1>8, <2>1 DEF Backup, IInv, SealingOK, Unsettled
    <3> QED  BY <1>4, <2>1, <3>1 DEF AbortUnsealed, Filling
  <2>2. CASE pc' \in Filling /\ task' = task
    BY <1>1, <1>8, <2>2, EarlyOutcome DEF Backup, IInv, SealingOK, Filling
  <2> QED  BY <1>8, <2>1, <2>2 DEF Backup, Filling
<1>9. CASE Seal
  <2>1. CASE UNCHANGED jnl /\ AbortUnsealed
    <3>1. pc = "seal" /\ ~Unsettled'
      BY <1>1, <1>9, <2>1 DEF Seal, IInv, SealingOK, Unsettled
    <3> QED  BY <1>4, <2>1, <3>1 DEF AbortUnsealed, Filling
  <2>2. CASE pc' = "write" /\ task' = task
    BY <1>1, <1>9, <2>2, EarlyOutcome DEF Seal, IInv, SealingOK
  <2> QED  BY <1>9, <2>1, <2>2 DEF Seal, FailsLate, NoTornSeal
<1>10. ASSUME NEW p \in Paths, WriteTemp(p) \/ WriteRename(p)  PROVE OutcomeOK'
  <2>1. pc \in {"write", "writeRename"} /\ task \in {"apply", "finalize"}
    BY <1>1, <1>10 DEF WriteTemp, WriteRename, IInv, WritingOK
  <2>2. CASE Undo
    <3>1. pc' = "temps" /\ task' \in {"rollback", "abort"}  BY <2>2 DEF Undo, RollBack
    <3> QED  BY <1>4, <2>1, <3>1, EarlyOutcome DEF Writing
  <2>3. CASE pc' \in {"write", "writeRename", "held"} /\ task' = task
    BY <2>1, <2>3, EarlyOutcome
  <2> QED  BY <1>10, <2>2, <2>3 DEF WriteTemp, WriteRename, Goto
<1> QED  BY <1>5, <1>6, <1>7, <1>8, <1>9, <1>10 DEF Advance

\* Every step of the canonical apply keeps it.
LEMMA OutcomeStep ==
  ASSUME NoTornHeader, NoTornSeal, RInv, CInv, OutcomeOK, [HNext]_hvars
  PROVE  OutcomeOK'
<1>1. CASE JournalStep  BY <1>1, SettleOutcome, AdvanceOutcome DEF JournalStep
<1>2. CASE HandOff \/ BeginProfile \/ ProfileRefused \/ Encode \/ AppendBackup \/ PublishTemp
           \/ PublishRename \/ CallRollback
  <2>1. task \in {"complete", "finalize", "apply"} /\ pc # "idle"
    BY <1>2 DEF HandOff, BeginProfile, ProfileRefused, Encode, AppendBackup, PublishTemp,
                PublishRename, CallRollback, RInv, Completing, CompletingOK, IInv, WritingOK
  <2>2. pc' \notin {"cleanup", "purge"} /\ task' \in {task, "complete", "rollback"}
    BY <1>2 DEF HandOff, BeginProfile, ProfileRefused, Encode, AppendBackup, PublishTemp,
                PublishRename, CallRollback, RollBack, Goto
  <2> QED  BY <2>1, <2>2, EarlyOutcome
<1>3. CASE Decide
  <2>1. CASE RollBack("rollback")  BY <2>1, EarlyOutcome DEF RollBack
  <2>2. CASE pc' = "cleanup" /\ task' = "commit" /\ UNCHANGED plan
    <3>1. pc = "mark" /\ Completing /\ CompletingOK /\ UNCHANGED <<file, profile, want, lease>>
      BY <1>3 DEF Decide, RInv, Completing
    <3>2. lease = "held" /\ profile = want
      BY <3>1 DEF CInv, LeaseOK, Publishing
    <3>3. plan[Manifest] # Absent /\ \A p \in Touched(plan) : file[p] = plan[p]
      BY <3>1, ManifestIsAPath DEF CompletingOK, Touched
    <3> QED  BY <2>2, <3>1, <3>2, <3>3 DEF OutcomeOK, Touched
  <2> QED  BY <1>3, <2>1, <2>2 DEF Decide, FailsLate, NoTornHeader
<1>4. CASE RestoreProfile
  <2>1. pc = "restore" /\ UNCHANGED <<pc, task>> /\ lease = "held"
    BY <1>4 DEF RestoreProfile, ProfileDue
  <2> QED  BY <2>1 DEF OutcomeOK
<1>5. CASE UNCHANGED vars /\ lease \in {"none", "parting"} /\ lease' \in {"none", "parting"}
           /\ (provisional' => provisional)
  <2>1. UNCHANGED <<pc, task, file, plan, jnl>>  BY <1>5 DEF vars, disk, owner
  <2>2. task # "commit"  BY <1>5 DEF OutcomeOK
  <2> QED  BY <1>5, <2>1, <2>2 DEF OutcomeOK, Unsettled
<1>6. ASSUME NEW w \in Plans, NEW u \in Profiles, Begin(w, u)  PROVE OutcomeOK'
  BY <1>6, EarlyOutcome DEF Begin, StartApply
<1>7. ASSUME NEW c \in Content, Finalize(c)  PROVE OutcomeOK'
  BY <1>7, EarlyOutcome DEF Finalize, CallRewrite
<1>8. CASE Die  BY <1>8, EndedOutcome DEF Die, Crash, Return
<1>9. CASE UNCHANGED hvars
  BY <1>9 DEF hvars, vars, disk, owner, completion, OutcomeOK, Unsettled, Touched
<1> QED
  BY <1>1, <1>2, <1>3, <1>4, <1>5, <1>6, <1>7, <1>8, <1>9
  DEF HNext, Complete, GiveUpLease, Cancel, FinalizeFailed, Select

\* What TruthfulOutcome asks of a step that ends the apply.
Told ==
  /\ changed' => /\ profile' = want /\ plan[Manifest] # Absent
                 /\ \A p \in Touched(plan) : file'[p] = plan[p]
  /\ ~changed' /\ status' # "residual_risk" => ~provisional'
  /\ status' \in {"rolled_back", "cancelled"} => ~Unsettled'

\* Cleanup that returns to the caller, and restoration that gives up.
LEMMA SettleTold ==
  ASSUME RInv, CInv, OutcomeOK, Settle, Ending, pc' = "idle"
  PROVE  Told
<1>1. IInv  BY JournalSteps
<1>2. /\ status' = Report(result') /\ changed' = (result' \in {"committed", "cleanup_failed"})
      /\ UNCHANGED <<profile, want, provisional>>
  BY DEF Ending, Released
<1>3. CASE result' = "residual"  BY <1>2, <1>3 DEF Told, Report
<1>4. CASE pc \in {"cleanup", "purge"}
  <2>1. CleanupFailed \/ CleanupDone
    BY <1>4 DEF Settle, CleanupPrepare, CleanupJournal, Purge, RemoveTemps, RestoreDone, Goto,
                RemoveCreatedDirs, MarkRestored, RestoreAbsent, RestoreTemp, RestoreRename
  <2>2. UNCHANGED file /\ (jnl' = jnl \/ jnl' = NoJournal)
    BY <1>4 DEF Settle, CleanupPrepare, CleanupJournal, Purge, RemoveTemps, RestoreDone, disk,
                RemoveCreatedDirs, MarkRestored, RestoreAbsent, RestoreTemp, RestoreRename
  <2>3. ~Unsettled => ~Unsettled'  BY <2>2 DEF Unsettled, NoJournal
  <2>4. task \in {"recover", "abandon", "abort", "rollback", "commit"}
    BY <1>1, <1>4 DEF IInv, CleaningOK
  <2>5. CASE task = "recover"
    BY <1>3, <2>1, <2>5 DEF CleanupFailed, CleanupDone, Return
  <2>6. CASE task = "abandon"
    <3>1. result' = "failed" /\ ~provisional
      BY <2>1, <2>6 DEF CleanupFailed, CleanupDone, Return, OutcomeOK
    <3> QED  BY <1>2, <3>1 DEF Told, Report
  <2>7. CASE task = "abort"
    <3>1. result' = "aborted" /\ ~provisional /\ ~Unsettled
      BY <1>4, <2>1, <2>7 DEF CleanupFailed, CleanupDone, Return, OutcomeOK
    <3> QED  BY <1>2, <2>3, <3>1 DEF Told, Report
  <2>8. CASE task = "rollback"
    <3>1. result' \in {"rolled_back", "rollback_error"} /\ ~Unsettled
      BY <1>4, <2>1, <2>8 DEF CleanupFailed, CleanupDone, Return, OutcomeOK
    <3>2. CASE fate # "tainted"
      <4>1. ~provisional  BY <1>4, <2>8, <3>2 DEF CInv, ProfileBack
      <4> QED  BY <1>2, <2>3, <3>1, <4>1 DEF Told
    <3>3. CASE fate = "tainted"
      BY <1>2, <3>1, <3>3 DEF Told, Report
    <3> QED  BY <3>2, <3>3
  <2>9. CASE task = "commit"
    <3>1. result' \in {"committed", "cleanup_failed"}
      BY <2>1, <2>9 DEF CleanupFailed, CleanupDone, Return
    <3>2. changed' /\ status' \in {"succeeded", "failed"}  BY <1>2, <3>1 DEF Report
    <3> QED  BY <1>2, <2>2, <2>9, <3>2 DEF Told, OutcomeOK, Touched
  <2> QED  BY <2>4, <2>5, <2>6, <2>7, <2>8, <2>9
<1>5. CASE pc \notin {"cleanup", "purge"}
  <2>1. result' = "residual"
    BY <1>5 DEF Settle, CleanupPrepare, CleanupJournal, Purge, RemoveTemps, RestoreDone, Goto, Return,
                RemoveCreatedDirs, MarkRestored, RestoreAbsent, RestoreTemp, RestoreRename, Visited
  <2> QED  BY <1>3, <2>1
<1> QED  BY <1>4, <1>5

\* Nothing else returns but recovery, which reports residual risk.
LEMMA StepTold ==
  ASSUME RInv, CInv, OutcomeOK, [HNext]_hvars, Ends
  PROVE  Told
<1>1. CASE JournalStep
  <2>1. CASE Settle  BY <1>1, <2>1, SettleTold DEF JournalStep, Ends
  <2>2. CASE Advance
    <3>1. IInv  BY <2>2, JournalSteps
    <3>2. result' = "residual"
      BY <2>2, <3>1 DEF Ends, Advance, RemoveResidue, Inspect, BeginJournal, Seal, Backup, WriteTemp, WriteRename,
         Goto, Return, AbortUnsealed, Undo, RollBack
    <3>3. status' = Report(result') /\ changed' = (result' \in {"committed", "cleanup_failed"})
      BY <1>1 DEF JournalStep, Ending, Released, Ends
    <3> QED  BY <3>2, <3>3 DEF Told, Report
  <2> QED  BY <1>1, <2>1, <2>2 DEF JournalStep
<1>2. ~(pc # "idle" /\ pc' = "idle") \/ result' = "none"
      \/ JournalStep
  BY DEF HNext, Complete, HandOff, BeginProfile, ProfileRefused, Encode, AppendBackup, PublishTemp,
         PublishRename, Decide, RestoreProfile, GiveUpLease, Begin, StartApply, Cancel, CallRollback,
         FinalizeFailed, Finalize, CallRewrite, Die, Crash, Return, Select, RollBack, Goto,
         hvars, vars, owner
<1> QED  BY <1>1, <1>2 DEF Ends

\* What the apply reports is true: changed only with every planned resource, the
\* manifest and the selection in place; otherwise, without residual risk, only
\* with the profile write undone; and rolled back or cancelled only with no
\* journal that a later recovery would replay (executeApply, applyFailure).
THEOREM ReportIsTruthful ==
  ASSUME NoTornHeader, NoTornSeal  PROVE HSpec => TruthfulOutcome
<1>1. HInit => OutcomeOK  BY DEF HInit, Init, OutcomeOK
<1>2. RInv /\ CInv /\ OutcomeOK /\ [HNext]_hvars => OutcomeOK'  BY OutcomeStep
<1>3. RInv /\ [HNext]_hvars => RInv'  BY RInvStep
<1>4. RInv /\ CInv /\ OutcomeOK /\ [HNext]_hvars
        => [Ends =>
              /\ changed' => /\ profile' = want /\ plan[Manifest] # Absent
                             /\ \A p \in Touched(plan) : file'[p] = plan[p]
              /\ ~changed' /\ status' # "residual_risk" => ~provisional'
              /\ status' \in {"rolled_back", "cancelled"} => ~Unsettled']_hvars
  BY StepTold DEF Told
<1> QED  BY <1>1, <1>2, <1>3, <1>4, InitRInv, CInvariant, PTL DEF HSpec, TruthfulOutcome
=============================================================================
