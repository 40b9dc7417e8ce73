----------------------- MODULE TargetAuthorityProofs ------------------------
(***************************************************************************)
(* For every number of attempts, processes and roots: the authority over a *)
(* target root is exclusive, within a process and across processes, no     *)
(* attempt leaves an entry or a lock behind, and the queue of a process is *)
(* served in order.                                                        *)
(***************************************************************************)
EXTENDS TargetAuthority, SequenceTheorems, TLAPS

\* Who has passed the lock on the open file description holds it.
Locked == \A t \in Attempts : pc[t] \in {"verify", "own"} => flock[root[t]] = t

\* Who has passed the registry holds the entry.
Entered == \A t \in Attempts : Inside(t) => Mine(t).held

\* OneInside needs the registry's two facts, MutualExclusion only the lock's.
AInv == TypeOK /\ Locked /\ Entered /\ OneInside /\ HeldHasHolder

-----------------------------------------------------------------------------
\* SetEntry writes one entry of one process and leaves all others alone.
LEMMA EntryUpdate ==
  ASSUME TypeOK, NEW t \in Attempts, NEW h \in BOOLEAN, NEW q \in Seq(Attempts),
         SetEntry(t, h, q)
  PROVE  /\ entry' \in [Processes -> [Roots -> Entry]]
         /\ entry'[Home[t]][root[t]] = [held |-> h, queue |-> q]
         /\ \A p \in Processes, r \in Roots :
              (p # Home[t] \/ r # root[t]) => entry'[p][r] = entry[p][r]
<1>1. [held |-> h, queue |-> q] \in Entry  BY DEF Entry
<1> QED  BY <1>1, HomeAssumption DEF TypeOK, SetEntry

\* Cancelling removes one waiter from a queue of attempts.
LEMMA WithoutType ==
  ASSUME NEW q \in Seq(Attempts), NEW i \in 1..Len(q)
  PROVE  Without(q, i) \in Seq(Attempts)
<1>1. Len(q) - 1 \in Nat  OBVIOUS
<1>2. \A j \in 1..(Len(q) - 1) : (IF j < i THEN q[j] ELSE q[j + 1]) \in Attempts  OBVIOUS
<1> QED  BY <1>1, <1>2 DEF Without

\* The entry an attempt works on.
LEMMA MineType ==
  ASSUME TypeOK, NEW t \in Attempts
  PROVE  /\ Home[t] \in Processes /\ root[t] \in Roots
         /\ Mine(t).held \in BOOLEAN /\ Mine(t).queue \in Seq(Attempts)
BY HomeAssumption DEF TypeOK, Mine, Entry

\* Leaving the registry clears the held mark of one entry.
LEMMA ReleaseLocalEffect ==
  ASSUME TypeOK, NEW t \in Attempts, ReleaseLocal(t)
  PROVE  /\ entry' \in [Processes -> [Roots -> Entry]]
         /\ ~entry'[Home[t]][root[t]].held
         /\ \A p \in Processes, r \in Roots :
              (p # Home[t] \/ r # root[t]) => entry'[p][r] = entry[p][r]
<1>1. SetEntry(t, FALSE, Mine(t).queue)  BY DEF ReleaseLocal
<1>2. entry'[Home[t]][root[t]] = [held |-> FALSE, queue |-> Mine(t).queue]
  BY <1>1, MineType, EntryUpdate
<1>3. entry' \in [Processes -> [Roots -> Entry]]  BY <1>1, MineType, EntryUpdate
<1>4. \A p \in Processes, r \in Roots :
        (p # Home[t] \/ r # root[t]) => entry'[p][r] = entry[p][r]
  BY <1>1, MineType, EntryUpdate
<1> QED  BY <1>2, <1>3, <1>4

\* Queueing up and leaving the queue take and give up nothing.
LEMMA QueueEffect ==
  ASSUME TypeOK, NEW t \in Attempts, NEW q \in Seq(Attempts), SetEntry(t, Mine(t).held, q)
  PROVE  \A p \in Processes, r \in Roots : entry'[p][r].held = entry[p][r].held
<1>1. entry'[Home[t]][root[t]] = [held |-> Mine(t).held, queue |-> q]
  BY MineType, EntryUpdate
<1>2. \A p \in Processes, r \in Roots :
        (p # Home[t] \/ r # root[t]) => entry'[p][r] = entry[p][r]
  BY MineType, EntryUpdate
<1>3. entry'[Home[t]][root[t]].held = entry[Home[t]][root[t]].held  BY <1>1 DEF Mine
<1> QED  BY <1>2, <1>3

-----------------------------------------------------------------------------
\* Every step keeps the shape of the state.
LEMMA TypeStep == TypeOK /\ [Next]_avars => TypeOK'
<1> SUFFICES ASSUME TypeOK, [Next]_avars PROVE TypeOK'  OBVIOUS
<1> USE DEF TypeOK, Stages, Outcomes, Goto, Tell
<1>1. ASSUME NEW t \in Attempts, NEW r \in Roots, NEW z \in BOOLEAN, Start(t, r, z)
      PROVE  TypeOK'
  BY <1>1 DEF Start
<1>2. ASSUME NEW t \in Attempts, Reject(t) \/ RootUnsafe(t)  PROVE TypeOK'
  BY <1>2 DEF Reject, RootUnsafe
<1>3. ASSUME NEW t \in Attempts, Enter(t)  PROVE TypeOK'
  <2>1. entry' \in [Processes -> [Roots -> Entry]]
    <3>1. CASE UNCHANGED entry  BY <3>1
    <3>2. CASE SetEntry(t, TRUE, <<>>)
      <4>1. <<>> \in Seq(Attempts)  OBVIOUS
      <4> QED  BY <3>2, <4>1, EntryUpdate
    <3>3. CASE SetEntry(t, Mine(t).held, Append(Mine(t).queue, t))
      <4>1. Append(Mine(t).queue, t) \in Seq(Attempts)  BY MineType
      <4> QED  BY <3>3, <4>1, MineType, EntryUpdate
    <3> QED  BY <1>3, <3>1, <3>2, <3>3 DEF Enter
  <2> QED  BY <1>3, <2>1 DEF Enter
<1>4. ASSUME NEW t \in Attempts, Cancel(t)  PROVE TypeOK'
  <2>1. PICK i \in 1..Len(Mine(t).queue) : SetEntry(t, Mine(t).held, Without(Mine(t).queue, i))
    BY <1>4 DEF Cancel
  <2>2. Without(Mine(t).queue, i) \in Seq(Attempts)  BY MineType, WithoutType
  <2>3. entry' \in [Processes -> [Roots -> Entry]]  BY <2>1, <2>2, MineType, EntryUpdate
  <2> QED  BY <1>4, <2>3 DEF Cancel
<1>5. ASSUME NEW t \in Attempts, Claim(t)  PROVE TypeOK'
  <2>1. Tail(Mine(t).queue) \in Seq(Attempts)  BY <1>5, MineType DEF Claim
  <2>2. entry' \in [Processes -> [Roots -> Entry]]  BY <1>5, <2>1, EntryUpdate DEF Claim
  <2> QED  BY <1>5, <2>2 DEF Claim
<1>6. ASSUME NEW t \in Attempts, Recheck(t) \/ GiveUp(t) \/ LockFails(t) \/ Leave(t)  PROVE TypeOK'
  <2>1. entry' \in [Processes -> [Roots -> Entry]]
    BY <1>6, ReleaseLocalEffect DEF Recheck, GiveUp, LockFails, Leave
  <2> QED  BY <1>6, <2>1 DEF Recheck, GiveUp, LockFails, Leave
<1>7. ASSUME NEW t \in Attempts, Lock(t) \/ Verify(t) \/ RootMoved(t) \/ Unlock(t)  PROVE TypeOK'
  BY <1>7 DEF Lock, Verify, RootMoved, Unlock
<1>8. ASSUME NEW t \in Attempts, Expire(t)  PROVE TypeOK'
  BY <1>8 DEF Expire
<1>9. ASSUME NEW p \in Processes, Die(p)  PROVE TypeOK'
  <2>1. Unlisted \in Entry  BY DEF Unlisted, Entry
  <2> QED  BY <1>9, <2>1 DEF Die
<1>10. CASE UNCHANGED avars
  BY <1>10 DEF avars
<1> QED
  BY <1>1, <1>2, <1>3, <1>4, <1>5, <1>6, <1>7, <1>8, <1>9, <1>10 DEF Next, Acquire, Fail, Release

\* The initial states satisfy the invariant.
LEMMA InitAInv == Init => AInv
<1> SUFFICES ASSUME Init PROVE AInv  OBVIOUS
<1>1. Unlisted \in Entry /\ ~Unlisted.held  BY DEF Unlisted, Entry
<1> QED
  BY <1>1, HomeAssumption DEF Init, AInv, TypeOK, Locked, Entered, OneInside, HeldHasHolder, Inside,
        Mine, Stages, Outcomes

-----------------------------------------------------------------------------
\* What a step does to the registry and the lock, as the invariant sees it: t
\* moves, everyone else stays where he was and wants what he wanted.
OthersStay(t) ==
  \A s \in Attempts : s # t => pc'[s] = pc[s] /\ root'[s] = root[s]

\* A step that neither takes nor drops the entry or the lock keeps the invariant.
LEMMA Moves ==
  ASSUME AInv, TypeOK', NEW t \in Attempts, OthersStay(t), UNCHANGED flock,
         \A p \in Processes, r \in Roots : entry'[p][r].held = entry[p][r].held,
         Inside(t)' <=> Inside(t), Inside(t) => root'[t] = root[t],
         pc'[t] \in {"verify", "own"} <=> pc[t] \in {"verify", "own"}
  PROVE  AInv'
<1> USE DEF AInv
<1>1. \A s \in Attempts : Inside(s)' => Inside(s) /\ root'[s] = root[s]
  BY DEF OthersStay, Inside
<1>2. \A s \in Attempts : Inside(s) => Inside(s)' /\ root'[s] = root[s]
  BY DEF OthersStay, Inside
<1>3. Locked'  BY DEF Locked, OthersStay, TypeOK, Inside
<1>4. Entered'
  <2>1. SUFFICES ASSUME NEW s \in Attempts, Inside(s)'  PROVE entry'[Home[s]][root'[s]].held
    BY DEF Entered, Mine
  <2>2. Home[s] \in Processes /\ root[s] \in Roots  BY HomeAssumption DEF TypeOK
  <2>3. entry[Home[s]][root[s]].held  BY <1>1, <2>1 DEF Entered, Mine
  <2> QED  BY <1>1, <2>1, <2>2, <2>3
<1>5. OneInside'
  <2>1. SUFFICES ASSUME NEW s \in Attempts, NEW u \in Attempts,
                        s # u, Inside(s)', Inside(u)', Home[s] = Home[u]
                 PROVE  root'[s] # root'[u]
    BY DEF OneInside
  <2> QED  BY <1>1, <2>1 DEF OneInside
<1>6. ASSUME NEW p \in Processes, NEW r \in Roots, entry'[p][r].held
      PROVE  \E s \in Attempts : Home[s] = p /\ root'[s] = r /\ Inside(s)'
  BY <1>2, <1>6 DEF HeldHasHolder
<1>7. ASSUME NEW r \in Roots, flock'[r] # Nobody
      PROVE  root'[flock'[r]] = r /\ pc'[flock'[r]] \in {"verify", "own"}
  <2>1. flock[r] \in Attempts /\ root[flock[r]] = r /\ pc[flock[r]] \in {"verify", "own"}
    BY <1>7 DEF HeldHasHolder, TypeOK
  <2> QED  BY <1>7, <2>1 DEF OthersStay, Inside
<1>8. HeldHasHolder'  BY <1>6, <1>7 DEF HeldHasHolder
<1> QED  BY <1>3, <1>4, <1>5, <1>8

\* A step that takes an entry nobody holds keeps the invariant.
LEMMA Takes ==
  ASSUME AInv, TypeOK', NEW t \in Attempts, OthersStay(t), UNCHANGED <<flock, root>>,
         ~Mine(t).held, entry'[Home[t]][root[t]].held,
         \A p \in Processes, r \in Roots :
           (p # Home[t] \/ r # root[t]) => entry'[p][r] = entry[p][r],
         ~Inside(t), pc'[t] \in {"claimed", "os"}
  PROVE  AInv'
<1> USE DEF AInv
<1>1. Locked'  BY DEF Locked, OthersStay, TypeOK
<1>2. \A s \in Attempts : Inside(s) /\ Home[s] = Home[t] => root[s] # root[t]
  BY DEF Entered, Mine
<1>3. \A s \in Attempts : s # t => (Inside(s)' <=> Inside(s))  BY DEF OthersStay, Inside
<1>4. Inside(t)'  BY DEF Inside
<1>5. Entered'
  <2>1. SUFFICES ASSUME NEW s \in Attempts, Inside(s)'  PROVE entry'[Home[s]][root[s]].held
    BY DEF Entered, Mine
  <2>2. CASE s = t  BY <2>2
  <2>3. CASE s # t
    <3>1. Home[s] # Home[t] \/ root[s] # root[t]  BY <1>2, <1>3, <2>1, <2>3
    <3>2. entry[Home[s]][root[s]].held  BY <1>3, <2>1, <2>3 DEF Entered, Mine
    <3>3. Home[s] \in Processes /\ root[s] \in Roots  BY HomeAssumption DEF TypeOK
    <3> QED  BY <3>1, <3>2, <3>3
  <2> QED  BY <2>2, <2>3
<1>6. OneInside'
  <2>1. SUFFICES ASSUME NEW s \in Attempts, NEW u \in Attempts,
                        s # u, Inside(s)', Inside(u)', Home[s] = Home[u]
                 PROVE  root[s] # root[u]
    BY DEF OneInside
  <2>2. CASE s # t /\ u # t  BY <1>3, <2>1, <2>2 DEF OneInside
  <2>3. CASE s = t \/ u = t  BY <1>2, <1>3, <2>1, <2>3
  <2> QED  BY <2>2, <2>3
<1>7. ASSUME NEW p \in Processes, NEW r \in Roots, entry'[p][r].held
      PROVE  \E s \in Attempts : Home[s] = p /\ root'[s] = r /\ Inside(s)'
  <2>1. CASE p = Home[t] /\ r = root[t]  BY <1>4, <2>1
  <2>2. CASE ~(p = Home[t] /\ r = root[t])
    <3>1. PICK s \in Attempts : Home[s] = p /\ root[s] = r /\ Inside(s)
      BY <1>7, <2>2 DEF HeldHasHolder
    <3> QED  BY <1>3, <2>2, <3>1
  <2> QED  BY <2>1, <2>2
<1>8. \A r \in Roots : flock'[r] # Nobody =>
        root'[flock'[r]] = r /\ pc'[flock'[r]] \in {"verify", "own"}
  BY DEF HeldHasHolder, OthersStay, TypeOK, Inside
<1>9. HeldHasHolder'  BY <1>7, <1>8 DEF HeldHasHolder
<1> QED  BY <1>1, <1>5, <1>6, <1>9

\* A step that gives its entry up, holding no lock, keeps the invariant.
LEMMA GivesUp ==
  ASSUME AInv, TypeOK', NEW t \in Attempts, OthersStay(t), UNCHANGED <<flock, root>>,
         Inside(t), ReleaseLocal(t), pc[t] \notin {"verify", "own"}, pc'[t] = "idle"
  PROVE  AInv'
<1> USE DEF AInv
<1>1. Locked'  BY DEF Locked, OthersStay, TypeOK
<1>2. \A s \in Attempts : s # t /\ Inside(s) => (Home[s] # Home[t] \/ root[s] # root[t])
  BY DEF OneInside
<1>3. ~Inside(t)'  BY DEF Inside
<1>4. Entered'
  BY SMTT(20), <1>2, <1>3, ReleaseLocalEffect, HomeAssumption DEF Entered, OthersStay, TypeOK, Inside, Mine
<1>5. OneInside'  BY <1>3 DEF OneInside, OthersStay, Inside
<1>6. ASSUME NEW p \in Processes, NEW r \in Roots, entry'[p][r].held
      PROVE  \E s \in Attempts : Home[s] = p /\ root'[s] = r /\ Inside(s)'
  <2>1. ~(p = Home[t] /\ r = root[t])  BY <1>6, ReleaseLocalEffect
  <2>2. entry[p][r].held  BY <1>6, <2>1, ReleaseLocalEffect
  <2>3. PICK s \in Attempts : Home[s] = p /\ root[s] = r /\ Inside(s)
    BY <2>2 DEF HeldHasHolder
  <2>4. s # t  BY <2>1, <2>3
  <2> QED  BY <2>3, <2>4 DEF OthersStay, Inside
<1>7. HeldHasHolder'  BY <1>6 DEF HeldHasHolder, OthersStay, TypeOK
<1> QED  BY <1>1, <1>4, <1>5, <1>7

\* A step that drops the lock it holds, and stays inside, keeps the invariant.
LEMMA Drops ==
  ASSUME AInv, TypeOK', NEW t \in Attempts, OthersStay(t), UNCHANGED <<entry, root>>,
         pc[t] \in {"verify", "own"}, pc'[t] = "unlocked",
         flock' = [flock EXCEPT ![root[t]] = Nobody]
  PROVE  AInv'
<1> USE DEF AInv
<1>1. \A s \in Attempts : s # t /\ pc[s] \in {"verify", "own"} => root[s] # root[t]
  BY DEF Locked
<1>2. Locked'  BY <1>1 DEF Locked, OthersStay, TypeOK
<1>3. Entered'  BY DEF Entered, OthersStay, TypeOK, Inside, Mine
<1>4. OneInside'  BY DEF OneInside, OthersStay, Inside
<1>5. HeldHasHolder'  BY NobodyAssumption DEF HeldHasHolder, OthersStay, TypeOK, Inside, Locked
<1> QED  BY <1>2, <1>3, <1>4, <1>5

\* A step that takes a free lock keeps the invariant.
LEMMA Locks ==
  ASSUME AInv, TypeOK', NEW t \in Attempts, Lock(t)
  PROVE  AInv'
<1> USE DEF AInv
<1>1. /\ pc[t] = "os" /\ flock[root[t]] = Nobody /\ pc' = [pc EXCEPT ![t] = "verify"]
      /\ flock' = [flock EXCEPT ![root[t]] = t] /\ UNCHANGED <<root, entry>>
  BY DEF Lock, Goto
<1>2. OthersStay(t) /\ Inside(t) /\ Inside(t)'  BY <1>1 DEF OthersStay, Inside, TypeOK
<1>3. \A s \in Attempts : Inside(s)' <=> Inside(s)  BY <1>1, <1>2 DEF OthersStay, Inside
<1>4. \A s \in Attempts : s # t /\ pc[s] \in {"verify", "own"} => root[s] # root[t]
  BY <1>1, NobodyAssumption DEF Locked
<1>5. Locked'  BY <1>1, <1>4 DEF Locked, TypeOK
<1>6. Entered' /\ OneInside'  BY <1>1, <1>3 DEF Entered, OneInside, Mine
<1>7. \A p \in Processes, r \in Roots : entry'[p][r].held =>
        \E s \in Attempts : Home[s] = p /\ root'[s] = r /\ Inside(s)'
  BY <1>1, <1>3 DEF HeldHasHolder
<1>8. ASSUME NEW r \in Roots, flock'[r] # Nobody
      PROVE  root'[flock'[r]] = r /\ pc'[flock'[r]] \in {"verify", "own"}
  <2>1. CASE r = root[t]  BY <1>1, <2>1 DEF TypeOK
  <2>2. CASE r # root[t]
    <3>1. flock'[r] = flock[r] /\ flock[r] \in Attempts  BY <1>1, <1>8, <2>2 DEF TypeOK
    <3>2. root[flock[r]] = r /\ pc[flock[r]] \in {"verify", "own"}
      BY <1>8, <3>1 DEF HeldHasHolder
    <3> QED  BY <1>1, <2>2, <3>1, <3>2 DEF TypeOK
  <2> QED  BY <2>1, <2>2
<1> QED  BY <1>5, <1>6, <1>7, <1>8 DEF HeldHasHolder

\* The death of a process takes its attempts, its registry and its locks, and
\* nothing of another process.
LEMMA Dies ==
  ASSUME AInv, TypeOK', NEW p \in Processes, Die(p)
  PROVE  AInv'
<1> USE DEF AInv
<1>1. \A s \in Attempts : IF Home[s] = p THEN ~Inside(s)' /\ pc'[s] = "idle"
                                          ELSE pc'[s] = pc[s] /\ (Inside(s)' <=> Inside(s))
  BY DEF Die, Inside
<1>2. UNCHANGED root  BY DEF Die
<1>3. Locked'
  <2>1. SUFFICES ASSUME NEW s \in Attempts, pc'[s] \in {"verify", "own"}
                 PROVE  flock'[root[s]] = s
    BY <1>2 DEF Locked
  <2>2. Home[s] # p /\ flock[root[s]] = s  BY <1>1, <2>1 DEF Locked
  <2>3. root[s] \in Roots  BY DEF TypeOK
  <2> QED  BY <2>2, <2>3 DEF Die
<1>4. \A q \in Processes, r \in Roots :
        entry'[q][r] = IF q = p THEN Unlisted ELSE entry[q][r]
  BY DEF Die, TypeOK
<1>5. Entered'
  <2>1. SUFFICES ASSUME NEW s \in Attempts, Inside(s)'  PROVE entry'[Home[s]][root[s]].held
    BY <1>2 DEF Entered, Mine
  <2>2. Home[s] # p /\ entry[Home[s]][root[s]].held  BY <1>1, <2>1 DEF Entered, Mine
  <2>3. Home[s] \in Processes /\ root[s] \in Roots  BY HomeAssumption DEF TypeOK
  <2> QED  BY <1>4, <2>2, <2>3
<1>6. OneInside'
  <2>1. SUFFICES ASSUME NEW s \in Attempts, NEW u \in Attempts,
                        s # u, Inside(s)', Inside(u)', Home[s] = Home[u]
                 PROVE  root[s] # root[u]
    BY <1>2 DEF OneInside
  <2> QED  BY <1>1, <2>1 DEF OneInside
<1>7. ASSUME NEW q \in Processes, NEW r \in Roots, entry'[q][r].held
      PROVE  \E s \in Attempts : Home[s] = q /\ root'[s] = r /\ Inside(s)'
  <2>1. q # p /\ entry[q][r].held  BY <1>4, <1>7 DEF Unlisted
  <2>2. PICK s \in Attempts : Home[s] = q /\ root[s] = r /\ Inside(s)
    BY <2>1 DEF HeldHasHolder
  <2> QED  BY <1>1, <1>2, <2>1, <2>2
<1>8. ASSUME NEW r \in Roots, flock'[r] # Nobody
      PROVE  root'[flock'[r]] = r /\ pc'[flock'[r]] \in {"verify", "own"}
  <2>1. flock[r] # Nobody /\ Home[flock[r]] # p /\ flock'[r] = flock[r]  BY <1>8 DEF Die
  <2>2. flock[r] \in Attempts  BY <2>1 DEF TypeOK
  <2>3. root[flock[r]] = r /\ pc[flock[r]] \in {"verify", "own"}  BY <2>1 DEF HeldHasHolder
  <2> QED  BY <1>1, <1>2, <2>1, <2>2, <2>3
<1> QED  BY <1>3, <1>5, <1>6, <1>7, <1>8 DEF HeldHasHolder

-----------------------------------------------------------------------------
\* Every step of every attempt, and every death, keeps the invariant.
LEMMA AStep == AInv /\ [Next]_avars => AInv'
<1> SUFFICES ASSUME AInv, [Next]_avars PROVE AInv'  OBVIOUS
<1>0. TypeOK /\ TypeOK'  BY TypeStep DEF AInv
<1> USE <1>0
<1>1. ASSUME NEW t \in Attempts, NEW r \in Roots, NEW z \in BOOLEAN, Start(t, r, z)
      PROVE  AInv'
  <2>1. pc[t] = "idle" /\ pc' = [pc EXCEPT ![t] = "enter"] /\ UNCHANGED <<entry, flock>>
    BY <1>1 DEF Start, Goto
  <2>2. OthersStay(t)  BY <1>1, <2>1 DEF OthersStay, TypeOK, Start
  <2>3. pc'[t] = "enter"  BY <2>1 DEF TypeOK
  <2> QED  BY <2>1, <2>2, <2>3, Moves DEF Inside
<1>2. ASSUME NEW t \in Attempts, Reject(t) \/ RootUnsafe(t)  PROVE AInv'
  <2>1. pc[t] = "enter" /\ pc' = [pc EXCEPT ![t] = "idle"] /\ UNCHANGED <<root, entry, flock>>
    BY <1>2 DEF Reject, RootUnsafe, Goto
  <2>2. OthersStay(t) /\ pc'[t] = "idle"  BY <2>1 DEF OthersStay, TypeOK
  <2> QED  BY <2>1, <2>2, Moves DEF Inside
<1>3. ASSUME NEW t \in Attempts, Enter(t)  PROVE AInv'
  <2>1. pc[t] = "enter" /\ UNCHANGED <<root, flock>>  BY <1>3 DEF Enter
  <2>2. CASE Mine(t) = Unlisted
    <3>1. SetEntry(t, TRUE, <<>>) /\ pc' = [pc EXCEPT ![t] = "os"]  BY <1>3, <2>2 DEF Enter, Goto
    <3>2. OthersStay(t) /\ pc'[t] = "os"  BY <2>1, <3>1 DEF OthersStay, TypeOK
    <3>3. ~Mine(t).held  BY <2>2 DEF Unlisted
    <3>4. <<>> \in Seq(Attempts)  OBVIOUS
    <3>5. entry'[Home[t]][root[t]] = [held |-> TRUE, queue |-> <<>>]  BY <3>1, <3>4, EntryUpdate
    <3>6. \A p \in Processes, r \in Roots :
            (p # Home[t] \/ r # root[t]) => entry'[p][r] = entry[p][r]
      BY <3>1, <3>4, EntryUpdate
    <3> QED  BY <2>1, <3>2, <3>3, <3>5, <3>6, Takes DEF Inside
  <2>3. CASE UNCHANGED entry /\ Goto(t, "idle")
    <3>1. OthersStay(t) /\ pc'[t] = "idle"  BY <2>1, <2>3 DEF OthersStay, TypeOK, Goto
    <3> QED  BY <2>1, <2>3, <3>1, Moves DEF Inside
  <2>4. CASE SetEntry(t, Mine(t).held, Append(Mine(t).queue, t)) /\ Goto(t, "waiting")
    <3>1. OthersStay(t) /\ pc'[t] = "waiting"  BY <2>1, <2>4 DEF OthersStay, TypeOK, Goto
    <3>2. Append(Mine(t).queue, t) \in Seq(Attempts)  BY MineType
    <3>3. \A p \in Processes, r \in Roots : entry'[p][r].held = entry[p][r].held
      BY <2>4, <3>2, QueueEffect
    <3> QED  BY <2>1, <3>1, <3>3, Moves DEF Inside
  <2> QED  BY <1>3, <2>2, <2>3, <2>4 DEF Enter
<1>4. ASSUME NEW t \in Attempts, Cancel(t)  PROVE AInv'
  <2>1. pc[t] = "waiting" /\ Goto(t, "idle") /\ UNCHANGED <<root, flock>>  BY <1>4 DEF Cancel
  <2>2. PICK i \in 1..Len(Mine(t).queue) : SetEntry(t, Mine(t).held, Without(Mine(t).queue, i))
    BY <1>4 DEF Cancel
  <2>3. Without(Mine(t).queue, i) \in Seq(Attempts)  BY MineType, WithoutType
  <2>4. \A p \in Processes, r \in Roots : entry'[p][r].held = entry[p][r].held
    BY <2>2, <2>3, QueueEffect
  <2>5. OthersStay(t) /\ pc'[t] = "idle"  BY <2>1 DEF OthersStay, TypeOK, Goto
  <2> QED  BY <2>1, <2>4, <2>5, Moves DEF Inside
<1>5. ASSUME NEW t \in Attempts, Claim(t)  PROVE AInv'
  <2>1. /\ pc[t] = "waiting" /\ ~Mine(t).held /\ Goto(t, "claimed") /\ UNCHANGED <<root, flock>>
        /\ SetEntry(t, TRUE, Tail(Mine(t).queue))
    BY <1>5 DEF Claim
  <2>2. Tail(Mine(t).queue) \in Seq(Attempts)  BY <1>5, MineType DEF Claim
  <2>3. entry'[Home[t]][root[t]] = [held |-> TRUE, queue |-> Tail(Mine(t).queue)]
    BY <2>1, <2>2, EntryUpdate
  <2>4. \A p \in Processes, r \in Roots :
          (p # Home[t] \/ r # root[t]) => entry'[p][r] = entry[p][r]
    BY <2>1, <2>2, EntryUpdate
  <2>5. OthersStay(t) /\ pc'[t] = "claimed"  BY <2>1 DEF OthersStay, TypeOK, Goto
  <2> QED  BY <2>1, <2>3, <2>4, <2>5, Takes DEF Inside
<1>6. ASSUME NEW t \in Attempts, pc[t] \in {"claimed", "os", "unlocked"}, ReleaseLocal(t),
             Goto(t, "idle"), UNCHANGED <<root, flock>>
      PROVE  AInv'
  <2>1. OthersStay(t) /\ pc'[t] = "idle"  BY <1>6 DEF OthersStay, TypeOK, Goto
  <2> QED  BY <1>6, <2>1, GivesUp DEF Inside
<1>7. ASSUME NEW t \in Attempts, Recheck(t)  PROVE AInv'
  <2>1. CASE late[t]  BY <1>6, <1>7, <2>1 DEF Recheck
  <2>2. CASE ~late[t]
    <3>1. pc[t] = "claimed" /\ Goto(t, "os") /\ UNCHANGED <<root, flock, entry>>
      BY <1>7, <2>2 DEF Recheck
    <3>2. OthersStay(t) /\ pc'[t] = "os"  BY <3>1 DEF OthersStay, TypeOK, Goto
    <3> QED  BY <3>1, <3>2, Moves DEF Inside
  <2> QED  BY <2>1, <2>2
<1>8. ASSUME NEW t \in Attempts, GiveUp(t) \/ LockFails(t) \/ Leave(t)  PROVE AInv'
  BY <1>6, <1>8 DEF GiveUp, LockFails, Leave
<1>9. ASSUME NEW t \in Attempts, Lock(t)  PROVE AInv'
  BY <1>9, Locks
<1>10. ASSUME NEW t \in Attempts, pc[t] \in {"verify", "own"}, Goto(t, "unlocked"),
              flock' = [flock EXCEPT ![root[t]] = Nobody], UNCHANGED <<root, entry>>
       PROVE  AInv'
  <2>1. OthersStay(t) /\ pc'[t] = "unlocked"  BY <1>10 DEF OthersStay, TypeOK, Goto
  <2> QED  BY <1>10, <2>1, Drops
<1>11. ASSUME NEW t \in Attempts, Verify(t)  PROVE AInv'
  <2>1. CASE late[t]  BY <1>10, <1>11, <2>1 DEF Verify
  <2>2. CASE ~late[t]
    <3>1. pc[t] = "verify" /\ Goto(t, "own") /\ UNCHANGED <<root, flock, entry>>
      BY <1>11, <2>2 DEF Verify
    <3>2. OthersStay(t) /\ pc'[t] = "own"  BY <3>1 DEF OthersStay, TypeOK, Goto
    <3> QED  BY <3>1, <3>2, Moves DEF Inside
  <2> QED  BY <2>1, <2>2
<1>12. ASSUME NEW t \in Attempts, RootMoved(t) \/ Unlock(t)  PROVE AInv'
  BY <1>10, <1>12 DEF RootMoved, Unlock
<1>13. ASSUME NEW t \in Attempts, Expire(t)  PROVE AInv'
  <2>1. UNCHANGED <<pc, root, entry, flock>>  BY <1>13 DEF Expire
  <2> QED  BY <2>1 DEF AInv, Locked, Entered, OneInside, HeldHasHolder, Inside, Mine
<1>14. ASSUME NEW p \in Processes, Die(p)  PROVE AInv'
  BY <1>14, Dies
<1>15. CASE UNCHANGED avars
  BY <1>15 DEF avars, AInv, Locked, Entered, OneInside, HeldHasHolder, Inside, Mine
<1> QED
  BY <1>1, <1>2, <1>3, <1>4, <1>5, <1>7, <1>8, <1>9, <1>11, <1>12, <1>13, <1>14, <1>15
     DEF Next, Acquire, Fail, Release

\* The invariant holds throughout.
LEMMA AInvariant == Spec => []AInv
BY InitAInv, AStep, PTL DEF Spec

\* acquireTargetGuard and Release keep the registry, the lock table and the
\* attempts well formed, and an owner has always been told that it owns.
THEOREM AuthorityTypeCorrect == Spec => []TypeOK
<1>1. AInv => TypeOK  BY DEF AInv
<1> QED  BY <1>1, AInvariant, PTL

\* However many attempts in however many processes race, time out, fail and
\* die, no two own a target root at once: of a process the registry lets one
\* through, and of those the lock on the open file description admits one.
THEOREM TargetIsExclusive == Spec => []MutualExclusion
<1>1. AInv => MutualExclusion  BY DEF AInv, TypeOK, Locked, MutualExclusion
<1> QED  BY <1>1, AInvariant, PTL

\* The registry alone lets one attempt of a process through, from the claim to
\* the release that follows the unlock.
THEOREM RegistryIsExclusive == Spec => []OneInside
<1>1. AInv => OneInside  BY DEF AInv
<1> QED  BY <1>1, AInvariant, PTL

\* No refusal, timeout, failure or death leaves an entry or a lock that nobody
\* will give up: what is held is held by an attempt that is still on its way.
THEOREM NothingLeftHeld == Spec => []HeldHasHolder
<1>1. AInv => HeldHasHolder  BY DEF AInv
<1> QED  BY <1>1, AInvariant, PTL

-----------------------------------------------------------------------------
(* The queue of a target root holds the waiters and nobody else, and nobody *)
(* passes them                                                             *)


\* Who waits in process p for root r.
Waiters(p, r) == {t \in Attempts : Home[t] = p /\ root[t] = r /\ pc[t] = "waiting"}

\* The same after a step, for a root fixed before it.
WaitersAfter(p, r) == {t \in Attempts : Home[t] = p /\ root'[t] = r /\ pc'[t] = "waiting"}

\* q lists the members of W, each once.
Lists(q, W) ==
  /\ {q[i] : i \in 1..Len(q)} = W
  /\ \A i, j \in 1..Len(q) : q[i] = q[j] => i = j

QInv == TypeOK /\ QueueIsWaiting

-----------------------------------------------------------------------------
\* Queueing up: the newcomer is added.
LEMMA AppendLists ==
  ASSUME NEW q \in Seq(Attempts), NEW t \in Attempts, NEW W, Lists(q, W), t \notin W
  PROVE  Lists(Append(q, t), W \cup {t})
<1> DEFINE a == Append(q, t)
<1>1. Len(a) = Len(q) + 1 /\ Len(q) \in Nat  OBVIOUS
<1>2. \A i \in 1..Len(q) : a[i] = q[i] /\ q[i] \in W  BY DEF Lists
<1>3. a[Len(q) + 1] = t  OBVIOUS
<1> HIDE DEF a
<1>4. \A i \in 1..Len(a) : a[i] = t \/ (i \in 1..Len(q) /\ a[i] \in W)
  <2>1. SUFFICES ASSUME NEW i \in 1..Len(a), i # Len(q) + 1  PROVE i \in 1..Len(q)
    BY <1>2, <1>3
  <2> QED  BY <1>1, <2>1
<1>5. ASSUME NEW x \in W \cup {t}  PROVE \E i \in 1..Len(a) : a[i] = x
  <2>1. CASE x = t  BY <1>1, <1>3, <2>1
  <2>2. CASE x \in W
    <3>1. PICK i \in 1..Len(q) : q[i] = x  BY <2>2 DEF Lists
    <3>2. i \in 1..Len(a)  BY <1>1
    <3> QED  BY <1>2, <3>1, <3>2
  <2> QED  BY <1>5, <2>1, <2>2
<1>6. {a[i] : i \in 1..Len(a)} = W \cup {t}  BY <1>4, <1>5
<1>7. ASSUME NEW i \in 1..Len(a), NEW j \in 1..Len(a), a[i] = a[j]  PROVE i = j
  <2>1. CASE i \in 1..Len(q) /\ j \in 1..Len(q)  BY <1>2, <1>7, <2>1 DEF Lists
  <2>2. CASE i \in 1..Len(q) /\ j \notin 1..Len(q)
    <3>1. j = Len(q) + 1  BY <1>1, <2>2
    <3> QED  BY <1>2, <1>3, <1>7, <2>2, <3>1
  <2>3. CASE i \notin 1..Len(q) /\ j \in 1..Len(q)
    <3>1. i = Len(q) + 1  BY <1>1, <2>3
    <3> QED  BY <1>2, <1>3, <1>7, <2>3, <3>1
  <2>4. CASE i \notin 1..Len(q) /\ j \notin 1..Len(q)  BY <1>1, <2>4
  <2> QED  BY <2>1, <2>2, <2>3, <2>4
<1>8. Lists(a, W \cup {t})  BY <1>6, <1>7 DEF Lists
<1> QED  BY <1>8 DEF a

\* Leaving the queue: the one who leaves is gone, and he alone.
LEMMA WithoutLists ==
  ASSUME NEW q \in Seq(Attempts), NEW i \in 1..Len(q), NEW W, Lists(q, W)
  PROVE  Lists(Without(q, i), W \ {q[i]})
<1> DEFINE w == Without(q, i)
           at(j) == IF j < i THEN j ELSE j + 1
<1>1. Len(q) \in Nat /\ Len(w) = Len(q) - 1  BY DEF Without
<1>2. \A j \in 1..Len(w) : w[j] = q[at(j)]  BY <1>1 DEF Without
<1> HIDE DEF w
<1>3. \A j \in 1..Len(w) : at(j) \in 1..Len(q) /\ at(j) # i  BY <1>1
<1>4. \A j, k \in 1..Len(w) : at(j) = at(k) => j = k  BY <1>1
<1>5. \A k \in 1..Len(q) : k # i => \E j \in 1..Len(w) : at(j) = k
  <2>1. SUFFICES ASSUME NEW k \in 1..Len(q), k # i  PROVE \E j \in 1..Len(w) : at(j) = k
    OBVIOUS
  <2>2. CASE k < i
    <3>1. k \in 1..Len(w) /\ at(k) = k  BY <1>1, <2>2
    <3> QED  BY <3>1
  <2>3. CASE k > i
    <3>1. k - 1 \in 1..Len(w) /\ at(k - 1) = k  BY <1>1, <2>3
    <3> QED  BY <3>1
  <2> QED  BY <2>1, <2>2, <2>3
<1> HIDE DEF at
<1>6. \A j, k \in 1..Len(q) : q[j] = q[k] => j = k  BY DEF Lists
<1>7. W = {q[k] : k \in 1..Len(q)}  BY DEF Lists
<1>8. {w[j] : j \in 1..Len(w)} = W \ {q[i]}
  <2>1. ASSUME NEW j \in 1..Len(w)  PROVE w[j] \in W \ {q[i]}  BY <1>2, <1>3, <1>6, <1>7
  <2>2. ASSUME NEW x \in W \ {q[i]}  PROVE \E j \in 1..Len(w) : w[j] = x
    <3>1. PICK k \in 1..Len(q) : q[k] = x  BY <1>7, <2>2
    <3>2. PICK j \in 1..Len(w) : at(j) = k  BY <1>5, <2>2, <3>1
    <3> QED  BY <1>2, <3>1, <3>2
  <2> QED  BY <2>1, <2>2
<1>9. \A j, k \in 1..Len(w) : w[j] = w[k] => j = k  BY <1>2, <1>3, <1>4, <1>6
<1>10. Lists(w, W \ {q[i]})  BY <1>8, <1>9 DEF Lists
<1> QED  BY <1>10 DEF w

\* Claiming removes the first waiter.
LEMMA TailIsWithout ==
  ASSUME NEW q \in Seq(Attempts), q # <<>>
  PROVE  Tail(q) = Without(q, 1) /\ Head(q) = q[1] /\ 1 \in 1..Len(q)
<1>1. Len(q) \in Nat \ {0}  OBVIOUS
<1>2. Tail(q) \in Seq(Attempts) /\ Without(q, 1) \in Seq(Attempts)
  BY <1>1, HeadTailProperties, WithoutType
<1>3. Len(Tail(q)) = Len(q) - 1 /\ Len(Without(q, 1)) = Len(q) - 1
  BY <1>1, HeadTailProperties DEF Without
<1>4. \A i \in 1..(Len(q) - 1) : Tail(q)[i] = q[i + 1] /\ Without(q, 1)[i] = q[i + 1]
  BY <1>1, <1>3, HeadTailProperties DEF Without
<1>5. Tail(q) = Without(q, 1)  BY <1>2, <1>3, <1>4, SeqEqual
<1> QED  BY <1>1, <1>5

-----------------------------------------------------------------------------
\* One attempt moves: the waiters for its root gain or lose it, those for any
\* other root stay the same.
LEMMA WaitersMove ==
  ASSUME TypeOK, NEW t \in Attempts, OthersStay(t),
         pc[t] = "waiting" \/ pc'[t] = "waiting" => root'[t] = root[t]
  PROVE  /\ \A p \in Processes, r \in Roots :
              (p # Home[t] \/ r # root[t]) => WaitersAfter(p, r) = Waiters(p, r)
         /\ pc'[t] = "waiting" =>
              WaitersAfter(Home[t], root[t]) = Waiters(Home[t], root[t]) \cup {t}
         /\ pc'[t] # "waiting" =>
              WaitersAfter(Home[t], root[t]) = Waiters(Home[t], root[t]) \ {t}
<1> USE DEF Waiters, WaitersAfter, OthersStay
<1>1. ASSUME NEW p \in Processes, NEW r \in Roots, p # Home[t] \/ r # root[t]
      PROVE  WaitersAfter(p, r) = Waiters(p, r)
  BY <1>1
<1>2. ASSUME pc'[t] = "waiting"
      PROVE  WaitersAfter(Home[t], root[t]) = Waiters(Home[t], root[t]) \cup {t}
  BY <1>2
<1>3. ASSUME pc'[t] # "waiting"
      PROVE  WaitersAfter(Home[t], root[t]) = Waiters(Home[t], root[t]) \ {t}
  BY <1>3
<1> QED  BY <1>1, <1>2, <1>3

\* If the queue of that root follows its waiters, the invariant is kept.
LEMMA QueueFollows ==
  ASSUME QInv, NEW t \in Attempts, OthersStay(t),
         pc[t] = "waiting" \/ pc'[t] = "waiting" => root'[t] = root[t],
         \A p \in Processes, r \in Roots :
           (p # Home[t] \/ r # root[t]) => entry'[p][r] = entry[p][r],
         Lists(entry'[Home[t]][root[t]].queue, WaitersAfter(Home[t], root[t]))
  PROVE  QueueIsWaiting'
<1>1. SUFFICES ASSUME NEW p \in Processes, NEW r \in Roots
               PROVE  Lists(entry'[p][r].queue, WaitersAfter(p, r))
  BY DEF QueueIsWaiting, Lists, WaitersAfter
<1>2. CASE p = Home[t] /\ r = root[t]  BY <1>2
<1>3. CASE p # Home[t] \/ r # root[t]
  <2>1. Lists(entry[p][r].queue, Waiters(p, r))  BY DEF QInv, QueueIsWaiting, Lists, Waiters
  <2>2. WaitersAfter(p, r) = Waiters(p, r)  BY <1>3, WaitersMove DEF QInv
  <2> QED  BY <1>3, <2>1, <2>2
<1> QED  BY <1>2, <1>3

\* The queue an attempt works on.
LEMMA MineListed ==
  ASSUME QInv, NEW t \in Attempts
  PROVE  Lists(Mine(t).queue, Waiters(Home[t], root[t]))
BY MineType DEF QInv, QueueIsWaiting, Lists, Waiters, Mine

\* A step that leaves the queues alone, of an attempt that does not wait.
LEMMA QueueStays ==
  ASSUME QInv, NEW t \in Attempts, OthersStay(t),
         pc[t] # "waiting", pc'[t] # "waiting",
         \A p \in Processes, r \in Roots :
           (p # Home[t] \/ r # root[t]) => entry'[p][r] = entry[p][r],
         entry'[Home[t]][root[t]].queue = Mine(t).queue
  PROVE  QueueIsWaiting'
<1>1. WaitersAfter(Home[t], root[t]) = Waiters(Home[t], root[t]) \ {t}  BY WaitersMove DEF QInv
<1>2. t \notin Waiters(Home[t], root[t])  BY DEF Waiters
<1>3. WaitersAfter(Home[t], root[t]) = Waiters(Home[t], root[t])  BY <1>1, <1>2
<1> QED  BY <1>3, MineListed, QueueFollows

-----------------------------------------------------------------------------
\* At the start nobody waits and every queue is empty.
LEMMA InitQInv == Init => QInv
<1> SUFFICES ASSUME Init PROVE QInv  OBVIOUS
<1>1. TypeOK  BY InitAInv DEF AInv
<1>2. ASSUME NEW p \in Processes, NEW r \in Roots
      PROVE  Lists(entry[p][r].queue, Waiters(p, r))
  <2>1. entry[p][r].queue = <<>>  BY DEF Init, Unlisted
  <2>2. Waiters(p, r) = {}  BY DEF Init, Waiters
  <2> QED  BY <2>1, <2>2 DEF Lists
<1> QED  BY <1>1, <1>2 DEF QInv, QueueIsWaiting, Lists, Waiters

\* Every step of every attempt, and every death, keeps the queues true.
LEMMA QStep == QInv /\ [Next]_avars => QInv'
<1> SUFFICES ASSUME QInv, [Next]_avars PROVE QueueIsWaiting'
  BY TypeStep DEF QInv
<1>0. TypeOK /\ TypeOK'  BY TypeStep DEF QInv
<1>1. ASSUME NEW t \in Attempts, NEW s \in Stages, Goto(t, s)
      PROVE  pc'[t] = s /\ \A u \in Attempts : u # t => pc'[u] = pc[u]
  BY <1>0, <1>1 DEF Goto, TypeOK
<1>2. ASSUME NEW t \in Attempts, NEW s \in Stages \ {"waiting"}, Goto(t, s),
             pc[t] # "waiting", UNCHANGED <<root, entry>>
      PROVE  QueueIsWaiting'
  <2>1. OthersStay(t) /\ pc'[t] # "waiting"  BY <1>1, <1>2 DEF OthersStay
  <2> QED  BY <1>2, <2>1, QueueStays DEF Mine
<1>3. ASSUME NEW t \in Attempts, Goto(t, "idle"), pc[t] # "waiting", ReleaseLocal(t),
             UNCHANGED root
      PROVE  QueueIsWaiting'
  <2>1. OthersStay(t) /\ pc'[t] # "waiting"  BY <1>1, <1>3 DEF OthersStay, Stages
  <2>2. SetEntry(t, FALSE, Mine(t).queue)  BY <1>3 DEF ReleaseLocal
  <2>3. entry'[Home[t]][root[t]] = [held |-> FALSE, queue |-> Mine(t).queue]
    BY <1>0, <2>2, MineType, EntryUpdate
  <2>4. \A p \in Processes, r \in Roots :
          (p # Home[t] \/ r # root[t]) => entry'[p][r] = entry[p][r]
    BY <1>0, <2>2, MineType, EntryUpdate
  <2> QED  BY <1>3, <2>1, <2>3, <2>4, QueueStays
<1>4. ASSUME NEW t \in Attempts, NEW r \in Roots, NEW z \in BOOLEAN, Start(t, r, z)
      PROVE  QueueIsWaiting'
  <2>1. pc[t] = "idle" /\ Goto(t, "enter") /\ UNCHANGED entry  BY <1>4 DEF Start
  <2>2. \A u \in Attempts : u # t => root'[u] = root[u]  BY <1>0, <1>4 DEF Start, TypeOK
  <2>3. OthersStay(t) /\ pc'[t] = "enter"  BY <1>1, <2>1, <2>2 DEF OthersStay, Stages
  <2> QED  BY <2>1, <2>3, QueueStays DEF Mine
<1>5. ASSUME NEW t \in Attempts, Reject(t) \/ RootUnsafe(t)  PROVE QueueIsWaiting'
  BY <1>2, <1>5 DEF Reject, RootUnsafe, Stages
<1>6. ASSUME NEW t \in Attempts, Enter(t)  PROVE QueueIsWaiting'
  <2>1. pc[t] = "enter" /\ UNCHANGED root  BY <1>6 DEF Enter
  <2>2. CASE Mine(t) = Unlisted /\ SetEntry(t, TRUE, <<>>) /\ Goto(t, "os")
    <3>1. OthersStay(t) /\ pc'[t] = "os"  BY <1>1, <2>1, <2>2 DEF OthersStay, Stages
    <3>2. <<>> \in Seq(Attempts)  OBVIOUS
    <3>3. entry'[Home[t]][root[t]] = [held |-> TRUE, queue |-> <<>>]
      BY <1>0, <2>2, <3>2, EntryUpdate
    <3>4. \A p \in Processes, r \in Roots :
            (p # Home[t] \/ r # root[t]) => entry'[p][r] = entry[p][r]
      BY <1>0, <2>2, <3>2, EntryUpdate
    <3>5. entry'[Home[t]][root[t]].queue = Mine(t).queue  BY <2>2, <3>3 DEF Unlisted
    <3> QED  BY <2>1, <3>1, <3>4, <3>5, QueueStays
  <2>3. CASE UNCHANGED entry /\ Goto(t, "idle")
    BY <1>2, <2>1, <2>3 DEF Stages
  <2>4. CASE SetEntry(t, Mine(t).held, Append(Mine(t).queue, t)) /\ Goto(t, "waiting")
    <3>1. OthersStay(t) /\ pc'[t] = "waiting"  BY <1>1, <2>1, <2>4 DEF OthersStay, Stages
    <3>2. Append(Mine(t).queue, t) \in Seq(Attempts)  BY <1>0, MineType
    <3>3. entry'[Home[t]][root[t]] = [held |-> Mine(t).held, queue |-> Append(Mine(t).queue, t)]
      BY ZenonT(40), <1>0, <2>4, <3>2, MineType, EntryUpdate
    <3>4. \A p \in Processes, r \in Roots :
            (p # Home[t] \/ r # root[t]) => entry'[p][r] = entry[p][r]
      BY <1>0, <2>4, <3>2, MineType, EntryUpdate
    <3>5. t \notin Waiters(Home[t], root[t])  BY <2>1 DEF Waiters
    <3>6. Lists(Append(Mine(t).queue, t), Waiters(Home[t], root[t]) \cup {t})
      BY <1>0, <3>5, MineType, MineListed, AppendLists
    <3>7. WaitersAfter(Home[t], root[t]) = Waiters(Home[t], root[t]) \cup {t}
      BY <1>0, <2>1, <3>1, WaitersMove
    <3>8. Lists(entry'[Home[t]][root[t]].queue, WaitersAfter(Home[t], root[t]))
      BY <3>3, <3>6, <3>7
    <3> QED  BY <2>1, <3>1, <3>4, <3>8, QueueFollows
  <2> QED  BY <1>6, <2>2, <2>3, <2>4 DEF Enter
<1>7. ASSUME NEW t \in Attempts, NEW h \in BOOLEAN, NEW i \in 1..Len(Mine(t).queue),
             Mine(t).queue[i] = t, SetEntry(t, h, Without(Mine(t).queue, i)),
             NEW s \in Stages \ {"waiting"}, Goto(t, s), UNCHANGED root
      PROVE  QueueIsWaiting'
  <2>1. OthersStay(t) /\ pc'[t] # "waiting"  BY <1>1, <1>7 DEF OthersStay
  <2>2. Without(Mine(t).queue, i) \in Seq(Attempts)  BY <1>0, MineType, WithoutType
  <2>3. entry'[Home[t]][root[t]] = [held |-> h, queue |-> Without(Mine(t).queue, i)]
    BY <1>0, <1>7, <2>2, EntryUpdate
  <2>4. \A p \in Processes, r \in Roots :
          (p # Home[t] \/ r # root[t]) => entry'[p][r] = entry[p][r]
    BY <1>0, <1>7, <2>2, EntryUpdate
  <2>5. Lists(Without(Mine(t).queue, i), Waiters(Home[t], root[t]) \ {t})
    BY <1>0, <1>7, MineType, MineListed, WithoutLists
  <2>6. WaitersAfter(Home[t], root[t]) = Waiters(Home[t], root[t]) \ {t}
    BY <1>0, <1>7, <2>1, WaitersMove
  <2>7. Lists(entry'[Home[t]][root[t]].queue, WaitersAfter(Home[t], root[t]))
    BY <2>3, <2>5, <2>6
  <2> QED  BY <1>7, <2>1, <2>4, <2>7, QueueFollows
<1>8. ASSUME NEW t \in Attempts, Cancel(t)  PROVE QueueIsWaiting'
  <2>1. PICK i \in 1..Len(Mine(t).queue) :
          Mine(t).queue[i] = t /\ SetEntry(t, Mine(t).held, Without(Mine(t).queue, i))
    BY <1>8 DEF Cancel
  <2>2. Goto(t, "idle") /\ UNCHANGED root  BY <1>8 DEF Cancel
  <2>3. Mine(t).held \in BOOLEAN  BY <1>0, MineType
  <2>4. "idle" \in Stages \ {"waiting"}  BY DEF Stages
  <2> QED  BY <1>7, <2>1, <2>2, <2>3, <2>4
<1>9. ASSUME NEW t \in Attempts, Claim(t)  PROVE QueueIsWaiting'
  <2>1. /\ Mine(t).queue # <<>> /\ Head(Mine(t).queue) = t
        /\ SetEntry(t, TRUE, Tail(Mine(t).queue))
        /\ Goto(t, "claimed") /\ UNCHANGED root
    BY <1>9 DEF Claim
  <2>2. Mine(t).queue \in Seq(Attempts)  BY <1>0, MineType
  <2>3. /\ Tail(Mine(t).queue) = Without(Mine(t).queue, 1)
        /\ Mine(t).queue[1] = t /\ 1 \in 1..Len(Mine(t).queue)
    BY <2>1, <2>2, TailIsWithout
  <2>4. "claimed" \in Stages \ {"waiting"}  BY DEF Stages
  <2>5. SetEntry(t, TRUE, Without(Mine(t).queue, 1))  BY <2>1, <2>3
  <2> QED  BY <1>7, <2>1, <2>3, <2>4, <2>5
<1>10. ASSUME NEW t \in Attempts, Recheck(t)  PROVE QueueIsWaiting'
  BY <1>2, <1>3, <1>10 DEF Recheck, Stages
<1>11. ASSUME NEW t \in Attempts, Lock(t) \/ Verify(t) \/ RootMoved(t) \/ Unlock(t)
       PROVE  QueueIsWaiting'
  BY <1>2, <1>11 DEF Lock, Verify, RootMoved, Unlock, Stages
<1>12. ASSUME NEW t \in Attempts, GiveUp(t) \/ LockFails(t) \/ Leave(t)  PROVE QueueIsWaiting'
  BY <1>3, <1>12 DEF GiveUp, LockFails, Leave
<1>13. ASSUME UNCHANGED <<pc, root, entry>>  PROVE QueueIsWaiting'
  BY <1>13 DEF QInv, QueueIsWaiting
<1>14. ASSUME NEW t \in Attempts, Expire(t)  PROVE QueueIsWaiting'
  BY <1>13, <1>14 DEF Expire
<1>15. ASSUME NEW q \in Processes, Die(q)  PROVE QueueIsWaiting'
  <2>1. SUFFICES ASSUME NEW p \in Processes, NEW r \in Roots
                 PROVE  Lists(entry'[p][r].queue, WaitersAfter(p, r))
    BY DEF QueueIsWaiting, Lists, WaitersAfter
  <2>2. /\ UNCHANGED root
        /\ \A s \in Attempts : pc'[s] = IF Home[s] = q THEN "idle" ELSE pc[s]
        /\ entry'[p][r] = IF p = q THEN Unlisted ELSE entry[p][r]
    BY <1>0, <1>15 DEF Die, TypeOK
  <2>3. CASE p = q
    <3>1. WaitersAfter(p, r) = {}  BY <2>2, <2>3 DEF WaitersAfter
    <3>2. entry'[p][r].queue = <<>>  BY <2>2, <2>3 DEF Unlisted
    <3> QED  BY <3>1, <3>2 DEF Lists
  <2>4. CASE p # q
    <3>1. WaitersAfter(p, r) = Waiters(p, r)  BY <2>2, <2>4 DEF Waiters, WaitersAfter
    <3>2. Lists(entry[p][r].queue, Waiters(p, r))  BY DEF QInv, QueueIsWaiting, Lists, Waiters
    <3> QED  BY <2>2, <2>4, <3>1, <3>2
  <2> QED  BY <2>3, <2>4
<1>16. CASE UNCHANGED avars  BY <1>13, <1>16 DEF avars
<1> QED
  BY <1>4, <1>5, <1>6, <1>8, <1>9, <1>10, <1>11, <1>12, <1>14, <1>15, <1>16
     DEF Next, Acquire, Fail, Release

\* enter, claim and cancel keep the queue of every root exact: it holds the
\* attempts that wait for the root, each once.  A cancelled attempt leaves no
\* ghost that would block those behind it, and no waiter is forgotten.
THEOREM QueueHoldsTheWaiters == Spec => []QueueIsWaiting
<1>1. QInv => QueueIsWaiting  BY DEF QInv
<1> QED  BY <1>1, InitQInv, QStep, PTL DEF Spec

-----------------------------------------------------------------------------
\* Only a new entry and a claim let an attempt through, and neither passes one
\* who queued earlier: no entry is new while somebody waits, and the claim is
\* the head's.
LEMMA NobodyPasses ==
  ASSUME TypeOK, [Next]_avars, NEW s \in Attempts, NEW t \in Attempts,
         Ahead(s, t), ~Inside(t), Inside(t)'
  PROVE  FALSE
<1>1. PICK i \in 1..Len(Mine(s).queue) :
        Mine(s).queue[i] = s /\ \A j \in 1..i : Mine(s).queue[j] # t
  BY DEF Ahead
<1>2. Mine(s) = Mine(t) /\ Mine(t).queue \in Seq(Attempts)  BY MineType DEF Ahead, Mine
<1>3. 1 \in 1..i /\ Len(Mine(t).queue) # 0  BY <1>1, <1>2
<1>4. Mine(t).queue # <<>> /\ Mine(t).queue[1] # t  BY <1>1, <1>2, <1>3
<1>5. pc'[t] # pc[t]  BY DEF Inside
<1>6. ASSUME NEW u \in Attempts, NEW c, Goto(u, c)  PROVE u = t /\ pc'[t] = c
  BY <1>5, <1>6 DEF Goto, TypeOK
<1>7. ASSUME NEW u \in Attempts, NEW r \in Roots, NEW z \in BOOLEAN, Start(u, r, z)  PROVE FALSE
  BY <1>6, <1>7 DEF Start, Inside
<1>8. ASSUME NEW u \in Attempts, Reject(u) \/ RootUnsafe(u) \/ Cancel(u)  PROVE FALSE
  BY <1>6, <1>8 DEF Reject, RootUnsafe, Cancel, Inside
<1>9. ASSUME NEW u \in Attempts, Enter(u)  PROVE FALSE
  <2>1. Mine(t) # Unlisted  BY <1>4 DEF Unlisted
  <2>2. CASE Mine(u) = Unlisted /\ Goto(u, "os")
    <3>1. u = t  BY <1>6, <2>2
    <3> QED  BY <2>1, <2>2, <3>1
  <2>3. CASE Goto(u, "idle")  BY <1>6, <2>3 DEF Inside
  <2>4. CASE Goto(u, "waiting")  BY <1>6, <2>4 DEF Inside
  <2> QED  BY <1>9, <2>2, <2>3, <2>4 DEF Enter
<1>10. ASSUME NEW u \in Attempts, Claim(u)  PROVE FALSE
  <2>1. u = t  BY <1>6, <1>10 DEF Claim
  <2>2. Head(Mine(t).queue) = t  BY <1>10, <2>1 DEF Claim
  <2>3. Head(Mine(t).queue) = Mine(t).queue[1]  BY <1>2, <1>4
  <2> QED  BY <1>4, <2>2, <2>3
<1>11. ASSUME NEW u \in Attempts,
              \/ Recheck(u) \/ Lock(u) \/ GiveUp(u) \/ Verify(u) \/ LockFails(u)
              \/ RootMoved(u) \/ Unlock(u) \/ Leave(u)
       PROVE  FALSE
  BY <1>6, <1>11 DEF Recheck, Lock, GiveUp, Verify, LockFails, RootMoved, Unlock, Leave, Inside
<1>12. ASSUME NEW u \in Attempts, Expire(u)  PROVE FALSE
  BY <1>5, <1>12 DEF Expire
<1>13. ASSUME NEW p \in Processes, Die(p)  PROVE FALSE
  BY <1>13 DEF Die, Inside
<1>14. CASE UNCHANGED avars  BY <1>5, <1>14 DEF avars
<1> QED
  BY <1>7, <1>8, <1>9, <1>10, <1>11, <1>12, <1>13, <1>14 DEF Next, Acquire, Fail, Release

\* Whatever the attempts do, one that queued for a root is not passed by a
\* later one of its process while it waits.
THEOREM QueueIsFair == Spec => NoOvertaking
<1>1. TypeOK /\ [Next]_avars =>
        [\A s, t \in Attempts :
           Ahead(s, t) /\ ~Inside(t) /\ Inside(t)' => pc'[s] # "waiting"]_avars
  BY NobodyPasses
<1> QED  BY <1>1, AuthorityTypeCorrect, PTL DEF Spec, NoOvertaking
=============================================================================
