--------------------------- MODULE TargetAuthority --------------------------
(***************************************************************************)
(* The authority over one selected target root (transaction_authority.go,  *)
(* transaction_authority_unix.go): inside a process a registry of roots    *)
(* with a FIFO queue of waiters, across processes a lock on the root's     *)
(* open file description.  A waiter polls until its deadline; a zero-wait  *)
(* attempt is refused at once.  Processes may die at any time, and the     *)
(* kernel then drops their locks.                                          *)
(*                                                                         *)
(* The deadline is a flag that some step of the clock raises: what matters *)
(* is where the code looks at it, not how long five seconds are.           *)
(***************************************************************************)
EXTENDS Naturals, Sequences

CONSTANTS
  Attempts,     \* concurrent calls of acquireTargetGuard
  Processes,    \* processes they run in
  Home,         \* [Attempts -> Processes]
  Roots,        \* target roots, by device and inode
  Nobody        \* no attempt

ASSUME HomeAssumption == Home \in [Attempts -> Processes]
ASSUME NobodyAssumption == Nobody \notin Attempts

VARIABLES
  pc,           \* where each attempt is
  root,         \* the root each attempt wants
  zero,         \* it does not wait
  late,         \* its deadline has passed
  outcome,      \* what it was last told
  entry,        \* processTargetRegistry of each process
  flock         \* who has locked each root's open file description

avars == <<pc, root, zero, late, outcome, entry, flock>>

\* An entry that is neither held nor awaited is not in the registry.
Entry == [held : BOOLEAN, queue : Seq(Attempts)]
Unlisted == [held |-> FALSE, queue |-> <<>>]

Stages == {"idle", "enter", "waiting", "claimed", "os", "verify", "own", "unlocked"}
Outcomes == {"none", "granted", "busy", "timeout", "failed"}

Mine(t) == entry[Home[t]][root[t]]
SetEntry(t, held, queue) ==
  entry' = [entry EXCEPT ![Home[t]][root[t]] = [held |-> held, queue |-> queue]]

\* The attempt holds its process's entry.
Inside(t) == pc[t] \in {"claimed", "os", "verify", "own", "unlocked"}

Goto(t, s) == pc' = [pc EXCEPT ![t] = s]
Tell(t, o) == outcome' = [outcome EXCEPT ![t] = o]

\* Seeded fault (HeldHasHolder): the registry is left as it is.
ReleaseNothing(t) == UNCHANGED entry

\* localTargetRegistry.release
ReleaseLocal(t) == SetEntry(t, FALSE, Mine(t).queue)

-----------------------------------------------------------------------------
(* acquireTargetGuardWithWaiter *)

Start(t, r, z) ==
  /\ pc[t] = "idle"
  /\ Goto(t, "enter") /\ Tell(t, "none")
  /\ root' = [root EXCEPT ![t] = r] /\ zero' = [zero EXCEPT ![t] = z]
  /\ late' = [late EXCEPT ![t] = FALSE]
  /\ UNCHANGED <<entry, flock>>

\* The deadline has passed before the registry is asked.
Reject(t) ==
  /\ pc[t] = "enter" /\ late[t]
  /\ Goto(t, "idle") /\ Tell(t, "timeout")
  /\ UNCHANGED <<root, zero, late, entry, flock>>

\* The root cannot be opened, resolved or pinned.
RootUnsafe(t) ==
  /\ pc[t] = "enter"
  /\ Goto(t, "idle") /\ Tell(t, "failed")
  /\ UNCHANGED <<root, zero, late, entry, flock>>

\* Seeded fault (QueueIsWaiting): zero-wait attempts queue up as well.
EnterAlwaysQueues(t) ==
  /\ pc[t] = "enter" /\ ~late[t]
  /\ IF Mine(t) = Unlisted
     THEN SetEntry(t, TRUE, <<>>) /\ Goto(t, "os") /\ UNCHANGED outcome
     ELSE /\ SetEntry(t, Mine(t).held, Append(Mine(t).queue, t))
          /\ IF zero[t] THEN Goto(t, "idle") /\ Tell(t, "busy")
                        ELSE Goto(t, "waiting") /\ UNCHANGED outcome
  /\ UNCHANGED <<root, zero, late, flock>>

\* localTargetRegistry.enter: a new entry is held at once, an existing one is
\* queued for, even when it is not held at the moment.
Enter(t) ==
  /\ pc[t] = "enter" /\ ~late[t]
  /\ \/ /\ Mine(t) = Unlisted
        /\ SetEntry(t, TRUE, <<>>)
        /\ Goto(t, "os") /\ UNCHANGED outcome
     \/ /\ Mine(t) # Unlisted /\ zero[t]
        /\ Goto(t, "idle") /\ Tell(t, "busy") /\ UNCHANGED entry
     \/ /\ Mine(t) # Unlisted /\ ~zero[t]
        /\ SetEntry(t, Mine(t).held, Append(Mine(t).queue, t))
        /\ Goto(t, "waiting") /\ UNCHANGED outcome
  /\ UNCHANGED <<root, zero, late, flock>>

\* localTargetRegistry.cancel, when the deadline passes in the queue.
Without(q, i) == [j \in 1..(Len(q) - 1) |-> IF j < i THEN q[j] ELSE q[j + 1]]

Cancel(t) ==
  /\ pc[t] = "waiting" /\ late[t]
  /\ \E i \in 1..Len(Mine(t).queue) :
       /\ Mine(t).queue[i] = t
       /\ SetEntry(t, Mine(t).held, Without(Mine(t).queue, i))
  /\ Goto(t, "idle") /\ Tell(t, "timeout")
  /\ UNCHANGED <<root, zero, late, flock>>

\* Seeded fault (NoOvertaking): any waiter claims, not the first one.
ClaimAnywhere(t) ==
  /\ pc[t] = "waiting" /\ ~late[t] /\ ~Mine(t).held
  /\ \E i \in 1..Len(Mine(t).queue) :
       /\ Mine(t).queue[i] = t
       /\ SetEntry(t, TRUE, Without(Mine(t).queue, i))
  /\ Goto(t, "claimed")
  /\ UNCHANGED <<root, zero, late, outcome, flock>>

\* localTargetRegistry.claim
Claim(t) ==
  /\ pc[t] = "waiting" /\ ~late[t]
  /\ ~Mine(t).held /\ Mine(t).queue # <<>> /\ Head(Mine(t).queue) = t
  /\ SetEntry(t, TRUE, Tail(Mine(t).queue))
  /\ Goto(t, "claimed")
  /\ UNCHANGED <<root, zero, late, outcome, flock>>

\* The deadline is checked once more after the claim.
Recheck(t) ==
  /\ pc[t] = "claimed"
  /\ \/ late[t] /\ ReleaseLocal(t) /\ Goto(t, "idle") /\ Tell(t, "timeout")
     \/ ~late[t] /\ Goto(t, "os") /\ UNCHANGED <<entry, outcome>>
  /\ UNCHANGED <<root, zero, late, flock>>

\* Seeded fault (MutualExclusion): a contended lock is taken for granted.
LockAnyway(t) ==
  /\ pc[t] = "os"
  /\ flock' = [flock EXCEPT ![root[t]] = t] /\ Goto(t, "verify")
  /\ UNCHANGED <<root, zero, late, outcome, entry>>

\* acquireUnixTargetGuard: a non-blocking lock on the pinned root ...
Lock(t) ==
  /\ pc[t] = "os" /\ flock[root[t]] = Nobody
  /\ flock' = [flock EXCEPT ![root[t]] = t] /\ Goto(t, "verify")
  /\ UNCHANGED <<root, zero, late, outcome, entry>>

\* Seeded fault (EveryAttemptEnds): the poll loop never looks at the deadline.
GiveUpNever(t) ==
  /\ pc[t] = "os" /\ flock[root[t]] # Nobody /\ zero[t]
  /\ ReleaseLocal(t) /\ Goto(t, "idle") /\ Tell(t, "busy")
  /\ UNCHANGED <<root, zero, late, flock>>

\* ... that is refused at once or, after the deadline, times out; polling again
\* changes nothing.
GiveUp(t) ==
  /\ pc[t] = "os" /\ flock[root[t]] # Nobody
  /\ \/ zero[t] /\ Tell(t, "busy")
     \/ ~zero[t] /\ late[t] /\ Tell(t, "timeout")
  /\ ReleaseLocal(t) /\ Goto(t, "idle")
  /\ UNCHANGED <<root, zero, late, flock>>

\* The lock fails otherwise, or the root moved before it was locked.
LockFails(t) ==
  /\ pc[t] = "os"
  /\ ReleaseLocal(t) /\ Goto(t, "idle") /\ Tell(t, "failed")
  /\ UNCHANGED <<root, zero, late, flock>>

\* The root moved while it was being locked.
RootMoved(t) ==
  /\ pc[t] = "verify"
  /\ flock' = [flock EXCEPT ![root[t]] = Nobody] /\ Goto(t, "unlocked") /\ Tell(t, "failed")
  /\ UNCHANGED <<root, zero, late, entry>>

\* Seeded fault (TypeOK): the guard is handed out with no word to the caller.
VerifyUntold(t) ==
  /\ pc[t] = "verify"
  /\ \/ late[t] /\ Goto(t, "unlocked") /\ Tell(t, "timeout")
        /\ flock' = [flock EXCEPT ![root[t]] = Nobody]
     \/ ~late[t] /\ Goto(t, "own") /\ UNCHANGED <<outcome, flock>>
  /\ UNCHANGED <<root, zero, late, entry>>

\* The combined guard is handed out only before the deadline.
Verify(t) ==
  /\ pc[t] = "verify"
  /\ \/ late[t] /\ Goto(t, "unlocked") /\ Tell(t, "timeout")
        /\ flock' = [flock EXCEPT ![root[t]] = Nobody]
     \/ ~late[t] /\ Goto(t, "own") /\ Tell(t, "granted") /\ UNCHANGED flock
  /\ UNCHANGED <<root, zero, late, entry>>

-----------------------------------------------------------------------------
(* combinedTargetGuard.Release: the lock first, then the registry *)

Unlock(t) ==
  /\ pc[t] = "own"
  /\ flock' = [flock EXCEPT ![root[t]] = Nobody] /\ Goto(t, "unlocked")
  /\ UNCHANGED <<root, zero, late, outcome, entry>>

Leave(t) ==
  /\ pc[t] = "unlocked"
  /\ ReleaseLocal(t) /\ Goto(t, "idle")
  /\ UNCHANGED <<root, zero, late, outcome, flock>>

-----------------------------------------------------------------------------
(* Environment *)

\* The monotonic clock reaches the deadline of a waiting attempt.
Expire(t) ==
  /\ pc[t] \notin {"idle", "own", "unlocked"} /\ ~zero[t] /\ ~late[t]
  /\ late' = [late EXCEPT ![t] = TRUE]
  /\ UNCHANGED <<pc, root, zero, outcome, entry, flock>>

\* A process dies: its registry is gone, the kernel drops its locks.
Die(p) ==
  /\ \E t \in Attempts : Home[t] = p /\ pc[t] # "idle"
  /\ pc' = [t \in Attempts |-> IF Home[t] = p THEN "idle" ELSE pc[t]]
  /\ outcome' = [t \in Attempts |-> IF Home[t] = p THEN "none" ELSE outcome[t]]
  /\ entry' = [entry EXCEPT ![p] = [r \in Roots |-> Unlisted]]
  /\ flock' = [r \in Roots |->
                 IF flock[r] # Nobody /\ Home[flock[r]] = p THEN Nobody ELSE flock[r]]
  /\ UNCHANGED <<root, zero, late>>

-----------------------------------------------------------------------------
Init ==
  /\ pc = [t \in Attempts |-> "idle"]
  /\ root \in [Attempts -> Roots]
  /\ zero = [t \in Attempts |-> FALSE] /\ late = [t \in Attempts |-> FALSE]
  /\ outcome = [t \in Attempts |-> "none"]
  /\ entry = [p \in Processes |-> [r \in Roots |-> Unlisted]]
  /\ flock = [r \in Roots |-> Nobody]

Acquire(t) ==
  Reject(t) \/ Enter(t) \/ Cancel(t) \/ Claim(t) \/ Recheck(t)
  \/ Lock(t) \/ GiveUp(t) \/ Verify(t)

Fail(t) == RootUnsafe(t) \/ LockFails(t) \/ RootMoved(t)

Release(t) == Unlock(t) \/ Leave(t)

Next ==
  \/ \E t \in Attempts :
       \/ Acquire(t) \/ Fail(t) \/ Release(t) \/ Expire(t)
       \/ \E r \in Roots, z \in BOOLEAN : Start(t, r, z)
  \/ \E p \in Processes : Die(p)

Spec == Init /\ [][Next]_avars

\* Attempts keep polling and the clock goes on.  Nothing is assumed of how long
\* an owner keeps the target, and no failure is relied upon to end an attempt.
FairSpec ==
  Spec /\ \A t \in Attempts : WF_avars(Acquire(t)) /\ WF_avars(Expire(t)) /\ WF_avars(Leave(t))

-----------------------------------------------------------------------------
\* The shape of the state, and nobody owns a target unknowingly.
TypeOK ==
  /\ \A t \in Attempts : pc[t] = "own" => outcome[t] = "granted"
  /\ pc \in [Attempts -> Stages] /\ root \in [Attempts -> Roots]
  /\ zero \in [Attempts -> BOOLEAN] /\ late \in [Attempts -> BOOLEAN]
  /\ outcome \in [Attempts -> Outcomes]
  /\ entry \in [Processes -> [Roots -> Entry]]
  /\ flock \in [Roots -> Attempts \cup {Nobody}]

\* One attempt at most owns a root, in whatever process (C11, C12).
MutualExclusion ==
  \A s, t \in Attempts : s # t /\ pc[s] = "own" /\ pc[t] = "own" => root[s] # root[t]

\* Inside a process one attempt at most has passed the registry.
OneInside ==
  \A s, t \in Attempts :
    s # t /\ Inside(s) /\ Inside(t) /\ Home[s] = Home[t] => root[s] # root[t]

\* An entry or a lock is held only by an attempt still on its way: refusals,
\* timeouts and a claim that came too late leave nothing behind.
HeldHasHolder ==
  /\ \A p \in Processes, r \in Roots :
       entry[p][r].held => \E t \in Attempts : Home[t] = p /\ root[t] = r /\ Inside(t)
  /\ \A r \in Roots : flock[r] # Nobody =>
       root[flock[r]] = r /\ pc[flock[r]] \in {"verify", "own"}

\* The queue holds exactly the waiters, each once: a cancelled one is gone and
\* a zero-wait attempt was never in it.
QueueIsWaiting ==
  \A p \in Processes, r \in Roots :
    LET q == entry[p][r].queue
        waiters == {t \in Attempts : Home[t] = p /\ root[t] = r /\ pc[t] = "waiting"}
    IN  /\ {q[i] : i \in 1..Len(q)} = waiters
        /\ \A i, j \in 1..Len(q) : q[i] = q[j] => i = j

\* s waits for the root t wants, in the same process, and t has not queued
\* before it.
Ahead(s, t) ==
  /\ Home[s] = Home[t] /\ root[s] = root[t] /\ pc[s] = "waiting"
  /\ \E i \in 1..Len(Mine(s).queue) :
       /\ Mine(s).queue[i] = s
       /\ \A j \in 1..i : Mine(s).queue[j] # t

\* Nobody of a process passes the registry before those who queued for the
\* root earlier and still wait (enter, claim).
NoOvertaking ==
  [][\A s, t \in Attempts :
       Ahead(s, t) /\ ~Inside(t) /\ Inside(t)' => pc'[s] # "waiting"]_avars

\* Every attempt is decided: an owner that never lets go delays a waiter no
\* longer than its deadline (C13).
EveryAttemptEnds == \A t \in Attempts : pc[t] = "enter" ~> pc[t] \in {"own", "idle"}
=============================================================================
