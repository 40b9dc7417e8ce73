-------------------------- MODULE HostedCompletion --------------------------
(***************************************************************************)
(* The canonical apply of internal/install: executeApply (apply.go) runs   *)
(* the journaled transaction, rewrites one resource with the rendered      *)
(* hosted-MCP configuration (hosted_mcp_finalizer.go), and hands the       *)
(* active journal to the completion of transaction.go, which publishes the *)
(* selected profile under the profile lease, then the v3 manifest, then    *)
(* the journal's commit marker, and undoes all of it in reverse otherwise. *)
(*                                                                         *)
(* TransactionFS supplies every step on the journal; this module adds the  *)
(* completion's own, and what each ending tells the caller.                *)
(***************************************************************************)
EXTENDS TransactionFS

CONSTANTS
  Hosted,       \* the resource the finalizer rewrites
  Profiles,     \* profile selections of the project
  Deaths        \* may an owner die?

Manifest == N   \* compareTransactionResources orders it after the others

ASSUME HostedAssumption == Hosted \in 1..(N - 1)
ASSUME DeathsAssumption == Deaths \in BOOLEAN

VARIABLES
  profile,      \* the project's selection in the profile store
  want,         \* the selection the running apply has sealed in its plan
  lease,        \* the profile store's authority, see Leases
  prior,        \* the selection the lease captured
  provisional,  \* the profile was written for a journal not yet decided
  fate,         \* why a rollback is under way
  status,       \* Result.Status of the last apply that reported
  changed       \* Result.ChangedState

completion == <<profile, want, lease, prior, provisional, fate, status, changed>>
hvars == <<vars, completion>>

\* "parting": its owner has given the target up and not yet the profile.
Leases == {"none", "held", "restored", "parting"}
Fates == {"plain", "cancelled", "cancelled_finalized", "tainted"}
Statuses == {"none", "succeeded", "failed", "rolled_back", "cancelled", "residual_risk"}
CompletionPcs == {"profile", "encode", "append", "publish", "publishRename"}

\* Seeded fault (HTypeOK): the transaction's result is passed on as it is.
ReportUnmapped(r) == r

\* What apply.go makes of the transaction's result.
Report(r) ==
  CASE r = "committed"                 -> "succeeded"
    [] r \in {"failed", "cleanup_failed"} -> "failed"
    [] r = "aborted"                   -> "rolled_back"
    [] r = "rolled_back" /\ fate = "plain" -> "rolled_back"
    [] r = "rolled_back" /\ fate \in {"cancelled", "cancelled_finalized"} -> "cancelled"
    [] r = "rollback_error" /\ fate = "cancelled" -> "rolled_back"
    [] OTHER                           -> "residual_risk"

\* The target guard is released first, the profile lease after it.
Released(r) ==
  /\ lease' = IF lease = "none" THEN "none" ELSE "parting"
  /\ status' = Report(r) /\ changed' = (r \in {"committed", "cleanup_failed"})
  /\ fate' = "plain"
  /\ UNCHANGED <<profile, want, prior, provisional>>

\* The steps of TransactionFS either end the apply or leave the completion
\* alone; a settled journal of an earlier owner is no longer provisional.
Ending ==
  IF pc' = "idle" THEN Released(result')
  ELSE /\ provisional' = (provisional /\ pc' # "begin")
       /\ UNCHANGED <<profile, want, lease, prior, fate, status, changed>>

\* rollbackHostedMCPCompletionD: the manifest, then the profile, then the rest.
ProfileDue == pc = "restore" /\ lease = "held" /\ Manifest \notin todo

JournalStep == ~ProfileDue /\ (Settle \/ Advance) /\ Ending

-----------------------------------------------------------------------------
(* executeApply *)

Begin(w, u) ==
  /\ StartApply(w)
  /\ Hosted \in Touched(w) /\ Manifest \notin Touched(w)
  /\ want' = u /\ status' = "none" /\ changed' = FALSE
  /\ UNCHANGED <<profile, lease, prior, provisional, fate>>

\* ctx.Err() after the writes, and after the finalizer.
Cancel ==
  /\ CallRollback
  /\ fate' = IF task = "finalize" THEN "cancelled_finalized" ELSE "cancelled"
  /\ UNCHANGED <<profile, want, lease, prior, provisional, status, changed>>

\* finalizeHostedMCP: resolve, render and write, or roll the journal back.
Finalize(c) == CallRewrite(Hosted, c) /\ UNCHANGED completion
FinalizeFailed == CallRollback /\ UNCHANGED completion

\* Seeded fault (ManifestLast): the completion starts with the manifest.
HandOffToManifest ==
  /\ pc = "held" /\ task = "finalize"
  /\ pc' = "encode" /\ task' = "complete"
  /\ UNCHANGED <<plan, todo, states, bad, result, disk, healthy, completion>>

\* The handoff is claimed by the completion.
HandOff ==
  /\ pc = "held" /\ task = "finalize"
  /\ pc' = "profile" /\ task' = "complete"
  /\ UNCHANGED <<plan, todo, states, bad, result, disk, healthy, completion>>

-----------------------------------------------------------------------------
(* completeHostedMCPCompletionWithEncoder *)

\* Seeded fault (TruthfulOutcome): the lease is taken and nothing written.
BeginProfileUnwritten ==
  /\ pc = "profile" /\ lease = "none"
  /\ lease' = "held" /\ prior' = profile /\ provisional' = FALSE
  /\ Goto("encode")
  /\ UNCHANGED <<disk, healthy, profile, want, fate, status, changed>>

\* beginHeldProfileCompletion: the profile is written under the lease ...
BeginProfile ==
  /\ pc = "profile" /\ lease = "none"
  /\ lease' = "held" /\ prior' = profile /\ profile' = want
  /\ provisional' = (profile # want)
  /\ Goto("encode")
  /\ UNCHANGED <<disk, healthy, want, fate, status, changed>>

\* ... or refused: busy, timed out, conflicting, or its write undone; a write
\* that could not be undone taints the outcome.
ProfileRefused ==
  /\ pc = "profile"
  /\ RollBack("rollback")
  /\ \/ UNCHANGED <<profile, fate>>
     \/ CanFail /\ lease = "none" /\ profile' \in {profile, want} /\ fate' = "tainted"
  /\ UNCHANGED <<disk, healthy, want, lease, prior, provisional, status, changed>>

\* The canonical manifest is encoded and matches the sealed hash, or not.
Encode ==
  /\ pc = "encode"
  /\ \/ \E c \in Content :
          /\ plan' = [plan EXCEPT ![Manifest] = c] /\ pc' = "append"
          /\ UNCHANGED <<task, todo, states, bad, result>>
     \/ RollBack("rollback")
  /\ UNCHANGED <<disk, healthy, completion>>

\* Seeded fault (AllOrNothing): the durable header is not extended.
AppendedInMemory(copy) == UNCHANGED jnl

\* appendCompletionBackup: a new header that lists the manifest replaces the
\* sealed one; every failure deletes the backup just taken.
Appended(copy) ==
  jnl' = [jnl EXCEPT !.entries = @ \cup {Manifest},
                     !.kept = IF file[Manifest] = Absent THEN @ ELSE @ \cup {Manifest},
                     !.backup[Manifest] = copy]

AppendBackup ==
  /\ pc = "append"
  /\ \/ /\ Appended(file[Manifest])
        /\ states' = states \cup {Manifest} /\ pc' = "publish"
        /\ UNCHANGED <<task, plan, todo, bad, result>>
     \/ CanFail /\ UNCHANGED jnl /\ RollBack("rollback")
     \/ FailsLate("header") /\ Appended(Absent) /\ RollBack("rollback")
  /\ UNCHANGED <<file, temps, dirs, residue, healthy, completion>>

\* publishCompletionManifest: exclusive temporary, rename, directory fsync.
PublishTemp ==
  /\ pc = "publish"
  /\ \/ /\ Manifest \notin temps /\ DirOf[Manifest] \in dirs \cup jnl.planned
        /\ dirs' = dirs \cup {DirOf[Manifest]} /\ temps' = temps \cup {Manifest}
        /\ Goto("publishRename")
     \/ /\ CanFail \/ Manifest \in temps \/ DirOf[Manifest] \notin dirs \cup jnl.planned
        /\ UNCHANGED <<dirs, temps>> /\ RollBack("rollback")
  /\ UNCHANGED <<file, jnl, residue, healthy, completion>>

PublishRename ==
  /\ pc = "publishRename"
  /\ \/ /\ file' = [file EXCEPT ![Manifest] = plan[Manifest]] /\ temps' = temps \ {Manifest}
        /\ Goto("mark") \/ (FailsLate("write") /\ RollBack("rollback"))
     \/ /\ CanFail /\ UNCHANGED file /\ temps' \in {temps, temps \ {Manifest}}
        /\ RollBack("rollback")
  /\ UNCHANGED <<dirs, jnl, residue, healthy, completion>>

\* commitHostedMCPCompletionD: any error of the marker rolls everything back.
Decide ==
  /\ pc = "mark"
  /\ \/ /\ Mark("committed") /\ pc' = "cleanup" /\ task' = "commit" /\ provisional' = FALSE
        /\ UNCHANGED <<plan, todo, states, bad, result>>
     \/ CanFail /\ UNCHANGED <<jnl, provisional>> /\ RollBack("rollback")
     \/ FailsLate("commit") /\ Mark("committed") /\ RollBack("rollback") /\ UNCHANGED provisional
  /\ UNCHANGED <<file, temps, dirs, residue, healthy>>
  /\ UNCHANGED <<profile, want, lease, prior, fate, status, changed>>

-----------------------------------------------------------------------------
(* The profile's share of an ending *)

\* Seeded fault (RollbackIsCoherent): a failed profile restoration is ignored.
RestoreProfileQuietly ==
  /\ ProfileDue
  /\ lease' = "restored" /\ UNCHANGED bad
  /\ profile' = prior \/ (CanFail /\ UNCHANGED profile)
  /\ provisional' = (provisional /\ profile' # prior)
  /\ UNCHANGED <<pc, task, plan, todo, states, result, disk, healthy>>
  /\ UNCHANGED <<want, prior, fate, status, changed>>

\* profileCompletionLease.restore
RestoreProfile ==
  /\ ProfileDue
  /\ lease' = "restored"
  /\ \/ profile' = prior /\ UNCHANGED bad
     \/ CanFail /\ profile # prior /\ profile' \in {profile, prior} /\ bad' = TRUE
  /\ provisional' = (provisional /\ profile' # prior)
  /\ UNCHANGED <<pc, task, plan, todo, states, result, disk, healthy>>
  /\ UNCHANGED <<want, prior, fate, status, changed>>

\* lease.commit and lease.releaseRollback; a failed release is residual risk.
GiveUpLease ==
  /\ lease = "parting"
  /\ lease' = "none"
  /\ \/ UNCHANGED <<status, changed>>
     \/ CanFail /\ pc = "idle" /\ status' = "residual_risk" /\ changed' = FALSE
  /\ UNCHANGED <<vars, profile, want, prior, provisional, fate>>

-----------------------------------------------------------------------------
(* Environment *)

Die ==
  /\ Deaths /\ Crash
  /\ lease' = IF lease = "parting" THEN "parting" ELSE "none"
  /\ fate' = "plain"
  /\ UNCHANGED <<profile, want, prior, provisional, status, changed>>

\* Another command selects a profile for the project.
Select(u) ==
  /\ lease = "none" /\ profile' = u /\ provisional' = FALSE
  /\ UNCHANGED <<vars, want, lease, prior, fate, status, changed>>

-----------------------------------------------------------------------------
HInit ==
  /\ Init /\ DirOf[Manifest] \in dirs
  /\ profile \in Profiles /\ want = profile /\ prior = profile
  /\ lease = "none" /\ provisional = FALSE
  /\ fate = "plain" /\ status = "none" /\ changed = FALSE

Complete ==
  \/ HandOff \/ BeginProfile \/ ProfileRefused \/ Encode \/ AppendBackup
  \/ PublishTemp \/ PublishRename \/ Decide \/ RestoreProfile \/ GiveUpLease

HNext ==
  \/ JournalStep \/ Complete
  \/ \E w \in Plans, u \in Profiles : Begin(w, u)
  \/ Cancel \/ FinalizeFailed \/ \E c \in Content : Finalize(c)
  \/ Die
  \/ \E u \in Profiles : Select(u)

HSpec == HInit /\ [][HNext]_hvars

-----------------------------------------------------------------------------
\* The shape of the state.
HTypeOK ==
  /\ file \in [Paths -> Value] /\ temps \in SUBSET Paths /\ dirs \in SUBSET Dirs
  /\ jnl \in Journal /\ residue \in BOOLEAN
  /\ pc \in Pcs \cup CompletionPcs /\ task \in Tasks \cup {"complete"}
  /\ plan \in [Paths -> Value] /\ todo \in SUBSET Paths /\ states \in SUBSET Paths
  /\ result \in Results /\ {bad, healthy, provisional, changed} \subseteq BOOLEAN
  /\ {profile, want, prior} \subseteq Profiles
  /\ lease \in Leases /\ fate \in Fates /\ status \in Statuses

\* The owner lives to report its outcome.
Ends == pc # "idle" /\ pc' = "idle" /\ result' # "none"

\* A result that says the target changed (executeApply, applyFailure) is
\* given only with every planned resource, the manifest and the profile in
\* place; any other result without residual risk only with the profile write
\* undone.  A rollback that is reported complete has settled the journal, so
\* that no later recovery replays it over what the user does next.
TruthfulOutcome ==
  [][Ends =>
       /\ changed' => /\ profile' = want /\ plan[Manifest] # Absent
                      /\ \A p \in Touched(plan) : file'[p] = plan[p]
       /\ ~changed' /\ status' # "residual_risk" => ~provisional'
       /\ status' \in {"rolled_back", "cancelled"} => ~Unsettled']_hvars

\* completeHostedMCPCompletion publishes the manifest only once every other
\* resource and the profile, held by its lease, have their final contents.
ManifestLast ==
  [][pc = "publishRename" /\ file'[Manifest] # file[Manifest] =>
       /\ lease = "held" /\ profile = want
       /\ \A p \in Touched(plan) \ {Manifest} : file[p] = plan[p]]_hvars

\* rollbackHostedMCPCompletionD settles the journal only with the profile
\* back to what its lease captured.
RollbackIsCoherent ==
  "restored" \in jnl.marks /\ task = "rollback" /\ fate # "tainted" =>
    ~provisional /\ (lease \in {"held", "restored"} => profile = prior)

\* Whoever restores the journal, its profile write is undone as well: the
\* journal covers the whole boundary (recover, beginHeldProfileCompletion).
RestoredMeansWhole == "restored" \in jnl.marks => ~provisional \/ fate = "tainted"

\* A failed apply leaves nothing installed (commitHostedMCPCompletionD).
FailedMeansUndone == status = "failed" => ~changed

\* The target authority is the outermost one: nobody enters the target while
\* a profile lease taken under it is still out (commitHostedMCPCompletionD).
TargetOutermost == lease # "none" => pc # "idle"
=============================================================================
