-------------------------- MODULE InstallWorkflow --------------------------
(***************************************************************************)
(* `lore install` from its flags to its exit status (cli/app.go,           *)
(* cli/actions.go, cli/install_presenter.go) over the workflow of          *)
(* internal/install: the gates of the release profile, prepare, the        *)
(* question to the user, execution, and what each ending prints and        *)
(* exits with.  An interrupt may arrive at any moment of an apply.         *)
(*                                                                         *)
(* What the three effects of a canonical apply do to the disk is the       *)
(* subject of HostedCompletion, and what a legacy installer does that of   *)
(* PiInstall and PlannedInstall; here each is a step with the outcomes     *)
(* those modules have.                                                     *)
(***************************************************************************)
EXTENDS Integers, Sequences, SequencesExt

CONSTANTS
    Routes,      \* the routes the commands of a run select
    Supported,   \* targets an adapter is registered for
    Unsupported, \* names that are no target one can install
    OutputFails  \* writing the JSON result may fail

VARIABLES
    release,     \* the profile embedded in the binary: its status and its gate
    input,       \* the local facts the workflow was built from
    tty,         \* are stdin and stdout a terminal
    server,      \* what the first failing check of a preflight is, or "ready"
    call,        \* the flags of the command
    pc,          \* where the command is
    signalled,   \* an interrupt has cancelled the context: "no", "early", "late"
    answer,      \* what the user said: "none", "yes", "no"
    sealed,      \* the prepared plan, with the route it was prepared for
    files,       \* the target: "prior", "mixed" or "new"
    resolved,    \* the credential has been resolved
    events,      \* the progress an observer has seen
    result,      \* install.Result
    stdout, stderr,   \* what kinds of text went to each
    exit         \* the exit status, -1 while running
env == << release, input, tty, server >>
effects == << files, resolved, events >>
console == << stdout, stderr, exit >>
vars == << env, call, pc, signalled, answer, sealed, effects, result, console >>

-----------------------------------------------------------------------------
Gates == << "off", "E", "D", "A" >>
Rank(g) == CHOOSE n \in 1..4 : Gates[n] = g

(* releaseprofile.Resolve: a profile counts only when its digest and its     *)
(* release and rollback identities are the binary's; else every gate is off. *)
Embedded == {"absent", "tampered", "other release", "genuine"}

(* Snapshot.Gate and NewRoutePolicyFromReleaseProfile *)
ReleaseGate == IF release.embedded = "genuine" THEN release.gate ELSE "off"

Mode(c) == IF c.explain THEN "explain" ELSE IF c.dry THEN "dry" ELSE "apply"
Route(c) == IF c.legacy THEN "legacy" ELSE "canonical"
Calls == [argv : {"ok", "help", "malformed"}, explain : BOOLEAN, dry : BOOLEAN, legacy : BOOLEAN,
          yes : BOOLEAN, format : {"human", "json", "other"}, target : Supported \cup Unsupported]

(* RoutePolicy.Decide of the canonical modes; a legacy one meets no gate.    *)
Needed == [explain |-> 2, dry |-> 3, apply |-> 4]
Admitted == Rank(ReleaseGate) >= Needed[Mode(call)]

(* SealTransactionPlan and the comparison of its report with the request:    *)
(* the facts are complete, consistent and the requested target's.            *)
Seals == input = "sound"

Blank == [status |-> "failed", admitted |-> FALSE, changed |-> FALSE, interrupted |-> FALSE,
          residual |-> FALSE, attempted |-> FALSE, complete |-> FALSE, error |-> ""]
Ready == [Blank EXCEPT !.status = "ready", !.admitted = TRUE]

-----------------------------------------------------------------------------
(* What parsing refuses before any route runs.                               *)
Conflicting(c) == (c.explain /\ (c.dry \/ c.legacy \/ c.yes)) \/ (c.yes /\ c.dry)

(* ResolveInstallTarget *)
Installable(c) == c.target \in Supported

(* newPrepared: the token of one execution. *)
NewPrepared(route) == sealed' = route

(* runInstall up to the choice of the route.  Only an apply listens for      *)
(* interrupts; a target nobody can install is told to stdout.                *)
Invoke ==
    /\ pc = "shell"
    /\ \E c \in Calls :
          /\ Route(c) \in Routes
          /\ c.argv # "ok" => c.format = "human" /\ ~c.explain /\ ~c.dry /\ ~c.yes
          /\ call' = c
          /\ IF c.argv # "ok" \/ c.format = "other" \/ Conflicting(c)
             THEN /\ exit' = IF c.argv = "help" THEN 1 ELSE 2
                  /\ stderr' = {"usage"} /\ pc' = "exited" /\ UNCHANGED stdout
             ELSE /\ UNCHANGED stderr
                  /\ IF Installable(c)
                     THEN pc' = "prepare" /\ UNCHANGED << stdout, exit >>
                     ELSE exit' = 1 /\ stdout' = {"target list"} /\ pc' = "exited"
    /\ UNCHANGED << env, signalled, answer, sealed, effects, result >>

Present(r) == result' = r /\ pc' = "present"
Error(r, code) == [r EXCEPT !.status = "failed", !.error = code]

(* The gate first, then the sealing. *)
PrepareThen(mode, next) ==
    /\ pc = "prepare" /\ Route(call) = "canonical" /\ Mode(call) = mode
    /\ \/ ~Admitted /\ Present(Error(Blank, "canonical_route_disabled")) /\ UNCHANGED sealed
       \/ Admitted /\ ~Seals /\ Present(Error(Blank, "rejected")) /\ UNCHANGED sealed
       \/ Admitted /\ Seals /\ result' = Ready /\ NewPrepared("canonical") /\ pc' = next
    /\ UNCHANGED << env, call, signalled, answer, effects, console >>

(* An explanation ends here, a dry run asks nothing. *)
PrepareExplain == PrepareThen("explain", "present")
PrepareDryRun == PrepareThen("dry", "execute")
PrepareApply == PrepareThen("apply", "confirm")

(* PrepareExplicitLegacy *)
PrepareLegacy ==
    /\ pc = "prepare" /\ Route(call) = "legacy"
    /\ result' = Ready
    /\ NewPrepared("legacy")
    /\ pc' = IF Mode(call) = "dry" THEN "execute" ELSE "confirm"
    /\ UNCHANGED << env, call, signalled, answer, effects, console >>

-----------------------------------------------------------------------------
(* confirmAndExecuteInstall up to the question; ConfirmationRequiredResult.  *)
Confirm ==
    /\ pc = "confirm"
    /\ \/ call.yes /\ pc' = "execute" /\ UNCHANGED << result, stderr >>
       \/ ~call.yes /\ tty /\ pc' = "asking" /\ stderr' = stderr \cup {"prompt"} /\ UNCHANGED result
       \/ ~call.yes /\ ~tty /\ Present(Error(Blank, "confirmation_required")) /\ UNCHANGED stderr
    /\ UNCHANGED << env, call, signalled, answer, sealed, effects, stdout, exit >>

(* A line arrives on stdin. *)
Answer(said) ==
    /\ pc = "asking"
    /\ answer' = said
    /\ IF said = "yes" THEN pc' = "execute" /\ UNCHANGED result
       ELSE Present([result EXCEPT !.status = "cancelled"])
    /\ UNCHANGED << env, call, signalled, sealed, effects, console >>

(* Seeded fault (InterruptEnds): the question waits for the line alone. *)
InterruptedAskingNever == FALSE /\ UNCHANGED vars

(* The context is cancelled while the question stands. *)
InterruptedAsking ==
    /\ pc = "asking" /\ signalled # "no"
    /\ Present([result EXCEPT !.status = "cancelled", !.interrupted = TRUE])
    /\ UNCHANGED << env, call, signalled, answer, sealed, effects, console >>

-----------------------------------------------------------------------------
(* emitApply: only the human format has an observer.                         *)
Emit(phases) == events' = IF call.format = "human" THEN events \o phases ELSE events
E(seq, phase, kind, done) == [seq |-> seq, phase |-> phase, kind |-> kind, done |-> done]

(* ExecuteDryRun; no observer is passed to it.                               *)
ExecuteDryRun ==
    /\ pc = "execute" /\ sealed = "canonical" /\ Mode(call) = "dry"
    /\ Present([Ready EXCEPT !.status = "succeeded"])
    /\ UNCHANGED << env, call, signalled, answer, sealed, effects, console >>

(* executeApply up to the transaction: the plan is sealed again from the     *)
(* same facts, and nothing is touched when the user has given up by now.     *)
Check ==
    /\ pc = "execute" /\ sealed = "canonical" /\ Mode(call) = "apply"
    /\ \/ signalled = "no" /\ pc' = "write" /\ UNCHANGED result
          /\ Emit(<< E(1, "prepare", "completed", 1), E(2, "seal", "completed", 2), E(3, "backup", "started", 2) >>)
       \/ /\ signalled # "no"
          /\ Present([Ready EXCEPT !.status = "cancelled", !.interrupted = TRUE])
          /\ UNCHANGED events
    /\ UNCHANGED << env, call, signalled, answer, sealed, files, resolved, console >>

(* applyFailure and canonicalApplyError.  How the effect ended: it was never *)
(* begun, undone, undone with an error that is no residual risk, not undone, *)
(* or done but for the cleanup.                                              *)
Failures == {"unbegun", "undone", "unclean", "residual", "cleanup"}

Failure(how, r) ==
    LET failed == [r EXCEPT !.error = "apply_rejected"]
    IN  CASE how = "residual" -> [failed EXCEPT !.status = "residual-risk", !.residual = TRUE, !.attempted = TRUE]
          [] how = "cleanup"  -> [failed EXCEPT !.status = "failed", !.changed = TRUE]
          [] how = "unbegun"  -> [failed EXCEPT !.status = "failed"]
          [] OTHER -> [failed EXCEPT !.status = "rolled-back", !.attempted = TRUE, !.complete = TRUE]

Left(how) == CASE how = "residual" -> "mixed" [] how = "cleanup" -> "new" [] OTHER -> "prior"

(* Seeded fault (EventsTell): the rollback is announced under a number of    *)
(* its own.                                                                  *)
UndoneLast(seq) == 8

(* interruptedApply tells under the number that follows the last event.      *)
UndoneUnder(seq) == seq

(* interruptedApply: the context was cancelled between two effects.          *)
Undo(seq, how) ==
    LET r == [Ready EXCEPT !.interrupted = TRUE, !.attempted = TRUE]
    IN  /\ files' = Left(how)
        /\ IF how = "undone"
           THEN /\ Present([r EXCEPT !.status = "cancelled", !.complete = TRUE])
                /\ Emit(<< E(UndoneUnder(seq), "rollback", "completed", 7) >>)
           ELSE /\ Present(Failure(how, r))
                /\ Emit(<< E(UndoneUnder(seq), "rollback", "failed", 0) >>)

(* applyTransactionFS, and the context once it has written. *)
Write ==
    /\ pc = "write"
    /\ \/ files' = "mixed" /\ pc' = "written" /\ Emit(<< E(4, "write", "completed", 4) >>) /\ UNCHANGED result
       \/ \E how \in {"unbegun", "undone", "unclean", "residual"} :
             files' = Left(how) /\ Present(Failure(how, Ready)) /\ Emit(<< E(4, "write", "failed", 0) >>)
    /\ UNCHANGED << env, call, signalled, answer, sealed, resolved, console >>

UndoWrites ==
    /\ pc = "written" /\ signalled # "no"
    /\ \E how \in {"undone", "unclean", "residual"} : Undo(5, how)
    /\ UNCHANGED << env, call, signalled, answer, sealed, resolved, console >>

(* finalizeHostedMCP: the credential is resolved here and nowhere else. *)
Finalize ==
    /\ pc = "written" /\ signalled = "no"
    /\ resolved' = TRUE
    /\ \/ pc' = "finalized" /\ UNCHANGED << files, result >>
          /\ Emit(<< E(5, "finalize", "started", 4), E(6, "finalize", "completed", 5) >>)
       \/ \E how \in {"undone", "unclean", "residual"} :
             /\ files' = Left(how) /\ Present(Failure(how, Ready))
             /\ Emit(<< E(5, "finalize", "started", 4), E(6, "finalize", "failed", 0) >>)
    /\ UNCHANGED << env, call, signalled, answer, sealed, console >>

(* rollbackHostedMCPCompletion makes residual risk of every error. *)
UndoFinalization ==
    /\ pc = "finalized" /\ signalled # "no"
    /\ \E how \in {"undone", "residual"} : Undo(7, how)
    /\ UNCHANGED << env, call, signalled, answer, sealed, resolved, console >>

(* completeHostedMCPCompletion: from here on an interrupt comes too late. *)
Complete ==
    /\ pc = "finalized" /\ signalled = "no"
    /\ \/ /\ files' = "new" /\ Present([Ready EXCEPT !.status = "succeeded", !.changed = TRUE])
          /\ Emit(<< E(7, "profile", "started", 5), E(8, "publish", "completed", 7) >>)
       \/ \E how \in {"undone", "unclean", "residual", "cleanup"} :
             /\ files' = Left(how) /\ Present(Failure(how, Ready))
             /\ Emit(<< E(7, "profile", "started", 5), E(8, "publish", "failed", 0) >>)
    /\ UNCHANGED << env, call, signalled, answer, sealed, resolved, console >>

-----------------------------------------------------------------------------
(* Service.Preflight: configuration, credential, address, health, readiness, *)
(* identity, in this order; the first that fails ends it.  A cancelled       *)
(* context fails the first request.                                          *)
Checks == {"config", "auth", "server-url", "healthz", "readyz", "subject"}
CanContinue == server = "ready" /\ signalled = "no"

(* CompleteExplicitLegacy *)
Legacy(ok) ==
    IF ok THEN [Ready EXCEPT !.status = "succeeded", !.changed = Mode(call) = "apply"]
    ELSE [Ready EXCEPT !.status = "failed", !.error = "legacy_execution_failed"]

(* ExecuteLegacy: preflight and plan, then writes without a journal.         *)
ExecuteLegacy ==
    /\ pc = "execute" /\ sealed = "legacy"
    /\ \/ ~CanContinue /\ Present(Legacy(FALSE)) /\ UNCHANGED files
       \/ /\ CanContinue
          /\ \/ Present(Legacy(FALSE)) /\ files' \in (IF Mode(call) = "apply" THEN {"prior", "mixed"} ELSE {files})
             \/ Present(Legacy(TRUE)) /\ files' = IF Mode(call) = "apply" THEN "new" ELSE files
    /\ UNCHANGED << env, call, signalled, answer, sealed, resolved, events, console >>

-----------------------------------------------------------------------------
Succeeded == result.error = "" /\ result.admitted /\ result.status \in {"ready", "succeeded"}

(* installExitCode *)
ExitCode ==
    CASE result.residual -> 3
      [] ~result.residual /\ result.interrupted -> 130
      [] ~result.residual /\ ~result.interrupted /\
         (Succeeded \/ (result.status = "cancelled" /\ ~result.changed /\ ~result.attempted)) -> 0
      [] OTHER -> 1

(* presentInstallResult; writing the object may fail.                        *)
PresentResult ==
    /\ pc = "present"
    /\ pc' = "exited"
    /\ \/ /\ call.format = "json"
          /\ stdout' = {"object"} /\ exit' = ExitCode
          /\ UNCHANGED stderr
       \/ /\ call.format = "json" /\ OutputFails
          /\ stderr' = stderr \cup {"output failed"} /\ exit' = 1
          /\ UNCHANGED stdout
       \/ /\ call.format = "human"
          /\ exit' = ExitCode
          /\ stdout' = IF Succeeded THEN {"report"} ELSE {}
          /\ stderr' = stderr \cup (IF Succeeded THEN {} ELSE {"failure"})
                              \cup (IF Route(call) = "legacy" THEN {"deprecated"} ELSE {})
                              \cup (IF events # << >> THEN {"progress"} ELSE {})
    /\ UNCHANGED << env, call, signalled, answer, sealed, effects, result >>

(* An interrupt.  Nobody listens to it in an explanation or a dry run, which *)
(* it just ends; in an apply it cancels the context once.                    *)
Interrupt ==
    /\ pc \notin {"shell", "exited"}
    /\ \/ /\ Mode(call) = "apply" /\ signalled = "no"
          /\ signalled' = IF pc \in {"prepare", "confirm", "asking", "execute"} THEN "early" ELSE "late"
          /\ UNCHANGED << pc, exit >>
       \/ /\ Mode(call) # "apply"
          /\ pc' = "exited" /\ exit' = 130
          /\ signalled' = "late"
    /\ UNCHANGED << env, call, answer, sealed, effects, result, stdout, stderr >>

Init ==
    /\ release \in [embedded : Embedded, gate : {Gates[n] : n \in 1..4}]
    /\ input \in {"empty", "sound"}
    /\ tty \in BOOLEAN
    /\ server \in (IF "legacy" \in Routes THEN Checks \cup {"ready"} ELSE {"ready"})
    /\ call = [argv |-> "ok", explain |-> FALSE, dry |-> FALSE, legacy |-> FALSE, yes |-> FALSE,
               format |-> "human", target |-> CHOOSE t \in Supported : TRUE]
    /\ pc = "shell" /\ signalled = "no" /\ answer = "none" /\ sealed = "none"
    /\ files = "prior" /\ resolved = FALSE /\ events = << >>
    /\ result = Blank /\ stdout = {} /\ stderr = {} /\ exit = -1

(* The steps of the program itself. *)
Step ==
    \/ PrepareExplain \/ PrepareDryRun \/ PrepareApply \/ PrepareLegacy \/ Confirm \/ InterruptedAsking
    \/ ExecuteDryRun \/ Check \/ Write \/ UndoWrites \/ Finalize \/ UndoFinalization \/ Complete
    \/ ExecuteLegacy \/ PresentResult

Next == Invoke \/ Step \/ (\E said \in {"yes", "no"} : Answer(said)) \/ Interrupt

Spec == Init /\ [][Next]_vars
Fairness == WF_vars(Step)
FairSpec == Spec /\ Fairness

-----------------------------------------------------------------------------
(* Every variable holds a value of its kind, and a command that has not      *)
(* ended has no exit status.                                                 *)
TypeOK ==
    /\ pc \in {"shell", "prepare", "confirm", "asking", "execute", "write", "written", "finalized", "present", "exited"}
    /\ call \in Calls /\ signalled \in {"no", "early", "late"} /\ answer \in {"none", "yes", "no"}
    /\ sealed \in {"none", "canonical", "legacy"} /\ files \in {"prior", "mixed", "new"}
    /\ result.status \in {"ready", "succeeded", "cancelled", "rolled-back", "failed", "residual-risk"}
    /\ exit \in {-1, 0, 1, 2, 3, 130} /\ (exit = -1 <=> pc # "exited")

(* "Apply only after route and confirmation", "credentials only at            *)
(* finalization": the target, the credential and the observer see something  *)
(* only of an apply that the genuine profile's gate or the word legacy lets  *)
(* through, that the user consented to, and never of a disabled canonical    *)
(* route falling back on the legacy one.                                     *)
ConsentedEffects ==
    [][effects' # effects =>
         /\ Mode(call) = "apply" /\ (call.yes \/ answer = "yes")
         /\ \/ call.legacy /\ UNCHANGED << resolved, events >>
            \/ ~call.legacy /\ release = [embedded |-> "genuine", gate |-> "A"] /\ input = "sound"]_vars

(* "Exact exit status precedence", of the canonical route: what the status   *)
(* says of the target is true, whichever effect failed, whenever the         *)
(* interrupt came.  A failed cleanup (CleanupOutcome) is let aside.          *)
ExitTells ==
    (pc = "exited" /\ ~call.legacy) =>
        /\ exit \in {0, 1, 2, 130} /\ ~result.changed => files = "prior"
        /\ exit = 3 <=> files = "mixed"
        /\ exit = 130 => signalled # "no"
        /\ exit = 0 => files = (IF result.status = "succeeded" /\ Mode(call) = "apply" THEN "new" ELSE "prior")

(* "Emit typed progress without changing semantics": events are numbered     *)
(* without a gap, their progress never falls but in a failure, which is the  *)
(* last of them as an undoing is, and the publication is told of the new     *)
(* target only.                                                              *)
EventsTell ==
    /\ \A n \in 1..Len(events) :
          /\ events[n].seq = n
          /\ n > 1 /\ events[n].kind # "failed" => events[n].done >= events[n-1].done
          /\ events[n].kind = "failed" \/ events[n].phase = "rollback" => n = Len(events)
    /\ (pc = "exited" /\ call.format = "human" /\ ~call.legacy) =>
          (files = "new" /\ result.error = "" <=> events # << >> /\ Last(events) = E(8, "publish", "completed", 7))

(* "cancellation MUST wait": an interrupted apply ends, also when the user   *)
(* never answers the question.                                               *)
InterruptEnds == signalled # "no" ~> pc = "exited"

(* Scenario D21: "a termination signal arrives before mutation authority is  *)
(* acquired [...] exit is 130", for a command that went on to execute.       *)
EarlyInterruptExits ==
    (pc = "exited" /\ signalled = "early" /\ (call.yes \/ answer = "yes") /\ sealed # "none") => exit = 130

(* Requirement 19: exit 1 is a "failure/cancellation with complete rollback",*)
(* 3 is residual risk.                                                       *)
ExitOneIsUndone == exit = 1 => files = "prior" \/ result.changed

(* Requirement 19: 3 "MUST mean residual risk and override every primary      *)
(* outcome".                                                                 *)
ResidualIsThree == (pc = "exited" /\ ~call.legacy /\ files = "mixed") => exit = 3

(* Requirement 18: "JSON mode MUST emit exactly one newline-terminated        *)
(* object on stdout", parser failures exit 2 without it.                     *)
JsonIsOneObject == (pc = "exited" /\ call.format = "json" /\ exit \in {0, 1, 3}) => stdout = {"object"}

(* Scenario D13: of a successful JSON invocation "stderr is empty".          *)
JsonIsQuiet == (pc = "exited" /\ call.format = "json" /\ exit = 0) => stderr = {}
=============================================================================
