----------------------------- MODULE InstallTui -----------------------------
(***************************************************************************)
(* The interactive shell (internal/tui): the root model with its menu, its *)
(* questions and its asynchronous actions, and the install screen that     *)
(* prepares and executes requests of the install workflow.  Update handles *)
(* one message at a time; commands run beside it and answer with messages  *)
(* that name neither the screen nor the request they belong to.            *)
(***************************************************************************)
EXTENDS Integers, Sequences, FiniteSets

CONSTANTS
    Items,        \* the menu, in order
    Targets,      \* the install targets, in order: [id, available]
    PiTarget,     \* the target that plans before it installs
    HasWorkflow,  \* InteractiveActions.InstallWorkflow is there
    Gate,         \* the highest mode each target's gate admits: 0..3
    SealedTarget, \* the target the workflow's transaction input is for
    CanApply,     \* the workflow can execute an apply
    MaxPrepares,  \* bound: prepares of a session
    Prompt        \* a prepared result arrives before the user's next key

Ids == {Targets[i].id : i \in DOMAIN Targets}
Modes == {"explain", "dry-run", "apply", "legacy-apply", "legacy-dry-run"}
Legacy == {"legacy-apply", "legacy-dry-run"}
Questions == {"select", "confirm", "backup", "update"}

TargetsAreUsable ==
    /\ Targets \in Seq({Targets[i] : i \in DOMAIN Targets})
    /\ Targets # << >> /\ Targets[1].available
    /\ Gate \in [Ids -> 0..3] /\ MaxPrepares \in Nat

VARIABLES
    root,      \* the shell
    tui,       \* the install screen, or NoTui
    flying,    \* results of prepares that have not been delivered
    running,   \* executions under way
    finished,  \* results of executions that have not been delivered
    count,     \* prepares so far
    check,     \* the background update check: flying, heard or lost
    quit
vars == << root, tui, flying, running, finished, count, check, quit >>

NoTui == [mode |-> "none"]
NoResult == [mode |-> "none", target |-> "none", status |-> "none", admitted |-> FALSE, retryable |-> FALSE]

-----------------------------------------------------------------------------
(* RoutePolicy.Decide and the three canonical prepares: a mode needs its     *)
(* gate, and the sealed plan must be for the target of the request.          *)
Admits(mode, target) ==
    \/ mode \in Legacy
    \/ /\ Gate[target] >= CASE mode = "explain" -> 1 [] mode = "dry-run" -> 2 [] mode = "apply" -> 3
       /\ target = SealedTarget

(* Prepare: a token for the request, or a failed result without one. *)
Prepared(mode, target, n) ==
    LET ok == Admits(mode, target) IN
    [token |-> IF ok THEN n ELSE 0, mode |-> mode, target |-> target,
     result |-> [mode |-> mode, target |-> target, admitted |-> ok, retryable |-> FALSE,
                 status |-> IF ok THEN "ready" ELSE "failed"]]

(* What an execution may end with.  ExecuteDryRun refuses a token of another *)
(* mode; executeApply can be interrupted, roll back or leave residual risk.  *)
Outcomes(e) ==
    CASE e.mode = "explain" -> {"failed"}
      [] e.mode = "dry-run" -> {"succeeded"}
      [] e.mode = "apply" /\ ~CanApply -> {"failed"}
      [] e.mode = "apply" -> {"succeeded", "failed", "rolled-back", "residual-risk"}
                                \cup (IF e.cancelled THEN {"cancelled"} ELSE {})
      [] e.mode \in Legacy -> {"succeeded", "failed"}

CanRetry ==
    /\ tui.stage = "result"
    /\ tui.result.status # "residual-risk"
    /\ tui.result.status = "failed" \/ tui.result.retryable

(* The prepare of the screen's request, which starts with a clean screen. *)
Prepare(mode, target) ==
    /\ count < MaxPrepares
    /\ count' = count + 1
    /\ flying' = flying \cup {Prepared(mode, target, count + 1)}
    /\ tui' = [mode |-> mode, target |-> target, stage |-> "preparing", token |-> 0,
               of |-> NoResult, result |-> NoResult, cancelling |-> FALSE, holds |-> 0]

(* A key reaches the program: it has not been quit, and with Prompt nothing  *)
(* that was prepared is still on its way.                                    *)
Key == ~quit /\ (Prompt => flying = {})
TuiKey == Key /\ tui # NoTui

TuiPrepare(mode) == Prepare(mode, tui.target) /\ UNCHANGED << root, running, finished, check, quit >>

Retry == TuiKey /\ CanRetry /\ TuiPrepare(tui.mode)

ChooseLegacy ==
    /\ TuiKey /\ tui.mode = "explain"
    /\ tui.stage \in {"prepared", "result"}
    /\ TuiPrepare("legacy-apply")

ChooseLegacyDryRun ==
    /\ TuiKey /\ tui.mode = "legacy-apply" /\ tui.stage = "prepared"
    /\ TuiPrepare("legacy-dry-run")

(* Enter on what succeeded goes on: explain, dry run, apply. *)
GoOn ==
    /\ TuiKey
    /\ \/ /\ tui.stage = "result" /\ tui.mode = "dry-run" /\ tui.result.status = "succeeded"
          /\ TuiPrepare("apply")
       \/ /\ tui.stage = "prepared" /\ tui.mode = "explain" /\ tui.result.admitted
          /\ TuiPrepare("dry-run")

(* Enter on any other admitted request executes the token the screen holds.  *)
Execute ==
    /\ TuiKey
    /\ tui.stage = "prepared" /\ tui.result.admitted /\ tui.mode # "explain"
    /\ running' = running \cup {[id |-> tui.token, cancelled |-> FALSE,
                                 mode |-> tui.of.mode, target |-> tui.of.target]}
    /\ tui' = [tui EXCEPT !.stage = "executing", !.holds = tui.token]
    /\ UNCHANGED << root, flying, finished, count, check, quit >>

(* Esc and Ctrl-C while executing only ask for cancellation, once. *)
Cancel ==
    /\ TuiKey
    /\ tui.stage = "executing" /\ ~tui.cancelling
    /\ tui' = [tui EXCEPT !.cancelling = TRUE]
    /\ running' = {IF e.id = tui.holds THEN [e EXCEPT !.cancelled = TRUE] ELSE e : e \in running}
    /\ UNCHANGED << root, flying, finished, count, check, quit >>

(* Seeded fault (NothingAbandoned): Esc leaves the screen while it executes. *)
BackAlways ==
    /\ TuiKey
    /\ tui' = NoTui
    /\ root' = [root EXCEPT !.pending = @ \cup {"select"}, !.screen = "select"]
    /\ UNCHANGED << flying, running, finished, count, check, quit >>

(* Otherwise Esc drops the screen, and the picker is back. *)
Back ==
    /\ TuiKey
    /\ tui.stage # "executing"
    /\ tui' = NoTui
    /\ root' = [root EXCEPT !.pending = @ \cup {"select"}, !.screen = "select"]
    /\ UNCHANGED << flying, running, finished, count, check, quit >>

-----------------------------------------------------------------------------
(* installPreparedMsg goes to whatever install screen there is now. *)
HearPrepared ==
    /\ ~quit
    /\ \E p \in flying :
        /\ flying' = flying \ {p}
        /\ tui' = IF tui = NoTui THEN tui
                  ELSE [tui EXCEPT !.token = p.token, !.result = p.result,
                                   !.of = [NoResult EXCEPT !.mode = p.mode, !.target = p.target],
                                   !.stage = IF p.token = 0 THEN "result" ELSE "prepared"]
    /\ UNCHANGED << root, running, finished, count, check, quit >>

Finish ==
    /\ ~quit
    /\ \E e \in running : \E s \in Outcomes(e) :
        /\ running' = running \ {e}
        /\ finished' = finished \cup {[NoResult EXCEPT !.mode = e.mode, !.target = e.target, !.status = s,
                                        !.admitted = TRUE, !.retryable = (s = "rolled-back")]}
    /\ UNCHANGED << root, tui, flying, count, check, quit >>

(* installDoneMsg *)
HearDone ==
    /\ ~quit
    /\ \E d \in finished :
        /\ finished' = finished \ {d}
        /\ tui' = IF tui = NoTui THEN tui
                  ELSE [tui EXCEPT !.result = d, !.stage = "result", !.holds = 0, !.cancelling = FALSE]
    /\ UNCHANGED << root, flying, running, count, check, quit >>

(* updateCheckMsg is the root's, but with an install screen every message    *)
(* goes to that screen, which does not know this one.                        *)
HearUpdate ==
    /\ ~quit /\ check = "flying"
    /\ IF tui # NoTui THEN check' = "lost" /\ UNCHANGED root
       ELSE /\ check' = "heard"
            /\ \E new \in BOOLEAN : root' = [root EXCEPT !.checked = TRUE, !.available = new]
    /\ UNCHANGED << tui, flying, running, finished, count, quit >>

-----------------------------------------------------------------------------
(* The shell.  Its keys are read only without an install screen, and while   *)
(* an action runs only the key that quits.                                   *)
RootKey == Key /\ tui = NoTui /\ root.loading = "none"
OnlyRoot == UNCHANGED << tui, flying, running, finished, count, check, quit >>
InMenu == RootKey /\ root.focus = "menu"
InDetail == RootKey /\ root.focus = "detail"
Asked(q) == q \in root.pending

(* The questions are separate flags: some are cleared, some are raised. *)
Flags(cleared, raised) == (root.pending \ cleared) \cup raised
InstallFlow == {"select", "confirm", "backup"}

MoveItem ==
    /\ InMenu
    /\ \E i \in DOMAIN Items :
        /\ i \in {root.item - 1, root.item + 1}
        /\ root' = [root EXCEPT !.item = i, !.pending = Flags({"select", "confirm"}, {}), !.details = FALSE]
    /\ OnlyRoot

(* Tab goes to the detail pane, and back unless a question is asked there;   *)
(* the picker's own keys do not include it, so that it stays asked.          *)
Tab ==
    /\ RootKey
    /\ \/ root.focus = "menu" /\ root' = [root EXCEPT !.focus = "detail"]
       \/ /\ root.focus = "detail" /\ root.pending \subseteq {"select"}
          /\ root' = [root EXCEPT !.focus = "menu"]
    /\ OnlyRoot

(* runAsync: the action runs beside the shell, which shows that it waits;    *)
(* one for which all questions are cleared (resetInstallFlow) hides the      *)
(* details as well.                                                          *)
RunAsync(cleared, kind, plan) ==
    root' = [root EXCEPT !.pending = Flags(cleared, {}), !.loading = kind, !.focus = "detail",
                         !.screen = "wait", !.plan = plan,
                         !.details = IF cleared = Questions THEN FALSE ELSE @]

(* A question replaces others, and its text is shown. *)
Ask(cleared, q) ==
    root' = [root EXCEPT !.pending = Flags(cleared, {q}), !.focus = "detail", !.screen = q, !.details = FALSE]

(* activateSelection: status, doctor and logout run at once.                 *)
ActivateAtOnce(item) ==
    /\ item \in {"status", "doctor", "logout"}
    /\ RunAsync(Questions, item, "none")
    /\ OnlyRoot

ActivateLogin ==
    /\ root' = [root EXCEPT !.pending = {}, !.details = FALSE, !.plan = "none", !.focus = "login",
                            !.screen = "login", !.field = 1]
    /\ OnlyRoot

(* The first Enter opens the picker; the second takes its target, for the    *)
(* install screen or, without a workflow, for a confirmation.                *)
ActivateInstall ==
    IF ~Asked("select") THEN Ask({"confirm", "update"}, "select") /\ OnlyRoot
    ELSE LET target == Targets[root.target] IN
        IF ~target.available THEN root' = [root EXCEPT !.screen = "unavailable"] /\ OnlyRoot
        ELSE IF HasWorkflow
             THEN /\ Prepare("explain", target.id)
                  /\ root' = [root EXCEPT !.pending = Flags({"select", "update"}, {})]
                  /\ UNCHANGED << running, finished, check, quit >>
             ELSE Ask({"select", "update"}, "confirm") /\ OnlyRoot

ActivateUpdate ==
    /\ LET calm == [root EXCEPT !.pending = Flags(InstallFlow, {}), !.details = FALSE, !.plan = "none",
                                !.focus = "detail"] IN
        root' = IF ~root.checked THEN [calm EXCEPT !.screen = "checking"]
                ELSE IF ~root.available THEN [calm EXCEPT !.screen = "current"]
                ELSE [calm EXCEPT !.pending = @ \cup {"update"}, !.screen = "update"]
    /\ OnlyRoot

Enter ==
    /\ InMenu \/ (InDetail /\ root.pending \subseteq {"select"})
    /\ LET item == Items[root.item] IN
        \/ ActivateAtOnce(item)
        \/ item = "login" /\ ActivateLogin
        \/ item = "install" /\ ActivateInstall
        \/ item = "update" /\ ActivateUpdate

(* The picker: it moves over the targets that can be chosen. *)
MoveTarget ==
    /\ InDetail /\ root.pending = {"select"} /\ ~root.details
    /\ \E step \in {1, Len(Targets) - 1} :
        LET At(k) == ((root.target - 1 + k * step) % Len(Targets)) + 1
            Free == {k \in 1..Len(Targets) : Targets[At(k)].available} IN
        root' = [root EXCEPT !.screen = "select",
                             !.target = At(CHOOSE k \in Free : \A l \in Free : k <= l)]
    /\ OnlyRoot

Details ==
    /\ InDetail
    /\ \E q \in {"select", "confirm"} :
        /\ root.pending = {q}
        /\ root' = [root EXCEPT !.details = ~@, !.screen = q]
    /\ OnlyRoot

(* startInstallFlow: for Pi a plan first, which may fail, and a question     *)
(* about the full backup if ~/.pi exists.                                    *)
StartInstall ==
    IF Targets[root.target].id # PiTarget THEN RunAsync({"confirm"}, "install", root.plan)
    ELSE \/ root' = [root EXCEPT !.pending = Flags({"confirm"}, {}), !.screen = "failed"]
         \/ root' = [root EXCEPT !.pending = Flags({"confirm"}, {"backup"}), !.screen = "backup", !.plan = "full"]
         \/ RunAsync({"confirm"}, "install", "plain")

(* updateDetail: the first question that is asked takes the key. *)
Yes ==
    /\ InDetail
    /\ IF Asked("confirm") THEN StartInstall
       ELSE IF Asked("backup") THEN RunAsync({"backup"}, "install", root.plan)
       ELSE Asked("update") /\ RunAsync({"update"}, "update", root.plan)
    /\ OnlyRoot

No ==
    /\ InDetail
    /\ IF Asked("confirm") THEN Ask({"confirm"}, "select")
       ELSE IF Asked("backup") THEN RunAsync({"backup"}, "install", "plain")
       ELSE Asked("update") /\ root' = [root EXCEPT !.pending = Flags({"update"}, {}), !.screen = "cancelled"]
    /\ OnlyRoot

(* Esc is No, but leaves the backup question instead of answering it.        *)
Esc ==
    /\ InDetail
    /\ root' = IF Asked("backup") THEN [root EXCEPT !.pending = Flags({"backup"}, {"select"}), !.plan = "none",
                                                    !.screen = "select"]
               ELSE IF root.pending = {} THEN [root EXCEPT !.focus = "menu"]
               ELSE IF root.details THEN [root EXCEPT !.details = FALSE, !.screen = "select"]
               ELSE [root EXCEPT !.pending = Flags({"select"}, {}), !.focus = "menu", !.screen = "welcome"]
    /\ root.pending \subseteq {"select", "backup"}
    /\ OnlyRoot

(* The login form: Enter in the last field submits it. *)
Login ==
    /\ RootKey /\ root.focus = "login"
    /\ \/ \E i \in 1..3 : root' = [root EXCEPT !.field = i]
       \/ root' = [root EXCEPT !.focus = "menu"]
       \/ root.field = 3 /\ RunAsync({}, "login", root.plan)
    /\ OnlyRoot

(* actionMsg *)
HearAction ==
    /\ ~quit /\ root.loading # "none"
    /\ LET done == [root EXCEPT !.loading = "none", !.focus = "detail", !.screen = "report"] IN
        root' = CASE root.loading = "install" -> [done EXCEPT !.pending = Flags(InstallFlow, {}),
                                                              !.details = FALSE, !.plan = "none"]
                  [] root.loading = "update" -> [done EXCEPT !.pending = Flags({"update"}, {})]
                  [] OTHER -> done
    /\ OnlyRoot

Quit ==
    /\ Key /\ tui = NoTui
    /\ quit' = TRUE
    /\ UNCHANGED << root, tui, flying, running, finished, count, check >>

Init ==
    /\ root = [focus |-> "menu", item |-> 1, loading |-> "none", pending |-> {}, details |-> FALSE,
               target |-> 1, screen |-> "welcome", plan |-> "none", checked |-> FALSE,
               available |-> FALSE, field |-> 1]
    /\ tui = NoTui
    /\ flying = {} /\ running = {} /\ finished = {}
    /\ count = 0
    /\ check = "flying"
    /\ quit = FALSE

Keys ==
    \/ Retry \/ ChooseLegacy \/ ChooseLegacyDryRun \/ GoOn \/ Execute \/ Cancel \/ Back
    \/ MoveItem \/ Tab \/ Enter \/ MoveTarget \/ Details \/ Yes \/ No \/ Esc \/ Login \/ Quit
Messages == HearPrepared \/ Finish \/ HearDone \/ HearUpdate \/ HearAction
Next == Keys \/ Messages

(* Commands end and their messages are delivered; keys need not come. *)
Fairness == /\ WF_vars(HearPrepared) /\ WF_vars(Finish) /\ WF_vars(HearDone)
            /\ WF_vars(HearUpdate) /\ WF_vars(HearAction)

Spec == Init /\ [][Next]_vars /\ Fairness

-----------------------------------------------------------------------------
TypeOK ==
    /\ root.focus \in {"menu", "detail", "login"}
    /\ root.pending \subseteq Questions
    /\ root.loading # "none" => root.focus = "detail" /\ tui = NoTui
    /\ tui # NoTui => /\ tui.mode \in Modes /\ tui.target \in Ids
                      /\ tui.stage \in {"preparing", "prepared", "executing", "result"}
                      /\ tui.stage = "prepared" => tui.token \in 1..MaxPrepares
                      /\ tui.stage # "executing" => ~tui.cancelling

(* updateDetail looks for the questions in a fixed order and answers the     *)
(* first one it finds.  At most one is asked, and it is the one on screen.   *)
QuestionShown ==
    \A q \in root.pending :
        /\ root.pending = {q}
        /\ root.focus = "detail" /\ tui = NoTui => root.screen \in {q, "unavailable"}

(* An execution is of the request the screen shows when the user confirms.   *)
ExecutesWhatIsShown ==
    [][\A e \in running' : e.id \notin {r.id : r \in running} =>
            e.mode = tui.mode /\ e.target = tui.target]_vars

(* "during Execute navigation MUST remain blocked and cancellation MUST wait *)
(* for rollback/final result": while one runs, its screen says executing,    *)
(* and there is only one.                                                    *)
NothingAbandoned ==
    (running # {} /\ ~quit) =>
        /\ tui # NoTui /\ tui.stage = "executing"
        /\ \A e \in running : e.id = tui.holds /\ (tui.cancelling => e.cancelled)

(* An execution ends with a result on the screen, also when it is cancelled. *)
Answered ==
    (tui # NoTui /\ tui.stage = "executing") ~> (tui # NoTui /\ tui.stage = "result")

(* "a background binary-only update check is still in progress": said only   *)
(* while it is.                                                              *)
CheckingIsTrue ==
    [][(root'.screen = "checking" /\ root.screen # "checking") => check = "flying"]_vars

(* "GIVEN TUI displays an admitted Prepared plan WHEN the user accepts        *)
(* confirmation THEN Execute begins": the install screen is displayed, and   *)
(* not the menu, when a key starts an execution.                             *)
ExecutesOnScreen ==
    [][\A e \in running' : e.id \notin {r.id : r \in running} => root.focus = "detail"]_vars

(* "residual risk MUST disable retry": from such a result the only way on is *)
(* back to the picker.                                                       *)
ResidualStops ==
    [][(tui # NoTui /\ tui.stage = "result" /\ tui.result.status = "residual-risk" /\ flying = {})
          => tui' \in {tui, NoTui}]_vars
=============================================================================
