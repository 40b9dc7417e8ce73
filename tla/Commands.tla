------------------------------ MODULE Commands ------------------------------
(***************************************************************************)
(* The commands of lore, each by itself: the shell with its install screen *)
(* (InstallTui, with and without the install workflow), lore install       *)
(* (InstallWorkflow), lore update (SelfUpdate) and login, logout and every *)
(* command that loads the session (AuthManager).  They share no state: a   *)
(* behaviour of them together is an interleaving of behaviours of each, so *)
(* that it is enough to let one of them run at a time.  command says which *)
(* it is; the others rest in an initial state.                             *)
(***************************************************************************)
EXTENDS TLC, Naturals

CONSTANTS
  Clients, Alone,                              \* running commands, and one by itself
  Items, Targets, PiTarget, Gate, SealedTarget, MaxPrepares,   \* InstallTui
  Supported, Unsupported,                      \* InstallWorkflow
  Tags, First, Dev, Odd, None, Torn,           \* SelfUpdate
  Servers, Serials, NoConfig, Unreadable, Addressless, NoAccount, NoToken   \* AuthManager

VARIABLES
  command,     \* the command that runs
  root, tui, flying, running, finished, count, check, quit,
  release, input, tty, preflight, call, at, signalled, said, sealed, files,
  resolved, events, result, stdout, stderr, exit,
  target, bak, tmp, latest, cache, updating, build, tag, got, told,
  config, keychain, pc, server, account, token, answer

tuiVars == <<root, tui, flying, running, finished, count, check, quit>>
installVars == <<release, input, tty, preflight, call, at, signalled, said, sealed, files,
                 resolved, events, result, stdout, stderr, exit>>
updateVars == <<target, bak, tmp, latest, cache, updating, build, tag, got, told>>
authVars == <<config, keychain, pc, server, account, token, answer>>

-----------------------------------------------------------------------------
(* The shell with the install workflow and without it. *)
Tui == INSTANCE InstallTui WITH HasWorkflow <- TRUE, CanApply <- TRUE, Prompt <- TRUE
Shell == INSTANCE InstallTui WITH HasWorkflow <- FALSE, CanApply <- TRUE, Prompt <- TRUE

Install == INSTANCE InstallWorkflow WITH
  Routes <- {"canonical", "legacy"}, OutputFails <- FALSE,
  server <- preflight, pc <- at, answer <- said

HalfOf(c) == <<"half", c>>
Update == INSTANCE SelfUpdate WITH
  Clients <- {Alone}, Half <- HalfOf, CanDie <- TRUE, pc <- updating, answer <- told

(* Several commands at once; and one command by itself, whose file           *)
(* operations fail before they have an effect.                               *)
Auth == INSTANCE AuthManager WITH CanDie <- TRUE, LateFault <- TRUE
Solo == INSTANCE AuthManager WITH Clients <- {Alone}, CanDie <- TRUE, LateFault <- FALSE

ASSUME TargetsAreUsable == Tui!TargetsAreUsable /\ Shell!TargetsAreUsable
ASSUME TargetsAreInstallable == Supported # {}
ASSUME UpdateAssumption == Update!TagAssumption /\ Update!NameAssumption
ASSUME AuthAssumption == Auth!NameAssumption /\ Solo!NameAssumption

-----------------------------------------------------------------------------
Init ==
  /\ command \in {"tui", "shell", "install", "update", "login", "session"}
  /\ Tui!Init /\ Install!Init /\ Update!Init
  /\ IF command = "session" THEN Solo!Init ELSE Auth!Init
  /\ command # "install" =>
       /\ release = [embedded |-> "absent", gate |-> "off"] /\ input = "empty"
       /\ ~tty /\ preflight = "ready"
  /\ command # "update" => target = First
  /\ command \notin {"login", "session"} => config = NoConfig

Next ==
  /\ command' = command
  /\ \/ command = "tui" /\ Tui!Next /\ UNCHANGED <<installVars, updateVars, authVars>>
     \/ command = "shell" /\ Shell!Next /\ UNCHANGED <<installVars, updateVars, authVars>>
     \/ command = "install" /\ Install!Next /\ UNCHANGED <<tuiVars, updateVars, authVars>>
     \/ command = "update" /\ Update!Next /\ UNCHANGED <<tuiVars, installVars, authVars>>
     \/ command = "login" /\ Auth!Next /\ UNCHANGED <<tuiVars, installVars, updateVars>>
     \/ command = "session" /\ Solo!Next /\ UNCHANGED <<tuiVars, installVars, updateVars>>

(* The fairness of InstallTui, InstallWorkflow and SelfUpdate, of the one    *)
(* that runs: a message that is on its way in a shell at rest stays there.   *)
Fairness ==
  /\ WF_tuiVars(command = "tui" /\ Tui!HearPrepared) /\ WF_tuiVars(command = "tui" /\ Tui!Finish)
  /\ WF_tuiVars(command = "tui" /\ Tui!HearDone) /\ WF_tuiVars(command = "tui" /\ Tui!HearUpdate)
  /\ WF_tuiVars(command = "tui" /\ Tui!HearAction)
  /\ WF_installVars(command = "install" /\ Install!Step)
  /\ WF_updateVars(command = "update" /\ Update!Work(Alone))

Spec ==
  Init /\ [][Next]_<<command, tuiVars, installVars, updateVars, authVars>> /\ Fairness

-----------------------------------------------------------------------------
TypeOK ==
  /\ IF command = "shell" THEN Shell!TypeOK ELSE Tui!TypeOK
  /\ IF command = "session" THEN Solo!TypeOK ELSE Auth!TypeOK
  /\ Install!TypeOK /\ Update!TypeOK

(* What an execution is of, and where it ends, is what the screen says: no   *)
(* execution is abandoned, none is of another request than the one shown,    *)
(* residual risk stops retrying, and at most one question is asked, the one  *)
(* on screen (tui/root.go, install_update.go).                               *)
ScreenIsTrue ==
  /\ [](command = "tui" => Tui!NothingAbandoned)
  /\ Tui!ExecutesWhatIsShown /\ Tui!ResidualStops
  /\ [](command = "shell" => Shell!QuestionShown)

(* What an install tells its caller is true of the target: the exit status,  *)
(* whichever effect failed and whenever the interrupt came, and the events   *)
(* an observer saw; and it touches the target, the credential and the        *)
(* observer only through an open gate and with the user's consent            *)
(* (cli/actions.go, cli/install_presenter.go, install/apply.go).             *)
InstallIsTrue ==
  [](Install!ExitTells /\ Install!EventsTell) /\ Install!ConsentedEffects

(* An update never loses the last binary, puts nothing under its name but    *)
(* what was running and what was planned, keeps the old version when it      *)
(* fails, and moves forward with the right backup when it does not           *)
(* (update/replace_unix.go, update/github.go).                               *)
UpdateIsSafe ==
  /\ [](command = "update" => Update!KeepsABinary)
  /\ Update!PlannedOnly /\ Update!FailedKeepsOld /\ Update!OnlyForward /\ Update!BackupIsPrevious

(* No token is used with another server than its own, and none stays in the  *)
(* file after a load that ended quietly, whatever other commands do; and of  *)
(* a command that runs alone, a login that says so is saved, a migration     *)
(* loses no token and a logout leaves nothing (auth/manager.go).             *)
LoginIsSafe ==
  /\ [](command = "login" => Auth!TokenGoesToItsServer)
  /\ [][/\ command = "login" => Auth!PlaintextGone
        /\ command = "session" =>
             Solo!OkMeansSaved /\ Solo!MigrationKeepsToken /\ Solo!LogoutRemovesBoth]_authVars

(* A confirmed update ends, an execution ends on the screen, and an          *)
(* interrupted install ends (tui, cli, update).                              *)
CommandsEnd == Tui!Answered /\ Install!InterruptEnds /\ Update!UpdateEnds
=============================================================================
