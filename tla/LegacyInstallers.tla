-------------------------- MODULE LegacyInstallers --------------------------
(***************************************************************************)
(* The installers without a journal, one at a time: that of Pi             *)
(* (PiInstall), those of Codex, OpenCode and Antigravity (PlannedInstall), *)
(* the bounded review pair of Pi (ReviewRelease), which has a directory of *)
(* its own, and what OpenCode's merges into opencode.json, install after   *)
(* install (OpenCodeConfig).  They write under different directories, or   *)
(* are about different parts of a file, so that it is enough to let one of *)
(* them run; installer says which.  The variables that mean the same in    *)
(* PiInstall and PlannedInstall are one.                                   *)
(***************************************************************************)
EXTENDS Naturals

CONSTANTS
  Settings, Skills, Overlays, Cleanups, Direct, Rendered,   \* paths of Pi, overlays by release
  Merged, Replaced, Optional, Legacy,    \* files of Codex, OpenCode and Antigravity
  Revisions,                             \* revisions of the bounded review pair
  Servers, Tokens,                       \* servers of OpenCode, and the tokens of each
  MaxInstalls, MaxFaults,                \* bounds: installs and failed steps of the two installers
  PiEdits, MaxEdits, DocEdits,           \* bounds: edits, of Pi, the others and opencode.json
  MaxReviews, MaxDamage                  \* bounds: installs and damages of the review pair

VARIABLES
  installer,   \* "pi", "planned", "review" or "merge"
  files, backups, manifest, run, clock, edits, faults, owed,
  fulls, release, stage, todo, held,
  target, agentcfg, runs,
  staging, releases, pointer, proc, damaged,
  file, saved, cfg, hosted, result, accepted

shared == <<files, backups, manifest, run, clock, edits, owed>>
piVars == <<fulls, release, stage, todo, held>>
plannedVars == <<target, agentcfg>>
reviewVars == <<staging, releases, pointer, proc, damaged>>
mergeVars == <<file, saved, cfg, hosted, result, accepted>>

-----------------------------------------------------------------------------
Pi == INSTANCE PiInstall WITH
  Merged <- Settings, Replaced <- Skills,
  MaxRuns <- MaxInstalls, MaxEdits <- PiEdits, CanDie <- TRUE, Races <- FALSE

Planned == INSTANCE PlannedInstall WITH
  Targets <- {"codex", "opencode", "antigravity"}, Installers <- {"a"},
  MaxRuns <- MaxInstalls, CanDie <- TRUE, Races <- FALSE

(* One call of an install of the pair may fail: two dangle the pointer.      *)
Review == INSTANCE ReviewRelease WITH
  Installers <- {"a"}, MaxRuns <- MaxReviews, MaxFaults <- 1

Document == INSTANCE OpenCodeConfig WITH MaxEdits <- DocEdits

ASSUME PiPaths == Pi!PathsAreApart
ASSUME PlannedPaths == Planned!PathsAreApart
ASSUME ReviewNumbers == Review!RevisionsAreNumbers
ASSUME BoundsAreNumbers ==
  {MaxInstalls, MaxFaults, PiEdits, MaxEdits, DocEdits, MaxReviews, MaxDamage} \subseteq Nat

-----------------------------------------------------------------------------
(* What rests has the values of an initial state. *)
PiRests == fulls = << >> /\ release = 1 /\ stage = "idle" /\ todo = {} /\ held = Pi!Nothing
PlannedRests == target = "codex" /\ agentcfg = FALSE
FilesRest ==
  /\ files = << >> /\ backups = << >> /\ manifest = Pi!NoManifest /\ run = Pi!NoRun
  /\ clock = 0 /\ edits = 0 /\ owed = {}
DocumentRests ==
  /\ file = Document!Absent /\ cfg = "none" /\ hosted = TRUE /\ result = "" /\ accepted = FALSE
  /\ saved = [server |-> CHOOSE s \in Servers : TRUE, token |-> CHOOSE t \in Tokens : TRUE]

Init ==
  \/ installer = "pi" /\ Pi!Init /\ PlannedRests /\ Review!Init /\ DocumentRests
  \/ installer = "planned" /\ Planned!Init /\ PiRests /\ Review!Init /\ DocumentRests
  \/ /\ installer = "review" /\ Review!Init
     /\ FilesRest /\ PiRests /\ PlannedRests /\ DocumentRests
  \/ /\ installer = "merge" /\ Document!Init
     /\ FilesRest /\ PiRests /\ PlannedRests /\ Review!Init

Next ==
  /\ installer' = installer
  /\ \/ installer = "pi" /\ Pi!Next /\ UNCHANGED <<plannedVars, reviewVars, mergeVars, runs>>
     \/ installer = "planned" /\ Planned!Next /\ UNCHANGED <<piVars, reviewVars, mergeVars>>
     \/ /\ installer = "review" /\ Review!Next
        /\ UNCHANGED <<shared, piVars, plannedVars, mergeVars>>
     \/ /\ installer = "merge" /\ Document!Next
        /\ UNCHANGED <<files, backups, manifest, run, clock, owed, faults, runs>>
        /\ UNCHANGED <<piVars, plannedVars, reviewVars>>

vars == <<installer, shared, faults, piVars, plannedVars, runs, reviewVars, mergeVars>>
Spec == Init /\ [][Next]_vars

-----------------------------------------------------------------------------
TypeOK ==
  /\ installer = "pi" => Pi!TypeOK
  /\ installer = "planned" => Planned!TypeOK
  /\ installer = "review" => Review!TypeOK
  /\ installer = "merge" => Document!TypeOK

(* No installer loses what is the user's: a file that a text or an entry was *)
(* taken out of is in a backup, whatever failed, died or was edited since.   *)
(* And one that says ok has installed its release and listed it, unless      *)
(* somebody touched the files meanwhile (applyRenderedFile of pi.go,         *)
(* applyCodexPlannedContent and its siblings).                               *)
InstalledAndKept ==
  /\ installer = "pi" => Pi!NothingLost /\ Pi!OkIsInstalled
  /\ installer = "planned" => Planned!NothingLost /\ Planned!OkIsInstalled

(* What is the user's by the manifests, overlays and leftovers that are not  *)
(* listed, is neither touched nor listed; of the entries under the names of  *)
(* lore's servers no install takes out one that its merge is to guard; Codex *)
(* lists only what it has written; and a rerun finds its own work in place   *)
(* (applyAgentOverlays, planCodexInstall, mergeCodexMCPConfig,               *)
(* inspectOpenCodeMCPConfigOwnership, validateAntigravityContext7Ownership). *)
OwnershipKept ==
  [][/\ installer = "pi" => Pi!UserOverlaysKept /\ Pi!OwnsWhatItLists /\ Pi!RerunIsQuiet
     /\ installer = "planned" =>
          Planned!ForeignKept /\ Planned!UserLegacyKept /\ Planned!CodexManifestIsLast]_<<shared, piVars>>

(* The pointer names a whole pair, and a failed install leaves it where it   *)
(* was (applyBoundedReviewRelease).                                          *)
PointerIsSafe == Review!PointerIsCoherent /\ Review!FailureKeepsPointer

(* The merge of opencode.json leaves no token beside the address of another  *)
(* server, whichever logins came before, keeps the model and the plugins the *)
(* user chose, and a second install changes nothing                          *)
(* (mergeOpenCodeConfigJSON, openCodeAgentOverlay,                           *)
(* mergeOpenCodePluginStrings).                                              *)
OpenCodeIsMerged ==
  /\ [](installer = "merge" => Document!TokenStaysHome)
  /\ Document!SecondInstallChangesNothing /\ Document!ChoiceSurvives /\ Document!PluginsKept
=============================================================================
