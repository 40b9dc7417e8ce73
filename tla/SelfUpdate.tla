----------------------------- MODULE SelfUpdate -----------------------------
(***************************************************************************)
(* lore update (internal/update, internal/cli/actions.go): a command checks *)
(* the latest release through an ETag cache, decides whether it may and     *)
(* should update, downloads and verifies the archive, and replaces the      *)
(* binary it runs from: the old one becomes .bak, the new one is written to *)
(* .tmp and renamed into place, then probed, and a failure puts .bak back.  *)
(* No lock is taken; the names .bak and .tmp are shared by all commands.    *)
(***************************************************************************)
EXTENDS Integers

CONSTANTS
  Clients,      \* processes running lore update
  Tags,         \* release versions that parse: triples of numbers
  First,        \* the version installed at the beginning
  Odd,          \* a release tag that is no version
  Dev,          \* an unreleased build
  None,         \* no file, no plan, no cached release
  Torn,         \* the beginning of a binary, never completed
  Half(_),      \* a binary a client is still writing
  CanDie        \* whether processes may be killed

Whole == Tags \cup {Dev}
Halves == {Half(c) : c \in Clients}

TagAssumption == Tags \subseteq [1..3 -> Nat] /\ First \in Tags
NameAssumption ==
  /\ Odd \notin Whole /\ None \notin Whole \cup {Odd, Torn} \cup Halves
  /\ Torn \notin Whole \cup Halves /\ Whole \cap Halves = {}
  /\ \A c, d \in Clients : Half(c) = Half(d) => c = d

VARIABLES
  target, bak, tmp,  \* the binary, and the files beside it
  latest,            \* the latest release
  cache,             \* the release (and its ETag) in update-check.json
  pc,                \* the next step of each client
  build,             \* the version each client is itself
  tag,               \* the release it has planned
  got,               \* the version in the archive it has downloaded
  answer             \* what it said last

files == <<target, bak, tmp>>
uvars == <<files, latest, cache, pc, build, tag, got, answer>>

Steps == {"idle", "check", "confirm", "download", "verify", "extract", "candidate", "stat", "drop", "move", "open", "fill",
          "publish", "probe", "remove", "giveback", "forget"}
Answers == {"none", "refused", "failed", "current", "cancelled", "applied", "lost"}

-----------------------------------------------------------------------------
(* compareSemver, compareVersions *)

CompareSemver(a, b) ==
  IF \E i \in 1..3 : a[i] < b[i] /\ \A j \in 1..(i - 1) : a[j] = b[j] THEN -1
  ELSE IF a = b THEN 0 ELSE 1

CompareVersions(current, new) ==
  CASE current = Dev -> "dev_build"
    [] current # Dev /\ new = Odd -> "unsupported"
    [] current # Dev /\ new # Odd /\ CompareSemver(current, new) = -1 -> "available"
    [] OTHER -> "up_to_date"

-----------------------------------------------------------------------------
GoTo(c, step) == pc' = [pc EXCEPT ![c] = step] /\ UNCHANGED <<build, tag, got, answer>>

Ends(c, a) ==
  /\ pc' = [pc EXCEPT ![c] = "idle"] /\ answer' = [answer EXCEPT ![c] = a]
  /\ build' = [build EXCEPT ![c] = None] /\ tag' = [tag EXCEPT ![c] = None]
  /\ got' = [got EXCEPT ![c] = None]

Outside == UNCHANGED <<latest, cache>>

\* The running binary and the one on the PATH (localUpdateSafetyReason).
LocallySafe(version, onPath) == version # Dev /\ onPath

\* resolveBinaryTarget, for the same two paths and the link they may be.
TargetStatus(onPath, link) == IF onPath /\ ~link THEN "ok" ELSE "unsafe"

\* The command runs from the target.
Start(c) ==
  /\ pc[c] = "idle" /\ target \in Whole
  /\ \E onPath \in BOOLEAN :
       IF LocallySafe(target, onPath)
       THEN /\ pc' = [pc EXCEPT ![c] = "check"] /\ build' = [build EXCEPT ![c] = target]
            /\ answer' = [answer EXCEPT ![c] = "none"] /\ UNCHANGED <<tag, got>>
       ELSE Ends(c, "refused")
  /\ Outside /\ UNCHANGED files

\* What update-check.json reads as after it has been written, if it was.
Cached(r) == {r, cache, None}

\* fetchLatestRelease: not modified, or a release that is cached.
Fetched(r) ==
  \/ cache # None /\ cache = latest /\ r = cache /\ UNCHANGED cache
  \/ cache # latest /\ r = latest /\ cache' \in Cached(r)

\* The status of the plan of Check: a target that is a link cannot be updated.
PlanStatus(c, r, link) ==
  IF TargetStatus(TRUE, link) = "ok" THEN CompareVersions(build[c], r) ELSE "unsupported"

\* Check, and what updateActionWithOptions makes of the plan.
Check(c) ==
  /\ pc[c] = "check"
  /\ \/ Ends(c, "failed") /\ UNCHANGED cache
     \/ \E r \in Tags \cup {Odd}, link \in BOOLEAN :
          LET status == PlanStatus(c, r, link) IN
          /\ Fetched(r)
          /\ \/ Ends(c, "failed")     \* an asset is missing
             \/ status \in {"dev_build", "unsupported"} /\ Ends(c, "refused")
             \/ status \in {"available", "up_to_date"} /\ Ends(c, "current")   \* a dry run
             \/ /\ status = "available"
                /\ pc' = [pc EXCEPT ![c] = "confirm"] /\ tag' = [tag EXCEPT ![c] = r]
                /\ UNCHANGED <<build, got, answer>>
  /\ UNCHANGED <<files, latest>>

\* checkForUpdateAction: the terminal interface only looks.
Look(c) ==
  /\ pc[c] = "idle" /\ target \in Whole \ {Dev}
  /\ \E r \in Tags \cup {Odd} : Fetched(r)
  /\ UNCHANGED <<files, latest, pc, build, tag, got, answer>>

Confirm(c) ==
  /\ pc[c] = "confirm" /\ (GoTo(c, "download") \/ Ends(c, "cancelled"))
  /\ Outside /\ UNCHANGED files

\* downloadToTemp, into a directory of its own.  The archive may be damaged,
\* and a release may hold the binary of another.
Download(c) ==
  /\ pc[c] = "download"
  /\ \/ \E v \in Tags \cup {Torn} :
          /\ pc' = [pc EXCEPT ![c] = "verify"] /\ got' = [got EXCEPT ![c] = v]
          /\ UNCHANGED <<build, tag, answer>>
     \/ Ends(c, "failed")
  /\ Outside /\ UNCHANGED files

\* The checksum of the archive.
Verify(c) ==
  /\ pc[c] = "verify"
  /\ IF got[c] # Torn THEN GoTo(c, "extract") ELSE Ends(c, "failed")
  /\ Outside /\ UNCHANGED files

\* The archive may not hold the binary, or writing it may fail.
Extract(c) ==
  /\ pc[c] = "extract"
  /\ GoTo(c, "candidate") \/ Ends(c, "failed")
  /\ Outside /\ UNCHANGED files

\* probeBinaryVersion and verifyInstalledVersion: the binary runs, and reports
\* a released version; it may fail to run.
Reports(content, version) == content \in Tags /\ content = version

ProbeCandidate(c) ==
  /\ pc[c] = "candidate"
  /\ \/ Reports(got[c], tag[c]) /\ GoTo(c, "stat")
     \/ Ends(c, "failed")
  /\ Outside /\ UNCHANGED files

-----------------------------------------------------------------------------
(* backupCurrentBinary *)

Stat(c) ==
  /\ pc[c] = "stat"
  /\ IF target # None THEN GoTo(c, "drop") ELSE Ends(c, "failed")
  /\ Outside /\ UNCHANGED files

DropBackup(c) ==
  /\ pc[c] = "drop" /\ GoTo(c, "move")
  /\ bak' \in {bak, None}
  /\ Outside /\ UNCHANGED <<target, tmp>>

MoveToBackup(c) ==
  /\ pc[c] = "move"
  /\ \/ target # None /\ target' = None /\ bak' = target /\ GoTo(c, "open")
     \/ Ends(c, "failed") /\ UNCHANGED <<target, bak>>
  /\ Outside /\ UNCHANGED tmp

-----------------------------------------------------------------------------
(* installCandidateBinary *)

\* The candidate is read, and .tmp created or truncated.
OpenTemp(c) ==
  /\ pc[c] = "open"
  /\ \/ tmp' = Half(c) /\ GoTo(c, "fill")
     \/ UNCHANGED tmp /\ GoTo(c, "remove")
  /\ Outside /\ UNCHANGED <<target, bak>>

\* What a client writes goes to the file it opened, whatever its name is now.
BecomeOf(c, content) ==
  LET now(f) == IF f = Half(c) THEN content ELSE f IN
  target' = now(target) /\ bak' = now(bak) /\ tmp' = now(tmp)

\* The rest is written; a failure leaves .tmp as it is.
FillTemp(c) ==
  /\ pc[c] = "fill"
  /\ \/ BecomeOf(c, got[c]) /\ GoTo(c, "publish")
     \/ BecomeOf(c, Torn) /\ GoTo(c, "remove")
  /\ Outside

\* chmod and rename; a failure of either removes .tmp.
Publish(c) ==
  /\ pc[c] = "publish"
  /\ \/ tmp # None /\ target' = tmp /\ tmp' = None /\ GoTo(c, "probe")
     \/ tmp' \in {None, tmp} /\ UNCHANGED target /\ GoTo(c, "remove")
  /\ Outside /\ UNCHANGED bak

\* The installed binary must run and report the planned version.
Probe(c) ==
  /\ pc[c] = "probe"
  /\ \/ Reports(target, tag[c]) /\ Ends(c, "applied")
     \/ GoTo(c, "remove")
  /\ Outside /\ UNCHANGED files

-----------------------------------------------------------------------------
(* restoreBackup *)

Remove(c) ==
  /\ pc[c] = "remove" /\ GoTo(c, "giveback")
  /\ target' \in {target, None}
  /\ Outside /\ UNCHANGED <<bak, tmp>>

\* Seeded fault (KeepsABinary): the backup is removed also when it could not
\* be put back.
GiveBackOrForget(c) ==
  /\ pc[c] = "giveback"
  /\ \/ bak # None /\ target' = bak /\ bak' = None
     \/ UNCHANGED <<target, bak>>
  /\ GoTo(c, "forget")
  /\ Outside /\ UNCHANGED tmp

GiveBack(c) ==
  /\ pc[c] = "giveback"
  /\ \/ bak # None /\ target' = bak /\ bak' = None /\ GoTo(c, "forget")
     \/ Ends(c, "lost") /\ UNCHANGED <<target, bak>>
  /\ Outside /\ UNCHANGED tmp

\* The deferred removal of a backup that has been put back.
Forget(c) ==
  /\ pc[c] = "forget" /\ Ends(c, "failed")
  /\ bak' \in {bak, None}
  /\ Outside /\ UNCHANGED <<target, tmp>>

-----------------------------------------------------------------------------
(* The world *)

\* Seeded fault (TypeOK): what a dead client was writing counts as being written.
DieWriting(c) ==
  /\ CanDie /\ pc[c] # "idle" /\ Ends(c, "none")
  /\ Outside /\ UNCHANGED files

Die(c) ==
  /\ CanDie /\ pc[c] # "idle" /\ Ends(c, "none")
  /\ BecomeOf(c, Torn) /\ Outside

\* A release is published or withdrawn.
Release ==
  /\ latest' \in (Tags \cup {Odd}) \ {latest}
  /\ UNCHANGED <<files, cache, pc, build, tag, got, answer>>

Init ==
  /\ target \in {First, Dev} /\ bak = None /\ tmp = None
  /\ latest = First /\ cache = None
  /\ pc = [c \in Clients |-> "idle"] /\ build = [c \in Clients |-> None]
  /\ tag = [c \in Clients |-> None] /\ got = [c \in Clients |-> None]
  /\ answer = [c \in Clients |-> "none"]

Work(c) ==
  \/ Check(c) \/ Download(c) \/ Verify(c) \/ Extract(c) \/ ProbeCandidate(c) \/ Stat(c) \/ DropBackup(c) \/ MoveToBackup(c)
  \/ OpenTemp(c) \/ FillTemp(c) \/ Publish(c) \/ Probe(c)
  \/ Remove(c) \/ GiveBack(c) \/ Forget(c)

Next ==
  \/ \E c \in Clients : Start(c) \/ Look(c) \/ Confirm(c) \/ Work(c) \/ Die(c)
  \/ Release

\* The user may never answer; everything else the command does by itself.
Fairness == \A c \in Clients : WF_uvars(Work(c))

Spec == Init /\ [][Next]_uvars /\ Fairness

-----------------------------------------------------------------------------
Contents == Whole \cup {None, Torn} \cup Halves

\* The shape of the state; only a client that is writing has a half-written file.
TypeOK ==
  /\ target \in Contents /\ bak \in Contents /\ tmp \in Contents
  /\ latest \in Tags \cup {Odd} /\ cache \in Tags \cup {Odd, None}
  /\ pc \in [Clients -> Steps] /\ build \in [Clients -> Tags \cup {None}]
  /\ tag \in [Clients -> Tags \cup {None}] /\ got \in [Clients -> Tags \cup {Torn, None}]
  /\ answer \in [Clients -> Answers]
  /\ \A c \in Clients : Half(c) \in {target, bak, tmp} => pc[c] = "fill"

\* Whatever fails, and wherever the process dies, the machine has a whole
\* binary under one of the two names (applyUnix).
KeepsABinary == target \in Whole \/ bak \in Whole

\* The name leads to no binary but the one that was running and the one that
\* was planned, not even until the final probe (applyUnix).
PlannedOnly ==
  [][target' # target /\ target' \in Whole =>
       \E c \in Clients : target' \in {build[c], tag[c]}]_uvars

\* An update that reports a failure, and not a failed rollback, leaves the
\* version it was started from under its name (applyUnix).
FailedKeepsOld ==
  [][\A c \in Clients : answer'[c] = "failed" /\ pc[c] # "idle" /\ pc'[c] = "idle" =>
       target' = build[c]]_uvars

\* An applied update has moved to a later version, whatever the cache said
\* (compareVersions, Check).
OnlyForward ==
  [][\A c \in Clients : answer'[c] = "applied" /\ pc[c] # "idle" /\ pc'[c] = "idle" =>
       \E i \in 1..3 : build[c][i] < target'[i] /\ \A j \in 1..(i - 1) : build[c][j] = target'[j]]_uvars

\* The backup an applied update reports is the version it replaced
\* (backupCurrentBinary).
BackupIsPrevious ==
  [][\A c \in Clients : answer'[c] = "applied" /\ pc[c] # "idle" /\ pc'[c] = "idle" =>
       bak' = build[c]]_uvars

\* A confirmed update ends (the HTTP client has a timeout).
UpdateEnds == \A c \in Clients : pc[c] = "download" ~> pc[c] = "idle"

\* docs/releases/v0.2.6.md:33: a failed replacement or validation rolls back to
\* the backup, so that a binary is left when no update is running.
NothingLost == (\A c \in Clients : pc[c] = "idle") => target \in Whole \/ bak \in Whole

\* docs/releases/v0.2.6.md:31: the binary is replaced atomically, so its name
\* always leads to a whole binary.
ReplacedAtomically == target \in Whole
=============================================================================
