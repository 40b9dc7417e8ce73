# Verification of the lore CLI

`lore` installs and keeps the configuration of coding harnesses (Claude Code,
Codex, OpenCode, Pi, ...): it compiles a profile of capabilities into files,
applies them to a *selected target* directory together with a profile selection
and a manifest, updates its own binary and keeps credentials for a server. This
directory holds TLA+ models of the parts in which something can go wrong that a
unit test hardly reaches, the TLC runs that check them and TLAPS proofs.

All paths below are relative to `src/internal/`. The unix build is modelled.

## 1. Inventory

| Component | State it keeps | Operations | Hard behaviour | What makes it correct |
|---|---|---|---|---|
| Journaled transaction (`install/transaction_fs.go`, `transaction_fs_unix.go`) | target files, per-file temporaries, created directories, `.prepare` / journal / `.cleanup` directories, header, backups, markers | recover, begin, backup, seal, write, Commit, Rollback, abort, cleanup | failure before or after each effect, death between any two steps, edits between applies | all or nothing; recovery never refuses; a decided journal is final; no residue; recovery ends |
| Canonical apply (`install/apply.go`, `hosted_mcp_finalizer.go`, `transaction.go`) | the active journal, the one-use handoff, result status | executeApply, finalizeHostedMCP, completeHostedMCPCompletion, rollback D, commit D | order of files, profile, manifest and marker; failure of each; cancellation | truthful status; manifest last; reverse rollback |
| Target authority (`install/transaction_authority*.go`) | per-process registry with queues, `flock` on the root | acquire, claim, cancel, release | processes, goroutines, deadlines, death | one owner; FIFO; nothing left held; every attempt ends |
| Profile store (`install/profile_store.go`) | JSON state: global and per-project selections | prepare, complete, held completion, lookup | concurrent completions from stale baselines | distinct keys merge, same key conflicts, retries are idempotent |
| Profile authority (`install/profile_store_unix.go`, `profile_store_authority.go`) | sidecar file, state file, locks on both, temporaries | acquire, read, commit, snapshot, restore, release | the lock moves between inodes; residue of the dead | one writer; nobody waits on a vanished inode for ever |
| Plan sealing (`install/transaction.go` SealTransactionPlan, `plan.go`) | sealed report, hashes | seal, re-seal, compare | time between observation and guard | the applied plan is the admitted one |
| Install workflow (`install/service.go`, `route_policy.go`, `dry_run.go`, `legacy_adapter.go`) | prepared plan, consumed flag, gates | Prepare, Execute | gate closed in between, double execution | one execution, only through an open route |
| Reconciliation (`reconcile/reconcile.go`) | none | decide | case analysis of desired / observed / owned | never overwrites what it does not own |
| Compiler, manifest (`compiler/`, `manifest/`, `install/manifest.go`) | none | resolve, encode, decode | closures, canonical order | what a source changes stays in its role, tier and project |
| Adapters, projector, JSON merge (`install/adapter_*.go`, `projector.go`, `json_merge.go`) | none | project, merge | merged documents with foreign keys; whose an entry under lore's name is | what a merge guards of foreign content survives |
| Legacy installers (`install/pi.go`, `codex_install.go`, `opencode_install.go`, `antigravity_install.go`) | harness files, backups, the install manifest | Plan*, Execute* | no journal: failure in the middle, before or after a rename; a damaged manifest | what is taken out is in a backup; nothing is owned that was not written |
| Self-update (`update/`) | binary, `.bak`, `.tmp`, cache | Check, Apply | death between two renames, two updates | a runnable binary under its name |
| Authentication (`auth/`, `config/`) | keychain entry, configuration file | Save, Load, Logout, migrate | two stores, no common commit | the configuration names an existing credential |
| Terminal UI (`tui/`) | models, pending commands | Update, runAsync | messages of finished or abandoned commands | no stale message acts on a new screen |
| CLI, HTTP client, agent packs, output | none that lives on | parse, call, print | exit status precedence | documented exit codes |

How they interact: the CLI and the terminal UI prepare a plan through the
install workflow, which reads the target (adapters), compiles, reconciles and
seals. Execution takes the target authority, runs the journaled transaction
under it, lets the finalizer rewrite one of its resources with a credential of
the authentication part, and hands the *active* journal to the completion,
which takes the profile authority as well, writes the profile, publishes the
manifest, decides the journal and releases both authorities.

## 2. Modules

| Module | Models | Code |
|---|---|---|
| `AtomicTarget` | the abstract promise: a plan is installed at one instant or never, and the report agrees | - |
| `TransactionFS` | the journaled transaction, one action per disk step | `install/transaction_fs.go`, `transaction_fs_unix.go` |
| `HostedCompletion` | `TransactionFS` inside `executeApply`: finalizer, handoff, profile lease, manifest, statuses | `install/apply.go`, `hosted_mcp_finalizer.go`, `transaction.go`, `profile_store*.go` |
| `TargetAuthority` | registry, queue, deadline, flock, release | `install/transaction_authority.go`, `_unix.go` |
| `ExclusiveStore` | the abstract promise to a completion: it has the profile store for itself from reading to its answer, and the answer is true | - |
| `ProfileAuthority` | the lock that moves between the sidecar and the inodes of the state file | `install/profile_store_unix.go`, `profile_store_authority.go` |
| `ProfileStore` | preparation without authority, rebase, lease | `install/profile_store.go` |
| `ProfileCompiler` | selection of the profile, model of each role, capabilities, admission | `compiler/resolve.go`, `registry.go`, `types.go` |
| `CanonicalPlan` | observed facts, projection, reconciliation, sealing, writes, provenance | `install/projector.go`, `transaction.go`, `reconcile/reconcile.go` |
| `InstallWorkflow` | `lore install` from flags to exit status | `cli/app.go`, `actions.go`, `install_presenter.go`, `install/explain.go`, `dry_run.go`, `apply.go`, `legacy_adapter.go`, `releaseprofile/` |
| `InstallTui` | the shell and its install screen against asynchronous commands | `tui/root.go`, `install_model.go`, `install_update.go` |
| `SelfUpdate` | `lore update`: cache, decision, download, replacement, probe, rollback | `update/`, `cli/actions.go` |
| `AuthManager` | login, load with migration, logout over keychain and configuration | `auth/manager.go`, `keychain.go`, `config/store.go` |
| `PiInstall` | the Pi installer without a journal | `install/pi.go`, `plan.go` |
| `PlannedInstall` | the Codex, OpenCode and Antigravity installers | `install/codex_install.go`, `opencode_install.go`, `antigravity_install.go`, `cli/actions.go` |
| `ReviewRelease` | the staged bounded-review pair and its pointer | `install/bounded_review_release.go` |
| `CodexConfig` | the merge of `config.toml` | `install/codex_install.go` |
| `OpenCodeConfig` | the merge of `opencode.json` | `install/json_merge.go`, `adapter_opencode.go` |

Compositions. `HostedCompletion` extends `TransactionFS`: the two share the
target, the journal and its owner, and the interleavings of both are the
subject. `Commands` (which `MCCommands` instantiates for TLC: InstallTui twice,
InstallWorkflow, SelfUpdate, AuthManager twice), `LegacyInstallers` (which `MCLegacyInstallers` instantiates: PiInstall,
PlannedInstall, ReviewRelease, OpenCodeConfig) and `SelectedProfile`
(ProfileStore, ProfileCompiler) put parts of the program that share *no* state
beside each other: a selector variable says which one a behaviour is about, the
others rest in an initial state. Components without common variables cannot
disturb each other, every behaviour of the whole is an interleaving of
behaviours of the parts, and a property of one part is indifferent to steps of
another; so their sum says as much as their product and is much smaller. What
one part needs to know of another is an assumption both state: an effect of
`InstallWorkflow` has the outcomes `HostedCompletion` and the installers have,
a completion of `ProfileStore` is one step because `ProfileAuthority`
implements `ExclusiveStore`, and
`OpenCodeConfig` and `CodexConfig` merge in one step where `PlannedInstall`
is about the time between planning and writing.

### TransactionFS

`file`, `temps` and `dirs` are the target on disk; `jnl` is the journal in
`.prepare` or in its final place (`at`), with the header (`entries`, `kept`,
`planned`), the backups and the markers; `residue` is the `.cleanup` directory.
`pc`, `task`, `todo`, `states`, `plan`, `bad` are the program counter and the
locals of the owner; `result` is what it returned. `recover()`, `abort()`,
`Rollback()` and `Commit()` share `removeTemps`, `restore`, `removeCreatedDirs`,
`markRestored` and `cleanup`; so do the actions, and `task` says on whose behalf
they run and hence what a failure is reported as.

Each action is one system call with an effect (`O_EXCL` creation, rename,
removal, marker). It has up to three outcomes: done; failed before the effect
(`CanFail`); or failed *after* it, when the rename is done and the `fsync` of
the directory is not (`FailsLate`, for the operations in `LateFaults`). `Crash`
takes the owner away between any two actions: the guard is an OS lock and goes
with it, the disk stays. Sequences without an observable intermediate state are
one action: writing header and marker before `.prepare` is renamed, for one, as
recovery drops an unpublished `.prepare` unread.

The finalizer writes one backed resource again (`CallRewrite`), and the caller
commits or rolls back. `Commit()` of this file, which refuses to do anything
after an unconfirmed marker, is modelled as written (`MarkCommitted`); the
production path uses the completion's own commit, in `HostedCompletion`.

`Edit` is somebody else changing a file while no owner runs, also over a pending
journal. `Heal` ends all failures, for the liveness properties only.

Abstracted: file modes are part of the contents; directories are one level deep
and never removed by others; a partly deleted residue directory is an intact
one (both are deleted again); path safety checks count as failures before the
effect; releasing the guard does not fail.

### HostedCompletion

Extends `TransactionFS` by the profile: its value, the value sealed in the plan
(`want`), the lease and what it captured (`prior`), and whether the profile on
disk was written for a journal that is not yet decided (`provisional`).
`rollbackHostedMCPCompletionD` restores the manifest, then the profile, then
the rest: `RestoreProfile` is due in the middle of the shared restoration, as
soon as the manifest, the last resource of the order, is done. `Released` maps
what the transaction returned to `Result.Status` and `ChangedState` the way
`applyFailure`, `interruptedApply` and `canonicalApplyError` do, and `GiveUpLease`
follows it, since the code releases the target guard first. `Decide` is
`commitHostedMCPCompletionD`, which rolls back when the marker fails.

### TargetAuthority

`entry` is `processTargetRegistry` of each process, an entry that is neither
held nor awaited being absent from the map; `flock` is the kernel's lock table.
An attempt goes enter, (waiting, claimed,) os, verify, own, unlocked, with the
deadline checks where `acquireTargetGuardWithWaiter` has them. Each registry
method runs under its mutex and is one action; the deadline and the claim of a
waiter are two steps in the code but one action here, as nobody else sees a
waiter's deadline. `late` may rise at any step of an attempt that waits: the
deadline is a flag, not a number of seconds. `Die` removes a process with its
registry and its locks. Two spellings of one root are one root: `os.SameFile`
merges their entries.

### ProfileAuthority

One action per system call. `stateLeaf` and `lockLeaf` are the inodes under the
two names, `flock` who has locked each inode; `st`, `sc` and `tmp` are what a
process has open. `Acquire` follows `tryUnixAuthority` through both ways in: by
the state file when there is one, by the sidecar when there is none, with the
second look after the lock. `Commit` replaces the state file (a new inode, on
which the owner holds the lock already), syncs, removes the sidecar, and undoes
itself when that fails; `KeepHeld` and `GiveBack` end a lease. `Faults` names
the steps at which the operating system may fail, and death. A process that is
not at work has closed everything. Temporaries of the dead are left out: their
names are random.

### ProfileStore and SelectedProfile

`ProfileStore` has one action per API call. `Prepare` reads the file without
any authority; a completion compares that base with the file under the
authority (`rebaseProfileState`): a different key merges, the same key
conflicts unless it already has the value, and a base older than the file is no
reason by itself. A held completion keeps `owner` and the bytes it captured
(`prior`) until it commits or restores. `ProfileCompiler` has the sources of a
configuration as variables and changes them one at a time, because what
is worth saying of a pure function is how two of its results are related.

### CanonicalPlan

A file is the user's words (a number, 0 for none) and what stands at lore's
part of it: nothing, a release, something else, damaged markers; `own` is a
ghost that says who wrote that part. `Project` observes, `Seal` takes the
semantic plan, the report, the permit, the manifest and the drift facts each
from one of the last two rounds and compares them as `SealTransactionPlan` does
(hashes are the values they hash), `Apply` writes every resource of the plan.
The caller who gathers evidence is not in the repository; it is honest here:
managed is what the published provenance lists and still finds unchanged.

### InstallWorkflow, InstallTui, SelfUpdate, AuthManager and Commands

`InstallWorkflow` is a program counter from flags to exit status; the three
effects of an apply (writes, finalization, completion) are steps with the
outcomes `HostedCompletion` and the installers have. `signalled` is the
interrupt, early (before the effects begin) or late. `InstallTui` separates what the
interface shows (`root`, `tui`) from what is under way beside it (`flying`,
`running`, `finished`): a message carries no identity, as in the code, while
the model remembers it. `Prompt` says that a prepared result arrives before
the next key; the passing run assumes it, `tui_stale` does not. `SelfUpdate`
has one action per file operation on the binary, `.bak` and `.tmp`, and a cache
with its ETag; a target that is no regular file ends the plan before anything
else is asked (`PlanStatus`). `AuthManager` has one action per call on either
store. The configuration may name the keychain account besides the server; only
the commands write it, so that it is the account of its server. A file that
decodes but has no usable address is `Addressless`: a logout deletes it and does
not ask the keychain. `LateFault` says that writing the configuration may fail
after its rename.

### PiInstall, PlannedInstall, ReviewRelease and LegacyInstallers

A content is which text of the user and which release of lore is in it, so that
a lost text can be recognised whatever file it was in; `owed` collects what an
install took out. Backup roots are named after the second of the plan: `clock`
counts those. `PiInstall` works through cleanups, files, overlays and stale
overlays; `PlannedInstall` has the three installers in one module, since they
have one shape and differ in a few named guards. `Races` says whether the user
may edit while an install writes. `ReviewRelease` is separate: it writes below
a directory of its own.

In `PlannedInstall` a content also says which entries of the user's own stand
under the names of lore's servers (`foreign`), and `owed` holds whole files. The
targets treat such entries differently, and `Refused` and `TakenOver` follow
each: OpenCode refuses the file for either name (`OpenCodeRefuses`);
Antigravity refuses `context7` and puts lore's `lore` over the user's; Codex
refuses a `lore` table only in a file that is neither marked nor listed
(`CodexOwnsConfig`), takes it for an older release's in a listed file without
the block (`CodexTakesOver`), and leaves it beside the block otherwise.
`Guarded` names the entries that are protected; the others are a row of
section 6.

A step fails before its effect (`Fail`) or after it (`FailLate`): the mode is
set once more after the rename, and the manifest of Pi is written twice. The
user damages or removes a manifest before an install or between its plan and
its execution. Pi's plan ends at one it cannot decode, while the execution,
which loads it again, takes it for none.

### CodexConfig and OpenCodeConfig

`CodexConfig` has the document as the line scanner sees it: a sequence of table
headers, assignments and markers; a table is what lies between two headers. A user's document is built from sections
chosen so that each branch of the merge is taken. `OpenCodeConfig` has one field
per key the merge looks at. Both are checked over *sequences* of installs,
logins and edits, as the output of one merge is the input of the next.

## 3. Runs

| Run | Bounds | Shows |
|---|---|---|
| `transaction_fs` | 2 resources in 2 directories that may have to be made, 2 contents or none, every late fault but that of the header (only the completion extends one), both files editable | the transaction implements `AtomicTarget` (`AllOrNothing`); recovery never refuses (`Recoverable`); `DecidedIsFinal`; `NoOrphans`; `Settles`: every apply ends and, once failures stop, every journal is settled |
| `hosted_completion` | the hosted configuration and the manifest; 2 contents, 2 profiles, deaths, late faults of write, restore, restored, cleanup | the whole apply is still all or nothing for the files and truthful; rollback in reverse order; the manifest last |
| `target_authority` | 3 attempts, 2 of them in one process, 2 roots | exclusion, FIFO, nothing left held, every attempt ends |
| `profile_authority` | 2 processes, 7 inodes, 2 documents, failures of replacement, sync, sidecar, undo, lease and release, deaths | one writer, who removes its own sidecar only; the authority implements `ExclusiveStore` (`Serialized`): a completion publishes over what it has read, takes back its own publication only, and its answer is true |
| `profile_authority_live` | the same with 6 inodes, 1 document and failures of the acquisition and the commit | every completion gets its answer |
| `commands` | a menu of 4 items, 3 targets, 6 prepares; one supported target and one that is not, both routes, every gate; 3 releases and an odd tag; 2 commands, 2 servers, 2 tokens each | screen, exit status and events tell the truth, an update keeps a binary, a token stays with its server, what was confirmed or interrupted ends |
| `installers` | Pi: 2 installs over 2 releases, an edit, a failed step; the others: 2 installs, 2 edits between them (of files, entries or the manifest), a failed step; the failed step fails before or after its effect; the review pair: 3 installs of 2 revisions, a failed call, a damaged release; deaths everywhere; opencode.json: 2 servers and 2 edits between installs, any number of these | what an install takes of the user's out of a file is in a backup; ok means installed; overlays and leftovers that no manifest lists, and the server entries a merge guards, stay; the pointer names a whole pair; the merge keeps the user's part and is a fixed point |
| `codex_document` | documents that parse, of up to two of 8 sections, 2 servers, 2 edits | the merge of config.toml keeps every line of the user, refuses what is not lore's, parses, projects what was asked for and is a fixed point |
| `selected_profile` | 2 commands, 2 projects, 2 profiles; 2 candidates, with a model of their own or without, and an override in 2 tiers | no selection is lost; sources stay in their role, tier and project |
| `canonical_plan` | 4 resources of the 3 modes, one with a credential, 2 releases, 2 edits, 2 projections | what was seen of the user's is kept, facts of a plan are those of the files, what was applied is accepted |
| `commit_fault` | as `hosted_completion`, with the late fault of the commit marker | disagreement 1 |
| `tui_stale` | 3 targets, 5 prepares, answers at any time | disagreement 2 |

The four composite runs check conjunctions (`ScreenIsTrue`, `InstallIsTrue`,
`UpdateIsSafe`, ...), each a few lines in the composing module that name the
properties of the parts; these are stated and commented in the module of the
part.

Why the bounds are enough. Steps on different resources of a transaction only
interact through the loops (visited or not, which needs one of each), through a
shared created directory and through the order; two resources give first, last,
visited and unvisited. A third was tried for `hosted_completion` (3.5 million
states, no violation) and is left out for time, as is a third Pi install (6.07
million, no violation). Two contents and absence distinguish the old, the
planned and a foreign value. There is no bound on how often an owner dies,
fails or is run again. Two attempts of one process and one of another give both
kinds of neighbour; the second root makes a mix-up of entries visible. Seven
inodes are more than two processes can have open or named at once, so that a
fresh one can always be made. Two releases, two edits and two rounds give every
stale pairing of "seen" with "is"; texts of the user are numbered by the edit,
so that any loss is seen. Three releases with a difference in the middle number
tell an order of versions from an order of their last or first number.

Symmetric values are exchanged in `hosted_completion`, `profile_authority` and
`selected_profile`, which check no liveness.

Each property of a passing run is broken by a seeded fault, an operator that
stands before the one it replaces and says in its comment which property it
breaks: they are the plausible slips (a forgotten failure, a marker that is
not written, a lock taken for granted), not part of the model.

`CHECK_DEADLOCK FALSE` is set where a behaviour may really stop: in `commands`
and `tui_stale` a session ends (quit, exit status), in `installers`,
`codex_document` and `canonical_plan` the bounded number of installs, edits and
rounds is used up. Elsewhere deadlock is checked.

## 4. Fairness

`TransactionFS!FairSpec` lets the owner go on unless it dies (it is a
sequential program that never blocks once it has the guard) and the command be
run again. Failures are not assumed to occur, nor to stop: that journals are
settled is asked only once they have (`healthy`), while every apply ends with
failures for ever. `TargetAuthority!FairSpec` lets attempts poll
(`deadline.sleep` wakes up) and the clock reach deadlines; it does not assume
that owners release, nor that any call fails: `Fail` is under no fairness.
`ProfileAuthority!FairSpec` is of the same kind. In `Commands` the commands a
shell has started end and their messages are delivered, the steps of an install
and of an update are taken, while keys, answers to a question and interrupts
need not come; each condition is tied to the command that is the subject, since
a message on its way in a shell at rest is never delivered, and fairness
for it would empty the specification.

## 5. Proofs

For every number of resources, contents, directories, attempts, processes,
roots, inodes, commands, projects, profiles, sources, menu items, targets,
release tags, servers, tokens, paths, overlays, renderings, revisions, installs,
releases, edits and rounds, for all servers, sections and words of a document, and for every set of faults unless a condition is
named:

| Module | Theorems |
|---|---|
| `ApplyProofs`, the transaction | `TypeCorrect`, `Invariant`, `AlwaysRecoverable`, `MarkersDecide`, and `ImplementsAtomicTarget`, the refinement that `transaction_fs` checks as `AllOrNothing`; `NothingOrphaned` (`NoOrphans`) |
| `ApplyProofs`, the completion | `CompletionTypeCorrect` (`HTypeOK`), `RollbackTakesTheProfile` (`RollbackIsCoherent`), `ManifestIsLast` (`ManifestLast`); `CanonicalApplyIsAtomic`, the refinement that `hosted_completion` checks as `AllOrNothing`; `CompletionRecoverable`; `ReportIsTruthful` (`TruthfulOutcome`) |
| `TargetAuthorityProofs` | `AuthorityTypeCorrect`, `TargetIsExclusive`, `RegistryIsExclusive`, `NothingLeftHeld`, `QueueHoldsTheWaiters` (`QueueIsWaiting`), `QueueIsFair` (`NoOvertaking`) |
| `ProfileAuthorityProofs` | `AuthorityTypeCorrect`, `OneWriterAtATime` (`OneWriter`), `SidecarsSpared` (`OwnSidecarOnly`), `NobodyIsOverwritten`, and `ImplementsExclusiveStore`, the refinement that `profile_authority` checks as `Serialized` |
| `SelectedProfileProofs` | `SelectionTypeCorrect` (`TypeOK`); `SelectionsAreKept` (`SelectionIsKept`), from `StoreTypeCorrect`, `NoUpdateIsLost`, `ConflictsAreReal`, `LeaseTakesBackItsOwn`, `CorruptionIsLeft`; `SourcesStayWithinTheirs` (`SourcesStayApart`) |
| `CommandsProofs` | `CommandsTypeCorrect` (`TypeOK`), `ScreensAreTrue` (`ScreenIsTrue`), `InstallsAreTrue` (`InstallIsTrue`), `UpdatesAreSafe` (`UpdateIsSafe`), `LoginsAreSafe` (`LoginIsSafe`) |
| `CanonicalPlanProofs` | `PlanTypeCorrect` (`TypeOK`), `PlansAreHonest` (`PlanIsHonest`) |
| `LegacyInstallersProofs` | `LegacyTypeCorrect` (`TypeOK`), `TextsAreKept` (`InstalledAndKept`), `OwnershipIsKept` (`OwnershipKept`), `PointersAreSafe` (`PointerIsSafe`), `DocumentsAreMerged` (`OpenCodeIsMerged`) |
| `CodexConfigProofs` | `CodexTypeOK` (`TypeOK`); `CodexMerges` (`CodexIsMerged`), from `UserLinesStay`, `ForeignLoreStays`, `ParseableStays`, `ProjectionHolds`, `SecondInstallStays` |

*Argument for the transaction.* None of the properties is inductive: that a
commit installs the whole plan depends on what the loops have visited. `IInv`
adds, per phase of the owner, what the journal says of the files. While it is
filled (`SealingOK`) its entries are the saved resources and equal the files
(`Faithful`); while it is written under (`WritingOK`) it lists exactly what the
plan touches and every visited resource has its planned value; while it is
restored (`RestoringOK`) every visited resource has its backup back *unless a
failure was noted*; and it is moved away undecided only if the files agree with
it (`CleaningOK`). `JournalOK` is the part that survives the owner: markers
exclude each other and every kept entry has its backup. For the refinement, the
abstract store is `Logical`, the files with a pending journal's backups laid
over them: sealing, writing, crashing and restoring leave it as it is, and the
commit marker changes it in one step to the whole plan.

*Argument for the authority.* `AInv` adds two facts to the four properties: who
has passed the registry holds its entry (`Entered`) and who has passed the lock
holds it (`Locked`). The step lemmas go by effect (`Moves`, `Takes`, `GivesUp`,
`Locks`, `Drops`, `Dies`), and every action is one of them.

*Argument for what is created beside the resources.* `OInv` adds to `IInv` who
accounts for temporaries and directories: on disk, a pending journal lists every
temporary and a restored one has no created directory left (`OnDisk`); in the
owner's hands, there is a temporary only during a write or a restoration, and it
is that of the resource in turn, unless a failure was noted (`InHand`).

*Argument for the canonical apply.* `CInv` follows the profile through the
phases: nobody holds the lease before the completion, every publishing step
holds it with the profile written (`LeaseOK`); what the loops have behind them
agrees with the plan (`ProgressOK`), which makes the manifest the last; and a
rollback that has noted no failure has no provisional profile left once it is
past the resources (`ProfileBack`). For the refinement, `RInv` is `IInv` while
the journal belongs to `TransactionFS`, so that all of those steps are covered
by its refinement, and `CompletingOK` while the completion has it: every
resource but the manifest has its final contents, and the manifest joins the
plan, then the header, then the directory. Hence encoding only amends the plan,
the extended header backs up what the manifest holds, the publication stays
behind that backup, and the marker installs everything at once. The theorems
assume `NoTornHeader`, no late fault of the header or the marker, since with
one of them the code does break the promise (section 6); the late fault of the
seal, which `hosted_completion` leaves out, is covered.

*Argument for the queue.* `Lists(q, W)` says that `q` holds the members of `W`,
each once; appending a newcomer and dropping one at a position keep it, and
with it the order of the others, which is all that fairness needs.

*Argument for the profile authority.* The lock a process holds says nothing by
itself, as the names move to other inodes. `WInv` says what does: a writer's
*authority* (`HasAuthority`) is the lock on the inode that has the name of the
state file or, while there is none and it has published nothing, on the inode
that has the name of the sidecar. Either is one inode with one owner. Each step
of a process leaves that of the others alone, because it renames or unlinks
only names whose inodes it has locked, or takes a fresh inode nobody has open.
For the refinement the abstract owner is the one writer, and what it has found
is `doc` before it has read and `prior` afterwards. `SInv` adds that who has
published published something new (`PublishesOK`), so that a restoration is a
step; then the steps of a process go by what they mean to the abstract store:
inside (`WriterStep`: it works, publishes, answers, takes back) or outside.

*Argument for the report.* `RInv` knows what is in the files and `CInv` what is
in the profile; `OutcomeOK` ties both to what the caller is going to be told:
who cleans up after the marker has every planned file installed and holds the
profile it wrote, who gives up before the completion has not touched the
profile, and who cleans up what was undone leaves no journal to replay. `ReportIsTruthful` assumes besides `NoTornHeader` that no
late fault tears the seal (`NoTornSeal`), which is the seal fault of section 6.

*Argument for the profile store.* That a completion touches its own selection
only is a fact about `Rebased`; the invariant adds that a lease's captured bytes
differ from the published ones in its own key at most (`LeaseIsOwn`), so giving
them back undoes nothing else.

*Argument for the compiler.* The winning source is chosen by `CHOOSE`, and what
is said of it needs that there is one. A finite set of sources has a first by
kind, tier and key (`FirstExists`): a set without one would have a smallest
subset without one, which has one value more than a set with one. That is
induction as a minimal counterexample in a well-founded order, which needs no
operator as a parameter. That two results agree then follows from the set of
sources that matter being the same before and after the change.

*Argument for the commands.* Each command has an invariant that only its own
steps touch, so the step of another is `UNCHANGED` for it. `UpdateInv` says for
every point of the update which of binary, `.bak` and `.tmp` is which build, so
that a death or a failed step leaves one of them where a recovery looks for it.
`LoginInv` says that every token is where its server is, in the file, under its
account and in the hands of each command, that the account each command uses is
that of its server and that the file names none or that of its own, for any
number of commands; `SessionInv` adds, for a command by
itself, what both stores held when it began. `InstallInv` relates what each
effect has done to the events said so far and to the result that will be
reported, per program counter. `ScreenInv` relates a running execution to the
request on the screen, and `QuestionInv` the flags of the questions to each
other, the focus and the picker. The picker walks to the next target that can be
chosen; that the walk arrives is the well-foundedness of the distance.

*Argument for the plans.* `PlanInv` says what the recorded release rests on. A
file that is replaced as a whole has the user's words or lore's part, never
both. A plan is sealed about *one* round, whichever rounds its five parts were
taken from, because the hashes compared agree on the round's facts; so its facts
are those of one observation, and none of them is a conflict. And a plan whose
credential is in a file that is merged or added to is never recorded
(`recorded.paths \cap Sensitive \subseteq Replace`), which is what makes the
second observation of an applied plan accept it again.

*Argument for the installers.* `LegacyInv` has one part for each. For Pi
(`PiInv`): a step can only overwrite a backup if its root has one at that path,
so the root of this second is empty at all that is `Ahead`, and what the step
under way takes out is in it already (`PiBackups`); the step was decided with
the right to do so (`PiHolds`); and while nobody edits, every stage that is
behind the install is in place (`PiProgress`), which is what ok reports. For the
planned installers (`PlannedInv`): every path still to do is `Due`, that is
decided from the file as it is, which its merge does not refuse, since nobody
edits between plan and write (`Races`), and Codex never goes on after a failure.
Backups are of whole files (`PlannedBackups`), and a step does the same to files
and backups whether it is then reported as done or as failed
(`PlannedReplaces`, `PiReplaces`), which covers the late failures. An entry is
taken out only by a step that is `Due`; what `Desired` leaves out is in
`TakenOver`, and of that nothing is guarded in a file that is not refused
(`PlannedGuards`). For the review pair
(`ReviewInv`): the old pair stays whole until the pointer has moved from it, the
new one is whole when it moves, and a directory that is taken away again is not
that of the old pair. For opencode.json (`DocumentInv`): a merged block merged
again stays as it is (`MergedTwice`), and so does all that an install has written
(`Settled`), because each part is read back to what it was rendered from; a model
stands only in a file that exists, so that the next install finds it. Two facts bound
what is claimed, as they bound the run: edits happen between installs
(`Races = FALSE`), and one call of the review fails; with races, two installers or two failures the code breaks the promises
(section 6).

*Argument for config.toml.* The merge is stated by positions, so that nothing
here is an induction over lines. What is taken out of a document is picked by a
set of positions, and the pick is their order (`Picked`). `Framed` says what the
first merge returns: the block, and around it what remains when whole tables of
lore are taken out; `Filled` says where each line is after the merge of a table:
forced, moved, or one of the k new ones before the next header. From these two
follow, each through all three merges, that the user's lines are kept in their
order (`KeptByMerge`), that the document parses and says what it should
(`FramedParses`, `MergedParses`, `MergeSays`) and that lore's unrecorded tables
refuse it (`LoreKept`). `Projected`, `StaysParseable` and the two about keeping
are then facts about one step. That a second install changes nothing is not: its
invariant `Settled` says that while the last install was ok and nobody edited
since, the file is recorded and is a fixed point of the merge. The fixed point
(`MergeAgain`) needs care, since the code's end of a table is the next
*header*: keys missing from a table that stands above the block go between its
start marker and its first table. `Enclosed` says where the block is and how many keys
are in there; merging the block again takes exactly those out, and the merge of
their table puts the same keys back at the same place (`SpillAgain`,
`AgainInside`), whereas a table elsewhere is left as it is (`AgainApart`).

Assumptions: those named in the modules, which TLC evaluates in the runs
(`NAssumption`, `ValueAssumption`, `DirAssumption`, `FaultAssumption`,
`HostedAssumption`, `DeathsAssumption`, `HomeAssumption`, `NobodyAssumption`,
`AbsentAssumption`, `NoneAssumption`, and `InodesAssumption`: there are two
inodes). `StoreAssumption` and `CompilerAssumption` of `SelectedProfile` keep
names apart, order keys and tiers and make the sources finite, as a
configuration file is. In `Commands`, `TargetsAreUsable` says that the targets
are a sequence of which the shell can choose one and that the bound is a number,
`TargetsAreInstallable` that some target is supported, `UpdateAssumption` that
tags are versions and markers are no tags, `AuthAssumption` that there is a
server and that the words for nothing are no values. `PiPaths`, `PlannedPaths`
and `ModesAreApart` say that a path has one kind (and none is the empty name),
`ReviewNumbers` that revisions are numbers above the 0 of no pointer, and
`BoundsAreNumbers` what it says. `DocumentsAreLines` says that a server is a
word, that a section is a sequence of lines, that the bound of the edits is a
number, and that what the merge itself writes is made of words.

Only model-checked: liveness (`Settles`, `EveryAttemptEnds`,
`EveryCompletionEnds`, `CommandsEnd`), which is outside the prover's reach.
Every other property of a passing run is the statement of a theorem; what
`commit_fault` and `tui_stale` refute is of course not.

## 6. Disagreements

Where the code and what its comments, tests, documentation or specification
(`openspec/specs/canonical-capability-profile-compiler/spec.md`, below `spec`)
say part ways. Two have a run of their own:

1. *Commit fault* (`commit_fault`): a commit marker whose fsync fails after the
   rename is durable, yet `commitHostedMCPCompletionD` (`install/transaction.go:374`)
   rolls back under it, against its own comment at 378-379.
2. *Stale answer* (`tui_stale`): `installPreparedMsg` (`tui/install_update.go:15`)
   has no identity, so the answer for a screen that was left is taken by the
   next one, and Enter executes another request than the one on screen; `spec:1193`
   says leaving discards it.

The others are stated in the modules, as properties that a passing run does not
have because TLC refutes them. To see one, list the property (of an instance,
`Tui!CheckingIsTrue`, say, in a definition of its own) with the values in the
last column.

Transaction, completion and profile (`HostedCompletion`, `ProfileAuthority`):

| Name | Code | Disagreement | Property, values |
|---|---|---|---|
| header fault | `profile_store_unix.go:559` | when the directory fsync after renaming the extended header fails, the deferred removal deletes the backup the header names; a death then leaves a journal recovery refuses for ever (comment at 485-487) | `Recoverable`, late fault `header` |
| seal fault | `transaction_fs.go:171` | a seal that fails after publishing, and a cleanup that fails too, are reported as a complete rollback (`spec:1091`) | `TruthfulOutcome`, late fault `seal` |
| profile after death | `profile_store.go:191` | the profile is not in the durable journal: recovery restores the files and keeps the profile of the dead apply (`spec:884`, `spec:900`) | `RestoredMeansWhole` |
| cleanup outcome | `transaction.go:377` | a failed cleanup after the marker is `failed` with everything installed; C39 (`spec:946`) asks for a restoration | `FailedMeansUndone` |
| authority order | `transaction.go:383` | the target is released before the profile; 238-239 calls it outermost | `TargetOutermost` |
| residue | `profile_store_unix.go:248` | a contender that finds the state file locked closes the sidecar it has just created without unlinking it; B13 (`spec:599`) says no residue remains | `NoAuthorityResidue`, no faults |
| spurious invalid | `profile_store_unix.go:215` | who locks an inode that was replaced meanwhile is told that the path is invalid instead of polling again (`spec:508`, `spec:562`) | `ContentionIsNotUnsafe`, no faults |
| stuck lease | `profile_store_unix.go:321` | `restoreHeld` insists on creating the sidecar itself: somebody's residue makes a lease residual risk (`spec:527`) | `LeaseCanBeGivenBack`, no faults |
| gap in the undo | `profile_store_unix.go:451` | undoing a first commit after the sidecar is gone unlinks the last name of its authority (`spec:521`) | `AuthorityCoversRollback`, fault `sidecarSync` |

Update, authentication, interface and command (`SelfUpdate`, `AuthManager`,
`InstallTui`, `InstallWorkflow`):

| Name | Code | Disagreement | Property, values |
|---|---|---|---|
| update gap | `update/replace_unix.go:180` | there is no binary under the name from the first rename to the second (`docs/releases/v0.2.6.md:31`: atomically) | `ReplacedAtomically` |
| update race | `update/replace_unix.go:75` | two updates share `.bak`: the deferred removal of one deletes the backup of the other, and no binary is left (`v0.2.6.md:33`) | `NothingLost`, 2 clients |
| save | `config/store.go:143` | `Save` reports a failed chmod after its rename, and the caller deletes the credential the new file names (88: atomically) | `SaveIsAtomic`, `LateFault` |
| migration | `auth/manager.go:159` | a migration replaces a login completed meanwhile (`manager_test.go:193`) | `MigrationReplacesLegacy`, 2 clients |
| logout | `auth/manager.go:117` | a logout deletes the configuration of a login completed meanwhile and leaves its credential (`README.md:32`) | `LogoutRemovesBoth`, 2 clients |
| lost check | `tui/root.go:182` | the result of the update check is swallowed while the install screen is open; Update then says "in progress" for ever (`README.md:156`) | `CheckingIsTrue` |
| hidden screen | `tui/root.go:610` | Tab and Enter open the install screen without moving the focus: the menu is drawn while keys execute (`spec:1206`) | `ExecutesOnScreen` |
| abandoned execution | `tui/install_update.go:17` | a late answer takes the screen off a running execution, Esc leaves it and Enter starts a second (`spec:1193`) | `NothingAbandoned`, `Prompt = FALSE` |
| early interrupt | `cli/actions.go:522` | an interrupted legacy apply exits 1, not 130 (`spec:1114`) | `EarlyInterruptExits` |
| partial legacy | `install/legacy_adapter.go:48` | a failed legacy install exits 1, "complete rollback" (`spec:1091`), with what it had written | `ExitOneIsUndone` |
| target list | `cli/app.go:382` | an unsupported target prints a list to stdout also for JSON (`spec:1055`) | `JsonIsOneObject` |
| prompt in JSON | `cli/actions.go:482` | the question goes to stderr, which a JSON success leaves empty (`spec:1070`) | `JsonIsQuiet` |
| lost residual | `cli/install_presenter.go:80` | when the JSON object cannot be written, residual risk exits 1 (`spec:1091`: 3) | `ResidualIsThree`, `OutputFails` |

Installers (`PiInstall`, `PlannedInstall`, `ReviewRelease`), plans and documents:

| Name | Code | Disagreement | Property, values |
|---|---|---|---|
| races of the installers | `pi.go:600`, `codex_install.go:433`, `codex_install.go:95` | what is written between backup and rename, or to a planned creation, is in no backup; two installs in one second share a backup root (`README.md:34`, `:93`) | `NothingLost`, `Races` or 2 installers |
| takeover | `json_merge.go:50`, `codex_install.go:637` | Antigravity puts its `lore` server over the user's without a check; Codex, once a manifest lists `config.toml`, strips a `lore` table the user has written in a file without the block (`spec:150`: "Foreign content MUST NOT be silently overwritten"; `adapter_codex_test.go:1383`). A backup has either | `ForeignEntriesStay` |
| own collisions | `pi.go:764` | overlays of an install that died before its manifest are "the user's" for ever (`README.md:34`) | `CollisionsAreUsers` |
| missing overlay | `pi.go:799` | a stale overlay the user deleted fails this and every later install (`README.md:93`) | `RerunSucceeds` |
| late drift | `plan.go:353` | the snapshot lists one level; other drift is reported after everything was written (`service_test.go:1562`) | `NoWritesOnDrift` |
| forgotten leftover | `opencode_install.go:177` | a stale plugin whose deletion fails leaves the manifest and is never deleted (`components.go:129`) | `LeftoversAreDeleted` |
| conflict without backup | `opencode_install.go:327` | a planning conflict names a backup that does not exist (`antigravity_install.go:269`) | `ConflictIsBackedUp` |
| broken manifest | `opencode_install.go:563` | an unreadable manifest is an error, not the fresh-install path of 559 | `UnreadableIsFresh` |
| dry run | `codex_install.go:33` | planning writes `agent-config.json` (`adapter_codex_test.go:543`) | `DryRunIsReadOnly` |
| dangling pointer | `bounded_review_release.go:194` | a pointer write that fails in its chmod and cannot be restored names a directory that is removed (133-134) | `NoDanglingPointer`, 2 faults |
| shared staging | `bounded_review_release.go:154` | a second install empties the staging directory the first has validated, and the half is published (135) | `OnlyCoherentPublished`, 2 installers |
| stale plan | `apply.go:96` | nothing compares the files under the lock with what was observed (`spec:150`) | `NeverOverwritten` |
| adoption | `reconcile/reconcile.go:250` | an equal foreign file is a noop and then listed as managed (`spec:150`) | `NotAdopted` |
| never a no-op | `reconcile/reconcile.go:254` | every plan has a credential, and a credential is an update (`spec:229`) | `UnchangedIsNoop` |
| admitted, not applied | `hosted_mcp_finalizer.go:139` | an admitted plan without one hosted server of Pi or OpenCode is rolled back (`spec:242`) | `AdmittedApplies` |
| override by key | `compiler/resolve.go:449` | an override of the profile's tier with a later key does not count (`spec:39`) | `OverrideOverrides` |
| order of editions | `compiler/resolve.go:39` | of two definitions of one profile the last in the input counts (`spec:184`) | `OrderIsNothing` |
| doubled tables | `codex_install.go:596` | a user's `context7` table or dotted `features.multi_agent` ends up defined twice (`README.md:34`) | `MergesOnlyWhatItCan` |
| lost limits | `codex_install.go:563` | a key added before the managed block lands inside it and is replaced with it (`adapter_codex_test.go:953`) | `LimitsKept` |
| old token | `json_merge.go:577` | a renewed token is not written over the native block (`README.md:34`) | `TokenIsSaved` |
| own block refused | `json_merge.go:227` | after a login to another server lore's own block is a conflict (`adapter_opencode.go:1023`) | `OwnBlockIsOwned` |
| models read back | `adapter_opencode.go:671` | the defaults of the last install win over `agent-config.json` (551-553) | `ConfigurationReaches` |
| plural key | `json_merge.go:370` | a list of plain plugins stays under a key the validation refuses (359-360) | `PluralIsConverted` |
| skills path | `json_merge.go:387` | `skills.path` is dropped where a list exists (332-334) | `SkillsKept` |
| second merge refused | `json_merge.go:394` | a merge drops the marker that made the block lore's (435-436: idempotent) | `SecondInstallSucceeds` |

Most of the first table needs a directory `fsync` that fails after its rename;
that is why `hosted_completion` runs without the late faults `commit`, `header`
and `seal`. `transaction_fs` has all of its own: `Commit()` and `abort()` are
right about the files there. The other passing runs leave out, by `Races`,
`Prompt`, `LateFault`, `OutputFails` or one client, what would only show the
tables again.

## 7. Not modelled

* Windows: the same contracts over other primitives.
* Rendering (`tui/view.go`), formatting (`output`, `version`) and the static
  content of agent packs.
* The HTTP client and the commands that call it once and print.
* The canonical encoding and validation of the provenance manifest
  (`manifest/manifest.go`) and the identities of compiled plans: pure functions
  over strings, whose failure modes are in the strings.
* The report of Explain, `RoutePolicy.Demote`, and the caller that would hand
  compiled profiles to the projector: the repository has none, and
  `main.go` gives the canonical workflow an empty transaction input.
* In the compiler, input that is refused before anything is resolved: keys that
  are empty or occur twice, scopes and project identifiers of the wrong form.
  Keys and scopes are values here, each source has its own.
* In `config.toml`, array tables and values of more than one line, which the
  line scanner of `codex_install.go` may take for headers or keys.
* An edit of the install manifest while an install writes.
* Resolution of a path to the identity of a root, file modes, directories
  deeper than one level, and foreign files in directories an apply has created.

## 8. Plan

1. The Windows guards as a second implementation of `ExclusiveStore`.
2. The canonical encoding of the provenance manifest, as far as it can be stated
   without its strings.
