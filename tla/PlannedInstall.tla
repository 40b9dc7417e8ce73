-------------------------- MODULE PlannedInstall --------------------------
(***************************************************************************)
(* The legacy installers of Codex, OpenCode and Antigravity                *)
(* (install/codex_install.go, opencode_install.go, antigravity_install.go, *)
(* run by cli/actions.go).  They have one shape: plan, stop there for a    *)
(* dry run, plan again, write the rendered files one after the other, each *)
(* backed up under a root named after the second of the plan, delete what  *)
(* an older release left, and write the manifest last.  They differ in     *)
(* what they do about a file that fails, about their agent configuration   *)
(* and about how they know a leftover is theirs.  There is no lock and no  *)
(* journal: installs overlap, die, and meet the user's edits.              *)
(***************************************************************************)
EXTENDS Integers, FiniteSets

CONSTANTS
    Targets,     \* subset of {"codex", "opencode", "antigravity"}
    Merged,      \* rendered files that are merged with what the user has
    Replaced,    \* rendered files that are replaced
    Optional,    \* the files of components that can be deselected
    Legacy,      \* the path an older release wrote and this one deletes
    Installers,  \* processes that may install at a time
    MaxRuns, MaxEdits, MaxFaults,   \* bounds: installs, edits, failed steps
    CanDie,      \* an installer may die
    Races        \* the user may edit while an install is writing

Files == Merged \cup Replaced
Paths == Files \cup {Legacy}

PathsAreApart ==
    /\ Merged \cap Replaced = {} /\ Legacy \notin Files /\ Optional \subseteq Files
    /\ "" \notin Paths

(* The MCP servers that lore configures in a merged file. *)
Names == {"lore", "context7"}

(* A content says which text of the user is in it (0: none), which release   *)
(* of lore wrote into it, and which entries of the user's own it holds under *)
(* the names of lore's servers.  What lore writes into Codex's config.toml   *)
(* stands between its markers.                                               *)
Content == [user : 0..MaxEdits, lore : {"", "old", "new"}, foreign : SUBSET Names]
Absent == [user |-> 0, lore |-> "", foreign |-> {}]
Manifest == [state : {"none", "read", "broken"}, listed : SUBSET Paths]
NoManifest == [state |-> "none", listed |-> {}]

VARIABLES
    target,     \* the target of these installs
    files,      \* the content of every path
    manifest,   \* lore-install.json
    agentcfg,   \* does agent-config.json exist
    backups,    \* the backup roots, one per second
    run,        \* of each installer, the install it is doing or did last
    clock, runs, edits, faults,
    owed        \* the files that an install took something of the user's out of
vars == << target, files, manifest, agentcfg, backups, run, clock, runs, edits, faults, owed >>

NoActions == [q \in Paths |-> "none"]
NoRun == [stage |-> "idle", stamp |-> 1, rendered |-> Files, action |-> NoActions,
          desired |-> [q \in Paths |-> Absent], todo |-> {}, held |-> "",
          found |-> FALSE, failed |-> {}, dirty |-> FALSE, out |-> ""]

-----------------------------------------------------------------------------
(* NormalizeComponentSelection: what the request selects, and the core pack  *)
(* whether it selects it or not; every component brings its files, and       *)
(* opencode.json is rendered whatever is selected.                           *)
Selections ==
    {Files \ dropped : dropped \in SUBSET (IF target = "opencode" THEN Optional \ Merged ELSE Optional)}

(* Seeded fault (OwnershipKept): whoever wrote config.toml, lore owns it. *)
CodexOwnsConfigAlways(q) == TRUE

(* isCodexConfigTomlManaged: lore's block is in the file or the manifest     *)
(* lists it.                                                                 *)
CodexOwnsConfig(q) == files[q].lore # "" \/ q \in manifest.listed

(* mergeCodexMCPConfig: a lore table in a file that is not lore's.           *)
CodexRefuses(q) == "lore" \in files[q].foreign /\ ~CodexOwnsConfig(q)

(* inspectOpenCodeMCPConfigOwnership: either name.                           *)
OpenCodeRefuses(q) == files[q].foreign # {}

(* validateAntigravityContext7Ownership: context7, and not lore.             *)
AntigravityRefuses(q) == "context7" \in files[q].foreign

(* An entry of the user's own that the merge is not to take over. *)
Refused(q) ==
    \/ target = "codex" /\ CodexRefuses(q)
    \/ target = "opencode" /\ OpenCodeRefuses(q)
    \/ target = "antigravity" /\ AntigravityRefuses(q)

(* stripLegacyCodexLoreMCPBlock: the lore tables of a file that is lore's,   *)
(* but without its block, count as an older release's; others stay beside    *)
(* the block.                                                                *)
CodexTakesOver(q) == IF files[q].lore = "" /\ CodexOwnsConfig(q) THEN {"lore"} ELSE {}

(* The entries lore's are put in the place of: of one name there is only one *)
(* in a JSON document.                                                       *)
TakenOver(q) == IF target = "codex" THEN CodexTakesOver(q) ELSE Names

(* mergeCodexConfigToml, mergeOpenCodeConfigJSON and mergeAntigravityMCPConfig *)
(* keep the user's text; other files are rendered as they are.               *)
Desired(q) ==
    [user |-> IF q \in Merged THEN files[q].user ELSE 0, lore |-> "new",
     foreign |-> IF q \in Merged THEN files[q].foreign \ TakenOver(q) ELSE {}]

(* planCodexRenderedFileAction, planOpenCodeRenderedFileAction and            *)
(* planAntigravityRenderedFileAction                                         *)
ActionFor(q) ==
    IF files[q] = Desired(q) THEN "unchanged"
    ELSE IF files[q] = Absent THEN "create" ELSE "update"

(* planCodexLegacyPromptCleanup: the manifest lists the old prompt or its    *)
(* text carries lore's markers (isCodexLegacyPromptManaged).                 *)
CodexOwnsLegacy == Legacy \in manifest.listed \/ files[Legacy].lore # ""

(* planOpenCodeStaleManagedPluginCleanup: only the manifest counts.          *)
OpenCodeOwnsLegacy == Legacy \in manifest.listed

(* Antigravity has nothing to clean up.                                      *)
OwnsLegacy ==
    /\ files[Legacy] # Absent
    /\ \/ target = "codex" /\ CodexOwnsLegacy
       \/ target = "opencode" /\ OpenCodeOwnsLegacy

(* A file that cannot be merged ends the plan. *)
Conflicts(rendered) == \E q \in Merged \cap rendered : Refused(q)

(* What the plan of an install says of every path. *)
PlanOf(rendered) ==
    [q \in Paths |-> IF q \in rendered THEN ActionFor(q)
                     ELSE IF q = Legacy /\ OwnsLegacy THEN "delete" ELSE "none"]

(* Only the OpenCode planner cannot do without reading an existing manifest. *)
Unplannable == target = "opencode" /\ manifest.state = "broken"

End(i, out) == run' = [run EXCEPT ![i].stage = "idle", ![i].todo = {}, ![i].held = "", ![i].out = out]

(* The exit code of install<Target>ActionWithOptions.                        *)
ExitCode(i) == IF run[i].out \in {"ok", "dry"} THEN 0 ELSE 1

(* install<Target>ActionWithOptions up to its plan, the backup root of which *)
(* is named after the second it is made in.  A dry run ends here.            *)
Begin(i) ==
    /\ run[i].stage = "idle"
    /\ runs < MaxRuns
    /\ runs' = runs + 1
    /\ clock' \in IF \E j \in Installers : run[j].stage # "idle" THEN {clock, clock + 1} ELSE {clock + 1}
    /\ \E rendered \in Selections, dry \in BOOLEAN :
           run' = [run EXCEPT ![i] = [NoRun EXCEPT
                      !.stamp = clock', !.rendered = rendered,
                      !.stage = IF Conflicts(rendered) \/ Unplannable \/ dry THEN "idle" ELSE "planned",
                      !.out = IF Conflicts(rendered) THEN "conflict" ELSE IF Unplannable THEN "error"
                              ELSE IF dry THEN "dry" ELSE ""]]
    /\ UNCHANGED << target, files, manifest, backups, edits, faults, owed >>

(* Store.EnsureDefault writes the default agent configuration once.          *)
EnsureDefault == agentcfg' = TRUE

PlanCodex(i) == target = "codex" /\ Begin(i) /\ EnsureDefault

(* PlanOpenCodeInstall only loads it.                                        *)
PlanOpenCode(i) == target = "opencode" /\ Begin(i) /\ UNCHANGED agentcfg

(* PlanAntigravityInstall has none.                                          *)
PlanAntigravity(i) == target = "antigravity" /\ Begin(i) /\ UNCHANGED agentcfg

(* The first half of Execute<Target>Install: everything is planned again;    *)
(* the plan the caller holds is not looked at, and the check of the plan     *)
(* compares the second one with itself.                                      *)
Replan(i) ==
    /\ run[i].stage = "planned"
    /\ IF Conflicts(run[i].rendered) THEN End(i, "conflict")
       ELSE IF Unplannable THEN End(i, "error")
       ELSE LET plan == PlanOf(run[i].rendered) IN
            run' = [run EXCEPT ![i].stage = "writing", ![i].action = plan,
                       ![i].desired = [q \in Paths |-> IF q = Legacy THEN Absent ELSE Desired(q)],
                       ![i].todo = {q \in Paths : plan[q] \notin {"none", "unchanged"}},
                       ![i].found = manifest.state # "none"]
    /\ UNCHANGED << target, files, manifest, backups, clock, runs, edits, faults, owed >>

(* Only OpenCode writes its agent configuration here.                        *)
Execute(i) ==
    /\ Replan(i)
    /\ IF target = "opencode" THEN EnsureDefault ELSE UNCHANGED agentcfg

(* The rendered files are done in a fixed order, the leftover after them.    *)
Upcoming(i) ==
    IF run[i].todo \cap Files # {} THEN CHOOSE q \in run[i].todo \cap Files : TRUE ELSE Legacy

Writing(i) == run[i].stage = "writing" /\ run[i].todo # {}

(* Seeded fault (TypeOK): a step that failed stays held. *)
MissedByOthersHolding(i, q) ==
    /\ target # "codex"
    /\ run' = [run EXCEPT ![i].todo = @ \ {q}, ![i].failed = @ \cup {q}]

(* ExecuteCodexInstall ends at the first file that cannot be done.           *)
MissedByCodex(i) == target = "codex" /\ End(i, "error")

(* The other two note it, and go on.                                         *)
MissedByOthers(i, q) ==
    /\ target # "codex"
    /\ run' = [run EXCEPT ![i].todo = @ \ {q}, ![i].held = "", ![i].failed = @ \cup {q}]

Missed(i, q) == MissedByCodex(i) \/ MissedByOthers(i, q)

BackUp(i, q) == backups' = [backups EXCEPT ![run[i].stamp][q] = files[q]]

(* applyOpenCodePlannedDelete does not mind that the file is gone.           *)
Vanished(i, q) ==
    IF run[i].action[q] = "delete" /\ target = "opencode"
    THEN run' = [run EXCEPT ![i].todo = @ \ {q}] ELSE Missed(i, q)

(* apply<Target>PlannedContent: an update and a deletion read the file again *)
(* and back it up; a creation looks at nothing.                              *)
Look(i) ==
    LET q == Upcoming(i) IN
    /\ Writing(i) /\ run[i].held = ""
    /\ IF run[i].action[q] # "create" /\ files[q] = Absent
       THEN Vanished(i, q) /\ UNCHANGED backups
       ELSE /\ run' = [run EXCEPT ![i].held = q]
            /\ IF run[i].action[q] = "create" THEN UNCHANGED backups ELSE BackUp(i, q)
    /\ UNCHANGED << target, files, manifest, agentcfg, clock, runs, edits, faults, owed >>

(* Something of the user's is in the file and not in the content. *)
TakesOut(q, c) == files[q].user \notin {0, c.user} \/ ~(files[q].foreign \subseteq c.foreign)

(* writeFileAtomic renames over the path, os.Remove removes it.              *)
Replace(q, c) ==
    /\ files' = [files EXCEPT ![q] = c]
    /\ owed' = IF TakesOut(q, c) THEN owed \cup {<< q, files[q] >>} ELSE owed

Put(i) ==
    LET q == Upcoming(i) IN
    /\ Writing(i) /\ run[i].held = q
    /\ Replace(q, run[i].desired[q])
    /\ run' = [run EXCEPT ![i].todo = @ \ {q}, ![i].held = ""]
    /\ UNCHANGED << target, manifest, agentcfg, backups, clock, runs, edits, faults >>

(* A directory cannot be made, a file not read, written or removed.          *)
Fail(i) ==
    /\ faults < MaxFaults
    /\ faults' = faults + 1
    /\ \/ Writing(i) /\ Missed(i, Upcoming(i))
       \/ run[i].stage = "writing" /\ run[i].todo = {} /\ End(i, "error")
    /\ UNCHANGED << target, files, manifest, agentcfg, backups, clock, runs, edits, owed >>

(* buildOpenCodeManifest and its like: the manifest lists what was rendered, *)
(* done or not.                                                              *)
Listing(i) == [state |-> "read", listed |-> run[i].rendered]

(* The manifest's own update reads the old one first.                        *)
ManifestUnreadable(i) == run[i].found /\ manifest.state = "none"

(* writeFileAtomic sets the mode of what it has renamed into place, a file    *)
(* or the manifest, and fails.                                               *)
FailLate(i) ==
    LET q == Upcoming(i) IN
    /\ faults < MaxFaults
    /\ faults' = faults + 1
    /\ \/ /\ Writing(i) /\ run[i].held = q /\ q # Legacy
          /\ Replace(q, run[i].desired[q]) /\ Missed(i, q) /\ UNCHANGED manifest
       \/ /\ run[i].stage = "writing" /\ run[i].todo = {} /\ ~ManifestUnreadable(i)
          /\ manifest' = Listing(i) /\ End(i, "error") /\ UNCHANGED << files, owed >>
    /\ UNCHANGED << target, agentcfg, backups, clock, runs, edits >>

(* The end of Execute<Target>Install.                                        *)
WriteManifest(i) ==
    /\ run[i].stage = "writing" /\ run[i].todo = {}
    /\ IF ManifestUnreadable(i)
       THEN End(i, "error") /\ UNCHANGED manifest
       ELSE manifest' = Listing(i) /\ End(i, IF run[i].failed = {} THEN "ok" ELSE "failed")
    /\ UNCHANGED << target, files, agentcfg, backups, clock, runs, edits, faults, owed >>

Die(i) ==
    /\ CanDie
    /\ run[i].stage # "idle"
    /\ End(i, "dead")
    /\ UNCHANGED << target, files, manifest, agentcfg, backups, clock, runs, edits, faults, owed >>

(* An edit before the second plan is seen by it. *)
Dirtied == [i \in Installers |-> [run[i] EXCEPT !.dirty = @ \/ run[i].stage # "planned"]]

(* The user saves a text of their own, with or without what is there and     *)
(* with any entries of their own, deletes a file, or damages or removes the  *)
(* manifest.                                                                 *)
Edit ==
    /\ edits < MaxEdits
    /\ Races \/ \A i \in Installers : run[i].stage \in {"idle", "planned"}
    /\ edits' = edits + 1
    /\ run' = Dirtied
    /\ \/ /\ \E q \in Paths, c \in {Absent} \cup [user : {edits + 1}, lore : {"", "old", "new"}, foreign : SUBSET Names] :
                 /\ c.foreign # {} => q \in Merged
                 /\ c.lore \in {"", files[q].lore}
                 /\ c # files[q]
                 /\ files' = [files EXCEPT ![q] = c]
          /\ UNCHANGED manifest
       \/ /\ \E s \in {"none", "broken"} : manifest.state # s /\ manifest' = [state |-> s, listed |-> {}]
          /\ UNCHANGED files
    /\ UNCHANGED << target, agentcfg, backups, clock, runs, faults, owed >>

(* Before the first install: nothing, or what an older release installed.    *)
Init ==
    /\ target \in Targets
    /\ \/ files = [q \in Paths |-> Absent] /\ manifest = NoManifest
       \/ /\ files = [q \in Paths |-> [Absent EXCEPT !.lore = "old"]]
          /\ manifest = [state |-> "read", listed |-> Paths]
    /\ agentcfg = FALSE
    /\ backups = [s \in 1..MaxRuns |-> [q \in Paths |-> Absent]]
    /\ run = [i \in Installers |-> NoRun]
    /\ clock = 0 /\ runs = 0 /\ edits = 0 /\ faults = 0
    /\ owed = {}

Next ==
    \/ \E i \in Installers :
          \/ PlanCodex(i) \/ PlanOpenCode(i) \/ PlanAntigravity(i)
          \/ Execute(i) \/ Look(i) \/ Put(i) \/ Fail(i) \/ FailLate(i) \/ WriteManifest(i) \/ Die(i)
    \/ Edit

Spec == Init /\ [][Next]_vars

-----------------------------------------------------------------------------
(* Every variable holds a value of its kind, and a file is held only by an   *)
(* install that still has it to do.                                          *)
TypeOK ==
    /\ target \in Targets
    /\ files \in [Paths -> Content]
    /\ manifest \in Manifest /\ (manifest.state # "read" => manifest.listed = {})
    /\ agentcfg \in BOOLEAN
    /\ \A i \in Installers :
          /\ run[i].todo \subseteq Paths
          /\ run[i].held = "" \/ run[i].held \in run[i].todo
          /\ run[i].stage \in {"idle", "planned"} => run[i].todo = {}

(* README: "with backup-before-overwrite semantics".  A file that an install *)
(* took a text or an entry of the user's out of is in a backup as it was,    *)
(* whatever failed or died since.                                            *)
NothingLost ==
    \A o \in owed : \E s \in 1..MaxRuns : backups[s][o[1]] = o[2]

(* An install that says ok, while nobody else touched the files, has left    *)
(* this release in every file of the selected components, has listed them    *)
(* all, and has taken away the leftover it owned.                            *)
OkIsInstalled ==
    \A i \in Installers :
        (run[i].stage = "idle" /\ ExitCode(i) = 0 /\ run[i].out = "ok" /\ ~run[i].dirty) =>
            /\ \A q \in run[i].rendered : files[q].lore = "new"
            /\ manifest = [state |-> "read", listed |-> run[i].rendered]
            /\ run[i].action[Legacy] = "delete" => files[Legacy] = Absent

(* What the code protects of the entries the user has under lore's names:    *)
(* all in opencode.json, context7 everywhere, and a lore table in config.toml *)
(* beside lore's block or as long as no manifest lists the file.             *)
Guarded(q) ==
    {e \in files[q].foreign :
        \/ target = "opencode" \/ e = "context7"
        \/ target = "codex" /\ (files[q].lore # "" \/ q \notin manifest.listed)}

(* No install takes a guarded entry out of its file: it refuses the file or  *)
(* leaves the entry where it is.                                             *)
ForeignKept ==
    edits' = edits => \A q \in Merged : Guarded(q) \subseteq files'[q].foreign

(* "Foreign content MUST NOT be silently overwritten": no entry of the       *)
(* user's is taken out at all.                                               *)
ForeignEntriesStay ==
    [][edits' = edits => \A q \in Merged : files[q].foreign \subseteq files'[q].foreign]_vars

(* "foreign plugin content untouched": a file at the old path that is the    *)
(* user's own, not listed and not marked, is never deleted.                  *)
UserLegacyKept ==
    (edits' = edits /\ files[Legacy].lore = "" /\ Legacy \notin manifest.listed)
        => files'[Legacy] = files[Legacy]

(* Codex stops at the first file that fails, so that its manifest changes    *)
(* only when every file it lists has been written; a leftover it still owns  *)
(* by the manifest is found again by the rerun.                              *)
CodexManifestIsLast ==
    (target = "codex" /\ manifest' # manifest /\ edits' = edits)
        => \A q \in manifest'.listed : files[q].lore = "new" \/ \E i \in Installers : run[i].dirty

(* components.go: "prior Lore-managed copies are backup-deleted": once an    *)
(* install of OpenCode has said ok and nobody else touched the files, no     *)
(* copy of an older release is left.                                         *)
LeftoversAreDeleted ==
    \A i \in Installers :
        (target = "opencode" /\ run[i].stage = "idle" /\ run[i].out = "ok" /\ edits = 0)
            => files[Legacy] = Absent

(* "The backup is always written before the action is recorded": after a     *)
(* conflict, the backup path it names holds the file.                        *)
ConflictIsBackedUp ==
    \A i \in Installers :
        run[i].out = "conflict" => \E q \in Merged : backups[run[i].stamp][q] # Absent

(* "A missing or unreadable previous manifest is the fresh-install path":    *)
(* without a failure of the file system no install ends in an error.         *)
UnreadableIsFresh ==
    \A i \in Installers : (run[i].out = "error" /\ faults = 0) => run[i].dirty

(* "Dry run should not create files".                                        *)
DryRunIsReadOnly ==
    [][(\E i \in Installers : run[i].out # "dry" /\ run'[i].out = "dry")
        => agentcfg' = agentcfg /\ files' = files /\ manifest' = manifest]_vars
=============================================================================
