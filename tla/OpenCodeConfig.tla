--------------------------- MODULE OpenCodeConfig ---------------------------
(***************************************************************************)
(* The configuration of OpenCode under a sequence of installs, logins and  *)
(* edits (install/json_merge.go, adapter_opencode.go, opencode_install.go). *)
(* opencode.json belongs to the user and to lore at once: an install reads *)
(* the models of its own agents back from it, renders its part, refuses    *)
(* when somebody else's server stands under its name, drops what older     *)
(* releases wrote and lays the rendered part over the rest.  What can go   *)
(* wrong does so over several rounds.  The file does not change between    *)
(* planning and writing: PlannedInstall is about that.                     *)
(***************************************************************************)
EXTENDS Integers

CONSTANTS Servers, Tokens,  \* servers, and the tokens each has issued
          MaxEdits          \* bound on what the user edits between two successful installs

\* The blocks under mcp.lore: of a remote server at /v1/mcp with a bearer
\* header, or of any other shape; unmarked, or marked as managed by lore-cli or
\* by something else.  The token is one of the server "of".
NoBlock == [shape |-> "none"]
Block == [shape : {"remote", "other"}, mark : {"none", "lore-cli", "else"},
          server : Servers, of : Servers, token : Tokens]

\* The models of a managed agent: none, the pack's default, one that
\* agent-config.json asks for, one the user chose in opencode.json, and an
\* identifier without a provider lore knows.
Models == {"none", "default", "configured", "chosen", "bare"}

\* The list under "plugins": absent, strings, or objects, one of which may be
\* a plugin that older releases of lore registered.
NoList == [form |-> "none", names |-> {}]
Plugins == {"mine", "legacy"}
Lists == {NoList} \cup [form : {"strings", "objects"}, names : SUBSET Plugins]

VARIABLES
    file,      \* opencode.json
    saved,     \* the saved login
    cfg,       \* the model agent-config.json asks for, or "none"
    hosted,    \* the hosted server is among the selected components
    result,    \* of the latest install, "" before it and after an edit
    accepted,  \* the latest install took the block for lore's and left it so
    edits      \* since the latest successful install
vars == << file, saved, cfg, hosted, result, accepted, edits >>

Absent == [exists |-> FALSE, block |-> NoBlock, context7 |-> "none", model |-> "none",
           plugin |-> {}, plugins |-> NoList, stale |-> FALSE,
           path |-> "none", hasPaths |-> FALSE, paths |-> {}]
Files == [exists : BOOLEAN, block : {NoBlock} \cup Block,
          context7 : {"none", "ours", "disabled", "foreign"}, model : Models,
          plugin : SUBSET Plugins, plugins : Lists, stale : BOOLEAN,
          path : {"none", "mine"}, hasPaths : BOOLEAN, paths : SUBSET {"lore", "own"}]

Init ==
    /\ file = Absent
    /\ saved \in [server : Servers, token : Tokens]
    /\ cfg = "none" /\ hosted \in BOOLEAN
    /\ result = "" /\ accepted = FALSE /\ edits = 0

-----------------------------------------------------------------------------
(* opencodeMCPLoreOwnership.  Without a rendered server any address is       *)
(* lore's.                                                                   *)
Native(block) ==
    block.shape = "remote" /\ (hosted => block.server = saved.server)
Owned(block) ==
    \/ block.shape = "none"
    \/ block.mark = "lore-cli"
    \/ block.mark = "none" /\ Native(block)

(* inspectOpenCodeMCPConfigOwnership: a foreign server under one of lore's   *)
(* two names, whether or not lore is going to render it.                     *)
Conflict == file.exists /\ (~Owned(file.block) \/ file.context7 = "foreign")

(* migrateOpenCodeLegacyStaleShape, mcp.lore: the marker is dropped.         *)
Unmarked(block) == IF block.shape = "none" THEN block ELSE [block EXCEPT !.mark = "none"]

RenderedBlock == [shape |-> "remote", mark |-> "none", server |-> saved.server,
                  of |-> saved.server, token |-> saved.token]

(* Seeded fault (TokenStaysHome): the headers of the old block are kept.     *)
MergedBlockWithHeaders(block) ==
    IF block.shape # "none" /\ Native(Unmarked(block)) THEN Unmarked(block)
    ELSE IF ~hosted THEN Unmarked(block)
    ELSE IF block.shape = "none" THEN RenderedBlock
         ELSE [RenderedBlock EXCEPT !.of = block.of, !.token = block.token]

(* mergeOpenCodeConfigJSON: a native block of the same server is put back as *)
(* it was, another one is overlaid.                                          *)
MergedBlock(block) ==
    IF block.shape # "none" /\ Native(Unmarked(block)) THEN Unmarked(block)
    ELSE IF hosted THEN RenderedBlock
    ELSE Unmarked(block)

(* openCodeAgentModels: what the configuration asks for, else the default.   *)
Configured == IF cfg = "none" THEN "default" ELSE cfg

(* effectiveOpenCodeExistingAgent and opencodeAgentOverlay: the model the    *)
(* file has wins when it names a provider; then the managed entries are      *)
(* replaced.                                                                 *)
Model == IF file.exists /\ file.model \notin {"none", "bare"} THEN file.model ELSE Configured

(* filterOpenCodePluginReferences: the plural list is converted when the     *)
(* filter changes anything in it, that is for objects and for plugins lore   *)
(* registered.                                                               *)
Changed(list) == list.names # {} /\ (list.form = "objects" \/ "legacy" \in list.names)
Plugin ==
    (file.plugin \cup IF Changed(file.plugins) THEN file.plugins.names ELSE {}) \ {"legacy"}
PluginsLeft == IF Changed(file.plugins) THEN NoList ELSE file.plugins

(* migrateOpenCodeLegacyStaleShape and preserveOpenCodeSkillsPaths.          *)
OldPaths ==
    IF file.hasPaths THEN file.paths ELSE IF file.path = "mine" THEN {"own"} ELSE {}

Desired ==
    [exists |-> TRUE,
     block |-> IF file.exists THEN MergedBlock(file.block)
               ELSE IF hosted THEN RenderedBlock ELSE NoBlock,
     context7 |-> IF hosted THEN "ours" ELSE file.context7,
     model |-> Model,
     plugin |-> Plugin, plugins |-> PluginsLeft, stale |-> FALSE,
     path |-> "none", hasPaths |-> TRUE, paths |-> OldPaths \cup {"lore"}]

(* validateOpenCodeStartupSafeConfig of what was merged. *)
StartupSafe(f) == f.plugins = NoList

(* PlanOpenCodeInstall and ExecuteOpenCodeInstall. *)
Install ==
    /\ IF Conflict THEN
          /\ result' = "conflict"
          /\ UNCHANGED << file, accepted >>
       ELSE IF ~StartupSafe(Desired) THEN
          /\ result' = "refused"
          /\ UNCHANGED << file, accepted >>
       ELSE
          /\ result' = "ok"
          /\ file' = Desired
          /\ accepted' = TRUE
    /\ edits' = IF result' = "ok" THEN 0 ELSE edits
    /\ UNCHANGED << saved, cfg, hosted >>

-----------------------------------------------------------------------------
(* The user edits one part of the file. *)
Edited(f) ==
    /\ edits < MaxEdits /\ f # file
    /\ file' = [f EXCEPT !.exists = TRUE]
    /\ edits' = edits + 1 /\ result' = ""
    /\ accepted' = (accepted /\ f.block = file.block)
    /\ UNCHANGED << saved, cfg, hosted >>
EditServers ==
    \/ \E b \in {NoBlock} \cup {own \in Block : own.server = own.of} :
          Edited([file EXCEPT !.block = b])
    \/ \E c \in {"none", "disabled", "foreign"} : Edited([file EXCEPT !.context7 = c])
EditAgent == \E m \in {"none", "chosen", "bare"} : Edited([file EXCEPT !.model = m])
EditPlugins ==
    \/ \E n \in SUBSET Plugins : Edited([file EXCEPT !.plugin = n])
    \/ \E l \in Lists : Edited([file EXCEPT !.plugins = l])
EditSkills ==
    \/ Edited([file EXCEPT !.path = "mine"])
    \/ \E p \in SUBSET {"lore"} : Edited([file EXCEPT !.hasPaths = TRUE, !.paths = p])
    \/ Edited([file EXCEPT !.hasPaths = TRUE, !.paths = @ \cup {"own"}])

(* A file of an older release has a block of its own at the top. *)
OldRelease == Edited([file EXCEPT !.stale = TRUE])

(* The user removes what an install was refused for, as its error tells.     *)
Resolve ==
    /\ \/ result = "conflict" /\ file' = [file EXCEPT !.block = NoBlock, !.context7 = "none"]
       \/ result = "refused" /\ file' = [file EXCEPT !.plugins = NoList]
    /\ result' = "" /\ accepted' = FALSE
    /\ UNCHANGED << saved, cfg, hosted, edits >>

(* The user logs in, configures the agents, or selects other components. *)
Login ==
    /\ saved' \in [server : Servers, token : Tokens] \ {saved} /\ result' = ""
    /\ UNCHANGED << file, cfg, hosted, accepted, edits >>
Configure ==
    /\ cfg' \in {"none", "configured"} \ {cfg} /\ result' = ""
    /\ UNCHANGED << file, saved, hosted, accepted, edits >>
Select ==
    /\ hosted' = ~hosted /\ result' = ""
    /\ UNCHANGED << file, saved, cfg, accepted, edits >>

Next ==
    \/ Install \/ EditServers \/ EditAgent \/ EditPlugins \/ EditSkills \/ OldRelease
    \/ Resolve \/ Login \/ Configure \/ Select
Spec == Init /\ [][Next]_vars

-----------------------------------------------------------------------------
(* The type of the state; an installed file has none of the shapes that keep *)
(* OpenCode from starting.                                                   *)
TypeOK ==
    /\ file \in Files /\ saved \in [server : Servers, token : Tokens]
    /\ cfg \in {"none", "configured"} /\ hosted \in BOOLEAN /\ accepted \in BOOLEAN
    /\ result \in {"", "ok", "conflict", "refused"} /\ edits \in 0..MaxEdits
    /\ result = "ok" => ~file.stale /\ file.path = "none" /\ file.model \notin {"none", "bare"}

(* A token never stands beside the address of a server that did not issue    *)
(* it, whichever logins and blocks came before (mergeOpenCodeConfigJSON).    *)
TokenStaysHome == file.block.shape = "remote" => file.block.of = file.block.server

(* An install after a successful one, with nothing edited, configured or     *)
(* selected in between, leaves the file as it is: what is read back from it  *)
(* renders to it again (effectiveOpenCodeExistingAgent, the merge).          *)
SecondInstallChangesNothing == [][(result = "ok" /\ Install) => file' = file]_vars

(* A model the user chose for a managed agent stays until the user changes   *)
(* it, whatever is installed, configured and repaired meanwhile              *)
(* (openCodeAgentModelsFromExisting).                                        *)
ChoiceSurvives == [][(file.model = "chosen" /\ file'.model # "chosen") => EditAgent]_vars

(* A plugin of the user is still registered after an install, under either   *)
(* of the two keys (mergeOpenCodePluginStrings).                             *)
Registered(f) == f.plugin \cup f.plugins.names
PluginsKept == [][("mine" \in Registered(file) /\ Install) => "mine" \in Registered(file)']_vars

-----------------------------------------------------------------------------
(* The README says the saved token is persisted under mcp.lore when the      *)
(* hosted server is selected.  A token of an earlier login to the same       *)
(* server stays (nativeOpenCodeLoreMCPForPreservation).                      *)
TokenIsSaved ==
    (result = "ok" /\ hosted) => file.block.token = saved.token

(* The comment on the rendered block says a remote block at /v1/mcp with an  *)
(* Authorization header is recognised as lore's.  The one lore wrote itself  *)
(* is refused after a login to another server (opencodeMCPLoreOwnership).    *)
OwnBlockIsOwned == (accepted /\ result = "conflict") => file.context7 = "foreign"

(* The comment on the merge says that it is idempotent.  It accepts a block  *)
(* for the marker, drops the marker, and refuses the block the next time     *)
(* (migrateOpenCodeLegacyStaleShape, opencodeMCPLoreOwnership).              *)
SecondInstallSucceeds == [][(Install /\ result = "ok") => result' = "ok"]_vars

(* The comment on the agents says the models come from agent-config.json     *)
(* when it has them.  After the first install the file's own models win,     *)
(* which nobody chose (opencodeAgentOverlay).                                *)
ConfigurationReaches ==
    (result = "ok" /\ cfg = "configured") => file.model \in {"configured", "chosen"}

(* The comment on the migration says plugin identifiers of the user are      *)
(* converted to the singular shape.  Plain strings under "plugins" are not,  *)
(* and the install is refused (filterOpenCodePluginReferences).              *)
PluralIsConverted == result # "refused"

(* The comment on the migration says the user loses no key of his own.  The  *)
(* old skills path is deleted when there is a list of paths beside it        *)
(* (migrateOpenCodeLegacyStaleShape).                                        *)
SkillsKept ==
    [][(Install /\ result' = "ok" /\ file.path = "mine") => "own" \in file'.paths]_vars
=============================================================================
