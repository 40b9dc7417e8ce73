---------------------------- MODULE CodexConfig ----------------------------
(***************************************************************************)
(* ~/.codex/config.toml, the one file of the Codex target that the user    *)
(* and lore both write.  A document is a sequence of lines as the scanner  *)
(* of codex_install.go classifies them: a table header, an assignment or   *)
(* one of the two marker comments that enclose the managed block.  Blank   *)
(* lines and other comments are left out: no decision depends on them.     *)
(* Array tables and values of more than one line are left out too: the     *)
(* scanner takes the first for tables, and a line of the second for what   *)
(* it looks like, and nothing here says what becomes of such a document.   *)
(* The user edits the document between installs; each install merges.      *)
(***************************************************************************)
EXTENDS Integers, Sequences, FiniteSets

CONSTANTS
    Servers,    \* the server URLs a login can have
    Words,      \* what can name or give a value
    Sections,   \* what a user's document is built of: short line sequences
    Edits       \* bound on the number of edits of the user

Table(t) == [kind |-> "head", name |-> t, value |-> ""]
Key(k, v) == [kind |-> "key", name |-> k, value |-> v]
Start == [kind |-> "start", name |-> "", value |-> ""]
End == [kind |-> "end", name |-> "", value |-> ""]

Line == {l \in [kind : {"head", "key", "start", "end"}, name : Words, value : Words] :
            /\ l.kind # "key" => l.value = ""
            /\ l.kind \in {"start", "end"} => l.name = ""}

ASSUME DocumentsAreLines ==
    /\ Servers \subseteq Words /\ Sections \subseteq Seq(Line) /\ Edits \in Nat
    /\ {"", "lore", "url", "context7", "hosted", "features", "multi_agent", "true",
        "agents", "max_threads", "4", "max_depth", "2", "mine"} \subseteq Words

IsHead(l) == l.kind = "head"
IsKey(l) == l.kind = "key"

(* No table begins on the lines from i to j. *)
Plain(c, i, j) == \A k \in i .. j : ~IsHead(c[k])

(* Line i stands in a table t, its header included, or above all tables. *)
InTable(c, i, t) == \E h \in 1 .. i : c[h] = Table(t) /\ Plain(c, h + 1, i)
AtTop(c, i) == Plain(c, 1, i)

(* The lines of c at the positions I, in their order. *)
Pick(c, I) ==
    [k \in 1 .. Cardinality(I) |-> c[CHOOSE i \in I : Cardinality({j \in I : j <= i}) = k]]

Has(c, l) == \E i \in DOMAIN c : c[i] = l

(* Where line l stands first; 0 if it does not. *)
First(c, l) ==
    IF Has(c, l) THEN CHOOSE i \in DOMAIN c : c[i] = l /\ \A k \in 1 .. i - 1 : c[k] # l
    ELSE 0

(* The last table t begins at line h and ends before line e. *)
LastTable(c, t, h, e) ==
    /\ c[h] = Table(t) /\ \A k \in h + 1 .. Len(c) : c[k] # Table(t)
    /\ Plain(c, h + 1, e - 1) /\ (e \in DOMAIN c => IsHead(c[e]))

(* New lines before line e. *)
Insert(c, e, new) == SubSeq(c, 1, e - 1) \o new \o SubSeq(c, e, Len(c))

Refused == << [kind |-> "refused", name |-> "", value |-> ""] >>

-----------------------------------------------------------------------------
(* renderCodexMCPConfig: lore's own tables between the two markers.  The    *)
(* header, approval and URL tables of lore count as its one table "lore".   *)
Managed(s) == << Start, Table("lore"), Key("url", s),
                 Table("context7"), Key("url", "hosted"), End >>

HasBlock(c) == Has(c, Start) \/ Has(c, End)

HasLoreTable(c) == Has(c, Table("lore"))

(* isCodexConfigTomlManaged: both markers, or a manifest that lists the file. *)
Owned(c, listed) == (Has(c, Start) /\ Has(c, End)) \/ listed

(* stripLegacyCodexLoreMCPBlock: a table of lore from before the markers. *)
StripLore(c) == Pick(c, {i \in DOMAIN c : ~InTable(c, i, "lore")})

(* isObsoleteCodexLoreMCPEnvTable: it holds keys, and only keys lore wrote. *)
ObsoleteEnv(c, h) ==
    LET keys == {i \in h + 1 .. Len(c) : IsKey(c[i]) /\ Plain(c, h + 1, i)}
    IN keys # {} /\ \A i \in keys : c[i].name = "LORE_MCP_URL"

(* stripObsoleteCodexLoreMCPEnvTables *)
StripEnv(c) ==
    IF \E h \in DOMAIN c : c[h] = Table("env") /\ ~ObsoleteEnv(c, h) THEN Refused
    ELSE Pick(c, {i \in DOMAIN c : ~InTable(c, i, "env")})

(* Seeded fault (StaysParseable): a legacy table of lore is left beside the block. *)
MergeBlockKeepingLegacy(c, owned, s) ==
    IF HasBlock(c)
    THEN LET a == First(c, Start)  b == First(c, End)
         IN IF a = 0 \/ b < a THEN Refused
            ELSE SubSeq(c, 1, a - 1) \o Managed(s) \o SubSeq(c, b + 1, Len(c))
    ELSE IF HasLoreTable(c) /\ ~owned THEN Refused ELSE c \o Managed(s)

(* mergeCodexMCPConfig: the block is replaced where it stands, or appended; *)
(* half a block, a lore table nobody recorded and env keys lore never wrote *)
(* refuse the install.                                                      *)
MergeBlock(c, owned, s) ==
    IF HasBlock(c)
    THEN LET a == First(c, Start)
             b == First(c, End)
             prefix == StripEnv(SubSeq(c, 1, a - 1))
             suffix == StripEnv(SubSeq(c, b + 1, Len(c)))
         IN IF a = 0 \/ b < a \/ prefix = Refused \/ suffix = Refused THEN Refused
            ELSE prefix \o Managed(s) \o suffix
    ELSE LET rest == StripEnv(IF owned THEN StripLore(c) ELSE c)
         IN IF (HasLoreTable(c) /\ ~owned) \/ rest = Refused THEN Refused
            ELSE rest \o Managed(s)

-----------------------------------------------------------------------------
(* codexRuntimeTableKeys with the values mergeCodexConfigToml wants. *)
Wanted(t) == IF t = "features" THEN << Key("multi_agent", "true") >>
             ELSE << Key("max_threads", "4"), Key("max_depth", "2") >>

(* Lines i to j of c set what w sets. *)
Sets(c, i, j, w) == \E k \in i .. j : IsKey(c[k]) /\ c[k].name = w.name

(* What table t wants and lines i to j of c do not set. *)
Missing(c, i, j, t) ==
    Pick(Wanted(t), {k \in DOMAIN Wanted(t) : ~Sets(c, i, j, Wanted(t)[k])})

(* The wanted values in place of others on the lines i to j. *)
Forced(c, i, j, t) ==
    [k \in DOMAIN c |->
        IF k \in i .. j /\ IsKey(c[k]) /\ \E n \in DOMAIN Wanted(t) : Wanted(t)[n].name = c[k].name
        THEN Wanted(t)[CHOOSE n \in DOMAIN Wanted(t) : Wanted(t)[n].name = c[k].name]
        ELSE c[k]]

(* mergeCodexRuntimeTable: an assignment to the table's own name refuses;   *)
(* present keys are overwritten when forced, missing ones are added where   *)
(* the table ends, which is before the next header.                         *)
MergeTable(c, t, force) ==
    LET h == CHOOSE h \in DOMAIN c : \E e \in h + 1 .. Len(c) + 1 : LastTable(c, t, h, e)
        e == CHOOSE e \in h + 1 .. Len(c) + 1 : LastTable(c, t, h, e)
    IN IF c = Refused \/ \E i \in DOMAIN c : IsKey(c[i]) /\ c[i].name = t THEN Refused
       ELSE IF ~Has(c, Table(t)) THEN c \o << Table(t) >> \o Wanted(t)
       ELSE Insert(IF force THEN Forced(c, h + 1, e - 1, t) ELSE c, e,
                   Missing(c, h + 1, e - 1, t))

(* mergeCodexConfigToml *)
Merge(c, listed, s) ==
    MergeTable(MergeTable(MergeBlock(c, Owned(c, listed), s), "features", TRUE),
               "agents", FALSE)

-----------------------------------------------------------------------------
VARIABLES
    config,    \* the document
    listed,    \* the manifest of an earlier install lists it
    server,    \* the server of the saved login
    edits,     \* edits of the user so far
    last       \* how the last install ended; "" once something changed since
vars == << config, listed, server, edits, last >>

(* A TOML document defines a table once, a key once in its table, and no     *)
(* table under a name that an assignment uses.                               *)
Parses(c) ==
    /\ \A i, j \in DOMAIN c : i # j /\ IsHead(c[i]) => c[i] # c[j]
    /\ \A i, j \in DOMAIN c :
        i < j /\ IsKey(c[i]) /\ IsKey(c[j]) /\ Plain(c, i, j) => c[i].name # c[j].name
    /\ \A i, j \in DOMAIN c :
        IsKey(c[i]) /\ AtTop(c, i) /\ IsHead(c[j])
            => /\ c[i].name # c[j].name
               /\ ~(c[i].name = "features.multi_agent" /\ c[j].name = "features")

Parts == Sections \cup {<< >>}
Documents == {d \in {p[1] \o p[2] : p \in Parts \X Parts} : Parses(d)}

Init ==
    /\ config \in Documents
    /\ listed \in BOOLEAN
    /\ server \in Servers
    /\ edits = 0
    /\ last = ""

(* Seeded fault (TypeOK): the refusal is written out like a document. *)
InstallUnchecked ==
    /\ config' = Merge(config, listed, server)
    /\ listed' = TRUE
    /\ last' = "ok"
    /\ UNCHANGED << server, edits >>

(* An install plans the merge and, unless it is refused, writes it and lists *)
(* the file in its manifest.                                                 *)
Install ==
    LET merged == Merge(config, listed, server)
    IN IF merged = Refused
       THEN last' = "refused" /\ UNCHANGED << config, listed, server, edits >>
       ELSE config' = merged /\ listed' = TRUE /\ last' = "ok" /\ UNCHANGED << server, edits >>

Edited(c) ==
    /\ edits < Edits
    /\ Parses(c)
    /\ config' = c
    /\ edits' = edits + 1
    /\ last' = ""
    /\ UNCHANGED << listed, server >>

(* The user appends a section, removes a line, or gives a setting a value. *)
AddSection == \E s \in Sections : Edited(config \o s)
Delete == \E i \in DOMAIN config :
    Edited(SubSeq(config, 1, i - 1) \o SubSeq(config, i + 1, Len(config)))
Change == \E i \in DOMAIN config :
    /\ IsKey(config[i])
    /\ config[i].value # "mine"
    /\ Edited([config EXCEPT ![i].value = "mine"])

(* The user logs in to another server, or removes the manifest. *)
Login == \E s \in Servers \ {server} : server' = s /\ last' = "" /\ UNCHANGED << config, listed, edits >>
Forget == listed /\ listed' = FALSE /\ last' = "" /\ UNCHANGED << config, server, edits >>

Next == Install \/ AddSection \/ Delete \/ Change \/ Login \/ Forget

Spec == Init /\ [][Next]_vars

-----------------------------------------------------------------------------
(* A document is a sequence of the lines this module knows. *)
TypeOK ==
    /\ config \in Seq(Line)
    /\ listed \in BOOLEAN /\ server \in Servers /\ edits \in 0..Edits
    /\ last \in {"", "ok", "refused"}

Installs == last' \in {"ok", "refused"} /\ edits' = edits /\ server' = server
Merges == Installs /\ last' = "ok" /\ listed'

(* What a merge has no claim on: lines outside the block and outside lore's  *)
(* own tables, without the one setting it forces.                            *)
InBlock(c, i) == First(c, Start) # 0 /\ First(c, Start) <= i /\ i <= First(c, End)
Foreign(c) == {i \in DOMAIN c :
    ~InBlock(c, i) /\ ~InTable(c, i, "lore") /\ ~InTable(c, i, "env")
        /\ c[i].name # "multi_agent"}

(* README: the Codex install "preserv[es] unrelated TOML".  Whatever the      *)
(* sequence of installs, edits and logins, an install keeps every line of     *)
(* the user, each after those it came after and before those it came before.  *)
UserLinesKept ==
    [][Merges => \A i \in Foreign(config) : \E k \in DOMAIN config' :
        /\ config'[k] = config[i]
        /\ \A j \in Foreign(config) :
             /\ j < i => \E l \in 1 .. k - 1 : config'[l] = config[j]
             /\ j > i => \E l \in k + 1 .. Len(config') : config'[l] = config[j]]_vars

(* Nothing of the user's is in the way of what lore writes: no table or key   *)
(* of its names, no table of lore next to a block, and no key that would      *)
(* come to stand in the last table of the block.                              *)
Separate(c) ==
    \A i \in DOMAIN c : ~InBlock(c, i) =>
        /\ c[i] # Table("context7") /\ ~(HasBlock(c) /\ c[i] = Table("lore"))
        /\ IsKey(c[i]) /\ AtTop(c, i) =>
             c[i].name \notin {"lore", "context7", "features.multi_agent"}
        /\ HasBlock(c) /\ i > First(c, End) /\ IsKey(c[i]) /\ Plain(c, First(c, End) + 1, i) =>
             c[i].name # "url"

(* A document that parses and is separate from the block still parses after   *)
(* an install: the merge defines no table and no key twice.                   *)
StaysParseable ==
    [][(Merges /\ Parses(config) /\ Separate(config)) => Parses(config')]_vars

(* The same for every document that parses: the merge refuses what it cannot  *)
(* combine, as the "fails closed on unsafe runtime tables" test has it.       *)
MergesOnlyWhatItCan == [][(Merges /\ Parses(config)) => Parses(config')]_vars

(* Installing again, with nothing changed in between, changes no line: the    *)
(* three merges agree on one fixed point (no backups pile up on reruns).      *)
SecondInstallChangesNothing == [][(Installs /\ last = "ok") => config' = config]_vars

(* A lore table that neither the markers nor the manifest claim is refused,   *)
(* never overwritten.                                                         *)
ForeignLoreKept ==
    [][(Installs /\ HasLoreTable(config) /\ ~Owned(config, listed))
            => (last' = "refused" /\ config' = config)]_vars

(* After an install the document says what the projection promises: one lore  *)
(* table, for the server of the login, multi_agent on, both limits present.   *)
ValueIn(c, t, k) ==
    {c[i].value : i \in {j \in DOMAIN c : IsKey(c[j]) /\ c[j].name = k /\ InTable(c, j, t)}}
Projected ==
    [][(Merges /\ Parses(config) /\ Separate(config)) =>
        /\ ValueIn(config', "lore", "url") = {server}
        /\ ValueIn(config', "features", "multi_agent") = {"true"}
        /\ ValueIn(config', "agents", "max_threads") # {}
        /\ ValueIn(config', "agents", "max_depth") # {}]_vars

(* The limits of [agents] are defaults (the merge does not force them): what  *)
(* the user chose stays.                                                      *)
LimitsKept ==
    [][Merges => \A k \in {"max_threads", "max_depth"} :
        ValueIn(config, "agents", k) # {}
            => ValueIn(config', "agents", k) = ValueIn(config, "agents", k)]_vars

-----------------------------------------------------------------------------
(* The merge of config.toml keeps every line of the user, refuses what is    *)
(* not lore's, leaves a document that parses and says what was asked for,    *)
(* and is a fixed point of itself (mergeCodexMCPConfig,                      *)
(* mergeCodexRuntimeTable).                                                  *)
CodexIsMerged ==
  /\ UserLinesKept /\ ForeignLoreKept /\ StaysParseable
  /\ Projected /\ SecondInstallChangesNothing
=============================================================================
