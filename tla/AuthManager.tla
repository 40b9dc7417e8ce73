----------------------------- MODULE AuthManager ----------------------------
(***************************************************************************)
(* Saved login state (internal/auth/manager.go, internal/config/store.go,   *)
(* internal/auth/keychain.go).  Metadata is in config.json and the token in *)
(* the OS keychain, under an account derived from the server, the name of   *)
(* which is in config.json too; nothing commits the two together.  Older    *)
(* versions kept the token in config.json: the first command that loads     *)
(* such a file moves it into the keychain.  Only commands write either, so  *)
(* that no file pairs a server with the account of another.                 *)
(***************************************************************************)
CONSTANTS
  Clients,     \* running commands
  Servers,
  Serials,     \* a server mints several tokens
  NoConfig,    \* no config.json
  Unreadable,  \* one that cannot be decoded
  Addressless, \* one that names neither an account nor a server that is a URL
  NoAccount,   \* an older version named no account
  NoToken,     \* nothing in the keychain, no token in the file
  CanDie,      \* processes may be killed
  LateFault    \* writing the configuration may fail after its rename

Tokens == Servers \X Serials
Configs == [server : Servers, account : Servers \cup {NoAccount}, token : Tokens \cup {NoToken}]
Blanks == {NoConfig, Unreadable, Addressless}

NameAssumption ==
  /\ Blanks \cap Configs = {} /\ Addressless \notin {NoConfig, Unreadable}
  /\ NoToken \notin Tokens /\ NoAccount \notin Servers /\ Servers # {}

VARIABLES
  config,      \* config.json
  keychain,    \* the token of each account; an account is a server
  pc,          \* the next step of each command
  server,      \* the server it works for
  account,     \* the account it uses there
  token,       \* the token it stores or has got
  answer       \* what it said last

locals == <<pc, server, account, token, answer>>
avars == <<config, keychain, locals>>

Answers == {"none", "ok", "session", "signed out", "not_found", "invalid", "missing",
            "unavailable", "write_failed"}
Steps == {"idle", "set", "save", "undo", "get", "migrate", "scrub", "unmigrate", "rewrite",
          "drop", "revoke", "delete"}

IsFile(c) == c \in Configs
Legacy == IsFile(config) /\ config.token # NoToken
AnyServer == CHOOSE s \in Servers : TRUE

GoTo(c, step) == pc' = [pc EXCEPT ![c] = step] /\ UNCHANGED <<server, account, token, answer>>

\* The command starts, with the server, the account and the token it works on.
Takes(c, step, s, k, t) ==
  /\ pc[c] = "idle" /\ pc' = [pc EXCEPT ![c] = step]
  /\ server' = [server EXCEPT ![c] = s] /\ account' = [account EXCEPT ![c] = k]
  /\ token' = [token EXCEPT ![c] = t]
  /\ answer' = [answer EXCEPT ![c] = "none"]

Ends(c, a) ==
  /\ pc' = [pc EXCEPT ![c] = "idle"] /\ answer' = [answer EXCEPT ![c] = a]
  /\ server' = [server EXCEPT ![c] = AnyServer] /\ account' = [account EXCEPT ![c] = AnyServer]
  /\ token' = [token EXCEPT ![c] = NoToken]

\* The command ends with a session of its server and account (Session).
EndsWith(c, t) ==
  /\ pc' = [pc EXCEPT ![c] = "idle"] /\ answer' = [answer EXCEPT ![c] = "session"]
  /\ token' = [token EXCEPT ![c] = t] /\ UNCHANGED <<server, account>>

-----------------------------------------------------------------------------
(* config.Store and KeychainStore *)

\* Save drops the token.
Written(s, k) == [server |-> s, account |-> k, token |-> NoToken]

SaveWorks(c) == config' = Written(server[c], account[c])
SaveFails(c) ==
  config' \in {config} \cup (IF LateFault THEN {Written(server[c], account[c])} ELSE {})

\* Seeded fault (TokenGoesToItsServer): one account for all servers.
OneAccount(s) == AnyServer

\* DeriveCredentialAccount
Account(s) == s

\* credentialAccount: the one in the file counts.
CredentialAccount(f) == IF f.account # NoAccount THEN f.account ELSE Account(f.server)

Store(c) == keychain' = [keychain EXCEPT ![account[c]] = token[c]]
Erase(c) == keychain' \in {keychain, [keychain EXCEPT ![account[c]] = NoToken]}

-----------------------------------------------------------------------------
(* Manager.Save, after /v1/me has accepted the token *)

Login(c, s, n) == Takes(c, "set", s, Account(s), <<s, n>>) /\ UNCHANGED <<config, keychain>>

SetCredential(c) ==
  /\ pc[c] = "set" /\ UNCHANGED config
  /\ \/ Store(c) /\ GoTo(c, "save")
     \/ UNCHANGED keychain /\ Ends(c, "unavailable")

SaveConfig(c) ==
  /\ pc[c] = "save" /\ UNCHANGED keychain
  /\ \/ SaveWorks(c) /\ Ends(c, "ok")
     \/ SaveFails(c) /\ GoTo(c, "undo")

\* The credential is deleted again, whatever was there before.
UndoCredential(c) ==
  /\ pc[c] = "undo" /\ UNCHANGED config
  /\ Erase(c) /\ Ends(c, "write_failed")

-----------------------------------------------------------------------------
(* Manager.Load, loadFromConfig *)

LoadConfig(c) ==
  /\ \/ config = NoConfig /\ pc[c] = "idle" /\ Ends(c, "not_found")
     \/ config \in {Unreadable, Addressless} /\ pc[c] = "idle" /\ Ends(c, "invalid")
     \/ IsFile(config) /\ ~Legacy /\ Takes(c, "get", config.server, CredentialAccount(config), NoToken)
     \/ Legacy /\ Takes(c, "migrate", config.server, CredentialAccount(config), config.token)
  /\ UNCHANGED <<config, keychain>>

GetCredential(c) ==
  /\ pc[c] = "get" /\ UNCHANGED <<config, keychain>>
  /\ LET t == keychain[account[c]] IN
     \/ t # NoToken /\ EndsWith(c, t)
     \/ t = NoToken /\ Ends(c, "missing")
     \/ Ends(c, "unavailable")

\* migrateLegacy
Migrate(c) ==
  /\ pc[c] = "migrate" /\ UNCHANGED config
  /\ \/ Store(c) /\ GoTo(c, "scrub")
     \/ UNCHANGED keychain /\ GoTo(c, "rewrite")

Scrub(c) ==
  /\ pc[c] = "scrub" /\ UNCHANGED keychain
  /\ \/ SaveWorks(c) /\ EndsWith(c, token[c])
     \/ SaveFails(c) /\ GoTo(c, "unmigrate")

Unmigrate(c) ==
  /\ pc[c] = "unmigrate" /\ UNCHANGED config
  /\ Erase(c) /\ Ends(c, "write_failed")

\* scrubOrDeleteLegacyConfig: the keychain refused the token, which must go
\* from the file all the same.
Rewrite(c) ==
  /\ pc[c] = "rewrite" /\ UNCHANGED keychain
  /\ \/ SaveWorks(c) /\ Ends(c, "unavailable")
     \/ SaveFails(c) /\ GoTo(c, "drop")

Drop(c) ==
  /\ pc[c] = "drop" /\ UNCHANGED keychain
  /\ \/ config' = NoConfig /\ Ends(c, "unavailable")
     \/ UNCHANGED config /\ Ends(c, "write_failed")

-----------------------------------------------------------------------------
(* Manager.Logout *)

\* Without an account there is nothing to revoke.
Logout(c) ==
  /\ \/ config \in {NoConfig, Addressless} /\ Takes(c, "delete", AnyServer, AnyServer, NoToken)
     \/ config = Unreadable /\ pc[c] = "idle" /\ Ends(c, "invalid")
     \/ IsFile(config) /\ Takes(c, "revoke", config.server, CredentialAccount(config), NoToken)
  /\ UNCHANGED <<config, keychain>>

Revoke(c) ==
  /\ pc[c] = "revoke" /\ UNCHANGED config
  /\ \/ keychain' = [keychain EXCEPT ![account[c]] = NoToken] /\ GoTo(c, "delete")
     \/ UNCHANGED keychain /\ Ends(c, "unavailable")

Delete(c) ==
  /\ pc[c] = "delete" /\ UNCHANGED keychain
  /\ \/ config' = NoConfig /\ Ends(c, "signed out")
     \/ UNCHANGED config /\ Ends(c, "write_failed")

-----------------------------------------------------------------------------
Die(c) ==
  /\ CanDie /\ pc[c] # "idle" /\ Ends(c, "none")
  /\ UNCHANGED <<config, keychain>>

Init ==
  /\ config \in Blanks \cup {[server |-> t[1], account |-> NoAccount, token |-> t] : t \in Tokens}
  /\ keychain = [s \in Servers |-> NoToken]
  /\ pc = [c \in Clients |-> "idle"]
  /\ server = [c \in Clients |-> AnyServer] /\ account = [c \in Clients |-> AnyServer]
  /\ token = [c \in Clients |-> NoToken] /\ answer = [c \in Clients |-> "none"]

Next ==
  \E c \in Clients :
    \/ \E s \in Servers, n \in Serials : Login(c, s, n)
    \/ SetCredential(c) \/ SaveConfig(c) \/ UndoCredential(c)
    \/ LoadConfig(c) \/ GetCredential(c) \/ Migrate(c) \/ Scrub(c) \/ Unmigrate(c)
    \/ Rewrite(c) \/ Drop(c)
    \/ Logout(c) \/ Revoke(c) \/ Delete(c)
    \/ Die(c)

Spec == Init /\ [][Next]_avars

-----------------------------------------------------------------------------
TypeOK ==
  /\ config \in Configs \cup Blanks
  /\ keychain \in [Servers -> Tokens \cup {NoToken}]
  /\ pc \in [Clients -> Steps] /\ answer \in [Clients -> Answers]
  /\ server \in [Clients -> Servers] /\ account \in [Clients -> Servers]
  /\ token \in [Clients -> Tokens \cup {NoToken}]

\* Whatever logins, logouts and migrations run at once, a session never pairs a
\* server with the token of another (DeriveCredentialAccount, loadFromConfig).
TokenGoesToItsServer == \A c \in Clients : answer[c] = "session" => token[c][1] = server[c]

Ended(c) == pc[c] # "idle" /\ pc'[c] = "idle"

\* The following are said of a step; all but the first of a command that runs
\* alone.

\* A load that found a token in the file does not end, except with an error that
\* says so, while a token is still there (migrateLegacy, scrubOrDeleteLegacyConfig).
PlaintextGone ==
  \A c \in Clients : Ended(c) /\ answer'[c] \in {"session", "unavailable", "missing"} =>
    pc[c] = "set" \/ pc[c] = "revoke" \/ ~Legacy'

\* A login that says so is what the next command finds (Manager.Save).
OkMeansSaved ==
  \A c \in Clients : Ended(c) /\ answer'[c] = "ok" =>
    /\ IsFile(config') /\ config'.server = server[c] /\ config'.token = NoToken
    /\ keychain'[CredentialAccount(config')] = token[c]

\* A token leaves both stores only for a logout or for another token of its
\* server, or because the keychain had refused it; neither a failed write nor a
\* death in the middle of a migration loses it (migrateLegacy).
MigrationKeepsToken ==
  \A t \in Tokens :
    LET kept(cf, k) == t = k[t[1]] \/ (IsFile(cf) /\ cf.token = t) IN
    kept(config, keychain) /\ ~kept(config', keychain') =>
      \/ keychain'[t[1]] # NoToken
      \/ \E c \in Clients : pc[c] \in {"save", "undo", "revoke", "delete", "rewrite", "drop"}

\* README.md:32: logout removes the metadata plus the matching credential; a
\* logout that says so has left neither (Manager.Logout).
LogoutRemovesBoth ==
  \A c \in Clients : Ended(c) /\ answer'[c] = "signed out" =>
    config' = NoConfig /\ (IsFile(config) => keychain'[CredentialAccount(config)] = NoToken)

\* config/store.go:88: Save atomically writes the configuration, so an error
\* means that the old one is still there.
SaveIsAtomic == [][\A c \in Clients : pc[c] = "save" /\ pc'[c] = "undo" => UNCHANGED config]_avars

\* manager_test.go:193: after a second login the loaded session is the second
\* one, so a migration replaces nothing but a file that still has a token.
MigrationReplacesLegacy ==
  [][\A c \in Clients : pc[c] = "scrub" /\ pc'[c] = "idle" /\ answer'[c] = "session" =>
       ~IsFile(config) \/ Legacy \/ config.server = server[c]]_avars
=============================================================================
