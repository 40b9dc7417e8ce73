--------------------------- MODULE MCCodexConfig ---------------------------
EXTENDS CodexConfig

(* A user's sections: settings, the tables lore adjusts, the tables of lore  *)
(* from older releases, and half a managed block.                            *)
UserSections ==
  { << Table("features"), Key("multi_agent", "false"), Key("shell", "on") >>,
    << Table("agents"), Key("max_threads", "8") >>,
    << Table("lore"), Key("url", "old") >>,
    << Table("env"), Key("LORE_MCP_URL", "old") >>,
    << Table("env"), Key("TOKEN", "mine") >>,
    << Table("other"), Key("url", "x") >>,
    << Key("features", "off") >>,
    << Start >> }

UserWords ==
  { "", "lore", "url", "context7", "hosted", "features", "multi_agent", "true", "agents",
    "max_threads", "4", "max_depth", "2", "mine", "one", "two", "false", "shell", "on",
    "8", "old", "env", "LORE_MCP_URL", "TOKEN", "other", "x", "off" }
=============================================================================
