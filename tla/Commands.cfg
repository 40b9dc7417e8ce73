SPECIFICATION Spec
CONSTANTS
  c1 = c1
  c2 = c2
  Clients = {c1, c2}
  Alone = c1
  Items <- SmallMenu
  Targets <- ThreeTargets
  PiTarget = "pi"
  Gate <- OpenGate
  SealedTarget = "pi"
  MaxPrepares = 6
  Supported = {"pi"}
  Unsupported = {"claude-code"}
  Tags <- Releases
  First <- Installed
  Dev = Dev
  Odd = Odd
  None = None
  Torn = Torn
  Servers = {"home", "work"}
  Serials = {1, 2}
  NoConfig = NoConfig
  Unreadable = Unreadable
  Addressless = Addressless
  NoAccount = NoAccount
  NoToken = NoToken
INVARIANT TypeOK
PROPERTIES ScreenIsTrue InstallIsTrue UpdateIsSafe LoginIsSafe CommandsEnd
CHECK_DEADLOCK FALSE
