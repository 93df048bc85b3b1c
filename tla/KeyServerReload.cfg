\* KeyServerReload: the configuration changes, and the process restarts, while requests are served
SPECIFICATION Spec
CONSTANTS
  h1 = h1  h2 = h2
  pilot = pilot  other = other
  proxy = proxy  home = home  away = away
  NoHandler = NoHandler  NoRequest = NoRequest  NoForward = NoForward
  AppNames = {pilot, other}
  Addresses <- MCAddresses
  Loopback = proxy
  Handlers = {h1}
  Requests <- ReloadRequests
  Configs <- ReloadConfigs
  Sources <- ReloadSources
  Skew = 1
  Minute = 1
  RatePerMin = 2
  Lead = 1
  MaxStall = 0
  MaxClock = 0
INVARIANTS
  AuthorisedInForce
  AnswersRecorded
