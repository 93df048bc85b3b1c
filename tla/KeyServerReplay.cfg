\* KeyServerReplay: requests replayed, at their rate limit, against a stalling handler and
\* another app's purge; every request is answered
SPECIFICATION FairSpec
CONSTANTS
  h1 = h1  h2 = h2
  pilot = pilot  other = other
  proxy = proxy  home = home  away = away
  NoHandler = NoHandler  NoRequest = NoRequest  NoForward = NoForward
  AppNames = {pilot, other}
  Addresses <- MCAddresses
  Loopback = proxy
  Handlers = {h1, h2}
  Requests <- ReplayRequests
  Configs <- OneConfig
  Sources <- HomeOnly
  Skew = 2
  Minute = 2
  RatePerMin = 1
  Lead = 1
  MaxStall = 1
  MaxClock = 5
INVARIANTS
  TypeOK
  NoReplay
  RateBound
  ReplayRefusalJustified
PROPERTIES
  EveryRequestAnswered
  ImplementsUnlockOnce
  RateRefusalJustified
