\* PolicyAgentLive: two processes on one directory, one fault, a server that turns honest
SPECIFICATION FairSpec
CONSTANTS
  a1 = a1  a2 = a2  rootKey = rootKey  foreign = foreign
  dongle = dongle  chip = chip  refresher = refresher  acct = acct
  deploy = deploy  admin = admin  unsafe = unsafe
  NoBlob = NoBlob  NoKey = NoKey  NoFile = NoFile  Machine = m1
  FreshnessWindow = 2
  FreshnessClockSkew = 1
  Agents = {a1, a2}
  Bundles <- Few
  Final <- Newest
  Unsigned <- OneUnsigned
  SafeUsers = {admin}
  Flags <- OnlyPinned
  MaxFaults = 1
  MaxClock = 0
PROPERTIES
  SavesExtend
  
