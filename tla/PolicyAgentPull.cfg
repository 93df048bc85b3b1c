\* PolicyAgentPull: one agent, a server that picks among every signed blob, one fault anywhere
SPECIFICATION Spec
CONSTANTS
  a1 = a1  a2 = a2  rootKey = rootKey  foreign = foreign
  dongle = dongle  chip = chip  refresher = refresher  acct = acct
  deploy = deploy  admin = admin  unsafe = unsafe
  NoBlob = NoBlob  NoKey = NoKey  NoFile = NoFile  Machine = m1
  FreshnessWindow = 2
  FreshnessClockSkew = 1
  Agents = {a1}
  Bundles <- AllBundles
  Final = NoBlob
  Unsigned <- OneUnsigned
  SafeUsers = {deploy, admin}
  Flags <- AnyFlags
  MaxFaults = 1
  MaxClock = 2
INVARIANTS
  TypeOK
  FilesAtLeastFloor
  AppliedWhole
  WrittenByTrusted
  VouchingBounded
  
PROPERTIES
  FloorMonotone
  SignedForGood
