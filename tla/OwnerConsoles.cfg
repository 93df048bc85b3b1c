\* OwnerConsoles: two consoles delegate, revoke and sign at once; the agent is answered with anything
SPECIFICATION Spec
SYMMETRY Symmetric
CONSTANTS
  NoBlob = NoBlob  NoKey = NoKey  Machine = m1
  FreshnessWindow = 0
  FreshnessClockSkew = 0
  c1 = c1  c2 = c2
  rootKey = rootKey  foreign = foreign
  dongle = dongle  chip = chip  refresher = refresher
  Consoles = {c1, c2}
  RootKeys = {rootKey, foreign}
  Root = rootKey
  Devices = {dongle, chip}
  FreshKeys = {refresher}
  Account = acct
  NoJob = NoJob
  Versions = {1}
  MaxLists = 2
  MaxFaults = 1
INVARIANTS
  TypeOK
  RevocationsKept
  AgentsKeepRevoked
  RefusedOnlyIfOvertaken
  DelegatedAccepted
