\* OwnerForgets: one console revokes a key the status does not list, then another key
SPECIFICATION Spec
SYMMETRY Symmetric
CONSTANTS
  NoBlob = NoBlob  NoKey = NoKey  Machine = m1
  FreshnessWindow = 0
  FreshnessClockSkew = 0
  c1 = c1  c2 = c2
  rootKey = rootKey  foreign = foreign
  dongle = dongle  chip = chip  refresher = refresher
  Consoles = {c1}
  RootKeys = {rootKey}
  Root = rootKey
  Devices = {dongle}
  FreshKeys = {refresher}
  Account = acct
  NoJob = NoJob
  Versions = {1}
  MaxLists = 2
  MaxFaults = 0
INVARIANTS
  RevokedForGood
