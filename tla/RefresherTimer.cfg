\* RefresherTimer: any signed answers, or an honest server and the timer on time; one fault
\* The clock stops at MaxClock, and with it the timer.
CHECK_DEADLOCK FALSE
SPECIFICATION Spec
CONSTANTS
  NoBlob = NoBlob  NoKey = NoKey  Machine = m1
  FreshnessWindow = 6
  FreshnessClockSkew = 1
  Root = root  Key = refresher  Account = acct  Torn = Torn
  foreign = foreign  dongle = dongle  chip = chip  other = other
  Bundles <- MCBundles
  First <- FirstBundle
  Window = 6
  AccountWindows = {0, 5, 9}
  DefaultWindow = 5
  Period = 2
  MaxLead = 1
  Faults = {"failed", "lost", "killed"}
  MaxFaults = 1
  MaxClock = 8
INVARIANTS
  StoredAtLeastFloor
  BelievedByAgents
  AgentsFresh
PROPERTIES
  FloorMonotone
