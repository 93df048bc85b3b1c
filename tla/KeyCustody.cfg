\* KeyCustody: sticks pulled at any step, backups, and restores from any blocks
SPECIFICATION Spec
CONSTANTS
  daily = daily  safe = safe  b1 = b1  b2 = b2
  Sticks = {daily, safe}
  HardLinks = {safe}
  Fresh <- MCFresh
  Absent = Absent  Torn = Torn  NoStick = NoStick  NoKey = NoKey
  Backups = {b1, b2}
  Coefficients <- MCCoefficients
  MaxShares = 3
  MaxPaste = 3
  MaxRestores = 1
INVARIANTS
  TypeOK
  ReadyForGood
  RestoreExact
  OwnKeyOrRefused
PROPERTIES
  ImplementsWriteOnce

\* no key is left to make and no restore to do: a bound, not a state of the program
CHECK_DEADLOCK FALSE
