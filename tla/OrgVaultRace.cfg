\* OrgVaultRace: a grant reads the org key before a rotation and stores its wraps after it
SPECIFICATION Spec
SYMMETRY Symmetric
CONSTANTS
  ann = ann  bob = bob  working = working  spare = spare  bobs = bobs
  c1 = c1  c2 = c2
  Users = {ann, bob}
  Founder = ann
  Keys = {working, spare, bobs}
  Owner <- KeyOwner
  Secrets = {s1, s2}
  Values = {v}
  Consoles = {c1, c2}
  NotStored = NotStored  Garbage = Garbage  NoJob = NoJob
  MaxOrg = 3
INVARIANTS
  NothingLost
