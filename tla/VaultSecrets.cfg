\* VaultSecrets: two consoles set, re-seal and register at once, and may stop at any step;
\* the server may lie about one secret
SPECIFICATION Spec
SYMMETRY Symmetric
CONSTANTS
  token = token  shared = shared  tokenName = tokenName  sharedName = sharedName
  web = web  worker = worker  theirs = theirs
  VaultKeys = {key1, key2}
  FirstKey = key1
  Machines = {web, worker, theirs}
  Mine = {web, worker}
  Personal = {token}
  Org = {shared}
  Granted <- MachineGrants
  Names = {tokenName, sharedName}
  NameOf <- SecretName
  Devices = {dongle}
  Rogue = rogue
  Forged = forged
  forged = forged
  Lies <- OneLie
  Consoles = {c1, c2}
  Unsigned = Unsigned  NoCopy = NoCopy  NoJob = NoJob
INVARIANTS
  TypeOK
  EnvGenuine
  SignedCopiesVerify
  AddedKeyOpens
