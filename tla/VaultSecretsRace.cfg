\* VaultSecretsRace: a vault key is registered while secrets are re-sealed
SPECIFICATION Spec
SYMMETRY Symmetric
CONSTANTS
  token = token  shared = shared  tokenName = tokenName  sharedName = sharedName
  web = web  worker = worker  theirs = theirs
  VaultKeys = {key1, key2}
  FirstKey = key1
  Machines = {web, worker, theirs}
  Mine = {web, worker}
  Personal = {token}
  Org = {shared}
  Granted <- MachineGrants
  Names = {tokenName, sharedName}
  NameOf <- SecretName
  Devices = {dongle}
  Rogue = rogue
  Forged = forged
  forged = forged
  Lies = {}
  Consoles = {c1, c2}
  Unsigned = Unsigned  NoCopy = NoCopy  NoJob = NoJob
INVARIANTS
  OwnCopiesPlain
