--------------------------- MODULE MCVaultSecrets ---------------------------
(***************************************************************************)
(* Instance of VaultSecrets: one account secret and one of the             *)
(* organisation, two machines of ours, of which one is granted both and the*)
(* other nothing, and one of another member, granted the organisation's.   *)
(***************************************************************************)
EXTENDS VaultSecrets, TLC

CONSTANTS forged, token, shared, tokenName, sharedName, web, worker, theirs

SecretName == [s \in Secrets |-> IF s = token THEN tokenName ELSE sharedName]
MachineGrants ==
  [m \in Machines |-> CASE m = web -> Secrets [] m = theirs -> {shared} [] OTHER -> {}]

Item(s, v, n, r) == [secret |-> s, value |-> v, name |-> n, to |-> r]
(* The server's own value, for a machine that is not granted the secret.   *)
OneLie == {Item(token, forged, tokenName, worker)}

Symmetric == Permutations(Consoles)
=============================================================================
