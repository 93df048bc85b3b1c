---------------------------- MODULE PolicyVerify ----------------------------
(***************************************************************************)
(* What an agent checks before it believes a signed policy (policy.go and  *)
(* account_policy.go), as operators over the bundle the server sends.      *)
(*                                                                         *)
(* A signed blob is [kind, by, body]: the signature context, the key that  *)
(* signed it, and what was signed.  Bodies carry what the checks read:     *)
(*   delegation, freshness delegation  [account, key, expires]             *)
(*   revocations                       [version, revoked]                  *)
(*   policy, account policy            [format, account, version, expires, *)
(*                                      machines, caOK, krlOK, users]      *)
(*   freshness                         [policy, issued, expires]           *)
(* A freshness statement names its policy by the hash of the signed bytes, *)
(* so it holds the body itself.  account, group and version, which the     *)
(* code compares too, are fields of those bytes.                           *)
(***************************************************************************)
EXTENDS Integers

CONSTANTS
  NoBlob,             \* a part of the bundle that was not sent
  NoKey,              \* no key: nothing pinned
  Machine,            \* this machine's id
  FreshnessWindow,    \* maxFreshnessWindow
  FreshnessClockSkew  \* maxFreshnessClockSkew

ASSUME FreshnessAssumption ==
  FreshnessWindow \in Nat /\ FreshnessClockSkew \in Nat

(* policyState, the file the agent keeps; Fresh is its zero value.         *)
Formats == {"machine", "account"}
Fresh == [root |-> NoKey, version |-> 0, rev |-> 0, until |-> 0, format |-> "machine"]

(* Domain separation: the context is part of what was signed.              *)
OpensMutant(b, key, kind) == b.by = key
Opens(b, key, kind) == b.kind = kind /\ b.by = key

Live(body, now) == body.expires = 0 \/ now < body.expires

-----------------------------------------------------------------------------
(* verifyRootAndRevocations                                                *)

RootPinned(sp, root) == root # NoKey /\ sp.root = root

NotOlderMutant(list, st) == TRUE
NotOlderSameMutant(list, st) == list.version > st.rev
NotOlder(list, st) == list.version >= st.rev

RevocationsAccepted(sp, st) ==
  \/ sp.revocations = NoBlob /\ st.rev = 0
  \/ /\ sp.revocations # NoBlob
     /\ Opens(sp.revocations, sp.root, "revocations")
     /\ NotOlder(sp.revocations.body, st)

Revoked(sp) == IF sp.revocations = NoBlob THEN {} ELSE sp.revocations.body.revoked

(* liveDelegations: one foreign blob in the chain spoils the whole of it.  *)
ChainOpens(sp) == \A b \in sp.chain : Opens(b, sp.root, "delegation")
LiveAccounts(sp, now) ==
  {b.body.account : b \in {d \in sp.chain : d.body.key = sp.signer /\ Live(d.body, now)}}

(* What both formats require of the signing device.                        *)
SignerTrustedMutant(sp, root, st, now) ==
  /\ RootPinned(sp, root)
  /\ RevocationsAccepted(sp, st)
  /\ ChainOpens(sp)
  /\ LiveAccounts(sp, now) # {}
SignerTrusted(sp, root, st, now) ==
  /\ RootPinned(sp, root)
  /\ RevocationsAccepted(sp, st)
  /\ sp.signer \notin Revoked(sp)
  /\ ChainOpens(sp)
  /\ LiveAccounts(sp, now) # {}

-----------------------------------------------------------------------------
(* verifyFreshness                                                         *)

FreshnessKeyTrusted(sp, account, now) ==
  /\ sp.freshnessSigner \notin Revoked(sp)
  /\ \A b \in sp.freshnessChain : Opens(b, sp.root, "freshness delegation")
  /\ \E b \in sp.freshnessChain : /\ b.body.key = sp.freshnessSigner
                                  /\ b.body.account = account
                                  /\ Live(b.body, now)

(* The expiry a statement grants, never further than the window.           *)
VouchedUntilMutant(f) == f.expires
VouchedUntil(f) ==
  IF f.expires > f.issued + FreshnessWindow THEN f.issued + FreshnessWindow
  ELSE f.expires

Vouches(sp, p, now) ==
  /\ sp.freshness # NoBlob
  /\ FreshnessKeyTrusted(sp, p.account, now)
  /\ Opens(sp.freshness, sp.freshnessSigner, "freshness")
  /\ sp.freshness.body.policy = p
  /\ sp.freshness.body.issued <= now + FreshnessClockSkew
  /\ now < VouchedUntil(sp.freshness.body)

-----------------------------------------------------------------------------
(* verifyPolicyAny: the account policy is preferred when it is served.     *)

IsAccount(sp) == sp.accountPolicy # NoBlob
Served(sp) == IF IsAccount(sp) THEN sp.accountPolicy ELSE sp.machinePolicy
Offered(sp) == Served(sp) # NoBlob

(* KRLExpires of the Policy the verifiers return.                          *)
GoodUntil(sp, now) ==
  LET p == Served(sp).body IN
  IF /\ IsAccount(sp)
     /\ Vouches(sp, p, now)
     /\ VouchedUntil(sp.freshness.body) > p.expires
  THEN VouchedUntil(sp.freshness.body) ELSE p.expires

NotReplayedMutant(p, st) == p.version > st.version
NotReplayedAnyMutant(p, st) == TRUE
NotReplayed(p, st) == p.version >= st.version

NoDowngradeMutant(sp, st) == TRUE
NoDowngrade(sp, st) == IsAccount(sp) \/ st.format # "account"

FormatKind(sp) == IF IsAccount(sp) THEN "account policy" ELSE "policy"

(* Every refusal, errStaleKRL included, has the same effect on the agent:  *)
(* it keeps what it has and reports "refused".                             *)
Verifies(sp, root, st, now) ==
  /\ Offered(sp)
  /\ NoDowngrade(sp, st)
  /\ SignerTrusted(sp, root, st, now)
  /\ Opens(Served(sp), sp.signer, FormatKind(sp))
  /\ Served(sp).body.account \in LiveAccounts(sp, now)
  /\ NotReplayed(Served(sp).body, st)
  /\ IsAccount(sp) => Machine \in Served(sp).body.machines
  /\ Served(sp).body.caOK
  /\ now < GoodUntil(sp, now)

(* nextState                                                               *)
NextState(sp, root, prev, now) ==
  [root    |-> root,
   version |-> Served(sp).body.version,
   rev     |-> IF sp.revocations = NoBlob THEN prev.rev
               ELSE sp.revocations.body.version,
   until   |-> GoodUntil(sp, now),
   format  |-> IF IsAccount(sp) THEN "account" ELSE prev.format]
=============================================================================
