---------------------------- MODULE MCPolicyAgent ----------------------------
(***************************************************************************)
(* Instances of PolicyAgent for TLC: what one owner ever signed, a second  *)
(* root the agent does not know, and the bundles a server can assemble.    *)
(***************************************************************************)
EXTENDS PolicyAgent

CONSTANTS a1, a2,                 \* agent processes
          rootKey, foreign,       \* the owner's root and someone else's
          dongle, chip,           \* signing devices
          refresher,              \* the freshness key
          acct,                   \* the owner's account
          deploy, admin, unsafe   \* login users; safeUser refuses the last

Blob(kind, by, content) == [kind |-> kind, by |-> by, body |-> content]
Key(k, expires) == [account |-> acct, key |-> k, expires |-> expires]
Dlg(k, expires) == Blob("delegation", rootKey, Key(k, expires))
FreshDlg == Blob("freshness delegation", rootKey, Key(refresher, 0))

Policy(format, version, expires, users) ==
  [format |-> format, account |-> acct, version |-> version, expires |-> expires,
   machines |-> {Machine}, caOK |-> TRUE, krlOK |-> TRUE, users |-> users]

M1 == Blob("policy", chip, Policy("machine", 1, 2, {deploy, admin}))
M2 == Blob("policy", dongle, Policy("machine", 2, 3, {admin}))
A2 == Blob("account policy", chip,
           [Policy("account", 2, 3, {deploy}) EXCEPT !.krlOK = FALSE])
A3 == Blob("account policy", chip, Policy("account", 3, 1, {admin, unsafe}))
A4 == Blob("account policy", chip,
           [Policy("account", 4, 3, {admin}) EXCEPT !.machines = {}])
ByRefresher == Blob("account policy", refresher, Policy("account", 5, 3, {admin}))
ByStranger == Blob("policy", foreign, Policy("machine", 9, 3, {deploy}))

List(version, revoked) ==
  Blob("revocations", rootKey, [version |-> version, revoked |-> revoked])

(* Of two lists the newer names one device and drops another.             *)
Lists == {NoBlob, List(1, {refresher}), List(2, {dongle})}

(* Issued one tick ahead of the agent's clock, and valid for very long.    *)
Statement == Blob("freshness", refresher, [policy |-> A3.body, issued |-> 1, expires |-> 9])

Bundle(chain, revocations, machinePolicy, accountPolicy, signer, freshness) ==
  [root |-> rootKey, chain |-> chain, revocations |-> revocations,
   machinePolicy |-> machinePolicy, accountPolicy |-> accountPolicy,
   signer |-> signer, freshness |-> freshness,
   freshnessSigner |-> refresher, freshnessChain |-> {FreshDlg}]

Both == {Dlg(chip, 0), Dlg(dongle, 0)}
Chains == {Both, {Dlg(chip, 1), Dlg(dongle, 0)}, {Dlg(chip, 0), FreshDlg}}
Offers ==
  {<<NoBlob, NoBlob, chip>>, <<M1, NoBlob, chip>>, <<M2, NoBlob, dongle>>,
   <<M2, NoBlob, chip>>, <<NoBlob, A2, chip>>, <<M1, A3, chip>>, <<NoBlob, A4, chip>>,
   <<NoBlob, ByRefresher, refresher>>, <<ByStranger, NoBlob, foreign>>}
FromOwner ==
  {Bundle(chain, list, o[1], o[2], o[3], f) :
     chain \in Chains, list \in Lists, o \in Offers, f \in {NoBlob, Statement}}
FromStranger ==
  {[Bundle({Blob("delegation", foreign, Key(foreign, 0))}, NoBlob, ByStranger,
           NoBlob, foreign, NoBlob) EXCEPT !.root = foreign]}
AllBundles == FromOwner \cup FromStranger

Newest == Bundle(Both, List(2, {dongle}), NoBlob, A3, chip, Statement)
Few == {Newest,
        Bundle(Both, List(1, {refresher}), M1, NoBlob, chip, NoBlob),
        Bundle(Both, List(1, {refresher}), M2, NoBlob, dongle, NoBlob),
        Bundle(Both, List(2, {dongle}), M2, NoBlob, dongle, NoBlob)}

Legacy(users) == [Policy("machine", 0, 0, users) EXCEPT !.machines = {}]
OneUnsigned == {Legacy({deploy})}

NoFlags == [root |-> NoKey, required |-> FALSE]
Pinned == [NoFlags EXCEPT !.root = rootKey]
AnyFlags == {NoFlags, Pinned, [NoFlags EXCEPT !.required = TRUE],
             [NoFlags EXCEPT !.root = foreign]}
OnlyPinned == {Pinned}
=============================================================================
