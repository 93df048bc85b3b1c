----------------------------- MODULE MCRefresher -----------------------------
(***************************************************************************)
(* Instances of Refresher for TLC: what one owner ever signed and the      *)
(* bundles an account server can assemble from it.                         *)
(***************************************************************************)
EXTENDS Refresher

CONSTANTS foreign,         \* someone else's root
          dongle, chip,    \* signing devices
          other            \* someone else's account

Blob(kind, by, content) == [kind |-> kind, by |-> by, body |-> content]
Grant(k, account, expires) == [account |-> account, key |-> k, expires |-> expires]
Dlg(k, expires) == Blob("delegation", Root, Grant(k, Account, expires))
FreshDlg == Blob("freshness delegation", Root, Grant(Key, Account, 0))

Policy(account, version, expires) ==
  [format |-> "account", account |-> account, version |-> version, expires |-> expires,
   machines |-> {Machine}, caOK |-> TRUE, krlOK |-> TRUE, users |-> {}]
A(by, version, expires) == Blob("account policy", by, Policy(Account, version, expires))
List(version, revoked) ==
  Blob("revocations", Root, [version |-> version, revoked |-> revoked])

Bundle(chain, revocations, accountPolicy, signer) ==
  [root |-> Root, chain |-> chain, revocations |-> revocations,
   machinePolicy |-> NoBlob, accountPolicy |-> accountPolicy, signer |-> signer,
   freshness |-> NoBlob, freshnessSigner |-> Key, freshnessChain |-> {FreshDlg}]

Both == {Dlg(chip, 0), Dlg(dongle, 3)}
(* Policies of two devices, none, one of another account, one by Key.      *)
Lists == {NoBlob, List(1, {dongle}), List(2, {dongle, Key})}
Offers == {<<A(dongle, 1, 3), dongle>>, <<A(chip, 2, 2), chip>>, <<NoBlob, chip>>,
           <<Blob("account policy", chip, Policy(other, 3, 9)), chip>>, <<A(Key, 3, 9), Key>>}

(* What an honest server is given over time: three policies, each good for *)
(* 72 hours or twelve periods of the timer, scaled down.                   *)
FirstBundle == Bundle({Dlg(chip, 0)}, NoBlob, A(chip, 1, 6), chip)
MCBundles ==
  {Bundle(Both, list, o[1], o[2]) : list \in Lists, o \in Offers}
  \cup {[Bundle(Both, NoBlob, A(chip, 2, 2), chip) EXCEPT !.root = foreign]}
  \cup {FirstBundle, Bundle({Dlg(chip, 0)}, NoBlob, A(chip, 2, 9), chip),
        Bundle({Dlg(chip, 0), Dlg(dongle, 0)}, List(1, {chip}), A(dongle, 3, 12), dongle)}

(* The instance is one AgentsFresh is proved for.                          *)
ASSUME OnTimeAssumption == TimerKeepsUp /\ OwnerSteady
=============================================================================
