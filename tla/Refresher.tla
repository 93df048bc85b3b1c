------------------------------ MODULE Refresher ------------------------------
(***************************************************************************)
(* `p3sig policy refresh` (account_policy_cli.go): the timer on the key    *)
(* server that asks the account server for the current account policy,     *)
(* verifies it, signs a freshness statement for it, uploads the statement  *)
(* and then saves what it vouched for.  One action is one step the account *)
(* server, the clock or a crash can come in between; systemd never starts  *)
(* a run while one is going on.                                            *)
(*                                                                         *)
(* The account server is external: it answers with any bundle of Bundles,  *)
(* or, when honest, with the one the owner published last; it keeps a      *)
(* statement only if it is newer than the one it holds and no longer than  *)
(* the account's window (the comments at lines 192 and 262).  One account  *)
(* and one group are modelled, and a state file that is there can be read. *)
(***************************************************************************)
EXTENDS PolicyVerify

CONSTANTS
  Bundles,         \* what the account server can answer with
  First,           \* the bundle the owner published first
  Root, Key, Account,  \* --root, the freshness key, --account
  Torn,            \* a state file that does not parse
  Window,          \* --window, 0 when the flag is not given
  AccountWindows,  \* windows the account's settings can name, 0 for none
  DefaultWindow,   \* defaultFreshnessWindow
  Period,          \* the timer starts a run this often
  MaxLead,         \* bound: how far this host's clock runs ahead
  Faults,          \* kinds of fault that can happen
  MaxFaults,       \* bound: how many of them
  MaxClock         \* bound: the clock stops here

FaultKinds == {"failed", "lost", "killed"}

(* The parts of a SignedPolicy.                                            *)
Parts == {"root", "chain", "revocations", "machinePolicy", "accountPolicy", "signer",
          "freshness", "freshnessSigner", "freshnessChain"}

(* A --window outside the cap ends every run before it does anything.      *)
ASSUME WindowAssumption ==
  /\ Window \in 0 .. FreshnessWindow /\ DefaultWindow \in 1 .. FreshnessWindow
  /\ AccountWindows \subseteq Nat /\ Period \in Nat \ {0} /\ MaxLead \in Nat
  /\ MaxFaults \in Nat /\ MaxClock \in Nat \ {0}
ASSUME RefresherAssumption ==
  /\ First \in Bundles /\ Faults \subseteq FaultKinds
  /\ \A sp \in Bundles :
       /\ DOMAIN sp = Parts
       /\ sp.accountPolicy # NoBlob => /\ sp.accountPolicy.body.version \in Nat
                                      /\ sp.accountPolicy.body.expires \in Nat
       /\ sp.revocations # NoBlob => sp.revocations.body.version \in Nat

VARIABLES
  honest,           \* the server answers with current, and the timer is on time
  clock,            \* true time
  lead,             \* how far this host's clock is ahead of it
  started,          \* when the last run started
  file,             \* the state file
  stored,           \* the statement the account server holds
  setting,          \* the window in the account's settings
  current,          \* the bundle the owner published last
  pc, now, st,      \* the run: progress, its clock reading, refreshState
  bundle, out,      \* what it was answered, the statement it signed
  faults,           \* history: faults so far
  saved             \* history: what a run last saved

world  == <<honest, clock, lead, setting, current>>
locals == <<now, st, bundle, out>>
vars   == <<world, started, file, stored, pc, locals, faults, saved>>

(* refreshState; a file that is not there reads as its zero value.         *)
Zero == [version |-> 0, rev |-> 0, issued |-> 0]
StateType == [version : Nat, rev : Nat, issued : Nat]

Policies == {sp.accountPolicy.body : sp \in {b \in Bundles : b.accountPolicy # NoBlob}}
Statement == [kind : {"freshness"}, by : {Key},
              body : [policy : Policies, issued : Nat, expires : Nat]]
ASSUME AbsentAssumption == NoBlob \notin Statement \cup Bundles /\ Torn \notin StateType

TypeOK ==
  /\ honest \in BOOLEAN /\ clock \in Nat /\ lead \in 0 .. MaxLead /\ started \in Nat /\ faults \in Nat
  /\ file \in StateType \cup {Torn} /\ saved \in StateType
  /\ stored \in Statement \cup {NoBlob}
  /\ setting \in AccountWindows /\ current \in Bundles
  /\ pc \in {"idle", "ask", "put", "save", "write"}
  /\ now \in Nat /\ st \in StateType
  /\ bundle \in Bundles \cup {NoBlob} /\ out \in Statement \cup {NoBlob}
  /\ pc \in {"put", "save", "write"} <=> out # NoBlob
  /\ bundle = NoBlob <=> out = NoBlob

Init ==
  /\ honest \in BOOLEAN
  /\ clock = 1 /\ lead = 0 /\ started = 0 /\ faults = 0
  /\ file = Zero /\ saved = Zero /\ stored = NoBlob
  /\ setting \in AccountWindows /\ current = First
  /\ pc = "idle" /\ now = 0 /\ st = Zero
  /\ bundle = NoBlob /\ out = NoBlob

(* A run that ends, well or not, forgets its locals.                       *)
Done ==
  /\ pc' = "idle"
  /\ now' = 0 /\ st' = Zero
  /\ bundle' = NoBlob /\ out' = NoBlob

Fault(kind) ==
  /\ kind \in Faults /\ faults < MaxFaults
  /\ faults' = faults + 1

-----------------------------------------------------------------------------
(* cmdPolicyRefresh: the state is read, then the clock; a file that does   *)
(* not parse ends the run.                                                 *)

(* At most one run starts per tick of the clock.                           *)
Startable == pc = "idle" /\ started < clock

Load ==
  /\ Startable /\ file # Torn
  /\ pc' = "ask"
  /\ started' = clock
  /\ st' = file
  /\ now' = clock + lead
  /\ UNCHANGED <<world, file, stored, bundle, out, faults, saved>>

LoadTorn ==
  /\ Startable /\ file = Torn
  /\ started' = clock
  /\ UNCHANGED <<world, file, stored, pc, locals, faults, saved>>

-----------------------------------------------------------------------------
(* freshnessRefresh                                                        *)

(* What must hold before it vouches.  It does not ask whether the policy   *)
(* itself has expired: extending it is the point.                          *)
TrustedMutant(sp, seen, t) ==
  /\ sp.accountPolicy # NoBlob
  /\ SignerTrusted(sp, Root, seen, t)
  /\ Key \notin Revoked(sp)
  /\ Opens(sp.accountPolicy, sp.signer, "account policy")
  /\ sp.accountPolicy.body.account = Account
  /\ Account \in LiveAccounts(sp, t)
TrustedRevokedMutant(sp, seen, t) ==
  /\ sp.accountPolicy # NoBlob
  /\ SignerTrusted(sp, Root, seen, t)
  /\ Opens(sp.accountPolicy, sp.signer, "account policy")
  /\ sp.accountPolicy.body.account = Account
  /\ Account \in LiveAccounts(sp, t)
  /\ sp.accountPolicy.body.version >= seen.version
Trusted(sp, seen, t) ==
  /\ sp.accountPolicy # NoBlob
  /\ SignerTrusted(sp, Root, seen, t)
  /\ Key \notin Revoked(sp)
  /\ Opens(sp.accountPolicy, sp.signer, "account policy")
  /\ sp.accountPolicy.body.account = Account
  /\ Account \in LiveAccounts(sp, t)
  /\ sp.accountPolicy.body.version >= seen.version

(* The account's window cuts a longer --window, and replaces a missing one.*)
ChosenWindow(w) ==
  IF w \in 1 .. FreshnessWindow /\ (Window = 0 \/ Window > w) THEN w
  ELSE IF Window = 0 THEN DefaultWindow ELSE Window

Issued(t, last) == IF t <= last THEN last + 1 ELSE t

ExpiryMutant(t, last, w) == last + ChosenWindow(w)
Expiry(t, last, w) == t + ChosenWindow(w)

Vouch(sp, seen, t, w) ==
  [kind |-> "freshness", by |-> Key,
   body |-> [policy |-> sp.accountPolicy.body, issued |-> Issued(t, seen.issued),
             expires |-> Expiry(t, seen.issued, w)]]

Answer(sp, w) ==
  /\ pc = "ask"
  /\ Trusted(sp, st, now)
  /\ pc' = "put"
  /\ bundle' = sp
  /\ out' = Vouch(sp, st, now, w)
  /\ UNCHANGED <<world, started, file, stored, now, st, faults, saved>>

Refuse(sp) ==
  /\ pc = "ask"
  /\ ~ Trusted(sp, st, now)
  /\ Done
  /\ UNCHANGED <<world, started, file, stored, faults, saved>>

Ask ==
  \E sp \in IF honest THEN {current} ELSE Bundles :
    \/ \E w \in IF honest THEN {setting} ELSE AccountWindows : Answer(sp, w)
    \/ Refuse(sp)

(* freshnessPut on the account server.                                     *)
Accepts(f) ==
  /\ stored # NoBlob => f.body.issued > stored.body.issued
  /\ setting > 0 => f.body.expires - f.body.issued <= setting

(* What the run has vouched for, once the upload was answered.             *)
Confirmed(seen, sp, f) ==
  [version |-> f.body.policy.version,
   rev |-> IF sp.revocations # NoBlob /\ sp.revocations.body.version > seen.rev
           THEN sp.revocations.body.version ELSE seen.rev,
   issued |-> f.body.issued]

Put ==
  /\ pc = "put" /\ Accepts(out)
  /\ stored' = out
  /\ st' = Confirmed(st, bundle, out)
  /\ pc' = "save"
  /\ UNCHANGED <<world, started, file, now, bundle, out, faults, saved>>

PutRefused ==
  /\ pc = "put" /\ ~ Accepts(out)
  /\ Done
  /\ UNCHANGED <<world, started, file, stored, faults, saved>>

(* The upload arrives and its answer does not.                             *)
PutLost ==
  /\ pc = "put" /\ Accepts(out)
  /\ Fault("lost")
  /\ stored' = out
  /\ Done
  /\ UNCHANGED <<world, started, file, saved>>

(* A request that fails, or a process that ends while it waits.            *)
Fail ==
  /\ pc \in {"ask", "put"}
  /\ Fault("failed")
  /\ Done
  /\ UNCHANGED <<world, started, file, stored, saved>>

-----------------------------------------------------------------------------
(* os.WriteFile truncates the file, then writes it.                        *)

Truncate ==
  /\ pc = "save"
  /\ file' = Torn
  /\ pc' = "write"
  /\ UNCHANGED <<world, started, stored, locals, faults, saved>>

Write ==
  /\ pc = "write"
  /\ file' = st /\ saved' = st
  /\ Done
  /\ UNCHANGED <<world, started, stored, faults>>

(* The host goes down, or the disk refuses, while the state is saved.      *)
Die ==
  /\ pc \in {"save", "write"}
  /\ Fault("killed")
  /\ Done
  /\ UNCHANGED <<world, started, file, stored, saved>>

-----------------------------------------------------------------------------
Step ==
  \/ Load \/ LoadTorn
  \/ Ask
  \/ Put \/ PutRefused \/ PutLost \/ Fail
  \/ Truncate \/ Write \/ Die

(* The owner signs a newer policy, good for longer than two periods; what  *)
(* a server that is not honest was given does not matter.                  *)
Publish(sp) ==
  /\ honest
  /\ sp.accountPolicy # NoBlob /\ current.accountPolicy # NoBlob
  /\ sp.accountPolicy.body.version > current.accountPolicy.body.version
  /\ Verifies(sp, Root, Fresh, clock + 2 * Period)
  /\ current' = sp
  /\ UNCHANGED <<honest, clock, lead, setting, started, file, stored, pc, locals, faults, saved>>

(* Runs are short against the timer's period: next to an honest server     *)
(* time waits for them and for a run that is due.                          *)
OnTime == clock < started + Period /\ pc = "idle"

Tick ==
  /\ clock < MaxClock
  /\ honest => OnTime
  /\ clock' = clock + 1
  /\ lead' \in 0 .. MaxLead
  /\ UNCHANGED <<honest, setting, current, started, file, stored, pc, locals, faults, saved>>

Next ==
  \/ Step
  \/ \E sp \in Bundles : Publish(sp)
  \/ Tick

Spec == Init /\ [][Next]_vars

-----------------------------------------------------------------------------
(* Properties                                                              *)

(* What a run saved as vouched for is on the server or older than what is  *)
(* there, whatever step a run dies at: the next run, which starts from the *)
(* file, cannot be made to vouch for something the file rules out.         *)
(* freshnessRefresh 245-247, 268-271; cmdPolicyRefresh 304-322.            *)
StoredAtLeastFloor ==
  stored # NoBlob => stored.body.policy.version >= saved.version

(* The floors only rise from one saved state to the next: a run whose      *)
(* answer was lost, or that died over the file, loses none of them.        *)
(* freshnessRefresh 245, 261, 271-276.                                     *)
FloorMonotone ==
  [][saved' # saved => /\ saved.version <= saved'.version
                       /\ saved.rev <= saved'.rev
                       /\ saved.issued < saved'.issued]_vars

(* Refresher and agent agree: an agent whose floors are the ones this run  *)
(* loaded accepts the policy under the statement about to be uploaded, at  *)
(* every moment from now on until the statement expires, if it is on the   *)
(* policy's list, for as long as the delegations of the policy's signer    *)
(* and of the freshness key last: what the refresher issues is never too   *)
(* far ahead, cut short or revoked for an agent.  freshnessRefresh 219-263 *)
(* against verifyAccountPolicy and verifyFreshness.                        *)
ShownWith(sp, f) == [sp EXCEPT !.freshness = f, !.freshnessSigner = Key]
Delegated(sp, t) ==
  /\ \A b \in sp.freshnessChain : Opens(b, sp.root, "freshness delegation")
  /\ \E b \in sp.freshnessChain :
       b.body.key = Key /\ b.body.account = Account /\ Live(b.body, t)
AgentFloor(seen) == [Fresh EXCEPT !.version = seen.version, !.rev = seen.rev]
Lasting(sp, t) == Account \in LiveAccounts(sp, t) /\ Delegated(sp, t)
BelievedByAgents ==
  pc = "put" /\ Machine \in bundle.accountPolicy.body.machines /\ bundle.accountPolicy.body.caOK
    => \A t \in clock .. out.body.expires - 1 :
         Lasting(bundle, t) => Verifies(ShownWith(bundle, out), Root, AgentFloor(st), t)

(* With an honest server, an agent that pulls at any moment accepts what   *)
(* it is shown: the timer keeps the policy valid past its own expiry, with *)
(* a failed or unanswered run and the owner publishing in between, as long *)
(* as no run died over the state file.  freshnessRefresh 255-260;          *)
(* p3sig-freshness.timer.                                                  *)
Accepted == Verifies(ShownWith(current, stored), Root, Fresh, clock)
AgentsFresh == honest /\ file # Torn => Accepted

(* When that holds. One run may fail: every window the account can choose  *)
(* is longer than two periods of the timer, and the clock never runs ahead *)
(* further than one period, nor than the skew agents allow.                *)
TimerKeepsUp ==
  /\ MaxFaults <= 1
  /\ MaxLead <= Period /\ MaxLead <= FreshnessClockSkew
  /\ \A w \in AccountWindows : ChosenWindow(w) > 2 * Period

(* And the owner's part: what is published names this machine, is signed   *)
(* by a device whose delegation lasts, as does that of the freshness key,  *)
(* and comes with a revocation list no older than the one before.          *)
Rev(sp) == IF sp.revocations = NoBlob THEN 0 ELSE sp.revocations.body.version
Steady(sp) ==
  /\ sp.accountPolicy # NoBlob /\ sp.freshness = NoBlob
  /\ sp.accountPolicy.body.account = Account
  /\ Machine \in sp.accountPolicy.body.machines /\ sp.accountPolicy.body.caOK
  /\ Opens(sp.accountPolicy, sp.signer, "account policy")
  /\ Key \notin Revoked(sp)
  /\ \A t \in 1 .. MaxClock + MaxLead :
       SignerTrusted(sp, Root, Fresh, t) /\ Account \in LiveAccounts(sp, t) /\ Delegated(sp, t)
OwnerSteady ==
  /\ Steady(First) /\ First.accountPolicy.body.expires > 2 * Period
  /\ \A sp \in Bundles, t \in 1 .. MaxClock :
       sp.accountPolicy # NoBlob /\ Verifies(sp, Root, Fresh, t + 2 * Period) => Steady(sp)
  /\ \A sp, old \in Bundles :
       /\ Steady(sp) /\ Steady(old)
       /\ sp.accountPolicy.body.version > old.accountPolicy.body.version
       => Rev(sp) >= Rev(old)
=============================================================================
