--------------------------- MODULE RefresherProofs ---------------------------
(***************************************************************************)
(* What holds of Refresher for every server, window, clock lead and number *)
(* of faults.                                                              *)
(***************************************************************************)
EXTENDS Refresher, TLAPS

USE FreshnessAssumption, WindowAssumption, RefresherAssumption

(* Readable: the file, when it parses, holds what was last saved; a run    *)
(* before its upload still works from that; what it offers is no older;    *)
(* and once uploaded, what it is about to save is what the server holds.   *)
FileIsSaved == file # Torn => file = saved
LoadedIsSaved == pc \in {"ask", "put"} => st = saved
OfferedAbove ==
  pc = "put" => /\ out.body.policy.version >= st.version
                /\ out.body.issued > st.issued
UploadedIsNext ==
  pc \in {"save", "write"} =>
    /\ stored # NoBlob /\ stored.body.policy.version >= st.version
    /\ saved.version <= st.version /\ saved.rev <= st.rev /\ saved.issued < st.issued
Floors == FileIsSaved /\ LoadedIsSaved /\ OfferedAbove /\ UploadedIsNext /\ StoredAtLeastFloor
IInv == TypeOK /\ Floors

-----------------------------------------------------------------------------
(* Lemmas about the operators                                              *)

(* A policy that is vouched for has a version (freshnessRefresh 216).      *)
LEMMA PolicyVersion ==
  ASSUME NEW p \in Policies PROVE p.version \in Nat
  BY DEF Policies

(* ChosenWindow is a number of ticks, whatever the settings say.           *)
LEMMA WindowIsNat ==
  ASSUME NEW w \in AccountWindows PROVE ChosenWindow(w) \in Nat
  BY DEF ChosenWindow

(* Statements signed from typed parts are typed, newer than the last one   *)
(* and not older than what was vouched for (freshnessRefresh 245-263).     *)
LEMMA VouchTyped ==
  ASSUME NEW sp \in Bundles, NEW seen \in StateType, NEW t \in Nat,
         NEW w \in AccountWindows, Trusted(sp, seen, t)
  PROVE  /\ Vouch(sp, seen, t, w) \in Statement
         /\ Vouch(sp, seen, t, w) # NoBlob
         /\ Vouch(sp, seen, t, w).body.issued > seen.issued
         /\ Vouch(sp, seen, t, w).body.policy.version >= seen.version
<1>1. sp.accountPolicy.body \in Policies BY DEF Trusted, Policies
<1>2. sp.accountPolicy.body.version >= seen.version BY DEF Trusted
<1>3. Issued(t, seen.issued) \in Nat /\ Issued(t, seen.issued) > seen.issued
  BY DEF Issued, StateType
<1>4. Expiry(t, seen.issued, w) \in Nat BY WindowIsNat DEF Expiry
<1> QED BY <1>1, <1>2, <1>3, <1>4, AbsentAssumption DEF Vouch, Statement

(* What a run has vouched for is typed, and its floors only rise.          *)
LEMMA ConfirmedRises ==
  ASSUME NEW seen \in StateType, NEW sp \in Bundles, NEW f \in Statement
  PROVE  /\ Confirmed(seen, sp, f) \in StateType
         /\ Confirmed(seen, sp, f).version = f.body.policy.version
         /\ Confirmed(seen, sp, f).rev >= seen.rev
         /\ Confirmed(seen, sp, f).issued = f.body.issued
<1>1. f.body.policy \in Policies /\ f.body.issued \in Nat BY DEF Statement
<1>2. f.body.policy.version \in Nat BY <1>1, PolicyVersion
<1> QED BY <1>1, <1>2 DEF Confirmed, StateType

-----------------------------------------------------------------------------
(* Typing: one lemma for the steps of a run, one for the rest.             *)

LEMMA InitTyped == Init => TypeOK
  BY AbsentAssumption DEF Init, TypeOK, Zero, StateType

LEMMA DoneTyped ==
  ASSUME TypeOK, Done
  PROVE  /\ pc' = "idle" /\ now' \in Nat /\ st' \in StateType
         /\ bundle' = NoBlob /\ out' = NoBlob
  BY DEF Done, Zero, StateType

LEMMA StepTyped == TypeOK /\ [Next]_vars => TypeOK'
<1> SUFFICES ASSUME TypeOK, [Next]_vars PROVE TypeOK'
  OBVIOUS
<1> USE DEF TypeOK
<1>1. CASE Load
  <2>1. clock + lead \in Nat OBVIOUS
  <2> QED BY <1>1, <2>1 DEF Load, Startable, world
<1>2. CASE LoadTorn
  BY <1>2 DEF LoadTorn, world, locals
<1>3. CASE Ask
  <2> PICK sp \in IF honest THEN {current} ELSE Bundles :
        \/ \E w \in IF honest THEN {setting} ELSE AccountWindows : Answer(sp, w)
        \/ Refuse(sp)
    BY <1>3 DEF Ask
  <2>1. sp \in Bundles OBVIOUS
  <2>2. CASE Refuse(sp)
    BY <2>2, DoneTyped DEF Refuse, world
  <2>3. ASSUME NEW w \in IF honest THEN {setting} ELSE AccountWindows, Answer(sp, w)
        PROVE  TypeOK'
    <3>1. w \in AccountWindows OBVIOUS
    <3>2. Vouch(sp, st, now, w) \in Statement /\ Vouch(sp, st, now, w) # NoBlob
      BY <2>1, <2>3, <3>1, VouchTyped DEF Answer
    <3> QED BY <2>1, <2>3, <3>2, AbsentAssumption DEF Answer, world
  <2> QED BY <2>2, <2>3
<1>4. CASE Put
  <2>1. out \in Statement BY <1>4 DEF Put
  <2>2. Confirmed(st, bundle, out) \in StateType
    BY <1>4, <2>1, ConfirmedRises DEF Put
  <2> QED BY <1>4, <2>1, <2>2 DEF Put, world
<1>5. CASE PutRefused \/ PutLost \/ Fail \/ Die
  <2>1. faults' \in Nat BY <1>5 DEF PutRefused, PutLost, Fail, Die, Fault
  <2>2. stored' \in Statement \cup {NoBlob} BY <1>5 DEF PutRefused, PutLost, Fail, Die
  <2> QED BY <1>5, <2>1, <2>2, DoneTyped DEF PutRefused, PutLost, Fail, Die, world
<1>6. CASE Truncate
  BY <1>6 DEF Truncate, world, locals
<1>7. CASE Write
  BY <1>7, DoneTyped DEF Write, world
<1>8. ASSUME NEW sp \in Bundles, Publish(sp) PROVE TypeOK'
  BY <1>8 DEF Publish, locals
<1>9. CASE Tick
  BY <1>9 DEF Tick, locals
<1>10. CASE UNCHANGED vars
  BY <1>10 DEF vars, world, locals
<1> QED
  BY <1>1, <1>2, <1>3, <1>4, <1>5, <1>6, <1>7, <1>8, <1>9, <1>10 DEF Next, Step

-----------------------------------------------------------------------------
(* The floors: one step per action.                                        *)

LEMMA InitFloors == Init => Floors
  BY DEF Init, Floors, FileIsSaved, LoadedIsSaved, OfferedAbove, UploadedIsNext,
         StoredAtLeastFloor

LEMMA StepFloors ==
  ASSUME TypeOK, TypeOK', Floors, [Next]_vars
  PROVE  Floors'
<1> USE DEF Floors, FileIsSaved, LoadedIsSaved, OfferedAbove, UploadedIsNext,
            StoredAtLeastFloor
<1> DEFINE Same == UNCHANGED <<file, saved, stored>>
<1>a. ASSUME Same, Done PROVE Floors'
  BY <1>a DEF Done
<1>1. CASE Load
  BY <1>1 DEF Load, Startable, world
<1>2. CASE LoadTorn
  BY <1>2 DEF LoadTorn, locals
<1>3. CASE Ask
  <2> PICK sp \in IF honest THEN {current} ELSE Bundles :
        \/ \E w \in IF honest THEN {setting} ELSE AccountWindows : Answer(sp, w)
        \/ Refuse(sp)
    BY <1>3 DEF Ask
  <2>1. CASE Refuse(sp)
    BY <2>1, <1>a DEF Refuse
  <2>2. ASSUME NEW w \in IF honest THEN {setting} ELSE AccountWindows, Answer(sp, w)
        PROVE  Floors'
    <3>1. sp \in Bundles /\ w \in AccountWindows BY DEF TypeOK
    <3>2. /\ out'.body.issued > st.issued
          /\ out'.body.policy.version >= st.version
      BY <2>2, <3>1, VouchTyped DEF Answer, TypeOK
    <3> QED BY <2>2, <3>2 DEF Answer
  <2> QED BY <2>1, <2>2
<1>4. CASE Put
  <2>1. /\ st' = Confirmed(st, bundle, out)
        /\ stored' = out /\ pc' = "save" /\ UNCHANGED <<file, saved>>
    BY <1>4 DEF Put
  <2>2. out \in Statement /\ bundle \in Bundles /\ st \in StateType /\ st = saved
    BY <1>4 DEF Put, TypeOK
  <2>3. /\ st'.version = out.body.policy.version /\ st'.rev >= st.rev
        /\ st'.issued = out.body.issued
    BY <2>1, <2>2, ConfirmedRises
  <2>4. out.body.policy.version \in Nat BY <2>2, PolicyVersion DEF Statement
  <2>5. /\ out.body.policy.version >= st.version /\ out.body.issued > st.issued
    BY <1>4 DEF Put
  <2> QED BY <2>1, <2>2, <2>3, <2>4, <2>5, AbsentAssumption DEF StateType, TypeOK
<1>5. CASE PutLost
  <2>1. stored' = out /\ UNCHANGED <<file, saved>> /\ Done
    BY <1>5 DEF PutLost
  <2>2. out.body.policy.version >= saved.version
    BY <1>5 DEF PutLost
  <2> QED BY <2>1, <2>2 DEF Done
<1>6. CASE PutRefused \/ Fail \/ Die
  BY <1>6, <1>a DEF PutRefused, Fail, Die
<1>7. CASE Truncate
  BY <1>7 DEF Truncate, locals
<1>8. CASE Write
  BY <1>8 DEF Write, Done
<1>9. ASSUME NEW sp \in Bundles, Publish(sp) PROVE Floors'
  BY <1>9 DEF Publish, locals
<1>10. CASE Tick
  BY <1>10 DEF Tick, locals
<1>11. CASE UNCHANGED vars
  BY <1>11 DEF vars, world, locals
<1> QED
  BY <1>1, <1>2, <1>3, <1>4, <1>5, <1>6, <1>7, <1>8, <1>9, <1>10, <1>11
     DEF Next, Step

(* Only Write changes what is saved, and it raises the floors.             *)
LEMMA StepRises ==
  ASSUME TypeOK, Floors, [Next]_vars, saved' # saved
  PROVE  saved.version <= saved'.version /\ saved.rev <= saved'.rev /\ saved.issued < saved'.issued
<1>1. CASE Write
  BY <1>1 DEF Write, Floors, UploadedIsNext
<1>2. CASE ~ Write
  BY <1>2 DEF Next, Step, Load, LoadTorn, Ask, Answer, Refuse, Put,
     PutRefused, PutLost, Fail, Truncate, Die, Publish, Tick, vars
<1> QED BY <1>1, <1>2

-----------------------------------------------------------------------------
(* The results                                                             *)

(* The refresher's state, statement and locals stay well formed, whatever  *)
(* the account server answers and whichever fault happens.                 *)
THEOREM RefresherTypeCorrect == Spec => []TypeOK
<1>1. Init => TypeOK BY InitTyped
<1>2. TypeOK /\ [Next]_vars => TypeOK' BY StepTyped
<1> QED BY <1>1, <1>2, PTL DEF Spec

LEMMA RefresherInvariant == Spec => []IInv
<1>1. Init => IInv BY InitTyped, InitFloors DEF IInv
<1>2. IInv /\ [Next]_vars => IInv' BY StepTyped, StepFloors DEF IInv
<1> QED BY <1>1, <1>2, PTL DEF Spec

(* What the account server holds is never older than what the refresher    *)
(* saved, through lost answers, failures and deaths at any step.           *)
THEOREM RefresherStoredAtLeastFloor == Spec => []StoredAtLeastFloor
<1>1. IInv => StoredAtLeastFloor BY DEF IInv, Floors
<1> QED BY <1>1, RefresherInvariant, PTL

(* Each saved state raises the floors for policy, revocation list and      *)
(* issue time.                                                             *)
THEOREM RefresherFloorMonotone == Spec => FloorMonotone
<1>1. IInv /\ [Next]_vars => [saved' # saved => /\ saved.version <= saved'.version
                                               /\ saved.rev <= saved'.rev
                                               /\ saved.issued < saved'.issued]_vars
  BY StepRises DEF IInv
<1> QED BY <1>1, RefresherInvariant, PTL DEF Spec, FloorMonotone

-----------------------------------------------------------------------------
(* What an agent makes of the statement                                    *)

(* What is uploaded was vouched for: the run was answered a bundle it      *)
(* trusts, and signed for that one.                                        *)
Vouched ==
  pc = "put" => /\ Trusted(bundle, st, now)
                /\ \E w \in AccountWindows : out = Vouch(bundle, st, now, w)

(* The issue times that were saved stay within this host's lead of the     *)
(* last run's start, although a run whose clock went back signs one more   *)
(* than the last: runs start at different ticks.                           *)
SavedInReach  == saved.issued <= started + MaxLead
StoredInReach ==
  stored # NoBlob => /\ stored.body.issued <= started + MaxLead
                     /\ stored.body.expires <= stored.body.issued + FreshnessWindow
RunInReach ==
  pc # "idle" => /\ now >= started /\ now <= started + MaxLead
                 /\ pc = "ask" => st.issued < started + MaxLead
                 /\ pc \in {"save", "write"} => st.issued <= started + MaxLead
OutInReach ==
  pc \in {"put", "save", "write"} =>
    /\ out.body.issued <= started + MaxLead
    /\ out.body.expires <= out.body.issued + FreshnessWindow
StartedPast == started <= clock
InReach == SavedInReach /\ StoredInReach /\ RunInReach /\ OutInReach /\ StartedPast

(* The chosen window is at least one tick and within the cap.              *)
LEMMA WindowCapped ==
  ASSUME NEW w \in AccountWindows
  PROVE  ChosenWindow(w) \in 1 .. FreshnessWindow
  BY DEF ChosenWindow

(* The issue time is the clock's, or one more than the last one.           *)
LEMMA VouchTimes ==
  ASSUME NEW sp \in Bundles, NEW seen \in StateType, NEW t \in Nat, NEW w \in AccountWindows
  PROVE  LET f == Vouch(sp, seen, t, w).body IN
         /\ f.policy = sp.accountPolicy.body
         /\ f.expires = t + ChosenWindow(w) /\ f.expires \in Nat
         /\ f.issued \in Nat /\ f.issued >= t
         /\ f.issued = t \/ f.issued = seen.issued + 1
         /\ f.expires <= f.issued + FreshnessWindow
<1>1. ChosenWindow(w) \in 1 .. FreshnessWindow BY WindowCapped
<1>2. seen.issued \in Nat BY DEF StateType
<1> QED BY <1>1, <1>2 DEF Vouch, Issued, Expiry

LEMMA InitVouched == Init => Vouched /\ InReach
  BY AbsentAssumption
  DEF Init, Zero, Vouched, InReach, SavedInReach, StoredInReach, RunInReach, OutInReach, StartedPast

LEMMA StepVouched ==
  ASSUME TypeOK, Vouched, [Next]_vars
  PROVE  Vouched'
<1> USE DEF Vouched
<1>1. CASE Ask
  <2> PICK sp \in IF honest THEN {current} ELSE Bundles :
        \/ \E w \in IF honest THEN {setting} ELSE AccountWindows : Answer(sp, w)
        \/ Refuse(sp)
    BY <1>1 DEF Ask
  <2>1. CASE Refuse(sp)
    BY <2>1 DEF Refuse, Done
  <2>2. ASSUME NEW w \in IF honest THEN {setting} ELSE AccountWindows, Answer(sp, w)
        PROVE  Vouched'
    <3>1. w \in AccountWindows BY DEF TypeOK
    <3>2. /\ bundle' = sp /\ st' = st /\ now' = now /\ out' = Vouch(sp, st, now, w)
          /\ Trusted(sp, st, now)
      BY <2>2 DEF Answer
    <3> QED BY <3>1, <3>2
  <2> QED BY <2>1, <2>2
<1>2. CASE Load \/ Put \/ PutRefused \/ PutLost \/ Fail \/ Truncate \/ Write \/ Die
  <2>1. pc' # "put"
    BY <1>2 DEF Load, Put, PutRefused, PutLost, Fail, Truncate, Write, Die, Done
  <2> QED BY <2>1
<1>3. CASE LoadTorn \/ Tick \/ (\E sp \in Bundles : Publish(sp)) \/ UNCHANGED vars
  <2>1. UNCHANGED <<pc, bundle, st, now, out>>
    BY <1>3 DEF LoadTorn, Tick, Publish, vars, locals
  <2> QED BY <2>1
<1> QED BY <1>1, <1>2, <1>3 DEF Next, Step

LEMMA StepInReach ==
  ASSUME TypeOK, TypeOK', Floors, InReach, [Next]_vars
  PROVE  InReach'
<1> USE DEF InReach, SavedInReach, StoredInReach, RunInReach, OutInReach, StartedPast
<1>0. /\ clock \in Nat /\ lead \in 0 .. MaxLead /\ started \in Nat /\ now \in Nat
      /\ saved.issued \in Nat /\ st.issued \in Nat
  BY DEF TypeOK, StateType
<1>a. ASSUME Done, UNCHANGED <<clock, started, saved>>, StoredInReach' PROVE InReach'
  BY <1>a DEF Done
<1>1. CASE Load
  <2>1. /\ pc' = "ask" /\ started' = clock /\ started < clock /\ st' = file
        /\ now' = clock + lead /\ UNCHANGED <<clock, saved, stored, out>>
    BY <1>1 DEF Load, Startable, world
  <2>2. st' = saved BY <1>1, <2>1 DEF Load, Floors, FileIsSaved
  <2>3. StoredInReach'
    <3>1. ASSUME stored # NoBlob PROVE stored.body.issued \in Nat
      BY <3>1 DEF TypeOK, Statement
    <3> QED BY <1>0, <2>1, <3>1
  <2> QED BY <1>0, <2>1, <2>2, <2>3
<1>2. CASE LoadTorn
  <2>1. started' = clock /\ started < clock /\ pc = "idle" /\ UNCHANGED <<clock, saved, stored, pc>>
    BY <1>2 DEF LoadTorn, Startable, world
  <2>2. ASSUME stored # NoBlob PROVE stored.body.issued \in Nat
    BY <2>2 DEF TypeOK, Statement
  <2> QED BY <1>0, <2>1, <2>2
<1>3. CASE Ask
  <2> PICK sp \in IF honest THEN {current} ELSE Bundles :
        \/ \E w \in IF honest THEN {setting} ELSE AccountWindows : Answer(sp, w)
        \/ Refuse(sp)
    BY <1>3 DEF Ask
  <2>1. CASE Refuse(sp)
    BY <2>1, <1>a DEF Refuse, world
  <2>2. ASSUME NEW w \in IF honest THEN {setting} ELSE AccountWindows, Answer(sp, w)
        PROVE  InReach'
    <3>1. w \in AccountWindows /\ sp \in Bundles /\ st \in StateType BY DEF TypeOK
    <3>2. /\ pc = "ask" /\ pc' = "put" /\ out' = Vouch(sp, st, now, w)
          /\ UNCHANGED <<clock, started, saved, stored, now>>
      BY <2>2 DEF Answer, world
    <3>3. /\ out'.body.issued = now \/ out'.body.issued = st.issued + 1
          /\ out'.body.expires <= out'.body.issued + FreshnessWindow
      BY <1>0, <3>1, <3>2, VouchTimes
    <3>4. now <= started + MaxLead /\ st.issued + 1 <= started + MaxLead
      BY <1>0, <3>2
    <3> QED BY <1>0, <3>2, <3>3, <3>4
  <2> QED BY <2>1, <2>2
<1>4. CASE Put
  <2>1. /\ pc = "put" /\ pc' = "save" /\ stored' = out /\ st' = Confirmed(st, bundle, out)
        /\ UNCHANGED <<clock, started, now, out, saved>>
    BY <1>4 DEF Put, world
  <2>2. st'.issued = out.body.issued BY <2>1 DEF Confirmed
  <2> QED BY <1>0, <2>1, <2>2
<1>5. CASE PutLost
  BY <1>5, <1>a DEF PutLost, world
<1>6. CASE PutRefused \/ Fail \/ Die
  BY <1>6, <1>a DEF PutRefused, Fail, Die, world
<1>7. CASE Truncate
  <2>1. /\ pc = "save" /\ pc' = "write"
        /\ UNCHANGED <<clock, started, stored, saved, st, now, out>>
    BY <1>7 DEF Truncate, world, locals
  <2> QED BY <2>1
<1>8. CASE Write
  <2>1. /\ pc = "write" /\ saved' = st /\ Done
        /\ UNCHANGED <<clock, started, stored>>
    BY <1>8 DEF Write, world
  <2> QED BY <2>1 DEF Done
<1>9. CASE Tick
  <2>1. clock' = clock + 1 /\ UNCHANGED <<started, stored, saved, pc, st, now, out>>
    BY <1>9 DEF Tick, locals
  <2> QED BY <1>0, <2>1
<1>10. CASE (\E sp \in Bundles : Publish(sp)) \/ UNCHANGED vars
  <2>1. UNCHANGED <<clock, started, stored, saved, pc, st, now, out>>
    BY <1>10 DEF Publish, locals, vars, world
  <2> QED BY <2>1
<1> QED
  BY <1>1, <1>2, <1>3, <1>4, <1>5, <1>6, <1>7, <1>8, <1>9, <1>10 DEF Next, Step

(* The statement and the policy it extends, as a bundle carries them.      *)
LEMMA ShownParts ==
  ASSUME NEW sp \in Bundles, NEW f
  PROVE  LET s == ShownWith(sp, f) IN
         /\ s.freshness = f /\ s.freshnessSigner = Key
         /\ s.root = sp.root /\ s.chain = sp.chain /\ s.signer = sp.signer
         /\ s.revocations = sp.revocations /\ s.accountPolicy = sp.accountPolicy
         /\ s.freshnessChain = sp.freshnessChain
<1>1. DOMAIN sp = Parts OBVIOUS
<1> QED BY <1>1 DEF ShownWith, Parts

(* What makes the refresher trust a bundle makes an agent trust it, apart  *)
(* from the policy's expiry: floors that are no higher, and the same       *)
(* signer checks.                                                          *)
LEMMA ShownTrusted ==
  ASSUME NEW sp \in Bundles, NEW f, NEW t \in Nat, NEW floor,
         sp.accountPolicy # NoBlob, SignerTrusted(sp, Root, floor, t),
         Opens(sp.accountPolicy, sp.signer, "account policy"),
         sp.accountPolicy.body.account \in LiveAccounts(sp, t),
         sp.accountPolicy.body.version >= floor.version,
         Machine \in sp.accountPolicy.body.machines, sp.accountPolicy.body.caOK,
         t < GoodUntil(ShownWith(sp, f), t)
  PROVE  Verifies(ShownWith(sp, f), Root, floor, t)
<1> DEFINE s == ShownWith(sp, f)
<1>1. /\ s.root = sp.root /\ s.chain = sp.chain /\ s.signer = sp.signer
      /\ s.revocations = sp.revocations /\ s.accountPolicy = sp.accountPolicy
  BY ShownParts
<1>2. Served(s) = sp.accountPolicy /\ IsAccount(s) BY <1>1 DEF Served, IsAccount
<1>3. LiveAccounts(s, t) = LiveAccounts(sp, t) BY <1>1 DEF LiveAccounts
<1>4. SignerTrusted(s, Root, floor, t)
  BY <1>1, <1>3
  DEF SignerTrusted, RootPinned, RevocationsAccepted, Revoked, ChainOpens
<1>5. FormatKind(s) = "account policy" BY <1>2 DEF FormatKind
<1> HIDE DEF s
<1>6. t < GoodUntil(s, t) BY DEF s
<1>7. Verifies(s, Root, floor, t)
  BY <1>1, <1>2, <1>3, <1>4, <1>5, <1>6 DEF Verifies, Offered, NoDowngrade, NotReplayed
<1> QED BY <1>7 DEF s

(* A statement the freshness key signed for the bundle's policy, issued    *)
(* within the skew and not past its end, extends that policy; one that is  *)
(* no longer good for an agent leaves it its own expiry.                   *)
LEMMA ShownGood ==
  ASSUME NEW sp \in Bundles, NEW f \in Statement, NEW t \in Nat,
         sp.accountPolicy # NoBlob, sp.accountPolicy.body.account = Account,
         Key \notin Revoked(sp), Delegated(sp, t), f # NoBlob,
         f.body.policy = sp.accountPolicy.body,
         f.body.issued <= t + FreshnessClockSkew, t < f.body.expires,
         f.body.expires <= f.body.issued + FreshnessWindow
  PROVE  t < GoodUntil(ShownWith(sp, f), t)
<1> DEFINE s == ShownWith(sp, f)
<1>1. /\ s.freshness = f /\ s.freshnessSigner = Key /\ s.root = sp.root
      /\ s.revocations = sp.revocations /\ s.accountPolicy = sp.accountPolicy
      /\ s.freshnessChain = sp.freshnessChain
  BY ShownParts
<1> HIDE DEF s
<1>2. Served(s) = sp.accountPolicy /\ IsAccount(s) BY <1>1 DEF Served, IsAccount
<1>3. f.body.issued \in Nat /\ f.body.expires \in Nat /\ f.by = Key /\ f.kind = "freshness"
  BY DEF Statement
<1>4. VouchedUntil(f.body) = f.body.expires BY <1>3 DEF VouchedUntil
<1>5. Vouches(s, sp.accountPolicy.body, t)
  BY <1>1, <1>3, <1>4 DEF Vouches, FreshnessKeyTrusted, Delegated, Revoked, Opens
<1>6. sp.accountPolicy.body.expires \in Nat OBVIOUS
<1>7. t < GoodUntil(s, t) BY <1>1, <1>2, <1>3, <1>4, <1>5, <1>6 DEF GoodUntil
<1> QED BY <1>7 DEF s

(* What makes a signer trusted does not depend on the time, but for its    *)
(* delegation.                                                             *)
LEMMA TrustedLater ==
  ASSUME NEW sp, NEW floor, NEW u, NEW t,
         SignerTrusted(sp, Root, floor, u), Account \in LiveAccounts(sp, t)
  PROVE  SignerTrusted(sp, Root, floor, t)
BY DEF SignerTrusted

LEMMA InReachBelieved ==
  ASSUME MaxLead <= FreshnessClockSkew, TypeOK, Vouched, InReach
  PROVE  BelievedByAgents
<1> SUFFICES ASSUME pc = "put",
                    Machine \in bundle.accountPolicy.body.machines,
                    bundle.accountPolicy.body.caOK,
                    NEW t \in clock .. out.body.expires - 1, Lasting(bundle, t)
             PROVE  Verifies(ShownWith(bundle, out), Root, AgentFloor(st), t)
  BY DEF BelievedByAgents
<1>1. bundle \in Bundles /\ out \in Statement /\ out # NoBlob /\ now \in Nat /\ st \in StateType
      /\ started \in Nat /\ clock \in Nat
  BY DEF TypeOK
<1>2. Trusted(bundle, st, now) BY DEF Vouched
<1> PICK w \in AccountWindows : out = Vouch(bundle, st, now, w) BY DEF Vouched
<1>3. /\ out.body.policy = bundle.accountPolicy.body
      /\ out.body.issued \in Nat /\ out.body.expires \in Nat
      /\ out.body.expires <= out.body.issued + FreshnessWindow
  <2>1. LET f == Vouch(bundle, st, now, w).body IN
        /\ f.policy = bundle.accountPolicy.body
        /\ f.expires = now + ChosenWindow(w) /\ f.expires \in Nat
        /\ f.issued \in Nat /\ f.issued >= now
        /\ f.issued = now \/ f.issued = st.issued + 1
        /\ f.expires <= f.issued + FreshnessWindow
    BY <1>1, VouchTimes
  <2> QED BY <2>1
<1>4. t \in Nat /\ clock <= t /\ t < out.body.expires BY <1>1, <1>3
<1>5. out.body.issued <= t + FreshnessClockSkew
  BY <1>1, <1>3, <1>4 DEF InReach, OutInReach, StartedPast
<1>6. Account \in LiveAccounts(bundle, t) /\ Delegated(bundle, t) BY DEF Lasting
<1>7. t < GoodUntil(ShownWith(bundle, out), t)
  BY <1>1, <1>2, <1>3, <1>4, <1>5, <1>6, ShownGood DEF Trusted
<1>8. AgentFloor(st).version = st.version /\ AgentFloor(st).rev = st.rev
  BY DEF AgentFloor, Fresh
<1>9. SignerTrusted(bundle, Root, AgentFloor(st), now)
  BY <1>2, <1>8 DEF Trusted, SignerTrusted, RevocationsAccepted, NotOlder
<1>10. SignerTrusted(bundle, Root, AgentFloor(st), t) BY <1>6, <1>9, TrustedLater
<1> QED BY <1>1, <1>2, <1>4, <1>6, <1>7, <1>8, <1>10, ShownTrusted DEF Trusted

-----------------------------------------------------------------------------
(* Refresher and agent agree: as long as this host's clock never runs      *)
(* further ahead than the skew agents allow, an agent with the same floors *)
(* accepts what the refresher vouches for at every moment until it expires *)
(* (while the delegations of signer and freshness key last).               *)
THEOREM RefresherBelieved ==
  ASSUME MaxLead <= FreshnessClockSkew PROVE Spec => []BelievedByAgents
<1> DEFINE Inv == IInv /\ Vouched /\ InReach
<1>1. Init => Inv BY InitTyped, InitFloors, InitVouched DEF IInv
<1>2. Inv /\ [Next]_vars => Inv' BY StepTyped, StepFloors, StepVouched, StepInReach DEF IInv
<1>3. Inv => BelievedByAgents BY InReachBelieved DEF IInv
<1> HIDE DEF Inv
<1> QED BY <1>1, <1>2, <1>3, PTL DEF Spec

-----------------------------------------------------------------------------
(* With an honest server and the timer on time                             *)

(* TimerKept: with an honest server and the timer on time, a run starts    *)
(* within a period of the last and ends within its tick.                   *)
TimerKept ==
  /\ clock \in 1 .. MaxClock
  /\ honest => /\ clock <= started + Period
               /\ pc # "idle" => clock = started

(* OwnersFloors: what the owner published last is steady, and no older     *)
(* than anything the refresher remembers.                                  *)
NoneAbove(seen) == seen.version <= current.accountPolicy.body.version /\ seen.rev <= Rev(current)
OwnersFloors ==
  honest =>
    /\ Steady(current)
    /\ NoneAbove(saved) /\ NoneAbove(st)
    /\ pc = "put" =>
         NoneAbove([version |-> bundle.accountPolicy.body.version, rev |-> Rev(bundle)])

(* HonestOffer: a run signs for the account's window, longer than two      *)
(* periods; the policy it signed for is the current one, or the current    *)
(* one came in between and lasts as long.                                  *)
End == current.accountPolicy.body.expires
HonestOffer ==
  honest /\ pc = "put" =>
    /\ out = Vouch(bundle, st, now, setting)
    /\ out.body.policy = current.accountPolicy.body \/ End > started + 2 * Period

(* NoneLost: before the first fault the server holds what was saved, or is *)
(* about to be.                                                            *)
NoneLost ==
  faults = 0 /\ stored # NoBlob =>
    stored.body.issued = IF pc \in {"save", "write"} THEN st.issued ELSE saved.issued

(* KeptValid: agents accept the current policy until the run that will     *)
(* have replaced the statement: one period on, and one more when a run may *)
(* still fail; and a period on from an issue time the next run may find    *)
(* ahead of its own, and be refused for.                                   *)
LastsFor(sp, f, t) ==
  \/ sp.accountPolicy.body.expires > t
  \/ f # NoBlob /\ f.body.policy = sp.accountPolicy.body /\ f.body.expires > t
Lasts(t) == LastsFor(current, stored, t)
Spare == IF faults = 0 THEN Period ELSE 0
KeptValid ==
  honest /\ (file # Torn \/ pc # "idle") =>
    /\ pc = "idle" => Lasts(started + Period + Spare)
    /\ pc \in {"ask", "put"} => Lasts(started + Spare)
    /\ pc \in {"save", "write"} => Lasts(started + 2 * Period)
    /\ pc \notin {"save", "write"} /\ stored # NoBlob => Lasts(stored.body.issued + Period)
OnTimeInv == TimerKept /\ OwnersFloors /\ HonestOffer /\ NoneLost /\ KeptValid

(* Lasting is lasting until anything earlier.                              *)
LEMMA LastsEarlier ==
  ASSUME NEW sp \in Bundles, Steady(sp), NEW f \in Statement \cup {NoBlob},
         NEW t \in Nat, NEW u \in Nat, u <= t, LastsFor(sp, f, t)
  PROVE  LastsFor(sp, f, u)
<1>1. sp.accountPolicy.body.expires \in Nat BY DEF Steady
<1>2. f # NoBlob => f.body.expires \in Nat BY DEF Statement
<1> QED BY <1>1, <1>2 DEF LastsFor

(* An account's window is kept to: a statement for it is no longer.        *)
LEMMA WindowWithin ==
  ASSUME NEW w \in AccountWindows, w > 0 PROVE ChosenWindow(w) <= w
<1>1. w \in Nat OBVIOUS
<1> QED BY <1>1 DEF ChosenWindow

LEMMA RevIsNat ==
  ASSUME NEW sp \in Bundles PROVE Rev(sp) \in Nat
  BY DEF Rev

(* With floors no higher, a steady bundle is one to vouch for.             *)
LEMMA SteadyTrusted ==
  ASSUME NEW sp \in Bundles, Steady(sp), NEW seen \in StateType,
         NEW t \in 1 .. MaxClock + MaxLead,
         seen.version <= sp.accountPolicy.body.version, seen.rev <= Rev(sp)
  PROVE  Trusted(sp, seen, t)
<1>1. SignerTrusted(sp, Root, Fresh, t) /\ Account \in LiveAccounts(sp, t) BY DEF Steady
<1>2. RevocationsAccepted(sp, seen)
  BY <1>1 DEF SignerTrusted, RevocationsAccepted, Rev, NotOlder, StateType, Fresh
<1>3. SignerTrusted(sp, Root, seen, t) BY <1>1, <1>2 DEF SignerTrusted
<1>4. sp.accountPolicy.body.version >= seen.version BY DEF Steady, StateType
<1> QED BY <1>1, <1>3, <1>4 DEF Trusted, Steady

(* A bundle that carries no statement is good until its policy expires.    *)
LEMMA PublishedGood ==
  ASSUME NEW sp \in Bundles, Steady(sp), NEW t \in Nat, Verifies(sp, Root, Fresh, t)
  PROVE  t < sp.accountPolicy.body.expires
<1>1. ~ Vouches(sp, sp.accountPolicy.body, t) BY DEF Vouches, Steady
<1>2. Served(sp) = sp.accountPolicy BY DEF Served, IsAccount, Steady
<1>3. GoodUntil(sp, t) = sp.accountPolicy.body.expires BY <1>1, <1>2 DEF GoodUntil
<1> QED BY <1>3 DEF Verifies

LEMMA InitOnTime == TimerKeepsUp /\ OwnerSteady /\ Init => OnTimeInv
<1> SUFFICES ASSUME TimerKeepsUp, OwnerSteady, Init PROVE OnTimeInv
  OBVIOUS
<1>1. Steady(First) /\ First.accountPolicy.body.expires > 2 * Period
      /\ First.accountPolicy.body.version \in Nat /\ Rev(First) \in Nat
  BY RevIsNat DEF OwnerSteady, Steady
<1>2. TimerKept BY DEF Init, TimerKept
<1>3. OwnersFloors BY <1>1 DEF Init, OwnersFloors, NoneAbove, Zero
<1>4. HonestOffer /\ NoneLost BY DEF Init, HonestOffer, NoneLost
<1>5. KeptValid BY <1>1 DEF Init, KeptValid, Lasts, LastsFor, Spare
<1> QED BY <1>2, <1>3, <1>4, <1>5 DEF OnTimeInv

(* Time waits for a run and for the timer.                                 *)
LEMMA StepTimer ==
  ASSUME TypeOK, TimerKept, [Next]_vars PROVE TimerKept'
<1> USE DEF TimerKept, TypeOK
<1>1. CASE Load
  BY <1>1 DEF Load, Startable, world
<1>2. CASE LoadTorn
  BY <1>2 DEF LoadTorn, Startable, world, locals
<1>3. CASE Ask \/ Put \/ PutRefused \/ PutLost \/ Fail \/ Truncate \/ Write \/ Die
  <2>1. UNCHANGED <<honest, clock, started>> /\ pc # "idle"
    BY <1>3 DEF Ask, Answer, Refuse, Put, PutRefused, PutLost, Fail, Truncate, Write, Die, world
  <2> QED BY <2>1
<1>4. CASE Tick
  BY <1>4 DEF Tick, OnTime, locals
<1>5. CASE (\E sp \in Bundles : Publish(sp)) \/ UNCHANGED vars
  BY <1>5 DEF Publish, vars, world, locals
<1> QED BY <1>1, <1>2, <1>3, <1>4, <1>5 DEF Next, Step

(* Floors come from bundles the owner published, and a newer policy comes  *)
(* with a list that is no older.                                           *)
LEMMA StepOwners ==
  ASSUME OwnerSteady, TypeOK, TypeOK', Floors, Vouched, TimerKept, OwnersFloors, [Next]_vars
  PROVE  OwnersFloors'
<1> USE DEF OwnersFloors
<1> SUFFICES ASSUME honest' PROVE OwnersFloors'
  OBVIOUS
<1>0. honest /\ honest' = honest
  BY DEF Next, Step, Load, LoadTorn, Ask, Answer, Refuse, Put, PutRefused, PutLost, Fail,
     Truncate, Write, Die, Publish, Tick, vars, world
<1>1. /\ Steady(current) /\ current \in Bundles
      /\ current.accountPolicy.body.version \in Nat /\ Rev(current) \in Nat
  BY <1>0, RevIsNat DEF TypeOK, Steady
<1>2. NoneAbove(Zero) BY <1>1 DEF NoneAbove, Zero
<1>a. ASSUME Done, UNCHANGED <<saved, current>> PROVE OwnersFloors'
  BY <1>0, <1>2, <1>a DEF Done, NoneAbove
<1>3. CASE Load
  <2>1. st' = saved /\ pc' = "ask" /\ UNCHANGED <<saved, current>>
    BY <1>3 DEF Load, Startable, world, Floors, FileIsSaved
  <2> QED BY <1>0, <2>1 DEF NoneAbove
<1>4. CASE Ask
  <2> PICK sp \in {current} : \/ \E w \in {setting} : Answer(sp, w)
                              \/ Refuse(sp)
    BY <1>0, <1>4 DEF Ask
  <2>1. CASE Refuse(sp)
    BY <2>1, <1>a DEF Refuse, world
  <2>2. CASE Answer(sp, setting)
    <3>1. bundle' = current /\ UNCHANGED <<saved, current, st>>
      BY <2>2 DEF Answer, world
    <3>2. NoneAbove([version |-> current.accountPolicy.body.version, rev |-> Rev(current)])
      BY <1>1 DEF NoneAbove
    <3> QED BY <1>0, <3>1, <3>2 DEF NoneAbove
  <2> QED BY <2>1, <2>2
<1>5. CASE Put
  <2>1. /\ pc = "put" /\ pc' = "save" /\ st' = Confirmed(st, bundle, out)
        /\ UNCHANGED <<saved, current>>
    BY <1>5 DEF Put, world
  <2>2. NoneAbove([version |-> bundle.accountPolicy.body.version, rev |-> Rev(bundle)])
    BY <1>0, <2>1
  <2>3. out.body.policy = bundle.accountPolicy.body
    BY <2>1 DEF Vouched, Vouch
  <2>4. st'.version = bundle.accountPolicy.body.version /\ (st'.rev = st.rev \/ st'.rev = Rev(bundle))
    BY <2>1, <2>3 DEF Confirmed, Rev
  <2>5. NoneAbove(st') BY <1>0, <2>2, <2>4 DEF NoneAbove
  <2> QED BY <1>0, <2>1, <2>5 DEF NoneAbove
<1>6. CASE PutRefused \/ PutLost \/ Fail \/ Die
  BY <1>6, <1>a DEF PutRefused, PutLost, Fail, Die, world
<1>7. CASE Write
  <2>1. saved' = st /\ Done /\ UNCHANGED current BY <1>7 DEF Write, world
  <2> QED BY <1>0, <1>2, <2>1 DEF Done, NoneAbove
<1>8. ASSUME NEW sp \in Bundles, Publish(sp) PROVE OwnersFloors'
  <2>1. /\ current' = sp /\ UNCHANGED <<saved, st, bundle, pc>>
        /\ sp.accountPolicy # NoBlob /\ Verifies(sp, Root, Fresh, clock + 2 * Period)
        /\ sp.accountPolicy.body.version > current.accountPolicy.body.version
    BY <1>8 DEF Publish, locals
  <2>2. Steady(sp) BY <2>1 DEF OwnerSteady, TimerKept
  <2>3. Rev(sp) >= Rev(current) BY <1>1, <2>1, <2>2 DEF OwnerSteady
  <2>4. sp.accountPolicy.body.version \in Nat /\ Rev(sp) \in Nat BY <2>2, RevIsNat DEF Steady
  <2>5. ASSUME NEW seen, seen.version \in Nat, seen.rev \in Nat, NoneAbove(seen)
        PROVE  seen.version <= sp.accountPolicy.body.version /\ seen.rev <= Rev(sp)
    BY <1>1, <2>1, <2>3, <2>4, <2>5 DEF NoneAbove
  <2>6. /\ saved.version \in Nat /\ saved.rev \in Nat /\ st.version \in Nat /\ st.rev \in Nat
    BY DEF TypeOK, StateType
  <2>7. NoneAbove(saved)' /\ NoneAbove(st)'
    BY <1>0, <2>1, <2>5, <2>6 DEF NoneAbove
  <2>8. ASSUME pc = "put"
        PROVE  /\ bundle.accountPolicy.body.version <= sp.accountPolicy.body.version
               /\ Rev(bundle) <= Rev(sp)
    <3>1. bundle \in Bundles /\ bundle.accountPolicy # NoBlob
      BY <2>8 DEF Vouched, Trusted, TypeOK
    <3>2. bundle.accountPolicy.body.version \in Nat /\ Rev(bundle) \in Nat BY <3>1, RevIsNat
    <3>3. /\ bundle.accountPolicy.body.version <= current.accountPolicy.body.version
          /\ Rev(bundle) <= Rev(current)
      BY <1>0, <2>8 DEF NoneAbove
    <3> QED BY <1>1, <2>1, <2>3, <2>4, <3>2, <3>3
  <2> QED BY <2>1, <2>2, <2>7, <2>8 DEF NoneAbove
<1>9. CASE LoadTorn \/ Truncate \/ Tick \/ UNCHANGED vars
  <2>1. UNCHANGED <<saved, st, current, bundle>> /\ (pc' = "put" => pc = "put")
    BY <1>9 DEF LoadTorn, Truncate, Tick, vars, world, locals
  <2> QED BY <1>0, <2>1 DEF NoneAbove
<1> QED BY <1>3, <1>4, <1>5, <1>6, <1>7, <1>8, <1>9 DEF Next, Step

(* What a run signs is for the policy it was given.                        *)
LEMMA StepOffer ==
  ASSUME TypeOK, TypeOK', TimerKept, OwnersFloors, OwnersFloors', HonestOffer, [Next]_vars
  PROVE  HonestOffer'
<1> USE DEF HonestOffer
<1> SUFFICES ASSUME honest', pc' = "put" PROVE HonestOffer'
  OBVIOUS
<1>1. CASE Ask
  <2>0. honest BY <1>1 DEF Ask, Answer, Refuse, world
  <2> PICK sp \in {current} : \/ \E w \in {setting} : Answer(sp, w)
                              \/ Refuse(sp)
    BY <2>0, <1>1 DEF Ask
  <2>1. Answer(sp, setting) BY DEF Refuse, Done
  <2>2. /\ bundle' = current /\ out' = Vouch(current, st, now, setting)
        /\ UNCHANGED <<st, now, setting, current>>
    BY <2>1 DEF Answer, world
  <2>3. out'.body.policy = current.accountPolicy.body BY <2>2 DEF Vouch
  <2> QED BY <2>2, <2>3
<1>2. ASSUME NEW sp \in Bundles, Publish(sp) PROVE HonestOffer'
  <2>1. /\ honest /\ pc = "put" /\ current' = sp /\ UNCHANGED <<bundle, out, st, now, setting, started, clock>>
        /\ Verifies(sp, Root, Fresh, clock + 2 * Period)
    BY <1>2 DEF Publish, locals
  <2>2. Steady(sp) BY <2>1 DEF OwnersFloors
  <2>3. clock + 2 * Period \in Nat /\ clock = started BY <2>1 DEF TimerKept, TypeOK
  <2>4. clock + 2 * Period < sp.accountPolicy.body.expires
    BY <2>1, <2>2, <2>3, PublishedGood
  <2> QED BY <2>1, <2>3, <2>4 DEF End
<1>3. CASE Tick \/ LoadTorn \/ UNCHANGED vars
  <2>1. UNCHANGED <<honest, pc, bundle, out, st, now, setting, current>>
    BY <1>3 DEF Tick, LoadTorn, vars, locals, world
  <2>2. UNCHANGED started \/ pc = "idle"
    BY <1>3 DEF Tick, LoadTorn, Startable, vars
  <2> QED BY <2>1, <2>2 DEF End
<1>4. CASE Load \/ Put \/ PutRefused \/ PutLost \/ Fail \/ Truncate \/ Write \/ Die
  BY <1>4 DEF Load, Put, PutRefused, PutLost, Fail, Truncate, Write, Die, Done
<1> QED BY <1>1, <1>2, <1>3, <1>4 DEF Next, Step

(* A fault is what it takes for the server to hold more than was saved.    *)
LEMMA StepNoneLost ==
  ASSUME TypeOK, NoneLost, [Next]_vars PROVE NoneLost'
<1> USE DEF NoneLost
<1>0. faults \in Nat BY DEF TypeOK
<1>1. CASE Load
  BY <1>1 DEF Load, Startable, world
<1>2. CASE Ask
  BY <1>2 DEF Ask, Answer, Refuse, Done, world
<1>3. CASE Put
  BY <1>3 DEF Put, Confirmed, world
<1>4. CASE PutRefused
  BY <1>4 DEF PutRefused, Done, world
<1>5. CASE PutLost \/ Fail \/ Die
  BY <1>0, <1>5 DEF PutLost, Fail, Die, Fault
<1>6. CASE Truncate
  BY <1>6 DEF Truncate, locals
<1>7. CASE Write
  BY <1>7 DEF Write, Done
<1>8. CASE LoadTorn \/ Tick \/ (\E sp \in Bundles : Publish(sp)) \/ UNCHANGED vars
  <2>1. UNCHANGED <<faults, stored, pc, st, saved>>
    BY <1>8 DEF LoadTorn, Tick, Publish, vars, locals
  <2> QED BY <2>1
<1> QED BY <1>1, <1>2, <1>3, <1>4, <1>5, <1>6, <1>7, <1>8 DEF Next, Step

(* Facts about the offer of an honest run: longer than two periods, and    *)
(* refused by the server only if it is no newer than what is stored, which *)
(* takes a fault.                                                          *)
LEMMA OfferLong ==
  ASSUME TimerKeepsUp, TypeOK, InReach, TimerKept, HonestOffer, honest, pc = "put"
  PROVE  /\ out.body.expires > started + 2 * Period
         /\ out.body.issued \in Nat /\ out.body.issued >= started
         /\ setting > 0 => out.body.expires - out.body.issued <= setting
<1>1. bundle \in Bundles /\ now \in Nat /\ st \in StateType /\ started \in Nat
      /\ setting \in AccountWindows
  <2>1. out # NoBlob BY DEF TypeOK
  <2>2. bundle # NoBlob BY <2>1 DEF TypeOK
  <2> QED BY <2>2 DEF TypeOK
<1>2. out = Vouch(bundle, st, now, setting) BY DEF HonestOffer
<1>3. /\ out.body.expires = now + ChosenWindow(setting)
      /\ out.body.issued \in Nat /\ out.body.issued >= now
  BY <1>1, <1>2, VouchTimes
<1>4. ChosenWindow(setting) \in Nat BY <1>1, WindowIsNat
<1>5. ChosenWindow(setting) > 2 * Period BY <1>1 DEF TimerKeepsUp
<1>6. now >= started BY DEF InReach, RunInReach
<1>7. setting > 0 => ChosenWindow(setting) <= setting BY <1>1, WindowWithin
<1>8. setting \in Nat BY <1>1
<1> QED BY <1>1, <1>3, <1>4, <1>5, <1>6, <1>7, <1>8

LEMMA RefusedAhead ==
  ASSUME TimerKeepsUp, TypeOK, Floors, InReach, TimerKept, HonestOffer, NoneLost,
         honest, pc = "put", ~ Accepts(out)
  PROVE  stored # NoBlob /\ stored.body.issued >= started /\ faults # 0
<1>1. /\ out.body.issued \in Nat /\ out.body.issued >= started
      /\ setting > 0 => out.body.expires - out.body.issued <= setting
  BY OfferLong
<1>2. stored # NoBlob /\ ~ (out.body.issued > stored.body.issued) BY <1>1 DEF Accepts
<1>3. stored.body.issued \in Nat /\ started \in Nat BY <1>2 DEF TypeOK, Statement
<1>4. out.body.issued > saved.issued /\ saved.issued \in Nat
  BY DEF Floors, OfferedAbove, LoadedIsSaved, TypeOK, StateType
<1>5. ASSUME faults = 0 PROVE FALSE
  BY <1>1, <1>2, <1>3, <1>4, <1>5 DEF NoneLost
<1> QED BY <1>1, <1>2, <1>3, <1>5

(* Until a fault there is a period to spare, and a second fault never      *)
(* comes.                                                                  *)
LEMMA FaultSpends ==
  ASSUME TimerKeepsUp, TypeOK, NEW kind, Fault(kind)
  PROVE  Spare = Period /\ Spare' = 0
  BY DEF TimerKeepsUp, TypeOK, Fault, Spare

(* Once uploaded, the current policy lasts two periods more.               *)
LEMMA UploadLasts ==
  ASSUME TimerKeepsUp, TypeOK, InReach, TimerKept, HonestOffer, honest, pc = "put"
  PROVE  LastsFor(current, out, started + 2 * Period)
<1>1. out # NoBlob BY AbsentAssumption DEF TypeOK
<1>2. out.body.expires > started + 2 * Period BY OfferLong
<1> QED BY <1>1, <1>2 DEF HonestOffer, End, LastsFor

LEMMA StepKept ==
  ASSUME TimerKeepsUp, OwnerSteady, TypeOK, TypeOK', Floors, InReach, InReach', Vouched,
         OnTimeInv, OwnersFloors', [Next]_vars
  PROVE  KeptValid'
<1> USE DEF KeptValid, Lasts
<1>0. /\ TimerKept /\ OwnersFloors /\ HonestOffer /\ NoneLost /\ KeptValid
      /\ InReach /\ StoredInReach'
  BY DEF OnTimeInv, InReach
<1> SUFFICES ASSUME honest', file' # Torn \/ pc' # "idle" PROVE KeptValid'
  OBVIOUS
<1>1. honest /\ honest' = honest
  BY DEF Next, Step, Load, LoadTorn, Ask, Answer, Refuse, Put, PutRefused, PutLost, Fail,
     Truncate, Write, Die, Publish, Tick, vars, world
<1>2. /\ current \in Bundles /\ Steady(current) /\ stored \in Statement \cup {NoBlob}
      /\ out \in Statement \cup {NoBlob}
      /\ started \in Nat /\ clock \in Nat /\ clock <= started + Period /\ started <= clock
      /\ pc # "idle" => clock = started
      /\ Period \in Nat /\ MaxLead \in Nat /\ MaxLead <= Period
      /\ Spare \in {0, Period}
      /\ stored # NoBlob => stored.body.issued \in Nat /\ stored.body.issued <= started + MaxLead
  BY <1>0, <1>1
  DEF TypeOK, OwnersFloors, TimerKept, InReach, StartedPast, StoredInReach, Spare, Statement,
      TimerKeepsUp
<1>a. ASSUME LastsFor(current, stored, started + 2 * Period),
             UNCHANGED <<current, stored, started>>, pc' = "idle"
      PROVE  KeptValid'
  <2>1. Spare' = Period \/ Spare' = 0 BY DEF Spare
  <2>2. /\ started + 2 * Period \in Nat /\ started + Period + Spare' \in Nat
        /\ started + Period + Spare' <= started + 2 * Period
    BY ONLY <1>2, <2>1
  <2>3. LastsFor(current, stored, started + Period + Spare')
    BY <1>a, <1>2, <2>2, LastsEarlier
  <2>4. ASSUME stored # NoBlob PROVE LastsFor(current, stored, stored.body.issued + Period)
    <3>1. stored.body.issued + Period \in Nat
          /\ stored.body.issued + Period <= started + 2 * Period
      BY <1>2, <2>4
    <3> QED BY <1>a, <1>2, <2>2, <3>1, LastsEarlier
  <2> QED BY <1>a, <2>3, <2>4
<1>3. CASE Load
  <2>1. /\ pc = "idle" /\ pc' = "ask" /\ started' = clock /\ file # Torn
        /\ UNCHANGED <<current, stored, faults>>
    BY <1>3 DEF Load, Startable, world
  <2>2. Spare' = Spare BY <2>1 DEF Spare
  <2>3. LastsFor(current, stored, started + Period + Spare) BY <1>0, <1>1, <2>1
  <2>4. LastsFor(current, stored, clock + Spare)
    <3>1. started + Period + Spare \in Nat /\ clock + Spare \in Nat
          /\ clock + Spare <= started + Period + Spare
      BY <1>2
    <3> QED BY <1>2, <2>3, <3>1, LastsEarlier
  <2> QED BY <1>0, <1>1, <2>1, <2>2, <2>4
<1>4. CASE LoadTorn
  BY <1>4 DEF LoadTorn, Startable
<1>5. CASE Ask
  <2> PICK sp \in {current} : \/ \E w \in {setting} : Answer(sp, w)
                              \/ Refuse(sp)
    BY <1>1, <1>5 DEF Ask
  <2>1. ~ Refuse(sp)
    <3> SUFFICES ASSUME Refuse(current) PROVE FALSE
      OBVIOUS
    <3>1. pc = "ask" /\ ~ Trusted(current, st, now) BY DEF Refuse
    <3>2. now \in 1 .. MaxClock + MaxLead
      <4>1. now >= started /\ now <= started + MaxLead BY <1>0, <3>1 DEF InReach, RunInReach
      <4>2. clock \in 1 .. MaxClock /\ clock = started BY <1>0, <1>1, <3>1 DEF TimerKept
      <4>3. now \in Nat BY DEF TypeOK
      <4> QED BY <1>2, <4>1, <4>2, <4>3
    <3>3. st \in StateType /\ st.version <= current.accountPolicy.body.version
          /\ st.rev <= Rev(current)
      BY <1>0, <1>1 DEF OwnersFloors, NoneAbove, TypeOK
    <3> QED BY <1>2, <3>1, <3>2, <3>3, SteadyTrusted
  <2>2. Answer(sp, setting) BY <2>1
  <2>3. /\ pc = "ask" /\ pc' = "put" /\ UNCHANGED <<current, stored, started, faults, file>>
    BY <2>2 DEF Answer, world
  <2>4. Spare' = Spare BY <2>3 DEF Spare
  <2> QED BY <1>0, <1>1, <2>3, <2>4
<1>6. CASE Put
  <2>1. pc = "put" /\ pc' = "save" /\ stored' = out /\ UNCHANGED <<current, started>>
    BY <1>6 DEF Put, world
  <2>2. LastsFor(current, out, started + 2 * Period) BY <1>0, <1>1, <2>1, UploadLasts
  <2> QED BY <2>1, <2>2
<1>7. CASE PutLost
  <2>1. /\ pc = "put" /\ pc' = "idle" /\ stored' = out /\ Fault("lost")
        /\ UNCHANGED <<current, started>>
    BY <1>7 DEF PutLost, Done, world
  <2>2. LastsFor(current, out, started + 2 * Period) BY <1>0, <1>1, <2>1, UploadLasts
  <2>3. Spare' = 0 BY <2>1, FaultSpends
  <2>4. started + 2 * Period \in Nat /\ started + Period \in Nat BY <1>2
  <2>5. LastsFor(current, out, started + Period + Spare') BY <1>2, <2>2, <2>3, <2>4, LastsEarlier
  <2>6. ASSUME out # NoBlob PROVE LastsFor(current, out, out.body.issued + Period)
    <3>1. out.body.issued \in Nat BY <1>2, <2>6 DEF Statement
    <3>2. out.body.issued <= started + MaxLead
      BY <1>0, <2>1 DEF InReach, OutInReach
    <3>3. out.body.issued + Period \in Nat /\ out.body.issued + Period <= started + 2 * Period
      BY <1>2, <3>1, <3>2
    <3> QED BY <1>2, <2>2, <2>4, <3>3, LastsEarlier
  <2> QED BY <2>1, <2>5, <2>6
<1>8. CASE PutRefused
  <2>1. /\ pc = "put" /\ pc' = "idle" /\ ~ Accepts(out)
        /\ UNCHANGED <<current, stored, started, faults>>
    BY <1>8 DEF PutRefused, Done, world
  <2>2. stored # NoBlob /\ stored.body.issued >= started /\ faults # 0
    BY <1>0, <1>1, <2>1, RefusedAhead
  <2>3. LastsFor(current, stored, stored.body.issued + Period) BY <1>0, <1>1, <2>1, <2>2
  <2>4. Spare' = 0 BY <2>1, <2>2 DEF Spare
  <2>5. LastsFor(current, stored, started + Period)
    <3>1. /\ stored.body.issued + Period \in Nat /\ started + Period \in Nat
          /\ started + Period <= stored.body.issued + Period
      BY <1>2, <2>2
    <3> QED BY <1>2, <2>3, <3>1, LastsEarlier
  <2>6. started + Period + Spare' = started + Period BY <1>2, <2>4
  <2> QED BY <2>1, <2>3, <2>5, <2>6
<1>9. CASE Fail
  <2>1. /\ pc \in {"ask", "put"} /\ pc' = "idle" /\ Fault("failed")
        /\ UNCHANGED <<current, stored, started>>
    BY <1>9 DEF Fail, Done, world
  <2>2. Spare = Period /\ Spare' = 0 BY <2>1, FaultSpends
  <2>3. LastsFor(current, stored, started + Period) BY <1>0, <1>1, <2>1, <2>2
  <2>4. started + Period + Spare' = started + Period BY <1>2, <2>2
  <2> QED BY <1>0, <1>1, <2>1, <2>3, <2>4
<1>10. CASE Truncate
  <2>1. /\ pc = "save" /\ pc' = "write" /\ UNCHANGED <<current, stored, started>>
    BY <1>10 DEF Truncate, world
  <2> QED BY <1>0, <1>1, <2>1
<1>11. CASE Write \/ Die
  <2>1. /\ pc \in {"save", "write"} /\ pc' = "idle" /\ UNCHANGED <<current, stored, started>>
    BY <1>11 DEF Write, Die, Done, world
  <2>2. LastsFor(current, stored, started + 2 * Period) BY <1>0, <1>1, <2>1
  <2> QED BY <1>a, <2>1, <2>2
<1>12. ASSUME NEW sp \in Bundles, Publish(sp) PROVE KeptValid'
  <2>1. /\ current' = sp /\ UNCHANGED <<stored, started, faults, pc>>
        /\ Verifies(sp, Root, Fresh, clock + 2 * Period)
    BY <1>12 DEF Publish, locals
  <2>2. Steady(sp) BY <1>1, <2>1 DEF OwnersFloors
  <2>3. clock + 2 * Period \in Nat BY <1>2
  <2>4. sp.accountPolicy.body.expires > clock + 2 * Period
    BY <2>1, <2>2, <2>3, PublishedGood
  <2>5. ASSUME NEW t \in Nat, t <= clock + 2 * Period PROVE LastsFor(sp, stored, t)
    <3>1. sp.accountPolicy.body.expires \in Nat BY <2>2 DEF Steady
    <3> QED BY <2>3, <2>4, <2>5, <3>1 DEF LastsFor
  <2>6. Spare' = Spare BY <2>1 DEF Spare
  <2>7. /\ LastsFor(sp, stored, started + Period + Spare)
        /\ LastsFor(sp, stored, started + Spare)
        /\ LastsFor(sp, stored, started + 2 * Period)
    BY <1>2, <2>5
  <2>8. stored # NoBlob => LastsFor(sp, stored, stored.body.issued + Period)
    BY <1>2, <2>5
  <2> QED BY <2>1, <2>6, <2>7, <2>8
<1>13. CASE Tick \/ UNCHANGED vars
  <2>1. UNCHANGED <<current, stored, started, faults, pc, file>>
    BY <1>13 DEF Tick, vars, world, locals
  <2>2. Spare' = Spare BY <2>1 DEF Spare
  <2> QED BY <1>0, <1>1, <2>1, <2>2
<1> QED
  BY <1>3, <1>4, <1>5, <1>6, <1>7, <1>8, <1>9, <1>10, <1>11, <1>12, <1>13 DEF Next, Step

(* What lasts until now is accepted now.                                   *)
LEMMA KeptAccepted ==
  ASSUME TimerKeepsUp, TypeOK, InReach, OnTimeInv PROVE AgentsFresh
<1> SUFFICES ASSUME honest, file # Torn
             PROVE  Verifies(ShownWith(current, stored), Root, Fresh, clock)
  BY DEF AgentsFresh, Accepted
<1>1. TimerKept /\ OwnersFloors /\ KeptValid BY DEF OnTimeInv
<1>2. /\ current \in Bundles /\ Steady(current) /\ stored \in Statement \cup {NoBlob}
      /\ started \in Nat /\ clock \in Nat /\ clock \in 1 .. MaxClock + MaxLead
      /\ clock <= started + Period /\ (pc # "idle" => clock = started)
      /\ Period \in Nat /\ Spare \in {0, Period}
      /\ pc \in {"idle", "ask", "put", "save", "write"}
      /\ current.accountPolicy.body.expires \in Nat /\ current.accountPolicy.body.version \in Nat
  <2>1. /\ current \in Bundles /\ stored \in Statement \cup {NoBlob} /\ started \in Nat
        /\ pc \in {"idle", "ask", "put", "save", "write"}
    BY DEF TypeOK
  <2>2. Steady(current) BY <1>1 DEF OwnersFloors
  <2>3. /\ clock \in 1 .. MaxClock /\ clock <= started + Period
        /\ pc # "idle" => clock = started
    BY <1>1 DEF TimerKept
  <2>4. /\ current.accountPolicy.body.expires \in Nat
        /\ current.accountPolicy.body.version \in Nat
    BY <2>1, <2>2 DEF Steady
  <2>5. Period \in Nat /\ Spare \in {0, Period} BY DEF Spare
  <2>6. clock \in Nat /\ clock \in 1 .. MaxClock + MaxLead BY <2>3
  <2> QED BY <2>1, <2>2, <2>3, <2>4, <2>5, <2>6
<1>3. LastsFor(current, stored, clock)
  <2>1. CASE pc = "idle"
    <3>1. LastsFor(current, stored, started + Period + Spare)
      BY <1>1, <2>1 DEF KeptValid, Lasts
    <3>2. started + Period + Spare \in Nat /\ clock <= started + Period + Spare BY <1>2
    <3> QED BY <1>2, <3>1, <3>2, LastsEarlier
  <2>2. CASE pc \in {"ask", "put"}
    <3>1. LastsFor(current, stored, started + Spare)
      BY <1>1, <2>2 DEF KeptValid, Lasts
    <3>2. started + Spare \in Nat /\ clock <= started + Spare BY <1>2, <2>2
    <3> QED BY <1>2, <3>1, <3>2, LastsEarlier
  <2>3. CASE pc \in {"save", "write"}
    <3>1. LastsFor(current, stored, started + 2 * Period)
      BY <1>1, <2>3 DEF KeptValid, Lasts
    <3>2. started + 2 * Period \in Nat /\ clock <= started + 2 * Period BY <1>2, <2>3
    <3> QED BY <1>2, <3>1, <3>2, LastsEarlier
  <2> QED BY <1>2, <2>1, <2>2, <2>3
<1>4. /\ SignerTrusted(current, Root, Fresh, clock) /\ Account \in LiveAccounts(current, clock)
      /\ Delegated(current, clock)
  BY <1>2 DEF Steady
<1> DEFINE s == ShownWith(current, stored)
<1>5. clock < GoodUntil(s, clock)
  <2>1. CASE current.accountPolicy.body.expires > clock
    <3>1. s.freshness = stored /\ s.accountPolicy = current.accountPolicy
      BY <1>2, ShownParts
    <3> HIDE DEF s
    <3>2. Served(s) = current.accountPolicy BY <1>2, <3>1 DEF Served, IsAccount, Steady
    <3>3. ASSUME Vouches(s, Served(s).body, clock) PROVE clock < VouchedUntil(s.freshness.body)
      BY <3>3 DEF Vouches
    <3> QED BY <2>1, <3>2, <3>3, <1>2 DEF GoodUntil
  <2>2. CASE /\ stored # NoBlob /\ stored.body.policy = current.accountPolicy.body
             /\ stored.body.expires > clock
    <3>1. stored \in Statement /\ stored.body.issued \in Nat /\ stored.body.expires \in Nat
      BY <1>2, <2>2 DEF Statement
    <3>2. /\ stored.body.issued <= started + MaxLead
          /\ stored.body.expires <= stored.body.issued + FreshnessWindow /\ started <= clock
      BY <2>2 DEF InReach, StoredInReach, StartedPast
    <3>3. stored.body.issued <= clock + FreshnessClockSkew /\ clock < stored.body.expires
      BY <1>2, <2>2, <3>1, <3>2 DEF TimerKeepsUp
    <3>4. /\ current.accountPolicy # NoBlob /\ current.accountPolicy.body.account = Account
          /\ Key \notin Revoked(current)
      BY <1>2 DEF Steady
    <3> QED BY <1>2, <1>4, <2>2, <3>1, <3>2, <3>3, <3>4, ShownGood
  <2> QED BY <1>3, <2>1, <2>2 DEF LastsFor
<1>6. current.accountPolicy.body.version >= Fresh.version BY <1>2 DEF Fresh
<1> QED BY <1>2, <1>4, <1>5, <1>6, ShownTrusted DEF Steady

-----------------------------------------------------------------------------
(* With an honest server and the timer on time, no agent is ever left      *)
(* without a valid policy, although a run fails, dies before its save or   *)
(* gets no answer, and the owner publishes, at the worst moment: for every *)
(* window longer than two periods, whatever the bundles and settings.      *)
THEOREM RefresherAgentsFresh ==
  ASSUME TimerKeepsUp, OwnerSteady PROVE Spec => []AgentsFresh
<1> DEFINE Inv == IInv /\ Vouched /\ InReach /\ OnTimeInv
<1>1. Init => Inv BY InitTyped, InitFloors, InitVouched, InitOnTime DEF IInv
<1>2. Inv /\ [Next]_vars => Inv'
  <2> SUFFICES ASSUME Inv, [Next]_vars PROVE Inv'
    OBVIOUS
  <2>1. TypeOK' /\ Floors' /\ Vouched' /\ InReach'
    BY StepTyped, StepFloors, StepVouched, StepInReach DEF IInv
  <2>2. TimerKept' BY StepTimer DEF OnTimeInv, IInv
  <2>3. OwnersFloors' BY <2>1, StepOwners DEF OnTimeInv, IInv
  <2>4. HonestOffer' BY <2>1, <2>3, StepOffer DEF OnTimeInv, IInv
  <2>5. NoneLost' BY StepNoneLost DEF OnTimeInv, IInv
  <2>6. KeptValid' BY <2>1, <2>3, StepKept DEF IInv
  <2> QED BY <2>1, <2>2, <2>3, <2>4, <2>5, <2>6 DEF OnTimeInv, IInv
<1>3. Inv => AgentsFresh BY KeptAccepted DEF IInv
<1> HIDE DEF Inv
<1> QED BY <1>1, <1>2, <1>3, PTL DEF Spec
=============================================================================
