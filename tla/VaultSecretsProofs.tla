------------------------- MODULE VaultSecretsProofs -------------------------
(***************************************************************************)
(* What holds of VaultSecrets for any number of keys, machines, devices,   *)
(* secrets and consoles.                                                   *)
(***************************************************************************)
EXTENDS VaultSecrets, TLAPS

USE SecretsAssumption

(* A lie was told about this copy, or about the copy of a vault key.       *)
LiedAbout(s, r, told) ==
  \/ <<s, r>> \in told
  \/ \E k \in VaultKeys : <<s, k>> \in told

(* An envelope that says what the owner saved, for a machine of ours that  *)
(* it is granted to, or one that a lie was told about.                     *)
EnvelopeOK(x, saved, told) ==
  /\ x.signer \in Devices
  /\ \/ LiedAbout(x.secret, x.to, told)
     \/ /\ x.value = x.secret /\ x.secret \in saved /\ x.name = NameOf[x.secret]
        /\ x.to \in Machines => x.to \in Mine /\ x.secret \in Granted[x.to]
GoodCopy(x, s, r, saved, told) ==
  /\ x \in Contents
  /\ LiedAbout(s, r, told) \/ x.value = s
  /\ IsSigned(x) => /\ EnvelopeOK(x, saved, told)
                    /\ x.secret = s
                    /\ r \in Machines => x.to = r
                    /\ r \in VaultKeys => x.to \in VaultKeys

CopiesGood ==
  \A s \in Secrets, r \in Recipients : copies[s][r] # NoCopy =>
    copies[s][r] \in sealed /\ GoodCopy(copies[s][r], s, r, stored, misled)
SealedGood == \A x \in sealed : IsSigned(x) => EnvelopeOK(x, stored, misled)

(* What a command has prepared.                                            *)
AllGood(cs, saved, told) ==
  \A y \in cs : GoodCopy(y.content, y.secret, y.to, saved, told)
JobGood(c) == job[c] # NoJob => AllGood(job[c].out, stored, misled)
JobsGood == \A c \in Consoles : JobGood(c)

IInv == TypeOK /\ CopiesGood /\ SealedGood /\ JobsGood /\ AddedKeyOpens

-----------------------------------------------------------------------------
(* Lemmas about contents                                                   *)

LEMMA PlainContent ==
  ASSUME NEW v \in Values
  PROVE  Plain(v) \in Contents /\ ~IsSigned(Plain(v)) /\ Plain(v).value = v
  BY DEF Plain, Contents, PlainCopies, IsSigned

LEMMA EnvelopeContent ==
  ASSUME NEW d \in Devices, NEW i \in Items
  PROVE  /\ Envelope(d, i) \in Contents
         /\ Envelope(d, i).signer = d /\ Envelope(d, i).value = i.value
         /\ Envelope(d, i).secret = i.secret /\ Envelope(d, i).name = i.name
         /\ Envelope(d, i).to = i.to
  BY DEF Envelope, Contents, Envelopes, Items

LEMMA ItemFields ==
  ASSUME NEW i \in Items
  PROVE  i.secret \in Secrets /\ i.value \in Values /\ i.to \in Recipients
  BY DEF Items

LEMMA SealedFields ==
  ASSUME NEW i \in Items, NEW x \in Contents
  PROVE  /\ SealedAs(i, x) \in Copy
         /\ SealedAs(i, x).secret = i.secret /\ SealedAs(i, x).to = i.to
         /\ SealedAs(i, x).content = x
  BY DEF SealedAs, Items, Copy

LEMMA TrueItem ==
  ASSUME NEW s \in Secrets, NEW v \in Values, NEW r \in Recipients
  PROVE  /\ Truth(s, v, r) \in Items
         /\ Truth(s, v, r).secret = s /\ Truth(s, v, r).value = v
         /\ Truth(s, v, r).name = NameOf[s] /\ Truth(s, v, r).to = r
  BY DEF Truth, Items

LEMMA LiesTyped ==
  ASSUME NEW lies \in SUBSET Lies
  PROVE  lies \subseteq Items /\ Told(lies) \subseteq Secrets \X Recipients
  BY ItemFields DEF Told

LEMMA CopyFields ==
  ASSUME NEW y \in Copy
  PROVE  y.secret \in Secrets /\ y.to \in Recipients /\ y.content \in Contents
  BY DEF Copy

(* What the server has after an upload: the copies sent, else the old.     *)
LEMMA AfterUpload ==
  ASSUME TypeOK, NEW cs \in SUBSET Copy, Stored(cs)
  PROVE  /\ copies' \in [Secrets -> [Recipients -> Contents \cup {NoCopy}]]
         /\ \A s \in Secrets, r \in Recipients :
              \/ copies'[s][r] = copies[s][r] /\ ~\E y \in cs : y.secret = s /\ y.to = r
              \/ \E y \in cs : y.secret = s /\ y.to = r /\ copies'[s][r] = y.content
         /\ sealed' \subseteq Contents
         /\ \A x \in sealed' : x \in sealed \/ \E y \in cs : x = y.content
<1> DEFINE pick(s, r) == CHOOSE y \in cs : y.secret = s /\ y.to = r
<1>1. ASSUME NEW s \in Secrets, NEW r \in Recipients, \E y \in cs : y.secret = s /\ y.to = r
      PROVE  pick(s, r) \in cs /\ pick(s, r).secret = s /\ pick(s, r).to = r
  BY <1>1
<1>2. \A s \in Secrets, r \in Recipients :
        copies'[s][r] = IF \E y \in cs : y.secret = s /\ y.to = r
                        THEN pick(s, r).content ELSE copies[s][r]
  BY DEF Stored
<1>3. copies' = [s \in Secrets |-> [r \in Recipients |-> copies'[s][r]]]
  BY DEF Stored
<1> HIDE DEF pick
<1>4. ASSUME NEW s \in Secrets, NEW r \in Recipients
      PROVE  copies'[s][r] \in Contents \cup {NoCopy}
  <2>1. CASE \E y \in cs : y.secret = s /\ y.to = r
    BY <1>1, <1>2, <2>1, CopyFields
  <2>2. CASE ~\E y \in cs : y.secret = s /\ y.to = r
    BY <1>2, <2>2 DEF TypeOK
  <2> QED BY <2>1, <2>2
<1>5. copies' \in [Secrets -> [Recipients -> Contents \cup {NoCopy}]]
  BY <1>3, <1>4
<1>6. sealed' = sealed \cup {y.content : y \in cs} BY DEF Stored
<1>7. \A x \in sealed' : x \in sealed \/ \E y \in cs : x = y.content BY <1>6
<1>8. sealed' \subseteq Contents BY <1>7, CopyFields DEF TypeOK
<1> QED BY <1>1, <1>2, <1>5, <1>7, <1>8

-----------------------------------------------------------------------------
(* Typing                                                                  *)

LEMMA InitTyped == Init => TypeOK
  BY DEF Init, TypeOK

LEMMA BeginTyped ==
  ASSUME TypeOK, NEW c \in Consoles, NEW op \in {"set", "reseal", "org", "register"},
         NEW step \in {"save", "own", "work", "machines", "add", "check", "registered"},
         NEW k \in VaultKeys, NEW new \in VaultKeys, NEW d \in Devices,
         Begin(c, op, step, k, new, d)
  PROVE  job' \in [Consoles -> JobType \cup {NoJob}]
  BY DEF TypeOK, Begin, JobType

LEMMA JobFields ==
  ASSUME NEW j \in JobType
  PROVE  /\ j.key \in VaultKeys /\ j.new \in VaultKeys /\ j.device \in Devices
         /\ j.known \subseteq VaultKeys /\ j.out \subseteq Copy
  BY DEF JobType

LEMMA KeysAndMachines == VaultKeys \subseteq Recipients /\ Machines \subseteq Recipients
  BY DEF Recipients
LEMMA PersonalAndOrg == Personal \subseteq Secrets /\ Org \subseteq Secrets
  BY DEF Secrets

(* The uploads of the commands consist of copies.                          *)
LEMMA SetUpload ==
  ASSUME TypeOK, NEW c \in Consoles, job[c] \in JobType, NEW s \in Personal
  PROVE  [secret : {s}, to : job[c].known, content : {Plain(s)}] \subseteq Copy
  BY JobFields, KeysAndMachines, PersonalAndOrg, PlainContent DEF Copy, Values

(* What a re-sealing command is asked for: lies, and copies of secrets.    *)
LEMMA WorkItem ==
  ASSUME TypeOK, NEW k \in VaultKeys, NEW lies \in SUBSET Lies, NEW i \in WorkItems(k, lies)
  PROVE  /\ i \in Items
         /\ \/ i \in lies
            \/ \E s \in Openable(k) \ Lied(lies), r \in Recipients :
                 r \in Missing(s) /\ i = Truth(s, copies[s][k].value, r)
<1> DEFINE pairs == {y \in (Openable(k) \ Lied(lies)) \X Recipients : y[2] \in Missing(y[1])}
<1>1. CASE i \in lies BY <1>1, LiesTyped
<1>2. CASE i \notin lies
  <2>1. PICK y \in pairs : i = Truth(y[1], copies[y[1]][k].value, y[2])
    BY <1>2 DEF WorkItems
  <2>2. /\ y[1] \in Openable(k) \ Lied(lies) /\ y[2] \in Recipients /\ y[2] \in Missing(y[1])
    OBVIOUS
  <2>3. y[1] \in Secrets /\ copies[y[1]][k] # NoCopy BY <2>2, PersonalAndOrg DEF Openable
  <2>4. copies[y[1]][k] \in Contents BY <2>3, KeysAndMachines DEF TypeOK
  <2>5. copies[y[1]][k].value \in Values BY <2>4 DEF Contents, PlainCopies, Envelopes
  <2> QED BY <2>1, <2>2, <2>3, <2>5, TrueItem
<1> QED BY <1>1, <1>2

LEMMA OrgItem ==
  ASSUME TypeOK, NEW lies \in SUBSET Lies, NEW i \in OrgItems(lies)
  PROVE  /\ i \in Items
         /\ \/ i \in lies
            \/ \E s \in Org \cap stored, m \in Mine \cap Machines :
                 s \in Granted[m] /\ i = Truth(s, s, m)
<1> DEFINE pairs == {y \in ((Org \cap stored) \ Lied(lies)) \X Verifiable(Machines) :
                       y[1] \in Granted[y[2]]}
<1>1. CASE i \in lies BY <1>1, LiesTyped
<1>2. CASE i \notin lies
  <2>1. PICK y \in pairs : i = Truth(y[1], y[1], y[2]) BY <1>2 DEF OrgItems
  <2>2. y[1] \in Org \cap stored /\ y[2] \in Mine \cap Machines /\ y[1] \in Granted[y[2]]
    BY DEF Verifiable
  <2>3. y[1] \in Secrets /\ y[1] \in Values /\ y[2] \in Recipients
    BY <2>2, PersonalAndOrg, KeysAndMachines DEF Values
  <2> QED BY <2>1, <2>2, <2>3, TrueItem
<1> QED BY <1>1, <1>2

LEMMA ResealedCopy ==
  ASSUME TypeOK, NEW c \in Consoles, job[c] \in JobType, NEW i \in Items
  PROVE  /\ ResealedFor(c, i) \in Copy
         /\ ResealedFor(c, i).secret = i.secret /\ ResealedFor(c, i).to = i.to
         /\ ResealedFor(c, i).content =
              IF i.to \in job[c].known THEN Plain(i.value) ELSE Envelope(job[c].device, i)
<1>1. Plain(i.value) \in Contents /\ Envelope(job[c].device, i) \in Contents
  BY JobFields, ItemFields, PlainContent, EnvelopeContent
<1> QED BY <1>1, SealedFields DEF ResealedFor

(* What usb register is asked for: lies about the new key, and copies that *)
(* the old key opens.                                                      *)
LEMMA CopyItem ==
  ASSUME TypeOK, NEW old \in VaultKeys, NEW new \in VaultKeys, NEW lies \in SUBSET Lies,
         \A s \in Lacking(new) \ Lied(lies) : copies[s][old] # NoCopy,
         NEW y \in CopyItems(old, new, lies)
  PROVE  /\ y \in Copy
         /\ \/ \E l \in lies : /\ l \in Items /\ y.secret = l.secret /\ y.to = l.to
                             /\ y.content = Plain(l.value)
            \/ /\ y.secret \in Secrets /\ y.to = new
               /\ copies[y.secret][old] # NoCopy /\ y.content = copies[y.secret][old]
<1>1. ASSUME NEW l \in lies, y = SealedAs(l, Plain(l.value))
      PROVE  /\ y \in Copy /\ l \in Items /\ y.secret = l.secret /\ y.to = l.to
             /\ y.content = Plain(l.value)
  <2>1. l \in Items /\ Plain(l.value) \in Contents BY LiesTyped, ItemFields, PlainContent
  <2> QED BY <1>1, <2>1, SealedFields
<1>2. ASSUME NEW s \in Lacking(new) \ Lied(lies),
             y = [secret |-> s, to |-> new, content |-> copies[s][old]]
      PROVE  /\ y \in Copy /\ y.secret = s /\ y.secret \in Secrets /\ y.to = new
             /\ copies[y.secret][old] # NoCopy /\ y.content = copies[y.secret][old]
  <2>1. s \in Secrets /\ new \in Recipients /\ old \in Recipients
    BY PersonalAndOrg, KeysAndMachines DEF Lacking
  <2>2. copies[s][old] \in Contents BY <2>1 DEF TypeOK
  <2> QED BY <1>2, <2>1, <2>2 DEF Copy
<1> QED BY <1>1, <1>2 DEF CopyItems

(* A step that gives one console another job.                              *)
LEMMA JobReplaced ==
  ASSUME NEW c \in Consoles, NEW j \in JobType,
         job \in [Consoles -> JobType \cup {NoJob}], job' = [job EXCEPT ![c] = j]
  PROVE  job' \in [Consoles -> JobType \cup {NoJob}]
  OBVIOUS

(* A command that has its upload ready is still typed.                     *)
LEMMA OutTyped ==
  ASSUME TypeOK, NEW c \in Consoles, job[c] \in JobType, NEW out \in SUBSET Copy,
         NEW step \in {"save", "machines"},
         job' = [job EXCEPT ![c].step = step, ![c].out = out]
  PROVE  job' \in [Consoles -> JobType \cup {NoJob}] /\ job'[c].out = out
<1> DEFINE j == [job[c] EXCEPT !.step = step, !.out = out]
<1>1. j \in JobType /\ j.out = out BY DEF JobType
<1>2. job' = [job EXCEPT ![c] = j] OBVIOUS
<1>3. job \in [Consoles -> JobType \cup {NoJob}] BY DEF TypeOK
<1> HIDE DEF j
<1>4. job'[c] = j BY <1>2, <1>3
<1> QED BY <1>1, <1>2, <1>3, <1>4, JobReplaced

LEMMA StepTyped == TypeOK /\ [Next]_vars => TypeOK'
<1> SUFFICES ASSUME TypeOK, [Next]_vars PROVE TypeOK'
  OBVIOUS
<1>0. (CHOOSE d \in Devices : TRUE) \in Devices OBVIOUS
(* Steps that touch neither the account nor the root's signatures.         *)
<1>a. ASSUME job' \in [Consoles -> JobType \cup {NoJob}], UNCHANGED <<account, trustVars>>,
             misled' \subseteq Secrets \X Recipients
      PROVE  TypeOK'
  BY <1>a DEF TypeOK, account, trustVars
<1>b. misled' = misled => misled' \subseteq Secrets \X Recipients BY DEF TypeOK
<1>1. ASSUME NEW c \in Consoles, StartSet(c) PROVE TypeOK'
  BY <1>0, <1>a, <1>b, <1>1, BeginTyped DEF StartSet
<1>2. ASSUME NEW c \in Consoles, NEW k \in VaultKeys, NEW d \in Devices, StartReseal(c, k, d)
      PROVE  TypeOK'
  BY <1>a, <1>b, <1>2, BeginTyped DEF StartReseal
<1>3. ASSUME NEW c \in Consoles, NEW d \in Devices, StartOrgReseal(c, d) PROVE TypeOK'
  BY <1>a, <1>b, <1>3, BeginTyped DEF StartOrgReseal
<1>4. ASSUME NEW c \in Consoles, NEW old \in VaultKeys, NEW new \in VaultKeys,
             StartRegister(c, old, new)
      PROVE  TypeOK'
  BY <1>0, <1>a, <1>b, <1>4, BeginTyped DEF StartRegister
<1>5. ASSUME NEW c \in Consoles, OwnKeys(c) \/ Registered(c) PROVE TypeOK'
  <2>1. job[c] \in JobType BY <1>5 DEF OwnKeys, Registered, At, TypeOK
  <2>3. keys \subseteq VaultKeys BY DEF TypeOK
  <2>2. job' \in [Consoles -> JobType \cup {NoJob}]
    <3> DEFINE j == IF OwnKeys(c) THEN [job[c] EXCEPT !.step = "work", !.known = keys]
                    ELSE [job[c] EXCEPT !.step = "registered"]
    <3>1. j \in JobType BY <2>1, <2>3 DEF JobType
    <3>2. job' = [job EXCEPT ![c] = j] BY <1>5 DEF OwnKeys, Registered
    <3>3. job \in [Consoles -> JobType \cup {NoJob}] BY DEF TypeOK
    <3> HIDE DEF j
    <3> QED BY <3>1, <3>2, <3>3, JobReplaced
  <2> QED BY <1>a, <1>b, <1>5, <2>2 DEF OwnKeys, Registered
<1>6. ASSUME NEW c \in Consoles, Work(c) PROVE TypeOK'
  <2>1. job[c] \in JobType BY <1>6 DEF Work, At, TypeOK
  <2>2. PICK lies \in SUBSET Lies :
          /\ job' = [job EXCEPT ![c].step = "save",
               ![c].out = {ResealedFor(c, i) : i \in WorkItems(job[c].key, lies)}]
          /\ misled' = misled \cup Told(lies)
    BY <1>6 DEF Work
  <2>3. {ResealedFor(c, i) : i \in WorkItems(job[c].key, lies)} \in SUBSET Copy
    BY <2>1, JobFields, WorkItem, ResealedCopy
  <2>4. misled' \subseteq Secrets \X Recipients BY <2>2, LiesTyped DEF TypeOK
  <2>5. job' \in [Consoles -> JobType \cup {NoJob}] BY <2>1, <2>2, <2>3, OutTyped
  <2> QED BY <1>a, <1>6, <2>4, <2>5 DEF Work
<1>7. ASSUME NEW c \in Consoles, OrgWork(c) PROVE TypeOK'
  <2>1. job[c] \in JobType BY <1>7 DEF OrgWork, At, TypeOK
  <2>2. PICK lies \in SUBSET Lies :
          /\ job' = [job EXCEPT ![c].step = "machines",
               ![c].out = {SealedAs(i, Envelope(job[c].device, i)) : i \in OrgItems(lies)}]
          /\ misled' = misled \cup Told(lies)
    BY <1>7 DEF OrgWork
  <2>3. {SealedAs(i, Envelope(job[c].device, i)) : i \in OrgItems(lies)} \in SUBSET Copy
    BY <2>1, JobFields, OrgItem, EnvelopeContent, SealedFields
  <2>4. misled' \subseteq Secrets \X Recipients BY <2>2, LiesTyped DEF TypeOK
  <2>5. job' \in [Consoles -> JobType \cup {NoJob}] BY <2>1, <2>2, <2>3, OutTyped
  <2> QED BY <1>a, <1>7, <2>4, <2>5 DEF OrgWork
<1>18. ASSUME NEW c \in Consoles, CopyWork(c) PROVE TypeOK'
  <2>1. job[c] \in JobType BY <1>18 DEF CopyWork, At, TypeOK
  <2>2. PICK lies \in SUBSET {l \in Lies : l.to = job[c].new} :
          /\ \A s \in Lacking(job[c].new) \ Lied(lies) : copies[s][job[c].key] # NoCopy
          /\ job' = [job EXCEPT ![c].step = "save",
               ![c].out = CopyItems(job[c].key, job[c].new, lies)]
          /\ misled' = misled \cup Told(lies)
    BY <1>18 DEF CopyWork
  <2>3. lies \in SUBSET Lies OBVIOUS
  <2>4. CopyItems(job[c].key, job[c].new, lies) \in SUBSET Copy
    BY <2>1, <2>2, <2>3, JobFields, CopyItem
  <2>5. misled' \subseteq Secrets \X Recipients BY <2>2, <2>3, LiesTyped DEF TypeOK
  <2>6. job' \in [Consoles -> JobType \cup {NoJob}] BY <2>1, <2>2, <2>4, OutTyped
  <2> QED BY <1>a, <1>18, <2>5, <2>6 DEF CopyWork
<1>8. ASSUME NEW c \in Consoles, Stop(c) PROVE TypeOK'
  BY <1>a, <1>b, <1>8 DEF Stop, Finish, TypeOK
<1>9. ASSUME NEW c \in Consoles, SaveSet(c) PROVE TypeOK'
  <2>1. job[c] \in JobType BY <1>9 DEF SaveSet, At, TypeOK
  <2>2. PICK s \in Personal \ stored :
          /\ stored' = stored \cup {s}
          /\ Stored([secret : {s}, to : job[c].known, content : {Plain(s)}])
          /\ listed' = [listed EXCEPT ![s] = job[c].known]
    BY <1>9 DEF SaveSet
  <2>3. job[c].known \subseteq VaultKeys /\ s \in Secrets BY <2>1, JobFields, PersonalAndOrg
  <2>4. /\ copies' \in [Secrets -> [Recipients -> Contents \cup {NoCopy}]]
        /\ sealed' \subseteq Contents
    BY <2>1, <2>2, SetUpload, AfterUpload
  <2>5. job' = [job EXCEPT ![c] = NoJob] /\ UNCHANGED <<keys, checked, misled, trustVars>>
    BY <1>9 DEF SaveSet, Finish
  <2> QED BY <2>2, <2>3, <2>4, <2>5 DEF TypeOK, trustVars
<1>10. ASSUME NEW c \in Consoles, SaveResealed(c) \/ SaveCopies(c) PROVE TypeOK'
  <2>1. job[c] \in JobType BY <1>10 DEF SaveResealed, SaveCopies, At, TypeOK
  <2>2. job[c].out \subseteq Copy BY <2>1, JobFields
  <2>3. /\ copies' \in [Secrets -> [Recipients -> Contents \cup {NoCopy}]]
        /\ sealed' \subseteq Contents
    BY <1>10, <2>2, AfterUpload DEF SaveResealed, SaveCopies
  <2>4. job' \in [Consoles -> JobType \cup {NoJob}]
    BY <1>10, <2>1 DEF SaveResealed, SaveCopies, Finish, TypeOK, JobType
  <2> QED BY <1>10, <2>3, <2>4 DEF SaveResealed, SaveCopies, TypeOK, trustVars
<1>11. ASSUME NEW c \in Consoles, SealForMachine(c) PROVE TypeOK'
  <2>1. job[c] \in JobType BY <1>11 DEF SealForMachine, At, TypeOK
  <2>2. PICK cs \in SUBSET job[c].out : Stored(cs) /\ job' = [job EXCEPT ![c].out = @ \ cs]
    BY <1>11 DEF SealForMachine
  <2>3. /\ copies' \in [Secrets -> [Recipients -> Contents \cup {NoCopy}]]
        /\ sealed' \subseteq Contents
    BY <2>1, <2>2, JobFields, AfterUpload
  <2>4. job' \in [Consoles -> JobType \cup {NoJob}] BY <2>1, <2>2 DEF TypeOK, JobType
  <2> QED BY <1>11, <2>3, <2>4 DEF SealForMachine, TypeOK, trustVars
<1>12. ASSUME NEW c \in Consoles, AddKey(c) PROVE TypeOK'
  <2>1. job[c] \in JobType BY <1>12 DEF AddKey, At, TypeOK
  <2>2. job' \in [Consoles -> JobType \cup {NoJob}] BY <1>12, <2>1 DEF AddKey, TypeOK, JobType
  <2>3. job[c].new \in VaultKeys BY <2>1, JobFields
  <2> QED BY <1>12, <2>2, <2>3 DEF AddKey, TypeOK, trustVars
<1>13. ASSUME NEW c \in Consoles, CheckCopies(c) PROVE TypeOK'
  <2>1. job[c] \in JobType BY <1>13 DEF CheckCopies, At, TypeOK
  <2>2. job' \in [Consoles -> JobType \cup {NoJob}] BY <1>13, <2>1 DEF CheckCopies, TypeOK, JobType
  <2>3. Personal \cap stored \subseteq Secrets BY PersonalAndOrg
  <2> QED BY <1>13, <2>2, <2>3 DEF CheckCopies, TypeOK, trustVars
<1>14. ASSUME NEW s \in Secrets, StoreOrg(s) PROVE TypeOK'
  BY <1>14 DEF StoreOrg, TypeOK, trustVars
<1>15. ASSUME NEW s \in Secrets, NEW m \in Machines, SealNow(s, m) PROVE TypeOK'
  <2>1. {[secret |-> s, to |-> m, content |-> Plain(s)]} \subseteq Copy
    BY PlainContent, KeysAndMachines DEF Copy, Values
  <2>2. /\ copies' \in [Secrets -> [Recipients -> Contents \cup {NoCopy}]]
        /\ sealed' \subseteq Contents
    BY <1>15, <2>1, AfterUpload DEF SealNow
  <2> QED BY <1>15, <2>2 DEF SealNow, TypeOK, trustVars
<1>16. ASSUME NEW d \in Devices, Delegate(d) \/ Lapse(d) \/ Revoke(d) PROVE TypeOK'
  BY <1>16 DEF Delegate, Lapse, Revoke, TypeOK, account
<1>17. CASE UNCHANGED vars
  BY <1>17 DEF vars, TypeOK
<1> QED
  BY <1>1, <1>2, <1>3, <1>4, <1>5, <1>6, <1>7, <1>8, <1>9, <1>10, <1>11, <1>12, <1>13,
     <1>14, <1>15, <1>16, <1>17, <1>18 DEF Next

-----------------------------------------------------------------------------
(* The invariant                                                           *)

LEMMA InitInv == Init => IInv
<1> SUFFICES ASSUME Init PROVE IInv OBVIOUS
<1>1. TypeOK BY InitTyped
<1>2. CopiesGood /\ SealedGood BY DEF Init, CopiesGood, SealedGood
<1>3. JobsGood /\ AddedKeyOpens BY PersonalAndOrg DEF Init, JobsGood, JobGood, AddedKeyOpens
<1> QED BY <1>1, <1>2, <1>3 DEF IInv

LEMMA GoodKept ==
  ASSUME NEW x, NEW s, NEW r, NEW saved, NEW told, NEW saved2, NEW told2,
         GoodCopy(x, s, r, saved, told), saved \subseteq saved2, told \subseteq told2
  PROVE  GoodCopy(x, s, r, saved2, told2)
  BY DEF GoodCopy, EnvelopeOK, LiedAbout

LEMMA AllGoodKept ==
  ASSUME NEW cs, NEW saved, NEW told, NEW saved2, NEW told2,
         AllGood(cs, saved, told), saved \subseteq saved2, told \subseteq told2
  PROVE  AllGood(cs, saved2, told2)
  BY GoodKept DEF AllGood

(* What is saved and what was told only grows.                             *)
Grows == stored \subseteq stored' /\ misled \subseteq misled'

LEMMA JobKept ==
  ASSUME NEW c \in Consoles, JobGood(c), job'[c] = job[c], Grows
  PROVE  JobGood(c)'
  BY AllGoodKept DEF JobGood, Grows

(* A step of console c, once its own job is dealt with.                    *)
LEMMA JobsKept ==
  ASSUME TypeOK, JobsGood, NEW c \in Consoles, NEW j, job' = [job EXCEPT ![c] = j],
         Grows, j # NoJob => AllGood(j.out, stored', misled')
  PROVE  JobsGood'
<1> SUFFICES ASSUME NEW d \in Consoles PROVE JobGood(d)'
  BY DEF JobsGood
<1>1. CASE d = c BY <1>1 DEF JobGood, TypeOK
<1>2. CASE d # c BY <1>2, JobKept DEF TypeOK, JobsGood
<1> QED BY <1>1, <1>2

(* What holds of good copies after an upload of good copies.               *)
LEMMA UploadKeeps ==
  ASSUME IInv, NEW cs \in SUBSET Copy, Stored(cs), Grows, AllGood(cs, stored', misled')
  PROVE  /\ CopiesGood' /\ SealedGood'
         /\ \A s \in Secrets, r \in Recipients :
              /\ copies[s][r] # NoCopy => copies'[s][r] # NoCopy
              /\ (\E y \in cs : y.secret = s /\ y.to = r) => copies'[s][r] # NoCopy
         /\ sealed \subseteq sealed'
<1> USE DEF IInv, Grows
<1>1. \A s \in Secrets, r \in Recipients :
         \/ copies'[s][r] = copies[s][r] /\ ~\E y \in cs : y.secret = s /\ y.to = r
         \/ \E y \in cs : y.secret = s /\ y.to = r /\ copies'[s][r] = y.content
  BY AfterUpload
<1>2. \A y \in cs : y.content # NoCopy BY CopyFields
<1>5. sealed \subseteq sealed' /\ \A y \in cs : y.content \in sealed' BY DEF Stored
<1>3. CopiesGood'
  <2> SUFFICES ASSUME NEW s \in Secrets, NEW r \in Recipients, copies'[s][r] # NoCopy
      PROVE  copies'[s][r] \in sealed' /\ GoodCopy(copies'[s][r], s, r, stored', misled')
    BY DEF CopiesGood
  <2>1. CASE copies'[s][r] = copies[s][r] BY <1>5, <2>1, GoodKept DEF CopiesGood
  <2>2. ASSUME NEW y \in cs, y.secret = s, y.to = r, copies'[s][r] = y.content
        PROVE  copies'[s][r] \in sealed' /\ GoodCopy(copies'[s][r], s, r, stored', misled')
    BY <1>5, <2>2 DEF AllGood
  <2> QED BY <1>1, <2>1, <2>2
<1>4. SealedGood'
  <2> SUFFICES ASSUME NEW x \in sealed', IsSigned(x) PROVE EnvelopeOK(x, stored', misled')
    BY DEF SealedGood
  <2>1. CASE x \in sealed BY <2>1 DEF SealedGood, EnvelopeOK, LiedAbout
  <2>2. CASE \E y \in cs : x = y.content BY <2>2 DEF AllGood, GoodCopy
  <2> QED BY <2>1, <2>2, AfterUpload
<1> QED BY <1>1, <1>2, <1>3, <1>4, <1>5

(* Added keys keep opening as long as no copy goes away.                   *)
LEMMA OpensNext ==
  ASSUME CopiesGood',
         \A k \in VaultKeys, s \in Personal : k \in listed'[s] \/ s \in checked'[k] =>
           copies'[s][k] # NoCopy
  PROVE  AddedKeyOpens'
<1> SUFFICES ASSUME NEW k \in VaultKeys, NEW s \in Personal, k \in listed'[s] \/ s \in checked'[k]
    PROVE  copies'[s][k] # NoCopy
           /\ (Prints(copies[s][k], s) \/ EnvelopedForKey(s) \/ Misled(s, k))'
  BY DEF AddedKeyOpens
<1>1. copies'[s][k] # NoCopy OBVIOUS
<1>2. copies'[s][k] \in sealed' /\ GoodCopy(copies'[s][k], s, k, stored', misled')
  BY <1>1, KeysAndMachines, PersonalAndOrg DEF CopiesGood
<1>3. CASE IsSigned(copies'[s][k]) BY <1>1, <1>2, <1>3 DEF GoodCopy, EnvelopedForKey
<1>4. CASE ~IsSigned(copies'[s][k])
  BY <1>1, <1>2, <1>4 DEF GoodCopy, LiedAbout, Misled, Prints
<1> QED BY <1>3, <1>4

LEMMA OpensKept ==
  ASSUME IInv, CopiesGood', UNCHANGED <<listed, checked>>,
         \A s \in Secrets, r \in Recipients : copies[s][r] # NoCopy => copies'[s][r] # NoCopy
  PROVE  AddedKeyOpens'
<1>1. \A k \in VaultKeys, s \in Personal : k \in listed[s] \/ s \in checked[k] =>
        copies[s][k] # NoCopy
  BY DEF IInv, AddedKeyOpens
<1> QED BY <1>1, OpensNext, KeysAndMachines, PersonalAndOrg

(* A step that leaves the account alone, or only stores a value in it.     *)
LEMMA AccountKept ==
  ASSUME IInv, UNCHANGED <<copies, sealed, listed, checked>>, Grows
  PROVE  CopiesGood' /\ SealedGood' /\ AddedKeyOpens'
<1> USE DEF IInv, Grows
<1>1. CopiesGood' BY GoodKept DEF CopiesGood
<1>2. SealedGood' BY DEF SealedGood, EnvelopeOK, LiedAbout
<1> QED BY <1>1, <1>2, OpensKept

-----------------------------------------------------------------------------
(* The copies that commands prepare are good ones.                         *)

LEMMA PlainGood ==
  ASSUME NEW s \in Secrets, NEW r \in Recipients, NEW saved, NEW told
  PROVE  GoodCopy(Plain(s), s, r, saved, told)
  BY PlainContent DEF GoodCopy, Values

(* A lie is remembered: nothing is claimed of what it makes a command seal.*)
LEMMA LieGood ==
  ASSUME NEW lies \in SUBSET Lies, NEW i \in lies, NEW d \in Devices, NEW saved, NEW told,
         Told(lies) \subseteq told
  PROVE  /\ GoodCopy(Plain(i.value), i.secret, i.to, saved, told)
         /\ GoodCopy(Envelope(d, i), i.secret, i.to, saved, told)
<1>1. i \in Items BY LiesTyped
<1>2. LiedAbout(i.secret, i.to, told) BY DEF LiedAbout, Told
<1> QED BY <1>1, <1>2, ItemFields, PlainContent, EnvelopeContent DEF GoodCopy, EnvelopeOK

LEMMA TruthGood ==
  ASSUME NEW s \in Secrets, NEW v \in Values, NEW r \in Recipients, NEW d \in Devices,
         NEW saved, NEW told, LiedAbout(s, r, told) \/ v = s, s \in saved,
         r \in Machines => r \in Mine /\ s \in Granted[r]
  PROVE  /\ GoodCopy(Plain(v), s, r, saved, told)
         /\ GoodCopy(Envelope(d, Truth(s, v, r)), s, r, saved, told)
<1>1. GoodCopy(Plain(v), s, r, saved, told) BY PlainContent DEF GoodCopy
<1>2. GoodCopy(Envelope(d, Truth(s, v, r)), s, r, saved, told)
  BY TrueItem, EnvelopeContent DEF GoodCopy, EnvelopeOK
<1> QED BY <1>1, <1>2

LEMMA WorkGood ==
  ASSUME IInv, NEW c \in Consoles, job[c] \in JobType, NEW lies \in SUBSET Lies
  PROVE  AllGood({ResealedFor(c, i) : i \in WorkItems(job[c].key, lies)}, stored,
                 misled \cup Told(lies))
<1> USE DEF IInv
<1> DEFINE told == misled \cup Told(lies)
           k == job[c].key
           d == job[c].device
<1>1. k \in VaultKeys /\ d \in Devices BY JobFields
<1>2. ASSUME NEW i \in WorkItems(k, lies)
      PROVE  /\ GoodCopy(Plain(i.value), i.secret, i.to, stored, told)
             /\ GoodCopy(Envelope(d, i), i.secret, i.to, stored, told)
  <2>1. CASE i \in lies BY <1>1, <2>1, LieGood
  <2>2. ASSUME NEW s \in Openable(k) \ Lied(lies), NEW r \in Recipients,
               r \in Missing(s), i = Truth(s, copies[s][k].value, r)
        PROVE  /\ GoodCopy(Plain(i.value), i.secret, i.to, stored, told)
               /\ GoodCopy(Envelope(d, i), i.secret, i.to, stored, told)
    <3>1. s \in Secrets /\ s \in stored /\ copies[s][k] # NoCopy
      BY PersonalAndOrg DEF Openable
    <3>2. r \in Machines => r \in Mine /\ s \in Granted[r]
      BY <2>2, <3>1 DEF Missing, MissingKeys, TypeOK
    <3>3. GoodCopy(copies[s][k], s, k, stored, misled)
      BY <1>1, <3>1, KeysAndMachines DEF CopiesGood
    <3>4. copies[s][k].value \in Values
      BY <3>3 DEF GoodCopy, Contents, PlainCopies, Envelopes
    <3>5. LiedAbout(s, r, told) \/ copies[s][k].value = s
      BY <1>1, <3>3 DEF GoodCopy, LiedAbout
    <3>6. i.secret = s /\ i.to = r /\ i.value = copies[s][k].value
      BY <2>2, <3>1, <3>4, TrueItem
    <3> HIDE DEF k, d, told
    <3> QED BY <1>1, <2>2, <3>1, <3>2, <3>4, <3>5, <3>6, TruthGood
  <2> QED BY <1>1, <2>1, <2>2, WorkItem
<1>3. ASSUME NEW i \in WorkItems(k, lies)
      PROVE  GoodCopy(ResealedFor(c, i).content, ResealedFor(c, i).secret,
                      ResealedFor(c, i).to, stored, told)
  <2>1. i \in Items BY <1>1, WorkItem
  <2> QED BY <1>2, <2>1, ResealedCopy
<1> QED BY <1>3 DEF AllGood

LEMMA OrgWorkGood ==
  ASSUME IInv, NEW c \in Consoles, job[c] \in JobType, NEW lies \in SUBSET Lies
  PROVE  AllGood({SealedAs(i, Envelope(job[c].device, i)) : i \in OrgItems(lies)}, stored,
                 misled \cup Told(lies))
<1> USE DEF IInv
<1> DEFINE told == misled \cup Told(lies)
           d == job[c].device
<1>1. d \in Devices BY JobFields
<1>2. ASSUME NEW i \in OrgItems(lies)
      PROVE  GoodCopy(Envelope(d, i), i.secret, i.to, stored, told)
  <2>1. CASE i \in lies BY <1>1, <2>1, LieGood
  <2>2. ASSUME NEW s \in Org \cap stored, NEW m \in Mine \cap Machines,
               s \in Granted[m], i = Truth(s, s, m)
        PROVE  GoodCopy(Envelope(d, i), i.secret, i.to, stored, told)
    <3>1. s \in Secrets /\ s \in Values /\ m \in Recipients
      BY PersonalAndOrg, KeysAndMachines DEF Values
    <3>2. i.secret = s /\ i.to = m BY <2>2, <3>1, TrueItem
    <3> HIDE DEF d, told
    <3> QED BY <1>1, <2>2, <3>1, <3>2, TruthGood
  <2> QED BY <2>1, <2>2, OrgItem
<1>3. ASSUME NEW i \in OrgItems(lies)
      PROVE  LET y == SealedAs(i, Envelope(d, i))
             IN  GoodCopy(y.content, y.secret, y.to, stored, told)
  <2>1. i \in Items /\ Envelope(d, i) \in Contents BY <1>1, OrgItem, EnvelopeContent
  <2> QED BY <1>2, <2>1, SealedFields
<1> QED BY <1>3 DEF AllGood

LEMMA CopyWorkGood ==
  ASSUME IInv, NEW old \in VaultKeys, NEW new \in VaultKeys, NEW lies \in SUBSET Lies,
         \A s \in Lacking(new) \ Lied(lies) : copies[s][old] # NoCopy
  PROVE  AllGood(CopyItems(old, new, lies), stored, misled \cup Told(lies))
<1> USE DEF IInv
<1> DEFINE told == misled \cup Told(lies)
<1> SUFFICES ASSUME NEW y \in CopyItems(old, new, lies)
    PROVE  GoodCopy(y.content, y.secret, y.to, stored, told)
  BY DEF AllGood
<1>1. ASSUME NEW l \in lies, y.secret = l.secret, y.to = l.to, y.content = Plain(l.value)
      PROVE  GoodCopy(y.content, y.secret, y.to, stored, told)
  BY <1>1, LieGood
<1>2. ASSUME y.secret \in Secrets, y.to = new, copies[y.secret][old] # NoCopy,
             y.content = copies[y.secret][old]
      PROVE  GoodCopy(y.content, y.secret, y.to, stored, told)
  <2>1. GoodCopy(y.content, y.secret, old, stored, misled)
    BY <1>2, KeysAndMachines DEF CopiesGood
  <2>2. GoodCopy(y.content, y.secret, new, stored, misled)
    BY <2>1 DEF GoodCopy, LiedAbout
  <2> QED BY <1>2, <2>2, GoodKept
<1>3. \/ \E l \in lies : y.secret = l.secret /\ y.to = l.to /\ y.content = Plain(l.value)
      \/ /\ y.secret \in Secrets /\ y.to = new
         /\ copies[y.secret][old] # NoCopy /\ y.content = copies[y.secret][old]
  BY CopyItem
<1> HIDE DEF told
<1> QED BY <1>1, <1>2, <1>3

-----------------------------------------------------------------------------
(* A step that begins, ends or advances a command.                         *)
LEMMA JobOnly ==
  ASSUME IInv, TypeOK', NEW c \in Consoles, NEW j, job' = [job EXCEPT ![c] = j],
         UNCHANGED account, misled \subseteq misled',
         j # NoJob => AllGood(j.out, stored, misled')
  PROVE  IInv'
<1> USE DEF IInv
<1>0. Grows /\ stored' = stored BY DEF Grows, account
<1>1. CopiesGood' /\ SealedGood' /\ AddedKeyOpens' BY <1>0, AccountKept DEF account
<1>2. JobsGood' BY <1>0, JobsKept
<1> QED BY <1>1, <1>2

LEMMA BeginKeeps ==
  ASSUME IInv, TypeOK', NEW c \in Consoles, NEW op, NEW step, NEW k, NEW new, NEW d,
         Begin(c, op, step, k, new, d), UNCHANGED account, misled' = misled
  PROVE  IInv'
<1> DEFINE j == [op |-> op, step |-> step, key |-> k, new |-> new, device |-> d, known |-> keys,
                 out |-> {}]
<1>1. job' = [job EXCEPT ![c] = j] BY DEF Begin
<1>2. AllGood(j.out, stored, misled') BY DEF AllGood
<1> HIDE DEF j
<1> QED BY <1>1, <1>2, JobOnly

(* Work, OrgWork and CopyWork: a command has its upload ready.             *)
LEMMA OutReady ==
  ASSUME IInv, TypeOK', NEW c \in Consoles, job[c] \in JobType, NEW out, NEW step,
         job' = [job EXCEPT ![c].step = step, ![c].out = out],
         UNCHANGED account, misled \subseteq misled', AllGood(out, stored, misled')
  PROVE  IInv'
<1> DEFINE j == [job[c] EXCEPT !.step = step, !.out = out]
<1>1. job' = [job EXCEPT ![c] = j] OBVIOUS
<1>2. j.out = out BY DEF JobType
<1> HIDE DEF j
<1> QED BY <1>1, <1>2, JobOnly

LEMMA UploadStep ==
  ASSUME IInv, TypeOK', NEW c \in Consoles, job[c] # NoJob, NEW j,
         job' = [job EXCEPT ![c] = j], j # NoJob => j.out \subseteq job[c].out,
         NEW cs \in SUBSET Copy, cs \subseteq job[c].out, Stored(cs),
         UNCHANGED <<stored, listed, checked, misled>>
  PROVE  IInv'
<1> USE DEF IInv
<1>1. AllGood(job[c].out, stored', misled') BY DEF JobsGood, JobGood
<1>2. Grows /\ AllGood(cs, stored', misled') BY <1>1 DEF Grows, AllGood
<1>3. CopiesGood' /\ SealedGood' /\ AddedKeyOpens' BY <1>2, UploadKeeps, OpensKept
<1>4. JobsGood' BY <1>1, <1>2, JobsKept DEF AllGood
<1> QED BY <1>3, <1>4

LEMMA SaveSetKeeps ==
  ASSUME IInv, TypeOK', NEW c \in Consoles, SaveSet(c) PROVE IInv'
<1> USE DEF IInv
<1>1. job[c] \in JobType BY DEF SaveSet, At, TypeOK
<1>2. PICK s \in Personal \ stored :
        /\ stored' = stored \cup {s}
        /\ Stored([secret : {s}, to : job[c].known, content : {Plain(s)}])
        /\ listed' = [listed EXCEPT ![s] = job[c].known]
  BY DEF SaveSet
<1>3. s \in Secrets /\ job[c].known \subseteq Recipients
  BY <1>1, PersonalAndOrg, JobFields, KeysAndMachines
<1> DEFINE cs == [secret : {s}, to : job[c].known, content : {Plain(s)}]
<1>4. cs \in SUBSET Copy BY <1>1, SetUpload
<1>5. AllGood(cs, stored', misled') BY <1>2, <1>3, PlainGood DEF AllGood
<1>6. \A k \in job[c].known : \E y \in cs : y.secret = s /\ y.to = k
  <2> SUFFICES ASSUME NEW k \in job[c].known PROVE \E y \in cs : y.secret = s /\ y.to = k
    OBVIOUS
  <2>1. [secret |-> s, to |-> k, content |-> Plain(s)] \in cs OBVIOUS
  <2> QED BY <2>1
<1>7. Grows /\ Stored(cs) BY <1>2 DEF SaveSet, Grows
<1> HIDE DEF cs
<1>8. /\ CopiesGood' /\ SealedGood'
      /\ \A t \in Secrets, r \in Recipients :
           /\ copies[t][r] # NoCopy => copies'[t][r] # NoCopy
           /\ (\E y \in cs : y.secret = t /\ y.to = r) => copies'[t][r] # NoCopy
  BY <1>4, <1>5, <1>7, UploadKeeps
<1>9. AddedKeyOpens'
  <2> SUFFICES ASSUME NEW k \in VaultKeys, NEW t \in Personal, k \in listed'[t] \/ t \in checked'[k]
      PROVE  copies'[t][k] # NoCopy
    BY <1>8, OpensNext
  <2>1. k \in Recipients /\ t \in Secrets BY KeysAndMachines, PersonalAndOrg
  <2>2. CASE t = s /\ k \in job[c].known BY <1>6, <1>8, <2>1, <2>2
  <2>3. CASE ~(t = s /\ k \in job[c].known)
    <3>1. k \in listed[t] \/ t \in checked[k]
      BY <1>2, <1>3, <2>1, <2>3 DEF SaveSet, TypeOK
    <3> QED BY <1>8, <2>1, <3>1 DEF AddedKeyOpens
  <2> QED BY <2>2, <2>3
<1>10. job' = [job EXCEPT ![c] = NoJob] BY DEF SaveSet, Finish
<1>12. JobsGood' BY <1>7, <1>10, JobsKept
<1> QED BY <1>8, <1>9, <1>12

LEMMA SealForMachineKeeps ==
  ASSUME IInv, TypeOK', NEW c \in Consoles, SealForMachine(c) PROVE IInv'
<1> USE DEF IInv
<1>1. job[c] \in JobType /\ job[c] # NoJob BY DEF SealForMachine, At, TypeOK
<1>2. PICK cs \in SUBSET job[c].out : Stored(cs) /\ job' = [job EXCEPT ![c].out = @ \ cs]
  BY DEF SealForMachine
<1> DEFINE j == [job[c] EXCEPT !.out = @ \ cs]
<1>3. job' = [job EXCEPT ![c] = j] BY <1>2
<1>4. j.out \subseteq job[c].out /\ cs \in SUBSET Copy BY <1>1, JobFields DEF JobType
<1> HIDE DEF j
<1> QED BY <1>1, <1>2, <1>3, <1>4, UploadStep DEF SealForMachine

LEMMA CheckKeeps ==
  ASSUME IInv, TypeOK', NEW c \in Consoles, CheckCopies(c) PROVE IInv'
<1> USE DEF IInv
<1>1. job[c] \in JobType /\ job[c] # NoJob BY DEF CheckCopies, At, TypeOK
<1>2. job[c].new \in VaultKeys BY <1>1, JobFields
<1> DEFINE j == [job[c] EXCEPT !.step = "registered"]
<1>3. job' = [job EXCEPT ![c] = j] BY DEF CheckCopies
<1>4. j.out = job[c].out BY <1>1 DEF JobType
<1> HIDE DEF j
<1>5. Grows /\ stored' = stored /\ misled' = misled BY DEF CheckCopies, Grows
<1>7. JobsGood' BY <1>1, <1>3, <1>4, <1>5, JobsKept DEF JobsGood, JobGood
<1>8. CopiesGood' /\ SealedGood' BY DEF CheckCopies, CopiesGood, SealedGood
<1>9. AddedKeyOpens'
  <2> SUFFICES ASSUME NEW k \in VaultKeys, NEW t \in Personal, k \in listed'[t] \/ t \in checked'[k]
      PROVE  copies'[t][k] # NoCopy
    BY <1>8, OpensNext
  <2>1. copies' = copies /\ listed' = listed
        /\ checked' = [checked EXCEPT ![job[c].new] = Personal \cap stored]
    BY DEF CheckCopies
  <2>2. CASE k \in listed[t] \/ t \in checked[k] BY <2>1, <2>2 DEF AddedKeyOpens
  <2>3. CASE k = job[c].new /\ t \in stored
    BY <2>1, <2>3 DEF CheckCopies, Checked, Lacking
  <2> QED BY <1>2, <2>1, <2>2, <2>3 DEF TypeOK
<1> QED BY <1>7, <1>8, <1>9

LEMMA OutsideKeeps ==
  ASSUME IInv, TypeOK', job' = job, Grows,
         CopiesGood', SealedGood', AddedKeyOpens'
  PROVE  IInv'
  BY JobKept DEF IInv, JobsGood

LEMMA StepInv == IInv /\ [Next]_vars => IInv'
<1> SUFFICES ASSUME IInv, [Next]_vars PROVE IInv'
  OBVIOUS
<1>0. TypeOK' BY StepTyped DEF IInv
<1>1. ASSUME NEW c \in Consoles, StartSet(c) PROVE IInv'
  BY <1>0, <1>1, BeginKeeps DEF StartSet
<1>2. ASSUME NEW c \in Consoles, NEW k \in VaultKeys, NEW d \in Devices, StartReseal(c, k, d)
      PROVE  IInv'
  BY <1>0, <1>2, BeginKeeps DEF StartReseal
<1>3. ASSUME NEW c \in Consoles, NEW d \in Devices, StartOrgReseal(c, d) PROVE IInv'
  BY <1>0, <1>3, BeginKeeps DEF StartOrgReseal
<1>4. ASSUME NEW c \in Consoles, NEW old \in VaultKeys, NEW new \in VaultKeys,
             StartRegister(c, old, new)
      PROVE  IInv'
  BY <1>0, <1>4, BeginKeeps DEF StartRegister
<1>5. ASSUME NEW c \in Consoles, OwnKeys(c) \/ Registered(c) PROVE IInv'
  <2>1. job[c] \in JobType /\ job[c] # NoJob
    BY <1>5 DEF IInv, OwnKeys, Registered, At, TypeOK
  <2> DEFINE j == IF OwnKeys(c) THEN [job[c] EXCEPT !.step = "work", !.known = keys]
                  ELSE [job[c] EXCEPT !.step = "registered"]
  <2>2. j.out = job[c].out BY <2>1 DEF JobType
  <2>3. job' = [job EXCEPT ![c] = j] BY <1>5 DEF OwnKeys, Registered
  <2> HIDE DEF j
  <2>4. UNCHANGED account /\ misled' = misled BY <1>5 DEF OwnKeys, Registered
  <2>5. AllGood(j.out, stored, misled') BY <2>1, <2>2, <2>4 DEF IInv, JobsGood, JobGood
  <2> QED BY <1>0, <2>3, <2>4, <2>5, JobOnly
<1>6. ASSUME NEW c \in Consoles, Work(c) PROVE IInv'
  <2>1. job[c] \in JobType BY <1>6 DEF Work, At, IInv, TypeOK
  <2>2. PICK lies \in SUBSET Lies :
          /\ job' = [job EXCEPT ![c].step = "save",
               ![c].out = {ResealedFor(c, i) : i \in WorkItems(job[c].key, lies)}]
          /\ misled' = misled \cup Told(lies)
    BY <1>6 DEF Work
  <2>3. AllGood({ResealedFor(c, i) : i \in WorkItems(job[c].key, lies)}, stored, misled')
    BY <2>1, <2>2, WorkGood
  <2> QED BY <1>0, <1>6, <2>1, <2>2, <2>3, OutReady DEF Work
<1>7. ASSUME NEW c \in Consoles, OrgWork(c) PROVE IInv'
  <2>1. job[c] \in JobType BY <1>7 DEF OrgWork, At, IInv, TypeOK
  <2>2. PICK lies \in SUBSET Lies :
          /\ job' = [job EXCEPT ![c].step = "machines",
               ![c].out = {SealedAs(i, Envelope(job[c].device, i)) : i \in OrgItems(lies)}]
          /\ misled' = misled \cup Told(lies)
    BY <1>7 DEF OrgWork
  <2>3. AllGood({SealedAs(i, Envelope(job[c].device, i)) : i \in OrgItems(lies)}, stored, misled')
    BY <2>1, <2>2, OrgWorkGood
  <2> QED BY <1>0, <1>7, <2>1, <2>2, <2>3, OutReady DEF OrgWork
<1>18. ASSUME NEW c \in Consoles, CopyWork(c) PROVE IInv'
  <2>1. job[c] \in JobType BY <1>18 DEF CopyWork, At, IInv, TypeOK
  <2>2. PICK lies \in SUBSET {l \in Lies : l.to = job[c].new} :
          /\ \A s \in Lacking(job[c].new) \ Lied(lies) : copies[s][job[c].key] # NoCopy
          /\ job' = [job EXCEPT ![c].step = "save",
               ![c].out = CopyItems(job[c].key, job[c].new, lies)]
          /\ misled' = misled \cup Told(lies)
    BY <1>18 DEF CopyWork
  <2>3. AllGood(CopyItems(job[c].key, job[c].new, lies), stored, misled')
    BY <2>1, <2>2, JobFields, CopyWorkGood
  <2> QED BY <1>0, <1>18, <2>1, <2>2, <2>3, OutReady DEF CopyWork
<1>8. ASSUME NEW c \in Consoles, Stop(c) PROVE IInv'
  BY <1>0, <1>8, JobOnly DEF Stop, Finish
<1>9. ASSUME NEW c \in Consoles, SaveSet(c) PROVE IInv' BY <1>0, <1>9, SaveSetKeeps
<1>10. ASSUME NEW c \in Consoles, SaveResealed(c) \/ SaveCopies(c) PROVE IInv'
  <2>1. job[c] \in JobType /\ job[c] # NoJob
    BY <1>10 DEF SaveResealed, SaveCopies, At, IInv, TypeOK
  <2>2. job[c].out \in SUBSET Copy BY <2>1, JobFields
  <2>3. Stored(job[c].out) /\ UNCHANGED <<stored, listed, checked, misled>>
    BY <1>10 DEF SaveResealed, SaveCopies
  <2>4. CASE SaveResealed(c)
    BY <1>0, <2>1, <2>2, <2>3, <2>4, UploadStep DEF SaveResealed, Finish
  <2>5. CASE SaveCopies(c)
    <3> DEFINE j == [job[c] EXCEPT !.step = "check"]
    <3>1. j.out = job[c].out BY <2>1 DEF JobType
    <3>2. job' = [job EXCEPT ![c] = j] BY <2>5 DEF SaveCopies
    <3> HIDE DEF j
    <3> QED BY <1>0, <2>1, <2>2, <2>3, <3>1, <3>2, UploadStep
  <2> QED BY <1>10, <2>4, <2>5
<1>11. ASSUME NEW c \in Consoles, SealForMachine(c) PROVE IInv' BY <1>0, <1>11, SealForMachineKeeps
<1>12. ASSUME NEW c \in Consoles, AddKey(c) PROVE IInv'
  <2>1. job[c] \in JobType /\ job[c] # NoJob BY <1>12 DEF AddKey, At, IInv, TypeOK
  <2> DEFINE j == [job[c] EXCEPT !.step = "work"]
  <2>2. job' = [job EXCEPT ![c] = j] BY <1>12 DEF AddKey
  <2>3. Grows /\ UNCHANGED <<stored, copies, sealed, listed, checked, misled>>
    BY <1>12 DEF AddKey, Grows
  <2>4. j.out = job[c].out BY <2>1 DEF JobType
  <2> HIDE DEF j
  <2>5. JobsGood' BY <2>1, <2>2, <2>3, <2>4, JobsKept DEF IInv, JobsGood, JobGood
  <2> QED BY <1>0, <2>3, <2>5, AccountKept DEF IInv
<1>13. ASSUME NEW c \in Consoles, CheckCopies(c) PROVE IInv' BY <1>0, <1>13, CheckKeeps
<1>14. ASSUME NEW s \in Secrets, StoreOrg(s) PROVE IInv'
  <2>1. UNCHANGED <<copies, sealed, listed, checked>> /\ Grows /\ job' = job
    BY <1>14 DEF StoreOrg, Grows
  <2> QED BY <1>0, <2>1, AccountKept, OutsideKeeps
<1>15. ASSUME NEW s \in Secrets, NEW m \in Machines, SealNow(s, m) PROVE IInv'
  <2> DEFINE cs == {[secret |-> s, to |-> m, content |-> Plain(s)]}
  <2>1. cs \in SUBSET Copy BY PlainContent, KeysAndMachines DEF Copy, Values
  <2>2. /\ Stored(cs) /\ job' = job /\ Grows
        /\ UNCHANGED <<stored, listed, checked>>
    BY <1>15 DEF SealNow, Grows
  <2>3. AllGood(cs, stored', misled') BY PlainGood, KeysAndMachines DEF AllGood
  <2> HIDE DEF cs
  <2>4. CopiesGood' /\ SealedGood' /\ AddedKeyOpens' BY <2>1, <2>2, <2>3, UploadKeeps, OpensKept
  <2> QED BY <1>0, <2>2, <2>4, OutsideKeeps
<1>16. ASSUME NEW d \in Devices, Delegate(d) \/ Lapse(d) \/ Revoke(d) PROVE IInv'
  <2>1. UNCHANGED <<stored, copies, sealed, listed, checked, job>> /\ Grows
    BY <1>16 DEF Delegate, Lapse, Revoke, account, Grows
  <2> QED BY <1>0, <2>1, AccountKept, OutsideKeeps
<1>17. CASE UNCHANGED vars
  <2>1. UNCHANGED <<stored, copies, sealed, listed, checked, job>> /\ Grows
    BY <1>17 DEF vars, Grows
  <2> QED BY <1>0, <2>1, AccountKept, OutsideKeeps
<1> QED
  BY <1>1, <1>2, <1>3, <1>4, <1>5, <1>6, <1>7, <1>8, <1>9, <1>10, <1>11, <1>12, <1>13,
     <1>14, <1>15, <1>16, <1>17, <1>18 DEF Next

LEMMA Invariance == Spec => []IInv
  BY InitInv, StepInv, PTL DEF Spec

-----------------------------------------------------------------------------
(* TypeOK: whatever commands of secret.go and usbvault.go run at once, the *)
(* account's copies stay copies.                                           *)
THEOREM TypeCorrect == Spec => []TypeOK
<1>1. IInv => TypeOK BY DEF IInv
<1> QED BY <1>1, Invariance, PTL

(* EnvGenuine (openSecretValue, fetchSecrets): with signatures required,  *)
(* a value that the owner did not store under that id and name and grant   *)
(* to this machine reaches a process only if a sealing command was lied to *)
(* about this secret and this machine or a vault key, whatever is served.  *)
THEOREM OnlyGenuine == Spec => []EnvGenuine
<1>1. IInv => EnvGenuine
  <2> SUFFICES ASSUME IInv, NEW m \in Machines, NEW id \in Secrets, NEW name \in Names,
                      NEW t \in Trusts, NEW rooted \in BOOLEAN,
                      NEW x \in sealed \cup Forgeries(id, name, m),
                      Fetched(x, id, name, m, t, rooted, TRUE)
      PROVE  \/ x.value = id /\ id \in stored /\ name = NameOf[id] /\ id \in Granted[m]
             \/ Misled(id, m)
    BY DEF EnvGenuine
  <2>1. IsSigned(x) /\ Verifies(x, id, name, m, t) BY DEF Fetched, Accepts
  <2>2. x.signer \in Devices /\ x.secret = id /\ x.name = name /\ x.to = m
    BY <2>1 DEF Verifies, Delegated, Trusts, IInv, TypeOK
  <2>3. x \in sealed
    <3>1. x # Plain(Forged) BY <2>1 DEF Plain, IsSigned
    <3>2. x # [signer |-> Rogue, value |-> Forged, secret |-> id, name |-> name, to |-> m]
      BY <2>2
    <3> QED BY <3>1, <3>2 DEF Forgeries
  <2>4. EnvelopeOK(x, stored, misled) BY <2>1, <2>3 DEF IInv, SealedGood
  <2> QED BY <2>2, <2>4 DEF EnvelopeOK, LiedAbout, Misled
<1> QED BY <1>1, Invariance, PTL

(* SignedCopiesVerify (secretReseal, orgSecretReseal): a signed copy that  *)
(* the server did not lie about is accepted on its machine while its       *)
(* device is delegated.                                                    *)
THEOREM SignedAccepted == Spec => []SignedCopiesVerify
<1>1. IInv => SignedCopiesVerify
  <2> SUFFICES ASSUME IInv, NEW s \in stored, NEW m \in Machines,
                      copies[s][m] # NoCopy, IsSigned(copies[s][m]), ~Misled(s, m)
      PROVE  /\ m \in Mine
             /\ LiveDelegation(copies[s][m].signer) =>
                  Fetched(copies[s][m], s, NameOf[s], m, Newest, TRUE, TRUE)
    BY DEF SignedCopiesVerify
  <2> DEFINE x == copies[s][m]
  <2>1. s \in Secrets /\ m \in Recipients BY KeysAndMachines DEF IInv, TypeOK
  <2>2. GoodCopy(x, s, m, stored, misled) BY <2>1 DEF IInv, CopiesGood
  <2>3. /\ x.secret = s /\ x.name = NameOf[s] /\ x.to = m /\ m \in Mine
    BY <2>2 DEF GoodCopy, EnvelopeOK, LiedAbout, Misled
  <2> QED BY <2>3 DEF LiveDelegation, Fetched, Accepts, Verifies, Delegated, Newest
<1> QED BY <1>1, Invariance, PTL

(* AddedKeyOpens (addVaultKey, cmdSecretSet): what usb register reported,  *)
(* and what secret set sealed to, keeps a copy for ever, which secret get  *)
(* prints the value of unless the secret was lied about or signed for a    *)
(* vault key.                                                              *)
THEOREM AddedKeysServe == Spec => []AddedKeyOpens
<1>1. IInv => AddedKeyOpens BY DEF IInv
<1> QED BY <1>1, Invariance, PTL
=============================================================================
