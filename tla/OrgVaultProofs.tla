--------------------------- MODULE OrgVaultProofs ---------------------------
(***************************************************************************)
(* What holds of OrgVault for any number of users, keys, secrets, consoles *)
(* and rotations.                                                          *)
(***************************************************************************)
EXTENDS OrgVault, TLAPS

USE VaultAssumption

(* Every stored copy is sealed to the org key in force and holds a value;  *)
(* before there is an org key there is nothing.                            *)
CopiesCurrent ==
  \A s \in Secrets : sealed[s] # NotStored => sealed[s].org = org /\ sealed[s].value \in Values
NothingYet ==
  org = 0 => /\ wraps = [k \in Keys |-> 0] /\ overtaken = {}
             /\ members = {} /\ granted = {}

(* A wrap that no late console has touched is of the org key in force, and *)
(* some member's registered key has a wrap.                                *)
WrapsCurrent == \A k \in Keys : wraps[k] # 0 => k \in overtaken \/ wraps[k] = org
SomebodyReads == org # 0 => \E k \in registered : Owner[k] \in members /\ wraps[k] # 0

(* What a command has read: the user and the key it was started for, ...   *)
Started(c) ==
  /\ job[c].step = "create" =>
       job[c].key \in registered /\ Owner[job[c].key] = Founder /\ job[c].user = Founder
  /\ job[c].step # "create" => org # 0
(* ... the user it wraps for, who was granted access, and that user's keys,*)
Wrapping(c) ==
  /\ job[c].step \in {"lookup", "wrap"} => job[c].user \in granted /\ job[c].org # 0
  /\ job[c].step = "wrap" => \A k \in job[c].keys : Owner[k] = job[c].user
(* the keys a rotation wraps to, ...                                       *)
Rotating(c) ==
  job[c].step = "upload" =>
    /\ job[c].keys # {}
    /\ \A k \in job[c].keys : k \in registered /\ Owner[k] \in members /\ Owner[k] \in granted
(* ... and the copies it fetched: what they held then they hold now, and   *)
(* all of them opened before it uploads.                                   *)
Fetched(c) ==
  \A s \in Secrets : job[c].got[s] # NotStored =>
    /\ sealed[s] # NotStored
    /\ job[c].got[s].value = sealed[s].value
    /\ job[c].step = "upload" => job[c].got[s].org = job[c].org

JobOK(c) == job[c] # NoJob => Started(c) /\ Wrapping(c) /\ Rotating(c) /\ Fetched(c)
JobsOK == \A c \in Consoles : JobOK(c)

IInv ==
  /\ TypeOK
  /\ CopiesCurrent /\ NothingYet
  /\ WrapsCurrent /\ SomebodyReads
  /\ OnlyGranted
  /\ JobsOK

-----------------------------------------------------------------------------
(* Lemmas about the operators                                              *)

LEMMA NotACopy == NotStored \notin Copies
  BY DEF Copies, Orgs

(* Re-encryption keeps the value of a copy that opens.                     *)
LEMMA ResealedKeeps ==
  ASSUME NEW x \in Copies, NEW g \in 0..MaxOrg, NEW h \in Orgs
  PROVE  /\ Resealed(x, g, h) \in Copies
         /\ Resealed(x, g, h) # NotStored
         /\ Resealed(x, g, h).org = h
         /\ x.org = g => Resealed(x, g, h).value = x.value
  BY NotACopy DEF Resealed, Plain, Copies

LEMMA JobFields ==
  ASSUME NEW j \in JobType
  PROVE  /\ j.op \in Ops /\ j.step \in Steps /\ j.key \in Keys /\ j.org \in 0..MaxOrg
         /\ j.user \in Users /\ j.keys \subseteq Keys /\ j.todo \subseteq Secrets
         /\ j.got \in [Secrets -> Copies \cup {NotStored}]
  BY DEF JobType

LEMMA OrgRange == 0 \in 0..MaxOrg /\ 1 \in Orgs /\ \A g \in Orgs : g \in 0..MaxOrg
  BY DEF Orgs

-----------------------------------------------------------------------------
(* Typing.  That the org key of a saved copy exists rests on Started.      *)

LEMMA InitTyped == Init => TypeOK
  BY DEF Init, TypeOK, NoCopies

LEMMA BeginTyped ==
  ASSUME TypeOK, NEW c \in Consoles, NEW op \in Ops, NEW step \in Steps, NEW k \in Keys,
         NEW g \in 0..MaxOrg, NEW u \in Users, Begin(c, op, step, k, g, u)
  PROVE  job' \in [Consoles -> JobType \cup {NoJob}]
  BY DEF TypeOK, Begin, JobType, NoCopies

LEMMA StepTyped == IInv /\ [Next]_vars => TypeOK'
<1> SUFFICES ASSUME TypeOK, JobsOK, [Next]_vars PROVE TypeOK'
  BY DEF IInv
<1> USE DEF TypeOK
<1>1. ASSUME NEW k \in Keys, Register(k) PROVE TypeOK'
  BY <1>1 DEF Register
<1>2. ASSUME NEW u \in Users, AddMember(u) PROVE TypeOK'
  BY <1>2 DEF AddMember
<1>3. ASSUME NEW c \in Consoles, NEW k \in Keys, StartCreate(c, k) PROVE TypeOK'
  <2>1. "create" \in Ops /\ "create" \in Steps BY DEF Ops, Steps
  <2> QED BY <1>3, <2>1, OrgRange, BeginTyped DEF StartCreate
<1>4. ASSUME NEW c \in Consoles, NEW k \in Keys, StartSet(c, k) PROVE TypeOK'
  <2>1. "set" \in Ops /\ "save" \in Steps BY DEF Ops, Steps
  <2>2. Owner[k] \in Users OBVIOUS
  <2> QED BY <1>4, <2>1, <2>2, BeginTyped DEF StartSet
<1>5. ASSUME NEW c \in Consoles, NEW k \in Keys, StartRotate(c, k) PROVE TypeOK'
  <2>1. "rotate" \in Ops /\ "list" \in Steps BY DEF Ops, Steps
  <2>2. Owner[k] \in Users /\ wraps[k] \in 0..MaxOrg OBVIOUS
  <2> QED BY <1>5, <2>1, <2>2, BeginTyped DEF StartRotate, MyOrgKey
<1>6. ASSUME NEW c \in Consoles, NEW k \in Keys, NEW u \in Users, StartGrant(c, k, u)
      PROVE  TypeOK'
  <2>1. "grant" \in Ops /\ "lookup" \in Steps BY DEF Ops, Steps
  <2>2. wraps[k] \in 0..MaxOrg OBVIOUS
  <2> QED BY <1>6, <2>1, <2>2, BeginTyped DEF StartGrant, MyOrgKey
<1>7. ASSUME NEW c \in Consoles, CreateOrg(c) PROVE TypeOK'
  <2>1. job[c] \in JobType BY <1>7 DEF CreateOrg, At
  <2>2. 1 \in 0..MaxOrg BY OrgRange
  <2>3. job' \in [Consoles -> JobType \cup {NoJob}]
    BY <1>7, <2>1, <2>2 DEF CreateOrg, JobType, Steps
  <2> QED BY <1>7, <2>1, <2>2, <2>3 DEF CreateOrg, JobType
<1>8. ASSUME NEW c \in Consoles, Lookup(c) PROVE TypeOK'
  <2>1. job[c] \in JobType BY <1>8 DEF Lookup, At
  <2>2. KeysOf(job[c].user) \subseteq Keys BY DEF KeysOf
  <2>3. job' \in [Consoles -> JobType \cup {NoJob}]
    BY <1>8, <2>1, <2>2 DEF Lookup, JobType, Steps
  <2> QED BY <1>8, <2>3 DEF Lookup
<1>9. ASSUME NEW c \in Consoles, Wrap(c) PROVE TypeOK'
  <2>1. job[c] \in JobType BY <1>9 DEF Wrap, At
  <2>2. PICK k \in job[c].keys :
          /\ wraps' = [wraps EXCEPT ![k] = job[c].org]
          /\ overtaken' = IF job[c].org = org THEN overtaken \ {k} ELSE overtaken \cup {k}
          /\ job' = [job EXCEPT ![c].keys = @ \ {k}]
    BY <1>9 DEF Wrap
  <2>3. k \in Keys BY <2>1, JobFields
  <2>4. job' \in [Consoles -> JobType \cup {NoJob}] BY <2>1, <2>2 DEF JobType
  <2>5. job[c].org \in 0..MaxOrg BY <2>1, JobFields
  <2> QED BY <1>9, <2>2, <2>3, <2>4, <2>5 DEF Wrap
<1>10. ASSUME NEW c \in Consoles, Wrapped(c) \/ Stop(c) PROVE TypeOK'
  BY <1>10 DEF Wrapped, Stop, Finish
<1>11. ASSUME NEW c \in Consoles, Save(c) PROVE TypeOK'
  <2>1. job[c] \in JobType BY <1>11 DEF Save, At
  <2>2. PICK s \in Secrets \ Stored, v \in Values :
          sealed' = [sealed EXCEPT ![s] = [org |-> job[c].org, value |-> v]]
    BY <1>11 DEF Save
  <2>3. job[c].org = org /\ org # 0 BY <1>11 DEF Save, At, JobsOK, JobOK, Started
  <2>4. [org |-> job[c].org, value |-> v] \in Copies BY <2>3 DEF Copies, Orgs
  <2>5. sealed' \in [Secrets -> Copies \cup {NotStored}] BY <2>2, <2>4
  <2> QED BY <1>11, <2>5 DEF Save, Finish
<1>12. ASSUME NEW c \in Consoles, ListSecrets(c) PROVE TypeOK'
  <2>1. job[c] \in JobType BY <1>12 DEF ListSecrets, At
  <2>2. Stored \subseteq Secrets BY DEF Stored
  <2>3. job' \in [Consoles -> JobType \cup {NoJob}]
    BY <1>12, <2>1, <2>2 DEF ListSecrets, JobType, Steps
  <2> QED BY <1>12, <2>3 DEF ListSecrets
<1>13. ASSUME NEW c \in Consoles, Fetch(c) PROVE TypeOK'
  <2>1. job[c] \in JobType BY <1>13 DEF Fetch, At
  <2>2. PICK s \in job[c].todo : job' = [job EXCEPT ![c].todo = @ \ {s}, ![c].got[s] = sealed[s]]
    BY <1>13 DEF Fetch
  <2>3. s \in Secrets BY <2>1, JobFields
  <2>4. job' \in [Consoles -> JobType \cup {NoJob}] BY <2>1, <2>2, <2>3 DEF JobType
  <2> QED BY <1>13, <2>4 DEF Fetch
<1>14. ASSUME NEW c \in Consoles, ListMembers(c) PROVE TypeOK'
  <2>1. job[c] \in JobType BY <1>14 DEF ListMembers, At
  <2>2. Remaining \subseteq Keys BY DEF Remaining
  <2>3. job' \in [Consoles -> JobType \cup {NoJob}]
    BY <1>14, <2>1, <2>2 DEF ListMembers, JobType, Steps
  <2> QED BY <1>14, <2>3 DEF ListMembers
<1>15. ASSUME NEW c \in Consoles, Upload(c) PROVE TypeOK'
  <2>1. job[c] \in JobType BY <1>15 DEF Upload, At
  <2>2. org + 1 \in Orgs /\ org + 1 \in 0..MaxOrg BY <1>15 DEF Upload, Orgs
  <2>3. sealed' \in [Secrets -> Copies \cup {NotStored}]
    <3>1. ASSUME NEW s \in Secrets, job[c].got[s] # NotStored
          PROVE  Resealed(job[c].got[s], job[c].org, org + 1) \in Copies
      <4>1. job[c].got[s] \in Copies /\ job[c].org \in 0..MaxOrg BY <2>1, <3>1, JobFields
      <4> QED BY <2>2, <4>1, ResealedKeeps
    <3> QED BY <1>15, <3>1 DEF Upload
  <2>4. wraps' \in [Keys -> 0..MaxOrg] BY <1>15, <2>2 DEF Upload, NewWraps
  <2> QED BY <1>15, <2>2, <2>3, <2>4 DEF Upload, Finish
<1>16. CASE UNCHANGED vars
  BY <1>16 DEF vars
<1> QED
  BY <1>1, <1>2, <1>3, <1>4, <1>5, <1>6, <1>7, <1>8, <1>9, <1>10, <1>11, <1>12, <1>13,
     <1>14, <1>15, <1>16 DEF Next

-----------------------------------------------------------------------------
(* The invariant                                                           *)

Vault == CopiesCurrent /\ NothingYet /\ WrapsCurrent /\ SomebodyReads /\ OnlyGranted

LEMMA InitInv == Init => IInv
<1> SUFFICES ASSUME Init PROVE IInv OBVIOUS
<1>1. TypeOK BY InitTyped
<1>2. CopiesCurrent /\ NothingYet /\ SomebodyReads
  BY DEF Init, NoCopies, CopiesCurrent, NothingYet, SomebodyReads
<1>3. WrapsCurrent /\ OnlyGranted BY DEF Init, WrapsCurrent, OnlyGranted, HasWrap
<1>4. JobsOK BY DEF Init, JobsOK, JobOK
<1> QED BY <1>1, <1>2, <1>3, <1>4 DEF IInv

(* Stored copies keep their values, and the rest only grows.               *)
Grows ==
  /\ registered \subseteq registered' /\ members \subseteq members'
  /\ granted \subseteq granted'
  /\ org # 0 => org' # 0
  /\ \A s \in Secrets : sealed[s] # NotStored =>
       sealed'[s] # NotStored /\ sealed'[s].value = sealed[s].value

(* What a command has read survives the steps of others.                   *)
LEMMA JobKept ==
  ASSUME NEW c \in Consoles, JobOK(c), job'[c] = job[c], Grows
  PROVE  JobOK(c)'
<1> SUFFICES ASSUME job[c] # NoJob PROVE (Started(c) /\ Wrapping(c) /\ Rotating(c) /\ Fetched(c))'
  BY DEF JobOK
<1> USE DEF Grows, JobOK
<1>1. Started(c)' BY DEF Started
<1>2. Wrapping(c)' BY DEF Wrapping
<1>3. Rotating(c)' BY DEF Rotating
<1>4. Fetched(c)' BY DEF Fetched
<1> QED BY <1>1, <1>2, <1>3, <1>4

(* A step of console c, once the vault and the own job are dealt with.     *)
LEMMA ConsoleStep ==
  ASSUME IInv, TypeOK', NEW c \in Consoles, NEW j, job' = [job EXCEPT ![c] = j],
         Grows, Vault', JobOK(c)'
  PROVE  IInv'
<1>1. ASSUME NEW d \in Consoles, d # c PROVE JobOK(d)'
  <2>1. job'[d] = job[d] BY <1>1 DEF IInv, TypeOK
  <2> QED BY <2>1, JobKept DEF IInv, JobsOK
<1>2. JobsOK' BY <1>1 DEF JobsOK
<1> QED BY <1>2 DEF IInv, Vault

(* A step that only reads.                                                 *)
LEMMA ReadStep ==
  ASSUME IInv, TypeOK', NEW c \in Consoles, NEW j, job' = [job EXCEPT ![c] = j],
         UNCHANGED <<org, members, registered, wraps, sealed, granted, overtaken>>,
         j # NoJob => (Started(c) /\ Wrapping(c) /\ Rotating(c) /\ Fetched(c))'
  PROVE  IInv'
<1>1. Grows BY DEF Grows
<1>2. Vault'
  BY DEF IInv, Vault, CopiesCurrent, NothingYet, WrapsCurrent, SomebodyReads, OnlyGranted, HasWrap
<1>3. JobOK(c)' BY DEF JobOK, IInv, TypeOK
<1> QED BY <1>1, <1>2, <1>3, ConsoleStep

(* The steps that only read, or end a command.                             *)
LEMMA BeginKeeps ==
  ASSUME IInv, TypeOK', NEW c \in Consoles, NEW op \in Ops, NEW step \in Steps, NEW k \in Keys,
         NEW g \in 0..MaxOrg, NEW u \in Users, Begin(c, op, step, k, g, u),
         UNCHANGED <<org, members, registered, wraps, sealed, granted, overtaken>>,
         step \in {"create", "save", "list"} \/ (step = "lookup" /\ u \in granted /\ g # 0),
         IF step = "create" THEN k \in registered /\ Owner[k] = Founder /\ u = Founder
         ELSE org # 0
  PROVE  IInv'
<1> DEFINE j == [op |-> op, step |-> step, key |-> k, org |-> g, user |-> u,
                 keys |-> {}, todo |-> {}, got |-> NoCopies]
<1>1. job' = [job EXCEPT ![c] = j] /\ job'[c] = j BY DEF Begin, IInv, TypeOK
<1> HIDE DEF j
<1>2. /\ j.step = step /\ j.key = k /\ j.org = g /\ j.user = u /\ j.got = NoCopies
      BY DEF j
<1>3. Started(c)' /\ Wrapping(c)' /\ Rotating(c)' BY <1>1, <1>2 DEF Started, Wrapping, Rotating
<1>4. Fetched(c)' BY <1>1, <1>2 DEF Fetched, NoCopies
<1> QED BY <1>1, <1>3, <1>4, ReadStep

LEMMA ReadsKeep ==
  ASSUME IInv, TypeOK', NEW c \in Consoles,
         \/ Lookup(c) \/ ListSecrets(c) \/ Fetch(c) \/ ListMembers(c)
         \/ Wrapped(c) \/ Stop(c)
  PROVE  IInv'
<1> USE DEF IInv, TypeOK
<1>0. JobOK(c) BY DEF JobsOK
<1>1. CASE Lookup(c)
  <2> DEFINE ks == KeysOf(job[c].user) \ IF job[c].op = "create" THEN {job[c].key} ELSE {}
  <2>1. job[c] \in JobType /\ job[c] # NoJob /\ job[c].step = "lookup" BY <1>1 DEF Lookup, At
  <2>2. job' = [job EXCEPT ![c] = [job[c] EXCEPT !.step = "wrap", !.keys = ks]]
    BY <1>1, <2>1 DEF Lookup, JobType
  <2>3. \A k \in ks : Owner[k] = job[c].user BY DEF KeysOf
  <2> HIDE DEF ks
  <2>4. /\ job'[c].step = "wrap" /\ job'[c].keys = ks /\ job'[c].user = job[c].user
        /\ job'[c].org = job[c].org /\ job'[c].got = job[c].got
    BY <2>1, <2>2 DEF JobType
  <2>5. UNCHANGED <<org, members, registered, wraps, sealed, granted, overtaken>>
    BY <1>1 DEF Lookup
  <2>6. (Started(c) /\ Wrapping(c) /\ Rotating(c) /\ Fetched(c))'
    BY <1>0, <2>1, <2>3, <2>4, <2>5 DEF JobOK, Started, Wrapping, Rotating, Fetched
  <2> QED BY <2>2, <2>5, <2>6, ReadStep
<1>2. CASE ListSecrets(c)
  <2>1. job[c] \in JobType /\ job[c] # NoJob /\ job[c].step = "list" BY <1>2 DEF ListSecrets, At
  <2>2. job' = [job EXCEPT ![c] = [job[c] EXCEPT !.step = "fetch", !.todo = Stored]]
    BY <1>2, <2>1 DEF ListSecrets, JobType
  <2>3. job'[c].step = "fetch" /\ job'[c].got = job[c].got BY <2>1, <2>2 DEF JobType
  <2>4. UNCHANGED <<org, members, registered, wraps, sealed, granted, overtaken>>
    BY <1>2 DEF ListSecrets
  <2>5. (Started(c) /\ Wrapping(c) /\ Rotating(c) /\ Fetched(c))'
    BY <1>0, <2>1, <2>3, <2>4 DEF JobOK, Started, Wrapping, Rotating, Fetched
  <2> QED BY <2>2, <2>4, <2>5, ReadStep
<1>3. CASE Fetch(c)
  <2>1. job[c] \in JobType /\ job[c] # NoJob /\ job[c].step = "fetch" BY <1>3 DEF Fetch, At
  <2>2. PICK s \in job[c].todo : job' = [job EXCEPT ![c].todo = @ \ {s}, ![c].got[s] = sealed[s]]
    BY <1>3 DEF Fetch
  <2>3. s \in Secrets /\ job[c].got \in [Secrets -> Copies \cup {NotStored}] BY <2>1, JobFields
  <2>4. job' = [job EXCEPT ![c] = [job[c] EXCEPT !.todo = @ \ {s}, !.got = [@ EXCEPT ![s] = sealed[s]]]]
    BY <2>1, <2>2 DEF JobType
  <2>5. job'[c].step = "fetch" /\ job'[c].got = [job[c].got EXCEPT ![s] = sealed[s]]
    BY <2>1, <2>4 DEF JobType
  <2>6. UNCHANGED <<org, members, registered, wraps, sealed, granted, overtaken>>
    BY <1>3 DEF Fetch
  <2>7. Started(c)' /\ Wrapping(c)' /\ Rotating(c)'
    BY <1>0, <2>1, <2>5, <2>6 DEF JobOK, Started, Wrapping, Rotating
  <2>8. Fetched(c)'
    BY <1>0, <2>1, <2>3, <2>5, <2>6 DEF JobOK, Fetched
  <2> QED BY <2>4, <2>6, <2>7, <2>8, ReadStep
<1>4. CASE ListMembers(c)
  <2>1. job[c] \in JobType /\ job[c] # NoJob /\ job[c].step = "fetch" BY <1>4 DEF ListMembers, At
  <2>2. job' = [job EXCEPT ![c] = [job[c] EXCEPT !.step = "upload", !.keys = Remaining]]
    BY <1>4, <2>1 DEF ListMembers, JobType
  <2>3. /\ job'[c].step = "upload" /\ job'[c].keys = Remaining
        /\ job'[c].org = job[c].org /\ job'[c].got = job[c].got
    BY <2>1, <2>2 DEF JobType
  <2>4. UNCHANGED <<org, members, registered, wraps, sealed, granted, overtaken>>
    BY <1>4 DEF ListMembers
  <2>5. org # 0 BY <1>0, <2>1 DEF JobOK, Started
  <2>6. Remaining # {} BY <2>5 DEF SomebodyReads, Remaining, HasWrap
  <2>7. \A k \in Remaining : k \in registered /\ Owner[k] \in members /\ Owner[k] \in granted
    BY DEF Remaining, OnlyGranted
  <2>8. Started(c)' /\ Wrapping(c)' /\ Rotating(c)'
    BY <2>3, <2>4, <2>5, <2>6, <2>7 DEF Started, Wrapping, Rotating
  <2>9. Fetched(c)'
    <3>1. \A s \in Secrets : job[c].got[s] # NotStored => job[c].got[s].org = job[c].org
      BY <1>4 DEF ListMembers, Opens
    <3> QED BY <1>0, <2>1, <2>3, <2>4, <3>1 DEF JobOK, Fetched
  <2> QED BY <2>2, <2>4, <2>8, <2>9, ReadStep
<1>5. CASE Wrapped(c) \/ Stop(c)
  <2>1. /\ job' = [job EXCEPT ![c] = NoJob]
        /\ UNCHANGED <<org, members, registered, wraps, sealed, granted, overtaken>>
    BY <1>5 DEF Wrapped, Stop, Finish
  <2> QED BY <2>1, ReadStep
<1> QED BY <1>1, <1>2, <1>3, <1>4, <1>5

(* The steps that store something.                                         *)
LEMMA CreateKeeps ==
  ASSUME IInv, TypeOK', NEW c \in Consoles, CreateOrg(c) PROVE IInv'
<1> USE DEF IInv, TypeOK
<1>1. job[c] \in JobType /\ job[c] # NoJob /\ job[c].step = "create" /\ org = 0
  BY DEF CreateOrg, At
<1>2. /\ job[c].key \in registered /\ Owner[job[c].key] = Founder
      /\ \A s \in Secrets : job[c].got[s] # NotStored => sealed[s] # NotStored
                            /\ job[c].got[s].value = sealed[s].value
  BY <1>1 DEF JobsOK, JobOK, Started, Fetched
<1>3. \A s \in Secrets : sealed[s] = NotStored
  BY <1>1 DEF CopiesCurrent, Copies, Orgs
<1>4. /\ org' = 1 /\ members' = {Founder} /\ granted' = {Founder}
      /\ wraps' = [wraps EXCEPT ![job[c].key] = 1]
      /\ UNCHANGED <<registered, sealed, overtaken>>
  BY DEF CreateOrg
<1>5. job' = [job EXCEPT ![c] = [job[c] EXCEPT !.step = "lookup", !.org = 1]]
  BY <1>1 DEF CreateOrg, JobType
<1>6. /\ job'[c].step = "lookup" /\ job'[c].org = 1 /\ job'[c].user = job[c].user
      /\ job'[c].got = job[c].got
  BY <1>1, <1>5 DEF JobType
<1>7. job[c].user = Founder
  BY <1>1 DEF JobsOK, JobOK, Started
<1>8. Grows BY <1>1, <1>3, <1>4 DEF Grows, NothingYet
<1>9. Vault'
  <2>1. CopiesCurrent' /\ NothingYet' BY <1>3, <1>4 DEF CopiesCurrent, NothingYet
  <2>2. \A k \in Keys : wraps'[k] = IF k = job[c].key THEN 1 ELSE 0
    BY <1>1, <1>4 DEF NothingYet
  <2>3. WrapsCurrent' BY <1>4, <2>2 DEF WrapsCurrent
  <2>4. SomebodyReads' BY <1>2, <1>4, <2>2 DEF SomebodyReads
  <2>5. OnlyGranted' BY <1>2, <1>4, <2>2 DEF OnlyGranted, HasWrap
  <2> QED BY <2>1, <2>3, <2>4, <2>5 DEF Vault
<1>10. JobOK(c)'
  BY <1>2, <1>3, <1>4, <1>6, <1>7 DEF JobOK, Started, Wrapping, Rotating, Fetched
<1> QED BY <1>5, <1>8, <1>9, <1>10, ConsoleStep

LEMMA WrapKeeps ==
  ASSUME IInv, TypeOK', NEW c \in Consoles, Wrap(c) PROVE IInv'
<1> USE DEF IInv, TypeOK
<1>1. job[c] \in JobType /\ job[c] # NoJob /\ job[c].step = "wrap" BY DEF Wrap, At
<1>2. PICK k \in job[c].keys :
        /\ wraps' = [wraps EXCEPT ![k] = job[c].org]
        /\ overtaken' = IF job[c].org = org THEN overtaken \ {k} ELSE overtaken \cup {k}
        /\ job' = [job EXCEPT ![c].keys = @ \ {k}]
  BY DEF Wrap
<1>3. UNCHANGED <<org, members, registered, sealed, granted>> BY DEF Wrap
<1>4. k \in Keys /\ job[c].org \in 0..MaxOrg BY <1>1, JobFields
<1>5. /\ job[c].user \in granted /\ job[c].org # 0 /\ Owner[k] = job[c].user /\ org # 0
  BY <1>1 DEF JobsOK, JobOK, Wrapping, Started
<1>6. job' = [job EXCEPT ![c] = [job[c] EXCEPT !.keys = @ \ {k}]] BY <1>1, <1>2 DEF JobType
<1>7. /\ job'[c].step = job[c].step /\ job'[c].keys = job[c].keys \ {k}
      /\ job'[c].org = job[c].org /\ job'[c].user = job[c].user /\ job'[c].got = job[c].got
  BY <1>1, <1>6 DEF JobType
<1>8. Grows BY <1>3 DEF Grows
<1>9. Vault'
  <2>1. CopiesCurrent' /\ NothingYet' BY <1>3, <1>5 DEF CopiesCurrent, NothingYet
  <2>2. \A x \in Keys : wraps'[x] = IF x = k THEN job[c].org ELSE wraps[x] BY <1>2, <1>4
  <2>3. WrapsCurrent' BY <1>2, <1>3, <1>4, <2>2 DEF WrapsCurrent
  <2>4. SomebodyReads' BY <1>3, <1>5, <2>2 DEF SomebodyReads
  <2>5. OnlyGranted' BY <1>3, <1>5, <2>2 DEF OnlyGranted, HasWrap
  <2> QED BY <2>1, <2>3, <2>4, <2>5 DEF Vault
<1>10. JobOK(c)'
  BY <1>1, <1>3, <1>5, <1>7 DEF JobsOK, JobOK, Started, Wrapping, Rotating, Fetched
<1> QED BY <1>6, <1>8, <1>9, <1>10, ConsoleStep

LEMMA SaveKeeps ==
  ASSUME IInv, TypeOK', NEW c \in Consoles, Save(c) PROVE IInv'
<1> USE DEF IInv, TypeOK
<1>1. PICK s \in Secrets \ Stored, v \in Values :
        sealed' = [sealed EXCEPT ![s] = [org |-> job[c].org, value |-> v]]
  BY DEF Save
<1>2. /\ job[c].org = org /\ sealed[s] = NotStored
      /\ UNCHANGED <<org, members, registered, wraps, granted, overtaken>>
      /\ job' = [job EXCEPT ![c] = NoJob]
  BY DEF Save, Finish, Stored
<1>3. org # 0 BY DEF Save, At, JobsOK, JobOK, Started
<1>4. [org |-> org, value |-> v] \in Copies BY <1>3 DEF Copies, Orgs
<1>5. sealed'[s] # NotStored /\ sealed'[s].org = org /\ sealed'[s].value \in Values
  BY <1>1, <1>2, <1>4, NotACopy
<1>6. \A t \in Secrets : t # s => sealed'[t] = sealed[t] BY <1>1
<1>7. Grows BY <1>2, <1>6 DEF Grows
<1>8. Vault'
  <2>1. CopiesCurrent' BY <1>2, <1>5, <1>6 DEF CopiesCurrent
  <2>2. NothingYet' /\ WrapsCurrent' /\ SomebodyReads' /\ OnlyGranted'
    BY <1>2, <1>3 DEF NothingYet, WrapsCurrent, SomebodyReads, OnlyGranted, HasWrap
  <2> QED BY <2>1, <2>2 DEF Vault
<1>9. JobOK(c)' BY <1>2 DEF JobOK
<1> QED BY <1>2, <1>7, <1>8, <1>9, ConsoleStep

(* What a rotation stores: every secret, with the value it had.            *)
LEMMA UploadStores ==
  ASSUME IInv, NEW c \in Consoles, Upload(c)
  PROVE  \A s \in Secrets :
           /\ sealed'[s] # NotStored <=> sealed[s] # NotStored
           /\ sealed[s] # NotStored => sealed'[s].org = org + 1 /\ sealed'[s].value = sealed[s].value
<1> USE DEF IInv, TypeOK
<1> SUFFICES ASSUME NEW s \in Secrets
    PROVE  /\ sealed'[s] # NotStored <=> sealed[s] # NotStored
           /\ sealed[s] # NotStored => sealed'[s].org = org + 1 /\ sealed'[s].value = sealed[s].value
  OBVIOUS
<1>1. job[c] \in JobType /\ job[c] # NoJob /\ job[c].step = "upload" BY DEF Upload, At
<1>2. job[c].got[s] \in Copies \cup {NotStored} /\ job[c].org \in 0..MaxOrg BY <1>1, JobFields
<1>3. org + 1 \in Orgs BY DEF Upload, Orgs
<1>4. sealed'[s] = IF job[c].got[s] = NotStored THEN NotStored
                   ELSE Resealed(job[c].got[s], job[c].org, org + 1)
  BY DEF Upload
<1>5. sealed[s] # NotStored <=> job[c].got[s] # NotStored
  BY <1>1 DEF Upload, Stored, JobsOK, JobOK, Fetched
<1>6. CASE job[c].got[s] = NotStored BY <1>4, <1>5, <1>6
<1>7. CASE job[c].got[s] # NotStored
  <2>1. job[c].got[s].org = job[c].org /\ job[c].got[s].value = sealed[s].value
    BY <1>1, <1>7 DEF JobsOK, JobOK, Fetched
  <2> QED BY <1>2, <1>3, <1>4, <1>5, <1>7, <2>1, ResealedKeeps
<1> QED BY <1>6, <1>7

LEMMA UploadKeeps ==
  ASSUME IInv, TypeOK', NEW c \in Consoles, Upload(c) PROVE IInv'
<1> USE DEF IInv, TypeOK
<1>1. job[c] \in JobType /\ job[c] # NoJob /\ job[c].step = "upload" BY DEF Upload, At
<1>2. /\ org' = org + 1 /\ org + 1 # 0 /\ overtaken' = {}
      /\ wraps' = NewWraps(job[c].keys, job[c].org, org + 1)
      /\ job' = [job EXCEPT ![c] = NoJob]
      /\ UNCHANGED <<members, registered, granted>>
  BY DEF Upload, Finish
<1>3. /\ job[c].keys # {} /\ job[c].keys \subseteq Keys
      /\ \A k \in job[c].keys : k \in registered /\ Owner[k] \in members /\ Owner[k] \in granted
  BY <1>1, JobFields DEF JobsOK, JobOK, Rotating
<1>4. \A k \in Keys : wraps'[k] = IF k \in job[c].keys THEN org' ELSE 0
  BY <1>2 DEF NewWraps
<1>5. Grows BY <1>2, UploadStores DEF Grows
<1>6. Vault'
  <2>1. CopiesCurrent' /\ NothingYet'
    BY <1>2, UploadStores DEF CopiesCurrent, NothingYet
  <2>2. WrapsCurrent' /\ OnlyGranted'
    BY <1>2, <1>3, <1>4 DEF WrapsCurrent, OnlyGranted, HasWrap
  <2>3. SomebodyReads' BY <1>2, <1>3, <1>4 DEF SomebodyReads
  <2> QED BY <2>1, <2>2, <2>3 DEF Vault
<1>7. JobOK(c)' BY <1>2 DEF JobOK
<1> QED BY <1>2, <1>5, <1>6, <1>7, ConsoleStep

(* Nobody's command is touched.                                            *)
LEMMA OutsideKeeps ==
  ASSUME IInv, TypeOK', (\E k \in Keys : Register(k)) \/ (\E u \in Users : AddMember(u))
  PROVE  IInv'
<1>1. /\ registered \subseteq registered' /\ members \subseteq members'
      /\ UNCHANGED <<org, wraps, sealed, job, granted, overtaken>>
      /\ org = 0 => members' = members
  BY DEF Register, AddMember
<1>2. JobsOK'
  BY <1>1, JobKept DEF IInv, JobsOK, Grows
<1>3. Vault'
  BY <1>1 DEF IInv, Vault, CopiesCurrent, NothingYet, WrapsCurrent, SomebodyReads, OnlyGranted, HasWrap
<1> QED BY <1>2, <1>3 DEF IInv, Vault

LEMMA StepInv == IInv /\ [Next]_vars => IInv'
<1> SUFFICES ASSUME IInv, [Next]_vars PROVE IInv'
  OBVIOUS
<1>0. TypeOK' BY StepTyped
<1>a. wraps \in [Keys -> 0..MaxOrg] /\ org \in 0..MaxOrg BY DEF IInv, TypeOK
<1>b. org = 0 => \A k \in Keys : wraps[k] = 0 BY DEF IInv, NothingYet
<1>1. ASSUME NEW c \in Consoles, NEW k \in Keys, StartCreate(c, k) PROVE IInv'
  <2>1. "create" \in Ops /\ "create" \in Steps BY DEF Ops, Steps
  <2>2. k \in registered /\ Owner[k] = Founder BY <1>1 DEF StartCreate, KeysOf
  <2> QED BY <1>0, <1>1, <2>1, <2>2, OrgRange, BeginKeeps DEF StartCreate
<1>2. ASSUME NEW c \in Consoles, NEW k \in Keys, StartSet(c, k) PROVE IInv'
  <2>1. "set" \in Ops /\ "save" \in Steps BY DEF Ops, Steps
  <2>2. Owner[k] \in Users OBVIOUS
  <2> QED BY <1>0, <1>a, <1>2, <2>1, <2>2, BeginKeeps DEF StartSet
<1>3. ASSUME NEW c \in Consoles, NEW k \in Keys, StartRotate(c, k) PROVE IInv'
  <2>1. "rotate" \in Ops /\ "list" \in Steps BY DEF Ops, Steps
  <2>2. Owner[k] \in Users /\ wraps[k] \in 0..MaxOrg /\ org # 0
    BY <1>a, <1>b, <1>3 DEF StartRotate, MyOrgKey
  <2> QED BY <1>0, <1>3, <2>1, <2>2, BeginKeeps DEF StartRotate, MyOrgKey
<1>4. ASSUME NEW c \in Consoles, NEW k \in Keys, NEW u \in Users, StartGrant(c, k, u)
      PROVE  IInv'
  <2> DEFINE j == [op |-> "grant", step |-> "lookup", key |-> k, org |-> wraps[k], user |-> u,
                   keys |-> {}, todo |-> {}, got |-> NoCopies]
  <2>1. /\ wraps[k] # 0 /\ org # 0 /\ granted' = granted \cup {u}
        /\ job' = [job EXCEPT ![c] = j]
        /\ UNCHANGED <<org, members, registered, wraps, sealed, overtaken>>
    BY <1>b, <1>4 DEF StartGrant, MyOrgKey, Begin
  <2>2. job'[c] = j BY <2>1 DEF IInv, TypeOK
  <2>3. Grows BY <2>1 DEF Grows
  <2>4. Vault'
    BY <2>1 DEF IInv, Vault, CopiesCurrent, NothingYet, WrapsCurrent, SomebodyReads, OnlyGranted, HasWrap
  <2>5. JobOK(c)'
    BY <2>1, <2>2 DEF JobOK, Started, Wrapping, Rotating, Fetched, NoCopies
  <2> QED BY <1>0, <2>1, <2>3, <2>4, <2>5, ConsoleStep
<1>5. CASE (\E k \in Keys : Register(k)) \/ (\E u \in Users : AddMember(u))
  BY <1>0, <1>5, OutsideKeeps
<1>6. ASSUME NEW c \in Consoles,
             \/ Lookup(c) \/ ListSecrets(c) \/ Fetch(c) \/ ListMembers(c)
             \/ Wrapped(c) \/ Stop(c)
      PROVE  IInv'
  BY <1>0, <1>6, ReadsKeep
<1>7. ASSUME NEW c \in Consoles, CreateOrg(c) PROVE IInv' BY <1>0, <1>7, CreateKeeps
<1>8. ASSUME NEW c \in Consoles, Wrap(c) PROVE IInv' BY <1>0, <1>8, WrapKeeps
<1>9. ASSUME NEW c \in Consoles, Save(c) PROVE IInv' BY <1>0, <1>9, SaveKeeps
<1>10. ASSUME NEW c \in Consoles, Upload(c) PROVE IInv' BY <1>0, <1>10, UploadKeeps
<1>11. CASE UNCHANGED vars
  BY <1>11 DEF vars, IInv, TypeOK, CopiesCurrent, NothingYet, WrapsCurrent, SomebodyReads,
     OnlyGranted, HasWrap, JobsOK, JobOK, Started, Wrapping, Rotating, Fetched
<1> QED
  BY <1>1, <1>2, <1>3, <1>4, <1>5, <1>6, <1>7, <1>8, <1>9, <1>10, <1>11 DEF Next

LEMMA Invariance == Spec => []IInv
  BY InitInv, StepInv, PTL DEF Spec

-----------------------------------------------------------------------------
(* TypeOK: the vault stays well formed through every interleaving of       *)
(* org_cli.go's commands; a secret is only saved under an org key there is.*)
THEOREM TypeCorrect == Spec => []TypeOK
<1>1. IInv => TypeOK BY DEF IInv
<1> QED BY <1>1, Invariance, PTL

(* OnlyGranted (org_cli.go:359): access comes from creating the            *)
(* organisation or from a grant, never from a rotation.                    *)
THEOREM AccessGranted == Spec => []OnlyGranted
<1>1. IInv => OnlyGranted BY DEF IInv
<1> QED BY <1>1, Invariance, PTL

(* ReadersRead (org_cli.go:11-13, 311-313): every wrap that no overtaken   *)
(* console stored reads every secret, and while no console was overtaken   *)
(* some registered key reads.                                              *)
THEOREM ReadersServed == Spec => []ReadersRead
<1>1. IInv => ReadersRead
  <2> SUFFICES ASSUME IInv PROVE ReadersRead OBVIOUS
  <2> USE DEF IInv
  <2>1. ASSUME NEW k \in Keys \ overtaken, NEW s \in Stored, wraps[k] # 0
        PROVE  Get(k, s) \in Values
    <3>1. wraps[k] = org BY <2>1 DEF WrapsCurrent
    <3>2. \A t \in Stored : sealed[t].org = org /\ sealed[t].value \in Values
      BY DEF CopiesCurrent, Stored
    <3> QED BY <2>1, <3>1, <3>2 DEF Get, MyOrgKey, Opens, Plain
  <2>2. ASSUME org # 0, overtaken = {} PROVE \E k \in registered : wraps[k] = org
    <3>1. PICK k \in registered : wraps[k] # 0 BY <2>2 DEF SomebodyReads
    <3> QED BY <2>2, <3>1 DEF WrapsCurrent, TypeOK
  <2> QED BY <2>1, <2>2 DEF ReadersRead
<1> QED BY <1>1, Invariance, PTL

(* ImplementsWriteOnce: read with the org key in force, the vault is a     *)
(* write-once store; rotateOrgVault and orgSecretSet, interleaved at will, *)
(* neither lose nor change a secret.                                       *)
THEOREM Refinement == Spec => ImplementsWriteOnce
<1>1. Init => Store!Init
  BY DEF Init, Store!Init, NoCopies, ReadableValue, Stored
<1>2. IInv /\ IInv' /\ [Next]_vars => [Store!Next]_([s \in Secrets |-> ReadableValue(s)])
  <2> SUFFICES ASSUME IInv, IInv', [Next]_vars
      PROVE  \/ Store!Next
             \/ [s \in Secrets |-> ReadableValue(s)]' = [s \in Secrets |-> ReadableValue(s)]
    OBVIOUS
  <2>1. \A s \in Secrets : ReadableValue(s) = IF sealed[s] = NotStored THEN NotStored ELSE sealed[s].value
    BY DEF IInv, CopiesCurrent, ReadableValue, Stored, Plain
  <2>2. \A s \in Secrets : ReadableValue(s)' = IF sealed'[s] = NotStored THEN NotStored ELSE sealed'[s].value
    BY DEF IInv, CopiesCurrent, ReadableValue, Stored, Plain
  <2>3. ASSUME NEW c \in Consoles, Save(c) PROVE Store!Next
    <3>1. PICK s \in Secrets \ Stored, v \in Values :
            sealed' = [sealed EXCEPT ![s] = [org |-> job[c].org, value |-> v]]
      BY <2>3 DEF Save
    <3>2. sealed[s] = NotStored /\ sealed'[s].value = v /\ sealed'[s] # NotStored
      <4>1. sealed'[s] = [org |-> job[c].org, value |-> v] BY <3>1 DEF IInv, TypeOK
      <4>2. sealed'[s] \in Copies
        <5>1. job[c].org = org /\ org # 0 BY <2>3 DEF Save, At, IInv, JobsOK, JobOK, Started
        <5> QED BY <4>1, <5>1 DEF Copies, Orgs, IInv, TypeOK
      <4> QED BY <3>1, <4>1, <4>2, NotACopy DEF Stored
    <3>3. \A t \in Secrets : t # s => sealed'[t] = sealed[t] BY <3>1 DEF IInv, TypeOK
    <3> DEFINE R == [t \in Secrets |-> ReadableValue(t)]
    <3>4. R[s] = NotStored /\ R'[s] = v BY <2>1, <2>2, <3>2
    <3>5. \A t \in Secrets : t # s => R'[t] = R[t] BY <2>1, <2>2, <3>3
    <3>6. R' = [R EXCEPT ![s] = R'[s]] BY <3>5
    <3> HIDE DEF R
    <3>7. R[s] = NotStored /\ R'[s] \in Values /\ R' = [R EXCEPT ![s] = R'[s]]
      BY <3>4, <3>6
    <3> QED BY <3>7 DEF Store!Next, Store!Fill, R
  <2>4. ASSUME ~ \E c \in Consoles : Save(c)
        PROVE  \A s \in Secrets : ReadableValue(s)' = ReadableValue(s)
    <3>1. ASSUME NEW c \in Consoles, Upload(c)
          PROVE  \A s \in Secrets : ReadableValue(s)' = ReadableValue(s)
      BY <2>1, <2>2, <3>1, UploadStores
    <3>2. ASSUME sealed' = sealed
          PROVE  \A s \in Secrets : ReadableValue(s)' = ReadableValue(s)
      BY <2>1, <2>2, <3>2
    <3>3. sealed' = sealed \/ \E c \in Consoles : Upload(c)
      BY <2>4 DEF Next, vars, Register, AddMember, StartCreate, StartSet, StartRotate, StartGrant,
         CreateOrg, Lookup, Wrap, Wrapped, ListSecrets, Fetch, ListMembers, Stop
    <3> QED BY <3>1, <3>2, <3>3
  <2> QED BY <2>3, <2>4
<1> QED BY <1>1, <1>2, Invariance, PTL DEF Spec, ImplementsWriteOnce, Store!Spec
=============================================================================
