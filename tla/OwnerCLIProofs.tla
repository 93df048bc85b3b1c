--------------------------- MODULE OwnerCLIProofs ----------------------------
(***************************************************************************)
(* What holds of OwnerCLI for any number of consoles, keys, lists and lost *)
(* uploads.                                                                *)
(***************************************************************************)
EXTENDS OwnerCLI, TLAPS

USE OwnerAssumption

(* Sent: no list that was ever uploaded is newer than the server's.        *)
Sent == \A l \in received \cap Lists : l.body.version <= Version(list)

(* Current: a console about to upload a list either was overtaken, or its  *)
(* status shows every revocation that was reported until now.              *)
Current(c) ==
  LET j == job[c] IN
  /\ j.cmd = "delegate" => j.key \in Devices
  /\ j.cmd = "revoke" =>
       /\ j.st.version < MaxLists /\ j.st.version <= Version(list)
       /\ j.st.listed \subseteq delegated
       /\ j.st.version = Version(list) =>
            \A r \in reported : r.as = "device" => r.key \in j.st.revoked
Jobs == \A c \in Consoles : job[c] # NoJob => Current(c)

(* What was reported revoked as a device is one, and is on the list.       *)
Kept == \A r \in reported :
          r.as = "device" => r.key \in delegated /\ r.key \in RevokedBy(list)

IInv == TypeOK /\ Sent /\ Jobs /\ Kept

-----------------------------------------------------------------------------
(* Lemmas about the operators                                              *)

LEMMA VersionTyped ==
  ASSUME NEW l \in Lists \cup {NoBlob} PROVE Version(l) \in 0 .. MaxLists
  BY NothingAssumption DEF Version, Lists, Blob

(* What revoke uploads is a list, what the other commands upload is not.   *)
LEMMA MadeTyped ==
  ASSUME NEW j \in JobType, j.cmd = "revoke" => j.st.version < MaxLists
  PROVE  /\ Made(j) \in Lists \cup Blobs /\ Made(j).by = j.by
         /\ j.cmd = "revoke" =>
              /\ Made(j) \in Lists /\ Made(j).kind = "revocations"
              /\ Made(j).body = NewList(j)
         /\ j.cmd # "revoke" =>
              /\ Made(j) \notin Lists /\ Made(j).kind # "revocations"
         /\ Made(j).kind = "delegation" => j.cmd = "delegate" /\ Made(j).body.key = j.key
<1>1. CASE j.cmd = "revoke"
  <2>1. Made(j) = RevokeBlob(j) BY <1>1 DEF Made
  <2>2. NewList(j) \in [version : 1 .. MaxLists, revoked : SUBSET Keys]
    BY <1>1 DEF NewList, JobType, StatusType, Keys
  <2>3. RevokeBlob(j) \in Lists BY <2>2 DEF RevokeBlob, Blob, Lists, JobType
  <2> QED BY <1>1, <2>1, <2>3 DEF RevokeBlob, Blob
<1>2. CASE j.cmd = "delegate"
  <2>1. Made(j) = DelegateBlob(j) BY <1>2 DEF Made
  <2>2. DelegateBlob(j) \in Blobs BY DEF DelegateBlob, Blob, Blobs, JobType
  <2>3. DelegateBlob(j) \notin Lists BY DEF DelegateBlob, Lists, Blob
  <2> QED BY <1>2, <2>1, <2>2, <2>3 DEF DelegateBlob, Blob, Delegation
<1>3. CASE j.cmd = "freshness-delegate"
  <2>1. Made(j) = FreshnessBlob(j) BY <1>3 DEF Made
  <2>2. FreshnessBlob(j) \in Blobs BY DEF FreshnessBlob, Blob, Blobs, JobType
  <2>3. FreshnessBlob(j) \notin Lists BY DEF FreshnessBlob, Lists, Blob
  <2>4. FreshnessBlob(j).kind = "freshness delegation" /\ FreshnessBlob(j).by = j.by
    BY DEF FreshnessBlob, Blob, Delegation
  <2>5. "freshness delegation" # "delegation" /\ "freshness delegation" # "revocations"
    OBVIOUS
  <2> QED BY <1>3, <2>1, <2>2, <2>3, <2>4, <2>5
<1> QED BY <1>1, <1>2, <1>3 DEF JobType, Commands

(* Storing an upload leaves the server in order; its list only grows       *)
(* older, and changes only to a newer one (policyPutBlob).                 *)
LEMMA StoreKeeps ==
  ASSUME IInv, NEW c \in Consoles, job[c] # NoJob, Store(Made(job[c]))
  PROVE  /\ delegated \subseteq delegated' /\ delegated' \subseteq Devices
         /\ list' \in Lists \cup {NoBlob}
         /\ list' # NoBlob => list'.by = root'
         /\ received' \subseteq Lists \cup Blobs \cup Policies
         /\ Version(list) <= Version(list')
         /\ job[c].cmd # "revoke" => list' = list
         /\ job[c].cmd = "revoke" =>
              /\ Version(list') = Version(list) + 1 /\ Version(list) = job[c].st.version
              /\ RevokedBy(list') = {job[c].key} \cup job[c].st.revoked
         /\ Sent'
<1> DEFINE j == job[c]
           b == Made(j)
<1>1. j \in JobType /\ Current(c) BY DEF IInv, TypeOK, Jobs
<1>2. j.cmd = "revoke" => j.st.version < MaxLists /\ j.st.version <= Version(list)
  BY <1>1 DEF Current
<1> HIDE DEF j
<1>3. /\ b \in Lists \cup Blobs /\ b.by = j.by
      /\ j.cmd = "revoke" => b \in Lists /\ b.kind = "revocations" /\ b.body = NewList(j)
      /\ j.cmd # "revoke" => b \notin Lists /\ b.kind # "revocations"
      /\ b.kind = "delegation" => j.cmd = "delegate" /\ b.body.key = j.key
  BY <1>1, <1>2, MadeTyped
<1> HIDE DEF b
<1>4. /\ b.by = root /\ (b.kind = "revocations" => b.body.version > Version(list))
      /\ delegated' = IF b.kind = "delegation" THEN delegated \cup {b.body.key} ELSE delegated
      /\ list' = IF b.kind = "revocations" THEN b ELSE list
      /\ received' = received \cup {b} /\ root' = root
  BY DEF Store, Accepts, b, j
<1>5. Version(list) \in 0 .. MaxLists BY VersionTyped DEF IInv, TypeOK
<1>6. j.cmd = "delegate" => j.key \in Devices BY <1>1 DEF Current, j
<1>7. delegated \subseteq delegated' /\ delegated' \subseteq Devices
  BY <1>3, <1>4, <1>6 DEF IInv, TypeOK
<1>8. /\ list' \in Lists \cup {NoBlob} /\ (list' # NoBlob => list'.by = root')
      /\ received' \subseteq Lists \cup Blobs \cup Policies
  BY <1>3, <1>4 DEF IInv, TypeOK
<1>9. CASE j.cmd = "revoke"
  <2>1. list' = b /\ b \in Lists /\ b # NoBlob /\ b.body = NewList(j)
    BY <1>3, <1>4, <1>9, NothingAssumption
  <2>2. NewList(j).version = j.st.version + 1 /\ NewList(j).revoked = {j.key} \cup j.st.revoked
    BY DEF NewList
  <2>3. j.st.version \in Nat BY <1>1 DEF JobType, StatusType, j
  <2>4. Version(list') = j.st.version + 1 /\ RevokedBy(list') = {j.key} \cup j.st.revoked
    BY <2>1, <2>2 DEF Version, RevokedBy
  <2>5. Version(list) = j.st.version
    BY <1>2, <1>3, <1>4, <1>5, <1>9, <2>1, <2>2, <2>3
  <2>6. Sent'
    <3> SUFFICES ASSUME NEW l \in received' \cap Lists PROVE l.body.version <= Version(list')
      BY DEF Sent
    <3>1. CASE l = b BY <2>1, <2>2, <2>3, <2>4, <3>1
    <3>2. CASE l # b
      <4>1. l.body.version <= Version(list) BY <1>4, <3>2 DEF IInv, Sent
      <4>2. l.body.version \in Nat BY DEF Lists, Blob
      <4> QED BY <2>3, <2>4, <2>5, <4>1, <4>2
    <3> QED BY <3>1, <3>2
  <2> QED BY <1>5, <1>7, <1>8, <1>9, <2>3, <2>4, <2>5, <2>6 DEF j
<1>10. CASE j.cmd # "revoke"
  <2>1. list' = list /\ received' \cap Lists = received \cap Lists
    BY <1>3, <1>4, <1>10
  <2>2. Sent' BY <2>1 DEF IInv, Sent
  <2> QED BY <1>5, <1>7, <1>8, <1>10, <2>1, <2>2 DEF j
<1> QED BY <1>9, <1>10

(* No other step's goals are touched when the server and what was reported *)
(* stay and one console begins or ends a command.                          *)
LEMMA ConsoleKeeps ==
  ASSUME IInv, NEW c \in Consoles, NEW k \in JobType \cup {NoJob},
         UNCHANGED <<server, agent, reported>>, faults' \in 0 .. MaxFaults,
         job' = [job EXCEPT ![c] = k],
         k # NoJob => k.by = root /\ Current(c)'
  PROVE  IInv'
<1> USE DEF server, agent
<1>1. job' \in [Consoles -> JobType \cup {NoJob}] BY DEF IInv, TypeOK
<1>2. \A d \in Consoles : job'[d] # NoJob => job'[d].by = root' /\ Current(d)'
  <2> TAKE d \in Consoles
  <2> HAVE job'[d] # NoJob
  <2>1. CASE d = c BY <1>1, <2>1 DEF IInv, TypeOK
  <2>2. CASE d # c
    <3>1. job'[d] = job[d] BY <2>2 DEF IInv, TypeOK
    <3>2. job[d].by = root /\ Current(d) BY <3>1 DEF IInv, TypeOK, Jobs
    <3> QED BY <3>1, <3>2 DEF Current
  <2> QED BY <2>1, <2>2
<1>3. TypeOK' BY <1>1, <1>2 DEF IInv, TypeOK
<1>4. Sent' /\ Kept' BY DEF IInv, Sent, Kept
<1> QED BY <1>2, <1>3, <1>4 DEF IInv, Jobs

LEMMA LookKeeps ==
  ASSUME IInv, NEW c \in Consoles, NEW cmd \in Commands, NEW k \in RootKeys,
         NEW d \in Keys, Look(c, cmd, k, d)
  PROVE  IInv'
<1> DEFINE j == [cmd |-> cmd, by |-> k, key |-> d,
                 st |-> IF cmd = "revoke" THEN Status ELSE Unread]
<1>1. Version(list) \in 0 .. MaxLists BY VersionTyped DEF IInv, TypeOK
<1>2. Status \in StatusType /\ Unread \in StatusType
  BY <1>1 DEF IInv, TypeOK, Status, Unread, StatusType
<1>3. j \in JobType BY <1>2 DEF JobType
<1>4. /\ job' = [job EXCEPT ![c] = j] /\ k = root
      /\ UNCHANGED <<server, agent, reported, faults>>
      /\ cmd = "delegate" => d \in Devices
      /\ cmd = "revoke" => Version(list) < MaxLists
  BY DEF Look, RootStatus
<1>5. job'[c] = j BY <1>4 DEF IInv, TypeOK
<1>6. Current(c)'
  <2>1. cmd = "revoke" => j.st = Status OBVIOUS
  <2>2. /\ Status.version = Version(list) /\ Status.listed = delegated
        /\ \A r \in reported : r.as = "device" => r.key \in Status.revoked
    BY DEF IInv, Kept, Status
  <2>3. Version(list)' = Version(list) /\ delegated' = delegated /\ reported' = reported
    BY <1>4 DEF server
  <2>4. j.cmd = cmd /\ j.key = d OBVIOUS
  <2> HIDE DEF j
  <2> QED BY <1>1, <1>4, <1>5, <2>1, <2>2, <2>3, <2>4 DEF Current
<1>7. k = j.by OBVIOUS
<1> HIDE DEF j
<1> QED BY <1>3, <1>4, <1>6, <1>7, ConsoleKeeps DEF IInv, TypeOK

(* A stored upload, whether its answer arrives or not.                     *)
LEMMA PutKeeps ==
  ASSUME IInv, NEW c \in Consoles, job[c] # NoJob, Store(Made(job[c])), Finish(c),
         UNCHANGED agent, faults' \in 0 .. MaxFaults,
         \/ UNCHANGED reported
         \/ /\ job[c].cmd = "revoke"
            /\ reported' = reported \cup
                 {[key |-> job[c].key, version |-> job[c].st.version + 1, as |-> Role(job[c])]}
  PROVE  IInv'
<1> DEFINE j == job[c]
<1>1. j \in JobType /\ Current(c) BY DEF IInv, TypeOK, Jobs
<1>2. /\ delegated \subseteq delegated' /\ delegated' \subseteq Devices
      /\ list' \in Lists \cup {NoBlob} /\ (list' # NoBlob => list'.by = root')
      /\ received' \subseteq Lists \cup Blobs \cup Policies
      /\ Version(list) <= Version(list')
      /\ j.cmd # "revoke" => list' = list
      /\ j.cmd = "revoke" =>
           /\ Version(list') = Version(list) + 1 /\ Version(list) = j.st.version
           /\ RevokedBy(list') = {j.key} \cup j.st.revoked
      /\ Sent'
  BY StoreKeeps
<1>3. root' = root BY DEF Store
<1>4. Version(list) \in 0 .. MaxLists /\ Version(list') \in 0 .. MaxLists
  BY <1>2, VersionTyped DEF IInv, TypeOK
<1>5. job' \in [Consoles -> JobType \cup {NoJob}]
      /\ \A d \in Consoles : job'[d] # NoJob => d # c /\ job'[d] = job[d]
  BY DEF Finish, IInv, TypeOK
<1>6. Role(j) \in Roles /\ (Role(j) = "device" => j.key \in j.st.listed)
  BY DEF Role, Roles
<1>7. \A r \in reported' \ reported :
        /\ j.cmd = "revoke"
        /\ r = [key |-> j.key, version |-> j.st.version + 1, as |-> Role(j)]
  OBVIOUS
<1> HIDE DEF j
<1>8. reported' \subseteq [key : Keys, version : 1 .. MaxLists, as : Roles]
  <2> SUFFICES ASSUME NEW r \in reported'
               PROVE  r \in [key : Keys, version : 1 .. MaxLists, as : Roles]
    OBVIOUS
  <2>1. CASE r \in reported BY <2>1 DEF IInv, TypeOK
  <2>2. CASE r \notin reported
    <3>1. j.st.version + 1 \in 1 .. MaxLists BY <1>2, <1>4, <1>7, <2>2
    <3>2. j.key \in Keys BY <1>1 DEF JobType
    <3> QED BY <1>6, <1>7, <2>2, <3>1, <3>2
  <2> QED BY <2>1, <2>2
<1>9. TypeOK'
  <2>1. \A d \in Consoles : job'[d] # NoJob => job'[d].by = root'
    BY <1>3, <1>5 DEF IInv, TypeOK
  <2>2. floor' = floor /\ runsOn' = runsOn BY DEF agent
  <2>3. floor.rev \in 0 .. Version(list)' BY <1>2, <1>4 DEF IInv, TypeOK
  <2> QED BY <1>2, <1>3, <1>5, <1>8, <2>1, <2>2, <2>3 DEF IInv, TypeOK
<1>10. Kept'
  <2> SUFFICES ASSUME NEW r \in reported', r.as = "device"
               PROVE  r.key \in delegated' /\ r.key \in RevokedBy(list')
    BY DEF Kept
  <2>1. CASE r \in reported
    <3>1. r.key \in delegated /\ r.key \in RevokedBy(list) BY <2>1 DEF IInv, Kept
    <3>2. CASE j.cmd = "revoke"
      <4>1. r.key \in j.st.revoked BY <1>1, <1>2, <2>1, <3>2 DEF Current, j
      <4> QED BY <1>2, <3>1, <3>2, <4>1
    <3>3. CASE j.cmd # "revoke" BY <1>2, <3>1, <3>3
    <3> QED BY <3>2, <3>3
  <2>2. CASE r \notin reported
    <3>1. r.key = j.key /\ j.cmd = "revoke" /\ j.key \in j.st.listed BY <1>6, <1>7, <2>2
    <3>2. j.st.listed \subseteq delegated BY <1>1, <3>1 DEF Current, j
    <3> QED BY <1>2, <3>1, <3>2
  <2> QED BY <2>1, <2>2
<1>11. Jobs'
  <2> SUFFICES ASSUME NEW d \in Consoles, job'[d] # NoJob PROVE Current(d)'
    BY DEF Jobs
  <2>1. d # c /\ job'[d] = job[d] /\ Current(d) BY <1>5 DEF IInv, Jobs
  <2>2. job[d] \in JobType BY <1>5, <2>1 DEF IInv, TypeOK
  <2>3. job[d].st.version \in Nat BY <2>2 DEF JobType, StatusType
  <2>4. CASE j.cmd = "revoke"
    <3>1. job[d].cmd = "revoke" => job[d].st.version < Version(list')
      BY <1>2, <1>4, <2>1, <2>3, <2>4 DEF Current
    <3> QED BY <1>2, <1>4, <2>1, <2>3, <3>1 DEF Current
  <2>5. CASE j.cmd # "revoke"
    <3>1. list' = list /\ reported' = reported BY <1>2, <1>7, <2>5 DEF j
    <3> QED BY <1>2, <2>1, <3>1 DEF Current
  <2> QED BY <2>4, <2>5
<1> QED BY <1>2, <1>9, <1>10, <1>11 DEF IInv

LEMMA PutRefusedKeeps ==
  ASSUME IInv, NEW c \in Consoles, PutRefused(c)
  PROVE  IInv'
<1> DEFINE j == job[c]
           b == Made(j)
<1>1. j \in JobType /\ Current(c) /\ j.by = root
  BY DEF PutRefused, IInv, TypeOK, Jobs
<1>2. j.cmd = "revoke" => j.st.version < MaxLists /\ j.st.version <= Version(list)
  BY <1>1 DEF Current
<1> HIDE DEF j
<1>3. /\ b \in Lists \cup Blobs /\ b.by = j.by
      /\ j.cmd = "revoke" => b.kind = "revocations"
      /\ j.cmd # "revoke" => b \notin Lists
  BY <1>1, <1>2, MadeTyped
<1> HIDE DEF b
<1>4. /\ ~ (b.by = root /\ (b.kind = "revocations" => b.body.version > Version(list)))
      /\ received' = received \cup {b}
      /\ UNCHANGED <<root, delegated, list, agent, reported, faults>>
      /\ job' = [job EXCEPT ![c] = NoJob]
  BY DEF PutRefused, Accepts, Finish, b, j
<1>5. Version(list) \in 0 .. MaxLists BY VersionTyped DEF IInv, TypeOK
<1>6. b \in Lists => b.body.version <= Version(list)
  <2>1. b \in Lists => b.body.version \in Nat BY DEF Lists
  <2> QED BY <1>1, <1>3, <1>4, <1>5, <2>1
<1>7. /\ job' \in [Consoles -> JobType \cup {NoJob}]
      /\ \A d \in Consoles : job'[d] # NoJob => job'[d] = job[d]
  BY <1>4 DEF IInv, TypeOK
<1>8. Version(list)' = Version(list) /\ RevokedBy(list)' = RevokedBy(list) BY <1>4
<1>9. TypeOK' BY <1>3, <1>4, <1>7, <1>8 DEF IInv, TypeOK, agent
<1>10. Sent' BY <1>4, <1>6, <1>8 DEF IInv, Sent
<1>11. Kept' BY <1>4, <1>8 DEF IInv, Kept
<1>12. Jobs' BY <1>4, <1>7, <1>8 DEF IInv, Jobs, Current
<1> QED BY <1>9, <1>10, <1>11, <1>12 DEF IInv

(* The root is set before any command, so no console and no list exists.   *)
LEMMA SetRootKeeps ==
  ASSUME IInv, NEW k \in RootKeys, SetRoot(k)
  PROVE  IInv'
<1>1. root = NoKey /\ root' = k
      /\ UNCHANGED <<delegated, list, received, job, agent, reported, faults>>
  BY DEF SetRoot
<1>2. \A c \in Consoles : job[c] = NoJob
  BY <1>1 DEF IInv, TypeOK, JobType
<1>3. list = NoBlob BY <1>1 DEF IInv, TypeOK, Lists
<1>4. TypeOK' BY <1>1, <1>2, <1>3 DEF IInv, TypeOK, agent
<1>5. Sent' /\ Kept' BY <1>1 DEF IInv, Sent, Kept
<1>6. Jobs' BY <1>1, <1>2 DEF Jobs
<1> QED BY <1>4, <1>5, <1>6 DEF IInv

(* What the agent applies raises its floor at most to the newest list.     *)
LEMMA PullKeeps ==
  ASSUME IInv, NEW p \in received \cap Policies,
         NEW l \in (received \cap Lists) \cup {NoBlob}, Pull(p, l)
  PROVE  IInv'
<1> DEFINE sp == Bundle(p, l)
<1>1. /\ Verifies(sp, Root, floor, Now) /\ floor' = NextState(sp, Root, floor, Now)
      /\ runsOn' = sp.signer /\ UNCHANGED <<server, job, reported, faults>>
  BY DEF Pull
<1>2. sp.accountPolicy = p /\ sp.machinePolicy = NoBlob /\ sp.revocations = l /\ sp.signer = p.by
  BY DEF Bundle
<1> HIDE DEF sp
<1>3. Served(sp) = p BY <1>1, <1>2 DEF Verifies, Offered, Served, IsAccount
<1>4. floor'.version \in Nat
  <2>1. PICK v \in Versions : p.body = Policy(v) BY DEF Policies
  <2>2. Policy(v).version = v BY DEF Policy
  <2> QED BY <1>1, <1>3, <2>1, <2>2 DEF NextState
<1>5. floor'.rev \in 0 .. Version(list)
  <2>1. CASE l = NoBlob
    BY <1>1, <1>2, <2>1 DEF NextState, IInv, TypeOK
  <2>2. CASE l # NoBlob
    <3>1. floor'.rev = l.body.version BY <1>1, <1>2, <2>2 DEF NextState
    <3>2. l.body.version \in Nat /\ l.body.version <= Version(list)
      BY <2>2 DEF IInv, Sent, Lists
    <3>3. Version(list) \in 0 .. MaxLists BY VersionTyped DEF IInv, TypeOK
    <3> QED BY <3>1, <3>2, <3>3
  <2> QED BY <2>1, <2>2
<1>6. runsOn' \in Devices BY <1>1, <1>2 DEF Policies
<1>7. TypeOK' BY <1>1, <1>4, <1>5, <1>6 DEF IInv, TypeOK, server
<1>8. Sent' /\ Kept' /\ Jobs' BY <1>1 DEF IInv, Sent, Kept, Jobs, Current, server
<1> QED BY <1>7, <1>8 DEF IInv

-----------------------------------------------------------------------------
LEMMA InitIInv == Init => IInv
<1> SUFFICES ASSUME Init PROVE IInv OBVIOUS
<1>1. TypeOK BY DEF Init, TypeOK, Fresh, Version
<1>2. Sent /\ Jobs /\ Kept BY DEF Init, Sent, Jobs, Kept
<1> QED BY <1>1, <1>2 DEF IInv

LEMMA NextKeepsIInv == IInv /\ [Next]_vars => IInv'
<1> SUFFICES ASSUME IInv, [Next]_vars PROVE IInv' OBVIOUS
<1>1. ASSUME NEW k \in RootKeys, SetRoot(k) PROVE IInv' BY <1>1, SetRootKeeps
<1>2. ASSUME NEW c \in Consoles, NEW cmd \in Commands, NEW k \in RootKeys, NEW d \in Keys,
             Look(c, cmd, k, d)
      PROVE  IInv'
  BY <1>2, LookKeeps
<1>3. ASSUME NEW c \in Consoles, Put(c) PROVE IInv'
  <2>1. job[c] # NoJob /\ Store(Made(job[c])) /\ Finish(c) /\ UNCHANGED <<agent, faults>>
    BY <1>3 DEF Put
  <2>2. \/ UNCHANGED reported
        \/ /\ job[c].cmd = "revoke"
           /\ reported' = reported \cup
                {[key |-> job[c].key, version |-> job[c].st.version + 1, as |-> Role(job[c])]}
    BY <1>3 DEF Put
  <2>3. faults' \in 0 .. MaxFaults BY <2>1 DEF IInv, TypeOK
  <2> QED BY <2>1, <2>2, <2>3, PutKeeps
<1>4. ASSUME NEW c \in Consoles, PutRefused(c) PROVE IInv' BY <1>4, PutRefusedKeeps
<1>5. ASSUME NEW c \in Consoles, PutLost(c) PROVE IInv'
  <2>1. job[c] # NoJob /\ Store(Made(job[c])) /\ Finish(c) /\ UNCHANGED <<agent, reported>>
    BY <1>5 DEF PutLost
  <2>2. faults' \in 0 .. MaxFaults BY <1>5 DEF PutLost, Fault, IInv, TypeOK
  <2> QED BY <2>1, <2>2, PutKeeps
<1>6. ASSUME NEW c \in Consoles, Fail(c) PROVE IInv'
  <2>1. faults' \in 0 .. MaxFaults BY <1>6 DEF Fail, Fault, IInv, TypeOK
  <2> QED BY <1>6, <2>1, ConsoleKeeps DEF Fail, Finish
<1>7. ASSUME NEW d \in Devices, NEW v \in Versions, Sign(d, v) PROVE IInv'
  <2> DEFINE b == Blob("account policy", d, Policy(v))
  <2>1. b \in Policies BY DEF Blob, Policies
  <2>2. b \notin Lists BY DEF Blob, Lists
  <2>3. /\ received' = received \cup {b}
        /\ UNCHANGED <<root, delegated, list, job, agent, reported, faults>>
    BY <1>7 DEF Sign
  <2> HIDE DEF b
  <2>4. TypeOK' BY <2>1, <2>3 DEF IInv, TypeOK, agent
  <2>5. Sent' BY <2>2, <2>3 DEF IInv, Sent
  <2>6. Kept' /\ Jobs' BY <2>3 DEF IInv, Kept, Jobs, Current
  <2> QED BY <2>4, <2>5, <2>6 DEF IInv
<1>8. CASE AnyPull BY <1>8, PullKeeps DEF AnyPull
<1>9. CASE UNCHANGED vars
  BY <1>9 DEF vars, server, agent, IInv, TypeOK, Sent, Jobs, Kept, Current
<1> QED BY <1>1, <1>2, <1>3, <1>4, <1>5, <1>6, <1>7, <1>8, <1>9 DEF Next

-----------------------------------------------------------------------------
(* What the agent can be shown                                             *)

(* Reached: every version up to the server's was uploaded as a list.       *)
Reached == \A v \in 1 .. Version(list) : \E l \in received \cap Lists : l.body.version = v

(* RevokedSince: as long as no version was signed twice, every list from   *)
(* the one of a reported revocation on, kept or refused, revokes the key.  *)
RevokedSince ==
  OneListPerVersion =>
    \A r \in reported, l \in received \cap Lists :
      r.as = "device" /\ l.body.version >= r.version => r.key \in l.body.revoked

(* DelegatedSent: who is delegated has a delegation of the account's root. *)
DelegatedSent ==
  \A d \in delegated :
    \E b \in received : b.kind = "delegation" /\ b.by = root /\ b.body = Delegation(d)

Shown == Reached /\ RevokedSince /\ AgentsKeepRevoked /\ DelegatedSent

LEMMA ListVersion ==
  ASSUME NEW l \in Lists PROVE l.body.version \in 1 .. MaxLists
  BY DEF Lists

(* A step that uploads no list and reports nothing keeps what the lists    *)
(* say; more uploads only make the hypothesis stronger.                    *)
LEMMA SameLists ==
  ASSUME IInv, Shown, UNCHANGED <<list, reported, agent>>,
         received \subseteq received', received' \cap Lists = received \cap Lists
  PROVE  Reached' /\ RevokedSince' /\ AgentsKeepRevoked'
<1>1. OneListPerVersion' = OneListPerVersion BY DEF OneListPerVersion
<1>2. Version(list)' = Version(list) OBVIOUS
<1>3. Reached' BY <1>2 DEF Shown, Reached
<1>4. RevokedSince' BY <1>1 DEF Shown, RevokedSince
<1>5. AgentsKeepRevoked' BY <1>1 DEF Shown, AgentsKeepRevoked, agent
<1> QED BY <1>3, <1>4, <1>5

(* An upload that is stored.                                               *)
LEMMA PutShows ==
  ASSUME IInv, Shown, NEW c \in Consoles, job[c] # NoJob, Store(Made(job[c])),
         UNCHANGED agent,
         \/ UNCHANGED reported
         \/ /\ job[c].cmd = "revoke"
            /\ reported' = reported \cup
                 {[key |-> job[c].key, version |-> job[c].st.version + 1, as |-> Role(job[c])]}
  PROVE  Shown'
<1> DEFINE j == job[c]
           b == Made(j)
<1>1. j \in JobType /\ Current(c) BY DEF IInv, TypeOK, Jobs
<1>2. j.cmd = "revoke" => j.st.version < MaxLists BY <1>1 DEF Current
<1>3. /\ Version(list) <= Version(list')
      /\ j.cmd = "revoke" => /\ Version(list') = Version(list) + 1
                             /\ Version(list) = j.st.version
  BY StoreKeeps
<1>4. Version(list) \in 0 .. MaxLists BY VersionTyped DEF IInv, TypeOK
<1>5. j.cmd = "revoke" /\ j.st.version = Version(list) =>
        \A r \in reported : r.as = "device" => r.key \in j.st.revoked
  BY <1>1 DEF Current
<1> HIDE DEF j
<1>6. /\ b \in Lists \cup Blobs
      /\ j.cmd = "revoke" => b \in Lists /\ b.kind = "revocations" /\ b.body = NewList(j)
      /\ j.cmd # "revoke" => b \notin Lists /\ b.kind # "revocations"
  BY <1>1, <1>2, MadeTyped
<1>7. b.kind = "delegation" => b.body = Delegation(b.body.key)
  BY <1>1, <1>2, MadeTyped DEF Made, RevokeBlob, DelegateBlob, FreshnessBlob, Blob, Delegation
<1> HIDE DEF b
<1>8. /\ b.by = root /\ root' = root /\ received' = received \cup {b}
      /\ delegated' = IF b.kind = "delegation" THEN delegated \cup {b.body.key} ELSE delegated
      /\ list' = IF b.kind = "revocations" THEN b ELSE list
  BY DEF Store, Accepts, b, j
<1>9. DelegatedSent'
  <2> SUFFICES ASSUME NEW d \in delegated'
               PROVE  \E x \in received' : /\ x.kind = "delegation" /\ x.by = root'
                                           /\ x.body = Delegation(d)
    BY DEF DelegatedSent
  <2>1. CASE d \in delegated BY <1>8, <2>1 DEF Shown, DelegatedSent
  <2>2. CASE d \notin delegated BY <1>7, <1>8, <2>2
  <2> QED BY <2>1, <2>2
<1>10. CASE j.cmd # "revoke"
  <2>1. list' = list /\ received' \cap Lists = received \cap Lists /\ reported' = reported
    BY <1>6, <1>8, <1>10 DEF j
  <2> QED BY <1>8, <1>9, <2>1, SameLists DEF Shown
<1>11. CASE j.cmd = "revoke"
  <2>1. /\ b \in Lists /\ list' = b /\ b.body = NewList(j) BY <1>6, <1>8, <1>11
  <2>2. /\ b.body.version = Version(list) + 1 /\ b.body.revoked = {j.key} \cup j.st.revoked
    BY <1>3, <1>11, <2>1 DEF NewList
  <2>3. Reached'
    <3> SUFFICES ASSUME NEW v \in 1 .. Version(list') 
                 PROVE  \E l \in received' \cap Lists : l.body.version = v
      BY DEF Reached
    <3>1. CASE v = Version(list) + 1 BY <1>8, <2>1, <2>2, <3>1
    <3>2. CASE v # Version(list) + 1
      <4>1. v \in 1 .. Version(list) BY <1>3, <1>4, <1>11, <3>2
      <4> QED BY <1>8, <4>1 DEF Shown, Reached
    <3> QED BY <3>1, <3>2
  <2>4. \A r \in reported' \ reported :
          r.key = j.key /\ r.version = Version(list) + 1
    BY <1>3, <1>11 DEF j
  <2>5. ASSUME OneListPerVersion' PROVE OneListPerVersion
    BY <1>8, <2>5 DEF OneListPerVersion
  <2>6. RevokedSince'
    <3> SUFFICES ASSUME OneListPerVersion', NEW r \in reported', NEW l \in received' \cap Lists,
                        r.as = "device", l.body.version >= r.version
                 PROVE  r.key \in l.body.revoked
      BY DEF RevokedSince
    <3>1. CASE l = b
      <4>1. CASE r \in reported BY <1>3, <1>5, <1>11, <2>2, <3>1, <4>1
      <4>2. CASE r \notin reported BY <2>2, <2>4, <3>1, <4>2
      <4> QED BY <4>1, <4>2
    <3>2. CASE l # b
      <4>1. l \in received \cap Lists BY <1>8, <3>2
      <4>2. l.body.version <= Version(list) BY <4>1 DEF IInv, Sent
      <4>3. l.body.version \in 1 .. MaxLists BY ListVersion
      <4>4. r \in reported BY <1>4, <2>4, <4>2, <4>3
      <4> QED BY <2>5, <4>1, <4>4 DEF Shown, RevokedSince
    <3> QED BY <3>1, <3>2
  <2>7. AgentsKeepRevoked'
    <3> SUFFICES ASSUME OneListPerVersion', NEW r \in reported',
                        r.as = "device", floor'.rev >= r.version
                 PROVE  runsOn' # r.key
      BY DEF AgentsKeepRevoked
    <3>1. floor' = floor /\ runsOn' = runsOn BY DEF agent
    <3>2. floor.rev \in 0 .. Version(list) BY DEF IInv, TypeOK
    <3>3. r \in reported BY <1>4, <2>4, <3>1, <3>2
    <3> QED BY <2>5, <3>1, <3>3 DEF Shown, AgentsKeepRevoked
  <2> QED BY <1>9, <2>3, <2>6, <2>7 DEF Shown
<1> QED BY <1>10, <1>11

(* A list that is refused has a version that was uploaded before: it is    *)
(* that list, or the version was signed twice.                             *)
LEMMA PutRefusedShows ==
  ASSUME IInv, Shown, NEW c \in Consoles, PutRefused(c)
  PROVE  Shown'
<1> DEFINE b == Made(job[c])
<1>1. /\ received' = received \cup {b} /\ ~ Accepts(b)
      /\ UNCHANGED <<root, delegated, list, agent, reported>>
  BY DEF PutRefused
<1>2. job[c] \in JobType /\ Current(c) /\ job[c].by = root
  BY DEF PutRefused, IInv, TypeOK, Jobs
<1>3. job[c].cmd = "revoke" => job[c].st.version < MaxLists BY <1>2 DEF Current
<1>4. /\ b.by = root
      /\ job[c].cmd = "revoke" => b \in Lists /\ b.kind = "revocations"
      /\ job[c].cmd # "revoke" => b \notin Lists
  BY <1>2, <1>3, MadeTyped
<1> HIDE DEF b
<1>5. DelegatedSent' BY <1>1 DEF Shown, DelegatedSent
<1>6. CASE b \notin Lists
  <2>1. received' \cap Lists = received \cap Lists BY <1>1, <1>6
  <2> QED BY <1>1, <1>5, <2>1, SameLists DEF Shown
<1>7. CASE b \in Lists
  <2>1. b.body.version \in 1 .. MaxLists BY <1>7, ListVersion
  <2>2. Version(list) \in 0 .. MaxLists BY VersionTyped DEF IInv, TypeOK
  <2>3. b.body.version \in 1 .. Version(list)
    BY <1>1, <1>4, <1>7, <2>1, <2>2 DEF Accepts
  <2> PICK l \in received \cap Lists : l.body.version = b.body.version
    BY <2>3 DEF Shown, Reached
  <2>4. Reached' BY <1>1 DEF Shown, Reached
  <2>5. ASSUME OneListPerVersion' PROVE OneListPerVersion /\ received' \cap Lists = received \cap Lists
    <3>1. b = l BY <1>1, <1>7, <2>5 DEF OneListPerVersion
    <3> QED BY <1>1, <2>5, <3>1 DEF OneListPerVersion
  <2>6. RevokedSince' BY <1>1, <2>5 DEF Shown, RevokedSince
  <2>7. AgentsKeepRevoked' BY <1>1, <2>5 DEF Shown, AgentsKeepRevoked, agent
  <2> QED BY <1>5, <2>4, <2>6, <2>7 DEF Shown
<1> QED BY <1>6, <1>7

(* The agent applies what its list does not revoke.                        *)
LEMMA PullShows ==
  ASSUME IInv, Shown, NEW p \in received \cap Policies,
         NEW l \in (received \cap Lists) \cup {NoBlob}, Pull(p, l)
  PROVE  Shown'
<1> DEFINE sp == Bundle(p, l)
<1>1. /\ Verifies(sp, Root, floor, Now) /\ floor' = NextState(sp, Root, floor, Now)
      /\ runsOn' = sp.signer /\ UNCHANGED <<server, reported>>
  BY DEF Pull
<1>2. sp.revocations = l BY DEF Bundle
<1> HIDE DEF sp
<1>3. sp.signer \notin Revoked(sp) /\ (l = NoBlob => floor.rev = 0)
  BY <1>1, <1>2 DEF Verifies, SignerTrusted, RevocationsAccepted
<1>4. Reached' /\ RevokedSince' /\ DelegatedSent'
  BY <1>1 DEF Shown, Reached, RevokedSince, DelegatedSent, server, OneListPerVersion
<1>5. AgentsKeepRevoked'
  <2> SUFFICES ASSUME OneListPerVersion, NEW r \in reported,
                      r.as = "device", floor'.rev >= r.version
               PROVE  runsOn' # r.key
    BY <1>1 DEF AgentsKeepRevoked, OneListPerVersion, server
  <2>1. r.version \in 1 .. MaxLists BY DEF IInv, TypeOK
  <2>2. CASE l = NoBlob
    BY <1>1, <1>2, <1>3, <2>1, <2>2 DEF NextState
  <2>3. CASE l # NoBlob
    <3>1. floor'.rev = l.body.version BY <1>1, <1>2, <2>3 DEF NextState
    <3>2. r.key \in l.body.revoked BY <2>3, <3>1 DEF Shown, RevokedSince
    <3> QED BY <1>1, <1>2, <1>3, <2>3, <3>2 DEF Revoked
  <2> QED BY <2>2, <2>3
<1> QED BY <1>4, <1>5 DEF Shown

LEMMA InitShown == Init => Shown
  BY DEF Init, Shown, Reached, RevokedSince, AgentsKeepRevoked, DelegatedSent, Version

LEMMA NextKeepsShown == IInv /\ Shown /\ [Next]_vars => Shown'
<1> SUFFICES ASSUME IInv, Shown, [Next]_vars PROVE Shown' OBVIOUS
<1>a. ASSUME UNCHANGED <<root, delegated, list, reported, agent>>,
             received \subseteq received', received' \cap Lists = received \cap Lists
      PROVE  Shown'
  <2>1. DelegatedSent' BY <1>a DEF Shown, DelegatedSent
  <2> QED BY <1>a, <2>1, SameLists DEF Shown
<1>1. ASSUME NEW k \in RootKeys, SetRoot(k) PROVE Shown'
  <2>1. root = NoKey /\ UNCHANGED <<delegated, list, received, reported, agent>>
    BY <1>1 DEF SetRoot
  <2>2. delegated = {}
    <3> SUFFICES ASSUME NEW d \in delegated PROVE FALSE
      OBVIOUS
    <3> PICK b \in received : b.kind = "delegation" /\ b.by = root
      BY DEF Shown, DelegatedSent
    <3>1. b \in Blobs
      <4>1. b \in Lists \cup Blobs \cup Policies BY DEF IInv, TypeOK
      <4> QED BY <4>1 DEF Lists, Policies
    <3> QED BY <2>1, <3>1 DEF Blobs
  <2>3. DelegatedSent' BY <2>1, <2>2 DEF DelegatedSent
  <2> QED BY <2>1, <2>3, SameLists DEF Shown
<1>2. ASSUME NEW c \in Consoles, NEW cmd \in Commands, NEW k \in RootKeys, NEW d \in Keys,
             Look(c, cmd, k, d)
      PROVE  Shown'
  BY <1>2, <1>a DEF Look, server
<1>3. ASSUME NEW c \in Consoles, Put(c) PROVE Shown'
  <2>1. job[c] # NoJob /\ Store(Made(job[c])) /\ UNCHANGED agent BY <1>3 DEF Put
  <2>2. \/ UNCHANGED reported
        \/ /\ job[c].cmd = "revoke"
           /\ reported' = reported \cup
                {[key |-> job[c].key, version |-> job[c].st.version + 1, as |-> Role(job[c])]}
    BY <1>3 DEF Put
  <2> QED BY <2>1, <2>2, PutShows
<1>4. ASSUME NEW c \in Consoles, PutRefused(c) PROVE Shown' BY <1>4, PutRefusedShows
<1>5. ASSUME NEW c \in Consoles, PutLost(c) PROVE Shown'
  BY <1>5, PutShows DEF PutLost
<1>6. ASSUME NEW c \in Consoles, Fail(c) PROVE Shown'
  BY <1>6, <1>a DEF Fail, server
<1>7. ASSUME NEW d \in Devices, NEW v \in Versions, Sign(d, v) PROVE Shown'
  <2>1. Blob("account policy", d, Policy(v)) \notin Lists BY DEF Blob, Lists
  <2> QED BY <1>7, <2>1, <1>a DEF Sign
<1>8. CASE AnyPull BY <1>8, PullShows DEF AnyPull
<1>9. CASE UNCHANGED vars
  BY <1>9, <1>a DEF vars, server
<1> QED BY <1>1, <1>2, <1>3, <1>4, <1>5, <1>6, <1>7, <1>8, <1>9 DEF Next

(* An upload carries the account's root, and only a list can be too old.   *)
LEMMA RefusedOvertaken == IInv => RefusedOnlyIfOvertaken
<1> SUFFICES ASSUME IInv, NEW c \in Consoles, job[c] # NoJob, ~ Accepts(Made(job[c]))
             PROVE  job[c].cmd = "revoke" /\ Version(list) > job[c].st.version
  BY DEF RefusedOnlyIfOvertaken
<1> DEFINE j == job[c]
<1>1. j \in JobType /\ Current(c) /\ j.by = root BY DEF IInv, TypeOK, Jobs
<1>2. j.cmd = "revoke" => j.st.version < MaxLists BY <1>1 DEF Current
<1>3. j.st.version \in Nat BY <1>1 DEF JobType, StatusType
<1>4. Version(list) \in 0 .. MaxLists BY VersionTyped DEF IInv, TypeOK
<1> HIDE DEF j
<1>5. /\ Made(j).by = root
      /\ j.cmd = "revoke" => Made(j).body = NewList(j)
      /\ j.cmd # "revoke" => Made(j).kind # "revocations"
  BY <1>1, <1>2, MadeTyped
<1>6. ~ (Made(j).body.version > Version(list)) /\ j.cmd = "revoke"
  BY <1>5 DEF Accepts, j
<1>7. Made(j).body.version = j.st.version + 1 BY <1>5, <1>6 DEF NewList
<1> QED BY <1>3, <1>4, <1>6, <1>7 DEF j

(* The newest list is one the agent's floor admits, and the chain holds    *)
(* the device's delegation.                                                *)
LEMMA ShownAccepted == IInv /\ Shown => DelegatedAccepted
<1> SUFFICES ASSUME IInv, Shown, root = Root, NEW p \in received \cap Policies,
                    p.by \in delegated \ RevokedBy(list), p.body.version >= floor.version
             PROVE  Verifies(Bundle(p, list), Root, floor, Now)
  BY DEF DelegatedAccepted
<1> DEFINE sp == Bundle(p, list)
<1>1. /\ sp.root = Root /\ sp.chain = Chain /\ sp.revocations = list /\ sp.signer = p.by
      /\ sp.accountPolicy = p /\ sp.freshness = NoBlob
  BY DEF Bundle
<1> HIDE DEF sp
<1>2. Root # NoKey /\ p # NoBlob BY NothingAssumption
<1>3. Served(sp) = p /\ IsAccount(sp) BY <1>1, <1>2 DEF Served, IsAccount
<1>4. PICK v \in Versions : p.body = Policy(v) /\ p.kind = "account policy" BY DEF Policies
<1>5. /\ p.body.account = Account /\ p.body.expires = 1 /\ Machine \in p.body.machines
      /\ p.body.caOK
  <2>1. /\ Policy(v).account = Account /\ Policy(v).expires = 1
        /\ Policy(v).machines = {Machine} /\ Policy(v).caOK
    BY ZenonT(30) DEF Policy
  <2> QED BY <1>4, <2>1
<1>6. RevocationsAccepted(sp, floor)
  <2>1. floor.rev \in 0 .. Version(list) BY DEF IInv, TypeOK
  <2>2. CASE list = NoBlob
    BY <1>1, <2>1, <2>2 DEF RevocationsAccepted, Version
  <2>3. CASE list # NoBlob
    <3>1. list \in Lists /\ list.by = Root BY <2>3 DEF IInv, TypeOK
    <3>2. list.kind = "revocations" /\ list.body.version \in Nat BY <3>1 DEF Lists
    <3> QED BY <1>1, <2>1, <2>3, <3>1, <3>2
        DEF RevocationsAccepted, Version, Opens, NotOlder
  <2> QED BY <2>2, <2>3
<1>7. sp.signer \notin Revoked(sp) BY <1>1 DEF Revoked, RevokedBy
<1>8. ChainOpens(sp) BY <1>1 DEF ChainOpens, Chain, Opens
<1>9. Account \in LiveAccounts(sp, Now)
  <2> PICK b \in received : b.kind = "delegation" /\ b.by = root /\ b.body = Delegation(p.by)
    BY DEF Shown, DelegatedSent
  <2>1. b \in sp.chain BY <1>1 DEF Chain
  <2>2. b.body.account = Account /\ b.body.key = sp.signer /\ Live(b.body, Now)
    BY <1>1 DEF Delegation, Live
  <2> QED BY <2>1, <2>2 DEF LiveAccounts
<1>10. SignerTrusted(sp, Root, floor, Now)
  BY <1>1, <1>2, <1>6, <1>7, <1>8, <1>9 DEF SignerTrusted, RootPinned
<1>11. Now < GoodUntil(sp, Now)
  BY <1>1, <1>3, <1>5 DEF GoodUntil, Vouches, Now
<1>12. Verifies(sp, Root, floor, Now)
  BY <1>1, <1>2, <1>3, <1>4, <1>5, <1>9, <1>10, <1>11
  DEF Verifies, Offered, NoDowngrade, Opens, FormatKind, NotReplayed
<1> QED BY <1>12 DEF sp

-----------------------------------------------------------------------------
(* The results                                                             *)

(* Consoles, server and agent stay in their domains; in particular a       *)
(* command that has started signs for the root that is still the account's *)
(* (rootStatus) and the agent's floor never passes the newest list.        *)
THEOREM OwnerTypeCorrect == Spec => []TypeOK
<1>1. IInv => TypeOK BY DEF IInv
<1> QED BY <1>1, InitIInv, NextKeepsIInv, PTL DEF Spec

(* However many consoles delegate and revoke at once and whichever uploads *)
(* are lost or refused, a device whose revocation was reported stays on    *)
(* the server's list (policyRevoke rebuilds the list from the status it    *)
(* read before it asked for the root key, and the server refuses a list    *)
(* made from an overtaken status).                                         *)
THEOREM OwnerRevocationsKept == Spec => []RevocationsKept
<1>1. IInv => RevocationsKept BY DEF IInv, Kept, RevocationsKept
<1> QED BY <1>1, InitIInv, NextKeepsIInv, PTL DEF Spec

(* An upload is refused only because another console's list came first     *)
(* (rootStatus, policyRevoke).                                             *)
THEOREM OwnerRefusedOnlyIfOvertaken == Spec => []RefusedOnlyIfOvertaken
<1> QED BY InitIInv, NextKeepsIInv, RefusedOvertaken, PTL DEF Spec

(* As long as no version of the list was signed twice, an agent at or past *)
(* the list of a reported revocation runs on no policy of that device,     *)
(* whatever the server shows it (policyRevoke, verifyRootAndRevocations).  *)
THEOREM OwnerAgentsKeepRevoked == Spec => []AgentsKeepRevoked
<1>1. IInv /\ Shown => AgentsKeepRevoked BY DEF Shown
<1> QED BY <1>1, InitIInv, NextKeepsIInv, InitShown, NextKeepsShown, PTL DEF Spec

(* What a delegated device signs verifies, with the newest list: no        *)
(* sequence of commands and lost uploads locks an agent out                *)
(* (policyDelegate and policyRevoke against verifyAccountPolicy).          *)
THEOREM OwnerDelegatedAccepted == Spec => []DelegatedAccepted
<1> QED BY InitIInv, NextKeepsIInv, InitShown, NextKeepsShown, ShownAccepted, PTL DEF Spec
=============================================================================
