------------------------------ MODULE OwnerCLI -------------------------------
(***************************************************************************)
(* The owner's side of signed policy (policy_cli.go): consoles that set    *)
(* the root, delegate, revoke and sign, the server that keeps what they    *)
(* upload, and one machine's agent, which the server may answer with       *)
(* anything it ever received.                                              *)
(*                                                                         *)
(* delegate, revoke and freshness-delegate read the server's status, sign  *)
(* and upload; other consoles run in between.  The server is external and  *)
(* modelled as in policy_cli_test.go: it holds no key, checks an upload    *)
(* against the root it was given, keeps a revocation list only if it is    *)
(* newer, and tells the truth in its status, which names the signing       *)
(* devices.  Time does not pass: delegations and policies stay live.       *)
(***************************************************************************)
EXTENDS PolicyVerify

CONSTANTS
  Consoles,     \* running p3sig policy commands
  RootKeys,     \* what --root-key can name
  Root,         \* the one the agent pins
  Devices,      \* keys that sign policy
  FreshKeys,    \* keys the root delegates for freshness
  Account,
  NoJob,        \* a console between two commands
  Versions,     \* versions of the drafts the server makes
  MaxLists,     \* bound: versions of revocation lists
  MaxFaults     \* bound: requests or answers that are lost

Keys == Devices \cup FreshKeys
Now  == 0

ASSUME OwnerAssumption ==
  /\ Root \in RootKeys /\ NoKey \notin RootKeys \cup Keys
  /\ Versions \subseteq Nat \ {0} /\ MaxLists \in Nat /\ MaxFaults \in Nat

Roles      == {"device", "freshness", "unknown"}
Commands   == {"delegate", "revoke", "freshness-delegate"}
StatusType == [listed : SUBSET Devices, revoked : SUBSET Devices, version : Nat]
JobType    == [cmd : Commands, by : RootKeys, key : Keys, st : StatusType]

Blob(kind, by, body) == [kind |-> kind, by |-> by, body |-> body]
Delegation(k) == [account |-> Account, key |-> k, expires |-> 0]
Lists == [kind : {"revocations"}, by : RootKeys,
          body : [version : 1 .. MaxLists, revoked : SUBSET Keys]]
Blobs == [kind : {"delegation", "freshness delegation"}, by : RootKeys,
          body : {Delegation(d) : d \in Keys}]
Policy(v) ==
  [format |-> "account", account |-> Account, version |-> v, expires |-> 1,
   machines |-> {Machine}, caOK |-> TRUE, krlOK |-> TRUE, users |-> {}]
Policies == [kind : {"account policy"}, by : Devices, body : {Policy(v) : v \in Versions}]
ASSUME NothingAssumption ==
  NoJob \notin JobType /\ NoBlob \notin Lists \cup Policies

VARIABLES
  root, delegated, list,  \* the server: root_key, the devices delegated, the newest list
  received,               \* every blob that was uploaded, kept or refused
  job,                    \* each console: its command and the status it read
  floor, runsOn,          \* the agent: policyState, signer of the policy it applied
  reported,               \* history: revocations a console reported as done
  faults                  \* history: faults so far

server == <<root, delegated, list, received>>
agent  == <<floor, runsOn>>
vars   == <<server, job, agent, reported, faults>>

Version(l) == IF l = NoBlob THEN 0 ELSE l.body.version
RevokedBy(l) == IF l = NoBlob THEN {} ELSE l.body.revoked

TypeOK ==
  /\ root \in RootKeys \cup {NoKey}
  /\ delegated \subseteq Devices
  /\ list \in Lists \cup {NoBlob}
  /\ list # NoBlob => list.by = root
  /\ received \subseteq Lists \cup Blobs \cup Policies
  /\ job \in [Consoles -> JobType \cup {NoJob}]
  /\ \A c \in Consoles : job[c] # NoJob => job[c].by = root
  /\ floor.version \in Nat /\ floor.rev \in 0 .. Version(list)
  /\ runsOn \in Devices \cup {NoKey}
  /\ reported \subseteq [key : Keys, version : 1 .. MaxLists, as : Roles]
  /\ faults \in 0 .. MaxFaults

Init ==
  /\ root = NoKey /\ delegated = {} /\ list = NoBlob /\ received = {}
  /\ job = [c \in Consoles |-> NoJob]
  /\ floor = Fresh /\ runsOn = NoKey
  /\ reported = {} /\ faults = 0

Fault ==
  /\ faults < MaxFaults
  /\ faults' = faults + 1

-----------------------------------------------------------------------------
(* policySetRoot: one call.  A different root is refused and changes       *)
(* nothing.                                                                *)
SetRoot(k) ==
  /\ root = NoKey
  /\ root' = k
  /\ UNCHANGED <<delegated, list, received, job, agent, reported, faults>>

(* getPolicyStatus                                                         *)
Status == [listed |-> delegated, revoked |-> delegated \cap RevokedBy(list),
           version |-> Version(list)]

(* rootStatus: nothing is signed with a key that is not the account's root.*)
RootStatusMutant(k) == root # NoKey
RootStatus(k) == k = root

(* The status is read; the command's key is an argument.  Only policyRevoke*)
(* uses more of the status than the root and the account.                  *)
Unread == [listed |-> {}, revoked |-> {}, version |-> 0]
Look(c, cmd, k, d) ==
  /\ job[c] = NoJob
  /\ RootStatus(k)
  /\ cmd = "delegate" => d \in Devices
  /\ cmd = "freshness-delegate" => d \in FreshKeys
  /\ cmd = "revoke" => Version(list) < MaxLists
  /\ job' = [job EXCEPT ![c] = [cmd |-> cmd, by |-> k, key |-> d,
                                st |-> IF cmd = "revoke" THEN Status ELSE Unread]]
  /\ UNCHANGED <<server, agent, reported, faults>>

(* policyRevoke: the new list is the old one as far as the status shows    *)
(* it, and the one key more.                                               *)
NewListMutant(j) ==
  [version |-> j.st.version + 1, revoked |-> {j.key}]
NewListSameMutant(j) ==
  [version |-> IF j.st.version = 0 THEN 1 ELSE j.st.version, revoked |-> {j.key} \cup j.st.revoked]
NewList(j) ==
  [version |-> j.st.version + 1, revoked |-> {j.key} \cup j.st.revoked]

DelegateBlob(j)  == Blob("delegation", j.by, Delegation(j.key))
FreshnessBlob(j) == Blob("freshness delegation", j.by, Delegation(j.key))
RevokeBlob(j)    == Blob("revocations", j.by, NewList(j))
Made(j) ==
  IF j.cmd = "revoke" THEN RevokeBlob(j)
  ELSE IF j.cmd = "delegate" THEN DelegateBlob(j) ELSE FreshnessBlob(j)

(* policyPutBlob and accountPolicyPut on the server.                       *)
Accepts(b) ==
  /\ b.by = root
  /\ b.kind = "revocations" => b.body.version > Version(list)

Store(b) ==
  /\ Accepts(b)
  /\ delegated' = IF b.kind = "delegation" THEN delegated \cup {b.body.key} ELSE delegated
  /\ list' = IF b.kind = "revocations" THEN b ELSE list
  /\ received' = received \cup {b}
  /\ UNCHANGED root

Finish(c) == job' = [job EXCEPT ![c] = NoJob]

(* What the revoked key was, as the console or the server knew it.         *)
FreshnessDelegated(k) ==
  \E b \in received : b.kind = "freshness delegation" /\ b.body.key = k
Role(j) == IF j.key \in j.st.listed THEN "device"
           ELSE IF FreshnessDelegated(j.key) THEN "freshness" ELSE "unknown"

Put(c) ==
  /\ job[c] # NoJob
  /\ Store(Made(job[c]))
  /\ reported' = IF job[c].cmd # "revoke" THEN reported
                 ELSE reported \cup {[key |-> job[c].key, version |-> job[c].st.version + 1,
                                      as |-> Role(job[c])]}
  /\ Finish(c)
  /\ UNCHANGED <<agent, faults>>

PutRefused(c) ==
  /\ job[c] # NoJob
  /\ ~ Accepts(Made(job[c]))
  /\ received' = received \cup {Made(job[c])}
  /\ Finish(c)
  /\ UNCHANGED <<root, delegated, list, agent, reported, faults>>

(* The upload is kept and its answer lost; the console reports an error.   *)
PutLost(c) ==
  /\ job[c] # NoJob /\ Fault
  /\ Store(Made(job[c]))
  /\ Finish(c)
  /\ UNCHANGED <<agent, reported>>

(* The upload never arrives.                                               *)
Fail(c) ==
  /\ job[c] # NoJob /\ Fault
  /\ Finish(c)
  /\ UNCHANGED <<server, agent, reported>>

(* policySignAccount: draft, review, signature and upload.  All it reads   *)
(* is the draft, which the server makes, so it is one step.                *)
Sign(d, v) ==
  /\ received' = received \cup {Blob("account policy", d, Policy(v))}
  /\ UNCHANGED <<root, delegated, list, job, agent, reported, faults>>

-----------------------------------------------------------------------------
(* What the server can assemble.  The agent refuses a chain with a foreign *)
(* blob, and a longer chain of its own root's is never worse.              *)
Chain == {b \in received : b.kind = "delegation" /\ b.by = Root}
Bundle(p, l) ==
  [root |-> Root, chain |-> Chain, revocations |-> l,
   machinePolicy |-> NoBlob, accountPolicy |-> p, signer |-> p.by,
   freshness |-> NoBlob, freshnessSigner |-> NoKey, freshnessChain |-> {}]

(* agentPullWith, as far as its state goes; PolicyAgent has its steps.     *)
Pull(p, l) ==
  LET sp == Bundle(p, l) IN
  /\ Verifies(sp, Root, floor, Now)
  /\ floor' = NextState(sp, Root, floor, Now)
  /\ runsOn' = sp.signer
  /\ UNCHANGED <<server, job, reported, faults>>

AnyPull ==
  \E p \in received \cap Policies, l \in (received \cap Lists) \cup {NoBlob} : Pull(p, l)

Next ==
  \/ \E k \in RootKeys : SetRoot(k)
  \/ \E c \in Consoles :
       \/ \E cmd \in Commands, k \in RootKeys, d \in Keys : Look(c, cmd, k, d)
       \/ Put(c) \/ PutRefused(c) \/ PutLost(c) \/ Fail(c)
  \/ \E d \in Devices, v \in Versions : Sign(d, v)
  \/ AnyPull

Spec == Init /\ [][Next]_vars

-----------------------------------------------------------------------------
(* Properties                                                              *)

(* A revocation that was reported stays on the server's list, whatever     *)
(* other consoles delegate and revoke in between and whichever of their    *)
(* uploads is lost, provided the status listed the device when it was      *)
(* revoked (policyRevoke rebuilds the list from what the status lists).    *)
RevocationsKept ==
  \A r \in reported : r.as = "device" => r.key \in RevokedBy(list)

(* The same for a freshness key the root delegated (policy_cli.go:7,       *)
(* "can't be rolled back"; account_policy.go:17, "Revoked like any device, *)
(* through the root-signed revocation list").                              *)
RevokedForGood ==
  \A r \in reported : r.as = "freshness" => r.key \in RevokedBy(list)

(* An agent that has accepted the list of a reported revocation, or any    *)
(* later one, runs on no policy of that device, whatever the server        *)
(* answers: as long as no two lists with one version were signed, which    *)
(* two consoles that revoke at once would do (policyRevoke,                *)
(* verifyRootAndRevocations).                                              *)
OneListPerVersion ==
  \A l, k \in received \cap Lists : l.body.version = k.body.version => l = k
AgentsKeepRevoked ==
  OneListPerVersion =>
    \A r \in reported : r.as = "device" /\ floor.rev >= r.version => runsOn # r.key

(* The server refuses a console's upload only when another console's list  *)
(* came in between: never for its root or for a version of its own making  *)
(* (rootStatus, policyRevoke).                                             *)
RefusedOnlyIfOvertaken ==
  \A c \in Consoles :
    job[c] # NoJob /\ ~ Accepts(Made(job[c])) =>
      job[c].cmd = "revoke" /\ Version(list) > job[c].st.version

(* No sequence of commands, refusals and answers locks an agent out of the *)
(* owner's own policies: what a delegated device that is not revoked signs *)
(* verifies with the newest list, if it is not older than what the agent   *)
(* applied (policyDelegate and policyRevoke against verifyAccountPolicy).  *)
DelegatedAccepted ==
  root = Root =>
    \A p \in received \cap Policies :
      /\ p.by \in delegated \ RevokedBy(list)
      /\ p.body.version >= floor.version
      => Verifies(Bundle(p, list), Root, floor, Now)
=============================================================================
