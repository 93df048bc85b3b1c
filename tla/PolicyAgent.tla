----------------------------- MODULE PolicyAgent -----------------------------
(***************************************************************************)
(* The agent (main.go agentPullWith, writeSSHFiles, cmdAgentRun): it pulls *)
(* a signed policy from a server it does not trust, verifies it against    *)
(* the pinned root and the state file, writes sshd's trust files and then  *)
(* saves the new state.  One action is one system call that another        *)
(* process, a crash or sshd can observe.                                   *)
(*                                                                         *)
(* A file is represented by the policy body it was written from.  The      *)
(* server answers with any bundle of Bundles: it holds signed blobs and no *)
(* key, and chooses which of them to send, until it turns honest.          *)
(***************************************************************************)
EXTENDS PolicyVerify, FiniteSets

CONSTANTS
  Agents,      \* processes that share the output directory
  Bundles,     \* what the server can assemble from the blobs it holds
  Final,       \* the bundle an honest server sends, or NoBlob: it never is
  Unsigned,    \* bodies the unsigned actions of the server can add up to
  NoFile,      \* a file that does not exist
  SafeUsers,   \* the login users safeUser lets through
  Flags,       \* command lines: [root, required]
  MaxFaults,   \* bound: crashes, I/O errors and failed requests
  MaxClock     \* bound: the clock stops here

SignedBodies == {Served(sp).body : sp \in {b \in Bundles : Offered(b)}}
Bodies == SignedBodies \cup Unsigned
Roots  == {NoKey} \cup {sp.root : sp \in Bundles} \cup {f.root : f \in Flags}

(* Versions and times are unsigned; an unsigned body is no signed one.     *)
ASSUME BodiesAssumption ==
  /\ \A b \in Bodies : b.version \in Nat /\ b.expires \in Nat /\ b.krlOK \in BOOLEAN
  /\ SignedBodies \cap Unsigned = {}
  /\ NoFile \notin Bodies
ASSUME BundlesAssumption ==
  \A sp \in Bundles :
    /\ sp.revocations # NoBlob => sp.revocations.body.version \in Nat
    /\ sp.freshness # NoBlob => /\ sp.freshness.body.issued \in Nat
                               /\ sp.freshness.body.expires \in Nat

VARIABLES
  clock,
  ca, krl, principals,   \* trusted_user_ca_keys, revoked_keys, principals/<user>
  krlTmp,                \* revoked_keys.tmp
  state,                 \* .p3sig-policy-state.json
  pc, root, loaded,      \* each process: progress, pinned root, st
  body, next, todo,      \* what it writes, nextState, users still to write
  report,                \* the last status the dashboard was told
  honest,                \* the server sends Final from now on
  faults                 \* history: what went wrong so far

files  == <<ca, krl, principals, krlTmp>>
locals == <<root, loaded, body, next, todo>>
env    == <<clock, honest, faults>>
vars   == <<env, files, state, pc, locals, report>>

Steps  == {"idle", "pull", "legacy", "compile", "principals", "rename",
           "save", "report"}
Writing == {"compile", "principals", "rename", "save"}
StateType == [root : Roots, version : Nat, rev : Nat, until : Nat, format : Formats]

TypeOK ==
  /\ clock \in Nat /\ faults \in Nat /\ honest \in BOOLEAN
  /\ ca \in Bodies \cup {NoFile}
  /\ krl \in Bodies \cup {NoFile}
  /\ krlTmp \in Bodies \cup {NoFile}
  /\ principals \in [SafeUsers -> Bodies \cup {NoFile}]
  /\ state \in StateType
  /\ pc \in [Agents -> Steps]
  /\ root \in [Agents -> Roots]
  /\ loaded \in [Agents -> StateType] /\ next \in [Agents -> StateType]
  /\ body \in [Agents -> Bodies \cup {NoFile}]
  /\ \A a \in Agents : pc[a] \in Writing => body[a] \in Bodies
  /\ todo \in [Agents -> SUBSET SafeUsers]
  /\ report \in [status : {"none", "applied", "refused"}, version : Nat]

Init ==
  /\ clock = 0 /\ faults = 0 /\ honest = FALSE
  /\ ca = NoFile /\ krl = NoFile /\ krlTmp = NoFile
  /\ principals = [u \in SafeUsers |-> NoFile]
  /\ state = Fresh
  /\ pc = [a \in Agents |-> "idle"]
  /\ root = [a \in Agents |-> NoKey]
  /\ loaded = [a \in Agents |-> Fresh]
  /\ body = [a \in Agents |-> NoFile]
  /\ next = [a \in Agents |-> Fresh]
  /\ todo = [a \in Agents |-> {}]
  /\ report = [status |-> "none", version |-> 0]

Goto(a, step) == pc' = [pc EXCEPT ![a] = step]

(* A pull that ends, well or not, forgets its locals.                      *)
Done(a) ==
  /\ Goto(a, "idle")
  /\ root' = [root EXCEPT ![a] = NoKey]
  /\ loaded' = [loaded EXCEPT ![a] = Fresh]
  /\ body' = [body EXCEPT ![a] = NoFile]
  /\ next' = [next EXCEPT ![a] = Fresh]
  /\ todo' = [todo EXCEPT ![a] = {}]

-----------------------------------------------------------------------------
(* agentPullWith: the state file is read and decides whether signatures    *)
(* are mandatory.  A root that differs from the saved one ends the pull.   *)

PinnedRoot(f) == IF f.root # NoKey THEN f.root ELSE state.root
Mandatory(f) == f.required \/ state.version > 0 \/ PinnedRoot(f) # NoKey
LegacyAllowedMutant(f) == ~ f.required /\ f.root = NoKey
LegacyAllowed(f) == ~ Mandatory(f)

Start(a, f) ==
  /\ pc[a] = "idle"
  /\ f.root = NoKey \/ state.root \in {NoKey, f.root}
  /\ \/ PinnedRoot(f) # NoKey /\ Goto(a, "pull")
     \/ LegacyAllowed(f) /\ Goto(a, "legacy")
  /\ root' = [root EXCEPT ![a] = PinnedRoot(f)]
  /\ loaded' = [loaded EXCEPT ![a] = state]
  /\ UNCHANGED <<env, files, state, body, next, todo, report>>

Accept(a, sp) ==
  /\ Verifies(sp, root[a], loaded[a], clock)
  /\ body' = [body EXCEPT ![a] = Served(sp).body]
  /\ next' = [next EXCEPT ![a] = NextState(sp, root[a], loaded[a], clock)]
  /\ Goto(a, "compile")
  /\ UNCHANGED <<root, loaded, todo, report>>

(* A bundle that offers no policy is not even reported.                    *)
Decline(a, sp) ==
  /\ ~ Verifies(sp, root[a], loaded[a], clock)
  /\ report' = IF Offered(sp)
               THEN [status |-> "refused", version |-> loaded[a].version]
               ELSE report
  /\ Done(a)

Receive(a, sp) ==
  /\ pc[a] = "pull"
  /\ honest => sp = Final
  /\ Accept(a, sp) \/ Decline(a, sp)
  /\ UNCHANGED <<env, files, state>>

(* getTrustedCA, getPrincipals and getKRL, none of them signed.            *)
ReceiveUnsigned(a, b) ==
  /\ pc[a] = "legacy"
  /\ body' = [body EXCEPT ![a] = b]
  /\ Goto(a, "compile")
  /\ UNCHANGED <<env, files, state, root, loaded, next, todo, report>>

-----------------------------------------------------------------------------
(* writeSSHFiles                                                           *)

Keeps(a) == UNCHANGED <<root, loaded, body, next>>

(* ssh-keygen compiles the list first; a bad one ends the pull.            *)
CompileAnyUserMutant(a) ==   \* mutant: login names are not vetted
  /\ pc[a] = "compile" /\ body[a].krlOK
  /\ krlTmp' = body[a]
  /\ todo' = [todo EXCEPT ![a] = body[a].users]
  /\ Goto(a, "principals")
  /\ Keeps(a)
  /\ UNCHANGED <<env, ca, krl, principals, state, report>>

Compile(a) ==
  /\ pc[a] = "compile"
  /\ \/ /\ body[a].krlOK
        /\ krlTmp' = body[a]
        /\ todo' = [todo EXCEPT ![a] = body[a].users \cap SafeUsers]
        /\ Goto(a, "principals")
        /\ Keeps(a)
     \/ /\ ~ body[a].krlOK
        /\ Done(a)
        /\ UNCHANGED krlTmp
  /\ UNCHANGED <<env, ca, krl, principals, state, report>>

(* Go ranges over the users in any order; nobody else's file is touched.   *)
WritePrincipalsEarlyMutant(a, u) ==   \* mutant: not only once the list has compiled
  /\ pc[a] \in {"compile", "principals"}
  /\ u \in body[a].users
  /\ principals' = [principals EXCEPT ![u] = body[a]]
  /\ todo' = [todo EXCEPT ![a] = @ \ {u}]
  /\ Keeps(a)
  /\ UNCHANGED <<env, ca, krl, krlTmp, state, pc, report>>

WritePrincipals(a, u) ==
  /\ pc[a] = "principals"
  /\ u \in todo[a]
  /\ principals' = [principals EXCEPT ![u] = body[a]]
  /\ todo' = [todo EXCEPT ![a] = @ \ {u}]
  /\ Keeps(a)
  /\ UNCHANGED <<env, ca, krl, krlTmp, state, pc, report>>

(* Mutant: the users' files are not waited for.                            *)
WriteCAMutant(a) ==
  /\ pc[a] = "principals"
  /\ ca' = body[a]
  /\ Goto(a, "rename")
  /\ UNCHANGED <<env, krl, krlTmp, principals, state, locals, report>>

WriteCA(a) ==
  /\ pc[a] = "principals"
  /\ todo[a] = {}
  /\ ca' = body[a]
  /\ Goto(a, "rename")
  /\ UNCHANGED <<env, krl, krlTmp, principals, state, locals, report>>

(* The rename fails when another process has already taken the file.  The  *)
(* unsigned path saves no state.                                           *)
RenameKRLMutant(a) ==   \* mutant: the compiled list is never put in place
  /\ pc[a] = "rename"
  /\ krlTmp # NoFile /\ root[a] # NoKey /\ Goto(a, "save")
  /\ UNCHANGED <<env, files, locals, state, report>>

RenameKRL(a) ==
  /\ pc[a] = "rename"
  /\ krl' = IF krlTmp = NoFile THEN krl ELSE krlTmp
  /\ krlTmp' = NoFile
  /\ \/ krlTmp # NoFile /\ root[a] # NoKey /\ Goto(a, "save") /\ UNCHANGED locals
     \/ (krlTmp = NoFile \/ root[a] = NoKey) /\ Done(a)
  /\ UNCHANGED <<env, ca, principals, state, report>>

(* savePolicyState, one rename.                                            *)
Save(a) ==
  /\ pc[a] = "save"
  /\ state' = next[a]
  /\ Goto(a, "report")
  /\ UNCHANGED <<env, files, locals, report>>

(* reportPolicyStatus.                                                     *)
Report(a) ==
  /\ pc[a] = "report"
  /\ report' = [status |-> "applied", version |-> next[a].version]
  /\ Done(a)
  /\ UNCHANGED <<env, files, state>>

(* The process is killed, a write fails, or a request does.                *)
Fault(a) ==
  /\ pc[a] # "idle"
  /\ faults < MaxFaults
  /\ faults' = faults + 1
  /\ Done(a)
  /\ UNCHANGED <<clock, honest, files, state, report>>

-----------------------------------------------------------------------------
TurnHonest ==
  /\ ~ honest /\ Final # NoBlob
  /\ honest' = TRUE
  /\ UNCHANGED <<clock, faults, files, state, pc, locals, report>>

Tick ==
  /\ clock < MaxClock
  /\ clock' = clock + 1
  /\ UNCHANGED <<honest, faults, files, state, pc, locals, report>>

Work(a) ==
  \/ \E sp \in Bundles : Receive(a, sp)
  \/ \E b \in Unsigned : ReceiveUnsigned(a, b)
  \/ Compile(a)
  \/ \E u \in SafeUsers : WritePrincipals(a, u)
  \/ WriteCA(a)
  \/ RenameKRL(a)
  \/ Save(a)
  \/ Report(a)

Next ==
  \/ \E a \in Agents, f \in Flags : Start(a, f)
  \/ \E a \in Agents : Work(a)
  \/ \E a \in Agents : Fault(a)
  \/ TurnHonest
  \/ Tick

Spec == Init /\ [][Next]_vars

(* cmdAgentRun never stops pulling; faults are finitely many by MaxFaults. *)
Fairness == \A a \in Agents : /\ WF_vars(Work(a))
                              /\ WF_vars(\E f \in Flags : Start(a, f))
FairSpec == Spec /\ Fairness
-----------------------------------------------------------------------------
(* Properties.                                                             *)

Signed(a) == root[a] # NoKey

SignersOf(b) ==
  {Served(sp).by : sp \in {s \in Bundles : Offered(s) /\ Served(s).body = b}}
DelegatedBy(r) ==
  {b.body.key : b \in {d \in UNION {sp.chain : sp \in Bundles} :
                         d.kind = "delegation" /\ d.by = r}}
ListsOf(r) ==
  {sp.revocations : sp \in {s \in Bundles : /\ s.revocations # NoBlob
                                           /\ s.revocations.by = r}}
(* The root signed a list of version v or newer that does not name k.  A   *)
(* newer list may drop a device that an older one named.                   *)
Cleared(k, r, v) ==
  v > 0 => \E l \in ListsOf(r) : l.body.version >= v /\ k \notin l.body.revoked

Extends(new, old) ==
  /\ new.version >= old.version /\ new.rev >= old.rev
  /\ old.root # NoKey => new.root = old.root
  /\ old.format = "account" => new.format = "account"

(* FloorMonotone: whatever a pull saves, the state file never loses what   *)
(* it knew: policy version and revocation version only grow, the root      *)
(* stays, and the account format is not left (policy.go nextState).        *)
FloorMonotone == [][Extends(state', state)]_vars

(* FilesAtLeastFloor: sshd's CA list and KRL are never older than the      *)
(* version the state file says was applied, after a crash between any two  *)
(* writes as well (main.go agentPullWith: files first, then state).        *)
FilesAtLeastFloor ==
  state.version > 0 =>
    /\ ca # NoFile /\ ca.version >= state.version
    /\ krl # NoFile /\ krl.version >= state.version

(* AppliedWhole: when the state is saved, and the dashboard told, every    *)
(* file the policy names holds that policy (main.go writeSSHFiles).        *)
AppliedWhole ==
  \A a \in Agents : pc[a] \in {"save", "report"} =>
    /\ ca = body[a] /\ krl = body[a]
    /\ \A u \in body[a].users \cap SafeUsers : principals[u] = body[a]

(* SignedForGood: once one signed policy has been applied, no file is ever *)
(* written from an unsigned answer, whatever flags later runs are given    *)
(* (main.go:260).                                                          *)
SignedForGood ==
  [][state.root # NoKey =>
       /\ ca' \in Unsigned => ca' = ca
       /\ krl' \in Unsigned => krl' = krl
       /\ \A u \in SafeUsers :
            principals'[u] \in Unsigned => principals'[u] = principals[u]]_vars

(* WrittenByTrusted: what a signed pull writes was signed by a device the  *)
(* pinned root delegated and that the saved revocation version, or a newer *)
(* list, clears: no other kind of signature of the root or of a freshness  *)
(* key gets there, and no older or stripped list brings back a device that *)
(* every list from the saved version on revokes (policy.go,                *)
(* account_policy.go).                                                     *)
WrittenByTrusted ==
  \A a \in Agents : pc[a] \in Writing /\ Signed(a) =>
    \E k \in SignersOf(body[a]) :
      k \in DelegatedBy(root[a]) /\ Cleared(k, root[a], state.rev)

(* WritesVetted: next to other processes on the directory, which may have  *)
(* saved anything meanwhile, the device is cleared by the version that the *)
(* pull itself is going to save (nextState against                         *)
(* verifyRootAndRevocations).                                              *)
WritesVetted ==
  \A a \in Agents : pc[a] \in Writing /\ Signed(a) =>
    \E k \in SignersOf(body[a]) :
      k \in DelegatedBy(root[a]) /\ Cleared(k, root[a], next[a].rev)

(* SavesExtend: a pull saves no older versions than it loaded, and keeps   *)
(* root and format: all that processes on one directory can lose is what   *)
(* another one saved in between (main.go:266 and 289, nextState).          *)
SavesExtend == [][\A a \in Agents : Save(a) => Extends(state', loaded[a])]_vars

(* NothingOfBadPolicy: of a policy whose revocation list does not compile  *)
(* nothing reaches sshd, whatever other processes are writing: neither CA, *)
(* list nor any user's file (main.go writeSSHFiles).                       *)
NothingOfBadPolicy ==
  \A f \in {ca, krl} \cup {principals[u] : u \in SafeUsers} : f # NoFile => f.krlOK

(* VouchingBounded: no freshness statement keeps a policy alive for more   *)
(* than the window, however far in the future it says it expires           *)
(* (account_policy.go:40).                                                 *)
VouchingBounded ==
  \A a \in Agents : pc[a] \in Writing /\ Signed(a) =>
    \/ next[a].until <= body[a].expires
    \/ next[a].until <= clock + FreshnessClockSkew + FreshnessWindow

FilesAre(b) ==
  /\ ca = b /\ krl = b
  /\ \A u \in b.users \cap SafeUsers : principals[u] = b

(* CatchesUp: once the server is honest, whatever it served before and     *)
(* wherever a pull was interrupted, sshd's files become the newest policy, *)
(* stay it, and the dashboard goes on hearing so (main.go cmdAgentRun).    *)
CatchesUp ==
  <>honest => <>[](/\ FilesAre(Served(Final).body)
                   /\ report = [status |-> "applied",
                                version |-> Served(Final).body.version])
=============================================================================
