-------------------------- MODULE PolicyAgentProofs --------------------------
(***************************************************************************)
(* Theorems about PolicyAgent, for every set of bundles a server can       *)
(* assemble, every command line and every number of faults; those that     *)
(* relate the files to the state need one process per output directory.    *)
(***************************************************************************)
EXTENDS PolicyAgent, TLAPS

(* What is handed from step to step of a pull: the state file is the one   *)
(* it loaded, what it will save extends it, and the files hold its body as *)
(* far as it has come.                                                     *)
Loaded(a) == pc[a] \notin {"idle", "report"} => loaded[a] = state
RootKept(a) ==
  pc[a] \notin {"idle", "legacy"} /\ root[a] # NoKey =>
    state.root \in {NoKey, root[a]}
PullSigned(a) ==
  /\ pc[a] = "pull" => root[a] # NoKey
  /\ pc[a] = "legacy" => root[a] = NoKey
UnsignedOnlyFresh(a) ==
  pc[a] \in Writing \cup {"legacy"} /\ root[a] = NoKey =>
    state.version = 0 /\ state.root = NoKey
WritesNext(a) ==
  pc[a] \in Writing /\ root[a] # NoKey =>
    /\ body[a] \in SignedBodies
    /\ next[a].version = body[a].version
    /\ next[a].root = root[a]
    /\ Extends(next[a], state)
SaveSigned(a) == pc[a] = "save" => root[a] # NoKey
Compiled(a) == pc[a] \in {"principals", "rename"} => krlTmp = body[a]
CAWritten(a) == pc[a] \in {"rename", "save"} => ca = body[a]
KRLWritten(a) == pc[a] = "save" => krl = body[a]

PullInv(a) ==
  /\ Loaded(a) /\ RootKept(a) /\ PullSigned(a) /\ UnsignedOnlyFresh(a)
  /\ WritesNext(a) /\ SaveSigned(a)
  /\ Compiled(a) /\ CAWritten(a) /\ KRLWritten(a)

IInv == TypeOK /\ (\A a \in Agents : PullInv(a)) /\ FilesAtLeastFloor

(* One process uses the output directory.                                  *)
OneAgent == \A a, b \in Agents : a = b

-----------------------------------------------------------------------------
(* Lemmas about what the verifier returns.                                 *)

(* GoodUntilType: the expiry granted to a policy is a time.                *)
LEMMA GoodUntilType ==
  ASSUME NEW sp \in Bundles, NEW now \in Nat, Offered(sp)
  PROVE  GoodUntil(sp, now) \in Nat
<1> DEFINE p == Served(sp).body
<1>1. p \in SignedBodies BY DEF SignedBodies
<1>2. p.expires \in Nat BY <1>1, BodiesAssumption DEF Bodies
<1>3. CASE Vouches(sp, p, now)
  <2>1. VouchedUntil(sp.freshness.body) \in Nat
    BY <1>3, BundlesAssumption, FreshnessAssumption DEF Vouches, VouchedUntil
  <2> QED BY <1>2, <2>1 DEF GoodUntil
<1>4. CASE ~ Vouches(sp, p, now) BY <1>2, <1>4 DEF GoodUntil
<1> QED BY <1>3, <1>4

(* AcceptedExtends: what a verified bundle makes the agent save is a state *)
(* and loses nothing of the state it was verified against (nextState).     *)
LEMMA AcceptedExtends ==
  ASSUME NEW sp \in Bundles, NEW r \in Roots, NEW st \in StateType, NEW now \in Nat,
         Verifies(sp, r, st, now), st.root \in {NoKey, r}
  PROVE  /\ Served(sp).body \in SignedBodies
         /\ NextState(sp, r, st, now) \in StateType
         /\ NextState(sp, r, st, now).version = Served(sp).body.version
         /\ NextState(sp, r, st, now).root = r
         /\ Extends(NextState(sp, r, st, now), st)
<1> DEFINE p == Served(sp).body
           ns == NextState(sp, r, st, now)
<1>1. Offered(sp) /\ NoDowngrade(sp, st) /\ SignerTrusted(sp, r, st, now)
      /\ NotReplayed(p, st)
  BY DEF Verifies
<1>2. p \in SignedBodies BY <1>1 DEF SignedBodies
<1>3. p.version \in Nat BY <1>2, BodiesAssumption DEF Bodies
<1>4. GoodUntil(sp, now) \in Nat BY <1>1, GoodUntilType
<1>5. ns.rev \in Nat /\ ns.rev >= st.rev
  <2>1. CASE sp.revocations = NoBlob BY <2>1 DEF NextState, StateType
  <2>2. CASE sp.revocations # NoBlob
    BY <1>1, <2>2, BundlesAssumption
    DEF SignerTrusted, RevocationsAccepted, NotOlder, NextState
  <2> QED BY <2>1, <2>2
<1>6. ns.format \in Formats /\ (st.format = "account" => ns.format = "account")
  BY DEF NextState, StateType, Formats
<1>7. ns.root = r /\ ns.version = p.version /\ ns.until = GoodUntil(sp, now)
  BY DEF NextState
<1>8. ns = [root |-> r, version |-> p.version, rev |-> ns.rev,
            until |-> GoodUntil(sp, now), format |-> ns.format]
  BY DEF NextState
<1>9. ns \in StateType BY <1>3, <1>4, <1>5, <1>6, <1>8 DEF StateType
<1>10. ns.version >= st.version BY <1>1, <1>3, <1>7 DEF NotReplayed, StateType
<1>11. Extends(ns, st) BY <1>5, <1>6, <1>7, <1>10 DEF Extends
<1> QED BY <1>2, <1>7, <1>9, <1>11

LEMMA FreshType == Fresh \in StateType
BY DEF Fresh, StateType, Roots, Formats

-----------------------------------------------------------------------------
(* Type correctness.                                                       *)

LEMMA InitTypeOK == Init => TypeOK
<1>1. NoKey \in Roots BY DEF Roots
<1> SUFFICES ASSUME Init PROVE TypeOK OBVIOUS
<1>2. \A a \in Agents : pc[a] = "idle" BY DEF Init
<1>3. report \in [status : {"none", "applied", "refused"}, version : Nat] BY DEF Init
<1>4. pc \in [Agents -> Steps] /\ todo \in [Agents -> SUBSET SafeUsers] BY DEF Init, Steps
<1> QED BY <1>1, <1>2, <1>3, <1>4, FreshType DEF Init, TypeOK, Writing

(* DoneType: forgetting the locals of a pull keeps them well formed.       *)
LEMMA DoneType ==
  ASSUME TypeOK, NEW a \in Agents, Done(a)
  PROVE  /\ pc' \in [Agents -> Steps]
         /\ root' \in [Agents -> Roots]
         /\ loaded' \in [Agents -> StateType] /\ next' \in [Agents -> StateType]
         /\ body' \in [Agents -> Bodies \cup {NoFile}]
         /\ \A b \in Agents : pc'[b] \in Writing => body'[b] \in Bodies
         /\ todo' \in [Agents -> SUBSET SafeUsers]
BY FreshType DEF TypeOK, Done, Goto, Steps, Writing, Roots

LEMMA ReceiveType ==
  ASSUME TypeOK, NEW a \in Agents, NEW sp \in Bundles, Receive(a, sp),
         loaded[a].root \in {NoKey, root[a]}
  PROVE  TypeOK'
<1>1. CASE Accept(a, sp)
  <2> DEFINE ns == NextState(sp, root[a], loaded[a], clock)
  <2>1. root[a] \in Roots /\ loaded[a] \in StateType /\ clock \in Nat BY DEF TypeOK
  <2>2. Verifies(sp, root[a], loaded[a], clock) BY <1>1 DEF Accept
  <2>3. ns \in StateType /\ Served(sp).body \in Bodies
    BY <2>1, <2>2, AcceptedExtends DEF Bodies
  <2> QED BY <1>1, <2>3 DEF TypeOK, Receive, Accept, Goto, Steps, Writing, env, files
<1>2. CASE Decline(a, sp)
  <2>1. loaded[a].version \in Nat BY DEF TypeOK, StateType
  <2>2. report' \in [status : {"none", "applied", "refused"}, version : Nat]
    BY <1>2, <2>1 DEF Decline, TypeOK
  <2> QED BY <1>2, <2>2, DoneType DEF TypeOK, Receive, Decline, env, files
<1> QED BY <1>1, <1>2 DEF Receive

(* RootLoaded: a pull verifies against the root of the state it loaded, if *)
(* that has one; an unsigned one has no root.                              *)
RootLoaded(a) ==
  /\ pc[a] = "pull" => root[a] # NoKey /\ loaded[a].root \in {NoKey, root[a]}
  /\ pc[a] = "legacy" => root[a] = NoKey

(* StepTypeOK: every step keeps the types, whatever other processes did to *)
(* the state file since it was loaded.                                     *)
LEMMA StepTypeOK ==
  ASSUME TypeOK, [Next]_vars, \A a \in Agents : RootLoaded(a)
  PROVE  TypeOK'
<1>1. CASE UNCHANGED vars BY <1>1 DEF TypeOK, vars, env, files, locals
<1>2. ASSUME NEW a \in Agents, NEW f \in Flags, Start(a, f) PROVE TypeOK'
  <2>1. PinnedRoot(f) \in Roots BY DEF PinnedRoot, Roots, TypeOK, StateType
  <2> QED BY <1>2, <2>1 DEF TypeOK, Start, Goto, Steps, Writing, env, files
<1>3. ASSUME NEW a \in Agents, NEW sp \in Bundles, Receive(a, sp) PROVE TypeOK'
  BY <1>3, ReceiveType DEF Receive, RootLoaded
<1>4. ASSUME NEW a \in Agents, NEW b \in Unsigned, ReceiveUnsigned(a, b) PROVE TypeOK'
  BY <1>4 DEF TypeOK, ReceiveUnsigned, Goto, Steps, Writing, env, files, Bodies
<1>5. ASSUME NEW a \in Agents, Compile(a) PROVE TypeOK'
  <2>1. CASE body[a].krlOK /\ Goto(a, "principals")
    BY <1>5, <2>1 DEF TypeOK, Compile, Goto, Keeps, Steps, Writing, env
  <2>2. CASE Done(a)
    BY <1>5, <2>2, DoneType DEF TypeOK, Compile, Keeps, env
  <2> QED BY <1>5, <2>1, <2>2 DEF Compile
<1>6. ASSUME NEW a \in Agents, NEW u \in SafeUsers, WritePrincipals(a, u) PROVE TypeOK'
  BY <1>6 DEF TypeOK, WritePrincipals, Keeps, Steps, Writing, env
<1>7. ASSUME NEW a \in Agents, WriteCA(a) PROVE TypeOK'
  BY <1>7 DEF TypeOK, WriteCA, Goto, Steps, Writing, env, locals
<1>8. ASSUME NEW a \in Agents, RenameKRL(a) PROVE TypeOK'
  <2>1. CASE Goto(a, "save") /\ UNCHANGED locals
    BY <1>8, <2>1 DEF TypeOK, RenameKRL, Goto, Steps, Writing, env, locals
  <2>2. CASE Done(a)
    BY <1>8, <2>2, DoneType DEF TypeOK, RenameKRL, env
  <2> QED BY <1>8, <2>1, <2>2 DEF RenameKRL
<1>9. ASSUME NEW a \in Agents, Save(a) PROVE TypeOK'
  BY <1>9 DEF TypeOK, Save, Goto, Steps, Writing, env, files, locals
<1>10. ASSUME NEW a \in Agents, Report(a) PROVE TypeOK'
  <2>1. next[a].version \in Nat BY DEF TypeOK, StateType
  <2> QED BY <1>10, <2>1, DoneType DEF TypeOK, Report, env, files
<1>11. ASSUME NEW a \in Agents, Fault(a) PROVE TypeOK'
  BY <1>11, DoneType DEF TypeOK, Fault, files
<1>12. CASE TurnHonest BY <1>12 DEF TypeOK, TurnHonest, files, locals
<1>13. CASE Tick BY <1>13 DEF TypeOK, Tick, files, locals
<1> QED
  BY <1>1, <1>2, <1>3, <1>4, <1>5, <1>6, <1>7, <1>8, <1>9, <1>10, <1>11, <1>12, <1>13
  DEF Next, Work

(* MovesOnly: a step works on the locals of one process only.              *)
Same(b) == UNCHANGED <<pc[b], root[b], loaded[b], body[b], next[b]>>

LEMMA MovesOnly ==
  ASSUME TypeOK, NEW a \in Agents,
         Work(a) \/ Fault(a) \/ \E f \in Flags : Start(a, f)
  PROVE  \A b \in Agents \ {a} : Same(b)
<1>1. ASSUME Done(a) PROVE \A b \in Agents \ {a} : Same(b) BY <1>1 DEF Done, Goto, Same, TypeOK
<1>2. ASSUME NEW f \in Flags, Start(a, f) PROVE \A b \in Agents \ {a} : Same(b)
  BY <1>2 DEF Start, Goto, Same, TypeOK
<1>3. ASSUME NEW sp \in Bundles, Receive(a, sp) PROVE \A b \in Agents \ {a} : Same(b)
  BY <1>1, <1>3 DEF Receive, Accept, Decline, Goto, Same, TypeOK
<1>4. ASSUME NEW b \in Unsigned, ReceiveUnsigned(a, b) PROVE \A c \in Agents \ {a} : Same(c)
  BY <1>4 DEF ReceiveUnsigned, Goto, Same, TypeOK
<1>5. ASSUME Compile(a) PROVE \A b \in Agents \ {a} : Same(b)
  BY <1>1, <1>5 DEF Compile, Keeps, Goto, Same, TypeOK
<1>6. ASSUME NEW u \in SafeUsers, WritePrincipals(a, u) PROVE \A b \in Agents \ {a} : Same(b)
  BY <1>6 DEF WritePrincipals, Keeps, Same
<1>7. ASSUME WriteCA(a) \/ RenameKRL(a) \/ Save(a) PROVE \A b \in Agents \ {a} : Same(b)
  BY <1>1, <1>7 DEF WriteCA, RenameKRL, Save, Goto, Same, locals, TypeOK
<1>8. ASSUME Report(a) \/ Fault(a) PROVE \A b \in Agents \ {a} : Same(b)
  BY <1>1, <1>8 DEF Report, Fault
<1> QED BY <1>2, <1>3, <1>4, <1>5, <1>6, <1>7, <1>8 DEF Work

(* Typed: what holds for any number of processes on one directory.         *)
Typed == TypeOK /\ \A a \in Agents : RootLoaded(a)

LEMMA StepTyped == ASSUME Typed, [Next]_vars PROVE Typed'
<1> USE DEF Typed
<1>1. TypeOK' BY StepTypeOK
<1>2. ASSUME NEW a \in Agents, NEW f \in Flags, Start(a, f) PROVE RootLoaded(a)'
  <2>1. /\ pc'[a] \in {"pull", "legacy"} /\ loaded'[a] = state /\ root'[a] = PinnedRoot(f)
        /\ pc'[a] = "pull" => PinnedRoot(f) # NoKey
        /\ pc'[a] = "legacy" => PinnedRoot(f) = NoKey
    BY <1>2 DEF Start, Goto, TypeOK, LegacyAllowed, Mandatory
  <2>2. state.root \in {NoKey, PinnedRoot(f)} BY <1>2 DEF Start, PinnedRoot
  <2> QED BY <2>1, <2>2 DEF RootLoaded
<1>3. ASSUME NEW a \in Agents, Work(a) \/ Fault(a) PROVE pc'[a] \notin {"pull", "legacy"}
  <2>1. Done(a) => pc'[a] = "idle" BY DEF Done, Goto, TypeOK
  <2> QED
    BY <1>3, <2>1
    DEF Work, Fault, Receive, Accept, Decline, ReceiveUnsigned, Compile, WritePrincipals,
        WriteCA, RenameKRL, Save, Report, Goto, TypeOK
<1>4. ASSUME NEW a \in Agents,
             Work(a) \/ Fault(a) \/ \E f \in Flags : Start(a, f)
      PROVE  \A b \in Agents : RootLoaded(b)'
  <2>1. \A b \in Agents \ {a} : RootLoaded(b)' BY <1>4, MovesOnly DEF Same, RootLoaded
  <2>2. RootLoaded(a)' BY <1>2, <1>3, <1>4 DEF RootLoaded
  <2> QED BY <2>1, <2>2
<1>5. CASE TurnHonest \/ Tick \/ UNCHANGED vars
  BY <1>1, <1>5 DEF TurnHonest, Tick, vars, locals, RootLoaded
<1> QED BY <1>1, <1>4, <1>5 DEF Next

LEMMA TypedAlways == Spec => []Typed
<1>1. Init => Typed
  <2> SUFFICES ASSUME Init PROVE Typed OBVIOUS
  <2>1. \A a \in Agents : pc[a] = "idle" BY DEF Init
  <2> QED BY <2>1, InitTypeOK DEF Typed, RootLoaded
<1>2. Typed /\ [Next]_vars => Typed' BY StepTyped
<1> QED BY <1>1, <1>2, PTL DEF Spec

-----------------------------------------------------------------------------
(* The inductive invariant.                                                *)

LEMMA InitIInv == Init => IInv
<1> SUFFICES ASSUME Init PROVE IInv OBVIOUS
<1>1. TypeOK BY InitTypeOK
<1>2. \A a \in Agents : pc[a] = "idle" BY DEF Init
<1>3. \A a \in Agents : PullInv(a)
  BY <1>2 DEF PullInv, Loaded, RootKept, PullSigned, UnsignedOnlyFresh, WritesNext,
              SaveSigned, Compiled, CAWritten, KRLWritten, Writing
<1>4. FilesAtLeastFloor BY DEF Init, Fresh, FilesAtLeastFloor
<1> QED BY <1>1, <1>3, <1>4 DEF IInv

(* IdleInv: a process that is idle, or about to report, promises nothing.  *)
LEMMA IdleInv ==
  ASSUME NEW a, pc[a] = "idle"
  PROVE  PullInv(a)
BY DEF PullInv, Loaded, RootKept, PullSigned, UnsignedOnlyFresh, WritesNext,
       SaveSigned, Compiled, CAWritten, KRLWritten, Writing

LEMMA DoneIdle ==
  ASSUME TypeOK, NEW a \in Agents, Done(a)
  PROVE  PullInv(a)'
<1>1. pc'[a] = "idle" BY DEF Done, Goto, TypeOK
<1> QED BY <1>1
  DEF PullInv, Loaded, RootKept, PullSigned, UnsignedOnlyFresh, WritesNext,
      SaveSigned, Compiled, CAWritten, KRLWritten, Writing

(* StepIInv: one case per action.  There is one process, so the acting one *)
(* is the only one whose promises are at stake.                            *)
LEMMA StepIInv ==
  ASSUME OneAgent, IInv, [Next]_vars
  PROVE  IInv'
<1> USE DEF IInv
<1> DEFINE Others == \A b \in Agents : PullInv(b)'
<1>0. TypeOK'
  BY StepTypeOK DEF PullInv, Loaded, RootKept, PullSigned, RootLoaded
<1>1. ASSUME NEW a \in Agents, PullInv(a)' PROVE Others BY <1>1 DEF OneAgent
<1>2. CASE UNCHANGED vars
  <2>1. Others
    BY <1>2 DEF vars, env, files, locals, PullInv, Loaded, RootKept, PullSigned,
       UnsignedOnlyFresh, WritesNext, SaveSigned, Compiled, CAWritten, KRLWritten
  <2> QED BY <1>0, <1>2, <2>1 DEF vars, env, files, FilesAtLeastFloor
<1>3. ASSUME NEW a \in Agents, NEW f \in Flags, Start(a, f) PROVE IInv'
  <2>1. pc'[a] \in {"pull", "legacy"} /\ loaded'[a] = state' /\ root'[a] = PinnedRoot(f)
        /\ state' = state
    BY <1>3 DEF Start, Goto, TypeOK
  <2>2. pc'[a] = "pull" => PinnedRoot(f) # NoKey /\ state.root \in {NoKey, PinnedRoot(f)}
    BY <1>3 DEF Start, Goto, TypeOK, PinnedRoot
  <2>3. pc'[a] = "legacy" =>
          PinnedRoot(f) = NoKey /\ state.version = 0 /\ state.root = NoKey
    <3>1. state.version \in Nat BY DEF TypeOK, StateType
    <3> QED BY <1>3, <3>1 DEF Start, Goto, TypeOK, LegacyAllowed, Mandatory, PinnedRoot
  <2>4. PullInv(a)'
    BY <2>1, <2>2, <2>3
    DEF PullInv, Loaded, RootKept, PullSigned, UnsignedOnlyFresh, WritesNext,
        SaveSigned, Compiled, CAWritten, KRLWritten, Writing
  <2> QED BY <1>0, <1>1, <1>3, <2>4 DEF Start, files, FilesAtLeastFloor
<1>4. ASSUME NEW a \in Agents, NEW sp \in Bundles, Receive(a, sp) PROVE IInv'
  <2>1. CASE Accept(a, sp)
    <3> DEFINE ns == NextState(sp, root[a], loaded[a], clock)
    <3>1. root[a] \in Roots /\ root[a] # NoKey /\ loaded[a] = state
          /\ state \in StateType /\ clock \in Nat /\ state.root \in {NoKey, root[a]}
      BY <1>4 DEF Receive, TypeOK, PullInv, PullSigned, Loaded, RootKept
    <3>2. /\ Served(sp).body \in SignedBodies
          /\ ns.version = Served(sp).body.version /\ ns.root = root[a]
          /\ Extends(ns, state)
      BY <2>1, <3>1, AcceptedExtends DEF Accept
    <3>3. /\ pc'[a] = "compile" /\ body'[a] = Served(sp).body /\ next'[a] = ns
          /\ root' = root /\ loaded' = loaded /\ state' = state
      BY <1>4, <2>1 DEF Receive, Accept, Goto, TypeOK
    <3>4. PullInv(a)'
      BY <3>1, <3>2, <3>3
      DEF PullInv, Loaded, RootKept, PullSigned, UnsignedOnlyFresh, WritesNext,
          SaveSigned, Compiled, CAWritten, KRLWritten, Writing
    <3> QED BY <1>0, <1>1, <1>4, <3>4 DEF Receive, files, FilesAtLeastFloor
  <2>2. CASE Decline(a, sp)
    <3>1. PullInv(a)' BY <2>2, DoneIdle DEF Decline
    <3> QED BY <1>0, <1>1, <1>4, <3>1 DEF Receive, files, FilesAtLeastFloor
  <2> QED BY <1>4, <2>1, <2>2 DEF Receive
<1>5. ASSUME NEW a \in Agents, NEW b \in Unsigned, ReceiveUnsigned(a, b) PROVE IInv'
  <2>1. PullInv(a)'
    BY <1>5
    DEF ReceiveUnsigned, Goto, TypeOK, files, PullInv, Loaded, RootKept, PullSigned,
        UnsignedOnlyFresh, WritesNext, SaveSigned, Compiled, CAWritten, KRLWritten, Writing
  <2> QED BY <1>0, <1>1, <1>5, <2>1 DEF ReceiveUnsigned, files, FilesAtLeastFloor
<1>6. ASSUME NEW a \in Agents, Compile(a) PROVE IInv'
  <2>1. CASE Done(a)
    <3>1. PullInv(a)' BY <2>1, DoneIdle
    <3> QED BY <1>0, <1>1, <1>6, <3>1 DEF Compile, FilesAtLeastFloor
  <2>2. CASE ~ Done(a)
    <3>1. PullInv(a)'
      BY <1>6, <2>2
      DEF Compile, Keeps, Goto, TypeOK, PullInv, Loaded, RootKept, PullSigned,
          UnsignedOnlyFresh, WritesNext, SaveSigned, Compiled, CAWritten, KRLWritten, Writing
    <3> QED BY <1>0, <1>1, <1>6, <3>1 DEF Compile, FilesAtLeastFloor
  <2> QED BY <2>1, <2>2
<1>7. ASSUME NEW a \in Agents, NEW u \in SafeUsers, WritePrincipals(a, u) PROVE IInv'
  <2>1. PullInv(a)'
    BY <1>7
    DEF WritePrincipals, Keeps, PullInv, Loaded, RootKept, PullSigned,
        UnsignedOnlyFresh, WritesNext, SaveSigned, Compiled, CAWritten, KRLWritten, Writing
  <2> QED BY <1>0, <1>1, <1>7, <2>1 DEF WritePrincipals, FilesAtLeastFloor
<1>8. ASSUME NEW a \in Agents, WriteCA(a) PROVE IInv'
  <2>1. PullInv(a)'
    BY <1>8
    DEF WriteCA, Goto, locals, TypeOK, PullInv, Loaded, RootKept, PullSigned,
        UnsignedOnlyFresh, WritesNext, SaveSigned, Compiled, CAWritten, KRLWritten, Writing
  <2>2. body[a] \in Bodies /\ body[a] # NoFile /\ body[a].version \in Nat
    BY <1>8, BodiesAssumption DEF WriteCA, TypeOK, Writing
  <2>3. state.version > 0 => body[a].version >= state.version
    BY <1>8
    DEF WriteCA, TypeOK, StateType, PullInv, UnsignedOnlyFresh, WritesNext, Extends, Writing
  <2>4. FilesAtLeastFloor' BY <1>8, <2>2, <2>3 DEF WriteCA, FilesAtLeastFloor
  <2> QED BY <1>0, <1>1, <2>1, <2>4
<1>9. ASSUME NEW a \in Agents, RenameKRL(a) PROVE IInv'
  <2>1. krlTmp = body[a] /\ body[a] \in Bodies /\ body[a] # NoFile
        /\ body[a].version \in Nat
    BY <1>9, BodiesAssumption DEF RenameKRL, TypeOK, Writing, PullInv, Compiled
  <2>2. state.version > 0 => body[a].version >= state.version
    BY <1>9
    DEF RenameKRL, TypeOK, StateType, PullInv, UnsignedOnlyFresh, WritesNext, Extends, Writing
  <2>3. FilesAtLeastFloor' BY <1>9, <2>1, <2>2 DEF RenameKRL, FilesAtLeastFloor
  <2>4. CASE Done(a)
    <3>1. PullInv(a)' BY <2>4, DoneIdle
    <3> QED BY <1>0, <1>1, <2>3, <3>1
  <2>5. CASE ~ Done(a)
    <3>1. PullInv(a)'
      BY <1>9, <2>1, <2>5
      DEF RenameKRL, Goto, locals, TypeOK, PullInv, Loaded, RootKept, PullSigned,
          UnsignedOnlyFresh, WritesNext, SaveSigned, Compiled, CAWritten, KRLWritten, Writing
    <3> QED BY <1>0, <1>1, <2>3, <3>1
  <2> QED BY <2>4, <2>5
<1>10. ASSUME NEW a \in Agents, Save(a) PROVE IInv'
  <2>1. pc'[a] = "report" BY <1>10 DEF Save, Goto, TypeOK
  <2>2. PullInv(a)'
    <3>1. root' = root /\ state'.root \in {NoKey, root[a]}
      BY <1>10 DEF Save, locals, PullInv, RootKept, WritesNext, SaveSigned, Extends, Writing
    <3> QED BY <2>1, <3>1
      DEF PullInv, Loaded, RootKept, PullSigned, UnsignedOnlyFresh, WritesNext,
          SaveSigned, Compiled, CAWritten, KRLWritten, Writing
  <2>3. FilesAtLeastFloor'
    <3>1. body[a] \in Bodies /\ body[a] # NoFile /\ body[a].version \in Nat
      BY <1>10, BodiesAssumption DEF Save, TypeOK, Writing
    <3>2. ca = body[a] /\ krl = body[a] /\ next[a].version = body[a].version
      BY <1>10 DEF Save, PullInv, CAWritten, KRLWritten, WritesNext, SaveSigned, Writing
    <3> QED BY <1>10, <3>1, <3>2 DEF Save, files, FilesAtLeastFloor
  <2> QED BY <1>0, <1>1, <2>2, <2>3
<1>11. ASSUME NEW a \in Agents, Report(a) PROVE IInv'
  <2>1. PullInv(a)' BY <1>11, DoneIdle DEF Report
  <2> QED BY <1>0, <1>1, <1>11, <2>1 DEF Report, files, FilesAtLeastFloor
<1>12. ASSUME NEW a \in Agents, Fault(a) PROVE IInv'
  <2>1. PullInv(a)' BY <1>12, DoneIdle DEF Fault
  <2> QED BY <1>0, <1>1, <1>12, <2>1 DEF Fault, files, FilesAtLeastFloor
<1>13. CASE TurnHonest \/ Tick
  <2>1. UNCHANGED <<files, state, pc, locals>> BY <1>13 DEF TurnHonest, Tick
  <2>2. Others
    BY <2>1
    DEF files, locals, PullInv, Loaded, RootKept, PullSigned, UnsignedOnlyFresh,
        WritesNext, SaveSigned, Compiled, CAWritten, KRLWritten
  <2> QED BY <1>0, <2>1, <2>2 DEF files, FilesAtLeastFloor
<1> QED
  BY <1>2, <1>3, <1>4, <1>5, <1>6, <1>7, <1>8, <1>9, <1>10, <1>11, <1>12, <1>13
  DEF Next, Work

LEMMA Inductive == ASSUME OneAgent PROVE Spec => []IInv
<1>1. Init => IInv BY InitIInv
<1>2. IInv /\ [Next]_vars => IInv' BY StepIInv
<1> QED BY <1>1, <1>2, PTL DEF Spec

-----------------------------------------------------------------------------
(* Theorems.                                                               *)

(* AgentTypeCorrect: the files, the state file and the locals of a pull    *)
(* stay well formed, whatever the server sends and however many processes  *)
(* share the directory (TypeOK).                                           *)
THEOREM AgentTypeCorrect == Spec => []TypeOK
<1>1. Typed => TypeOK BY DEF Typed
<1> QED BY <1>1, TypedAlways, PTL

(* AgentFilesAtLeastFloor: sshd's CA list and KRL are at least as new as   *)
(* the state file says, wherever a pull was interrupted (files first, then *)
(* state, in main.go agentPullWith).                                       *)
THEOREM AgentFilesAtLeastFloor == ASSUME OneAgent PROVE Spec => []FilesAtLeastFloor
<1>1. IInv => FilesAtLeastFloor BY DEF IInv
<1> QED BY <1>1, Inductive, PTL

(* OnlySaveWritesState: no other step touches the state file.              *)
LEMMA OnlySaveWritesState ==
  ASSUME [Next]_vars, state' # state
  PROVE  \E a \in Agents : Save(a)
BY DEF Next, Work, vars, Start, Receive, ReceiveUnsigned, Compile, WritePrincipals,
       WriteCA, RenameKRL, Report, Fault, TurnHonest, Tick

(* AgentFloorMonotone: policy version and revocation version never go      *)
(* back, the root and the account format are never given up (FloorMonotone,*)
(* policy.go nextState against verifySignedPolicy's checks).               *)
THEOREM AgentFloorMonotone == ASSUME OneAgent PROVE Spec => FloorMonotone
<1> DEFINE Kept == Extends(state', state)
<1>1. IInv /\ [Next]_vars => [Kept]_vars
  <2> SUFFICES ASSUME IInv, [Next]_vars PROVE Kept OBVIOUS
  <2>1. CASE state' = state BY <2>1 DEF IInv, TypeOK, StateType, Extends
  <2>2. CASE state' # state
    <3>1. PICK a \in Agents : Save(a) BY <2>2, OnlySaveWritesState
    <3>2. Extends(next[a], state)
      BY <3>1 DEF IInv, Save, PullInv, WritesNext, SaveSigned, Writing
    <3> QED BY <3>1, <3>2 DEF Save, Extends
  <2> QED BY <2>1, <2>2
<1> QED BY <1>1, Inductive, PTL DEF Spec, FloorMonotone

(* AgentSignedForGood: once the state file names a root, no file of sshd's *)
(* is written from an unsigned answer (SignedForGood, main.go:260).        *)
THEOREM AgentSignedForGood == ASSUME OneAgent PROVE Spec => SignedForGood
<1> DEFINE Kept == state.root # NoKey =>
                     /\ ca' \in Unsigned => ca' = ca
                     /\ krl' \in Unsigned => krl' = krl
                     /\ \A u \in SafeUsers :
                          principals'[u] \in Unsigned => principals'[u] = principals[u]
<1>1. IInv /\ [Next]_vars => [Kept]_vars
  <2> SUFFICES ASSUME IInv, [Next]_vars, state.root # NoKey PROVE Kept OBVIOUS
  <2>1. ASSUME NEW a \in Agents, pc[a] \in Writing PROVE body[a] \notin Unsigned
    BY <2>1, BodiesAssumption DEF IInv, PullInv, UnsignedOnlyFresh, WritesNext
  <2>2. ASSUME NEW a \in Agents, NEW u \in SafeUsers, WritePrincipals(a, u) PROVE Kept
    BY <2>1, <2>2 DEF WritePrincipals, Writing, IInv, TypeOK
  <2>3. ASSUME NEW a \in Agents, WriteCA(a) PROVE Kept
    BY <2>1, <2>3 DEF WriteCA, Writing
  <2>4. ASSUME NEW a \in Agents, RenameKRL(a) PROVE Kept
    BY <2>1, <2>4 DEF RenameKRL, Writing, IInv, PullInv, Compiled
  <2>5. CASE UNCHANGED <<ca, krl, principals>> BY <2>5
  <2> QED BY <2>2, <2>3, <2>4, <2>5
    DEF Next, Work, vars, files, Start, Receive, ReceiveUnsigned, Compile, Save,
        Report, Fault, TurnHonest, Tick
<1> QED BY <1>1, Inductive, PTL DEF Spec, SignedForGood

-----------------------------------------------------------------------------
(* SignerVetted: the device whose policy verifies is delegated by the      *)
(* pinned root, and the revocation version to be saved clears it: the list *)
(* shown is that version.                                                  *)
LEMMA SignerVetted ==
  ASSUME NEW sp \in Bundles, NEW r \in Roots, NEW st \in StateType,
         NEW now \in Nat, Verifies(sp, r, st, now)
  PROVE  /\ sp.signer \in SignersOf(Served(sp).body)
         /\ sp.signer \in DelegatedBy(r)
         /\ Cleared(sp.signer, r, NextState(sp, r, st, now).rev)
<1> DEFINE rev == NextState(sp, r, st, now).rev
<1>1. /\ Offered(sp) /\ sp.root = r /\ RevocationsAccepted(sp, st)
      /\ sp.signer \notin Revoked(sp) /\ ChainOpens(sp) /\ LiveAccounts(sp, now) # {}
      /\ Served(sp).by = sp.signer
  BY DEF Verifies, SignerTrusted, RootPinned, Opens
<1>2. sp.signer \in SignersOf(Served(sp).body) BY <1>1 DEF SignersOf
<1>3. sp.signer \in DelegatedBy(r)
  <2>1. PICK d \in sp.chain : d.body.key = sp.signer BY <1>1 DEF LiveAccounts
  <2>2. d.kind = "delegation" /\ d.by = r BY <1>1, <2>1 DEF ChainOpens, Opens
  <2> QED BY <2>1, <2>2 DEF DelegatedBy
<1>4. Cleared(sp.signer, r, rev)
  <2>1. CASE sp.revocations = NoBlob
    <3>1. rev = 0 BY <1>1, <2>1 DEF RevocationsAccepted, NextState
    <3> QED BY <3>1 DEF Cleared
  <2>2. CASE sp.revocations # NoBlob
    <3>1. sp.revocations \in ListsOf(r) BY <1>1, <2>2 DEF RevocationsAccepted, Opens, ListsOf
    <3>2. rev = sp.revocations.body.version /\ rev \in Nat
      BY <2>2, BundlesAssumption DEF NextState
    <3>3. sp.signer \notin sp.revocations.body.revoked BY <1>1, <2>2 DEF Revoked
    <3> HIDE DEF rev
    <3> QED BY <3>1, <3>2, <3>3 DEF Cleared
  <2> QED BY <2>1, <2>2
<1> QED BY <1>2, <1>3, <1>4

(* ClearedSince: what a version clears, every older version does.          *)
LEMMA ClearedSince ==
  ASSUME NEW k, NEW r, NEW v \in Nat, NEW w \in Nat, v <= w, Cleared(k, r, w)
  PROVE  Cleared(k, r, v)
<1>1. \A l \in ListsOf(r) : l.body.version \in Nat BY BundlesAssumption DEF ListsOf
<1> QED BY <1>1 DEF Cleared

(* What each process writes is cleared by the version it is going to save. *)
Vetted(a) ==
  pc[a] \in Writing /\ Signed(a) =>
    \E k \in SignersOf(body[a]) :
      k \in DelegatedBy(root[a]) /\ Cleared(k, root[a], next[a].rev)

(* AgentWritesVetted: no process, of any number on one directory, writes a *)
(* policy of a device that the pinned root did not delegate, or that every *)
(* list from the version on that it then saves revokes (WritesVetted,      *)
(* policy.go verifySignedPolicy, nextState).                               *)
THEOREM AgentWritesVetted == Spec => []WritesVetted
<1>1. Init => \A a \in Agents : Vetted(a) BY DEF Init, Vetted, Writing
<1>2. Typed /\ (\A a \in Agents : Vetted(a)) /\ [Next]_vars => (\A a \in Agents : Vetted(a))'
  <2> SUFFICES ASSUME Typed, \A a \in Agents : Vetted(a), [Next]_vars
               PROVE  \A a \in Agents : Vetted(a)'
    OBVIOUS
  <2> USE DEF Typed
  <2>1. ASSUME NEW a \in Agents, pc'[a] \notin Writing PROVE Vetted(a)'
    BY <2>1 DEF Vetted
  <2>2. ASSUME NEW a \in Agents, Done(a) PROVE Vetted(a)'
    BY <2>1, <2>2 DEF Done, Goto, TypeOK, Writing
  <2>3. ASSUME NEW a \in Agents, NEW f \in Flags, Start(a, f) PROVE Vetted(a)'
    BY <2>1, <2>3 DEF Start, Goto, TypeOK, Writing
  <2>4. ASSUME NEW a \in Agents, NEW sp \in Bundles, Receive(a, sp) PROVE Vetted(a)'
    <3>1. CASE Accept(a, sp)
      <4> DEFINE ns == NextState(sp, root[a], loaded[a], clock)
      <4>1. root[a] \in Roots /\ loaded[a] \in StateType /\ clock \in Nat BY DEF TypeOK
      <4>2. /\ sp.signer \in SignersOf(Served(sp).body)
            /\ sp.signer \in DelegatedBy(root[a]) /\ Cleared(sp.signer, root[a], ns.rev)
        BY <3>1, <4>1, SignerVetted DEF Accept
      <4>3. body'[a] = Served(sp).body /\ root' = root /\ next'[a] = ns
        BY <3>1 DEF Accept, TypeOK
      <4> HIDE DEF ns
      <4> QED BY <4>2, <4>3 DEF Vetted
    <3>2. CASE Decline(a, sp) BY <2>2, <3>2 DEF Decline
    <3> QED BY <2>4, <3>1, <3>2 DEF Receive
  <2>5. ASSUME NEW a \in Agents, NEW b \in Unsigned, ReceiveUnsigned(a, b) PROVE Vetted(a)'
    BY <2>5 DEF ReceiveUnsigned, RootLoaded, Vetted, Signed
  <2>6. ASSUME NEW a \in Agents, Save(a) PROVE Vetted(a)'
    BY <2>1, <2>6 DEF Save, Goto, TypeOK, Writing
  <2>7. ASSUME NEW a \in Agents,
               \/ Compile(a) \/ WriteCA(a) \/ RenameKRL(a)
               \/ \E u \in SafeUsers : WritePrincipals(a, u)
        PROVE  Vetted(a)'
    <3>1. Done(a) \/ (pc[a] \in Writing /\ UNCHANGED <<root, body, next>>)
      BY <2>7 DEF Compile, WriteCA, RenameKRL, WritePrincipals, Keeps, locals, Writing
    <3> QED BY <2>2, <3>1 DEF Vetted, Signed
  <2>8. ASSUME NEW a \in Agents, Report(a) \/ Fault(a) PROVE Vetted(a)'
    BY <2>2, <2>8 DEF Report, Fault
  <2>9. ASSUME NEW a \in Agents, Work(a) \/ Fault(a) \/ \E f \in Flags : Start(a, f)
        PROVE  \A b \in Agents : Vetted(b)'
    <3>1. Vetted(a)' BY <2>3, <2>4, <2>5, <2>6, <2>7, <2>8, <2>9 DEF Work
    <3>2. \A b \in Agents \ {a} : Vetted(b)' BY <2>9, MovesOnly DEF Same, Vetted, Signed
    <3> QED BY <3>1, <3>2
  <2>10. CASE TurnHonest \/ Tick \/ UNCHANGED vars
    BY <2>10 DEF TurnHonest, Tick, vars, locals, Vetted, Signed
  <2> QED BY <2>9, <2>10 DEF Next
<1>3. (\A a \in Agents : Vetted(a)) <=> WritesVetted BY DEF Vetted, WritesVetted
<1> QED BY <1>1, <1>2, <1>3, TypedAlways, PTL DEF Spec

(* AgentWritesTrusted: with one process, what a signed pull writes comes   *)
(* from a device the pinned root delegated and the saved revocation        *)
(* version or a newer list clears: an old or missing list, or a signature  *)
(* of another kind, brings no device back (WrittenByTrusted).              *)
THEOREM AgentWritesTrusted == ASSUME OneAgent PROVE Spec => []WrittenByTrusted
<1>1. IInv /\ WritesVetted => WrittenByTrusted
  <2> SUFFICES ASSUME IInv, WritesVetted, NEW a \in Agents, pc[a] \in Writing, Signed(a)
               PROVE  \E k \in SignersOf(body[a]) :
                        k \in DelegatedBy(root[a]) /\ Cleared(k, root[a], state.rev)
    BY DEF WrittenByTrusted
  <2>1. state.rev \in Nat /\ next[a].rev \in Nat BY DEF IInv, TypeOK, StateType
  <2>2. state.rev <= next[a].rev BY DEF IInv, PullInv, WritesNext, Extends, Signed
  <2>3. PICK k \in SignersOf(body[a]) :
          k \in DelegatedBy(root[a]) /\ Cleared(k, root[a], next[a].rev)
    BY DEF WritesVetted
  <2>4. Cleared(k, root[a], state.rev) BY <2>1, <2>2, <2>3, ClearedSince
  <2> QED BY <2>3, <2>4
<1> QED BY <1>1, Inductive, AgentWritesVetted, PTL

(* What each process is about to save, measured against what it loaded.    *)
Grows(a) ==
  /\ pc[a] \in Writing /\ Signed(a) => Extends(next[a], loaded[a])
  /\ SaveSigned(a)

(* AgentSavesExtend: with any number of processes on one directory, a pull *)
(* saves no older versions than it loaded, and keeps root and format: what *)
(* two processes can lose is what the other one saved in between           *)
(* (SavesExtend, main.go:266 and 289, nextState).                          *)
THEOREM AgentSavesExtend == Spec => SavesExtend
<1>1. Init => \A a \in Agents : Grows(a) BY DEF Init, Grows, SaveSigned, Writing
<1>2. Typed /\ (\A a \in Agents : Grows(a)) /\ [Next]_vars => (\A a \in Agents : Grows(a))'
  <2> SUFFICES ASSUME Typed, \A a \in Agents : Grows(a), [Next]_vars
               PROVE  \A a \in Agents : Grows(a)'
    OBVIOUS
  <2> USE DEF Typed
  <2>1. ASSUME NEW a \in Agents, pc'[a] \notin Writing PROVE Grows(a)'
    BY <2>1 DEF Grows, SaveSigned, Writing
  <2>2. ASSUME NEW a \in Agents, Done(a) PROVE Grows(a)'
    BY <2>1, <2>2 DEF Done, Goto, TypeOK, Writing
  <2>3. ASSUME NEW a \in Agents, NEW f \in Flags, Start(a, f) PROVE Grows(a)'
    BY <2>1, <2>3 DEF Start, Goto, TypeOK, Writing
  <2>4. ASSUME NEW a \in Agents, NEW sp \in Bundles, Receive(a, sp) PROVE Grows(a)'
    <3>1. CASE Accept(a, sp)
      <4> DEFINE ns == NextState(sp, root[a], loaded[a], clock)
      <4>1. /\ root[a] \in Roots /\ loaded[a] \in StateType /\ clock \in Nat
            /\ loaded[a].root \in {NoKey, root[a]}
        BY <2>4 DEF Receive, RootLoaded, TypeOK
      <4>2. Extends(ns, loaded[a]) BY <3>1, <4>1, AcceptedExtends DEF Accept
      <4>3. pc'[a] = "compile" /\ loaded' = loaded /\ next'[a] = ns
        BY <3>1 DEF Accept, Goto, TypeOK
      <4> HIDE DEF ns
      <4> QED BY <4>2, <4>3 DEF Grows, SaveSigned
    <3>2. CASE Decline(a, sp) BY <2>2, <3>2 DEF Decline
    <3> QED BY <2>4, <3>1, <3>2 DEF Receive
  <2>5. ASSUME NEW a \in Agents, NEW b \in Unsigned, ReceiveUnsigned(a, b) PROVE Grows(a)'
    BY <2>5 DEF ReceiveUnsigned, RootLoaded, Grows, SaveSigned, Signed, Goto, TypeOK
  <2>6. ASSUME NEW a \in Agents, Save(a) PROVE Grows(a)'
    BY <2>1, <2>6 DEF Save, Goto, TypeOK, Writing
  <2>7. ASSUME NEW a \in Agents,
               \/ Compile(a) \/ WriteCA(a) \/ RenameKRL(a)
               \/ \E u \in SafeUsers : WritePrincipals(a, u)
        PROVE  Grows(a)'
    <3>1. \/ Done(a)
          \/ /\ pc[a] \in Writing /\ UNCHANGED <<root, loaded, next>>
             /\ pc'[a] = "save" => root[a] # NoKey
      BY <2>7
      DEF Compile, WriteCA, RenameKRL, WritePrincipals, Keeps, locals, Writing, Goto, TypeOK
    <3> QED BY <2>2, <3>1 DEF Grows, SaveSigned, Signed
  <2>8. ASSUME NEW a \in Agents, Report(a) \/ Fault(a) PROVE Grows(a)'
    BY <2>2, <2>8 DEF Report, Fault
  <2>9. ASSUME NEW a \in Agents, Work(a) \/ Fault(a) \/ \E f \in Flags : Start(a, f)
        PROVE  \A b \in Agents : Grows(b)'
    <3>1. Grows(a)' BY <2>3, <2>4, <2>5, <2>6, <2>7, <2>8, <2>9 DEF Work
    <3>2. \A b \in Agents \ {a} : Grows(b)' BY <2>9, MovesOnly DEF Same, Grows, SaveSigned, Signed
    <3> QED BY <3>1, <3>2
  <2>10. CASE TurnHonest \/ Tick \/ UNCHANGED vars
    BY <2>10 DEF TurnHonest, Tick, vars, locals, Grows, SaveSigned, Signed
  <2> QED BY <2>9, <2>10 DEF Next
<1>3. (\A a \in Agents : Grows(a)) =>
        \A a \in Agents : Save(a) => Extends(state', loaded[a])
  BY DEF Grows, SaveSigned, Save, Signed, Writing
<1> QED BY <1>1, <1>2, <1>3, TypedAlways, PTL DEF Spec, SavesExtend

-----------------------------------------------------------------------------
(* How far the files have come that the state and the report vouch for.    *)
UsersWritten(a) ==
  pc[a] \in {"principals", "rename", "save", "report"} =>
    \A u \in (body[a].users \cap SafeUsers) \ todo[a] : principals[u] = body[a]
UsersDone(a) == pc[a] \in {"rename", "save", "report"} => todo[a] = {}
ListsReported(a) == pc[a] = "report" => ca = body[a] /\ krl = body[a]

WholeInv(a) == UsersWritten(a) /\ UsersDone(a) /\ ListsReported(a)

(* AgentAppliedWhole: the state is saved, and the dashboard told, only     *)
(* when every file the policy names holds that policy, for every order in  *)
(* which the users' files are written (AppliedWhole, writeSSHFiles).       *)
THEOREM AgentAppliedWhole == ASSUME OneAgent PROVE Spec => []AppliedWhole
<1> DEFINE Whole == \A a \in Agents : WholeInv(a)
<1>1. Init => Whole
  BY DEF Init, WholeInv, UsersWritten, UsersDone, ListsReported
<1>2. IInv /\ Whole /\ [Next]_vars => Whole'
  <2> SUFFICES ASSUME IInv, Whole, [Next]_vars PROVE Whole' OBVIOUS
  <2> USE DEF IInv
  <2>1. ASSUME NEW a \in Agents, WholeInv(a)' PROVE Whole'
    BY <2>1 DEF OneAgent
  <2>2. ASSUME NEW a \in Agents, pc'[a] \notin {"principals", "rename", "save", "report"}
        PROVE  Whole'
    <3>1. WholeInv(a)' BY <2>2 DEF WholeInv, UsersWritten, UsersDone, ListsReported
    <3> QED BY <2>1, <3>1
  <2>3. ASSUME NEW a \in Agents, Done(a) PROVE Whole'
    BY <2>2, <2>3 DEF Done, Goto, TypeOK
  <2>4. ASSUME NEW a \in Agents, NEW f \in Flags, Start(a, f) PROVE Whole'
    BY <2>2, <2>4 DEF Start, Goto, TypeOK
  <2>5. ASSUME NEW a \in Agents, NEW sp \in Bundles, Receive(a, sp) PROVE Whole'
    BY <2>2, <2>3, <2>5 DEF Receive, Accept, Decline, Goto, TypeOK
  <2>6. ASSUME NEW a \in Agents, NEW b \in Unsigned, ReceiveUnsigned(a, b) PROVE Whole'
    BY <2>2, <2>6 DEF ReceiveUnsigned, Goto, TypeOK
  <2>7. ASSUME NEW a \in Agents, Compile(a) PROVE Whole'
    <3>1. CASE /\ body' = body /\ pc' = [pc EXCEPT ![a] = "principals"]
               /\ todo' = [todo EXCEPT ![a] = body[a].users \cap SafeUsers]
      <4>1. WholeInv(a)'
        BY <3>1 DEF TypeOK, WholeInv, UsersWritten, UsersDone, ListsReported
      <4> QED BY <2>1, <4>1
    <3> QED BY <2>3, <2>7, <3>1 DEF Compile, Goto, Keeps
  <2>8. ASSUME NEW a \in Agents, NEW u \in SafeUsers, WritePrincipals(a, u) PROVE Whole'
    <3>1. /\ pc' = pc /\ body' = body /\ pc[a] = "principals"
          /\ principals' = [principals EXCEPT ![u] = body[a]]
          /\ todo' = [todo EXCEPT ![a] = @ \ {u}]
      BY <2>8 DEF WritePrincipals, Keeps
    <3>2. \A w \in body[a].users \cap SafeUsers : w \notin todo'[a] => principals'[w] = body[a]
      BY <3>1 DEF TypeOK, WholeInv, UsersWritten
    <3>3. WholeInv(a)' BY <3>1, <3>2 DEF WholeInv, UsersWritten, UsersDone, ListsReported
    <3> QED BY <2>1, <3>3
  <2>9. ASSUME NEW a \in Agents, WriteCA(a) PROVE Whole'
    <3>1. WholeInv(a)'
      BY <2>9 DEF WriteCA, Goto, locals, TypeOK, WholeInv, UsersWritten, UsersDone,
         ListsReported
    <3> QED BY <2>1, <3>1
  <2>10. ASSUME NEW a \in Agents, RenameKRL(a) PROVE Whole'
    <3>1. CASE Goto(a, "save") /\ UNCHANGED locals
      <4>1. WholeInv(a)'
        BY <2>10, <3>1 DEF RenameKRL, Goto, locals, TypeOK, WholeInv, UsersWritten, UsersDone,
           ListsReported
      <4> QED BY <2>1, <4>1
    <3> QED BY <2>3, <2>10, <3>1 DEF RenameKRL
  <2>11. ASSUME NEW a \in Agents, Save(a) PROVE Whole'
    <3>1. ca = body[a] /\ krl = body[a]
      BY <2>11 DEF Save, PullInv, CAWritten, KRLWritten
    <3>2. WholeInv(a)'
      BY <2>11, <3>1 DEF Save, Goto, files, locals, TypeOK, WholeInv, UsersWritten, UsersDone,
         ListsReported
    <3> QED BY <2>1, <3>2
  <2>12. ASSUME NEW a \in Agents, Report(a) \/ Fault(a) PROVE Whole'
    BY <2>3, <2>12 DEF Report, Fault
  <2>13. CASE TurnHonest \/ Tick \/ UNCHANGED vars
    BY <2>13 DEF TurnHonest, Tick, vars, files, locals, WholeInv, UsersWritten, UsersDone,
       ListsReported
  <2> QED
    BY <2>4, <2>5, <2>6, <2>7, <2>8, <2>9, <2>10, <2>11, <2>12, <2>13 DEF Next, Work
<1>3. IInv /\ Whole => AppliedWhole
  BY DEF IInv, PullInv, CAWritten, KRLWritten, WholeInv, UsersWritten, UsersDone,
     ListsReported, AppliedWhole
<1> QED BY <1>1, <1>2, <1>3, Inductive, PTL DEF Spec

-----------------------------------------------------------------------------
(* Whatever has been compiled, or is written after compiling, compiles.    *)
Compiles(f) == f # NoFile => f.krlOK
FilesCompile ==
  /\ Compiles(ca) /\ Compiles(krl) /\ Compiles(krlTmp)
  /\ \A u \in SafeUsers : Compiles(principals[u])
BodyCompiles(a) == pc[a] \in {"principals", "rename", "save"} => body[a].krlOK
CompileInv == FilesCompile /\ \A a \in Agents : BodyCompiles(a)

(* AgentNothingOfBadPolicy: for any number of processes on one directory   *)
(* and any order of their writes, nothing of a policy whose revocation     *)
(* list does not compile reaches a file that sshd reads                    *)
(* (NothingOfBadPolicy, main.go writeSSHFiles).                            *)
THEOREM AgentNothingOfBadPolicy == Spec => []NothingOfBadPolicy
<1>1. Init => CompileInv
  BY DEF Init, CompileInv, FilesCompile, Compiles, BodyCompiles
<1>2. Typed /\ CompileInv /\ [Next]_vars => CompileInv'
  <2> SUFFICES ASSUME Typed, CompileInv, [Next]_vars PROVE CompileInv' OBVIOUS
  <2> USE DEF Typed, CompileInv
  <2>1. ASSUME NEW a \in Agents, Done(a) PROVE pc'[a] = "idle"
    BY <2>1 DEF Done, Goto, TypeOK
  <2>2. ASSUME NEW a \in Agents, UNCHANGED files,
               Work(a) \/ Fault(a) \/ \E f \in Flags : Start(a, f),
               \/ pc'[a] \notin {"principals", "rename", "save"}
               \/ body[a].krlOK /\ body' = body
        PROVE  CompileInv'
    <3>1. FilesCompile' BY <2>2 DEF files, FilesCompile, Compiles
    <3>2. \A b \in Agents \ {a} : BodyCompiles(b)' BY <2>2, MovesOnly DEF Same, BodyCompiles
    <3>3. BodyCompiles(a)' BY <2>2 DEF BodyCompiles
    <3> QED BY <3>1, <3>2, <3>3
  <2>3. ASSUME NEW a \in Agents, NEW f \in Flags, Start(a, f) PROVE CompileInv'
    BY <2>2, <2>3 DEF Start, Goto, TypeOK
  <2>4. ASSUME NEW a \in Agents, NEW sp \in Bundles, Receive(a, sp) PROVE CompileInv'
    <3>1. pc'[a] \in {"compile", "idle"}
      BY <2>1, <2>4 DEF Receive, Accept, Decline, Goto, TypeOK
    <3>2. UNCHANGED files /\ Work(a) BY <2>4 DEF Receive, Work
    <3> QED BY <2>2, <3>1, <3>2
  <2>5. ASSUME NEW a \in Agents, NEW b \in Unsigned, ReceiveUnsigned(a, b) PROVE CompileInv'
    <3>1. pc'[a] = "compile" /\ UNCHANGED files /\ Work(a)
      BY <2>5 DEF ReceiveUnsigned, Goto, TypeOK, Work
    <3> QED BY <2>2, <3>1
  <2>6. ASSUME NEW a \in Agents, Compile(a) PROVE CompileInv'
    <3>1. CASE body[a].krlOK /\ krlTmp' = body[a] /\ body' = body
      <4>1. FilesCompile' BY <2>6, <3>1 DEF Compile, FilesCompile, Compiles
      <4>2. \A b \in Agents \ {a} : BodyCompiles(b)'
        BY <2>6, MovesOnly DEF Work, Same, BodyCompiles
      <4>3. BodyCompiles(a)' BY <3>1 DEF BodyCompiles
      <4> QED BY <4>1, <4>2, <4>3
    <3>2. CASE Done(a) /\ UNCHANGED krlTmp
      <4>1. UNCHANGED files /\ Work(a) BY <2>6, <3>2 DEF Compile, files, Work
      <4> QED BY <2>1, <2>2, <3>2, <4>1
    <3> QED BY <2>6, <3>1, <3>2 DEF Compile, Keeps
  <2>7. ASSUME NEW a \in Agents, NEW u \in SafeUsers, WritePrincipals(a, u) PROVE CompileInv'
    <3>1. body[a].krlOK BY <2>7 DEF WritePrincipals, BodyCompiles
    <3>2. FilesCompile' BY <2>7, <3>1 DEF WritePrincipals, FilesCompile, Compiles, TypeOK
    <3>3. \A b \in Agents : BodyCompiles(b)'
      BY <2>7 DEF WritePrincipals, Keeps, BodyCompiles
    <3> QED BY <3>2, <3>3
  <2>8. ASSUME NEW a \in Agents, WriteCA(a) PROVE CompileInv'
    <3>1. body[a].krlOK BY <2>8 DEF WriteCA, BodyCompiles
    <3>2. FilesCompile' BY <2>8, <3>1 DEF WriteCA, FilesCompile, Compiles
    <3>3. \A b \in Agents : BodyCompiles(b)'
      BY <2>8, <3>1 DEF WriteCA, Goto, TypeOK, locals, BodyCompiles
    <3> QED BY <3>2, <3>3
  <2>9. ASSUME NEW a \in Agents, RenameKRL(a) PROVE CompileInv'
    <3>1. FilesCompile' BY <2>9 DEF RenameKRL, FilesCompile, Compiles
    <3>2. \A b \in Agents \ {a} : BodyCompiles(b)'
      BY <2>9, MovesOnly DEF Work, Same, BodyCompiles
    <3>3. BodyCompiles(a)'
      BY <2>1, <2>9 DEF RenameKRL, locals, BodyCompiles
    <3> QED BY <3>1, <3>2, <3>3
  <2>10. ASSUME NEW a \in Agents, Save(a) \/ Report(a) \/ Fault(a) PROVE CompileInv'
    <3>1. pc'[a] \in {"report", "idle"} /\ UNCHANGED files /\ (Work(a) \/ Fault(a))
      BY <2>1, <2>10 DEF Save, Report, Fault, Goto, TypeOK, Work
    <3> QED BY <2>2, <3>1
  <2>11. CASE TurnHonest \/ Tick \/ UNCHANGED vars
    BY <2>11 DEF TurnHonest, Tick, vars, files, locals, FilesCompile, Compiles, BodyCompiles
  <2> QED
    BY <2>3, <2>4, <2>5, <2>6, <2>7, <2>8, <2>9, <2>10, <2>11 DEF Next, Work
<1>3. CompileInv => NothingOfBadPolicy
  BY DEF CompileInv, FilesCompile, Compiles, NothingOfBadPolicy
<1> QED BY <1>1, <1>2, <1>3, TypedAlways, PTL DEF Spec

-----------------------------------------------------------------------------
(* GoodUntilBounded: a policy is good until it expires or, if a statement  *)
(* vouches for it, no further than the window from now (verifyFreshness).  *)
LEMMA GoodUntilBounded ==
  ASSUME NEW sp \in Bundles, NEW now \in Nat, Offered(sp)
  PROVE  \/ GoodUntil(sp, now) <= Served(sp).body.expires
         \/ GoodUntil(sp, now) <= now + FreshnessClockSkew + FreshnessWindow
<1> DEFINE p == Served(sp).body
<1>1. p.expires \in Nat BY BodiesAssumption DEF Bodies, SignedBodies
<1>2. CASE Vouches(sp, p, now)
  <2>1. /\ sp.freshness.body.issued \in Nat /\ sp.freshness.body.expires \in Nat
        /\ sp.freshness.body.issued <= now + FreshnessClockSkew
    BY <1>2, BundlesAssumption DEF Vouches
  <2>2. VouchedUntil(sp.freshness.body) <= now + FreshnessClockSkew + FreshnessWindow
    BY <2>1, FreshnessAssumption DEF VouchedUntil
  <2> QED BY <1>1, <2>2 DEF GoodUntil
<1>3. CASE ~ Vouches(sp, p, now) BY <1>1, <1>3 DEF GoodUntil
<1> QED BY <1>2, <1>3

Bounded(a) ==
  pc[a] \in Writing /\ Signed(a) =>
    \/ next[a].until <= body[a].expires
    \/ next[a].until <= clock + FreshnessClockSkew + FreshnessWindow

(* AgentVouchingBounded: however far ahead a freshness statement dates its *)
(* expiry, what a pull applies is vouched for no further than the window   *)
(* from now, in each of any number of processes (VouchingBounded,          *)
(* account_policy.go:40).                                                  *)
THEOREM AgentVouchingBounded == Spec => []VouchingBounded
<1>1. Init => \A a \in Agents : Bounded(a) BY DEF Init, Bounded, Writing
<1>2. Typed /\ (\A a \in Agents : Bounded(a)) /\ [Next]_vars => (\A a \in Agents : Bounded(a))'
  <2> SUFFICES ASSUME Typed, \A a \in Agents : Bounded(a), [Next]_vars
               PROVE  \A a \in Agents : Bounded(a)'
    OBVIOUS
  <2> USE DEF Typed
  <2>1. ASSUME NEW a \in Agents, pc'[a] \notin Writing PROVE Bounded(a)'
    BY <2>1 DEF Bounded
  <2>2. ASSUME NEW a \in Agents, Done(a) PROVE Bounded(a)'
    BY <2>1, <2>2 DEF Done, Goto, TypeOK, Writing
  <2>3. ASSUME NEW a \in Agents, NEW f \in Flags, Start(a, f) PROVE Bounded(a)'
    BY <2>1, <2>3 DEF Start, Goto, TypeOK, Writing
  <2>4. ASSUME NEW a \in Agents, NEW sp \in Bundles, Receive(a, sp) PROVE Bounded(a)'
    <3>1. CASE Accept(a, sp)
      <4>1. clock \in Nat /\ Offered(sp) BY <3>1 DEF Accept, Verifies, TypeOK
      <4>2. /\ body'[a] = Served(sp).body /\ clock' = clock
            /\ next'[a] = NextState(sp, root[a], loaded[a], clock)
        BY <2>4, <3>1 DEF Receive, Accept, TypeOK, env
      <4>3. next'[a].until = GoodUntil(sp, clock) BY <4>2 DEF NextState
      <4> QED BY <4>1, <4>2, <4>3, GoodUntilBounded DEF Bounded
    <3>2. CASE Decline(a, sp) BY <2>2, <3>2 DEF Decline
    <3> QED BY <2>4, <3>1, <3>2 DEF Receive
  <2>5. ASSUME NEW a \in Agents, NEW b \in Unsigned, ReceiveUnsigned(a, b) PROVE Bounded(a)'
    BY <2>5 DEF ReceiveUnsigned, RootLoaded, Bounded, Signed
  <2>6. ASSUME NEW a \in Agents, Save(a) PROVE Bounded(a)'
    BY <2>1, <2>6 DEF Save, Goto, TypeOK, Writing
  <2>7. ASSUME NEW a \in Agents,
               \/ Compile(a) \/ WriteCA(a) \/ RenameKRL(a)
               \/ \E u \in SafeUsers : WritePrincipals(a, u)
        PROVE  Bounded(a)'
    <3>1. Done(a) \/ (pc[a] \in Writing /\ UNCHANGED <<clock, root, body, next>>)
      BY <2>7 DEF Compile, WriteCA, RenameKRL, WritePrincipals, Keeps, locals, env, Writing
    <3> QED BY <2>2, <3>1 DEF Bounded, Signed
  <2>8. ASSUME NEW a \in Agents, Report(a) \/ Fault(a) PROVE Bounded(a)'
    BY <2>2, <2>8 DEF Report, Fault
  <2>9. ASSUME NEW a \in Agents, Work(a) \/ Fault(a) \/ \E f \in Flags : Start(a, f)
        PROVE  \A b \in Agents : Bounded(b)'
    <3>1. Bounded(a)' BY <2>3, <2>4, <2>5, <2>6, <2>7, <2>8, <2>9 DEF Work
    <3>2. clock' = clock
      BY <2>9
      DEF Work, Fault, Start, Receive, ReceiveUnsigned, Compile, WritePrincipals, WriteCA,
          RenameKRL, Save, Report, env
    <3>3. \A b \in Agents \ {a} : Bounded(b)' BY <2>9, <3>2, MovesOnly DEF Same, Bounded, Signed
    <3> QED BY <3>1, <3>3
  <2>10. CASE TurnHonest \/ UNCHANGED vars
    BY <2>10 DEF TurnHonest, vars, env, locals, Bounded, Signed
  <2>11. CASE Tick
    <3>1. clock' = clock + 1 /\ UNCHANGED <<pc, root, body, next>> BY <2>11 DEF Tick, locals
    <3>2. ASSUME NEW a \in Agents PROVE Bounded(a)'
      <4>1. clock \in Nat /\ next[a].until \in Nat BY DEF TypeOK, StateType
      <4> QED BY <3>1, <4>1, FreshnessAssumption DEF Bounded, Signed
    <3> QED BY <3>2
  <2> QED BY <2>9, <2>10, <2>11 DEF Next
<1>3. (\A a \in Agents : Bounded(a)) => VouchingBounded BY DEF Bounded, VouchingBounded
<1> QED BY <1>1, <1>2, <1>3, TypedAlways, PTL DEF Spec
=============================================================================
