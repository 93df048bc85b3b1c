-------------------------- MODULE KeyServerProofs ---------------------------
(***************************************************************************)
(* Theorems about KeyServer, for every set of handlers, requests and       *)
(* configurations and every setting of its clocks and limits.              *)
(***************************************************************************)
EXTENDS KeyServer, FiniteSetTheorems, TLAPS

USE DEF NotSeen, Never

(* What a request and a configuration are made of.                         *)
LEMMA RequestFields ==
  ASSUME NEW r \in Requests
  PROVE  r.app \in AppNames /\ r.ts \in Int /\ r # NoRequest
BY RequestsAssumption DEF RequestType

LEMMA EntryType ==
  ASSUME NEW c \in Configs, NEW a \in AppNames
  PROVE  Entry(c, a) \in AppEntry
BY ConfigsAssumption DEF ConfigType, Entry, AppEntry

LEMMA ClientIPType ==
  ASSUME NEW src \in Sources
  PROVE  ClientIP(src) \in Addresses
BY SourcesAssumption DEF ClientIP

LEMMA CheckVerdictType ==
  ASSUME NEW r, NEW e, NEW a, NEW t
  PROVE  CheckVerdict(r, e, a, t) \in Verdicts
BY DEF CheckVerdict, Verdicts, Refusals

LEMMA TTLType == TTL \in Nat /\ TTL = 2 * Skew
BY TimesAssumption DEF TTL

LEMMA PurgedType ==
  ASSUME TypeOK, NEW t
  PROVE  Purged(t) \in [Requests -> Nat \cup {NotSeen}]
BY DEF Purged, TypeOK

LEMMA InitTypeOK == Init => TypeOK
<1> SUFFICES ASSUME Init PROVE TypeOK OBVIOUS
<1>1. torn \in BOOLEAN BY DEF Init
<1> QED BY <1>1, SourcesAssumption DEF Init, TypeOK, NothingSeen, NothingSpent, Zero, NotYet,
       At, NoEntry, AppEntry, Verdicts, Steps

LEMMA StepTypeOK == TypeOK /\ [Next]_vars => TypeOK'
<1> SUFFICES ASSUME TypeOK, [Next]_vars PROVE TypeOK'
  OBVIOUS
<1>1. ASSUME NEW h \in Handlers, NEW r \in Requests, NEW src \in Sources, Arrive(h, r, src)
      PROVE  TypeOK'
  <2>1. ClientIP(src) \in Addresses BY ClientIPType
  <2> QED BY <1>1, <2>1 DEF Arrive, Goto, TypeOK, Steps, shared, history
<1>2. ASSUME NEW h \in Handlers, Lookup(h) PROVE TypeOK'
  <2>1. pc[h] = "arrived" /\ req[h] \in Requests /\ req[h].app \in AppNames
    BY <1>2, RequestFields DEF Lookup, LookUpIn, TypeOK
  <2>2. cfg \in Configs /\ Entry(cfg, req[h].app) \in AppEntry
    BY <2>1, EntryType DEF TypeOK
  <2> HIDE DEF Entry
  <2>3. UNCHANGED <<clock, shared, req, ip, now, lost, inForce, history>>
    BY <1>2 DEF Lookup, LookUpIn
  <2>4. CASE Refuse(h, "unknown app") /\ UNCHANGED app
    BY <2>1, <2>3, <2>4 DEF Refuse, Goto, TypeOK, Steps, Verdicts, Refusals, shared, history
  <2>5. CASE Goto(h, "known") /\ app' = [app EXCEPT ![h] = Entry(cfg, req[h].app)]
             /\ UNCHANGED verdict
    BY <2>1, <2>2, <2>3, <2>5 DEF Goto, TypeOK, Steps, shared, history
  <2> QED BY <1>2, <2>4, <2>5 DEF Lookup, LookUpIn
<1>3. ASSUME NEW h \in Handlers, Check(h) PROVE TypeOK'
  <2> DEFINE v == CheckVerdict(req[h], app[h], ip[h], clock)
  <2>1. v \in Verdicts BY CheckVerdictType
  <2>2. UNCHANGED <<clock, shared, req, ip, app, lost, inForce, history>> /\ pc[h] = "known"
        /\ now' = [now EXCEPT ![h] = clock]
        /\ \/ v = "ok" /\ Goto(h, "checked") /\ UNCHANGED verdict
           \/ v # "ok" /\ Refuse(h, v)
    BY <1>3 DEF Check
  <2> HIDE DEF v
  <2> QED BY <2>1, <2>2 DEF Refuse, Goto, TypeOK, Steps, shared, history
<1>4. ASSUME NEW h \in Handlers, Admit(h) PROVE TypeOK'
  <2> DEFINE p == Purged(now[h])
  <2>1. /\ pc[h] = "checked" /\ req[h] \in Requests /\ req[h].app \in AppNames
        /\ now[h] \in Nat
    BY <1>4, RequestFields DEF Admit, TypeOK
  <2>2. p \in [Requests -> Nat \cup {NotSeen}] BY PurgedType
  <2>3. Recent(req[h].app, now[h]) \in SUBSET [req : Requests, t : Nat]
    BY <2>1 DEF Recent, TypeOK
  <2>4. now[h] + TTL \in Nat BY <2>1, TTLType
  <2>5. UNCHANGED <<clock, boot, cfg, chip, events, torn, req, ip, app, now, lost, inForce>>
    BY <1>4 DEF Admit
  <2>6. CASE AdmitReplayed(h)
    BY <2>1, <2>2, <2>5, <2>6 DEF AdmitReplayed, Refuse, Goto, TypeOK, Steps, Verdicts,
       Refusals, history
  <2>7. CASE AdmitOverRate(h)
    BY <2>1, <2>2, <2>3, <2>5, <2>7 DEF AdmitOverRate, Refuse, Goto, TypeOK, Steps,
       Verdicts, Refusals, history
  <2>8. CASE AdmitGranted(h)
    <3>1. seen' \in [Requests -> Nat \cup {NotSeen}]
      BY <2>2, <2>4, <2>8 DEF AdmitGranted
    <3>2. rate' \in [AppNames -> SUBSET [req : Requests, t : Nat]]
      BY <2>1, <2>3, <2>8 DEF AdmitGranted, TypeOK
    <3>3. /\ granted' \in [Requests -> Nat]
          /\ grantedAt' \in [Requests -> Nat \cup {Never}]
      BY <2>1, <2>8 DEF AdmitGranted, TypeOK
    <3> QED BY <2>1, <2>5, <2>8, <3>1, <3>2, <3>3 DEF AdmitGranted, Goto, TypeOK, Steps
  <2> QED BY <1>4, <2>6, <2>7, <2>8 DEF Admit
<1>5. ASSUME NEW h \in Handlers, LockChip(h) PROVE TypeOK'
  BY <1>5 DEF LockChip, Goto, TypeOK, Steps, locals, history
<1>6. ASSUME NEW h \in Handlers, Agree(h) PROVE TypeOK'
  BY <1>6 DEF Agree, AgreeOpens, AgreeErrs, AgreeFails, Refuse, Goto, TypeOK, Steps, Verdicts,
     Refusals, history
<1>7. ASSUME NEW h \in Handlers, RefuseKnown(h) PROVE TypeOK'
  BY <1>7 DEF RefuseKnown, Goto, TypeOK, Steps, shared, locals, history
<1>8. ASSUME NEW h \in Handlers, Record(h) PROVE TypeOK'
  <2>1. Line(h) \in [req : Requests, verdict : Verdicts]
    BY <1>8 DEF Record, Line, TypeOK
  <2>2. /\ events' = events \/ events' = events \cup {Line(h)}
        /\ torn' \in BOOLEAN
        /\ lost' = lost \/ lost' = lost \cup {h}
    BY <1>8 DEF Record, AppendLine, AppendFails, TypeOK
  <2> QED BY <1>8, <2>1, <2>2 DEF Record, Goto, TypeOK, Steps, history
<1>9. ASSUME NEW h \in Handlers, Reply(h) PROVE TypeOK'
  BY <1>9, SourcesAssumption DEF Reply, Goto, TypeOK, Steps, Verdicts, NoEntry, AppEntry,
     shared
<1>10. CASE Reload
  BY <1>10 DEF Reload, TypeOK, locals, history
<1>11. CASE Restart
  BY <1>11, SourcesAssumption DEF Restart, Forgotten, TypeOK, NothingSeen, NothingSpent,
     Zero, NotYet, At, NoEntry, AppEntry, Verdicts, Steps
<1>12. CASE Tick
  BY <1>12 DEF Tick, TypeOK, shared, locals, history
<1>13. CASE UNCHANGED vars
  BY <1>13 DEF vars, TypeOK, shared, locals, history
<1> QED BY <1>1, <1>2, <1>3, <1>4, <1>5, <1>6, <1>7, <1>8, <1>9, <1>10, <1>11, <1>12,
           <1>13 DEF Next, Serve

(* The type invariant: every handler always works on a request of its own  *)
(* while it serves one, and no step leaves the shared structures ill       *)
(* formed.                                                                 *)
THEOREM TypeCorrect == Spec => []TypeOK
BY InitTypeOK, StepTypeOK, PTL DEF Spec

-----------------------------------------------------------------------------
(* The clock readings of handlers that wait for mu, and the timestamps of  *)
(* the requests being served.                                              *)
ReadingFresh ==
  \A h \in Handlers : pc[h] = "checked" =>
    /\ now[h] <= clock
    /\ clock - now[h] <= MaxStall
    /\ req[h].ts - now[h] <= Lead
    /\ InWindow(req[h], now[h])

TimestampsLead ==
  \A h \in Handlers : pc[h] # "idle" => req[h].ts - clock <= Lead

FreshInv == TypeOK /\ ReadingFresh /\ TimestampsLead

LEMMA InitFresh == Init => FreshInv
<1> SUFFICES ASSUME Init PROVE FreshInv OBVIOUS
<1>1. TypeOK BY InitTypeOK
<1> QED BY <1>1 DEF Init, FreshInv, ReadingFresh, TimestampsLead, At

LEMMA StepFresh == FreshInv /\ [Next]_vars => FreshInv'
<1> SUFFICES ASSUME FreshInv, [Next]_vars PROVE ReadingFresh' /\ TimestampsLead'
  BY StepTypeOK DEF FreshInv
<1> USE DEF FreshInv
<1>a. /\ clock \in Nat /\ Skew \in Nat /\ MaxStall \in Nat /\ Lead \in Int
      /\ \A r \in Requests : r.ts \in Int /\ r # NoRequest
  BY RequestFields, TimesAssumption DEF TypeOK
(* Steps of a handler at work that do not read the clock.                  *)
<1>b. ASSUME NEW h \in Handlers, pc[h] # "idle", UNCHANGED <<clock, req, now>>,
             \E step \in Steps \ {"checked"} : pc' = [pc EXCEPT ![h] = step]
      PROVE  ReadingFresh' /\ TimestampsLead'
  BY <1>b DEF ReadingFresh, TimestampsLead, InWindow, TypeOK
<1>1. ASSUME NEW h \in Handlers, NEW r \in Requests, NEW src \in Sources, Arrive(h, r, src)
      PROVE  ReadingFresh' /\ TimestampsLead'
  BY <1>1 DEF Arrive, Goto, ReadingFresh, TimestampsLead, InWindow, TypeOK
<1>2. ASSUME NEW h \in Handlers, Lookup(h) PROVE ReadingFresh' /\ TimestampsLead'
  BY <1>2, <1>b DEF Lookup, LookUpIn, Refuse, Goto, Steps
<1>3. ASSUME NEW h \in Handlers, Check(h) PROVE ReadingFresh' /\ TimestampsLead'
  <2>1. pc[h] = "known" /\ now' = [now EXCEPT ![h] = clock] /\ UNCHANGED <<clock, req>>
    BY <1>3 DEF Check
  <2>2. CASE Goto(h, "checked") /\ CheckVerdict(req[h], app[h], ip[h], clock) = "ok"
    <3>1. InWindow(req[h], clock) BY <2>2 DEF CheckVerdict
    <3>2. ReadingFresh'
      BY <1>a, <2>1, <2>2, <3>1 DEF Goto, ReadingFresh, TimestampsLead, InWindow, TypeOK
    <3>3. TimestampsLead' BY <2>1, <2>2 DEF Goto, TimestampsLead, TypeOK
    <3> QED BY <3>2, <3>3
  <2>3. CASE Goto(h, "refused")
    BY <2>1, <2>3 DEF Goto, ReadingFresh, TimestampsLead, InWindow, TypeOK
  <2> QED BY <1>3, <2>2, <2>3 DEF Check, Refuse
<1>4. ASSUME NEW h \in Handlers, Admit(h) PROVE ReadingFresh' /\ TimestampsLead'
  BY <1>4, <1>b DEF Admit, AdmitReplayed, AdmitOverRate, AdmitGranted, Refuse, Goto, Steps
<1>5. ASSUME NEW h \in Handlers, LockChip(h) PROVE ReadingFresh' /\ TimestampsLead'
  BY <1>5, <1>b DEF LockChip, Goto, Steps, locals
<1>6. ASSUME NEW h \in Handlers, Agree(h) PROVE ReadingFresh' /\ TimestampsLead'
  BY <1>6, <1>b DEF Agree, AgreeOpens, AgreeErrs, AgreeFails, Refuse, Goto, Steps
<1>7. ASSUME NEW h \in Handlers, RefuseKnown(h) PROVE ReadingFresh' /\ TimestampsLead'
  BY <1>7, <1>b DEF RefuseKnown, Goto, Steps, locals
<1>8. ASSUME NEW h \in Handlers, Record(h) PROVE ReadingFresh' /\ TimestampsLead'
  BY <1>8, <1>b DEF Record, Goto, Steps, locals
<1>9. ASSUME NEW h \in Handlers, Reply(h) PROVE ReadingFresh' /\ TimestampsLead'
  BY <1>9 DEF Reply, Goto, ReadingFresh, TimestampsLead, InWindow, TypeOK
<1>10. CASE Reload \/ UNCHANGED vars
  BY <1>10 DEF Reload, vars, locals, ReadingFresh, TimestampsLead, InWindow
<1>11. CASE Restart
  BY <1>11 DEF Restart, Forgotten, ReadingFresh, TimestampsLead, At
<1>12. CASE Tick
  <2>1. /\ clock' = clock + 1 /\ UNCHANGED <<pc, req, now>>
        /\ \A h \in Handlers : pc[h] = "checked" => clock - now[h] < MaxStall
    BY <1>12 DEF Tick, locals
  <2> QED BY <1>a, <2>1 DEF ReadingFresh, TimestampsLead, InWindow, TypeOK
<1> QED BY <1>1, <1>2, <1>3, <1>4, <1>5, <1>6, <1>7, <1>8, <1>9, <1>10, <1>11, <1>12
        DEF Next, Serve

LEMMA Fresh == Spec => []FreshInv
BY InitFresh, StepFresh, PTL DEF Spec

(* What a handler knows when it takes mu.                                  *)
LEMMA AdmitReading ==
  ASSUME FreshInv, NEW h \in Handlers, Admit(h)
  PROVE  /\ req[h] \in Requests /\ req[h].app \in AppNames /\ req[h].ts \in Int
         /\ now[h] \in Nat /\ clock \in Nat /\ clock' = clock
         /\ now[h] <= clock /\ clock - now[h] <= MaxStall
         /\ req[h].ts - now[h] <= Lead /\ now[h] - req[h].ts <= Skew
BY RequestFields DEF Admit, FreshInv, TypeOK, ReadingFresh, InWindow

(* The steps that touch the guard, the rate table or the clock.            *)
LEMMA GuardSteps ==
  ASSUME [Next]_vars
  PROVE  \/ UNCHANGED <<clock, seen, rate, granted, grantedAt>>
         \/ \E h \in Handlers : Admit(h)
         \/ Restart
         \/ Tick
BY DEF Next, Serve, Arrive, Lookup, LookUpIn, Check, LockChip, Agree, RefuseKnown, Record,
   Reply, Reload, vars, shared, history

-----------------------------------------------------------------------------
(* Replay safety needs the guard's entry to outlive every clock reading    *)
(* that could still pass the timestamp check: it is made at ts - Lead at   *)
(* the earliest and lives TTL = 2 * Skew, the last acceptable reading is   *)
(* ts + Skew, and mu is taken at most MaxStall after it; meanwhile another *)
(* handler with a later reading may purge the guard.                       *)
StallWithinSkew == Lead + MaxStall <= Skew

(* The first instant at which r's entry may be gone from the guard is      *)
(* later than this.                                                        *)
Kept(r) == r.ts - Lead + TTL

Remembered ==
  \A r \in Requests : granted[r] > 0 => seen[r] >= Kept(r) \/ clock > Kept(r)

ReplayInv == FreshInv /\ Remembered /\ NoReplay

(* Purging with a reading that is not ahead of the clock keeps every       *)
(* request remembered that may still be sent.                              *)
LEMMA PurgeRemembers ==
  ASSUME TypeOK, Remembered, NEW t \in Nat, t <= clock
  PROVE  \A r \in Requests : granted[r] > 0 => Purged(t)[r] >= Kept(r) \/ clock > Kept(r)
<1> SUFFICES ASSUME NEW r \in Requests, granted[r] > 0
             PROVE  Purged(t)[r] >= Kept(r) \/ clock > Kept(r)
  OBVIOUS
<1>1. seen[r] \in Int /\ clock \in Int /\ Kept(r) \in Int
  BY RequestFields, TTLType, TimesAssumption DEF TypeOK, Kept
<1>2. Purged(t)[r] = IF t > seen[r] THEN NotSeen ELSE seen[r]
  BY DEF Purged
<1>3. seen[r] >= Kept(r) \/ clock > Kept(r) BY DEF Remembered
<1> QED BY <1>1, <1>2, <1>3

(* A request that is let through was not let through before: its entry     *)
(* would still be there.                                                   *)
LEMMA FirstGrant ==
  ASSUME StallWithinSkew, ReplayInv, NEW h \in Handlers, Admit(h), AdmitGranted(h)
  PROVE  granted[req[h]] = 0
<1> DEFINE r == req[h]
           t == now[h]
<1> SUFFICES ASSUME granted[r] # 0 PROVE FALSE
  OBVIOUS
<1>1. /\ r \in Requests /\ t \in Nat /\ t <= clock /\ clock - t <= MaxStall /\ clock \in Nat
      /\ r.ts \in Int /\ r.ts - t <= Lead /\ t - r.ts <= Skew
  BY AdmitReading DEF ReplayInv
<1>2. granted[r] > 0 BY <1>1 DEF ReplayInv, FreshInv, TypeOK
<1>3. Purged(t)[r] = NotSeen BY DEF AdmitGranted
<1>4. -1 >= Kept(r) \/ clock > Kept(r)
  BY <1>1, <1>2, <1>3, PurgeRemembers DEF ReplayInv, FreshInv
<1>5. Kept(r) = r.ts - Lead + 2 * Skew BY TTLType DEF Kept
<1>6. Skew \in Nat /\ MaxStall \in Nat /\ Lead \in Int BY TimesAssumption
<1> HIDE DEF r, t
<1> QED BY <1>1, <1>4, <1>5, <1>6 DEF StallWithinSkew

LEMMA ReplayInvariance == ASSUME StallWithinSkew PROVE Spec => []ReplayInv
<1>1. Init => ReplayInv
  BY InitFresh DEF Init, ReplayInv, Remembered, NoReplay, Zero
<1>2. ReplayInv /\ [Next]_vars => ReplayInv'
  <2> SUFFICES ASSUME ReplayInv, [Next]_vars PROVE Remembered' /\ NoReplay'
    BY StepFresh DEF ReplayInv
  <2> USE DEF ReplayInv
  <2>1. CASE UNCHANGED <<clock, seen, rate, granted, grantedAt>>
    BY <2>1 DEF Remembered, NoReplay, Kept
  <2>2. ASSUME NEW h \in Handlers, Admit(h) PROVE Remembered' /\ NoReplay'
    <3> DEFINE r == req[h]
               t == now[h]
    <3>1. /\ r \in Requests /\ r.ts \in Int /\ t \in Nat /\ t <= clock /\ clock' = clock
          /\ r.ts - t <= Lead
      BY <2>2, AdmitReading
    <3>2. \A q \in Requests : granted[q] > 0 => Purged(t)[q] >= Kept(q) \/ clock > Kept(q)
      BY <3>1, PurgeRemembers DEF FreshInv
    <3>3. CASE AdmitReplayed(h) \/ AdmitOverRate(h)
      <4>1. seen' = Purged(t) /\ granted' = granted
        BY <3>3 DEF AdmitReplayed, AdmitOverRate, history
      <4> QED BY <3>1, <3>2, <4>1 DEF Remembered, NoReplay, Kept
    <3>4. CASE AdmitGranted(h)
      <4>1. /\ seen' = [Purged(t) EXCEPT ![r] = t + TTL]
            /\ granted' = [granted EXCEPT ![r] = @ + 1]
        BY <3>4 DEF AdmitGranted
      <4>2. granted[r] = 0 BY <2>2, <3>4, FirstGrant
      <4>3. granted \in [Requests -> Nat] /\ Purged(t) \in [Requests -> Nat \cup {NotSeen}]
        BY PurgedType DEF FreshInv, TypeOK
      <4>4. t + TTL >= Kept(r) BY <3>1, TTLType, TimesAssumption DEF Kept
      <4>5. Remembered' BY <3>1, <3>2, <4>1, <4>3, <4>4 DEF Remembered, Kept
      <4>6. NoReplay' BY <3>1, <4>1, <4>2, <4>3 DEF NoReplay
      <4> QED BY <4>5, <4>6
    <3> QED BY <2>2, <3>3, <3>4 DEF Admit
  <2>3. CASE Restart
    BY <2>3 DEF Restart, Forgotten, Remembered, NoReplay, Zero
  <2>4. CASE Tick
    <3>1. clock' = clock + 1 /\ UNCHANGED <<seen, granted>>
      BY <2>4 DEF Tick, shared, history
    <3>2. clock \in Nat /\ \A r \in Requests : Kept(r) \in Int
      BY RequestFields, TTLType, TimesAssumption DEF FreshInv, TypeOK, Kept
    <3> QED BY <3>1, <3>2 DEF Remembered, NoReplay, Kept
  <2> QED BY <2>1, <2>2, <2>3, <2>4, GuardSteps
<1> QED BY <1>1, <1>2, PTL DEF Spec

(* NoReplay (keyserver.go admit): a process lets a signed request through  *)
(* at most once, provided a handler does not take longer from reading the  *)
(* clock to taking mu than the skew that client clocks leave unused.       *)
THEOREM ReplaySafety ==
  ASSUME StallWithinSkew
  PROVE  Spec => []NoReplay
<1>1. ReplayInv => NoReplay BY DEF ReplayInv
<1> QED BY <1>1, ReplayInvariance, PTL

-----------------------------------------------------------------------------
(* A handler at work: the configuration in force is one it has seen in     *)
(* force, and it has no verdict before a check or the chip gave it one.    *)
SeesInForce == \A h \in Handlers : pc[h] # "idle" => cfg \in inForce[h]

Undecided ==
  \A h \in Handlers : pc[h] \notin {"refused", "event", "reply"} => verdict[h] = "pending"

ServeInv == TypeOK /\ SeesInForce /\ Undecided

LEMMA InitServe == Init => ServeInv
BY InitTypeOK DEF Init, ServeInv, SeesInForce, Undecided, At

LEMMA StepServe == ServeInv /\ [Next]_vars => ServeInv'
<1> SUFFICES ASSUME ServeInv, [Next]_vars PROVE SeesInForce' /\ Undecided'
  BY StepTypeOK DEF ServeInv
<1> USE DEF ServeInv
(* A step of a handler at work, up to its answer.                          *)
<1>a. ASSUME NEW h \in Handlers, pc[h] # "idle", UNCHANGED <<cfg, inForce>>,
             \/ /\ \E step \in {"refused", "event", "reply"} : pc' = [pc EXCEPT ![h] = step]
                /\ \E v : verdict' = [verdict EXCEPT ![h] = v]
             \/ /\ \E step \in Steps : pc' = [pc EXCEPT ![h] = step]
                /\ pc[h] \notin {"refused", "event", "reply"}
                /\ verdict' = verdict
      PROVE  SeesInForce' /\ Undecided'
  BY <1>a DEF SeesInForce, Undecided, TypeOK
<1>1. ASSUME NEW h \in Handlers, NEW r \in Requests, NEW src \in Sources, Arrive(h, r, src)
      PROVE  SeesInForce' /\ Undecided'
  BY <1>1 DEF Arrive, Goto, shared, SeesInForce, Undecided, TypeOK
<1>2. ASSUME NEW h \in Handlers, Lookup(h) PROVE SeesInForce' /\ Undecided'
  <2>1. pc[h] = "arrived" /\ UNCHANGED <<cfg, inForce>> BY <1>2 DEF Lookup, LookUpIn, shared
  <2> QED BY <1>2, <1>a, <2>1 DEF Lookup, LookUpIn, Refuse, Goto, Steps
<1>3. ASSUME NEW h \in Handlers, Check(h) PROVE SeesInForce' /\ Undecided'
  <2>1. pc[h] = "known" /\ UNCHANGED <<cfg, inForce>> BY <1>3 DEF Check, shared
  <2>2. \/ Goto(h, "checked") /\ verdict' = verdict
        \/ \E v : Refuse(h, v)
    BY <1>3 DEF Check
  <2> QED BY <1>a, <2>1, <2>2 DEF Refuse, Goto, Steps
<1>4. ASSUME NEW h \in Handlers, Admit(h) PROVE SeesInForce' /\ Undecided'
  <2>1. pc[h] = "checked" /\ UNCHANGED <<cfg, inForce>> BY <1>4 DEF Admit
  <2> QED BY <1>4, <1>a, <2>1 DEF Admit, AdmitReplayed, AdmitOverRate, AdmitGranted, Refuse,
             Goto, Steps
<1>5. ASSUME NEW h \in Handlers, LockChip(h) \/ RefuseKnown(h) \/ Record(h)
      PROVE  SeesInForce' /\ Undecided'
  <2>1. pc[h] \in {"admitted", "refused", "event"} /\ UNCHANGED <<cfg, inForce, verdict>>
    BY <1>5 DEF LockChip, RefuseKnown, Record, shared, locals
  <2>2. verdict' = [verdict EXCEPT ![h] = verdict[h]] BY <2>1 DEF TypeOK
  <2> QED BY <1>5, <1>a, <2>1, <2>2 DEF LockChip, RefuseKnown, Record, Goto, Steps
<1>6. ASSUME NEW h \in Handlers, Agree(h) PROVE SeesInForce' /\ Undecided'
  BY <1>6, <1>a DEF Agree, AgreeOpens, AgreeErrs, AgreeFails, Refuse, Goto
<1>7. ASSUME NEW h \in Handlers, Reply(h) PROVE SeesInForce' /\ Undecided'
  BY <1>7 DEF Reply, Goto, shared, SeesInForce, Undecided, TypeOK
<1>8. CASE Reload
  BY <1>8 DEF Reload, locals, SeesInForce, Undecided, TypeOK
<1>9. CASE Restart
  BY <1>9 DEF Restart, Forgotten, At, SeesInForce, Undecided
<1>10. CASE Tick \/ UNCHANGED vars
  BY <1>10 DEF Tick, vars, shared, locals, SeesInForce, Undecided
<1> QED BY <1>1, <1>2, <1>3, <1>4, <1>5, <1>6, <1>7, <1>8, <1>9, <1>10 DEF Next, Serve

LEMMA Serving == Spec => []ServeInv
BY InitServe, StepServe, PTL DEF Spec

(* AnswersRecorded (keyserver.go handleUnwrap and record): an answer that   *)
(* is due a line goes out after it unless the events file itself failed,   *)
(* whatever is reloaded meanwhile.                                         *)
THEOREM Recorded == Spec => []AnswersRecorded
<1>1. Init => AnswersRecorded BY DEF Init, AnswersRecorded, Due, At
<1>2. ServeInv /\ AnswersRecorded /\ [Next]_vars => AnswersRecorded'
  <2> SUFFICES ASSUME ServeInv, AnswersRecorded, [Next]_vars PROVE AnswersRecorded'
    OBVIOUS
  <2> USE DEF ServeInv
  (* A handler does anything but come to an answer that is due a line.     *)
  <2>a. ASSUME NEW h \in Handlers, events' = events, inForce' = inForce, lost' = lost,
               \/ \E step \in Steps \ {"reply"} : pc' = [pc EXCEPT ![h] = step]
               \/ verdict'[h] = "error" /\ pc' = [pc EXCEPT ![h] = "reply"],
               \A k \in Handlers \ {h} : req'[k] = req[k] /\ verdict'[k] = verdict[k]
        PROVE  AnswersRecorded'
    BY <2>a DEF AnswersRecorded, Due, Line, TypeOK
  <2>1. ASSUME NEW h \in Handlers, NEW r \in Requests, NEW src \in Sources, Arrive(h, r, src)
        PROVE  AnswersRecorded'
    BY <2>1 DEF Arrive, Goto, shared, AnswersRecorded, Due, Line, TypeOK
  <2>2. ASSUME NEW h \in Handlers, Lookup(h) PROVE AnswersRecorded'
    BY <2>2, <2>a DEF Lookup, LookUpIn, Refuse, Goto, Steps, shared, TypeOK
  <2>3. ASSUME NEW h \in Handlers, Check(h) PROVE AnswersRecorded'
    <3>1. UNCHANGED <<events, inForce, lost, req>> BY <2>3 DEF Check, shared
    <3>2. \/ Goto(h, "checked") /\ verdict' = verdict
          \/ \E v : Refuse(h, v)
      BY <2>3 DEF Check
    <3> QED BY <2>a, <3>1, <3>2 DEF Refuse, Goto, Steps, TypeOK
  <2>4. ASSUME NEW h \in Handlers, Admit(h) PROVE AnswersRecorded'
    BY <2>4, <2>a DEF Admit, AdmitReplayed, AdmitOverRate, AdmitGranted, Refuse, Goto, Steps,
       TypeOK
  <2>5. ASSUME NEW h \in Handlers, LockChip(h) PROVE AnswersRecorded'
    BY <2>5, <2>a DEF LockChip, Goto, Steps, locals
  <2>6. ASSUME NEW h \in Handlers, Agree(h) PROVE AnswersRecorded'
    <3>1. UNCHANGED <<events, inForce, lost, req>> BY <2>6 DEF Agree
    <3>2. \/ \E v : verdict' = [verdict EXCEPT ![h] = v] /\ Goto(h, "event")
          \/ \E v : Refuse(h, v)
          \/ verdict' = [verdict EXCEPT ![h] = "error"] /\ Goto(h, "reply")
      BY <2>6 DEF Agree, AgreeOpens, AgreeErrs, AgreeFails
    <3> QED BY <2>a, <3>1, <3>2 DEF Refuse, Goto, Steps, TypeOK
  <2>7. ASSUME NEW h \in Handlers, RefuseKnown(h) PROVE AnswersRecorded'
    <3>1. cfg \in inForce[h] BY <2>7 DEF RefuseKnown, SeesInForce
    <3> QED BY <2>7, <3>1 DEF RefuseKnown, Goto, shared, locals, AnswersRecorded, Due, Line,
            TypeOK
  <2>8. ASSUME NEW h \in Handlers, Record(h) PROVE AnswersRecorded'
    <3>1. cfg \in inForce[h] BY <2>8 DEF Record, SeesInForce
    <3>2. /\ events \subseteq events' /\ lost \subseteq lost'
          /\ \/ Line(h) \in events' \/ h \in lost' \/ ~ cfg.events
      BY <2>8 DEF Record, AppendLine, AppendFails
    <3>3. UNCHANGED <<inForce, req, verdict>> /\ pc' = [pc EXCEPT ![h] = "reply"]
      BY <2>8 DEF Record, Goto
    <3> QED BY <3>1, <3>2, <3>3 DEF AnswersRecorded, Due, Line, TypeOK
  <2>9. ASSUME NEW h \in Handlers, Reply(h) PROVE AnswersRecorded'
    BY <2>9 DEF Reply, Goto, shared, AnswersRecorded, Due, Line, TypeOK
  <2>10. CASE Reload
    BY <2>10 DEF Reload, locals, AnswersRecorded, Due, Line, TypeOK
  <2>11. CASE Restart
    BY <2>11 DEF Restart, Forgotten, At, AnswersRecorded, Due
  <2>12. CASE Tick \/ UNCHANGED vars
    BY <2>12 DEF Tick, vars, shared, locals, AnswersRecorded, Due, Line
  <2> QED BY <2>1, <2>2, <2>3, <2>4, <2>5, <2>6, <2>7, <2>8, <2>9, <2>10, <2>11, <2>12
          DEF Next, Serve
<1> QED BY <1>1, <1>2, Serving, PTL DEF Spec

(* The entry a handler copied belongs to one configuration it has seen in  *)
(* force.                                                                  *)
EntryInForce ==
  \A h \in Handlers : pc[h] = "known" =>
    \E c \in inForce[h] : req[h].app \in c.apps /\ app[h] = Entry(c, req[h].app)

AuthInv == ServeInv /\ EntryInForce /\ AuthorisedInForce

(* AuthorisedInForce (keyserver.go unwrap): no reload makes a handler judge *)
(* a request by a mixture of two allowlists, or by one that was not in     *)
(* force while it served the request.                                      *)
THEOREM Authorised == Spec => []AuthorisedInForce
<1>1. Init => EntryInForce /\ AuthorisedInForce
  BY DEF Init, EntryInForce, AuthorisedInForce, At
<1>2. AuthInv /\ [Next]_vars => EntryInForce' /\ AuthorisedInForce'
  <2> SUFFICES ASSUME AuthInv, [Next]_vars PROVE EntryInForce' /\ AuthorisedInForce'
    OBVIOUS
  <2> USE DEF AuthInv, ServeInv
  (* A step that makes no new claim about a request's authorisation.       *)
  <2>a. ASSUME NEW h \in Handlers, UNCHANGED <<req, ip, app, inForce>>,
               \E v : v # "ok" /\ verdict' = [verdict EXCEPT ![h] = v],
               \E step \in Steps \ {"known", "checked", "admitted", "chip"} :
                  pc' = [pc EXCEPT ![h] = step]
        PROVE  EntryInForce' /\ AuthorisedInForce'
    BY <2>a DEF EntryInForce, AuthorisedInForce, TypeOK
  (* A step that keeps the claim already made.                             *)
  <2>b. ASSUME NEW h \in Handlers, UNCHANGED <<req, ip, app, inForce>>,
               \/ verdict' = verdict
               \/ pc[h] = "chip" /\ \E v : verdict' = [verdict EXCEPT ![h] = v],
               \/ \E step \in Steps \ {"known", "checked", "admitted", "chip"} :
                     pc' = [pc EXCEPT ![h] = step]
               \/ /\ pc[h] \in {"checked", "admitted"}
                  /\ \E step \in {"admitted", "chip"} : pc' = [pc EXCEPT ![h] = step]
        PROVE  EntryInForce' /\ AuthorisedInForce'
    BY <2>b DEF EntryInForce, AuthorisedInForce, TypeOK
  <2>1. ASSUME NEW h \in Handlers, NEW r \in Requests, NEW src \in Sources, Arrive(h, r, src)
        PROVE  EntryInForce' /\ AuthorisedInForce'
    <3>1. verdict[h] = "pending" BY <2>1 DEF Arrive, Undecided
    <3> QED BY <2>1, <3>1 DEF Arrive, Goto, EntryInForce, AuthorisedInForce, TypeOK
  <2>2. ASSUME NEW h \in Handlers, Lookup(h) PROVE EntryInForce' /\ AuthorisedInForce'
    <3>1. /\ cfg \in inForce[h] /\ verdict[h] = "pending"
          /\ UNCHANGED <<req, ip, inForce>>
      BY <2>2 DEF Lookup, LookUpIn, SeesInForce, Undecided
    <3>2. CASE Goto(h, "known") /\ verdict' = verdict /\ req[h].app \in cfg.apps
               /\ app' = [app EXCEPT ![h] = Entry(cfg, req[h].app)]
      <4>1. EntryInForce' BY <3>1, <3>2 DEF Goto, EntryInForce, TypeOK
      <4>2. AuthorisedInForce' BY <3>1, <3>2 DEF Goto, AuthorisedInForce, TypeOK
      <4> QED BY <4>1, <4>2
    <3>3. CASE Refuse(h, "unknown app") /\ UNCHANGED app
      BY <2>a, <3>1, <3>3 DEF Refuse, Goto, Steps
    <3> QED BY <2>2, <3>2, <3>3 DEF Lookup, LookUpIn
  <2>3. ASSUME NEW h \in Handlers, Check(h) PROVE EntryInForce' /\ AuthorisedInForce'
    <3>1. pc[h] = "known" /\ UNCHANGED <<req, ip, app, inForce>> BY <2>3 DEF Check
    <3>2. CASE Goto(h, "checked") /\ verdict' = verdict
               /\ CheckVerdict(req[h], app[h], ip[h], clock) = "ok"
      <4>1. req[h].key = app[h].key /\ AddressAllowed(app[h], ip[h])
        BY <3>2 DEF CheckVerdict
      <4>2. PICK c \in inForce[h] : req[h].app \in c.apps /\ app[h] = Entry(c, req[h].app)
        BY <3>1 DEF EntryInForce
      <4>3. app[h].key = c.key[req[h].app] BY <4>2 DEF Entry
      <4>4. Authorises(c, req[h], ip[h]) BY <4>1, <4>2, <4>3 DEF Authorises
      <4> HIDE DEF Authorises
      <4>5. AuthorisedInForce' BY <3>1, <3>2, <4>4 DEF Goto, AuthorisedInForce, TypeOK
      <4>6. EntryInForce' BY <3>1, <3>2 DEF Goto, EntryInForce, TypeOK
      <4> QED BY <4>5, <4>6
    <3>3. CASE \E v : v # "ok" /\ Refuse(h, v)
      BY <2>a, <3>1, <3>3 DEF Refuse, Goto, Steps
    <3> QED BY <2>3, <3>2, <3>3 DEF Check
  <2>4. ASSUME NEW h \in Handlers, Admit(h) PROVE EntryInForce' /\ AuthorisedInForce'
    <3>1. pc[h] = "checked" /\ UNCHANGED <<req, ip, app, inForce>> BY <2>4 DEF Admit
    <3>2. CASE AdmitGranted(h) BY <2>b, <3>1, <3>2 DEF AdmitGranted, Goto
    <3>3. CASE AdmitReplayed(h) \/ AdmitOverRate(h)
      BY <2>a, <3>1, <3>3 DEF AdmitReplayed, AdmitOverRate, Refuse, Goto, Steps
    <3> QED BY <2>4, <3>2, <3>3 DEF Admit
  <2>5. ASSUME NEW h \in Handlers, LockChip(h) PROVE EntryInForce' /\ AuthorisedInForce'
    BY <2>5, <2>b DEF LockChip, Goto, locals
  <2>6. ASSUME NEW h \in Handlers, Agree(h) PROVE EntryInForce' /\ AuthorisedInForce'
    BY <2>6, <2>b DEF Agree, AgreeOpens, AgreeErrs, AgreeFails, Refuse, Goto, Steps
  <2>7. ASSUME NEW h \in Handlers, RefuseKnown(h) \/ Record(h)
        PROVE  EntryInForce' /\ AuthorisedInForce'
    <3>1. UNCHANGED <<req, ip, app, inForce, verdict>>
      BY <2>7 DEF RefuseKnown, Record, locals
    <3> QED BY <2>7, <2>b, <3>1 DEF RefuseKnown, Record, Goto, Steps
  <2>8. ASSUME NEW h \in Handlers, Reply(h) PROVE EntryInForce' /\ AuthorisedInForce'
    BY <2>8 DEF Reply, Goto, EntryInForce, AuthorisedInForce, TypeOK
  <2>9. CASE Reload
    <3>1. \A h \in Handlers : inForce[h] \subseteq inForce'[h]
      BY <2>9 DEF Reload, TypeOK
    <3>2. UNCHANGED <<pc, req, ip, app, verdict>> BY <2>9 DEF Reload, locals
    <3> QED BY <3>1, <3>2 DEF EntryInForce, AuthorisedInForce
  <2>10. CASE Restart
    BY <2>10 DEF Restart, Forgotten, At, EntryInForce, AuthorisedInForce
  <2>11. CASE Tick \/ UNCHANGED vars
    <3>1. UNCHANGED <<pc, req, ip, app, verdict, inForce>>
      BY <2>11 DEF Tick, vars, shared, locals
    <3> QED BY <3>1 DEF EntryInForce, AuthorisedInForce
  <2> QED BY <2>1, <2>2, <2>3, <2>4, <2>5, <2>6, <2>7, <2>8, <2>9, <2>10, <2>11
          DEF Next, Serve
<1>3. ServeInv /\ EntryInForce /\ AuthorisedInForce <=> AuthInv BY DEF AuthInv
<1> QED BY <1>1, <1>2, <1>3, Serving, PTL DEF Spec

-----------------------------------------------------------------------------
(* What the guard holds, this process let through.                         *)
SeenGranted == \A r \in Requests : seen[r] # NotSeen => granted[r] > 0

LEMMA PurgedSeen ==
  ASSUME TypeOK, SeenGranted, NEW t, NEW r \in Requests, Purged(t)[r] # NotSeen
  PROVE  granted[r] > 0
BY DEF Purged, SeenGranted

(* ReplayRefusalJustified (keyserver.go admit): a client is told of a      *)
(* replay only about a request that this process let through before.       *)
THEOREM ReplayRefusals == Spec => []ReplayRefusalJustified
<1> DEFINE Inv == ServeInv /\ SeenGranted /\ ReplayRefusalJustified
<1>1. Init => SeenGranted /\ ReplayRefusalJustified
  BY DEF Init, SeenGranted, ReplayRefusalJustified, At, NothingSeen
<1>2. Inv /\ [Next]_vars => SeenGranted' /\ ReplayRefusalJustified'
  <2> SUFFICES ASSUME Inv, [Next]_vars PROVE SeenGranted' /\ ReplayRefusalJustified'
    OBVIOUS
  <2> USE DEF ServeInv
  (* A step that calls nothing a replay and leaves the guard alone.        *)
  <2>a. ASSUME NEW h \in Handlers, UNCHANGED <<req, seen, granted>>,
               verdict' = verdict \/ \E v : v # "replayed" /\ verdict' = [verdict EXCEPT ![h] = v]
        PROVE  SeenGranted' /\ ReplayRefusalJustified'
    BY <2>a DEF SeenGranted, ReplayRefusalJustified, TypeOK
  <2>1. ASSUME NEW h \in Handlers, NEW r \in Requests, NEW src \in Sources, Arrive(h, r, src)
        PROVE  SeenGranted' /\ ReplayRefusalJustified'
    <3>1. verdict[h] = "pending" BY <2>1 DEF Arrive, Undecided
    <3> QED BY <2>1, <3>1 DEF Arrive, shared, history, SeenGranted, ReplayRefusalJustified, TypeOK
  <2>2. ASSUME NEW h \in Handlers, Lookup(h) PROVE SeenGranted' /\ ReplayRefusalJustified'
    BY <2>2, <2>a DEF Lookup, LookUpIn, Refuse, shared, history
  <2>3. ASSUME NEW h \in Handlers, Check(h) PROVE SeenGranted' /\ ReplayRefusalJustified'
    <3>1. CheckVerdict(req[h], app[h], ip[h], clock) # "replayed" BY DEF CheckVerdict
    <3> QED BY <2>3, <2>a, <3>1 DEF Check, Refuse, shared, history
  <2>4. ASSUME NEW h \in Handlers, Admit(h) PROVE SeenGranted' /\ ReplayRefusalJustified'
    <3>1. req[h] \in Requests /\ req' = req BY <2>4 DEF Admit, TypeOK
    <3>2. Purged(now[h]) \in [Requests -> Nat \cup {NotSeen}] BY PurgedType
    <3>3. granted \in [Requests -> Nat] BY DEF TypeOK
    <3>4. CASE AdmitReplayed(h)
      <4>1. granted[req[h]] > 0 BY <3>1, <3>4, PurgedSeen DEF AdmitReplayed
      <4>2. seen' = Purged(now[h]) /\ granted' = granted BY <3>4 DEF AdmitReplayed, history
      <4>3. SeenGranted' BY <4>2, PurgedSeen DEF SeenGranted
      <4> QED BY <3>1, <3>4, <4>1, <4>2, <4>3
              DEF AdmitReplayed, Refuse, ReplayRefusalJustified, TypeOK
    <3>5. CASE AdmitOverRate(h)
      <4>1. seen' = Purged(now[h]) /\ granted' = granted BY <3>5 DEF AdmitOverRate, history
      <4>2. SeenGranted' BY <4>1, PurgedSeen DEF SeenGranted
      <4> QED BY <3>1, <3>5, <4>1, <4>2
              DEF AdmitOverRate, Refuse, ReplayRefusalJustified, TypeOK
    <3>6. CASE AdmitGranted(h)
      <4>1. /\ seen' = [Purged(now[h]) EXCEPT ![req[h]] = now[h] + TTL]
            /\ granted' = [granted EXCEPT ![req[h]] = @ + 1]
            /\ verdict' = verdict
        BY <3>6 DEF AdmitGranted
      <4>2. \A r \in Requests : granted'[r] >= granted[r] /\ granted'[req[h]] > 0
        BY <3>1, <3>3, <4>1
      <4>3. SeenGranted' BY <3>1, <3>2, <3>3, <4>1, <4>2, PurgedSeen DEF SeenGranted
      <4>4. \A k \in Handlers : verdict[k] = "replayed" => req[k] \in Requests
        BY DEF Undecided, TypeOK
      <4>5. ReplayRefusalJustified'
        BY <3>1, <3>3, <4>1, <4>2, <4>4 DEF ReplayRefusalJustified
      <4> QED BY <4>3, <4>5
    <3> QED BY <2>4, <3>4, <3>5, <3>6 DEF Admit
  <2>5. ASSUME NEW h \in Handlers, LockChip(h) \/ RefuseKnown(h) \/ Record(h)
        PROVE  SeenGranted' /\ ReplayRefusalJustified'
    BY <2>5, <2>a DEF LockChip, RefuseKnown, Record, shared, locals, history
  <2>6. ASSUME NEW h \in Handlers, Agree(h) PROVE SeenGranted' /\ ReplayRefusalJustified'
    BY <2>6, <2>a DEF Agree, AgreeOpens, AgreeErrs, AgreeFails, Refuse, history
  <2>7. ASSUME NEW h \in Handlers, Reply(h) PROVE SeenGranted' /\ ReplayRefusalJustified'
    BY <2>7 DEF Reply, shared, SeenGranted, ReplayRefusalJustified, TypeOK
  <2>8. CASE Restart
    BY <2>8 DEF Restart, Forgotten, At, NothingSeen, SeenGranted, ReplayRefusalJustified
  <2>9. CASE Reload \/ Tick \/ UNCHANGED vars
    BY <2>9 DEF Reload, Tick, vars, shared, locals, history, SeenGranted,
       ReplayRefusalJustified
  <2> QED BY <2>1, <2>2, <2>3, <2>4, <2>5, <2>6, <2>7, <2>8, <2>9 DEF Next, Serve
<1> QED BY <1>1, <1>2, Serving, PTL DEF Spec

-----------------------------------------------------------------------------
(* A request between its admission and the answer that carries its key.    *)
InFlight(h) == pc[h] \in {"admitted", "chip"} \/ verdict[h] = "ok"

OnceInFlight ==
  /\ \A h \in Handlers : InFlight(h) => granted[req[h]] = 1 /\ released[req[h]] = 0
  /\ \A h, k \in Handlers : InFlight(h) /\ InFlight(k) /\ h # k => req[h] # req[k]
  /\ \A r \in Requests : granted[r] = 0 => released[r] = 0

OnceInv == ReplayInv /\ ServeInv /\ OnceInFlight

LEMMA InFlightServes ==
  ASSUME ServeInv, NEW h \in Handlers, InFlight(h)
  PROVE  pc[h] # "idle" /\ req[h] \in Requests
BY DEF ServeInv, Undecided, InFlight, TypeOK

(* A step that lets nothing through and answers nothing keeps OnceInFlight, *)
(* provided it puts no request in flight that was not.                     *)
LEMMA OnceQuiet ==
  ASSUME ServeInv, OnceInFlight, UNCHANGED <<granted, released>>,
         \A h \in Handlers : InFlight(h)' => InFlight(h) /\ req'[h] = req[h]
  PROVE  OnceInFlight'
BY InFlightServes DEF OnceInFlight

(* The admission and the answer are the only steps the promise sees.       *)
LEMMA Admission ==
  ASSUME StallWithinSkew, OnceInv, NEW h \in Handlers, Admit(h), AdmitGranted(h)
  PROVE  OnceInFlight' /\ Promise!Grant(req[h])
<1> DEFINE r == req[h]
<1>1. r \in Requests /\ req' = req BY DEF Admit, OnceInv, ServeInv, TypeOK
<1>2. granted[r] = 0 BY FirstGrant DEF OnceInv
<1>3. /\ granted' = [granted EXCEPT ![r] = 1] /\ UNCHANGED <<verdict, released>>
      /\ pc' = [pc EXCEPT ![h] = "admitted"] /\ pc[h] = "checked"
  BY <1>2 DEF Admit, AdmitGranted, Goto, OnceInv, ServeInv, TypeOK
<1>4. Promise!Grant(r) BY <1>2, <1>3 DEF Promise!Grant
<1>5. granted \in [Requests -> Nat] /\ pc \in [Handlers -> Steps]
  BY DEF OnceInv, ServeInv, TypeOK
<1>6. \A k \in Handlers : InFlight(k) => req[k] \in Requests /\ req[k] # r
  BY <1>2, InFlightServes DEF OnceInFlight, OnceInv
<1>7. \A k \in Handlers \ {h} : InFlight(k)' => InFlight(k)
  BY <1>3, <1>5 DEF InFlight
<1>8. released[r] = 0 BY <1>1, <1>2 DEF OnceInFlight, OnceInv
<1> HIDE DEF r
<1>9. OnceInFlight'
  <2>1. ASSUME NEW k \in Handlers, InFlight(k)'
        PROVE  granted'[req[k]] = 1 /\ released[req[k]] = 0
    BY <1>1, <1>3, <1>5, <1>6, <1>7, <1>8, <2>1 DEF OnceInFlight, OnceInv, r
  <2>2. ASSUME NEW k \in Handlers, NEW l \in Handlers, InFlight(k)', InFlight(l)', k # l
        PROVE  req[k] # req[l]
    BY <1>6, <1>7, <2>2 DEF OnceInFlight, OnceInv, r
  <2>3. \A q \in Requests : granted'[q] = 0 => released[q] = 0
    BY <1>3, <1>5 DEF OnceInFlight, OnceInv
  <2> QED BY <1>1, <1>3, <2>1, <2>2, <2>3 DEF OnceInFlight
<1> QED BY <1>4, <1>9 DEF r

LEMMA Answer ==
  ASSUME OnceInv, NEW h \in Handlers, Reply(h)
  PROVE  /\ OnceInFlight'
         /\ \/ Promise!Release(req[h]) /\ req[h] \in Requests
            \/ UNCHANGED <<granted, released>>
<1> DEFINE r == req[h]
<1>1. /\ r \in Requests /\ granted' = granted
      /\ pc' = [pc EXCEPT ![h] = "idle"]
      /\ req' = [req EXCEPT ![h] = NoRequest]
      /\ verdict' = [verdict EXCEPT ![h] = "pending"]
      /\ released' = IF verdict[h] = "ok" THEN [released EXCEPT ![r] = @ + 1] ELSE released
  BY DEF Reply, Goto, OnceInv, ServeInv, TypeOK
<1>2. /\ pc \in [Handlers -> Steps] /\ verdict \in [Handlers -> Verdicts]
      /\ req \in [Handlers -> Requests \cup {NoRequest}] /\ released \in [Requests -> Nat]
      /\ granted \in [Requests -> Nat]
  BY DEF OnceInv, ServeInv, TypeOK
<1>3. ~InFlight(h)' BY <1>1, <1>2 DEF InFlight
<1>4. \A k \in Handlers \ {h} : (InFlight(k)' <=> InFlight(k)) /\ req'[k] = req[k]
  BY <1>1, <1>2 DEF InFlight
<1>5. CASE verdict[h] = "ok"
  <2>1. InFlight(h) BY <1>5 DEF InFlight
  <2>2. granted[r] = 1 /\ released[r] = 0 BY <2>1 DEF OnceInv, OnceInFlight
  <2>3. released' = [released EXCEPT ![r] = 1] BY <1>1, <1>2, <1>5, <2>2
  <2>4. Promise!Release(r) BY <1>1, <2>2, <2>3 DEF Promise!Release
  <2>5. \A k \in Handlers \ {h} : InFlight(k) => req[k] \in Requests /\ req[k] # r
    BY <2>1, InFlightServes DEF OnceInv, OnceInFlight
  <2> HIDE DEF r
  <2>6. OnceInFlight'
    <3>1. \A k \in Handlers : InFlight(k)' => granted'[req'[k]] = 1 /\ released'[req'[k]] = 0
      BY <1>1, <1>2, <1>3, <1>4, <2>3, <2>5 DEF OnceInv, OnceInFlight
    <3>2. \A k, l \in Handlers : InFlight(k)' /\ InFlight(l)' /\ k # l => req'[k] # req'[l]
      BY <1>3, <1>4 DEF OnceInv, OnceInFlight
    <3>3. \A q \in Requests : granted'[q] = 0 => released'[q] = 0
      BY <1>1, <1>2, <2>2, <2>3 DEF OnceInv, OnceInFlight
    <3> QED BY <3>1, <3>2, <3>3 DEF OnceInFlight
  <2> QED BY <1>1, <2>4, <2>6 DEF r
<1>6. CASE verdict[h] # "ok"
  <2>1. UNCHANGED <<granted, released>> BY <1>1, <1>6
  <2> QED BY <1>3, <1>4, <2>1, OnceQuiet DEF OnceInv
<1> QED BY <1>5, <1>6

LEMMA StepOnce ==
  ASSUME StallWithinSkew, OnceInv, [Next]_vars
  PROVE  OnceInFlight' /\ [Promise!Next]_<<granted, released>>
<1> USE DEF OnceInv
<1>t. /\ pc \in [Handlers -> Steps] /\ verdict \in [Handlers -> Verdicts]
      /\ req \in [Handlers -> Requests \cup {NoRequest}]
  BY DEF ServeInv, TypeOK
(* A step of one handler that is not an admission nor an answer.           *)
<1>a. ASSUME NEW h \in Handlers, UNCHANGED <<granted, released>>,
             InFlight(h)' => InFlight(h) /\ req'[h] = req[h],
             \A k \in Handlers \ {h} :
                pc'[k] = pc[k] /\ verdict'[k] = verdict[k] /\ req'[k] = req[k]
      PROVE  OnceInFlight' /\ [Promise!Next]_<<granted, released>>
  <2>1. \A k \in Handlers : InFlight(k)' => InFlight(k) /\ req'[k] = req[k]
    BY <1>a DEF InFlight
  <2> QED BY <1>a, <2>1, OnceQuiet
<1>1. ASSUME NEW h \in Handlers, NEW r \in Requests, NEW src \in Sources, Arrive(h, r, src)
      PROVE  OnceInFlight' /\ [Promise!Next]_<<granted, released>>
  <2>1. verdict[h] = "pending" BY <1>1 DEF Arrive, ServeInv, Undecided
  <2> QED BY <1>1, <1>a, <1>t, <2>1 DEF Arrive, Goto, history, InFlight
<1>2. ASSUME NEW h \in Handlers, Lookup(h)
      PROVE  OnceInFlight' /\ [Promise!Next]_<<granted, released>>
  <2>1. verdict[h] = "pending" BY <1>2 DEF Lookup, LookUpIn, ServeInv, Undecided
  <2> QED BY <1>2, <1>a, <1>t, <2>1 DEF Lookup, LookUpIn, Refuse, Goto, history, InFlight
<1>3. ASSUME NEW h \in Handlers, Check(h)
      PROVE  OnceInFlight' /\ [Promise!Next]_<<granted, released>>
  <2>1. verdict[h] = "pending" BY <1>3 DEF Check, ServeInv, Undecided
  <2>2. UNCHANGED <<req, granted, released>> BY <1>3 DEF Check, history
  <2>3. \/ Goto(h, "checked") /\ verdict' = verdict
        \/ \E v : v # "ok" /\ Refuse(h, v)
    BY <1>3 DEF Check
  <2> QED BY <1>a, <1>t, <2>1, <2>2, <2>3 DEF Refuse, Goto, InFlight
<1>4. ASSUME NEW h \in Handlers, Admit(h)
      PROVE  OnceInFlight' /\ [Promise!Next]_<<granted, released>>
  <2>1. CASE AdmitGranted(h)
    <3>1. req[h] \in Requests BY <1>4 DEF Admit, ServeInv, TypeOK
    <3> QED BY <1>4, <2>1, <3>1, Admission DEF Promise!Next
  <2>2. CASE AdmitReplayed(h) \/ AdmitOverRate(h)
    BY <1>4, <1>a, <1>t, <2>2 DEF Admit, AdmitReplayed, AdmitOverRate, Refuse, Goto, history,
       InFlight
  <2> QED BY <1>4, <2>1, <2>2 DEF Admit
<1>5. ASSUME NEW h \in Handlers, LockChip(h) \/ Agree(h)
      PROVE  OnceInFlight' /\ [Promise!Next]_<<granted, released>>
  BY <1>5, <1>a, <1>t DEF LockChip, Agree, AgreeOpens, AgreeErrs, AgreeFails, Refuse, Goto, locals,
     history, InFlight
<1>6. ASSUME NEW h \in Handlers, RefuseKnown(h) \/ Record(h)
      PROVE  OnceInFlight' /\ [Promise!Next]_<<granted, released>>
  BY <1>6, <1>a, <1>t DEF RefuseKnown, Record, Goto, locals, history, InFlight
<1>7. ASSUME NEW h \in Handlers, Reply(h)
      PROVE  OnceInFlight' /\ [Promise!Next]_<<granted, released>>
  BY <1>7, Answer DEF Promise!Next
<1>8. CASE Restart
  BY <1>8 DEF Restart, Forgotten, At, Zero, OnceInFlight, InFlight, Promise!Next, Promise!Forget
<1>9. CASE Reload \/ Tick \/ UNCHANGED vars
  <2>1. UNCHANGED <<pc, req, verdict, granted, released>>
    BY <1>9 DEF Reload, Tick, vars, shared, locals, history
  <2> QED BY <2>1, OnceQuiet DEF InFlight
<1> QED BY <1>1, <1>2, <1>3, <1>4, <1>5, <1>6, <1>7, <1>8, <1>9 DEF Next, Serve

(* ImplementsUnlockOnce (keyserver.go unwrap): in one run of the process a *)
(* signed request is let through once, and its bundle key leaves the       *)
(* server once, whichever handlers race and whatever is sent again.        *)
THEOREM Refinement ==
  ASSUME StallWithinSkew
  PROVE  Spec => ImplementsUnlockOnce
<1>1. Init => OnceInFlight /\ Promise!Init
  BY DEF Init, OnceInFlight, InFlight, At, Zero, Promise!Init
<1>2. OnceInv /\ [Next]_vars => OnceInFlight' /\ [Promise!Next]_<<granted, released>>
  BY StepOnce
<1>3. ReplayInv /\ ServeInv /\ OnceInFlight <=> OnceInv BY DEF OnceInv
<1> QED
  BY <1>1, <1>2, <1>3, ReplayInvariance, Serving, PTL
  DEF Spec, ImplementsUnlockOnce, Promise!Spec, Promise!promise

-----------------------------------------------------------------------------
(* Counting: a set of requests against a set of entries that name them.    *)
LEMMA EachHasEntry ==
  ASSUME NEW S, NEW E, IsFiniteSet(E), \A q \in S : \E e \in E : e.req = q
  PROVE  IsFiniteSet(S) /\ Cardinality(S) <= Cardinality(E)
<1> DEFINE f == [q \in S |-> CHOOSE e \in E : e.req = q]
<1>1. \A q \in S : f[q] \in E /\ f[q].req = q OBVIOUS
<1>2. f \in [S -> E] BY <1>1
<1> HIDE DEF f
<1>3. f \in Injection(S, E) BY <1>1, <1>2 DEF Injection, IsInjective
<1> QED BY <1>3, FS_Injection

LEMMA EachNamesOther ==
  ASSUME NEW S, NEW E, IsFiniteSet(S), \A e \in E : e.req \in S,
         \A e, g \in E : e.req = g.req => e = g
  PROVE  IsFiniteSet(E) /\ Cardinality(E) <= Cardinality(S)
<1> DEFINE f == [e \in E |-> e.req]
<1>1. f \in Injection(E, S) BY DEF Injection, IsInjective
<1> HIDE DEF f
<1> QED BY <1>1, FS_Injection

(* A request stays in its app's table as long as it counts: its entry's    *)
(* time is older than the admission by no more than MaxStall, and a table  *)
(* is pruned with a reading that is not ahead of the clock.                *)
Counts(r) == grantedAt[r] # Never /\ clock - grantedAt[r] < Minute - MaxStall

RateKept ==
  \A r \in Requests :
    Counts(r) => \E e \in rate[r.app] : e.req = r /\ grantedAt[r] - e.t <= MaxStall

RateFinite == \A a \in AppNames : IsFiniteSet(rate[a])

RateInv == FreshInv /\ RateKept /\ RateFinite /\ RateBound

LEMMA WithinFinite ==
  ASSUME RateInv, NEW a \in AppNames
  PROVE  IsFiniteSet(GrantedWithin(a, Minute - MaxStall))
<1>1. \A q \in GrantedWithin(a, Minute - MaxStall) : \E e \in rate[a] : e.req = q
  BY DEF RateInv, RateKept, Counts, GrantedWithin
<1>2. IsFiniteSet(rate[a]) BY DEF RateInv, RateFinite
<1> QED BY <1>1, <1>2, EachHasEntry

LEMMA RecentFinite ==
  ASSUME RateFinite, NEW a \in AppNames, NEW t
  PROVE  IsFiniteSet(Recent(a, t))
BY FS_Subset DEF RateFinite, Recent

(* What counts is still there after the table is pruned by an admission.   *)
LEMMA RecentKept ==
  ASSUME RateInv, NEW h \in Handlers, Admit(h), NEW r \in Requests, Counts(r),
         r.app = req[h].app
  PROVE  \E e \in Recent(req[h].app, now[h]) : e.req = r /\ grantedAt[r] - e.t <= MaxStall
<1>1. PICK e \in rate[r.app] : e.req = r /\ grantedAt[r] - e.t <= MaxStall
  BY DEF RateInv, RateKept
<1>2. /\ now[h] \in Nat /\ clock \in Nat /\ now[h] <= clock /\ grantedAt[r] \in Int
      /\ req[h].app \in AppNames
  BY AdmitReading DEF RateInv, FreshInv, TypeOK
<1>3. e.t \in Nat BY <1>1, <1>2 DEF RateInv, FreshInv, TypeOK
<1>4. now[h] - e.t < Minute
  BY <1>1, <1>2, <1>3, TimesAssumption DEF Counts
<1> QED BY <1>1, <1>4 DEF Recent

LEMMA StepRate == RateInv /\ [Next]_vars => RateKept' /\ RateFinite' /\ RateBound'
<1> SUFFICES ASSUME RateInv, [Next]_vars PROVE RateKept' /\ RateFinite' /\ RateBound'
  OBVIOUS
<1>1. CASE UNCHANGED <<clock, seen, rate, granted, grantedAt>>
  BY <1>1 DEF RateInv, RateKept, RateFinite, RateBound, Counts, GrantedWithin
<1>2. ASSUME NEW h \in Handlers, Admit(h) PROVE RateKept' /\ RateFinite' /\ RateBound'
  <2> DEFINE r == req[h]
             recent == Recent(r.app, now[h])
             entry == [req |-> r, t |-> now[h]]
  <2>1. /\ r \in Requests /\ r.app \in AppNames /\ now[h] \in Nat /\ clock \in Nat
        /\ now[h] <= clock /\ clock - now[h] <= MaxStall /\ clock' = clock
        /\ \A q \in Requests : q.app \in AppNames
    BY <1>2, AdmitReading, RequestFields DEF RateInv
  <2>2. IsFiniteSet(recent) BY <2>1, RecentFinite DEF RateInv
  <2>3. /\ rate \in [AppNames -> SUBSET [req : Requests, t : Nat]]
        /\ grantedAt \in [Requests -> Nat \cup {Never}]
    BY DEF RateInv, FreshInv, TypeOK
  <2>4. \A q \in Requests : Counts(q) /\ q.app = r.app
          => \E e \in recent : e.req = q /\ grantedAt[q] - e.t <= MaxStall
    BY <1>2, RecentKept
  <2>5. CASE AdmitReplayed(h)
    BY <2>1, <2>5 DEF AdmitReplayed, history, RateInv, RateKept, RateFinite, RateBound, Counts,
       GrantedWithin
  <2>6. CASE AdmitOverRate(h)
    <3>1. rate' = [rate EXCEPT ![r.app] = recent] /\ grantedAt' = grantedAt
      BY <2>6 DEF AdmitOverRate, history
    <3> HIDE DEF r, recent
    <3>2. RateKept' BY <2>1, <2>3, <2>4, <3>1 DEF RateInv, RateKept, Counts
    <3>3. RateFinite' BY <2>1, <2>2, <2>3, <3>1 DEF RateInv, RateFinite
    <3>4. RateBound' BY <2>1, <3>1 DEF RateInv, RateBound, GrantedWithin
    <3> QED BY <3>2, <3>3, <3>4
  <2>7. CASE AdmitGranted(h)
    <3>1. /\ rate' = [rate EXCEPT ![r.app] = recent \cup {entry}]
          /\ grantedAt' = [grantedAt EXCEPT ![r] = clock]
          /\ Cardinality(recent) < RatePerMin
      BY <2>7 DEF AdmitGranted
    <3> HIDE DEF r, recent
    <3>2. IsFiniteSet(recent \cup {entry}) BY <2>2, FS_AddElement
    <3>3. RateFinite' BY <2>1, <2>3, <3>1, <3>2 DEF RateInv, RateFinite
    <3>4. ASSUME NEW q \in Requests, Counts(q)'
          PROVE  \E e \in rate'[q.app] : e.req = q /\ grantedAt'[q] - e.t <= MaxStall
      <4>1. CASE q = r
        <5>1. entry \in rate'[r.app] BY <2>1, <2>3, <3>1
        <5>2. entry.req = r /\ grantedAt'[r] - entry.t <= MaxStall BY <2>1, <2>3, <3>1
        <5> QED BY <4>1, <5>1, <5>2
      <4>2. CASE q # r
        <5>1. grantedAt'[q] = grantedAt[q] /\ Counts(q)
          BY <2>1, <2>3, <3>1, <3>4, <4>2 DEF Counts
        <5>2. CASE q.app = r.app
          <6>1. rate'[q.app] = recent \cup {entry} BY <2>1, <2>3, <3>1, <5>2
          <6> QED BY <2>4, <5>1, <5>2, <6>1
        <5>3. CASE q.app # r.app
          <6>1. rate'[q.app] = rate[q.app] BY <2>1, <2>3, <3>1, <5>3
          <6> QED BY <5>1, <6>1 DEF RateInv, RateKept
        <5> QED BY <5>2, <5>3
      <4> QED BY <4>1, <4>2
    <3>5. RateKept' BY <3>4 DEF RateKept
    <3>6. ASSUME NEW a \in AppNames
          PROVE  Cardinality(GrantedWithin(a, Minute - MaxStall)') <= RatePerMin
      <4> DEFINE S == GrantedWithin(a, Minute - MaxStall)
                 T == S \ {r}
      <4>1. S' \subseteq T \cup {r} /\ (a # r.app => S' = S)
        BY <2>1, <2>3, <3>1 DEF GrantedWithin
      <4>2. CASE a # r.app BY <4>1, <4>2 DEF RateInv, RateBound
      <4>3. CASE a = r.app
        <5>1. \A q \in T : \E e \in recent : e.req = q
          BY <2>4, <4>3 DEF GrantedWithin, Counts
        <5> HIDE DEF S, T
        <5>2. IsFiniteSet(T) /\ Cardinality(T) <= Cardinality(recent)
          BY <2>2, <5>1, EachHasEntry
        <5>a. Cardinality(T) \in Nat /\ Cardinality(recent) \in Nat
          BY <2>2, <5>2, FS_CardinalityType
        <5>b. IsFiniteSet(T \cup {r})
              /\ (\/ Cardinality(T \cup {r}) = Cardinality(T)
                  \/ Cardinality(T \cup {r}) = Cardinality(T) + 1)
          BY <5>2, FS_AddElement
        <5>3. IsFiniteSet(T \cup {r}) /\ Cardinality(T \cup {r}) <= Cardinality(T) + 1
          BY <5>a, <5>b
        <5>4. Cardinality(S') <= Cardinality(T \cup {r}) /\ IsFiniteSet(S')
          BY <4>1, <5>3, FS_Subset
        <5>5. Cardinality(S') \in Nat /\ Cardinality(T \cup {r}) \in Nat
          BY <5>3, <5>4, FS_CardinalityType
        <5>6. Cardinality(S') <= RatePerMin
          BY <3>1, <5>2, <5>3, <5>4, <5>5, <5>a, TimesAssumption
        <5> QED BY <5>6 DEF S
      <4> QED BY <4>2, <4>3
    <3> QED BY <3>3, <3>5, <3>6 DEF RateBound
  <2> QED BY <1>2, <2>5, <2>6, <2>7 DEF Admit
<1>3. CASE Restart
  <2>1. /\ \A r \in Requests : grantedAt'[r] = Never
        /\ \A a \in AppNames : rate'[a] = {}
    BY <1>3 DEF Restart, Forgotten, NotYet, NothingSpent
  <2>2. \A a \in AppNames : GrantedWithin(a, Minute - MaxStall)' = {}
    BY <2>1 DEF GrantedWithin
  <2>3. RateKept' BY <2>1 DEF RateKept, Counts
  <2>4. RateFinite' BY <2>1, FS_EmptySet DEF RateFinite
  <2>5. RateBound' BY <2>2, FS_EmptySet, TimesAssumption DEF RateBound
  <2> QED BY <2>3, <2>4, <2>5
<1>4. CASE Tick
  <2>1. clock' = clock + 1 /\ UNCHANGED <<rate, grantedAt>>
    BY <1>4 DEF Tick, shared, history
  <2>2. /\ clock \in Nat /\ grantedAt \in [Requests -> Nat \cup {Never}]
        /\ \A q \in Requests : q.app \in AppNames
    BY RequestFields DEF RateInv, FreshInv, TypeOK
  <2>3. \A r \in Requests : Counts(r)' => Counts(r)
    BY <2>1, <2>2, TimesAssumption DEF Counts
  <2>4. RateKept' /\ RateFinite' BY <2>1, <2>3 DEF RateInv, RateKept, RateFinite
  <2>5. ASSUME NEW a \in AppNames
        PROVE  Cardinality(GrantedWithin(a, Minute - MaxStall)') <= RatePerMin
    <3> DEFINE S == GrantedWithin(a, Minute - MaxStall)
    <3>1. S' \subseteq S BY <2>1, <2>3 DEF GrantedWithin, Counts
    <3>2. IsFiniteSet(S) BY WithinFinite
    <3>3. Cardinality(S) <= RatePerMin BY DEF RateInv, RateBound
    <3> HIDE DEF S
    <3>4. IsFiniteSet(S') /\ Cardinality(S') <= Cardinality(S) BY <3>1, <3>2, FS_Subset
    <3>5. Cardinality(S) \in Nat /\ Cardinality(S') \in Nat BY <3>2, <3>4, FS_CardinalityType
    <3>6. Cardinality(S') <= RatePerMin BY <3>3, <3>4, <3>5, TimesAssumption
    <3> QED BY <3>6 DEF S
  <2> QED BY <2>4, <2>5 DEF RateBound
<1> QED BY <1>1, <1>2, <1>3, <1>4, GuardSteps

LEMMA InitRate == Init => RateKept /\ RateFinite /\ RateBound
<1> SUFFICES ASSUME Init PROVE RateKept /\ RateFinite /\ RateBound OBVIOUS
<1>1. \A r \in Requests : grantedAt[r] = Never BY DEF Init, NotYet
<1>2. \A a \in AppNames : rate[a] = {} BY DEF Init, NothingSpent
<1>3. \A a \in AppNames : GrantedWithin(a, Minute - MaxStall) = {} BY <1>1 DEF GrantedWithin
<1> QED BY <1>1, <1>2, <1>3, FS_EmptySet, TimesAssumption
        DEF RateKept, RateFinite, RateBound, Counts

(* RateBound (keyserver.go admit): however handlers interleave and tables  *)
(* are pruned, no app gets more than RatePerMin requests to the chip in a  *)
(* minute less the time a clock reading may be old.                        *)
THEOREM RateBounded == Spec => []RateBound
<1>1. FreshInv /\ RateKept /\ RateFinite /\ RateBound <=> RateInv BY DEF RateInv
<1> QED BY <1>1, InitRate, StepRate, Fresh, PTL DEF Spec

-----------------------------------------------------------------------------
(* Every entry of the rate table is one request's only admission, no later *)
(* than the clock showed at that moment.                                   *)
ChargedOnce ==
  /\ IsFiniteSet({r \in Requests : grantedAt[r] # Never})
  /\ \A a \in AppNames : \A e \in rate[a] :
       /\ e.req.app = a /\ granted[e.req] > 0
       /\ grantedAt[e.req] # Never /\ e.t <= grantedAt[e.req]
       /\ \A g \in rate[a] : e.req = g.req => e = g

LEMMA StepCharged ==
  ASSUME StallWithinSkew, ReplayInv, ChargedOnce, [Next]_vars
  PROVE  ChargedOnce'
<1> DEFINE All == {r \in Requests : grantedAt[r] # Never}
<1>1. CASE UNCHANGED <<clock, seen, rate, granted, grantedAt>>
  BY <1>1 DEF ChargedOnce
<1>2. ASSUME NEW h \in Handlers, Admit(h) PROVE ChargedOnce'
  <2> DEFINE r == req[h]
             recent == Recent(r.app, now[h])
             entry == [req |-> r, t |-> now[h]]
  <2>1. /\ r \in Requests /\ r.app \in AppNames /\ now[h] \in Nat /\ clock \in Nat
        /\ now[h] <= clock
    BY <1>2, AdmitReading DEF ReplayInv
  <2>2. /\ rate \in [AppNames -> SUBSET [req : Requests, t : Nat]]
        /\ granted \in [Requests -> Nat] /\ grantedAt \in [Requests -> Nat \cup {Never}]
    BY DEF ReplayInv, FreshInv, TypeOK
  <2>3. recent \subseteq rate[r.app] BY DEF Recent
  <2>4. CASE AdmitReplayed(h)
    BY <2>4 DEF AdmitReplayed, history, ChargedOnce
  <2>5. CASE AdmitOverRate(h)
    <3>1. /\ rate' = [rate EXCEPT ![r.app] = recent] /\ UNCHANGED <<granted, grantedAt>>
      BY <2>5 DEF AdmitOverRate, history
    <3> HIDE DEF r, recent
    <3>2. \A a \in AppNames : rate'[a] \subseteq rate[a] BY <2>1, <2>2, <2>3, <3>1
    <3> QED BY <3>1, <3>2 DEF ChargedOnce
  <2>6. CASE AdmitGranted(h)
    <3>1. /\ rate' = [rate EXCEPT ![r.app] = recent \cup {entry}]
          /\ granted' = [granted EXCEPT ![r] = @ + 1]
          /\ grantedAt' = [grantedAt EXCEPT ![r] = clock]
      BY <2>6 DEF AdmitGranted
    <3>2. granted[r] = 0 BY <1>2, <2>6, FirstGrant
    <3>3. \A a \in AppNames : \A e \in rate[a] : e.req \in Requests /\ e.req # r
      BY <2>2, <3>2 DEF ChargedOnce
    <3> HIDE DEF r, recent
    <3>4. All' \subseteq All \cup {r} BY <2>1, <2>2, <3>1
    <3>5. IsFiniteSet(All \cup {r}) BY FS_AddElement DEF ChargedOnce
    <3>6. IsFiniteSet(All') BY <3>4, <3>5, FS_Subset
    <3>7. ASSUME NEW a \in AppNames, NEW e \in rate'[a]
          PROVE  e \in rate[a] \/ (a = r.app /\ e = entry)
      BY <2>1, <2>2, <2>3, <3>1
    <3>8. entry.req = r /\ entry.t = now[h] /\ granted'[r] = 1 /\ grantedAt'[r] = clock
      BY <2>1, <2>2, <3>1, <3>2
    <3>9. \A q \in Requests : q # r => granted'[q] = granted[q] /\ grantedAt'[q] = grantedAt[q]
      BY <2>2, <3>1
    <3> HIDE DEF entry
    <3>10. ASSUME NEW a \in AppNames, NEW e \in rate'[a]
           PROVE  /\ e.req.app = a /\ granted'[e.req] > 0
                  /\ grantedAt'[e.req] # Never /\ e.t <= grantedAt'[e.req]
      BY <2>1, <3>3, <3>7, <3>8, <3>9 DEF ChargedOnce
    <3>11. ASSUME NEW a \in AppNames, NEW e \in rate'[a], NEW g \in rate'[a], e.req = g.req
           PROVE  e = g
      BY <3>3, <3>7, <3>8, <3>11 DEF ChargedOnce
    <3> QED BY <3>6, <3>10, <3>11 DEF ChargedOnce
  <2> QED BY <1>2, <2>4, <2>5, <2>6 DEF Admit
<1>3. CASE Restart
  <2>1. All' = {} /\ \A a \in AppNames : rate'[a] = {}
    BY <1>3 DEF Restart, Forgotten, NotYet, NothingSpent
  <2>2. IsFiniteSet(All') BY <2>1, FS_EmptySet
  <2> QED BY <2>1, <2>2 DEF ChargedOnce
<1>4. CASE Tick
  BY <1>4 DEF Tick, shared, history, ChargedOnce
<1> QED BY <1>1, <1>2, <1>3, <1>4, GuardSteps

(* A refusal counts entries of the last minute by a reading that is at     *)
(* most MaxStall old, and every entry stands for one request.              *)
LEMMA OverRateCounts ==
  ASSUME ReplayInv, ChargedOnce, NEW h \in Handlers, Admit(h), AdmitOverRate(h)
  PROVE  Cardinality(GrantedWithin(req[h].app, Minute + MaxStall)) >= RatePerMin
<1> DEFINE a == req[h].app
           recent == Recent(a, now[h])
           S == GrantedWithin(a, Minute + MaxStall)
<1>1. /\ a \in AppNames /\ now[h] \in Nat /\ clock \in Nat /\ now[h] <= clock
      /\ clock - now[h] <= MaxStall
  BY AdmitReading DEF ReplayInv
<1>2. /\ rate \in [AppNames -> SUBSET [req : Requests, t : Nat]]
      /\ grantedAt \in [Requests -> Nat \cup {Never}]
  BY DEF ReplayInv, FreshInv, TypeOK
<1>3. ASSUME NEW e \in recent PROVE e.req \in S
  <2>1. e \in rate[a] /\ now[h] - e.t < Minute BY DEF Recent
  <2>2. /\ e.req \in Requests /\ e.t \in Nat /\ e.req.app = a
        /\ grantedAt[e.req] # Never /\ e.t <= grantedAt[e.req]
    BY <1>1, <1>2, <2>1 DEF ChargedOnce
  <2>3. clock - grantedAt[e.req] < Minute + MaxStall
    BY <1>1, <1>2, <2>1, <2>2, TimesAssumption
  <2> QED BY <2>2, <2>3 DEF GrantedWithin
<1>4. \A e, g \in recent : e.req = g.req => e = g BY <1>1 DEF Recent, ChargedOnce
<1>5. S \subseteq {r \in Requests : grantedAt[r] # Never} BY DEF GrantedWithin
<1>6. IsFiniteSet(S) BY <1>5, FS_Subset DEF ChargedOnce
<1>7. Cardinality(recent) >= RatePerMin BY DEF AdmitOverRate
<1> HIDE DEF recent, S
<1>8. Cardinality(recent) <= Cardinality(S) BY <1>3, <1>4, <1>6, EachNamesOther
<1>9. IsFiniteSet(recent) BY <1>3, <1>4, <1>6, EachNamesOther
<1>10. Cardinality(recent) \in Nat /\ Cardinality(S) \in Nat
  BY <1>6, <1>9, FS_CardinalityType
<1>11. Cardinality(S) >= RatePerMin BY <1>7, <1>8, <1>10, TimesAssumption
<1> QED BY <1>11 DEF S

(* Only admit's rate limit gives that verdict.                             *)
LEMMA RateVerdict ==
  ASSUME TypeOK, [Next]_vars, NEW k \in Handlers,
         verdict[k] # "rate limit", verdict'[k] = "rate limit"
  PROVE  Admit(k) /\ AdmitOverRate(k)
<1>t. verdict \in [Handlers -> Verdicts] BY DEF TypeOK
<1>a. ASSUME NEW h \in Handlers,
             verdict' = verdict \/ \E v : v # "rate limit" /\ verdict' = [verdict EXCEPT ![h] = v]
      PROVE  FALSE
  BY <1>a, <1>t
<1>1. ASSUME NEW h \in Handlers, NEW r \in Requests, NEW src \in Sources, Arrive(h, r, src)
      PROVE  FALSE
  BY <1>1, <1>a DEF Arrive
<1>2. ASSUME NEW h \in Handlers, Lookup(h) PROVE FALSE
  BY <1>2, <1>a DEF Lookup, LookUpIn, Refuse
<1>3. ASSUME NEW h \in Handlers, Check(h) PROVE FALSE
  <2>1. CheckVerdict(req[h], app[h], ip[h], clock) # "rate limit" BY DEF CheckVerdict
  <2> QED BY <1>3, <1>a, <2>1 DEF Check, Refuse
<1>4. ASSUME NEW h \in Handlers, Admit(h) PROVE Admit(k) /\ AdmitOverRate(k)
  <2>1. ~AdmitReplayed(h) /\ ~AdmitGranted(h)
    BY <1>a DEF AdmitReplayed, AdmitGranted, Refuse
  <2>2. AdmitOverRate(h) BY <1>4, <2>1 DEF Admit
  <2>3. h = k BY <1>t, <2>2 DEF AdmitOverRate, Refuse
  <2> QED BY <1>4, <2>2, <2>3
<1>5. ASSUME NEW h \in Handlers, LockChip(h) \/ RefuseKnown(h) \/ Record(h) PROVE FALSE
  BY <1>5, <1>a DEF LockChip, RefuseKnown, Record, locals
<1>6. ASSUME NEW h \in Handlers, Agree(h) PROVE FALSE
  BY <1>6, <1>a DEF Agree, AgreeOpens, AgreeErrs, AgreeFails, Refuse
<1>7. ASSUME NEW h \in Handlers, Reply(h) PROVE FALSE
  BY <1>7, <1>a DEF Reply
<1>8. CASE Reload \/ Tick \/ UNCHANGED vars
  BY <1>8 DEF Reload, Tick, vars, locals
<1>9. CASE Restart
  BY <1>9 DEF Restart, Forgotten, At
<1> QED BY <1>1, <1>2, <1>3, <1>4, <1>5, <1>6, <1>7, <1>8, <1>9 DEF Next, Serve

(* RateRefusalJustified (keyserver.go admit): the rate limit refuses an    *)
(* app only after RatePerMin of its requests were let through within the   *)
(* minute before, give or take the age of one clock reading.               *)
THEOREM RateRefusals ==
  ASSUME StallWithinSkew
  PROVE  Spec => RateRefusalJustified
<1> DEFINE Justified ==
      \A h \in Handlers :
         verdict[h] # "rate limit" /\ verdict'[h] = "rate limit"
           => Cardinality(GrantedWithin(req[h].app, Minute + MaxStall)) >= RatePerMin
<1>1. Init => ChargedOnce
  <2> SUFFICES ASSUME Init PROVE ChargedOnce OBVIOUS
  <2>1. {r \in Requests : grantedAt[r] # Never} = {} /\ \A a \in AppNames : rate[a] = {}
    BY DEF Init, NotYet, NothingSpent
  <2>2. IsFiniteSet({r \in Requests : grantedAt[r] # Never}) BY <2>1, FS_EmptySet
  <2> QED BY <2>1, <2>2 DEF ChargedOnce
<1>2. ReplayInv /\ ChargedOnce /\ [Next]_vars => ChargedOnce'
  BY StepCharged
<1>3. ReplayInv /\ ChargedOnce /\ [Next]_vars => [Justified]_vars
  <2>1. ReplayInv => TypeOK BY DEF ReplayInv, FreshInv
  <2> QED BY <2>1, RateVerdict, OverRateCounts
<1> QED BY <1>1, <1>2, <1>3, ReplayInvariance, PTL DEF Spec, RateRefusalJustified
=============================================================================
