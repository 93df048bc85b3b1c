----------------------------- MODULE KeyServer ------------------------------
(***************************************************************************)
(* The key server (keyserver.go): every POST /v1/unwrap runs in a goroutine *)
(* of its own (a "handler"), and the handlers share the configuration      *)
(* (swapped on SIGHUP), the replay guard, the rate table, the chip and the *)
(* events file.  One action is one stretch of the handler between two      *)
(* reads or writes of something shared.                                    *)
(*                                                                         *)
(* Times are whole ticks.  A request carries what its checks tell apart:   *)
(* the app it names, the key that signed it, its timestamp, whether its    *)
(* fields decode, and the label of the chip key its wrap was made for.     *)
(* Two requests with the same signature are the same request.              *)
(***************************************************************************)
EXTENDS Integers, FiniteSets

CONSTANTS
  Handlers,      \* goroutines that serve requests
  Requests,      \* signed requests: [id, app, key, ts, wellFormed, wrap]
  AppNames,      \* app ids a request or a configuration can name
  Addresses,     \* client addresses
  Loopback,      \* the address the local proxy connects from
  Sources,       \* where a request comes from: [peer, fwd]
  NoForward,     \* fwd of a connection that carries no client-address header
  Configs,       \* configurations loadKSConfig accepts
  NoHandler,     \* the chip's mutex is free
  NoRequest,     \* a handler that serves nothing
  Skew,          \* ksClockSkew
  Minute,        \* the rate limit's window
  RatePerMin,    \* ksRatePerMin
  Lead,          \* how far a client's clock may run ahead of the server's
  MaxStall,      \* longest delay between a handler's clock reading and its admit
  MaxClock       \* bound: the clock stops here

RequestType == [id : Nat, app : AppNames, key : Nat, ts : Int,
                wellFormed : BOOLEAN, wrap : Nat]

(* label: the chip key's label; header: client_ip_header is set; events:   *)
(* events_file is set; apps: the allowlist, key and ips its two columns.   *)
ConfigType == [label : Nat, header : BOOLEAN, events : BOOLEAN,
               apps : SUBSET AppNames, key : [AppNames -> Nat],
               ips : [AppNames -> SUBSET Addresses]]

ASSUME RequestsAssumption ==
  /\ Requests \subseteq RequestType
  /\ NoRequest \notin Requests
ASSUME ConfigsAssumption ==
  /\ Configs # {}
  /\ Configs \subseteq ConfigType
ASSUME HandlersAssumption == NoHandler \notin Handlers
ASSUME SourcesAssumption ==
  /\ Loopback \in Addresses
  /\ NoForward \notin Addresses
  /\ Sources \subseteq [peer : Addresses, fwd : Addresses \cup {NoForward}]
ASSUME TimesAssumption ==
  /\ Skew \in Nat /\ Minute \in Nat /\ RatePerMin \in Nat
  /\ Lead \in Int /\ MaxStall \in Nat /\ MaxClock \in Nat

VARIABLES
  clock,      \* s.now()
  boot,       \* the configuration the process started with
  cfg,        \* cfgP: the configuration in force
  seen,       \* replay guard: request -> expiry, or NotSeen
  rate,       \* app -> the admissions it was charged, with their times
  chip,       \* holder of the chip mutex
  events,     \* readable lines of the events file
  torn,       \* the events file ends in the middle of a line
  pc, req, ip, app, now, verdict,   \* each handler's progress and locals
  inForce,    \* history: configurations in force since a handler's request came
  lost,       \* history: handlers whose line did not reach the file readable
  granted,    \* history: times a request was admitted by this process
  grantedAt,  \* history: when it was last admitted
  released    \* history: times the bundle key was sent for it

shared  == <<boot, cfg, seen, rate, chip, events, torn>>
locals  == <<req, ip, app, now, verdict, lost>>
history == <<granted, grantedAt, released>>
vars    == <<clock, shared, pc, locals, inForce, history>>

NotSeen == -1
Never   == -1

(* Operators named ...Mutant are wrong on purpose: each stands for a slip   *)
(* the definition after it could contain, and breaks a property below.     *)
TTLMutant == Skew
TTL     == 2 * Skew

AppEntry == [key : Nat, ips : SUBSET Addresses]
NoEntry  == [key |-> 0, ips |-> {}]

Refusals == {"unknown app", "timestamp", "malformed", "bad signature",
             "address", "replayed", "rate limit", "wrap does not open"}
Verdicts == Refusals \cup {"pending", "ok", "error"}
Steps    == {"idle", "arrived", "known", "checked", "admitted", "chip",
             "refused", "event", "reply"}

TypeOK ==
  /\ clock \in Nat
  /\ boot \in Configs /\ cfg \in Configs
  /\ seen \in [Requests -> Nat \cup {NotSeen}]
  /\ rate \in [AppNames -> SUBSET [req : Requests, t : Nat]]
  /\ chip \in Handlers \cup {NoHandler}
  /\ events \subseteq [req : Requests, verdict : Verdicts]
  /\ torn \in BOOLEAN
  /\ pc \in [Handlers -> Steps]
  /\ req \in [Handlers -> Requests \cup {NoRequest}]
  /\ \A h \in Handlers : pc[h] # "idle" => req[h] \in Requests
  /\ ip \in [Handlers -> Addresses]
  /\ app \in [Handlers -> AppEntry]
  /\ now \in [Handlers -> Nat]
  /\ verdict \in [Handlers -> Verdicts]
  /\ inForce \in [Handlers -> SUBSET Configs]
  /\ lost \subseteq Handlers
  /\ granted \in [Requests -> Nat]
  /\ grantedAt \in [Requests -> Nat \cup {Never}]
  /\ released \in [Requests -> Nat]

-----------------------------------------------------------------------------
(* A process starts (newKeyServer) with whatever configuration the file    *)
(* holds: no request is being served and nothing is remembered.            *)
NothingSeen  == [r \in Requests |-> NotSeen]
NothingSpent == [a \in AppNames |-> {}]
Zero         == [r \in Requests |-> 0]
NotYet       == [r \in Requests |-> Never]
At(value)    == [h \in Handlers |-> value]

Init ==
  /\ clock = 0 /\ events = {} /\ torn = FALSE
  /\ boot \in Configs /\ cfg = boot
  /\ seen = NothingSeen /\ rate = NothingSpent /\ chip = NoHandler
  /\ pc = At("idle") /\ req = At(NoRequest) /\ ip = At(Loopback)
  /\ app = At(NoEntry) /\ now = At(0) /\ verdict = At("pending")
  /\ inForce = At({}) /\ lost = {}
  /\ granted = Zero /\ grantedAt = NotYet /\ released = Zero

Forgotten ==
  /\ boot' \in Configs /\ cfg' = boot'
  /\ seen' = NothingSeen /\ rate' = NothingSpent /\ chip' = NoHandler
  /\ req' = At(NoRequest) /\ ip' = At(Loopback)
  /\ app' = At(NoEntry) /\ now' = At(0) /\ verdict' = At("pending")
  /\ inForce' = At({}) /\ lost' = {}
  /\ granted' = Zero /\ grantedAt' = NotYet /\ released' = Zero
  /\ UNCHANGED <<clock, events, torn>>

(* The process dies and systemd starts it again; the events file stays.    *)
RestartMutant == Forgotten /\ UNCHANGED pc   \* mutant: handlers keep running
Restart == Forgotten /\ pc' = At("idle")

-----------------------------------------------------------------------------
(* The handler.                                                            *)

Goto(h, step) == pc' = [pc EXCEPT ![h] = step]

(* clientIP: the header is believed only on a connection from loopback.    *)
ClientIP(src) ==
  IF cfg.header /\ src.peer = Loopback /\ src.fwd # NoForward
  THEN src.fwd ELSE src.peer

(* handleUnwrap up to the call of unwrap.  A request may arrive any number *)
(* of times, from anywhere; Lead bounds how far in the future its          *)
(* timestamp can lie.                                                      *)
Arrive(h, r, src) ==
  /\ pc[h] = "idle"
  /\ r.ts - clock <= Lead
  /\ Goto(h, "arrived")
  /\ req' = [req EXCEPT ![h] = r]
  /\ ip' = [ip EXCEPT ![h] = ClientIP(src)]
  /\ inForce' = [inForce EXCEPT ![h] = {cfg}]
  /\ UNCHANGED <<clock, shared, app, now, verdict, lost, history>>

Refuse(h, why) ==
  /\ Goto(h, "refused")
  /\ verdict' = [verdict EXCEPT ![h] = why]

(* unwrap: the app's entry is copied out of the configuration in force.    *)
Entry(c, name) == [key |-> c.key[name], ips |-> c.ips[name]]

LookUpIn(c, h) ==
  /\ pc[h] = "arrived"
  /\ \/ /\ req[h].app \notin c.apps
        /\ Refuse(h, "unknown app")
        /\ UNCHANGED app
     \/ /\ req[h].app \in c.apps
        /\ app' = [app EXCEPT ![h] = Entry(c, req[h].app)]
        /\ Goto(h, "known")
        /\ UNCHANGED verdict
  /\ UNCHANGED <<clock, shared, req, ip, now, lost, inForce, history>>

(* Mutant: the configuration captured when the server started.             *)
LookupMutant(h) == LookUpIn(boot, h)
Lookup(h) == LookUpIn(cfg, h)

InWindow(r, t) == t - r.ts <= Skew /\ r.ts - t <= Skew

AddressAllowed(entry, addr) == entry.ips = {} \/ addr \in entry.ips

(* The outcome of unwrap's stateless checks, in the order it makes them.   *)
CheckVerdict(r, entry, addr, t) ==
  CASE ~ InWindow(r, t)               -> "timestamp"
    [] InWindow(r, t) /\ ~ r.wellFormed -> "malformed"
    [] InWindow(r, t) /\ r.wellFormed /\ r.key # entry.key -> "bad signature"
    [] InWindow(r, t) /\ r.wellFormed /\ r.key = entry.key
         /\ ~ AddressAllowed(entry, addr) -> "address"
    [] OTHER -> "ok"

Check(h) ==
  /\ pc[h] = "known"
  /\ now' = [now EXCEPT ![h] = clock]
  /\ LET v == CheckVerdict(req[h], app[h], ip[h], clock) IN
     \/ v = "ok" /\ Goto(h, "checked") /\ UNCHANGED verdict
     \/ v # "ok" /\ Refuse(h, v)
  /\ UNCHANGED <<clock, shared, req, ip, app, lost, inForce, history>>

(* admit, under mu.  It works with the time the handler read in Check.     *)
PurgedEarlyMutant(t) == [r \in Requests |-> IF t >= seen[r] THEN NotSeen ELSE seen[r]]
RecentShortMutant(a, t) == {e \in rate[a] : t - e.t < Minute - 1}
RecentLongMutant(a, t) == {e \in rate[a] : t - e.t <= 2 * Minute}
Purged(t) == [r \in Requests |-> IF t > seen[r] THEN NotSeen ELSE seen[r]]
Recent(a, t) == {e \in rate[a] : t - e.t < Minute}

AdmitReplayed(h) ==
  /\ Purged(now[h])[req[h]] # NotSeen
  /\ seen' = Purged(now[h])
  /\ Refuse(h, "replayed")
  /\ UNCHANGED <<rate, history>>

(* Mutant: the request is remembered before the rate limit is tested.      *)
AdmitOverRateMutant(h) ==
  LET name == req[h].app
      recent == Recent(name, now[h]) IN
  /\ Purged(now[h])[req[h]] = NotSeen
  /\ Cardinality(recent) >= RatePerMin
  /\ seen' = [Purged(now[h]) EXCEPT ![req[h]] = now[h] + TTL]
  /\ rate' = [rate EXCEPT ![name] = recent]
  /\ Refuse(h, "rate limit")
  /\ UNCHANGED history

AdmitOverRate(h) ==
  LET name == req[h].app
      recent == Recent(name, now[h]) IN
  /\ Purged(now[h])[req[h]] = NotSeen
  /\ Cardinality(recent) >= RatePerMin
  /\ seen' = Purged(now[h])
  /\ rate' = [rate EXCEPT ![name] = recent]
  /\ Refuse(h, "rate limit")
  /\ UNCHANGED history

AdmitGranted(h) ==
  LET r == req[h]
      recent == Recent(r.app, now[h]) IN
  /\ Purged(now[h])[r] = NotSeen
  /\ Cardinality(recent) < RatePerMin
  /\ seen' = [Purged(now[h]) EXCEPT ![r] = now[h] + TTL]
  /\ rate' = [rate EXCEPT ![r.app] = recent \cup {[req |-> r, t |-> now[h]]}]
  /\ granted' = [granted EXCEPT ![r] = @ + 1]
  /\ grantedAt' = [grantedAt EXCEPT ![r] = clock]
  /\ Goto(h, "admitted")
  /\ UNCHANGED <<verdict, released>>

Admit(h) ==
  /\ pc[h] = "checked"
  /\ AdmitReplayed(h) \/ AdmitOverRate(h) \/ AdmitGranted(h)
  /\ UNCHANGED <<clock, boot, cfg, chip, events, torn, req, ip, app, now, lost, inForce>>

LockChip(h) ==
  /\ pc[h] = "admitted"
  /\ chip = NoHandler
  /\ chip' = h
  /\ Goto(h, "chip")
  /\ UNCHANGED <<clock, boot, cfg, seen, rate, events, torn, locals, inForce, history>>

(* UnwrapECDH with the chip key the configuration in force names, then     *)
(* chip.Unlock, whether the wrap opens or not.                             *)
AgreeOpens(h) ==
  /\ req[h].wrap = cfg.label
  /\ chip' = NoHandler
  /\ verdict' = [verdict EXCEPT ![h] = "ok"]
  /\ Goto(h, "event")

(* The wrap opened but the answer could not be sealed: it is an internal   *)
(* error, which goes out at once and leaves no line.                       *)
AgreeErrs(h) ==
  /\ req[h].wrap = cfg.label
  /\ chip' = NoHandler
  /\ verdict' = [verdict EXCEPT ![h] = "error"]
  /\ Goto(h, "reply")

(* Mutant: the early return leaves the chip locked.                        *)
AgreeFailsMutant(h) ==
  /\ req[h].wrap # cfg.label
  /\ UNCHANGED chip
  /\ Refuse(h, "wrap does not open")

AgreeFails(h) ==
  /\ req[h].wrap # cfg.label
  /\ chip' = NoHandler
  /\ Refuse(h, "wrap does not open")

Agree(h) ==
  /\ pc[h] = "chip"
  /\ AgreeOpens(h) \/ AgreeErrs(h) \/ AgreeFails(h)
  /\ UNCHANGED <<clock, boot, cfg, seen, rate, events, torn, req, ip, app, now, lost,
                 inForce, history>>

(* Mutant: "known" is decided by the configuration at start.               *)
RefuseKnownMutant(h) ==
  /\ pc[h] = "refused"
  /\ Goto(h, IF req[h].app \in boot.apps THEN "event" ELSE "reply")
  /\ UNCHANGED <<clock, shared, locals, inForce, history>>

(* The refuse closure: an event only if the app is known now.              *)
RefuseKnown(h) ==
  /\ pc[h] = "refused"
  /\ Goto(h, IF req[h].app \in cfg.apps THEN "event" ELSE "reply")
  /\ UNCHANGED <<clock, shared, locals, inForce, history>>

(* record, under evMu: one line, if the configuration in force names an    *)
(* events file.  A line that follows a torn one makes one unreadable line  *)
(* with it.                                                                *)
Line(h) == [req |-> req[h], verdict |-> verdict[h]]

AppendLine(h) ==
  /\ cfg.events
  /\ events' = IF torn THEN events ELSE events \cup {Line(h)}
  /\ lost' = IF torn THEN lost \cup {h} ELSE lost
  /\ torn' = FALSE

(* The file does not open, which is logged, or the write fails or is cut   *)
(* short, which is not looked at; the answer goes out all the same.        *)
AppendFails(h) ==
  /\ cfg.events
  /\ lost' = lost \cup {h}
  /\ torn' \in {torn, TRUE}
  /\ UNCHANGED events

Record(h) ==
  /\ pc[h] = "event"
  /\ \/ AppendLine(h) \/ AppendFails(h)
     \/ ~ cfg.events /\ UNCHANGED <<events, torn, lost>>
  /\ Goto(h, "reply")
  /\ UNCHANGED <<clock, boot, cfg, seen, rate, chip, req, ip, app, now, verdict, inForce,
                 history>>

(* The answer is written and the goroutine ends.                           *)
Reply(h) ==
  /\ pc[h] = "reply"
  /\ Goto(h, "idle")
  /\ released' = IF verdict[h] = "ok"
                 THEN [released EXCEPT ![req[h]] = @ + 1] ELSE released
  /\ req' = [req EXCEPT ![h] = NoRequest]
  /\ ip' = [ip EXCEPT ![h] = Loopback]
  /\ app' = [app EXCEPT ![h] = NoEntry]
  /\ now' = [now EXCEPT ![h] = 0]
  /\ verdict' = [verdict EXCEPT ![h] = "pending"]
  /\ inForce' = [inForce EXCEPT ![h] = {}]
  /\ lost' = lost \ {h}
  /\ UNCHANGED <<clock, shared, granted, grantedAt>>

-----------------------------------------------------------------------------
(* The environment.                                                        *)

(* SIGHUP: the file is read again; a new label is refused, as is a file    *)
(* that does not load (which changes nothing and is not an action).        *)
Reload ==
  /\ \E next \in Configs :
       /\ next # cfg
       /\ next.label = boot.label
       /\ cfg' = next
       /\ inForce' = [h \in Handlers |-> IF pc[h] = "idle" THEN inForce[h]
                                         ELSE inForce[h] \cup {next}]
  /\ UNCHANGED <<clock, boot, seen, rate, chip, events, torn, pc, locals, history>>

(* No handler stays longer than MaxStall between reading the clock and     *)
(* taking mu.                                                              *)
Tick ==
  /\ clock < MaxClock
  /\ \A h \in Handlers : pc[h] = "checked" => clock - now[h] < MaxStall
  /\ clock' = clock + 1
  /\ UNCHANGED <<shared, pc, locals, inForce, history>>

Serve(h) ==
  \/ Lookup(h)
  \/ Check(h)
  \/ Admit(h)
  \/ LockChip(h)
  \/ Agree(h)
  \/ RefuseKnown(h)
  \/ Record(h)
  \/ Reply(h)

Next ==
  \/ \E h \in Handlers, r \in Requests, src \in Sources : Arrive(h, r, src)
  \/ \E h \in Handlers : Serve(h)
  \/ Reload
  \/ Restart
  \/ Tick

Spec == Init /\ [][Next]_vars

(* Goroutines keep running, and sync.Mutex hands the lock to a waiter that *)
(* starves, so waiting for the chip needs strong fairness.  Nothing is     *)
(* assumed of clients, of the operator or of the clock.                    *)
Fairness == \A h \in Handlers : WF_vars(Serve(h)) /\ SF_vars(LockChip(h))

FairSpec == Spec /\ Fairness
-----------------------------------------------------------------------------
(* Properties.                                                             *)

(* TypeOK, above, is the type invariant of every structure the handlers    *)
(* share and of every handler's locals.                                    *)

(* NoReplay: one run of the process lets a signed request through to the   *)
(* chip at most once, however often it is sent, whichever handlers race    *)
(* with it and whenever admit purges the replay guard (keyserver.go admit).*)
NoReplay == \A r \in Requests : granted[r] <= 1

GrantedWithin(a, span) ==
  {r \in Requests : /\ r.app = a
                    /\ grantedAt[r] # Never
                    /\ clock - grantedAt[r] < span}

(* RateBound: no app gets more than RatePerMin requests to the chip in any *)
(* minute (shortened by the time admit's clock reading may be old), across *)
(* interleaved handlers and pruned tables (keyserver.go admit).            *)
RateBound ==
  \A a \in AppNames : Cardinality(GrantedWithin(a, Minute - MaxStall)) <= RatePerMin

Authorises(c, r, addr) ==
  /\ r.app \in c.apps
  /\ c.key[r.app] = r.key
  /\ AddressAllowed(Entry(c, r.app), addr)

(* AuthorisedInForce: what reaches the chip is authorised, key and address *)
(* together, by one configuration that was in force while the request was  *)
(* being served: a reload that withdraws an app or an address binds every  *)
(* later request, and no request is judged by a mixture of two allowlists. *)
AuthorisedInForce ==
  \A h \in Handlers :
    (pc[h] \in {"checked", "admitted", "chip"} \/ verdict[h] = "ok")
      => \E c \in inForce[h] : Authorises(c, req[h], ip[h])

(* ReplayRefusalJustified: a request is called a replay only if this       *)
(* process admitted it before; one refused for the rate may come again.    *)
ReplayRefusalJustified ==
  \A h \in Handlers : verdict[h] = "replayed" => granted[req[h]] > 0

(* RateRefusalJustified: the rate limit refuses only an app that did have  *)
(* RatePerMin requests admitted within the last minute, as old as the      *)
(* refusing handler's clock reading may be.                                *)
RateRefusalJustified ==
  [][\A h \in Handlers :
       verdict[h] # "rate limit" /\ verdict'[h] = "rate limit"
         => Cardinality(GrantedWithin(req[h].app, Minute + MaxStall)) >= RatePerMin]_vars

(* An answer is due in the events file when every configuration in force   *)
(* while it was made knew the app and named the file.                      *)
Due(h) == pc[h] = "reply" /\ \A c \in inForce[h] : c.events /\ req[h].app \in c.apps

(* AnswersRecorded: an answer that is due, unlock or refusal, goes out only *)
(* after its line is in the events file, whatever is reloaded meanwhile;   *)
(* excused are the internal error, which has no line, and the line that    *)
(* the file itself lost (keyserver.go handleUnwrap and record).            *)
AnswersRecorded ==
  \A h \in Handlers :
    Due(h) /\ verdict[h] # "error" /\ h \notin lost => Line(h) \in events

(* EveryRequestAnswered: no request waits for ever, in particular not for  *)
(* the chip's mutex.                                                       *)
EveryRequestAnswered == \A h \in Handlers : pc[h] # "idle" ~> pc[h] = "idle"

(* The server keeps the promise of UnlockOnce.                             *)
Promise == INSTANCE UnlockOnce WITH
             Requests <- Requests, granted <- granted, released <- released
ImplementsUnlockOnce == Promise!Spec
=============================================================================
