------------------------------ MODULE OrgVault ------------------------------
(***************************************************************************)
(* The organisation vault: org_cli.go and org.go, run from several         *)
(* consoles against one account server.  Secrets are sealed to the org     *)
(* key; the org key is wrapped to the members' own vault keys; a rotation  *)
(* reads everything under the old key and uploads it under a new one.      *)
(*                                                                         *)
(* The org key is known by its generation, 1, 2, ...  The server cannot    *)
(* look into a wrap: it stores what it is given for the current org key,   *)
(* one wrap per member key (docs/ORG-VAULT-TODO-cli.md:41-43).  It refuses *)
(* a secret sealed to another key than the current one                     *)
(* (docs/ORG-VAULT-CONTEXT.md:71) and a rotation that would lose a secret  *)
(* (org_cli.go:313).  Administrators' rights are the server's business:    *)
(* whoever holds a wrap may grant and rotate here.                         *)
(***************************************************************************)
EXTENDS Naturals

CONSTANTS Users, Founder, \* Founder creates the organisation
          Keys, Owner,    \* Owner[k]: the user whose vault key k is
          Secrets, Values,
          Consoles,       \* running p3sig commands
          NotStored,      \* a secret id not handed out yet
          Garbage,        \* what opening with another key would give
          NoJob,          \* a console with nothing to do
          MaxOrg          \* bound on the generations of the org key

ASSUME VaultAssumption ==
  /\ Founder \in Users
  /\ Owner \in [Keys -> Users]
  /\ NotStored \notin [org : 1..MaxOrg, value : Values \cup {Garbage}]
  /\ Garbage \notin Values
  /\ MaxOrg \in Nat \ {0}

VARIABLES org,         \* generation of the org key in force, 0 before it exists
          members,     \* the users who belong to the organisation
          registered,  \* the vault keys registered on an account
          wraps,       \* wraps[k]: generation inside the wrap for k, 0 if none
          sealed,      \* sealed[s]: the stored copy of secret s
          job,         \* job[c]: the command console c runs
          granted,     \* history: users who created or were granted access
          overtaken    \* history: keys wrapped, since the last rotation, by a
                       \* console that had read an older org key

vars == <<org, members, registered, wraps, sealed, job, granted, overtaken>>

Orgs == 1..MaxOrg
Copies == [org : Orgs, value : Values \cup {Garbage}]
Ops == {"create", "grant", "set", "rotate"}
Steps == {"create", "lookup", "wrap", "save", "list", "fetch", "upload"}

(* What a command has read so far: the org key it opened, the user it      *)
(* wraps for, and keys and secrets still to do or already read.            *)
JobType ==
  [op : Ops, step : Steps, key : Keys, org : 0..MaxOrg, user : Users,
   keys : SUBSET Keys, todo : SUBSET Secrets, got : [Secrets -> Copies \cup {NotStored}]]

NoCopies == [s \in Secrets |-> NotStored]
Stored == {s \in Secrets : sealed[s] # NotStored}
KeysOf(u) == {k \in registered : Owner[k] = u}
HasWrap(u) == \E k \in Keys : Owner[k] = u /\ wraps[k] # 0

(* Opening a copy with the org key of generation g.                        *)
Plain(copy, g) == IF copy.org = g THEN copy.value ELSE Garbage
(* Operators named ...Mutant are wrong on purpose: each stands for a slip  *)
(* that the properties must notice.                                        *)
OpensAnyMutant(copy, g) == TRUE
Opens(copy, g) == copy.org = g

Init ==
  /\ org = 0 /\ members = {} /\ granted = {} /\ overtaken = {}
  /\ registered = {}
  /\ wraps = [k \in Keys |-> 0]
  /\ sealed = NoCopies
  /\ job = [c \in Consoles |-> NoJob]

At(c, step) == job[c] # NoJob /\ job[c].step = step
Go(c, step) == job' = [job EXCEPT ![c].step = step]
Finish(c) == job' = [job EXCEPT ![c] = NoJob]
Begin(c, op, step, k, g, u) ==
  /\ job[c] = NoJob
  /\ job' = [job EXCEPT ![c] = [op |-> op, step |-> step, key |-> k, org |-> g, user |-> u,
                                keys |-> {}, todo |-> {}, got |-> NoCopies]]

(* A vault key is registered: on the website, or by usb register.          *)
Register(k) ==
  /\ k \notin registered
  /\ registered' = registered \cup {k}
  /\ UNCHANGED <<org, members, wraps, sealed, job, granted, overtaken>>

-----------------------------------------------------------------------------
(* p3sig org create: find the own key's id, then createOrg with the new    *)
(* org key wrapped to it; the founder's other keys follow.                 *)
StartCreate(c, k) ==
  /\ k \in KeysOf(Founder)
  /\ Begin(c, "create", "create", k, 0, Founder)
  /\ UNCHANGED <<org, members, registered, wraps, sealed, granted, overtaken>>

CreateOrg(c) ==
  /\ At(c, "create")
  /\ org = 0
  /\ org' = 1
  /\ members' = {Founder} /\ granted' = {Founder}
  /\ wraps' = [wraps EXCEPT ![job[c].key] = 1]
  /\ job' = [job EXCEPT ![c].step = "lookup", ![c].org = 1]
  /\ UNCHANGED <<registered, sealed, overtaken>>

(* p3sig org add: one request.                                             *)
AddMember(u) ==
  /\ org # 0 /\ u \notin members
  /\ members' = members \cup {u}
  /\ UNCHANGED <<org, registered, wraps, sealed, job, granted, overtaken>>

(* The own org key: whichever wrap opens with the key at hand.             *)
MyOrgKey(k) == wraps[k]

(* p3sig org grant --user u, with the vault key k.                         *)
StartGrant(c, k, u) ==
  /\ MyOrgKey(k) # 0
  /\ u \in members
  /\ Begin(c, "grant", "lookup", k, MyOrgKey(k), u)
  /\ granted' = granted \cup {u}
  /\ UNCHANGED <<org, members, registered, wraps, sealed, overtaken>>

(* wrapToAllKeys: every key the server lists for the user, but the one the *)
(* creation has wrapped already, ...                                       *)
Lookup(c) ==
  /\ At(c, "lookup")
  /\ LET skip == IF job[c].op = "create" THEN {job[c].key} ELSE {}
     IN  job' = [job EXCEPT ![c].step = "wrap", ![c].keys = KeysOf(job[c].user) \ skip]
  /\ UNCHANGED <<org, members, registered, wraps, sealed, granted, overtaken>>

(* ... one upload after the other.                                         *)
Wrap(c) ==
  /\ At(c, "wrap")
  /\ \E k \in job[c].keys :
       /\ wraps' = [wraps EXCEPT ![k] = job[c].org]
       /\ overtaken' = IF job[c].org = org THEN overtaken \ {k} ELSE overtaken \cup {k}
       /\ job' = [job EXCEPT ![c].keys = @ \ {k}]
  /\ UNCHANGED <<org, members, registered, sealed, granted>>

Wrapped(c) ==
  /\ At(c, "wrap") /\ job[c].keys = {}
  /\ Finish(c)
  /\ UNCHANGED <<org, members, registered, wraps, sealed, granted, overtaken>>

-----------------------------------------------------------------------------
(* p3sig org secret set: ask for the recipient key, prompt, seal, save.    *)
StartSet(c, k) ==
  /\ org # 0 /\ k \in registered /\ Owner[k] \in members
  /\ Begin(c, "set", "save", k, org, Owner[k])
  /\ UNCHANGED <<org, members, registered, wraps, sealed, granted, overtaken>>

Save(c) ==
  /\ At(c, "save")
  /\ job[c].org = org
  /\ \E s \in Secrets \ Stored, v \in Values :
       sealed' = [sealed EXCEPT ![s] = [org |-> job[c].org, value |-> v]]
  /\ Finish(c)
  /\ UNCHANGED <<org, members, registered, wraps, granted, overtaken>>

-----------------------------------------------------------------------------
(* p3sig org rotate: open the org key, list the secrets, fetch each, list  *)
(* the members, then upload everything at once.                            *)
StartRotate(c, k) ==
  /\ MyOrgKey(k) # 0
  /\ Begin(c, "rotate", "list", k, MyOrgKey(k), Owner[k])
  /\ UNCHANGED <<org, members, registered, wraps, sealed, granted, overtaken>>

ListSecrets(c) ==
  /\ At(c, "list")
  /\ job' = [job EXCEPT ![c].step = "fetch", ![c].todo = Stored]
  /\ UNCHANGED <<org, members, registered, wraps, sealed, granted, overtaken>>

Fetch(c) ==
  /\ At(c, "fetch")
  /\ \E s \in job[c].todo :
       job' = [job EXCEPT ![c].todo = @ \ {s}, ![c].got[s] = sealed[s]]
  /\ UNCHANGED <<org, members, registered, wraps, sealed, granted, overtaken>>

(* Members with a wrap, each with every key: nobody else gets access.      *)
RemainingAllMutant == {k \in registered : Owner[k] \in members}
Remaining == {k \in registered : Owner[k] \in members /\ HasWrap(Owner[k])}

(* rotateOrgVault opens every copy with the old key, or gives up.          *)
ListMembers(c) ==
  /\ At(c, "fetch") /\ job[c].todo = {}
  /\ \A s \in Secrets : job[c].got[s] # NotStored => Opens(job[c].got[s], job[c].org)
  /\ job' = [job EXCEPT ![c].step = "upload", ![c].keys = Remaining]
  /\ UNCHANGED <<org, members, registered, wraps, sealed, granted, overtaken>>

Resealed(copy, old, new) == [org |-> new, value |-> Plain(copy, old)]
NewWrapsOldMutant(ks, old, new) == [k \in Keys |-> IF k \in ks THEN old ELSE 0]
NewWraps(ks, old, new) == [k \in Keys |-> IF k \in ks THEN new ELSE 0]

Upload(c) ==
  /\ At(c, "upload")
  /\ org < MaxOrg
  /\ \A s \in Stored : job[c].got[s] # NotStored
  /\ org' = org + 1
  /\ sealed' = [s \in Secrets |->
                  IF job[c].got[s] = NotStored THEN NotStored
                  ELSE Resealed(job[c].got[s], job[c].org, org + 1)]
  /\ wraps' = NewWraps(job[c].keys, job[c].org, org + 1)
  /\ overtaken' = {}
  /\ Finish(c)
  /\ UNCHANGED <<members, registered, granted>>

(* A request fails or is refused, a copy does not open, the operator stops *)
(* the command: at any step, leaving what was stored so far.               *)
Stop(c) ==
  /\ job[c] # NoJob
  /\ Finish(c)
  /\ UNCHANGED <<org, members, registered, wraps, sealed, granted, overtaken>>

Next ==
  \/ \E k \in Keys : Register(k)
  \/ \E u \in Users : AddMember(u)
  \/ \E c \in Consoles :
       \/ \E k \in Keys : StartCreate(c, k) \/ StartSet(c, k) \/ StartRotate(c, k)
       \/ \E k \in Keys, u \in Users : StartGrant(c, k, u)
       \/ CreateOrg(c) \/ Lookup(c) \/ Wrap(c) \/ Wrapped(c) \/ Save(c)
       \/ ListSecrets(c) \/ Fetch(c) \/ ListMembers(c) \/ Upload(c) \/ Stop(c)

Spec == Init /\ [][Next]_vars

-----------------------------------------------------------------------------
TypeOK ==
  /\ org \in 0..MaxOrg
  /\ members \subseteq Users /\ granted \subseteq Users
  /\ registered \subseteq Keys /\ overtaken \subseteq Keys
  /\ wraps \in [Keys -> 0..MaxOrg]
  /\ sealed \in [Secrets -> Copies \cup {NotStored}]
  /\ job \in [Consoles -> JobType \cup {NoJob}]

(* p3sig org secret get and list, with vault key k: the org key opens, so  *)
(* do all names, and the copy gives the value.                             *)
Get(k, s) ==
  IF MyOrgKey(k) # 0 /\ \A t \in Stored : Opens(sealed[t], MyOrgKey(k))
  THEN Plain(sealed[s], MyOrgKey(k)) ELSE Garbage

(* ReadersRead: unless a console that read an older org key stored wraps   *)
(* since, every key with a wrap reads every secret, and some registered    *)
(* key has one (org_cli.go:11-13, 311-313).                                *)
ReadersRead ==
  /\ \A k \in Keys \ overtaken, s \in Stored : wraps[k] # 0 => Get(k, s) \in Values
  /\ org # 0 /\ overtaken = {} => \E k \in registered : wraps[k] = org

(* OnlyGranted: whoever can read was granted access or created the         *)
(* organisation; a rotation adds nobody (org_cli.go:359).                  *)
OnlyGranted == \A u \in Users : HasWrap(u) => u \in granted

(* NothingLost: every stored secret can be read by somebody                *)
(* (org_cli.go:313, "the server checks nothing is lost").                  *)
NothingLost ==
  \A s \in Stored : \E k \in registered : Get(k, s) \in Values

(* The secrets, read with the org key in force, are a write-once store:    *)
(* rotations, whatever runs beside them, neither lose nor change one.      *)
ReadableValue(s) == IF s \in Stored THEN Plain(sealed[s], org) ELSE NotStored
Store == INSTANCE WriteOnce WITH
           Slots <- Secrets, Values <- Values, Empty <- NotStored,
           slot <- [s \in Secrets |-> ReadableValue(s)]
ImplementsWriteOnce == Store!Spec
=============================================================================
