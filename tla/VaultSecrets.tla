---------------------------- MODULE VaultSecrets ----------------------------
(***************************************************************************)
(* The copies of an account's secrets: secret.go, usbRegister and          *)
(* addVaultKey of usbvault.go, secret set and get of cli.go, and the       *)
(* agent's side, fetchSecrets of main.go.                                  *)
(*                                                                         *)
(* Every secret is sealed separately to each vault key of the account and  *)
(* to each machine that is granted it.  Copies for machines are envelopes  *)
(* signed by a delegated device; copies for vault keys are plain.  Anybody *)
(* can seal anything to a public key, and the server hands out what it     *)
(* likes: the agent has to tell.  It may lie to the commands that seal as  *)
(* well, which seal, and sign, what the copies in its answers open to.     *)
(* There is one account, so an envelope's account is not modelled; a       *)
(* delegation that lapses is one not in live.                              *)
(***************************************************************************)
EXTENDS Naturals

CONSTANTS VaultKeys, FirstKey, \* FirstKey is on the account from the start
          Machines, Mine,      \* Mine: the machines whose policy root is ours
          Personal, Org,       \* secret ids: the account's, the organisation's
          Granted,             \* Granted[m]: the secrets machine m is granted
          Names, NameOf,       \* NameOf[s]: the variable name of secret s
          Devices, Rogue,      \* signing keys; Rogue is never delegated
          Forged,              \* a value no owner stored
          Lies,                \* what a lying server may answer a sealing command
          Consoles,
          Unsigned, NoCopy, NoJob

Secrets == Personal \cup Org
Recipients == VaultKeys \cup Machines
Values == Secrets \cup {Forged}     \* the value of a secret is named by its id

(* What a sealed copy holds: a plain value, or a signed envelope.          *)
PlainCopies == [signer : {Unsigned}, value : Values]
Envelopes == [signer : Devices \cup {Rogue}, value : Values, secret : Secrets,
              name : Names, to : Recipients]
Contents == PlainCopies \cup Envelopes

(* What an answer asks a command to seal: the value and the name that a    *)
(* copy of the secret opens to, for a recipient.                           *)
Items == [secret : Secrets, value : Values, name : Names, to : Recipients]

ASSUME SecretsAssumption ==
  /\ FirstKey \in VaultKeys /\ Mine \subseteq Machines
  /\ Personal \cap Org = {} /\ VaultKeys \cap Machines = {}
  /\ Granted \in [Machines -> SUBSET Secrets]
  /\ NameOf \in [Secrets -> Names]
  /\ Devices # {} /\ Rogue \notin Devices /\ Unsigned \notin Devices \cup {Rogue}
  /\ Forged \notin Secrets /\ NoCopy \notin Contents
  /\ Lies \subseteq Items

Plain(v) == [signer |-> Unsigned, value |-> v]
IsSigned(x) == x.signer # Unsigned

VARIABLES keys,     \* vault keys registered on the account
          stored,   \* secrets saved
          copies,   \* copies[s][r]: the copy of s for recipient r
          live,     \* devices with a root delegation that has not run out
          revoked,  \* devices on the newest revocation list
          lists,    \* history: every revocation list the root signed
          sealed,   \* history: every content ever sealed
          job,      \* job[c]: the command console c runs
          listed,   \* history: listed[s]: the vault keys secret set sealed s to
          checked,  \* history: checked[k]: secrets there when k was reported to open all
          misled    \* history: <<secret, recipient>> of every lie that was sealed

vars == <<keys, stored, copies, live, revoked, lists, sealed, job, listed, checked, misled>>
account == <<keys, stored, copies, sealed, listed, checked>>
trustVars == <<live, revoked, lists>>

Copy == [secret : Secrets, to : Recipients, content : Contents]
JobType ==
  [op : {"set", "reseal", "org", "register"},
   step : {"save", "own", "work", "machines", "add", "check", "registered"},
   key : VaultKeys, new : VaultKeys, device : Devices, known : SUBSET VaultKeys,
   out : SUBSET Copy]

Init ==
  /\ keys = {FirstKey} /\ stored = {}
  /\ copies = [s \in Secrets |-> [r \in Recipients |-> NoCopy]]
  /\ live = {} /\ revoked = {} /\ lists = {}
  /\ sealed = {}
  /\ job = [c \in Consoles |-> NoJob]
  /\ listed = [s \in Secrets |-> {}]
  /\ checked = [k \in VaultKeys |-> {}]
  /\ misled = {}

At(c, op, step) == job[c] # NoJob /\ job[c].op = op /\ job[c].step = step
Finish(c) == job' = [job EXCEPT ![c] = NoJob]
Begin(c, op, step, k, new, d) ==
  /\ job[c] = NoJob
  /\ job' = [job EXCEPT ![c] =
       [op |-> op, step |-> step, key |-> k, new |-> new, device |-> d, known |-> keys,
        out |-> {}]]

Stored(cs) ==
  /\ copies' = [s \in Secrets |-> [r \in Recipients |->
       IF \E x \in cs : x.secret = s /\ x.to = r
       THEN (CHOOSE x \in cs : x.secret = s /\ x.to = r).content ELSE copies[s][r]]]
  /\ sealed' = sealed \cup {x.content : x \in cs}

-----------------------------------------------------------------------------
(* p3sig secret set: the keys are fetched, the value prompted for, a plain *)
(* copy sealed to each key, and all of them uploaded.                      *)
StartSet(c) ==
  /\ Begin(c, "set", "save", FirstKey, FirstKey, CHOOSE d \in Devices : TRUE)
  /\ UNCHANGED <<account, misled, trustVars>>

SaveSet(c) ==
  /\ At(c, "set", "save")
  /\ \E s \in Personal \ stored :
       /\ stored' = stored \cup {s}
       /\ Stored([secret : {s}, to : job[c].known, content : {Plain(s)}])
       /\ listed' = [listed EXCEPT ![s] = job[c].known]
  /\ Finish(c)
  /\ UNCHANGED <<keys, checked, misled, trustVars>>

(* A value of the organisation (OrgVault), and the website's "Seal now".   *)
StoreOrg(s) ==
  /\ s \in Org \ stored
  /\ stored' = stored \cup {s}
  /\ UNCHANGED <<keys, copies, sealed, listed, checked, misled, trustVars, job>>

SealNow(s, m) ==
  /\ s \in stored /\ s \in Granted[m] /\ copies[s][m] = NoCopy
  /\ Stored({[secret |-> s, to |-> m, content |-> Plain(s)]})
  /\ UNCHANGED <<keys, stored, listed, checked, misled, trustVars, job>>

-----------------------------------------------------------------------------
(* p3sig secret reseal --with d.  A refusal is a step not taken: Stop.     *)
LiveDelegation(d) == d \in live \ revoked

StartReseal(c, k, d) ==
  /\ k \in keys /\ LiveDelegation(d)
  /\ Begin(c, "reseal", "own", k, k, d)
  /\ UNCHANGED <<account, misled, trustVars>>

OwnKeys(c) ==
  /\ At(c, "reseal", "own")
  /\ job' = [job EXCEPT ![c].step = "work", ![c].known = keys]
  /\ UNCHANGED <<account, misled, trustVars>>

(* Work the server lists: machine copies to sign anew, and own vault keys  *)
(* that have no copy.                                                      *)
MissingKeys(s) == {k \in keys : copies[s][k] = NoCopy}
Missing(s) == {m \in Mine : s \in Granted[m]} \cup MissingKeys(s)

(* Operators named ...Mutant are wrong on purpose: each stands for a slip  *)
(* that the properties must notice.                                        *)
EnvelopeSwappedMutant(d, i) ==
  [signer |-> d, value |-> i.name, secret |-> i.secret, name |-> i.value, to |-> i.to]
Envelope(d, i) ==
  [signer |-> d, value |-> i.value, secret |-> i.secret, name |-> i.name, to |-> i.to]

(* A command cannot tell a copy that its owner sealed from one that the    *)
(* server did: of the secrets in lies it is told what the lies say, of the *)
(* others the truth, which is what copies holds.                           *)
Lied(lies) == {l.secret : l \in lies}
Told(lies) == {<<l.secret, l.to>> : l \in lies}
Truth(s, v, r) == [secret |-> s, value |-> v, name |-> NameOf[s], to |-> r]
SealedAs(i, x) == [secret |-> i.secret, to |-> i.to, content |-> x]

(* Plain for the own keys known from the step before, signed for others.   *)
ResealedFor(c, i) ==
  SealedAs(i, IF i.to \in job[c].known THEN Plain(i.value) ELSE Envelope(job[c].device, i))

(* Secrets that the key at hand opens; a copy of one's own that is signed  *)
(* ends the command.                                                       *)
Openable(k) == {s \in Personal \cap stored : copies[s][k] # NoCopy}
WorkItems(k, lies) ==
  LET pairs == {y \in (Openable(k) \ Lied(lies)) \X Recipients : y[2] \in Missing(y[1])}
  IN  {Truth(y[1], copies[y[1]][k].value, y[2]) : y \in pairs} \cup lies
Work(c) ==
  /\ At(c, "reseal", "work")
  /\ \E lies \in SUBSET Lies :
       /\ \A s \in Openable(job[c].key) \ Lied(lies) : ~IsSigned(copies[s][job[c].key])
       /\ job' = [job EXCEPT ![c].step = "save",
            ![c].out = {ResealedFor(c, i) : i \in WorkItems(job[c].key, lies)}]
       /\ misled' = misled \cup Told(lies)
  /\ UNCHANGED <<account, trustVars>>

SaveResealed(c) ==
  /\ At(c, "reseal", "save")
  /\ Stored(job[c].out)
  /\ Finish(c)
  /\ UNCHANGED <<keys, stored, listed, checked, misled, trustVars>>

(* p3sig org secret reseal --with d: the bundle's secrets, opened with the *)
(* org key, for one machine after the other; machines whose root is not    *)
(* ours are skipped.                                                       *)
StartOrgReseal(c, d) ==
  /\ LiveDelegation(d)
  /\ Begin(c, "org", "work", FirstKey, FirstKey, d)
  /\ UNCHANGED <<account, misled, trustVars>>

VerifiableAllMutant(ms) == ms
Verifiable(ms) == ms \cap Mine
OrgItems(lies) ==
  LET pairs == {y \in ((Org \cap stored) \ Lied(lies)) \X Verifiable(Machines) :
                  y[1] \in Granted[y[2]]}
  IN  {Truth(y[1], y[1], y[2]) : y \in pairs} \cup lies
OrgWork(c) ==
  /\ At(c, "org", "work")
  /\ \E lies \in SUBSET Lies :
       /\ job' = [job EXCEPT ![c].step = "machines",
            ![c].out = {SealedAs(i, Envelope(job[c].device, i)) : i \in OrgItems(lies)}]
       /\ misled' = misled \cup Told(lies)
  /\ UNCHANGED <<account, trustVars>>

SealForMachine(c) ==
  /\ At(c, "org", "machines")
  /\ \E m \in {y.to : y \in job[c].out} :
       LET cs == {y \in job[c].out : y.to = m}
       IN  Stored(cs) /\ job' = [job EXCEPT ![c].out = @ \ cs]
  /\ UNCHANGED <<keys, stored, listed, checked, misled, trustVars>>

-----------------------------------------------------------------------------
(* p3sig usb register: a key already on the account is left as it is; a    *)
(* new one is added by an old one, gets a copy of every secret, and is     *)
(* checked.                                                                *)
StartRegister(c, old, new) ==
  /\ old \in keys
  /\ Begin(c, "register", "add", old, new, CHOOSE d \in Devices : TRUE)
  /\ UNCHANGED <<account, misled, trustVars>>

Registered(c) ==
  /\ At(c, "register", "add") /\ job[c].new \in keys
  /\ job' = [job EXCEPT ![c].step = "registered"]
  /\ UNCHANGED <<account, misled, trustVars>>

AddKey(c) ==
  /\ At(c, "register", "add") /\ job[c].new \notin keys
  /\ keys' = keys \cup {job[c].new}
  /\ job' = [job EXCEPT ![c].step = "work"]
  /\ UNCHANGED <<stored, copies, sealed, listed, checked, misled, trustVars>>

(* Secrets the new key lacks; one that the old key cannot open ends it.    *)
Lacking(k) == {s \in Personal \cap stored : copies[s][k] = NoCopy}
CopyItems(old, new, lies) ==
  {SealedAs(l, Plain(l.value)) : l \in lies} \cup
  {[secret |-> s, to |-> new, content |-> copies[s][old]] : s \in Lacking(new) \ Lied(lies)}
CopyWork(c) ==
  /\ At(c, "register", "work")
  /\ \E lies \in SUBSET {l \in Lies : l.to = job[c].new} :
       /\ \A s \in Lacking(job[c].new) \ Lied(lies) : copies[s][job[c].key] # NoCopy
       /\ job' = [job EXCEPT ![c].step = "save",
            ![c].out = CopyItems(job[c].key, job[c].new, lies)]
       /\ misled' = misled \cup Told(lies)
  /\ UNCHANGED <<account, trustVars>>

SaveCopies(c) ==
  /\ At(c, "register", "save")
  /\ Stored(job[c].out)
  /\ job' = [job EXCEPT ![c].step = "check"]
  /\ UNCHANGED <<keys, stored, listed, checked, misled, trustVars>>

CheckedMutant(k) == TRUE
Checked(k) == Lacking(k) = {}
CheckCopies(c) ==
  /\ At(c, "register", "check")
  /\ Checked(job[c].new)
  /\ checked' = [checked EXCEPT ![job[c].new] = Personal \cap stored]
  /\ job' = [job EXCEPT ![c].step = "registered"]
  /\ UNCHANGED <<keys, stored, copies, sealed, listed, misled, trustVars>>

(* A command ends, is refused, fails or is stopped.                        *)
Stop(c) ==
  /\ job[c] # NoJob
  /\ Finish(c)
  /\ UNCHANGED <<account, misled, trustVars>>

-----------------------------------------------------------------------------
(* The owner's root delegates and revokes (OwnerCLI), time passes.         *)
Delegate(d) ==
  /\ d \notin live
  /\ live' = live \cup {d}
  /\ UNCHANGED <<account, misled, revoked, lists, job>>

Lapse(d) ==
  /\ d \in live
  /\ live' = live \ {d}
  /\ UNCHANGED <<account, misled, revoked, lists, job>>

Revoke(d) ==
  /\ d \notin revoked
  /\ revoked' = revoked \cup {d}
  /\ lists' = lists \cup {revoked'}
  /\ UNCHANGED <<account, misled, live, job>>

Next ==
  \/ \E c \in Consoles :
       \/ StartSet(c) \/ SaveSet(c)
       \/ \E k \in VaultKeys, d \in Devices : StartReseal(c, k, d)
       \/ OwnKeys(c) \/ Work(c) \/ SaveResealed(c)
       \/ \E d \in Devices : StartOrgReseal(c, d)
       \/ OrgWork(c) \/ SealForMachine(c)
       \/ \E old, new \in VaultKeys : StartRegister(c, old, new)
       \/ Registered(c) \/ AddKey(c) \/ CopyWork(c) \/ SaveCopies(c) \/ CheckCopies(c)
       \/ Stop(c)
  \/ \E s \in Secrets : StoreOrg(s) \/ \E m \in Machines : SealNow(s, m)
  \/ \E d \in Devices : Delegate(d) \/ Lapse(d) \/ Revoke(d)

Spec == Init /\ [][Next]_vars

-----------------------------------------------------------------------------
(* The agent's side.  The server picks the copies it hands out, the id and *)
(* the sealed name that go with each, the delegations and the revocation   *)
(* list: any the root ever signed, for no floor is remembered here.        *)
Trusts == [chain : SUBSET live, revoked : lists \cup {{}}]
Newest == [chain |-> live, revoked |-> revoked]

Delegated(t, d) == d \in t.chain \ t.revoked

(* openSecretValue: the envelope must be for this id, name and machine.    *)
VerifiesAnywhereMutant(x, id, name, m, t) ==
  m \in Mine /\ Delegated(t, x.signer) /\ x.secret = id /\ x.name = name
Verifies(x, id, name, m, t) ==
  /\ m \in Mine             \* the others' root is another one
  /\ Delegated(t, x.signer)
  /\ x.secret = id /\ x.name = name /\ x.to = m

(* acceptSecretValue: a plain value only without --require-signed.         *)
Accepts(x, id, name, m, t, requireSigned) ==
  IF IsSigned(x) THEN Verifies(x, id, name, m, t) ELSE ~requireSigned

(* fetchSecrets: rooted says whether the agent was given a root to check   *)
(* against; without one, signatures can be neither required nor checked.   *)
Fetched(x, id, name, m, t, rooted, requireSigned) ==
  /\ requireSigned \/ IsSigned(x) => rooted
  /\ Accepts(x, id, name, m, t, requireSigned)

Forgeries(id, name, m) ==
  {Plain(Forged), [signer |-> Rogue, value |-> Forged, secret |-> id, name |-> name, to |-> m]}

-----------------------------------------------------------------------------
TypeOK ==
  /\ keys \subseteq VaultKeys /\ stored \subseteq Secrets
  /\ copies \in [Secrets -> [Recipients -> Contents \cup {NoCopy}]]
  /\ live \subseteq Devices /\ revoked \subseteq Devices /\ lists \subseteq SUBSET Devices
  /\ sealed \subseteq Contents
  /\ job \in [Consoles -> JobType \cup {NoJob}]
  /\ listed \in [Secrets -> SUBSET VaultKeys]
  /\ checked \in [VaultKeys -> SUBSET Secrets]
  /\ misled \subseteq Secrets \X Recipients

(* A lie about the copy of a machine concerns that machine; one about the  *)
(* copy of a vault key may be sealed again for everybody.                  *)
Misled(s, r) ==
  \/ <<s, r>> \in misled
  \/ \E k \in VaultKeys : <<s, k>> \in misled

(* EnvGenuine: however a server that knows every public key mixes copies,  *)
(* ids, names and chains when agents fetch, a value that signatures are    *)
(* required for reaches the process only if the owner stored it, under its *)
(* own name and id, and granted it to this very machine.  What the server  *)
(* needs to get another value in is to have lied, about this secret and    *)
(* this machine or a vault key, to a command that seals: those sign what   *)
(* they are told (secret.go:8-17, 311-341, 491-521, main.go:469-471).      *)
EnvGenuine ==
  \A m \in Machines, id \in Secrets, name \in Names, t \in Trusts, rooted \in BOOLEAN :
  \A x \in sealed \cup Forgeries(id, name, m) :
    Fetched(x, id, name, m, t, rooted, TRUE) =>
      \/ x.value = id /\ id \in stored /\ name = NameOf[id] /\ id \in Granted[m]
      \/ Misled(id, m)

(* SignedCopiesVerify: whoever re-sealed it and whatever ran meanwhile, a  *)
(* signed copy of a server that did not lie about it is on a machine that  *)
(* can check it and is accepted there, as long as its device is delegated  *)
(* and not revoked (secret.go:385-386).                                    *)
SignedCopiesVerify ==
  \A s \in stored, m \in Machines :
    LET x == copies[s][m] IN
    x # NoCopy /\ IsSigned(x) /\ ~Misled(s, m) =>
      /\ m \in Mine
      /\ LiveDelegation(x.signer) => Fetched(x, s, NameOf[s], m, Newest, TRUE, TRUE)

(* secret get prints what its copy opens to: of an envelope, its text.     *)
Prints(x, v) == ~IsSigned(x) /\ x.value = v

(* A re-sealing command signed a vault key's copy of s, as OwnCopiesPlain  *)
(* shows it can; usb register copies from one vault key to the next.       *)
EnvelopedForKey(s) ==
  \E x \in sealed : IsSigned(x) /\ x.secret = s /\ x.to \in VaultKeys

(* AddedKeyOpens: a key that secret set sealed to, or that usb register    *)
(* reported to open everything, has a copy for ever, and secret get prints *)
(* the value with it; the exceptions are a secret the server lied about    *)
(* and one that was signed for a vault key (usbvault.go:317-320, 351).     *)
AddedKeyOpens ==
  \A k \in VaultKeys, s \in Personal :
    k \in listed[s] \/ s \in checked[k] =>
      /\ copies[s][k] # NoCopy
      /\ Prints(copies[s][k], s) \/ EnvelopedForKey(s) \/ Misled(s, k)

(* OwnCopiesPlain: no vault key holds an envelope (secret.go:228-229,      *)
(* "signatures are for machines"); secret reseal refuses one.              *)
OwnCopiesPlain ==
  \A s \in Personal, k \in VaultKeys :
    copies[s][k] # NoCopy => ~IsSigned(copies[s][k])
=============================================================================
