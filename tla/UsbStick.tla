------------------------------ MODULE UsbStick ------------------------------
(***************************************************************************)
(* Vault keys on USB sticks: p3sig usb init and usb clone (usbvault.go).   *)
(* One command runs at a time; the stick can be pulled, or the power fail, *)
(* between any two file operations, and whatever was not synced may then   *)
(* be torn.  Nothing syncs the directory: that a name made by the link or *)
(* the rename lasts is an assumption on the file system.  Passphrases are  *)
(* not modelled: a wrong one, a stick that holds other files and a drive   *)
(* that cannot be read all end the command (Stop).                         *)
(***************************************************************************)
CONSTANTS Sticks, HardLinks,  \* HardLinks: the sticks that can hold hard links
          Keys, Fresh,        \* private keys; Fresh: the ones usb init may generate
          Absent, Torn,       \* a file that is not there, or does not parse
          NoStick, NoKey

(* A definition, for the module that instantiates this one to assume.      *)
StickAssumption ==
  /\ HardLinks \subseteq Sticks /\ Fresh \subseteq Keys /\ NoStick \notin Sticks /\ NoKey \notin Keys
  /\ Absent # Torn
  /\ {Absent, Torn} \cap ([key : Keys, synced : BOOLEAN] \cup Keys) = {}

VARIABLES final,     \* final[d]:   P3SIG/vault.p3w on stick d
          partial,   \* partial[d]: its .partial file
          keyFile,   \* the key file given to --from
          made,      \* keys that were generated here
          run,       \* the command that runs
          ready      \* history: [stick, key] pairs reported ready and verified

stickVars == <<final, partial, keyFile, made, run, ready>>

Whole == [key : Keys, synced : BOOLEAN]
Files == Whole \cup {Absent, Torn}
Steps == {"idle", "from", "pick", "state", "write", "sync", "link", "tidy", "read"}
RunType == [step : Steps, stick : Sticks \cup {NoStick}, key : Keys \cup {NoKey}, first : BOOLEAN]
Idle == [step |-> "idle", stick |-> NoStick, key |-> NoKey, first |-> FALSE]

HoldsKey(d) == final[d] # Absent     \* usbState "p3sig"
Unwraps(d) == final[d] \in Whole     \* readUSBKey succeeds

Init ==
  /\ final = [d \in Sticks |-> Absent] /\ partial = [d \in Sticks |-> Absent]
  /\ keyFile = Absent /\ made = {}
  /\ run = Idle /\ ready = {}

At(step) == run.step = step
Go(step) == run' = [run EXCEPT !.step = step]

-----------------------------------------------------------------------------
(* usb init on a stick that holds a key resumes with it, ...               *)
InitResume(d) ==
  /\ At("idle") /\ HoldsKey(d) /\ Unwraps(d)
  /\ run' = [step |-> "state", stick |-> d, key |-> final[d].key, first |-> TRUE]
  /\ UNCHANGED <<final, partial, keyFile, made, ready>>

(* ... on a blank one takes the key of --from, or makes a new one.         *)
InitFrom(d) ==
  /\ At("idle") /\ ~HoldsKey(d) /\ keyFile \in Keys
  /\ run' = [step |-> "state", stick |-> d, key |-> keyFile, first |-> TRUE]
  /\ UNCHANGED <<final, partial, keyFile, made, ready>>

InitNew(d) ==
  /\ At("idle") /\ ~HoldsKey(d)
  /\ \E k \in Fresh \ made :
       /\ made' = made \cup {k}
       /\ run' = [step |-> "state", stick |-> d, key |-> k, first |-> TRUE]
  /\ UNCHANGED <<final, partial, keyFile, ready>>

(* usb clone reads the key from one stick; usb init comes here with the    *)
(* key it has just stored.  The user picks the stick to write.             *)
CloneFrom(d) ==
  /\ At("idle") /\ Unwraps(d)
  /\ run' = [step |-> "pick", stick |-> NoStick, key |-> final[d].key, first |-> FALSE]
  /\ UNCHANGED <<final, partial, keyFile, made, ready>>

Pick(d) ==
  /\ At("pick")
  /\ run' = [run EXCEPT !.step = "state", !.stick = d, !.first = FALSE]
  /\ UNCHANGED <<final, partial, keyFile, made, ready>>

-----------------------------------------------------------------------------
(* storeOnUSB: a stick that holds a key is only read back.                 *)
StoreState ==
  /\ At("state")
  /\ Go(IF HoldsKey(run.stick) THEN "read" ELSE "write")
  /\ UNCHANGED <<final, partial, keyFile, made, ready>>

(* writeUSBKey: leftovers go, a new .partial is created and written, ...   *)
Write ==
  /\ At("write")
  /\ partial' = [partial EXCEPT ![run.stick] = [key |-> run.key, synced |-> FALSE]]
  /\ Go("sync")
  /\ UNCHANGED <<final, keyFile, made, ready>>

(* Operators named ...Mutant are wrong on purpose: each stands for a slip  *)
(* that the properties must notice.                                        *)
SyncMutant ==
  /\ At("sync")
  /\ Go("link")
  /\ UNCHANGED <<final, partial, keyFile, made, ready>>
Sync ==
  /\ At("sync")
  /\ partial' = [partial EXCEPT ![run.stick] = [key |-> @.key, synced |-> TRUE]]
  /\ Go("link")
  /\ UNCHANGED <<final, keyFile, made, ready>>

(* ... linked to its final name, or renamed where there are no links, ...  *)
Link ==
  /\ At("link") /\ run.stick \in HardLinks
  /\ final[run.stick] = Absent
  /\ final' = [final EXCEPT ![run.stick] = partial[run.stick]]
  /\ Go("tidy")
  /\ UNCHANGED <<partial, keyFile, made, ready>>

Rename ==
  /\ At("link") /\ run.stick \notin HardLinks
  /\ final[run.stick] = Absent
  /\ final' = [final EXCEPT ![run.stick] = partial[run.stick]]
  /\ partial' = [partial EXCEPT ![run.stick] = Absent]
  /\ Go("tidy")
  /\ UNCHANGED <<keyFile, made, ready>>

(* ... and the .partial file removed.                                      *)
Tidy ==
  /\ At("tidy")
  /\ partial' = [partial EXCEPT ![run.stick] = Absent]
  /\ Go("read")
  /\ UNCHANGED <<final, keyFile, made, ready>>

(* The write or the sync fails: the .partial file is removed.              *)
WriteFails ==
  /\ run.step \in {"sync", "link"}
  /\ partial' = [partial EXCEPT ![run.stick] = Absent]
  /\ run' = Idle
  /\ UNCHANGED <<final, keyFile, made, ready>>

(* The copy is proved: what is on the stick must unwrap to this very key.  *)
(* After the first stick, usb init goes on to the second.                  *)
SameKeyMutant(file, k) == file \in Whole
SameKey(file, k) == file \in Whole /\ file.key = k
ReadBack ==
  /\ At("read")
  /\ SameKey(final[run.stick], run.key)
  /\ ready' = ready \cup {[stick |-> run.stick, key |-> run.key]}
  /\ run' = IF run.first THEN [run EXCEPT !.step = "pick"] ELSE Idle
  /\ UNCHANGED <<final, partial, keyFile, made>>

(* The command ends, on its own or because something is refused.           *)
Stop ==
  /\ ~At("idle")
  /\ run' = Idle
  /\ UNCHANGED <<final, partial, keyFile, made, ready>>

(* A stick is pulled or the power fails: what was not synced may be torn.  *)
Lost(file) == IF file \in Whole /\ ~file.synced THEN {file, Torn} ELSE {file}
Unplug(d) ==
  /\ ~At("idle")
  /\ run' = Idle
  /\ \E f \in Lost(final[d]), p \in Lost(partial[d]) :
       /\ final' = [final EXCEPT ![d] = f]
       /\ partial' = [partial EXCEPT ![d] = p]
  /\ UNCHANGED <<keyFile, made, ready>>

Next ==
  \/ \E d \in Sticks : InitResume(d) \/ InitFrom(d) \/ InitNew(d) \/ CloneFrom(d) \/ Pick(d)
  \/ StoreState \/ Write \/ Sync \/ Link \/ Rename \/ Tidy \/ WriteFails \/ ReadBack
  \/ Stop
  \/ \E d \in Sticks : Unplug(d)

Spec == Init /\ [][Next]_stickVars

-----------------------------------------------------------------------------
SticksOK ==
  /\ final \in [Sticks -> Files] /\ partial \in [Sticks -> Files]
  /\ made \subseteq Keys
  /\ run \in RunType
  /\ run.step \in {"state", "write", "sync", "link", "tidy", "read"} => run.stick \in Sticks /\ run.key \in Keys
  /\ ready \subseteq [stick : Sticks, key : Keys]
TypeOK == SticksOK /\ keyFile \in Keys \cup {Absent, Torn}

(* ReadyForGood: a stick that was reported ready with a key unwraps to     *)
(* that key from then on, whatever is interrupted later                    *)
(* (usbvault.go:129-131).                                                  *)
ReadyForGood ==
  \A x \in ready : final[x.stick] = [key |-> x.key, synced |-> TRUE]

(* The sticks are a write-once store: a key that has landed is never       *)
(* replaced, lost or torn (usbvault.go:71-72), and a leftover is never     *)
(* taken for a key.                                                        *)
Store == INSTANCE WriteOnce WITH
           Slots <- Sticks, Values <- Keys, Empty <- Absent,
           slot <- [d \in Sticks |-> IF final[d] \in Whole THEN final[d].key ELSE Absent]
ImplementsWriteOnce == Store!Spec
=============================================================================
