----------------------------- MODULE KeyCustody -----------------------------
(***************************************************************************)
(* Where a vault key is kept: on USB sticks (UsbStick) and on recovery     *)
(* cards (Recovery).  They meet in the key file that restore writes and    *)
(* usb init --from reads, and in the sticks and the file that backup reads.*)
(***************************************************************************)
EXTENDS Recovery

CONSTANTS Sticks, HardLinks, Fresh, NoStick

VARIABLES final, partial, made, run, ready

vars == <<final, partial, made, run, ready, cards, backedUp, keyFile, restored>>

Stick == INSTANCE UsbStick WITH Keys <- Bytes

ASSUME CustodyAssumption ==
  /\ Stick!StickAssumption
  /\ Coefficients \subseteq Seq(Bytes) /\ MaxShares \in 2..255 /\ MaxPaste \in Nat

Init == Stick!Init /\ CardsInit

(* One command runs at a time; backup reads the key from a stick or from   *)
(* the key file.                                                           *)
Held == Bytes \cap ({final[d].key : d \in {e \in Sticks : Stick!Unwraps(e)}} \cup {keyFile})

Backup ==
  /\ Stick!At("idle")
  /\ \E b \in Backups, k \in Held : Split(b, k) \/ SingleCard(b, k)
  /\ UNCHANGED <<final, partial, made, run, ready>>

UseCards ==
  /\ Stick!At("idle")
  /\ \E input \in Inputs : Restore(input)
  /\ UNCHANGED <<final, partial, made, run, ready>>

UseStick == Stick!Next /\ UNCHANGED <<cards, backedUp, restored>>

Next == Backup \/ UseCards \/ UseStick

Spec == Init /\ [][Next]_vars

-----------------------------------------------------------------------------
TypeOK == Stick!TypeOK /\ CardsOK

ImplementsWriteOnce == Stick!ImplementsWriteOnce
ReadyForGood == Stick!ReadyForGood

(* OwnKeyOrRefused: along sticks, cards, files and sticks again, a stick   *)
(* is reported ready only with a key that was generated for the owner;     *)
(* shares of different backups given to one restore are the exception, for *)
(* their sum is taken for a key (backup.go:164-177).                       *)
OwnKeyOrRefused ==
  \A x \in ready :
    \/ x.key \in made
    \/ \E r \in restored : r.key = x.key /\ Cardinality(r.from) > 1
=============================================================================
