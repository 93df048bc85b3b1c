----------------------------- MODULE WriteOnce ------------------------------
(***************************************************************************)
(* A store whose slots are filled once and keep what they hold: what the   *)
(* organisation vault promises about secrets across key rotations, and a   *)
(* USB stick about the key it carries.                                     *)
(***************************************************************************)
CONSTANTS Slots, Values,
          Empty           \* what a slot holds before it is filled

VARIABLE slot             \* slot[s]: Empty, or the value stored in s

Init == slot = [s \in Slots |-> Empty]

Fill(s) ==
  /\ slot[s] = Empty
  /\ slot'[s] \in Values
  /\ slot' = [slot EXCEPT ![s] = slot'[s]]

Next == \E s \in Slots : Fill(s)

Spec == Init /\ [][Next]_slot
=============================================================================
