----------------------------- MODULE MCOwnerCLI ------------------------------
(***************************************************************************)
(* Instances of OwnerCLI for TLC.                                          *)
(***************************************************************************)
EXTENDS OwnerCLI, TLC

CONSTANTS c1, c2,            \* consoles
          rootKey, foreign,  \* the owner's root and another key
          dongle, chip,      \* signing devices
          refresher          \* a freshness key

(* Consoles are interchangeable, and so are the devices.                   *)
Symmetric == Permutations(Consoles) \cup Permutations(Devices)
=============================================================================
