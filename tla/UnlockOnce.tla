----------------------------- MODULE UnlockOnce -----------------------------
(***************************************************************************)
(* What the key server promises the holder of an app key: within one run   *)
(* of the process a signed request is granted at most once, and the bundle *)
(* key leaves the server at most once per grant.  A restart forgets which  *)
(* requests were granted.                                                  *)
(***************************************************************************)
EXTENDS Naturals

CONSTANT Requests       \* the signed requests

VARIABLES granted,      \* granted[r]:  times r was let through to the chip
          released      \* released[r]: times the bundle key was sent for r

promise == <<granted, released>>

Init == granted = [r \in Requests |-> 0] /\ released = [r \in Requests |-> 0]

Grant(r) ==
  /\ granted[r] = 0
  /\ granted' = [granted EXCEPT ![r] = 1]
  /\ UNCHANGED released

Release(r) ==
  /\ granted[r] = 1
  /\ released[r] = 0
  /\ released' = [released EXCEPT ![r] = 1]
  /\ UNCHANGED granted

Forget == granted' = [r \in Requests |-> 0] /\ released' = [r \in Requests |-> 0]

Next == \/ \E r \in Requests : Grant(r) \/ Release(r)
        \/ Forget

Spec == Init /\ [][Next]_promise
=============================================================================
