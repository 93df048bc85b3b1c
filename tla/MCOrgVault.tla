----------------------------- MODULE MCOrgVault -----------------------------
(***************************************************************************)
(* Instance of OrgVault: a founder with two vault keys and one more member *)
(* with one.                                                               *)
(***************************************************************************)
EXTENDS OrgVault, TLC

CONSTANTS ann, bob, working, spare, bobs, c1, c2

KeyOwner == [k \in Keys |-> IF k = bobs THEN bob ELSE ann]

Symmetric == Permutations(Consoles)
=============================================================================
