---------------------------- MODULE MCKeyCustody ----------------------------
(***************************************************************************)
(* Instance of KeyCustody: one stick with hard links and one without, two  *)
(* backups of up to three shares, two or three of which are needed.        *)
(***************************************************************************)
EXTENDS KeyCustody

CONSTANTS daily, safe, b1, b2

MCFresh == {{0, 1, 4, 6}, {2, 7}}
MCCoefficients == {<<{0, 3, 7}>>, <<{5}, {1, 6}>>}

(* What the proofs suppose of the tables, for all bytes, and what they     *)
(* conclude from it, for every secret with these coefficients.             *)
ASSUME ArithmeticAssumption == TablesExact /\ CombineExact

(* One share of two and two of three fit another key in one way each.      *)
ASSUME HidingAssumption ==
  \A coeffs \in MCCoefficients, other \in MCFresh :
    LET m == Len(coeffs) + 1
    IN  \A seen \in kSubset(m - 1, shamirSplit({2, 7}, coeffs, 3)) :
          Cardinality(Explaining(seen, other, m, 3)) = 1
=============================================================================
