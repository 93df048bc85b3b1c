------------------------------- MODULE Shamir -------------------------------
(***************************************************************************)
(* Secret sharing over GF(2^8): shamir.go, one byte of the secret.  A byte *)
(* is the set of its one bits, so that exclusive or is the symmetric       *)
(* difference; zero is the empty set.                                      *)
(***************************************************************************)
EXTENDS Integers, SequencesExt, FiniteSetsExt

Byte(n) == {i \in 0..7 : (n \div 2^i) % 2 = 1}
Bytes == {Byte(n) : n \in 0..255}
Zero == {}
One == {0}
Xor(a, b) == (a \ b) \cup (b \ a)

(* The product without tables: a, doubled bit by bit, summed over b's bits.*)
Double(a) == Xor({i + 1 : i \in a \ {7}}, IF 7 \in a THEN {0, 1, 3, 4} ELSE {})
gfMulRaw(a, b) ==
  FoldLeft(LAMBDA s, i : [a |-> Double(s.a), p |-> IF i - 1 \in b THEN Xor(s.p, s.a) ELSE s.p],
           [a |-> a, p |-> Zero], [i \in 1..8 |-> i]).p

(* The tables: powers of the generator 3, and their logarithms.            *)
gfExp == FoldLeft(LAMBDA exp, i : Append(exp, gfMulRaw(Last(exp), {0, 1})),
                  <<One>>, [i \in 1..255 |-> i])
Exp(i) == gfExp[i + 1]
gfLog == [x \in Bytes \ {Zero} |-> CHOOSE i \in 0..254 : Exp(i) = x]

gfMul(a, b) == IF a = Zero \/ b = Zero THEN Zero ELSE Exp((gfLog[a] + gfLog[b]) % 255)
gfDiv(a, b) == IF a = Zero THEN Zero ELSE Exp((gfLog[a] - gfLog[b] + 255) % 255)

(* What the tables must satisfy for sharing to work: the powers of the     *)
(* generator are all the bytes but zero, each once, and multiplying by it  *)
(* distributes over exclusive or.  None of this has a parameter.           *)
NonZero == Bytes \ {Zero}
PowersNonZero == \A i \in 0..254 : Exp(i) \in NonZero
PowersDiffer == \A i, j \in 0..254 : Exp(i) = Exp(j) => i = j
PowersAll == \A a \in NonZero : \E i \in 0..254 : Exp(i) = a
GeneratorDistributes ==
  \A a, b \in Bytes : gfMul(Exp(1), Xor(a, b)) = Xor(gfMul(Exp(1), a), gfMul(Exp(1), b))
TablesExact ==
  /\ Bytes = SUBSET (0..7) /\ Exp(0) = One
  /\ \A i \in 1..255 : Byte(i) # Zero
  /\ PowersNonZero /\ PowersDiffer /\ PowersAll /\ GeneratorDistributes

(* Horner's rule, from the last coefficient down to the secret.            *)
evalPoly(coeffs, x) == FoldRight(LAMBDA c, r : Xor(gfMul(r, x), c), coeffs, Zero)

(* M-of-N shares of one byte; coeffs are the random ones, M - 1 of them.   *)
CanSplit(m, n) == 2 <= m /\ m <= n /\ n <= 255
shamirSplit(secret, coeffs, n) ==
  {[x |-> Byte(i), m |-> Len(coeffs) + 1, y |-> evalPoly(<<secret>> \o coeffs, Byte(i))] : i \in 1..n}

(* The choices of random coefficients that make a set of shares, as it is  *)
(* seen by somebody, shares of a secret.                                   *)
Explaining(seen, secret, m, n) ==
  {coeffs \in [1..m-1 -> Bytes] : seen \subseteq shamirSplit(secret, coeffs, n)}

(* Combining: refused for index zero and for a repeated index; otherwise   *)
(* Lagrange's formula at zero, where minus is plus.                        *)
CanCombine(shares) ==
  /\ \A i \in DOMAIN shares : shares[i].x # Zero
  /\ \A i, j \in DOMAIN shares : i # j => shares[i].x # shares[j].x
Product(s) == FoldLeft(LAMBDA p, a : gfMul(p, a), One, s)
Weight(shares, i) ==
  LET others == RemoveAt(shares, i)
      num == Product([j \in DOMAIN others |-> others[j].x])
      den == Product([j \in DOMAIN others |-> Xor(shares[i].x, others[j].x)])
  IN  gfDiv(num, den)
shamirCombine(shares) ==
  FoldFunction(Xor, Zero, [i \in DOMAIN shares |-> gfMul(shares[i].y, Weight(shares, i))])
=============================================================================
