-------------------------- MODULE KeyCustodyProofs ---------------------------
(***************************************************************************)
(* What holds of KeyCustody for any sticks, keys, backups and restores,    *)
(* and of Shamir for any number of shares.                                 *)
(*                                                                         *)
(* The arithmetic is supposed to satisfy TablesExact only, which has no    *)
(* parameter and which MCKeyCustody evaluates for all bytes.  From it:     *)
(* bytes are a field; interpolation at zero over the subsets of the        *)
(* indices, by induction, returns the lowest coefficient (SharesCombine,   *)
(* SharesCombineExact) and leaves it open while a share is missing         *)
(* (SharesHide).  That sticks keep their keys holds whatever the           *)
(* arithmetic makes of the blocks it is given; that restored keys are the  *)
(* owner's rests on SharesCombineExact.                                    *)
(***************************************************************************)
EXTENDS KeyCustody, FiniteSetTheorems, SequenceTheorems, TLAPS

Usb == INSTANCE UsbStickProofs WITH Keys <- Bytes

-----------------------------------------------------------------------------
(* Recursion over finite sets, with sets in the place of predicates.       *)

(* Induction over the subsets of a finite set, with a set for predicate.   *)
LEMMA SubsetInduction ==
  ASSUME NEW D, IsFiniteSet(D), NEW P,
         \A s \in SUBSET D : (\A t \in SUBSET D : t \subseteq s /\ t # s => t \in P) => s \in P
  PROVE  \A s \in SUBSET D : s \in P
<1> SUFFICES ASSUME ~ (\A s \in SUBSET D : s \in P) PROVE FALSE
  OBVIOUS
<1> DEFINE T == {s \in SUBSET D : s \notin P}
<1>1. T # {} /\ T \subseteq FiniteSubsetsOf(D)
  BY FS_Subset DEF FiniteSubsetsOf
<1>2. IsWellFoundedOn(StrictSubsetOrdering(D), FiniteSubsetsOf(D))
  BY FS_StrictSubsetOrderingWellFounded
<1>3. \E s \in T : \A t \in T : <<t, s>> \notin StrictSubsetOrdering(D)
  <2> HIDE DEF T
  <2> QED BY <1>1, <1>2, WFMin
<1>4. PICK s \in T : \A t \in T : <<t, s>> \notin StrictSubsetOrdering(D)
  BY <1>3
<1>5. \A t \in SUBSET D : t \subseteq s /\ t # s => t \in P
  BY <1>4 DEF StrictSubsetOrdering
<1> QED BY <1>4, <1>5

(* By taking elements out one at a time.                                   *)
LEMMA StepSubset ==
  ASSUME NEW D, IsFiniteSet(D), NEW P, {} \in P,
         \A s \in SUBSET D : s # {} /\ (\A x \in s : s \ {x} \in P) => s \in P
  PROVE  \A s \in SUBSET D : s \in P
<1>1. ASSUME NEW s \in SUBSET D, \A t \in SUBSET D : t \subseteq s /\ t # s => t \in P
      PROVE  s \in P
  <2>1. \A x \in s : s \ {x} \in SUBSET D /\ s \ {x} \subseteq s /\ s \ {x} # s
    OBVIOUS
  <2> QED BY <1>1, <2>1, Zenon
<1> QED BY <1>1, SubsetInduction, Zenon

(* Any recursion over subsets has a solution.                              *)
Solves(g, T, B, c, st, e) ==
  /\ g \in [SUBSET T -> B]
  /\ \A s \in SUBSET T : g[s] = IF s = {} THEN e ELSE st[<<c[s], g[s \ {c[s]}]>>]

(* The solutions over two sets agree on the subsets of both.               *)
LEMMA SolvesSame ==
  ASSUME NEW D, IsFiniteSet(D), NEW B, NEW c, NEW st, NEW e,
         \A s \in SUBSET D : s # {} => c[s] \in s,
         NEW T \in SUBSET D, NEW U \in SUBSET D, NEW g, NEW h,
         Solves(g, T, B, c, st, e), Solves(h, U, B, c, st, e)
  PROVE  \A s \in SUBSET T : s \subseteq U => g[s] = h[s]
<1> DEFINE P == {s \in SUBSET D : s \subseteq T /\ s \subseteq U => g[s] = h[s]}
<1>1. {} \in P BY DEF Solves
<1>2. ASSUME NEW s \in SUBSET D, s # {}, \A x \in s : s \ {x} \in P PROVE s \in P
  <2> SUFFICES ASSUME s \subseteq T, s \subseteq U PROVE g[s] = h[s] OBVIOUS
  <2>1. g[s \ {c[s]}] = h[s \ {c[s]}] BY <1>2
  <2>2. g[s] = st[<<c[s], g[s \ {c[s]}]>>] BY <1>2 DEF Solves
  <2>3. h[s] = st[<<c[s], h[s \ {c[s]}]>>] BY <1>2 DEF Solves
  <2> QED BY <2>1, <2>2, <2>3
<1> HIDE DEF P
<1>3. \A s \in SUBSET D : s \in P BY <1>1, <1>2, StepSubset, Zenon
<1> QED BY <1>3 DEF P

(* There is one: put together from those over the smaller sets.            *)
LEMMA SolvesExists ==
  ASSUME NEW D, IsFiniteSet(D), NEW B, NEW c, NEW e \in B, NEW st \in [D \X B -> B],
         \A s \in SUBSET D : s # {} => c[s] \in s
  PROVE  \E g : Solves(g, D, B, c, st, e)
<1> DEFINE P == {T \in SUBSET D : \E g : Solves(g, T, B, c, st, e)}
           G(s) == CHOOSE g : Solves(g, s, B, c, st, e)
<1>1. ASSUME NEW T \in SUBSET D, \A t \in SUBSET D : t \subseteq T /\ t # T => t \in P
      PROVE  T \in P
  <2> DEFINE f == [s \in SUBSET T |->
                     IF s # T THEN G(s)[s]
                     ELSE IF s = {} THEN e ELSE st[<<c[s], G(s \ {c[s]})[s \ {c[s]}]>>]]
  <2>1. ASSUME NEW s \in SUBSET T, s # T PROVE Solves(G(s), s, B, c, st, e)
    BY <1>1, <2>1
  <2> HIDE DEF G
  <2>2. ASSUME NEW s \in SUBSET T, s # {}
        PROVE  c[s] \in s /\ c[s] \in D /\ s \ {c[s]} \in SUBSET T /\ s \ {c[s]} # T
    BY <2>2
  <2>3. ASSUME NEW s \in SUBSET T, s # T PROVE G(s)[s] \in B
    <3>1. \A g : Solves(g, s, B, c, st, e) => g[s] \in B BY DEF Solves
    <3> QED BY <2>1, <2>3, <3>1
  <2>4. ASSUME NEW s \in SUBSET T PROVE f[s] \in B
    <3>1. CASE s # T BY <2>3, <3>1
    <3>2. CASE s = T /\ s = {} BY <3>2
    <3>3. CASE s = T /\ s # {}
      <4>1. c[s] \in D /\ G(s \ {c[s]})[s \ {c[s]}] \in B BY <2>2, <2>3, <3>3
      <4> HIDE DEF f
      <4>2. st[<<c[s], G(s \ {c[s]})[s \ {c[s]}]>>] \in B BY <4>1
      <4> QED BY <3>3, <4>2 DEF f
    <3> QED BY <3>1, <3>2, <3>3
  <2>5. ASSUME NEW s \in SUBSET T PROVE f[s] = IF s = {} THEN e ELSE st[<<c[s], f[s \ {c[s]}]>>]
    <3>1. CASE s = T
      BY <3>1, <2>2
    <3>2. CASE s # T /\ s = {}
      <4>1. f[s] = G(s)[s] BY <3>2
      <4>2. G(s)[s] = e BY <3>2, <2>1 DEF Solves
      <4> QED BY <3>2, <4>1, <4>2
    <3>3. CASE s # T /\ s # {}
      <4> DEFINE r == s \ {c[s]}
      <4>1. r \in SUBSET T /\ r # T /\ r \in SUBSET s BY <2>2, <3>3
      <4>2. f[s] = G(s)[s] BY <3>3
      <4>3. f[r] = G(r)[r] BY <4>1
      <4>4. G(s)[s] = st[<<c[s], G(s)[r]>>] BY <3>3, <2>1 DEF Solves
      <4>5. Solves(G(r), r, B, c, st, e) /\ Solves(G(s), s, B, c, st, e) BY <2>1, <3>3, <4>1
      <4>6. r \in SUBSET D /\ s \in SUBSET D BY <4>1
      <4>7. G(r)[r] = G(s)[r]
        <5> HIDE DEF r
        <5>1. \A v \in SUBSET r : v \subseteq s => G(r)[v] = G(s)[v]
          BY <4>5, <4>6, SolvesSame
        <5> QED BY <5>1, <4>1
      <4> HIDE DEF r, f
      <4>8. f[s] = st[<<c[s], f[r]>>] BY <4>2, <4>3, <4>4, <4>7
      <4> QED BY <3>3, <4>8 DEF r
    <3> QED BY <3>1, <3>2, <3>3
  <2>6. Solves(f, T, B, c, st, e) BY <2>4, <2>5 DEF Solves
  <2> HIDE DEF f
  <2> QED BY <2>6
<1> HIDE DEF P
<1>2. D \in P BY <1>1, SubsetInduction, Zenon
<1> QED BY <1>2 DEF P

(* Functions of two bytes whose arguments may be put in any order.         *)
Reorders(op, B) ==
  /\ op \in [B \X B -> B]
  /\ \A a, b \in B : op[<<a, b>>] = op[<<b, a>>]
  /\ \A a, b, d \in B : op[<<a, op[<<b, d>>]>>] = op[<<op[<<a, b>>], d>>]
IsFold(g, D, B, op, e, h) ==
  /\ g \in [SUBSET D -> B] /\ g[{}] = e
  /\ \A s \in SUBSET D : \A x \in s : g[s] = op[<<h[x], g[s \ {x}]>>]

(* The fold of a commutative and associative function may take out any     *)
(* element first.                                                          *)
LEMMA FoldAny ==
  ASSUME NEW D, IsFiniteSet(D), NEW B, NEW e \in B, NEW op, Reorders(op, B), NEW h \in [D -> B]
  PROVE  \E g : IsFold(g, D, B, op, e, h)
<1> DEFINE c == [s \in SUBSET D |-> CHOOSE x \in s : TRUE]
           st == [p \in D \X B |-> op[<<h[p[1]], p[2]>>]]
<1>0. /\ op \in [B \X B -> B]
      /\ \A a, b \in B : op[<<a, b>>] = op[<<b, a>>]
      /\ \A a, b, d \in B : op[<<a, op[<<b, d>>]>>] = op[<<op[<<a, b>>], d>>]
  BY DEF Reorders
<1>1. \A s \in SUBSET D : s # {} => c[s] \in s
  OBVIOUS
<1>2. st \in [D \X B -> B]
  <2>1. \A p \in D \X B : h[p[1]] \in B /\ p[2] \in B OBVIOUS
  <2>2. \A p \in D \X B : <<h[p[1]], p[2]>> \in B \X B BY <2>1
  <2> QED BY <1>0, <2>2
<1>3. \A x \in D, b \in B : st[<<x, b>>] = op[<<h[x], b>>]
  OBVIOUS
<1> HIDE DEF c, st
<1>4. PICK g : Solves(g, D, B, c, st, e)
  BY <1>1, <1>2, SolvesExists
<1>5. g \in [SUBSET D -> B] /\ g[{}] = e
  BY <1>4 DEF Solves
<1>6. \A s \in SUBSET D : s # {} => g[s] = op[<<h[c[s]], g[s \ {c[s]}]>>]
  <2> SUFFICES ASSUME NEW s \in SUBSET D, s # {} PROVE g[s] = op[<<h[c[s]], g[s \ {c[s]}]>>]
    OBVIOUS
  <2>1. c[s] \in D /\ s \ {c[s]} \in SUBSET D BY <1>1
  <2>2. g[s] = st[<<c[s], g[s \ {c[s]}]>>] BY <1>4 DEF Solves
  <2>3. g[s \ {c[s]}] \in B BY <1>5, <2>1
  <2> QED BY <1>3, <2>1, <2>2, <2>3
<1> DEFINE P == {s \in SUBSET D : \A x \in s : g[s] = op[<<h[x], g[s \ {x}]>>]}
<1>7. ASSUME NEW s \in SUBSET D, s # {}, \A x \in s : s \ {x} \in P PROVE s \in P
  <2> SUFFICES ASSUME NEW x \in s, x # c[s] PROVE g[s] = op[<<h[x], g[s \ {x}]>>]
    BY <1>6, <1>7
  <2> DEFINE y == c[s]  r == (s \ {x}) \ {y}
  <2>1. y \in s /\ y \in D /\ x \in D /\ r \in SUBSET D /\ (s \ {y}) \ {x} = r BY <1>1, <1>7
  <2>2. g[s] = op[<<h[y], g[s \ {y}]>>] BY <1>6, <1>7
  <2>3. g[s \ {y}] = op[<<h[x], g[r]>>]
    <3>1. s \ {y} \in P /\ x \in s \ {y} BY <1>7, <2>1
    <3>2. g[s \ {y}] = op[<<h[x], g[(s \ {y}) \ {x}]>>] BY <3>1
    <3> QED BY <2>1, <3>2
  <2>4. g[s \ {x}] = op[<<h[y], g[r]>>] BY <1>7, <2>1
  <2>5. h[x] \in B /\ h[y] \in B /\ g[r] \in B BY <1>5, <2>1
  <2> HIDE DEF y, r
  <2>6. op[<<h[y], op[<<h[x], g[r]>>]>>] = op[<<h[x], op[<<h[y], g[r]>>]>>]
    <3>1. op[<<h[y], op[<<h[x], g[r]>>]>>] = op[<<op[<<h[y], h[x]>>], g[r]>>] BY <1>0, <2>5
    <3>2. op[<<h[x], op[<<h[y], g[r]>>]>>] = op[<<op[<<h[x], h[y]>>], g[r]>>] BY <1>0, <2>5
    <3> QED BY <1>0, <2>5, <3>1, <3>2
  <2> QED BY <2>2, <2>3, <2>4, <2>6
<1>8. {} \in P
  OBVIOUS
<1> HIDE DEF P
<1>9. \A s \in SUBSET D : s \in P
  BY <1>7, <1>8, StepSubset, Zenon
<1>10. \A s \in SUBSET D : \A x \in s : g[s] = op[<<h[x], g[s \ {x}]>>]
  BY <1>9 DEF P
<1> QED BY <1>5, <1>10 DEF IsFold
(* And over the natural numbers.                                           *)
LEMMA NatSetInduction ==
  ASSUME NEW T, 0 \in T, \A n \in Nat : n \in T => n + 1 \in T
  PROVE  \A n \in Nat : n \in T
<1> SUFFICES ASSUME NEW n \in Nat PROVE n \in T
  OBVIOUS
<1> DEFINE P == {s \in SUBSET (1..n) : \A k \in 0..n : s = 1..k => k \in T}
<1>1. ASSUME NEW s \in SUBSET (1..n), \A t \in SUBSET (1..n) : t \subseteq s /\ t # s => t \in P
      PROVE  s \in P
  <2> SUFFICES ASSUME NEW k \in 0..n, s = 1..k, k # 0 PROVE k \in T
    OBVIOUS
  <2>1. 1..(k - 1) \in SUBSET (1..n) /\ 1..(k - 1) \subseteq s /\ 1..(k - 1) # s
    <3>1. k \in s /\ k \notin 1..(k - 1) OBVIOUS
    <3> QED BY <3>1
  <2>2. k - 1 \in 0..n /\ k - 1 \in Nat /\ (k - 1) + 1 = k
    OBVIOUS
  <2>3. k - 1 \in T BY <1>1, <2>1, <2>2
  <2> QED BY <2>2, <2>3
<1>2. IsFiniteSet(1..n) /\ 1..n \in SUBSET (1..n) /\ n \in 0..n
  BY FS_Interval
<1> HIDE DEF P
<1>3. 1..n \in P
  BY <1>1, <1>2, SubsetInduction, Zenon
<1> QED BY <1>2, <1>3 DEF P

-----------------------------------------------------------------------------
(* The field.  Exclusive or is a commutative group in which every byte is  *)
(* its own inverse; products are sums of logarithms.                       *)
LEMMA XorFacts ==
  ASSUME TablesExact, NEW a \in Bytes, NEW b \in Bytes, NEW c \in Bytes
  PROVE  /\ Zero \in Bytes /\ Xor(a, b) \in Bytes
         /\ Xor(a, b) = Xor(b, a)
         /\ Xor(a, Xor(b, c)) = Xor(Xor(a, b), c)
         /\ Xor(a, Zero) = a /\ Xor(a, a) = Zero
         /\ Xor(a, b) = Zero <=> a = b
<1>1. Zero \in Bytes /\ Xor(a, b) \in Bytes BY DEF TablesExact, Xor, Zero
<1>2. Xor(a, b) = Xor(b, a) BY DEF Xor
<1>3. Xor(a, Xor(b, c)) = Xor(Xor(a, b), c) BY DEF Xor
<1>4. Xor(a, Zero) = a /\ Xor(a, a) = Zero BY DEF Xor, Zero
<1>5. Xor(a, b) = Zero <=> a = b BY DEF Xor, Zero
<1> QED BY <1>1, <1>2, <1>3, <1>4, <1>5

(* Logarithms, as a set of their own so that the sums below stay sums.     *)
Exponents == 0..254

(* Every byte but zero is one power of the generator.                      *)
LEMMA LogFacts ==
  ASSUME TablesExact
  PROVE  /\ One \in NonZero /\ One \in Bytes /\ gfLog[One] = 0
         /\ Zero \in Bytes /\ Zero \notin NonZero /\ NonZero \subseteq Bytes
         /\ \A a \in NonZero : gfLog[a] \in Exponents /\ Exp(gfLog[a]) = a
         /\ \A i \in Exponents : Exp(i) \in NonZero /\ gfLog[Exp(i)] = i
<1>1. Exp(0) = One /\ PowersNonZero /\ PowersDiffer /\ PowersAll
  BY DEF TablesExact
<1>2. 0 \in 0..254
  OBVIOUS
<1>3. ASSUME NEW a \in NonZero PROVE gfLog[a] \in 0..254 /\ Exp(gfLog[a]) = a
  <2>1. gfLog[a] = CHOOSE i \in 0..254 : Exp(i) = a BY DEF gfLog, NonZero
  <2>2. \E i \in 0..254 : Exp(i) = a BY <1>1 DEF PowersAll
  <2> QED BY <2>1, <2>2
<1>4. ASSUME NEW i \in 0..254 PROVE Exp(i) \in NonZero /\ gfLog[Exp(i)] = i
  <2>1. Exp(i) \in NonZero BY <1>1 DEF PowersNonZero
  <2>2. gfLog[Exp(i)] \in 0..254 /\ Exp(gfLog[Exp(i)]) = Exp(i) BY <1>3, <2>1
  <2> QED BY <1>1, <2>1, <2>2 DEF PowersDiffer
<1>5. One \in NonZero /\ gfLog[One] = 0 BY <1>1, <1>2, <1>4
<1>6. Zero \in Bytes /\ Zero \notin NonZero /\ NonZero \subseteq Bytes
  BY DEF NonZero, TablesExact, Zero
<1> QED BY <1>3, <1>4, <1>5, <1>6 DEF Exponents

(* The arithmetic of logarithms.                                           *)
LogSum(i, j) == (i + j) % 255
LogDifference(i, j) == (i - j + 255) % 255

LEMMA LogArithmetic ==
  ASSUME NEW i \in Exponents, NEW j \in Exponents, NEW k \in Exponents
  PROVE  /\ 0 \in Exponents /\ LogSum(i, j) \in Exponents /\ LogDifference(i, j) \in Exponents
         /\ LogSum(i, j) = LogSum(j, i)
         /\ LogSum(i, LogSum(j, k)) = LogSum(LogSum(i, j), k)
         /\ LogSum(i, 0) = i
         /\ LogSum(LogDifference(i, j), j) = i
<1>0. i \in 0..254 /\ j \in 0..254 /\ k \in 0..254 /\ 0 \in 0..254 BY DEF Exponents
<1>1. (i + j) % 255 \in 0..254 /\ (i - j + 255) % 255 \in 0..254 BY <1>0
<1>2. (i + j) % 255 = (j + i) % 255 BY <1>0
<1>3. (i + ((j + k) % 255)) % 255 = (((i + j) % 255) + k) % 255 BY <1>0
<1>4. (((i - j + 255) % 255) + j) % 255 = i BY <1>0
<1>5. (i + 0) % 255 = i BY <1>0
<1> QED BY <1>0, <1>1, <1>2, <1>3, <1>4, <1>5, Zenon DEF Exponents, LogSum, LogDifference

(* So products add logarithms and quotients subtract them.                 *)
LEMMA MulLog ==
  ASSUME TablesExact, NEW a \in NonZero, NEW b \in NonZero
  PROVE  /\ gfMul(a, b) = Exp(LogSum(gfLog[a], gfLog[b]))
         /\ gfMul(a, b) \in NonZero /\ gfLog[gfMul(a, b)] = LogSum(gfLog[a], gfLog[b])
         /\ gfDiv(a, b) \in NonZero /\ gfLog[gfDiv(a, b)] = LogDifference(gfLog[a], gfLog[b])
<1>1. gfLog[a] \in Exponents /\ gfLog[b] \in Exponents
  BY LogFacts
<1>2. LogSum(gfLog[a], gfLog[b]) \in Exponents /\ LogDifference(gfLog[a], gfLog[b]) \in Exponents
  BY <1>1, LogArithmetic
<1>3. gfMul(a, b) = Exp(LogSum(gfLog[a], gfLog[b])) BY Zenon DEF gfMul, NonZero, LogSum
<1>4. gfDiv(a, b) = Exp(LogDifference(gfLog[a], gfLog[b])) BY Zenon DEF gfDiv, NonZero, LogDifference
<1> QED BY <1>2, <1>3, <1>4, LogFacts

(* Multiplication makes a group of the bytes that are not zero.            *)
LEMMA MulFacts ==
  ASSUME TablesExact, NEW a \in NonZero, NEW b \in NonZero, NEW c \in NonZero
  PROVE  /\ gfMul(a, b) \in NonZero /\ gfDiv(a, b) \in NonZero
         /\ gfMul(a, b) = gfMul(b, a)
         /\ gfMul(a, gfMul(b, c)) = gfMul(gfMul(a, b), c)
         /\ gfMul(a, One) = a
         /\ gfMul(gfDiv(a, b), b) = a
<1>1. gfLog[a] \in Exponents /\ gfLog[b] \in Exponents /\ gfLog[c] \in Exponents /\ gfLog[One] = 0
  BY LogFacts
<1>2. gfMul(a, b) \in NonZero /\ gfDiv(a, b) \in NonZero /\ gfMul(b, c) \in NonZero /\ One \in NonZero
  BY MulLog, LogFacts
<1>3. \A u, v \in NonZero : gfMul(u, v) = Exp(LogSum(gfLog[u], gfLog[v]))
  BY MulLog
<1>4. gfMul(a, b) = gfMul(b, a)
  <2>1. LogSum(gfLog[a], gfLog[b]) = LogSum(gfLog[b], gfLog[a]) BY <1>1, LogArithmetic
  <2> QED BY <1>3, <2>1
<1>5. gfMul(a, gfMul(b, c)) = gfMul(gfMul(a, b), c)
  <2>1. LogSum(gfLog[a], LogSum(gfLog[b], gfLog[c])) = LogSum(LogSum(gfLog[a], gfLog[b]), gfLog[c])
    <3>1. \A i, j, k \in Exponents : LogSum(i, LogSum(j, k)) = LogSum(LogSum(i, j), k)
      BY LogArithmetic
    <3> QED BY <1>1, <3>1
  <2>2. /\ gfLog[gfMul(b, c)] = LogSum(gfLog[b], gfLog[c])
        /\ gfLog[gfMul(a, b)] = LogSum(gfLog[a], gfLog[b])
    BY MulLog
  <2> QED BY <1>2, <1>3, <2>1, <2>2
<1>6. gfMul(a, One) = a
  <2>1. LogSum(gfLog[a], 0) = gfLog[a] BY <1>1, LogArithmetic
  <2>2. gfMul(a, One) = Exp(gfLog[a]) BY <1>1, <1>2, <1>3, <2>1
  <2> QED BY <2>2, LogFacts
<1>7. gfMul(gfDiv(a, b), b) = a
  <2>1. LogSum(LogDifference(gfLog[a], gfLog[b]), gfLog[b]) = gfLog[a] BY <1>1, LogArithmetic
  <2>2. gfLog[gfDiv(a, b)] = LogDifference(gfLog[a], gfLog[b]) BY MulLog
  <2>3. gfMul(gfDiv(a, b), b) = Exp(gfLog[a]) BY <1>2, <1>3, <2>1, <2>2
  <2> QED BY <2>3, LogFacts
<1> QED BY <1>2, <1>4, <1>5, <1>6, <1>7

(* With zero: what holds of all bytes.                                     *)
LEMMA ByteFacts ==
  ASSUME TablesExact, NEW a \in Bytes, NEW b \in Bytes, NEW c \in Bytes
  PROVE  /\ gfMul(a, b) \in Bytes
         /\ gfMul(a, b) = gfMul(b, a)
         /\ gfMul(a, gfMul(b, c)) = gfMul(gfMul(a, b), c)
         /\ gfMul(a, One) = a /\ gfMul(a, Zero) = Zero
         /\ c # Zero /\ gfMul(a, c) = gfMul(b, c) => a = b
<1>1. Zero \in Bytes /\ NonZero \subseteq Bytes /\ One \in NonZero BY XorFacts, LogFacts
<1>2. \A u \in Bytes : u # Zero => u \in NonZero BY DEF NonZero
<1>3. \A u \in Bytes : gfMul(u, Zero) = Zero /\ gfMul(Zero, u) = Zero BY DEF gfMul
<1>4. gfMul(a, b) \in Bytes BY <1>1, <1>2, <1>3, MulFacts
<1>5. gfMul(a, b) = gfMul(b, a) BY <1>1, <1>2, <1>3, MulFacts
<1>6. gfMul(a, gfMul(b, c)) = gfMul(gfMul(a, b), c)
  <2>1. CASE a = Zero \/ b = Zero \/ c = Zero
    <3>1. gfMul(b, c) \in Bytes /\ gfMul(a, b) \in Bytes BY <1>1, <1>2, <1>3, MulFacts
    <3> QED BY <2>1, <3>1, <1>3
  <2>2. CASE a # Zero /\ b # Zero /\ c # Zero BY <2>2, <1>2, MulFacts
  <2> QED BY <2>1, <2>2
<1>7. gfMul(a, One) = a BY <1>1, <1>2, <1>3, MulFacts
<1>8. ASSUME c # Zero, gfMul(a, c) = gfMul(b, c) PROVE a = b
  <2>1. c \in NonZero /\ gfDiv(One, c) \in NonZero /\ gfMul(c, gfDiv(One, c)) = One
    BY <1>1, <1>2, <1>8, MulFacts
  <2> DEFINE inv == gfDiv(One, c)
  <2>2. \A u \in Bytes : gfMul(gfMul(u, c), inv) = u
    <3> SUFFICES ASSUME NEW u \in Bytes PROVE gfMul(gfMul(u, c), inv) = u OBVIOUS
    <3>1. CASE u = Zero BY <3>1, <1>1, <1>3, <2>1
    <3>2. CASE u # Zero
      <4>1. gfMul(u, gfMul(c, inv)) = gfMul(gfMul(u, c), inv) BY <1>2, <2>1, <3>2, MulFacts
      <4> QED BY <1>1, <1>2, <2>1, <3>2, <4>1, MulFacts
    <3> QED BY <3>1, <3>2
  <2> QED BY <1>8, <2>2
<1> QED BY <1>3, <1>4, <1>5, <1>6, <1>7, <1>8

(* Sums of different bytes and quotients, and the indices of shares.       *)
LEMMA XorNonZero ==
  ASSUME TablesExact, NEW a \in Bytes, NEW b \in Bytes, a # b
  PROVE  Xor(a, b) \in NonZero /\ Xor(a, b) \in Bytes
BY XorFacts DEF NonZero

LEMMA Quotient ==
  ASSUME TablesExact, NEW a \in Bytes, NEW b \in NonZero
  PROVE  gfDiv(a, b) \in Bytes /\ gfMul(b, gfDiv(a, b)) = a
<1>1. Zero \in Bytes /\ b \in Bytes BY LogFacts
<1>2. CASE a = Zero
  <2>1. gfDiv(a, b) = Zero BY <1>2 DEF gfDiv
  <2> QED BY <1>1, <1>2, <2>1, ByteFacts
<1>3. CASE a # Zero
  <2>1. a \in NonZero BY <1>3 DEF NonZero
  <2>2. gfDiv(a, b) \in NonZero /\ gfMul(gfDiv(a, b), b) = a BY <2>1, MulFacts
  <2>3. gfDiv(a, b) \in Bytes BY <2>2, LogFacts
  <2> QED BY <1>1, <2>2, <2>3, ByteFacts
<1> QED BY <1>2, <1>3

LEMMA IndexFacts ==
  ASSUME TablesExact, NEW i \in 1..255 PROVE Byte(i) \in NonZero /\ Byte(i) \in Bytes
<1>1. Byte(i) \in Bytes BY DEF TablesExact, Byte
<1>2. Byte(i) # Zero BY DEF TablesExact
<1> QED BY <1>1, <1>2 DEF NonZero

(* Distribution, by induction on the logarithm of the factor: the tables   *)
(* say it of the generator only.                                           *)
LEMMA Distributes ==
  ASSUME TablesExact, NEW a \in Bytes, NEW b \in Bytes, NEW c \in Bytes
  PROVE  gfMul(c, Xor(a, b)) = Xor(gfMul(c, a), gfMul(c, b))
<1> DEFINE Fair(d) == \A u, v \in Bytes : gfMul(d, Xor(u, v)) = Xor(gfMul(d, u), gfMul(d, v))
           T == {i \in Nat : i \in Exponents => Fair(Exp(i))}
<1>0. NonZero \subseteq Bytes /\ \A i \in Exponents : Exp(i) \in NonZero /\ gfLog[Exp(i)] = i
  BY LogFacts
<1>1. 0 \in T
  <2>1. \A u, v \in Bytes : gfMul(One, Xor(u, v)) = Xor(u, v) /\ gfMul(One, u) = u /\ gfMul(One, v) = v
    BY XorFacts, ByteFacts, LogFacts
  <2>2. Exp(0) = One BY DEF TablesExact
  <2> QED BY <2>1, <2>2
<1>2. Fair(Exp(1)) /\ 1 \in Exponents
  BY DEF TablesExact, GeneratorDistributes, Exponents
<1>3. ASSUME NEW i \in Nat, i \in T PROVE i + 1 \in T
  <2> SUFFICES ASSUME i + 1 \in Exponents PROVE Fair(Exp(i + 1))
    OBVIOUS
  <2>1. i \in Exponents /\ LogSum(1, i) = i + 1
    <3>1. i \in 0..254 /\ (1 + i) % 255 = i + 1 BY DEF Exponents
    <3> QED BY <3>1, Zenon DEF Exponents, LogSum
  <2>2. Fair(Exp(i)) BY <1>3, <2>1
  <2>3. Exp(i) \in NonZero /\ Exp(1) \in NonZero /\ gfLog[Exp(i)] = i /\ gfLog[Exp(1)] = 1
    BY <1>0, <1>2, <2>1
  <2>4. Exp(i + 1) = gfMul(Exp(1), Exp(i))
    <3>1. gfMul(Exp(1), Exp(i)) = Exp(LogSum(gfLog[Exp(1)], gfLog[Exp(i)])) BY <2>3, MulLog
    <3> QED BY <2>1, <2>3, <3>1
  <2> SUFFICES ASSUME NEW u \in Bytes, NEW v \in Bytes
               PROVE  gfMul(Exp(i + 1), Xor(u, v)) = Xor(gfMul(Exp(i + 1), u), gfMul(Exp(i + 1), v))
    OBVIOUS
  <2>5. Xor(u, v) \in Bytes /\ gfMul(Exp(i), u) \in Bytes /\ gfMul(Exp(i), v) \in Bytes
    BY <1>0, <2>3, XorFacts, ByteFacts
  <2>6. \A w \in Bytes : gfMul(Exp(i + 1), w) = gfMul(Exp(1), gfMul(Exp(i), w))
    BY <1>0, <2>3, <2>4, ByteFacts
  <2>7. gfMul(Exp(i + 1), Xor(u, v)) = gfMul(Exp(1), Xor(gfMul(Exp(i), u), gfMul(Exp(i), v)))
    BY <2>2, <2>5, <2>6
  <2> QED BY <1>2, <2>5, <2>6, <2>7
<1> HIDE DEF T
<1>4. \A i \in Nat : i \in T
  BY <1>1, <1>3, NatSetInduction
<1>5. CASE c = Zero
  <2>1. \A u \in Bytes : gfMul(Zero, u) = Zero BY DEF gfMul
  <2> QED BY <1>5, <2>1, XorFacts
<1>6. CASE c # Zero
  <2>1. c \in NonZero BY <1>6 DEF NonZero
  <2>2. gfLog[c] \in Exponents /\ Exp(gfLog[c]) = c BY <2>1, LogFacts
  <2>3. gfLog[c] \in T BY <1>4, <2>2 DEF Exponents
  <2> QED BY <2>2, <2>3 DEF T
<1> QED BY <1>5, <1>6

-----------------------------------------------------------------------------
(* Sums and interpolation.  h is c times f, and g, at every index in S.    *)
Combines(h, c, f, g, S) == \A i \in S : h[i] = Xor(gfMul(c, f[i]), g[i])

(* Sums of bytes over the subsets of a finite set.                         *)
IsSum(g, D, h) ==
  /\ g \in [SUBSET D -> Bytes] /\ g[{}] = Zero
  /\ \A s \in SUBSET D : \A x \in s : g[s] = Xor(h[x], g[s \ {x}])
SumOf(D, h) == CHOOSE g : IsSum(g, D, h)

(* Every function on a finite set has its sums, and they are linear.       *)
LEMMA SumExists ==
  ASSUME TablesExact, NEW D, IsFiniteSet(D), NEW h \in [D -> Bytes]
  PROVE  IsSum(SumOf(D, h), D, h)
<1> DEFINE op == [p \in Bytes \X Bytes |-> Xor(p[1], p[2])]
<1>1. op \in [Bytes \X Bytes -> Bytes] BY XorFacts
<1>2. \A a, b \in Bytes : op[<<a, b>>] = Xor(a, b) OBVIOUS
<1> HIDE DEF op
<1>3. Reorders(op, Bytes)
  <2>1. ASSUME NEW a \in Bytes, NEW b \in Bytes PROVE op[<<a, b>>] = op[<<b, a>>]
    BY <1>2, XorFacts
  <2>2. ASSUME NEW a \in Bytes, NEW b \in Bytes, NEW d \in Bytes
        PROVE  op[<<a, op[<<b, d>>]>>] = op[<<op[<<a, b>>], d>>]
    <3>1. Xor(b, d) \in Bytes /\ Xor(a, b) \in Bytes /\ Xor(a, Xor(b, d)) = Xor(Xor(a, b), d)
      BY XorFacts
    <3> QED BY <1>2, <3>1
  <2> QED BY <1>1, <2>1, <2>2 DEF Reorders
<1>4. PICK g : IsFold(g, D, Bytes, op, Zero, h)
  BY <1>3, FoldAny, LogFacts
<1>5. g \in [SUBSET D -> Bytes] /\ g[{}] = Zero
  BY <1>4 DEF IsFold
<1>6. ASSUME NEW s \in SUBSET D, NEW x \in s PROVE g[s] = Xor(h[x], g[s \ {x}])
  <2>1. h[x] \in Bytes /\ g[s \ {x}] \in Bytes BY <1>5
  <2> QED BY <1>2, <1>4, <2>1 DEF IsFold
<1>7. IsSum(g, D, h) BY <1>5, <1>6 DEF IsSum
<1> QED BY <1>7 DEF SumOf

LEMMA SumLinear ==
  ASSUME TablesExact, NEW D, IsFiniteSet(D), NEW S \in SUBSET D, NEW c \in Bytes,
         NEW f \in [D -> Bytes], NEW g \in [D -> Bytes], NEW h \in [D -> Bytes],
         Combines(h, c, f, g, S)
  PROVE  SumOf(D, h)[S] = Xor(gfMul(c, SumOf(D, f)[S]), SumOf(D, g)[S])
<1> DEFINE F == SumOf(D, f)  G == SumOf(D, g)  H == SumOf(D, h)
           P == {s \in SUBSET D : s \subseteq S => H[s] = Xor(gfMul(c, F[s]), G[s])}
<1>1. IsSum(F, D, f) /\ IsSum(G, D, g) /\ IsSum(H, D, h)
  BY SumExists
<1> HIDE DEF F, G, H
<1>2. {} \in P
  <2>1. F[{}] = Zero /\ G[{}] = Zero /\ H[{}] = Zero BY <1>1 DEF IsSum
  <2>2. gfMul(c, Zero) = Zero /\ Xor(Zero, Zero) = Zero BY ByteFacts, XorFacts
  <2> QED BY <2>1, <2>2
<1>3. ASSUME NEW s \in SUBSET D, s # {}, \A x \in s : s \ {x} \in P PROVE s \in P
  <2> SUFFICES ASSUME s \subseteq S PROVE H[s] = Xor(gfMul(c, F[s]), G[s])
    OBVIOUS
  <2>1. PICK x : x \in s BY <1>3
  <2> DEFINE r == s \ {x}
  <2>2. x \in D /\ x \in S /\ r \in SUBSET D /\ r \subseteq S BY <2>1
  <2>3. H[r] = Xor(gfMul(c, F[r]), G[r]) BY <1>3, <2>1, <2>2
  <2>4. F[s] = Xor(f[x], F[r]) /\ G[s] = Xor(g[x], G[r]) /\ H[s] = Xor(h[x], H[r])
    BY <1>1, <2>1 DEF IsSum
  <2>5. F[r] \in Bytes /\ G[r] \in Bytes /\ f[x] \in Bytes /\ g[x] \in Bytes
    BY <1>1, <2>2 DEF IsSum
  <2> HIDE DEF r
  <2> DEFINE a == gfMul(c, f[x])  b == gfMul(c, F[r])
  <2>6. a \in Bytes /\ b \in Bytes BY <2>5, ByteFacts
  <2>7. gfMul(c, F[s]) = Xor(a, b) BY <2>4, <2>5, Distributes
  <2>8. H[s] = Xor(Xor(a, g[x]), Xor(b, G[r])) BY <2>2, <2>3, <2>4 DEF Combines
  <2> HIDE DEF a, b
  <2>9. Xor(Xor(a, g[x]), Xor(b, G[r])) = Xor(Xor(a, b), Xor(g[x], G[r]))
    BY DEF Xor
  <2> QED BY <2>4, <2>7, <2>8, <2>9
<1> HIDE DEF P
<1>4. S \in P BY <1>2, <1>3, StepSubset, Zenon
<1> QED BY <1>4 DEF P, F, G, H

-----------------------------------------------------------------------------
(* Lagrange's weights at zero: the weight of index i among the indices T   *)
(* grows by x[j] / (x[i] + x[j]) when j joins T.                           *)
Weights(D, x, w) ==
  /\ w \in [D -> [SUBSET D -> Bytes]]
  /\ \A i \in D : w[i][{}] = One
  /\ \A i \in D : \A T \in SUBSET D : i \notin T =>
       \A j \in T : gfMul(Xor(x[i], x[j]), w[i][T]) = gfMul(x[j], w[i][T \ {j}])
Indices(D, x) ==
  /\ x \in [D -> NonZero]
  /\ \A i, j \in D : x[i] = x[j] => i = j
Term(D, w, S, h) == [i \in D |-> gfMul(h[i], w[i][S \ {i}])]
Interpolate(D, w, S, h) == SumOf(D, Term(D, w, S, h))[S]

(* Interpolation at zero gives a byte, and is linear.                      *)
LEMMA TermType ==
  ASSUME TablesExact, NEW D, NEW x, NEW w, Weights(D, x, w), NEW S \in SUBSET D, NEW h \in [D -> Bytes]
  PROVE  Term(D, w, S, h) \in [D -> Bytes]
<1>1. \A i \in D : h[i] \in Bytes /\ w[i][S \ {i}] \in Bytes BY DEF Weights
<1>2. \A i \in D : gfMul(h[i], w[i][S \ {i}]) \in Bytes BY <1>1, ByteFacts
<1> QED BY <1>2 DEF Term

LEMMA InterpolateType ==
  ASSUME TablesExact, NEW D, IsFiniteSet(D), NEW x, NEW w, Weights(D, x, w),
         NEW S \in SUBSET D, NEW h \in [D -> Bytes]
  PROVE  Interpolate(D, w, S, h) \in Bytes
<1>1. IsSum(SumOf(D, Term(D, w, S, h)), D, Term(D, w, S, h))
  BY TermType, SumExists
<1> QED BY <1>1 DEF IsSum, Interpolate

(* The same combination of the values comes out.                           *)
LEMMA InterpolateLinear ==
  ASSUME TablesExact, NEW D, IsFiniteSet(D), NEW x, NEW w, Weights(D, x, w),
         NEW S \in SUBSET D, NEW c \in Bytes,
         NEW f \in [D -> Bytes], NEW g \in [D -> Bytes], NEW h \in [D -> Bytes],
         Combines(h, c, f, g, S)
  PROVE  Interpolate(D, w, S, h) = Xor(gfMul(c, Interpolate(D, w, S, f)), Interpolate(D, w, S, g))
<1> DEFINE F == Term(D, w, S, f)  G == Term(D, w, S, g)  H == Term(D, w, S, h)
<1>1. F \in [D -> Bytes] /\ G \in [D -> Bytes] /\ H \in [D -> Bytes]
  BY TermType
<1>2. ASSUME NEW i \in S PROVE H[i] = Xor(gfMul(c, F[i]), G[i])
  <2> DEFINE v == w[i][S \ {i}]
  <2>1. v \in Bytes /\ f[i] \in Bytes /\ g[i] \in Bytes BY DEF Weights
  <2>2. F[i] = gfMul(f[i], v) /\ G[i] = gfMul(g[i], v) /\ H[i] = gfMul(Xor(gfMul(c, f[i]), g[i]), v)
    BY DEF Term, Combines
  <2> HIDE DEF F, G, H, v
  <2>3. gfMul(c, f[i]) \in Bytes BY <2>1, ByteFacts
  <2>4. gfMul(v, Xor(gfMul(c, f[i]), g[i])) = Xor(gfMul(v, gfMul(c, f[i])), gfMul(v, g[i]))
    BY <2>1, <2>3, Distributes
  <2>5. Xor(gfMul(c, f[i]), g[i]) \in Bytes BY <2>1, <2>3, XorFacts
  <2>6. H[i] = Xor(gfMul(gfMul(c, f[i]), v), gfMul(g[i], v))
    BY <2>1, <2>2, <2>3, <2>4, <2>5, ByteFacts
  <2>7. gfMul(c, gfMul(f[i], v)) = gfMul(gfMul(c, f[i]), v)
    BY <2>1, ByteFacts
  <2> QED BY <2>2, <2>6, <2>7
<1> HIDE DEF F, G, H
<1>3. SumOf(D, H)[S] = Xor(gfMul(c, SumOf(D, F)[S]), SumOf(D, G)[S])
  <2>1. Combines(H, c, F, G, S) BY <1>2 DEF Combines
  <2> QED BY <1>1, <2>1, SumLinear
<1> QED BY <1>3 DEF Interpolate, F, G, H

LEMMA MulSwap ==
  ASSUME TablesExact, NEW a \in Bytes, NEW b \in Bytes, NEW c \in Bytes
  PROVE  gfMul(a, gfMul(b, c)) = gfMul(b, gfMul(a, c))
<1>1. gfMul(a, gfMul(b, c)) = gfMul(gfMul(a, b), c) BY ByteFacts
<1>2. gfMul(b, gfMul(a, c)) = gfMul(gfMul(b, a), c) BY ByteFacts
<1>3. gfMul(a, b) = gfMul(b, a) BY ByteFacts
<1> QED BY <1>1, <1>2, <1>3

(* Of zero everywhere it gives zero.                                       *)
LEMMA InterpolateZero ==
  ASSUME TablesExact, NEW D, IsFiniteSet(D), NEW x, NEW w, Weights(D, x, w), NEW S \in SUBSET D
  PROVE  Interpolate(D, w, S, [i \in D |-> Zero]) = Zero
<1> DEFINE z == [i \in D |-> Zero]
<1>1. z \in [D -> Bytes] /\ One \in Bytes BY LogFacts
<1>2. Combines(z, One, z, z, S)
  <2>1. gfMul(One, Zero) = Zero /\ Xor(Zero, Zero) = Zero BY DEF gfMul, Xor, Zero
  <2> QED BY <2>1 DEF Combines
<1> HIDE DEF z
<1>3. Interpolate(D, w, S, z) = Xor(gfMul(One, Interpolate(D, w, S, z)), Interpolate(D, w, S, z))
  BY <1>1, <1>2, InterpolateLinear
<1>4. Interpolate(D, w, S, z) \in Bytes BY <1>1, InterpolateType
<1>5. gfMul(One, Interpolate(D, w, S, z)) = Interpolate(D, w, S, z)
  BY <1>1, <1>4, ByteFacts
<1>6. Xor(Interpolate(D, w, S, z), Interpolate(D, w, S, z)) = Zero BY <1>4, XorFacts
<1>7. Interpolate(D, w, S, z) = Zero BY <1>3, <1>5, <1>6
<1> QED BY <1>7 DEF z

(* A multiple of a function, and the sum of two.                           *)
LEMMA InterpolateScale ==
  ASSUME TablesExact, NEW D, IsFiniteSet(D), NEW x, NEW w, Weights(D, x, w), NEW S \in SUBSET D,
         NEW c \in Bytes, NEW f \in [D -> Bytes], NEW h \in [D -> Bytes],
         \A i \in S : h[i] = gfMul(c, f[i])
  PROVE  Interpolate(D, w, S, h) = gfMul(c, Interpolate(D, w, S, f))
<1> DEFINE z == [i \in D |-> Zero]
<1>1. z \in [D -> Bytes] BY LogFacts
<1>2. ASSUME NEW i \in S PROVE h[i] = Xor(gfMul(c, f[i]), z[i])
  <2>1. gfMul(c, f[i]) \in Bytes BY ByteFacts
  <2> QED BY <2>1, XorFacts
<1>3. Interpolate(D, w, S, z) = Zero BY InterpolateZero
<1> HIDE DEF z
<1>4. Combines(h, c, f, z, S) BY <1>2 DEF Combines
<1>5. Interpolate(D, w, S, h) = Xor(gfMul(c, Interpolate(D, w, S, f)), Zero)
  BY <1>1, <1>3, <1>4, InterpolateLinear
<1>6. gfMul(c, Interpolate(D, w, S, f)) \in Bytes BY InterpolateType, ByteFacts
<1> QED BY <1>5, <1>6, XorFacts

LEMMA InterpolateAdd ==
  ASSUME TablesExact, NEW D, IsFiniteSet(D), NEW x, NEW w, Weights(D, x, w), NEW S \in SUBSET D,
         NEW f \in [D -> Bytes], NEW g \in [D -> Bytes], NEW h \in [D -> Bytes],
         \A i \in S : h[i] = Xor(f[i], g[i])
  PROVE  Interpolate(D, w, S, h) = Xor(Interpolate(D, w, S, f), Interpolate(D, w, S, g))
<1>1. One \in Bytes BY LogFacts
<1>2. \A a \in Bytes : gfMul(One, a) = a BY <1>1, ByteFacts
<1>3. Combines(h, One, f, g, S) BY <1>2 DEF Combines
<1>4. Interpolate(D, w, S, h) = Xor(gfMul(One, Interpolate(D, w, S, f)), Interpolate(D, w, S, g))
  BY <1>1, <1>3, InterpolateLinear
<1> QED BY <1>2, <1>4, InterpolateType

(* A function with the factor x + x[s] interpolates without s.             *)
LEMMA InterpolateDrop ==
  ASSUME TablesExact, NEW D, IsFiniteSet(D), NEW x, Indices(D, x), NEW w, Weights(D, x, w),
         NEW S \in SUBSET D, NEW s \in S, NEW f \in [D -> Bytes], NEW h \in [D -> Bytes],
         \A i \in S : h[i] = gfMul(Xor(x[i], x[s]), f[i])
  PROVE  Interpolate(D, w, S, h) = gfMul(x[s], Interpolate(D, w, S \ {s}, f))
<1> DEFINE R == S \ {s}  F == Term(D, w, R, f)  H == Term(D, w, S, h)  z == [i \in D |-> Zero]
<1>0. R \in SUBSET D /\ s \in D /\ x[s] \in Bytes /\ \A i \in D : x[i] \in Bytes
  BY LogFacts DEF Indices
<1>1. F \in [D -> Bytes] /\ H \in [D -> Bytes] /\ z \in [D -> Bytes]
  BY <1>0, TermType, LogFacts
<1>2. IsSum(SumOf(D, H), D, H) /\ IsSum(SumOf(D, F), D, F) /\ IsSum(SumOf(D, z), D, z)
  BY <1>1, SumExists
<1>3. H[s] = Zero
  <2>1. H[s] = gfMul(h[s], w[s][S \ {s}]) BY <1>0 DEF Term
  <2>2. h[s] = gfMul(Zero, f[s]) BY <1>0, XorFacts
  <2> QED BY <2>1, <2>2 DEF gfMul
<1>4. ASSUME NEW i \in R PROVE H[i] = Xor(gfMul(x[s], F[i]), z[i])
  <2> DEFINE d == Xor(x[i], x[s])  u == w[i][S \ {i}]  v == w[i][R \ {i}]
  <2>1. i \in D /\ i # s /\ i \in S BY <1>4
  <2>2. /\ d \in Bytes /\ u \in Bytes /\ v \in Bytes /\ f[i] \in Bytes
    <3>1. u \in Bytes /\ v \in Bytes BY <2>1 DEF Weights
    <3>2. d \in Bytes BY <1>0, <2>1, XorFacts
    <3> QED BY <2>1, <3>1, <3>2
  <2>3. H[i] = gfMul(gfMul(d, f[i]), u) BY <2>1 DEF Term
  <2>4. F[i] = gfMul(f[i], v) BY <2>1 DEF Term
  <2>5. gfMul(d, u) = gfMul(x[s], v)
    <3>1. S \ {i} \in SUBSET D /\ i \notin S \ {i} /\ s \in S \ {i} BY <2>1
    <3>2. (S \ {i}) \ {s} = R \ {i} OBVIOUS
    <3>3. gfMul(d, u) = gfMul(x[s], w[i][(S \ {i}) \ {s}]) BY <2>1, <3>1 DEF Weights
    <3> QED BY <3>2, <3>3
  <2>6. z[i] = Zero BY <2>1
  <2> HIDE DEF F, H, z, d, u, v
  <2>7. gfMul(gfMul(d, f[i]), u) = gfMul(f[i], gfMul(d, u))
    <3>1. gfMul(d, f[i]) = gfMul(f[i], d) BY <2>2, ByteFacts
    <3>2. gfMul(f[i], gfMul(d, u)) = gfMul(gfMul(f[i], d), u) BY <2>2, ByteFacts
    <3> QED BY <3>1, <3>2
  <2>8. gfMul(f[i], gfMul(x[s], v)) = gfMul(x[s], gfMul(f[i], v))
    BY <1>0, <2>2, MulSwap
  <2>9. H[i] = gfMul(x[s], F[i]) BY <2>3, <2>4, <2>5, <2>7, <2>8
  <2>10. H[i] \in Bytes BY <1>1, <2>1
  <2> QED BY <2>6, <2>9, <2>10, XorFacts
<1>5. SumOf(D, z)[R] = Zero
  <2> HIDE DEF R, z
  <2>1. Combines(z, One, z, z, R)
    <3>1. gfMul(One, Zero) = Zero /\ Xor(Zero, Zero) = Zero BY DEF gfMul, Xor, Zero
    <3> QED BY <1>0, <3>1 DEF Combines, z
  <2>2. SumOf(D, z)[R] = Xor(gfMul(One, SumOf(D, z)[R]), SumOf(D, z)[R])
    BY <1>0, <1>1, <2>1, SumLinear, LogFacts
  <2>3. SumOf(D, z)[R] \in Bytes BY <1>0, <1>2 DEF IsSum
  <2>4. gfMul(One, SumOf(D, z)[R]) = SumOf(D, z)[R] BY <2>3, ByteFacts, LogFacts
  <2> QED BY <2>2, <2>3, <2>4, XorFacts
<1> HIDE DEF F, H, z
<1>6. SumOf(D, H)[R] = Xor(gfMul(x[s], SumOf(D, F)[R]), SumOf(D, z)[R])
  <2>1. Combines(H, x[s], F, z, R) BY <1>4 DEF Combines
  <2> HIDE DEF R
  <2> QED BY <1>0, <1>1, <2>1, SumLinear
<1>7. SumOf(D, H)[S] = Xor(Zero, SumOf(D, H)[R])
  BY <1>2, <1>3 DEF IsSum
<1>8. SumOf(D, H)[R] \in Bytes /\ SumOf(D, F)[R] \in Bytes /\ gfMul(x[s], SumOf(D, F)[R]) \in Bytes
  BY <1>0, <1>2, ByteFacts DEF IsSum
<1>9. SumOf(D, H)[S] = gfMul(x[s], SumOf(D, F)[R])
  BY <1>5, <1>6, <1>7, <1>8, XorFacts
<1> QED BY <1>9 DEF Interpolate, F, H

(* Of one everywhere it gives one: the weights of a set add up to one.     *)
LEMMA InterpolateOne ==
  ASSUME TablesExact, NEW D, IsFiniteSet(D), NEW x, Indices(D, x), NEW w, Weights(D, x, w),
         NEW S \in SUBSET D, S # {}
  PROVE  Interpolate(D, w, S, [i \in D |-> One]) = One
<1> DEFINE ones == [i \in D |-> One]
           P == {T \in SUBSET D : T # {} => Interpolate(D, w, T, ones) = One}
<1>0. ones \in [D -> Bytes] /\ \A i \in D : x[i] \in Bytes
  BY LogFacts DEF Indices
<1>1. ASSUME NEW T \in SUBSET D, T # {}, \A s \in T : T \ {s} \in P
      PROVE  Interpolate(D, w, T, ones) = One
  <2>1. PICK s : s \in T BY <1>1
  <2>2. CASE T = {s}
    <3> DEFINE t == Term(D, w, T, ones)
    <3>1. t \in [D -> Bytes] BY <1>0, TermType
    <3>2. IsSum(SumOf(D, t), D, t) BY <3>1, SumExists
    <3>3. SumOf(D, t)[T] = Xor(t[s], SumOf(D, t)[T \ {s}]) BY <2>1, <3>2 DEF IsSum
    <3>4. T \ {s} = {} BY <2>2
    <3>5. SumOf(D, t)[T \ {s}] = Zero BY <3>2, <3>4 DEF IsSum
    <3>6. t[s] = gfMul(One, One)
      <4>1. s \in D BY <2>1
      <4>2. t[s] = gfMul(ones[s], w[s][T \ {s}]) BY <4>1 DEF Term
      <4>3. w[s][{}] = One BY <4>1 DEF Weights
      <4> QED BY <3>4, <4>1, <4>2, <4>3
    <3> HIDE DEF t
    <3>7. gfMul(One, One) = One /\ Xor(One, Zero) = One BY LogFacts, ByteFacts, XorFacts
    <3>8. SumOf(D, t)[T] = One BY <3>3, <3>5, <3>6, <3>7
    <3> QED BY <3>8 DEF Interpolate, t
  <2>3. CASE T # {s}
    <3>1. PICK t : t \in T /\ t # s BY <2>1, <2>3
    <3> DEFINE A == [i \in D |-> Xor(x[i], x[s])]  B == [i \in D |-> Xor(x[i], x[t])]
               E == [i \in D |-> Xor(x[s], x[t])]  d == Xor(x[s], x[t])
    <3>2. s \in D /\ t \in D /\ x[s] \in Bytes /\ x[t] \in Bytes /\ d \in Bytes
      BY <1>0, <2>1, <3>1, XorFacts
    <3>3. A \in [D -> Bytes] /\ B \in [D -> Bytes] /\ E \in [D -> Bytes]
      BY <1>0, <3>2, XorFacts
    <3>4. Interpolate(D, w, T \ {s}, ones) = One /\ Interpolate(D, w, T \ {t}, ones) = One
      <4>1. T \ {s} # {} /\ T \ {t} # {} BY <2>1, <3>1
      <4> QED BY <1>1, <2>1, <3>1, <4>1
    <3>5. ASSUME NEW i \in T
          PROVE  /\ A[i] = gfMul(Xor(x[i], x[s]), ones[i]) /\ B[i] = gfMul(Xor(x[i], x[t]), ones[i])
                 /\ E[i] = Xor(A[i], B[i]) /\ E[i] = gfMul(d, ones[i])
      <4>1. i \in D /\ x[i] \in Bytes BY <1>0, <3>5
      <4>2. Xor(x[i], x[s]) \in Bytes /\ Xor(x[i], x[t]) \in Bytes BY <3>2, <4>1, XorFacts
      <4>3. \A b \in Bytes : gfMul(b, One) = b BY ByteFacts
      <4>4. Xor(x[s], x[t]) = Xor(Xor(x[i], x[s]), Xor(x[i], x[t])) BY DEF Xor
      <4> QED BY <3>2, <4>1, <4>2, <4>3, <4>4
    <3>6. d # Zero
      BY <3>1, <3>2, XorFacts DEF Indices
    <3> HIDE DEF A, B, E, d, ones
    <3>7. Interpolate(D, w, T, A) = gfMul(x[s], One)
      BY <1>0, <2>1, <3>3, <3>4, <3>5, InterpolateDrop
    <3>8. Interpolate(D, w, T, B) = gfMul(x[t], One)
      BY <1>0, <3>1, <3>3, <3>4, <3>5, InterpolateDrop
    <3>9. Interpolate(D, w, T, E) = Xor(Interpolate(D, w, T, A), Interpolate(D, w, T, B))
      BY <3>3, <3>5, InterpolateAdd
    <3>10. Interpolate(D, w, T, E) = gfMul(d, Interpolate(D, w, T, ones))
      BY <1>0, <3>2, <3>3, <3>5, InterpolateScale
    <3>11. Interpolate(D, w, T, E) = d
      BY <3>2, <3>7, <3>8, <3>9, ByteFacts DEF d
    <3>12. Interpolate(D, w, T, ones) \in Bytes /\ One \in Bytes
      BY <1>0, InterpolateType, LogFacts
    <3>13. gfMul(Interpolate(D, w, T, ones), d) = gfMul(One, d)
      <4>1. gfMul(Interpolate(D, w, T, ones), d) = gfMul(d, Interpolate(D, w, T, ones))
        BY <3>2, <3>12, ByteFacts
      <4>2. gfMul(One, d) = d BY <3>2, <3>12, ByteFacts
      <4> QED BY <3>10, <3>11, <4>1, <4>2
    <3> QED BY <3>2, <3>6, <3>12, <3>13, ByteFacts
  <2> QED BY <2>2, <2>3
<1>2. {} \in P OBVIOUS
<1>3. \A T \in SUBSET D : T # {} /\ (\A s \in T : T \ {s} \in P) => T \in P
  BY <1>1
<1> HIDE DEF P
<1>4. S \in P BY <1>2, <1>3, StepSubset, Zenon
<1> QED BY <1>4 DEF P

-----------------------------------------------------------------------------
(* Horner's rule at every index: H[k][i] is the value at x[i] of the       *)
(* polynomial with coefficients q[k], q[k+1] and so on.                    *)
Horner(D, x, q, n, H) ==
  /\ H \in [1..n+1 -> [D -> Bytes]]
  /\ \A i \in D : H[n+1][i] = Zero
  /\ \A k \in 1..n, i \in D : H[k][i] = Xor(gfMul(H[k+1][i], x[i]), q[k])
(* The lowest coefficient that is left at step k.                          *)
Low(q, n, k) == IF k = n + 1 THEN Zero ELSE q[k]

(* One step of the induction: with the coefficient c below it.             *)
LEMMA InterpolateStep ==
  ASSUME TablesExact, NEW D, IsFiniteSet(D), NEW x, Indices(D, x), NEW w, Weights(D, x, w),
         NEW S \in SUBSET D, NEW s \in S, NEW f \in [D -> Bytes], NEW h \in [D -> Bytes],
         NEW c \in Bytes, NEW v \in Bytes,
         \A i \in D : h[i] = Xor(gfMul(f[i], x[i]), c),
         Interpolate(D, w, S, f) = v, Interpolate(D, w, S \ {s}, f) = v
  PROVE  Interpolate(D, w, S, h) = c
<1> DEFINE ones == [i \in D |-> One]  C == [i \in D |-> c]  a == x[s]
           A == [i \in D |-> gfMul(Xor(x[i], a), f[i])]
           B == [i \in D |-> Xor(gfMul(a, f[i]), c)]
<1>1. s \in D /\ a \in Bytes /\ ones \in [D -> Bytes] /\ C \in [D -> Bytes] /\ S # {}
  BY LogFacts DEF Indices
<1>2. ASSUME NEW i \in D
      PROVE  /\ x[i] \in Bytes /\ Xor(x[i], a) \in Bytes /\ gfMul(Xor(x[i], a), f[i]) \in Bytes
             /\ gfMul(a, f[i]) \in Bytes /\ Xor(gfMul(a, f[i]), c) \in Bytes
  <2>1. x[i] \in Bytes BY LogFacts DEF Indices
  <2>2. Xor(x[i], a) \in Bytes
    <3> HIDE DEF a
    <3> QED BY <1>1, <2>1, XorFacts
  <2>3. gfMul(Xor(x[i], a), f[i]) \in Bytes /\ gfMul(a, f[i]) \in Bytes BY <1>1, <2>2, ByteFacts
  <2> QED BY <2>1, <2>2, <2>3, XorFacts
<1>3. A \in [D -> Bytes] /\ B \in [D -> Bytes]
  BY <1>2
<1>4. ASSUME NEW i \in D
      PROVE  /\ A[i] = gfMul(Xor(x[i], x[s]), f[i]) /\ B[i] = Xor(gfMul(a, f[i]), C[i])
             /\ h[i] = Xor(A[i], B[i]) /\ C[i] = gfMul(c, ones[i])
  <2>1. gfMul(Xor(x[i], a), f[i]) = Xor(gfMul(f[i], x[i]), gfMul(a, f[i]))
    <3>1. gfMul(f[i], Xor(x[i], a)) = Xor(gfMul(f[i], x[i]), gfMul(f[i], a))
      BY <1>1, <1>2, Distributes
    <3>2. gfMul(f[i], Xor(x[i], a)) = gfMul(Xor(x[i], a), f[i]) BY <1>2, ByteFacts
    <3>3. gfMul(f[i], a) = gfMul(a, f[i]) BY <1>1, ByteFacts
    <3> QED BY <3>1, <3>2, <3>3
  <2>2. gfMul(c, One) = c BY ByteFacts
  <2> DEFINE p == gfMul(f[i], x[i])  r == gfMul(a, f[i])
  <2>3. Xor(Xor(p, r), Xor(r, c)) = Xor(p, c) BY DEF Xor
  <2> QED BY <2>1, <2>2, <2>3
<1> HIDE DEF ones, C, A, B
<1>5. Interpolate(D, w, S, ones) = One
  BY <1>1, InterpolateOne DEF ones
<1>6. Interpolate(D, w, S, C) = gfMul(c, One)
  BY <1>1, <1>4, <1>5, InterpolateScale
<1>7. Interpolate(D, w, S, A) = gfMul(a, v)
  BY <1>1, <1>3, <1>4, InterpolateDrop
<1>8. Interpolate(D, w, S, B) = Xor(gfMul(a, v), gfMul(c, One))
  <2>1. Combines(B, a, f, C, S) BY <1>4 DEF Combines
  <2> QED BY <1>1, <1>3, <1>6, <2>1, InterpolateLinear
<1>9. Interpolate(D, w, S, h) = Xor(gfMul(a, v), Xor(gfMul(a, v), gfMul(c, One)))
  BY <1>3, <1>4, <1>7, <1>8, InterpolateAdd
<1>10. gfMul(c, One) = c BY ByteFacts
<1>11. Xor(gfMul(a, v), Xor(gfMul(a, v), c)) = c BY DEF Xor
<1> QED BY <1>9, <1>10, <1>11

(* As many indices as coefficients give back the lowest coefficient.       *)
LEMMA InterpolateHorner ==
  ASSUME TablesExact, NEW D, IsFiniteSet(D), NEW x, Indices(D, x), NEW w, Weights(D, x, w),
         NEW n \in Nat, NEW q \in [1..n -> Bytes], NEW H, Horner(D, x, q, n, H),
         NEW k \in 1..n+1, NEW S \in SUBSET D, Cardinality(S) >= n + 1 - k
  PROVE  Interpolate(D, w, S, H[k]) = Low(q, n, k)
<1> DEFINE Big(j) == {T \in SUBSET D : Cardinality(T) >= j}
           Q == {j \in Nat : j <= n => \A T \in Big(j) :
                   Interpolate(D, w, T, H[n + 1 - j]) = Low(q, n, n + 1 - j)}
<1>1. 0 \in Q
  <2> SUFFICES ASSUME NEW T \in SUBSET D PROVE Interpolate(D, w, T, H[n + 1 - 0]) = Zero
    BY DEF Low
  <2>1. n + 1 - 0 = n + 1 /\ n + 1 \in 1..n+1 OBVIOUS
  <2>2. H[n + 1] = [i \in D |-> Zero] BY <2>1 DEF Horner
  <2> QED BY <2>1, <2>2, InterpolateZero
<1>2. ASSUME NEW j \in Nat, j \in Q PROVE j + 1 \in Q
  <2> SUFFICES ASSUME j + 1 <= n, NEW T \in Big(j + 1)
               PROVE  Interpolate(D, w, T, H[n + 1 - (j + 1)]) = Low(q, n, n + 1 - (j + 1))
    OBVIOUS
  <2> DEFINE m == n - j
  <2>1. m \in 1..n /\ m + 1 \in 1..n+1 /\ n + 1 - (j + 1) = m /\ n + 1 - j = m + 1 /\ m # n + 1
    OBVIOUS
  <2>2. IsFiniteSet(T) /\ Cardinality(T) \in Nat /\ Cardinality(T) >= j + 1
    BY FS_Subset, FS_CardinalityType
  <2>3. PICK s : s \in T BY <2>2, FS_EmptySet
  <2>4. Cardinality(T \ {s}) >= j
    <3>1. Cardinality(T \ {s}) = Cardinality(T) - 1 BY <2>2, <2>3, FS_RemoveElement
    <3> QED BY <2>2, <3>1
  <2>5. T \in Big(j) /\ T \ {s} \in Big(j)
    BY <2>2, <2>4
  <2>6. /\ Interpolate(D, w, T, H[m + 1]) = Low(q, n, m + 1)
        /\ Interpolate(D, w, T \ {s}, H[m + 1]) = Low(q, n, m + 1)
    BY <1>2, <2>1, <2>5
  <2> HIDE DEF m
  <2>7. Low(q, n, m + 1) \in Bytes /\ q[m] \in Bytes
    BY <2>1, LogFacts DEF Low
  <2>8. H[m] \in [D -> Bytes] /\ H[m + 1] \in [D -> Bytes]
    BY <2>1 DEF Horner
  <2>9. \A i \in D : H[m][i] = Xor(gfMul(H[m + 1][i], x[i]), q[m])
    BY <2>1 DEF Horner
  <2>10. Interpolate(D, w, T, H[m]) = q[m]
    BY <2>3, <2>6, <2>7, <2>8, <2>9, InterpolateStep
  <2> QED BY <2>1, <2>10 DEF Low
<1> DEFINE j == n + 1 - k
<1>3. j \in Nat /\ j <= n /\ n + 1 - j = k
  OBVIOUS
<1>4. j \in Q
  <2> HIDE DEF Q, j
  <2> QED BY <1>1, <1>2, <1>3, NatSetInduction
<1> QED BY <1>3, <1>4

(* What evalPoly and Product, which are folds, compute step by step.       *)
LEMMA MaxMinIn ==
  ASSUME NEW n \in Nat, NEW s \in SUBSET (1..n), s # {}
  PROVE  /\ Max(s) \in s /\ \A y \in s : Max(s) >= y
         /\ Min(s) \in s /\ \A y \in s : Min(s) <= y
<1> DEFINE P == {t \in SUBSET (1..n) : t # {} =>
                   (\E x \in t : \A y \in t : x >= y) /\ (\E x \in t : \A y \in t : x <= y)}
<1>1. ASSUME NEW t \in SUBSET (1..n), t # {}, \A x \in t : t \ {x} \in P PROVE t \in P
  <2>1. PICK z : z \in t BY <1>1
  <2>2. CASE t \ {z} = {}
    <3>1. \A y \in t : y = z /\ z >= y /\ z <= y BY <2>1, <2>2
    <3> QED BY <2>1, <3>1
  <2>3. CASE t \ {z} # {}
    <3>1. PICK a \in t : \A y \in t \ {z} : a >= y BY <1>1, <2>1, <2>3
    <3>2. PICK b \in t : \A y \in t \ {z} : b <= y BY <1>1, <2>1, <2>3
    <3>3. \A y \in t : y \in Int BY DEF P
    <3>4. \E x \in t : \A y \in t : x >= y
      <4>1. CASE a >= z BY <2>1, <3>1, <3>3, <4>1
      <4>2. CASE ~(a >= z) BY <2>1, <3>1, <3>3, <4>2
      <4> QED BY <4>1, <4>2
    <3>5. \E x \in t : \A y \in t : x <= y
      <4>1. CASE b <= z BY <2>1, <3>2, <3>3, <4>1
      <4>2. CASE ~(b <= z) BY <2>1, <3>2, <3>3, <4>2
      <4> QED BY <4>1, <4>2
    <3> QED BY <3>4, <3>5
  <2> QED BY <2>2, <2>3
<1>2. {} \in P /\ IsFiniteSet(1..n) BY FS_Interval
<1> HIDE DEF P
<1>3. s \in P BY <1>1, <1>2, StepSubset, Zenon
<1>4. (\E x \in s : \A y \in s : x >= y) /\ (\E x \in s : \A y \in s : x <= y)
  BY <1>3 DEF P
<1> QED BY <1>4 DEF Max, Min

HornerSteps(f, q, n, z) ==
  /\ f \in [1..n+1 -> Bytes]
  /\ f[n+1] = Zero /\ f[1] = evalPoly(q, z)
  /\ \A k \in 1..n : f[k] = Xor(gfMul(f[k+1], z), q[k])

(* What evalPoly computes is Horner's rule, from the last coefficient.     *)
LEMMA EvalPolySteps ==
  ASSUME TablesExact, NEW n \in Nat, NEW q \in [1..n -> Bytes], NEW z \in Bytes
  PROVE  \E f : HornerSteps(f, q, n, z)
<1> DEFINE D == 1..n
           c == [s \in SUBSET D |-> Min(s)]
           st == [p \in D \X Bytes |-> Xor(gfMul(p[2], z), q[p[1]])]
           Is(F) == F = [s \in SUBSET DOMAIN q |->
                           IF s = {} THEN Zero ELSE Xor(gfMul(F[s \ {Min(s)}], z), q[Min(s)])]
           E == CHOOSE F : Is(F)
<1>0. IsFiniteSet(D) /\ Zero \in Bytes /\ DOMAIN q = D BY FS_Interval, LogFacts
<1>1. \A s \in SUBSET D : s # {} => c[s] = Min(s) /\ c[s] \in s
  BY MaxMinIn
<1>2. st \in [D \X Bytes -> Bytes]
  <2>1. ASSUME NEW p \in D \X Bytes PROVE Xor(gfMul(p[2], z), q[p[1]]) \in Bytes
    <3>1. p[2] \in Bytes /\ q[p[1]] \in Bytes BY <2>1
    <3>2. gfMul(p[2], z) \in Bytes BY <3>1, ByteFacts
    <3> QED BY <3>1, <3>2, XorFacts
  <2> QED BY <2>1
<1>3. \A i \in D, b \in Bytes : st[<<i, b>>] = Xor(gfMul(b, z), q[i])
  OBVIOUS
<1> HIDE DEF c, st
<1>4. PICK g : Solves(g, D, Bytes, c, st, Zero)
  <2> HIDE DEF D
  <2> QED BY <1>0, <1>1, <1>2, SolvesExists
<1>5. g \in [SUBSET D -> Bytes] /\ g[{}] = Zero
  BY <1>4 DEF Solves
<1>6. ASSUME NEW s \in SUBSET D, s # {} PROVE g[s] = Xor(gfMul(g[s \ {Min(s)}], z), q[Min(s)])
  <2>1. c[s] = Min(s) /\ c[s] \in D /\ s \ {c[s]} \in SUBSET D BY <1>1, <1>6
  <2>2. g[s] = st[<<c[s], g[s \ {c[s]}]>>] BY <1>4, <1>6 DEF Solves
  <2>3. g[s \ {c[s]}] \in Bytes BY <1>5, <2>1
  <2> QED BY <1>3, <2>1, <2>2, <2>3
<1> HIDE DEF D
<1>7. Is(g)
  BY <1>0, <1>5, <1>6
<1>8. Is(E)
  <2> HIDE DEF Is
  <2> QED BY <1>7
<1> DEFINE P == {s \in SUBSET D : E[s] = g[s]}
<1>9. {} \in P
  BY <1>0, <1>5, <1>8
<1>10. ASSUME NEW s \in SUBSET D, s # {}, \A i \in s : s \ {i} \in P PROVE s \in P
  <2>1. Min(s) \in s BY <1>1, <1>10
  <2>2. E[s \ {Min(s)}] = g[s \ {Min(s)}] BY <1>10, <2>1
  <2>3. E[s] = Xor(gfMul(E[s \ {Min(s)}], z), q[Min(s)]) BY <1>0, <1>8, <1>10
  <2> QED BY <1>6, <1>10, <2>2, <2>3
<1> HIDE DEF P
<1>11. D \in P
  <2>1. \A s \in SUBSET D : s # {} /\ (\A i \in s : s \ {i} \in P) => s \in P BY <1>10
  <2> HIDE DEF Is, E
  <2>2. \A s \in SUBSET D : s \in P BY <1>0, <1>9, <2>1, StepSubset
  <2> QED BY <2>2
<1>12. evalPoly(q, z) = E[DOMAIN q]
  BY DEF evalPoly, FoldRight, MapThenFoldSet
<1> HIDE DEF E
<1>13. evalPoly(q, z) = g[1..n]
  BY <1>0, <1>11, <1>12 DEF P, D
<1> DEFINE f == [k \in 1..n+1 |-> g[k..n]]
<1>14. f \in [1..n+1 -> Bytes]
  <2>1. \A k \in 1..n+1 : k..n \in SUBSET D BY DEF D
  <2> QED BY <1>5, <2>1
<1>15. f[n+1] = Zero /\ f[1] = evalPoly(q, z)
  <2>1. (n+1)..n = {} /\ n + 1 \in 1..n+1 /\ 1 \in 1..n+1 OBVIOUS
  <2> QED BY <1>5, <1>13, <2>1
<1>16. ASSUME NEW k \in 1..n PROVE f[k] = Xor(gfMul(f[k+1], z), q[k])
  <2>1. k..n \in SUBSET D /\ k..n # {} /\ k..n \in SUBSET (1..n)
    <3>1. k \in k..n OBVIOUS
    <3>2. k..n \subseteq 1..n OBVIOUS
    <3> QED BY <3>1, <3>2 DEF D
  <2>2. Min(k..n) = k
    <3>1. Min(k..n) \in k..n /\ \A y \in k..n : Min(k..n) <= y BY <2>1, MaxMinIn
    <3>2. k \in k..n OBVIOUS
    <3> QED BY <3>1, <3>2
  <2>3. (k..n) \ {k} = (k+1)..n OBVIOUS
  <2>4. k \in 1..n+1 /\ k + 1 \in 1..n+1 OBVIOUS
  <2> QED BY <1>6, <2>1, <2>2, <2>3, <2>4
<1> HIDE DEF f
<1>17. HornerSteps(f, q, n, z) BY <1>14, <1>15, <1>16 DEF HornerSteps
<1> QED BY <1>17

(* Products of bytes that are not zero over the subsets of a finite set.   *)
IsProduct(g, D, h) ==
  /\ g \in [SUBSET D -> NonZero] /\ g[{}] = One
  /\ \A s \in SUBSET D : \A x \in s : g[s] = gfMul(h[x], g[s \ {x}])
ProductOf(D, h) == CHOOSE g : IsProduct(g, D, h)

LEMMA ProductExists ==
  ASSUME TablesExact, NEW D, IsFiniteSet(D), NEW h \in [D -> NonZero]
  PROVE  IsProduct(ProductOf(D, h), D, h)
<1> DEFINE op == [p \in NonZero \X NonZero |-> gfMul(p[1], p[2])]
<1>1. op \in [NonZero \X NonZero -> NonZero] BY MulFacts
<1>2. \A a, b \in NonZero : op[<<a, b>>] = gfMul(a, b) OBVIOUS
<1> HIDE DEF op
<1>3. Reorders(op, NonZero)
  <2>1. ASSUME NEW a \in NonZero, NEW b \in NonZero PROVE op[<<a, b>>] = op[<<b, a>>]
    <3>1. gfMul(a, b) = gfMul(b, a) BY MulFacts
    <3> QED BY <1>2, <3>1
  <2>2. ASSUME NEW a \in NonZero, NEW b \in NonZero, NEW d \in NonZero
        PROVE  op[<<a, op[<<b, d>>]>>] = op[<<op[<<a, b>>], d>>]
    <3>1. /\ gfMul(b, d) \in NonZero /\ gfMul(a, b) \in NonZero
          /\ gfMul(a, gfMul(b, d)) = gfMul(gfMul(a, b), d)
      BY MulFacts
    <3> QED BY <1>2, <3>1
  <2> QED BY <1>1, <2>1, <2>2 DEF Reorders
<1>4. PICK g : IsFold(g, D, NonZero, op, One, h)
  BY <1>3, FoldAny, LogFacts
<1>5. g \in [SUBSET D -> NonZero] /\ g[{}] = One
  BY <1>4 DEF IsFold
<1>6. ASSUME NEW s \in SUBSET D, NEW x \in s PROVE g[s] = gfMul(h[x], g[s \ {x}])
  <2>1. h[x] \in NonZero /\ g[s \ {x}] \in NonZero BY <1>5
  <2> QED BY <1>2, <1>4, <2>1 DEF IsFold
<1>7. IsProduct(g, D, h) BY <1>5, <1>6 DEF IsProduct
<1> QED BY <1>7 DEF ProductOf

(* Product, a fold from the left, is such a product.                       *)
LEMMA ProductValue ==
  ASSUME TablesExact, NEW n \in Nat, NEW q \in [1..n -> NonZero], NEW g, IsProduct(g, 1..n, q)
  PROVE  Product(q) = g[1..n]
<1> DEFINE D == 1..n
           Is(F) == F = [s \in SUBSET DOMAIN q |->
                           IF s = {} THEN One ELSE gfMul(F[s \ {Max(s)}], q[Max(s)])]
           E == CHOOSE F : Is(F)
<1>0. IsFiniteSet(D) /\ DOMAIN q = D BY FS_Interval
<1>1. \A s \in SUBSET D : s # {} => Max(s) \in s
  BY MaxMinIn
<1> HIDE DEF D
<1>2. g \in [SUBSET D -> NonZero] /\ g[{}] = One /\ q \in [D -> NonZero]
  BY DEF IsProduct, D
<1>3. ASSUME NEW s \in SUBSET D, s # {} PROVE g[s] = gfMul(g[s \ {Max(s)}], q[Max(s)])
  <2>1. Max(s) \in s /\ Max(s) \in D /\ s \ {Max(s)} \in SUBSET D BY <1>1, <1>3
  <2>2. g[s] = gfMul(q[Max(s)], g[s \ {Max(s)}]) BY <2>1 DEF IsProduct, D
  <2>3. q[Max(s)] \in NonZero /\ g[s \ {Max(s)}] \in NonZero BY <1>2, <2>1
  <2> QED BY <2>2, <2>3, MulFacts
<1>4. Is(g)
  BY <1>0, <1>2, <1>3
<1>5. Is(E)
  <2> HIDE DEF Is
  <2> QED BY <1>4
<1> DEFINE P == {s \in SUBSET D : E[s] = g[s]}
<1>6. {} \in P
  BY <1>0, <1>2, <1>5
<1>7. ASSUME NEW s \in SUBSET D, s # {}, \A i \in s : s \ {i} \in P PROVE s \in P
  <2>1. Max(s) \in s BY <1>1, <1>7
  <2>2. E[s \ {Max(s)}] = g[s \ {Max(s)}] BY <1>7, <2>1
  <2>3. E[s] = gfMul(E[s \ {Max(s)}], q[Max(s)]) BY <1>0, <1>5, <1>7
  <2> QED BY <1>3, <1>7, <2>2, <2>3
<1> HIDE DEF P
<1>8. D \in P
  <2>1. \A s \in SUBSET D : s # {} /\ (\A i \in s : s \ {i} \in P) => s \in P BY <1>7
  <2> HIDE DEF Is, E
  <2>2. \A s \in SUBSET D : s \in P BY <1>0, <1>6, <2>1, StepSubset
  <2> QED BY <2>2
<1>9. Product(q) = E[DOMAIN q]
  BY DEF Product, FoldLeft, MapThenFoldSet
<1> QED BY <1>0, <1>8, <1>9 DEF P, D

(* q lists the values that h has in I, each index once.                    *)
Lists(q, n, r, I, D, h) ==
  /\ r \in [1..n -> D] /\ I = {r[j] : j \in 1..n}
  /\ \A j, k \in 1..n : r[j] = r[k] => j = k
  /\ \A j \in 1..n : q[j] = h[r[j]]

(* The order of the factors does not matter.                               *)
LEMMA ProductListed ==
  ASSUME TablesExact, NEW D, NEW h \in [D -> NonZero], NEW G, IsProduct(G, D, h),
         NEW n \in Nat, NEW q \in [1..n -> NonZero], NEW r, NEW I, Lists(q, n, r, I, D, h)
  PROVE  Product(q) = G[I]
<1> DEFINE Im(s) == {r[j] : j \in s}
           g == [s \in SUBSET (1..n) |-> G[Im(s)]]
<1>0. /\ r \in [1..n -> D] /\ I = {r[j] : j \in 1..n}
      /\ \A j, k \in 1..n : r[j] = r[k] => j = k
      /\ \A j \in 1..n : q[j] = h[r[j]]
  BY DEF Lists
<1>1. \A s \in SUBSET (1..n) : Im(s) \in SUBSET D
  BY <1>0
<1>2. g \in [SUBSET (1..n) -> NonZero] /\ g[{}] = One
  <2>1. Im({}) = {} OBVIOUS
  <2> HIDE DEF Im
  <2> QED BY <1>1, <2>1 DEF IsProduct
<1>3. ASSUME NEW s \in SUBSET (1..n), NEW x \in s PROVE g[s] = gfMul(q[x], g[s \ {x}])
  <2>1. Im(s) \ {r[x]} = Im(s \ {x}) BY <1>0
  <2>2. r[x] \in Im(s) /\ Im(s) \in SUBSET D BY <1>0
  <2>3. s \ {x} \in SUBSET (1..n) /\ x \in 1..n OBVIOUS
  <2> HIDE DEF Im
  <2>4. G[Im(s)] = gfMul(h[r[x]], G[Im(s) \ {r[x]}]) BY <2>2 DEF IsProduct
  <2> QED BY <1>0, <2>1, <2>3, <2>4
<1> HIDE DEF g
<1>4. IsProduct(g, 1..n, q) BY <1>2, <1>3 DEF IsProduct
<1>5. Product(q) = g[1..n] BY <1>4, ProductValue
<1> QED BY <1>0, <1>5 DEF g

(* What RemoveAt leaves is the other places, in their order.               *)
LEMMA RemoveFacts ==
  ASSUME NEW S, NEW s \in Seq(S), NEW i \in 1..Len(s)
  PROVE  /\ RemoveAt(s, i) \in Seq(S) /\ Len(RemoveAt(s, i)) = Len(s) - 1
         /\ \A j \in 1..Len(s)-1 : RemoveAt(s, i)[j] = s[IF j < i THEN j ELSE j + 1]
<1>1. Len(s) \in Nat OBVIOUS
<1>2. SubSeq(s, 1, i-1) \in Seq(S) /\ Len(SubSeq(s, 1, i-1)) = i - 1
      /\ \A j \in 1..i-1 : SubSeq(s, 1, i-1)[j] = s[j]
  OBVIOUS
<1>3. SubSeq(s, i+1, Len(s)) \in Seq(S) /\ Len(SubSeq(s, i+1, Len(s))) = Len(s) - i
      /\ \A j \in 1..Len(s)-i : SubSeq(s, i+1, Len(s))[j] = s[i+j]
  OBVIOUS
<1> DEFINE a == SubSeq(s, 1, i-1)  b == SubSeq(s, i+1, Len(s))
<1>4. RemoveAt(s, i) = a \o b BY DEF RemoveAt
<1> HIDE DEF a, b
<1>5. a \in Seq(S) /\ b \in Seq(S) /\ Len(a) = i - 1 /\ Len(b) = Len(s) - i BY <1>2, <1>3 DEF a, b
<1>6. a \o b \in Seq(S) /\ Len(a \o b) = Len(s) - 1 BY <1>1, <1>5
<1>7. ASSUME NEW j \in 1..Len(s)-1 PROVE (a \o b)[j] = s[IF j < i THEN j ELSE j + 1]
  <2>1. CASE j < i
    <3>1. j \in 1..i-1 /\ (a \o b)[j] = a[j] BY <1>5, <2>1
    <3> QED BY <1>2, <2>1, <3>1 DEF a
  <2>2. CASE ~(j < i)
    <3> DEFINE k == j - (i - 1)
    <3>0. k \in 1..Len(s)-i /\ j = Len(a) + k /\ k \in 1..Len(b) BY <1>1, <1>5, <2>2
    <3>1. (a \o b)[j] = b[k]
      <4>1. j - Len(a) = k /\ j \in 1..Len(a) + Len(b) /\ ~(j <= Len(a)) BY <1>1, <1>5, <3>0, <2>2
      <4>2. (a \o b)[j] = b[j - Len(a)] BY <1>5, <4>1, ConcatProperties
      <4> QED BY <4>1, <4>2
    <3>2. i + (j - (i - 1)) = j + 1 BY <1>1
    <3> QED BY <1>3, <2>2, <3>0, <3>1, <3>2 DEF b
  <2> QED BY <2>1, <2>2
<1> QED BY <1>4, <1>6, <1>7

-----------------------------------------------------------------------------
(* Combining: the shares as functions on their places.                     *)
Places(shares) == 1..Len(shares)
Xs(shares) == [i \in Places(shares) |-> shares[i].x]
Ys(shares) == [i \in Places(shares) |-> shares[i].y]

(* Places are finitely many.                                               *)
LEMMA PlacesFacts ==
  ASSUME NEW R, NEW shares \in Seq(R)
  PROVE  /\ DOMAIN shares = Places(shares) /\ IsFiniteSet(Places(shares))
         /\ Cardinality(Places(shares)) = Len(shares) /\ Len(shares) \in Nat
         /\ shares # <<>> => 1 \in Places(shares)
<1>1. Len(shares) \in Nat /\ DOMAIN shares = 1..Len(shares) /\ (shares # <<>> => Len(shares) # 0)
  OBVIOUS
<1>2. IsFiniteSet(1..Len(shares)) /\ Cardinality(1..Len(shares)) = Len(shares)
  <2> DEFINE n == Len(shares)
  <2> HIDE DEF n
  <2>1. n \in Nat BY <1>1 DEF n
  <2>2. IsFiniteSet(1..n) /\ Cardinality(1..n) = n BY <2>1, FS_Interval
  <2> QED BY <2>2 DEF n
<1>3. shares # <<>> => 1 \in 1..Len(shares) BY <1>1
<1> QED BY <1>1, <1>2, <1>3 DEF Places

(* Lagrange's weights are quotients of two products.                       *)
LEMMA DivStep ==
  ASSUME TablesExact, NEW a \in NonZero, NEW b \in NonZero, NEW p \in NonZero, NEW r \in NonZero
  PROVE  gfMul(b, gfDiv(gfMul(a, p), gfMul(b, r))) = gfMul(a, gfDiv(p, r))
<1> DEFINE u == gfDiv(gfMul(a, p), gfMul(b, r))  v == gfDiv(p, r)
<1>1. gfMul(a, p) \in NonZero /\ gfMul(b, r) \in NonZero BY MulFacts
<1>2. u \in NonZero /\ gfMul(u, gfMul(b, r)) = gfMul(a, p) /\ v \in NonZero /\ gfMul(v, r) = p
  BY <1>1, MulFacts
<1>3. a \in Bytes /\ b \in Bytes /\ r \in Bytes /\ u \in Bytes /\ v \in Bytes /\ r # Zero
  BY <1>2 DEF NonZero
<1> HIDE DEF u, v
<1>4. gfMul(gfMul(b, u), r) = gfMul(u, gfMul(b, r))
  <2>1. gfMul(b, gfMul(u, r)) = gfMul(u, gfMul(b, r)) BY <1>3, MulSwap
  <2>2. gfMul(b, gfMul(u, r)) = gfMul(gfMul(b, u), r) BY <1>3, ByteFacts
  <2> QED BY <2>1, <2>2
<1>5. gfMul(gfMul(a, v), r) = gfMul(a, gfMul(v, r)) BY <1>3, ByteFacts
<1>6. gfMul(b, u) \in Bytes /\ gfMul(a, v) \in Bytes BY <1>3, ByteFacts
<1>7. gfMul(gfMul(b, u), r) = gfMul(gfMul(a, v), r) BY <1>2, <1>4, <1>5
<1>8. gfMul(b, u) = gfMul(a, v) BY <1>3, <1>6, <1>7, ByteFacts
<1> QED BY <1>8 DEF u, v

Denominators(D, x, i) == [j \in D |-> IF j = i THEN One ELSE Xor(x[i], x[j])]
Lagrange(D, x) ==
  [i \in D |-> [T \in SUBSET D |->
     gfDiv(ProductOf(D, x)[T], ProductOf(D, Denominators(D, x, i))[T])]]

(* They satisfy what the interpolation lemmas ask of weights.              *)
LEMMA LagrangeWeights ==
  ASSUME TablesExact, NEW D, IsFiniteSet(D), NEW x, Indices(D, x)
  PROVE  /\ Weights(D, x, Lagrange(D, x))
         /\ IsProduct(ProductOf(D, x), D, x)
         /\ \A i \in D : /\ Denominators(D, x, i) \in [D -> NonZero]
                         /\ IsProduct(ProductOf(D, Denominators(D, x, i)), D, Denominators(D, x, i))
<1> DEFINE N == ProductOf(D, x)  M(i) == ProductOf(D, Denominators(D, x, i))  w == Lagrange(D, x)
<1>1. IsProduct(N, D, x) BY ProductExists DEF Indices
<1>2. ASSUME NEW i \in D PROVE Denominators(D, x, i) \in [D -> NonZero]
  <2>1. ASSUME NEW j \in D, j # i PROVE Xor(x[i], x[j]) \in NonZero
    <3>1. x[i] \in Bytes /\ x[j] \in Bytes /\ x[i] # x[j] BY <2>1, LogFacts DEF Indices
    <3> QED BY <3>1, XorFacts DEF NonZero
  <2> QED BY <2>1, LogFacts DEF Denominators
<1>3. ASSUME NEW i \in D PROVE IsProduct(M(i), D, Denominators(D, x, i))
  BY <1>2, ProductExists
<1>4. ASSUME NEW i \in D, NEW T \in SUBSET D
      PROVE  N[T] \in NonZero /\ M(i)[T] \in NonZero /\ w[i][T] = gfDiv(N[T], M(i)[T])
  BY <1>1, <1>3 DEF IsProduct, Lagrange
<1> HIDE DEF N, M
<1>5. w \in [D -> [SUBSET D -> Bytes]]
  <2>1. \A i \in D, T \in SUBSET D : gfDiv(N[T], M(i)[T]) \in Bytes
    BY <1>4, MulFacts, LogFacts
  <2> QED BY <2>1 DEF Lagrange, N, M
<1> HIDE DEF w
<1>6. ASSUME NEW i \in D PROVE w[i][{}] = One
  <2>1. w[i][{}] = gfDiv(One, One) BY <1>1, <1>3, <1>4 DEF IsProduct
  <2>2. One \in NonZero BY LogFacts
  <2>3. gfDiv(One, One) \in NonZero /\ gfMul(gfDiv(One, One), One) = One BY <2>2, MulFacts
  <2>4. gfMul(gfDiv(One, One), One) = gfDiv(One, One) BY <2>2, <2>3, MulFacts
  <2> QED BY <2>1, <2>3, <2>4
<1>7. ASSUME NEW i \in D, NEW T \in SUBSET D, i \notin T, NEW j \in T
      PROVE  gfMul(Xor(x[i], x[j]), w[i][T]) = gfMul(x[j], w[i][T \ {j}])
  <2> DEFINE U == T \ {j}  b == Xor(x[i], x[j])
  <2>1. j \in D /\ j # i /\ U \in SUBSET D BY <1>7
  <2>2. Denominators(D, x, i)[j] = b BY <2>1 DEF Denominators
  <2>3. b \in NonZero /\ x[j] \in NonZero BY <1>2, <2>1, <2>2 DEF Indices
  <2>4. N[T] = gfMul(x[j], N[U]) BY <1>1 DEF IsProduct
  <2>5. M(i)[T] = gfMul(b, M(i)[U]) BY <1>3, <2>2 DEF IsProduct
  <2>6. N[U] \in NonZero /\ M(i)[U] \in NonZero /\ w[i][U] = gfDiv(N[U], M(i)[U])
        /\ w[i][T] = gfDiv(N[T], M(i)[T])
    BY <1>4, <2>1
  <2> HIDE DEF U, b
  <2>7. gfMul(b, w[i][T]) = gfMul(x[j], w[i][U]) BY <2>3, <2>4, <2>5, <2>6, DivStep
  <2> QED BY <2>7 DEF U, b
<1>8. Weights(D, x, w) BY <1>5, <1>6, <1>7 DEF Weights
<1> QED BY <1>1, <1>2, <1>3, <1>8 DEF N, M, w

(* Weight, computed from the shares, is Lagrange's weight.                 *)
LEMMA WeightValue ==
  ASSUME TablesExact, NEW R, NEW shares \in Seq(R), CanCombine(shares),
         \A i \in Places(shares) : shares[i].x \in Bytes,
         NEW i \in Places(shares)
  PROVE  /\ Indices(Places(shares), Xs(shares))
         /\ Weight(shares, i) = Lagrange(Places(shares), Xs(shares))[i][Places(shares) \ {i}]
<1> DEFINE D == Places(shares)  x == Xs(shares)  n == Len(shares) - 1
           others == RemoveAt(shares, i)
           r == [j \in 1..n |-> IF j < i THEN j ELSE j + 1]
           num == [j \in DOMAIN others |-> others[j].x]
           den == [j \in DOMAIN others |-> Xor(shares[i].x, others[j].x)]
<1>0. Len(shares) \in Nat /\ i \in 1..Len(shares) /\ DOMAIN shares = 1..Len(shares) BY DEF Places
<1>1. Indices(D, x)
  <2>1. \A j \in D : x[j] = shares[j].x /\ x[j] \in NonZero
    BY <1>0 DEF CanCombine, Places, Xs, NonZero
  <2>2. \A j, k \in D : x[j] = x[k] => j = k
    BY <1>0, <2>1 DEF CanCombine, Places
  <2> QED BY <2>1, <2>2 DEF Indices, Xs
<1>2. /\ n \in Nat /\ DOMAIN others = 1..n
      /\ \A j \in 1..n : others[j] = shares[r[j]] /\ r[j] \in D /\ r[j] # i
  <2>1. others \in Seq(R) /\ Len(others) = n BY <1>0, RemoveFacts
  <2>2. \A j \in 1..n : others[j] = shares[IF j < i THEN j ELSE j + 1] BY <1>0, RemoveFacts
  <2>3. \A j \in 1..n : r[j] \in D /\ r[j] # i BY <1>0 DEF Places
  <2>4. n \in Nat /\ DOMAIN others = 1..n BY <1>0, <2>1
  <2> QED BY <2>2, <2>3, <2>4
<1>3. \A j, k \in 1..n : r[j] = r[k] => j = k
  BY <1>0
<1>4. {r[j] : j \in 1..n} = D \ {i}
  <2>1. ASSUME NEW y \in D \ {i} PROVE \E j \in 1..n : r[j] = y
    <3>1. y \in 1..Len(shares) /\ y # i BY DEF Places
    <3>2. CASE y < i BY <1>0, <3>1, <3>2
    <3>3. CASE ~(y < i)
      <4>1. y - 1 \in 1..n /\ r[y - 1] = y BY <1>0, <3>1, <3>3
      <4> QED BY <4>1
    <3> QED BY <3>2, <3>3
  <2>2. \A j \in 1..n : r[j] \in D \ {i} BY <1>2
  <2> HIDE DEF r, D, n
  <2> QED BY <2>1, <2>2
<1>5. r \in [1..n -> D]
  BY <1>2
<1> HIDE DEF r, others, n
<1>6. IsFiniteSet(D) BY <1>0, FS_Interval DEF Places
<1> DEFINE d == Denominators(D, x, i)
<1>7. \A j \in 1..n : num[j] = x[r[j]] /\ den[j] = d[r[j]]
  BY <1>0, <1>2 DEF Xs, Denominators
<1>8. x \in [D -> NonZero] /\ d \in [D -> NonZero] /\ IsProduct(ProductOf(D, x), D, x)
      /\ IsProduct(ProductOf(D, d), D, d)
  BY <1>1, <1>6, LagrangeWeights DEF Indices
<1>9. num \in [1..n -> NonZero] /\ den \in [1..n -> NonZero]
  <2>1. \A j \in 1..n : num[j] \in NonZero /\ den[j] \in NonZero
    <3> HIDE DEF num, den, d, x, D
    <3> QED BY <1>5, <1>7, <1>8
  <2> QED BY <1>2, <2>1
<1>10. Weight(shares, i) = gfDiv(Product(num), Product(den))
  BY DEF Weight, others
<1>11. Lagrange(D, x)[i][D \ {i}] = gfDiv(ProductOf(D, x)[D \ {i}], ProductOf(D, d)[D \ {i}])
  BY DEF Lagrange
<1>14. Lists(num, n, r, D \ {i}, D, x) /\ Lists(den, n, r, D \ {i}, D, d)
  <2> HIDE DEF num, den, d, x, D
  <2> QED BY <1>3, <1>4, <1>5, <1>7 DEF Lists
<1> HIDE DEF num, den, d, x, D
<1>12. Product(num) = ProductOf(D, x)[D \ {i}]
  BY <1>2, <1>8, <1>9, <1>14, ProductListed
<1>13. Product(den) = ProductOf(D, d)[D \ {i}]
  BY <1>2, <1>8, <1>9, <1>14, ProductListed
<1> QED BY <1>1, <1>10, <1>11, <1>12, <1>13 DEF D, x

(* The fold of exclusive or is the sum.                                    *)
LEMMA SumValue ==
  ASSUME TablesExact, NEW D, IsFiniteSet(D), NEW h \in [D -> Bytes]
  PROVE  FoldFunction(Xor, Zero, h) = SumOf(D, h)[D]
<1> DEFINE c(s) == CHOOSE i \in s : TRUE
           Is(F) == F = [s \in SUBSET D |-> IF s = {} THEN Zero ELSE Xor(h[c(s)], F[s \ {c(s)}])]
           E == CHOOSE F : Is(F)
           g == SumOf(D, h)
<1>1. IsSum(g, D, h) BY SumExists
<1> HIDE DEF g
<1>2. \A s \in SUBSET D : s # {} => c(s) \in s
  OBVIOUS
<1> HIDE DEF c
<1>3. Is(g)
  <2>1. \A s \in SUBSET D : s # {} => g[s] = Xor(h[c(s)], g[s \ {c(s)}])
    BY <1>1, <1>2 DEF IsSum
  <2>2. g \in [SUBSET D -> Bytes] /\ g[{}] = Zero BY <1>1 DEF IsSum
  <2> QED BY <2>1, <2>2
<1>4. Is(E)
  <2> HIDE DEF Is
  <2> QED BY <1>3
<1> DEFINE P == {s \in SUBSET D : E[s] = g[s]}
<1>5. {} \in P
  BY <1>1, <1>4 DEF IsSum
<1>6. ASSUME NEW s \in SUBSET D, s # {}, \A i \in s : s \ {i} \in P PROVE s \in P
  <2>1. c(s) \in s BY <1>2, <1>6
  <2>2. E[s \ {c(s)}] = g[s \ {c(s)}] BY <1>6, <2>1
  <2>3. E[s] = Xor(h[c(s)], E[s \ {c(s)}]) BY <1>4, <1>6
  <2>4. g[s] = Xor(h[c(s)], g[s \ {c(s)}]) BY <1>1, <2>1 DEF IsSum
  <2> QED BY <2>2, <2>3, <2>4
<1> HIDE DEF P
<1>7. D \in P
  <2>1. \A s \in SUBSET D : s # {} /\ (\A i \in s : s \ {i} \in P) => s \in P BY <1>6
  <2> HIDE DEF Is, E
  <2>2. \A s \in SUBSET D : s \in P BY <1>5, <2>1, StepSubset
  <2> QED BY <2>2
<1>8. FoldFunction(Xor, Zero, h) = E[D]
  <2>1. DOMAIN h = D OBVIOUS
  <2> QED BY <2>1 DEF FoldFunction, FoldFunctionOnSet, MapThenFoldSet, c
<1> QED BY <1>7, <1>8 DEF P, g

(* shamirCombine interpolates at zero.                                     *)
LEMMA CombineValue ==
  ASSUME TablesExact, NEW R, NEW shares \in Seq(R), CanCombine(shares),
         \A i \in Places(shares) : shares[i].x \in Bytes /\ shares[i].y \in Bytes
  PROVE  shamirCombine(shares) =
           Interpolate(Places(shares), Lagrange(Places(shares), Xs(shares)), Places(shares), Ys(shares))
<1> DEFINE D == Places(shares)  w == Lagrange(D, Xs(shares))  t == Term(D, w, D, Ys(shares))
           h == [i \in DOMAIN shares |-> gfMul(shares[i].y, Weight(shares, i))]
<1>1. DOMAIN shares = D /\ IsFiniteSet(D)
  BY PlacesFacts
<1>2. \A i \in D : Weight(shares, i) = w[i][D \ {i}] /\ Indices(D, Xs(shares))
  BY WeightValue
<1>3. h = t
  BY <1>1, <1>2 DEF Term, Ys
<1>4. t \in [D -> Bytes]
  <2>1. CASE D = {} BY <2>1 DEF Term
  <2>2. CASE D # {}
    <3>1. Indices(D, Xs(shares)) BY <1>2, <2>2
    <3>2. Weights(D, Xs(shares), w) BY <1>1, <3>1, LagrangeWeights
    <3>3. Ys(shares) \in [D -> Bytes] BY DEF Ys
    <3> HIDE DEF D, w
    <3> QED BY <3>2, <3>3, TermType
  <2> QED BY <2>1, <2>2
<1>5. shamirCombine(shares) = FoldFunction(Xor, Zero, t)
  BY <1>3 DEF shamirCombine
<1> HIDE DEF D, t
<1>6. shamirCombine(shares) = SumOf(D, t)[D] BY <1>1, <1>4, <1>5, SumValue
<1> QED BY <1>6 DEF Interpolate, D, t

(* So it gives a byte, as evalPoly does.                                   *)
LEMMA CombineType ==
  ASSUME TablesExact, NEW R, NEW shares \in Seq(R), shares # <<>>, CanCombine(shares),
         \A i \in Places(shares) : shares[i].x \in Bytes /\ shares[i].y \in Bytes
  PROVE  shamirCombine(shares) \in Bytes
<1> DEFINE D == Places(shares)  x == Xs(shares)  w == Lagrange(D, x)
<1>1. IsFiniteSet(D) /\ 1 \in D
  BY PlacesFacts
<1>2. Indices(D, x) BY <1>1, WeightValue
<1>3. Weights(D, x, w) BY <1>1, <1>2, LagrangeWeights
<1>4. Ys(shares) \in [D -> Bytes] BY DEF Ys
<1>5. shamirCombine(shares) = Interpolate(D, w, D, Ys(shares)) BY CombineValue
<1> HIDE DEF D, x, w
<1> QED BY <1>1, <1>3, <1>4, <1>5, InterpolateType

LEMMA EvalPolyType ==
  ASSUME TablesExact, NEW n \in Nat, NEW q \in [1..n -> Bytes], NEW z \in Bytes
  PROVE  evalPoly(q, z) \in Bytes
<1>1. PICK f : HornerSteps(f, q, n, z) BY EvalPolySteps
<1>2. f \in [1..n+1 -> Bytes] /\ 1 \in 1..n+1 /\ f[1] = evalPoly(q, z) BY <1>1 DEF HornerSteps
<1> QED BY <1>2

(* shamir.go:3-5: any m values of a polynomial with m coefficients, at     *)
(* different indices that are not zero, combine to its lowest coefficient, *)
(* the secret, whatever the other coefficients are.                        *)
THEOREM SharesCombine ==
  ASSUME TablesExact, NEW n \in Nat \ {0}, NEW q \in [1..n -> Bytes],
         NEW R, NEW shares \in Seq(R), Len(shares) >= n, CanCombine(shares),
         \A i \in Places(shares) : /\ shares[i].x \in Bytes
                                   /\ shares[i].y = evalPoly(q, shares[i].x)
  PROVE  shamirCombine(shares) = q[1]
<1> DEFINE D == Places(shares)  x == Xs(shares)  w == Lagrange(D, x)
           F == [i \in D |-> CHOOSE f : HornerSteps(f, q, n, x[i])]
           H == [k \in 1..n+1 |-> [i \in D |-> F[i][k]]]
<1>1. IsFiniteSet(D) /\ Cardinality(D) = Len(shares) /\ 1 \in D /\ Len(shares) \in Nat
  <2>1. Len(shares) # 0 BY PlacesFacts
  <2>2. shares # <<>> BY <2>1
  <2> QED BY <2>2, PlacesFacts
<1>2. Indices(D, x) BY <1>1, WeightValue
<1>3. Weights(D, x, w) BY <1>1, <1>2, LagrangeWeights
<1>4. ASSUME NEW i \in D PROVE HornerSteps(F[i], q, n, x[i])
  <2>1. x[i] \in Bytes BY DEF Xs
  <2>2. \E f : HornerSteps(f, q, n, x[i]) BY <2>1, EvalPolySteps
  <2> QED BY <2>2
<1>5. Horner(D, x, q, n, H)
  <2> HIDE DEF F
  <2>1. H \in [1..n+1 -> [D -> Bytes]] BY <1>4 DEF HornerSteps
  <2>2. \A i \in D : H[n+1][i] = Zero BY <1>4 DEF HornerSteps
  <2>3. ASSUME NEW k \in 1..n, NEW i \in D PROVE H[k][i] = Xor(gfMul(H[k+1][i], x[i]), q[k])
    <3>1. k \in 1..n+1 /\ k + 1 \in 1..n+1 OBVIOUS
    <3>2. H[k][i] = F[i][k] /\ H[k+1][i] = F[i][k+1] BY <3>1
    <3> QED BY <1>4, <3>2 DEF HornerSteps
  <2> QED BY <2>1, <2>2, <2>3 DEF Horner
<1>6. H[1] = Ys(shares)
  <2> HIDE DEF F
  <2>1. \A i \in D : F[i][1] = evalPoly(q, x[i]) BY <1>4 DEF HornerSteps
  <2>2. \A i \in D : x[i] = shares[i].x BY DEF Xs
  <2> QED BY <2>1, <2>2 DEF Ys
<1>7. \A i \in D : shares[i].y \in Bytes
  BY EvalPolyType
<1>8. shamirCombine(shares) = Interpolate(D, w, D, Ys(shares))
  BY <1>7, CombineValue
<1>9. Cardinality(D) >= n + 1 - 1 /\ 1 \in 1..n+1 /\ n \in Nat
  BY <1>1
<1> HIDE DEF D, x, w, H
<1>10. Interpolate(D, w, D, H[1]) = Low(q, n, 1)
  BY <1>1, <1>2, <1>3, <1>5, <1>9, InterpolateHorner
<1> QED BY <1>6, <1>8, <1>10 DEF Low

-----------------------------------------------------------------------------
(* What fewer shares leave open: polynomials through chosen values.        *)

(* Horner's rule has one outcome.                                          *)
Follows(g, r, n, z) ==
  /\ g[n+1] = Zero
  /\ \A k \in 1..n : g[k] = Xor(gfMul(g[k+1], z), r[k])

LEMMA HornerSame ==
  ASSUME TablesExact, NEW n \in Nat, NEW r \in [1..n -> Bytes], NEW z \in Bytes, NEW g,
         Follows(g, r, n, z)
  PROVE  evalPoly(r, z) = g[1]
<1>1. PICK f : HornerSteps(f, r, n, z) BY EvalPolySteps
<1>2. /\ f[n+1] = Zero /\ f[1] = evalPoly(r, z)
      /\ \A k \in 1..n : f[k] = Xor(gfMul(f[k+1], z), r[k])
  BY <1>1 DEF HornerSteps
<1>a. g[n+1] = Zero /\ \A k \in 1..n : g[k] = Xor(gfMul(g[k+1], z), r[k]) BY DEF Follows
<1> DEFINE T == {j \in Nat : j <= n => f[n+1-j] = g[n+1-j]}
<1>3. 0 \in T BY <1>2, <1>a
<1>4. ASSUME NEW j \in Nat, j \in T PROVE j + 1 \in T
  <2> SUFFICES ASSUME j + 1 <= n PROVE f[n+1-(j+1)] = g[n+1-(j+1)] OBVIOUS
  <2> DEFINE k == n - j
  <2>1. k \in 1..n /\ n+1-(j+1) = k /\ n+1-j = k+1 OBVIOUS
  <2>2. f[k+1] = g[k+1] BY <1>4, <2>1
  <2> HIDE DEF k
  <2>3. f[k] = g[k] BY <1>2, <1>a, <2>1, <2>2
  <2> QED BY <2>1, <2>3
<1> HIDE DEF T
<1>5. n \in T BY <1>3, <1>4, NatSetInduction
<1>6. n + 1 - n = 1 OBVIOUS
<1> QED BY <1>2, <1>5, <1>6 DEF T

(* A polynomial times z + a, plus c.                                       *)
Times(t, m, a, c) ==
  [k \in 1..m+1 |-> Xor(IF k = 1 THEN c ELSE t[k-1], IF k = m + 1 THEN Zero ELSE gfMul(a, t[k]))]

IsTimes(r, t, m, a, c) ==
  /\ r \in [1..m+1 -> Bytes]
  /\ a = Zero => r[1] = c
  /\ \A z \in Bytes : evalPoly(r, z) = Xor(gfMul(Xor(z, a), evalPoly(t, z)), c)

(* Evaluated by Horner's rule it is that product and sum.                  *)
LEMMA TimesValue ==
  ASSUME TablesExact, NEW m \in Nat, NEW t \in [1..m -> Bytes], NEW a \in Bytes, NEW c \in Bytes
  PROVE  IsTimes(Times(t, m, a, c), t, m, a, c)
<1> DEFINE r == Times(t, m, a, c)
<1>0. Zero \in Bytes BY XorFacts
<1>1. r \in [1..m+1 -> Bytes]
  <2>1. ASSUME NEW k \in 1..m+1 PROVE r[k] \in Bytes
    <3> DEFINE u == IF k = 1 THEN c ELSE t[k-1]  v == IF k = m + 1 THEN Zero ELSE gfMul(a, t[k])
    <3>1. u \in Bytes OBVIOUS
    <3>2. v \in Bytes
      <4>1. CASE k = m + 1 BY <1>0, <4>1
      <4>2. CASE k # m + 1
        <5>1. k \in 1..m BY <4>2
        <5> QED BY <4>2, <5>1, ByteFacts
      <4> QED BY <4>1, <4>2
    <3>3. r[k] = Xor(u, v) BY DEF Times
    <3> HIDE DEF u, v, r
    <3> QED BY <3>1, <3>2, <3>3, XorFacts
  <2> QED BY <2>1 DEF Times
<1>2. ASSUME a = Zero PROVE r[1] = c
  <2>1. 1 \in 1..m+1 OBVIOUS
  <2>2. m # 0 => gfMul(Zero, t[1]) = Zero BY DEF gfMul
  <2>3. r[1] = Xor(c, Zero) BY <1>2, <2>1, <2>2 DEF Times
  <2> QED BY <2>3, XorFacts
<1>3. ASSUME NEW z \in Bytes PROVE evalPoly(r, z) = Xor(gfMul(Xor(z, a), evalPoly(t, z)), c)
  <2>1. PICK f : HornerSteps(f, t, m, z) BY EvalPolySteps
  <2>2. /\ f \in [1..m+1 -> Bytes] /\ f[m+1] = Zero /\ f[1] = evalPoly(t, z)
        /\ \A k \in 1..m : f[k] = Xor(gfMul(f[k+1], z), t[k])
    BY <2>1 DEF HornerSteps
  <2> DEFINE F(k) == IF k = m + 2 THEN Zero ELSE f[k]
             v == Xor(gfMul(Xor(z, a), f[1]), c)
             g == [k \in 1..m+2 |-> IF k = 1 THEN v ELSE Xor(f[k-1], gfMul(a, F(k)))]
  <2>3. \A k \in 1..m+2 : F(k) \in Bytes BY <1>0, <2>2
  <2>4. Xor(z, a) \in Bytes /\ f[1] \in Bytes /\ v \in Bytes
    <3>1. Xor(z, a) \in Bytes BY XorFacts
    <3>2. f[1] \in Bytes BY <2>2
    <3>3. gfMul(Xor(z, a), f[1]) \in Bytes BY <3>1, <3>2, ByteFacts
    <3> QED BY <3>1, <3>2, <3>3, XorFacts
  <2>5. g \in [1..m+2 -> Bytes]
    <3>1. ASSUME NEW k \in 1..m+2, k # 1 PROVE Xor(f[k-1], gfMul(a, F(k))) \in Bytes
      <4>1. k - 1 \in 1..m+1 BY <3>1
      <4>2. f[k-1] \in Bytes /\ F(k) \in Bytes BY <2>2, <2>3, <4>1
      <4> HIDE DEF F
      <4>3. gfMul(a, F(k)) \in Bytes BY <4>2, ByteFacts
      <4> QED BY <4>2, <4>3, XorFacts
    <3> HIDE DEF v, F
    <3> QED BY <2>4, <3>1
  <2>6. g[m+2] = Zero
    <3>1. m + 2 \in 1..m+2 /\ m + 2 # 1 /\ m + 2 - 1 = m + 1 OBVIOUS
    <3>2. gfMul(a, Zero) = Zero BY ByteFacts
    <3>3. Xor(Zero, Zero) = Zero BY DEF Xor, Zero
    <3>4. g[m+2] = Xor(f[m+1], gfMul(a, Zero)) BY <3>1
    <3> QED BY <2>2, <3>2, <3>3, <3>4
  <2>7. ASSUME NEW k \in 1..m+1, k # 1 PROVE g[k] = Xor(gfMul(g[k+1], z), r[k])
    <3>1. /\ k \in 1..m+2 /\ k + 1 \in 1..m+2 /\ k - 1 \in 1..m
          /\ k + 1 # 1 /\ k # m + 2 /\ (k + 1) - 1 = k /\ (k - 1) + 1 = k
      BY <2>7
    <3>2. g[k] = Xor(f[k-1], gfMul(a, f[k])) BY <2>7, <3>1
    <3>3. g[k+1] = Xor(f[k], gfMul(a, F(k+1))) BY <3>1
    <3>4. f[k-1] = Xor(gfMul(f[k], z), t[k-1]) BY <2>2, <3>1
    <3>5. r[k] = Xor(t[k-1], IF k = m + 1 THEN Zero ELSE gfMul(a, t[k])) BY <2>7 DEF Times
    <3> DEFINE w == IF k = m + 1 THEN Zero ELSE t[k]
    <3>6. w \in Bytes /\ f[k] \in Bytes /\ F(k+1) \in Bytes /\ t[k-1] \in Bytes
      BY <1>0, <2>2, <2>3, <3>1
    <3>7. f[k] = Xor(gfMul(F(k+1), z), w)
      <4>1. CASE k = m + 1
        <5>1. f[k] = Zero /\ F(k+1) = Zero /\ w = Zero BY <2>2, <4>1
        <5>2. gfMul(Zero, z) = Zero /\ Xor(Zero, Zero) = Zero BY DEF gfMul, Xor, Zero
        <5> QED BY <5>1, <5>2
      <4>2. CASE k # m + 1
        <5>1. k \in 1..m /\ k + 1 # m + 2 BY <4>2
        <5> QED BY <2>2, <4>2, <5>1
      <4> QED BY <4>1, <4>2
    <3>8. r[k] = Xor(t[k-1], gfMul(a, w))
      <4>1. gfMul(a, Zero) = Zero BY ByteFacts
      <4> QED BY <3>5, <4>1
    <3> DEFINE p == f[k]  u == F(k+1)  b == t[k-1]
    <3>9. gfMul(a, p) = Xor(gfMul(a, gfMul(u, z)), gfMul(a, w))
      <4>1. gfMul(u, z) \in Bytes BY <3>6, ByteFacts
      <4>2. p = Xor(gfMul(u, z), w) BY <3>7
      <4> HIDE DEF p, u, w
      <4>3. w \in Bytes BY <3>6 DEF w
      <4> QED BY <4>1, <4>2, <4>3, Distributes
    <3>10. gfMul(Xor(p, gfMul(a, u)), z) = Xor(gfMul(p, z), gfMul(gfMul(a, u), z))
      <4> HIDE DEF F
      <4>1. p \in Bytes /\ u \in Bytes BY <3>6
      <4> HIDE DEF p, u
      <4>2. gfMul(a, u) \in Bytes BY <4>1, ByteFacts
      <4>3. Xor(p, gfMul(a, u)) \in Bytes BY <4>1, <4>2, XorFacts
      <4>4. gfMul(z, Xor(p, gfMul(a, u))) = Xor(gfMul(z, p), gfMul(z, gfMul(a, u)))
        BY <4>1, <4>2, Distributes
      <4> QED BY <4>1, <4>2, <4>3, <4>4, ByteFacts
    <3>11. gfMul(gfMul(a, u), z) = gfMul(a, gfMul(u, z))
      <4>1. u \in Bytes BY <3>6
      <4> HIDE DEF u
      <4> QED BY <4>1, ByteFacts
    <3> HIDE DEF g, r, F, w
    <3>12. g[k] = Xor(Xor(gfMul(p, z), b), gfMul(a, p)) BY <3>2, <3>4
    <3>13. Xor(gfMul(g[k+1], z), r[k])
             = Xor(Xor(gfMul(p, z), gfMul(a, gfMul(u, z))), Xor(b, gfMul(a, w)))
      BY <3>3, <3>8, <3>10, <3>11
    <3> DEFINE A == gfMul(p, z)  B == gfMul(a, gfMul(u, z))  C == gfMul(a, w)
    <3>14. Xor(Xor(A, b), Xor(B, C)) = Xor(Xor(A, B), Xor(b, C)) BY DEF Xor
    <3> QED BY <3>9, <3>12, <3>13, <3>14
  <2>8. g[1] = Xor(gfMul(g[2], z), r[1]) /\ g[1] = v
    <3>1. 1 \in 1..m+2 /\ 2 \in 1..m+2 /\ 1 \in 1..m+1 /\ 2 - 1 = 1 /\ 2 # 1 OBVIOUS
    <3>2. g[1] = v /\ g[2] = Xor(f[1], gfMul(a, F(2))) BY <3>1
    <3>3. r[1] = Xor(c, IF m = 0 THEN Zero ELSE gfMul(a, t[1])) BY <3>1 DEF Times
    <3> DEFINE w == IF m = 0 THEN Zero ELSE t[1]
    <3>4. w \in Bytes /\ F(2) \in Bytes BY <1>0, <2>3
    <3>5. f[1] = Xor(gfMul(F(2), z), w)
      <4>1. CASE m = 0
        <5>1. f[1] = Zero /\ F(2) = Zero /\ w = Zero BY <2>2, <4>1
        <5>2. gfMul(Zero, z) = Zero /\ Xor(Zero, Zero) = Zero BY DEF gfMul, Xor, Zero
        <5> QED BY <5>1, <5>2
      <4>2. CASE m # 0
        <5>1. 1 \in 1..m /\ 2 # m + 2 /\ 1 + 1 = 2 BY <4>2
        <5> QED BY <2>2, <4>2, <5>1
      <4> QED BY <4>1, <4>2
    <3>6. r[1] = Xor(c, gfMul(a, w))
      <4>1. gfMul(a, Zero) = Zero BY ByteFacts
      <4> QED BY <3>3, <4>1
    <3> DEFINE p == f[1]  u == F(2)
    <3>7. p \in Bytes /\ u \in Bytes /\ w \in Bytes BY <2>4, <3>4
    <3>8. p = Xor(gfMul(u, z), w) /\ g[2] = Xor(p, gfMul(a, u)) /\ v = Xor(gfMul(Xor(z, a), p), c)
      BY <3>2, <3>5
    <3> HIDE DEF p, u, w, g, r, v, F
    <3>9. /\ gfMul(u, z) \in Bytes /\ gfMul(a, u) \in Bytes
          /\ gfMul(z, p) \in Bytes /\ gfMul(a, p) \in Bytes
      BY <3>7, ByteFacts
    <3>10. gfMul(a, p) = Xor(gfMul(a, gfMul(u, z)), gfMul(a, w)) BY <3>7, <3>8, <3>9, Distributes
    <3>11. gfMul(g[2], z) = Xor(gfMul(z, p), gfMul(a, gfMul(u, z)))
      <4>1. Xor(p, gfMul(a, u)) \in Bytes BY <3>7, <3>9, XorFacts
      <4>2. gfMul(z, Xor(p, gfMul(a, u))) = Xor(gfMul(z, p), gfMul(z, gfMul(a, u)))
        BY <3>7, <3>9, Distributes
      <4>3. gfMul(z, gfMul(a, u)) = gfMul(a, gfMul(z, u)) BY <3>7, MulSwap
      <4>4. gfMul(z, u) = gfMul(u, z) BY <3>7, ByteFacts
      <4>5. gfMul(g[2], z) = gfMul(z, g[2]) BY <3>8, <4>1, ByteFacts
      <4> QED BY <3>8, <4>2, <4>3, <4>4, <4>5
    <3>12. gfMul(Xor(z, a), p) = Xor(gfMul(z, p), gfMul(a, p))
      <4>1. gfMul(p, Xor(z, a)) = Xor(gfMul(p, z), gfMul(p, a)) BY <3>7, Distributes
      <4>2. gfMul(p, z) = gfMul(z, p) /\ gfMul(p, a) = gfMul(a, p) BY <3>7, ByteFacts
      <4>3. gfMul(p, Xor(z, a)) = gfMul(Xor(z, a), p) BY <2>4, <3>7, ByteFacts
      <4> QED BY <4>1, <4>2, <4>3
    <3> DEFINE A == gfMul(z, p)  B == gfMul(a, gfMul(u, z))  C == gfMul(a, w)
    <3>13. Xor(Xor(A, B), Xor(c, C)) = Xor(Xor(A, Xor(B, C)), c) BY DEF Xor
    <3>14. v = Xor(Xor(A, Xor(B, C)), c) BY <3>8, <3>10, <3>12
    <3> QED BY <3>2, <3>6, <3>11, <3>13, <3>14
  <2>9. \A k \in 1..m+1 : g[k] = Xor(gfMul(g[k+1], z), r[k])
    <3> HIDE DEF g, r
    <3>1. 1 + 1 = 2 OBVIOUS
    <3> QED BY <2>7, <2>8, <3>1
  <2>10. m + 1 \in Nat /\ (m + 1) + 1 = m + 2 OBVIOUS
  <2>11. Follows(g, r, m + 1, z)
    <3> HIDE DEF g, r
    <3> QED BY <2>6, <2>9, <2>10 DEF Follows
  <2>12. evalPoly(r, z) = g[1]
    <3> HIDE DEF g, r
    <3> QED BY <1>1, <2>10, <2>11, HornerSame
  <2> HIDE DEF g, r, v
  <2> QED BY <2>2, <2>8, <2>12 DEF v
<1> QED BY <1>1, <1>2, <1>3 DEF IsTimes

(* Coefficients, m of them, whose polynomial has the values u on S.        *)
Takes(r, m, x, u, S) == r \in [1..m -> Bytes] /\ \A i \in S : evalPoly(r, x[i]) = u[i]

(* There is a polynomial for any values, with a coefficient for each:      *)
(* (z + x[j]) times one for the other indices, plus u[j].                  *)
LEMMA Interpolant ==
  ASSUME TablesExact, NEW D, IsFiniteSet(D), NEW x, Indices(D, x), NEW m \in Nat,
         NEW S \in SUBSET D, Cardinality(S) <= m, NEW u \in [D -> Bytes]
  PROVE  \E r : Takes(r, m, x, u, S)
<1> DEFINE Q == {n \in Nat : \A T \in SUBSET D : Cardinality(T) <= n =>
                   \A v \in [D -> Bytes] : \E r : Takes(r, n, x, v, T)}
<1>0. Zero \in Bytes /\ \A i \in D : x[i] \in Bytes BY LogFacts DEF Indices
<1>1. ASSUME NEW n \in Nat, NEW v \in [D -> Bytes] PROVE \E r : Takes(r, n, x, v, {})
  <2>1. [k \in 1..n |-> Zero] \in [1..n -> Bytes] BY <1>0
  <2> QED BY <2>1 DEF Takes
<1>2. 0 \in Q
  <2> SUFFICES ASSUME NEW T \in SUBSET D, Cardinality(T) <= 0, NEW v \in [D -> Bytes]
               PROVE  \E r : Takes(r, 0, x, v, T)
    OBVIOUS
  <2>1. IsFiniteSet(T) /\ Cardinality(T) \in Nat BY FS_Subset, FS_CardinalityType
  <2>2. T = {} BY <2>1, FS_EmptySet
  <2> QED BY <1>1, <2>2
<1>3. ASSUME NEW n \in Nat, n \in Q PROVE n + 1 \in Q
  <2> SUFFICES ASSUME NEW T \in SUBSET D, Cardinality(T) <= n + 1, T # {}, NEW v \in [D -> Bytes]
               PROVE  \E r : Takes(r, n + 1, x, v, T)
    BY <1>1
  <2>1. PICK j : j \in T OBVIOUS
  <2> DEFINE R == T \ {j}
             d(i) == Xor(x[i], x[j])
             e(i) == IF i = j THEN Zero ELSE gfDiv(Xor(v[i], v[j]), d(i))
             w == [i \in D |-> e(i)]
  <2>2. IsFiniteSet(T) /\ Cardinality(T) \in Nat /\ Cardinality(R) = Cardinality(T) - 1
    BY <2>1, FS_Subset, FS_CardinalityType, FS_RemoveElement
  <2>3. R \in SUBSET D /\ Cardinality(R) <= n BY <2>2
  <2>4. ASSUME NEW i \in D, i # j
        PROVE  e(i) \in Bytes /\ gfMul(d(i), e(i)) = Xor(v[i], v[j])
    <3>1. j \in D /\ x[i] # x[j] /\ x[i] \in Bytes /\ x[j] \in Bytes BY <1>0, <2>1, <2>4 DEF Indices
    <3>2. d(i) \in NonZero /\ d(i) \in Bytes
      <4> HIDE DEF Q, R, w, e
      <4> QED BY <3>1, XorNonZero
    <3> DEFINE y == Xor(v[i], v[j])
    <3>3. y \in Bytes BY <3>1, XorFacts
    <3>4. e(i) = gfDiv(y, d(i)) BY <2>4
    <3> HIDE DEF d, y, e
    <3> QED BY <3>2, <3>3, <3>4, Quotient DEF y
  <2>5. w \in [D -> Bytes] BY <1>0, <2>4
  <2>6. PICK t : Takes(t, n, x, w, R)
    <3> HIDE DEF R, w
    <3> QED BY <1>3, <2>3, <2>5
  <2> DEFINE a == x[j]  c == v[j]  r == Times(t, n, a, c)
  <2>7. j \in D /\ x[j] \in Bytes /\ v[j] \in Bytes /\ t \in [1..n -> Bytes]
    BY <1>0, <2>1, <2>6 DEF Takes
  <2>8. /\ r \in [1..n+1 -> Bytes]
        /\ \A z \in Bytes : evalPoly(r, z) = Xor(gfMul(Xor(z, a), evalPoly(t, z)), c)
    <3>1. a \in Bytes /\ c \in Bytes BY <2>7
    <3>2. IsTimes(r, t, n, a, c)
      <4> HIDE DEF Q, R, w, a, c
      <4> QED BY <2>7, <3>1, TimesValue
    <3> QED BY <3>2 DEF IsTimes
  <2> HIDE DEF r
  <2>9. ASSUME NEW i \in T PROVE evalPoly(r, x[i]) = v[i]
    <3>0. i \in D /\ v[i] \in Bytes /\ x[i] \in Bytes BY <1>0, <2>9
    <3>1. evalPoly(r, x[i]) = Xor(gfMul(d(i), evalPoly(t, x[i])), v[j]) BY <2>8, <3>0
    <3>2. CASE i = j
      <4>1. d(i) = Zero BY <2>7, <3>2, XorFacts
      <4>2. gfMul(Zero, evalPoly(t, x[i])) = Zero /\ Xor(Zero, v[j]) = v[j] BY DEF gfMul, Xor, Zero
      <4> QED BY <3>1, <3>2, <4>1, <4>2
    <3>3. CASE i # j
      <4>1. evalPoly(t, x[i]) = e(i)
        <5>1. i \in R BY <2>9, <3>3
        <5>2. evalPoly(t, x[i]) = w[i] BY <2>6, <5>1 DEF Takes
        <5> QED BY <3>0, <5>2
      <4>2. gfMul(d(i), e(i)) = Xor(v[i], v[j]) BY <2>4, <3>0, <3>3
      <4>3. Xor(Xor(v[i], v[j]), v[j]) = v[i] BY DEF Xor
      <4> HIDE DEF d, e
      <4> QED BY <3>1, <4>1, <4>2, <4>3
    <3> QED BY <3>2, <3>3
  <2> QED BY <2>8, <2>9 DEF Takes
<1> HIDE DEF Q
<1>4. m \in Q BY <1>2, <1>3, NatSetInduction
<1> QED BY <1>4 DEF Q

(* Horner's steps at every index, one beside another.                      *)
Beside(F, D, n) == [k \in 1..n+1 |-> [i \in D |-> F[i][k]]]
StepsAt(F, D, x, q, n) == \A i \in D : HornerSteps(F[i], q, n, x[i])

LEMMA StepsHorner ==
  ASSUME NEW D, NEW x, NEW n \in Nat, NEW q, NEW F, StepsAt(F, D, x, q, n)
  PROVE  Horner(D, x, q, n, Beside(F, D, n))
<1> DEFINE H == [k \in 1..n+1 |-> [i \in D |-> F[i][k]]]
<1>1. H \in [1..n+1 -> [D -> Bytes]] BY DEF StepsAt, HornerSteps
<1>2. \A i \in D : H[n+1][i] = Zero BY DEF StepsAt, HornerSteps
<1>3. ASSUME NEW k \in 1..n, NEW i \in D PROVE H[k][i] = Xor(gfMul(H[k+1][i], x[i]), q[k])
  <2>1. k \in 1..n+1 /\ k + 1 \in 1..n+1 OBVIOUS
  <2>2. H[k][i] = F[i][k] /\ H[k+1][i] = F[i][k+1] BY <2>1
  <2> QED BY <2>2 DEF StepsAt, HornerSteps
<1> QED BY <1>1, <1>2, <1>3 DEF Horner, Beside

(* A polynomial's coefficients are those of its Horner steps, and one less *)
(* value than coefficients settles them once the lowest is known.          *)
LEMMA CoefficientsSettled ==
  ASSUME TablesExact, NEW D, IsFiniteSet(D), NEW x, Indices(D, x),
         NEW n \in Nat, Cardinality(D) >= n,
         NEW p \in [1..n+1 -> Bytes], NEW q \in [1..n+1 -> Bytes], p[1] = q[1],
         \A i \in D : evalPoly(p, x[i]) = evalPoly(q, x[i])
  PROVE  p = q
<1> DEFINE F == [i \in D |-> CHOOSE f : HornerSteps(f, p, n + 1, x[i])]
           G == [i \in D |-> CHOOSE f : HornerSteps(f, q, n + 1, x[i])]
           H == Beside(F, D, n + 1)
           K == Beside(G, D, n + 1)
           w == Lagrange(D, x)
<1>1. Weights(D, x, w) BY LagrangeWeights
<1>2. n + 1 \in Nat /\ (n + 1) + 1 = n + 2 /\ \A i \in D : x[i] \in Bytes
  BY LogFacts DEF Indices
<1>3. \A i \in D : HornerSteps(F[i], p, n + 1, x[i]) /\ HornerSteps(G[i], q, n + 1, x[i])
  <2> SUFFICES ASSUME NEW i \in D
               PROVE  HornerSteps(F[i], p, n + 1, x[i]) /\ HornerSteps(G[i], q, n + 1, x[i])
    OBVIOUS
  <2>1. (\E f : HornerSteps(f, p, n + 1, x[i])) /\ \E f : HornerSteps(f, q, n + 1, x[i])
    BY <1>2, EvalPolySteps
  <2> QED BY <2>1
<1> HIDE DEF F, G, w
<1>4. Horner(D, x, p, n + 1, H)
  <2>1. StepsAt(F, D, x, p, n + 1) BY <1>3 DEF StepsAt
  <2> QED BY <1>2, <2>1, StepsHorner
<1>5. Horner(D, x, q, n + 1, K)
  <2>1. StepsAt(G, D, x, q, n + 1) BY <1>3 DEF StepsAt
  <2> QED BY <1>2, <2>1, StepsHorner
<1>6. H[1] = K[1]
  <2>1. \A i \in D : F[i][1] = evalPoly(p, x[i]) /\ G[i][1] = evalPoly(q, x[i])
    BY <1>3 DEF HornerSteps
  <2>2. 1 \in 1..(n+1)+1 OBVIOUS
  <2> QED BY <2>1, <2>2 DEF Beside
<1> HIDE DEF H, K
<1> DEFINE Q == {k \in Nat : k <= n => p[k+1] = q[k+1] /\ H[k+1] = K[k+1]}
<1>7. 0 \in Q BY <1>6
<1>8. ASSUME NEW k \in Nat, k \in Q PROVE k + 1 \in Q
  <2> SUFFICES ASSUME k + 1 <= n PROVE p[(k+1)+1] = q[(k+1)+1] /\ H[(k+1)+1] = K[(k+1)+1]
    OBVIOUS
  <2> DEFINE j == k + 1
  <2>1. j \in 1..n+1 /\ j + 1 \in 1..n+2 /\ j + 1 \in 1..n+1 /\ j + 1 # n + 2 OBVIOUS
  <2>2. p[j] = q[j] /\ H[j] = K[j] BY <1>8
  <2> HIDE DEF j
  <2>3. H[j+1] \in [D -> Bytes] /\ K[j+1] \in [D -> Bytes] BY <1>2, <1>4, <1>5, <2>1 DEF Horner
  <2>4. ASSUME NEW i \in D PROVE H[j+1][i] = K[j+1][i]
    <3>1. /\ H[j][i] = Xor(gfMul(H[j+1][i], x[i]), p[j])
          /\ K[j][i] = Xor(gfMul(K[j+1][i], x[i]), q[j])
      BY <1>4, <1>5, <2>1 DEF Horner
    <3> DEFINE a == gfMul(H[j+1][i], x[i])  b == gfMul(K[j+1][i], x[i])
    <3>2. Xor(a, p[j]) = Xor(b, p[j]) BY <2>2, <3>1
    <3>3. a = Xor(Xor(a, p[j]), p[j]) /\ b = Xor(Xor(b, p[j]), p[j])
      <4> HIDE DEF a, b
      <4> QED BY DEF Xor
    <3>4. a = b
      <4> HIDE DEF a, b
      <4> QED BY <3>2, <3>3
    <3>5. x[i] # Zero /\ H[j+1][i] \in Bytes /\ K[j+1][i] \in Bytes
      BY <2>3, LogFacts DEF Indices
    <3> DEFINE h == H[j+1][i]  k2 == K[j+1][i]
    <3>6. h \in Bytes /\ k2 \in Bytes /\ x[i] \in Bytes /\ gfMul(h, x[i]) = gfMul(k2, x[i])
      BY <1>2, <3>4, <3>5
    <3>7. h = k2
      <4> HIDE DEF h, k2
      <4> QED BY <3>5, <3>6, ByteFacts
    <3> QED BY <3>7
  <2>5. H[j+1] = K[j+1] BY <2>3, <2>4
  <2>6. Interpolate(D, w, D, H[j+1]) = Low(p, n + 1, j + 1) /\
        Interpolate(D, w, D, K[j+1]) = Low(q, n + 1, j + 1)
    <3>1. Cardinality(D) \in Nat /\ D \in SUBSET D BY FS_CardinalityType
    <3>2. j + 1 \in 1..(n+1)+1 /\ Cardinality(D) >= (n + 1) + 1 - (j + 1)
      BY <2>1, <3>1
    <3> QED BY <1>1, <1>2, <1>4, <1>5, <3>1, <3>2, InterpolateHorner
  <2>7. p[j+1] = q[j+1] BY <1>2, <2>1, <2>5, <2>6 DEF Low
  <2> QED BY <2>5, <2>7 DEF j
<1> HIDE DEF Q
<1>9. \A k \in Nat : k \in Q BY <1>7, <1>8, NatSetInduction
<1>10. ASSUME NEW k \in 1..n+1 PROVE p[k] = q[k]
  <2>1. k - 1 \in Nat /\ k - 1 <= n /\ (k - 1) + 1 = k OBVIOUS
  <2> QED BY <1>9, <2>1 DEF Q
<1> QED BY <1>10

(* The polynomial of a split: the secret, then the random coefficients.    *)
LEMMA Prepended ==
  ASSUME NEW k \in Bytes, NEW L \in Nat, NEW c \in [1..L -> Bytes]
  PROVE  /\ <<k>> \o c \in [1..L+1 -> Bytes] /\ (<<k>> \o c)[1] = k /\ Len(c) = L
         /\ \A j \in 1..L : (<<k>> \o c)[j+1] = c[j]
<1>1. c \in Seq(Bytes) /\ Len(c) = L OBVIOUS
<1>2. <<k>> \in Seq(Bytes) /\ Len(<<k>>) = 1 /\ <<k>>[1] = k OBVIOUS
<1> DEFINE q == <<k>> \o c
<1>3. q \in Seq(Bytes) /\ Len(q) = L + 1 /\ q[1] = k BY <1>1, <1>2, ConcatProperties
<1>4. ASSUME NEW j \in 1..L PROVE q[j+1] = c[j]
  <2>1. j + 1 \in 1..1+L /\ ~(j + 1 <= 1) /\ (j + 1) - 1 = j OBVIOUS
  <2>2. q[j+1] = c[(j+1) - 1] BY <1>1, <1>2, <2>1, ConcatProperties
  <2> QED BY <2>1, <2>2
<1>5. \A s \in Seq(Bytes), j \in Nat : Len(s) = j => s \in [1..j -> Bytes] OBVIOUS
<1> HIDE DEF q
<1>6. q \in [1..L+1 -> Bytes] BY <1>3, <1>5
<1> QED BY <1>1, <1>3, <1>4, <1>6 DEF q

(* What is known of the shares of a split.                                 *)
IsShare(s, q, m, n) ==
  /\ s.x \in NonZero /\ s.y \in Bytes /\ s.y = evalPoly(q, s.x)
  /\ s = [x |-> s.x, m |-> m, y |-> s.y] /\ \E i \in 1..n : s.x = Byte(i)

(* Shares are finitely many, and each is a value of the polynomial.        *)
LEMMA SplitFacts ==
  ASSUME TablesExact, NEW k \in Bytes, NEW L \in Nat, NEW c \in [1..L -> Bytes], NEW n \in 1..255
  PROVE  /\ IsFiniteSet(shamirSplit(k, c, n))
         /\ \A s \in shamirSplit(k, c, n) : IsShare(s, <<k>> \o c, L + 1, n)
<1> DEFINE q == <<k>> \o c
<1>1. \A i \in 1..n : Byte(i) \in NonZero /\ Byte(i) \in Bytes
  <2>1. 1..n \subseteq 1..255 OBVIOUS
  <2> QED BY <2>1, IndexFacts
<1>2. q \in [1..L+1 -> Bytes] /\ Len(c) = L /\ L + 1 \in Nat BY Prepended
<1> DEFINE f == [i \in 1..n |-> [x |-> Byte(i), m |-> L + 1, y |-> evalPoly(q, Byte(i))]]
<1>3. shamirSplit(k, c, n) = {f[i] : i \in 1..n} BY <1>2 DEF shamirSplit
<1>4. IsFiniteSet({f[i] : i \in 1..n})
  <2>1. f \in Surjection(1..n, {f[i] : i \in 1..n}) BY DEF Surjection
  <2>2. IsFiniteSet(1..n) BY FS_Interval
  <2> HIDE DEF f
  <2> QED BY <2>1, <2>2, FS_Surjection
<1> HIDE DEF q
<1>5. \A i \in 1..n : evalPoly(q, Byte(i)) \in Bytes BY <1>1, <1>2, EvalPolyType
<1>6. \A i \in 1..n :
        /\ f[i].x = Byte(i) /\ f[i].y = evalPoly(q, Byte(i)) /\ f[i].y \in Bytes
        /\ f[i] = [x |-> f[i].x, m |-> L + 1, y |-> f[i].y]
  BY <1>5
<1>7. \A i \in 1..n : IsShare(f[i], q, L + 1, n)
  <2> HIDE DEF f
  <2> QED BY <1>1, <1>6 DEF IsShare
<1> HIDE DEF f
<1> QED BY <1>3, <1>4, <1>7 DEF q

(* shamir.go:3-5: fewer than m shares of a key reveal nothing.  They are   *)
(* shares of every other key as well, and m - 1 of them come from exactly  *)
(* one choice of the random coefficients for each, so that coefficients    *)
(* drawn evenly leave every key equally likely.                            *)
THEOREM SharesHide ==
  ASSUME TablesExact, NEW secret \in Bytes, NEW other \in Bytes,
         NEW L \in Nat, NEW coeffs \in [1..L -> Bytes], NEW n \in 1..255,
         NEW seen \in SUBSET shamirSplit(secret, coeffs, n), Cardinality(seen) <= L
  PROVE  /\ Explaining(seen, other, L + 1, n) # {}
         /\ Cardinality(seen) = L => \E c : Explaining(seen, other, L + 1, n) = {c}
<1> DEFINE x == [s \in seen |-> s.x]
           u == [s \in seen |-> gfDiv(Xor(s.y, other), s.x)]
<1>1. /\ IsFiniteSet(seen)
      /\ \A s \in seen : /\ s.x \in NonZero /\ s.y \in Bytes
                         /\ s = [x |-> s.x, m |-> L + 1, y |-> s.y] /\ \E i \in 1..n : s.x = Byte(i)
      /\ \A s, t \in seen : s.x = t.x => s = t
  <2>0. \A s \in seen : IsShare(s, <<secret>> \o coeffs, L + 1, n) BY SplitFacts
  <2>1. \A s \in seen : /\ s.x \in NonZero /\ s.y \in Bytes /\ s.y = evalPoly(<<secret>> \o coeffs, s.x)
                        /\ s = [x |-> s.x, m |-> L + 1, y |-> s.y] /\ \E i \in 1..n : s.x = Byte(i)
    BY <2>0 DEF IsShare
  <2>2. \A s, t \in seen : s.x = t.x => s.y = t.y BY <2>1
  <2>3. \A s, t \in seen : s.x = t.x => s = t BY <2>1, <2>2
  <2>4. IsFiniteSet(seen) BY SplitFacts, FS_Subset
  <2> QED BY <2>1, <2>3, <2>4
<1>2. Indices(seen, x) BY <1>1 DEF Indices
<1>3. ASSUME NEW s \in seen
      PROVE  gfDiv(Xor(s.y, other), s.x) \in Bytes
             /\ gfMul(s.x, gfDiv(Xor(s.y, other), s.x)) = Xor(s.y, other)
  <2>1. Xor(s.y, other) \in Bytes BY <1>1, XorFacts
  <2> QED BY <1>1, <2>1, Quotient
<1>4. u \in [seen -> Bytes] BY <1>3
<1>5. PICK r : Takes(r, L, x, u, seen)
  <2> HIDE DEF x, u
  <2> QED BY <1>1, <1>2, <1>4, Interpolant
<1> DEFINE q == Times(r, L, Zero, other)  c == [j \in 1..L |-> q[j+1]]
<1>6. IsTimes(q, r, L, Zero, other)
  <2>1. r \in [1..L -> Bytes] /\ Zero \in Bytes BY <1>5, LogFacts DEF Takes
  <2> HIDE DEF x, u
  <2> QED BY <2>1, TimesValue
<1> HIDE DEF q
<1>7. q \in [1..L+1 -> Bytes] /\ q[1] = other BY <1>6 DEF IsTimes
<1>8. c \in [1..L -> Bytes] BY <1>7
<1>9. <<other>> \o c = q
  <2> DEFINE p == <<other>> \o c
  <2>1. p \in [1..L+1 -> Bytes] /\ p[1] = other /\ \A j \in 1..L : p[j+1] = c[j]
    <3> HIDE DEF c
    <3> QED BY <1>8, Prepended
  <2>2. ASSUME NEW k \in 1..L+1 PROVE p[k] = q[k]
    <3> HIDE DEF p
    <3>1. CASE k = 1 BY <1>7, <2>1, <3>1
    <3>2. CASE k # 1
      <4>1. k - 1 \in 1..L /\ (k - 1) + 1 = k BY <3>2
      <4> QED BY <2>1, <4>1
    <3> QED BY <3>1, <3>2
  <2> HIDE DEF p
  <2>3. p = q BY <1>7, <2>1, <2>2
  <2> QED BY <2>3 DEF p
<1> HIDE DEF c
<1>10. ASSUME NEW s \in seen PROVE s.y = evalPoly(q, s.x)
  <2>1. s.x \in Bytes /\ s.y \in Bytes BY <1>1, LogFacts
  <2>2. evalPoly(q, s.x) = Xor(gfMul(Xor(s.x, Zero), evalPoly(r, s.x)), other)
    BY <1>6, <2>1 DEF IsTimes
  <2>3. evalPoly(r, s.x) = gfDiv(Xor(s.y, other), s.x) BY <1>5 DEF Takes
  <2>4. Xor(s.x, Zero) = s.x BY <2>1, XorFacts
  <2>5. Xor(Xor(s.y, other), other) = s.y BY DEF Xor
  <2> HIDE DEF x, u
  <2> QED BY <1>3, <2>2, <2>3, <2>4, <2>5
<1>11. seen \subseteq shamirSplit(other, c, n)
  <2> SUFFICES ASSUME NEW s \in seen PROVE s \in shamirSplit(other, c, n) OBVIOUS
  <2>1. PICK i \in 1..n : s.x = Byte(i) BY <1>1
  <2>2. s = [x |-> Byte(i), m |-> L + 1, y |-> evalPoly(q, Byte(i))] BY <1>1, <1>10, <2>1
  <2>3. Len(c) = L BY <1>8, Prepended
  <2> QED BY <1>9, <2>2, <2>3 DEF shamirSplit
<1>12. (L + 1) - 1 = L OBVIOUS
<1>13. c \in Explaining(seen, other, L + 1, n) BY <1>8, <1>11, <1>12 DEF Explaining
<1>14. ASSUME Cardinality(seen) = L, NEW a \in Explaining(seen, other, L + 1, n)
       PROVE  a = c
  <2>1. a \in [1..L -> Bytes] /\ seen \subseteq shamirSplit(other, a, n) BY <1>12 DEF Explaining
  <2> DEFINE p == <<other>> \o a
  <2>2. p \in [1..L+1 -> Bytes] /\ p[1] = other /\ \A j \in 1..L : p[j+1] = a[j]
    BY <2>1, Prepended
  <2>3. \A s \in seen : s.y = evalPoly(p, s.x) BY <2>1, SplitFacts DEF IsShare
  <2> HIDE DEF p
  <2>4. \A s \in seen : evalPoly(p, x[s]) = evalPoly(q, x[s]) BY <1>10, <2>3
  <2> HIDE DEF x, u
  <2>5. Cardinality(seen) >= L BY <1>14
  <2>6. p = q BY <1>1, <1>2, <1>7, <2>2, <2>4, <2>5, CoefficientsSettled
  <2>7. \A j \in 1..L : a[j] = c[j] BY <2>2, <2>6 DEF c
  <2> QED BY <1>8, <2>1, <2>7
<1> QED BY <1>13, <1>14

-----------------------------------------------------------------------------
(* The sticks' own invariant does not depend on what restore writes to the *)
(* key file, so it is kept beside backups and restores.                    *)
LEMMA StepStick ==
  ASSUME Usb!IInv, Usb!Next PROVE Usb!IInv'
BY CustodyAssumption, Usb!StepInv DEF Stick!StickAssumption, Usb!StickAssumption

(* The steps of UsbStick are those of its proof module's copy.             *)
LEMMA SameNext == Stick!Next <=> Usb!Next
  BY Zenon
  DEF Stick!Next, Usb!Next, Stick!InitResume, Usb!InitResume, Stick!InitFrom, Usb!InitFrom,
     Stick!InitNew, Usb!InitNew, Stick!CloneFrom, Usb!CloneFrom, Stick!Pick, Usb!Pick,
     Stick!StoreState, Usb!StoreState, Stick!Write, Usb!Write, Stick!Sync, Usb!Sync,
     Stick!Link, Usb!Link, Stick!Rename, Usb!Rename, Stick!Tidy, Usb!Tidy, Stick!WriteFails,
     Usb!WriteFails, Stick!ReadBack, Usb!ReadBack, Stick!Stop, Usb!Stop, Stick!Unplug,
     Usb!Unplug, Stick!At, Usb!At, Stick!Go, Usb!Go, Stick!HoldsKey, Usb!HoldsKey,
     Stick!Unwraps, Usb!Unwraps, Stick!Whole, Usb!Whole, Stick!Idle, Usb!Idle, Stick!SameKey,
     Usb!SameKey, Stick!Lost, Usb!Lost, Stick!Files, Usb!Files

(* The cards leave the sticks and the command alone.                       *)
LEMMA CardsApart ==
  ASSUME Backup \/ UseCards PROVE UNCHANGED <<final, partial, made, run, ready>>
BY DEF Backup, UseCards

LEMMA StepCustody ==
  ASSUME Usb!IInv, [Next]_vars PROVE Usb!IInv'
<1>1. CASE Backup \/ UseCards \/ UNCHANGED vars
  <2>1. UNCHANGED <<final, partial, made, run, ready>> BY <1>1, CardsApart DEF vars
  <2> QED
    BY <2>1
    DEF Usb!IInv, Usb!SticksOK, Usb!FinalSynced, Usb!PartialHolds, Usb!CarriesKey, Usb!ReadyForGood
<1>2. CASE UseStick
  BY <1>2, StepStick, SameNext DEF UseStick
<1> QED BY <1>1, <1>2 DEF Next

LEMMA InitCustody == ASSUME Init PROVE Usb!IInv
<1>1. Usb!StickAssumption BY CustodyAssumption DEF Stick!StickAssumption, Usb!StickAssumption
<1>2. Usb!Init BY DEF Init, Stick!Init, Usb!Init, CardsInit, Stick!Idle, Usb!Idle
<1> QED BY <1>1, <1>2, Usb!InitInv

LEMMA SticksInvariant == Spec => []Usb!IInv
<1>1. Init => Usb!IInv BY InitCustody
<1>2. Usb!IInv /\ [Next]_vars => Usb!IInv' BY StepCustody
<1> QED BY <1>1, <1>2, PTL DEF Spec

-----------------------------------------------------------------------------
(* ReadyForGood (usbvault.go:129-131) still holds when the key file that   *)
(* usb init reads is written by restore, from whatever it was given.       *)
THEOREM CustodyReadyStays == Spec => []ReadyForGood
<1>1. Usb!IInv => ReadyForGood
  BY DEF Usb!IInv, Usb!ReadyForGood, ReadyForGood, Stick!ReadyForGood
<1> QED BY <1>1, SticksInvariant, PTL

(* ImplementsWriteOnce (usbvault.go:71-72): backups and restores between   *)
(* the stick commands do not make a stick take a second key.               *)
THEOREM CustodyRefinement == Spec => ImplementsWriteOnce
<1> DEFINE Slot == [d \in Sticks |-> IF final[d] \in Stick!Whole THEN final[d].key ELSE Absent]
<1>1. Init => Stick!Store!Init
  BY CustodyAssumption
  DEF Init, Stick!Init, Stick!Store!Init, Stick!Whole, Stick!StickAssumption
<1>2. Usb!IInv /\ [Next]_vars => [Stick!Store!Next]_Slot
  <2> SUFFICES ASSUME Usb!IInv, [Next]_vars PROVE Stick!Store!Next \/ Slot' = Slot
    OBVIOUS
  <2>0. Usb!StickAssumption BY CustodyAssumption DEF Stick!StickAssumption, Usb!StickAssumption
  <2>1. CASE UseStick /\ (Usb!Link \/ Usb!Rename)
    <3>1. /\ run.stick \in Sticks /\ run.key \in Bytes /\ final[run.stick] = Absent
          /\ final' = [final EXCEPT ![run.stick] = [key |-> run.key, synced |-> TRUE]]
      BY <2>0, <2>1, Usb!Lands
    <3>2. Absent \notin Stick!Whole
      BY CustodyAssumption DEF Stick!StickAssumption, Stick!Whole
    <3>3. Slot[run.stick] = Absent BY <3>1, <3>2
    <3>4. final \in [Sticks -> Usb!Files] BY DEF Usb!IInv, Usb!SticksOK
    <3>5. [key |-> run.key, synced |-> TRUE] \in Stick!Whole BY <3>1 DEF Stick!Whole
    <3>6. final'[run.stick] = [key |-> run.key, synced |-> TRUE] BY <3>1, <3>4
    <3>7. Slot'[run.stick] = run.key BY <3>1, <3>5, <3>6
    <3>8. \A d \in Sticks : d # run.stick => Slot'[d] = Slot[d] BY <3>1, <3>4
    <3>9. Slot' = [Slot EXCEPT ![run.stick] = Slot'[run.stick]] BY <3>8
    <3>10. \E d \in Sticks : /\ Slot[d] = Absent /\ Slot'[d] \in Bytes
                             /\ Slot' = [Slot EXCEPT ![d] = Slot'[d]]
      BY <3>1, <3>3, <3>7, <3>9
    <3> HIDE DEF Slot
    <3> QED BY <3>10 DEF Stick!Store!Next, Stick!Store!Fill, Slot
  <2>2. CASE ~(UseStick /\ (Usb!Link \/ Usb!Rename))
    <3>1. final' = final
      <4>1. CASE Backup \/ UseCards \/ UNCHANGED vars BY <4>1, CardsApart DEF vars
      <4>2. CASE UseStick
        <5>1. Usb!Next /\ ~(Usb!Link \/ Usb!Rename) BY <2>2, <4>2, SameNext DEF UseStick
        <5>2. ASSUME NEW d \in Sticks, Usb!Unplug(d) PROVE final' = final
          BY <2>0, <5>2, Usb!StepUnplug
        <5> QED
          BY <5>1, <5>2
          DEF Usb!Next, Usb!InitResume, Usb!InitFrom, Usb!InitNew, Usb!CloneFrom, Usb!Pick,
              Usb!StoreState, Usb!Write, Usb!Sync, Usb!Tidy, Usb!WriteFails, Usb!ReadBack, Usb!Stop
      <4> QED BY <4>1, <4>2 DEF Next
    <3> QED BY <3>1
  <2> QED BY <2>1, <2>2
<1> QED
  BY <1>1, <1>2, SticksInvariant, PTL
  DEF Spec, ImplementsWriteOnce, Stick!ImplementsWriteOnce, Stick!Store!Spec

-----------------------------------------------------------------------------
(* What is known of the blocks in the owner's hands: those of one backup   *)
(* are its single card, or shares of one split of its key.                 *)
BlocksOf(b) == {c \in cards : c.backup = b}
MadeAs(b) ==
  \/ backedUp[b] = NoKey /\ BlocksOf(b) = {}
  \/ backedUp[b] \in Bytes /\ BlocksOf(b) = {Card(b, backedUp[b])}
  \/ /\ backedUp[b] \in Bytes
     /\ \E coeffs \in Coefficients :
          /\ CanSplit(Len(coeffs) + 1, MaxShares)
          /\ BlocksOf(b) \subseteq Sheets(b, backedUp[b], coeffs, MaxShares)
CardsInv ==
  /\ \A c \in cards : c.backup \in Backups
  /\ DOMAIN backedUp = Backups
  /\ \A b \in Backups : MadeAs(b)

LEMMA SheetFacts ==
  ASSUME NEW b, NEW k, NEW coeffs \in Coefficients, NEW n \in 2..MaxShares
  PROVE  /\ Sheets(b, k, coeffs, n) \subseteq Sheets(b, k, coeffs, MaxShares)
         /\ \A c \in Sheets(b, k, coeffs, n) : c.backup = b /\ c.m = Len(coeffs) + 1
         /\ Len(coeffs) \in Nat
         /\ CanSplit(Len(coeffs) + 1, n) => CanSplit(Len(coeffs) + 1, MaxShares)
<1>1. Len(coeffs) \in Nat BY CustodyAssumption
<1>2. n \in Int /\ MaxShares \in Int /\ n <= MaxShares /\ MaxShares <= 255 BY CustodyAssumption
<1>3. 1..n \subseteq 1..MaxShares BY <1>2
<1>4. Sheets(b, k, coeffs, n) \subseteq Sheets(b, k, coeffs, MaxShares)
  BY <1>3 DEF Sheets, shamirSplit
<1>5. \A c \in Sheets(b, k, coeffs, n) : c.backup = b /\ c.m = Len(coeffs) + 1
  BY DEF Sheets, shamirSplit, Share
<1> QED BY <1>1, <1>2, <1>4, <1>5 DEF CanSplit

(* Shares of one split with the same index are the same share.             *)
LEMMA SameIndex ==
  ASSUME NEW b, NEW k, NEW coeffs, NEW n,
         NEW s \in Sheets(b, k, coeffs, n), NEW t \in Sheets(b, k, coeffs, n), s.x = t.x
  PROVE  s = t
BY DEF Sheets, shamirSplit, Share

LEMMA NoIndexZero ==
  ASSUME CombineExact, NEW b, NEW k, NEW coeffs, NEW s \in Sheets(b, k, coeffs, MaxShares)
  PROVE  s.x # Zero
BY DEF CombineExact, Sheets, shamirSplit, Share

(* The arithmetic that restore rests on (CombineExact), from the tables,   *)
(* for every secret, all coefficients and every choice of shares: backup's *)
(* promise that any m of the n cards restore the key (backup.go:91-94,     *)
(* shamir.go:3-5).                                                         *)
THEOREM SharesCombineExact == ASSUME TablesExact PROVE CombineExact
<1>1. \A i \in 1..255 : Byte(i) # Zero /\ Byte(i) \in Bytes
  BY IndexFacts DEF NonZero
<1>2. MaxShares \in Nat /\ 1..MaxShares \subseteq 1..255 BY CustodyAssumption
<1>3. ASSUME NEW b \in Backups, NEW k \in Bytes, NEW coeffs \in Coefficients,
             NEW input \in [1..Len(coeffs) + 1 -> Sheets(b, k, coeffs, MaxShares)],
             CanCombine(input)
      PROVE  shamirCombine(input) = k
  <2> DEFINE m == Len(coeffs) + 1  q == <<k>> \o coeffs  sheets == Sheets(b, k, coeffs, MaxShares)
  <2>1. coeffs \in Seq(Bytes) /\ Len(coeffs) \in Nat BY CustodyAssumption
  <2>2. m \in Nat \ {0} BY <2>1
  <2>3. q \in [1..m -> Bytes] /\ q[1] = k
    <3>1. coeffs \in [1..Len(coeffs) -> Bytes] BY <2>1
    <3> QED BY <2>1, <3>1, Prepended
  <2>4. ASSUME NEW s \in sheets PROVE s.x \in Bytes /\ s.y = evalPoly(q, s.x)
    <3>1. PICK i \in 1..MaxShares : s.x = Byte(i) /\ s.y = evalPoly(q, Byte(i))
      BY DEF Sheets, shamirSplit, Share
    <3> QED BY <1>1, <1>2, <3>1
  <2> HIDE DEF m, q, sheets
  <2>5. input \in Seq(sheets) /\ Len(input) = m
    <3>1. input \in [1..m -> sheets] BY DEF m, sheets
    <3> QED BY <2>2, <3>1
  <2>6. \A i \in Places(input) : input[i] \in sheets BY <2>5 DEF Places
  <2>7. \A i \in Places(input) : input[i].x \in Bytes /\ input[i].y = evalPoly(q, input[i].x)
    BY <2>4, <2>6
  <2>8. Len(input) >= m BY <2>2, <2>5
  <2> QED BY <1>3, <2>2, <2>3, <2>5, <2>7, <2>8, SharesCombine
<1> QED BY <1>1, <1>2, <1>3 DEF CombineExact

(* What an owner pastes is a sequence of blocks they hold and of mistyped  *)
(* ones.                                                                   *)
LEMMA InputFacts ==
  ASSUME NEW input \in Inputs
  PROVE  /\ input \in Seq(cards \cup {Mistyped}) /\ Len(input) >= 1
         /\ DOMAIN input = 1..Len(input)
         /\ Attempt(input).from # {}
         /\ IsFiniteSet(Attempt(input).from)
<1>1. PICK n \in 1..MaxPaste : input \in [1..n -> cards \cup {Mistyped}] BY DEF Inputs
<1>2. n \in Nat /\ n >= 1 BY <1>1, CustodyAssumption
<1>3. input \in Seq(cards \cup {Mistyped}) /\ Len(input) = n /\ DOMAIN input = 1..n BY <1>1, <1>2
<1>4. Attempt(input).from = {input[i].backup : i \in 1..n} BY <1>3 DEF Attempt, Range
<1>5. Attempt(input).from # {} BY <1>2, <1>4
<1>6. IsFiniteSet(Attempt(input).from)
  <2> DEFINE f == [i \in 1..n |-> input[i].backup]
  <2>1. f \in Surjection(1..n, Attempt(input).from) BY <1>4 DEF Surjection
  <2>2. IsFiniteSet(1..n) BY <1>2, FS_Interval
  <2> QED BY <2>1, <2>2, FS_Surjection
<1> QED BY <1>2, <1>3, <1>5, <1>6

(* Blocks that all name one backup are all its own.                        *)
LEMMA OwnBlocks ==
  ASSUME CardsInv, NEW input \in Inputs, Mistyped \notin Range(input),
         NEW b, Attempt(input).from = {b}
  PROVE  b \in Backups /\ \A i \in DOMAIN input : input[i] \in BlocksOf(b)
<1>1. \A i \in DOMAIN input : input[i] \in cards BY InputFacts DEF Range
<1>2. \A i \in DOMAIN input : input[i].backup = b BY DEF Attempt, Range
<1>3. 1 \in DOMAIN input BY InputFacts
<1> QED BY <1>1, <1>2, <1>3 DEF BlocksOf, CardsInv

LEMMA FirstFacts ==
  ASSUME NEW input \in Inputs, NEW S, \A i \in DOMAIN input : input[i] \in S,
         NEW m \in Nat, input[1].m = m, m <= Len(input)
  PROVE  First(input) \in [1..m -> S] /\ \A i \in 1..m : First(input)[i] = input[i]
<1>1. /\ input \in Seq(S) /\ Len(input) \in Nat
      /\ \A i \in 1..m : input[i] \in S
  BY InputFacts
<1>2. /\ SubSeq(input, 1, m) \in Seq(S) /\ Len(SubSeq(input, 1, m)) = m
      /\ \A i \in 1..m : SubSeq(input, 1, m)[i] = input[i]
  BY <1>1, SubSeqProperties
<1>3. \A s \in Seq(S) : Len(s) = m => s \in [1..m -> S] OBVIOUS
<1> QED BY <1>2, <1>3 DEF First

(* One backup's blocks give its key or nothing.                            *)
LEMMA RecoveredOwn ==
  ASSUME CombineExact, CardsInv, NEW input \in Inputs,
         NEW b, Attempt(input).from = {b}, Recovered(input) # NoKey
  PROVE  b \in Backups /\ backedUp[b] \in Bytes /\ Recovered(input) = backedUp[b]
<1>1. Mistyped \notin Range(input) BY DEF Recovered
<1>2. b \in Backups /\ \A i \in DOMAIN input : input[i] \in BlocksOf(b) BY <1>1, OwnBlocks
<1>3. 1 \in DOMAIN input BY InputFacts
<1>4. MadeAs(b) /\ BlocksOf(b) # {} BY <1>2, <1>3 DEF CardsInv
<1>5. CASE BlocksOf(b) = {Card(b, backedUp[b])}
  <2>1. \A i \in DOMAIN input : input[i] = Card(b, backedUp[b]) BY <1>2, <1>5
  <2>2. \A i \in DOMAIN input : IsCard(input[i]) /\ input[i].y = backedUp[b] BY <2>1 DEF IsCard, Card
  <2>3. FirstCard(input) \in DOMAIN input BY <1>3, <2>2, InputFacts DEF FirstCard
  <2>4. Recovered(input) = backedUp[b] BY <1>1, <1>3, <2>2, <2>3 DEF Recovered, OpenCard
  <2> QED BY <1>2, <1>4, <1>5, <2>4 DEF MadeAs
<1>6. ASSUME backedUp[b] \in Bytes, NEW coeffs \in Coefficients,
             CanSplit(Len(coeffs) + 1, MaxShares),
             BlocksOf(b) \subseteq Sheets(b, backedUp[b], coeffs, MaxShares)
      PROVE  Recovered(input) = backedUp[b]
  <2> DEFINE m == Len(coeffs) + 1
             sheets == Sheets(b, backedUp[b], coeffs, MaxShares)
  <2>1. MaxShares \in 2..MaxShares BY CustodyAssumption
  <2>2. Len(coeffs) \in Nat /\ \A c \in sheets : c.m = m BY <2>1, SheetFacts
  <2>3. m \in Nat /\ m >= 2 BY <1>6, <2>2 DEF CanSplit
  <2>4. \A i \in DOMAIN input : input[i] \in sheets /\ input[i].m = m
    BY <1>2, <1>6, <2>2
  <2>5. \A i \in DOMAIN input : ~IsCard(input[i]) BY <2>3, <2>4 DEF IsCard
  <2>6. ~(Len(input) < m) /\ CanCombine(First(input)) /\ Recovered(input) = shamirCombine(First(input))
    BY <1>1, <1>3, <2>4, <2>5 DEF Recovered
  <2>7. m <= Len(input) BY <2>3, <2>6, InputFacts
  <2>8. First(input) \in [1..m -> sheets]
    <3> HIDE DEF m, sheets
    <3> QED BY <1>3, <2>3, <2>4, <2>7, FirstFacts
  <2> QED BY <1>2, <1>6, <2>6, <2>8 DEF CombineExact
<1> QED BY <1>2, <1>4, <1>5, <1>6 DEF MadeAs

(* Enough of its shares give it.                                           *)
LEMMA RecoveredEnough ==
  ASSUME CombineExact, CardsInv, NEW input \in Inputs, Enough(input)
  PROVE  Recovered(input) # NoKey
<1>1. PICK b : Attempt(input).from = {b}
  BY InputFacts, FS_Singleton DEF Enough, Attempt
<1>2. Mistyped \notin Range(input) /\ (\A i \in DOMAIN input : ~IsCard(input[i])) /\ IsInjective(input)
  BY DEF Enough
<1>3. b \in Backups /\ \A i \in DOMAIN input : input[i] \in BlocksOf(b) BY <1>1, <1>2, OwnBlocks
<1>4. 1 \in DOMAIN input BY InputFacts
<1>5. MadeAs(b) /\ BlocksOf(b) # {} BY <1>3, <1>4 DEF CardsInv
<1>6. BlocksOf(b) # {Card(b, backedUp[b])}
  <2>1. IsCard(Card(b, backedUp[b])) BY DEF IsCard, Card
  <2> QED BY <1>2, <1>3, <1>4, <2>1
<1>7. PICK coeffs \in Coefficients :
        /\ CanSplit(Len(coeffs) + 1, MaxShares)
        /\ BlocksOf(b) \subseteq Sheets(b, backedUp[b], coeffs, MaxShares)
  BY <1>5, <1>6 DEF MadeAs
<1>8. backedUp[b] \in Bytes BY <1>5, <1>6 DEF MadeAs
<1> DEFINE m == Len(coeffs) + 1
           sheets == Sheets(b, backedUp[b], coeffs, MaxShares)
<1>9. MaxShares \in 2..MaxShares BY CustodyAssumption
<1>10. m \in Nat /\ \A c \in sheets : c.m = m BY <1>9, SheetFacts
<1>11. \A i \in DOMAIN input : input[i] \in sheets /\ input[i].m = m BY <1>3, <1>7, <1>10
<1>12. Len(input) >= m BY <1>4, <1>11 DEF Enough
<1>13. First(input) \in [1..m -> sheets] /\ \A i \in 1..m : First(input)[i] = input[i]
  <2>1. m <= Len(input) BY <1>10, <1>12, InputFacts
  <2> HIDE DEF m, sheets
  <2> QED BY <2>1, <1>4, <1>10, <1>11, FirstFacts
<1>14. CanCombine(First(input))
  <2>1. DOMAIN First(input) = 1..m /\ 1..m \subseteq DOMAIN input
    BY <1>10, <1>12, <1>13, InputFacts
  <2>2. \A i \in 1..m : First(input)[i].x # Zero BY <1>13, NoIndexZero
  <2>3. ASSUME NEW i \in 1..m, NEW j \in 1..m, First(input)[i].x = First(input)[j].x PROVE i = j
    <3>1. First(input)[i] = First(input)[j] BY <1>13, <2>3, SameIndex
    <3>2. input[i] = input[j] BY <1>13, <3>1
    <3> QED BY <1>2, <2>1, <3>2 DEF IsInjective
  <2> QED BY <2>1, <2>2, <2>3 DEF CanCombine
<1>15. shamirCombine(First(input)) = backedUp[b]
  BY <1>3, <1>7, <1>8, <1>13, <1>14 DEF CombineExact
<1>16. ~(Len(input) < m) BY <1>10, <1>12, InputFacts
<1>17. Recovered(input) = backedUp[b] BY <1>2, <1>4, <1>11, <1>14, <1>15, <1>16 DEF Recovered
<1> QED BY <1>8, <1>17, CustodyAssumption DEF Stick!StickAssumption

-----------------------------------------------------------------------------
(* Backups are made once, so what was restored from one stays its key.     *)
LEMMA InitCards == ASSUME Init PROVE CardsInv /\ RestoreExact
BY DEF Init, CardsInit, CardsInv, RestoreExact, MadeAs, BlocksOf

LEMMA HeldBytes == Held \subseteq Bytes
BY DEF Held

LEMMA StepBackup ==
  ASSUME CardsInv, RestoreExact, NEW b \in Backups, NEW k \in Held, Split(b, k) \/ SingleCard(b, k)
  PROVE  CardsInv' /\ RestoreExact'
<1>1. backedUp[b] = NoKey /\ k \in Bytes /\ NoKey \notin Bytes
  BY HeldBytes, CustodyAssumption DEF Split, SingleCard, Stick!StickAssumption
<1>2. BlocksOf(b) = {} BY <1>1 DEF CardsInv, MadeAs, Card
<1>3. /\ backedUp' = [backedUp EXCEPT ![b] = k] /\ restored' = restored
      /\ DOMAIN backedUp' = Backups /\ backedUp'[b] = k
      /\ \A o \in Backups : o # b => backedUp'[o] = backedUp[o]
  BY DEF Split, SingleCard, CardsInv
<1>4. PICK new :
        /\ cards' = cards \cup new /\ \A c \in new : c.backup = b
        /\ \/ new = {Card(b, k)}
           \/ \E coeffs \in Coefficients : /\ CanSplit(Len(coeffs) + 1, MaxShares)
                                           /\ new \subseteq Sheets(b, k, coeffs, MaxShares)
  <2>1. CASE SingleCard(b, k)
    <3>1. Card(b, k).backup = b BY DEF Card
    <3> QED BY <2>1, <3>1 DEF SingleCard
  <2>2. CASE Split(b, k)
    <3>1. PICK coeffs \in Coefficients, n \in 2..MaxShares :
            CanSplit(Len(coeffs) + 1, n) /\ cards' = cards \cup Sheets(b, k, coeffs, n)
      BY <2>2 DEF Split
    <3>2. \A c \in Sheets(b, k, coeffs, n) : c.backup = b BY DEF Sheets, Share
    <3>3. Sheets(b, k, coeffs, n) \subseteq Sheets(b, k, coeffs, MaxShares) BY SheetFacts
    <3>4. CanSplit(Len(coeffs) + 1, MaxShares) BY <3>1, SheetFacts
    <3> QED BY <3>1, <3>2, <3>3, <3>4
  <2> QED BY <2>1, <2>2
<1>5. BlocksOf(b)' = new BY <1>2, <1>4 DEF BlocksOf
<1>6. MadeAs(b)' BY <1>1, <1>3, <1>4, <1>5 DEF MadeAs
<1>7. ASSUME NEW o \in Backups, o # b PROVE MadeAs(o)'
  <2>1. BlocksOf(o)' = BlocksOf(o) BY <1>4, <1>7 DEF BlocksOf
  <2>2. MadeAs(o) BY DEF CardsInv
  <2> QED BY <1>3, <1>7, <2>1, <2>2 DEF MadeAs
<1>8. CardsInv' BY <1>3, <1>4, <1>6, <1>7 DEF CardsInv
<1>9. RestoreExact'
  <2> SUFFICES ASSUME NEW r \in restored
               PROVE  /\ r.enough => r.key # NoKey
                      /\ r.key # NoKey /\ r.from \subseteq Backups /\ Cardinality(r.from) = 1 =>
                           \A o \in r.from : r.key = backedUp'[o]
    BY <1>3 DEF RestoreExact
  <2> QED BY <1>1, <1>3 DEF RestoreExact
<1> QED BY <1>8, <1>9

LEMMA StepRestore ==
  ASSUME CombineExact, CardsInv, RestoreExact, NEW input \in Inputs, Restore(input)
  PROVE  CardsInv' /\ RestoreExact'
<1>1. UNCHANGED <<cards, backedUp>> /\ restored' = restored \cup {Attempt(input)} BY DEF Restore
<1>2. CardsInv' BY <1>1 DEF CardsInv, MadeAs, BlocksOf
<1>3. Attempt(input).key = Recovered(input) /\ Attempt(input).enough = Enough(input) BY DEF Attempt
<1>4. Attempt(input).enough => Attempt(input).key # NoKey BY <1>3, RecoveredEnough
<1>5. ASSUME Attempt(input).key # NoKey, Cardinality(Attempt(input).from) = 1,
             NEW b \in Attempt(input).from
      PROVE  Attempt(input).key = backedUp[b]
  <2>1. Attempt(input).from = {b} BY <1>5, InputFacts, FS_Singleton
  <2> QED BY <1>3, <1>5, <2>1, RecoveredOwn
<1>6. RestoreExact' BY <1>1, <1>4, <1>5 DEF RestoreExact
<1> QED BY <1>2, <1>6

LEMMA StepCards ==
  ASSUME CombineExact, CardsInv, RestoreExact, [Next]_vars PROVE CardsInv' /\ RestoreExact'
<1>1. CASE Backup BY <1>1, StepBackup DEF Backup
<1>2. CASE UseCards BY <1>2, StepRestore DEF UseCards
<1>3. CASE UseStick \/ UNCHANGED vars
  <2>1. UNCHANGED <<cards, backedUp, restored>> BY <1>3 DEF UseStick, vars
  <2> QED BY <2>1 DEF CardsInv, MadeAs, BlocksOf, RestoreExact
<1> QED BY <1>1, <1>2, <1>3 DEF Next

LEMMA CardsInvariant == ASSUME CombineExact PROVE Spec => [](CardsInv /\ RestoreExact)
<1>1. Init => CardsInv /\ RestoreExact BY InitCards
<1>2. (CardsInv /\ RestoreExact) /\ [Next]_vars => (CardsInv /\ RestoreExact)' BY StepCards
<1> QED BY <1>1, <1>2, PTL DEF Spec

(* RestoreExact (backup.go:91-94, shamir.go:3-5): given enough shares of   *)
(* one backup restore gives its key, and from blocks of one backup never   *)
(* another, whatever other backups and restores there are.                 *)
THEOREM CustodyRestoreExact == ASSUME TablesExact PROVE Spec => []RestoreExact
<1>1. CombineExact BY SharesCombineExact
<1> QED BY <1>1, CardsInvariant, PTL

-----------------------------------------------------------------------------
(* A key that may come up: generated for the owner, or the sum of shares   *)
(* of several backups.  Every place a stick's key can come from holds such *)
(* a key only.                                                             *)
Known(k) == k \in made \/ \E r \in restored : r.key = k /\ Cardinality(r.from) > 1
KeysKnown ==
  /\ \A d \in Sticks : final[d] \in Usb!Whole => Known(final[d].key)
  /\ run.step # "idle" => Known(run.key)
  /\ keyFile \in Bytes => Known(keyFile)
  /\ \A b \in Backups : backedUp[b] \in Bytes => Known(backedUp[b])

LEMMA InitKnown == ASSUME Init PROVE KeysKnown
<1>1. Absent \notin Usb!Whole /\ Absent \notin Bytes /\ NoKey \notin Bytes
  BY CustodyAssumption DEF Stick!StickAssumption, Usb!Whole
<1> QED BY <1>1 DEF Init, Stick!Init, CardsInit, KeysKnown, Stick!Idle

LEMMA KnownStays ==
  ASSUME made \subseteq made', restored \subseteq restored', NEW k, Known(k) PROVE Known(k)'
BY DEF Known

LEMMA HeldKnown == ASSUME KeysKnown, NEW k \in Held PROVE Known(k) /\ k \in Bytes
BY DEF KeysKnown, Held, Stick!Unwraps, Stick!Whole, Usb!Whole

LEMMA BackupKnown == ASSUME KeysKnown, CardsInv, Backup PROVE KeysKnown'
<1>1. PICK b \in Backups, k \in Held : Split(b, k) \/ SingleCard(b, k) BY DEF Backup
<1>2. UNCHANGED <<final, run, made, keyFile, restored>> /\ backedUp' = [backedUp EXCEPT ![b] = k]
  BY <1>1 DEF Backup, Split, SingleCard
<1>3. \A o : Known(o)' <=> Known(o) BY <1>2 DEF Known
<1>4. \A o \in Backups : backedUp'[o] \in {backedUp[o], k} BY <1>2 DEF CardsInv
<1>5. \A o \in Backups : backedUp'[o] \in Bytes => Known(backedUp'[o])
  BY <1>4, HeldKnown DEF KeysKnown
<1> QED BY <1>2, <1>3, <1>5 DEF KeysKnown, Known

LEMMA RestoreKnown ==
  ASSUME CombineExact, KeysKnown, CardsInv, UseCards PROVE KeysKnown'
<1>1. PICK input \in Inputs : Restore(input) BY DEF UseCards
<1>2. UNCHANGED <<final, run, made, backedUp>> /\ restored' = restored \cup {Attempt(input)}
  BY <1>1 DEF UseCards, Restore
<1>3. \A k : Known(k) => Known(k)' BY <1>2, KnownStays
<1>4. ASSUME Recovered(input) \in Bytes PROVE Known(Recovered(input))'
  <2>1. Attempt(input).key = Recovered(input) /\ Attempt(input) \in restored'
    BY <1>2 DEF Attempt
  <2>2. CASE Cardinality(Attempt(input).from) > 1 BY <2>1, <2>2 DEF Known
  <2>3. CASE ~(Cardinality(Attempt(input).from) > 1)
    <3>1. /\ Cardinality(Attempt(input).from) \in Nat
          /\ Cardinality(Attempt(input).from) # 0
      BY InputFacts, FS_EmptySet, FS_CardinalityType
    <3>2. Cardinality(Attempt(input).from) = 1 BY <2>3, <3>1
    <3>3. PICK b : Attempt(input).from = {b} BY <3>2, InputFacts, FS_Singleton
    <3>4. Recovered(input) # NoKey BY <1>4, CustodyAssumption DEF Stick!StickAssumption
    <3>5. b \in Backups /\ backedUp[b] \in Bytes /\ Recovered(input) = backedUp[b]
      BY <3>3, <3>4, RecoveredOwn
    <3>6. Known(Recovered(input)) BY <3>5 DEF KeysKnown
    <3> QED BY <1>2, <3>6 DEF Known
  <2> QED BY <2>2, <2>3
<1>5. keyFile' \in {keyFile, Recovered(input), Torn} BY <1>1 DEF Restore
<1>6. Torn \notin Bytes BY CustodyAssumption DEF Stick!StickAssumption
<1> QED BY <1>2, <1>3, <1>4, <1>5, <1>6 DEF KeysKnown

(* usb init reads the key file and never writes it.                        *)
LEMMA StickFile == ASSUME UseStick PROVE UNCHANGED <<cards, backedUp, restored, keyFile>>
<1>1. Usb!Next BY SameNext DEF UseStick
<1> QED
  BY <1>1
  DEF UseStick, Usb!Next, Usb!InitResume, Usb!InitFrom, Usb!InitNew, Usb!CloneFrom, Usb!Pick,
      Usb!StoreState, Usb!Write, Usb!Sync, Usb!Link, Usb!Rename, Usb!Tidy, Usb!WriteFails,
      Usb!ReadBack, Usb!Stop, Usb!Unplug

LEMMA StickKnown == ASSUME Usb!IInv, KeysKnown, UseStick PROVE KeysKnown'
<1>1. Usb!StickAssumption BY CustodyAssumption DEF Stick!StickAssumption, Usb!StickAssumption
<1>2. Usb!Next /\ UNCHANGED <<cards, backedUp, restored, keyFile>>
  BY SameNext, StickFile DEF UseStick
<1>3. made \subseteq made'
  BY <1>2
  DEF Usb!Next, Usb!InitResume, Usb!InitFrom, Usb!InitNew, Usb!CloneFrom, Usb!Pick, Usb!StoreState,
      Usb!Write, Usb!Sync, Usb!Link, Usb!Rename, Usb!Tidy, Usb!WriteFails, Usb!ReadBack, Usb!Stop, Usb!Unplug
<1>4. \A k : Known(k) => Known(k)' BY <1>2, <1>3, KnownStays
<1>5. run \in Usb!RunType BY DEF Usb!IInv, Usb!SticksOK
<1>6. run'.step # "idle" => Known(run.key)'
  <2>1. ASSUME NEW d \in Sticks, Usb!InitResume(d) \/ Usb!CloneFrom(d) PROVE Known(run.key)'
    <3>1. Known(final[d].key) /\ run'.key = final[d].key
      BY <2>1 DEF Usb!InitResume, Usb!CloneFrom, Usb!Unwraps, KeysKnown
    <3> QED BY <1>4, <3>1 DEF Known
  <2>2. ASSUME NEW d \in Sticks, Usb!InitFrom(d) PROVE Known(run.key)'
    <3>1. Known(keyFile) /\ run'.key = keyFile BY <2>2 DEF Usb!InitFrom, KeysKnown
    <3> QED BY <1>4, <3>1 DEF Known
  <2>3. ASSUME NEW d \in Sticks, Usb!InitNew(d) PROVE Known(run.key)'
    BY <2>3 DEF Usb!InitNew, Known
  <2>4. ASSUME \/ \E d \in Sticks : Usb!Pick(d)
               \/ Usb!StoreState \/ Usb!Write \/ Usb!Sync \/ Usb!Link \/ Usb!Rename
               \/ Usb!Tidy \/ Usb!ReadBack
        PROVE  run'.step # "idle" => Known(run.key)'
    <3>1. run.step # "idle"
      BY <2>4
      DEF Usb!Pick, Usb!StoreState, Usb!Write, Usb!Sync, Usb!Link, Usb!Rename, Usb!Tidy,
          Usb!ReadBack, Usb!At
    <3>2. run'.key = run.key \/ run'.step = "idle"
      <4>1. CASE \E d \in Sticks : Usb!Pick(d) BY <1>5, <4>1 DEF Usb!Pick, Usb!RunType
      <4>2. CASE Usb!ReadBack BY <1>5, <4>2 DEF Usb!ReadBack, Usb!RunType, Usb!Idle
      <4>3. CASE Usb!StoreState \/ Usb!Write \/ Usb!Sync \/ Usb!Link \/ Usb!Rename \/ Usb!Tidy
        BY <1>5, <4>3
        DEF Usb!StoreState, Usb!Write, Usb!Sync, Usb!Link, Usb!Rename, Usb!Tidy, Usb!Go, Usb!RunType
      <4> QED BY <2>4, <4>1, <4>2, <4>3
    <3>3. Known(run.key) BY <3>1 DEF KeysKnown
    <3> QED BY <1>4, <3>2, <3>3 DEF Known
  <2>5. ASSUME Usb!WriteFails \/ Usb!Stop \/ \E d \in Sticks : Usb!Unplug(d) PROVE run'.step = "idle"
    BY <2>5 DEF Usb!WriteFails, Usb!Stop, Usb!Unplug, Usb!Idle
  <2> QED BY <1>2, <2>1, <2>2, <2>3, <2>4, <2>5 DEF Usb!Next
<1>7. \A d \in Sticks : final'[d] \in Usb!Whole => Known(final[d].key)'
  <2>1. CASE Usb!Link \/ Usb!Rename
    <3>1. /\ final' = [final EXCEPT ![run.stick] = [key |-> run.key, synced |-> TRUE]]
          /\ run.step = "link" /\ final \in [Sticks -> Usb!Files]
      BY <1>1, <2>1, Usb!Lands DEF Usb!IInv, Usb!SticksOK
    <3>2. Known(run.key) BY <3>1 DEF KeysKnown
    <3>3. \A d \in Sticks : final'[d] = final[d] \/ final'[d].key = run.key BY <3>1
    <3> QED BY <1>4, <3>2, <3>3 DEF KeysKnown, Known
  <2>2. CASE ~(Usb!Link \/ Usb!Rename)
    <3>1. \A d \in Sticks : Usb!Unplug(d) => final' = final BY <1>1, Usb!StepUnplug
    <3>2. final' = final
      BY <1>2, <2>2, <3>1
      DEF Usb!Next, Usb!InitResume, Usb!InitFrom, Usb!InitNew, Usb!CloneFrom, Usb!Pick, Usb!StoreState,
          Usb!Write, Usb!Sync, Usb!Tidy, Usb!WriteFails, Usb!ReadBack, Usb!Stop
    <3> QED BY <1>4, <3>2 DEF KeysKnown, Known
  <2> QED BY <2>1, <2>2
<1>8. (keyFile' \in Bytes => Known(keyFile)')
  BY <1>2, <1>4 DEF KeysKnown, Known
<1>9. \A b \in Backups : backedUp'[b] \in Bytes => Known(backedUp[b])'
  BY <1>2, <1>4 DEF KeysKnown, Known
<1> QED BY <1>6, <1>7, <1>8, <1>9 DEF KeysKnown, Known

LEMMA KnownInvariant ==
  ASSUME CombineExact PROVE Spec => [](Usb!IInv /\ CardsInv /\ KeysKnown)
<1>1. Init => KeysKnown BY InitKnown
<1>2. Usb!IInv /\ CardsInv /\ KeysKnown /\ [Next]_vars => KeysKnown'
  <2>1. UNCHANGED vars /\ KeysKnown => KeysKnown' BY DEF vars, KeysKnown, Known
  <2> QED BY <2>1, BackupKnown, RestoreKnown, StickKnown DEF Next
<1> QED BY <1>1, <1>2, SticksInvariant, CardsInvariant, PTL DEF Spec

(* OwnKeyOrRefused (usbvault.go:206-225, backup.go:164-193): along sticks, *)
(* backups, pasted blocks, the key file and sticks again, no stick is      *)
(* reported ready with a key that is nobody's, shares of several backups   *)
(* in one restore apart.                                                   *)
THEOREM CustodyOwnKey == ASSUME TablesExact PROVE Spec => []OwnKeyOrRefused
<1>0. CombineExact BY SharesCombineExact
<1>1. Usb!IInv /\ KeysKnown => OwnKeyOrRefused
  <2> SUFFICES ASSUME Usb!IInv, KeysKnown, NEW x \in ready PROVE Known(x.key)
    BY DEF OwnKeyOrRefused, Known
  <2>1. x.stick \in Sticks /\ x.key \in Bytes BY DEF Usb!IInv, Usb!SticksOK
  <2>2. final[x.stick] = [key |-> x.key, synced |-> TRUE] BY DEF Usb!IInv, Usb!ReadyForGood
  <2>3. final[x.stick] \in Usb!Whole /\ final[x.stick].key = x.key BY <2>1, <2>2 DEF Usb!Whole
  <2> QED BY <2>1, <2>3 DEF KeysKnown
<1> QED BY <1>0, <1>1, KnownInvariant, PTL

-----------------------------------------------------------------------------
(* Types.  What restore makes of any blocks is a key or a refusal.         *)
LEMMA SheetType ==
  ASSUME TablesExact, NEW b \in Backups, NEW k \in Bytes, NEW coeffs \in Coefficients,
         NEW n \in 2..MaxShares, CanSplit(Len(coeffs) + 1, n)
  PROVE  Sheets(b, k, coeffs, n) \subseteq Blocks
<1> DEFINE m == Len(coeffs) + 1  q == <<k>> \o coeffs
<1>1. \A i \in 1..255 : Byte(i) \in Bytes BY IndexFacts
<1>2. n \in Int /\ MaxShares \in Int /\ n <= MaxShares /\ MaxShares <= 255 /\ 1..n \subseteq 1..255
  BY CustodyAssumption
<1>3. coeffs \in Seq(Bytes) /\ Len(coeffs) \in Nat BY CustodyAssumption
<1>4. m \in Nat /\ m \in 0..MaxShares BY <1>2, <1>3 DEF CanSplit
<1>5. q \in [1..m -> Bytes]
  <2>1. coeffs \in [1..Len(coeffs) -> Bytes] BY <1>3
  <2> QED BY <1>3, <2>1, Prepended
<1> HIDE DEF m, q
<1>6. \A i \in 1..n : evalPoly(q, Byte(i)) \in Bytes BY <1>1, <1>2, <1>4, <1>5, EvalPolyType
<1>7. ASSUME NEW c \in Sheets(b, k, coeffs, n) PROVE c \in Blocks
  <2>1. PICK i \in 1..n : c = [backup |-> b, x |-> Byte(i), m |-> m, y |-> evalPoly(q, Byte(i))]
    BY DEF Sheets, shamirSplit, Share, m, q
  <2> QED BY <1>1, <1>2, <1>4, <1>6, <2>1 DEF Blocks
<1> QED BY <1>7

(* The first single card is found.                                         *)
LEMMA FirstCardIn ==
  ASSUME NEW input \in Inputs, \E i \in DOMAIN input : IsCard(input[i])
  PROVE  FirstCard(input) \in DOMAIN input
<1> DEFINE s == {i \in 1..Len(input) : IsCard(input[i])}
<1>1. Len(input) \in Nat /\ DOMAIN input = 1..Len(input) BY InputFacts
<1>2. s \in SUBSET (1..Len(input)) /\ s # {} BY <1>1
<1>3. Min(s) \in s /\ \A y \in s : Min(s) <= y
  <2> HIDE DEF s
  <2> QED BY <1>1, <1>2, MaxMinIn
<1>4. \A j \in 1..Min(s)-1 : ~IsCard(input[j])
  <2> SUFFICES ASSUME NEW j \in 1..Min(s)-1, IsCard(input[j]) PROVE FALSE OBVIOUS
  <2>1. Min(s) \in 1..Len(input) BY <1>3
  <2>2. j \in 1..Len(input) /\ ~(Min(s) <= j)
    <3> HIDE DEF s
    <3> QED BY <1>1, <2>1
  <2>3. j \in s BY <2>2
  <2> HIDE DEF s
  <2> QED BY <1>3, <2>2, <2>3
<1>5. Min(s) \in DOMAIN input /\ IsCard(input[Min(s)]) BY <1>1, <1>3
<1> HIDE DEF s
<1> QED BY <1>4, <1>5 DEF FirstCard

(* The card's key, or a combination of well-formed shares.                 *)
LEMMA RecoveredType ==
  ASSUME TablesExact, cards \subseteq Blocks, NEW input \in Inputs
  PROVE  Recovered(input) \in Bytes \cup {NoKey}
<1> SUFFICES ASSUME Recovered(input) # NoKey PROVE Recovered(input) \in Bytes
  OBVIOUS
<1>1. Mistyped \notin Range(input) BY DEF Recovered
<1>2. /\ Len(input) \in Nat /\ Len(input) >= 1 /\ DOMAIN input = 1..Len(input) /\ 1 \in DOMAIN input
      /\ \A i \in DOMAIN input : input[i] \in Blocks
  <2>1. \A i \in DOMAIN input : input[i] \in cards BY <1>1, InputFacts DEF Range
  <2> QED BY <2>1, InputFacts
<1>3. CASE \E i \in DOMAIN input : IsCard(input[i])
  <2>1. Recovered(input) = input[FirstCard(input)].y BY <1>1, <1>3 DEF Recovered, OpenCard
  <2>2. FirstCard(input) \in DOMAIN input BY <1>3, FirstCardIn
  <2> QED BY <1>2, <2>1, <2>2 DEF Blocks
<1>4. CASE ~ \E i \in DOMAIN input : IsCard(input[i])
  <2> DEFINE m == input[1].m  shares == First(input)
  <2>1. /\ ~(Len(input) < m) /\ CanCombine(shares)
        /\ Recovered(input) = shamirCombine(shares)
    BY <1>1, <1>4 DEF Recovered
  <2>2. m \in Nat /\ m # 0 BY <1>2, <1>4, CustodyAssumption DEF Blocks, IsCard
  <2>3. m <= Len(input) BY <1>2, <2>1, <2>2
  <2>4. shares \in [1..m -> Blocks]
    <3> HIDE DEF m
    <3> QED BY <1>2, <2>2, <2>3, FirstFacts DEF m
  <2> HIDE DEF m, shares
  <2>5. shares \in Seq(Blocks) /\ Len(shares) = m BY <2>2, <2>4
  <2>6. shares # <<>> BY <2>2, <2>5
  <2>7. \A i \in Places(shares) : shares[i] \in Blocks BY <2>5 DEF Places
  <2>8. \A i \in Places(shares) : shares[i].x \in Bytes /\ shares[i].y \in Bytes
    BY <2>7 DEF Blocks
  <2> QED BY <2>1, <2>5, <2>6, <2>8, CombineType
<1> QED BY <1>3, <1>4

(* Every command keeps the cards and the key file well formed.             *)
LEMMA StepTypes == ASSUME TablesExact, CardsOK, [Next]_vars PROVE CardsOK'
<1>1. CASE Backup
  <2>1. PICK b \in Backups, k \in Held : Split(b, k) \/ SingleCard(b, k) BY <1>1 DEF Backup
  <2>2. k \in Bytes BY HeldBytes
  <2>3. keyFile' = keyFile /\ backedUp' = [backedUp EXCEPT ![b] = k]
    BY <2>1 DEF Split, SingleCard
  <2>4. cards' \subseteq Blocks
    <3>1. CASE SingleCard(b, k)
      <4>1. Zero \in Bytes /\ 0 \in 0..MaxShares BY LogFacts, CustodyAssumption
      <4>2. Card(b, k) \in Blocks BY <2>2, <4>1 DEF Card, Blocks
      <4> QED BY <3>1, <4>2 DEF SingleCard, CardsOK
    <3>2. CASE Split(b, k) BY <2>2, <3>2, SheetType DEF Split, CardsOK
    <3> QED BY <2>1, <3>1, <3>2
  <2> QED BY <2>2, <2>3, <2>4 DEF CardsOK
<1>2. CASE UseCards
  <2>1. PICK input \in Inputs : Restore(input) BY <1>2 DEF UseCards
  <2>2. Recovered(input) \in Bytes \cup {NoKey} BY RecoveredType DEF CardsOK
  <2> QED BY <2>1, <2>2 DEF Restore, CardsOK
<1>3. CASE UseStick BY <1>3, StickFile DEF CardsOK
<1>4. CASE UNCHANGED vars BY <1>4 DEF vars, CardsOK
<1> QED BY <1>1, <1>2, <1>3, <1>4 DEF Next

(* TypeOK: what restore makes of whatever blocks it is given is one byte   *)
(* or a refusal, and the cards, the key file and the sticks stay well      *)
(* formed through every command.                                           *)
THEOREM CustodyTypeOK == ASSUME TablesExact PROVE Spec => []TypeOK
<1>1. Init => CardsOK BY DEF Init, CardsInit, CardsOK
<1>2. CardsOK /\ [Next]_vars => CardsOK' BY StepTypes
<1>3. Usb!IInv /\ CardsOK => TypeOK
  BY DEF Usb!IInv, Usb!SticksOK, TypeOK, CardsOK, Stick!TypeOK, Stick!SticksOK, Usb!Files,
     Stick!Files, Usb!Whole, Stick!Whole, Usb!RunType, Stick!RunType, Usb!Steps, Stick!Steps
<1> QED BY <1>1, <1>2, <1>3, SticksInvariant, PTL DEF Spec
=============================================================================
