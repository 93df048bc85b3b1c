------------------------------ MODULE Recovery ------------------------------
(***************************************************************************)
(* Recovery cards: p3sig backup and p3sig restore (backup.go).  A key is   *)
(* one byte.  A backup makes a single card or a split of the key; restore  *)
(* is given blocks in any order, of several backups perhaps, some of them  *)
(* mistyped, and writes the key file.  The passphrase of a card is not     *)
(* modelled: a wrong one is a restore not done.                            *)
(***************************************************************************)
EXTENDS Shamir

CONSTANTS Backups,        \* names of backups made
          Coefficients,   \* what the random bytes of a split may be
          MaxShares,      \* bound on N
          MaxPaste,       \* bound on the blocks given to one restore
          MaxRestores,    \* bound on the restores done
          Absent, Torn, NoKey

VARIABLES cards,      \* the blocks in the owner's hands
          backedUp,   \* backedUp[b]: the key of backup b, NoKey if not made
          keyFile,    \* the file restore writes
          restored    \* history: what each restore was given, and its outcome

cardVars == <<cards, backedUp, keyFile, restored>>

Share(b, s) == [backup |-> b, x |-> s.x, m |-> s.m, y |-> s.y]
Card(b, k) == [backup |-> b, x |-> Zero, m |-> 0, y |-> k]
IsCard(block) == block.m = 0
Mistyped == [backup |-> "mistyped", x |-> Zero, m |-> 0, y |-> Zero]
Blocks == [backup : Backups, x : Bytes, m : 0..MaxShares, y : Bytes]

CardsInit ==
  /\ cards = {} /\ restored = {}
  /\ backedUp = [b \in Backups |-> NoKey]
  /\ keyFile = Absent

(* p3sig backup --split M-of-N, and p3sig backup.                          *)
Sheets(b, k, coeffs, n) == {Share(b, s) : s \in shamirSplit(k, coeffs, n)}
Split(b, k) ==
  /\ backedUp[b] = NoKey
  /\ \E coeffs \in Coefficients, n \in 2..MaxShares :
       /\ CanSplit(Len(coeffs) + 1, n)
       /\ cards' = cards \cup Sheets(b, k, coeffs, n)
  /\ backedUp' = [backedUp EXCEPT ![b] = k]
  /\ UNCHANGED <<keyFile, restored>>

SingleCard(b, k) ==
  /\ backedUp[b] = NoKey
  /\ cards' = cards \cup {Card(b, k)}
  /\ backedUp' = [backedUp EXCEPT ![b] = k]
  /\ UNCHANGED <<keyFile, restored>>

(* extractBlocks: one block that fails its checksum ends the restore.  The *)
(* first single card wins; without one, all blocks are shares, and the     *)
(* first are combined, as many as the first one says.                      *)
FirstCard(input) ==
  CHOOSE i \in DOMAIN input : IsCard(input[i]) /\ \A j \in 1..i-1 : ~IsCard(input[j])
OpenCard(block) == block.y
FirstFewMutant(input) == SubSeq(input, 1, 2)
First(input) == SubSeq(input, 1, input[1].m)
Recovered(input) ==
  IF Mistyped \in Range(input) THEN NoKey
  ELSE IF \E i \in DOMAIN input : IsCard(input[i]) THEN OpenCard(input[FirstCard(input)])
  ELSE IF Len(input) < input[1].m THEN NoKey
  ELSE IF ~CanCombine(First(input)) THEN NoKey
  ELSE shamirCombine(First(input))

(* Enough shares of one backup, none twice: what restore asks for.         *)
Enough(input) ==
  /\ Mistyped \notin Range(input) /\ \A i \in DOMAIN input : ~IsCard(input[i])
  /\ IsInjective(input)
  /\ Cardinality({block.backup : block \in Range(input)}) = 1
  /\ Len(input) >= input[1].m

Inputs == UNION {[1..n -> cards \cup {Mistyped}] : n \in 1..MaxPaste}

Attempt(input) ==
  [from |-> {block.backup : block \in Range(input)}, enough |-> Enough(input),
   key |-> Recovered(input)]

(* p3sig restore: the key file is written in place.                        *)
RestoreMutant(input) ==   \* mutant: the error of the decoding is overlooked
  /\ Cardinality(restored) < MaxRestores
  /\ restored' = restored \cup {Attempt(input)}
  /\ keyFile' \in {Recovered(input), Torn}
  /\ UNCHANGED <<cards, backedUp>>
Restore(input) ==
  /\ Cardinality(restored) < MaxRestores
  /\ restored' = restored \cup {Attempt(input)}
  /\ IF Recovered(input) = NoKey THEN UNCHANGED keyFile
     ELSE keyFile' \in {Recovered(input), Torn}
  /\ UNCHANGED <<cards, backedUp>>

(* CombineExact: what restore rests on in the arithmetic.  Any m different *)
(* shares of a key combine to it (shamir.go:3-5), and no share is made for *)
(* index zero, the secret itself.  It follows from TablesExact.            *)
CombineExact ==
  /\ \A i \in 1..MaxShares : Byte(i) # Zero
  /\ \A b \in Backups, k \in Bytes, coeffs \in Coefficients :
       CanSplit(Len(coeffs) + 1, MaxShares) =>
         \A input \in [1..Len(coeffs) + 1 -> Sheets(b, k, coeffs, MaxShares)] :
           CanCombine(input) => shamirCombine(input) = k

CardsOK ==
  /\ cards \subseteq Blocks
  /\ backedUp \in [Backups -> Bytes \cup {NoKey}]
  /\ keyFile \in Bytes \cup {Absent, Torn}

(* RestoreExact: given enough shares of one backup, in any order, restore  *)
(* gives its key; given blocks of one backup, it gives that key or refuses,*)
(* never another key (backup.go:91-94, shamir.go:3-5).                     *)
RestoreExact ==
  \A r \in restored :
    /\ r.enough => r.key # NoKey
    /\ r.key # NoKey /\ r.from \subseteq Backups /\ Cardinality(r.from) = 1 =>
         \A b \in r.from : r.key = backedUp[b]
=============================================================================
