------------------------------- MODULE Uint256 -------------------------------
(***************************************************************************)
(* The multi-word unsigned integers of package fieldElements: Uint256 is   *)
(* four 64-bit words, low word first, and Uint512 is eight of them.  The   *)
(* module keeps the words and the carries between them; a word has         *)
(* WordBits bits instead of 64.                                            *)
(*                                                                         *)
(* bits.Add64, bits.Sub64 and bits.Mul64 are single-word operations: a     *)
(* chain of Add64 that passes the carry on adds in a window of words, and  *)
(* the carry out of the last word of the chain is lost.                    *)
(***************************************************************************)
EXTENDS Integers, FiniteSets, Sequences, SequencesExt

CONSTANT WordBits

ASSUME WordBitsAssumption == WordBits \in Nat \ {0}

W == 2^WordBits                  \* the number of values of a word
Two256 == W^4                    \* the values of a Uint256

\* What the definition of exponentiation says of the powers of 2 up to 2^256
\* and of W up to seven words.  (The provers do not know the definition.)
ASSUME PowersAssumption ==
  /\ 2^0 = 1 /\ \A n \in 0..4*WordBits-1 : 2^(n + 1) = 2 * 2^n
  /\ W^0 = 1 /\ \A n \in 0..6 : W^(n + 1) = W * W^n

Word == 0..W-1
Words == [0..3 -> Word]          \* Uint256
DoubleWords == [0..7 -> Word]    \* Uint512

\* The integer n as n words; the integer that words stand for.
ToWords(x, n) == [i \in 0..n-1 |-> (x \div W^i) % W]
ToInt(z) ==
  LET low[i \in 0..8] == IF i = 0 \/ i - 1 \notin DOMAIN z THEN 0
                         ELSE low[i-1] + z[i-1] * W^(i-1)
  IN  low[Cardinality(DOMAIN z)]

----------------------------------------------------------------------------
(* Sums, differences and comparisons. *)

\* The carries of a chain of bits.Add64 over the words lo..hi.
Carries(x, y, lo, hi) ==
  LET carry[i \in lo..hi+1] ==
        IF i = lo THEN 0 ELSE (x[i-1] + y[i-1] + carry[i-1]) \div W
  IN  carry

\* The borrows of a chain of bits.Sub64 over the four words.
Borrows(x, y) ==
  LET borrow[i \in 0..4] ==
        IF i = 0 \/ x[i-1] - y[i-1] - borrow[i-1] >= 0 THEN 0 ELSE 1
  IN  borrow

(* Mutant: the carry into the last word of the window is lost. *)
AddIntoMutant(q, lo, hi, t) ==
  LET carry == Carries(q, t, lo, hi)
  IN  [i \in DOMAIN q |->
         IF i \in lo..hi THEN (q[i] + t[i] + IF i = hi THEN 0 ELSE carry[i]) % W ELSE q[i]]

\* q with t added in the words lo..hi; the carry out of word hi is lost.
AddInto(q, lo, hi, t) ==
  LET carry == Carries(q, t, lo, hi)
  IN  [i \in DOMAIN q |-> IF i \in lo..hi THEN (q[i] + t[i] + carry[i]) % W ELSE q[i]]

AddAndReturnCarry(x, y) ==
  [sum |-> AddInto(x, 0, 3, y), carry |-> Carries(x, y, 0, 3)[4]]

SubAndReturnBorrow(x, y) ==
  LET borrow == Borrows(x, y)
  IN  [difference |-> [i \in 0..3 |-> (x[i] - y[i] - borrow[i]) % W],
       borrow |-> borrow[4]]

Add(x, y) == AddAndReturnCarry(x, y).sum
Sub(x, y) == SubAndReturnBorrow(x, y).difference

Zero == [i \in 0..3 |-> 0]
One == [i \in 0..3 |-> IF i = 0 THEN 1 ELSE 0]

Increment(x) == Add(x, One)
Decrement(x) == Sub(x, One)

IsZero(z) == \A i \in 0..3 : z[i] = 0
\* z[0]-1 wraps around: it is 0 for the word 1 only.
IsOne(z) == (z[0] - 1) % W = 0 /\ \A i \in 1..3 : z[i] = 0

\* The highest word that differs decides.
Cmp(z, x) ==
  LET differing == {i \in 0..3 : z[i] # x[i]}
      top == CHOOSE i \in differing : \A j \in differing : j <= i
  IN  IF differing = {} THEN 0 ELSE IF z[top] < x[top] THEN -1 ELSE 1

IsLessThan(z, x) == Cmp(z, x) = -1

----------------------------------------------------------------------------
(* Shifts and bit lengths. *)

ShiftRightEq_64(z) == [i \in 0..3 |-> IF i = 3 THEN 0 ELSE z[i+1]]
ShiftLeftEq_64(z) == [i \in 0..3 |-> IF i = 0 THEN 0 ELSE z[i-1]]

\* The low amount bits of the next word become the high bits of a word; in
\* Go a shift of a word by its whole width gives 0.
ShiftRightEq(z, amount) ==
  [i \in 0..3 |-> z[i] \div 2^amount
                  + IF i = 3 THEN 0 ELSE (z[i+1] * 2^(WordBits - amount)) % W]

\* bits.Len64 and bits.TrailingZeros64 of a word.
Len64(w) == CHOOSE l \in 0..WordBits : w < 2^l /\ (l = 0 \/ w >= 2^(l-1))
TrailingZeros64(w) ==
  CHOOSE l \in 0..WordBits : w % 2^l = 0 /\ (l = WordBits \/ w % 2^(l+1) # 0)

BitLen(z) ==
  LET used == {i \in 0..3 : z[i] # 0}
      top == CHOOSE i \in used : \A j \in used : j <= i
  IN  IF used = {} THEN 0 ELSE Len64(z[top]) + top * WordBits

----------------------------------------------------------------------------
(* Products.  p[i] is a double-word product whose low word goes to word i. *)

PlaceProducts(p) ==
  [i \in 0..7 |-> IF i \in DOMAIN p THEN p[i] % W
                  ELSE IF i - 1 \in DOMAIN p THEN p[i-1] \div W ELSE 0]

\* Row i of the schoolbook multiplication: first the products with the odd
\* words of x, then those with the even ones, each in one chain.
LongMulRow(q, i, x, y) ==
  LET odd == [p \in {i+1, i+3} |-> y[i] * x[p-i]]
      even == [p \in {i, i+2} |-> y[i] * x[p-i]]
  IN  AddInto(AddInto(q, i+1, i+4, PlaceProducts(odd)), i, i+4, PlaceProducts(even))

LongMul(x, y) ==
  LET row0 == LongMulRow([i \in 0..7 |-> 0], 0, x, y)
      row1 == LongMulRow(row0, 1, x, y)
      row2 == LongMulRow(row1, 2, x, y)
  IN  LongMulRow(row2, 3, x, y)

\* The products of different words are added once and doubled.
LongSquare(x) ==
  LET far == AddInto(PlaceProducts([p \in {3} |-> x[0] * x[3]]), 2, 5,
                     PlaceProducts([p \in {2, 4} |-> x[p \div 2 - 1] * x[p \div 2 + 1]]))
      cross == AddInto(far, 1, 6, PlaceProducts([p \in {1, 3, 5} |->
                                                   x[(p-1) \div 2] * x[(p+1) \div 2]]))
      doubled == AddInto(cross, 1, 7, cross)
  IN  AddInto(doubled, 0, 7, PlaceProducts([p \in {0, 2, 4, 6} |-> x[p \div 2] * x[p \div 2]]))

\* x times a word: the low words of the products plus their high words, one
\* word further up.
LongMulUint64(x, y) ==
  LET low == [i \in 0..4 |-> IF i = 4 THEN 0 ELSE (x[i] * y) % W]
      high == [i \in 0..4 |-> IF i = 0 THEN 0 ELSE (x[i-1] * y) \div W]
  IN  AddInto(low, 1, 4, high)

\* The product modulo 2^256: whatever passes word 3 is not computed.
Mul(x, y) ==
  LET q0 == LongMulUint64(y, x[0])
      q1 == AddInto(q0, 1, 3, PlaceProducts([p \in {1, 3} |-> x[1] * y[p-1]]))
      q2 == AddInto(q1, 2, 3, PlaceProducts([p \in {2} |-> x[1] * y[1]]))
      q3 == AddInto(q2, 2, 3, PlaceProducts([p \in {2} |-> x[2] * y[0]]))
      q4 == AddInto(q3, 3, 3, PlaceProducts([p \in {3} |-> x[2] * y[1]]))
      q5 == AddInto(q4, 3, 3, PlaceProducts([p \in {3} |-> x[3] * y[0]]))
  IN  [i \in 0..3 |-> q5[i]]

----------------------------------------------------------------------------
(* Conversions: to a Uint512, back (which panics when a high word is set)  *)
(* and from a big.Int (which panics when it is negative or too long).      *)

Uint512SetUint256(x) == [i \in 0..7 |-> IF i < 4 THEN x[i] ELSE 0]
Uint512ToUint256Panics(z) == \E i \in 4..7 : z[i] # 0
Uint512ToUint256(z) == [i \in 0..3 |-> z[i]]
BigIntToUint512Panics(n) == n < 0 \/ n >= W^8
BigIntToUint512(n) == ToWords(n, 8)
SetUint64(x) == [i \in 0..3 |-> IF i = 0 THEN x ELSE 0]
=============================================================================
