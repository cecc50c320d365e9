-------------------------- MODULE NumberAlgorithms --------------------------
(***************************************************************************)
(* Two binary gcds on Uint256s (uint256_modular.go), one iteration of their*)
(* loops per step: the modular inverse and the Jacobi symbol.              *)
(***************************************************************************)
EXTENDS Residues

----------------------------------------------------------------------------
(* ModularInverse_a_NAIVEHAC: an extended gcd on u and v, four words each, *)
(* whose cofactors a and c may become negative and are kept in five words, *)
(* in two's complement.                                                    *)

CONSTANT InverseInputs     \* the Uint256s whose inverse is computed

ASSUME InverseInputsAssumption == InverseInputs \subseteq Uints

VARIABLES xIn, u, v, a, c, inversePc

inverseVars == <<xIn, u, v, a, c, inversePc>>

\* The integer a 5-word two's complement number stands for.
Signed(n) == IF n >= W^5 \div 2 THEN n - W^5 ELSE n

InverseInit ==
  xIn = 0 /\ u = 0 /\ v = 0 /\ a = 0 /\ c = 0 /\ inversePc = "idle"

\* 0 has no inverse: the method returns false at once.
InverseStart ==
  /\ inversePc = "idle"
  /\ xIn' \in InverseInputs
  /\ u' = Reduce_fa_optimistic(xIn') /\ v' = M /\ a' = 1 /\ c' = 0
  /\ inversePc' = IF u' = 0 THEN "no inverse" ELSE "loop"

(* Mutant: the shift does not keep the sign. *)
HalveCofactorMutant(n) == (IF n % 2 = 1 THEN (n + M) % W^5 ELSE n) \div 2

\* The cofactor of a number that is halved: made even by adding the modulus,
\* then shifted, with its sign kept.
HalveCofactor(n) ==
  LET even == IF n % 2 = 1 THEN (n + M) % W^5 ELSE n
  IN  even \div 2 + IF even >= W^5 \div 2 THEN W^5 \div 2 ELSE 0

HalveU ==
  /\ inversePc = "loop" /\ u % 2 = 0
  /\ u' = u \div 2 /\ a' = HalveCofactor(a)
  /\ UNCHANGED <<xIn, v, c, inversePc>>

HalveV ==
  /\ inversePc = "loop" /\ u % 2 = 1 /\ v % 2 = 0
  /\ v' = v \div 2 /\ c' = HalveCofactor(c)
  /\ UNCHANGED <<xIn, u, a, inversePc>>

\* The smaller number is subtracted from the greater; at u = v the loop ends.
Subtract ==
  /\ inversePc = "loop" /\ u % 2 = 1 /\ v % 2 = 1
  /\ IF u >= v
       THEN u' = u - v /\ a' = (a - c) % W^5 /\ UNCHANGED <<v, c>>
       ELSE v' = v - u /\ c' = (c - a) % W^5 /\ UNCHANGED <<u, a>>
  /\ inversePc' = IF u' = 0 THEN "correct" ELSE "loop"
  /\ UNCHANGED xIn

\* The modulus is added while c is negative and subtracted while it needs
\* more than four words.
Correct ==
  /\ inversePc = "correct"
  /\ \/ Signed(c) < 0 /\ c' = (c + M) % W^5 /\ UNCHANGED inversePc
     \/ Signed(c) >= Two256 /\ c' = (c - M) % W^5 /\ UNCHANGED inversePc
     \/ Signed(c) \in Uints /\ inversePc' = "inverted" /\ UNCHANGED c
  /\ UNCHANGED <<xIn, u, v, a>>

\* The call has returned; another one may follow.
InverseReturn ==
  /\ inversePc \in {"inverted", "no inverse"}
  /\ xIn' = 0 /\ u' = 0 /\ v' = 0 /\ a' = 0 /\ c' = 0 /\ inversePc' = "idle"

InverseLoop == HalveU \/ HalveV \/ Subtract \/ Correct

----------------------------------------------------------------------------

\* The loop invariant of the comments, u = a*x and v = c*x modulo the modulus
\* and at least one of u and v odd, in every iteration and for every input.
\* The cofactors stay so small that five words hold them and that two
\* corrections of the last one are enough ("<= 2 iterations expected").
InverseInvariant ==
  inversePc \in {"loop", "correct"} =>
    /\ (Signed(a) * (xIn % M) - u) % M = 0
    /\ (Signed(c) * (xIn % M) - v) % M = 0
    /\ u % 2 = 1 \/ v % 2 = 1
    /\ Signed(a) \in -4*M..4*M /\ Signed(c) \in -4*M..4*M
    /\ inversePc = "correct" => Signed(c) \in -2*M..2*M

\* What is returned is an inverse; 0, in all its representations, has none.
InverseRight ==
  /\ InverseInvariant
  /\ inversePc = "inverted" => c \in Uints /\ ((c % M) * (xIn % M)) % M = 1
  /\ inversePc = "no inverse" <=> inversePc # "idle" /\ xIn % M = 0

----------------------------------------------------------------------------
(* jacobiV1_a: a gcd that keeps the sign of the Jacobi symbol.             *)

CONSTANT JacobiInputs      \* the Uint256s whose symbol is computed

\* A shift by a whole word does not touch the sign: its number of bits has to
\* be even, and a word has the three bits that decide about the sign.
ASSUME JacobiAssumption ==
  /\ JacobiInputs \subseteq Uints
  /\ WordBits % 2 = 0 /\ WordBits >= 3

VARIABLES zIn, p, q, accumulatedSign, symbol, jacobiPc

jacobiVars == <<zIn, p, q, accumulatedSign, symbol, jacobiPc>>

JacobiInit ==
  zIn = 0 /\ p = 0 /\ q = M /\ accumulatedSign = 0 /\ symbol = 0 /\ jacobiPc = "idle"

JacobiStart ==
  /\ jacobiPc = "idle"
  /\ zIn' \in JacobiInputs /\ p' = zIn' /\ jacobiPc' = "loop"
  /\ UNCHANGED <<q, accumulatedSign, symbol>>

trailingZeros == TrailingZeros64(p % W)
Shifted == p \div 2^trailingZeros

ReturnSymbol(s) == symbol' = s /\ jacobiPc' = "done"

(* Mutant: the words that are left are not checked for 0. *)
ShiftWordMutant ==
  /\ jacobiPc = "loop" /\ trailingZeros = WordBits
  /\ p' = Shifted
  /\ UNCHANGED <<zIn, q, accumulatedSign, symbol, jacobiPc>>

\* The lowest word is 0: the other words move down and the loop starts again,
\* unless the three that may be left are 0.
ShiftWord ==
  /\ jacobiPc = "loop" /\ trailingZeros = WordBits
  /\ p' = Shifted
  /\ IF Shifted % W^3 = 0 THEN ReturnSymbol(0) ELSE UNCHANGED <<symbol, jacobiPc>>
  /\ UNCHANGED <<zIn, q, accumulatedSign>>

(* Mutant: bit 0 decides. *)
SecondBitMutant(n) == n % 2

\* Bit 1 of x.
SecondBit(n) == (n \div 2) % 2

\* Twos are removed (a sign each when q is 3 or 5 modulo 8), the greater one
\* becomes p (a sign when both are 3 modulo 4) and q is subtracted from it.
Iterate ==
  LET twos == IF trailingZeros % 2 = 1 THEN (SecondBit(q) + q \div 4) % 2 ELSE 0
      swapped == Shifted < q
      reciprocity == IF swapped THEN SecondBit(Shifted) * SecondBit(q) ELSE 0
      greater == IF swapped THEN q ELSE Shifted
      less == IF swapped THEN Shifted ELSE q
  IN  /\ jacobiPc = "loop" /\ trailingZeros # WordBits
      /\ accumulatedSign' = (accumulatedSign + twos + reciprocity) % 2
      /\ q' = less
      /\ IF less = 1 THEN ReturnSymbol(1 - 2 * accumulatedSign') /\ p' = greater
         ELSE p' = greater - less /\ UNCHANGED <<symbol, jacobiPc>>
      /\ UNCHANGED zIn

JacobiReturn ==
  /\ jacobiPc = "done"
  /\ zIn' = 0 /\ p' = 0 /\ q' = M /\ accumulatedSign' = 0 /\ symbol' = 0 /\ jacobiPc' = "idle"

JacobiLoop == ShiftWord \/ Iterate

----------------------------------------------------------------------------

LOCAL BigInt == INSTANCE FieldBigInt

\* The symbol is that of big.Jacobi, for reduced and unreduced inputs, through
\* every swap, shift by a word and power of two.
JacobiRight == jacobiPc = "done" => symbol = BigInt!Jacobi(zIn % M)
=============================================================================
