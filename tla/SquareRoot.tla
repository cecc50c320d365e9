----------------------------- MODULE SquareRoot -----------------------------
(***************************************************************************)
(* Square roots (field_element_square_root.go, SquareRoot) and batch       *)
(* operations (field_element_batch.go) of field elements.  An element is   *)
(* its value; module FieldElements has the representations.  Only for the  *)
(* look-up of logarithms, whose key is taken from the words of an element, *)
(* do two representations matter: x and x + FieldSize.                     *)
(*                                                                         *)
(* The field is small, with as many dyadic roots of unity as the look-up   *)
(* tables need; the number of bits a table resolves is chosen per call.    *)
(***************************************************************************)
EXTENDS Integers, Sequences, FiniteSets, SequencesExt, FiniteSetsExt

CONSTANTS FieldSize,       \* the prime
          TotalBits,       \* BaseField2Adicity
          DyadicRoot,      \* a primitive 2^TotalBits-th root of unity
          BlockSizes,      \* values of sqrtParam_BlockSize
          BatchValues,     \* the elements that slices are filled with
          MaxBatch         \* the length of slices

Fe == 0..FieldSize-1
Times(x, y) == (x * y) % FieldSize
Power(x, e) ==
  LET power[n \in 0..e] == IF n = 0 THEN 1
                           ELSE LET half == power[n \div 2]
                                IN  Times(Times(half, half), IF n % 2 = 1 THEN x ELSE 1)
  IN  power[e]
OddOrder == (FieldSize - 1) \div 2^TotalBits       \* BaseFieldMultiplicativeOddOrder

ASSUME FieldAssumption ==
  /\ FieldSize \in Nat /\ TotalBits \in Nat \ {0} /\ MaxBatch \in Nat
  /\ FieldSize - 1 = 2^TotalBits * OddOrder /\ OddOrder % 2 = 1
  /\ Power(DyadicRoot, 2^(TotalBits - 1)) = FieldSize - 1
  /\ BlockSizes \subseteq 1..TotalBits
  /\ BatchValues \subseteq Fe

----------------------------------------------------------------------------
(* The powers z^(OddOrder+1)/2 and z^OddOrder are computed along a fixed   *)
(* chain: z^927, then squarings and a product with one of the precomputed  *)
(* odd powers, <<squarings, power>>.                                       *)

AdditionChain ==
  << <<6, 27>>, <<6, 19>>, <<5, 21>>, <<7, 25>>, <<6, 19>>, <<5, 7>>, <<5, 11>>,
     <<5, 29>>, <<5, 9>>, <<7, 3>>, <<7, 25>>, <<5, 25>>, <<5, 27>>, <<8, 1>>, <<8, 1>>,
     <<6, 13>>, <<7, 7>>, <<3, 3>>, <<13, 21>>, <<5, 9>>, <<5, 27>>, <<5, 27>>, <<5, 9>>,
     <<10, 1>>, <<7, 255>>, <<8, 255>>, <<6, 11>>, <<9, 255>>, <<2, 1>>, <<7, 255>>,
     <<8, 255>>, <<8, 255>>, <<8, 255>> >>

\* The exponents do not fit TLC's integers: they are digits, low digit first.
\* d shifted to the left, with power added.
ShiftAndAdd(d, squarings, power) ==
  LET add(s, digit) ==
        LET t == digit * 2^squarings + s.carry
        IN  [digits |-> Append(s.digits, t % 2^12), carry |-> t \div 2^12]
  IN  FoldLeft(add, [digits |-> <<>>, carry |-> power], d).digits
ChainExponent ==
  FoldLeft(LAMBDA d, link : ShiftAndAdd(d, link[1], link[2]),
           [i \in 1..19 |-> IF i = 1 THEN 927 ELSE 0], AdditionChain)

\* BaseFieldMultiplicativeOddOrder of field_element_constants.go, by digits;
\* the chain gives half of what is left of it.
BaseFieldOddOrder ==
  << 4095, 4095, 3839, 1471, 4094, 47, 3492, 1339, 2053, 2589, 2057, 3456, 825, 1155,
     3453, 665, 1875, 3802, 115 >>

ASSUME ChainAssumption == ShiftAndAdd(ChainExponent, 1, 1) = BaseFieldOddOrder

sqrtAlg_ComputeRelevantPowers(z) ==
  [candidate |-> Power(z, (OddOrder + 1) \div 2), rootOfUnity |-> Power(z, OddOrder)]

----------------------------------------------------------------------------
(* Square roots.  bs is sqrtParam_BlockSize; the first block that is       *)
(* resolved may have unused bits.                                          *)

Blocks(bs) == (TotalBits + bs - 1) \div bs
FirstBlockUnusedBits(bs) == Blocks(bs) * bs - TotalBits
Bits(n, i, bs) == (n \div 2^(i * bs)) % 2^bs       \* block i of an exponent

\* The tables: g^(2^i), g^(j << (i*bs)), and the negative logarithms of the
\* powers of the root of unity of order 2^bs.
sqrtPrecomp_PrimitiveDyadicRoots == [i \in 0..TotalBits |-> Power(DyadicRoot, 2^i)]
sqrtPrecomp_PrecomputedBlocks(bs) ==
  [i \in 0..Blocks(bs)-1 |->
     [j \in 0..2^bs-1 |-> Power(sqrtPrecomp_PrimitiveDyadicRoots[i * bs], j)]]
sqrtPrecomp_ReconstructionDyadicRoot(bs) == sqrtPrecomp_PrimitiveDyadicRoots[TotalBits - bs]
sqrtPrecomp_dlogLUT(bs) ==
  LET root == sqrtPrecomp_ReconstructionDyadicRoot(bs)
  IN  [r \in {Power(root, i) : i \in 0..2^bs-1} |->
         CHOOSE n \in 0..2^bs-1 : Times(Power(root, n), r) = 1]

\* The tables of every block size, computed once.
Tables == [bs \in BlockSizes |->
             [blocks |-> sqrtPrecomp_PrecomputedBlocks(bs), lut |-> sqrtPrecomp_dlogLUT(bs)]]

Offsets == {0, FieldSize}   \* of the representations of an element from its value

(* Mutant: the words are looked up as they are. *)
NegDlogMutant(w, bs) == IF w \in DOMAIN Tables[bs].lut THEN Tables[bs].lut[w] ELSE 0

\* The key of the table is the representation w of a root of unity once it is
\* normalized.  For a key that is missing, a map of Go yields 0.
sqrtAlg_NegDlogInSmallDyadicSubgroup(w, bs) ==
  LET x == w % FieldSize
  IN  IF x \in DOMAIN Tables[bs].lut THEN Tables[bs].lut[x] ELSE 0

\* The negative logarithm of z, block by block: z^(2^(i*bs)) has the bits of
\* the block as its leading ones; those known already are taken off.  What is
\* looked up is represented in one of the two ways, shifted by offset.
NegExponent(z, bs, offset) ==
  LET n == Blocks(bs)
      powers == [i \in 0..n-1 |-> Power(z, 2^(i * bs))]
      known(e, i) ==                         \* without the bits known before block i
        FoldLeft(LAMBDA t, j : Times(t, Tables[bs].blocks[j + n-1-i][Bits(e, j, bs)]),
                 powers[n-1-i], [j \in 1..i |-> j - 1])
      block[i \in 0..n-1] ==                 \* negExponent after block i
        IF i = 0
          THEN sqrtAlg_NegDlogInSmallDyadicSubgroup(powers[n-1] + offset, bs)
                 \div 2^FirstBlockUnusedBits(bs)
          ELSE block[i-1] + sqrtAlg_NegDlogInSmallDyadicSubgroup(known(block[i-1], i) + offset, bs)
                            * 2^(bs * i - FirstBlockUnusedBits(bs))
  IN  [first |-> block[0], all |-> IF block[0] % 2 = 1 THEN 0 ELSE block[n-1]]

\* 1/sqrt(z) for a root of unity z: half of the logarithm, from the tables.
invSqrtEqDyadic(z, bs, offset) ==
  LET e == NegExponent(z, bs, offset)
      half == e.all \div 2
      ok == e.first % 2 = 0
  IN  [ok |-> ok,
       z |-> IF ok THEN FoldLeft(LAMBDA t, i : Times(t, Tables[bs].blocks[i][Bits(half, i, bs)]),
                                 1, [i \in 1..Blocks(bs) |-> i - 1])
             ELSE z]

\* What z holds after z.SquareRoot(x), and the value returned.
FeSquareRoot(z, x, bs, offset) ==
  LET powers == sqrtAlg_ComputeRelevantPowers(x)
      inverse == invSqrtEqDyadic(powers.rootOfUnity, bs, offset)
  IN  IF x = 0 THEN [ok |-> TRUE, z |-> 0]
      ELSE IF inverse.ok THEN [ok |-> TRUE, z |-> Times(powers.candidate, inverse.z)]
      ELSE [ok |-> FALSE, z |-> z]

----------------------------------------------------------------------------
(* Batch operations on slices (or, with pointers, on variables).           *)

InverseOf(x) == CHOOSE y \in Fe : Times(x, y) = 1

MultiplySlice(factors) == FoldLeft(Times, 1, factors)
SummationSlice(summands) == FoldLeft(LAMBDA s, t : (s + t) % FieldSize, 0, summands)

\* GenerateMultiDivisionByZeroError: the indices, from 0, of the zeros.
ZeroIndices(args) == {i - 1 : i \in {j \in DOMAIN args : args[j] = 0}}

\* With the products of the first arguments and one inverse, from the last
\* argument down; the first two are exchanged at the end.  When the product
\* is 0, the arguments stay as they are.
MultiInvertEq(args) ==
  LET n == Len(args)
      product[i \in 1..n] == IF i = 1 THEN args[1] ELSE Times(product[i-1], args[i])
      inverse[i \in 2..n] ==                 \* of product[i]: temp1 at index i
        IF i = n THEN InverseOf(product[n]) ELSE Times(inverse[i+1], args[i+1])
  IN  IF n = 0 THEN [args |-> args, zeros |-> {}]
      ELSE IF product[n] = 0 THEN [args |-> args, zeros |-> ZeroIndices(args)]
      ELSE IF n = 1 THEN [args |-> <<InverseOf(args[1])>>, zeros |-> {}]
      ELSE [args |-> [i \in 1..n |-> CASE i = 1 -> Times(inverse[2], args[2])
                                       [] i = 2 -> Times(inverse[2], args[1])
                                       [] OTHER -> Times(inverse[i], product[i-1])],
            zeros |-> {}]

\* Zeros are listed and, like ones, left out of the batch.
MultiInvertEqSkipZeros(args) ==
  LET inverted == SetToSortSeq({i \in DOMAIN args : args[i] \notin {0, 1}}, <)
      batch == MultiInvertEq([k \in DOMAIN inverted |-> args[inverted[k]]])
  IN  [args |-> [i \in DOMAIN args |->
                   IF args[i] \in {0, 1} THEN args[i]
                   ELSE batch.args[CHOOSE k \in DOMAIN inverted : inverted[k] = i]],
       zeros |-> ZeroIndices(args),
       panics |-> batch.zeros # {}]

----------------------------------------------------------------------------
(* A field element and a slice of them under these calls.                  *)

VARIABLES element, batch

rootVars == <<element, batch>>

RootInit == element = 0 /\ batch = <<>>

\* A variable is 0 until it is set.
SetElement == element = 0 /\ element' \in Fe /\ UNCHANGED batch
SquareRootEq ==
  /\ \E bs \in BlockSizes, offset \in Offsets :
       element' = FeSquareRoot(element, element, bs, offset).z
  /\ UNCHANGED batch
AppendToBatch ==
  /\ Len(batch) < MaxBatch
  /\ \E x \in BatchValues : batch' = Append(batch, x)
  /\ UNCHANGED element
InvertBatch ==
  /\ \/ batch' = MultiInvertEq(batch).args
     \/ batch' = MultiInvertEqSkipZeros(batch).args
  /\ UNCHANGED element
AccumulateBatch ==
  /\ \/ element' = MultiplySlice(batch)
     \/ element' = SummationSlice(batch)
  /\ batch' = <<>>

RootNext ==
  SetElement \/ SquareRootEq \/ AppendToBatch \/ InvertBatch \/ AccumulateBatch

----------------------------------------------------------------------------

\* For every element and every block size, also one that leaves unused bits
\* in the first block, and whichever representation the roots of unity have
\* that are looked up: there is a square root iff the call says so, then its
\* square is the element, and otherwise the receiver is unchanged.
SquareRootExact ==
  \A bs \in BlockSizes, offset \in Offsets :
    LET root == FeSquareRoot(-1, element, bs, offset)
    IN  /\ root.ok <=> \E r \in Fe : Times(r, r) = element
        /\ root.ok => root.z \in Fe /\ Times(root.z, root.z) = element
        /\ ~root.ok => root.z = -1

\* Batch inversion is all or nothing: with a zero among its arguments it
\* changes none of them and names exactly the zeros; otherwise every argument
\* becomes its own inverse, not that of a neighbour.  The variant that skips
\* zeros inverts all others and never meets the error it panics on.
BatchInversionExact ==
  LET all == MultiInvertEq(batch)
      some == MultiInvertEqSkipZeros(batch)
      zeros == {i \in 0..Len(batch)-1 : batch[i+1] = 0}
  IN  /\ all.zeros = zeros /\ some.zeros = zeros /\ ~some.panics
      /\ IF zeros # {} THEN all.args = batch
         ELSE \A i \in DOMAIN batch : Times(all.args[i], batch[i]) = 1
      /\ \A i \in DOMAIN batch :
           IF batch[i] = 0 THEN some.args[i] = 0 ELSE Times(some.args[i], batch[i]) = 1

\* For all calls: roots of single elements, inverses of several at once.
RootsAndInversesExact == SquareRootExact /\ BatchInversionExact
=============================================================================
