---------------------------- MODULE FieldElements ----------------------------
(***************************************************************************)
(* Field elements: type bsFieldElement_MontgomeryNonUnique.  An element is *)
(* a Uint256 in range c, 0..2^256-BaseFieldSize-1, which stands for itself *)
(* divided by 2^256 (Montgomery form).  Some elements have two             *)
(* representations.                                                        *)
(*                                                                         *)
(* Two variables of this type are modelled: the receiver elem of the calls *)
(* and their argument arg.  A call may be given elem as its argument.      *)
(***************************************************************************)
EXTENDS Residues

CONSTANTS Elements,        \* the representations that elem and arg start from
          SmallIntegers,   \* the uint64, int64 and big.Int arguments
          Powers        \* the exponents given to Exp

ASSUME ElementsAssumption ==
  /\ Elements \subseteq ReducedRange("c")
  /\ SmallIntegers \subseteq -(W \div 2)..W-1
  /\ Powers \subseteq Uints

\* The modulus is a prime.
ASSUME PrimeAssumption == \A d \in 2..M-1 : M % d # 0

BigInt == INSTANCE FieldBigInt

\* The field element that a representation stands for.
Value(w) == (w * InverseOfTwo256) % M

----------------------------------------------------------------------------
(* The methods: what they store in the receiver, or what they return.  *)

bsFieldElement_64_zero == 0
bsFieldElement_64_zero_alt == M
bsFieldElement_64_one == twoTo256ModBaseField

FeAdd(x, y) == AddAndReduce_b_c(x, y)
FeSub(x, y) == SubAndReduce_c(x, y)
FeNeg(x) == FeSub(bsFieldElement_64_zero_alt, x)
FeMul(x, y) == mulMontgomery_Unrolled_c(x, y)
FeSquare(x) == FeMul(x, x)
FeDouble(x) == FeAdd(x, x)
FeNormalize(x) == Reduce_fb_optimistic(x)
FeIsNormalized(x) == IsReduced(x, "f")

\* Only representations of 0 have two words; 1 has one (2^256 mod M has no
\* second representative in range c).
FeIsZero(x) == x \in {0, M}
FeIsOne(x) == x = bsFieldElement_64_one

ToBigInt(x) == ToNonMontgomery_fc(x)
ToUint256(x) == FromMontgomeryRepresentation_fc(x)
(* Mutant: the sign is lost. *)
SetBigIntMutant(n) == ((IF n < 0 THEN -n ELSE n) * Two256) % M

SetBigInt(n) ==
  LET w == ((IF n < 0 THEN -n ELSE n) * Two256) % M IN IF n < 0 THEN M - w ELSE w
SetUint256(n) == ConvertToMontgomeryRepresentation_c(Reduce_ca(n))
FeSetUint64(n) == ConvertToMontgomeryRepresentation_c(n)
FeSetInt64(n) ==
  ConvertToMontgomeryRepresentation_c(IF n >= 0 THEN n ELSE FeNeg(-n))

\* Inverses are computed by big.Int; Inv panics for 0.
FeInv(x) == SetBigInt(BigInt!Inv(ToBigInt(x)))
FeDivide(x, y) == FeMul(x, FeInv(y))

\* Word by word from the top, against (BaseFieldSize-1)/2.
FeSign(x) ==
  LET Cmp256(y, n) == Cmp(ToWords(y, 4), ToWords(n, 4))
  IN  IF FeIsZero(x) THEN 0
      ELSE IF Cmp256(ToNonMontgomery_fc(x), (M - 1) \div 2) = 1 THEN -1 ELSE 1

\* The low word and whether the others are 0; ToInt64 tries the element and
\* then its negative, of at most 2^63.
ToUint64Fails(x) == \E i \in 1..3 : ToWords(ToNonMontgomery_fc(x), 4)[i] # 0
FeToUint64(x) == ToNonMontgomery_fc(x) % W
ToInt64Fits(x) == x \div W = 0 /\ x \div (W \div 2) = 0
ToInt64FitsNegated(x) == M - x < W /\ (M - x) % W <= W \div 2
FeToInt64Fails(x) ==
  LET n == ToUint256(x) IN ~ToInt64Fits(n) /\ ~ToInt64FitsNegated(n)
FeToInt64(x) ==
  LET n == ToUint256(x) IN IF ToInt64Fits(n) THEN n ELSE n - M

\* Square and multiply, from the second highest bit.  Only the accumulator is
\* reduced first: base may be any Uint256.  The exponent is not reduced.
ModularExponentiationMontgomery_fa(base, exponent) ==
  LET L == BitLen(ToWords(exponent, 4))
      acc[i \in 0..L-1] ==         \* base^(exponent >> i)
        IF i = L - 1 THEN Reduce_ca(base)
        ELSE LET square == FeSquare(acc[i+1])
             IN  IF (exponent \div 2^i) % 2 = 1 THEN FeMul(square, base) ELSE square
  IN  IF exponent = 0 THEN twoTo256ModBaseField ELSE Reduce_fb_optimistic(acc[0])

(* Mutant: the highest words may differ by one less than the modulus. *)
SecondRepresentationMutant(x, y) == Top(x) > Top(y) + M_3

\* When the highest words differ by about that of the modulus, one of the
\* elements may be the other one plus the modulus: the greater is normalized,
\* in place, and the words are compared.
SecondRepresentation(x, y) == Top(x) > Top(y) + (M_3 - 1)
FeIsEqual(z, x) ==
  LET nz == IF SecondRepresentation(z, x) THEN FeNormalize(z) ELSE z
      nx == IF SecondRepresentation(x, z) THEN FeNormalize(x) ELSE x
  IN  [equal |-> nz = nx, z |-> nz, x |-> nx]

\* The negative that is compared is a copy; its normalization is not seen.
FeCmpAbs(z, x) ==
  LET same == FeIsEqual(z, x)
      negated == FeIsEqual(FeNeg(same.x), same.z)
  IN  IF same.equal THEN [same EXCEPT !.equal = <<TRUE, TRUE>>]
      ELSE [equal |-> <<negated.equal, FALSE>>, z |-> negated.x, x |-> same.x]

\* The representation depends on the seed and on the value only.
RerandomizeRepresentation(x, seed) ==
  LET n == FeNormalize(x) IN IF seed % 2 = 1 /\ IsReduced(n + M, "c") THEN n + M ELSE n

----------------------------------------------------------------------------
(* The calls on elem and arg.                                              *)

VARIABLES elem, arg

elementVars == <<elem, arg>>

ElementsInit == elem \in Elements /\ arg \in Elements

Sets(w) == elem' = w /\ UNCHANGED arg

\* elem.Op(elem, y) and elem.Op(y, elem), which are also OpEq, for y = arg or
\* elem.
Binary ==
  \E y \in {arg, elem} : \/ Sets(FeAdd(elem, y)) \/ Sets(FeMul(elem, y))
                         \/ Sets(FeSub(elem, y)) \/ Sets(FeSub(y, elem))
                         \/ ~FeIsZero(y) /\ Sets(FeDivide(elem, y))
                         \/ ~FeIsZero(elem) /\ Sets(FeDivide(y, elem))
Unary == \/ Sets(FeNeg(elem)) \/ Sets(FeDouble(elem)) \/ Sets(FeSquare(elem)) \/ Sets(FeNormalize(elem))
         \/ ~FeIsZero(elem) /\ Sets(FeInv(elem))
         \/ \E seed \in {0, 1} : Sets(RerandomizeRepresentation(elem, seed))
         \/ \E e \in Powers : Sets(ModularExponentiationMontgomery_fa(elem, e))
SetConstants ==
  Sets(bsFieldElement_64_zero) \/ Sets(bsFieldElement_64_one) \/ Sets(arg)

\* Set..., and AddInt64, SubUint64, ... which set a local element first.
WithInteger ==
  \E n \in SmallIntegers :
    LET y == IF n < 0 THEN FeSetInt64(n) ELSE FeSetUint64(n)
    IN  \/ Sets(y) \/ Sets(FeAdd(elem, y)) \/ Sets(FeSub(elem, y)) \/ Sets(FeMul(elem, y))
        \/ ~FeIsZero(y) /\ Sets(FeDivide(elem, y))
        \/ Sets(SetBigInt(n))

\* Comparisons may change the representation of either element.
IsEqual == elem' = FeIsEqual(elem, arg).z /\ arg' = FeIsEqual(elem, arg).x
CmpAbs == elem' = FeCmpAbs(elem, arg).z /\ arg' = FeCmpAbs(elem, arg).x

ElementsNext ==
  Binary \/ Unary \/ SetConstants \/ WithInteger \/ IsEqual \/ CmpAbs

ElementsSpec == ElementsInit /\ [][ElementsNext]_elementVars

----------------------------------------------------------------------------
(* Properties.                                                             *)

\* w is a valid representation of the field element n.
Represents(w, n) == w \in ReducedRange("c") /\ Value(w) = n

\* Every method stores what the reference implementation stores, whichever
\* representations its operands have after the calls made before, and keeps
\* the range that the next method relies on without a check.
ImplementsBigInt ==
  LET a == Value(elem)
      b == Value(arg)
  IN  /\ Represents(FeAdd(elem, arg), BigInt!Add(a, b))
      /\ Represents(FeSub(elem, arg), BigInt!Sub(a, b))
      /\ Represents(FeMul(elem, arg), BigInt!Mul(a, b))
      /\ Represents(FeNeg(elem), BigInt!Neg(a))
      /\ Represents(FeDouble(elem), BigInt!Double(a))
      /\ b # 0 => Represents(FeDivide(elem, arg), BigInt!Divide(a, b))
      /\ \A n \in SmallIntegers :
           /\ Represents(FeSetInt64(n), BigInt!SetInt64(n))
           /\ Represents(SetBigInt(n * a), BigInt!SetBigInt(n * a))
      /\ Represents(SetUint256(elem), BigInt!SetBigInt(elem))
      /\ \A e \in Powers :
           Represents(ModularExponentiationMontgomery_fa(elem, e), BigInt!Exp(a, e))

\* Whatever the representations, the methods that look at an element return
\* what they return for the reference implementation; comparing does not
\* change the elements, and equal elements have the same representation once
\* they are normalized or rerandomized with the same seed.
ObserversAgree ==
  LET a == Value(elem)
      b == Value(arg)
      eq == FeIsEqual(elem, arg)
      abs == FeCmpAbs(elem, arg)
  IN  /\ eq.equal <=> a = b
      /\ abs.equal = <<a = b \/ a = BigInt!Neg(b), a = b>>
      /\ Represents(eq.z, a) /\ Represents(eq.x, b)
      /\ Represents(abs.z, a) /\ Represents(abs.x, b)
      /\ FeIsZero(elem) <=> a = 0
      /\ FeIsOne(elem) <=> a = 1
      /\ FeSign(elem) = BigInt!Sign(a)
      /\ ToBigInt(elem) = a /\ ToUint256(elem) = a
      /\ ToUint64Fails(elem) <=> BigInt!ToUint64Fails(a, W)
      /\ ~ToUint64Fails(elem) => FeToUint64(elem) = a
      /\ FeToInt64Fails(elem) <=> BigInt!ToInt64Fails(a, W)
      /\ ~FeToInt64Fails(elem) => FeToInt64(elem) = BigInt!ToInt64(a)
      /\ \A seed \in {0, 1} :
           LET r == RerandomizeRepresentation(elem, seed)
           IN  Represents(r, a) /\ (a = b => r = RerandomizeRepresentation(arg, seed))
      /\ FeIsNormalized(FeNormalize(elem))
=============================================================================
