-------------------------- MODULE FieldElementProofs --------------------------
(***************************************************************************)
(* Proofs about field elements: every method computes what the reference   *)
(* implementation computes, for words of any size and any prime that fits  *)
(* them, whichever representations its operands have, and what is written  *)
(* to a stream is read from it.                                            *)
(***************************************************************************)
EXTENDS ResidueProofs, FieldSerialization, SequenceTheorems, FiniteSetTheorems

-----------------------------------------------------------------------------
(* The representations of an integer.                                       *)

(* w is in the range of representations, and stands for n.                  *)
Stands(w, n) == w \in ReducedRange("c") /\ Cong(w, n * Two256)

LEMMA FieldConstants ==
  /\ M \in Nat \ {0} /\ Two256 \in Nat \ {0} /\ W^3 \in Nat \ {0} /\ InverseOfTwo256 \in Nat
  /\ 3 * M > Two256 /\ 2 * M < Two256 /\ W^3 < M
  /\ Cong(InverseOfTwo256 * Two256, 1)
<1>1. /\ M \in Nat \ {0} /\ Two256 \in Nat /\ W^3 \in Nat \ {0} /\ 3 * M > Two256
      /\ 2 * M < Two256 /\ W^3 < M
  BY Constants
<1>2. InverseOfTwo256 \in 0 .. M - 1 /\ Cong(InverseOfTwo256 * Two256, 1)
  BY InverseOfTwo256_Right
<1> HIDE DEF M, Two256
<1>3. QED
  BY <1>1, <1>2

(* The numbers in range c.                                                  *)
LEMMA RangeC ==
  ASSUME NEW w
  PROVE  /\ w \in ReducedRange("c") <=> w \in Nat /\ w < Two256 - M
         /\ w \in ReducedRange("c") => w \in Uints
<1>1. M \in Nat \ {0} /\ Two256 \in Nat /\ 2 * M < Two256
  BY FieldConstants
<1> HIDE DEF M, Two256
<1>2. ReducedRange("c") = 0 .. Two256 - M - 1 /\ Uints = 0 .. Two256 - 1
  BY DEF ReducedRange, Uints
<1>3. QED
  BY <1>1, <1>2

LEMMA StandsFor ==
  ASSUME NEW w, NEW n \in Int, Stands(w, n)
  PROVE  Value(w) = n % M /\ Represents(w, n % M) /\ w \in Nat
<1> DEFINE J == InverseOfTwo256
           T == Two256
<1>1. M \in Nat \ {0} /\ T \in Nat /\ J \in Nat /\ Cong(J * T, 1)
  BY FieldConstants
<1>2. w \in Nat /\ w < T - M /\ w \in ReducedRange("c") /\ Cong(w, n * T)
  BY RangeC DEF Stands
<1> HIDE DEF J, T, M
<1>3. /\ n * T \in Int /\ w * J \in Int /\ (n * T) * J \in Int /\ J * T \in Int
      /\ (n * T) * J = n * (J * T) /\ n * 1 = n
  BY <1>1, <1>2
<1>4. Cong(w * J, (n * T) * J)
  <2>1. Cong(J, J)
    BY <1>1, CongShifts
  <2>2. QED
    BY <1>1, <1>2, <1>3, <2>1, CongProduct
<1>5. Cong(n * (J * T), n * 1)
  <2>1. Cong(n, n)
    BY CongShifts
  <2>2. QED
    BY <1>1, <1>3, <2>1, CongProduct
<1>6. Cong(w * J, n)
  BY <1>3, <1>4, <1>5, CongTrans
<1>7. (w * J) % M = n % M
  BY <1>3, <1>6, CongMod
<1>8. QED
  BY <1>2, <1>7 DEF Value, Represents, J

LEMMA ValueStands ==
  ASSUME NEW w \in ReducedRange("c")
  PROVE  /\ Value(w) \in 0 .. M - 1 /\ Stands(w, Value(w)) /\ w \in Nat
         /\ w < Two256 - M
<1> DEFINE J == InverseOfTwo256
           T == Two256
           v == Value(w)
<1>1. M \in Nat \ {0} /\ T \in Nat /\ J \in Nat /\ Cong(J * T, 1)
  BY FieldConstants
<1>2. w \in Nat /\ w < T - M
  BY RangeC
<1>3. v = (w * J) % M
  BY DEF Value
<1> HIDE DEF J, T, M, v
<1>4. /\ w * J \in Int /\ (w * J) * T \in Int /\ J * T \in Int
      /\ (w * J) * T = w * (J * T) /\ w * 1 = w
  BY <1>1, <1>2
<1>5. v \in 0 .. M - 1 /\ Cong(w * J, v)
  BY <1>3, <1>4, CongOfMod
<1>6. v \in Int /\ v * T \in Int
  BY <1>1, <1>5
<1>7. Cong((w * J) * T, v * T) /\ Cong(w * (J * T), w * 1)
  <2>1. Cong(T, T) /\ Cong(w, w)
    BY <1>1, <1>2, CongShifts
  <2>2. Cong((w * J) * T, v * T)
    BY <1>1, <1>4, <1>5, <1>6, <2>1, CongProduct
  <2>3. Cong(w * (J * T), w * 1)
    BY <1>1, <1>2, <1>4, <2>1, CongProduct
  <2>4. QED
    BY <2>2, <2>3
<1>8. Cong(w, (w * J) * T)
  BY <1>1, <1>2, <1>4, <1>7, CongSum, CongShifts
<1>9. Cong(w, v * T)
  BY <1>2, <1>4, <1>6, <1>7, <1>8, CongTrans
<1>10. QED
  BY <1>2, <1>5, <1>9 DEF Stands, v, T

-----------------------------------------------------------------------------
(* The methods whose results are sums and products of the operands.         *)

LEMMA RightStands ==
  ASSUME NEW w, NEW z \in Int, NEW n \in Int, Right(w, z, "c"), Cong(z, n * Two256)
  PROVE  Stands(w, n)
<1>1. w \in ReducedRange("c") /\ Cong(w, z) /\ w \in Nat
  BY RangeC DEF Right
<1>2. n * Two256 \in Int
  BY FieldConstants
<1>3. Cong(w, n * Two256)
  BY <1>1, <1>2, CongTrans
<1>4. QED
  BY <1>1, <1>3 DEF Stands

LEMMA SumStands ==
  ASSUME NEW x, NEW y, NEW a \in Int, NEW b \in Int, Stands(x, a), Stands(y, b)
  PROVE  Stands(FeAdd(x, y), a + b) /\ Stands(FeSub(x, y), a - b)
<1> DEFINE T == Two256
<1>1. T \in Nat
  BY FieldConstants
<1>2. /\ x \in ReducedRange("c") /\ y \in ReducedRange("c") /\ x \in Int /\ y \in Int
      /\ Cong(x, a * T) /\ Cong(y, b * T)
  BY RangeC DEF Stands
<1>3. Right(FeAdd(x, y), x + y, "c") /\ Right(FeSub(x, y), x - y, "c")
  BY <1>2, Add_Right, Sub_c_Right DEF FeAdd, FeSub
<1> HIDE DEF T
<1>4. a * T \in Int /\ b * T \in Int /\ a * T + b * T = (a + b) * T /\ a * T - b * T = (a - b) * T
  BY <1>1
<1>5. Cong(x + y, (a + b) * T) /\ Cong(x - y, (a - b) * T)
  BY <1>2, <1>4, CongSum
<1>6. x + y \in Int /\ x - y \in Int /\ a + b \in Int /\ a - b \in Int
  BY <1>2
<1>7. QED
  BY <1>3, <1>5, <1>6, RightStands DEF T

(* The two representations of 0, and that of 1.                             *)
LEMMA ConstantsStand ==
  /\ Stands(bsFieldElement_64_zero, 0) /\ Stands(bsFieldElement_64_zero_alt, 0)
  /\ Stands(bsFieldElement_64_one, 1)
  /\ bsFieldElement_64_one = Two256 - 2 * M
<1>1. M \in Nat \ {0} /\ Two256 \in Nat /\ 3 * M > Two256 /\ 2 * M < Two256
  BY FieldConstants
<1> DEFINE r == Two256 - 2 * M
<1>2. twoTo256ModBaseField = r /\ r \in 0 .. M - 1
  <2> HIDE DEF M, Two256
  <2>1. Two256 = M * 2 + r /\ r \in 0 .. M - 1
    BY <1>1
  <2> HIDE DEF r
  <2>2. QED
    BY <1>1, <2>1, DivisionUnique DEF twoTo256ModBaseField
<1>3. /\ Cong(0, 0) /\ Cong(0 + M, 0) /\ Cong(Two256 - 2 * M, Two256)
  BY <1>1, CongShifts
<1> HIDE DEF M, Two256
<1>4. /\ 0 * Two256 = 0 /\ 1 * Two256 = Two256 /\ 0 + M = M
  BY <1>1
<1>5. /\ 0 < Two256 - M /\ M < Two256 - M /\ r < Two256 - M /\ r \in Nat
  BY <1>1, <1>2
<1>6. 0 \in ReducedRange("c") /\ M \in ReducedRange("c") /\ r \in ReducedRange("c")
  BY <1>1, <1>5, RangeC
<1>7. QED
  BY <1>2, <1>3, <1>4, <1>6
  DEF Stands, bsFieldElement_64_zero, bsFieldElement_64_zero_alt, bsFieldElement_64_one

LEMMA NegStands ==
  ASSUME NEW x, NEW a \in Int, Stands(x, a)
  PROVE  Stands(FeNeg(x), -a)
<1>1. Stands(bsFieldElement_64_zero_alt, 0) /\ 0 \in Int /\ 0 - a = -a
  BY ConstantsStand
<1>2. Stands(FeSub(bsFieldElement_64_zero_alt, x), 0 - a)
  BY <1>1, SumStands
<1>3. QED
  BY <1>1, <1>2 DEF FeNeg

LEMMA ProductStands ==
  ASSUME NEW x, NEW y, NEW a \in Int, NEW b \in Int, Stands(x, a), Stands(y, b)
  PROVE  Stands(FeMul(x, y), a * b)
<1> DEFINE T == Two256
           J == InverseOfTwo256
<1>1. T \in Nat /\ J \in Nat /\ Cong(J * T, 1)
  BY FieldConstants
<1>2. /\ x \in ReducedRange("c") /\ y \in ReducedRange("c") /\ x \in Int /\ y \in Int
      /\ Cong(x, a * T) /\ Cong(y, b * T) /\ y \in Uints
  BY RangeC DEF Stands
<1>3. Right(FeMul(x, y), x * (y * J), "c")
  BY <1>2, mulMontgomery_Right DEF FeMul
<1> HIDE DEF T, J
<1> DEFINE aT == a * T
           bT == b * T
           JT == J * T
           ab == a * b
<1>4. /\ aT \in Int /\ bT \in Int /\ JT \in Int /\ ab \in Int /\ y * J \in Int /\ x * (y * J) \in Int
      /\ bT * J \in Int /\ aT * (bT * J) \in Int /\ ab * T \in Int /\ (ab * T) * JT \in Int
      /\ (ab * T) * 1 = ab * T
  BY <1>1, <1>2
<1>5. aT * (bT * J) = (ab * T) * JT
  BY <1>1
<1>6. Cong(aT, aT) /\ Cong(J, J) /\ Cong(ab * T, ab * T)
  BY <1>1, <1>4, CongShifts
<1> HIDE DEF aT, bT, JT, ab
<1>7. Cong(y * J, bT * J)
  BY <1>1, <1>2, <1>4, <1>6, CongProduct DEF bT
<1>8. Cong(x * (y * J), aT * (bT * J))
  BY <1>2, <1>4, <1>7, CongProduct DEF aT
<1>9. Cong((ab * T) * JT, (ab * T) * 1)
  BY <1>1, <1>4, <1>6, CongProduct DEF JT
<1>10. Cong(x * (y * J), ab * T)
  BY <1>4, <1>5, <1>8, <1>9, CongTrans
<1>11. QED
  BY <1>3, <1>4, <1>10, RightStands DEF T, ab

(* Conversions: of a Uint256, and of what the representations stand for.    *)
LEMMA ConvertedStands ==
  ASSUME NEW n \in ReducedRange("c")
  PROVE  Stands(ConvertToMontgomeryRepresentation_c(n), n)
<1> DEFINE T == Two256
           t == twoTo256ModBaseField
<1>1. T \in Nat /\ n \in Int
  BY FieldConstants, RangeC
<1>2. Right(ConvertToMontgomeryRepresentation_c(n), n * t, "c")
  BY ToMontgomery_Right
<1>3. Cong(t, T) /\ t \in Int
  <2>1. M \in Nat /\ T \in Int
    BY <1>1, FieldConstants
  <2> HIDE DEF M, T
  <2>2. Cong(T % M, T) /\ T % M \in 0 .. M - 1
    BY <2>1, CongOfMod
  <2>3. t = T % M
    BY DEF twoTo256ModBaseField, T
  <2> HIDE DEF t
  <2>4. QED
    BY <2>1, <2>2, <2>3
<1> HIDE DEF T, t
<1>4. Cong(n, n)
  BY <1>1, CongShifts
<1>5. n * t \in Int /\ Cong(n * t, n * T)
  BY <1>1, <1>3, <1>4, CongProduct
<1>6. QED
  BY <1>1, <1>2, <1>5, RightStands DEF t, T

LEMMA ReducedStands ==
  ASSUME NEW n \in Uints
  PROVE  Stands(SetUint256(n), n)
<1> DEFINE r == Reduce_ca(n)
<1>1. /\ r \in ReducedRange("c") /\ Cong(r, n) /\ r \in Nat
  BY Reduce_ca_Right DEF Right
<1>2. n \in Int /\ Two256 \in Int
  BY FieldConstants DEF Uints
<1> HIDE DEF r
<1>3. Stands(ConvertToMontgomeryRepresentation_c(r), r)
  BY <1>1, ConvertedStands
<1>4. Cong(Two256, Two256)
  BY <1>2, CongShifts
<1>5. Cong(r * Two256, n * Two256) /\ r * Two256 \in Int /\ n * Two256 \in Int
  BY <1>1, <1>2, <1>4, CongProduct
<1>6. QED
  <2> DEFINE w == ConvertToMontgomeryRepresentation_c(r)
  <2>1. w \in ReducedRange("c") /\ Cong(w, r * Two256) /\ w \in Int
    BY <1>3, RangeC DEF Stands
  <2> HIDE DEF w
  <2>2. Cong(w, n * Two256)
    BY <1>5, <2>1, CongTrans
  <2>3. QED
    BY <2>1, <2>2 DEF Stands, w, SetUint256, r

LEMMA UnconvertedIsValue ==
  ASSUME NEW w \in ReducedRange("c")
  PROVE  ToBigInt(w) = Value(w) /\ ToUint256(w) = Value(w)
<1> DEFINE J == InverseOfTwo256
           n == w * J
<1>1. w \in Int /\ J \in Int /\ n \in Int /\ M \in Nat \ {0}
  BY FieldConstants, RangeC
<1>2. Right(ToBigInt(w), n, "f") /\ Right(ToUint256(w), n, "f")
  BY FromMontgomery_Right DEF ToBigInt, ToUint256
<1>3. ASSUME NEW v, Right(v, n, "f")
      PROVE  v = n % M
  <2>1. v \in 0 .. M - 1 /\ Cong(v, n)
    BY <1>3 DEF Right, ReducedRange
  <2> HIDE DEF n, M
  <2>2. v \in Int /\ v = M * 0 + v
    BY <1>1, <2>1
  <2>3. v % M = v
    BY <1>1, <2>1, <2>2, DivisionUnique
  <2>4. v % M = n % M
    BY <1>1, <2>1, <2>2, CongMod
  <2>5. QED
    BY <2>3, <2>4
<1>4. QED
  BY <1>2, <1>3 DEF Value

-----------------------------------------------------------------------------
(* Two representations stand for the same element exactly if they are       *)
(* congruent.                                                               *)

LEMMA SmallRemainder ==
  ASSUME NEW n \in 0 .. M - 1
  PROVE  n % M = n
<1>1. M \in Nat \ {0}
  BY FieldConstants
<1> HIDE DEF M
<1>2. n \in Int /\ n = M * 0 + n
  BY <1>1
<1>3. QED
  BY <1>1, <1>2, DivisionUnique

LEMMA StandsCong ==
  ASSUME NEW w, NEW a \in Int, NEW b \in Int, Stands(w, a), Cong(a, b)
  PROVE  Stands(w, b)
<1>1. Two256 \in Int /\ Cong(Two256, Two256)
  BY FieldConstants, CongShifts
<1>2. w \in ReducedRange("c") /\ w \in Int /\ Cong(w, a * Two256)
  BY RangeC DEF Stands
<1> HIDE DEF Two256
<1>3. a * Two256 \in Int /\ b * Two256 \in Int
  BY <1>1
<1>4. Cong(a * Two256, b * Two256)
  BY <1>1, CongProduct
<1>5. Cong(w, b * Two256)
  BY <1>2, <1>3, <1>4, CongTrans
<1>6. QED
  BY <1>2, <1>5 DEF Stands

LEMMA SameValue ==
  ASSUME NEW x \in ReducedRange("c"), NEW y \in ReducedRange("c")
  PROVE  Value(x) = Value(y) <=> Cong(x, y)
<1> DEFINE v == Value(y)
<1>1. /\ Value(x) \in 0 .. M - 1 /\ Stands(x, Value(x)) /\ x \in Int
      /\ v \in 0 .. M - 1 /\ Stands(y, v) /\ y \in Int
      /\ M \in Nat /\ Two256 \in Int
  BY ValueStands, FieldConstants
<1> HIDE DEF v, M
<1>2. v \in Int /\ v * Two256 \in Int
  BY <1>1
<1>3. Cong(y, v * Two256) /\ Cong(v * Two256, y)
  <2>1. Cong(y, v * Two256)
    BY <1>1 DEF Stands
  <2>2. Cong(y, y)
    BY <1>1, CongShifts
  <2>3. QED
    BY <1>1, <1>2, <2>1, <2>2, CongSum
<1>4. ASSUME Value(x) = v PROVE Cong(x, y)
  <2>1. Cong(x, v * Two256)
    BY <1>1, <1>4 DEF Stands
  <2>2. QED
    BY <1>1, <1>2, <1>3, <2>1, CongTrans
<1>5. ASSUME Cong(x, y) PROVE Value(x) = v
  <2>1. Cong(x, v * Two256)
    BY <1>1, <1>2, <1>3, <1>5, CongTrans
  <2>2. Stands(x, v)
    BY <2>1 DEF Stands
  <2>3. Value(x) = v % M
    BY <1>2, <2>2, StandsFor
  <2>4. QED
    BY <1>1, <2>3, SmallRemainder
<1>6. QED
  BY <1>4, <1>5 DEF v

LEMMA SameResidue ==
  ASSUME NEW x \in ReducedRange("c"), NEW y \in ReducedRange("c"), Cong(x, y)
  PROVE  x = y \/ x = y + M \/ y = x + M
<1>1. /\ M \in Nat \ {0} /\ Two256 \in Nat /\ 3 * M > Two256
      /\ x \in Nat /\ y \in Nat /\ x < Two256 - M /\ y < Two256 - M
  BY FieldConstants, RangeC
<1>2. PICK k \in Int : x = y + k * M
  BY DEF Cong
<1> HIDE DEF M, Two256
<1> DEFINE kM == k * M
<1>3. k >= 2 => kM >= 2 * M
  BY <1>1
<1>4. k <= -2 => kM <= -2 * M
  BY <1>1
<1>5. (k = 1 => kM = M) /\ (k = -1 => kM = -M) /\ (k = 0 => kM = 0) /\ kM \in Int /\ x = y + kM
  BY <1>1, <1>2
<1> HIDE DEF kM
<1>6. k < 2 /\ k > -2
  BY <1>1, <1>3, <1>4, <1>5
<1>7. QED
  BY <1>1, <1>5, <1>6

LEMMA ZeroRecognized ==
  ASSUME NEW w \in ReducedRange("c")
  PROVE  FeIsZero(w) <=> Value(w) = 0
<1>1. /\ Stands(0, 0) /\ Stands(M, 0) /\ M \in Nat \ {0} /\ w \in Nat
  BY ConstantsStand, FieldConstants, RangeC DEF bsFieldElement_64_zero, bsFieldElement_64_zero_alt
<1> HIDE DEF M
<1>2. 0 \in 0 .. M - 1 /\ 0 \in Int
  BY <1>1
<1>3. Value(0) = 0 /\ Value(M) = 0 /\ 0 \in ReducedRange("c")
  BY <1>1, <1>2, StandsFor, SmallRemainder DEF Stands
<1>4. ASSUME Value(w) = 0 PROVE w \in {0, M}
  <2>1. Cong(w, 0)
    BY <1>3, <1>4, SameValue
  <2>2. w = 0 \/ w = 0 + M \/ 0 = w + M
    BY <1>3, <2>1, SameResidue
  <2>3. QED
    BY <1>1, <2>2
<1>5. QED
  BY <1>3, <1>4 DEF FeIsZero

-----------------------------------------------------------------------------
(* Integers are set.                                                        *)

LEMMA BigIntStands ==
  ASSUME NEW n \in Int
  PROVE  Stands(SetBigInt(n), n)
<1> DEFINE T == Two256
           m == IF n < 0 THEN -n ELSE n
           w == (m * T) % M
<1>1. M \in Nat \ {0} /\ T \in Nat /\ 2 * M < T
  BY FieldConstants
<1> HIDE DEF M, T
<1>2. m \in Nat /\ m * T \in Int /\ (n < 0 => 0 - m * T = n * T) /\ (~(n < 0) => m * T = n * T)
  BY <1>1
<1>3. w \in 0 .. M - 1 /\ Cong(w, m * T)
  <2> HIDE DEF m
  <2>1. QED
    BY <1>2, CongOfMod
<1>4. SetBigInt(n) = IF n < 0 THEN M - w ELSE w
  BY DEF SetBigInt, T
<1> HIDE DEF w
<1>5. w \in Nat /\ w < T - M /\ M - w \in Nat /\ M - w < T - M
  BY <1>1, <1>3
<1>6. w \in ReducedRange("c") /\ M - w \in ReducedRange("c")
  BY <1>5, RangeC DEF T
<1>7. CASE n < 0
  <2>1. Cong(0 + M, 0) /\ 0 + M = M
    BY <1>1, CongShifts
  <2>2. Cong(M, 0)
    BY <2>1
  <2> HIDE DEF m
  <2>3. Cong(M - w, 0 - m * T)
    BY <1>1, <1>2, <1>3, <1>5, <2>2, CongSum
  <2>4. QED
    BY <1>2, <1>4, <1>6, <1>7, <2>3 DEF Stands, T
<1>8. CASE ~(n < 0)
  BY <1>2, <1>3, <1>4, <1>6, <1>8 DEF Stands, T
<1>9. QED
  BY <1>7, <1>8

LEMMA WordsFit ==
  ASSUME NEW n \in 0 .. W
  PROVE  n \in ReducedRange("c") /\ n < M
<1>1. /\ W \in Nat /\ W >= 8 /\ W^3 = W * W^2 /\ W^2 = W * W /\ W^3 < M
      /\ M \in Nat \ {0} /\ Two256 \in Nat /\ 2 * M < Two256
  BY WordPowers, WordIsPower, Modulus, FieldConstants
<1> DEFINE X == W^3
           Y == W^2
<1> HIDE DEF W, M, Two256, X, Y
<1>2. Y >= 1 /\ Y \in Nat
  BY <1>1 DEF Y
<1>3. X >= W /\ X \in Nat
  BY <1>1, <1>2 DEF X, Y
<1>4. n \in Nat /\ n < M /\ n < Two256 - M
  BY <1>1, <1>3 DEF X
<1>5. QED
  BY <1>4, RangeC

LEMMA SmallIntegersStand ==
  ASSUME NEW n \in SmallIntegers
  PROVE  /\ n \in Int /\ Stands(FeSetInt64(n), n)
         /\ n >= 0 => Stands(FeSetUint64(n), n) /\ n \in 0 .. M - 1
         /\ n < 0 => -n \in 1 .. M - 1
<1> DEFINE h == W \div 2
<1>1. W \in Nat /\ h \in Nat /\ h <= W /\ n \in -h .. W - 1 /\ M \in Nat
  <2>1. W \in Nat /\ M \in Nat
    BY WordPowers, WordIsPower, FieldConstants
  <2>2. n \in -h .. W - 1
    BY ElementsAssumption
  <2> HIDE DEF W, M
  <2>3. h \in Nat /\ h <= W
    BY <2>1
  <2>4. QED
    BY <2>1, <2>2, <2>3
<1> HIDE DEF W, h, M
<1>2. n \in Int /\ (n >= 0 => n \in 0 .. W) /\ (n < 0 => -n \in 0 .. W)
  BY <1>1
<1>3. CASE n >= 0
  <2>1. Stands(ConvertToMontgomeryRepresentation_c(n), n) /\ n < M
    BY <1>2, <1>3, WordsFit, ConvertedStands
  <2>2. ~(n < 0) /\ n \in 0 .. M - 1
    BY <1>1, <1>2, <1>3, <2>1
  <2>3. QED
    BY <1>2, <1>3, <2>1, <2>2 DEF FeSetInt64, FeSetUint64
<1>4. CASE n < 0
  <2> DEFINE m == -n
             r == FeNeg(m)
  <2>1. m \in ReducedRange("c") /\ m < M /\ m \in Int /\ m >= 1
    <3>1. m \in 0 .. W /\ m >= 1
      BY <1>2, <1>4
    <3> HIDE DEF m
    <3>2. QED
      BY <1>1, <3>1, WordsFit
  <2>2. M \in ReducedRange("c") /\ M \in Nat
    BY ConstantsStand, FieldConstants DEF Stands, bsFieldElement_64_zero_alt
  <2>3. -n \in 1 .. M - 1 /\ ~(n >= 0) /\ M - m = n + M /\ M - m \in Int
    BY <1>2, <1>4, <2>1, <2>2
  <2> HIDE DEF m
  <2>4. Right(r, M - m, "c")
    BY <2>1, <2>2, Sub_c_Right DEF FeNeg, FeSub, bsFieldElement_64_zero_alt
  <2>5. r \in ReducedRange("c") /\ r \in Int /\ Cong(r, M - m)
    BY <2>4, RangeC DEF Right
  <2>6. Cong(r, n)
    <3>1. Cong(M - m, n)
      BY <1>2, <2>3, CongShifts
    <3>2. QED
      BY <1>2, <2>3, <2>5, <3>1, CongTrans
  <2> HIDE DEF r
  <2>7. Stands(ConvertToMontgomeryRepresentation_c(r), n)
    BY <1>2, <2>5, <2>6, ConvertedStands, StandsCong
  <2>8. FeSetInt64(n) = ConvertToMontgomeryRepresentation_c(r)
    BY <1>4, <2>3 DEF FeSetInt64, r, m
  <2>9. QED
    BY <1>2, <1>4, <2>3, <2>7, <2>8
<1>5. QED
  BY <1>2, <1>3, <1>4

-----------------------------------------------------------------------------
(* Inverses: because the modulus is a prime, the least positive number that *)
(* is congruent to a multiple of a is 1.                                    *)

Multiple(a, n) == \E u \in Int : Cong(a * u, n)

LEMMA InverseExists ==
  ASSUME NEW a \in 1 .. M - 1
  PROVE  \E y \in 0 .. M - 1 : (a * y) % M = 1
<1>1. M \in Nat \ {0} /\ a \in Nat /\ a >= 1 /\ a < M
  <2>1. M \in Nat \ {0}
    BY FieldConstants
  <2> HIDE DEF M
  <2>2. QED
    BY <2>1
<1> DEFINE S == {n \in Nat \ {0} : Multiple(a, n)}
<1> HIDE DEF M
<1>2. a \in S
  <2>1. Cong(a * 1, a)
    <3>1. a * 1 = a
      BY <1>1
    <3>2. QED
      BY <1>1, <3>1, CongShifts
  <2>2. QED
    BY <1>1, <2>1 DEF Multiple
<1>3. PICK d \in S : \A m \in S : d <= m
  <2>1. S \subseteq Nat /\ S # {}
    BY <1>2
  <2> HIDE DEF S
  <2>2. QED
    BY <2>1, LeastElement
<1>4. d \in Nat \ {0} /\ Multiple(a, d)
  OBVIOUS
<1>5. d <= a
  <2> HIDE DEF S
  <2>1. QED
    BY <1>2, <1>3
<1>6. PICK u \in Int : Cong(a * u, d)
  BY <1>4 DEF Multiple
<1> DEFINE q == M \div d
           r == M % d
<1>7. M = d * q + r /\ r \in 0 .. d - 1 /\ q \in Int
  <2> HIDE DEF S
  <2>1. M \in Int
    BY <1>1
  <2>2. M \div d \in Int /\ M % d \in 0 .. d - 1 /\ M = d * (M \div d) + (M % d)
    BY <1>4, <2>1, Division
  <2>3. QED
    BY <2>2
<1> HIDE DEF q, r
<1>8. Cong(a * (-(q * u)), r)
  <2>1. a * u \in Int /\ -q \in Int /\ -(q * u) \in Int /\ a * (-(q * u)) \in Int
    BY <1>1, <1>6, <1>7
  <2>2. a * (-(q * u)) = (a * u) * (-q)
    BY <1>1, <1>6, <1>7
  <2>3. Cong(-q, -q)
    BY <2>1, CongShifts
  <2>4. Cong((a * u) * (-q), d * (-q)) /\ d * (-q) \in Int
    <3> DEFINE au == a * u
               p == -q
    <3>1. au \in Int /\ p \in Int /\ Cong(au, d) /\ Cong(p, p) /\ d \in Int
      BY <1>4, <1>6, <2>1, <2>3
    <3> HIDE DEF au, p, S
    <3>2. Cong(au * p, d * p) /\ d * p \in Int
      BY <3>1, CongProduct
    <3>3. QED
      BY <3>2 DEF au, p
  <2>5. d * (-q) = r - M /\ r \in Int
    BY <1>1, <1>4, <1>7
  <2>6. Cong(r - M, r) /\ r - M \in Int
    BY <1>1, <2>5, CongShifts
  <2>7. Cong((a * u) * (-q), r - M) /\ (a * u) * (-q) \in Int
    BY <2>1, <2>2, <2>4, <2>5
  <2>8. Cong((a * u) * (-q), r)
    BY <2>5, <2>6, <2>7, CongTrans
  <2>9. QED
    BY <2>2, <2>8
<1>9. r = 0
  <2>1. SUFFICES ASSUME r # 0 PROVE FALSE
    OBVIOUS
  <2>2. r \in Nat \ {0} /\ r < d
    BY <1>4, <1>7, <2>1
  <2>3. -(q * u) \in Int
    BY <1>6, <1>7
  <2>4. Multiple(a, r)
    BY <1>8, <2>3 DEF Multiple
  <2>5. r \in S
    BY <2>2, <2>4
  <2> HIDE DEF S
  <2>6. d <= r
    BY <1>3, <2>5
  <2>7. QED
    BY <1>4, <2>2, <2>6
<1>10. d = 1
  <2>1. SUFFICES ASSUME d # 1 PROVE FALSE
    OBVIOUS
  <2>2. d \in 2 .. M - 1
    BY <1>1, <1>4, <1>5, <2>1
  <2>3. QED
    BY <1>9, <2>2, PrimeAssumption DEF r, M
<1> DEFINE y == u % M
<1>11. y \in 0 .. M - 1 /\ Cong(y, u) /\ y \in Int
  <2>1. u % M \in 0 .. M - 1 /\ Cong(u % M, u)
    BY CongOfMod
  <2>2. QED
    BY <1>1, <2>1
<1> HIDE DEF y
<1>12. Cong(a * y, a * u) /\ a * y \in Int /\ a * u \in Int
  <2>1. Cong(a, a)
    BY <1>1, CongShifts
  <2>2. QED
    BY <1>1, <1>11, <2>1, CongProduct
<1>13. Cong(a * y, 1)
  BY <1>6, <1>10, <1>12, CongTrans
<1>14. (a * y) % M = 1
  <2>1. 1 \in 0 .. M - 1
    BY <1>1
  <2>2. (a * y) % M = 1 % M
    BY <1>12, <1>13, CongMod
  <2>3. QED
    BY <2>1, <2>2, SmallRemainder
<1>15. QED
  BY <1>11, <1>14

LEMMA InverseRight ==
  ASSUME NEW a \in 1 .. M - 1
  PROVE  BigInt!Inv(a) \in 0 .. M - 1 /\ (a * BigInt!Inv(a)) % M = 1
BY InverseExists DEF BigInt!Inv, M

LEMMA DivisionStands ==
  ASSUME NEW x \in ReducedRange("c"), NEW y \in ReducedRange("c"), ~FeIsZero(y)
  PROVE  /\ Stands(FeInv(y), BigInt!Inv(Value(y)))
         /\ Stands(FeDivide(x, y), Value(x) * BigInt!Inv(Value(y)))
         /\ BigInt!Inv(Value(y)) \in Int
<1> DEFINE i == BigInt!Inv(Value(y))
<1>1. Value(y) \in 0 .. M - 1 /\ Value(y) # 0 /\ M \in Nat
  BY ValueStands, ZeroRecognized, FieldConstants
<1> HIDE DEF M
<1>2. i \in 0 .. M - 1
  <2>1. Value(y) \in 1 .. M - 1
    BY <1>1
  <2>2. QED
    BY <2>1, InverseRight
<1>3. i \in Int
  BY <1>1, <1>2
<1>4. ToBigInt(y) = Value(y)
  BY UnconvertedIsValue
<1> HIDE DEF i
<1>5. FeInv(y) = SetBigInt(i)
  BY <1>4 DEF FeInv, i
<1>6. Stands(FeInv(y), i)
  BY <1>3, <1>5, BigIntStands
<1>7. Value(x) \in Int /\ Stands(x, Value(x))
  BY <1>1, ValueStands
<1>8. Stands(FeDivide(x, y), Value(x) * i)
  BY <1>3, <1>6, <1>7, ProductStands DEF FeDivide
<1>9. QED
  BY <1>3, <1>6, <1>8 DEF i

-----------------------------------------------------------------------------
(* Comparisons.                                                             *)

LEMMA SameReduced ==
  ASSUME NEW a \in 0 .. M - 1, NEW b \in 0 .. M - 1, Cong(a, b)
  PROVE  a = b
<1>1. a \in Int /\ b \in Int
  BY FieldConstants
<1>2. a % M = b % M
  BY <1>1, CongMod
<1>3. QED
  BY <1>2, SmallRemainder

LEMMA NormalizeRight ==
  ASSUME NEW w \in ReducedRange("c")
  PROVE  /\ FeNormalize(w) \in 0 .. M - 1 /\ Right(FeNormalize(w), w, "c")
         /\ Stands(FeNormalize(w), Value(w))
<1> DEFINE n == FeNormalize(w)
<1>1. M \in Nat /\ Two256 \in Nat /\ 3 * M > Two256 /\ 2 * M < Two256
  BY FieldConstants
<1>2. w \in Uints /\ w \in Nat /\ w < Two256 - M
  BY RangeC
<1> HIDE DEF M, Two256
<1>3. Right(n, w, "f")
  BY <1>1, <1>2, Reduce_fb_Right DEF FeNormalize
<1>4. n \in 0 .. M - 1 /\ Cong(n, w)
  BY <1>3 DEF Right, ReducedRange
<1> HIDE DEF n
<1>5. n \in ReducedRange("c")
  BY <1>1, <1>4, RangeC
<1>6. Value(n) = Value(w)
  BY <1>4, <1>5, SameValue
<1>7. QED
  BY <1>4, <1>5, <1>6, ValueStands DEF Right, n

(* If z is x plus the modulus, the highest words tell.                      *)
LEMMA OneLarger ==
  ASSUME NEW z \in ReducedRange("c"), NEW x \in ReducedRange("c"), z = x + M
  PROVE  SecondRepresentation(z, x) /\ ~SecondRepresentation(x, z) /\ FeNormalize(z) = x
<1> DEFINE X == W^3
           s == Top(z)
           t == Top(x)
<1>1. /\ M \in Nat /\ Two256 \in Nat /\ 3 * M > Two256 /\ X \in Nat \ {0} /\ X < M
      /\ z \in Nat /\ x \in Nat /\ z < Two256 - M
      /\ M_3 \in Nat /\ M_3 * X <= M /\ M < M_3 * X + X
      /\ s \in Nat /\ s * X \in Nat /\ s * X <= z /\ z < s * X + X
      /\ t \in Nat /\ t * X \in Nat /\ t * X <= x /\ x < t * X + X
  BY FieldConstants, Modulus, TopOf, RangeC
<1> HIDE DEF M, Two256, X, s, t, M_3
<1>2. M_3 >= 1
  <2>1. M_3 = 0 => M_3 * X = 0
    BY <1>1
  <2>2. QED
    BY <1>1, <2>1
<1>3. s >= t + M_3
  <2> DEFINE a == t + M_3
             b == s + 1
  <2>1. a * X = t * X + M_3 * X /\ b * X = s * X + X /\ M_3 * X \in Int
    BY <1>1
  <2>2. a * X < b * X /\ a \in Int /\ b \in Int
    BY <1>1, <2>1
  <2> HIDE DEF a, b
  <2>3. b <= a => b * X <= a * X
    BY <1>1, <2>2, Monotone
  <2>4. a * X \in Int /\ b * X \in Int
    BY <1>1, <2>2
  <2>5. a < b
    BY <2>2, <2>3, <2>4
  <2>6. QED
    BY <1>1, <2>5 DEF a, b
<1>4. SecondRepresentation(z, x) /\ ~SecondRepresentation(x, z)
  BY <1>1, <1>2, <1>3 DEF SecondRepresentation, s, t
<1>5. FeNormalize(z) = x
  <2>1. x \in 0 .. M - 1
    BY <1>1
  <2>2. FeNormalize(z) \in 0 .. M - 1 /\ Cong(FeNormalize(z), z)
    BY NormalizeRight DEF Right
  <2>3. Cong(z, x)
    BY <1>1, CongShifts
  <2>4. FeNormalize(z) \in Int
    BY <1>1, <2>2
  <2>5. Cong(FeNormalize(z), x)
    BY <1>1, <2>2, <2>3, <2>4, CongTrans
  <2>6. QED
    BY <2>1, <2>2, <2>5, SameReduced
<1>6. QED
  BY <1>4, <1>5

LEMMA EqualRight ==
  ASSUME NEW z \in ReducedRange("c"), NEW x \in ReducedRange("c")
  PROVE  /\ FeIsEqual(z, x).equal \in BOOLEAN
         /\ FeIsEqual(z, x).equal <=> Value(z) = Value(x)
         /\ Right(FeIsEqual(z, x).z, z, "c") /\ Right(FeIsEqual(z, x).x, x, "c")
<1> DEFINE nz == IF SecondRepresentation(z, x) THEN FeNormalize(z) ELSE z
           nx == IF SecondRepresentation(x, z) THEN FeNormalize(x) ELSE x
<1>1. FeIsEqual(z, x) = [equal |-> nz = nx, z |-> nz, x |-> nx]
  BY DEF FeIsEqual
<1>2. z \in Int /\ x \in Int /\ M \in Nat \ {0} /\ Cong(z, z) /\ Cong(x, x)
  BY RangeC, FieldConstants, CongShifts
<1>3. Right(nz, z, "c") /\ Right(nx, x, "c")
  BY <1>2, NormalizeRight DEF Right
<1>4. /\ nz \in ReducedRange("c") /\ nx \in ReducedRange("c") /\ nz \in Int /\ nx \in Int
      /\ Cong(nz, z) /\ Cong(nx, x) /\ Cong(z, nz)
  <2> HIDE DEF nz, nx
  <2>1. nz \in ReducedRange("c") /\ nx \in ReducedRange("c") /\ Cong(nz, z) /\ Cong(nx, x)
    BY <1>3 DEF Right
  <2>2. nz \in Int /\ nx \in Int
    BY <2>1, RangeC
  <2>3. Cong(z, nz)
    BY <1>2, <2>1, <2>2, CongSum
  <2>4. QED
    BY <2>1, <2>2, <2>3
<1>5. ASSUME nz = nx PROVE Cong(z, x)
  <2> HIDE DEF nz, nx
  <2>1. QED
    BY <1>2, <1>4, <1>5, CongTrans
<1>6. ASSUME Cong(z, x) PROVE nz = nx
  <2>1. CASE z = x
    <3>1. M_3 \in Nat /\ M_3 >= 1 /\ Top(x) \in Nat
      <4>1. /\ M_3 \in Nat /\ M_3 * W^3 <= M /\ M < M_3 * W^3 + W^3 /\ W^3 < M /\ W^3 \in Nat
            /\ Top(x) \in Nat
        BY Modulus, FieldConstants, TopOf, RangeC
      <4> DEFINE X == W^3
      <4> HIDE DEF M, M_3, X
      <4>2. M_3 = 0 => M_3 * X = 0
        BY <4>1 DEF X
      <4>3. QED
        BY <1>2, <4>1, <4>2 DEF X
    <3> HIDE DEF M_3
    <3>2. ~SecondRepresentation(x, x)
      BY <3>1 DEF SecondRepresentation
    <3>3. QED
      BY <2>1, <3>2
  <2>2. CASE z = x + M
    BY <2>2, OneLarger
  <2>3. CASE x = z + M
    BY <2>3, OneLarger
  <2>4. QED
    BY <1>6, <2>1, <2>2, <2>3, SameResidue
<1> HIDE DEF nz, nx
<1>7. Cong(z, x) <=> Value(z) = Value(x)
  BY SameValue
<1>8. /\ FeIsEqual(z, x).equal = (nz = nx)
      /\ FeIsEqual(z, x).z = nz /\ FeIsEqual(z, x).x = nx
  BY <1>1
<1>9. FeIsEqual(z, x).equal \in BOOLEAN /\ (FeIsEqual(z, x).equal <=> nz = nx)
  BY <1>8
<1>10. QED
  BY <1>3, <1>5, <1>6, <1>7, <1>8, <1>9

LEMMA NegatedValue ==
  ASSUME NEW x \in ReducedRange("c")
  PROVE  /\ FeNeg(x) \in ReducedRange("c") /\ Value(FeNeg(x)) = BigInt!Neg(Value(x))
         /\ BigInt!Neg(Value(x)) \in 0 .. M - 1
<1>1. Value(x) \in 0 .. M - 1 /\ Stands(x, Value(x)) /\ M \in Nat
  BY ValueStands, FieldConstants
<1> HIDE DEF M
<1>2. Value(x) \in Int /\ -Value(x) \in Int
  BY <1>1
<1>3. Stands(FeNeg(x), -Value(x))
  BY <1>1, <1>2, NegStands
<1>4. Value(FeNeg(x)) = (-Value(x)) % M /\ (-Value(x)) % M \in 0 .. M - 1
  BY <1>2, <1>3, StandsFor, CongOfMod
<1>5. QED
  BY <1>3, <1>4 DEF Stands, BigInt!Neg, BigInt!SetBigInt, M

(* -a = b and a = -b are the same.                                          *)
LEMMA NegSymmetric ==
  ASSUME NEW a \in 0 .. M - 1, NEW b \in 0 .. M - 1
  PROVE  /\ BigInt!Neg(a) = IF a = 0 THEN 0 ELSE M - a
         /\ BigInt!Neg(b) = a <=> a = BigInt!Neg(b)
         /\ BigInt!Neg(b) = a <=> BigInt!Neg(a) = b
<1>1. M \in Nat \ {0} /\ a \in Nat /\ b \in Nat /\ a < M /\ b < M
  BY FieldConstants
<1>2. ASSUME NEW n \in 0 .. M - 1 PROVE BigInt!Neg(n) = IF n = 0 THEN 0 ELSE M - n
  <2>1. BigInt!Neg(n) = (-n) % M
    BY DEF BigInt!Neg, BigInt!SetBigInt, M
  <2> HIDE DEF M
  <2>2. CASE n = 0
    <3>1. -n = M * 0 + 0 /\ 0 \in 0 .. M - 1
      BY <1>1, <2>2
    <3>2. QED
      BY <1>1, <2>1, <2>2, <3>1, DivisionUnique
  <2>3. CASE n # 0
    <3> DEFINE r == M - n
    <3>1. -n = M * (-1) + r /\ r \in 0 .. M - 1 /\ -1 \in Int
      BY <1>1, <2>3
    <3> HIDE DEF r
    <3>2. (M * (-1) + r) % M = r
      BY <1>1, <3>1, DivisionUnique
    <3>3. QED
      BY <2>1, <2>3, <3>1, <3>2 DEF r
  <2>4. QED
    BY <2>2, <2>3
<1> HIDE DEF M
<1>3. QED
  BY <1>1, <1>2

LEMMA Triples ==
  ASSUME NEW e, NEW f, NEW g, NEW h
  PROVE  /\ [equal |-> e, z |-> f, x |-> g].equal = e
         /\ [equal |-> e, z |-> f, x |-> g].z = f
         /\ [equal |-> e, z |-> f, x |-> g].x = g
         /\ [[equal |-> e, z |-> f, x |-> g] EXCEPT !.equal = h] = [equal |-> h, z |-> f, x |-> g]
OBVIOUS

LEMMA CmpAbsRight ==
  ASSUME NEW z \in ReducedRange("c"), NEW x \in ReducedRange("c")
  PROVE  /\ FeCmpAbs(z, x).equal =
              <<Value(z) = Value(x) \/ Value(z) = BigInt!Neg(Value(x)), Value(z) = Value(x)>>
         /\ Right(FeCmpAbs(z, x).z, z, "c") /\ Right(FeCmpAbs(z, x).x, x, "c")
<1> DEFINE same == FeIsEqual(z, x)
           nx == same.x
           nz == same.z
           neg == FeNeg(nx)
           negated == FeIsEqual(neg, nz)
           both == <<TRUE, TRUE>>
           one == <<negated.equal, FALSE>>
<1>1. FeCmpAbs(z, x) = IF same.equal THEN [same EXCEPT !.equal = both]
                       ELSE [equal |-> one, z |-> negated.x, x |-> same.x]
  BY DEF FeCmpAbs
<1>2. /\ same.equal \in BOOLEAN /\ (same.equal <=> Value(z) = Value(x))
      /\ Right(nz, z, "c") /\ Right(nx, x, "c")
  BY EqualRight
<1>3. same = [equal |-> same.equal, z |-> nz, x |-> nx]
  BY DEF FeIsEqual
<1> HIDE DEF same, nz, nx
<1>4. /\ nz \in ReducedRange("c") /\ nx \in ReducedRange("c")
      /\ Value(nz) = Value(z) /\ Value(nx) = Value(x)
  BY <1>2, SameValue DEF Right
<1>5. neg \in ReducedRange("c") /\ Value(neg) = BigInt!Neg(Value(x))
  BY <1>4, NegatedValue
<1> HIDE DEF neg
<1>6. /\ negated.equal \in BOOLEAN /\ (negated.equal <=> BigInt!Neg(Value(x)) = Value(z))
      /\ Right(negated.x, nz, "c")
  BY <1>4, <1>5, EqualRight
<1> HIDE DEF negated
<1> HIDE DEF both, one
<1>7. CASE same.equal
  <2>1. FeCmpAbs(z, x) = [equal |-> both, z |-> nz, x |-> nx]
    <3>1. FeCmpAbs(z, x) = [same EXCEPT !.equal = both]
      BY <1>1, <1>7
    <3>2. QED
      BY <1>3, <3>1, Triples
  <2>2. Value(z) = Value(x)
    BY <1>2, <1>7
  <2>3. /\ FeCmpAbs(z, x).equal = both
        /\ FeCmpAbs(z, x).z = nz /\ FeCmpAbs(z, x).x = nx
    BY <2>1, Triples
  <2>4. (Value(z) = Value(x)) = TRUE /\ (Value(z) = Value(x) \/ Value(z) = BigInt!Neg(Value(x))) = TRUE
    BY <2>2
  <2>5. QED
    BY <1>2, <2>3, <2>4 DEF both
<1>8. CASE ~same.equal
  <2>1. FeCmpAbs(z, x) = [equal |-> one, z |-> negated.x, x |-> nx]
    BY <1>1, <1>8 DEF nx
  <2>2. Value(z) # Value(x)
    BY <1>2, <1>8
  <2>3. Right(negated.x, z, "c")
    <3> DEFINE v == negated.x
    <3>1. v \in ReducedRange("c") /\ Cong(v, nz) /\ Cong(nz, z)
      BY <1>2, <1>6 DEF Right
    <3> HIDE DEF v
    <3>2. v \in Int /\ nz \in Int /\ z \in Int
      BY <1>4, <3>1, RangeC
    <3>3. Cong(v, z)
      BY <3>1, <3>2, CongTrans
    <3>4. QED
      BY <3>1, <3>3 DEF Right, v
  <2>4. /\ negated.equal = (Value(z) = Value(x) \/ Value(z) = BigInt!Neg(Value(x)))
        /\ (Value(z) = Value(x)) = FALSE
    BY <1>6, <2>2
  <2>5. /\ FeCmpAbs(z, x).equal = one
        /\ FeCmpAbs(z, x).z = negated.x /\ FeCmpAbs(z, x).x = nx
    BY <2>1, Triples
  <2>6. QED
    BY <1>2, <2>3, <2>4, <2>5 DEF one
<1>9. QED
  BY <1>2, <1>7, <1>8

-----------------------------------------------------------------------------
(* Methods that look at an element.                                         *)

LEMMA OneRecognized ==
  ASSUME NEW w \in ReducedRange("c")
  PROVE  FeIsOne(w) <=> Value(w) = 1
<1> DEFINE one == bsFieldElement_64_one
<1>1. /\ Stands(one, 1) /\ one = Two256 - 2 * M
      /\ M \in Nat \ {0} /\ Two256 \in Nat /\ 3 * M > Two256 /\ 2 * M < Two256
      /\ w \in Nat /\ w < Two256 - M
  BY ConstantsStand, FieldConstants, RangeC
<1> HIDE DEF M, Two256, one
<1>2. one \in ReducedRange("c") /\ Value(one) = 1 /\ M > 1
  <2>1. W^3 < M /\ W^3 \in Nat \ {0}
    BY FieldConstants
  <2> HIDE DEF W
  <2>2. M > 1
    <3> DEFINE X == W^3
    <3>1. X \in Nat \ {0} /\ X < M
      BY <2>1
    <3> HIDE DEF X
    <3>2. QED
      BY <1>1, <3>1
  <2>3. 1 \in 0 .. M - 1
    BY <1>1, <2>2
  <2>4. Value(one) = 1 % M /\ one \in ReducedRange("c")
    BY <1>1, StandsFor DEF Stands
  <2>5. QED
    BY <2>2, <2>3, <2>4, SmallRemainder
<1>3. ASSUME Value(w) = 1 PROVE w = one
  <2>1. Cong(w, one)
    BY <1>2, <1>3, SameValue
  <2>2. w = one \/ w = one + M \/ one = w + M
    BY <1>2, <2>1, SameResidue
  <2>3. QED
    BY <1>1, <2>2
<1>4. QED
  BY <1>2, <1>3 DEF FeIsOne, one

(* Comparing words from the top compares the numbers.                       *)
LEMMA WordsCompared ==
  ASSUME NEW i \in 0 .. W - 1, NEW j \in 0 .. W - 1, NEW a \in Int, NEW b \in Int
  PROVE  /\ a < b => i + W * a < j + W * b
         /\ a = b /\ i < j => i + W * a < j + W * b
<1>1. W \in Nat
  BY WordIsPower
<1> HIDE DEF W
<1>2. a < b => W * a + W <= W * b
  <2>1. SUFFICES ASSUME a < b PROVE W * a + W <= W * b
    OBVIOUS
  <2>2. a + 1 <= b /\ a + 1 \in Int /\ W * (a + 1) = W * a + W
    BY <1>1, <2>1
  <2>3. W * (a + 1) <= W * b
    BY <1>1, <2>2, Monotone
  <2>4. QED
    BY <2>2, <2>3
<1>3. W * a \in Int /\ W * b \in Int
  BY <1>1
<1>4. QED
  BY <1>1, <1>2, <1>3

LEMMA CmpRight ==
  ASSUME NEW x \in Uints, NEW y \in Uints
  PROVE  /\ Cmp(ToWords(x, 4), ToWords(y, 4)) = 1 <=> x > y
         /\ Cmp(ToWords(x, 4), ToWords(y, 4)) = IF x < y THEN -1 ELSE IF x = y THEN 0 ELSE 1
<1> DEFINE u == ToWords(x, 4)
           v == ToWords(y, 4)
           D == {i \in 0 .. 3 : u[i] # v[i]}
           top == CHOOSE i \in D : \A j \in D : j <= i
<1>1. Two256 = W^4 /\ Two256 \in Nat /\ W \in Nat
  BY WordPowers, WordIsPower
<1>2. x \in Nat /\ y \in Nat /\ x < W^4 /\ y < W^4
  <2> HIDE DEF Two256
  <2>1. x \in 0 .. Two256 - 1 /\ y \in 0 .. Two256 - 1
    BY DEF Uints
  <2>2. QED
    BY <1>1, <2>1
<1>3. /\ \A i \in 0 .. 3 : u[i] \in 0 .. W - 1 /\ v[i] \in 0 .. W - 1
      /\ x = u[0] + W * (u[1] + W * (u[2] + W * u[3]))
      /\ y = v[0] + W * (v[1] + W * (v[2] + W * v[3]))
  BY <1>2, WordsOf
<1>4. Cmp(u, v) = IF D = {} THEN 0 ELSE IF u[top] < v[top] THEN -1 ELSE 1
  BY DEF Cmp
<1> HIDE DEF u, v, W, D
<1> DEFINE x3 == u[3]
           x2 == u[2] + W * x3
           x1 == u[1] + W * x2
           y3 == v[3]
           y2 == v[2] + W * y3
           y1 == v[1] + W * y2
<1>5. /\ x3 \in Int /\ x2 \in Int /\ x1 \in Int /\ y3 \in Int /\ y2 \in Int /\ y1 \in Int
      /\ x = u[0] + W * x1 /\ y = v[0] + W * y1
      /\ u[0] \in 0 .. W - 1 /\ v[0] \in 0 .. W - 1 /\ u[1] \in 0 .. W - 1 /\ v[1] \in 0 .. W - 1
      /\ u[2] \in 0 .. W - 1 /\ v[2] \in 0 .. W - 1 /\ u[3] \in 0 .. W - 1 /\ v[3] \in 0 .. W - 1
  <2>1. \A i \in 0 .. 3 : u[i] \in Int /\ v[i] \in Int
    BY <1>1, <1>3
  <2>2. x3 \in Int /\ y3 \in Int
    BY <2>1
  <2>3. x2 \in Int /\ y2 \in Int
    <3> HIDE DEF x3, y3
    <3>1. QED
      BY <1>1, <2>1, <2>2
  <2>4. x1 \in Int /\ y1 \in Int
    <3> HIDE DEF x2, y2
    <3>1. QED
      BY <1>1, <2>1, <2>3
  <2>5. QED
    BY <1>3, <2>2, <2>3, <2>4
<1>6. /\ x2 = u[2] + W * x3 /\ x1 = u[1] + W * x2 /\ y2 = v[2] + W * y3 /\ y1 = v[1] + W * y2
      /\ x3 = u[3] /\ y3 = v[3]
  OBVIOUS
<1> HIDE DEF x1, x2, x3, y1, y2, y3
<1>7. ASSUME NEW i \in {0, 1, 2, 3}, NEW a \in Int, NEW b \in Int
      PROVE  /\ a < b => u[i] + W * a < v[i] + W * b
             /\ b < a => v[i] + W * b < u[i] + W * a
             /\ a = b /\ u[i] < v[i] => u[i] + W * a < v[i] + W * b
             /\ a = b /\ v[i] < u[i] => v[i] + W * b < u[i] + W * a
  <2>1. u[i] \in 0 .. W - 1 /\ v[i] \in 0 .. W - 1
    BY <1>3
  <2>2. QED
    BY <2>1, WordsCompared
<1>8. /\ x3 < y3 => x2 < y2
      /\ x2 < y2 => x1 < y1
      /\ x1 < y1 => x < y
      /\ y3 < x3 => y2 < x2
      /\ y2 < x2 => y1 < x1
      /\ y1 < x1 => y < x
  BY <1>5, <1>6, <1>7
<1>9. /\ x3 = y3 /\ u[2] < v[2] => x2 < y2
      /\ x3 = y3 /\ v[2] < u[2] => y2 < x2
      /\ x2 = y2 /\ u[1] < v[1] => x1 < y1
      /\ x2 = y2 /\ v[1] < u[1] => y1 < x1
      /\ x1 = y1 /\ u[0] < v[0] => x < y
      /\ x1 = y1 /\ v[0] < u[0] => y < x
  BY <1>5, <1>6, <1>7
<1>10. CASE D = {}
  <2>1. u[0] = v[0] /\ u[1] = v[1] /\ u[2] = v[2] /\ u[3] = v[3]
    BY <1>10 DEF D
  <2>2. x = y
    BY <1>5, <1>6, <2>1
  <2>3. Cmp(u, v) = 0
    BY <1>4, <1>10
  <2>4. QED
    BY <1>2, <2>2, <2>3 DEF u, v
<1>11. CASE D # {}
  <2>1. \E i \in D : \A j \in D : j <= i
    <3>1. D \subseteq 0 .. 3
      BY DEF D
    <3>2. CASE 3 \in D
      BY <3>1, <3>2
    <3>3. CASE 3 \notin D /\ 2 \in D
      BY <3>1, <3>3
    <3>4. CASE 3 \notin D /\ 2 \notin D /\ 1 \in D
      BY <3>1, <3>4
    <3>5. CASE 3 \notin D /\ 2 \notin D /\ 1 \notin D
      <4>1. \A j \in D : j = 0
        BY <3>1, <3>5
      <4>2. PICK j \in D : TRUE
        BY <1>11
      <4>3. QED
        BY <4>1, <4>2
    <3>6. QED
      BY <3>2, <3>3, <3>4, <3>5
  <2>2. top \in D /\ \A j \in D : j <= top
    BY <2>1
  <2> HIDE DEF top
  <2>3. top \in 0 .. 3 /\ u[top] # v[top] /\ \A j \in 0 .. 3 : j > top => u[j] = v[j]
    BY <2>2 DEF D
  <2>4. u[top] \in Int /\ v[top] \in Int
    BY <1>1, <1>3, <2>3
  <2>5. (u[top] < v[top] => x < y) /\ (v[top] < u[top] => y < x)
    <3>1. CASE top = 3
      BY <1>5, <1>6, <1>8, <3>1
    <3>2. CASE top = 2
      <4>1. x3 = y3
        BY <1>6, <2>3, <3>2
      <4>2. QED
        BY <1>8, <1>9, <3>2, <4>1
    <3>3. CASE top = 1
      <4>1. u[3] = v[3] /\ u[2] = v[2]
        BY <2>3, <3>3
      <4>2. x2 = y2
        BY <1>6, <4>1
      <4>3. QED
        BY <1>8, <1>9, <3>3, <4>2
    <3>4. CASE top = 0
      <4>1. u[3] = v[3] /\ u[2] = v[2] /\ u[1] = v[1]
        BY <2>3, <3>4
      <4>2. x1 = y1
        BY <1>6, <4>1
      <4>3. QED
        BY <1>9, <3>4, <4>2
    <3>5. QED
      BY <2>3, <3>1, <3>2, <3>3, <3>4
  <2>6. Cmp(u, v) = IF u[top] < v[top] THEN -1 ELSE 1
    BY <1>4, <1>11 DEF top
  <2>7. QED
    BY <1>2, <2>3, <2>4, <2>5, <2>6 DEF u, v
<1>12. QED
  BY <1>10, <1>11

LEMMA SignRight ==
  ASSUME NEW w \in ReducedRange("c")
  PROVE  FeSign(w) = BigInt!Sign(Value(w))
<1> DEFINE a == Value(w)
           k == (M - 1) \div 2
<1>1. a \in 0 .. M - 1 /\ M \in Nat \ {0} /\ Two256 \in Nat /\ 2 * M < Two256 /\ M % 2 = 1
  BY ValueStands, FieldConstants, Modulus
<1>2. (FeIsZero(w) <=> a = 0) /\ ToNonMontgomery_fc(w) = a
  BY ZeroRecognized, UnconvertedIsValue DEF ToBigInt
<1> HIDE DEF a, M
<1>3. M = 2 * k + 1 /\ k \in Nat /\ (M + 1) \div 2 = k + 1
  <2> DEFINE q == M \div 2
  <2>1. M = 2 * q + 1 /\ q \in Nat
    BY <1>1
  <2> HIDE DEF q
  <2>2. M - 1 = 2 * q + 0 /\ M + 1 = 2 * (q + 1) + 0
    BY <2>1
  <2>3. (M - 1) \div 2 = q /\ (M + 1) \div 2 = q + 1
    BY <2>1, <2>2
  <2>4. QED
    BY <2>1, <2>3
<1> HIDE DEF k
<1>4. a \in Uints /\ k \in Uints
  BY <1>1, <1>3 DEF Uints
<1>5. Cmp(ToWords(a, 4), ToWords(k, 4)) = 1 <=> a > k
  BY <1>4, CmpRight
<1>6. FeSign(w) = IF a = 0 THEN 0
                  ELSE IF Cmp(ToWords(a, 4), ToWords(k, 4)) = 1 THEN -1 ELSE 1
  BY <1>2 DEF FeSign, k
<1>7. BigInt!Sign(a) = IF a = 0 THEN 0 ELSE IF a < k + 1 THEN 1 ELSE -1
  BY <1>3 DEF BigInt!Sign, M
<1>8. (a < k + 1) <=> ~(a > k)
  BY <1>1, <1>3
<1>9. QED
  <2>1. CASE a = 0
    BY <1>6, <1>7, <2>1 DEF a
  <2>2. CASE a # 0 /\ a > k
    BY <1>5, <1>6, <1>7, <1>8, <2>2 DEF a
  <2>3. CASE a # 0 /\ ~(a > k)
    BY <1>5, <1>6, <1>7, <1>8, <2>3 DEF a
  <2>4. QED
    BY <2>1, <2>2, <2>3

LEMMA WholeWords ==
  ASSUME NEW a \in Nat, a < Two256
  PROVE  (\E i \in 1 .. 3 : ToWords(a, 4)[i] # 0) <=> a >= W
<1> DEFINE u == ToWords(a, 4)
<1>1. Two256 = W^4 /\ W \in Nat /\ W >= 8
  BY WordPowers, Modulus, WordIsPower
<1>2. /\ \A i \in 0 .. 3 : u[i] \in 0 .. W - 1
      /\ a = u[0] + W * (u[1] + W * (u[2] + W * u[3]))
  BY <1>1, WordsOf
<1> HIDE DEF u, W
<1> DEFINE t2 == u[2] + W * u[3]
           t1 == u[1] + W * t2
<1>3. /\ u[0] \in 0 .. W - 1 /\ u[1] \in 0 .. W - 1 /\ u[2] \in 0 .. W - 1 /\ u[3] \in 0 .. W - 1
  BY <1>2
<1>4. W * u[3] \in Nat /\ (u[3] >= 1 => W * u[3] >= 1) /\ (u[3] = 0 => W * u[3] = 0)
  <2> DEFINE n == u[3]
  <2>1. n \in Nat
    BY <1>1, <1>3
  <2> HIDE DEF n
  <2>2. W * n \in Nat /\ (n = 0 => W * n = 0)
    BY <1>1, <2>1
  <2>3. n >= 1 => W * n >= W * 1
    BY <1>1, <2>1, Monotone
  <2>4. QED
    BY <1>1, <2>2, <2>3 DEF n
<1>5. t2 \in Nat /\ (t2 = 0 <=> u[2] = 0 /\ u[3] = 0)
  BY <1>1, <1>3, <1>4
<1> HIDE DEF t2
<1>6. W * t2 \in Nat /\ (t2 >= 1 => W * t2 >= 1) /\ (t2 = 0 => W * t2 = 0)
  <2>1. t2 >= 1 => W * t2 >= W * 1
    BY <1>1, <1>5, Monotone
  <2>2. W * t2 \in Nat /\ (t2 = 0 => W * t2 = 0)
    BY <1>1, <1>5
  <2>3. QED
    BY <1>1, <2>1, <2>2
<1>7. t1 \in Nat /\ (t1 = 0 <=> u[1] = 0 /\ t2 = 0)
  BY <1>1, <1>3, <1>5, <1>6
<1>8. a = u[0] + W * t1
  BY <1>2 DEF t2
<1> HIDE DEF t1
<1>9. (t1 >= 1 => W * t1 >= W) /\ (t1 = 0 => W * t1 = 0) /\ W * t1 \in Nat
  <2>1. t1 >= 1 => W * t1 >= W * 1
    BY <1>1, <1>7, Monotone
  <2>2. W * t1 \in Nat /\ (t1 = 0 => W * t1 = 0)
    BY <1>1, <1>7
  <2>3. QED
    BY <1>1, <2>1, <2>2
<1>10. a >= W <=> t1 # 0
  BY <1>1, <1>3, <1>7, <1>8, <1>9
<1>11. t1 # 0 <=> u[1] # 0 \/ u[2] # 0 \/ u[3] # 0
  BY <1>5, <1>7
<1>12. (\E i \in 1 .. 3 : u[i] # 0) <=> u[1] # 0 \/ u[2] # 0 \/ u[3] # 0
  BY SMT
<1>13. QED
  BY <1>10, <1>11, <1>12 DEF u

LEMMA Uint64Right ==
  ASSUME NEW w \in ReducedRange("c")
  PROVE  /\ ToUint64Fails(w) <=> BigInt!ToUint64Fails(Value(w), W)
         /\ ~ToUint64Fails(w) => FeToUint64(w) = Value(w)
<1> DEFINE a == Value(w)
<1>1. /\ a \in Nat /\ a < Two256 /\ ToNonMontgomery_fc(w) = a /\ W \in Nat \ {0}
  <2>1. a \in 0 .. M - 1 /\ M \in Nat /\ Two256 \in Nat /\ 2 * M < Two256 /\ W \in Nat /\ W >= 8
    BY ValueStands, FieldConstants, WordIsPower, Modulus
  <2>2. ToNonMontgomery_fc(w) = a
    BY UnconvertedIsValue DEF ToBigInt
  <2> HIDE DEF a, M, Two256, W
  <2>3. QED
    BY <2>1, <2>2
<1> HIDE DEF a, W
<1>2. (\E i \in 1 .. 3 : ToWords(a, 4)[i] # 0) <=> a >= W
  BY <1>1, WholeWords
<1>3. ToUint64Fails(w) <=> \E i \in 1 .. 3 : ToWords(a, 4)[i] # 0
  BY <1>1 DEF ToUint64Fails
<1>4. FeToUint64(w) = a % W
  BY <1>1 DEF FeToUint64
<1>5. ~(a >= W) => a % W = a
  <2>1. SUFFICES ASSUME ~(a >= W) PROVE a % W = a
    OBVIOUS
  <2>2. a = W * 0 + a /\ a \in 0 .. W - 1
    BY <1>1, <2>1
  <2>3. QED
    BY <1>1, <2>2, DivisionUnique
<1>6. QED
  BY <1>2, <1>3, <1>4, <1>5 DEF a, BigInt!ToUint64Fails

(* Quotients that are 0.                                                    *)
LEMMA QuotientZero ==
  ASSUME NEW n \in Nat, NEW d \in Nat \ {0}
  PROVE  n \div d = 0 <=> n < d
<1>1. n \div d \in Nat /\ n % d \in 0 .. d - 1 /\ n = d * (n \div d) + (n % d)
  BY NatDivision
<1> DEFINE q == n \div d
           r == n % d
<1> HIDE DEF q, r
<1>2. q \in Nat /\ r \in 0 .. d - 1 /\ n = d * q + r
  BY <1>1 DEF q, r
<1>3. q = 0 => d * q = 0
  BY <1>2
<1>4. q >= 1 => d * q >= d * 1
  BY <1>2, Monotone
<1>5. d * q \in Nat
  BY <1>2
<1>6. q = 0 <=> n < d
  BY <1>2, <1>3, <1>4, <1>5
<1>7. QED
  BY <1>6 DEF q

LEMMA Int64Right ==
  ASSUME NEW w \in ReducedRange("c")
  PROVE  /\ FeToInt64Fails(w) <=> BigInt!ToInt64Fails(Value(w), W)
         /\ ~FeToInt64Fails(w) => FeToInt64(w) = BigInt!ToInt64(Value(w))
<1> DEFINE a == Value(w)
           h == W \div 2
           n == M - a
<1>1. /\ a \in 0 .. M - 1 /\ M \in Nat \ {0} /\ M % 2 = 1 /\ W \in Nat /\ W >= 8
      /\ ToUint256(w) = a
  BY ValueStands, FieldConstants, WordIsPower, Modulus, UnconvertedIsValue
<1>2. W < M
  <2>1. W \in 0 .. W
    BY <1>1
  <2>2. QED
    BY <2>1, WordsFit
<1> HIDE DEF a, W, M
<1>3. h \in Nat /\ h >= 1 /\ 2 * h <= W
  BY <1>1
<1>4. n \in Nat \ {0} /\ a \in Nat
  BY <1>1
<1> HIDE DEF h, n
<1>5. ToInt64Fits(a) <=> a < h
  BY <1>1, <1>3, <1>4, QuotientZero DEF ToInt64Fits, h
<1>6. ToInt64FitsNegated(a) <=> n <= h
  <2>1. ToInt64FitsNegated(a) <=> n < W /\ n % W <= h
    BY DEF ToInt64FitsNegated, n, h
  <2>2. n < W => n % W = n
    <3>1. SUFFICES ASSUME n < W PROVE n % W = n
      OBVIOUS
    <3>2. n = W * 0 + n /\ n \in 0 .. W - 1
      BY <1>1, <1>4, <3>1
    <3>3. QED
      BY <1>1, <3>2, DivisionUnique
  <2>3. n <= h => n < W
    BY <1>1, <1>3, <1>4
  <2>4. QED
    BY <2>1, <2>2, <2>3
<1>7. /\ FeToInt64Fails(w) <=> ~(a < h) /\ ~(n <= h)
      /\ FeToInt64(w) = IF a < h THEN a ELSE -n
  <2>1. FeToInt64(w) = IF a < h THEN a ELSE a - M
    BY <1>1, <1>5 DEF FeToInt64
  <2>2. a - M = -n
    BY <1>1 DEF n
  <2>3. QED
    BY <1>1, <1>5, <1>6, <2>1, <2>2 DEF FeToInt64Fails
<1>8. PICK k \in Nat : M = 2 * k + 1 /\ (M + 1) \div 2 = k + 1
  <2> DEFINE q == M \div 2
  <2>1. M = 2 * q + 1 /\ q \in Nat
    BY <1>1
  <2> HIDE DEF q
  <2>2. M + 1 = 2 * (q + 1) + 0
    BY <2>1
  <2>3. (M + 1) \div 2 = q + 1
    BY <2>1, <2>2
  <2>4. QED
    BY <2>1, <2>3
<1>9. BigInt!Sign(a) = IF a = 0 THEN 0 ELSE IF a < k + 1 THEN 1 ELSE -1
  BY <1>8 DEF BigInt!Sign, M
<1>10. BigInt!Neg(a) = IF a = 0 THEN 0 ELSE n
  BY <1>1, NegSymmetric DEF n
<1>11. BigInt!ToInt64(a) = IF a < k + 1 THEN a ELSE -n
  <2>1. BigInt!ToInt64(a) = IF BigInt!Sign(a) >= 0 THEN a ELSE -BigInt!Neg(a)
    BY DEF BigInt!ToInt64
  <2>2. CASE a < k + 1
    <3>1. BigInt!Sign(a) \in {0, 1}
      BY <1>9, <2>2
    <3>2. BigInt!Sign(a) >= 0
      BY <3>1
    <3>3. QED
      BY <2>1, <2>2, <3>2
  <2>3. CASE ~(a < k + 1)
    <3>1. a # 0
      BY <1>8, <2>3
    <3>2. BigInt!Sign(a) = -1
      BY <1>9, <2>3, <3>1
    <3>3. ~(BigInt!Sign(a) >= 0)
      BY <3>2
    <3>4. QED
      BY <1>10, <2>1, <2>3, <3>1, <3>3
  <2>4. QED
    BY <2>2, <2>3
<1>12. a < k + 1 => ~(n <= h)
  BY <1>1, <1>2, <1>3, <1>4, <1>8 DEF n
<1>13. ~(a < k + 1) => ~(a < h)
  BY <1>1, <1>2, <1>3, <1>4, <1>8
<1>14. BigInt!ToInt64Fails(a, W) <=> BigInt!ToInt64(a) \notin (-h) .. h - 1
  BY DEF BigInt!ToInt64Fails, h
<1>15. a < k + 1 => (BigInt!ToInt64(a) \notin (-h) .. h - 1 <=> ~(a < h))
  <2>1. SUFFICES ASSUME a < k + 1 PROVE a \notin (-h) .. h - 1 <=> ~(a < h)
    BY <1>11
  <2>2. QED
    BY <1>3, <1>4
<1>16. ~(a < k + 1) => (BigInt!ToInt64(a) \notin (-h) .. h - 1 <=> ~(n <= h))
  <2>1. SUFFICES ASSUME ~(a < k + 1) PROVE -n \notin (-h) .. h - 1 <=> ~(n <= h)
    BY <1>11
  <2>2. QED
    BY <1>3, <1>4
<1>17. QED
  <2>1. CASE a < k + 1
    BY <1>7, <1>11, <1>12, <1>14, <1>15, <2>1 DEF a
  <2>2. CASE ~(a < k + 1)
    BY <1>7, <1>11, <1>13, <1>14, <1>16, <2>2 DEF a
  <2>3. QED
    BY <2>1, <2>2

LEMMA RerandomizedRight ==
  ASSUME NEW w \in ReducedRange("c"), NEW seed \in {0, 1}
  PROVE  /\ RerandomizeRepresentation(w, seed) \in ReducedRange("c")
         /\ Value(RerandomizeRepresentation(w, seed)) = Value(w)
         /\ \A x \in ReducedRange("c") : Value(x) = Value(w) =>
              RerandomizeRepresentation(x, seed) = RerandomizeRepresentation(w, seed)
<1> DEFINE n == FeNormalize(w)
<1>1. n \in 0 .. M - 1 /\ n \in ReducedRange("c") /\ Cong(n, w) /\ M \in Nat
  BY NormalizeRight, FieldConstants DEF Right
<1>2. ASSUME NEW x \in ReducedRange("c"), Value(x) = Value(w)
      PROVE  FeNormalize(x) = n
  <2>1. Cong(x, w)
    BY <1>2, SameValue
  <2>2. FeNormalize(x) \in 0 .. M - 1 /\ Cong(FeNormalize(x), x)
    BY NormalizeRight DEF Right
  <2> HIDE DEF n
  <2>3. FeNormalize(x) \in Int /\ n \in Int /\ x \in Int /\ w \in Int
    BY <1>1, <2>2, RangeC, FieldConstants
  <2>4. Cong(w, n)
    <3>1. Cong(w, w)
      BY <2>3, CongShifts
    <3>2. QED
      BY <1>1, <2>3, <3>1, CongSum
  <2>5. Cong(x, n)
    BY <2>1, <2>3, <2>4, CongTrans
  <2>6. Cong(FeNormalize(x), n)
    BY <2>2, <2>3, <2>5, CongTrans
  <2>7. QED
    BY <1>1, <2>2, <2>6, SameReduced
<1>3. RerandomizeRepresentation(w, seed) = IF seed % 2 = 1 /\ IsReduced(n + M, "c") THEN n + M ELSE n
  BY DEF RerandomizeRepresentation
<1>4. ASSUME NEW x \in ReducedRange("c"), Value(x) = Value(w)
      PROVE  RerandomizeRepresentation(x, seed) = RerandomizeRepresentation(w, seed)
  BY <1>2, <1>3, <1>4 DEF RerandomizeRepresentation
<1> HIDE DEF n
<1>5. IsReduced(n + M, "c") => n + M \in ReducedRange("c")
  <2>1. montgomeryBound = Two256 - M /\ n + M \in Nat
    BY <1>1, Constants
  <2>2. IsReduced(n + M, "c") => n + M < Two256 - M
    BY <2>1 DEF IsReduced
  <2>3. QED
    BY <2>1, <2>2, RangeC
<1>6. Value(n) = Value(w)
  BY <1>1, SameValue
<1>7. IsReduced(n + M, "c") => Value(n + M) = Value(w)
  <2>1. Cong(n + M, n)
    BY <1>1, CongShifts
  <2>2. QED
    BY <1>1, <1>5, <1>6, <2>1, SameValue
<1>8. QED
  BY <1>1, <1>3, <1>4, <1>5, <1>6, <1>7

-----------------------------------------------------------------------------
(* Bit lengths.                                                             *)

LEMMA WordPowersOfTwo ==
  /\ W^0 = 2^(0 * WordBits) /\ W^1 = 2^(1 * WordBits) /\ W^2 = 2^(2 * WordBits)
  /\ W^3 = 2^(3 * WordBits)
<1>1. WordBits \in Nat \ {0} /\ 2^0 = 1
  BY MorePowersOfTwo
<1>2. W = 2^WordBits
  BY DEF W
<1>3. W^0 = 1 /\ W^1 = W /\ W^2 = W * W /\ W^3 = W * W^2
  BY WordPowers
<1> HIDE DEF W
<1>4. 2^(WordBits + WordBits) = 2^WordBits * 2^WordBits
  BY <1>1, PowersAdd
<1>5. 2^(WordBits + 2 * WordBits) = 2^WordBits * 2^(2 * WordBits)
  <2>1. 2 * WordBits \in Nat /\ WordBits + 2 * WordBits <= 4 * WordBits
    BY <1>1
  <2>2. QED
    BY <1>1, <2>1, PowersAdd
<1>6. /\ 0 * WordBits = 0 /\ 1 * WordBits = WordBits /\ WordBits + WordBits = 2 * WordBits
      /\ WordBits + 2 * WordBits = 3 * WordBits
  BY <1>1
<1>7. QED
  BY <1>1, <1>2, <1>3, <1>4, <1>5, <1>6

LEMMA Len64Right ==
  ASSUME NEW w \in 1 .. W - 1
  PROVE  /\ Len64(w) \in 1 .. WordBits
         /\ w < 2^Len64(w) /\ 2^(Len64(w) - 1) <= w
<1>1. /\ WordBits \in Nat \ {0} /\ 2^0 = 1 /\ W \in Nat
      /\ \A n \in 0 .. WordBits : 2^n \in Nat \ {0}
  <2>1. /\ WordBits \in Nat \ {0} /\ 2^0 = 1
        /\ \A n \in 0 .. 4 * WordBits : 2^n \in Nat \ {0}
    BY MorePowersOfTwo
  <2>2. \A n \in 0 .. WordBits : n \in 0 .. 4 * WordBits
    BY <2>1
  <2>3. QED
    BY <2>1, <2>2, WordIsPower
<1>2. W = 2^WordBits
  BY DEF W
<1> HIDE DEF W
<1>3. w \in Nat /\ w >= 1 /\ w < W
  BY <1>1
<1> DEFINE S == {l \in 0 .. WordBits : w < 2^l}
<1>4. PICK l \in S : \A m \in S : l <= m
  <2>1. S \subseteq Nat /\ S # {}
    BY <1>1, <1>2, <1>3
  <2> HIDE DEF S
  <2>2. QED
    BY <2>1, LeastElement
<1>5. l \in 0 .. WordBits /\ w < 2^l
  OBVIOUS
<1>6. l = 0 \/ w >= 2^(l - 1)
  <2>1. SUFFICES ASSUME l # 0 PROVE w >= 2^(l - 1)
    OBVIOUS
  <2>2. l - 1 \in 0 .. WordBits /\ l - 1 < l
    BY <1>1, <1>5, <2>1
  <2>3. l - 1 \notin S
    <3> HIDE DEF S
    <3>1. QED
      BY <1>1, <1>4, <1>5, <2>2
  <2>4. ~(w < 2^(l - 1)) /\ 2^(l - 1) \in Nat
    BY <1>1, <2>2, <2>3
  <2>5. QED
    BY <1>3, <2>4
<1>7. Len64(w) \in 0 .. WordBits /\ w < 2^Len64(w) /\ (Len64(w) = 0 \/ w >= 2^(Len64(w) - 1))
  BY <1>5, <1>6 DEF Len64
<1> DEFINE n == Len64(w)
<1> HIDE DEF n
<1>8. n \in 0 .. WordBits /\ w < 2^n /\ (n = 0 \/ w >= 2^(n - 1))
  BY <1>7 DEF n
<1>9. n # 0
  <2>1. SUFFICES ASSUME n = 0 PROVE FALSE
    OBVIOUS
  <2>2. w < 1
    BY <1>1, <1>8, <2>1
  <2>3. QED
    BY <1>3, <2>2
<1>10. n - 1 \in 0 .. WordBits /\ n \in 1 .. WordBits
  BY <1>1, <1>8, <1>9
<1>11. 2^(n - 1) \in Nat
  BY <1>1, <1>10
<1>12. 2^(n - 1) <= w
  BY <1>3, <1>8, <1>9, <1>11
<1>13. QED
  BY <1>8, <1>10, <1>12 DEF n

(* The highest word that is not 0.                                          *)
LEMMA TopWord ==
  ASSUME NEW e \in Nat, e < W^4, NEW t \in 0 .. 3, ToWords(e, 4)[t] # 0,
         \A j \in 0 .. 3 : j > t => ToWords(e, 4)[j] = 0
  PROVE  /\ ToWords(e, 4)[t] \in 1 .. W - 1
         /\ ToWords(e, 4)[t] * W^t <= e /\ e < (ToWords(e, 4)[t] + 1) * W^t
<1> DEFINE u == ToWords(e, 4)
<1>1. /\ W \in Nat /\ W >= 8 /\ W^0 = 1 /\ W^1 = W /\ W^2 = W * W /\ W^3 = W * W^2
  BY WordPowers, Modulus, WordIsPower
<1>2. /\ \A i \in 0 .. 3 : u[i] \in 0 .. W - 1
      /\ e = u[0] + W * (u[1] + W * (u[2] + W * u[3]))
  BY WordsOf
<1>3. u[t] # 0 /\ \A j \in 0 .. 3 : j > t => u[j] = 0
  OBVIOUS
<1> HIDE DEF u, W
<1>4. /\ u[0] \in 0 .. W - 1 /\ u[1] \in 0 .. W - 1 /\ u[2] \in 0 .. W - 1 /\ u[3] \in 0 .. W - 1
      /\ u[t] \in 1 .. W - 1
  BY <1>1, <1>2, <1>3
<1> DEFINE V2 == W * W
           V3 == W * V2
           lo2 == u[0] + W * u[1]
           lo3 == lo2 + V2 * u[2]
<1>5. e = u[0] + W * u[1] + V2 * u[2] + V3 * u[3] /\ W * u[1] \in Nat
  <2> DEFINE u0 == u[0]
             u1 == u[1]
             u2 == u[2]
             u3 == u[3]
  <2>1. u0 \in Nat /\ u1 \in Nat /\ u2 \in Nat /\ u3 \in Nat /\ e = u0 + W * (u1 + W * (u2 + W * u3))
    BY <1>1, <1>2, <1>4
  <2> HIDE DEF u0, u1, u2, u3
  <2>2. u0 + W * (u1 + W * (u2 + W * u3)) = u0 + W * u1 + V2 * u2 + V3 * u3
    BY <1>1, <2>1
  <2>3. W * u1 \in Nat
    BY <1>1, <2>1
  <2>4. QED
    BY <2>1, <2>2, <2>3 DEF u0, u1, u2, u3
<1>6. V2 \in Nat /\ V3 \in Nat
  <2>1. V2 \in Nat
    BY <1>1
  <2> HIDE DEF V2
  <2>2. QED
    BY <1>1, <2>1
<1>7. lo2 \in Nat /\ lo2 < V2
  <2>1. u[1] <= W - 1 /\ u[1] \in Int /\ W - 1 \in Int
    BY <1>1, <1>4
  <2>2. W * u[1] <= W * (W - 1)
    BY <1>1, <2>1, Monotone
  <2>3. W * (W - 1) = V2 - W
    BY <1>1
  <2> HIDE DEF V2
  <2>4. QED
    BY <1>1, <1>4, <1>5, <1>6, <2>2, <2>3
<1>8. lo3 \in Nat /\ lo3 < V3 /\ V2 * u[2] \in Nat
  <2>1. u[2] <= W - 1 /\ u[2] \in Nat /\ W - 1 \in Int
    BY <1>1, <1>4
  <2> HIDE DEF lo2
  <2>2. V2 * u[2] <= V2 * (W - 1) /\ V2 * u[2] \in Nat
    <3> HIDE DEF V2
    <3>1. V2 * u[2] <= V2 * (W - 1)
      BY <1>6, <2>1, Monotone
    <3>2. V2 * u[2] \in Nat
      BY <1>6, <2>1
    <3>3. QED
      BY <3>1, <3>2
  <2>3. V2 * (W - 1) = V3 - V2
    <3> HIDE DEF V2
    <3>1. QED
      BY <1>1, <1>6
  <2> HIDE DEF V2, V3
  <2>4. QED
    BY <1>6, <1>7, <2>2, <2>3
<1>9. e = lo3 + V3 * u[3]
  BY <1>5
<1>10. e = lo2 + V2 * u[2] + V3 * u[3] /\ e = lo2 + (V2 * u[2] + V3 * u[3])
  <2>1. V3 * u[3] \in Int
    <3> HIDE DEF V3
    <3>1. QED
      BY <1>1, <1>4, <1>6
  <2> HIDE DEF V2, V3
  <2>2. QED
    BY <1>4, <1>5, <1>8, <2>1
<1>11. W^0 = 1 /\ W^1 = W /\ W^2 = V2 /\ W^3 = V3
  BY <1>1
<1> HIDE DEF V2, V3, lo2, lo3
<1>12. CASE t = 3
  <2>1. u[3] * V3 = V3 * u[3] /\ (u[3] + 1) * V3 = V3 * u[3] + V3 /\ V3 * u[3] \in Nat
    BY <1>1, <1>4, <1>6
  <2>2. QED
    BY <1>4, <1>6, <1>8, <1>9, <1>11, <1>12, <2>1 DEF u
<1>13. CASE t = 2
  <2>1. u[3] = 0
    BY <1>3, <1>13
  <2>2. V3 * u[3] = 0
    BY <1>6, <2>1
  <2>3. u[2] * V2 = V2 * u[2] /\ (u[2] + 1) * V2 = V2 * u[2] + V2
    BY <1>1, <1>4, <1>6
  <2>4. u[2] * V2 <= e /\ e < (u[2] + 1) * V2
    BY <1>4, <1>6, <1>7, <1>8, <1>10, <2>2, <2>3
  <2>5. u[t] = u[2] /\ W^t = V2
    BY <1>11, <1>13
  <2>6. QED
    BY <1>4, <2>4, <2>5 DEF u
<1>14. CASE t = 1
  <2>1. u[3] = 0 /\ u[2] = 0
    BY <1>3, <1>14
  <2>2. V3 * u[3] = 0 /\ V2 * u[2] = 0
    BY <1>6, <2>1
  <2>3. u[1] * W = W * u[1] /\ (u[1] + 1) * W = W * u[1] + W
    BY <1>1, <1>4
  <2>4. e = u[0] + W * u[1]
    BY <1>1, <1>4, <1>5, <2>2
  <2>5. u[1] * W <= e /\ e < (u[1] + 1) * W
    BY <1>1, <1>4, <1>5, <2>3, <2>4
  <2>6. u[t] = u[1] /\ W^t = W
    BY <1>11, <1>14
  <2>7. QED
    BY <1>4, <2>5, <2>6 DEF u
<1>15. CASE t = 0
  <2>1. u[3] = 0 /\ u[2] = 0 /\ u[1] = 0
    BY <1>3, <1>15
  <2>2. V3 * u[3] = 0 /\ V2 * u[2] = 0 /\ W * u[1] = 0
    BY <1>1, <1>6, <2>1
  <2>3. e = u[0] /\ u[0] * 1 = u[0] /\ (u[0] + 1) * 1 = u[0] + 1 /\ u[0] \in Nat
    BY <1>1, <1>4, <1>5, <2>2
  <2>4. QED
    BY <1>4, <1>11, <1>15, <2>3 DEF u
<1>16. QED
  BY <1>12, <1>13, <1>14, <1>15

LEMMA BitLenRight ==
  ASSUME NEW e \in Uints, e # 0
  PROVE  LET L == BitLen(ToWords(e, 4))
         IN  L \in 1 .. 4 * WordBits /\ 2^(L - 1) <= e /\ e < 2^L
<1> DEFINE u == ToWords(e, 4)
           D == {i \in 0 .. 3 : u[i] # 0}
           t == CHOOSE i \in D : \A j \in D : j <= i
           L == BitLen(u)
           l == Len64(u[t])
           h == t * WordBits
<1>1. e \in Nat /\ e < W^4
  <2>1. Two256 = W^4 /\ Two256 \in Nat /\ e \in 0 .. Two256 - 1
    BY WordPowers DEF Uints
  <2> HIDE DEF Two256
  <2>2. QED
    BY <2>1
<1>2. D # {}
  <2>1. SUFFICES ASSUME D = {} PROVE FALSE
    OBVIOUS
  <2>2. e = u[0] + W * (u[1] + W * (u[2] + W * u[3])) /\ W \in Nat
    BY <1>1, WordsOf, WordIsPower
  <2>3. u[0] = 0 /\ u[1] = 0 /\ u[2] = 0 /\ u[3] = 0
    BY <2>1
  <2> HIDE DEF u, W
  <2>4. e = 0
    BY <2>2, <2>3
  <2>5. QED
    BY <2>4
<1>3. L = l + h
  BY <1>2 DEF BitLen
<1>4. t \in D /\ \A j \in D : j <= t
  <2>1. \E i \in D : \A j \in D : j <= i
    <3> HIDE DEF u
    <3>1. D \subseteq 0 .. 3
      OBVIOUS
    <3> HIDE DEF D
    <3>2. CASE 3 \in D
      BY <3>1, <3>2
    <3>3. CASE 3 \notin D /\ 2 \in D
      BY <3>1, <3>3
    <3>4. CASE 3 \notin D /\ 2 \notin D /\ 1 \in D
      BY <3>1, <3>4
    <3>5. CASE 3 \notin D /\ 2 \notin D /\ 1 \notin D
      <4>1. \A j \in D : j = 0
        BY <3>1, <3>5
      <4>2. PICK j \in D : TRUE
        BY <1>2
      <4>3. QED
        BY <4>1, <4>2
    <3>6. QED
      BY <3>2, <3>3, <3>4, <3>5
  <2> HIDE DEF D
  <2>2. QED
    BY <2>1
<1>5. t \in 0 .. 3 /\ u[t] # 0 /\ \A j \in 0 .. 3 : j > t => u[j] = 0
  <2> HIDE DEF t, u
  <2>1. t \in 0 .. 3 /\ u[t] # 0
    BY <1>4
  <2>2. ASSUME NEW j \in 0 .. 3, j > t PROVE u[j] = 0
    BY <1>4, <2>1, <2>2
  <2>3. QED
    BY <2>1, <2>2
<1> HIDE DEF D, t
<1>6. u[t] \in 1 .. W - 1 /\ u[t] * W^t <= e /\ e < (u[t] + 1) * W^t
  BY <1>1, <1>5, TopWord
<1>7. l \in 1 .. WordBits /\ u[t] < 2^l /\ 2^(l - 1) <= u[t]
  BY <1>6, Len64Right
<1>8. /\ WordBits \in Nat \ {0} /\ W \in Nat
      /\ \A n \in 0 .. 4 * WordBits : 2^n \in Nat \ {0}
  BY MorePowersOfTwo, WordIsPower
<1>9. W^t = 2^h
  <2>1. CASE t = 0
    BY <2>1, WordPowersOfTwo
  <2>2. CASE t = 1
    BY <2>2, WordPowersOfTwo
  <2>3. CASE t = 2
    BY <2>3, WordPowersOfTwo
  <2>4. CASE t = 3
    BY <2>4, WordPowersOfTwo
  <2>5. QED
    BY <1>5, <2>1, <2>2, <2>3, <2>4
<1>10. h \in Nat /\ h <= 3 * WordBits
  BY <1>5, <1>8
<1> HIDE DEF u, l, h, L, W
<1>11. /\ l \in Nat /\ l - 1 \in Nat /\ l + h <= 4 * WordBits /\ (l - 1) + h <= 4 * WordBits
       /\ (l - 1) + h = L - 1 /\ L \in 1 .. 4 * WordBits
       /\ l \in 0 .. 4 * WordBits /\ l - 1 \in 0 .. 4 * WordBits /\ h \in 0 .. 4 * WordBits
  BY <1>3, <1>7, <1>8, <1>10
<1>12. 2^L = 2^l * 2^h /\ 2^(L - 1) = 2^(l - 1) * 2^h
  <2>1. 2^(l + h) = 2^l * 2^h
    BY <1>10, <1>11, PowersAdd
  <2>2. 2^((l - 1) + h) = 2^(l - 1) * 2^h
    BY <1>10, <1>11, PowersAdd
  <2>3. QED
    BY <1>3, <1>11, <2>1, <2>2
<1> DEFINE H == 2^h
           A == 2^l
           B == 2^(l - 1)
           U == u[t]
<1>13. H \in Nat /\ A \in Nat /\ B \in Nat /\ U \in Nat /\ B <= U /\ U + 1 <= A
  <2>1. H \in Nat /\ A \in Nat /\ B \in Nat
    BY <1>8, <1>11
  <2>2. U \in Nat
    BY <1>6, <1>8
  <2> HIDE DEF H, A, B, U
  <2>3. U < A /\ B <= U
    BY <1>7 DEF A, B, U
  <2>4. QED
    BY <2>1, <2>2, <2>3
<1>14. U * H <= e /\ e < (U + 1) * H /\ 2^L = A * H /\ 2^(L - 1) = B * H
  BY <1>6, <1>9, <1>12
<1> HIDE DEF H, A, B, U
<1>15. B * H <= U * H /\ (U + 1) * H <= A * H /\ U + 1 \in Int
  BY <1>13, Monotone
<1>16. B * H \in Nat /\ U * H \in Nat /\ (U + 1) * H \in Nat /\ A * H \in Nat
  BY <1>13
<1>17. B * H <= e /\ e < A * H
  BY <1>1, <1>14, <1>15, <1>16
<1>18. QED
  BY <1>11, <1>14, <1>17 DEF L, u

-----------------------------------------------------------------------------
(* Exponentiation: the powers of the reference implementation.              *)

PowersOf(f, a, e) == f = [i \in 0 .. e |-> IF i = 0 THEN BigInt!SetBigInt(1) ELSE BigInt!Mul(f[i - 1], a)]

LEMMA PowersExist ==
  ASSUME NEW a, NEW e \in Nat
  PROVE  \E f : PowersOf(f, a, e)
<1> DEFINE Bad == {n \in Nat : ~ \E f : PowersOf(f, a, n)}
<1>1. ASSUME Bad # {} PROVE FALSE
  <2>1. PICK n \in Bad : \A m \in Bad : n <= m
    <3>1. Bad \subseteq Nat
      OBVIOUS
    <3> HIDE DEF Bad
    <3>2. QED
      BY <1>1, <3>1, LeastElement
  <2>2. n \in Nat /\ ~ \E f : PowersOf(f, a, n)
    OBVIOUS
  <2>3. CASE n = 0
    <3> DEFINE g == [i \in 0 .. 0 |-> BigInt!SetBigInt(1)]
    <3>1. g = [i \in 0 .. 0 |-> IF i = 0 THEN BigInt!SetBigInt(1) ELSE BigInt!Mul(g[i - 1], a)]
      <4>1. \A i \in 0 .. 0 : i = 0
        OBVIOUS
      <4>2. QED
        BY <4>1
    <3>2. PowersOf(g, a, n)
      BY <2>3, <3>1 DEF PowersOf
    <3>3. QED
      BY <2>2, <3>2
  <2>4. CASE n # 0
    <3>1. n - 1 \in Nat /\ n - 1 < n
      BY <2>2, <2>4
    <3>2. n - 1 \notin Bad
      <4> HIDE DEF Bad
      <4>1. QED
        BY <2>1, <2>2, <3>1
    <3>3. PICK f : PowersOf(f, a, n - 1)
      BY <3>1, <3>2
    <3> DEFINE g == [i \in 0 .. n |-> IF i < n THEN f[i] ELSE BigInt!Mul(f[n - 1], a)]
    <3>4. ASSUME NEW i \in 0 .. n
          PROVE  g[i] = IF i = 0 THEN BigInt!SetBigInt(1) ELSE BigInt!Mul(g[i - 1], a)
      <4>1. \A j \in 0 .. n - 1 : f[j] = IF j = 0 THEN BigInt!SetBigInt(1) ELSE BigInt!Mul(f[j - 1], a)
        BY <3>3 DEF PowersOf
      <4>2. CASE i = n
        <5>1. i # 0 /\ i - 1 \in 0 .. n /\ i - 1 < n
          BY <2>2, <3>1, <4>2
        <5>2. g[i - 1] = f[n - 1] /\ g[i] = BigInt!Mul(f[n - 1], a)
          BY <2>2, <4>2, <5>1
        <5>3. QED
          BY <5>1, <5>2
      <4>3. CASE i # n
        <5>1. i \in 0 .. n - 1 /\ i < n
          BY <2>2, <4>3
        <5>2. g[i] = f[i]
          BY <5>1
        <5>3. i # 0 => i - 1 \in 0 .. n /\ i - 1 < n
          BY <2>2, <5>1
        <5>4. i # 0 => g[i - 1] = f[i - 1]
          BY <5>3
        <5> HIDE DEF g
        <5>5. QED
          BY <4>1, <5>1, <5>2, <5>4
      <4>4. QED
        BY <4>2, <4>3
    <3>5. g = [i \in 0 .. n |-> g[i]]
      OBVIOUS
    <3> HIDE DEF g
    <3>6. PowersOf(g, a, n)
      BY <3>4, <3>5 DEF PowersOf
    <3>7. QED
      BY <2>2, <3>6
  <2>5. QED
    BY <2>3, <2>4
<1>2. QED
  BY <1>1

LEMMA PowersAgree ==
  ASSUME NEW a, NEW e \in Nat, NEW d \in Nat, d <= e, NEW f, NEW g,
         PowersOf(f, a, e), PowersOf(g, a, d)
  PROVE  \A i \in 0 .. d : g[i] = f[i]
<1> DEFINE Bad == {i \in 0 .. d : g[i] # f[i]}
<1>1. /\ \A i \in 0 .. e : f[i] = IF i = 0 THEN BigInt!SetBigInt(1) ELSE BigInt!Mul(f[i - 1], a)
      /\ \A i \in 0 .. d : g[i] = IF i = 0 THEN BigInt!SetBigInt(1) ELSE BigInt!Mul(g[i - 1], a)
  BY DEF PowersOf
<1>2. ASSUME Bad # {} PROVE FALSE
  <2>1. PICK n \in Bad : \A m \in Bad : n <= m
    <3>1. Bad \subseteq Nat
      OBVIOUS
    <3> HIDE DEF Bad
    <3>2. QED
      BY <1>2, <3>1, LeastElement
  <2>2. n \in 0 .. d /\ n \in 0 .. e /\ g[n] # f[n] /\ n \in Int
    OBVIOUS
  <2>3. n # 0
    BY <1>1, <2>2
  <2>4. n - 1 \in 0 .. d /\ n - 1 < n
    BY <2>2, <2>3
  <2>5. n - 1 \notin Bad
    <3> HIDE DEF Bad
    <3>1. ~(n <= n - 1)
      BY <2>2
    <3>2. QED
      BY <2>1, <3>1
  <2>6. g[n - 1] = f[n - 1]
    BY <2>4, <2>5
  <2>7. QED
    BY <1>1, <2>2, <2>3, <2>6
<1>3. QED
  BY <1>2

LEMMA ExpStep ==
  ASSUME NEW a, NEW n \in Nat
  PROVE  /\ BigInt!Exp(a, 0) = BigInt!SetBigInt(1)
         /\ BigInt!Exp(a, n + 1) = BigInt!Mul(BigInt!Exp(a, n), a)
<1> DEFINE P(e) == CHOOSE f : PowersOf(f, a, e)
<1>1. ASSUME NEW e \in Nat PROVE PowersOf(P(e), a, e) /\ BigInt!Exp(a, e) = P(e)[e]
  <2>1. PowersOf(P(e), a, e)
    BY PowersExist
  <2>2. BigInt!Exp(a, e) = P(e)[e]
    BY DEF BigInt!Exp, PowersOf
  <2>3. QED
    BY <2>1, <2>2
<1>2. /\ PowersOf(P(0), a, 0) /\ BigInt!Exp(a, 0) = P(0)[0]
      /\ PowersOf(P(n), a, n) /\ BigInt!Exp(a, n) = P(n)[n]
      /\ n + 1 \in Nat /\ PowersOf(P(n + 1), a, n + 1) /\ BigInt!Exp(a, n + 1) = P(n + 1)[n + 1]
  BY <1>1
<1> DEFINE p == P(0)
           f == P(n)
           g == P(n + 1)
<1> HIDE DEF P, p, f, g
<1>3. /\ PowersOf(p, a, 0) /\ BigInt!Exp(a, 0) = p[0]
      /\ PowersOf(f, a, n) /\ BigInt!Exp(a, n) = f[n]
      /\ PowersOf(g, a, n + 1) /\ BigInt!Exp(a, n + 1) = g[n + 1]
  BY <1>2 DEF p, f, g
<1>4. p[0] = BigInt!SetBigInt(1)
  <2>1. p = [i \in 0 .. 0 |-> IF i = 0 THEN BigInt!SetBigInt(1) ELSE BigInt!Mul(p[i - 1], a)]
    BY <1>3 DEF PowersOf
  <2>2. 0 \in 0 .. 0
    OBVIOUS
  <2>3. QED
    BY <2>1, <2>2
<1>5. g[n + 1] = BigInt!Mul(g[n], a)
  <2>1. g = [i \in 0 .. n + 1 |-> IF i = 0 THEN BigInt!SetBigInt(1) ELSE BigInt!Mul(g[i - 1], a)]
    BY <1>3 DEF PowersOf
  <2>2. n + 1 \in 0 .. n + 1 /\ n + 1 # 0 /\ (n + 1) - 1 = n
    OBVIOUS
  <2>3. g[n + 1] = BigInt!Mul(g[(n + 1) - 1], a)
    BY <2>1, <2>2
  <2>4. QED
    BY <2>2, <2>3
<1>6. f[n] = g[n]
  <2>1. n <= n + 1 /\ n \in 0 .. n /\ n + 1 \in Nat
    OBVIOUS
  <2>2. \A i \in 0 .. n : f[i] = g[i]
    BY <1>3, <2>1, PowersAgree
  <2>3. QED
    BY <2>1, <2>2
<1>7. QED
  BY <1>3, <1>4, <1>5, <1>6

LEMMA ExpRange ==
  ASSUME NEW a \in 0 .. M - 1, NEW n \in Nat
  PROVE  BigInt!Exp(a, n) \in 0 .. M - 1
<1> DEFINE E(i) == BigInt!Exp(a, i)
           Bad == {i \in Nat : E(i) \notin 0 .. M - 1}
<1>1. M \in Nat \ {0} /\ a \in Int
  BY FieldConstants
<1>2. E(0) = 1 % M /\ \A i \in Nat : E(i + 1) = (E(i) * a) % M
  BY ExpStep DEF BigInt!SetBigInt, BigInt!Mul, M
<1> HIDE DEF E, M
<1>3. ASSUME Bad # {} PROVE FALSE
  <2>1. PICK k \in Bad : \A m \in Bad : k <= m
    <3>1. Bad \subseteq Nat
      OBVIOUS
    <3> HIDE DEF Bad
    <3>2. QED
      BY <1>3, <3>1, LeastElement
  <2>2. k \in Nat /\ E(k) \notin 0 .. M - 1
    OBVIOUS
  <2>3. E(0) \in 0 .. M - 1
    BY <1>1, <1>2, CongOfMod, SMTT(60)
  <2>4. k # 0
    BY <2>2, <2>3
  <2>5. k - 1 \in Nat /\ (k - 1) + 1 = k
    BY <2>2, <2>4
  <2>6. k - 1 \notin Bad
    <3> HIDE DEF Bad
    <3>1. ~(k <= k - 1)
      BY <2>2
    <3>2. QED
      BY <2>1, <3>1
  <2>7. E(k - 1) \in 0 .. M - 1
    BY <2>5, <2>6
  <2>8. E(k - 1) * a \in Int
    <3>1. E(k - 1) \in Int
      BY <1>1, <2>7
    <3>2. QED
      BY <1>1, <3>1
  <2>9. E(k) = (E(k - 1) * a) % M
    BY <1>2, <2>5
  <2>10. QED
    BY <2>2, <2>8, <2>9, CongOfMod
<1>4. QED
  BY <1>3 DEF E

(* One more factor, and twice as many.                                      *)
LEMMA ExpMore ==
  ASSUME NEW a \in 0 .. M - 1, NEW n \in Nat
  PROVE  /\ BigInt!Exp(a, n) \in Int /\ BigInt!Exp(a, 0) = 1
         /\ Cong(BigInt!Exp(a, n + 1), BigInt!Exp(a, n) * a)
<1>1. M \in Nat \ {0} /\ M > 1 /\ a \in Int
  <2>1. M \in Nat \ {0} /\ W^3 \in Nat \ {0} /\ W^3 < M
    BY FieldConstants
  <2> HIDE DEF M
  <2>2. QED
    BY <2>1
<1>2. BigInt!Exp(a, 0) = 1 % M /\ BigInt!Exp(a, n + 1) = (BigInt!Exp(a, n) * a) % M
  BY ExpStep DEF BigInt!SetBigInt, BigInt!Mul, M
<1>3. BigInt!Exp(a, n) \in 0 .. M - 1
  BY ExpRange
<1> HIDE DEF M
<1>4. BigInt!Exp(a, n) \in Int
  BY <1>1, <1>3
<1>5. BigInt!Exp(a, n) * a \in Int
  BY <1>1, <1>4
<1>6. 1 \in 0 .. M - 1
  BY <1>1
<1>7. 1 % M = 1
  BY <1>6, SmallRemainder
<1>8. QED
  BY <1>2, <1>4, <1>5, <1>7, CongOfMod

LEMMA ExpDouble ==
  ASSUME NEW a \in 0 .. M - 1, NEW n \in Nat
  PROVE  Cong(BigInt!Exp(a, 2 * n), BigInt!Exp(a, n) * BigInt!Exp(a, n))
<1> DEFINE E(i) == BigInt!Exp(a, i)
           Bad == {i \in Nat : ~Cong(E(2 * i), E(i) * E(i))}
<1>1. a \in Int
  BY FieldConstants
<1>2. E(0) = 1 /\ \A i \in Nat : E(i) \in Int /\ Cong(E(i + 1), E(i) * a)
  BY ExpMore
<1> HIDE DEF E
<1>3. ASSUME Bad # {} PROVE FALSE
  <2>1. PICK k \in Bad : \A m \in Bad : k <= m
    <3>1. Bad \subseteq Nat
      OBVIOUS
    <3> HIDE DEF Bad
    <3>2. QED
      BY <1>3, <3>1, LeastElement
  <2>2. k \in Nat /\ ~Cong(E(2 * k), E(k) * E(k))
    OBVIOUS
  <2>3. k # 0
    <3>1. SUFFICES ASSUME k = 0 PROVE FALSE
      OBVIOUS
    <3>2. 2 * k = 0 /\ 1 * 1 = 1
      BY <3>1
    <3>3. Cong(1, 1)
      BY CongShifts
    <3>4. QED
      BY <1>2, <2>2, <3>1, <3>2, <3>3
  <2> DEFINE m == k - 1
  <2>4. m \in Nat /\ k = m + 1 /\ 2 * m \in Nat /\ 2 * m + 1 \in Nat /\ 2 * k = (2 * m + 1) + 1
    BY <2>2, <2>3
  <2>5. m \notin Bad
    <3> HIDE DEF Bad
    <3>1. ~(k <= m)
      BY <2>2
    <3>2. QED
      BY <2>1, <3>1
  <2>6. Cong(E(2 * m), E(m) * E(m))
    BY <2>4, <2>5
  <2> HIDE DEF m, Bad
  <2> DEFINE p == E(m)
             P == E(2 * m)
             Q == E(2 * m + 1)
             R == E(2 * k)
             K == E(k)
  <2>7. /\ p \in Int /\ P \in Int /\ Q \in Int /\ R \in Int /\ K \in Int
        /\ Cong(P, p * p) /\ Cong(Q, P * a) /\ Cong(R, Q * a) /\ Cong(K, p * a)
    <3>1. p \in Int /\ P \in Int /\ Q \in Int /\ K \in Int
      BY <1>2, <2>2, <2>4
    <3>2. 2 * k \in Nat
      BY <2>2
    <3>3. R \in Int
      BY <1>2, <3>2
    <3>4. Cong(P, p * p) /\ Cong(Q, P * a) /\ Cong(R, Q * a) /\ Cong(K, p * a)
      BY <1>2, <2>4, <2>6
    <3>5. QED
      BY <3>1, <3>3, <3>4
  <2>8. ~Cong(R, K * K)
    BY <2>2
  <2> HIDE DEF p, P, Q, R, K
  <2>9. /\ p * p \in Int /\ P * a \in Int /\ Q * a \in Int /\ p * a \in Int /\ K * K \in Int
        /\ (P * a) * a \in Int /\ (p * p) * a \in Int /\ ((p * p) * a) * a \in Int /\ (p * a) * (p * a) \in Int
    BY <1>1, <2>7
  <2>10. ((p * p) * a) * a = (p * a) * (p * a)
    BY <1>1, <2>7
  <2>11. Cong(a, a)
    BY <1>1, CongShifts
  <2>12. Cong(P * a, (p * p) * a)
    BY <1>1, <2>7, <2>9, <2>11, CongProduct
  <2>13. Cong(Q, (p * p) * a)
    BY <2>7, <2>9, <2>12, CongTrans
  <2>14. Cong(Q * a, ((p * p) * a) * a)
    BY <1>1, <2>7, <2>9, <2>11, <2>13, CongProduct
  <2>15. Cong(R, (p * a) * (p * a))
    BY <2>7, <2>9, <2>10, <2>14, CongTrans
  <2>16. Cong(K * K, (p * a) * (p * a))
    BY <2>7, <2>9, CongProduct
  <2>17. Cong((p * a) * (p * a), K * K)
    BY <2>9, <2>16, CongSum
  <2>18. QED
    BY <2>7, <2>8, <2>9, <2>15, <2>17, CongTrans
<1>4. QED
  BY <1>3 DEF E

(* The bits of the exponent.                                                *)
LEMMA Halved ==
  ASSUME NEW e \in Nat, NEW d \in Nat \ {0}
  PROVE  /\ (e \div d) % 2 \in {0, 1} /\ e \div (2 * d) \in Nat
         /\ e \div d = 2 * (e \div (2 * d)) + ((e \div d) % 2)
<1> DEFINE q == e \div d
           r == e % d
           p == q \div 2
           b == q % 2
<1>1. q \in Nat /\ r \in 0 .. d - 1 /\ e = d * q + r
  BY NatDivision
<1> HIDE DEF q, r
<1>2. p \in Nat /\ b \in 0 .. 1 /\ q = 2 * p + b
  BY <1>1, NatDivision
<1> HIDE DEF p, b
<1> DEFINE dp == d * p
           s == d * b + r
<1>3. b = 0 \/ b = 1
  BY <1>2
<1>4. d * q = 2 * dp + d * b
  BY <1>1, <1>2
<1>5. d * b \in 0 .. d
  <2>1. CASE b = 0
    BY <2>1
  <2>2. CASE b = 1
    BY <2>2
  <2>3. QED
    BY <1>3, <2>1, <2>2
<1>6. s \in 0 .. 2 * d - 1 /\ 2 * d \in Nat \ {0}
  BY <1>1, <1>5
<1>7. (2 * d) * p = 2 * dp /\ dp \in Nat
  BY <1>2
<1>8. e = (2 * d) * p + s
  <2> DEFINE db == d * b
             dq == d * q
             tp == (2 * d) * p
  <2>1. e = dq + r /\ dq = 2 * dp + db /\ db \in Nat /\ tp = 2 * dp /\ s = db + r /\ dq \in Nat /\ r \in Nat
    BY <1>1, <1>4, <1>5, <1>7
  <2> HIDE DEF dp, db, dq, tp, s
  <2>2. e = tp + s
    BY <1>7, <2>1
  <2>3. QED
    BY <2>2 DEF tp
<1> HIDE DEF dp
<1>9. p \in Int
  BY <1>2
<1> HIDE DEF s
<1>10. e \div (2 * d) = p
  BY <1>6, <1>8, <1>9, DivisionUnique
<1> DEFINE c == e \div (2 * d)
<1>11. b \in {0, 1} /\ c \in Nat /\ q = 2 * c + b
  <2>1. c = p
    BY <1>10
  <2> HIDE DEF c
  <2>2. QED
    BY <1>2, <1>3, <2>1
<1> HIDE DEF c
<1>12. QED
  BY <1>11 DEF q, b, c

-----------------------------------------------------------------------------
(* Square and multiply.                                                     *)

(* What the loop does with the bit i.                                       *)
Accumulated(base, e, L, i, next) ==
  IF i = L - 1 THEN Reduce_ca(base)
  ELSE LET square == FeSquare(next) IN IF (e \div 2^i) % 2 = 1 THEN FeMul(square, base) ELSE square

Accumulates(f, base, e, L, low) ==
  f = [i \in low .. L - 1 |-> Accumulated(base, e, L, i, f[i + 1])]

LEMMA AccumulatorExists ==
  ASSUME NEW base, NEW e, NEW L \in Nat \ {0}
  PROVE  \E f : Accumulates(f, base, e, L, 0)
<1> DEFINE Bad == {k \in 0 .. L - 1 : ~ \E f : Accumulates(f, base, e, L, L - 1 - k)}
<1>1. ASSUME Bad # {} PROVE FALSE
  <2>1. PICK k \in Bad : \A m \in Bad : k <= m
    <3>1. Bad \subseteq Nat
      OBVIOUS
    <3> HIDE DEF Bad
    <3>2. QED
      BY <1>1, <3>1, LeastElement
  <2>2. k \in 0 .. L - 1 /\ ~ \E f : Accumulates(f, base, e, L, L - 1 - k)
    OBVIOUS
  <2>3. CASE k = 0
    <3> DEFINE g == [i \in L - 1 .. L - 1 |-> Reduce_ca(base)]
    <3>1. \A i \in L - 1 .. L - 1 : i = L - 1
      OBVIOUS
    <3>2. ASSUME NEW i \in L - 1 .. L - 1
          PROVE  g[i] = Accumulated(base, e, L, i, g[i + 1])
      BY <3>1 DEF Accumulated
    <3>3. g = [i \in L - 1 .. L - 1 |-> g[i]]
      OBVIOUS
    <3> HIDE DEF g
    <3>4. g = [i \in L - 1 .. L - 1 |-> Accumulated(base, e, L, i, g[i + 1])]
      BY <3>2, <3>3
    <3>5. L - 1 - k = L - 1
      BY <2>3
    <3>6. Accumulates(g, base, e, L, L - 1 - k)
      BY <3>4, <3>5 DEF Accumulates
    <3>7. QED
      BY <2>2, <3>6
  <2>4. CASE k # 0
    <3> DEFINE j == L - 1 - k
    <3>1. k - 1 \in 0 .. L - 1 /\ k - 1 < k /\ L - 1 - (k - 1) = j + 1 /\ j \in Nat /\ j < L - 1
      BY <2>2, <2>4
    <3>2. k - 1 \notin Bad
      <4> HIDE DEF Bad
      <4>1. ~(k <= k - 1)
        BY <2>2
      <4>2. QED
        BY <2>1, <4>1
    <3>3. PICK f : Accumulates(f, base, e, L, L - 1 - (k - 1))
      BY <3>1, <3>2
    <3>4. f = [i \in j + 1 .. L - 1 |-> Accumulated(base, e, L, i, f[i + 1])]
      BY <3>1, <3>3 DEF Accumulates
    <3> HIDE DEF j, Bad
    <3> DEFINE g == [i \in j .. L - 1 |-> IF i = j THEN Accumulated(base, e, L, j, f[j + 1]) ELSE f[i]]
    <3>5. ASSUME NEW i \in j .. L - 1
          PROVE  g[i] = Accumulated(base, e, L, i, g[i + 1])
      <4>1. CASE i = j
        <5>1. j + 1 \in j .. L - 1 /\ j + 1 # j
          BY <3>1
        <5>2. g[j + 1] = f[j + 1]
          BY <5>1
        <5>3. g[j] = Accumulated(base, e, L, j, f[j + 1])
          BY <4>1
        <5> HIDE DEF g
        <5>4. QED
          BY <4>1, <5>2, <5>3
      <4>2. CASE i # j
        <5>1. i \in j + 1 .. L - 1 /\ i + 1 # j
          BY <3>1, <4>2
        <5>2. g[i] = f[i]
          BY <4>2
        <5>3. f[i] = Accumulated(base, e, L, i, f[i + 1])
          BY <3>4, <5>1
        <5>4. CASE i = L - 1
          <6> HIDE DEF g
          <6>1. QED
            BY <5>2, <5>3, <5>4 DEF Accumulated
        <5>5. CASE i # L - 1
          <6>1. i + 1 \in j .. L - 1
            BY <3>1, <5>1, <5>5
          <6>2. g[i + 1] = f[i + 1]
            BY <5>1, <6>1
          <6> HIDE DEF g
          <6>3. QED
            BY <5>2, <5>3, <6>2
        <5>6. QED
          BY <5>4, <5>5
      <4>3. QED
        BY <4>1, <4>2
    <3>6. g = [i \in j .. L - 1 |-> g[i]]
      OBVIOUS
    <3> HIDE DEF g
    <3>7. g = [i \in j .. L - 1 |-> Accumulated(base, e, L, i, g[i + 1])]
      BY <3>5, <3>6
    <3>8. Accumulates(g, base, e, L, L - 1 - k)
      BY <3>7 DEF Accumulates, j
    <3>9. QED
      BY <2>2, <3>8
  <2>5. QED
    BY <2>3, <2>4
<1>2. L - 1 \in 0 .. L - 1 /\ L - 1 - (L - 1) = 0
  OBVIOUS
<1>3. \E f : Accumulates(f, base, e, L, L - 1 - (L - 1))
  BY <1>1, <1>2
<1>4. QED
  BY <1>2, <1>3

(* After the bit i, the accumulator stands for the power with the exponent  *)
(* shifted by i bits.                                                       *)
LEMMA AccumulatorStands ==
  ASSUME NEW base \in ReducedRange("c"), NEW e \in Nat, NEW L \in 1 .. 4 * WordBits,
         2^(L - 1) <= e, e < 2^L, NEW f, Accumulates(f, base, e, L, 0)
  PROVE  Stands(f[0], BigInt!Exp(Value(base), e))
<1> DEFINE a == Value(base)
           E(n) == BigInt!Exp(a, n)
           Bad == {k \in 0 .. L - 1 : ~Stands(f[L - 1 - k], E(e \div 2^(L - 1 - k)))}
<1>1. a \in 0 .. M - 1 /\ a \in Int /\ Stands(base, a) /\ base \in Uints /\ L \in Nat \ {0}
  <2>1. a \in 0 .. M - 1 /\ Stands(base, a) /\ base \in Uints /\ M \in Nat /\ WordBits \in Nat
    BY ValueStands, RangeC, FieldConstants, WordBitsAssumption
  <2> HIDE DEF M, a
  <2>2. QED
    BY <2>1
<1>2. \A i \in 0 .. L - 1 : f[i] = Accumulated(base, e, L, i, f[i + 1])
  BY DEF Accumulates
<1>3. /\ 2^0 = 1
      /\ \A i \in 0 .. L - 1 : 2^(i + 1) = 2 * 2^i /\ 2^i \in Nat \ {0} /\ e \div 2^i \in Nat
  <2>1. /\ 2^0 = 1 /\ WordBits \in Nat
        /\ \A n \in 0 .. 4 * WordBits - 1 : 2^(n + 1) = 2 * 2^n
        /\ \A n \in 0 .. 4 * WordBits : 2^n \in Nat \ {0}
    BY MorePowersOfTwo
  <2>2. ASSUME NEW i \in 0 .. L - 1
        PROVE  2^(i + 1) = 2 * 2^i /\ 2^i \in Nat \ {0} /\ e \div 2^i \in Nat
    <3>1. i \in 0 .. 4 * WordBits - 1 /\ i \in 0 .. 4 * WordBits
      BY <2>1
    <3>2. 2^(i + 1) = 2 * 2^i /\ 2^i \in Nat \ {0}
      BY <2>1, <3>1
    <3>3. QED
      BY <3>2, NatDivision
  <2>3. QED
    BY <2>1, <2>2
<1>4. \A n \in Nat : /\ E(n) \in Int /\ E(0) = 1 /\ Cong(E(n + 1), E(n) * a)
                     /\ Cong(E(2 * n), E(n) * E(n))
  BY <1>1, ExpMore, ExpDouble
<1> HIDE DEF E, a
<1>5. ASSUME Bad # {} PROVE FALSE
  <2>1. PICK k \in Bad : \A m \in Bad : k <= m
    <3>1. Bad \subseteq Nat
      BY <1>1
    <3> HIDE DEF Bad
    <3>2. QED
      BY <1>5, <3>1, LeastElement
  <2> DEFINE i == L - 1 - k
  <2>2. k \in 0 .. L - 1 /\ i \in 0 .. L - 1 /\ ~Stands(f[i], E(e \div 2^i))
    BY <1>1
  <2>3. k # 0
    <3>1. SUFFICES ASSUME k = 0 PROVE FALSE
      OBVIOUS
    <3>2. i = L - 1
      BY <1>1, <3>1
    <3>3. f[L - 1] = Reduce_ca(base)
      BY <1>2, <2>2, <3>2 DEF Accumulated
    <3>4. e \div 2^(L - 1) = 1
      <4> DEFINE d == 2^(L - 1)
                 r == e - d
      <4>1. L - 1 \in 0 .. L - 1 /\ (L - 1) + 1 = L
        BY <1>1
      <4>2. 2^L = 2 * d /\ d \in Nat \ {0} /\ d <= e /\ e < 2^L
        BY <1>3, <4>1
      <4> HIDE DEF d
      <4>3. r \in 0 .. d - 1 /\ e = d * 1 + r
        BY <4>2
      <4> HIDE DEF r
      <4>4. e \div d = 1
        <5>1. 1 \in Int
          OBVIOUS
        <5>2. (d * 1 + r) \div d = 1
          BY <4>2, <4>3, <5>1, DivisionUnique
        <5>3. QED
          BY <4>3, <5>2
      <4>5. QED
        BY <4>4 DEF d
    <3>5. Stands(f[L - 1], a)
      <4>1. Right(Reduce_ca(base), base, "c")
        BY <1>1, Reduce_ca_Right
      <4>2. base \in Int /\ Cong(base, a * Two256)
        BY <1>1, RangeC DEF Stands
      <4>3. QED
        BY <1>1, <3>3, <4>1, <4>2, RightStands
    <3>6. Cong(a, E(1)) /\ E(1) \in Int
      <4>1. Cong(E(0 + 1), E(0) * a) /\ E(0) = 1 /\ E(0 + 1) \in Int
        BY <1>4
      <4>2. 0 + 1 = 1 /\ 1 * a = a
        BY <1>1
      <4>3. Cong(E(1), a) /\ E(1) \in Int
        BY <4>1, <4>2
      <4>4. QED
        BY <1>1, <4>3, CongSum
    <3>7. Stands(f[L - 1], E(1))
      BY <1>1, <3>5, <3>6, StandsCong
    <3>8. QED
      BY <2>2, <3>2, <3>4, <3>7
  <2>4. k - 1 \in 0 .. L - 1 /\ L - 1 - (k - 1) = i + 1 /\ i + 1 \in 0 .. L - 1 /\ i # L - 1
    BY <1>1, <2>2, <2>3
  <2>5. k - 1 \notin Bad
    <3> HIDE DEF Bad
    <3>1. ~(k <= k - 1)
      BY <2>2
    <3>2. QED
      BY <2>1, <3>1
  <2>6. Stands(f[i + 1], E(e \div 2^(i + 1)))
    BY <2>4, <2>5
  <2> HIDE DEF Bad, i
  <2> DEFINE d == 2^i
             q == e \div d
             p == e \div (2 * d)
             b == q % 2
             g == f[i + 1]
             s == FeSquare(g)
             P == E(p)
  <2>7. d \in Nat \ {0} /\ 2^(i + 1) = 2 * d
    BY <1>3, <2>2
  <2>8. b \in {0, 1} /\ p \in Nat /\ q = 2 * p + b /\ q \in Nat
    BY <1>3, <2>2, <2>7, Halved
  <2>9. Stands(g, P) /\ P \in Int
    BY <1>4, <2>6, <2>7, <2>8
  <2>10. Stands(s, P * P) /\ P * P \in Int
    <3> HIDE DEF P, g
    <3>1. Stands(FeMul(g, g), P * P)
      BY <2>9, ProductStands
    <3>2. QED
      BY <2>9, <3>1 DEF FeSquare
  <2>11. f[i] = IF b = 1 THEN FeMul(s, base) ELSE s
    BY <1>2, <2>2, <2>4 DEF Accumulated
  <2> DEFINE D == E(2 * p)
  <2>12. Cong(D, P * P) /\ D \in Int
    <3>1. 2 * p \in Nat
      BY <2>8
    <3>2. QED
      BY <1>4, <2>8, <3>1
  <2>13. Stands(s, D)
    <3> HIDE DEF P, s, D
    <3>1. Cong(P * P, D)
      BY <2>10, <2>12, CongSum
    <3>2. QED
      BY <2>10, <2>12, <3>1, StandsCong
  <2>14. ~Stands(f[i], E(q))
    BY <2>2
  <2>15. CASE b = 0
    <3>1. q = 2 * p /\ f[i] = s
      <4> HIDE DEF q, b, p, s
      <4>1. QED
        BY <2>8, <2>11, <2>15
    <3>2. E(q) = D
      <4> HIDE DEF q, p
      <4>1. QED
        BY <3>1
    <3>3. QED
      BY <2>13, <2>14, <3>1, <3>2
  <2>16. CASE b = 1
    <3>1. q = 2 * p + 1 /\ f[i] = FeMul(s, base) /\ 2 * p \in Nat
      <4> HIDE DEF q, b, p, s
      <4>1. QED
        BY <2>8, <2>11, <2>16
    <3>2. Cong(E(q), D * a) /\ E(q) \in Int
      <4>1. Cong(E(2 * p + 1), D * a)
        BY <1>4, <3>1
      <4>2. E(q) \in Int
        BY <1>4, <2>8
      <4> HIDE DEF q, p
      <4>3. QED
        BY <3>1, <4>1, <4>2 DEF D
    <3> HIDE DEF q, s, D
    <3>3. Stands(FeMul(s, base), D * a) /\ D * a \in Int
      BY <1>1, <2>12, <2>13, ProductStands
    <3>4. Cong(D * a, E(q))
      BY <3>2, <3>3, CongSum
    <3>5. Stands(FeMul(s, base), E(q))
      BY <3>2, <3>3, <3>4, StandsCong
    <3>6. QED
      BY <2>14, <3>1, <3>5
  <2>17. QED
    BY <2>8, <2>15, <2>16
<1>6. L - 1 \in 0 .. L - 1 /\ L - 1 - (L - 1) = 0
  BY <1>1
<1>7. Stands(f[0], E(e \div 2^0))
  BY <1>5, <1>6
<1>8. e \div 2^0 = e
  <2>1. 0 \in 0 .. 1 - 1 /\ e = 1 * e + 0 /\ e \in Int
    OBVIOUS
  <2>2. e \div 1 = e
    BY <2>1, DivisionUnique
  <2>3. QED
    BY <1>3, <2>2
<1>9. QED
  BY <1>7, <1>8 DEF E, a

LEMMA ExpRight ==
  ASSUME NEW base \in ReducedRange("c"), NEW e \in Uints
  PROVE  Stands(ModularExponentiationMontgomery_fa(base, e), BigInt!Exp(Value(base), e))
<1> DEFINE a == Value(base)
           L == BitLen(ToWords(e, 4))
           r == ModularExponentiationMontgomery_fa(base, e)
           n == BigInt!Exp(a, e)
<1>1. e \in Nat /\ a \in 0 .. M - 1
  BY ValueStands, WordPowers DEF Uints
<1>2. n \in Int /\ BigInt!Exp(a, 0) = 1
  <2> HIDE DEF a, M
  <2>1. QED
    BY <1>1, ExpMore
<1>3. CASE e = 0
  <2>1. r = bsFieldElement_64_one
    BY <1>3 DEF ModularExponentiationMontgomery_fa, bsFieldElement_64_one
  <2>2. n = 1
    BY <1>2, <1>3
  <2>3. QED
    BY <2>1, <2>2, ConstantsStand
<1>4. CASE e # 0
  <2> DEFINE f == CHOOSE g : Accumulates(g, base, e, L, 0)
  <2>1. L \in 1 .. 4 * WordBits /\ 2^(L - 1) <= e /\ e < 2^L
    BY <1>4, BitLenRight
  <2>2. L \in Nat \ {0}
    <3> HIDE DEF L
    <3>1. QED
      BY <2>1, WordBitsAssumption
  <2>3. Accumulates(f, base, e, L, 0)
    <3> HIDE DEF L
    <3>1. QED
      BY <2>2, AccumulatorExists
  <2>4. r = Reduce_fb_optimistic(f[0])
    BY <1>4 DEF ModularExponentiationMontgomery_fa, Accumulates, Accumulated
  <2> HIDE DEF L, f, r
  <2>5. Stands(f[0], n)
    BY <1>1, <2>1, <2>3, AccumulatorStands
  <2> HIDE DEF n
  <2>6. f[0] \in ReducedRange("c") /\ Cong(f[0], n * Two256) /\ f[0] \in Int
    BY <2>5, RangeC DEF Stands
  <2>7. Right(r, f[0], "c")
    BY <2>4, <2>6, NormalizeRight DEF FeNormalize
  <2>8. Stands(r, n)
    BY <1>2, <2>6, <2>7, RightStands
  <2>9. QED
    BY <2>8 DEF r, n
<1>5. QED
  BY <1>3, <1>4

-----------------------------------------------------------------------------
(* The two elements.                                                        *)

(* The elements keep to the range that the next method relies on; a method  *)
(* does not check its operands.                                             *)
RepresentationInv == elem \in ReducedRange("c") /\ arg \in ReducedRange("c")

LEMMA RepresentationsStart == ElementsInit => RepresentationInv
BY ElementsAssumption DEF ElementsInit, RepresentationInv

(* Every method returns a number in that range.                             *)
LEMMA ResultsInRange ==
  ASSUME NEW x \in ReducedRange("c"), NEW y \in ReducedRange("c")
  PROVE  /\ FeAdd(x, y) \in ReducedRange("c") /\ FeSub(x, y) \in ReducedRange("c")
         /\ FeMul(x, y) \in ReducedRange("c") /\ FeNeg(x) \in ReducedRange("c")
         /\ FeDouble(x) \in ReducedRange("c") /\ FeSquare(x) \in ReducedRange("c")
         /\ FeNormalize(x) \in ReducedRange("c")
         /\ ~FeIsZero(x) => FeInv(x) \in ReducedRange("c")
         /\ ~FeIsZero(y) => FeDivide(x, y) \in ReducedRange("c")
<1> DEFINE a == Value(x)
           b == Value(y)
<1>1. a \in Int /\ b \in Int /\ Stands(x, a) /\ Stands(y, b)
  <2>1. a \in 0 .. M - 1 /\ b \in 0 .. M - 1 /\ M \in Nat /\ Stands(x, a) /\ Stands(y, b)
    BY ValueStands, FieldConstants
  <2> HIDE DEF M, a, b
  <2>2. QED
    BY <2>1
<1> HIDE DEF a, b
<1>2. Stands(FeAdd(x, y), a + b) /\ Stands(FeSub(x, y), a - b) /\ Stands(FeAdd(x, x), a + a)
  BY <1>1, SumStands
<1>3. Stands(FeMul(x, y), a * b) /\ Stands(FeMul(x, x), a * a)
  BY <1>1, ProductStands
<1>4. Stands(FeNeg(x), -a)
  BY <1>1, NegStands
<1>5. Stands(FeNormalize(x), a)
  BY NormalizeRight DEF a
<1>6. ~FeIsZero(x) => FeInv(x) \in ReducedRange("c")
  BY DivisionStands DEF Stands
<1>7. ~FeIsZero(y) => FeDivide(x, y) \in ReducedRange("c")
  BY DivisionStands DEF Stands
<1>8. QED
  BY <1>2, <1>3, <1>4, <1>5, <1>6, <1>7 DEF Stands, FeDouble, FeSquare

LEMMA SetsKeeps ==
  ASSUME NEW w \in ReducedRange("c"), RepresentationInv, Sets(w)
  PROVE  RepresentationInv'
BY DEF RepresentationInv, Sets, ReducedRange, M, Two256, W

LEMMA ElementsStep ==
  ASSUME RepresentationInv, [ElementsNext]_elementVars
  PROVE  RepresentationInv'
<1>1. elem \in ReducedRange("c") /\ arg \in ReducedRange("c")
  BY DEF RepresentationInv
<1>2. CASE Binary
  <2>1. PICK y \in {arg, elem} : \/ Sets(FeAdd(elem, y)) \/ Sets(FeMul(elem, y))
                                 \/ Sets(FeSub(elem, y)) \/ Sets(FeSub(y, elem))
                                 \/ ~FeIsZero(y) /\ Sets(FeDivide(elem, y))
                                 \/ ~FeIsZero(elem) /\ Sets(FeDivide(y, elem))
    BY <1>2 DEF Binary
  <2>2. y \in ReducedRange("c")
    BY <1>1
  <2>3. /\ FeAdd(elem, y) \in ReducedRange("c") /\ FeMul(elem, y) \in ReducedRange("c")
        /\ FeSub(elem, y) \in ReducedRange("c") /\ FeSub(y, elem) \in ReducedRange("c")
        /\ ~FeIsZero(y) => FeDivide(elem, y) \in ReducedRange("c")
        /\ ~FeIsZero(elem) => FeDivide(y, elem) \in ReducedRange("c")
    BY <1>1, <2>2, ResultsInRange
  <2>4. QED
    BY <2>1, <2>3, SetsKeeps
<1>3. CASE Unary
  <2>1. /\ FeNeg(elem) \in ReducedRange("c") /\ FeDouble(elem) \in ReducedRange("c")
        /\ FeSquare(elem) \in ReducedRange("c") /\ FeNormalize(elem) \in ReducedRange("c")
        /\ ~FeIsZero(elem) => FeInv(elem) \in ReducedRange("c")
    BY <1>1, ResultsInRange
  <2>2. \A seed \in {0, 1} : RerandomizeRepresentation(elem, seed) \in ReducedRange("c")
    BY <1>1, RerandomizedRight
  <2>3. \A e \in Powers : ModularExponentiationMontgomery_fa(elem, e) \in ReducedRange("c")
    BY <1>1, ExpRight, ElementsAssumption DEF Stands
  <2>4. QED
    BY <1>3, <2>1, <2>2, <2>3, SetsKeeps DEF Unary
<1>4. CASE SetConstants
  <2>1. /\ bsFieldElement_64_zero \in ReducedRange("c") /\ bsFieldElement_64_one \in ReducedRange("c")
    BY ConstantsStand DEF Stands
  <2>2. QED
    BY <1>1, <1>4, <2>1, SetsKeeps DEF SetConstants
<1>5. CASE WithInteger
  <2>1. PICK n \in SmallIntegers :
          LET y == IF n < 0 THEN FeSetInt64(n) ELSE FeSetUint64(n)
          IN  \/ Sets(y) \/ Sets(FeAdd(elem, y)) \/ Sets(FeSub(elem, y)) \/ Sets(FeMul(elem, y))
              \/ ~FeIsZero(y) /\ Sets(FeDivide(elem, y))
              \/ Sets(SetBigInt(n))
    BY <1>5 DEF WithInteger
  <2> DEFINE y == IF n < 0 THEN FeSetInt64(n) ELSE FeSetUint64(n)
  <2>2. n \in Int /\ Stands(FeSetInt64(n), n) /\ (n >= 0 => Stands(FeSetUint64(n), n))
    BY SmallIntegersStand
  <2>3. y \in ReducedRange("c")
    BY <2>2 DEF Stands
  <2>4. SetBigInt(n) \in ReducedRange("c")
    BY <2>2, BigIntStands DEF Stands
  <2>5. \/ Sets(y) \/ Sets(FeAdd(elem, y)) \/ Sets(FeSub(elem, y)) \/ Sets(FeMul(elem, y))
        \/ ~FeIsZero(y) /\ Sets(FeDivide(elem, y))
        \/ Sets(SetBigInt(n))
    BY <2>1
  <2> HIDE DEF y
  <2>6. /\ FeAdd(elem, y) \in ReducedRange("c") /\ FeMul(elem, y) \in ReducedRange("c")
        /\ FeSub(elem, y) \in ReducedRange("c")
        /\ ~FeIsZero(y) => FeDivide(elem, y) \in ReducedRange("c")
    BY <1>1, <2>3, ResultsInRange
  <2>7. QED
    BY <2>3, <2>4, <2>5, <2>6, SetsKeeps
<1>6. CASE IsEqual
  <2>1. FeIsEqual(elem, arg).z \in ReducedRange("c") /\ FeIsEqual(elem, arg).x \in ReducedRange("c")
    BY <1>1, EqualRight DEF Right
  <2>2. elem' \in ReducedRange("c") /\ arg' \in ReducedRange("c")
    BY <1>6, <2>1 DEF IsEqual
  <2>3. QED
    BY <2>2 DEF RepresentationInv, ReducedRange, M, Two256, W
<1>7. CASE CmpAbs
  <2>1. FeCmpAbs(elem, arg).z \in ReducedRange("c") /\ FeCmpAbs(elem, arg).x \in ReducedRange("c")
    BY <1>1, CmpAbsRight DEF Right
  <2>2. elem' \in ReducedRange("c") /\ arg' \in ReducedRange("c")
    BY <1>7, <2>1 DEF CmpAbs
  <2>3. QED
    BY <2>2 DEF RepresentationInv, ReducedRange, M, Two256, W
<1>8. CASE UNCHANGED elementVars
  BY <1>1, <1>8 DEF RepresentationInv, elementVars, ReducedRange, M, Two256, W
<1>9. QED
  BY <1>2, <1>3, <1>4, <1>5, <1>6, <1>7, <1>8 DEF ElementsNext

THEOREM RepresentationsValid == ElementsSpec => []RepresentationInv
<1>1. ElementsInit => RepresentationInv
  BY RepresentationsStart
<1>2. RepresentationInv /\ [ElementsNext]_elementVars => RepresentationInv'
  BY ElementsStep
<1>3. QED
  BY <1>1, <1>2, PTL DEF ElementsSpec

(* The results and the results of the reference implementation.             *)
LEMMA ArithmeticRight ==
  ASSUME NEW x \in ReducedRange("c"), NEW y \in ReducedRange("c")
  PROVE  /\ Represents(FeAdd(x, y), BigInt!Add(Value(x), Value(y)))
         /\ Represents(FeSub(x, y), BigInt!Sub(Value(x), Value(y)))
         /\ Represents(FeMul(x, y), BigInt!Mul(Value(x), Value(y)))
         /\ Represents(FeNeg(x), BigInt!Neg(Value(x)))
         /\ Represents(FeDouble(x), BigInt!Double(Value(x)))
         /\ Value(y) # 0 => Represents(FeDivide(x, y), BigInt!Divide(Value(x), Value(y)))
<1> DEFINE a == Value(x)
           b == Value(y)
           i == BigInt!Inv(b)
<1>1. a \in Int /\ b \in Int /\ Stands(x, a) /\ Stands(y, b)
  <2>1. a \in 0 .. M - 1 /\ b \in 0 .. M - 1 /\ M \in Nat /\ Stands(x, a) /\ Stands(y, b)
    BY ValueStands, FieldConstants
  <2> HIDE DEF M, a, b
  <2>2. QED
    BY <2>1
<1>2. ~FeIsZero(y) => Stands(FeDivide(x, y), a * i) /\ i \in Int
  BY DivisionStands
<1>3. b # 0 => ~FeIsZero(y)
  BY ZeroRecognized
<1> HIDE DEF a, b, i
<1>4. Stands(FeAdd(x, y), a + b) /\ Stands(FeSub(x, y), a - b) /\ Stands(FeAdd(x, x), a + a)
  BY <1>1, SumStands
<1>5. Stands(FeMul(x, y), a * b)
  BY <1>1, ProductStands
<1>6. Stands(FeNeg(x), -a)
  BY <1>1, NegStands
<1>7. /\ a + b \in Int /\ a - b \in Int /\ a + a \in Int /\ a * b \in Int /\ -a \in Int
      /\ i \in Int => a * i \in Int
  BY <1>1
<1>8. /\ Represents(FeAdd(x, y), (a + b) % M) /\ Represents(FeSub(x, y), (a - b) % M)
      /\ Represents(FeAdd(x, x), (a + a) % M) /\ Represents(FeMul(x, y), (a * b) % M)
      /\ Represents(FeNeg(x), (-a) % M)
  BY <1>4, <1>5, <1>6, <1>7, StandsFor
<1>9. b # 0 => Represents(FeDivide(x, y), (a * i) % M)
  BY <1>2, <1>3, <1>7, StandsFor
<1>10. /\ Represents(FeAdd(x, y), BigInt!Add(a, b)) /\ Represents(FeSub(x, y), BigInt!Sub(a, b))
       /\ Represents(FeMul(x, y), BigInt!Mul(a, b)) /\ Represents(FeNeg(x), BigInt!Neg(a))
       /\ Represents(FeDouble(x), BigInt!Double(a))
  BY <1>8 DEF FeDouble, BigInt!SetBigInt, BigInt!Add, BigInt!Sub, BigInt!Mul, BigInt!Neg, BigInt!Double, M
<1>11. b # 0 => Represents(FeDivide(x, y), BigInt!Divide(a, b))
  BY <1>9 DEF BigInt!SetBigInt, BigInt!Mul, BigInt!Divide, M, i
<1>12. QED
  BY <1>10, <1>11 DEF a, b

LEMMA IntegersRight ==
  ASSUME NEW x \in ReducedRange("c"), NEW n \in SmallIntegers
  PROVE  /\ Represents(FeSetInt64(n), BigInt!SetInt64(n))
         /\ Represents(SetBigInt(n * Value(x)), BigInt!SetBigInt(n * Value(x)))
<1> DEFINE a == Value(x)
<1>1. a \in Int
  <2>1. a \in 0 .. M - 1 /\ M \in Nat
    BY ValueStands, FieldConstants
  <2> HIDE DEF M, a
  <2>2. QED
    BY <2>1
<1>2. n \in Int /\ Stands(FeSetInt64(n), n) /\ (n >= 0 => n \in 0 .. M - 1)
  BY SmallIntegersStand
<1> HIDE DEF a
<1>3. Represents(FeSetInt64(n), n % M)
  BY <1>2, StandsFor
<1>4. BigInt!SetInt64(n) = n % M
  <2>1. CASE n >= 0
    <3>1. n % M = n
      BY <1>2, <2>1, SmallRemainder
    <3>2. QED
      BY <2>1, <3>1 DEF BigInt!SetInt64
  <2>2. CASE ~(n >= 0)
    <3>1. BigInt!SetInt64(n) = (-(-n)) % M
      BY <2>2 DEF BigInt!SetInt64, BigInt!Neg, BigInt!SetBigInt, M
    <3>2. -(-n) = n
      BY <1>2
    <3>3. QED
      BY <3>1, <3>2
  <2>3. QED
    BY <2>1, <2>2
<1>5. Represents(SetBigInt(n * a), (n * a) % M)
  <2>1. n * a \in Int
    BY <1>1, <1>2
  <2>2. Stands(SetBigInt(n * a), n * a)
    BY <2>1, BigIntStands
  <2>3. QED
    BY <2>1, <2>2, StandsFor
<1>6. BigInt!SetBigInt(n * a) = (n * a) % M
  BY DEF BigInt!SetBigInt, M
<1>7. QED
  BY <1>3, <1>4, <1>5, <1>6 DEF a

LEMMA UintRight ==
  ASSUME NEW x \in ReducedRange("c")
  PROVE  Represents(SetUint256(x), BigInt!SetBigInt(x))
<1>1. x \in Uints /\ x \in Int
  BY RangeC
<1>2. Stands(SetUint256(x), x)
  BY <1>1, ReducedStands
<1>3. Represents(SetUint256(x), x % M)
  BY <1>1, <1>2, StandsFor
<1>4. QED
  BY <1>3 DEF BigInt!SetBigInt, M

LEMMA PowersRight ==
  ASSUME NEW x \in ReducedRange("c"), NEW e \in Powers
  PROVE  Represents(ModularExponentiationMontgomery_fa(x, e), BigInt!Exp(Value(x), e))
<1> DEFINE n == BigInt!Exp(Value(x), e)
<1>1. e \in Uints
  BY ElementsAssumption
<1>2. Stands(ModularExponentiationMontgomery_fa(x, e), n)
  BY <1>1, ExpRight
<1>3. n \in 0 .. M - 1
  <2>1. e \in Nat /\ Value(x) \in 0 .. M - 1
    BY <1>1, ValueStands, WordPowers DEF Uints
  <2>2. QED
    BY <2>1, ExpRange
<1> HIDE DEF n
<1>4. n % M = n
  BY <1>3, SmallRemainder
<1>5. n \in Int
  BY <1>3, FieldConstants
<1>6. Represents(ModularExponentiationMontgomery_fa(x, e), n)
  BY <1>2, <1>4, <1>5, StandsFor
<1>7. QED
  BY <1>6 DEF n

(* Whatever methods were called before, and whichever representations they  *)
(* left, the next method stores in the receiver what the reference          *)
(* implementation computes (fieldElements: every method of                  *)
(* bsFieldElement_MontgomeryNonUnique against bsFieldElement_BigInt), in    *)
(* the range that the method after that relies on.                          *)
THEOREM MethodsImplementBigInt == ElementsSpec => []ImplementsBigInt
<1>1. RepresentationInv => ImplementsBigInt
  <2>1. SUFFICES ASSUME RepresentationInv PROVE ImplementsBigInt
    OBVIOUS
  <2>2. elem \in ReducedRange("c") /\ arg \in ReducedRange("c")
    BY <2>1 DEF RepresentationInv
  <2>3. /\ Represents(FeAdd(elem, arg), BigInt!Add(Value(elem), Value(arg)))
        /\ Represents(FeSub(elem, arg), BigInt!Sub(Value(elem), Value(arg)))
        /\ Represents(FeMul(elem, arg), BigInt!Mul(Value(elem), Value(arg)))
        /\ Represents(FeNeg(elem), BigInt!Neg(Value(elem)))
        /\ Represents(FeDouble(elem), BigInt!Double(Value(elem)))
        /\ Value(arg) # 0 => Represents(FeDivide(elem, arg), BigInt!Divide(Value(elem), Value(arg)))
    BY <2>2, ArithmeticRight
  <2>4. \A n \in SmallIntegers :
          /\ Represents(FeSetInt64(n), BigInt!SetInt64(n))
          /\ Represents(SetBigInt(n * Value(elem)), BigInt!SetBigInt(n * Value(elem)))
    BY <2>2, IntegersRight
  <2>5. Represents(SetUint256(elem), BigInt!SetBigInt(elem))
    BY <2>2, UintRight
  <2>6. \A e \in Powers :
          Represents(ModularExponentiationMontgomery_fa(elem, e), BigInt!Exp(Value(elem), e))
    BY <2>2, PowersRight
  <2>7. QED
    BY <2>3, <2>4, <2>5, <2>6 DEF ImplementsBigInt
<1>2. QED
  BY <1>1, RepresentationsValid, PTL

LEMMA ComparisonsRight ==
  ASSUME NEW z \in ReducedRange("c"), NEW x \in ReducedRange("c")
  PROVE  /\ FeIsEqual(z, x).equal <=> Value(z) = Value(x)
         /\ Represents(FeIsEqual(z, x).z, Value(z)) /\ Represents(FeIsEqual(z, x).x, Value(x))
         /\ FeCmpAbs(z, x).equal =
              <<Value(z) = Value(x) \/ Value(z) = BigInt!Neg(Value(x)), Value(z) = Value(x)>>
         /\ Represents(FeCmpAbs(z, x).z, Value(z)) /\ Represents(FeCmpAbs(z, x).x, Value(x))
<1>1. ASSUME NEW w, NEW v \in ReducedRange("c"), Right(w, v, "c")
      PROVE  Represents(w, Value(v))
  BY <1>1, SameValue DEF Right, Represents
<1>2. /\ Right(FeIsEqual(z, x).z, z, "c") /\ Right(FeIsEqual(z, x).x, x, "c")
      /\ Right(FeCmpAbs(z, x).z, z, "c") /\ Right(FeCmpAbs(z, x).x, x, "c")
  BY EqualRight, CmpAbsRight
<1>3. FeIsEqual(z, x).equal <=> Value(z) = Value(x)
  BY EqualRight
<1>4. FeCmpAbs(z, x).equal =
         <<Value(z) = Value(x) \/ Value(z) = BigInt!Neg(Value(x)), Value(z) = Value(x)>>
  BY CmpAbsRight
<1>5. QED
  BY <1>1, <1>2, <1>3, <1>4

(* Whichever representations the two elements have, the methods that look   *)
(* at them (IsEqual, CmpAbs, IsZero, IsOne, Sign, the conversions to        *)
(* integers and their errors) tell what the reference implementation tells, *)
(* comparing keeps the values, and equal elements are given one             *)
(* representation by Normalize and RerandomizeRepresentation.               *)
THEOREM ObserversCorrect == ElementsSpec => []ObserversAgree
<1>1. RepresentationInv => ObserversAgree
  <2>1. SUFFICES ASSUME RepresentationInv PROVE ObserversAgree
    OBVIOUS
  <2>2. elem \in ReducedRange("c") /\ arg \in ReducedRange("c")
    BY <2>1 DEF RepresentationInv
  <2>3. /\ FeIsEqual(elem, arg).equal <=> Value(elem) = Value(arg)
        /\ Represents(FeIsEqual(elem, arg).z, Value(elem))
        /\ Represents(FeIsEqual(elem, arg).x, Value(arg))
        /\ Represents(FeCmpAbs(elem, arg).z, Value(elem))
        /\ Represents(FeCmpAbs(elem, arg).x, Value(arg))
    BY <2>2, ComparisonsRight
  <2>4. FeCmpAbs(elem, arg).equal =
          <<Value(elem) = Value(arg) \/ Value(elem) = BigInt!Neg(Value(arg)), Value(elem) = Value(arg)>>
    BY <2>2, ComparisonsRight
  <2>5. /\ FeIsZero(elem) <=> Value(elem) = 0
        /\ FeIsOne(elem) <=> Value(elem) = 1
    BY <2>2, ZeroRecognized, OneRecognized
  <2>6. FeSign(elem) = BigInt!Sign(Value(elem))
    BY <2>2, SignRight
  <2>7. ToBigInt(elem) = Value(elem) /\ ToUint256(elem) = Value(elem)
    BY <2>2, UnconvertedIsValue
  <2>8. /\ ToUint64Fails(elem) <=> BigInt!ToUint64Fails(Value(elem), W)
        /\ ~ToUint64Fails(elem) => FeToUint64(elem) = Value(elem)
    BY <2>2, Uint64Right
  <2>9. /\ FeToInt64Fails(elem) <=> BigInt!ToInt64Fails(Value(elem), W)
        /\ ~FeToInt64Fails(elem) => FeToInt64(elem) = BigInt!ToInt64(Value(elem))
    BY <2>2, Int64Right
  <2>10. \A seed \in {0, 1} :
           /\ Represents(RerandomizeRepresentation(elem, seed), Value(elem))
           /\ Value(elem) = Value(arg) =>
                RerandomizeRepresentation(elem, seed) = RerandomizeRepresentation(arg, seed)
    BY <2>2, RerandomizedRight DEF Represents
  <2>11. FeIsNormalized(FeNormalize(elem))
    <3>1. FeNormalize(elem) \in 0 .. M - 1 /\ M \in Nat
      BY <2>2, NormalizeRight, FieldConstants
    <3> HIDE DEF M
    <3>2. FeNormalize(elem) < M
      BY <3>1
    <3>3. QED
      BY <3>2 DEF FeIsNormalized, IsReduced
  <2>12. QED
    BY <2>3, <2>4, <2>5, <2>6, <2>7, <2>8, <2>9, <2>10, <2>11 DEF ObserversAgree
<1>2. QED
  BY <1>1, RepresentationsValid, PTL

-----------------------------------------------------------------------------
(* Words and units of a stream.                                             *)

Joined(a, b, c, d) == a + W * (b + W * (c + W * d))

LEMMA ToIntRight ==
  ASSUME NEW z \in [0 .. 3 -> Word]
  PROVE  ToInt(z) = Joined(z[0], z[1], z[2], z[3])
<1> DEFINE next(f, i) == IF i = 0 \/ i - 1 \notin DOMAIN z THEN 0 ELSE f[i - 1] + z[i - 1] * W^(i - 1)
           Sum(f) == f = [i \in 0 .. 8 |-> next(f, i)]
           s == CHOOSE f : Sum(f)
           a1 == 0 + z[0] * W^0
           a2 == a1 + z[1] * W^1
           a3 == a2 + z[2] * W^2
           a4 == a3 + z[3] * W^3
           g == [i \in 0 .. 8 |-> CASE i = 1 -> a1 [] i = 2 -> a2 [] i = 3 -> a3 [] i = 4 -> a4 [] OTHER -> 0]
<1>1. DOMAIN z = 0 .. 3
  OBVIOUS
<1>2. Sum(g)
  <2>1. ASSUME NEW i \in 0 .. 8 PROVE g[i] = next(g, i)
    <3> HIDE DEF a1, a2, a3, a4
    <3>1. /\ g[0] = 0 /\ g[1] = a1 /\ g[2] = a2 /\ g[3] = a3 /\ g[4] = a4
          /\ \A j \in 5 .. 8 : g[j] = 0
      OBVIOUS
    <3> HIDE DEF g
    <3>2. \/ i = 0 \/ i = 1 \/ i = 2 \/ i = 3 \/ i = 4 \/ i \in 5 .. 8
      OBVIOUS
    <3>3. CASE i = 0
      BY <3>1, <3>3
    <3>4. CASE i = 1
      <4>1. i - 1 = 0 /\ 0 \in DOMAIN z
        BY <1>1, <3>4
      <4>2. QED
        BY <3>1, <3>4, <4>1 DEF a1
    <3>5. CASE i = 2
      <4>1. i - 1 = 1 /\ 1 \in DOMAIN z
        BY <1>1, <3>5
      <4>2. QED
        BY <3>1, <3>5, <4>1 DEF a2
    <3>6. CASE i = 3
      <4>1. i - 1 = 2 /\ 2 \in DOMAIN z
        BY <1>1, <3>6
      <4>2. QED
        BY <3>1, <3>6, <4>1 DEF a3
    <3>7. CASE i = 4
      <4>1. i - 1 = 3 /\ 3 \in DOMAIN z
        BY <1>1, <3>7
      <4>2. QED
        BY <3>1, <3>7, <4>1 DEF a4
    <3>8. CASE i \in 5 .. 8
      <4>1. i # 0 /\ i - 1 \notin DOMAIN z
        BY <1>1, <3>8
      <4>2. QED
        BY <3>1, <3>8, <4>1
    <3>9. QED
      BY <3>2, <3>3, <3>4, <3>5, <3>6, <3>7, <3>8
  <2>2. g = [i \in 0 .. 8 |-> g[i]]
    OBVIOUS
  <2> HIDE DEF g, next
  <2>3. QED
    BY <2>1, <2>2
<1>3. Sum(s)
  <2> HIDE DEF g, Sum
  <2>1. QED
    BY <1>2
<1>4. Cardinality(DOMAIN z) = 4
  <2>1. 0 \in Int /\ 3 \in Int
    OBVIOUS
  <2>2. Cardinality(0 .. 3) = IF 0 > 3 THEN 0 ELSE 3 - 0 + 1
    BY <2>1, FS_Interval
  <2>3. QED
    BY <1>1, <2>2
<1>5. ToInt(z) = s[4]
  BY <1>4 DEF ToInt
<1> HIDE DEF s, g
<1>6. \A i \in 0 .. 8 : s[i] = next(s, i)
  <2> HIDE DEF next
  <2>1. QED
    BY <1>3
<1>7. /\ s[0] = 0 /\ s[1] = s[0] + z[0] * W^0 /\ s[2] = s[1] + z[1] * W^1
      /\ s[3] = s[2] + z[2] * W^2 /\ s[4] = s[3] + z[3] * W^3
  <2>1. /\ s[0] = next(s, 0) /\ s[1] = next(s, 1) /\ s[2] = next(s, 2)
        /\ s[3] = next(s, 3) /\ s[4] = next(s, 4)
    <3> HIDE DEF next
    <3>1. QED
      BY <1>6
  <2>2. /\ 1 - 1 = 0 /\ 2 - 1 = 1 /\ 3 - 1 = 2 /\ 4 - 1 = 3
        /\ 0 \in DOMAIN z /\ 1 \in DOMAIN z /\ 2 \in DOMAIN z /\ 3 \in DOMAIN z
    BY <1>1
  <2>3. s[0] = 0
    BY <2>1
  <2>4. s[1] = s[0] + z[0] * W^0
    BY <2>1, <2>2
  <2>5. s[2] = s[1] + z[1] * W^1
    BY <2>1, <2>2
  <2>6. s[3] = s[2] + z[2] * W^2
    BY <2>1, <2>2
  <2>7. s[4] = s[3] + z[3] * W^3
    BY <2>1, <2>2
  <2>8. QED
    BY <2>3, <2>4, <2>5, <2>6, <2>7
<1> DEFINE a == z[0]
           b == z[1]
           c == z[2]
           d == z[3]
<1>8. a \in Int /\ b \in Int /\ c \in Int /\ d \in Int /\ W \in Int
  <2>1. W \in Nat
    BY WordIsPower
  <2>2. \A i \in 0 .. 3 : z[i] \in 0 .. W - 1
    BY DEF Word
  <2> HIDE DEF W
  <2>3. QED
    BY <2>1, <2>2
<1>9. W^0 = 1 /\ W^1 = W /\ W^2 = W * W /\ W^3 = W * (W * W)
  BY WordPowers
<1> HIDE DEF W, next, Sum
<1>10. s[4] = ((a * 1 + b * W) + c * (W * W)) + d * (W * (W * W))
  <2>1. s[1] = a * 1
    BY <1>7, <1>8, <1>9
  <2>2. s[2] = a * 1 + b * W
    BY <1>7, <1>9, <2>1
  <2>3. s[3] = (a * 1 + b * W) + c * (W * W)
    BY <1>7, <1>9, <2>2
  <2>4. QED
    BY <1>7, <1>9, <2>3
<1> HIDE DEF a, b, c, d
<1>11. s[4] = a + W * (b + W * (c + W * d))
  BY <1>8, <1>10
<1>12. QED
  BY <1>5, <1>11 DEF Joined, a, b, c, d

(* Four words are told from the number that they make.                      *)
LEMMA WordsJoined ==
  ASSUME NEW a \in Word, NEW b \in Word, NEW c \in Word, NEW d \in Word
  PROVE  LET n == Joined(a, b, c, d)
         IN  /\ n \in Nat /\ n < W^4 /\ Top(n) = d
             /\ ToWords(n, 4)[0] = a /\ ToWords(n, 4)[1] = b
             /\ ToWords(n, 4)[2] = c /\ ToWords(n, 4)[3] = d
<1> DEFINE n == Joined(a, b, c, d)
           p == b + W * (c + W * d)
           q == c + W * d
           u == ToWords(n, 4)
<1>1. /\ W \in Nat \ {0} /\ W^0 = 1 /\ W^1 = W /\ W^2 = W * W /\ W^3 = W * W^2 /\ W^4 = W * W^3
      /\ W^2 \in Nat \ {0} /\ W^3 \in Nat \ {0}
  BY WordPowers, WordIsPower
<1>2. /\ a \in 0 .. W - 1 /\ b \in 0 .. W - 1 /\ c \in 0 .. W - 1 /\ d \in 0 .. W - 1
      /\ n = a + W * p /\ p = b + W * q /\ q = c + W * d
  BY DEF Word, Joined
<1>3. u[0] = (n \div W^0) % W /\ u[1] = (n \div W^1) % W /\ u[2] = (n \div W^2) % W /\ u[3] = (n \div W^3) % W
  BY DEF ToWords
<1> HIDE DEF W, n, u
<1> DEFINE W2 == W^2
           W3 == W^3
<1>4. W2 \in Nat \ {0} /\ W3 \in Nat \ {0} /\ W2 = W * W /\ W3 = W * W2 /\ W^4 = W * W3
  BY <1>1
<1> HIDE DEF W2, W3
(* A number below W after a number below P.                                 *)
<1>5. ASSUME NEW r \in Nat, NEW P \in Nat \ {0}, r < P, NEW e \in 0 .. W - 1
      PROVE  e + W * r \in Nat /\ e + W * r < W * P
  <2>1. W * (r + 1) <= W * P
    BY <1>1, <1>5, Monotone
  <2>2. W * (r + 1) = W * r + W /\ W * r \in Nat /\ W * P \in Nat
    BY <1>1
  <2>3. QED
    BY <1>1, <2>1, <2>2
<1>6. q \in Nat /\ q < W2
  BY <1>1, <1>2, <1>4, <1>5
<1> HIDE DEF q
<1>7. p \in Nat /\ p < W3
  BY <1>2, <1>4, <1>5, <1>6
<1> HIDE DEF p
<1>8. n \in Nat /\ n < W^4
  BY <1>2, <1>4, <1>5, <1>7
<1>9. ASSUME NEW r \in Nat, NEW e \in 0 .. W - 1
      PROVE  (e + W * r) \div W = r /\ (e + W * r) % W = e
  <2>1. W * r \in Nat
    BY <1>1
  <2>2. e + W * r = W * r + e
    BY <1>1, <2>1
  <2>3. (W * r + e) \div W = r /\ (W * r + e) % W = e
    BY <1>1, DivisionUnique
  <2>4. QED
    BY <2>2, <2>3
<1>10. /\ n \div W = p /\ n % W = a /\ p \div W = q /\ p % W = b /\ q \div W = d /\ q % W = c
       /\ d % W = d
  <2>1. d \in Nat
    BY <1>1, <1>2
  <2>2. d % W = d
    <3>1. d = W * 0 + d /\ 0 \in Int
      BY <1>1, <2>1
    <3>2. (W * 0 + d) % W = d
      BY <1>1, <1>2, <3>1, DivisionUnique
    <3>3. QED
      BY <3>1, <3>2
  <2>3. QED
    BY <1>2, <1>6, <1>7, <1>9, <2>1, <2>2
<1>11. n \div W2 = q /\ n \div W3 = d
  <2>1. ASSUME NEW P \in Nat \ {0} PROVE n \div P = W * (n \div (W * P)) + ((n \div P) % W) /\ n \div P \in Nat
    BY <1>8, QuotientDigit
  <2>2. n \div (W * W) \in Nat /\ n \div (W * W2) \in Nat
    <3>1. W * W \in Nat \ {0} /\ W * W2 \in Nat \ {0}
      BY <1>1, <1>4
    <3>2. QED
      BY <2>1, <3>1
  <2>3. n \div W = W * (n \div (W * W)) + ((n \div W) % W)
    BY <1>1, <2>1
  <2>4. n \div (W * W) = q
    <3> DEFINE x == n \div (W * W)
    <3>1. p = b + W * q /\ p = W * x + b /\ x \in Nat
      BY <1>2, <1>10, <2>2, <2>3
    <3> HIDE DEF x
    <3>2. W * x \in Nat /\ W * q \in Nat /\ b \in Nat
      BY <1>1, <1>2, <1>6, <3>1
    <3>3. W * x = W * q
      BY <3>1, <3>2
    <3>4. x = q
      BY <1>1, <1>6, <3>1, <3>3
    <3>5. QED
      BY <3>4 DEF x
  <2>5. n \div W2 = q
    BY <1>4, <2>4
  <2>6. n \div W2 = W * (n \div (W * W2)) + ((n \div W2) % W)
    BY <1>4, <2>1
  <2>7. n \div (W * W2) = d
    <3> DEFINE x == n \div (W * W2)
    <3>1. q = c + W * d /\ q = W * x + c /\ x \in Nat
      BY <1>2, <1>10, <2>2, <2>5, <2>6
    <3> HIDE DEF x
    <3>2. W * x \in Nat /\ W * d \in Nat /\ c \in Nat /\ d \in Nat
      BY <1>1, <1>2, <3>1
    <3>3. W * x = W * d
      BY <3>1, <3>2
    <3>4. x = d
      BY <1>1, <3>1, <3>2, <3>3
    <3>5. QED
      BY <3>4 DEF x
  <2>8. QED
    BY <1>4, <2>5, <2>7
<1>12. n \div W^0 = n
  <2>1. n = 1 * n + 0 /\ 0 \in 0 .. 1 - 1 /\ n \in Int
    BY <1>8
  <2>2. n \div 1 = n
    BY <2>1, DivisionUnique
  <2>3. QED
    BY <1>1, <2>2
<1>13. u[0] = a /\ u[1] = b /\ u[2] = c /\ u[3] = d /\ Top(n) = d
  <2>1. n \div W^1 = p /\ n \div W^2 = q /\ n \div W^3 = d
    BY <1>1, <1>10, <1>11 DEF W2, W3
  <2>2. QED
    BY <1>3, <1>10, <1>12, <2>1 DEF Top
<1>14. QED
  BY <1>8, <1>13 DEF n, u

(* The place of the highest word.                                           *)
TopUnit(order) == IF StartsWithMSB(order) THEN 1 ELSE 4

LEMMA Reversed ==
  ASSUME NEW s \in Seq(Word), Len(s) = 4
  PROVE  /\ Reverse(s) \in Seq(Word) /\ Len(Reverse(s)) = 4
         /\ Reverse(s)[1] = s[4] /\ Reverse(s)[2] = s[3] /\ Reverse(s)[3] = s[2] /\ Reverse(s)[4] = s[1]
<1> DEFINE r == Reverse(s)
<1>1. r = [i \in 1 .. 4 |-> s[(4 - i) + 1]]
  BY DEF Reverse
<1> HIDE DEF r, Word
<1>2. \A i \in 1 .. 4 : s[i] \in Word
  BY ElementOfSeq
<1>3. \A i \in 1 .. 4 : r[i] = s[(4 - i) + 1] /\ (4 - i) + 1 \in 1 .. 4
  BY <1>1
<1>4. r \in [1 .. 4 -> Word]
  BY <1>1, <1>2, <1>3
<1>5. r \in Seq(Word) /\ Len(r) = 4
  <2>1. r \in Seq(Word)
    <3>1. 4 \in Nat
      OBVIOUS
    <3>2. [1 .. 4 -> Word] \in {[1 .. n -> Word] : n \in Nat}
      BY <3>1, Zenon
    <3>3. r \in UNION {[1 .. n -> Word] : n \in Nat}
      BY <1>4, <3>2, Zenon
    <3>4. QED
      BY <3>3, SeqDef, Zenon
  <2>2. DOMAIN r = 1 .. 4
    BY <1>4
  <2>3. Len(r) \in Nat /\ DOMAIN r = 1 .. Len(r)
    BY <2>1, LenProperties
  <2>4. QED
    BY <2>1, <2>2, <2>3
<1>6. (4 - 1) + 1 = 4 /\ (4 - 2) + 1 = 3 /\ (4 - 3) + 1 = 2 /\ (4 - 4) + 1 = 1
  OBVIOUS
<1>7. r[1] = s[4] /\ r[2] = s[3] /\ r[3] = s[2] /\ r[4] = s[1]
  BY <1>3, <1>6
<1>8. QED
  BY <1>5, <1>7 DEF r

LEMMA Equal4 ==
  ASSUME NEW s \in Seq(Word), Len(s) = 4, NEW t \in Seq(Word), Len(t) = 4,
         s[1] = t[1], s[2] = t[2], s[3] = t[3], s[4] = t[4]
  PROVE  s = t
<1>1. \A i \in 1 .. 4 : s[i] = t[i]
  <2>1. \A i \in 1 .. 4 : i = 1 \/ i = 2 \/ i = 3 \/ i = 4
    OBVIOUS
  <2>2. QED
    BY <2>1
<1>2. QED
  BY <1>1

(* The units of a number, in the order of the call.                         *)
LEMMA UnitsOf ==
  ASSUME NEW order \in Orders, NEW v \in Nat, v < W^4
  PROVE  LET u == PutUint256(order, v)
             w == ToWords(v, 4)
         IN  /\ u \in Seq(Word) /\ Len(u) = 4 /\ \A i \in 0 .. 3 : w[i] \in Word
             /\ StartsWithMSB(order) => u[1] = w[3] /\ u[2] = w[2] /\ u[3] = w[1] /\ u[4] = w[0]
             /\ ~StartsWithMSB(order) => u[1] = w[0] /\ u[2] = w[1] /\ u[3] = w[2] /\ u[4] = w[3]
<1> DEFINE u == PutUint256(order, v)
           w == ToWords(v, 4)
           little == <<w[0], w[1], w[2], w[3]>>
<1>1. \A i \in 0 .. 3 : w[i] \in Word
  BY WordsOf DEF Word
<1>2. u = IF StartsWithMSB(order) THEN Reverse(little) ELSE little
  BY DEF PutUint256
<1> HIDE DEF u, w
<1>3. /\ little \in Seq(Word) /\ Len(little) = 4
      /\ little[1] = w[0] /\ little[2] = w[1] /\ little[3] = w[2] /\ little[4] = w[3]
  <2>1. w[0] \in Word /\ w[1] \in Word /\ w[2] \in Word /\ w[3] \in Word
    BY <1>1
  <2> HIDE DEF Word
  <2>2. QED
    BY <2>1
<1> HIDE DEF little
<1>4. /\ Reverse(little) \in Seq(Word) /\ Len(Reverse(little)) = 4
      /\ Reverse(little)[1] = w[3] /\ Reverse(little)[2] = w[2]
      /\ Reverse(little)[3] = w[1] /\ Reverse(little)[4] = w[0]
  BY <1>3, Reversed
<1> HIDE DEF Word
<1>5. CASE StartsWithMSB(order)
  BY <1>1, <1>2, <1>4, <1>5 DEF u, w
<1>6. CASE ~StartsWithMSB(order)
  BY <1>1, <1>2, <1>3, <1>6 DEF u, w
<1>7. QED
  BY <1>5, <1>6

(* The number that four units are, and that they are the units of it.       *)
LEMMA NumberOf ==
  ASSUME NEW order \in Orders, NEW buf \in Seq(Word), Len(buf) = 4
  PROVE  LET v == Uint256(order, buf)
         IN  /\ v \in Nat /\ v < W^4 /\ PutUint256(order, v) = buf
             /\ Top(v) = buf[TopUnit(order)]
             /\ StartsWithMSB(order) => v = Joined(buf[4], buf[3], buf[2], buf[1])
             /\ ~StartsWithMSB(order) => v = Joined(buf[1], buf[2], buf[3], buf[4])
<1> DEFINE v == Uint256(order, buf)
           little == IF StartsWithMSB(order) THEN Reverse(buf) ELSE buf
           z == [i \in 0 .. 3 |-> little[i + 1]]
           u == PutUint256(order, v)
           w == ToWords(v, 4)
<1>1. v = ToInt(z)
  BY DEF Uint256
<1>2. /\ little \in Seq(Word) /\ Len(little) = 4
      /\ StartsWithMSB(order) =>
           little[1] = buf[4] /\ little[2] = buf[3] /\ little[3] = buf[2] /\ little[4] = buf[1]
      /\ ~StartsWithMSB(order) =>
           little[1] = buf[1] /\ little[2] = buf[2] /\ little[3] = buf[3] /\ little[4] = buf[4]
  BY Reversed
<1> HIDE DEF little, v, u, w
<1>3. z \in [0 .. 3 -> Word]
  <2>1. \A i \in 0 .. 3 : i + 1 \in 1 .. Len(little)
    BY <1>2
  <2> HIDE DEF Word
  <2>2. QED
    BY <1>2, <2>1
<1>4. z[0] = little[1] /\ z[1] = little[2] /\ z[2] = little[3] /\ z[3] = little[4]
  OBVIOUS
<1>5. z[0] \in Word /\ z[1] \in Word /\ z[2] \in Word /\ z[3] \in Word
  <2> HIDE DEF Word, z
  <2>1. QED
    BY <1>3
<1> HIDE DEF z, Word
<1>6. v = Joined(z[0], z[1], z[2], z[3])
  BY <1>1, <1>3, ToIntRight
<1>7. /\ v \in Nat /\ v < W^4 /\ Top(v) = z[3]
      /\ w[0] = z[0] /\ w[1] = z[1] /\ w[2] = z[2] /\ w[3] = z[3]
  <2> DEFINE n == Joined(z[0], z[1], z[2], z[3])
             t == ToWords(n, 4)
  <2>1. n \in Nat /\ n < W^4 /\ Top(n) = z[3] /\ t[0] = z[0] /\ t[1] = z[1] /\ t[2] = z[2] /\ t[3] = z[3]
    <3> DEFINE a == z[0]
               b == z[1]
               c == z[2]
               d == z[3]
    <3>1. a \in Word /\ b \in Word /\ c \in Word /\ d \in Word
      BY <1>5
    <3> HIDE DEF a, b, c, d
    <3>2. LET k == Joined(a, b, c, d)
          IN  /\ k \in Nat /\ k < W^4 /\ Top(k) = d
              /\ ToWords(k, 4)[0] = a /\ ToWords(k, 4)[1] = b
              /\ ToWords(k, 4)[2] = c /\ ToWords(k, 4)[3] = d
      BY <3>1, WordsJoined
    <3>3. QED
      BY <3>2 DEF a, b, c, d
  <2>2. v = n
    BY <1>6
  <2> HIDE DEF n
  <2>3. w = t
    BY <2>2 DEF w
  <2> HIDE DEF t
  <2>4. QED
    BY <2>1, <2>2, <2>3
<1>8. /\ u \in Seq(Word) /\ Len(u) = 4
      /\ StartsWithMSB(order) => u[1] = w[3] /\ u[2] = w[2] /\ u[3] = w[1] /\ u[4] = w[0]
      /\ ~StartsWithMSB(order) => u[1] = w[0] /\ u[2] = w[1] /\ u[3] = w[2] /\ u[4] = w[3]
  BY <1>7, UnitsOf DEF u, w
<1>9. u[1] = buf[1] /\ u[2] = buf[2] /\ u[3] = buf[3] /\ u[4] = buf[4]
  BY <1>2, <1>4, <1>7, <1>8
<1>10. u = buf
  BY <1>8, <1>9, Equal4
<1>11. Top(v) = buf[TopUnit(order)]
  BY <1>2, <1>4, <1>7 DEF TopUnit
<1>12. /\ StartsWithMSB(order) => v = Joined(buf[4], buf[3], buf[2], buf[1])
       /\ ~StartsWithMSB(order) => v = Joined(buf[1], buf[2], buf[3], buf[4])
  BY <1>2, <1>4, <1>6
<1>13. QED
  BY <1>7, <1>10, <1>11, <1>12 DEF u, v

LEMMA ReadBack ==
  ASSUME NEW order \in Orders, NEW v \in Nat, v < W^4
  PROVE  LET u == PutUint256(order, v)
         IN  u \in Seq(Word) /\ Len(u) = 4 /\ Uint256(order, u) = v /\ Top(v) = u[TopUnit(order)]
<1> DEFINE u == PutUint256(order, v)
           w == ToWords(v, 4)
<1>1. /\ u \in Seq(Word) /\ Len(u) = 4
      /\ StartsWithMSB(order) => u[1] = w[3] /\ u[2] = w[2] /\ u[3] = w[1] /\ u[4] = w[0]
      /\ ~StartsWithMSB(order) => u[1] = w[0] /\ u[2] = w[1] /\ u[3] = w[2] /\ u[4] = w[3]
  BY UnitsOf
<1>2. v = w[0] + W * (w[1] + W * (w[2] + W * w[3]))
  BY WordsOf
<1> HIDE DEF u, w
<1>3. Uint256(order, u) = Joined(w[0], w[1], w[2], w[3])
  BY <1>1, NumberOf
<1>4. Uint256(order, u) = v
  BY <1>2, <1>3 DEF Joined
<1>5. Top(Uint256(order, u)) = u[TopUnit(order)]
  BY <1>1, NumberOf
<1>6. QED
  BY <1>1, <1>4, <1>5 DEF u

-----------------------------------------------------------------------------
(* Prefixes: the highest len bits of a number, and the bits below.          *)

LEMMA PrefixUnit ==
  ASSUME NEW len \in 0 .. WordBits
  PROVE  /\ 2^(WordBits - len) \in Nat \ {0} /\ 2^len \in Nat \ {0}
         /\ 2^(WordBits - len) * W^3 \in Nat \ {0}
         /\ (2^(WordBits - len) * W^3) * 2^len = W^4
<1> DEFINE d == 2^(WordBits - len)
           f == 2^len
           X == W^3
<1>1. /\ WordBits \in Nat /\ \A n \in 0 .. 4 * WordBits : 2^n \in Nat \ {0}
      /\ X \in Nat \ {0} /\ W^4 = W * X
  BY MorePowersOfTwo, WordPowers
<1>2. len \in Nat /\ WordBits - len \in Nat /\ (WordBits - len) + len = WordBits
      /\ (WordBits - len) + len <= 4 * WordBits
      /\ len \in 0 .. 4 * WordBits /\ WordBits - len \in 0 .. 4 * WordBits
  BY <1>1
<1>3. d \in Nat \ {0} /\ f \in Nat \ {0}
  BY <1>1, <1>2
<1>4. W = d * f
  <2>1. 2^((WordBits - len) + len) = d * f
    BY <1>2, PowersAdd
  <2>2. QED
    BY <1>2, <2>1 DEF W
<1> HIDE DEF d, f, X
<1>5. d * X \in Nat \ {0} /\ (d * X) * f = (d * f) * X
  BY <1>1, <1>3
<1>6. QED
  BY <1>1, <1>3, <1>4, <1>5 DEF d, f, X

LEMMA PrefixSplit ==
  ASSUME NEW v \in Nat, NEW len \in 0 .. WordBits
  PROVE  LET K == 2^(WordBits - len) * W^3
         IN  /\ PrefixOf(v, len) \in Nat /\ WithoutPrefix(v, len) \in 0 .. K - 1
             /\ v = WithoutPrefix(v, len) + K * PrefixOf(v, len)
<1> DEFINE d == 2^(WordBits - len)
           X == W^3
           t == v \div X
           r == v % X
           q == t \div d
           s == t % d
           m == X * s + r
           K == d * X
<1>1. d \in Nat \ {0} /\ X \in Nat \ {0} /\ K \in Nat \ {0}
  BY PrefixUnit, WordPowers
<1>2. PrefixOf(v, len) = q /\ WithoutPrefix(v, len) = v % K
  BY DEF PrefixOf, WithoutPrefix, Top
<1> HIDE DEF d, X
<1>3. t \in Nat /\ r \in 0 .. X - 1 /\ v = X * t + r
  BY <1>1, NatDivision
<1> HIDE DEF t, r
<1>4. q \in Nat /\ s \in 0 .. d - 1 /\ t = d * q + s
  BY <1>1, <1>3, NatDivision
<1> HIDE DEF q, s
<1>5. X * (d * q + s) = K * q + X * s /\ X * s \in Nat /\ K * q \in Nat
  BY <1>1, <1>4
<1>6. m \in 0 .. K - 1
  <2>1. X * s <= X * (d - 1) /\ X * (d - 1) = K - X
    <3>1. s \in Int /\ d - 1 \in Int /\ s <= d - 1
      BY <1>1, <1>4
    <3>2. X * s <= X * (d - 1)
      BY <1>1, <3>1, Monotone
    <3>3. X * (d - 1) = K - X
      BY <1>1
    <3>4. QED
      BY <3>2, <3>3
  <2> HIDE DEF K
  <2>2. QED
    BY <1>1, <1>3, <1>5, <2>1
<1> HIDE DEF K
<1>7. v = K * q + m
  <2> DEFINE Xs == X * s
             Kq == K * q
  <2>1. v = X * (d * q + s) + r
    BY <1>3, <1>4
  <2>2. v = (Kq + Xs) + r /\ Kq \in Nat /\ Xs \in Nat /\ r \in Nat
    BY <1>1, <1>3, <1>5, <2>1
  <2>3. m = Xs + r
    OBVIOUS
  <2> HIDE DEF Xs, Kq, m
  <2>4. v = Kq + m
    BY <2>2, <2>3
  <2>5. QED
    BY <2>4 DEF Kq
<1> HIDE DEF m
<1>8. (K * q + m) % K = m
  BY <1>1, <1>4, <1>6, DivisionUnique
<1>9. v % K = m /\ K * q \in Nat /\ m \in Nat
  BY <1>1, <1>4, <1>6, <1>7, <1>8
<1>10. v = m + K * q
  <2> DEFINE Kq == K * q
  <2>1. v = Kq + m /\ Kq \in Nat
    BY <1>7, <1>9
  <2> HIDE DEF Kq
  <2>2. v = m + Kq
    BY <1>9, <2>1
  <2>3. QED
    BY <2>2 DEF Kq
<1>11. QED
  BY <1>2, <1>4, <1>6, <1>9, <1>10 DEF K, d, X

(* A prefix that is put where there is room for it.                         *)
WithPrefix(v, p) == v + p.bits * 2^(WordBits - p.length) * W^3

LEMMA PrefixPut ==
  ASSUME NEW v \in Nat, v < W^4, NEW p \in BitHeaders, PrefixFits(v, p)
  PROVE  /\ WithPrefix(v, p) \in Nat /\ WithPrefix(v, p) < W^4
         /\ PrefixOf(WithPrefix(v, p), p.length) = p.bits
         /\ WithoutPrefix(WithPrefix(v, p), p.length) = v
<1> DEFINE len == p.length
           bits == p.bits
           d == 2^(WordBits - len)
           f == 2^len
           X == W^3
           K == d * X
           t == Top(v)
           V == WithPrefix(v, p)
<1>1. len \in 0 .. WordBits /\ bits \in Nat /\ bits < f /\ WordBits \in Nat
  BY BitHeadersAssumption, WordBitsAssumption DEF MaxLengthPrefixBits
<1>2. d \in Nat \ {0} /\ X \in Nat \ {0} /\ K \in Nat \ {0} /\ K * f = W^4 /\ f \in Nat \ {0}
  BY <1>1, PrefixUnit, WordPowers
<1>3. t \in Nat /\ v % X \in 0 .. X - 1 /\ v = X * t + (v % X)
  BY <1>2, NatDivision DEF Top
<1>4. t < d
  <2>1. CASE t = 0
    <3> HIDE DEF d, t
    <3>1. QED
      BY <1>2, <2>1
  <2>2. CASE t # 0
    <3> DEFINE l == Len64(t)
               k == (WordBits - len) - l
    <3>1. t \in 1 .. W - 1
      <4>1. W \in Nat \ {0} /\ W^4 = W * X
        BY WordPowers, WordIsPower
      <4> DEFINE r == v % X
      <4> HIDE DEF t, W, X, r
      <4>2. ASSUME t >= W PROVE FALSE
        <5>1. X * W <= X * t
          BY <1>2, <1>3, <4>1, <4>2, Monotone
        <5>2. X * W = W * X /\ X * t \in Nat /\ X * W \in Nat
          BY <1>2, <1>3, <4>1
        <5>3. v >= X * t
          BY <1>2, <1>3, <5>2 DEF r
        <5>4. QED
          BY <4>1, <5>1, <5>2, <5>3
      <4>3. QED
        BY <1>3, <2>2, <4>1, <4>2
    <3>2. l \in 1 .. WordBits /\ t < 2^l
      BY <3>1, Len64Right
    <3>3. WordBits - l >= len
      BY DEF PrefixFits, LeadingZeros64
    <3> HIDE DEF l, t, len
    <3>4. k \in Nat /\ l \in Nat /\ l + k = WordBits - len /\ l + k <= 4 * WordBits
          /\ l \in 0 .. 4 * WordBits /\ k \in 0 .. 4 * WordBits
      BY <1>1, <3>2, <3>3
    <3>5. d = 2^l * 2^k
      <4>1. 2^(l + k) = 2^l * 2^k
        BY <3>4, PowersAdd
      <4>2. QED
        BY <3>4, <4>1
    <3>6. 2^l \in Nat /\ 2^k \in Nat \ {0}
      BY <3>4, MorePowersOfTwo
    <3> DEFINE a == 2^l
               b == 2^k
    <3> HIDE DEF a, b, d
    <3>7. a * 1 <= a * b
      BY <3>6, Monotone DEF a, b
    <3>8. t < a /\ d = a * b /\ a \in Nat /\ b \in Nat
      BY <3>2, <3>5, <3>6 DEF a, b
    <3>9. QED
      BY <1>2, <1>3, <3>7, <3>8
  <2>3. QED
    BY <2>1, <2>2
<1> DEFINE r == v % X
<1>5. V = v + bits * d * X
  BY DEF WithPrefix
<1> HIDE DEF V, bits, d, f, X, t, r
<1>6. v < K
  <2>1. X * t <= X * (d - 1)
    <3>1. t <= d - 1 /\ d - 1 \in Int /\ t \in Int
      BY <1>2, <1>3, <1>4
    <3>2. QED
      BY <1>2, <3>1, Monotone
  <2>2. X * (d - 1) = K - X /\ X * t \in Nat
    BY <1>2, <1>3
  <2>3. v = X * t + r /\ r < X /\ r \in Nat
    BY <1>2, <1>3 DEF r
  <2> HIDE DEF K
  <2>4. QED
    BY <1>2, <2>1, <2>2, <2>3
<1>7. V = K * bits + v /\ K * bits \in Nat
  <2>1. bits * d * X = K * bits /\ K * bits \in Nat
    BY <1>1, <1>2
  <2> HIDE DEF K
  <2>2. QED
    BY <1>5, <2>1
<1>8. V \in Nat /\ V < W^4
  <2>1. K * (bits + 1) <= K * f
    <3>1. bits + 1 <= f /\ bits + 1 \in Int /\ f \in Int
      BY <1>1, <1>2 DEF bits, f
    <3> HIDE DEF K
    <3>2. QED
      BY <1>2, <3>1, Monotone
  <2> HIDE DEF K
  <2>2. K * (bits + 1) = K * bits + K
    BY <1>1, <1>2
  <2>3. QED
    BY <1>2, <1>6, <1>7, <2>1, <2>2
<1>9. PrefixOf(V, len) \in Nat /\ WithoutPrefix(V, len) \in 0 .. K - 1
      /\ V = WithoutPrefix(V, len) + K * PrefixOf(V, len)
  BY <1>1, <1>8, PrefixSplit DEF d, X
<1> DEFINE e == PrefixOf(V, len)
           m == WithoutPrefix(V, len)
<1> HIDE DEF e, m, K, len
<1>10. V = K * e + m /\ e \in Nat /\ m \in 0 .. K - 1 /\ v \in 0 .. K - 1 /\ bits \in Nat
  <2>1. K * e \in Nat /\ m \in Nat
    BY <1>2, <1>9 DEF e, m
  <2>2. V = m + K * e
    BY <1>9 DEF e, m
  <2>3. QED
    BY <1>1, <1>2, <1>6, <1>9, <2>1, <2>2 DEF e, m
<1>11. (K * e + m) \div K = e /\ (K * e + m) % K = m
  BY <1>2, <1>10, DivisionUnique
<1>12. (K * bits + v) \div K = bits /\ (K * bits + v) % K = v
  BY <1>2, <1>10, DivisionUnique
<1>13. e = bits /\ m = v
  BY <1>7, <1>10, <1>11, <1>12
<1>14. QED
  BY <1>8, <1>13 DEF V, e, m, len, bits

-----------------------------------------------------------------------------
(* What a call reads, reports and stores.                                   *)

LEMMA StoredRight ==
  ASSUME NEW n \in Uints
  PROVE  Represents(StoredByMethod(n), n % M) /\ Represents(StoredByFunction(n), n % M)
<1> DEFINE c == IF IsReduced(n, "f") THEN n ELSE Reduce_ca(n)
           f == IF IsReduced(n, "f") THEN n ELSE Reduce_fa_optimistic(n)
<1>1. n \in Nat /\ M \in Nat \ {0} /\ Two256 \in Nat /\ 2 * M < Two256 /\ Cong(n, n)
  <2>1. n \in Nat
    BY FieldConstants DEF Uints
  <2>2. Cong(n, n)
    BY <2>1, CongShifts
  <2>3. QED
    BY <2>1, <2>2, FieldConstants
<1>2. IsReduced(n, "f") => n \in ReducedRange("c")
  <2>1. IsReduced(n, "f") => n < M
    BY DEF IsReduced
  <2> HIDE DEF M, Two256
  <2>2. QED
    BY <1>1, <2>1, RangeC
<1>3. c \in ReducedRange("c") /\ Cong(c, n) /\ c \in Int
  <2>1. Reduce_ca(n) \in ReducedRange("c") /\ Cong(Reduce_ca(n), n)
    BY Reduce_ca_Right DEF Right
  <2>2. c \in ReducedRange("c") /\ Cong(c, n)
    BY <1>1, <1>2, <2>1
  <2> HIDE DEF c
  <2>3. QED
    BY <2>2, RangeC
<1>4. f \in Uints /\ Cong(f, n) /\ f \in Int
  <2>1. Reduce_fa_optimistic(n) \in 0 .. M - 1 /\ Cong(Reduce_fa_optimistic(n), n)
    BY Reduce_fa_optimistic_Right DEF Right, ReducedRange
  <2>2. 0 .. M - 1 \subseteq Uints /\ Uints \subseteq Int
    <3> HIDE DEF M, Two256
    <3>1. QED
      BY <1>1 DEF Uints
  <2>3. f \in Uints /\ Cong(f, n)
    BY <1>1, <2>1, <2>2
  <2>4. QED
    BY <2>2, <2>3
<1> HIDE DEF c, f, M
<1>5. Stands(ConvertToMontgomeryRepresentation_c(c), c) /\ Stands(SetUint256(f), f)
  BY <1>3, <1>4, ConvertedStands, ReducedStands
<1>6. Stands(ConvertToMontgomeryRepresentation_c(c), n) /\ Stands(SetUint256(f), n)
  BY <1>1, <1>3, <1>4, <1>5, StandsCong
<1>7. Represents(ConvertToMontgomeryRepresentation_c(c), n % M) /\ Represents(SetUint256(f), n % M)
  BY <1>1, <1>6, StandsFor
<1>8. QED
  BY <1>7 DEF StoredByMethod, StoredByFunction, c, f

(* What a step of the receiver needs to know of a call, with its report.    *)
Received(r) ==
  /\ ReadReported(r) /\ r.bytesRead \in 0 .. 4 /\ r.bytesRead <= Len(stream)
  /\ r.number = None \/ r.number \in Uints

LEMMA FailedReported ==
  ASSUME stream \in Seq(Word), NEW b \in 0 .. 4, b <= Len(stream),
         NEW err \in {"EOF", "UnexpectedEOF", "PrefixLengthInvalid", "PrefixMismatch"},
         err \in {"EOF", "PrefixLengthInvalid"} => b = 0,
         err = "UnexpectedEOF" => b = Len(stream),
         NEW a, a = SubSeq(stream, 1, b)
  PROVE  Received(Failed(b, err, a)) /\ Failed(b, err, a).err = err
<1> DEFINE r == Failed(b, err, a)
           p == b \notin {0, 4}
<1>1. /\ r.bytesRead = b /\ r.err = err /\ r.partialRead = p /\ r.actuallyRead = a
      /\ r.number = None
  BY DEF Failed
<1>2. p \in BOOLEAN /\ (p <=> b \in 1 .. 3)
  OBVIOUS
<1> HIDE DEF r, p, Word
<1>3. Len(SubSeq(stream, 1, b)) = b /\ (b = 0 => SubSeq(stream, 1, b) = <<>>)
  BY SubSeqProperties, EmptySeq
<1>4. b = Len(stream) => SubSeq(stream, 1, b) = stream
  OBVIOUS
<1>5. r.partialRead <=> b \in 1 .. 3
  BY <1>1, <1>2
<1>6. ReadReported(r)
  <2> DEFINE taken == SubSeq(stream, 1, r.bytesRead)
  <2>1. taken = a /\ Len(taken) = b /\ r.actuallyRead = taken
    BY <1>1, <1>3
  <2>2. err \in {"EOF", "PrefixLengthInvalid"} => taken = <<>>
    BY <1>1, <1>3
  <2>3. err = "UnexpectedEOF" => taken = stream
    BY <1>1, <1>4
  <2>4. err \notin {"none", "NonNormalized"}
    OBVIOUS
  <2>5. r.partialRead <=> Len(taken) \in 1 .. 3
    BY <1>5, <2>1
  <2> HIDE DEF taken
  <2>6. /\ r.actuallyRead = taken
        /\ r.partialRead <=> Len(taken) \in 1 .. 3
        /\ r.err \in {"EOF", "PrefixLengthInvalid"} => taken = <<>>
        /\ r.err = "UnexpectedEOF" => taken = stream
        /\ r.number = None <=> r.err \notin {"none", "NonNormalized"}
        /\ r.err = "none" => IsReduced(r.number, "f")
        /\ r.number # None =>
             \A n \in {StoredByMethod(r.number), StoredByFunction(r.number)} :
               Represents(n, r.number % M)
    <3>1. r.err # "none" /\ (r.number = None <=> r.err \notin {"none", "NonNormalized"})
      BY <1>1, <2>4
    <3>2. QED
      BY <1>1, <2>1, <2>2, <2>3, <2>5, <3>1, Zenon
  <2>7. QED
    BY <2>6 DEF ReadReported, taken
<1>7. QED
  BY <1>1, <1>6 DEF Received, r

LEMMA NumberReported ==
  ASSUME stream \in Seq(Word), Len(stream) >= 4, NEW n \in Uints, NEW r,
         r.bytesRead = 4, r.partialRead = FALSE, r.actuallyRead = SubSeq(stream, 1, 4),
         r.number = n, r.err = IF IsReduced(n, "f") THEN "none" ELSE "NonNormalized"
  PROVE  Received(r)
<1> DEFINE taken == SubSeq(stream, 1, r.bytesRead)
<1> HIDE DEF Word
<1>1. Len(taken) = 4 /\ r.actuallyRead = taken
  BY SubSeqProperties
<1>2. n # None
  BY FieldConstants DEF None, Uints
<1>3. Represents(StoredByMethod(n), n % M) /\ Represents(StoredByFunction(n), n % M)
  BY StoredRight
<1>4. 4 \notin 1 .. 3 /\ 4 \in 0 .. 4
  OBVIOUS
<1> HIDE DEF taken
<1>5. r.partialRead <=> Len(taken) \in 1 .. 3
  BY <1>1, <1>4, Zenon
<1>6. /\ r.err \notin {"EOF", "PrefixLengthInvalid", "UnexpectedEOF"}
      /\ r.err \in {"none", "NonNormalized"}
      /\ r.err = "none" => IsReduced(n, "f")
  OBVIOUS
<1>7. \A w \in {StoredByMethod(r.number), StoredByFunction(r.number)} : Represents(w, r.number % M)
  BY <1>3, Zenon
<1>8. ReadReported(r)
  <2>1. /\ r.actuallyRead = taken
        /\ r.partialRead <=> Len(taken) \in 1 .. 3
        /\ r.err \in {"EOF", "PrefixLengthInvalid"} => taken = <<>>
        /\ r.err = "UnexpectedEOF" => taken = stream
        /\ r.number = None <=> r.err \notin {"none", "NonNormalized"}
        /\ r.err = "none" => IsReduced(r.number, "f")
        /\ r.number # None =>
             \A w \in {StoredByMethod(r.number), StoredByFunction(r.number)} :
               Represents(w, r.number % M)
    BY <1>1, <1>2, <1>5, <1>6, <1>7, Zenon
  <2>2. QED
    BY <2>1 DEF ReadReported, taken
<1>9. QED
  BY <1>4, <1>8 DEF Received

(* The first four units of the stream, and the prefix and the number they   *)
(* are: with the prefix, the number makes these units again.                *)
LEMMA FirstUnits ==
  ASSUME stream \in Seq(Word), Len(stream) >= 4, NEW order \in Orders, NEW len \in 0 .. WordBits
  PROVE  LET buf == SubSeq(stream, 1, 4)
             v == Uint256(order, buf)
             n == WithoutPrefix(v, len)
         IN  /\ buf \in Seq(Word) /\ Len(buf) = 4 /\ \A i \in 1 .. 4 : buf[i] = stream[i]
             /\ v \in Nat /\ v < W^4 /\ n \in Uints /\ PrefixOf(v, len) \in Nat
             /\ SerializeWithPrefix(n, [length |-> len, bits |-> PrefixOf(v, len)], order) = buf
<1> DEFINE buf == SubSeq(stream, 1, 4)
           v == Uint256(order, buf)
           n == WithoutPrefix(v, len)
           b == PrefixOf(v, len)
           p == [length |-> len, bits |-> b]
           d == 2^(WordBits - len)
           X == W^3
           K == d * X
<1>1. buf \in Seq(Word) /\ Len(buf) = 4 /\ \A i \in 1 .. 4 : buf[i] = stream[i]
  <2> HIDE DEF Word
  <2>1. QED
    BY SubSeqProperties
<1> HIDE DEF buf
<1>2. v \in Nat /\ v < W^4 /\ PutUint256(order, v) = buf
  BY <1>1, NumberOf
<1> HIDE DEF v
<1>3. b \in Nat /\ n \in 0 .. K - 1 /\ v = n + K * b
  BY <1>2, PrefixSplit
<1>4. d \in Nat /\ X \in Nat /\ K \in Nat
  BY PrefixUnit, WordPowers
<1>5. p.bits = b /\ p.length = len
  OBVIOUS
<1>6. SerializeWithPrefix(n, p, order) = PutUint256(order, n + b * d * X)
  BY <1>5 DEF SerializeWithPrefix
<1> HIDE DEF n, b, p, d, X
<1>7. b * d * X = K * b /\ K * b \in Nat
  BY <1>3, <1>4
<1>8. n \in Nat /\ n <= v
  <2> HIDE DEF K
  <2>1. QED
    BY <1>2, <1>3, <1>7
<1>9. n \in Uints
  <2>1. W^4 \in Nat /\ Uints = 0 .. W^4 - 1
    BY FieldConstants DEF Uints, Two256
  <2>2. QED
    BY <1>2, <1>8, <2>1
<1>10. SerializeWithPrefix(n, p, order) = buf
  BY <1>2, <1>3, <1>6, <1>7
<1>11. QED
  BY <1>1, <1>2, <1>3, <1>9, <1>10 DEF v, n, b, p, buf

LEMMA GetPrefixReceived ==
  ASSUME stream \in Seq(Word), NEW order \in Orders, NEW len \in 0 .. WordBits + 1
  PROVE  Received(FeDeserializeAndGetPrefix(stream, len, order))
<1> DEFINE buf == SubSeq(stream, 1, 4)
           v == Uint256(order, buf)
           n == WithoutPrefix(v, len)
           b == PrefixOf(v, len)
           r == DeserializeAndGetPrefix(stream, len, order)
           p == [length |-> len, bits |-> r.prefix]
           fe == FeDeserializeAndGetPrefix(stream, len, order)
<1>1. Len(stream) \in Nat /\ WordBits \in Nat
  <2> HIDE DEF Word
  <2>1. QED
    BY WordBitsAssumption, LenProperties
<1>2. fe = NonNormalized(r, p, order)
  BY DEF FeDeserializeAndGetPrefix
<1>3. ASSUME NEW k \in 0 .. 4, NEW err, NEW a, r = Failed(k, err, a)
      PROVE  fe = r
  BY <1>2, <1>3 DEF NonNormalized, Failed
<1>4. r = IF len > WordBits THEN Failed(0, "PrefixLengthInvalid", <<>>)
          ELSE IF Len(stream) < 4 THEN ReadFullFails(stream)
          ELSE Read(buf, b, n)
  BY DEF DeserializeAndGetPrefix, MaxLengthPrefixBits
<1> HIDE DEF fe, r
<1>5. <<>> = SubSeq(stream, 1, 0) /\ (Len(stream) < 4 => SubSeq(stream, 1, Len(stream)) = stream)
  <2> HIDE DEF Word
  <2>1. QED
    BY SubSeqProperties, EmptySeq
<1>6. CASE len > WordBits
  <2>1. r = Failed(0, "PrefixLengthInvalid", <<>>)
    BY <1>4, <1>6
  <2>2. 0 \in 0 .. 4 /\ 0 <= Len(stream)
    BY <1>1
  <2> HIDE DEF Word
  <2>3. Received(Failed(0, "PrefixLengthInvalid", <<>>))
    BY <1>5, <2>2, FailedReported
  <2>4. QED
    BY <1>3, <2>1, <2>2, <2>3 DEF fe
<1>7. CASE len <= WordBits /\ Len(stream) < 4
  <2> DEFINE err == IF stream = <<>> THEN "EOF" ELSE "UnexpectedEOF"
             k == Len(stream)
  <2>1. r = Failed(k, err, stream)
    BY <1>1, <1>4, <1>7 DEF ReadFullFails
  <2>2. /\ k \in 0 .. 4 /\ k <= Len(stream) /\ stream = SubSeq(stream, 1, k)
        /\ err \in {"EOF", "UnexpectedEOF", "PrefixLengthInvalid", "PrefixMismatch"}
        /\ err \in {"EOF", "PrefixLengthInvalid"} => k = 0
        /\ err = "UnexpectedEOF" => k = Len(stream)
    <3>1. stream = <<>> => Len(stream) = 0
      BY EmptySeq
    <3>2. QED
      BY <1>1, <1>5, <1>7, <3>1
  <2> HIDE DEF err, k
  <2>3. Received(r)
    BY <2>1, <2>2, FailedReported
  <2>4. QED
    BY <1>3, <2>1, <2>2, <2>3 DEF fe
<1>8. CASE len <= WordBits /\ Len(stream) >= 4
  <2>1. len \in 0 .. WordBits
    BY <1>1, <1>8
  <2>2. r = Read(buf, b, n)
    BY <1>1, <1>4, <1>8
  <2>3. n \in Uints /\ SerializeWithPrefix(n, [length |-> len, bits |-> b], order) = buf
    BY <1>8, <2>1, FirstUnits
  <2> HIDE DEF buf, n, b, v
  <2>4. /\ r.bytesRead = 4 /\ r.err = "none" /\ r.partialRead = FALSE /\ r.actuallyRead = buf
        /\ r.prefix = b /\ r.number = n
    BY <2>2 DEF Read
  <2>5. r.number # None
    BY <2>3, <2>4, FieldConstants DEF None, Uints
  <2>6. /\ fe.bytesRead = 4 /\ fe.partialRead = FALSE /\ fe.actuallyRead = buf
        /\ fe.number = n /\ fe.err = IF IsReduced(n, "f") THEN "none" ELSE "NonNormalized"
    <3>1. CASE IsReduced(n, "f")
      <4>1. fe = r
        BY <1>2, <2>4, <3>1 DEF NonNormalized
      <4>2. QED
        BY <2>4, <3>1, <4>1
    <3>2. CASE ~IsReduced(n, "f")
      <4>1. fe = [r EXCEPT !.err = "NonNormalized", !.actuallyRead = SerializeWithPrefix(r.number, p, order)]
        BY <1>2, <2>4, <2>5, <3>2 DEF NonNormalized
      <4>2. SerializeWithPrefix(r.number, p, order) = buf
        BY <2>3, <2>4
      <4>3. fe = [r EXCEPT !.err = "NonNormalized", !.actuallyRead = buf]
        BY <4>1, <4>2
      <4>4. QED
        BY <2>2, <3>2, <4>3 DEF Read
    <3>3. QED
      BY <3>1, <3>2
  <2>7. QED
    BY <1>8, <2>3, <2>6, NumberReported DEF buf, fe
<1>9. QED
  BY <1>1, <1>6, <1>7, <1>8

LEMMA ExpectPrefixReceived ==
  ASSUME stream \in Seq(Word), NEW order \in Orders, NEW p, p.length \in 0 .. WordBits
  PROVE  Received(FeDeserializeWithExpectedPrefix(stream, p, order))
<1> DEFINE len == p.length
           first == SubSeq(stream, 1, 1)
           buf == SubSeq(stream, 1, 4)
           v == Uint256(order, buf)
           n == WithoutPrefix(v, len)
           differs == StartsWithMSB(order) /\ stream[1] \div 2^(WordBits - p.length) # p.bits
           r == DeserializeWithExpectedPrefix(stream, p, order)
           fe == FeDeserializeWithExpectedPrefix(stream, p, order)
<1>1. Len(stream) \in Nat
  <2> HIDE DEF Word
  <2>1. QED
    BY LenProperties
<1>2. fe = IF r.number = None \/ IsReduced(r.number, "f") THEN r
           ELSE [r EXCEPT !.err = "NonNormalized"]
  BY DEF FeDeserializeWithExpectedPrefix
<1>3. ASSUME NEW k \in 0 .. 4, NEW err, NEW a, r = Failed(k, err, a)
      PROVE  fe = r
  BY <1>2, <1>3 DEF Failed
<1>4. r = IF stream = <<>> THEN ReadFullFails(stream)
          ELSE IF differs THEN Failed(1, "PrefixMismatch", first)
          ELSE IF Len(stream) < 4 THEN ReadFullFails(stream)
          ELSE IF PrefixOf(v, len) # p.bits THEN Failed(4, "PrefixMismatch", buf)
          ELSE Read(buf, p.bits, n)
  BY DEF DeserializeWithExpectedPrefix
<1> HIDE DEF fe, r, differs
<1>5. /\ stream = <<>> <=> Len(stream) = 0
      /\ Len(stream) < 4 => SubSeq(stream, 1, Len(stream)) = stream
  <2> HIDE DEF Word
  <2>1. QED
    BY SubSeqProperties, EmptySeq
<1>6. CASE stream = <<>> \/ (~differs /\ Len(stream) < 4)
  <2> DEFINE err == IF stream = <<>> THEN "EOF" ELSE "UnexpectedEOF"
             k == Len(stream)
  <2>1. r = Failed(k, err, stream)
    <3>1. r = ReadFullFails(stream)
      BY <1>4, <1>6
    <3>2. QED
      BY <3>1 DEF ReadFullFails
  <2>2. /\ k \in 0 .. 4 /\ k <= Len(stream) /\ stream = SubSeq(stream, 1, k)
        /\ err \in {"EOF", "UnexpectedEOF", "PrefixLengthInvalid", "PrefixMismatch"}
        /\ err \in {"EOF", "PrefixLengthInvalid"} => k = 0
        /\ err = "UnexpectedEOF" => k = Len(stream)
    <3>1. stream = <<>> <=> Len(stream) = 0
      BY <1>5
    <3>2. Len(stream) < 4 => SubSeq(stream, 1, Len(stream)) = stream
      BY <1>5
    <3>3. k \in 0 .. 4 /\ k < 4
      <4>1. Len(stream) = 0 \/ Len(stream) < 4
        BY <1>6, <3>1, Zenon
      <4>2. ASSUME NEW l \in Nat, l = 0 \/ l < 4 PROVE l \in 0 .. 4 /\ l < 4
        BY <4>2
      <4>3. QED
        BY <1>1, <4>1, <4>2, Zenon
    <3> HIDE DEF Word
    <3>4. QED
      BY <1>6, <3>1, <3>2, <3>3
  <2> HIDE DEF err, k
  <2>3. Received(r)
    BY <2>1, <2>2, FailedReported
  <2>4. QED
    BY <1>3, <2>1, <2>2, <2>3 DEF fe
<1>7. CASE stream # <<>> /\ differs
  <2>1. r = Failed(1, "PrefixMismatch", first) /\ 1 <= Len(stream)
    BY <1>1, <1>4, <1>5, <1>7
  <2>2. 1 \in 0 .. 4 /\ 1 <= Len(stream)
    BY <2>1
  <2> HIDE DEF Word
  <2>3. Received(Failed(1, "PrefixMismatch", first))
    BY <2>2, FailedReported
  <2>4. QED
    BY <1>3, <2>1, <2>2, <2>3 DEF fe
<1>8. CASE stream # <<>> /\ ~differs /\ Len(stream) >= 4
  <2>1. r = IF PrefixOf(v, len) # p.bits THEN Failed(4, "PrefixMismatch", buf)
            ELSE Read(buf, p.bits, n)
    BY <1>1, <1>4, <1>8
  <2>2. CASE PrefixOf(v, len) # p.bits
    <3>1. r = Failed(4, "PrefixMismatch", buf)
      BY <2>1, <2>2
    <3>2. 4 \in 0 .. 4 /\ 4 <= Len(stream)
      BY <1>1, <1>8
    <3> HIDE DEF Word
    <3>3. Received(Failed(4, "PrefixMismatch", buf))
      BY <3>2, FailedReported
    <3>4. QED
      BY <1>3, <3>1, <3>2, <3>3 DEF fe
  <2>3. CASE PrefixOf(v, len) = p.bits
    <3>1. r = Read(buf, p.bits, n)
      BY <2>1, <2>3
    <3>2. n \in Uints
      BY <1>8, FirstUnits
    <3> HIDE DEF buf, n, v
    <3>3. /\ r.bytesRead = 4 /\ r.err = "none" /\ r.partialRead = FALSE /\ r.actuallyRead = buf
          /\ r.number = n
      BY <3>1 DEF Read
    <3>4. r.number # None
      BY <3>2, <3>3, FieldConstants DEF None, Uints
    <3>5. /\ fe.bytesRead = 4 /\ fe.partialRead = FALSE /\ fe.actuallyRead = buf
          /\ fe.number = n /\ fe.err = IF IsReduced(n, "f") THEN "none" ELSE "NonNormalized"
      <4>1. CASE IsReduced(n, "f")
        BY <1>2, <3>3, <4>1
      <4>2. CASE ~IsReduced(n, "f")
        <5>1. fe = [r EXCEPT !.err = "NonNormalized"]
          BY <1>2, <3>3, <3>4, <4>2
        <5>2. QED
          BY <3>1, <4>2, <5>1 DEF Read
      <4>3. QED
        BY <4>1, <4>2
    <3>6. QED
      BY <1>8, <3>2, <3>5, NumberReported DEF buf, fe
  <2>4. QED
    BY <2>2, <2>3
<1>9. QED
  BY <1>1, <1>6, <1>7, <1>8

-----------------------------------------------------------------------------
(* The stream.                                                              *)

(* What was written: an element with a prefix that fits it, and its units.  *)
Item == {s \in [value : 0 .. M - 1, prefix : BitHeaders, order : Orders] : PrefixFits(s.value, s.prefix)}
UnitsOfItem(s) == SerializeWithPrefix(s.value, s.prefix, s.order)

(* The elements are valid, and the stream starts with the units of what was *)
(* written, one item after the other.                                       *)
Layout(e, a, units, items) ==
  /\ e \in ReducedRange("c") /\ a \in ReducedRange("c")
  /\ units \in Seq(Word) /\ items \in Seq(Item)
  /\ 4 * Len(items) <= Len(units)
  /\ \A k \in 1 .. Len(items), i \in 1 .. 4 : units[4 * (k - 1) + i] = UnitsOfItem(items[k])[i]
SerializationInv == Layout(elem, arg, stream, sent)

LEMMA ItemUnits ==
  ASSUME NEW s \in Item
  PROVE  LET v == WithPrefix(s.value, s.prefix)
         IN  /\ UnitsOfItem(s) \in Seq(Word) /\ Len(UnitsOfItem(s)) = 4
             /\ Uint256(s.order, UnitsOfItem(s)) = v /\ v \in Nat /\ v < W^4
             /\ Top(v) = UnitsOfItem(s)[TopUnit(s.order)]
             /\ PrefixOf(v, s.prefix.length) = s.prefix.bits
             /\ WithoutPrefix(v, s.prefix.length) = s.value
             /\ s.value \in 0 .. M - 1 /\ s.prefix \in BitHeaders /\ s.order \in Orders
<1> DEFINE v == WithPrefix(s.value, s.prefix)
<1>1. /\ s.value \in 0 .. M - 1 /\ s.prefix \in BitHeaders /\ s.order \in Orders
      /\ PrefixFits(s.value, s.prefix)
  <2> HIDE DEF M
  <2>1. QED
    BY DEF Item
<1>2. s.value \in Nat /\ s.value < W^4
  <2>1. M \in Nat /\ W^4 \in Nat /\ 2 * M < W^4
    BY FieldConstants DEF Two256
  <2> HIDE DEF M
  <2>2. QED
    BY <1>1, <2>1
<1>3. /\ v \in Nat /\ v < W^4 /\ PrefixOf(v, s.prefix.length) = s.prefix.bits
      /\ WithoutPrefix(v, s.prefix.length) = s.value
  BY <1>1, <1>2, PrefixPut
<1>4. UnitsOfItem(s) = PutUint256(s.order, v)
  BY DEF UnitsOfItem, SerializeWithPrefix, WithPrefix
<1> HIDE DEF v
<1>5. LET u == PutUint256(s.order, v)
      IN  u \in Seq(Word) /\ Len(u) = 4 /\ Uint256(s.order, u) = v /\ Top(v) = u[TopUnit(s.order)]
  BY <1>1, <1>3, ReadBack
<1>6. QED
  BY <1>1, <1>3, <1>4, <1>5 DEF v

LEMMA Appended ==
  ASSUME NEW units \in Seq(Word), NEW u \in Seq(Word), Len(u) = 4, NEW k \in 0 .. 4
  PROVE  LET t == units \o SubSeq(u, 1, k)
         IN  /\ t \in Seq(Word) /\ Len(t) = Len(units) + k
             /\ \A i \in 1 .. Len(units) : t[i] = units[i]
             /\ \A i \in 1 .. k : t[Len(units) + i] = u[i]
<1> HIDE DEF Word
<1> DEFINE a == SubSeq(u, 1, k)
<1>1. a \in Seq(Word) /\ Len(a) = k /\ \A i \in 1 .. k : a[i] = u[i]
  <2>1. \A i \in 1 .. k : u[i] \in Word
    <3>1. \A i \in 1 .. k : i \in 1 .. Len(u)
      OBVIOUS
    <3>2. QED
      BY <3>1, ElementOfSeq
  <2>2. /\ a \in Seq(Word) /\ Len(a) = IF 1 <= k THEN k - 1 + 1 ELSE 0
        /\ \A i \in 1 .. k - 1 + 1 : a[i] = u[1 + i - 1]
    BY <2>1, SubSeqProperties
  <2> HIDE DEF a
  <2>3. (IF 1 <= k THEN k - 1 + 1 ELSE 0) = k /\ k - 1 + 1 = k /\ \A i \in 1 .. k : 1 + i - 1 = i
    OBVIOUS
  <2>4. QED
    BY <2>2, <2>3
<1>2. Len(units) \in Nat
  BY LenProperties
<1> HIDE DEF a
<1>3. /\ units \o a \in Seq(Word) /\ Len(units \o a) = Len(units) + Len(a)
      /\ \A i \in 1 .. Len(units) + Len(a) :
           (units \o a)[i] = IF i <= Len(units) THEN units[i] ELSE a[i - Len(units)]
  BY <1>1, ConcatProperties
<1>4. ASSUME NEW i \in 1 .. Len(units)
      PROVE  (units \o a)[i] = units[i]
  BY <1>1, <1>2, <1>3
<1>5. ASSUME NEW i \in 1 .. k
      PROVE  (units \o a)[Len(units) + i] = u[i]
  BY <1>1, <1>2, <1>3
<1>6. QED
  BY <1>1, <1>3, <1>4, <1>5 DEF a

LEMMA Dropped ==
  ASSUME NEW units \in Seq(Word), NEW b \in 0 .. 4, b <= Len(units)
  PROVE  LET t == SubSeq(units, b + 1, Len(units))
         IN  /\ t \in Seq(Word) /\ Len(t) = Len(units) - b
             /\ \A i \in 1 .. Len(units) - b : t[i] = units[i + b]
<1> HIDE DEF Word
<1>1. Len(units) \in Nat
  BY LenProperties
<1> DEFINE t == SubSeq(units, b + 1, Len(units))
           l == IF b + 1 <= Len(units) THEN Len(units) - (b + 1) + 1 ELSE 0
<1>2. b + 1 \in 1 .. Len(units) + 1 /\ Len(units) \in b .. Len(units)
  BY <1>1
<1>3. t \in Seq(Word) /\ Len(t) = l /\ \A i \in 1 .. l : t[i] = units[b + 1 + i - 1]
  BY <1>1, <1>2, SubSeqProperties
<1> HIDE DEF t
<1>4. l = Len(units) - b
  BY <1>1
<1> HIDE DEF l
<1>5. \A i \in 1 .. Len(units) - b : b + 1 + i - 1 = i + b
  BY <1>1
<1>6. QED
  BY <1>3, <1>4, <1>5 DEF t

LEMMA LayoutAtStart == SerializationInit => SerializationInv
<1> SUFFICES ASSUME SerializationInit
             PROVE  Layout(elem, arg, stream, sent)
  BY DEF SerializationInv
<1>1. elem \in ReducedRange("c") /\ arg \in ReducedRange("c")
  BY BitHeadersAssumption, ConstantsStand DEF SerializationInit, Stands
<1>2. stream \in Seq(Word) /\ sent \in Seq(Item) /\ Len(stream) = 0 /\ Len(sent) = 0
  <2>1. <<>> \in Seq(Word) /\ <<>> \in Seq(Item) /\ Len(<<>>) = 0
    BY EmptySeq
  <2>2. QED
    BY <2>1 DEF SerializationInit
<1>3. 4 * 0 <= 0 /\ 1 .. 0 = {}
  OBVIOUS
<1>4. QED
  BY <1>1, <1>2, <1>3 DEF Layout

LEMMA AppendKeeps ==
  ASSUME NEW e, NEW a, NEW units, NEW items, Layout(e, a, units, items),
         NEW u \in Seq(Word), Len(u) = 4, NEW k \in 0 .. 4
  PROVE  LET t == units \o SubSeq(u, 1, k)
         IN  /\ Layout(e, a, t, items)
             /\ \A s \in Item : k = 4 /\ Len(units) = 4 * Len(items) /\ UnitsOfItem(s) = u
                  => Layout(e, a, t, Append(items, s))
<1> DEFINE t == units \o SubSeq(u, 1, k)
           L == Len(units)
           N == Len(items)
<1>1. /\ e \in ReducedRange("c") /\ a \in ReducedRange("c")
      /\ units \in Seq(Word) /\ items \in Seq(Item) /\ 4 * N <= L
      /\ \A j \in 1 .. N, i \in 1 .. 4 : units[4 * (j - 1) + i] = UnitsOfItem(items[j])[i]
  BY DEF Layout
<1>2. L \in Nat /\ N \in Nat
  <2> HIDE DEF Word, Item
  <2>1. QED
    BY <1>1, LenProperties
<1>3. /\ t \in Seq(Word) /\ Len(t) = L + k
      /\ \A i \in 1 .. L : t[i] = units[i]
      /\ \A i \in 1 .. k : t[L + i] = u[i]
  BY <1>1, Appended
<1> HIDE DEF t, L, N, Word, Item
<1>4. \A j \in 1 .. N, i \in 1 .. 4 : t[4 * (j - 1) + i] = UnitsOfItem(items[j])[i]
  <2>1. \A j \in 1 .. N, i \in 1 .. 4 : 4 * (j - 1) + i \in 1 .. L
    BY <1>1, <1>2
  <2>2. QED
    BY <1>1, <1>3, <2>1
<1>5. Layout(e, a, t, items)
  <2>1. 4 * N <= Len(t)
    BY <1>1, <1>2, <1>3
  <2>2. QED
    BY <1>1, <1>3, <1>4, <2>1 DEF Layout, N
<1>6. ASSUME NEW s \in Item, k = 4, L = 4 * N, UnitsOfItem(s) = u
      PROVE  Layout(e, a, t, Append(items, s))
  <2> DEFINE more == Append(items, s)
  <2>1. /\ more \in Seq(Item) /\ Len(more) = N + 1
        /\ \A j \in 1 .. N : more[j] = items[j]
        /\ more[N + 1] = s
    BY <1>1, AppendProperties DEF N
  <2> HIDE DEF more
  <2>2. 4 * Len(more) <= Len(t)
    BY <1>2, <1>3, <1>6, <2>1
  <2>3. ASSUME NEW j \in 1 .. Len(more), NEW i \in 1 .. 4
        PROVE  t[4 * (j - 1) + i] = UnitsOfItem(more[j])[i]
    <3>1. CASE j \in 1 .. N
      BY <1>4, <2>1, <3>1
    <3>2. CASE j = N + 1
      <4>1. 4 * (j - 1) + i = L + i /\ i \in 1 .. k
        BY <1>2, <1>6, <3>2
      <4>2. t[L + i] = u[i]
        BY <1>3, <4>1
      <4>3. QED
        BY <1>6, <2>1, <3>2, <4>1, <4>2
    <3>3. QED
      BY <1>2, <2>1, <3>1, <3>2
  <2>4. QED
    BY <1>1, <1>3, <2>1, <2>2, <2>3 DEF Layout, more
<1>7. QED
  BY <1>5, <1>6 DEF t, L, N

LEMMA SerializeKeeps ==
  ASSUME SerializationInv, Serialize
  PROVE  Layout(elem', arg', stream', sent')
<1>1. PICK p \in BitHeaders, order \in Orders, k \in Taken :
        LET v == ToUint256(elem)
        IN  /\ PrefixFits(v, p)
            /\ stream' = stream \o SubSeq(SerializeWithPrefix(v, p, order), 1, k)
            /\ sent' = IF k = 4 /\ Len(stream) = 4 * Len(sent)
                       THEN Append(sent, [value |-> Value(elem), prefix |-> p, order |-> order])
                       ELSE sent
            /\ elem' = elem /\ arg' = arg
  BY DEF Serialize
<1>2. Layout(elem, arg, stream, sent) /\ elem \in ReducedRange("c")
  BY DEF SerializationInv, Layout
<1> DEFINE s == [value |-> Value(elem), prefix |-> p, order |-> order]
           u == SerializeWithPrefix(ToUint256(elem), p, order)
<1>3. ToUint256(elem) = Value(elem) /\ Value(elem) \in 0 .. M - 1
  BY <1>2, UnconvertedIsValue, ValueStands
<1>4. s \in Item /\ UnitsOfItem(s) = u
  <2>1. s.value = Value(elem) /\ s.prefix = p /\ s.order = order
    OBVIOUS
  <2>2. s \in [value : 0 .. M - 1, prefix : BitHeaders, order : Orders]
    <3> HIDE DEF M
    <3>1. QED
      BY <1>3
  <2>3. PrefixFits(s.value, s.prefix)
    BY <1>1, <1>3, <2>1
  <2>4. UnitsOfItem(s) = u
    BY <1>3, <2>1 DEF UnitsOfItem
  <2> HIDE DEF s, M
  <2>5. QED
    BY <2>2, <2>3, <2>4 DEF Item
<1>5. u \in Seq(Word) /\ Len(u) = 4 /\ k \in 0 .. 4
  BY <1>4, ItemUnits, BitHeadersAssumption
<1>6. /\ stream' = stream \o SubSeq(u, 1, k)
      /\ sent' = IF k = 4 /\ Len(stream) = 4 * Len(sent) THEN Append(sent, s) ELSE sent
      /\ elem' = elem /\ arg' = arg
  BY <1>1
<1> HIDE DEF s, u, Word
<1>7. /\ Layout(elem, arg, stream', sent)
      /\ k = 4 /\ Len(stream) = 4 * Len(sent) => Layout(elem, arg, stream', Append(sent, s))
  BY <1>2, <1>4, <1>5, <1>6, AppendKeeps
<1>8. QED
  BY <1>6, <1>7

LEMMA ForeignKeeps ==
  ASSUME SerializationInv, SerializeForeign
  PROVE  Layout(elem', arg', stream', sent')
<1>1. PICK n \in Foreign, order \in Orders :
        /\ stream = <<>> /\ stream' = PutUint256(order, n)
        /\ elem' = elem /\ arg' = arg /\ sent' = sent
  BY DEF SerializeForeign
<1>2. /\ elem \in ReducedRange("c") /\ arg \in ReducedRange("c") /\ sent \in Seq(Item)
      /\ 4 * Len(sent) <= Len(stream)
  BY DEF SerializationInv, Layout
<1>3. n \in Nat /\ n < W^4
  <2>1. n \in 0 .. W^4 - 1 /\ W^4 \in Nat
    BY BitHeadersAssumption, FieldConstants DEF Uints, Two256
  <2>2. QED
    BY <2>1
<1>4. stream' \in Seq(Word) /\ Len(stream') = 4
  BY <1>1, <1>3, ReadBack
<1>5. Len(sent) = 0
  <2>1. Len(sent) \in Nat
    <3> HIDE DEF Item
    <3>1. QED
      BY <1>2, LenProperties
  <2>2. Len(stream) = 0
    BY <1>1
  <2>3. QED
    BY <1>2, <2>1, <2>2
<1>6. 1 .. 0 = {} /\ 4 * 0 <= 4
  OBVIOUS
<1> HIDE DEF Word, Item
<1>7. QED
  BY <1>1, <1>2, <1>4, <1>5, <1>6 DEF Layout

(* A call reads nothing, an item, or into an item: then the reader is lost. *)
LEMMA ReceiveKeeps ==
  ASSUME SerializationInv, NEW r, Received(r), Receive(r)
  PROVE  Layout(elem', arg', stream', sent')
<1> DEFINE b == r.bytesRead
           L == Len(stream)
           N == Len(sent)
<1>1. /\ elem \in ReducedRange("c") /\ arg \in ReducedRange("c")
      /\ stream \in Seq(Word) /\ sent \in Seq(Item) /\ 4 * N <= L
      /\ \A k \in 1 .. N, i \in 1 .. 4 : stream[4 * (k - 1) + i] = UnitsOfItem(sent[k])[i]
  BY DEF SerializationInv, Layout
<1>2. L \in Nat /\ N \in Nat
  <2> HIDE DEF Word, Item
  <2>1. QED
    BY <1>1, LenProperties
<1>3. /\ b \in 0 .. 4 /\ b <= L /\ (r.number = None \/ r.number \in Uints)
  BY DEF Received
<1>4. /\ stream' = SubSeq(stream, b + 1, L)
      /\ sent' = IF b = 4 /\ sent # <<>> THEN Tail(sent) ELSE IF b = 0 THEN sent ELSE <<>>
      /\ IF r.number = None THEN elem' = elem
         ELSE elem' \in {StoredByMethod(r.number), StoredByFunction(r.number)}
      /\ arg' = arg
  BY DEF Receive
<1>5. elem' \in ReducedRange("c")
  <2>1. CASE r.number = None
    BY <1>1, <1>4, <2>1
  <2>2. CASE r.number # None
    <3>1. r.number \in Uints
      BY <1>3, <2>2
    <3>2. /\ StoredByMethod(r.number) \in ReducedRange("c")
          /\ StoredByFunction(r.number) \in ReducedRange("c")
      BY <3>1, StoredRight DEF Represents
    <3>3. QED
      BY <1>4, <2>2, <3>2
  <2>3. QED
    BY <2>1, <2>2
<1>6. /\ stream' \in Seq(Word) /\ Len(stream') = L - b
      /\ \A i \in 1 .. L - b : stream'[i] = stream[i + b]
  BY <1>1, <1>3, <1>4, Dropped
<1> HIDE DEF b, L, N, Word, Item
<1>7. /\ sent' \in Seq(Item) /\ 4 * Len(sent') <= Len(stream')
      /\ \A k \in 1 .. Len(sent'), i \in 1 .. 4 : stream'[4 * (k - 1) + i] = UnitsOfItem(sent'[k])[i]
  <2>1. CASE b = 4 /\ sent # <<>>
    <3>1. sent' = Tail(sent)
      BY <1>4, <2>1
    <3>2. /\ sent' \in Seq(Item) /\ Len(sent') = N - 1 /\ N \in Nat \ {0}
          /\ \A k \in 1 .. Len(sent') : sent'[k] = sent[k + 1]
      BY <1>1, <2>1, <3>1, HeadTailProperties, EmptySeq DEF N
    <3>3. 4 * Len(sent') <= Len(stream')
      BY <1>1, <1>2, <1>6, <2>1, <3>2
    <3>4. ASSUME NEW k \in 1 .. Len(sent'), NEW i \in 1 .. 4
          PROVE  stream'[4 * (k - 1) + i] = UnitsOfItem(sent'[k])[i]
      <4>1. /\ k + 1 \in 1 .. N /\ k \in 1 .. N - 1
            /\ 4 * (k - 1) + i \in 1 .. L - b
            /\ (4 * (k - 1) + i) + b = 4 * ((k + 1) - 1) + i
        BY <1>1, <1>2, <2>1, <3>2, SMTT(60)
      <4>2. stream'[4 * (k - 1) + i] = stream[4 * ((k + 1) - 1) + i]
        BY <1>6, <4>1
      <4>3. stream[4 * ((k + 1) - 1) + i] = UnitsOfItem(sent[k + 1])[i]
        BY <1>1, <4>1
      <4>4. QED
        BY <3>2, <4>2, <4>3
    <3>5. QED
      BY <3>2, <3>3, <3>4
  <2>2. CASE b = 0
    <3>1. sent' = sent
      BY <1>4, <2>2
    <3>2. Len(stream') = L /\ 4 * Len(sent') <= Len(stream')
      BY <1>1, <1>2, <1>6, <2>2, <3>1 DEF N
    <3>3. ASSUME NEW k \in 1 .. N, NEW i \in 1 .. 4
          PROVE  stream'[4 * (k - 1) + i] = UnitsOfItem(sent[k])[i]
      <4>1. /\ 4 * (k - 1) + i \in 1 .. L - b
            /\ (4 * (k - 1) + i) + b = 4 * (k - 1) + i
        BY <1>1, <1>2, <2>2
      <4>2. QED
        BY <1>1, <1>6, <4>1
    <3>4. QED
      BY <1>1, <3>1, <3>2, <3>3 DEF N
  <2>3. CASE b # 0 /\ ~(b = 4 /\ sent # <<>>)
    <3>1. sent' = <<>>
      BY <1>4, <2>3
    <3>2. <<>> \in Seq(Item) /\ Len(<<>>) = 0
      BY EmptySeq
    <3>3. Len(stream') \in Nat /\ 1 .. 0 = {}
      BY <1>2, <1>3, <1>6
    <3>4. QED
      BY <3>1, <3>2, <3>3
  <2>4. QED
    BY <2>1, <2>2, <2>3
<1>8. QED
  BY <1>1, <1>4, <1>5, <1>6, <1>7 DEF Layout

LEMMA PrefixLengthsRight ==
  /\ \A len \in PrefixLengths : len \in 0 .. WordBits + 1
  /\ \A p \in BitHeaders : p.length \in 0 .. WordBits
BY BitHeadersAssumption, WordBitsAssumption DEF PrefixLengths, MaxLengthPrefixBits

LEMMA LayoutKept ==
  ASSUME SerializationInv, [SerializationNext]_serializationVars
  PROVE  SerializationInv'
<1> SUFFICES Layout(elem', arg', stream', sent')
  BY DEF SerializationInv
<1>1. stream \in Seq(Word)
  BY DEF SerializationInv, Layout
<1>2. CASE Serialize
  BY <1>2, SerializeKeeps
<1>3. CASE SerializeForeign
  BY <1>3, ForeignKeeps
<1>4. CASE GetPrefix
  <2>1. PICK len \in PrefixLengths, order \in Orders :
          Receive(FeDeserializeAndGetPrefix(stream, len, order))
    BY <1>4 DEF GetPrefix
  <2>2. Received(FeDeserializeAndGetPrefix(stream, len, order))
    BY <1>1, PrefixLengthsRight, GetPrefixReceived
  <2>3. QED
    BY <2>1, <2>2, ReceiveKeeps
<1>5. CASE ExpectPrefix
  <2>1. PICK p \in BitHeaders, order \in Orders :
          Receive(FeDeserializeWithExpectedPrefix(stream, p, order))
    BY <1>5 DEF ExpectPrefix
  <2>2. Received(FeDeserializeWithExpectedPrefix(stream, p, order))
    BY <1>1, PrefixLengthsRight, ExpectPrefixReceived
  <2>3. QED
    BY <2>1, <2>2, ReceiveKeeps
<1>6. CASE UNCHANGED serializationVars
  <2>1. elem' = elem /\ arg' = arg /\ stream' = stream /\ sent' = sent
    BY <1>6 DEF serializationVars
  <2>2. QED
    BY <2>1 DEF SerializationInv
<1>7. QED
  BY <1>2, <1>3, <1>4, <1>5, <1>6 DEF SerializationNext

(* However the calls go on, the elements are valid and the stream starts    *)
(* with the units of what was written and not read yet.                     *)
THEOREM SerializationInvariance == SerializationSpec => []SerializationInv
<1>1. SerializationInit => SerializationInv
  BY LayoutAtStart
<1>2. SerializationInv /\ [SerializationNext]_serializationVars => SerializationInv'
  BY LayoutKept
<1>3. QED
  BY <1>1, <1>2, PTL DEF SerializationSpec

-----------------------------------------------------------------------------
(* What was written is read.                                                *)

LEMMA FirstItem ==
  ASSUME SerializationInv, sent # <<>>
  PROVE  LET s == Head(sent)
             buf == SubSeq(stream, 1, 4)
             v == Uint256(s.order, buf)
         IN  /\ stream \in Seq(Word) /\ Len(stream) \in Nat /\ Len(stream) >= 4
             /\ PrefixOf(v, s.prefix.length) = s.prefix.bits
             /\ WithoutPrefix(v, s.prefix.length) = s.value
             /\ Top(v) = buf[TopUnit(s.order)] /\ buf[1] = stream[1]
             /\ s.value \in 0 .. M - 1 /\ s.prefix \in BitHeaders /\ s.order \in Orders
<1> DEFINE s == Head(sent)
           buf == SubSeq(stream, 1, 4)
           v == Uint256(s.order, buf)
<1>1. /\ stream \in Seq(Word) /\ sent \in Seq(Item) /\ 4 * Len(sent) <= Len(stream)
      /\ \A k \in 1 .. Len(sent), i \in 1 .. 4 : stream[4 * (k - 1) + i] = UnitsOfItem(sent[k])[i]
  BY DEF SerializationInv, Layout
<1> HIDE DEF Word, Item
<1>2. Len(sent) \in Nat \ {0} /\ Len(stream) \in Nat /\ Len(stream) >= 4
  <2>1. Len(sent) \in Nat \ {0} /\ Len(stream) \in Nat
    BY <1>1, EmptySeq, LenProperties
  <2>2. QED
    BY <1>1, <2>1
<1>3. s \in Item /\ s = sent[1]
  BY <1>1, HeadTailProperties
<1> HIDE DEF s
<1>4. /\ buf \in Seq(Word) /\ Len(buf) = 4 /\ \A i \in 1 .. 4 : buf[i] = stream[i]
  <2>1. 0 \in 0 .. WordBits /\ s.order \in Orders
    BY <1>3, ItemUnits, WordBitsAssumption
  <2>2. QED
    BY <1>1, <1>2, <2>1, FirstUnits
<1> DEFINE u == UnitsOfItem(s)
<1>5. /\ u \in Seq(Word) /\ Len(u) = 4 /\ Top(Uint256(s.order, u)) = u[TopUnit(s.order)]
      /\ PrefixOf(Uint256(s.order, u), s.prefix.length) = s.prefix.bits
      /\ WithoutPrefix(Uint256(s.order, u), s.prefix.length) = s.value
      /\ s.value \in 0 .. M - 1 /\ s.prefix \in BitHeaders /\ s.order \in Orders
  BY <1>3, ItemUnits
<1> HIDE DEF buf, u
<1>6. \A i \in 1 .. 4 : stream[i] = u[i]
  <2>1. \A i \in 1 .. 4 : stream[4 * (1 - 1) + i] = UnitsOfItem(sent[1])[i] /\ 4 * (1 - 1) + i = i
    BY <1>1, <1>2
  <2>2. QED
    BY <1>3, <2>1 DEF u
<1>7. buf = u
  <2>1. \A i \in 1 .. 4 : buf[i] = u[i]
    BY <1>4, <1>6
  <2>2. buf[1] = u[1] /\ buf[2] = u[2] /\ buf[3] = u[3] /\ buf[4] = u[4]
    BY <2>1
  <2>3. QED
    BY <1>4, <1>5, <2>2, Equal4
<1>8. buf[1] = stream[1]
  BY <1>4
<1>9. QED
  BY <1>1, <1>2, <1>5, <1>7, <1>8 DEF s, buf

LEMMA WrittenIsReadRight ==
  ASSUME SerializationInv, sent # <<>>
  PROVE  WrittenIsRead
<1> DEFINE s == Head(sent)
           len == s.prefix.length
           buf == SubSeq(stream, 1, 4)
           first == SubSeq(stream, 1, 1)
           v == Uint256(s.order, buf)
           n == WithoutPrefix(v, len)
           r == FeDeserializeAndGetPrefix(stream, len, s.order)
           whole == Read(buf, s.prefix.bits, s.value)
<1>1. /\ stream \in Seq(Word) /\ Len(stream) \in Nat /\ Len(stream) >= 4
      /\ PrefixOf(v, len) = s.prefix.bits /\ n = s.value
      /\ Top(v) = buf[TopUnit(s.order)] /\ buf[1] = stream[1]
      /\ s.value \in 0 .. M - 1 /\ s.prefix \in BitHeaders /\ s.order \in Orders
  BY FirstItem
<1>2. stream # <<>> /\ ~(Len(stream) < 4)
  BY <1>1
<1>3. len \in 0 .. WordBits /\ ~(len > WordBits)
  <2>1. len \in 0 .. WordBits /\ WordBits \in Nat
    BY <1>1, PrefixLengthsRight, WordBitsAssumption
  <2> HIDE DEF len
  <2>2. QED
    BY <2>1
<1>4. IsReduced(s.value, "f") /\ s.value # None
  <2>1. s.value \in Nat /\ s.value < M
    <3>1. M \in Nat
      BY FieldConstants
    <3> HIDE DEF M, s
    <3>2. QED
      BY <1>1, <3>1
  <2>2. QED
    BY <2>1 DEF IsReduced, None
<1>5. DeserializeAndGetPrefix(stream, len, s.order) = whole
  BY <1>1, <1>2, <1>3 DEF DeserializeAndGetPrefix, MaxLengthPrefixBits
<1>6. whole.number = s.value /\ whole.err = "none" /\ whole.prefix = s.prefix.bits
  BY DEF Read
<1> HIDE DEF s, whole, buf, v, n, len
<1>7. r = whole
  BY <1>4, <1>5, <1>6 DEF FeDeserializeAndGetPrefix, NonNormalized
<1> HIDE DEF r
<1>8. StartsWithMSB(s.order) => stream[1] \div 2^(WordBits - len) = s.prefix.bits
  <2>1. StartsWithMSB(s.order) => Top(v) = stream[1]
    BY <1>1 DEF TopUnit
  <2>2. QED
    BY <1>1, <2>1 DEF PrefixOf
<1>9. ASSUME NEW p \in BitHeaders
      PROVE  LET e == FeDeserializeWithExpectedPrefix(stream, p, s.order)
             IN  /\ p = s.prefix => e = r
                 /\ p.length = s.prefix.length /\ p # s.prefix => e.err = "PrefixMismatch"
  <2> DEFINE e == FeDeserializeWithExpectedPrefix(stream, p, s.order)
             d == DeserializeWithExpectedPrefix(stream, p, s.order)
             differs == StartsWithMSB(s.order) /\ stream[1] \div 2^(WordBits - p.length) # p.bits
  <2>1. e = IF d.number = None \/ IsReduced(d.number, "f") THEN d
            ELSE [d EXCEPT !.err = "NonNormalized"]
    BY DEF FeDeserializeWithExpectedPrefix
  <2>2. d = IF differs THEN Failed(1, "PrefixMismatch", first)
            ELSE IF PrefixOf(v, p.length) # p.bits THEN Failed(4, "PrefixMismatch", buf)
            ELSE Read(buf, p.bits, WithoutPrefix(v, p.length))
    BY <1>2 DEF DeserializeWithExpectedPrefix, buf, v
  <2> HIDE DEF e, d
  <2>3. CASE p = s.prefix
    <3>1. ~differs /\ PrefixOf(v, p.length) = p.bits /\ WithoutPrefix(v, p.length) = s.value
      BY <1>1, <1>8, <2>3 DEF len, n
    <3>2. d = whole
      BY <2>2, <2>3, <3>1 DEF whole
    <3>3. e = whole
      BY <1>4, <1>6, <2>1, <3>2
    <3>4. QED
      BY <1>7, <2>3, <3>3 DEF e
  <2>4. CASE p.length = s.prefix.length /\ p # s.prefix
    <3>1. p.bits # s.prefix.bits
      <4>1. /\ p \in [length : 0 .. MaxLengthPrefixBits, bits : Nat]
            /\ s.prefix \in [length : 0 .. MaxLengthPrefixBits, bits : Nat]
        BY <1>1, BitHeadersAssumption
      <4>2. QED
        BY <2>4, <4>1
    <3>2. PrefixOf(v, p.length) # p.bits
      BY <1>1, <2>4, <3>1 DEF len
    <3>3. d = Failed(1, "PrefixMismatch", first) \/ d = Failed(4, "PrefixMismatch", buf)
      BY <2>2, <3>2
    <3>4. d.number = None /\ d.err = "PrefixMismatch"
      BY <3>3 DEF Failed
    <3>5. e.err = "PrefixMismatch"
      BY <2>1, <3>4
    <3>6. QED
      BY <2>4, <3>5 DEF e
  <2>5. QED
    BY <2>3, <2>4 DEF e
<1>10. r.err = "none" /\ r.number = s.value /\ r.prefix = s.prefix.bits
  BY <1>6, <1>7
<1>11. QED
  BY <1>9, <1>10 DEF WrittenIsRead, s, r, len

(* For words of any size, any prime that fits them and any prefixes, a call *)
(* reports what it takes from the stream and stores what it reads, and what *)
(* was written whole is read again.                                         *)
THEOREM SerializationCorrect == SerializationSpec => []SerializationExact
<1>1. SerializationInv => SerializationExact
  <2> SUFFICES ASSUME SerializationInv PROVE SerializationExact
    OBVIOUS
  <2>1. stream \in Seq(Word)
    BY DEF SerializationInv, Layout
  <2>2. ReadsReported
    <3> SUFFICES ASSUME NEW order \in Orders
                 PROVE  /\ \A len \in PrefixLengths :
                             ReadReported(FeDeserializeAndGetPrefix(stream, len, order))
                        /\ \A p \in BitHeaders :
                             ReadReported(FeDeserializeWithExpectedPrefix(stream, p, order))
      BY DEF ReadsReported
    <3>1. ASSUME NEW len \in PrefixLengths
          PROVE  ReadReported(FeDeserializeAndGetPrefix(stream, len, order))
      BY <2>1, GetPrefixReceived, PrefixLengthsRight DEF Received
    <3>2. ASSUME NEW p \in BitHeaders
          PROVE  ReadReported(FeDeserializeWithExpectedPrefix(stream, p, order))
      BY <2>1, ExpectPrefixReceived, PrefixLengthsRight DEF Received
    <3>3. QED
      BY <3>1, <3>2
  <2>3. sent # <<>> => WrittenIsRead
    BY WrittenIsReadRight
  <2>4. QED
    BY <2>2, <2>3 DEF SerializationExact
<1>2. QED
  BY <1>1, SerializationInvariance, PTL

-----------------------------------------------------------------------------
(* Chains of carries: the words of a number from the lowest on.             *)

(* The values of the words.                                                 *)
Weight(k) == IF k = 0 THEN 1 ELSE W * W^(k - 1)

(* The weights of the words are the powers of the size of a word.           *)
LEMMA Weights ==
  /\ W \in Nat /\ W >= 8 /\ Weight(0) = 1 /\ Weight(1) = W /\ Weight(4) = Two256
  /\ \A k \in 0 .. 7 : W^k = Weight(k) /\ Weight(k + 1) = W * Weight(k)
  /\ \A k \in 0 .. 8 : Weight(k) \in Nat \ {0}
<1>1. W \in Nat /\ W >= 8
  BY WordIsPower, Modulus
<1>2. W^0 = 1 /\ \A n \in 0 .. 6 : W^(n + 1) = W * W^n
  BY PowersAssumption
<1>3. Two256 = W^4
  BY WordPowers
<1> HIDE DEF W, Two256
<1>4. Weight(0) = 1 /\ W^0 = Weight(0)
  BY <1>2 DEF Weight
<1>5. ASSUME NEW k \in 0 .. 6 PROVE W^(k + 1) = Weight(k + 1)
  <2>1. k + 1 # 0 /\ (k + 1) - 1 = k
    OBVIOUS
  <2>2. QED
    BY <1>2, <2>1 DEF Weight
<1>6. ASSUME NEW k \in 0 .. 7 PROVE W^k = Weight(k)
  <2>1. CASE k = 0
    BY <1>4, <2>1
  <2>2. CASE k # 0
    <3>1. k - 1 \in 0 .. 6 /\ (k - 1) + 1 = k
      BY <2>2
    <3>2. W^((k - 1) + 1) = Weight((k - 1) + 1)
      BY <1>5, <3>1
    <3>3. QED
      BY <3>1, <3>2
  <2>3. QED
    BY <2>1, <2>2
<1>7. ASSUME NEW k \in 0 .. 7 PROVE Weight(k + 1) = W * Weight(k)
  <2>1. k + 1 # 0 /\ (k + 1) - 1 = k
    OBVIOUS
  <2>2. Weight(k + 1) = W * W^k
    BY <2>1 DEF Weight
  <2>3. QED
    BY <1>6, <2>2
<1>8. \A k \in 0 .. 8 : Weight(k) \in Nat \ {0}
  <2> DEFINE S == {k \in Nat : Weight(k) \in Nat \ {0}}
  <2>1. 0 \in S
    BY <1>4
  <2>2. ASSUME NEW k \in 0 .. 8 - 1, k \in S PROVE k + 1 \in S
    <3> DEFINE w == Weight(k)
    <3>1. w \in Nat \ {0} /\ Weight(k + 1) = W * w
      BY <1>7, <2>2
    <3> HIDE DEF w
    <3>2. W * w \in Nat \ {0}
      BY <1>1, <3>1
    <3>3. k + 1 \in Nat
      OBVIOUS
    <3>4. QED
      BY <3>1, <3>2, <3>3
  <2> HIDE DEF S
  <2>3. \A k \in 0 .. 8 : k \in S
    BY <2>1, <2>2, UpTo
  <2> USE DEF S
  <2>4. QED
    BY <2>3
<1>9. Weight(1) = W
  <2>1. Weight(0 + 1) = W * Weight(0)
    BY <1>7
  <2>2. QED
    BY <1>1, <1>4, <2>1
<1>10. Weight(4) = Two256
  BY <1>3, <1>6
<1>11. QED
  BY <1>1, <1>4, <1>6, <1>7, <1>8, <1>9, <1>10

(* What is needed of one weight.                                            *)
LEMMA WeightOf ==
  ASSUME NEW k \in 0 .. 8
  PROVE  /\ Weight(k) \in Nat \ {0} /\ Weight(k) \in Int
         /\ k # 8 => W^k = Weight(k) /\ Weight(k + 1) = W * Weight(k)
<1>1. Weight(k) \in Nat \ {0}
  BY Weights
<1>2. k # 8 => k \in 0 .. 7
  OBVIOUS
<1>3. k # 8 => W^k = Weight(k) /\ Weight(k + 1) = W * Weight(k)
  BY <1>2, Weights
<1>4. QED
  BY <1>1, <1>3

(* The number that the words below word k stand for is Low(z)[k].           *)
Low(z) ==
  CHOOSE low : low = [i \in 0 .. 8 |-> IF i = 0 \/ i - 1 \notin DOMAIN z THEN 0
                                       ELSE low[i - 1] + z[i - 1] * W^(i - 1)]

(* The words below each word, and all of them.                              *)
LEMMA LowIs ==
  ASSUME NEW n \in 1 .. 8, NEW z \in [0 .. n - 1 -> Int]
  PROVE  /\ ToInt(z) = Low(z)[n] /\ Low(z)[0] = 0
         /\ \A k \in 0 .. n : Low(z)[k] \in Int
         /\ \A k \in 0 .. n - 1 : Low(z)[k + 1] = Low(z)[k] + z[k] * Weight(k)
<1> DEFINE term(i, v) == IF i - 1 \notin DOMAIN z THEN 0 ELSE v + z[i - 1] * W^(i - 1)
           Is(f) == f = [i \in 0 .. 8 |-> IF i = 0 \/ i - 1 \notin DOMAIN z THEN 0
                                          ELSE f[i - 1] + z[i - 1] * W^(i - 1)]
           G == [iv \in (1 .. 8) \X Int |-> term(iv[1], iv[2])]
<1>1. DOMAIN z = 0 .. n - 1 /\ n \in Int
  OBVIOUS
<1>2. ASSUME NEW k \in 0 .. 7 PROVE W^k = Weight(k) /\ Weight(k) \in Int
  <2>1. k \in 0 .. 8
    OBVIOUS
  <2>2. Weight(k) \in Nat \ {0}
    BY <2>1, Weights
  <2>3. W^k = Weight(k)
    BY Weights
  <2>4. QED
    BY <2>2, <2>3
<1>3. ASSUME NEW i \in 1 .. 8, NEW v \in Int PROVE G[<<i, v>>] = term(i, v) /\ term(i, v) \in Int
  <2>1. G[<<i, v>>] = term(i, v)
    <3>1. <<i, v>> \in (1 .. 8) \X Int /\ <<i, v>>[1] = i /\ <<i, v>>[2] = v
      OBVIOUS
    <3> HIDE DEF term
    <3>2. QED
      BY <3>1
  <2>2. CASE i - 1 \in DOMAIN z
    <3> DEFINE a == z[i - 1]
               p == W^(i - 1)
    <3>1. a \in Int /\ p \in Int
      <4>1. i - 1 \in 0 .. 7
        OBVIOUS
      <4>2. p \in Int
        BY <1>2, <4>1
      <4>3. QED
        BY <1>1, <2>2, <4>2
    <3> HIDE DEF a, p
    <3>2. v + a * p \in Int
      BY <3>1
    <3>3. QED
      BY <2>1, <2>2, <3>2 DEF a, p
  <2>3. CASE i - 1 \notin DOMAIN z
    BY <2>1, <2>3
  <2>4. QED
    BY <2>2, <2>3
<1>4. \E f : Is(f)
  <2>1. ASSUME NEW j \in 0 + 1 .. 8, NEW v \in Int PROVE G[<<j, v>>] \in Int
    <3>1. j \in 1 .. 8
      OBVIOUS
    <3> HIDE DEF G, term
    <3>2. G[<<j, v>>] = term(j, v) /\ term(j, v) \in Int
      BY <1>3, <3>1
    <3>3. QED
      BY <3>2
  <2> HIDE DEF G
  <2>2. 0 \in Int /\ 8 \in Int /\ 0 <= 8
    OBVIOUS
  <2>3. PICK f \in [0 .. 8 -> Int] : f[0] = 0 /\ \A j \in 0 + 1 .. 8 : f[j] = G[<<j, f[j - 1]>>]
    <3>1. 0 \in Int /\ \A j \in 0 + 1 .. 8, v \in Int : G[<<j, v>>] \in Int
      BY <2>1
    <3> DEFINE V == Int
               lo == 0
               hi == 8
    <3>2. /\ lo \in Int /\ hi \in Int /\ lo <= hi /\ 0 \in V
          /\ \A j \in lo + 1 .. hi, v \in V : G[<<j, v>>] \in V
      BY <2>2, <3>1
    <3> HIDE DEF V, lo, hi
    <3>3. PICK f \in [lo .. hi -> V] : Recursion(f, lo, hi, 0, G)
      BY <3>2, RecursionExists
    <3>4. QED
      BY <3>3 DEF V, lo, hi, Recursion
  <2>4. ASSUME NEW i \in 0 .. 8
        PROVE  f[i] = IF i = 0 \/ i - 1 \notin DOMAIN z THEN 0 ELSE f[i - 1] + z[i - 1] * W^(i - 1)
    <3>1. CASE i = 0
      BY <2>3, <3>1
    <3>2. CASE i # 0
      <4>1. i \in 1 .. 8 /\ i - 1 \in 0 .. 8
        BY <3>2
      <4>2. f[i] = G[<<i, f[i - 1]>>] /\ f[i - 1] \in Int
        <5>1. i \in 0 + 1 .. 8
          BY <4>1
        <5>2. f[i] = G[<<i, f[i - 1]>>]
          BY <2>3, <5>1
        <5>3. f[i - 1] \in Int
          BY <2>3, <4>1
        <5>4. QED
          BY <5>2, <5>3
      <4>3. f[i] = term(i, f[i - 1])
        BY <1>3, <4>1, <4>2
      <4>4. QED
        BY <3>2, <4>3
    <3>3. QED
      BY <3>1, <3>2
  <2>5. f = [i \in 0 .. 8 |-> f[i]]
    BY <2>3
  <2>6. Is(f)
    BY <2>4, <2>5
  <2>7. QED
    BY <2>6
<1> DEFINE s == Low(z)
<1>5. Is(s)
  BY <1>4 DEF Low
<1>6. ToInt(z) = s[n]
  <2>1. Cardinality(DOMAIN z) = n
    <3>1. 0 \in Int /\ n - 1 \in Int /\ ~(0 > n - 1) /\ (n - 1) - 0 + 1 = n
      OBVIOUS
    <3>2. Cardinality(0 .. n - 1) = IF 0 > n - 1 THEN 0 ELSE (n - 1) - 0 + 1
      BY <3>1, FS_Interval
    <3>3. QED
      BY <1>1, <3>1, <3>2
  <2>2. QED
    BY <2>1 DEF ToInt, Low
<1> HIDE DEF s, G
<1>7. \A i \in 0 .. 8 : s[i] = IF i = 0 \/ i - 1 \notin DOMAIN z THEN 0
                               ELSE s[i - 1] + z[i - 1] * W^(i - 1)
  BY <1>5
<1> HIDE DEF Is, term
<1>8. s[0] = 0
  BY <1>7
<1>9. ASSUME NEW k \in 0 .. n - 1 PROVE s[k + 1] = s[k] + z[k] * Weight(k)
  <2>1. k + 1 \in 0 .. 8 /\ k + 1 # 0 /\ (k + 1) - 1 = k /\ k \in DOMAIN z /\ k \in 0 .. 7
    BY <1>1
  <2>2. s[k + 1] = s[k] + z[k] * W^k
    BY <1>7, <2>1
  <2>3. QED
    BY <1>2, <2>1, <2>2
<1>10. \A k \in 0 .. n : s[k] \in Int
  <2> DEFINE S == {k \in Nat : s[k] \in Int}
  <2>1. 0 \in S
    BY <1>8
  <2>2. ASSUME NEW k \in 0 .. n - 1, k \in S PROVE k + 1 \in S
    <3> DEFINE a == z[k]
               w == Weight(k)
    <3>1. s[k] \in Int /\ a \in Int /\ w \in Int /\ k + 1 \in Nat
      <4>1. k \in 0 .. 7
        OBVIOUS
      <4>2. w \in Int
        BY <1>2, <4>1
      <4>3. s[k] \in Int /\ a \in Int
        BY <2>2
      <4>4. QED
        BY <4>2, <4>3
    <3>2. s[k + 1] = s[k] + a * w
      BY <1>9
    <3> HIDE DEF a, w
    <3>3. s[k + 1] \in Int
      BY <3>1, <3>2
    <3>4. QED
      BY <3>1, <3>3
  <2> HIDE DEF S
  <2>3. \A k \in 0 .. n : k \in S
    BY <2>1, <2>2, UpTo, SMTT(60)
  <2> USE DEF S
  <2>4. QED
    BY <2>3
<1>11. QED
  BY <1>6, <1>8, <1>9, <1>10 DEF s

(* Words below word k make a number below the value of word k.              *)
LEMMA LowRange ==
  ASSUME NEW n \in 1 .. 8, NEW z \in [0 .. n - 1 -> Word]
  PROVE  /\ \A k \in 0 .. n : Low(z)[k] \in 0 .. Weight(k) - 1
         /\ \A k \in 0 .. n - 1 : z[k] \in 0 .. W - 1 /\ Low(z)[k] <= Low(z)[k + 1]
         /\ z \in [0 .. n - 1 -> Int]
<1> DEFINE s == Low(z)
<1>1. W \in Nat /\ W >= 8
  BY Weights
<1>2. \A k \in 0 .. n - 1 : z[k] \in 0 .. W - 1
  BY DEF Word
<1> HIDE DEF W
<1>3. z \in [0 .. n - 1 -> Int]
  BY <1>1, <1>2
<1>4. /\ s[0] = 0 /\ \A k \in 0 .. n : s[k] \in Int
      /\ \A k \in 0 .. n - 1 : s[k + 1] = s[k] + z[k] * Weight(k)
  BY <1>3, LowIs
<1> HIDE DEF s
<1>5. ASSUME NEW k \in 0 .. n - 1
      PROVE  /\ s[k] <= s[k + 1]
             /\ s[k] \in 0 .. Weight(k) - 1 => s[k + 1] \in 0 .. Weight(k + 1) - 1
  <2> DEFINE w == Weight(k)
             a == z[k]
             l == s[k]
  <2>1. k \in 0 .. 7 /\ k \in 0 .. 8
    OBVIOUS
  <2>2. w \in Nat \ {0} /\ Weight(k + 1) = W * w
    BY <2>1, Weights
  <2>3. a \in 0 .. W - 1 /\ l \in Int /\ s[k + 1] = l + a * w
    BY <1>2, <1>4
  <2> HIDE DEF w, a, l
  <2>4. a * w >= 0 /\ a * w \in Int
    BY <1>1, <2>2, <2>3
  <2>5. a * w <= (W - 1) * w
    BY <1>1, <2>2, <2>3, Monotone
  <2>6. (W - 1) * w = W * w - w
    BY <1>1, <2>2
  <2>7. W * w \in Int
    BY <1>1, <2>2
  <2>8. l <= s[k + 1]
    BY <2>3, <2>4
  <2>9. ASSUME l \in 0 .. w - 1 PROVE s[k + 1] \in 0 .. W * w - 1
    BY <2>2, <2>3, <2>4, <2>5, <2>6, <2>7, <2>9
  <2>10. QED
    BY <2>2, <2>8, <2>9 DEF l, w
<1>6. \A k \in 0 .. n : s[k] \in 0 .. Weight(k) - 1
  <2> DEFINE S == {k \in Nat : s[k] \in 0 .. Weight(k) - 1}
  <2>1. 0 \in S
    <3>1. s[0] = 0 /\ Weight(0) = 1
      BY <1>4, Weights
    <3>2. s[0] \in 0 .. Weight(0) - 1 /\ 0 \in Nat
      BY <3>1
    <3>3. QED
      BY <3>2
  <2>2. \A k \in 0 .. n - 1 : k \in S => k + 1 \in S
    BY <1>5
  <2> HIDE DEF S
  <2>3. \A k \in 0 .. n : k \in S
    BY <2>1, <2>2, UpTo
  <2> USE DEF S
  <2>4. QED
    BY <2>3
<1>7. QED
  BY <1>2, <1>3, <1>5, <1>6 DEF s

(* Each word of a chain and its carry are what was added.                   *)
CarriesAre(c, r, n, q, t, lo, hi) ==
  /\ c[lo] = 0 /\ \A j \in lo .. hi + 1 : c[j] \in {0, 1}
  /\ r \in [0 .. n - 1 -> Word]
  /\ \A j \in lo .. hi : q[j] + t[j] + c[j] = r[j] + W * c[j + 1]
  /\ \A j \in 0 .. n - 1 : j \notin lo .. hi => r[j] = q[j]

(* The chains of the code carry as they should.                             *)
LEMMA Chain ==
  ASSUME NEW n \in 1 .. 8, NEW q \in [0 .. n - 1 -> Word],
         NEW m \in n .. 8, NEW t \in [0 .. m - 1 -> Word],
         NEW lo \in 0 .. n - 1, NEW hi \in lo .. n - 1
  PROVE  CarriesAre(Carries(q, t, lo, hi), AddInto(q, lo, hi, t), n, q, t, lo, hi)
<1> DEFINE out(j, v) == (q[j - 1] + t[j - 1] + v) \div W
           Is(f) == f = [i \in lo .. hi + 1 |-> IF i = lo THEN 0
                                                ELSE (q[i - 1] + t[i - 1] + f[i - 1]) \div W]
           B == {0, 1}
           G == [jv \in (lo + 1 .. hi + 1) \X B |-> out(jv[1], jv[2])]
           c == Carries(q, t, lo, hi)
           r == AddInto(q, lo, hi, t)
<1>1. W \in Nat /\ W >= 8
  BY Weights
<1>2. /\ lo \in Int /\ hi \in Int /\ lo <= hi /\ hi + 1 \in Int /\ lo <= hi + 1
      /\ \A j \in lo .. hi : j \in 0 .. n - 1 /\ j \in 0 .. m - 1
      /\ \A j \in lo + 1 .. hi + 1 : j - 1 \in lo .. hi /\ j - 1 \in lo .. hi + 1 /\ j # lo /\ j \in lo .. hi + 1
      /\ \A j \in lo .. hi + 1 : j # lo => j \in lo + 1 .. hi + 1
      /\ lo \in lo .. hi + 1
  OBVIOUS
<1>3. \A j \in lo .. hi : q[j] \in 0 .. W - 1 /\ t[j] \in 0 .. W - 1
  BY <1>2 DEF Word
<1> HIDE DEF W
<1>4. ASSUME NEW j \in lo + 1 .. hi + 1, NEW v \in B
      PROVE  out(j, v) \in B /\ G[<<j, v>>] = out(j, v)
  <2> DEFINE a == q[j - 1]
             b == t[j - 1]
  <2>1. a \in 0 .. W - 1 /\ b \in 0 .. W - 1 /\ (v = 0 \/ v = 1)
    BY <1>2, <1>3
  <2> HIDE DEF a, b
  <2>2. (a + b + v) \div W \in B
    <3>1. CASE a + b + v < W
      <4>1. a + b + v \in 0 .. W - 1 /\ W * 0 + (a + b + v) = a + b + v /\ 0 \in Int /\ W \in Nat \ {0}
        BY <1>1, <2>1, <3>1
      <4>2. (W * 0 + (a + b + v)) \div W = 0
        BY <4>1, DivisionUnique
      <4>3. QED
        BY <4>1, <4>2
    <3>2. CASE ~(a + b + v < W)
      <4>1. /\ a + b + v - W \in 0 .. W - 1 /\ W * 1 + (a + b + v - W) = a + b + v
            /\ 1 \in Int /\ W \in Nat \ {0}
        BY <1>1, <2>1, <3>2
      <4>2. (W * 1 + (a + b + v - W)) \div W = 1
        BY <4>1, DivisionUnique
      <4>3. QED
        BY <4>1, <4>2
    <3>3. QED
      BY <3>1, <3>2
  <2>3. <<j, v>> \in (lo + 1 .. hi + 1) \X B /\ <<j, v>>[1] = j /\ <<j, v>>[2] = v
    OBVIOUS
  <2>4. G[<<j, v>>] = out(j, v)
    <3> HIDE DEF out, B
    <3>1. QED
      BY <2>3
  <2>5. QED
    BY <2>2, <2>4 DEF a, b
<1> HIDE DEF G
<1>5. \E f : Is(f)
  <2> DEFINE e == hi + 1
  <2>1. /\ lo \in Int /\ e \in Int /\ lo <= e /\ 0 \in B
        /\ \A j \in lo + 1 .. e, v \in B : G[<<j, v>>] \in B
    <3>1. lo \in Int /\ e \in Int /\ lo <= e /\ 0 \in B
      BY <1>2
    <3>2. ASSUME NEW j \in lo + 1 .. e, NEW v \in B PROVE G[<<j, v>>] \in B
      <4> HIDE DEF B, out
      <4>1. QED
        BY <1>4
    <3>3. QED
      BY <3>1, <3>2
  <2> HIDE DEF e, B
  <2>2. PICK f \in [lo .. e -> B] : Recursion(f, lo, e, 0, G)
    BY <2>1, RecursionExists
  <2>3. /\ f \in [lo .. hi + 1 -> B] /\ f[lo] = 0
        /\ \A j \in lo + 1 .. hi + 1 : f[j] = G[<<j, f[j - 1]>>]
    BY <2>2 DEF e, Recursion
  <2>4. ASSUME NEW i \in lo .. hi + 1
        PROVE  f[i] = IF i = lo THEN 0 ELSE (q[i - 1] + t[i - 1] + f[i - 1]) \div W
    <3>1. CASE i = lo
      BY <2>3, <3>1
    <3>2. CASE i # lo
      <4>1. i \in lo + 1 .. hi + 1 /\ i - 1 \in lo .. hi + 1
        BY <1>2, <3>2
      <4>2. f[i] = G[<<i, f[i - 1]>>] /\ f[i - 1] \in B
        BY <2>3, <4>1
      <4>3. f[i] = out(i, f[i - 1])
        BY <1>4, <4>1, <4>2
      <4>4. QED
        BY <3>2, <4>3
    <3>3. QED
      BY <3>1, <3>2
  <2>5. f = [i \in lo .. hi + 1 |-> f[i]]
    BY <2>3
  <2>6. Is(f)
    BY <2>4, <2>5
  <2>7. QED
    BY <2>6
<1>6. Is(c)
  BY <1>5 DEF Carries
<1>7. r = [i \in DOMAIN q |-> IF i \in lo .. hi THEN (q[i] + t[i] + c[i]) % W ELSE q[i]]
  BY DEF AddInto
<1> HIDE DEF c, r
<1>8. \A i \in lo .. hi + 1 : c[i] = IF i = lo THEN 0 ELSE (q[i - 1] + t[i - 1] + c[i - 1]) \div W
  BY <1>6
<1> HIDE DEF Is
<1>9. c[lo] = 0 /\ \A j \in lo + 1 .. hi + 1 : c[j] = out(j, c[j - 1])
  <2>1. c[lo] = 0
    BY <1>2, <1>8
  <2>2. ASSUME NEW j \in lo + 1 .. hi + 1 PROVE c[j] = out(j, c[j - 1])
    <3>1. j \in lo .. hi + 1 /\ j # lo
      BY <1>2
    <3>2. QED
      BY <1>8, <3>1
  <2>3. QED
    BY <2>1, <2>2
<1>10. \A j \in lo .. hi + 1 : c[j] \in B
  <2> DEFINE S == {k \in Nat : c[lo + k] \in B}
             e == hi + 1 - lo
  <2>1. e \in Nat
    BY <1>2
  <2>2. 0 \in S
    BY <1>2, <1>9
  <2>3. ASSUME NEW k \in 0 .. e - 1, k \in S PROVE k + 1 \in S
    <3>1. lo + (k + 1) \in lo + 1 .. hi + 1 /\ lo + (k + 1) - 1 = lo + k /\ k + 1 \in Nat
      BY <1>2
    <3>2. c[lo + k] \in B
      BY <2>3
    <3> HIDE DEF B, out
    <3>3. c[lo + (k + 1)] = out(lo + (k + 1), c[lo + k])
      BY <1>9, <3>1
    <3>4. out(lo + (k + 1), c[lo + k]) \in B
      BY <1>4, <3>1, <3>2
    <3>5. QED
      BY <3>1, <3>3, <3>4
  <2>4. \A k \in 0 .. e : k \in S
    <3>1. \A k \in 0 .. e - 1 : k \in S => k + 1 \in S
      BY <2>3
    <3> HIDE DEF S, e
    <3>2. QED
      BY <2>1, <2>2, <3>1, UpTo
  <2>5. ASSUME NEW j \in lo .. hi + 1 PROVE c[j] \in B
    <3>1. j - lo \in 0 .. e /\ lo + (j - lo) = j
      BY <1>2
    <3>2. j - lo \in S
      <4> HIDE DEF S, e
      <4>1. QED
        BY <2>4, <3>1
    <3>3. QED
      BY <3>1, <3>2
  <2>6. QED
    BY <2>5
<1>11. ASSUME NEW j \in lo .. hi
       PROVE  q[j] + t[j] + c[j] = r[j] + W * c[j + 1] /\ r[j] \in 0 .. W - 1
  <2> DEFINE a == q[j] + t[j] + c[j]
  <2>1. j + 1 \in lo + 1 .. hi + 1 /\ (j + 1) - 1 = j /\ j \in 0 .. n - 1 /\ j \in lo .. hi + 1
    BY <1>2
  <2>2. c[j + 1] = out(j + 1, c[j])
    BY <1>9, <2>1
  <2>3. c[j + 1] = a \div W
    BY <2>1, <2>2
  <2>4. r[j] = a % W
    BY <1>7, <2>1
  <2>5. a \in Int /\ W \in Nat \ {0}
    <3>1. q[j] \in Int /\ t[j] \in Int /\ c[j] \in Int
      BY <1>1, <1>3, <1>10, <2>1
    <3>2. QED
      BY <1>1, <3>1
  <2> HIDE DEF a
  <2>6. a \div W \in Int /\ a % W \in 0 .. W - 1 /\ a = W * (a \div W) + (a % W)
    BY <2>5, Division
  <2>7. W * (a \div W) \in Int
    BY <2>5, <2>6
  <2>8. a = r[j] + W * c[j + 1]
    BY <2>3, <2>4, <2>5, <2>6, <2>7
  <2>9. QED
    BY <2>4, <2>6, <2>8 DEF a
<1>12. \A j \in 0 .. n - 1 : j \notin lo .. hi => r[j] = q[j]
  BY <1>7
<1>13. r \in [0 .. n - 1 -> Word]
  <2>1. ASSUME NEW j \in 0 .. n - 1 PROVE r[j] \in Word
    <3>1. CASE j \in lo .. hi
      BY <1>11, <3>1 DEF Word
    <3>2. CASE j \notin lo .. hi
      BY <1>12, <3>2
    <3>3. QED
      BY <3>1, <3>2
  <2>2. DOMAIN q = 0 .. n - 1
    OBVIOUS
  <2>3. r = [j \in 0 .. n - 1 |-> r[j]]
    BY <1>7, <2>2
  <2>4. QED
    BY <2>1, <2>3
<1>14. QED
  BY <1>9, <1>10, <1>11, <1>12, <1>13 DEF c, r, CarriesAre

(* Equal words add the same, zeros nothing.                                 *)
LEMMA LowSame ==
  ASSUME NEW n \in 1 .. 8, NEW z \in [0 .. n - 1 -> Int],
         NEW m \in n .. 8, NEW y \in [0 .. m - 1 -> Int],
         NEW a \in 0 .. n, NEW b \in a .. n, \A j \in a .. b - 1 : z[j] = y[j]
  PROVE  Low(z)[b] - Low(z)[a] = Low(y)[b] - Low(y)[a]
<1> DEFINE s == Low(z)
           u == Low(y)
           S == {k \in Nat : s[a + k] - s[a] = u[a + k] - u[a]}
           e == b - a
<1>1. /\ \A k \in 0 .. n : s[k] \in Int
      /\ \A k \in 0 .. n - 1 : s[k + 1] = s[k] + z[k] * Weight(k)
  BY LowIs
<1>2. /\ \A k \in 0 .. n : u[k] \in Int
      /\ \A k \in 0 .. n - 1 : u[k + 1] = u[k] + y[k] * Weight(k)
  <2>1. m \in 1 .. 8 /\ \A k \in 0 .. n : k \in 0 .. m
    OBVIOUS
  <2>2. \A k \in 0 .. n - 1 : k \in 0 .. m - 1
    OBVIOUS
  <2>3. /\ \A k \in 0 .. m : u[k] \in Int
        /\ \A k \in 0 .. m - 1 : u[k + 1] = u[k] + y[k] * Weight(k)
    BY <2>1, LowIs
  <2>4. QED
    BY <2>1, <2>2, <2>3
<1> HIDE DEF s, u
<1>3. e \in Nat /\ a + e = b
  OBVIOUS
<1>4. 0 \in S
  <2>1. a + 0 = a /\ s[a] \in Int /\ u[a] \in Int
    BY <1>1, <1>2
  <2>2. QED
    BY <2>1
<1>5. ASSUME NEW k \in 0 .. e - 1, k \in S PROVE k + 1 \in S
  <2> DEFINE j == a + k
             w == Weight(j)
             d == z[j]
             g == d * w
  <2>1. /\ j \in a .. b - 1 /\ j \in 0 .. n - 1 /\ j \in 0 .. n /\ a \in 0 .. n /\ j \in 0 .. 8
        /\ a + (k + 1) = j + 1 /\ k + 1 \in Nat /\ j + 1 \in 0 .. n
    BY <1>3
  <2>2. d = y[j] /\ d \in Int
    BY <2>1
  <2>3. w \in Int
    BY <2>1, WeightOf
  <2>4. s[j] - s[a] = u[j] - u[a]
    BY <1>5
  <2> HIDE DEF j
  <2>5. s[j + 1] = s[j] + g
    BY <1>1, <2>1
  <2>6. u[j + 1] = u[j] + g
    BY <1>2, <2>1, <2>2
  <2>7. g \in Int /\ s[j] \in Int /\ s[a] \in Int /\ u[j] \in Int /\ u[a] \in Int
    <3>1. g \in Int
      <4> HIDE DEF d, w
      <4>1. QED
        BY <2>2, <2>3
    <3>2. QED
      BY <1>1, <1>2, <2>1, <3>1
  <2> HIDE DEF g
  <2> DEFINE s1 == s[j + 1]
             s0 == s[j]
             sa == s[a]
             u1 == u[j + 1]
             u0 == u[j]
             ua == u[a]
  <2>8. s1 - sa = u1 - ua
    <3>1. /\ s0 \in Int /\ sa \in Int /\ u0 \in Int /\ ua \in Int /\ g \in Int
          /\ s1 = s0 + g /\ u1 = u0 + g /\ s0 - sa = u0 - ua
      BY <2>4, <2>5, <2>6, <2>7
    <3> HIDE DEF s1, s0, sa, u1, u0, ua
    <3>2. QED
      BY <3>1
  <2>9. QED
    BY <2>1, <2>8
<1>6. e \in S
  <2>1. \A k \in 0 .. e - 1 : k \in S => k + 1 \in S
    BY <1>5
  <2> HIDE DEF S, e
  <2>2. e \in 0 .. e
    BY <1>3
  <2>3. QED
    BY <1>3, <1>4, <2>1, <2>2, UpTo
<1>7. QED
  BY <1>3, <1>6 DEF s, u

(* Words that are zero do not count.                                        *)
LEMMA LowZeros ==
  ASSUME NEW n \in 1 .. 8, NEW z \in [0 .. n - 1 -> Int],
         NEW a \in 0 .. n, NEW b \in a .. n, \A j \in a .. b - 1 : z[j] = 0
  PROVE  Low(z)[b] = Low(z)[a]
<1> DEFINE s == Low(z)
           S == {k \in Nat : s[a + k] = s[a]}
           e == b - a
<1>1. /\ \A k \in 0 .. n : s[k] \in Int
      /\ \A k \in 0 .. n - 1 : s[k + 1] = s[k] + z[k] * Weight(k)
  BY LowIs
<1> HIDE DEF s
<1>2. e \in Nat /\ a + e = b
  OBVIOUS
<1>3. 0 \in S
  OBVIOUS
<1>4. ASSUME NEW k \in 0 .. e - 1, k \in S PROVE k + 1 \in S
  <2> DEFINE j == a + k
             w == Weight(j)
  <2>1. /\ j \in a .. b - 1 /\ j \in 0 .. n - 1 /\ j \in 0 .. n /\ j \in 0 .. 8
        /\ a + (k + 1) = j + 1 /\ k + 1 \in Nat
    BY <1>2
  <2>2. s[j] = s[a] /\ z[j] = 0
    BY <1>4, <2>1
  <2> HIDE DEF j
  <2>3. w \in Int
    BY <2>1, WeightOf
  <2>4. s[j + 1] = s[j] + 0 * w
    BY <1>1, <2>1, <2>2
  <2> HIDE DEF w
  <2>5. s[j] \in Int /\ 0 * w = 0
    BY <1>1, <2>1, <2>3
  <2>6. s[j + 1] = s[a]
    BY <2>2, <2>4, <2>5
  <2>7. QED
    BY <2>1, <2>6
<1>5. e \in S
  <2>1. \A k \in 0 .. e - 1 : k \in S => k + 1 \in S
    BY <1>4
  <2> HIDE DEF S, e
  <2>2. e \in 0 .. e
    BY <1>2
  <2>3. QED
    BY <1>2, <1>3, <2>1, <2>2, UpTo
<1>6. QED
  BY <1>2, <1>5 DEF s

(* One word more: r + W*d is q + t + c at this place.                       *)
LEMMA Telescope ==
  ASSUME NEW x \in Int, NEW w \in Int, NEW A \in Int, NEW B \in Int, NEW T \in Int,
         NEW r \in Int, NEW d \in Int, NEW q \in Int, NEW t \in Int, NEW c \in Int,
         A + c * w = B + T, q + t + c = r + x * d
  PROVE  (A + r * w) + d * (x * w) = (B + q * w) + (T + t * w)
<1>1. r * w + d * (x * w) = (r + x * d) * w
  OBVIOUS
<1>2. (q + t + c) * w = q * w + t * w + c * w
  OBVIOUS
<1>3. /\ r * w \in Int /\ d * (x * w) \in Int /\ q * w \in Int /\ t * w \in Int /\ c * w \in Int
      /\ (r + x * d) * w \in Int
  OBVIOUS
<1>4. r * w + d * (x * w) = q * w + t * w + c * w
  BY <1>1, <1>2
<1> DEFINE rw == r * w
           dw == d * (x * w)
           qw == q * w
           tw == t * w
           cw == c * w
<1>5. /\ rw \in Int /\ dw \in Int /\ qw \in Int /\ tw \in Int /\ cw \in Int
      /\ rw + dw = qw + tw + cw /\ A + cw = B + T
  BY <1>3, <1>4
<1> HIDE DEF rw, dw, qw, tw, cw
<1>6. (A + rw) + dw = (B + qw) + (T + tw)
  BY <1>5
<1>7. QED
  BY <1>6 DEF rw, dw, qw, tw

(* A chain adds the words lo .. hi of t, up to the carry out of word hi.    *)
LEMMA ChainSum ==
  ASSUME NEW n \in 1 .. 8, NEW q \in [0 .. n - 1 -> Word],
         NEW m \in n .. 8, NEW t \in [0 .. m - 1 -> Word],
         NEW lo \in 0 .. n - 1, NEW hi \in lo .. n - 1
  PROVE  LET c == Carries(q, t, lo, hi)
             r == AddInto(q, lo, hi, t)
         IN  /\ c[hi + 1] \in {0, 1} /\ r \in [0 .. n - 1 -> Word]
             /\ \A j \in 0 .. n - 1 : j \notin lo .. hi => r[j] = q[j]
             /\ Low(r)[hi + 1] + c[hi + 1] * Weight(hi + 1) =
                  Low(q)[hi + 1] + (Low(t)[hi + 1] - Low(t)[lo])
             /\ \A k \in hi + 1 .. n : Low(r)[k] - Low(r)[hi + 1] = Low(q)[k] - Low(q)[hi + 1]
<1> DEFINE c == Carries(q, t, lo, hi)
           r == AddInto(q, lo, hi, t)
<1>1. CarriesAre(c, r, n, q, t, lo, hi)
  BY Chain
<1> HIDE DEF c, r
<1>1a. /\ c[lo] = 0 /\ \A j \in lo .. hi + 1 : c[j] \in {0, 1}
       /\ r \in [0 .. n - 1 -> Word]
       /\ \A j \in lo .. hi : q[j] + t[j] + c[j] = r[j] + W * c[j + 1]
       /\ \A j \in 0 .. n - 1 : j \notin lo .. hi => r[j] = q[j]
  BY <1>1 DEF CarriesAre
<1>2. m \in 1 .. 8 /\ n \in n .. 8 /\ hi + 1 \in 0 .. n /\ lo \in 0 .. n
  OBVIOUS
<1>3. W \in Int
  BY Weights
<1>4. q \in [0 .. n - 1 -> Int] /\ r \in [0 .. n - 1 -> Int] /\ t \in [0 .. m - 1 -> Int]
  <2>1. Word \subseteq Int
    <3> HIDE DEF W
    <3>1. QED
      BY <1>3 DEF Word
  <2>2. QED
    BY <1>1a, <2>1
<1> HIDE DEF W
<1> DEFINE R == Low(r)
           Q == Low(q)
           T == Low(t)
<1>5. /\ Q[0] = 0 /\ \A k \in 0 .. n : Q[k] \in Int
      /\ \A k \in 0 .. n - 1 : Q[k + 1] = Q[k] + q[k] * Weight(k)
  BY <1>4, LowIs
<1>6. /\ R[0] = 0 /\ \A k \in 0 .. n : R[k] \in Int
      /\ \A k \in 0 .. n - 1 : R[k + 1] = R[k] + r[k] * Weight(k)
  BY <1>4, LowIs
<1>7. /\ \A k \in 0 .. m : T[k] \in Int
      /\ \A k \in 0 .. m - 1 : T[k + 1] = T[k] + t[k] * Weight(k)
  BY <1>2, <1>4, LowIs
<1>8. R[lo] = Q[lo]
  <2>1. 0 \in 0 .. n /\ lo \in 0 .. n /\ \A j \in 0 .. lo - 1 : j \in 0 .. n - 1 /\ j \notin lo .. hi
    OBVIOUS
  <2>2. \A j \in 0 .. lo - 1 : r[j] = q[j]
    BY <1>1a, <2>1
  <2>3. R[lo] - R[0] = Q[lo] - Q[0]
    <3> DEFINE a == 0
    <3>1. a \in 0 .. n /\ lo \in a .. n /\ \A j \in a .. lo - 1 : r[j] = q[j]
      BY <2>1, <2>2
    <3> HIDE DEF a
    <3>2. R[lo] - R[a] = Q[lo] - Q[a]
      BY <1>2, <1>4, <3>1, LowSame
    <3>3. QED
      BY <3>2 DEF a
  <2>4. R[lo] \in Int /\ Q[lo] \in Int
    BY <1>5, <1>6, <2>1
  <2>5. QED
    BY <1>5, <1>6, <2>3, <2>4
<1>9. ASSUME NEW k \in hi + 1 .. n PROVE R[k] - R[hi + 1] = Q[k] - Q[hi + 1]
  <2>1. \A j \in hi + 1 .. k - 1 : j \in 0 .. n - 1 /\ j \notin lo .. hi
    OBVIOUS
  <2>2. \A j \in hi + 1 .. k - 1 : r[j] = q[j]
    BY <1>1a, <2>1
  <2>3. QED
    BY <1>2, <1>4, <2>2, LowSame
<1> HIDE DEF R, Q, T
<1> DEFINE P(j) == R[j] + c[j] * Weight(j) = Q[j] + (T[j] - T[lo])
           S == {k \in Nat : P(lo + k)}
           e == hi + 1 - lo
<1>10. e \in Nat /\ lo + e = hi + 1
  OBVIOUS
<1>11. 0 \in S
  <2> DEFINE w == Weight(lo)
  <2>1. lo \in 0 .. n /\ lo \in 0 .. m /\ lo \in 0 .. 8 /\ lo + 0 = lo
    OBVIOUS
  <2>2. w \in Int
    BY <2>1, WeightOf
  <2> HIDE DEF w
  <2>3. R[lo] \in Int /\ T[lo] \in Int /\ 0 * w = 0
    BY <1>6, <1>7, <2>1, <2>2
  <2>4. R[lo] + 0 * w = Q[lo] + (T[lo] - T[lo])
    BY <1>8, <2>3
  <2>5. P(lo)
    BY <1>1a, <2>4 DEF w
  <2>6. QED
    BY <2>1, <2>5
<1>12. ASSUME NEW k \in 0 .. e - 1, k \in S PROVE k + 1 \in S
  <2> DEFINE j == lo + k
             w == Weight(j)
  <2>1. /\ j \in lo .. hi /\ j + 1 \in lo .. hi + 1 /\ j \in lo .. hi + 1 /\ j \in 0 .. 7 /\ j \in 0 .. 8
        /\ j \in 0 .. n - 1 /\ j \in 0 .. m - 1 /\ j \in 0 .. n /\ j \in 0 .. m /\ lo \in 0 .. m
        /\ lo + (k + 1) = j + 1 /\ k + 1 \in Nat
    BY <1>10
  <2>2. P(j)
    BY <1>12
  <2> HIDE DEF j
  <2>3. w \in Int /\ Weight(j + 1) = W * w
    <3>1. j # 8
      BY <2>1
    <3>2. QED
      BY <2>1, <3>1, WeightOf
  <2>4. R[j + 1] = R[j] + r[j] * w /\ Q[j + 1] = Q[j] + q[j] * w /\ T[j + 1] = T[j] + t[j] * w
    BY <1>5, <1>6, <1>7, <2>1
  <2>5. R[j] + c[j] * w = Q[j] + (T[j] - T[lo])
    BY <2>2
  <2> HIDE DEF w
  <2>6. /\ R[j] \in Int /\ Q[j] \in Int /\ T[j] \in Int /\ T[lo] \in Int
        /\ r[j] \in Int /\ q[j] \in Int /\ t[j] \in Int
    BY <1>4, <1>5, <1>6, <1>7, <2>1
  <2>7. c[j] \in Int /\ c[j + 1] \in Int
    <3>1. c[j] \in {0, 1} /\ c[j + 1] \in {0, 1}
      BY <1>1a, <2>1
    <3>2. QED
      BY <3>1
  <2>8. q[j] + t[j] + c[j] = r[j] + W * c[j + 1]
    BY <1>1a, <2>1
  <2>9. T[j] - T[lo] \in Int
    BY <2>6
  <2>10. (R[j] + r[j] * w) + c[j + 1] * (W * w) = (Q[j] + q[j] * w) + ((T[j] - T[lo]) + t[j] * w)
    <3> DEFINE A == R[j]
               B == Q[j]
               D == T[j] - T[lo]
               rj == r[j]
               qj == q[j]
               tj == t[j]
               cj == c[j]
               c1 == c[j + 1]
    <3>1. /\ A \in Int /\ B \in Int /\ D \in Int /\ rj \in Int /\ qj \in Int /\ tj \in Int
          /\ cj \in Int /\ c1 \in Int /\ A + cj * w = B + D /\ qj + tj + cj = rj + W * c1
      BY <2>5, <2>6, <2>7, <2>8, <2>9
    <3> HIDE DEF A, B, D, rj, qj, tj, cj, c1
    <3>2. (A + rj * w) + c1 * (W * w) = (B + qj * w) + (D + tj * w)
      BY <1>3, <2>3, <3>1, Telescope
    <3>3. QED
      BY <3>2 DEF A, B, D, rj, qj, tj, c1
  <2>11. (T[j] - T[lo]) + t[j] * w = T[j + 1] - T[lo]
    <3> DEFINE g == t[j] * w
    <3>1. g \in Int /\ T[j + 1] = T[j] + g
      BY <2>3, <2>4, <2>6
    <3> HIDE DEF g
    <3>2. (T[j] - T[lo]) + g = T[j + 1] - T[lo]
      BY <2>6, <3>1
    <3>3. QED
      BY <3>2 DEF g
  <2>12. P(j + 1)
    BY <2>3, <2>4, <2>10, <2>11
  <2>13. QED
    BY <2>1, <2>12
<1>13. e \in S
  <2>1. \A k \in 0 .. e - 1 : k \in S => k + 1 \in S
    BY <1>12
  <2> HIDE DEF S, e
  <2>2. e \in 0 .. e
    BY <1>10
  <2>3. QED
    BY <1>10, <1>11, <2>1, <2>2, UpTo
<1>14. P(hi + 1)
  BY <1>10, <1>13
<1>15. c[hi + 1] \in {0, 1}
  BY <1>1a
<1>16. QED
  BY <1>1a, <1>9, <1>14, <1>15 DEF c, r, R, Q, T

(* What a chain adds, whatever its carry out is.                            *)
Summed(c, r, n, q, t, lo, hi) ==
  /\ c[hi + 1] \in {0, 1} /\ r \in [0 .. n - 1 -> Word]
  /\ Low(r)[hi + 1] + c[hi + 1] * Weight(hi + 1) = Low(q)[hi + 1] + (Low(t)[hi + 1] - Low(t)[lo])

(* Every chain of the code adds as Summed says.                             *)
LEMMA ChainSums ==
  ASSUME NEW n \in 1 .. 8, NEW q \in [0 .. n - 1 -> Word],
         NEW m \in n .. 8, NEW t \in [0 .. m - 1 -> Word],
         NEW lo \in 0 .. n - 1, NEW hi \in lo .. n - 1
  PROVE  Summed(Carries(q, t, lo, hi), AddInto(q, lo, hi, t), n, q, t, lo, hi)
<1> DEFINE c == Carries(q, t, lo, hi)
           r == AddInto(q, lo, hi, t)
<1>1. /\ c[hi + 1] \in {0, 1} /\ r \in [0 .. n - 1 -> Word]
      /\ Low(r)[hi + 1] + c[hi + 1] * Weight(hi + 1) = Low(q)[hi + 1] + (Low(t)[hi + 1] - Low(t)[lo])
  BY ChainSum
<1> HIDE DEF c, r
<1>2. Summed(c, r, n, q, t, lo, hi)
  BY <1>1 DEF Summed
<1>3. QED
  BY <1>2 DEF c, r

(* More words are not less.                                                 *)
LEMMA LowGrows ==
  ASSUME NEW n \in 1 .. 8, NEW z \in [0 .. n - 1 -> Word], NEW a \in 0 .. n, NEW b \in a .. n
  PROVE  Low(z)[a] <= Low(z)[b]
<1> DEFINE s == Low(z)
           S == {k \in Nat : s[a] <= s[a + k]}
           e == b - a
<1>1. \A k \in 0 .. n : s[k] \in Int
  <2>1. z \in [0 .. n - 1 -> Int]
    BY LowRange
  <2>2. QED
    BY <2>1, LowIs
<1>2. \A k \in 0 .. n - 1 : s[k] <= s[k + 1]
  BY LowRange
<1> HIDE DEF s
<1>3. e \in Nat /\ a + e = b
  OBVIOUS
<1>4. 0 \in S
  <2>1. a + 0 = a /\ s[a] \in Int
    BY <1>1
  <2>2. QED
    BY <2>1
<1>5. ASSUME NEW k \in 0 .. e - 1, k \in S PROVE k + 1 \in S
  <2>1. /\ a + k \in 0 .. n - 1 /\ a + k \in 0 .. n /\ (a + k) + 1 = a + (k + 1)
        /\ a + (k + 1) \in 0 .. n /\ k + 1 \in Nat
    BY <1>3
  <2>2. s[a] <= s[a + k] /\ s[a + k] <= s[a + (k + 1)]
    <3>1. s[a + k] <= s[(a + k) + 1]
      BY <1>2, <2>1
    <3>2. QED
      BY <1>5, <2>1, <3>1
  <2>3. s[a] \in Int /\ s[a + k] \in Int /\ s[a + (k + 1)] \in Int
    BY <1>1, <2>1
  <2>4. s[a] <= s[a + (k + 1)]
    BY <2>2, <2>3
  <2>5. QED
    BY <2>1, <2>4
<1>6. e \in S
  <2>1. \A k \in 0 .. e - 1 : k \in S => k + 1 \in S
    BY <1>5
  <2> HIDE DEF S, e
  <2>2. e \in 0 .. e
    BY <1>3
  <2>3. QED
    BY <1>3, <1>4, <2>1, <2>2, UpTo
<1>7. QED
  BY <1>3, <1>6 DEF s

(* What words stand for.                                                    *)
LEMMA WordsAreNumbers ==
  ASSUME NEW n \in 1 .. 8, NEW z \in [0 .. n - 1 -> Word]
  PROVE  /\ ToInt(z) = Low(z)[n] /\ ToInt(z) \in 0 .. Weight(n) - 1
         /\ Low(z)[0] = 0 /\ \A k \in 0 .. n : Low(z)[k] \in 0 .. Weight(k) - 1
         /\ \A k \in 0 .. n - 1 : /\ z[k] \in 0 .. W - 1
                                  /\ Low(z)[k + 1] = Low(z)[k] + z[k] * Weight(k)
<1>1. /\ \A k \in 0 .. n : Low(z)[k] \in 0 .. Weight(k) - 1
      /\ \A k \in 0 .. n - 1 : z[k] \in 0 .. W - 1
      /\ z \in [0 .. n - 1 -> Int]
  BY LowRange
<1>2. /\ ToInt(z) = Low(z)[n] /\ Low(z)[0] = 0
      /\ \A k \in 0 .. n - 1 : Low(z)[k + 1] = Low(z)[k] + z[k] * Weight(k)
  BY <1>1, LowIs
<1>3. n \in 0 .. n
  OBVIOUS
<1>4. ToInt(z) \in 0 .. Weight(n) - 1
  BY <1>1, <1>2, <1>3
<1>5. QED
  BY <1>1, <1>2, <1>4

(* A chain in which all of t is added, with a sum below the end of the chain,*)
(* and its result.                                                          *)
LongEnough(n, q, t, lo, hi) ==
  /\ n \in 1 .. 8 /\ q \in [0 .. n - 1 -> Word] /\ t \in [0 .. n - 1 -> Word]
  /\ lo \in 0 .. n - 1 /\ hi \in lo .. n - 1 /\ \A j \in 0 .. n - 1 : j \notin lo .. hi => t[j] = 0
  /\ ToInt(q) + ToInt(t) < Weight(hi + 1)
Added(n, q, t, lo, hi, r) ==
  /\ r \in [0 .. n - 1 -> Word] /\ ToInt(r) = ToInt(q) + ToInt(t)
  /\ \A j \in 0 .. n - 1 : j \notin lo .. hi => r[j] = q[j]

(* A chain that is long enough loses no carry.                              *)
LEMMA LongChain ==
  ASSUME NEW n \in 1 .. 8, NEW q \in [0 .. n - 1 -> Word], NEW t \in [0 .. n - 1 -> Word],
         NEW lo \in 0 .. n - 1, NEW hi \in lo .. n - 1,
         \A j \in 0 .. n - 1 : j \notin lo .. hi => t[j] = 0,
         ToInt(q) + ToInt(t) < Weight(hi + 1)
  PROVE  Added(n, q, t, lo, hi, AddInto(q, lo, hi, t))
<1> DEFINE r == AddInto(q, lo, hi, t)
           d == Carries(q, t, lo, hi)[hi + 1]
           w == Weight(hi + 1)
<1>1. n \in n .. 8 /\ hi + 1 \in 0 .. n /\ lo \in 0 .. n /\ hi + 1 \in 0 .. 8 /\ n \in 0 .. n /\ n \in hi + 1 .. n
  OBVIOUS
<1>2. /\ d \in {0, 1} /\ r \in [0 .. n - 1 -> Word]
      /\ \A j \in 0 .. n - 1 : j \notin lo .. hi => r[j] = q[j]
      /\ Low(r)[hi + 1] + d * w = Low(q)[hi + 1] + (Low(t)[hi + 1] - Low(t)[lo])
      /\ \A k \in hi + 1 .. n : Low(r)[k] - Low(r)[hi + 1] = Low(q)[k] - Low(q)[hi + 1]
  BY <1>1, ChainSum, ZenonT(60)
<1> HIDE DEF r, d
<1>3. w \in Nat \ {0}
  BY <1>1, WeightOf
<1>4. /\ ToInt(q) = Low(q)[n] /\ \A k \in 0 .. n : Low(q)[k] \in 0 .. Weight(k) - 1
  BY WordsAreNumbers
<1>5. /\ ToInt(t) = Low(t)[n] /\ Low(t)[0] = 0 /\ \A k \in 0 .. n : Low(t)[k] \in 0 .. Weight(k) - 1
  BY WordsAreNumbers
<1>6. /\ ToInt(r) = Low(r)[n] /\ \A k \in 0 .. n : Low(r)[k] \in 0 .. Weight(k) - 1
  BY <1>2, WordsAreNumbers
<1>7. t \in [0 .. n - 1 -> Int]
  BY LowRange
<1>8. Low(t)[lo] = 0
  <2> DEFINE a == 0
  <2>1. a \in 0 .. n /\ lo \in a .. n /\ \A j \in a .. lo - 1 : t[j] = 0
    <3>1. \A j \in 0 .. lo - 1 : j \in 0 .. n - 1 /\ j \notin lo .. hi
      OBVIOUS
    <3>2. QED
      BY <3>1
  <2> HIDE DEF a
  <2>2. Low(t)[lo] = Low(t)[a]
    BY <1>7, <2>1, LowZeros
  <2>3. QED
    BY <1>5, <2>2 DEF a
<1>9. Low(t)[n] = Low(t)[hi + 1]
  <2> DEFINE a == hi + 1
  <2>1. a \in 0 .. n /\ n \in a .. n /\ \A j \in a .. n - 1 : t[j] = 0
    <3>1. \A j \in hi + 1 .. n - 1 : j \in 0 .. n - 1 /\ j \notin lo .. hi
      OBVIOUS
    <3>2. QED
      BY <1>1, <3>1
  <2> HIDE DEF a
  <2>2. Low(t)[n] = Low(t)[a]
    BY <1>7, <2>1, LowZeros
  <2>3. QED
    BY <2>2 DEF a
<1>10. Low(q)[hi + 1] <= Low(q)[n]
  BY <1>1, LowGrows
<1> DEFINE Q == Low(q)[hi + 1]
           Qn == Low(q)[n]
           T == Low(t)[hi + 1]
           R == Low(r)[hi + 1]
           Rn == Low(r)[n]
<1>11. Q \in Nat /\ Qn \in Nat /\ T \in Nat /\ R \in Nat /\ Rn \in Nat
  BY <1>1, <1>4, <1>5, <1>6
<1>12. R + d * w = Q + T /\ Rn - R = Qn - Q /\ Q <= Qn /\ Qn + T < w
  <2>1. R + d * w = Q + (T - 0)
    BY <1>2, <1>8
  <2>2. Rn - R = Qn - Q
    BY <1>1, <1>2
  <2>3. Qn + T < w
    BY <1>4, <1>5, <1>9
  <2>4. Q <= Qn
    BY <1>10
  <2>5. T - 0 = T
    BY <1>11
  <2>6. QED
    BY <2>1, <2>2, <2>3, <2>4, <2>5
<1> HIDE DEF Q, Qn, T, R, Rn, w
<1>13. Rn = Qn + T
  <2>1. CASE d = 0
    <3>1. 0 * w = 0
      BY <1>3
    <3>2. R = Q + T
      BY <1>11, <1>12, <2>1, <3>1
    <3>3. QED
      BY <1>11, <1>12, <3>2
  <2>2. CASE d = 1
    <3>1. 1 * w = w
      BY <1>3
    <3>2. R + w = Q + T
      BY <1>12, <2>2, <3>1
    <3>3. FALSE
      BY <1>3, <1>11, <1>12, <3>2
    <3>4. QED
      BY <3>3
  <2>3. QED
    BY <1>2, <2>1, <2>2
<1>14. ToInt(r) = ToInt(q) + ToInt(t)
  BY <1>4, <1>5, <1>6, <1>9, <1>13 DEF Rn, Qn, T
<1>15. Added(n, q, t, lo, hi, r)
  BY <1>2, <1>14 DEF Added
<1>16. QED
  BY <1>15 DEF r

LEMMA AddExact ==
  ASSUME NEW n, NEW q, NEW t, NEW lo, NEW hi, LongEnough(n, q, t, lo, hi)
  PROVE  Added(n, q, t, lo, hi, AddInto(q, lo, hi, t))
<1>1. /\ n \in 1 .. 8 /\ q \in [0 .. n - 1 -> Word] /\ t \in [0 .. n - 1 -> Word]
      /\ lo \in 0 .. n - 1 /\ hi \in lo .. n - 1 /\ \A j \in 0 .. n - 1 : j \notin lo .. hi => t[j] = 0
      /\ ToInt(q) + ToInt(t) < Weight(hi + 1)
  BY DEF LongEnough
<1>2. QED
  BY <1>1, LongChain

(* Sums of four words, with their carry and without.                        *)
LEMMA AddRight ==
  ASSUME NEW x \in Words, NEW y \in Words
  PROVE  LET s == AddAndReturnCarry(x, y)
         IN  /\ ToInt(s.sum) + s.carry * Two256 = ToInt(x) + ToInt(y)
             /\ s.sum \in Words /\ s.carry \in {0, 1}
             /\ ToInt(Add(x, y)) = Plus(ToInt(x), ToInt(y))
<1> DEFINE r == AddInto(x, 0, 3, y)
           d == Carries(x, y, 0, 3)[4]
           T == Two256
           lo == 0
           hi == 3
           n == 4
           r1 == AddInto(x, lo, hi, y)
           d1 == Carries(x, y, lo, hi)[hi + 1]
<1>1. /\ n \in 1 .. 8 /\ n \in n .. 8 /\ lo \in 0 .. n - 1 /\ hi \in lo .. n - 1
      /\ x \in [0 .. n - 1 -> Word] /\ y \in [0 .. n - 1 -> Word] /\ n \in hi + 1 .. n
      /\ lo = 0 /\ hi = 3 /\ n = 4 /\ hi + 1 = n
  BY DEF Words
<1> HIDE DEF lo, hi, n
<1>2. /\ d1 \in {0, 1} /\ r1 \in [0 .. n - 1 -> Word]
      /\ Low(r1)[hi + 1] + d1 * Weight(hi + 1) = Low(x)[hi + 1] + (Low(y)[hi + 1] - Low(y)[lo])
  <2>1. Summed(Carries(x, y, lo, hi), r1, n, x, y, lo, hi)
    BY <1>1, ChainSums
  <2> HIDE DEF r1
  <2>2. QED
    BY <2>1 DEF Summed
<1> HIDE DEF r1, d1
<1>3. /\ ToInt(x) = Low(x)[n] /\ ToInt(x) \in 0 .. Weight(n) - 1
      /\ ToInt(y) = Low(y)[n] /\ Low(y)[0] = 0 /\ ToInt(y) \in 0 .. Weight(n) - 1
      /\ ToInt(r1) = Low(r1)[n] /\ ToInt(r1) \in 0 .. Weight(n) - 1
  BY <1>1, <1>2, WordsAreNumbers
<1>4. Weight(n) = T /\ T \in Nat \ {0}
  BY <1>1, Weights, WordPowers
<1> HIDE DEF T
<1> DEFINE X == ToInt(x)
           Y == ToInt(y)
           R == ToInt(r1)
<1>5. /\ X \in 0 .. T - 1 /\ Y \in 0 .. T - 1 /\ R \in 0 .. T - 1
      /\ R + d1 * T = X + (Y - 0)
  BY <1>1, <1>2, <1>3, <1>4
<1> HIDE DEF X, Y, R
<1>6. R + d1 * T = X + Y
  BY <1>5
<1>7. (X + Y) % T = R
  <2>1. d1 \in Int /\ T * d1 + R = X + Y
    BY <1>2, <1>4, <1>5, <1>6
  <2>2. (T * d1 + R) % T = R
    BY <1>4, <1>5, <2>1, DivisionUnique
  <2>3. QED
    BY <2>1, <2>2
<1>8. r1 = r /\ d1 = d
  <2>1. lo = 0 /\ hi = 3 /\ hi + 1 = 4
    BY <1>1
  <2>2. QED
    BY <2>1 DEF r1, d1
<1> HIDE DEF r, d
<1>9. r \in Words /\ d \in {0, 1}
  BY <1>1, <1>2, <1>8 DEF Words
<1>10. /\ AddAndReturnCarry(x, y) = [sum |-> r, carry |-> d] /\ Add(x, y) = r
  BY DEF AddAndReturnCarry, Add, r, d
<1>11. ToInt(r) + d * T = ToInt(x) + ToInt(y) /\ ToInt(r) = Plus(ToInt(x), ToInt(y))
  BY <1>6, <1>7, <1>8 DEF X, Y, R, Plus, T
<1>12. QED
  BY <1>9, <1>10, <1>11 DEF T

(* Products of two words, placed.                                           *)
PlacedAt(p, S) == [i \in 0 .. 7 |-> IF i \in S THEN p[i] ELSE 0]

(* A product of two words is a high word and a low word.                    *)
LEMMA Split ==
  ASSUME NEW v \in 0 .. (W - 1) * (W - 1)
  PROVE  v % W \in Word /\ v \div W \in Word /\ v = W * (v \div W) + (v % W)
<1>1. W \in Nat /\ W >= 8
  BY Weights
<1> HIDE DEF W
<1>2. (W - 1) * (W - 1) = W * W - 2 * W + 1 /\ W * W \in Int
  BY <1>1
<1>3. v \in Nat /\ v < W * W
  BY <1>1, <1>2
<1> DEFINE d == v \div W
           r == v % W
<1>4. d \in Int /\ r \in 0 .. W - 1 /\ v = W * d + r
  <2>1. W \in Nat \ {0} /\ v \in Int
    BY <1>1, <1>3
  <2>2. QED
    BY <2>1, Division
<1> HIDE DEF d, r
<1>5. d >= 0
  <2>1. SUFFICES ASSUME d <= -1 PROVE FALSE
    BY <1>4
  <2>2. W * d <= W * (-1) /\ W * d \in Int /\ W * (-1) = -W
    <3>1. -1 \in Int /\ W \in Nat
      BY <1>1
    <3>2. W * d <= W * (-1) /\ W * d \in Int
      BY <1>4, <2>1, <3>1, Monotone
    <3>3. QED
      BY <1>1, <3>2
  <2>3. QED
    BY <1>1, <1>3, <1>4, <2>2
<1>6. d < W
  <2>1. SUFFICES ASSUME W <= d PROVE FALSE
    BY <1>1, <1>4
  <2>2. W * W <= W * d /\ W * d \in Int
    BY <1>1, <1>4, <2>1, Monotone
  <2>3. QED
    BY <1>1, <1>2, <1>3, <1>4, <2>2
<1>7. QED
  BY <1>1, <1>4, <1>5, <1>6 DEF Word, d, r

(* Products that do not overlap, placed at their words, add up.             *)
LEMMA Placed ==
  ASSUME NEW S \in SUBSET (0 .. 6), \A i \in S : i + 1 \notin S,
         NEW p \in [S -> 0 .. (W - 1) * (W - 1)]
  PROVE  LET t == PlaceProducts(p)
         IN  /\ t \in [0 .. 7 -> Word] /\ \A j \in 0 .. 7 : j \notin S /\ j - 1 \notin S => t[j] = 0
             /\ PlacedAt(p, S) \in [0 .. 7 -> Int]
             /\ \A k \in 0 .. 8 :
                  Low(t)[k] + (IF k - 1 \in S THEN (p[k - 1] \div W) * Weight(k) ELSE 0) = Low(PlacedAt(p, S))[k]
             /\ ToInt(t) = Low(PlacedAt(p, S))[8]
<1> DEFINE t == PlaceProducts(p)
           z == PlacedAt(p, S)
           h(k) == IF k - 1 \in S THEN (p[k - 1] \div W) * Weight(k) ELSE 0
<1>1. W \in Nat /\ W >= 8
  BY Weights
<1>2. DOMAIN p = S /\ S \subseteq 0 .. 6 /\ S \subseteq 0 .. 7
  OBVIOUS
<1>3. \A i \in S : p[i] % W \in Word /\ p[i] \div W \in Word /\ p[i] = W * (p[i] \div W) + (p[i] % W)
  <2>1. ASSUME NEW i \in S PROVE p[i] \in 0 .. (W - 1) * (W - 1)
    OBVIOUS
  <2> HIDE DEF W
  <2>2. QED
    BY <2>1, Split
<1>4. Word \subseteq Int /\ 0 \in Word
  <2> HIDE DEF W
  <2>1. QED
    BY <1>1 DEF Word
<1>5. \A i \in S : p[i] \in Int
  <2>1. ASSUME NEW i \in S PROVE p[i] \in Int
    <3> DEFINE d == p[i] \div W
               r == p[i] % W
    <3>1. d \in Int /\ r \in Int /\ p[i] = W * d + r
      BY <1>3, <1>4
    <3> HIDE DEF d, r, W
    <3>2. QED
      BY <1>1, <3>1
  <2>2. QED
    BY <2>1
<1> HIDE DEF W
<1>6. \A i \in 0 .. 7 : t[i] = IF i \in S THEN p[i] % W ELSE IF i - 1 \in S THEN p[i - 1] \div W ELSE 0
  BY <1>2 DEF PlaceProducts
<1>7. t \in [0 .. 7 -> Word]
  <2>1. \A i \in 0 .. 7 : t[i] \in Word
    BY <1>3, <1>4, <1>6
  <2>2. t = [i \in 0 .. 7 |-> t[i]]
    BY DEF PlaceProducts
  <2> HIDE DEF t
  <2>3. QED
    BY <2>1, <2>2
<1>8. z \in [0 .. 7 -> Int] /\ \A i \in 0 .. 7 : z[i] = IF i \in S THEN p[i] ELSE 0
  BY <1>5 DEF PlacedAt
<1> HIDE DEF t, z
<1> DEFINE T == Low(t)
           Z == Low(z)
           n == 8
<1>9. n \in 1 .. 8 /\ t \in [0 .. n - 1 -> Word] /\ z \in [0 .. n - 1 -> Int] /\ n = 8 /\ t \in [0 .. n - 1 -> Int]
  <2>1. n \in 1 .. 8 /\ n = 8 /\ n - 1 = 7
    OBVIOUS
  <2>2. t \in [0 .. 7 -> Int] /\ z \in [0 .. 7 -> Int]
    BY <1>4, <1>7, <1>8
  <2> HIDE DEF n
  <2>3. QED
    BY <1>7, <2>1, <2>2
<1> HIDE DEF n
<1>10. /\ T[0] = 0 /\ ToInt(t) = T[n] /\ \A k \in 0 .. n : T[k] \in Int
       /\ \A k \in 0 .. n - 1 : T[k + 1] = T[k] + t[k] * Weight(k)
  BY <1>9, LowIs
<1>11. /\ Z[0] = 0 /\ \A k \in 0 .. n : Z[k] \in Int
       /\ \A k \in 0 .. n - 1 : Z[k + 1] = Z[k] + z[k] * Weight(k)
  BY <1>9, LowIs
<1> HIDE DEF T, Z
<1> DEFINE K == {k \in Nat : T[k] + h(k) = Z[k]}
<1>12. 0 \in K
  <2>1. 0 - 1 \notin S
    BY <1>2
  <2>2. h(0) = 0
    BY <2>1
  <2> HIDE DEF h
  <2>3. QED
    BY <1>10, <1>11, <2>2
<1>13. ASSUME NEW k \in 0 .. n - 1, k \in K PROVE k + 1 \in K
  <2> DEFINE w == Weight(k)
             a == t[k]
             b == z[k]
  <2>1. k \in 0 .. 7 /\ k \in 0 .. 8 /\ k \in 0 .. n /\ k + 1 \in Nat /\ (k + 1) - 1 = k /\ k # 8
    BY <1>9
  <2>2. w \in Int /\ Weight(k + 1) = W * w
    BY <2>1, WeightOf
  <2>3. T[k + 1] = T[k] + a * w /\ Z[k + 1] = Z[k] + b * w /\ T[k] \in Int /\ Z[k] \in Int
    BY <1>10, <1>11, <2>1
  <2>4. T[k] + h(k) = Z[k]
    BY <1>13
  <2>5. a = (IF k \in S THEN p[k] % W ELSE IF k - 1 \in S THEN p[k - 1] \div W ELSE 0)
        /\ b = (IF k \in S THEN p[k] ELSE 0)
    BY <1>6, <1>8, <2>1
  <2> HIDE DEF w, a, b
  <2>6. CASE k \in S
    <3> DEFINE d == p[k] \div W
               r == p[k] % W
    <3>1. d \in Int /\ r \in Int /\ p[k] = W * d + r
      BY <1>3, <1>4, <2>6
    <3>2. a = r /\ b = W * d + r
      BY <2>5, <2>6, <3>1
    <3>3. k - 1 \notin S
      <4>1. k - 1 \in S => (k - 1) + 1 \notin S
        OBVIOUS
      <4>2. (k - 1) + 1 = k
        OBVIOUS
      <4>3. QED
        BY <2>6, <4>1, <4>2
    <3>4. h(k) = 0 /\ h(k + 1) = d * (W * w)
      BY <2>1, <2>2, <2>6, <3>3 DEF w
    <3> HIDE DEF d, r, h
    <3>5. (W * d + r) * w = d * (W * w) + r * w /\ d * (W * w) \in Int /\ r * w \in Int
      BY <1>1, <2>2, <3>1
    <3>6. T[k] = Z[k]
      BY <2>3, <2>4, <3>4
    <3>7. T[k + 1] + h(k + 1) = Z[k + 1]
      <4> DEFINE x == d * (W * w)
                 y == r * w
      <4>1. /\ x \in Int /\ y \in Int /\ T[k + 1] = T[k] + y /\ h(k + 1) = x /\ Z[k + 1] = T[k] + (x + y)
        BY <2>3, <3>2, <3>4, <3>5, <3>6
      <4> HIDE DEF x, y
      <4>2. QED
        BY <2>3, <4>1
    <3>8. QED
      BY <2>1, <3>7 DEF h
  <2>7. CASE k \notin S /\ k - 1 \in S
    <3> DEFINE d == p[k - 1] \div W
    <3>1. d \in Int /\ a = d /\ b = 0
      BY <1>3, <1>4, <2>5, <2>7
    <3>2. h(k) = d * w /\ h(k + 1) = 0
      BY <2>1, <2>7 DEF w
    <3> HIDE DEF d, h
    <3>3. d * w \in Int /\ 0 * w = 0
      BY <2>2, <3>1
    <3>4. T[k + 1] + h(k + 1) = Z[k + 1]
      <4> DEFINE x == d * w
      <4>1. /\ x \in Int /\ T[k + 1] = T[k] + x /\ h(k + 1) = 0 /\ Z[k + 1] = Z[k] /\ T[k] + x = Z[k]
        BY <2>3, <2>4, <3>1, <3>2, <3>3
      <4> HIDE DEF x
      <4>2. QED
        BY <2>3, <4>1
    <3>5. QED
      BY <2>1, <3>4 DEF h
  <2>8. CASE k \notin S /\ k - 1 \notin S
    <3>1. a = 0 /\ b = 0 /\ h(k) = 0 /\ h(k + 1) = 0 /\ 0 * w = 0
      BY <2>1, <2>2, <2>5, <2>8
    <3> HIDE DEF h
    <3>2. T[k + 1] + h(k + 1) = Z[k + 1]
      BY <2>3, <2>4, <3>1
    <3>3. QED
      BY <2>1, <3>2 DEF h
  <2>9. QED
    BY <2>6, <2>7, <2>8
<1>14. \A k \in 0 .. n : k \in K
  <2>1. \A k \in 0 .. n - 1 : k \in K => k + 1 \in K
    BY <1>13
  <2>2. n \in Nat
    BY <1>9
  <2> HIDE DEF K, n
  <2>3. QED
    BY <1>12, <2>1, <2>2, UpTo
<1>15. \A k \in 0 .. 8 : T[k] + h(k) = Z[k]
  <2>1. \A k \in 0 .. 8 : k \in K
    BY <1>9, <1>14
  <2> HIDE DEF h
  <2>2. QED
    BY <2>1
<1>16. ToInt(t) = Z[8]
  <2>1. 8 - 1 \notin S /\ 8 \in 0 .. 8
    BY <1>2
  <2>2. T[8] + h(8) = Z[8] /\ h(8) = 0
    <3>1. h(8) = 0
      BY <2>1
    <3> HIDE DEF h
    <3>2. QED
      BY <1>15, <2>1, <3>1
  <2>3. T[8] \in Int
    BY <1>9, <1>10
  <2> HIDE DEF h
  <2>4. QED
    BY <1>9, <1>10, <2>2, <2>3
<1>17. \A j \in 0 .. 7 : j \notin S /\ j - 1 \notin S => t[j] = 0
  BY <1>6
<1>18. z \in [0 .. 7 -> Int]
  BY <1>8
<1>19. QED
  BY <1>7, <1>15, <1>16, <1>17, <1>18 DEF t, z, T, Z

(* The next word that is not 0.                                             *)
LEMMA NextTerm ==
  ASSUME NEW n \in 1 .. 8, NEW z \in [0 .. n - 1 -> Int],
         NEW a \in 0 .. n - 1, NEW b \in a .. n - 1, \A j \in a .. b - 1 : z[j] = 0
  PROVE  Low(z)[b + 1] = Low(z)[a] + z[b] * Weight(b)
<1>1. a \in 0 .. n /\ b \in a .. n /\ b \in 0 .. n - 1
  OBVIOUS
<1>2. Low(z)[b] = Low(z)[a]
  BY <1>1, LowZeros
<1>3. Low(z)[b + 1] = Low(z)[b] + z[b] * Weight(b)
  BY <1>1, LowIs
<1>4. QED
  BY <1>2, <1>3

-----------------------------------------------------------------------------
(* Products.                                                                *)

(* The product of two words fits two words.                                 *)
LEMMA Factors ==
  ASSUME NEW a \in Word, NEW b \in Word
  PROVE  a * b \in 0 .. (W - 1) * (W - 1)
<1>1. W \in Nat /\ W >= 8
  BY Weights
<1>2. a \in 0 .. W - 1 /\ b \in 0 .. W - 1
  BY DEF Word
<1> HIDE DEF W
<1> DEFINE V == W - 1
<1>3. V \in Nat /\ a \in Nat /\ b \in Nat /\ a <= V /\ b <= V
  BY <1>1, <1>2
<1> HIDE DEF V
<1>4. a * b <= V * b /\ V * b <= V * V /\ a * b \in Int /\ V * b \in Int /\ V * V \in Int
  BY <1>3, Monotone
<1>5. a * b >= 0
  BY <1>3
<1>6. a * b \in 0 .. V * V
  BY <1>4, <1>5
<1>7. QED
  BY <1>6 DEF V

(* Every other product of a row, placed.                                    *)
LEMMA TwoPlaced ==
  ASSUME NEW a \in 0 .. 4, NEW p \in [{a, a + 2} -> 0 .. (W - 1) * (W - 1)]
  PROVE  LET t == PlaceProducts(p)
         IN  /\ t \in [0 .. 7 -> Word] /\ \A j \in 0 .. 7 : j \notin a .. a + 3 => t[j] = 0
             /\ ToInt(t) = p[a] * Weight(a) + p[a + 2] * Weight(a + 2)
             /\ ToInt(t) \in Nat
<1> DEFINE S == {a, a + 2}
           t == PlaceProducts(p)
           z == PlacedAt(p, S)
           n == 8
<1>1. S \in SUBSET (0 .. 6) /\ \A i \in S : i + 1 \notin S
  OBVIOUS
<1>2. p \in [S -> 0 .. (W - 1) * (W - 1)]
  OBVIOUS
<1> HIDE DEF S
<1>3. /\ t \in [0 .. 7 -> Word] /\ \A j \in 0 .. 7 : j \notin S /\ j - 1 \notin S => t[j] = 0
      /\ z \in [0 .. 7 -> Int] /\ ToInt(t) = Low(z)[8]
  BY <1>1, <1>2, Placed
<1>4. \A i \in 0 .. 7 : z[i] = IF i \in S THEN p[i] ELSE 0
  BY DEF PlacedAt
<1> HIDE DEF t, z
<1>5. \A j \in 0 .. 7 : j \notin a .. a + 3 => t[j] = 0
  <2>1. \A j \in 0 .. 7 : j \notin a .. a + 3 => j \notin S /\ j - 1 \notin S
    BY DEF S
  <2>2. QED
    BY <1>3, <2>1
<1>6. n \in 1 .. 8 /\ n - 1 = 7 /\ n = 8 /\ z \in [0 .. n - 1 -> Int] /\ t \in [0 .. n - 1 -> Word]
  BY <1>3
<1> HIDE DEF n
<1>7. Low(z)[0] = 0
  BY <1>6, LowIs
<1>8. Low(z)[a + 1] = Low(z)[0] + z[a] * Weight(a)
  <2> DEFINE c == 0
  <2>1. c \in 0 .. n - 1 /\ a \in c .. n - 1
    BY <1>6
  <2>2. \A j \in c .. a - 1 : z[j] = 0
    <3>1. \A j \in c .. a - 1 : j \in 0 .. 7 /\ j \notin S
      BY DEF S
    <3>2. QED
      BY <1>4, <3>1
  <2> HIDE DEF c
  <2>3. Low(z)[a + 1] = Low(z)[c] + z[a] * Weight(a)
    BY <1>6, <2>1, <2>2, NextTerm
  <2>4. QED
    BY <2>3 DEF c
<1>9. Low(z)[a + 3] = Low(z)[a + 1] + z[a + 2] * Weight(a + 2)
  <2> DEFINE c == a + 1
             b == a + 2
  <2>1. c \in 0 .. n - 1 /\ b \in c .. n - 1 /\ b + 1 = a + 3
    BY <1>6
  <2>2. \A j \in c .. b - 1 : z[j] = 0
    <3>1. \A j \in c .. b - 1 : j \in 0 .. 7 /\ j \notin S
      BY DEF S
    <3>2. QED
      BY <1>4, <3>1
  <2> HIDE DEF c, b
  <2>3. Low(z)[b + 1] = Low(z)[c] + z[b] * Weight(b)
    BY <1>6, <2>1, <2>2, NextTerm
  <2>4. QED
    BY <2>1, <2>3 DEF c, b
<1>10. Low(z)[8] = Low(z)[a + 3]
  <2> DEFINE c == a + 3
  <2>1. c \in 0 .. n /\ n \in c .. n
    BY <1>6
  <2>2. \A j \in c .. n - 1 : z[j] = 0
    <3>1. \A j \in c .. n - 1 : j \in 0 .. 7 /\ j \notin S
      BY <1>6 DEF S
    <3>2. QED
      BY <1>4, <3>1
  <2> HIDE DEF c
  <2>3. Low(z)[n] = Low(z)[c]
    BY <1>6, <2>1, <2>2, LowZeros
  <2>4. QED
    BY <1>6, <2>3 DEF c
<1>11. z[a] = p[a] /\ z[a + 2] = p[a + 2]
  <2>1. a \in S /\ a + 2 \in S /\ a \in 0 .. 7 /\ a + 2 \in 0 .. 7
    BY DEF S
  <2>2. QED
    BY <1>4, <2>1
<1>12. ToInt(t) = p[a] * Weight(a) + p[a + 2] * Weight(a + 2)
  <2>1. z[a] \in Int /\ Weight(a) \in Int
    <3>1. a \in 0 .. 7 /\ a \in 0 .. 8
      OBVIOUS
    <3>2. QED
      BY <1>3, <3>1, WeightOf
  <2>2. z[a] * Weight(a) \in Int
    <3> DEFINE b == z[a]
               w == Weight(a)
    <3>1. b \in Int /\ w \in Int
      BY <2>1
    <3> HIDE DEF b, w
    <3>2. b * w \in Int
      BY <3>1
    <3>3. QED
      BY <3>2 DEF b, w
  <2>3. Low(z)[a + 1] = z[a] * Weight(a)
    BY <1>7, <1>8, <2>2
  <2>4. QED
    BY <1>3, <1>9, <1>10, <1>11, <2>3
<1>13. ToInt(t) \in Nat
  <2>1. Weight(n) \in Int
    <3>1. n \in 0 .. 8
      BY <1>6
    <3>2. QED
      BY <3>1, WeightOf
  <2>2. ToInt(t) \in 0 .. Weight(n) - 1
    BY <1>6, WordsAreNumbers
  <2>3. QED
    BY <2>1, <2>2
<1>14. QED
  BY <1>3, <1>5, <1>12, <1>13 DEF t

(* The weights of products.                                                 *)
LEMMA WeightSteps ==
  ASSUME NEW i \in 0 .. 3
  PROVE  /\ Weight(i) \in Nat \ {0} /\ Weight(i + 1) = W * Weight(i)
         /\ Weight(i + 2) = W * (W * Weight(i)) /\ Weight(i + 3) = W * (W * (W * Weight(i)))
         /\ Weight(i + 4) = W * (W * (W * (W * Weight(i))))
         /\ Weight(i + 5) = W * (W * (W * (W * Weight(i + 1))))
         /\ Weight(i + 1) \in Nat \ {0} /\ Weight(i + 5) \in Nat \ {0}
         /\ Weight(i + 5) = Weight(4) * Weight(i + 1)
<1>1. /\ i \in 0 .. 8 /\ i + 1 \in 0 .. 8 /\ i + 2 \in 0 .. 8 /\ i + 3 \in 0 .. 8 /\ i + 4 \in 0 .. 8
      /\ i # 8 /\ i + 1 # 8 /\ i + 2 # 8 /\ i + 3 # 8 /\ i + 4 # 8 /\ i + 5 \in 0 .. 8
      /\ (i + 1) + 1 = i + 2 /\ (i + 2) + 1 = i + 3 /\ (i + 3) + 1 = i + 4 /\ (i + 4) + 1 = i + 5
  OBVIOUS
<1>2. Weight(i) \in Nat \ {0} /\ Weight(i + 1) \in Nat \ {0} /\ Weight(i + 5) \in Nat \ {0}
  BY <1>1, WeightOf
<1>3. Weight(i + 1) = W * Weight(i)
  BY <1>1, WeightOf
<1>4. Weight((i + 1) + 1) = W * Weight(i + 1)
  BY <1>1, WeightOf
<1>5. Weight((i + 2) + 1) = W * Weight(i + 2)
  BY <1>1, WeightOf
<1>6. Weight((i + 3) + 1) = W * Weight(i + 3)
  BY <1>1, WeightOf
<1>7. Weight((i + 4) + 1) = W * Weight(i + 4)
  BY <1>1, WeightOf
<1>8. Weight(4) = W * (W * (W * W))
  <2>1. W \in Nat /\ Weight(1) = W /\ \A k \in 0 .. 7 : Weight(k + 1) = W * Weight(k)
    BY Weights
  <2> HIDE DEF W
  <2>2. Weight(1 + 1) = W * Weight(1) /\ Weight(2 + 1) = W * Weight(2) /\ Weight(3 + 1) = W * Weight(3)
    BY <2>1
  <2>3. 1 + 1 = 2 /\ 2 + 1 = 3 /\ 3 + 1 = 4
    OBVIOUS
  <2>4. QED
    BY <2>1, <2>2, <2>3
<1>9. Weight(i + 5) = Weight(4) * Weight(i + 1)
  <2> DEFINE w == Weight(i + 1)
  <2>1. Weight(i + 5) = W * (W * (W * (W * w)))
    BY <1>1, <1>4, <1>5, <1>6, <1>7
  <2>2. W \in Int /\ w \in Int
    BY <1>2, Weights
  <2> HIDE DEF w, W
  <2>3. W * (W * (W * (W * w))) = (W * (W * (W * W))) * w
    BY <2>2
  <2>4. QED
    BY <1>8, <2>1, <2>3 DEF w
<1>10. QED
  BY <1>1, <1>2, <1>3, <1>4, <1>5, <1>6, <1>7, <1>9

(* The four partial products of a row, as two chains add them.              *)
LEMMA RowProduct ==
  ASSUME NEW w \in Int, NEW b \in Int, NEW y \in Int,
         NEW x0 \in Int, NEW x1 \in Int, NEW x2 \in Int, NEW x3 \in Int
  PROVE  ((y * x1) * (w * b) + (y * x3) * (w * (w * (w * b))))
           + ((y * x0) * b + (y * x2) * (w * (w * b)))
           = (x0 + w * (x1 + w * (x2 + w * x3))) * (y * b)
OBVIOUS

(* A row adds the product with one word, and loses no carry.                *)
LEMMA LongMulRowRight ==
  ASSUME NEW x \in Words, NEW y \in Words, NEW i \in 0 .. 3, NEW q \in [0 .. 7 -> Word],
         ToInt(q) = ToInt(x) * Low(y)[i]
  PROVE  /\ LongMulRow(q, i, x, y) \in [0 .. 7 -> Word]
         /\ ToInt(LongMulRow(q, i, x, y)) = ToInt(x) * Low(y)[i + 1]
<1> DEFINE odd == [p \in {i + 1, i + 3} |-> y[i] * x[p - i]]
           even == [p \in {i, i + 2} |-> y[i] * x[p - i]]
           s == PlaceProducts(odd)
           t == PlaceProducts(even)
           u == AddInto(q, i + 1, i + 4, s)
           r == AddInto(u, i, i + 4, t)
           X == ToInt(x)
           w == Weight(i)
           b == y[i]
           e == Weight(i + 5)
           n == 8
           hi == i + 4
           lo == i + 1
<1>1. \A j \in 0 .. 3 : x[j] \in Word /\ y[j] \in Word
  BY DEF Words
<1>2. W \in Nat /\ W >= 8
  BY Weights
<1>3. /\ X = x[0] + W * (x[1] + W * (x[2] + W * x[3])) /\ X \in 0 .. Weight(4) - 1
      /\ Low(y)[i + 1] = Low(y)[i] + b * w /\ Low(y)[i + 1] \in 0 .. Weight(i + 1) - 1
      /\ Low(y)[i] \in Nat
  <2> DEFINE m == 4
  <2>1. m \in 1 .. 8 /\ x \in [0 .. m - 1 -> Word] /\ y \in [0 .. m - 1 -> Word] /\ m = 4
        /\ i \in 0 .. m - 1 /\ i + 1 \in 0 .. m /\ i \in 0 .. m
    BY DEF Words
  <2> HIDE DEF m
  <2>2. X \in 0 .. Weight(m) - 1
    BY <2>1, WordsAreNumbers
  <2>3. /\ Low(y)[i + 1] = Low(y)[i] + b * w /\ Low(y)[i + 1] \in 0 .. Weight(i + 1) - 1
        /\ Low(y)[i] \in 0 .. Weight(i) - 1
    BY <2>1, WordsAreNumbers
  <2>4. X = x[0] + W * (x[1] + W * (x[2] + W * x[3]))
    BY ToIntRight DEF Words, Joined
  <2>5. Low(y)[i] \in Nat
    <3>1. Weight(i) \in Nat
      BY WeightSteps
    <3>2. QED
      BY <2>3, <3>1
  <2>6. QED
    BY <2>1, <2>2, <2>3, <2>4, <2>5
<1>4. /\ w \in Nat \ {0} /\ Weight(i + 1) = W * w /\ Weight(i + 2) = W * (W * w)
      /\ Weight(i + 3) = W * (W * (W * w)) /\ e \in Nat \ {0} /\ e = Weight(4) * Weight(i + 1)
      /\ Weight(i + 1) \in Nat \ {0}
  BY WeightSteps
<1>5. Weight(4) \in Nat \ {0}
  BY WeightOf
<1>6. /\ s \in [0 .. 7 -> Word] /\ \A j \in 0 .. 7 : j \notin i + 1 .. i + 4 => s[j] = 0
      /\ ToInt(s) = (b * x[1]) * (W * w) + (b * x[3]) * (W * (W * (W * w))) /\ ToInt(s) \in Nat
  <2> DEFINE a == i + 1
  <2>1. a \in 0 .. 4 /\ a + 2 = i + 3 /\ a + 3 = i + 4 /\ (i + 1) - i = 1 /\ (i + 3) - i = 3
    OBVIOUS
  <2>2. /\ odd = [p \in {a, a + 2} |-> y[i] * x[p - i]] /\ odd[a] = b * x[1] /\ odd[a + 2] = b * x[3]
    <3>1. /\ odd[i + 1] = b * x[(i + 1) - i] /\ odd[i + 3] = b * x[(i + 3) - i]
      OBVIOUS
    <3>2. odd = [p \in {a, a + 2} |-> y[i] * x[p - i]]
      BY <2>1
    <3> HIDE DEF odd
    <3>3. QED
      BY <2>1, <3>1, <3>2
  <2>3. odd \in [{a, a + 2} -> 0 .. (W - 1) * (W - 1)]
    <3> DEFINE V == 0 .. (W - 1) * (W - 1)
    <3>1. odd[a] \in V /\ odd[a + 2] \in V
      <4>1. b \in Word /\ x[1] \in Word /\ x[3] \in Word
        BY <1>1
      <4> HIDE DEF W, odd
      <4>2. QED
        BY <2>2, <4>1, Factors
    <3> HIDE DEF V, a
    <3>2. odd = [p \in {a, a + 2} |-> odd[p]]
      BY <2>2
    <3> HIDE DEF odd
    <3>3. odd \in [{a, a + 2} -> V]
      BY <3>1, <3>2
    <3>4. QED
      BY <3>3 DEF V
  <2> HIDE DEF a, odd
  <2>4. /\ s \in [0 .. 7 -> Word] /\ \A j \in 0 .. 7 : j \notin a .. a + 3 => s[j] = 0
        /\ ToInt(s) = odd[a] * Weight(a) + odd[a + 2] * Weight(a + 2)
        /\ ToInt(s) \in Nat
    BY <2>1, <2>3, TwoPlaced
  <2>5. Weight(a) = W * w /\ Weight(a + 2) = W * (W * (W * w))
    BY <1>4, <2>1 DEF a
  <2> HIDE DEF s, w
  <2>6. ToInt(s) = (b * x[1]) * (W * w) + (b * x[3]) * (W * (W * (W * w)))
    BY <2>2, <2>4, <2>5
  <2>7. \A j \in 0 .. 7 : j \notin i + 1 .. i + 4 => s[j] = 0
    BY <2>1, <2>4 DEF a
  <2>8. QED
    BY <2>4, <2>6, <2>7
<1>7. /\ t \in [0 .. 7 -> Word] /\ \A j \in 0 .. 7 : j \notin i .. i + 4 => t[j] = 0
      /\ ToInt(t) = (b * x[0]) * w + (b * x[2]) * (W * (W * w)) /\ ToInt(t) \in Nat
  <2> DEFINE a == i
  <2>1. a \in 0 .. 4 /\ a + 2 = i + 2 /\ i - i = 0 /\ (i + 2) - i = 2
    OBVIOUS
  <2>2. /\ even = [p \in {a, a + 2} |-> y[i] * x[p - i]] /\ even[a] = b * x[0] /\ even[a + 2] = b * x[2]
    <3>1. /\ even[i] = b * x[i - i] /\ even[i + 2] = b * x[(i + 2) - i]
      OBVIOUS
    <3>2. even = [p \in {a, a + 2} |-> y[i] * x[p - i]]
      BY <2>1
    <3> HIDE DEF even
    <3>3. QED
      BY <2>1, <3>1, <3>2
  <2>3. even \in [{a, a + 2} -> 0 .. (W - 1) * (W - 1)]
    <3> DEFINE V == 0 .. (W - 1) * (W - 1)
    <3>1. even[a] \in V /\ even[a + 2] \in V
      <4>1. b \in Word /\ x[0] \in Word /\ x[2] \in Word
        BY <1>1
      <4> HIDE DEF W, even
      <4>2. QED
        BY <2>2, <4>1, Factors
    <3> HIDE DEF V, a
    <3>2. even = [p \in {a, a + 2} |-> even[p]]
      BY <2>2
    <3> HIDE DEF even
    <3>3. even \in [{a, a + 2} -> V]
      BY <3>1, <3>2
    <3>4. QED
      BY <3>3 DEF V
  <2> HIDE DEF even
  <2>4. /\ t \in [0 .. 7 -> Word] /\ \A j \in 0 .. 7 : j \notin i .. i + 3 => t[j] = 0
        /\ ToInt(t) = even[i] * Weight(i) + even[i + 2] * Weight(i + 2)
        /\ ToInt(t) \in Nat
    BY <2>1, <2>3, TwoPlaced
  <2>5. Weight(i + 2) = W * (W * w)
    BY <1>4
  <2>6. even[i] = b * x[0] /\ even[i + 2] = b * x[2]
    BY <2>2
  <2> HIDE DEF t
  <2>7. ToInt(t) = (b * x[0]) * w + (b * x[2]) * (W * (W * w))
    BY <2>4, <2>5, <2>6
  <2>8. \A j \in 0 .. 7 : j \notin i .. i + 4 => j \notin i .. i + 3
    OBVIOUS
  <2>9. QED
    BY <2>4, <2>7, <2>8
<1> HIDE DEF s, t, odd, even
<1>8. ToInt(s) + ToInt(t) = X * (b * w)
  <2> DEFINE x0 == x[0]
             x1 == x[1]
             x2 == x[2]
             x3 == x[3]
  <2>1. b \in Int /\ x0 \in Int /\ x1 \in Int /\ x2 \in Int /\ x3 \in Int /\ W \in Int /\ w \in Int
    <3>1. Word \subseteq Int
      <4> HIDE DEF W
      <4>1. QED
        BY <1>2 DEF Word
    <3>2. w \in Int
      <4> HIDE DEF w
      <4>1. QED
        BY <1>4
    <3>3. W \in Int
      BY <1>2
    <3> HIDE DEF W, Word, w
    <3>4. b \in Int /\ x0 \in Int /\ x1 \in Int /\ x2 \in Int /\ x3 \in Int
      <4>1. 0 \in 0 .. 3 /\ 1 \in 0 .. 3 /\ 2 \in 0 .. 3 /\ 3 \in 0 .. 3
        OBVIOUS
      <4>2. b \in Word /\ x0 \in Word /\ x1 \in Word /\ x2 \in Word /\ x3 \in Word
        BY <1>1, <4>1
      <4>3. QED
        BY <3>1, <4>2
    <3>5. QED
      BY <3>2, <3>3, <3>4
  <2> HIDE DEF x0, x1, x2, x3, b, w, W
  <2>2. ((b * x1) * (W * w) + (b * x3) * (W * (W * (W * w))))
           + ((b * x0) * w + (b * x2) * (W * (W * w)))
           = (x0 + W * (x1 + W * (x2 + W * x3))) * (b * w)
    BY <2>1, RowProduct
  <2> HIDE DEF X
  <2>3. QED
    BY <1>3, <1>6, <1>7, <2>2 DEF x0, x1, x2, x3
<1> DEFINE Yi == Low(y)[i]
           Ym == Low(y)[i + 1]
           Q == ToInt(q)
           St == ToInt(s)
           Tt == ToInt(t)
<1>9. Q + St + Tt = X * Ym /\ X * Ym < e /\ Q \in Nat /\ St \in Nat /\ Tt \in Nat
  <2> DEFINE g == b * w
             w4 == Weight(4)
             w1 == Weight(i + 1)
  <2>1. g \in Int
    <3>1. b \in Int /\ w \in Int
      <4>1. Word \subseteq Int
        <5> HIDE DEF W
        <5>1. QED
          BY <1>2 DEF Word
      <4>2. b \in Word
        BY <1>1
      <4>3. w \in Int
        <5> HIDE DEF w
        <5>1. QED
          BY <1>4
      <4> HIDE DEF b, w, Word
      <4>4. QED
        BY <4>1, <4>2, <4>3
    <3> HIDE DEF b, w
    <3>2. QED
      BY <3>1
  <2>2. /\ X \in Int /\ X >= 0 /\ X < w4 /\ w4 \in Nat /\ w1 \in Nat /\ Ym \in Int /\ Ym >= 0 /\ Ym < w1
        /\ e = w4 * w1 /\ Yi \in Int /\ Yi >= 0
    BY <1>3, <1>4, <1>5
  <2>3. Ym = Yi + g /\ Q = X * Yi /\ St + Tt = X * g
    BY <1>3, <1>8
  <2>4. Q \in Nat
    <3> HIDE DEF X, Yi, Q
    <3>1. QED
      BY <2>2, <2>3
  <2>5. St \in Nat /\ Tt \in Nat
    BY <1>6, <1>7
  <2> HIDE DEF X, Yi, Ym, Q, St, Tt, g, w4, w1, e
  <2>6. X * (Yi + g) = X * Yi + X * g
    BY <2>1, <2>2
  <2>7. Q + St + Tt = X * Ym
    BY <2>3, <2>4, <2>5, <2>6
  <2>8. X * Ym < e
    <3>1. X * Ym <= w4 * Ym /\ X * Ym \in Int /\ w4 * Ym \in Int
      BY <2>2, Monotone
    <3>2. w4 * Ym <= w4 * (w1 - 1)
      <4>1. Ym <= w1 - 1 /\ w1 - 1 \in Int
        BY <2>2
      <4>2. QED
        BY <2>2, <4>1, Monotone
    <3>3. w4 * (w1 - 1) = w4 * w1 - w4 /\ w4 * w1 \in Int
      BY <2>2
    <3>4. w4 > 0
      BY <2>2
    <3>5. QED
      BY <2>2, <3>1, <3>2, <3>3, <3>4
  <2>9. QED
    BY <2>4, <2>5, <2>7, <2>8
<1>10. /\ n \in 1 .. 8 /\ n - 1 = 7 /\ q \in [0 .. n - 1 -> Word] /\ s \in [0 .. n - 1 -> Word]
       /\ t \in [0 .. n - 1 -> Word] /\ lo \in 0 .. n - 1 /\ hi \in lo .. n - 1 /\ i \in 0 .. n - 1
       /\ hi \in i .. n - 1 /\ Weight(hi + 1) = e
       /\ \A j \in 0 .. n - 1 : j \notin lo .. hi => s[j] = 0
       /\ \A j \in 0 .. n - 1 : j \notin i .. hi => t[j] = 0
  <2>1. n \in 1 .. 8 /\ n - 1 = 7 /\ lo \in 0 .. n - 1 /\ hi \in lo .. n - 1 /\ i \in 0 .. n - 1
        /\ hi \in i .. n - 1 /\ hi + 1 = i + 5
    OBVIOUS
  <2> HIDE DEF n
  <2>2. QED
    BY <1>6, <1>7, <2>1
<1> HIDE DEF n, lo, hi
<1>11. u \in [0 .. n - 1 -> Word] /\ ToInt(u) = ToInt(q) + ToInt(s)
  <2> DEFINE v == AddInto(q, lo, hi, s)
  <2>1. v = u
    BY DEF lo, hi
  <2>2. ToInt(q) + ToInt(s) < Weight(hi + 1)
    <3>1. Q + St < e
      <4> HIDE DEF Q, St, Tt, X, Ym, e
      <4>1. Q + St <= Q + St + Tt /\ e \in Int
        BY <1>4, <1>9
      <4>2. Q + St < e
        BY <1>4, <1>9, <4>1
      <4>3. QED
        BY <4>2
    <3>2. QED
      BY <1>10, <3>1
  <2> HIDE DEF u
  <2>3. v \in [0 .. n - 1 -> Word] /\ ToInt(v) = ToInt(q) + ToInt(s)
    <3>1. LongEnough(n, q, s, lo, hi)
      BY <1>10, <2>2 DEF LongEnough
    <3>2. Added(n, q, s, lo, hi, AddInto(q, lo, hi, s))
      BY <3>1, AddExact
    <3>3. QED
      BY <3>2 DEF Added
  <2> HIDE DEF v
  <2>4. QED
    BY <2>1, <2>3
<1> HIDE DEF u
<1>12. r \in [0 .. n - 1 -> Word] /\ ToInt(r) = ToInt(u) + ToInt(t)
  <2> DEFINE v == AddInto(u, i, hi, t)
  <2>1. v = r
    BY DEF hi
  <2>2. ToInt(u) + ToInt(t) < Weight(hi + 1)
    BY <1>9, <1>10, <1>11
  <2> HIDE DEF r
  <2>3. v \in [0 .. n - 1 -> Word] /\ ToInt(v) = ToInt(u) + ToInt(t)
    <3>1. LongEnough(n, u, t, i, hi)
      BY <1>10, <1>11, <2>2 DEF LongEnough
    <3>2. Added(n, u, t, i, hi, AddInto(u, i, hi, t))
      BY <3>1, AddExact
    <3>3. QED
      BY <3>2 DEF Added
  <2> HIDE DEF v
  <2>4. QED
    BY <2>1, <2>3
<1> HIDE DEF r
<1>13. LongMulRow(q, i, x, y) = r
  BY DEF LongMulRow, r, u, s, t, odd, even
<1>14. ToInt(r) = X * Ym
  BY <1>9, <1>11, <1>12
<1>15. r \in [0 .. 7 -> Word]
  <2>1. n - 1 = 7
    BY <1>10
  <2> HIDE DEF Word
  <2>2. [0 .. n - 1 -> Word] = [0 .. 7 -> Word]
    BY <2>1
  <2>3. r \in [0 .. n - 1 -> Word]
    BY <1>12
  <2>4. QED
    BY <2>2, <2>3
<1>16. X * Ym = ToInt(x) * Low(y)[i + 1]
  OBVIOUS
<1> HIDE DEF X, Ym
<1>17. QED
  BY <1>13, <1>14, <1>15, <1>16

(* Four rows make the product.                                              *)
LEMMA LongMulRight ==
  ASSUME NEW x \in Words, NEW y \in Words
  PROVE  LongMul(x, y) \in [0 .. 7 -> Word] /\ ToInt(LongMul(x, y)) = ToInt(x) * ToInt(y)
<1> DEFINE zero == [i \in 0 .. 7 |-> 0]
           X == ToInt(x)
           Y == Low(y)
           row0 == LongMulRow(zero, 0, x, y)
           row1 == LongMulRow(row0, 1, x, y)
           row2 == LongMulRow(row1, 2, x, y)
           row3 == LongMulRow(row2, 3, x, y)
<1>1. X \in Int /\ Y[0] = 0 /\ ToInt(y) = Y[4]
  <2> DEFINE n == 4
  <2>1. n \in 1 .. 8 /\ x \in [0 .. n - 1 -> Word] /\ y \in [0 .. n - 1 -> Word] /\ n = 4 /\ n \in 0 .. 8
    BY DEF Words
  <2> HIDE DEF n
  <2>2. X \in 0 .. Weight(n) - 1 /\ Y[0] = 0 /\ ToInt(y) = Y[n]
    BY <2>1, WordsAreNumbers
  <2>3. Weight(n) \in Int
    BY <2>1, WeightOf
  <2> HIDE DEF X, Y
  <2>4. QED
    BY <2>1, <2>2, <2>3
<1>2. zero \in [0 .. 7 -> Word] /\ ToInt(zero) = 0
  <2> DEFINE n == 8
             a == 0
  <2>1. 0 \in Word
    <3>1. W \in Nat /\ W >= 8
      BY Weights
    <3> HIDE DEF W
    <3>2. QED
      BY <3>1 DEF Word
  <2>2. n \in 1 .. 8 /\ a \in 0 .. n /\ n \in a .. n /\ 0 .. n - 1 = 0 .. 7
    OBVIOUS
  <2>3. zero \in [0 .. 7 -> Word]
    <3> HIDE DEF Word
    <3>1. QED
      BY <2>1
  <2>4. \A j \in a .. n - 1 : zero[j] = 0
    OBVIOUS
  <2> HIDE DEF n, zero, Word
  <2>5. zero \in [0 .. n - 1 -> Word]
    BY <2>2, <2>3
  <2>6. ToInt(zero) = Low(zero)[n] /\ Low(zero)[0] = 0
    BY <2>2, <2>5, WordsAreNumbers
  <2>7. zero \in [0 .. n - 1 -> Int]
    BY <2>2, <2>5, LowRange
  <2> HIDE DEF a
  <2>8. Low(zero)[n] = Low(zero)[a]
    BY <2>2, <2>4, <2>7, LowZeros
  <2>9. QED
    BY <2>3, <2>6, <2>8 DEF a
<1> HIDE DEF zero, X
<1>3. ASSUME NEW i \in 0 .. 3, NEW q \in [0 .. 7 -> Word], NEW k, k = i + 1, ToInt(q) = X * Y[i]
      PROVE  /\ LongMulRow(q, i, x, y) \in [0 .. 7 -> Word]
             /\ ToInt(LongMulRow(q, i, x, y)) = X * Y[k]
  BY <1>3, LongMulRowRight DEF X
<1> HIDE DEF Y
<1>4. X * Y[0] = 0
  BY <1>1
<1>5. row0 \in [0 .. 7 -> Word] /\ ToInt(row0) = X * Y[1]
  <2>1. 0 \in 0 .. 3 /\ 1 = 0 + 1
    OBVIOUS
  <2>2. ToInt(zero) = X * Y[0]
    BY <1>2, <1>4
  <2>3. QED
    BY <1>2, <1>3, <2>1, <2>2
<1> HIDE DEF row0
<1>6. row1 \in [0 .. 7 -> Word] /\ ToInt(row1) = X * Y[2]
  <2>1. 1 \in 0 .. 3 /\ 2 = 1 + 1
    OBVIOUS
  <2>2. QED
    BY <1>3, <1>5, <2>1
<1> HIDE DEF row1
<1>7. row2 \in [0 .. 7 -> Word] /\ ToInt(row2) = X * Y[3]
  <2>1. 2 \in 0 .. 3 /\ 3 = 2 + 1
    OBVIOUS
  <2>2. QED
    BY <1>3, <1>6, <2>1
<1> HIDE DEF row2
<1>8. row3 \in [0 .. 7 -> Word] /\ ToInt(row3) = X * Y[4]
  <2>1. 3 \in 0 .. 3 /\ 4 = 3 + 1
    OBVIOUS
  <2>2. QED
    BY <1>3, <1>7, <2>1
<1>9. LongMul(x, y) = row3
  BY DEF LongMul, row0, row1, row2, zero
<1>10. QED
  BY <1>1, <1>8, <1>9 DEF X

(* The low and the high words of four products, added.                      *)
LEMMA LowsAndHighs ==
  ASSUME NEW w \in Int, NEW y \in Int, NEW x0 \in Int, NEW x1 \in Int, NEW x2 \in Int, NEW x3 \in Int,
         NEW l0 \in Int, NEW l1 \in Int, NEW l2 \in Int, NEW l3 \in Int,
         NEW h0 \in Int, NEW h1 \in Int, NEW h2 \in Int, NEW h3 \in Int,
         x0 * y = w * h0 + l0, x1 * y = w * h1 + l1, x2 * y = w * h2 + l2, x3 * y = w * h3 + l3
  PROVE  (((l0 + l1 * w) + l2 * (w * w)) + l3 * (w * (w * w)))
           + (((h0 * w + h1 * (w * w)) + h2 * (w * (w * w))) + h3 * (w * (w * (w * w))))
           = (x0 + w * (x1 + w * (x2 + w * x3))) * y
<1>1. (w * h1 + l1) * w = (x1 * y) * w /\ (w * h2 + l2) * (w * w) = (x2 * y) * (w * w)
      /\ (w * h3 + l3) * (w * (w * w)) = (x3 * y) * (w * (w * w))
  OBVIOUS
<1>2. /\ (w * h1 + l1) * w = h1 * (w * w) + l1 * w
      /\ (w * h2 + l2) * (w * w) = h2 * (w * (w * w)) + l2 * (w * w)
      /\ (w * h3 + l3) * (w * (w * w)) = h3 * (w * (w * (w * w))) + l3 * (w * (w * w))
      /\ w * h0 = h0 * w
  OBVIOUS
<1>3. (x0 + w * (x1 + w * (x2 + w * x3))) * y
        = x0 * y + (x1 * y) * w + (x2 * y) * (w * w) + (x3 * y) * (w * (w * w))
  OBVIOUS
<1> DEFINE p0 == x0 * y
           p1 == (x1 * y) * w
           p2 == (x2 * y) * (w * w)
           p3 == (x3 * y) * (w * (w * w))
           g1 == l1 * w
           g2 == l2 * (w * w)
           g3 == l3 * (w * (w * w))
           k0 == h0 * w
           k1 == h1 * (w * w)
           k2 == h2 * (w * (w * w))
           k3 == h3 * (w * (w * (w * w)))
<1>4. /\ p0 \in Int /\ p1 \in Int /\ p2 \in Int /\ p3 \in Int /\ g1 \in Int /\ g2 \in Int /\ g3 \in Int
      /\ k0 \in Int /\ k1 \in Int /\ k2 \in Int /\ k3 \in Int
  OBVIOUS
<1>5. p0 = k0 + l0 /\ p1 = k1 + g1 /\ p2 = k2 + g2 /\ p3 = k3 + g3
  BY <1>1, <1>2
<1> HIDE DEF p0, p1, p2, p3, g1, g2, g3, k0, k1, k2, k3
<1>6. (((l0 + g1) + g2) + g3) + (((k0 + k1) + k2) + k3) = p0 + p1 + p2 + p3
  BY <1>4, <1>5
<1>7. QED
  BY <1>3, <1>6 DEF p0, p1, p2, p3, g1, g2, g3, k0, k1, k2, k3

(* The weights of the first words, as products.                             *)
LEMMA SmallWeights ==
  /\ Weight(0) = 1 /\ Weight(1) = W /\ Weight(2) = W * W /\ Weight(3) = W * (W * W)
  /\ Weight(4) = W * (W * (W * W)) /\ W \in Nat /\ W >= 8
<1>1. W \in Nat /\ W >= 8 /\ Weight(0) = 1 /\ Weight(1) = W /\ \A k \in 0 .. 7 : Weight(k + 1) = W * Weight(k)
  BY Weights
<1> HIDE DEF W
<1>2. Weight(1 + 1) = W * Weight(1) /\ Weight(2 + 1) = W * Weight(2) /\ Weight(3 + 1) = W * Weight(3)
  BY <1>1
<1>3. 1 + 1 = 2 /\ 2 + 1 = 3 /\ 3 + 1 = 4
  OBVIOUS
<1>4. QED
  BY <1>1, <1>2, <1>3

(* The number that five words stand for.                                    *)
LEMMA FiveWords ==
  ASSUME NEW z \in [0 .. 4 -> Word]
  PROVE  /\ ToInt(z) = (((z[0] + z[1] * W) + z[2] * (W * W)) + z[3] * (W * (W * W)))
                         + z[4] * (W * (W * (W * W)))
         /\ \A j \in 0 .. 4 : z[j] \in Int
<1> DEFINE n == 5
           L == Low(z)
<1>1. n \in 1 .. 8 /\ n - 1 = 4 /\ n = 5
  OBVIOUS
<1> HIDE DEF n
<1>2. z \in [0 .. n - 1 -> Word]
  BY <1>1
<1>3. /\ ToInt(z) = L[n] /\ L[0] = 0 /\ \A k \in 0 .. n - 1 : L[k + 1] = L[k] + z[k] * Weight(k)
  BY <1>1, <1>2, WordsAreNumbers
<1>4. \A j \in 0 .. 4 : z[j] \in Int
  <2>1. W \in Nat /\ \A j \in 0 .. 4 : z[j] \in 0 .. W - 1
    BY Weights DEF Word
  <2> HIDE DEF W
  <2>2. QED
    BY <2>1
<1> HIDE DEF L
<1>5. \A k \in 0 .. 4 : L[k + 1] = L[k] + z[k] * Weight(k)
  BY <1>1, <1>3
<1>6. /\ L[0 + 1] = L[0] + z[0] * Weight(0) /\ L[1 + 1] = L[1] + z[1] * Weight(1)
      /\ L[2 + 1] = L[2] + z[2] * Weight(2) /\ L[3 + 1] = L[3] + z[3] * Weight(3)
      /\ L[4 + 1] = L[4] + z[4] * Weight(4)
  BY <1>5
<1>7. /\ L[1] = L[0] + z[0] * Weight(0) /\ L[2] = L[1] + z[1] * Weight(1)
      /\ L[3] = L[2] + z[2] * Weight(2) /\ L[4] = L[3] + z[3] * Weight(3)
      /\ L[5] = L[4] + z[4] * Weight(4)
  <2>1. 0 + 1 = 1 /\ 1 + 1 = 2 /\ 2 + 1 = 3 /\ 3 + 1 = 4 /\ 4 + 1 = 5
    OBVIOUS
  <2>2. QED
    BY <1>6, <2>1
<1>8. L[1] = z[0]
  <2>1. z[0] \in Int /\ Weight(0) = 1
    BY <1>4, SmallWeights
  <2>2. QED
    BY <1>3, <1>7, <2>1
<1>9. QED
  BY <1>1, <1>3, <1>4, <1>7, <1>8, SmallWeights

(* A number times a word.                                                   *)
LEMMA LongMulUint64Right ==
  ASSUME NEW x \in Words, NEW y \in Word
  PROVE  /\ LongMulUint64(x, y) \in [0 .. 4 -> Word]
         /\ ToInt(LongMulUint64(x, y)) = ToInt(x) * y
<1> DEFINE low == [i \in 0 .. 4 |-> IF i = 4 THEN 0 ELSE (x[i] * y) % W]
           high == [i \in 0 .. 4 |-> IF i = 0 THEN 0 ELSE (x[i - 1] * y) \div W]
           r == AddInto(low, 1, 4, high)
           X == ToInt(x)
           n == 5
           lo == 1
           hi == 4
<1>1. W \in Nat /\ W >= 8 /\ y \in 0 .. W - 1 /\ Word = 0 .. W - 1
  BY Weights DEF Word
<1>2. \A j \in 0 .. 3 : x[j] \in Word
  BY DEF Words
<1>3. /\ X = x[0] + W * (x[1] + W * (x[2] + W * x[3])) /\ X \in 0 .. Weight(4) - 1
  <2> DEFINE m == 4
  <2>1. m \in 1 .. 8 /\ x \in [0 .. m - 1 -> Word] /\ m = 4
    BY DEF Words
  <2> HIDE DEF m
  <2>2. X \in 0 .. Weight(m) - 1
    BY <2>1, WordsAreNumbers
  <2>3. X = x[0] + W * (x[1] + W * (x[2] + W * x[3]))
    BY ToIntRight DEF Words, Joined
  <2> HIDE DEF X
  <2>4. QED
    BY <2>1, <2>2, <2>3
<1>4. ASSUME NEW j \in 0 .. 3
      PROVE  /\ (x[j] * y) % W \in Word /\ (x[j] * y) \div W \in Word
             /\ x[j] * y = W * ((x[j] * y) \div W) + ((x[j] * y) % W)
  <2> DEFINE a == x[j]
  <2>1. a \in Word
    BY <1>2
  <2> HIDE DEF a, W
  <2>2. a * y \in 0 .. (W - 1) * (W - 1)
    BY <2>1, Factors
  <2> DEFINE v == a * y
  <2> HIDE DEF v
  <2>3. v % W \in Word /\ v \div W \in Word /\ v = W * (v \div W) + (v % W)
    BY <2>2, Split DEF v
  <2>4. QED
    BY <2>3 DEF v, a
<1>5. low \in [0 .. 4 -> Word] /\ high \in [0 .. 4 -> Word]
  <2>1. 0 \in Word
    <3> HIDE DEF W
    <3>1. QED
      BY <1>1
  <2>2. \A j \in 0 .. 4 : (j # 4 => j \in 0 .. 3) /\ (j # 0 => j - 1 \in 0 .. 3)
    OBVIOUS
  <2> HIDE DEF Word, W
  <2>3. QED
    BY <1>4, <2>1, <2>2
<1>6. /\ low[0] = (x[0] * y) % W /\ low[1] = (x[1] * y) % W /\ low[2] = (x[2] * y) % W
      /\ low[3] = (x[3] * y) % W /\ low[4] = 0
      /\ high[0] = 0 /\ high[1] = (x[0] * y) \div W /\ high[2] = (x[1] * y) \div W
      /\ high[3] = (x[2] * y) \div W /\ high[4] = (x[3] * y) \div W
  <2>1. 1 - 1 = 0 /\ 2 - 1 = 1 /\ 3 - 1 = 2 /\ 4 - 1 = 3
    OBVIOUS
  <2> HIDE DEF W
  <2>2. /\ high[1] = (x[1 - 1] * y) \div W /\ high[2] = (x[2 - 1] * y) \div W
        /\ high[3] = (x[3 - 1] * y) \div W /\ high[4] = (x[4 - 1] * y) \div W
    OBVIOUS
  <2>3. /\ low[0] = (x[0] * y) % W /\ low[1] = (x[1] * y) % W /\ low[2] = (x[2] * y) % W
        /\ low[3] = (x[3] * y) % W /\ low[4] = 0 /\ high[0] = 0
    OBVIOUS
  <2> HIDE DEF low, high
  <2>4. QED
    BY <2>1, <2>2, <2>3
<1> HIDE DEF low, high
<1>7. /\ ToInt(low) = (((low[0] + low[1] * W) + low[2] * (W * W)) + low[3] * (W * (W * W)))
                        + low[4] * (W * (W * (W * W)))
      /\ ToInt(high) = (((high[0] + high[1] * W) + high[2] * (W * W)) + high[3] * (W * (W * W)))
                         + high[4] * (W * (W * (W * W)))
      /\ \A j \in 0 .. 4 : low[j] \in Int /\ high[j] \in Int
  BY <1>5, FiveWords
<1>8. ToInt(low) + ToInt(high) = X * y
  <2> DEFINE x0 == x[0]
             x1 == x[1]
             x2 == x[2]
             x3 == x[3]
             l0 == low[0]
             l1 == low[1]
             l2 == low[2]
             l3 == low[3]
             h1 == high[1]
             h2 == high[2]
             h3 == high[3]
             h4 == high[4]
  <2>1. l0 \in Int /\ l1 \in Int /\ l2 \in Int /\ l3 \in Int /\ h1 \in Int /\ h2 \in Int /\ h3 \in Int /\ h4 \in Int
    BY <1>7
  <2>2. x0 \in Int /\ x1 \in Int /\ x2 \in Int /\ x3 \in Int /\ y \in Int /\ W \in Int
    <3>1. Word \subseteq Int /\ W \in Int
      <4> HIDE DEF W
      <4>1. QED
        BY <1>1
    <3>2. 0 \in 0 .. 3 /\ 1 \in 0 .. 3 /\ 2 \in 0 .. 3 /\ 3 \in 0 .. 3
      OBVIOUS
    <3> HIDE DEF W, Word
    <3>3. QED
      BY <1>2, <3>1, <3>2
  <2>3. x0 * y = W * h1 + l0 /\ x1 * y = W * h2 + l1 /\ x2 * y = W * h3 + l2 /\ x3 * y = W * h4 + l3
    <3>1. 0 \in 0 .. 3 /\ 1 \in 0 .. 3 /\ 2 \in 0 .. 3 /\ 3 \in 0 .. 3
      OBVIOUS
    <3> HIDE DEF W
    <3>2. /\ x0 * y = W * ((x0 * y) \div W) + ((x0 * y) % W) /\ x1 * y = W * ((x1 * y) \div W) + ((x1 * y) % W)
          /\ x2 * y = W * ((x2 * y) \div W) + ((x2 * y) % W) /\ x3 * y = W * ((x3 * y) \div W) + ((x3 * y) % W)
      BY <1>4, <3>1
    <3>3. QED
      BY <1>6, <3>2
  <2>4. low[4] = 0 /\ high[0] = 0
    BY <1>6
  <2> HIDE DEF x0, x1, x2, x3, W, X
  <2>5. /\ ToInt(low) = (((l0 + l1 * W) + l2 * (W * W)) + l3 * (W * (W * W))) + 0 * (W * (W * (W * W)))
        /\ ToInt(high) = (((0 + h1 * W) + h2 * (W * W)) + h3 * (W * (W * W))) + h4 * (W * (W * (W * W)))
    BY <1>7, <2>4
  <2> HIDE DEF l0, l1, l2, l3, h1, h2, h3, h4
  <2>6. /\ ToInt(low) = ((l0 + l1 * W) + l2 * (W * W)) + l3 * (W * (W * W))
        /\ ToInt(high) = ((h1 * W + h2 * (W * W)) + h3 * (W * (W * W))) + h4 * (W * (W * (W * W)))
    <3> DEFINE w4 == W * (W * (W * W))
               g1 == h1 * W
               e == ((l0 + l1 * W) + l2 * (W * W)) + l3 * (W * (W * W))
    <3>1. w4 \in Int /\ g1 \in Int /\ e \in Int
      BY <2>1, <2>2
    <3>2. ToInt(low) = e + 0 * w4 /\ ToInt(high) = (((0 + g1) + h2 * (W * W)) + h3 * (W * (W * W))) + h4 * w4
      BY <2>5
    <3>3. 0 * w4 = 0 /\ 0 + g1 = g1
      <4> HIDE DEF w4, g1
      <4>1. QED
        BY <3>1
    <3>4. ToInt(high) = ((g1 + h2 * (W * W)) + h3 * (W * (W * W))) + h4 * w4
      <4> HIDE DEF w4, g1
      <4>1. QED
        BY <3>2, <3>3
    <3>5. ToInt(low) = e
      <4> HIDE DEF w4, e
      <4>1. QED
        BY <3>1, <3>2, <3>3
    <3>6. QED
      BY <3>4, <3>5
  <2>7. (((l0 + l1 * W) + l2 * (W * W)) + l3 * (W * (W * W)))
           + (((h1 * W + h2 * (W * W)) + h3 * (W * (W * W))) + h4 * (W * (W * (W * W))))
           = (x0 + W * (x1 + W * (x2 + W * x3))) * y
    BY <2>1, <2>2, <2>3, LowsAndHighs
  <2>8. X = x0 + W * (x1 + W * (x2 + W * x3))
    BY <1>3 DEF x0, x1, x2, x3
  <2>9. QED
    BY <2>6, <2>7, <2>8
<1>9. X * y < Weight(5)
  <2> DEFINE w4 == Weight(4)
  <2>1. w4 \in Nat \ {0} /\ Weight(5) = W * w4
    <3>1. \A k \in 0 .. 7 : Weight(k + 1) = W * Weight(k)
      BY Weights
    <3>2. 4 \in 0 .. 7 /\ 4 + 1 = 5 /\ 4 \in 0 .. 8
      OBVIOUS
    <3> HIDE DEF W
    <3>3. QED
      BY <3>1, <3>2, WeightOf
  <2>2. X \in Nat /\ X <= w4 /\ y \in Nat /\ y <= W - 1
    <3> HIDE DEF X, W, w4
    <3>1. QED
      BY <1>1, <1>3, <2>1 DEF w4
  <2> HIDE DEF X, W, w4
  <2>3. X * y <= w4 * y /\ X * y \in Int /\ w4 * y \in Int
    BY <2>1, <2>2, Monotone
  <2>4. w4 * y <= w4 * (W - 1)
    <3>1. W - 1 \in Int
      BY <1>1
    <3>2. QED
      BY <2>1, <2>2, <3>1, Monotone
  <2>5. w4 * (W - 1) = W * w4 - w4 /\ W * w4 \in Int
    BY <1>1, <2>1
  <2>6. QED
    BY <2>1, <2>3, <2>4, <2>5
<1>10. /\ n \in 1 .. 8 /\ n - 1 = 4 /\ lo \in 0 .. n - 1 /\ hi \in lo .. n - 1 /\ hi + 1 = 5
       /\ \A j \in 0 .. n - 1 : j \notin lo .. hi => high[j] = 0
  <2>1. n \in 1 .. 8 /\ n - 1 = 4 /\ lo \in 0 .. n - 1 /\ hi \in lo .. n - 1 /\ hi + 1 = 5
    OBVIOUS
  <2>2. \A j \in 0 .. n - 1 : j \notin lo .. hi => j = 0
    OBVIOUS
  <2>3. high[0] = 0
    BY <1>6
  <2> HIDE DEF n, lo, hi
  <2>4. QED
    BY <2>1, <2>2, <2>3
<1> DEFINE v == AddInto(low, lo, hi, high)
<1>11. v = r
  OBVIOUS
<1> HIDE DEF n, lo, hi, r
<1>12. low \in [0 .. n - 1 -> Word] /\ high \in [0 .. n - 1 -> Word]
  BY <1>5, <1>10
<1>13. ToInt(low) + ToInt(high) < Weight(hi + 1)
  BY <1>8, <1>9, <1>10
<1>14. v \in [0 .. n - 1 -> Word] /\ ToInt(v) = ToInt(low) + ToInt(high)
  <2>1. LongEnough(n, low, high, lo, hi)
    BY <1>10, <1>12, <1>13 DEF LongEnough
  <2>2. Added(n, low, high, lo, hi, AddInto(low, lo, hi, high))
    BY <2>1, AddExact
  <2>3. QED
    BY <2>2 DEF Added
<1> HIDE DEF v, X
<1>15. r \in [0 .. 4 -> Word] /\ ToInt(r) = X * y
  <2>1. [0 .. n - 1 -> Word] = [0 .. 4 -> Word]
    <3> HIDE DEF Word
    <3>1. QED
      BY <1>10
  <2>2. QED
    BY <1>8, <1>11, <1>14, <2>1
<1>16. LongMulUint64(x, y) = r
  BY DEF LongMulUint64, r, low, high
<1>17. QED
  BY <1>15, <1>16 DEF X

(* A chain that is cut off after word 3 adds up to multiples of 2^256.      *)
CutOff(r, q, v) ==
  r \in [0 .. 4 -> Word] /\ \E d \in Int : Low(r)[4] = Low(q)[4] + v + d * Weight(4)

(* Cut off after the fourth word, it adds modulo the weight of the fifth.   *)
LEMMA ChainModulo ==
  ASSUME NEW q \in [0 .. 4 -> Word], NEW lo \in 0 .. 3, NEW S \in SUBSET (lo .. 3),
         \A i \in S : i + 1 \notin S, NEW p \in [S -> 0 .. (W - 1) * (W - 1)]
  PROVE  CutOff(AddInto(q, lo, 3, PlaceProducts(p)), q, Low(PlacedAt(p, S))[4])
<1> DEFINE t == PlaceProducts(p)
           r == AddInto(q, lo, 3, t)
           z == PlacedAt(p, S)
           n == 5
           m == 8
           hi == 3
           a == 0
           high == IF 3 \in S THEN p[3] \div W ELSE 0
<1>1. S \in SUBSET (0 .. 6)
  OBVIOUS
<1>2. /\ t \in [0 .. 7 -> Word] /\ \A j \in 0 .. 7 : j \notin S /\ j - 1 \notin S => t[j] = 0
      /\ \A k \in 0 .. 8 :
           Low(t)[k] + (IF k - 1 \in S THEN (p[k - 1] \div W) * Weight(k) ELSE 0) = Low(z)[k]
  <2> HIDE DEF t, z
  <2>1. QED
    BY <1>1, Placed DEF t, z
<1>3. Low(t)[4] + high * Weight(4) = Low(z)[4] /\ high \in Int
  <2>1. Low(t)[4] + (IF 3 \in S THEN (p[3] \div W) * Weight(4) ELSE 0) = Low(z)[4]
    <3>1. 4 \in 0 .. 8 /\ 4 - 1 = 3
      OBVIOUS
    <3> HIDE DEF t, z
    <3>2. Low(t)[4] + (IF 4 - 1 \in S THEN (p[4 - 1] \div W) * Weight(4) ELSE 0) = Low(z)[4]
      BY <1>2, <3>1
    <3>3. QED
      BY <3>1, <3>2
  <2>2. Weight(4) \in Int
    BY WeightOf
  <2>3. CASE 3 \in S
    <3> DEFINE v == p[3]
               h == v \div W
    <3>1. v \in 0 .. (W - 1) * (W - 1)
      BY <2>3
    <3>2. h \in Word
      <4> HIDE DEF v, W
      <4>1. QED
        BY <3>1, Split
    <3>3. Word \subseteq Int
      <4>1. W \in Nat
        BY Weights
      <4> HIDE DEF W
      <4>2. QED
        BY <4>1 DEF Word
    <3>4. h \in Int
      <4> HIDE DEF h, Word
      <4>1. QED
        BY <3>2, <3>3
    <3>5. high = h
      BY <2>3
    <3> HIDE DEF t, z, W
    <3>6. Low(t)[4] + h * Weight(4) = Low(z)[4]
      BY <2>1, <2>3
    <3> HIDE DEF high, h
    <3>7. QED
      BY <3>4, <3>5, <3>6
  <2>4. CASE 3 \notin S
    <3>1. high = 0 /\ Low(t)[4] + 0 = Low(z)[4]
      BY <2>1, <2>4
    <3>2. 0 * Weight(4) = 0
      BY <2>2
    <3> HIDE DEF high, t, z
    <3>3. QED
      BY <3>1, <3>2
  <2>5. QED
    BY <2>3, <2>4
<1> HIDE DEF high
<1>4. /\ n \in 1 .. 8 /\ m \in n .. 8 /\ n - 1 = 4 /\ m - 1 = 7 /\ lo \in 0 .. n - 1 /\ hi \in lo .. n - 1
      /\ hi + 1 = 4 /\ m \in 1 .. 8 /\ a \in 0 .. m /\ lo \in a .. m
      /\ \A j \in a .. lo - 1 : j \in 0 .. 7 /\ j \notin S /\ j - 1 \notin S
  OBVIOUS
<1> DEFINE v == AddInto(q, lo, hi, t)
           c == Carries(q, t, lo, hi)
<1>5. v = r
  OBVIOUS
<1> HIDE DEF t, z, n, m, hi, r
<1>6. \A j \in a .. lo - 1 : t[j] = 0
  BY <1>2, <1>4
<1> HIDE DEF a
<1>7. q \in [0 .. n - 1 -> Word] /\ t \in [0 .. m - 1 -> Word]
  BY <1>2, <1>4
<1>8. /\ c[hi + 1] \in {0, 1} /\ v \in [0 .. n - 1 -> Word]
      /\ Low(v)[hi + 1] + c[hi + 1] * Weight(hi + 1) = Low(q)[hi + 1] + (Low(t)[hi + 1] - Low(t)[lo])
  <2>1. n \in 1 .. 8 /\ m \in n .. 8 /\ lo \in 0 .. n - 1 /\ hi \in lo .. n - 1
    BY <1>4
  <2>2. Summed(c, v, n, q, t, lo, hi)
    BY <1>7, <2>1, ChainSums
  <2> HIDE DEF c, v
  <2>3. QED
    BY <2>2 DEF Summed
<1>9. Low(t)[lo] = 0
  <2>1. t \in [0 .. m - 1 -> Int]
    BY <1>4, <1>7, LowRange
  <2>2. Low(t)[lo] = Low(t)[a]
    BY <1>4, <1>6, <2>1, LowZeros
  <2>3. Low(t)[0] = 0
    BY <1>4, <2>1, LowIs
  <2>4. QED
    BY <2>2, <2>3 DEF a
<1>10. Low(r)[4] \in Int /\ Low(q)[4] \in Int /\ Low(t)[4] \in Int /\ Weight(4) \in Int
  <2>1. v \in [0 .. n - 1 -> Int] /\ q \in [0 .. n - 1 -> Int] /\ t \in [0 .. m - 1 -> Int]
    BY <1>4, <1>7, <1>8, LowRange
  <2>2. 4 \in 0 .. n /\ 4 \in 0 .. m
    BY <1>4
  <2>3. QED
    BY <1>4, <1>5, <2>1, <2>2, LowIs, WeightOf
<1> DEFINE c4 == c[hi + 1]
           d == -(c4 + high)
           w == Weight(4)
<1>11. c4 \in Int /\ Low(r)[4] + c4 * w = Low(q)[4] + (Low(t)[4] - 0)
  BY <1>4, <1>5, <1>8, <1>9
<1> HIDE DEF c4, w
<1>12. d \in Int /\ Low(r)[4] = Low(q)[4] + Low(z)[4] + d * w
  <2> DEFINE A == Low(r)[4]
             B == Low(q)[4]
             D == Low(t)[4]
             Z == Low(z)[4]
             cw == c4 * w
             hw == high * w
  <2>1. A \in Int /\ B \in Int /\ D \in Int /\ w \in Int /\ high \in Int /\ c4 \in Int
    BY <1>3, <1>10, <1>11 DEF w
  <2>2. A + cw = B + (D - 0) /\ D + hw = Z
    BY <1>3, <1>11 DEF w
  <2> HIDE DEF A, B, D, Z
  <2>3. cw \in Int /\ hw \in Int /\ d * w = 0 - cw - hw /\ d \in Int
    BY <2>1
  <2> HIDE DEF cw, hw, d
  <2>4. A = B + Z + d * w
    BY <2>1, <2>2, <2>3
  <2>5. QED
    BY <2>3, <2>4 DEF A, B, Z
<1> HIDE DEF d
<1>13. r \in [0 .. 4 -> Word]
  <2>1. [0 .. n - 1 -> Word] = [0 .. 4 -> Word]
    <3> HIDE DEF Word
    <3>1. QED
      BY <1>4
  <2>2. QED
    BY <1>5, <1>8, <2>1
<1>14. QED
  BY <1>12, <1>13 DEF w, r, t, z, CutOff

(* One product is added.                                                    *)
LEMMA AddProduct ==
  ASSUME NEW q \in [0 .. 4 -> Word], NEW a \in 1 .. 3, NEW p \in [{a} -> 0 .. (W - 1) * (W - 1)]
  PROVE  CutOff(AddInto(q, a, 3, PlaceProducts(p)), q, p[a] * Weight(a))
<1> DEFINE S == {a}
           z == PlacedAt(p, S)
           r == AddInto(q, a, 3, PlaceProducts(p))
           n == 8
           c == 0
           e == 4
           f == a + 1
<1>1. S \in SUBSET (a .. 3) /\ S \in SUBSET (0 .. 6) /\ (\A i \in S : i + 1 \notin S) /\ a \in 0 .. 3
  OBVIOUS
<1>2. p \in [S -> 0 .. (W - 1) * (W - 1)]
  OBVIOUS
<1>3. \A i \in 0 .. 7 : z[i] = IF i \in S THEN p[i] ELSE 0
  BY DEF PlacedAt
<1>4. /\ n \in 1 .. 8 /\ n - 1 = 7 /\ c \in 0 .. n - 1 /\ a \in c .. n - 1 /\ f \in 0 .. n /\ e \in f .. n
      /\ (\A j \in c .. a - 1 : j \in 0 .. 7 /\ j \notin S) /\ (\A j \in f .. e - 1 : j \in 0 .. 7 /\ j \notin S)
      /\ a \in 0 .. 7 /\ a \in S /\ a \in 0 .. 8
  OBVIOUS
<1> HIDE DEF S, r
<1>5. CutOff(r, q, Low(z)[4])
  BY <1>1, <1>2, ChainModulo DEF r
<1>6. z \in [0 .. 7 -> Int]
  BY <1>1, <1>2, Placed
<1> HIDE DEF z, n
<1>7. z \in [0 .. n - 1 -> Int]
  BY <1>4, <1>6
<1>8. (\A j \in c .. a - 1 : z[j] = 0) /\ (\A j \in f .. e - 1 : z[j] = 0) /\ z[a] = p[a]
  BY <1>3, <1>4
<1> HIDE DEF c, e, f
<1>9. Low(z)[a + 1] = Low(z)[c] + z[a] * Weight(a)
  BY <1>4, <1>7, <1>8, NextTerm
<1>10. Low(z)[e] = Low(z)[f]
  BY <1>4, <1>7, <1>8, LowZeros
<1>11. Low(z)[c] = 0
  BY <1>4, <1>7, LowIs DEF c
<1>12. z[a] * Weight(a) \in Int
  <2> DEFINE b == z[a]
             w == Weight(a)
  <2>1. b \in Int /\ w \in Int
    BY <1>4, <1>6, WeightOf
  <2> HIDE DEF b, w
  <2>2. b * w \in Int
    BY <2>1
  <2>3. QED
    BY <2>2 DEF b, w
<1>13. Low(z)[4] = p[a] * Weight(a)
  BY <1>8, <1>9, <1>10, <1>11, <1>12 DEF e, f
<1>14. QED
  BY <1>5, <1>13 DEF r

(* Two products are added.                                                  *)
LEMMA AddTwoProducts ==
  ASSUME NEW q \in [0 .. 4 -> Word], NEW p \in [{1, 3} -> 0 .. (W - 1) * (W - 1)]
  PROVE  CutOff(AddInto(q, 1, 3, PlaceProducts(p)), q, p[1] * Weight(1) + p[3] * Weight(3))
<1> DEFINE S == {1, 3}
           z == PlacedAt(p, S)
           lo == 1
           r == AddInto(q, 1, 3, PlaceProducts(p))
           n == 8
           c == 0
           e == 2
           f == 3
<1>1. S \in SUBSET (lo .. 3) /\ S \in SUBSET (0 .. 6) /\ (\A i \in S : i + 1 \notin S) /\ lo \in 0 .. 3
  OBVIOUS
<1>2. p \in [S -> 0 .. (W - 1) * (W - 1)]
  OBVIOUS
<1>3. \A i \in 0 .. 7 : z[i] = IF i \in S THEN p[i] ELSE 0
  BY DEF PlacedAt
<1>4. /\ n \in 1 .. 8 /\ n - 1 = 7 /\ c \in 0 .. n - 1 /\ lo \in c .. n - 1 /\ e \in 0 .. n - 1 /\ f \in e .. n - 1
      /\ (\A j \in c .. lo - 1 : j \in 0 .. 7 /\ j \notin S) /\ (\A j \in e .. f - 1 : j \in 0 .. 7 /\ j \notin S)
      /\ lo \in 0 .. 7 /\ lo \in S /\ lo \in 0 .. 8 /\ f \in 0 .. 7 /\ f \in S /\ f \in 0 .. 8 /\ lo + 1 = e
      /\ f + 1 = 4
  OBVIOUS
<1> DEFINE v == AddInto(q, lo, 3, PlaceProducts(p))
<1>5. v = r
  OBVIOUS
<1> HIDE DEF S, r, lo
<1>6. CutOff(r, q, Low(z)[4])
  <2> HIDE DEF v
  <2>1. CutOff(v, q, Low(z)[4])
    BY <1>1, <1>2, ChainModulo DEF v
  <2>2. QED
    BY <1>5, <2>1
<1> HIDE DEF v
<1>7. z \in [0 .. 7 -> Int]
  BY <1>1, <1>2, Placed
<1> HIDE DEF z, n
<1>8. z \in [0 .. n - 1 -> Int]
  BY <1>4, <1>7
<1>9. (\A j \in c .. lo - 1 : z[j] = 0) /\ (\A j \in e .. f - 1 : z[j] = 0) /\ z[lo] = p[lo] /\ z[f] = p[f]
  BY <1>3, <1>4
<1> HIDE DEF c, e, f
<1>10. Low(z)[lo + 1] = Low(z)[c] + z[lo] * Weight(lo)
  BY <1>4, <1>8, <1>9, NextTerm
<1>11. Low(z)[f + 1] = Low(z)[e] + z[f] * Weight(f)
  BY <1>4, <1>8, <1>9, NextTerm
<1>12. Low(z)[c] = 0
  BY <1>4, <1>8, LowIs DEF c
<1>13. z[lo] * Weight(lo) \in Int
  <2> DEFINE b == z[lo]
             w == Weight(lo)
  <2>1. b \in Int /\ w \in Int
    BY <1>4, <1>7, WeightOf
  <2> HIDE DEF b, w
  <2>2. b * w \in Int
    BY <2>1
  <2>3. QED
    BY <2>2 DEF b, w
<1>14. Low(z)[e] = p[lo] * Weight(lo)
  BY <1>4, <1>9, <1>10, <1>12, <1>13
<1>15. Low(z)[4] = p[lo] * Weight(lo) + p[f] * Weight(f)
  BY <1>4, <1>9, <1>11, <1>14
<1>16. QED
  BY <1>6, <1>15 DEF r, lo, f

(* The partial products of a product modulo t = w^4.                        *)
LEMMA ProductModulo ==
  ASSUME NEW w \in Int, NEW x0 \in Int, NEW x1 \in Int, NEW x2 \in Int, NEW x3 \in Int,
         NEW y0 \in Int, NEW y1 \in Int, NEW y2 \in Int, NEW y3 \in Int
  PROVE  (x0 + w * (x1 + w * (x2 + w * x3))) * (y0 + w * (y1 + w * (y2 + w * y3)))
           = (y0 + w * (y1 + w * (y2 + w * y3))) * x0
             + ((x1 * y0) * w + (x1 * y2) * (w * (w * w))) + (x1 * y1) * (w * w)
             + (x2 * y0) * (w * w) + (x2 * y1) * (w * (w * w)) + (x3 * y0) * (w * (w * w))
             + (x1 * y3 + x2 * (y2 + w * y3) + x3 * (y1 + w * (y2 + w * y3))) * (w * (w * (w * w)))
OBVIOUS

(* The product modulo 2^256.                                                *)
LEMMA MulRight ==
  ASSUME NEW x \in Words, NEW y \in Words
  PROVE  Mul(x, y) \in Words /\ ToInt(Mul(x, y)) = (ToInt(x) * ToInt(y)) % Two256
<1> DEFINE q0 == LongMulUint64(y, x[0])
           p1 == [p \in {1, 3} |-> x[1] * y[p - 1]]
           p2 == [p \in {2} |-> x[1] * y[1]]
           p3 == [p \in {2} |-> x[2] * y[0]]
           p4 == [p \in {3} |-> x[2] * y[1]]
           p5 == [p \in {3} |-> x[3] * y[0]]
           q1 == AddInto(q0, 1, 3, PlaceProducts(p1))
           q2 == AddInto(q1, 2, 3, PlaceProducts(p2))
           q3 == AddInto(q2, 2, 3, PlaceProducts(p3))
           q4 == AddInto(q3, 3, 3, PlaceProducts(p4))
           q5 == AddInto(q4, 3, 3, PlaceProducts(p5))
           V == 0 .. (W - 1) * (W - 1)
           X == ToInt(x)
           Y == ToInt(y)
           T == Weight(4)
           res == [i \in 0 .. 3 |-> q5[i]]
<1>1. \A j \in 0 .. 3 : x[j] \in Word /\ y[j] \in Word
  BY DEF Words
<1>2. \A i \in 0 .. 3, j \in 0 .. 3 : x[i] * y[j] \in V
  <2> TAKE i \in 0 .. 3, j \in 0 .. 3
  <2> DEFINE a == x[i]
             b == y[j]
  <2>1. a \in Word /\ b \in Word
    BY <1>1
  <2> HIDE DEF a, b, W
  <2>2. a * b \in V
    BY <2>1, Factors
  <2>3. QED
    BY <2>2 DEF a, b
<1> HIDE DEF V
<1>3. p1[1] = x[1] * y[0] /\ p1[3] = x[1] * y[2] /\ p1 \in [{1, 3} -> V]
  <2>1. p1[1] = x[1] * y[1 - 1] /\ p1[3] = x[1] * y[3 - 1] /\ 1 - 1 = 0 /\ 3 - 1 = 2
    OBVIOUS
  <2>2. p1 = [p \in {1, 3} |-> p1[p]]
    OBVIOUS
  <2>3. 0 \in 0 .. 3 /\ 1 \in 0 .. 3 /\ 2 \in 0 .. 3
    OBVIOUS
  <2> HIDE DEF p1
  <2>4. p1[1] = x[1] * y[0] /\ p1[3] = x[1] * y[2]
    BY <2>1
  <2>5. p1[1] \in V /\ p1[3] \in V
    BY <1>2, <2>3, <2>4
  <2>6. QED
    BY <2>2, <2>4, <2>5
<1>4. /\ p2[2] = x[1] * y[1] /\ p2 \in [{2} -> V] /\ p3[2] = x[2] * y[0] /\ p3 \in [{2} -> V]
      /\ p4[3] = x[2] * y[1] /\ p4 \in [{3} -> V] /\ p5[3] = x[3] * y[0] /\ p5 \in [{3} -> V]
  <2>1. 0 \in 0 .. 3 /\ 1 \in 0 .. 3 /\ 2 \in 0 .. 3 /\ 3 \in 0 .. 3
    OBVIOUS
  <2>2. x[1] * y[1] \in V /\ x[2] * y[0] \in V /\ x[2] * y[1] \in V /\ x[3] * y[0] \in V
    BY <1>2, <2>1
  <2>3. QED
    BY <2>2
<1> HIDE DEF p1, p2, p3, p4, p5
<1>5. q0 \in [0 .. 4 -> Word] /\ ToInt(q0) = Y * x[0]
  <2>1. x[0] \in Word
    BY <1>1
  <2>2. QED
    BY <2>1, LongMulUint64Right
<1> HIDE DEF q0
<1>6. CutOff(q1, q0, p1[1] * Weight(1) + p1[3] * Weight(3)) /\ q1 \in [0 .. 4 -> Word]
  <2>1. CutOff(q1, q0, p1[1] * Weight(1) + p1[3] * Weight(3))
    BY <1>3, <1>5, AddTwoProducts DEF V
  <2> HIDE DEF q1
  <2>2. QED
    BY <2>1 DEF CutOff
<1> HIDE DEF q1
<1>7. ASSUME NEW q \in [0 .. 4 -> Word], NEW a \in 1 .. 3, NEW p \in [{a} -> V]
      PROVE  /\ CutOff(AddInto(q, a, 3, PlaceProducts(p)), q, p[a] * Weight(a))
             /\ AddInto(q, a, 3, PlaceProducts(p)) \in [0 .. 4 -> Word]
  <2>1. CutOff(AddInto(q, a, 3, PlaceProducts(p)), q, p[a] * Weight(a))
    BY AddProduct DEF V
  <2>2. QED
    BY <2>1 DEF CutOff
<1>8. 2 \in 1 .. 3 /\ 3 \in 1 .. 3
  OBVIOUS
<1>9. CutOff(q2, q1, p2[2] * Weight(2)) /\ q2 \in [0 .. 4 -> Word]
  BY <1>4, <1>6, <1>7, <1>8
<1> HIDE DEF q2
<1>10. CutOff(q3, q2, p3[2] * Weight(2)) /\ q3 \in [0 .. 4 -> Word]
  BY <1>4, <1>7, <1>8, <1>9
<1> HIDE DEF q3
<1>11. CutOff(q4, q3, p4[3] * Weight(3)) /\ q4 \in [0 .. 4 -> Word]
  BY <1>4, <1>7, <1>8, <1>10
<1> HIDE DEF q4
<1>12. CutOff(q5, q4, p5[3] * Weight(3)) /\ q5 \in [0 .. 4 -> Word]
  BY <1>4, <1>7, <1>8, <1>11
<1> HIDE DEF q5
<1> DEFINE L0 == Low(q0)[4]
           L1 == Low(q1)[4]
           L2 == Low(q2)[4]
           L3 == Low(q3)[4]
           L4 == Low(q4)[4]
           L5 == Low(q5)[4]
<1>13. /\ L0 \in Int /\ L1 \in Int /\ L2 \in Int /\ L3 \in Int /\ L4 \in Int /\ L5 \in 0 .. T - 1
       /\ q0[4] \in Int /\ Y * x[0] = L0 + q0[4] * T
  <2> DEFINE n == 5
             f == 4
  <2>1. n \in 1 .. 8 /\ n - 1 = 4 /\ f \in 0 .. n /\ f \in 0 .. n - 1 /\ n = f + 1
    OBVIOUS
  <2>2. f = 4
    OBVIOUS
  <2> HIDE DEF n, f
  <2>3. \A q \in [0 .. 4 -> Word] : q \in [0 .. n - 1 -> Word]
    BY <2>1
  <2>4. \A q \in [0 .. 4 -> Word] : Low(q)[f] \in Int
    BY <2>1, <2>3, LowRange, LowIs
  <2>5. Low(q5)[f] \in 0 .. Weight(f) - 1
    BY <1>12, <2>1, <2>3, WordsAreNumbers
  <2>6. ToInt(q0) = Low(q0)[f + 1] /\ Low(q0)[f + 1] = Low(q0)[f] + q0[f] * Weight(f) /\ q0[f] \in 0 .. W - 1
    BY <1>5, <2>1, <2>3, WordsAreNumbers
  <2>7. q0[f] \in Int
    <3>1. W \in Nat
      BY Weights
    <3> HIDE DEF W
    <3>2. QED
      BY <2>6, <3>1
  <2>8. QED
    BY <1>5, <1>6, <1>9, <1>10, <1>11, <2>2, <2>4, <2>5, <2>6, <2>7
<1>14. PICK d1 \in Int : L1 = L0 + (p1[1] * Weight(1) + p1[3] * Weight(3)) + d1 * T
  BY <1>6 DEF CutOff
<1>15. PICK d2 \in Int : L2 = L1 + p2[2] * Weight(2) + d2 * T
  BY <1>9 DEF CutOff
<1>16. PICK d3 \in Int : L3 = L2 + p3[2] * Weight(2) + d3 * T
  BY <1>10 DEF CutOff
<1>17. PICK d4 \in Int : L4 = L3 + p4[3] * Weight(3) + d4 * T
  BY <1>11 DEF CutOff
<1>18. PICK d5 \in Int : L5 = L4 + p5[3] * Weight(3) + d5 * T
  BY <1>12 DEF CutOff
<1>19. /\ X = x[0] + W * (x[1] + W * (x[2] + W * x[3]))
       /\ Y = y[0] + W * (y[1] + W * (y[2] + W * y[3]))
  BY ToIntRight DEF Words, Joined
<1>20. /\ W \in Int /\ Weight(1) = W /\ Weight(2) = W * W /\ Weight(3) = W * (W * W)
       /\ T = W * (W * (W * W)) /\ T \in Nat \ {0} /\ T = Two256
  <2>1. W \in Int /\ Weight(1) = W /\ Weight(2) = W * W /\ Weight(3) = W * (W * W) /\ T = W * (W * (W * W))
    BY SmallWeights
  <2>2. T \in Nat \ {0} /\ T = Two256
    BY WeightOf, Weights
  <2>3. QED
    BY <2>1, <2>2
<1>21. \E k \in Int : X * Y = T * k + L5
  <2> DEFINE x0 == x[0]
             x1 == x[1]
             x2 == x[2]
             x3 == x[3]
             y0 == y[0]
             y1 == y[1]
             y2 == y[2]
             y3 == y[3]
             E == x1 * y3 + x2 * (y2 + W * y3) + x3 * (y1 + W * (y2 + W * y3))
             g == q0[4]
             k == g - d1 - d2 - d3 - d4 - d5 + E
  <2>1. /\ x0 \in Int /\ x1 \in Int /\ x2 \in Int /\ x3 \in Int /\ y0 \in Int /\ y1 \in Int /\ y2 \in Int /\ y3 \in Int
    <3>1. Word \subseteq Int
      <4>1. W \in Nat
        BY Weights
      <4> HIDE DEF W
      <4>2. QED
        BY <4>1 DEF Word
    <3>2. 0 \in 0 .. 3 /\ 1 \in 0 .. 3 /\ 2 \in 0 .. 3 /\ 3 \in 0 .. 3
      OBVIOUS
    <3> HIDE DEF Word
    <3>3. QED
      BY <1>1, <3>1, <3>2
  <2>2. g \in Int /\ L0 \in Int /\ L1 \in Int /\ L2 \in Int /\ L3 \in Int /\ L4 \in Int /\ L5 \in Int
    <3> HIDE DEF L0, L1, L2, L3, L4, L5, T
    <3>1. QED
      BY <1>13, <1>20
  <2> DEFINE a1 == (x1 * y0) * W + (x1 * y2) * (W * (W * W))
             a2 == (x1 * y1) * (W * W)
             a3 == (x2 * y0) * (W * W)
             a4 == (x2 * y1) * (W * (W * W))
             a5 == (x3 * y0) * (W * (W * W))
  <2> HIDE DEF L0, L1, L2, L3, L4, L5, T, X, Y
  <2>3. L1 = L0 + a1 + d1 * T /\ L2 = L1 + a2 + d2 * T /\ L3 = L2 + a3 + d3 * T
        /\ L4 = L3 + a4 + d4 * T /\ L5 = L4 + a5 + d5 * T
    BY <1>3, <1>4, <1>14, <1>15, <1>16, <1>17, <1>18, <1>20
  <2>4. Y * x0 = L0 + g * T
    BY <1>13
  <2>5. X * Y = Y * x0 + a1 + a2 + a3 + a4 + a5 + E * T
    <3>1. X = x0 + W * (x1 + W * (x2 + W * x3)) /\ Y = y0 + W * (y1 + W * (y2 + W * y3))
      BY <1>19
    <3> HIDE DEF x0, x1, x2, x3, y0, y1, y2, y3, W
    <3>2. (x0 + W * (x1 + W * (x2 + W * x3))) * (y0 + W * (y1 + W * (y2 + W * y3)))
            = (y0 + W * (y1 + W * (y2 + W * y3))) * x0 + a1 + a2 + a3 + a4 + a5 + E * (W * (W * (W * W)))
      BY <1>20, <2>1, ProductModulo
    <3> HIDE DEF a1, a2, a3, a4, a5, E
    <3>3. QED
      BY <1>20, <3>1, <3>2
  <2>6. a1 \in Int /\ a2 \in Int /\ a3 \in Int /\ a4 \in Int /\ a5 \in Int /\ E \in Int /\ T \in Int /\ X * Y \in Int
        /\ Y * x0 \in Int
    <3> HIDE DEF x0, x1, x2, x3, y0, y1, y2, y3, W
    <3>1. a1 \in Int /\ a2 \in Int /\ a3 \in Int /\ a4 \in Int /\ a5 \in Int /\ E \in Int
      BY <1>20, <2>1
    <3>2. X \in Int /\ Y \in Int
      BY <1>19, <1>20, <2>1 DEF x0, x1, x2, x3, y0, y1, y2, y3
    <3>3. T \in Int
      BY <1>20
    <3>4. QED
      BY <2>1, <3>1, <3>2, <3>3
  <2>7. k \in Int
    <3> HIDE DEF E, g
    <3>1. QED
      BY <2>2, <2>6
  <2>8. X * Y = T * k + L5
    <3> DEFINE Z == X * Y
               Yx == Y * x0
    <3>1. Z \in Int /\ Yx \in Int /\ Z = Yx + a1 + a2 + a3 + a4 + a5 + E * T /\ Yx = L0 + g * T
      BY <2>4, <2>5, <2>6
    <3> HIDE DEF Z, Yx, E, g, a1, a2, a3, a4, a5
    <3>2. T * k = g * T - d1 * T - d2 * T - d3 * T - d4 * T - d5 * T + E * T
      BY <2>2, <2>6
    <3>3. /\ g * T \in Int /\ d1 * T \in Int /\ d2 * T \in Int /\ d3 * T \in Int /\ d4 * T \in Int /\ d5 * T \in Int
          /\ E * T \in Int
      BY <2>2, <2>6
    <3> DEFINE e0 == g * T
               e1 == d1 * T
               e2 == d2 * T
               e3 == d3 * T
               e4 == d4 * T
               e5 == d5 * T
               e6 == E * T
               e7 == T * k
    <3>4. /\ e7 = e0 - e1 - e2 - e3 - e4 - e5 + e6 /\ Z = Yx + a1 + a2 + a3 + a4 + a5 + e6 /\ Yx = L0 + e0
          /\ L1 = L0 + a1 + e1 /\ L2 = L1 + a2 + e2 /\ L3 = L2 + a3 + e3 /\ L4 = L3 + a4 + e4 /\ L5 = L4 + a5 + e5
          /\ e0 \in Int /\ e1 \in Int /\ e2 \in Int /\ e3 \in Int /\ e4 \in Int /\ e5 \in Int /\ e6 \in Int
      BY <2>3, <3>1, <3>2, <3>3
    <3> HIDE DEF e0, e1, e2, e3, e4, e5, e6, e7
    <3>5. Z = e7 + L5
      BY <2>2, <2>6, <3>1, <3>4
    <3>6. QED
      BY <3>5 DEF Z, e7
  <2> HIDE DEF k
  <2>9. QED
    BY <2>7, <2>8
<1>22. (X * Y) % T = L5
  <2>1. PICK k \in Int : X * Y = T * k + L5
    BY <1>21
  <2> HIDE DEF L5, T, X, Y
  <2>2. (T * k + L5) % T = L5
    BY <1>13, <1>20, DivisionUnique, ZenonT(60)
  <2>3. QED
    BY <2>1, <2>2
<1>23. res \in Words /\ ToInt(res) = L5
  <2> DEFINE n == 4
             m == 5
             a == 0
  <2>1. n \in 1 .. 8 /\ m \in n .. 8 /\ n - 1 = 3 /\ m - 1 = 4 /\ a \in 0 .. n /\ n \in a .. n /\ m \in 1 .. 8
        /\ a = 0 /\ n = 4 /\ a \in 0 .. m
    OBVIOUS
  <2>2. res \in [0 .. 3 -> Word] /\ \A j \in 0 .. 3 : res[j] = q5[j]
    <3>1. \A j \in 0 .. 3 : j \in 0 .. 4
      OBVIOUS
    <3> HIDE DEF Word
    <3>2. QED
      BY <1>12, <3>1
  <2> HIDE DEF res, n, m, a
  <2>3. res \in [0 .. n - 1 -> Word] /\ q5 \in [0 .. m - 1 -> Word]
    BY <1>12, <2>1, <2>2
  <2>4. res \in [0 .. n - 1 -> Int] /\ q5 \in [0 .. m - 1 -> Int]
    BY <2>1, <2>3, LowRange
  <2>5. \A j \in a .. n - 1 : res[j] = q5[j]
    BY <2>1, <2>2
  <2>6. Low(res)[n] - Low(res)[a] = Low(q5)[n] - Low(q5)[a]
    BY <2>1, <2>4, <2>5, LowSame
  <2>7. /\ ToInt(res) = Low(res)[n] /\ Low(res)[a] = 0 /\ Low(q5)[a] = 0 /\ Low(res)[n] \in Int
    <3>1. n \in 0 .. n
      BY <2>1
    <3>2. ToInt(res) = Low(res)[n] /\ Low(res)[0] = 0 /\ \A k \in 0 .. n : Low(res)[k] \in Int
      BY <2>1, <2>4, LowIs
    <3>3. Low(q5)[0] = 0
      BY <2>1, <2>4, LowIs
    <3>4. QED
      BY <2>1, <3>1, <3>2, <3>3
  <2>8. L5 \in Int
    <3> HIDE DEF L5, T
    <3>1. QED
      BY <1>13, <1>20
  <2>9. ToInt(res) = L5
    <3> DEFINE A == Low(res)[n]
    <3>1. A \in Int /\ A - 0 = L5 - 0 /\ ToInt(res) = A
      BY <2>1, <2>6, <2>7
    <3> HIDE DEF A, L5
    <3>2. QED
      BY <2>8, <3>1
  <2>10. QED
    BY <2>2, <2>9 DEF Words
<1>24. Mul(x, y) = res
  BY DEF Mul, res, q0, q1, q2, q3, q4, q5, p1, p2, p3, p4, p5
<1>25. QED
  BY <1>20, <1>22, <1>23, <1>24

(* The value of eight numbers placed at eight words.                        *)
LEMMA EightSum ==
  ASSUME NEW z \in [0 .. 7 -> Int]
  PROVE  Low(z)[8] = z[0] + z[1] * Weight(1) + z[2] * Weight(2) + z[3] * Weight(3) + z[4] * Weight(4)
                       + z[5] * Weight(5) + z[6] * Weight(6) + z[7] * Weight(7)
<1> DEFINE n == 8
           L == Low(z)
<1>1. n \in 1 .. 8 /\ n - 1 = 7 /\ n = 8
  OBVIOUS
<1> HIDE DEF n
<1>2. z \in [0 .. n - 1 -> Int]
  BY <1>1
<1>3. L[0] = 0 /\ \A k \in 0 .. n - 1 : L[k + 1] = L[k] + z[k] * Weight(k)
  BY <1>1, <1>2, LowIs
<1> HIDE DEF L
<1>4. \A k \in 0 .. 7 : L[k + 1] = L[k] + z[k] * Weight(k)
  BY <1>1, <1>3
<1>5. /\ L[0 + 1] = L[0] + z[0] * Weight(0) /\ L[1 + 1] = L[1] + z[1] * Weight(1)
      /\ L[2 + 1] = L[2] + z[2] * Weight(2) /\ L[3 + 1] = L[3] + z[3] * Weight(3)
      /\ L[4 + 1] = L[4] + z[4] * Weight(4) /\ L[5 + 1] = L[5] + z[5] * Weight(5)
      /\ L[6 + 1] = L[6] + z[6] * Weight(6) /\ L[7 + 1] = L[7] + z[7] * Weight(7)
  BY <1>4
<1>6. 0 + 1 = 1 /\ 1 + 1 = 2 /\ 2 + 1 = 3 /\ 3 + 1 = 4 /\ 4 + 1 = 5 /\ 5 + 1 = 6 /\ 6 + 1 = 7 /\ 7 + 1 = 8
  OBVIOUS
<1>7. L[1] = z[0]
  <2>1. z[0] \in Int /\ Weight(0) = 1
    BY SmallWeights
  <2>2. QED
    BY <1>3, <1>5, <1>6, <2>1
<1>8. QED
  BY <1>5, <1>6, <1>7 DEF L

(* Products placed within eight words, as a sum.                            *)
LEMMA EightPlaced ==
  ASSUME NEW S \in SUBSET (0 .. 6), \A i \in S : i + 1 \notin S,
         NEW p \in [S -> 0 .. (W - 1) * (W - 1)]
  PROVE  LET z == PlacedAt(p, S)
         IN  ToInt(PlaceProducts(p)) = z[0] + z[1] * Weight(1) + z[2] * Weight(2) + z[3] * Weight(3)
               + z[4] * Weight(4) + z[5] * Weight(5) + z[6] * Weight(6) + z[7] * Weight(7)
<1> DEFINE z == PlacedAt(p, S)
<1>1. z \in [0 .. 7 -> Int] /\ ToInt(PlaceProducts(p)) = Low(z)[8]
  BY Placed
<1> HIDE DEF z
<1>2. Low(z)[8] = z[0] + z[1] * Weight(1) + z[2] * Weight(2) + z[3] * Weight(3) + z[4] * Weight(4)
                    + z[5] * Weight(5) + z[6] * Weight(6) + z[7] * Weight(7)
  BY <1>1, EightSum
<1>3. QED
  BY <1>1, <1>2 DEF z

(* Products of words are far below the second word after them.              *)
LEMMA ProductBelow ==
  ASSUME NEW v \in 0 .. (W - 1) * (W - 1), NEW w \in Nat \ {0}
  PROVE  v * w \in Nat /\ v * w <= W * (W * w) - 2 * (W * w) + w
<1>1. W \in Nat /\ W >= 8
  BY Weights
<1> DEFINE P == (W - 1) * (W - 1)
<1>2. P \in Nat /\ P = W * W - 2 * W + 1
  <2> HIDE DEF W
  <2> DEFINE V == W - 1
  <2>1. V \in Nat
    BY <1>1
  <2>2. V * V \in Nat
    <3> HIDE DEF V
    <3>1. QED
      BY <2>1
  <2>3. QED
    BY <1>1, <2>2
<1>3. v \in Nat /\ v <= P
  <2> HIDE DEF W, P
  <2>1. v \in 0 .. P
    BY DEF P
  <2>2. QED
    BY <1>2, <2>1
<1> HIDE DEF P, W
<1>4. v * w <= P * w /\ v * w \in Int /\ P * w \in Int
  BY <1>2, <1>3, Monotone
<1>5. v * w >= 0
  BY <1>3
<1>6. P * w = W * (W * w) - 2 * (W * w) + w
  BY <1>1, <1>2
<1>7. QED
  BY <1>4, <1>5, <1>6

(* The square of a number: each product of different words occurs twice.    *)
LEMMA Squared ==
  ASSUME NEW w \in Int, NEW x0 \in Int, NEW x1 \in Int, NEW x2 \in Int, NEW x3 \in Int
  PROVE  (x0 + w * (x1 + w * (x2 + w * x3))) * (x0 + w * (x1 + w * (x2 + w * x3)))
           = 2 * ((x0 * x3) * (w * (w * w)) + ((x0 * x2) * (w * w) + (x1 * x3) * (w * (w * (w * w))))
                  + ((x0 * x1) * w + (x1 * x2) * (w * (w * w)) + (x2 * x3) * (w * (w * (w * (w * w))))))
             + (x0 * x0 + (x1 * x1) * (w * w) + (x2 * x2) * (w * (w * (w * w)))
                + (x3 * x3) * (w * (w * (w * (w * (w * w))))))
OBVIOUS

(* Each weight from the one before.                                         *)
LEMMA AllWeights ==
  /\ W \in Nat /\ W >= 8 /\ Weight(0) = 1 /\ Weight(1) = W /\ Weight(2) = W * Weight(1)
  /\ Weight(3) = W * Weight(2) /\ Weight(4) = W * Weight(3) /\ Weight(5) = W * Weight(4)
  /\ Weight(6) = W * Weight(5) /\ Weight(7) = W * Weight(6) /\ Weight(8) = W * Weight(7)
  /\ Weight(1) \in Nat \ {0} /\ Weight(2) \in Nat \ {0} /\ Weight(3) \in Nat \ {0}
  /\ Weight(4) \in Nat \ {0} /\ Weight(5) \in Nat \ {0} /\ Weight(6) \in Nat \ {0}
  /\ Weight(7) \in Nat \ {0} /\ Weight(8) \in Nat \ {0}
<1>1. /\ W \in Nat /\ W >= 8 /\ Weight(0) = 1 /\ Weight(1) = W
      /\ (\A k \in 0 .. 7 : Weight(k + 1) = W * Weight(k)) /\ \A k \in 0 .. 8 : Weight(k) \in Nat \ {0}
  BY Weights
<1> HIDE DEF W
<1>2. /\ Weight(1 + 1) = W * Weight(1) /\ Weight(2 + 1) = W * Weight(2) /\ Weight(3 + 1) = W * Weight(3)
      /\ Weight(4 + 1) = W * Weight(4) /\ Weight(5 + 1) = W * Weight(5) /\ Weight(6 + 1) = W * Weight(6)
      /\ Weight(7 + 1) = W * Weight(7)
  BY <1>1
<1>3. 1 + 1 = 2 /\ 2 + 1 = 3 /\ 3 + 1 = 4 /\ 4 + 1 = 5 /\ 5 + 1 = 6 /\ 6 + 1 = 7 /\ 7 + 1 = 8
  OBVIOUS
<1>4. /\ Weight(1) \in Nat \ {0} /\ Weight(2) \in Nat \ {0} /\ Weight(3) \in Nat \ {0}
      /\ Weight(4) \in Nat \ {0} /\ Weight(5) \in Nat \ {0} /\ Weight(6) \in Nat \ {0}
      /\ Weight(7) \in Nat \ {0} /\ Weight(8) \in Nat \ {0}
  BY <1>1
<1>5. QED
  BY <1>1, <1>2, <1>3, <1>4

(* The sums of the products of different words stay below the words where   *)
(* their chains end.                                                        *)
LEMMA CrossBounds ==
  ASSUME NEW v1 \in 0 .. (W - 1) * (W - 1), NEW v2 \in 0 .. (W - 1) * (W - 1), NEW v3 \in 0 .. (W - 1) * (W - 1),
         NEW v4 \in 0 .. (W - 1) * (W - 1), NEW u3 \in 0 .. (W - 1) * (W - 1), NEW v5 \in 0 .. (W - 1) * (W - 1)
  PROVE  LET far == v3 * Weight(3) + (v2 * Weight(2) + v4 * Weight(4))
             near == v1 * Weight(1) + u3 * Weight(3) + v5 * Weight(5)
         IN  far \in Nat /\ near \in Nat /\ far < Weight(6) /\ far + near < Weight(7)
             /\ 2 * (far + near) < Weight(8)
<1> DEFINE a1 == v1 * Weight(1)
           a2 == v2 * Weight(2)
           a3 == v3 * Weight(3)
           a4 == v4 * Weight(4)
           b3 == u3 * Weight(3)
           a5 == v5 * Weight(5)
           w1 == Weight(1)
           w2 == Weight(2)
           w3 == Weight(3)
           w4 == Weight(4)
           w5 == Weight(5)
           w6 == Weight(6)
           w7 == Weight(7)
           w8 == Weight(8)
<1>1. /\ W \in Nat /\ W >= 8 /\ w2 = W * w1 /\ w3 = W * w2 /\ w4 = W * w3 /\ w5 = W * w4 /\ w6 = W * w5
      /\ w7 = W * w6 /\ w8 = W * w7
      /\ w1 \in Nat \ {0} /\ w2 \in Nat \ {0} /\ w3 \in Nat \ {0} /\ w4 \in Nat \ {0} /\ w5 \in Nat \ {0}
      /\ w6 \in Nat \ {0} /\ w7 \in Nat \ {0} /\ w8 \in Nat \ {0}
  BY AllWeights
<1> HIDE DEF W
<1>2. /\ a1 \in Nat /\ a1 <= W * (W * w1) - 2 * (W * w1) + w1
      /\ a2 \in Nat /\ a2 <= W * (W * w2) - 2 * (W * w2) + w2
      /\ a3 \in Nat /\ a3 <= W * (W * w3) - 2 * (W * w3) + w3
      /\ a4 \in Nat /\ a4 <= W * (W * w4) - 2 * (W * w4) + w4
      /\ b3 \in Nat /\ b3 <= W * (W * w3) - 2 * (W * w3) + w3
      /\ a5 \in Nat /\ a5 <= W * (W * w5) - 2 * (W * w5) + w5
  BY <1>1, ProductBelow
<1> HIDE DEF a1, a2, a3, a4, b3, a5, w1, w2, w3, w4, w5, w6, w7, w8
<1>3. /\ a1 <= w3 - 2 * w2 + w1 /\ a2 <= w4 - 2 * w3 + w2 /\ a3 <= w5 - 2 * w4 + w3 /\ a4 <= w6 - 2 * w5 + w4
      /\ b3 <= w5 - 2 * w4 + w3 /\ a5 <= w7 - 2 * w6 + w5
  BY <1>1, <1>2
<1>4. ASSUME NEW w \in Nat PROVE 8 * w <= W * w
  BY <1>1, Monotone
<1>5. /\ 8 * w1 <= w2 /\ 8 * w2 <= w3 /\ 8 * w3 <= w4 /\ 8 * w4 <= w5 /\ 8 * w5 <= w6 /\ 8 * w6 <= w7 /\ 8 * w7 <= w8
  BY <1>1, <1>4
<1>6. /\ a3 + (a2 + a4) \in Nat /\ a1 + b3 + a5 \in Nat /\ a3 + (a2 + a4) < w6
      /\ (a3 + (a2 + a4)) + (a1 + b3 + a5) < w7 /\ 2 * ((a3 + (a2 + a4)) + (a1 + b3 + a5)) < w8
  <2>1. /\ w1 \in Nat \ {0} /\ w2 \in Nat \ {0} /\ w3 \in Nat \ {0} /\ w4 \in Nat \ {0} /\ w5 \in Nat \ {0}
        /\ w6 \in Nat \ {0} /\ w7 \in Nat \ {0} /\ w8 \in Nat \ {0}
        /\ a1 \in Nat /\ a2 \in Nat /\ a3 \in Nat /\ a4 \in Nat /\ b3 \in Nat /\ a5 \in Nat
    BY <1>1, <1>2
  <2>2. QED
    BY <1>3, <1>5, <2>1
<1>7. QED
  BY <1>6 DEF a1, a2, a3, a4, b3, a5, w6, w7, w8

(* One chain of eight words that ends where nothing is carried any more.    *)
Exactly(r, v, lo, hi, q) ==
  r \in [0 .. 7 -> Word] /\ ToInt(r) = v /\ \A j \in 0 .. 7 : j \notin lo .. hi => r[j] = q[j]

(* A chain of eight words does so if the sum lies below its end.            *)
LEMMA AddEight ==
  ASSUME NEW q \in [0 .. 7 -> Word], NEW t \in [0 .. 7 -> Word],
         NEW lo \in 0 .. 7, NEW hi \in lo .. 7, \A j \in 0 .. 7 : j \notin lo .. hi => t[j] = 0,
         ToInt(q) + ToInt(t) < Weight(hi + 1)
  PROVE  Exactly(AddInto(q, lo, hi, t), ToInt(q) + ToInt(t), lo, hi, q)
<1> DEFINE n == 8
           r == AddInto(q, lo, hi, t)
<1>1. n \in 1 .. 8 /\ n - 1 = 7
  OBVIOUS
<1> HIDE DEF n
<1>2. q \in [0 .. n - 1 -> Word] /\ t \in [0 .. n - 1 -> Word] /\ lo \in 0 .. n - 1 /\ hi \in lo .. n - 1
      /\ \A j \in 0 .. n - 1 : j \notin lo .. hi => t[j] = 0
  BY <1>1
<1>3. Added(n, q, t, lo, hi, r)
  <2>1. LongEnough(n, q, t, lo, hi)
    BY <1>1, <1>2 DEF LongEnough
  <2>2. QED
    BY <2>1, AddExact
<1> HIDE DEF r
<1>4. Exactly(r, ToInt(q) + ToInt(t), lo, hi, q)
  BY <1>1, <1>3 DEF Exactly, Added
<1>5. QED
  BY <1>4 DEF r

(* Products placed at words that are given, and their value.                *)
PlacedFrom(t, lo, hi, v) ==
  t \in [0 .. 7 -> Word] /\ ToInt(t) = v /\ \A j \in 0 .. 7 : j \notin lo .. hi => t[j] = 0

(* The products of words that are two or three places apart.                *)
LEMMA SquareFar ==
  ASSUME NEW p \in [{3} -> 0 .. (W - 1) * (W - 1)], NEW s \in [{2, 4} -> 0 .. (W - 1) * (W - 1)]
  PROVE  /\ PlacedFrom(PlaceProducts(p), 3, 4, p[3] * Weight(3))
         /\ PlacedFrom(PlaceProducts(s), 2, 5, s[2] * Weight(2) + s[4] * Weight(4))
<1> DEFINE S == {3}
           R == {2, 4}
           z == PlacedAt(p, S)
           y == PlacedAt(s, R)
           tp == PlaceProducts(p)
           ts == PlaceProducts(s)
           V == 0 .. (W - 1) * (W - 1)
<1>1. /\ S \in SUBSET (0 .. 6) /\ (\A i \in S : i + 1 \notin S) /\ R \in SUBSET (0 .. 6) /\ (\A i \in R : i + 1 \notin R)
      /\ (\A j \in 0 .. 7 : j \notin 3 .. 4 => j \notin S /\ j - 1 \notin S)
      /\ (\A j \in 0 .. 7 : j \notin 2 .. 5 => j \notin R /\ j - 1 \notin R)
  OBVIOUS
<1>2. /\ z[0] = 0 /\ z[1] = 0 /\ z[2] = 0 /\ z[3] = p[3] /\ z[4] = 0 /\ z[5] = 0 /\ z[6] = 0 /\ z[7] = 0
      /\ y[0] = 0 /\ y[1] = 0 /\ y[2] = s[2] /\ y[3] = 0 /\ y[4] = s[4] /\ y[5] = 0 /\ y[6] = 0 /\ y[7] = 0
  BY DEF PlacedAt
<1>3. p[3] \in V /\ s[2] \in V /\ s[4] \in V /\ p \in [S -> V] /\ s \in [R -> V]
  OBVIOUS
<1> HIDE DEF S, R, z, y, tp, ts
<1>4. /\ tp \in [0 .. 7 -> Word] /\ (\A j \in 0 .. 7 : j \notin S /\ j - 1 \notin S => tp[j] = 0)
      /\ ts \in [0 .. 7 -> Word] /\ (\A j \in 0 .. 7 : j \notin R /\ j - 1 \notin R => ts[j] = 0)
  <2>1. tp \in [0 .. 7 -> Word] /\ \A j \in 0 .. 7 : j \notin S /\ j - 1 \notin S => tp[j] = 0
    BY <1>1, <1>3, Placed DEF tp
  <2>2. ts \in [0 .. 7 -> Word] /\ \A j \in 0 .. 7 : j \notin R /\ j - 1 \notin R => ts[j] = 0
    BY <1>1, <1>3, Placed DEF ts
  <2>3. QED
    BY <2>1, <2>2
<1>5. ToInt(tp) = z[0] + z[1] * Weight(1) + z[2] * Weight(2) + z[3] * Weight(3)
               + z[4] * Weight(4) + z[5] * Weight(5) + z[6] * Weight(6) + z[7] * Weight(7)
  BY <1>1, <1>3, EightPlaced DEF tp, z
<1>6. ToInt(ts) = y[0] + y[1] * Weight(1) + y[2] * Weight(2) + y[3] * Weight(3)
               + y[4] * Weight(4) + y[5] * Weight(5) + y[6] * Weight(6) + y[7] * Weight(7)
  BY <1>1, <1>3, EightPlaced DEF ts, y
<1>7. V \subseteq Int
  OBVIOUS
<1> HIDE DEF V
<1>8. ToInt(tp) = p[3] * Weight(3) /\ ToInt(ts) = s[2] * Weight(2) + s[4] * Weight(4)
  <2> DEFINE w1 == Weight(1)
             w2 == Weight(2)
             w3 == Weight(3)
             w4 == Weight(4)
             w5 == Weight(5)
             w6 == Weight(6)
             w7 == Weight(7)
             b3 == p[3]
             b2 == s[2]
             b4 == s[4]
  <2>1. /\ w1 \in Int /\ w2 \in Int /\ w3 \in Int /\ w4 \in Int /\ w5 \in Int /\ w6 \in Int /\ w7 \in Int
        /\ b3 \in Int /\ b2 \in Int /\ b4 \in Int
    BY <1>3, <1>7, AllWeights
  <2>2. /\ ToInt(tp) = 0 + 0 * w1 + 0 * w2 + b3 * w3 + 0 * w4 + 0 * w5 + 0 * w6 + 0 * w7
        /\ ToInt(ts) = 0 + 0 * w1 + b2 * w2 + 0 * w3 + b4 * w4 + 0 * w5 + 0 * w6 + 0 * w7
    BY <1>2, <1>5, <1>6
  <2> HIDE DEF w1, w2, w3, w4, w5, w6, w7, b3, b2, b4
  <2>3. 0 * w1 = 0 /\ 0 * w2 = 0 /\ 0 * w3 = 0 /\ 0 * w4 = 0 /\ 0 * w5 = 0 /\ 0 * w6 = 0 /\ 0 * w7 = 0
    BY <2>1
  <2>4. b3 * w3 \in Int /\ b2 * w2 \in Int /\ b4 * w4 \in Int
    BY <2>1
  <2> DEFINE c3 == b3 * w3
             c2 == b2 * w2
             c4 == b4 * w4
  <2>5. ToInt(tp) = 0 + 0 + 0 + c3 + 0 + 0 + 0 + 0 /\ ToInt(ts) = 0 + 0 + c2 + 0 + c4 + 0 + 0 + 0
    BY <2>2, <2>3
  <2>6. c3 \in Int /\ c2 \in Int /\ c4 \in Int
    BY <2>4
  <2> HIDE DEF c3, c2, c4
  <2>7. ToInt(tp) = c3 /\ ToInt(ts) = c2 + c4
    BY <2>5, <2>6
  <2>8. QED
    BY <2>7 DEF c3, c2, c4, w2, w3, w4, b2, b3, b4
<1>9. PlacedFrom(tp, 3, 4, p[3] * Weight(3))
  BY <1>1, <1>4, <1>8 DEF PlacedFrom
<1>10. PlacedFrom(ts, 2, 5, s[2] * Weight(2) + s[4] * Weight(4))
  BY <1>1, <1>4, <1>8 DEF PlacedFrom
<1>11. QED
  BY <1>9, <1>10 DEF tp, ts

(* The products of neighbouring words.                                      *)
LEMMA SquareNear ==
  ASSUME NEW p \in [{1, 3, 5} -> 0 .. (W - 1) * (W - 1)]
  PROVE  PlacedFrom(PlaceProducts(p), 1, 6, p[1] * Weight(1) + p[3] * Weight(3) + p[5] * Weight(5))
<1> DEFINE S == {1, 3, 5}
           z == PlacedAt(p, S)
           tp == PlaceProducts(p)
           V == 0 .. (W - 1) * (W - 1)
<1>1. /\ S \in SUBSET (0 .. 6) /\ (\A i \in S : i + 1 \notin S)
      /\ (\A j \in 0 .. 7 : j \notin 1 .. 6 => j \notin S /\ j - 1 \notin S)
  OBVIOUS
<1>2. /\ z[0] = 0 /\ z[1] = p[1] /\ z[2] = 0 /\ z[3] = p[3] /\ z[4] = 0 /\ z[5] = p[5] /\ z[6] = 0 /\ z[7] = 0
  BY DEF PlacedAt
<1>3. p[1] \in V /\ p[3] \in V /\ p[5] \in V /\ p \in [S -> V]
  OBVIOUS
<1> HIDE DEF S, z, tp
<1>4. tp \in [0 .. 7 -> Word] /\ \A j \in 0 .. 7 : j \notin S /\ j - 1 \notin S => tp[j] = 0
  BY <1>1, <1>3, Placed DEF tp
<1>5. ToInt(tp) = z[0] + z[1] * Weight(1) + z[2] * Weight(2) + z[3] * Weight(3)
               + z[4] * Weight(4) + z[5] * Weight(5) + z[6] * Weight(6) + z[7] * Weight(7)
  BY <1>1, <1>3, EightPlaced DEF tp, z
<1>6. V \subseteq Int
  OBVIOUS
<1> HIDE DEF V
<1>7. ToInt(tp) = p[1] * Weight(1) + p[3] * Weight(3) + p[5] * Weight(5)
  <2> DEFINE w1 == Weight(1)
             w2 == Weight(2)
             w3 == Weight(3)
             w4 == Weight(4)
             w5 == Weight(5)
             w6 == Weight(6)
             w7 == Weight(7)
             b1 == p[1]
             b3 == p[3]
             b5 == p[5]
  <2>1. /\ w1 \in Int /\ w2 \in Int /\ w3 \in Int /\ w4 \in Int /\ w5 \in Int /\ w6 \in Int /\ w7 \in Int
        /\ b3 \in Int /\ b1 \in Int /\ b5 \in Int
    BY <1>3, <1>6, AllWeights
  <2>2. ToInt(tp) = 0 + b1 * w1 + 0 * w2 + b3 * w3 + 0 * w4 + b5 * w5 + 0 * w6 + 0 * w7
    BY <1>2, <1>5
  <2> HIDE DEF w1, w2, w3, w4, w5, w6, w7, b3, b1, b5
  <2>3. 0 * w2 = 0 /\ 0 * w4 = 0 /\ 0 * w6 = 0 /\ 0 * w7 = 0
    BY <2>1
  <2>4. b3 * w3 \in Int /\ b1 * w1 \in Int /\ b5 * w5 \in Int
    BY <2>1
  <2> DEFINE c3 == b3 * w3
             c1 == b1 * w1
             c5 == b5 * w5
  <2>5. ToInt(tp) = 0 + c1 + 0 + c3 + 0 + c5 + 0 + 0
    BY <2>2, <2>3
  <2>6. c3 \in Int /\ c1 \in Int /\ c5 \in Int
    BY <2>4
  <2> HIDE DEF c3, c1, c5
  <2>7. ToInt(tp) = c1 + c3 + c5
    BY <2>5, <2>6
  <2>8. QED
    BY <2>7 DEF c3, c1, c5, w1, w3, w5, b1, b3, b5
<1>8. PlacedFrom(tp, 1, 6, p[1] * Weight(1) + p[3] * Weight(3) + p[5] * Weight(5))
  BY <1>1, <1>4, <1>7 DEF PlacedFrom
<1>9. QED
  BY <1>8 DEF tp

(* The squares of the words.                                                *)
LEMMA SquareSquares ==
  ASSUME NEW p \in [{0, 2, 4, 6} -> 0 .. (W - 1) * (W - 1)]
  PROVE  PlacedFrom(PlaceProducts(p), 0, 7, p[0] + p[2] * Weight(2) + p[4] * Weight(4) + p[6] * Weight(6))
<1> DEFINE S == {0, 2, 4, 6}
           z == PlacedAt(p, S)
           tp == PlaceProducts(p)
           V == 0 .. (W - 1) * (W - 1)
<1>1. S \in SUBSET (0 .. 6) /\ (\A i \in S : i + 1 \notin S) /\ (\A j \in 0 .. 7 : ~(j \notin 0 .. 7))
  OBVIOUS
<1>2. /\ z[0] = p[0] /\ z[1] = 0 /\ z[2] = p[2] /\ z[3] = 0 /\ z[4] = p[4] /\ z[5] = 0 /\ z[6] = p[6] /\ z[7] = 0
  BY DEF PlacedAt
<1>3. p[0] \in V /\ p[2] \in V /\ p[4] \in V /\ p[6] \in V /\ p \in [S -> V]
  OBVIOUS
<1> HIDE DEF S, z, tp
<1>4. tp \in [0 .. 7 -> Word]
  BY <1>1, <1>3, Placed DEF tp
<1>5. ToInt(tp) = z[0] + z[1] * Weight(1) + z[2] * Weight(2) + z[3] * Weight(3)
               + z[4] * Weight(4) + z[5] * Weight(5) + z[6] * Weight(6) + z[7] * Weight(7)
  BY <1>1, <1>3, EightPlaced DEF tp, z
<1>6. V \subseteq Int
  OBVIOUS
<1> HIDE DEF V
<1>7. ToInt(tp) = p[0] + p[2] * Weight(2) + p[4] * Weight(4) + p[6] * Weight(6)
  <2> DEFINE w1 == Weight(1)
             w2 == Weight(2)
             w3 == Weight(3)
             w4 == Weight(4)
             w5 == Weight(5)
             w6 == Weight(6)
             w7 == Weight(7)
             b0 == p[0]
             b2 == p[2]
             b4 == p[4]
             b6 == p[6]
  <2>1. /\ w1 \in Int /\ w2 \in Int /\ w3 \in Int /\ w4 \in Int /\ w5 \in Int /\ w6 \in Int /\ w7 \in Int
        /\ b0 \in Int /\ b2 \in Int /\ b4 \in Int /\ b6 \in Int
    BY <1>3, <1>6, AllWeights
  <2>2. ToInt(tp) = b0 + 0 * w1 + b2 * w2 + 0 * w3 + b4 * w4 + 0 * w5 + b6 * w6 + 0 * w7
    BY <1>2, <1>5
  <2> HIDE DEF w1, w2, w3, w4, w5, w6, w7, b0, b2, b4, b6
  <2>3. 0 * w1 = 0 /\ 0 * w3 = 0 /\ 0 * w5 = 0 /\ 0 * w7 = 0
    BY <2>1
  <2>4. b2 * w2 \in Int /\ b4 * w4 \in Int /\ b6 * w6 \in Int
    BY <2>1
  <2> DEFINE c2 == b2 * w2
             c4 == b4 * w4
             c6 == b6 * w6
  <2>5. ToInt(tp) = b0 + 0 + c2 + 0 + c4 + 0 + c6 + 0
    BY <2>2, <2>3
  <2>6. c2 \in Int /\ c4 \in Int /\ c6 \in Int
    BY <2>4
  <2> HIDE DEF c2, c4, c6
  <2>7. ToInt(tp) = b0 + c2 + c4 + c6
    BY <2>1, <2>5, <2>6
  <2>8. QED
    BY <2>7 DEF c2, c4, c6, w2, w4, w6, b0, b2, b4, b6
<1>8. PlacedFrom(tp, 0, 7, p[0] + p[2] * Weight(2) + p[4] * Weight(4) + p[6] * Weight(6))
  BY <1>1, <1>4, <1>7 DEF PlacedFrom
<1>9. QED
  BY <1>8 DEF tp

(* The square, with the products of different words added once and doubled. *)
LEMMA LongSquareRight ==
  ASSUME NEW x \in Words
  PROVE  LongSquare(x) \in [0 .. 7 -> Word] /\ ToInt(LongSquare(x)) = ToInt(x) * ToInt(x)
<1> DEFINE pf == [p \in {3} |-> x[0] * x[3]]
           ps == [p \in {2, 4} |-> x[p \div 2 - 1] * x[p \div 2 + 1]]
           pn == [p \in {1, 3, 5} |-> x[(p - 1) \div 2] * x[(p + 1) \div 2]]
           pq == [p \in {0, 2, 4, 6} |-> x[p \div 2] * x[p \div 2]]
           tf == PlaceProducts(pf)
           ts == PlaceProducts(ps)
           tn == PlaceProducts(pn)
           tq == PlaceProducts(pq)
           far == AddInto(tf, 2, 5, ts)
           cross == AddInto(far, 1, 6, tn)
           doubled == AddInto(cross, 1, 7, cross)
           square == AddInto(doubled, 0, 7, tq)
           V == 0 .. (W - 1) * (W - 1)
           X == ToInt(x)
           x0 == x[0]
           x1 == x[1]
           x2 == x[2]
           x3 == x[3]
<1>1. \A i \in 0 .. 3, j \in 0 .. 3 : x[i] * x[j] \in V
  <2> TAKE i \in 0 .. 3, j \in 0 .. 3
  <2> DEFINE a == x[i]
             b == x[j]
  <2>1. a \in Word /\ b \in Word
    BY DEF Words
  <2> HIDE DEF a, b, W
  <2>2. a * b \in V
    BY <2>1, Factors
  <2>3. QED
    BY <2>2 DEF a, b
<1> HIDE DEF V
<1>2. 0 \in 0 .. 3 /\ 1 \in 0 .. 3 /\ 2 \in 0 .. 3 /\ 3 \in 0 .. 3
  OBVIOUS
<1>3. pf[3] = x0 * x3 /\ pf \in [{3} -> V]
  <2>1. x[0] * x[3] \in V
    BY <1>1, <1>2
  <2>2. QED
    BY <2>1
<1>4. ps[2] = x0 * x2 /\ ps[4] = x1 * x3 /\ ps \in [{2, 4} -> V]
  <2>1. 2 \div 2 - 1 = 0 /\ 2 \div 2 + 1 = 2 /\ 4 \div 2 - 1 = 1 /\ 4 \div 2 + 1 = 3
    OBVIOUS
  <2>2. ps[2] = x[2 \div 2 - 1] * x[2 \div 2 + 1] /\ ps[4] = x[4 \div 2 - 1] * x[4 \div 2 + 1]
    OBVIOUS
  <2>3. ps = [p \in {2, 4} |-> ps[p]]
    OBVIOUS
  <2> HIDE DEF ps
  <2>4. ps[2] = x[0] * x[2] /\ ps[4] = x[1] * x[3]
    BY <2>1, <2>2
  <2>5. ps[2] \in V /\ ps[4] \in V
    BY <1>1, <1>2, <2>4
  <2>6. QED
    BY <2>3, <2>4, <2>5
<1>5. pn[1] = x0 * x1 /\ pn[3] = x1 * x2 /\ pn[5] = x2 * x3 /\ pn \in [{1, 3, 5} -> V]
  <2>1. /\ (1 - 1) \div 2 = 0 /\ (1 + 1) \div 2 = 1 /\ (3 - 1) \div 2 = 1 /\ (3 + 1) \div 2 = 2
        /\ (5 - 1) \div 2 = 2 /\ (5 + 1) \div 2 = 3
    OBVIOUS
  <2>2. /\ pn[1] = x[(1 - 1) \div 2] * x[(1 + 1) \div 2] /\ pn[3] = x[(3 - 1) \div 2] * x[(3 + 1) \div 2]
        /\ pn[5] = x[(5 - 1) \div 2] * x[(5 + 1) \div 2]
    OBVIOUS
  <2>3. pn = [p \in {1, 3, 5} |-> pn[p]]
    OBVIOUS
  <2> HIDE DEF pn
  <2>4. pn[1] = x[0] * x[1] /\ pn[3] = x[1] * x[2] /\ pn[5] = x[2] * x[3]
    BY <2>1, <2>2
  <2>5. pn[1] \in V /\ pn[3] \in V /\ pn[5] \in V
    BY <1>1, <1>2, <2>4
  <2>6. QED
    BY <2>3, <2>4, <2>5
<1>6. pq[0] = x0 * x0 /\ pq[2] = x1 * x1 /\ pq[4] = x2 * x2 /\ pq[6] = x3 * x3 /\ pq \in [{0, 2, 4, 6} -> V]
  <2>1. 0 \div 2 = 0 /\ 2 \div 2 = 1 /\ 4 \div 2 = 2 /\ 6 \div 2 = 3
    OBVIOUS
  <2>2. /\ pq[0] = x[0 \div 2] * x[0 \div 2] /\ pq[2] = x[2 \div 2] * x[2 \div 2]
        /\ pq[4] = x[4 \div 2] * x[4 \div 2] /\ pq[6] = x[6 \div 2] * x[6 \div 2]
    OBVIOUS
  <2>3. pq = [p \in {0, 2, 4, 6} |-> pq[p]]
    OBVIOUS
  <2> HIDE DEF pq
  <2>4. pq[0] = x[0] * x[0] /\ pq[2] = x[1] * x[1] /\ pq[4] = x[2] * x[2] /\ pq[6] = x[3] * x[3]
    BY <2>1, <2>2
  <2>5. pq[0] \in V /\ pq[2] \in V /\ pq[4] \in V /\ pq[6] \in V
    BY <1>1, <1>2, <2>4
  <2>6. QED
    BY <2>3, <2>4, <2>5
<1> HIDE DEF pf, ps, pn, pq
<1> DEFINE vf == pf[3] * Weight(3)
           vs == ps[2] * Weight(2) + ps[4] * Weight(4)
           vn == pn[1] * Weight(1) + pn[3] * Weight(3) + pn[5] * Weight(5)
           vq == pq[0] + pq[2] * Weight(2) + pq[4] * Weight(4) + pq[6] * Weight(6)
<1>7. PlacedFrom(tf, 3, 4, vf) /\ PlacedFrom(ts, 2, 5, vs)
  BY <1>3, <1>4, SquareFar DEF V
<1>8. PlacedFrom(tn, 1, 6, vn)
  BY <1>5, SquareNear DEF V
<1>9. PlacedFrom(tq, 0, 7, vq)
  BY <1>6, SquareSquares DEF V
<1> HIDE DEF tf, ts, tn, tq
<1>10. /\ vf + vs \in Nat /\ vn \in Nat /\ vf + vs < Weight(6) /\ (vf + vs) + vn < Weight(7)
       /\ 2 * ((vf + vs) + vn) < Weight(8)
  <2> DEFINE v1 == pn[1]
             v2 == ps[2]
             v3 == pf[3]
             v4 == ps[4]
             u3 == pn[3]
             v5 == pn[5]
  <2>1. /\ v1 \in 0 .. (W - 1) * (W - 1) /\ v2 \in 0 .. (W - 1) * (W - 1) /\ v3 \in 0 .. (W - 1) * (W - 1)
        /\ v4 \in 0 .. (W - 1) * (W - 1) /\ u3 \in 0 .. (W - 1) * (W - 1) /\ v5 \in 0 .. (W - 1) * (W - 1)
    <3>1. v1 \in V /\ v2 \in V /\ v3 \in V /\ v4 \in V /\ u3 \in V /\ v5 \in V
      BY <1>3, <1>4, <1>5
    <3>2. QED
      BY <3>1 DEF V
  <2> HIDE DEF v1, v2, v3, v4, u3, v5
  <2> DEFINE f == v3 * Weight(3) + (v2 * Weight(2) + v4 * Weight(4))
             g == v1 * Weight(1) + u3 * Weight(3) + v5 * Weight(5)
  <2>2. f \in Nat /\ g \in Nat /\ f < Weight(6) /\ f + g < Weight(7) /\ 2 * (f + g) < Weight(8)
    BY <2>1, CrossBounds
  <2>3. f = vf + vs /\ g = vn
    BY DEF v1, v2, v3, v4, u3, v5
  <2> HIDE DEF f, g, vf, vs, vn
  <2>4. QED
    BY <2>2, <2>3
<1> HIDE DEF vf, vs, vn, vq
<1>11. ASSUME NEW q \in [0 .. 7 -> Word], NEW t \in [0 .. 7 -> Word],
              NEW lo \in 0 .. 7, NEW hi \in lo .. 7, \A j \in 0 .. 7 : j \notin lo .. hi => t[j] = 0,
              NEW k, k = hi + 1, ToInt(q) + ToInt(t) < Weight(k)
       PROVE  Exactly(AddInto(q, lo, hi, t), ToInt(q) + ToInt(t), lo, hi, q)
  BY <1>11, AddEight
<1>12. Exactly(far, vf + vs, 2, 5, tf)
  <2>1. 2 \in 0 .. 7 /\ 5 \in 2 .. 7 /\ 6 = 5 + 1
    OBVIOUS
  <2>2. /\ tf \in [0 .. 7 -> Word] /\ ts \in [0 .. 7 -> Word] /\ ToInt(tf) = vf /\ ToInt(ts) = vs
        /\ \A j \in 0 .. 7 : j \notin 2 .. 5 => ts[j] = 0
    BY <1>7 DEF PlacedFrom
  <2>3. ToInt(tf) + ToInt(ts) < Weight(6)
    BY <1>10, <2>2
  <2>4. Exactly(AddInto(tf, 2, 5, ts), ToInt(tf) + ToInt(ts), 2, 5, tf)
    BY <1>11, <2>1, <2>2, <2>3
  <2>5. QED
    BY <2>2, <2>4
<1> HIDE DEF far
<1>13. far \in [0 .. 7 -> Word] /\ ToInt(far) = vf + vs /\ far[0] = 0
  <2>1. tf[0] = 0
    <3>1. 0 \in 0 .. 7 /\ 0 \notin 3 .. 4
      OBVIOUS
    <3>2. QED
      BY <1>7, <3>1 DEF PlacedFrom
  <2>2. 0 \in 0 .. 7 /\ 0 \notin 2 .. 5
    OBVIOUS
  <2>3. QED
    BY <1>12, <2>1, <2>2 DEF Exactly
<1>14. Exactly(cross, (vf + vs) + vn, 1, 6, far)
  <2>1. 1 \in 0 .. 7 /\ 6 \in 1 .. 7 /\ 7 = 6 + 1
    OBVIOUS
  <2>2. /\ tn \in [0 .. 7 -> Word] /\ ToInt(tn) = vn /\ \A j \in 0 .. 7 : j \notin 1 .. 6 => tn[j] = 0
    BY <1>8 DEF PlacedFrom
  <2>3. ToInt(far) + ToInt(tn) < Weight(7)
    BY <1>10, <1>13, <2>2
  <2>4. Exactly(AddInto(far, 1, 6, tn), ToInt(far) + ToInt(tn), 1, 6, far)
    BY <1>11, <1>13, <2>1, <2>2, <2>3
  <2>5. QED
    BY <1>13, <2>2, <2>4
<1> HIDE DEF cross
<1>15. cross \in [0 .. 7 -> Word] /\ ToInt(cross) = (vf + vs) + vn /\ cross[0] = 0
  <2>1. 0 \in 0 .. 7 /\ 0 \notin 1 .. 6
    OBVIOUS
  <2>2. QED
    BY <1>13, <1>14, <2>1 DEF Exactly
<1>16. doubled \in [0 .. 7 -> Word] /\ ToInt(doubled) = 2 * ((vf + vs) + vn)
  <2>1. 1 \in 0 .. 7 /\ 7 \in 1 .. 7 /\ 8 = 7 + 1 /\ \A j \in 0 .. 7 : j \notin 1 .. 7 => j = 0
    OBVIOUS
  <2>2. \A j \in 0 .. 7 : j \notin 1 .. 7 => cross[j] = 0
    BY <1>15, <2>1
  <2>3. ToInt(cross) + ToInt(cross) = 2 * ((vf + vs) + vn)
    <3> DEFINE c == (vf + vs) + vn
    <3>1. c \in Nat /\ ToInt(cross) = c
      BY <1>10, <1>15
    <3> HIDE DEF c
    <3>2. ToInt(cross) + ToInt(cross) = 2 * c
      BY <3>1
    <3>3. QED
      BY <3>2 DEF c
  <2>4. ToInt(cross) + ToInt(cross) < Weight(8)
    BY <1>10, <2>3
  <2>5. Exactly(AddInto(cross, 1, 7, cross), ToInt(cross) + ToInt(cross), 1, 7, cross)
    BY <1>11, <1>15, <2>1, <2>2, <2>4
  <2>6. QED
    BY <2>3, <2>5 DEF Exactly
<1> HIDE DEF doubled
<1>17. X * X = 2 * ((vf + vs) + vn) + vq
  <2>1. /\ x0 \in Int /\ x1 \in Int /\ x2 \in Int /\ x3 \in Int /\ W \in Int
    <3>1. Word \subseteq Int /\ W \in Int
      <4>1. W \in Nat
        BY Weights
      <4> HIDE DEF W
      <4>2. QED
        BY <4>1 DEF Word
    <3>2. \A j \in 0 .. 3 : x[j] \in Word
      BY DEF Words
    <3> HIDE DEF Word, W
    <3>3. QED
      BY <1>2, <3>1, <3>2
  <2>2. X = x0 + W * (x1 + W * (x2 + W * x3))
    BY ToIntRight DEF Words, Joined
  <2> HIDE DEF W, x0, x1, x2, x3, X
  <2> DEFINE E(w) == 2 * ((x0 * x3) * (w * (w * w)) + ((x0 * x2) * (w * w) + (x1 * x3) * (w * (w * (w * w))))
                  + ((x0 * x1) * w + (x1 * x2) * (w * (w * w)) + (x2 * x3) * (w * (w * (w * (w * w))))))
             + (x0 * x0 + (x1 * x1) * (w * w) + (x2 * x2) * (w * (w * (w * w)))
                + (x3 * x3) * (w * (w * (w * (w * (w * w))))))
  <2>3. (x0 + W * (x1 + W * (x2 + W * x3))) * (x0 + W * (x1 + W * (x2 + W * x3))) = E(W)
    BY <2>1, Squared
  <2>4. E(W) = 2 * ((vf + vs) + vn) + vq
    <3>1. /\ Weight(1) = W /\ Weight(2) = W * W /\ Weight(3) = W * (W * W) /\ Weight(4) = W * (W * (W * W))
          /\ Weight(5) = W * (W * (W * (W * W))) /\ Weight(6) = W * (W * (W * (W * (W * W))))
      BY AllWeights
    <3>2. /\ vf = (x0 * x3) * (W * (W * W)) /\ vs = (x0 * x2) * (W * W) + (x1 * x3) * (W * (W * (W * W)))
          /\ vn = (x0 * x1) * W + (x1 * x2) * (W * (W * W)) + (x2 * x3) * (W * (W * (W * (W * W))))
          /\ vq = x0 * x0 + (x1 * x1) * (W * W) + (x2 * x2) * (W * (W * (W * W)))
                + (x3 * x3) * (W * (W * (W * (W * (W * W)))))
      BY <1>3, <1>4, <1>5, <1>6, <3>1 DEF vf, vs, vn, vq
    <3>3. QED
      BY <3>2
  <2> HIDE DEF E
  <2>5. QED
    BY <2>2, <2>3, <2>4
<1>18. X * X < Weight(8)
  <2> DEFINE w4 == Weight(4)
  <2>1. X \in 0 .. w4 - 1
    <3> DEFINE m == 4
    <3>1. m \in 1 .. 8 /\ x \in [0 .. m - 1 -> Word] /\ m = 4
      BY DEF Words
    <3> HIDE DEF m
    <3>2. X \in 0 .. Weight(m) - 1
      BY <3>1, WordsAreNumbers
    <3>3. QED
      BY <3>1, <3>2
  <2>2. w4 \in Nat \ {0} /\ Weight(8) = w4 * w4
    <3>1. /\ W \in Nat /\ w4 = W * (W * (W * W)) /\ Weight(8) = W * (W * (W * (W * w4))) /\ w4 \in Nat \ {0}
      BY AllWeights
    <3> HIDE DEF W, w4
    <3>2. W * (W * (W * (W * w4))) = (W * (W * (W * W))) * w4
      BY <3>1
    <3>3. QED
      BY <3>1, <3>2
  <2> HIDE DEF w4, X
  <2>3. X \in Nat /\ X <= w4 /\ X <= w4 - 1
    BY <2>1, <2>2
  <2>4. X * X <= w4 * X /\ X * X \in Int /\ w4 * X \in Int
    BY <2>2, <2>3, Monotone
  <2>5. w4 * X <= w4 * (w4 - 1)
    <3>1. w4 - 1 \in Int
      BY <2>2
    <3>2. QED
      BY <2>2, <2>3, <3>1, Monotone
  <2>6. w4 * (w4 - 1) = w4 * w4 - w4 /\ w4 * w4 \in Int
    BY <2>2
  <2>7. QED
    BY <2>2, <2>4, <2>5, <2>6
<1> HIDE DEF X
<1>19. square \in [0 .. 7 -> Word] /\ ToInt(square) = X * X
  <2>1. 0 \in 0 .. 7 /\ 7 \in 0 .. 7 /\ 8 = 7 + 1
    OBVIOUS
  <2>2. tq \in [0 .. 7 -> Word] /\ ToInt(tq) = vq /\ \A j \in 0 .. 7 : j \notin 0 .. 7 => tq[j] = 0
    BY <1>9 DEF PlacedFrom
  <2>3. ToInt(doubled) + ToInt(tq) = X * X
    BY <1>16, <1>17, <2>2
  <2>4. ToInt(doubled) + ToInt(tq) < Weight(8)
    BY <1>18, <2>3
  <2>5. Exactly(AddInto(doubled, 0, 7, tq), ToInt(doubled) + ToInt(tq), 0, 7, doubled)
    BY <1>11, <1>16, <2>1, <2>2, <2>4
  <2>6. QED
    BY <2>3, <2>5 DEF Exactly
<1>20. LongSquare(x) = square
  BY DEF LongSquare, square, doubled, cross, far, tf, ts, tn, tq, pf, ps, pn, pq
<1> HIDE DEF square
<1>21. QED
  BY <1>19, <1>20 DEF X

-----------------------------------------------------------------------------
(* Differences.                                                             *)

(* Each word of a difference and its borrow are what was subtracted.        *)
LEMMA BorrowStep ==
  ASSUME NEW a \in Word, NEW b \in Word, NEW c \in {0, 1}
  PROVE  LET d == a - b - c
         IN  /\ d % W \in Word /\ d = (d % W) - W * (IF d >= 0 THEN 0 ELSE 1)
<1>1. W \in Nat /\ W >= 8 /\ a \in 0 .. W - 1 /\ b \in 0 .. W - 1 /\ Word = 0 .. W - 1
  BY Weights DEF Word
<1> DEFINE d == a - b - c
<1> HIDE DEF W, Word
<1>2. d \in Int /\ -W <= d /\ d < W
  BY <1>1
<1> HIDE DEF d
<1>3. CASE d >= 0
  <2>1. d \in 0 .. W - 1 /\ W * 0 + d = d /\ W \in Nat \ {0} /\ 0 \in Int
    BY <1>1, <1>2, <1>3
  <2>2. (W * 0 + d) % W = d
    BY <2>1, DivisionUnique
  <2>3. d % W \in Word /\ d = (d % W) - W * 0
    BY <1>1, <2>1, <2>2
  <2>4. QED
    BY <1>3, <2>3 DEF d
<1>4. CASE ~(d >= 0)
  <2> DEFINE e == d + W
             m == -1
  <2>1. e \in 0 .. W - 1 /\ W * m + e = d /\ W \in Nat \ {0} /\ m \in Int /\ d = e - W * 1
    BY <1>1, <1>2, <1>4
  <2> HIDE DEF e, m
  <2>2. (W * m + e) % W = e
    BY <2>1, DivisionUnique
  <2>3. d % W \in Word /\ d = (d % W) - W * 1
    BY <1>1, <2>1, <2>2
  <2>4. QED
    BY <1>4, <2>3 DEF d
<1>5. QED
  BY <1>3, <1>4

(* c are the borrows of x - y.                                              *)
BorrowsAre(c, x, y) ==
  /\ c[0] = 0 /\ \A j \in 0 .. 4 : c[j] \in {0, 1}
  /\ \A j \in 0 .. 3 : c[j + 1] = IF x[j] - y[j] - c[j] >= 0 THEN 0 ELSE 1

(* The borrows of the code are these.                                       *)
LEMMA BorrowsRight ==
  ASSUME NEW x \in Words, NEW y \in Words
  PROVE  BorrowsAre(Borrows(x, y), x, y)
<1> DEFINE out(j, v) == IF x[j - 1] - y[j - 1] - v >= 0 THEN 0 ELSE 1
           Is(f) == f = [i \in 0 .. 4 |-> IF i = 0 \/ x[i - 1] - y[i - 1] - f[i - 1] >= 0 THEN 0 ELSE 1]
           B == {0, 1}
           G == [jv \in (1 .. 4) \X B |-> out(jv[1], jv[2])]
           c == Borrows(x, y)
<1>1. \A j \in 1 .. 4, v \in B : out(j, v) \in B /\ G[<<j, v>>] = out(j, v)
  <2> TAKE j \in 1 .. 4, v \in B
  <2>1. <<j, v>> \in (1 .. 4) \X B /\ <<j, v>>[1] = j /\ <<j, v>>[2] = v
    OBVIOUS
  <2>2. G[<<j, v>>] = out(j, v)
    <3> HIDE DEF out, B
    <3>1. QED
      BY <2>1
  <2>3. QED
    BY <2>2
<1> HIDE DEF G
<1>2. \E f : Is(f)
  <2> DEFINE lo == 0
             hi == 4
  <2>1. lo \in Int /\ hi \in Int /\ lo <= hi /\ 0 \in B /\ (\A j \in lo + 1 .. hi : j \in 1 .. 4) /\ lo = 0 /\ hi = 4
        /\ \A j \in 1 .. 4 : j \in lo + 1 .. hi
    OBVIOUS
  <2> HIDE DEF lo, hi
  <2>2. \A j \in lo + 1 .. hi, v \in B : G[<<j, v>>] \in B
    <3> HIDE DEF B, out
    <3>1. QED
      BY <1>1, <2>1
  <2> HIDE DEF B, out
  <2>3. PICK f \in [lo .. hi -> B] : Recursion(f, lo, hi, 0, G)
    BY <2>1, <2>2, RecursionExists
  <2>4. f \in [0 .. 4 -> B] /\ f[0] = 0 /\ \A j \in 1 .. 4 : f[j] = G[<<j, f[j - 1]>>]
    BY <2>1, <2>3 DEF Recursion
  <2>5. ASSUME NEW i \in 0 .. 4
        PROVE  f[i] = IF i = 0 \/ x[i - 1] - y[i - 1] - f[i - 1] >= 0 THEN 0 ELSE 1
    <3>1. CASE i = 0
      BY <2>4, <3>1
    <3>2. CASE i # 0
      <4>1. i \in 1 .. 4 /\ i - 1 \in 0 .. 4
        BY <3>2
      <4>2. f[i] = G[<<i, f[i - 1]>>] /\ f[i - 1] \in B
        BY <2>4, <4>1
      <4>3. f[i] = out(i, f[i - 1])
        BY <1>1, <4>1, <4>2
      <4>4. QED
        BY <3>2, <4>3 DEF out
    <3>3. QED
      BY <3>1, <3>2
  <2>6. f = [i \in 0 .. 4 |-> f[i]]
    BY <2>4
  <2>7. Is(f)
    BY <2>5, <2>6
  <2>8. QED
    BY <2>7
<1>3. Is(c)
  BY <1>2 DEF Borrows
<1> HIDE DEF c
<1>4. \A i \in 0 .. 4 : c[i] = IF i = 0 \/ x[i - 1] - y[i - 1] - c[i - 1] >= 0 THEN 0 ELSE 1
  BY <1>3
<1> HIDE DEF Is
<1>5. c[0] = 0 /\ \A j \in 0 .. 4 : c[j] \in {0, 1}
  BY <1>4
<1>6. \A j \in 0 .. 3 : c[j + 1] = IF x[j] - y[j] - c[j] >= 0 THEN 0 ELSE 1
  <2> TAKE j \in 0 .. 3
  <2>1. j + 1 \in 0 .. 4 /\ j + 1 # 0 /\ (j + 1) - 1 = j
    OBVIOUS
  <2>2. QED
    BY <1>4, <2>1
<1>7. QED
  BY <1>5, <1>6 DEF c, BorrowsAre

(* Four words and their borrows.                                            *)
LEMMA FourBorrows ==
  ASSUME NEW w \in Int, NEW x0 \in Int, NEW x1 \in Int, NEW x2 \in Int, NEW x3 \in Int,
         NEW y0 \in Int, NEW y1 \in Int, NEW y2 \in Int, NEW y3 \in Int,
         NEW d0 \in Int, NEW d1 \in Int, NEW d2 \in Int, NEW d3 \in Int,
         NEW c1 \in Int, NEW c2 \in Int, NEW c3 \in Int, NEW c4 \in Int,
         x0 - y0 - 0 = d0 - w * c1, x1 - y1 - c1 = d1 - w * c2, x2 - y2 - c2 = d2 - w * c3,
         x3 - y3 - c3 = d3 - w * c4
  PROVE  (d0 + w * (d1 + w * (d2 + w * d3))) - c4 * (w * (w * (w * w)))
           = (x0 + w * (x1 + w * (x2 + w * x3))) - (y0 + w * (y1 + w * (y2 + w * y3)))
<1>1. x3 = y3 + c3 + d3 - w * c4
  OBVIOUS
<1>2. x2 + w * x3 = (y2 + w * y3) + c2 + (d2 + w * d3) - w * (w * c4)
  <2>1. x2 = y2 + c2 + d2 - w * c3
    OBVIOUS
  <2>2. w * x3 = w * y3 + w * c3 + w * d3 - w * (w * c4)
    BY <1>1
  <2> DEFINE a == w * x3
             b == w * y3
             c == w * c3
             d == w * d3
             e == w * (w * c4)
  <2>3. a \in Int /\ b \in Int /\ c \in Int /\ d \in Int /\ e \in Int /\ a = b + c + d - e /\ x2 = y2 + c2 + d2 - c
    BY <2>1, <2>2
  <2> HIDE DEF a, b, c, d, e
  <2>4. x2 + a = (y2 + b) + c2 + (d2 + d) - e
    BY <2>3
  <2>5. QED
    BY <2>4 DEF a, b, d, e
<1> DEFINE X2 == x2 + w * x3
           Y2 == y2 + w * y3
           D2 == d2 + w * d3
           E2 == w * (w * c4)
<1>3. X2 \in Int /\ Y2 \in Int /\ D2 \in Int /\ E2 \in Int /\ X2 = Y2 + c2 + D2 - E2
  BY <1>2
<1>4. w * E2 = w * (w * (w * c4)) /\ w * (w * E2) = c4 * (w * (w * (w * w)))
  OBVIOUS
<1> HIDE DEF X2, Y2, D2, E2
<1>5. x1 + w * X2 = (y1 + w * Y2) + c1 + (d1 + w * D2) - w * E2
  <2>1. x1 = y1 + c1 + d1 - w * c2
    OBVIOUS
  <2>2. w * X2 = w * Y2 + w * c2 + w * D2 - w * E2
    BY <1>3
  <2> DEFINE a == w * X2
             b == w * Y2
             c == w * c2
             d == w * D2
             e == w * E2
  <2>3. a \in Int /\ b \in Int /\ c \in Int /\ d \in Int /\ e \in Int /\ a = b + c + d - e /\ x1 = y1 + c1 + d1 - c
    BY <1>3, <2>1, <2>2
  <2> HIDE DEF a, b, c, d, e
  <2>4. x1 + a = (y1 + b) + c1 + (d1 + d) - e
    BY <2>3
  <2>5. QED
    BY <2>4 DEF a, b, d, e
<1> DEFINE X1 == x1 + w * X2
           Y1 == y1 + w * Y2
           D1 == d1 + w * D2
           E1 == w * E2
<1>6. X1 \in Int /\ Y1 \in Int /\ D1 \in Int /\ E1 \in Int /\ X1 = Y1 + c1 + D1 - E1
  BY <1>3, <1>5
<1>7. w * E1 = c4 * (w * (w * (w * w)))
  BY <1>4
<1> HIDE DEF X1, Y1, D1, E1
<1>8. x0 + w * X1 = (y0 + w * Y1) + (d0 + w * D1) - w * E1
  <2>1. x0 = y0 + d0 - w * c1
    OBVIOUS
  <2>2. w * X1 = w * Y1 + w * c1 + w * D1 - w * E1
    BY <1>6
  <2> DEFINE a == w * X1
             b == w * Y1
             c == w * c1
             d == w * D1
             e == w * E1
  <2>3. a \in Int /\ b \in Int /\ c \in Int /\ d \in Int /\ e \in Int /\ a = b + c + d - e /\ x0 = y0 + d0 - c
    BY <1>6, <2>1, <2>2
  <2> HIDE DEF a, b, c, d, e
  <2>4. x0 + a = (y0 + b) + (d0 + d) - e
    BY <2>3
  <2>5. QED
    BY <2>4 DEF a, b, d, e
<1> DEFINE X0 == x0 + w * X1
           Y0 == y0 + w * Y1
           D0 == d0 + w * D1
           E0 == w * E1
<1>9. X0 \in Int /\ Y0 \in Int /\ D0 \in Int /\ E0 \in Int /\ X0 = Y0 + D0 - E0
  BY <1>6, <1>8
<1> HIDE DEF X0, Y0, D0, E0
<1>10. D0 - E0 = X0 - Y0
  BY <1>9
<1>11. E0 = c4 * (w * (w * (w * w)))
  BY <1>7 DEF E0
<1>12. QED
  BY <1>10, <1>11 DEF X0, Y0, D0, X1, Y1, D1, X2, Y2, D2

(* Differences of four words, with their borrow and without.                *)
LEMMA SubRight ==
  ASSUME NEW x \in Words, NEW y \in Words
  PROVE  LET s == SubAndReturnBorrow(x, y)
         IN  /\ ToInt(s.difference) - s.borrow * Two256 = ToInt(x) - ToInt(y)
             /\ s.difference \in Words /\ s.borrow \in {0, 1}
             /\ ToInt(Sub(x, y)) = Minus(ToInt(x), ToInt(y))
<1> DEFINE c == Borrows(x, y)
           r == [i \in 0 .. 3 |-> (x[i] - y[i] - c[i]) % W]
           T == Two256
           X == ToInt(x)
           Y == ToInt(y)
           R == ToInt(r)
           b == c[4]
<1>1. /\ c[0] = 0 /\ (\A j \in 0 .. 4 : c[j] \in {0, 1})
      /\ \A j \in 0 .. 3 : c[j + 1] = IF x[j] - y[j] - c[j] >= 0 THEN 0 ELSE 1
  <2> HIDE DEF c
  <2>1. BorrowsAre(c, x, y)
    BY BorrowsRight DEF c
  <2>2. QED
    BY <2>1 DEF BorrowsAre
<1> HIDE DEF c
<1>2. \A j \in 0 .. 3 : x[j] \in Word /\ y[j] \in Word /\ j \in 0 .. 4
  BY DEF Words
<1>3. \A j \in 0 .. 3 : r[j] \in Word /\ x[j] - y[j] - c[j] = r[j] - W * c[j + 1]
  <2> TAKE j \in 0 .. 3
  <2> DEFINE p == x[j]
             q == y[j]
             d == p - q - c[j]
  <2>1. p \in Word /\ q \in Word /\ c[j] \in {0, 1}
    BY <1>1, <1>2
  <2>2. c[j + 1] = IF d >= 0 THEN 0 ELSE 1
    BY <1>1
  <2>3. r[j] = d % W
    OBVIOUS
  <2> HIDE DEF r, p, q, W
  <2>4. d % W \in Word /\ d = (d % W) - W * (IF d >= 0 THEN 0 ELSE 1)
    BY <2>1, BorrowStep
  <2> HIDE DEF d
  <2>5. QED
    BY <2>2, <2>3, <2>4 DEF d, p, q
<1>4. r \in Words
  <2> HIDE DEF Word, W
  <2>1. r = [i \in 0 .. 3 |-> r[i]]
    OBVIOUS
  <2> HIDE DEF r
  <2>2. QED
    BY <1>3, <2>1 DEF Words
<1> HIDE DEF r
<1>5. /\ W \in Nat /\ T = W * (W * (W * W)) /\ T \in Nat \ {0}
      /\ X = x[0] + W * (x[1] + W * (x[2] + W * x[3]))
      /\ Y = y[0] + W * (y[1] + W * (y[2] + W * y[3]))
      /\ R = r[0] + W * (r[1] + W * (r[2] + W * r[3])) /\ R \in 0 .. T - 1
  <2> DEFINE m == 4
  <2>1. m \in 1 .. 8 /\ r \in [0 .. m - 1 -> Word] /\ m = 4
    BY <1>4 DEF Words
  <2> HIDE DEF m
  <2>2. R \in 0 .. Weight(m) - 1
    BY <2>1, WordsAreNumbers
  <2>3. W \in Nat /\ Weight(4) = T /\ Weight(4) = W * (W * (W * W)) /\ Weight(4) \in Nat \ {0}
    BY Weights, SmallWeights, WeightOf
  <2>4. /\ X = x[0] + W * (x[1] + W * (x[2] + W * x[3]))
        /\ Y = y[0] + W * (y[1] + W * (y[2] + W * y[3]))
        /\ R = r[0] + W * (r[1] + W * (r[2] + W * r[3]))
    BY <1>4, ToIntRight DEF Words, Joined
  <2> HIDE DEF T, W, X, Y, R
  <2>5. QED
    BY <2>1, <2>2, <2>3, <2>4
<1>6. R - b * T = X - Y
  <2> DEFINE x0 == x[0]
             x1 == x[1]
             x2 == x[2]
             x3 == x[3]
             y0 == y[0]
             y1 == y[1]
             y2 == y[2]
             y3 == y[3]
             d0 == r[0]
             d1 == r[1]
             d2 == r[2]
             d3 == r[3]
             c1 == c[1]
             c2 == c[2]
             c3 == c[3]
  <2>1. Word \subseteq Int /\ W \in Int
    <3> HIDE DEF W
    <3>1. QED
      BY <1>5 DEF Word
  <2>2. /\ x0 \in Int /\ x1 \in Int /\ x2 \in Int /\ x3 \in Int /\ y0 \in Int /\ y1 \in Int /\ y2 \in Int
        /\ y3 \in Int /\ d0 \in Int /\ d1 \in Int /\ d2 \in Int /\ d3 \in Int
    <3>1. 0 \in 0 .. 3 /\ 1 \in 0 .. 3 /\ 2 \in 0 .. 3 /\ 3 \in 0 .. 3
      OBVIOUS
    <3> HIDE DEF Word, W
    <3>2. QED
      BY <1>2, <1>3, <2>1, <3>1
  <2>3. c1 \in Int /\ c2 \in Int /\ c3 \in Int /\ b \in Int
    BY <1>1
  <2>4. /\ x0 - y0 - c[0] = d0 - W * c[0 + 1] /\ x1 - y1 - c1 = d1 - W * c[1 + 1]
        /\ x2 - y2 - c2 = d2 - W * c[2 + 1] /\ x3 - y3 - c3 = d3 - W * c[3 + 1]
    BY <1>3
  <2>5. c[0] = 0 /\ 0 + 1 = 1 /\ 1 + 1 = 2 /\ 2 + 1 = 3 /\ 3 + 1 = 4
    BY <1>1
  <2> HIDE DEF x0, x1, x2, x3, y0, y1, y2, y3, d0, d1, d2, d3, W
  <2>6. /\ x0 - y0 - 0 = d0 - W * c1 /\ x1 - y1 - c1 = d1 - W * c2
        /\ x2 - y2 - c2 = d2 - W * c3 /\ x3 - y3 - c3 = d3 - W * b
    BY <2>4, <2>5
  <2> HIDE DEF c1, c2, c3, b
  <2>7. (d0 + W * (d1 + W * (d2 + W * d3))) - b * (W * (W * (W * W)))
           = (x0 + W * (x1 + W * (x2 + W * x3))) - (y0 + W * (y1 + W * (y2 + W * y3)))
    BY <2>1, <2>2, <2>3, <2>6, FourBorrows
  <2>8. QED
    BY <1>5, <2>7 DEF x0, x1, x2, x3, y0, y1, y2, y3, d0, d1, d2, d3
<1>7. b \in {0, 1}
  BY <1>1
<1>8. (X - Y) % T = R
  <2> DEFINE m == -b
  <2>1. m \in Int /\ T * m + R = R - b * T
    <3> HIDE DEF T, R, b
    <3>1. QED
      BY <1>5, <1>7
  <2> HIDE DEF m, T, R, X, Y, b
  <2>2. (T * m + R) % T = R
    BY <1>5, <2>1, DivisionUnique
  <2>3. QED
    BY <1>6, <2>1, <2>2
<1>9. SubAndReturnBorrow(x, y) = [difference |-> r, borrow |-> b] /\ Sub(x, y) = r
  BY DEF SubAndReturnBorrow, Sub, r, c
<1> HIDE DEF b, X, Y, R
<1>10. R - b * T = ToInt(x) - ToInt(y) /\ R = Minus(ToInt(x), ToInt(y))
  BY <1>6, <1>8 DEF X, Y, Minus
<1>11. QED
  BY <1>4, <1>7, <1>9, <1>10 DEF R

(* One more and one less.                                                   *)
LEMMA StepsRight ==
  ASSUME NEW x \in Words
  PROVE  /\ ToInt(Increment(x)) = Plus(ToInt(x), 1)
         /\ ToInt(Decrement(x)) = Minus(ToInt(x), 1)
<1>1. One \in Words /\ ToInt(One) = 1
  <2>1. W \in Nat /\ W >= 8 /\ Word = 0 .. W - 1
    BY Weights DEF Word
  <2> HIDE DEF W
  <2>2. 0 \in Word /\ 1 \in Word
    BY <2>1
  <2> HIDE DEF Word
  <2>3. One \in Words
    BY <2>2 DEF One, Words
  <2>4. One[0] = 1 /\ One[1] = 0 /\ One[2] = 0 /\ One[3] = 0
    BY DEF One
  <2>5. ToInt(One) = One[0] + W * (One[1] + W * (One[2] + W * One[3]))
    BY <2>3, ToIntRight DEF Words, Joined
  <2>6. 1 + W * (0 + W * (0 + W * 0)) = 1
    BY <2>1
  <2>7. QED
    BY <2>3, <2>4, <2>5, <2>6
<1>2. ToInt(Add(x, One)) = Plus(ToInt(x), ToInt(One)) /\ ToInt(Sub(x, One)) = Minus(ToInt(x), ToInt(One))
  BY <1>1, AddRight, SubRight
<1>3. QED
  BY <1>1, <1>2 DEF Increment, Decrement

-----------------------------------------------------------------------------
(* Zero, one and the shifts.                                                *)

(* The number of four words, by Horner's rule.                              *)
LEMMA WordsJoin ==
  ASSUME NEW z \in Words
  PROVE  /\ ToInt(z) = z[0] + W * (z[1] + W * (z[2] + W * z[3]))
         /\ z[0] \in 0 .. W - 1 /\ z[1] \in 0 .. W - 1 /\ z[2] \in 0 .. W - 1 /\ z[3] \in 0 .. W - 1
         /\ z[0] \in Nat /\ z[1] \in Nat /\ z[2] \in Nat /\ z[3] \in Nat
         /\ W \in Nat \ {0} /\ W >= 8
<1>1. W \in Nat \ {0} /\ W >= 8 /\ Word = 0 .. W - 1
  BY Weights DEF Word
<1>2. \A j \in 0 .. 3 : z[j] \in Word
  BY DEF Words
<1>3. ToInt(z) = z[0] + W * (z[1] + W * (z[2] + W * z[3]))
  BY ToIntRight DEF Words, Joined
<1> HIDE DEF W
<1>4. \A j \in 0 .. 3 : z[j] \in 0 .. W - 1 /\ z[j] \in Nat
  BY <1>1, <1>2
<1>5. QED
  BY <1>1, <1>3, <1>4

(* When a number written by Horner's rule is zero, or less than a word.     *)
LEMMA HornerZero ==
  ASSUME NEW w \in Nat \ {0}, NEW a \in Nat, NEW b \in Nat
  PROVE  a + w * b \in Nat /\ (a + w * b = 0 <=> a = 0 /\ b = 0) /\ (b # 0 => a + w * b >= w)
<1>1. w * b \in Nat /\ (b # 0 => w * b >= w) /\ (b = 0 => w * b = 0)
  <2>1. w * b \in Nat /\ (b = 0 => w * b = 0)
    OBVIOUS
  <2>2. ASSUME b # 0 PROVE w * b >= w
    <3>1. 1 <= b /\ w * 1 = w
      BY <2>2
    <3>2. w * 1 <= w * b
      BY <3>1, Monotone
    <3>3. QED
      BY <3>1, <3>2
  <2>3. QED
    BY <2>1, <2>2
<1> DEFINE c == w * b
<1> HIDE DEF c
<1>2. c \in Nat /\ (b # 0 => c >= w) /\ (b = 0 => c = 0)
  BY <1>1 DEF c
<1>3. a + c \in Nat /\ (a + c = 0 <=> a = 0 /\ b = 0) /\ (b # 0 => a + c >= w)
  BY <1>2
<1>4. QED
  BY <1>3 DEF c

(* Zero and one are recognized.                                             *)
LEMMA ZeroAndOne ==
  ASSUME NEW z \in Words
  PROVE  /\ IsZero(z) <=> ToInt(z) = 0
         /\ IsOne(z) <=> ToInt(z) = 1
<1> DEFINE z0 == z[0]
           z1 == z[1]
           z2 == z[2]
           z3 == z[3]
           A2 == z2 + W * z3
           A1 == z1 + W * A2
           Z == ToInt(z)
<1>1. /\ Z = z0 + W * A1 /\ z0 \in 0 .. W - 1 /\ z0 \in Nat /\ z1 \in Nat /\ z2 \in Nat /\ z3 \in Nat
      /\ W \in Nat \ {0} /\ W >= 8
  BY WordsJoin
<1>2. IsZero(z) <=> z0 = 0 /\ z1 = 0 /\ z2 = 0 /\ z3 = 0
  <2>1. \A j \in 0 .. 3 : j = 0 \/ j = 1 \/ j = 2 \/ j = 3
    OBVIOUS
  <2>2. 0 \in 0 .. 3 /\ 1 \in 0 .. 3 /\ 2 \in 0 .. 3 /\ 3 \in 0 .. 3
    OBVIOUS
  <2>3. QED
    BY <2>1, <2>2 DEF IsZero
<1>3. IsOne(z) <=> (z0 - 1) % W = 0 /\ z1 = 0 /\ z2 = 0 /\ z3 = 0
  <2>1. \A j \in 1 .. 3 : j = 1 \/ j = 2 \/ j = 3
    OBVIOUS
  <2>2. 1 \in 1 .. 3 /\ 2 \in 1 .. 3 /\ 3 \in 1 .. 3
    OBVIOUS
  <2> HIDE DEF W
  <2>3. QED
    BY <2>1, <2>2 DEF IsOne
<1> HIDE DEF z0, z1, z2, z3, W, Z
<1>4. A2 \in Nat /\ (A2 = 0 <=> z2 = 0 /\ z3 = 0)
  BY <1>1, HornerZero
<1> HIDE DEF A2
<1>5. A1 \in Nat /\ (A1 = 0 <=> z1 = 0 /\ A2 = 0)
  BY <1>1, <1>4, HornerZero
<1> HIDE DEF A1
<1>6. Z \in Nat /\ (Z = 0 <=> z0 = 0 /\ A1 = 0) /\ (A1 # 0 => Z >= W)
  BY <1>1, <1>5, HornerZero
<1>7. A1 = 0 => Z = z0
  <2>1. W * 0 = 0
    BY <1>1
  <2>2. QED
    BY <1>1, <2>1
<1>8. Z = 1 <=> z0 = 1 /\ A1 = 0
  BY <1>1, <1>6, <1>7
<1>9. (z0 - 1) % W = 0 <=> z0 = 1
  <2>1. CASE z0 = 0
    <3> DEFINE m == -1
               e == W - 1
    <3>1. z0 - 1 = W * m + e /\ m \in Int /\ e \in 0 .. W - 1 /\ e # 0
      BY <1>1, <2>1
    <3> HIDE DEF m, e
    <3>2. (W * m + e) % W = e
      BY <1>1, <3>1, DivisionUnique
    <3>3. QED
      BY <2>1, <3>1, <3>2
  <2>2. CASE z0 # 0
    <3>1. z0 - 1 = W * 0 + (z0 - 1) /\ z0 - 1 \in 0 .. W - 1 /\ 0 \in Int
      BY <1>1, <2>2
    <3>2. (W * 0 + (z0 - 1)) % W = z0 - 1
      BY <1>1, <3>1, DivisionUnique
    <3>3. QED
      BY <1>1, <3>1, <3>2
  <2>3. QED
    BY <2>1, <2>2
<1>10. QED
  BY <1>2, <1>3, <1>4, <1>5, <1>6, <1>8, <1>9 DEF Z

(* Shifts by a whole word.                                                  *)
LEMMA WholeShifts ==
  ASSUME NEW z \in Words
  PROVE  /\ ToInt(ShiftRightEq_64(z)) = ToInt(z) \div W
         /\ ToInt(ShiftLeftEq_64(z)) = (ToInt(z) * W) % Two256
<1> DEFINE z0 == z[0]
           z1 == z[1]
           z2 == z[2]
           z3 == z[3]
           r == ShiftRightEq_64(z)
           l == ShiftLeftEq_64(z)
           T == Two256
           Z == ToInt(z)
<1>1. /\ Z = z0 + W * (z1 + W * (z2 + W * z3)) /\ z0 \in 0 .. W - 1
      /\ z0 \in Nat /\ z1 \in Nat /\ z2 \in Nat /\ z3 \in Nat /\ W \in Nat \ {0}
  BY WordsJoin
<1>2. 0 \in Word /\ \A j \in 0 .. 3 : z[j] \in Word
  <2>1. W \in Nat /\ W >= 8 /\ Word = 0 .. W - 1
    BY Weights DEF Word
  <2> HIDE DEF W
  <2>2. QED
    BY <2>1 DEF Words
<1>3. r \in Words /\ r[0] = z1 /\ r[1] = z2 /\ r[2] = z3 /\ r[3] = 0
  <2>1. \A j \in 0 .. 3 : j # 3 => j + 1 \in 0 .. 3
    OBVIOUS
  <2>2. 0 + 1 = 1 /\ 1 + 1 = 2 /\ 2 + 1 = 3
    OBVIOUS
  <2> HIDE DEF Word
  <2>3. r \in Words
    BY <1>2, <2>1 DEF ShiftRightEq_64, Words
  <2>4. r[0] = z[0 + 1] /\ r[1] = z[1 + 1] /\ r[2] = z[2 + 1] /\ r[3] = 0
    BY DEF ShiftRightEq_64
  <2> HIDE DEF r
  <2>5. QED
    BY <2>2, <2>3, <2>4
<1>4. l \in Words /\ l[0] = 0 /\ l[1] = z0 /\ l[2] = z1 /\ l[3] = z2 /\ l[0] = 0
  <2>1. \A j \in 0 .. 3 : j # 0 => j - 1 \in 0 .. 3
    OBVIOUS
  <2>2. 1 - 1 = 0 /\ 2 - 1 = 1 /\ 3 - 1 = 2
    OBVIOUS
  <2> HIDE DEF Word
  <2>3. l \in Words
    BY <1>2, <2>1 DEF ShiftLeftEq_64, Words
  <2>4. l[0] = 0 /\ l[1] = z[1 - 1] /\ l[2] = z[2 - 1] /\ l[3] = z[3 - 1]
    BY DEF ShiftLeftEq_64
  <2> HIDE DEF l
  <2>5. QED
    BY <2>2, <2>3, <2>4
<1> HIDE DEF r, l
<1> DEFINE R == ToInt(r)
           L == ToInt(l)
<1>5. R = z1 + W * (z2 + W * (z3 + W * 0)) /\ L = 0 + W * (z0 + W * (z1 + W * z2)) /\ L \in 0 .. T - 1
      /\ T = W * (W * (W * W)) /\ T \in Nat \ {0}
  <2>1. R = z1 + W * (z2 + W * (z3 + W * 0))
    BY <1>3, WordsJoin
  <2>2. L = 0 + W * (z0 + W * (z1 + W * z2))
    BY <1>4, WordsJoin
  <2>3. L \in 0 .. Weight(4) - 1
    <3> DEFINE m == 4
    <3>1. m \in 1 .. 8 /\ l \in [0 .. m - 1 -> Word] /\ m = 4
      BY <1>4 DEF Words
    <3> HIDE DEF m
    <3>2. L \in 0 .. Weight(m) - 1
      BY <3>1, WordsAreNumbers
    <3>3. QED
      BY <3>1, <3>2
  <2>4. Weight(4) = T /\ Weight(4) = W * (W * (W * W)) /\ Weight(4) \in Nat \ {0}
    BY Weights, SmallWeights, WeightOf
  <2> HIDE DEF R, L, T, W
  <2>5. QED
    BY <2>1, <2>2, <2>3, <2>4
<1> HIDE DEF z0, z1, z2, z3, W, T, Z, R, L
<1>6. R \in Int /\ Z = W * R + z0
  <2>1. W * 0 = 0 /\ z3 + 0 = z3
    BY <1>1
  <2>2. R = z1 + W * (z2 + W * z3)
    BY <1>5, <2>1
  <2> DEFINE a == W * z3
             b == W * (z2 + a)
  <2>3. a \in Int
    BY <1>1
  <2>4. b \in Int
    <3> HIDE DEF a
    <3>1. QED
      BY <1>1, <2>3
  <2>5. R = z1 + b
    BY <2>2
  <2> HIDE DEF a, b
  <2>6. R \in Int
    BY <1>1, <2>4, <2>5
  <2>7. Z = z0 + W * R
    BY <1>1, <2>2
  <2>8. QED
    BY <1>1, <2>6, <2>7
<1>7. Z \div W = R
  <2>1. (W * R + z0) \div W = R
    BY <1>1, <1>6, DivisionUnique
  <2>2. QED
    BY <1>6, <2>1
<1>8. Z * W = T * z3 + L
  <2>1. (z0 + W * (z1 + W * (z2 + W * z3))) * W
          = (W * (W * (W * W))) * z3 + (0 + W * (z0 + W * (z1 + W * z2)))
    BY <1>1
  <2>2. QED
    BY <1>1, <1>5, <2>1
<1>9. (Z * W) % T = L
  <2>1. (T * z3 + L) % T = L
    <3>1. z3 \in Int
      BY <1>1
    <3>2. QED
      BY <1>5, <3>1, DivisionUnique
  <2>2. QED
    BY <1>8, <2>1
<1>10. QED
  BY <1>7, <1>9 DEF R, L, r, l, Z, T

(* A word v shifted by some bits takes the low bits of the next, u.         *)
WordShifts(p, q, v, u) ==
  /\ v \div p \in Nat /\ v % p \in 0 .. p - 1 /\ v = p * (v \div p) + (v % p)
  /\ (u * q) % W = (u % p) * q
  /\ v \div p + (u % p) * q \in 0 .. W - 1 /\ v \div p \in 0 .. W - 1

LEMMA ShiftedWord ==
  ASSUME NEW p \in Nat \ {0}, NEW q \in Nat \ {0}, W = p * q, NEW v \in 0 .. W - 1, NEW u \in 0 .. W - 1
  PROVE  WordShifts(p, q, v, u)
<1>1. W \in Nat /\ W >= 8
  BY Weights
<1> HIDE DEF W
<1>2. v \in Nat /\ u \in Nat /\ v < W
  BY <1>1
<1> DEFINE a == v \div p
           b == v % p
           c == u \div p
           d == u % p
<1>3. /\ a \in Int /\ b \in 0 .. p - 1 /\ v = p * a + b
      /\ c \in Int /\ d \in 0 .. p - 1 /\ u = p * c + d
  BY <1>2, Division
<1> HIDE DEF a, b, c, d
<1>4. a >= 0 /\ a <= q - 1
  <2>1. ASSUME a < 0 PROVE FALSE
    <3>1. a <= -1 /\ -1 \in Int
      BY <1>3, <2>1
    <3>2. p * a <= p * (-1)
      BY <1>3, <3>1, Monotone
    <3>3. p * (-1) = -p /\ p * a \in Int
      BY <1>3
    <3>4. QED
      BY <1>2, <1>3, <3>2, <3>3
  <2>2. ASSUME a > q - 1 PROVE FALSE
    <3>1. q <= a
      BY <1>3, <2>2
    <3>2. p * q <= p * a /\ p * q \in Int /\ p * a \in Int
      BY <1>3, <3>1, Monotone
    <3>3. QED
      BY <1>2, <1>3, <3>2
  <2>3. QED
    BY <1>3, <2>1, <2>2
<1>5. d * q \in Nat /\ d * q <= W - q
  <2>1. d <= p - 1 /\ p - 1 \in Int /\ d \in Int /\ d >= 0
    BY <1>3
  <2>2. d * q <= (p - 1) * q /\ d * q \in Int
    BY <2>1, Monotone
  <2>3. (p - 1) * q = p * q - q /\ p * q \in Int
    OBVIOUS
  <2>4. d * q >= 0
    BY <2>1
  <2>5. QED
    BY <2>2, <2>3, <2>4
<1>6. (u * q) % W = d * q
  <2>1. u * q = W * c + d * q
    BY <1>3
  <2> DEFINE e == d * q
  <2>2. e \in 0 .. W - 1 /\ W \in Nat \ {0}
    BY <1>1, <1>5
  <2> HIDE DEF e
  <2>3. (W * c + e) % W = e
    BY <1>3, <2>2, DivisionUnique
  <2>4. QED
    BY <2>1, <2>3 DEF e
<1>7. a + d * q \in 0 .. W - 1 /\ a \in 0 .. W - 1 /\ a \in Nat
  <2> DEFINE e == d * q
  <2>1. e \in Nat /\ e <= W - q
    BY <1>5
  <2> HIDE DEF e
  <2>2. a + e \in 0 .. W - 1 /\ a \in 0 .. W - 1 /\ a \in Nat
    BY <1>1, <1>3, <1>4, <2>1
  <2>3. QED
    BY <2>2 DEF e
<1>8. QED
  BY <1>3, <1>6, <1>7 DEF a, b, c, d, WordShifts

(* Four shifted words make the shifted number.                              *)
LEMMA FourShifted ==
  ASSUME NEW p \in Int, NEW q \in Int, NEW a0 \in Int, NEW a1 \in Int, NEW a2 \in Int, NEW a3 \in Int,
         NEW b0 \in Int, NEW b1 \in Int, NEW b2 \in Int, NEW b3 \in Int
  PROVE  (p * a0 + b0) + (p * q) * ((p * a1 + b1) + (p * q) * ((p * a2 + b2) + (p * q) * (p * a3 + b3)))
           = p * ((a0 + b1 * q) + (p * q) * ((a1 + b2 * q) + (p * q) * ((a2 + b3 * q) + (p * q) * a3))) + b0
OBVIOUS

(* Shifts by up to a word.                                                  *)
LEMMA ShiftRightRight ==
  ASSUME NEW z \in Words, NEW n \in 0 .. WordBits
  PROVE  ToInt(ShiftRightEq(z, n)) = ToInt(z) \div 2^n
<1> DEFINE p == 2^n
           q == 2^(WordBits - n)
           r == ShiftRightEq(z, n)
           Z == ToInt(z)
           R == ToInt(r)
<1>1. p \in Nat \ {0} /\ q \in Nat \ {0} /\ W = p * q
  <2>1. /\ WordBits \in Nat \ {0} /\ \A k \in 0 .. 4 * WordBits : 2^k \in Nat \ {0}
    BY MorePowersOfTwo
  <2>2. /\ n \in Nat /\ WordBits - n \in Nat /\ n + (WordBits - n) = WordBits /\ n + (WordBits - n) <= 4 * WordBits
        /\ n \in 0 .. 4 * WordBits /\ WordBits - n \in 0 .. 4 * WordBits
    BY <2>1
  <2>3. 2^(n + (WordBits - n)) = 2^n * 2^(WordBits - n)
    BY <2>2, PowersAdd
  <2>4. W = 2^WordBits
    BY DEF W
  <2> HIDE DEF W
  <2>5. QED
    BY <2>1, <2>2, <2>3, <2>4
<1> HIDE DEF p, q
<1>2. /\ Z = z[0] + W * (z[1] + W * (z[2] + W * z[3])) /\ \A j \in 0 .. 3 : z[j] \in 0 .. W - 1
  <2>1. \A j \in 0 .. 3 : j = 0 \/ j = 1 \/ j = 2 \/ j = 3
    OBVIOUS
  <2> HIDE DEF W
  <2>2. QED
    BY <2>1, WordsJoin
<1> DEFINE a(j) == z[j] \div p
           b(j) == z[j] % p
<1>3. \A j \in 0 .. 3 : r[j] = a(j) + IF j = 3 THEN 0 ELSE (z[j + 1] * q) % W
  <2> HIDE DEF W
  <2>1. QED
    BY DEF ShiftRightEq, p, q
<1>4. r = [j \in 0 .. 3 |-> r[j]]
  BY DEF ShiftRightEq
<1> HIDE DEF r
<1>5. ASSUME NEW j \in 0 .. 3
      PROVE  /\ a(j) \in Int /\ b(j) \in 0 .. p - 1 /\ b(j) \in Int /\ z[j] = p * a(j) + b(j)
             /\ a(j) \in 0 .. W - 1
             /\ j # 3 => (z[j + 1] * q) % W = b(j + 1) * q /\ a(j) + b(j + 1) * q \in 0 .. W - 1
  <2>1. z[j] \in 0 .. W - 1 /\ (j # 3 => z[j + 1] \in 0 .. W - 1)
    <3>1. j # 3 => j + 1 \in 0 .. 3
      OBVIOUS
    <3> HIDE DEF W
    <3>2. QED
      BY <1>2, <3>1
  <2> DEFINE v == z[j]
             u == z[j + 1]
  <2> HIDE DEF v, u, W
  <2>2. v \div p \in Nat /\ v % p \in 0 .. p - 1 /\ v = p * (v \div p) + (v % p) /\ v \div p \in 0 .. W - 1
    <3>1. v \in 0 .. W - 1
      BY <2>1 DEF v
    <3>2. WordShifts(p, q, v, v)
      BY <1>1, <3>1, ShiftedWord
    <3>3. QED
      BY <3>2 DEF WordShifts
  <2>3. v \in 0 .. W - 1 /\ (j # 3 => u \in 0 .. W - 1)
    BY <2>1 DEF v, u
  <2>6. ASSUME j # 3 PROVE (u * q) % W = (u % p) * q /\ v \div p + (u % p) * q \in 0 .. W - 1
    <3>1. v \in 0 .. W - 1 /\ u \in 0 .. W - 1
      BY <2>3, <2>6
    <3>2. WordShifts(p, q, v, u)
      BY <1>1, <3>1, ShiftedWord
    <3>3. QED
      BY <3>2 DEF WordShifts
  <2>4. v % p \in Int /\ v \div p \in Int
    BY <1>1, <2>2
  <2>5. QED
    BY <2>2, <2>6, <2>4 DEF u, v
<1> HIDE DEF a, b
<1>6. /\ r[0] = a(0) + b(1) * q /\ r[1] = a(1) + b(2) * q /\ r[2] = a(2) + b(3) * q /\ r[3] = a(3)
      /\ \A j \in 0 .. 3 : r[j] \in 0 .. W - 1
  <2>1. ASSUME NEW j \in 0 .. 3, j # 3 PROVE r[j] = a(j) + b(j + 1) * q /\ r[j] \in 0 .. W - 1
    <3> HIDE DEF W
    <3>1. QED
      BY <1>3, <1>5, <2>1
  <2>2. r[3] = a(3) /\ a(3) \in 0 .. W - 1
    <3> HIDE DEF W
    <3>1. a(3) \in 0 .. W - 1 /\ a(3) \in Int
      BY <1>5
    <3>2. r[3] = a(3) + 0
      BY <1>3
    <3> DEFINE c == a(3)
    <3>3. c \in Int /\ r[3] = c + 0
      BY <3>1, <3>2
    <3> HIDE DEF c
    <3>4. r[3] = c
      BY <3>3
    <3>5. QED
      BY <3>1, <3>4 DEF c
  <2>3. \A j \in 0 .. 3 : r[j] \in 0 .. W - 1
    <3> HIDE DEF W
    <3>1. ASSUME NEW j \in 0 .. 3 PROVE r[j] \in 0 .. W - 1
      <4>1. CASE j = 3
        BY <2>2, <4>1
      <4>2. CASE j # 3
        BY <2>1, <4>2
      <4>3. QED
        BY <4>1, <4>2
    <3>2. QED
      BY <3>1
  <2>4. /\ r[0] = a(0) + b(0 + 1) * q /\ r[1] = a(1) + b(1 + 1) * q /\ r[2] = a(2) + b(2 + 1) * q
    <3>1. 0 \in 0 .. 3 /\ 1 \in 0 .. 3 /\ 2 \in 0 .. 3 /\ 0 # 3 /\ 1 # 3 /\ 2 # 3
      OBVIOUS
    <3>2. QED
      BY <2>1, <3>1
  <2>5. 0 + 1 = 1 /\ 1 + 1 = 2 /\ 2 + 1 = 3
    OBVIOUS
  <2>6. QED
    BY <2>2, <2>3, <2>4, <2>5
<1>7. r \in Words
  <2>1. Word = 0 .. W - 1
    BY DEF Word
  <2> HIDE DEF W, Word
  <2>2. QED
    BY <1>4, <1>6, <2>1 DEF Words
<1>8. R = r[0] + W * (r[1] + W * (r[2] + W * r[3])) /\ R \in Int
  <2>1. R = r[0] + W * (r[1] + W * (r[2] + W * r[3]))
    BY <1>7, WordsJoin
  <2>2. R \in Int
    <3> DEFINE m == 4
    <3>1. m \in 1 .. 8 /\ r \in [0 .. m - 1 -> Word] /\ m \in 0 .. 8
      BY <1>7 DEF Words
    <3> HIDE DEF m
    <3>2. R \in 0 .. Weight(m) - 1 /\ Weight(m) \in Int
      BY <3>1, WordsAreNumbers, WeightOf
    <3> HIDE DEF R
    <3>3. QED
      BY <3>2
  <2>3. QED
    BY <2>1, <2>2
<1>9. Z = p * R + b(0)
  <2> DEFINE a0 == a(0)
             a1 == a(1)
             a2 == a(2)
             a3 == a(3)
             b0 == b(0)
             b1 == b(1)
             b2 == b(2)
             b3 == b(3)
  <2>1. /\ a0 \in Int /\ a1 \in Int /\ a2 \in Int /\ a3 \in Int /\ b0 \in Int /\ b1 \in Int /\ b2 \in Int /\ b3 \in Int
        /\ z[0] = p * a0 + b0 /\ z[1] = p * a1 + b1 /\ z[2] = p * a2 + b2 /\ z[3] = p * a3 + b3
    <3>1. 0 \in 0 .. 3 /\ 1 \in 0 .. 3 /\ 2 \in 0 .. 3 /\ 3 \in 0 .. 3
      OBVIOUS
    <3>2. QED
      BY <1>5, <3>1
  <2>2. /\ Z = (p * a0 + b0) + W * ((p * a1 + b1) + W * ((p * a2 + b2) + W * (p * a3 + b3)))
        /\ R = (a0 + b1 * q) + W * ((a1 + b2 * q) + W * ((a2 + b3 * q) + W * a3))
    BY <1>2, <1>6, <1>8, <2>1
  <2>3. p \in Int /\ q \in Int
    BY <1>1
  <2> HIDE DEF a0, a1, a2, a3, b0, b1, b2, b3, Z, R
  <2>4. (p * a0 + b0) + (p * q) * ((p * a1 + b1) + (p * q) * ((p * a2 + b2) + (p * q) * (p * a3 + b3)))
           = p * ((a0 + b1 * q) + (p * q) * ((a1 + b2 * q) + (p * q) * ((a2 + b3 * q) + (p * q) * a3))) + b0
    BY <2>1, <2>3, FourShifted
  <2>5. Z = p * R + b0
    BY <1>1, <2>2, <2>4
  <2>6. QED
    BY <2>5 DEF b0
<1> HIDE DEF Z, R
<1>10. Z \div p = R
  <2>1. b(0) \in 0 .. p - 1
    BY <1>5
  <2>2. (p * R + b(0)) \div p = R
    BY <1>1, <1>8, <2>1, DivisionUnique
  <2>3. QED
    BY <1>9, <2>2
<1>11. QED
  BY <1>10 DEF Z, R, r, p

-----------------------------------------------------------------------------
(* The arithmetic of the register.                                          *)

(* A number below 2^256 is what its four words stand for.                   *)
LEMMA UintWords ==
  ASSUME NEW n \in Uints
  PROVE  ToWords(n, 4) \in Words /\ ToInt(ToWords(n, 4)) = n
<1> DEFINE u == ToWords(n, 4)
<1>1. n \in Nat /\ n < W^4
  <2>1. n \in 0 .. Two256 - 1 /\ Two256 \in Nat /\ Two256 = W^4
    BY WordPowers DEF Uints
  <2> HIDE DEF Two256, W
  <2>2. QED
    BY <2>1
<1>2. /\ \A i \in 0 .. 3 : u[i] \in 0 .. W - 1
      /\ n = u[0] + W * (u[1] + W * (u[2] + W * u[3]))
  BY <1>1, WordsOf
<1>3. u = [i \in 0 .. 3 |-> u[i]]
  BY DEF ToWords
<1> HIDE DEF u
<1>4. u \in Words
  <2>1. Word = 0 .. W - 1
    BY DEF Word
  <2> HIDE DEF W, Word
  <2>2. QED
    BY <1>2, <1>3, <2>1 DEF Words
<1>5. ToInt(u) = n
  BY <1>2, <1>4, WordsJoin
<1>6. QED
  BY <1>4, <1>5 DEF u

(* The operations on the words of two numbers return the words of their     *)
(* sum, difference, order and products.                                     *)
LEMMA ArithmeticOfTwo ==
  ASSUME NEW n \in Uints, NEW x \in Uints
  PROVE  LET zw == ToWords(n, 4)
             xw == ToWords(x, 4)
             sum == AddAndReturnCarry(zw, xw)
             difference == SubAndReturnBorrow(zw, xw)
         IN  /\ ToInt(sum.sum) + sum.carry * Two256 = n + x
             /\ ToInt(difference.difference) - difference.borrow * Two256 = n - x
             /\ Cmp(zw, xw) = IF n < x THEN -1 ELSE IF n = x THEN 0 ELSE 1
             /\ ToInt(LongMul(zw, xw)) = n * x
             /\ ToInt(Mul(zw, xw)) = (n * x) % Two256
             /\ ToInt(LongMulUint64(zw, xw[0])) = n * xw[0]
<1> DEFINE zw == ToWords(n, 4)
           xw == ToWords(x, 4)
           sum == AddAndReturnCarry(zw, xw)
           difference == SubAndReturnBorrow(zw, xw)
<1>1. zw \in Words /\ xw \in Words /\ ToInt(zw) = n /\ ToInt(xw) = x
  BY UintWords
<1>2. Cmp(zw, xw) = IF n < x THEN -1 ELSE IF n = x THEN 0 ELSE 1
  BY CmpRight
<1>3. xw[0] \in Word
  <2>1. 0 \in 0 .. 3
    OBVIOUS
  <2> HIDE DEF Word, xw
  <2>2. QED
    BY <1>1, <2>1 DEF Words
<1> HIDE DEF zw, xw
<1>4. ToInt(sum.sum) + sum.carry * Two256 = n + x
  BY <1>1, AddRight
<1>5. ToInt(difference.difference) - difference.borrow * Two256 = n - x
  BY <1>1, SubRight
<1>6. ToInt(LongMul(zw, xw)) = n * x
  BY <1>1, LongMulRight
<1>7. ToInt(Mul(zw, xw)) = (n * x) % Two256
  BY <1>1, MulRight
<1>8. ToInt(LongMulUint64(zw, xw[0])) = n * xw[0]
  BY <1>1, <1>3, LongMulUint64Right
<1>9. QED
  BY <1>2, <1>4, <1>5, <1>6, <1>7, <1>8 DEF zw, xw

(* So do the operations on the words of one number.                         *)
LEMMA ArithmeticOfOne ==
  ASSUME NEW n \in Uints
  PROVE  LET zw == ToWords(n, 4)
         IN  /\ ToInt(LongSquare(zw)) = n * n
             /\ ToInt(Increment(zw)) = Plus(n, 1) /\ ToInt(Decrement(zw)) = Minus(n, 1)
             /\ IsZero(zw) <=> n = 0
             /\ IsOne(zw) <=> n = 1
             /\ \A k \in 0 .. WordBits : ToInt(ShiftRightEq(zw, k)) = n \div 2^k
             /\ ToInt(ShiftRightEq_64(zw)) = n \div W
             /\ ToInt(ShiftLeftEq_64(zw)) = (n * W) % Two256
             /\ n < 2^BitLen(zw) /\ (n > 0 => n >= 2^(BitLen(zw) - 1))
<1> DEFINE zw == ToWords(n, 4)
<1>1. zw \in Words /\ ToInt(zw) = n
  BY UintWords
<1>2. ToInt(LongSquare(zw)) = n * n
  BY <1>1, LongSquareRight
<1>3. ToInt(Increment(zw)) = Plus(n, 1) /\ ToInt(Decrement(zw)) = Minus(n, 1)
  BY <1>1, StepsRight
<1>4. (IsZero(zw) <=> n = 0) /\ (IsOne(zw) <=> n = 1)
  BY <1>1, ZeroAndOne
<1>5. \A k \in 0 .. WordBits : ToInt(ShiftRightEq(zw, k)) = n \div 2^k
  BY <1>1, ShiftRightRight
<1>6. ToInt(ShiftRightEq_64(zw)) = n \div W /\ ToInt(ShiftLeftEq_64(zw)) = (n * W) % Two256
  BY <1>1, WholeShifts
<1>7. n < 2^BitLen(zw) /\ (n > 0 => n >= 2^(BitLen(zw) - 1))
  <2>1. n \in Nat
    <3>1. n \in 0 .. Two256 - 1 /\ Two256 \in Nat
      BY WordPowers DEF Uints
    <3> HIDE DEF Two256
    <3>2. QED
      BY <3>1
  <2>2. CASE n = 0
    <3>1. BitLen(zw) = 0
      <4>1. {i \in 0 .. 3 : zw[i] # 0} = {}
        BY <1>4, <2>2 DEF IsZero
      <4>2. QED
        BY <4>1 DEF BitLen
    <3>2. 2^0 = 1
      BY MorePowersOfTwo
    <3>3. n < 1 /\ ~(n > 0)
      BY <2>2
    <3>4. QED
      BY <3>1, <3>2, <3>3
  <2>3. CASE n # 0
    <3> DEFINE L == BitLen(zw)
    <3>1. L \in 1 .. 4 * WordBits /\ 2^(L - 1) <= n /\ n < 2^L
      BY <2>3, BitLenRight
    <3>2. /\ L \in 0 .. 4 * WordBits /\ L - 1 \in 0 .. 4 * WordBits
      <4>1. WordBits \in Nat
        BY WordBitsAssumption
      <4> HIDE DEF L
      <4>2. QED
        BY <3>1, <4>1
    <3>3. 2^(L - 1) \in Nat
      BY <3>2, MorePowersOfTwo
    <3> DEFINE b == 2^(L - 1)
    <3>4. b <= n /\ b \in Nat
      BY <3>1, <3>3
    <3> HIDE DEF b
    <3>5. n >= b
      BY <2>1, <3>4
    <3>6. QED
      BY <3>1, <3>5 DEF b
  <2>4. QED
    BY <2>2, <2>3
<1> HIDE DEF zw
<1>8. QED
  BY <1>2, <1>3, <1>4, <1>5, <1>6, <1>7 DEF zw

(* A register that keeps the invariant has exact arithmetic.                *)
LEMMA RegisterArithmetic == ResidueInv => ArithmeticExact
<1>1. SUFFICES ASSUME ResidueInv PROVE ArithmeticExact
  OBVIOUS
<1>2. register \in Uints
  BY <1>1, RegisterFacts
<1>3. \A x \in Operands : x \in Uints
  BY OperandsAssumption DEF Uints
<1> DEFINE zw == ToWords(register, 4)
           Pair(x) ==
             LET xw == ToWords(x, 4)
                 sum == AddAndReturnCarry(zw, xw)
                 difference == SubAndReturnBorrow(zw, xw)
             IN  /\ ToInt(sum.sum) + sum.carry * Two256 = register + x
                 /\ ToInt(difference.difference) - difference.borrow * Two256 = register - x
                 /\ Cmp(zw, xw) = IF register < x THEN -1 ELSE IF register = x THEN 0 ELSE 1
                 /\ ToInt(LongMul(zw, xw)) = register * x
                 /\ ToInt(Mul(zw, xw)) = (register * x) % Two256
                 /\ ToInt(LongMulUint64(zw, xw[0])) = register * xw[0]
           Single ==
             /\ ToInt(LongSquare(zw)) = register * register
             /\ ToInt(Increment(zw)) = Plus(register, 1) /\ ToInt(Decrement(zw)) = Minus(register, 1)
             /\ IsZero(zw) <=> register = 0
             /\ IsOne(zw) <=> register = 1
             /\ \A n \in 0 .. WordBits : ToInt(ShiftRightEq(zw, n)) = register \div 2^n
             /\ ToInt(ShiftRightEq_64(zw)) = register \div W
             /\ ToInt(ShiftLeftEq_64(zw)) = (register * W) % Two256
             /\ register < 2^BitLen(zw) /\ (register > 0 => register >= 2^(BitLen(zw) - 1))
<1>4. \A x \in Operands : Pair(x)
  BY <1>2, <1>3, ArithmeticOfTwo
<1>5. Single
  BY <1>2, ArithmeticOfOne
<1>6. QED
  BY <1>4, <1>5 DEF ArithmeticExact

(* For words of any size and any modulus, and for every number a sequence   *)
(* of calls leaves in the register and every argument, the chains of        *)
(* carries, borrows and partial products of uint256.go compute the integer  *)
(* results: no carry that matters is dropped, and a chain cut off at its    *)
(* last word never loses one.                                               *)
THEOREM ArithmeticIsExact == ResiduesSpec => []ArithmeticExact
BY ResiduesInvariance, RegisterArithmetic, PTL
===============================================================================
