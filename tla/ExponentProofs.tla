---------------------------- MODULE ExponentProofs ----------------------------
(***************************************************************************)
(* Proofs about exponents, for words of any size, any odd group order that *)
(* fits them and any basis as described: what the calls compute, modulo    *)
(* 2*p253 and p253; that the sliding windows and the signed digits stand   *)
(* for the exponent that they are read off; and that the GLV decomposition *)
(* represents the exponent and is the shortest that does.                  *)
(***************************************************************************)
EXTENDS Exponents, Decompositions, ResidueProofs, TLAPS

-----------------------------------------------------------------------------
(* Division.                                                                *)

(* Of a small number.                                                       *)
LEMMA SmallNumber ==
  ASSUME NEW b \in Nat \ {0}, NEW r \in 0 .. b - 1
  PROVE  r % b = r /\ r \div b = 0
<1>1. r = b * 0 + r /\ 0 \in Int
  OBVIOUS
<1>2. (b * 0 + r) % b = r /\ (b * 0 + r) \div b = 0
  BY DivisionUnique
<1>3. QED
  BY <1>1, <1>2

LEMMA ShiftedResidue ==
  ASSUME NEW b \in Nat \ {0}, NEW r \in Int
  PROVE  /\ r \in b .. 2 * b - 1 => r % b = r - b
         /\ r \in -b .. -1 => r % b = r + b
<1>1. CASE r \in b .. 2 * b - 1
  <2>1. r - b \in 0 .. b - 1 /\ r = b * 1 + (r - b) /\ 1 \in Int /\ r \notin -b .. -1
    BY <1>1
  <2>2. (b * 1 + (r - b)) % b = r - b
    BY <2>1, DivisionUnique
  <2>3. QED
    BY <2>1, <2>2
<1>2. CASE r \in -b .. -1
  <2>1. r + b \in 0 .. b - 1 /\ r = b * (-1) + (r + b) /\ -1 \in Int /\ r \notin b .. 2 * b - 1
    BY <1>2
  <2>2. (b * (-1) + (r + b)) % b = r + b
    BY <2>1, DivisionUnique
  <2>3. QED
    BY <2>1, <2>2
<1>3. QED
  BY <1>1, <1>2

(* A multiple does not change the residue.                                  *)
LEMMA SameResidueOf ==
  ASSUME NEW b \in Nat \ {0}, NEW a \in Int, NEW k \in Int
  PROVE  (a + b * k) % b = a % b
<1> DEFINE q == a \div b
           r == a % b
<1>1. r \in 0 .. b - 1 /\ q \in Int /\ a = b * q + r
  BY Division
<1> HIDE DEF q, r
<1>2. b * (q + k) = b * q + b * k /\ q + k \in Int /\ b * q \in Int /\ b * k \in Int
  BY <1>1
<1>3. a + b * k = b * (q + k) + r
  <2> DEFINE x == b * q
             y == b * k
             z == b * (q + k)
  <2>1. a = x + r /\ z = x + y /\ x \in Int /\ y \in Int /\ r \in Int
    BY <1>1, <1>2
  <2> HIDE DEF x, y, z
  <2>2. a + y = z + r
    BY <2>1
  <2>3. QED
    BY <2>2 DEF y, z
<1>4. (b * (q + k) + r) % b = r
  BY <1>1, <1>2, DivisionUnique
<1>5. QED
  BY <1>3, <1>4 DEF r

-----------------------------------------------------------------------------
(* The methods.                                                             *)

LEMMA ExponentConstants ==
  /\ GroupOrder \in Nat /\ GroupOrder > 1 /\ CurveExponent = 2 * GroupOrder /\ CurveExponent \in Nat \ {0}
  /\ ExponentSpace \in Nat \ {0} /\ 2 * CurveExponent < ExponentSpace
  /\ ExponentWord \in Nat \ {0} /\ ExponentWord <= CurveExponent
<1> DEFINE B == ExponentWord
           C == CurveExponent
           P == GroupOrder
<1>1. /\ B \in Nat \ {0} /\ P \in Nat /\ P % 2 = 1 /\ P % B # B - 1 /\ C = 2 * P
      /\ (C \div B) % B > 0 /\ 2 * C < ExponentSpace
  BY ExponentPowersAssumption, ExponentsAssumption DEF CurveExponent, curveExponent_1
<1>2. ExponentSpace \in Nat
  BY ExponentPowersAssumption
<1> HIDE DEF B, C, P
<1>3. B <= C
  <2>1. ASSUME C < B PROVE FALSE
    <3>1. C \in 0 .. B - 1 /\ C = B * 0 + C /\ 0 \in Int
      BY <1>1, <2>1
    <3>2. C \div B = 0
      BY <1>1, <3>1, DivisionUnique
    <3>3. 0 % B = 0
      BY <1>1, SmallNumber
    <3>4. QED
      BY <1>1, <3>2, <3>3
  <2>2. QED
    BY <1>1, <2>1
<1>4. P > 1
  <2>1. P # 0
    BY <1>1
  <2>2. ASSUME P = 1 PROVE FALSE
    <3>1. B = 1 \/ B = 2
      BY <1>1, <1>3, <2>2
    <3>2. 1 % 1 = 0 /\ 1 % 2 = 1
      OBVIOUS
    <3>3. QED
      BY <1>1, <2>2, <3>1, <3>2
  <2>3. QED
    BY <1>1, <2>1, <2>2
<1>5. C \in Nat \ {0} /\ ExponentSpace > 0
  BY <1>1, <1>2, <1>4
<1>6. QED
  BY <1>1, <1>2, <1>3, <1>4, <1>5 DEF B, C, P

(* Each method returns the representative in 0 .. 2*p253 - 1.               *)
Canonical(z, n) == z \in 0 .. CurveExponent - 1 /\ z = n % CurveExponent

LEMMA SumCanonical ==
  ASSUME NEW x \in 0 .. CurveExponent - 1, NEW y \in 0 .. CurveExponent - 1
  PROVE  Canonical(ExpAdd(x, y), x + y) /\ Canonical(ExpSub(x, y), x - y)
<1> DEFINE C == CurveExponent
           S == ExponentSpace
<1>1. C \in Nat \ {0} /\ S \in Nat \ {0} /\ 2 * C < S
  BY ExponentConstants
<1> HIDE DEF C, S
<1>2. x \in 0 .. C - 1 /\ y \in 0 .. C - 1
  BY DEF C
<1> DEFINE s == x + y
<1>3. s \in Int /\ s \in 0 .. S - 1 /\ s \in 0 .. 2 * C - 1
  BY <1>1, <1>2
<1>4. ExpAdd(x, y) = IF s < C THEN s ELSE s - C
  <2>1. ExpAdd(x, y) = normalize_once(s % S)
    BY DEF ExpAdd, S
  <2> HIDE DEF s
  <2>2. s % S = s
    BY <1>1, <1>3, SmallNumber
  <2>3. QED
    BY <2>1, <2>2 DEF normalize_once, isNormalized_Full, C
<1> HIDE DEF s
<1>5. s % C = IF s < C THEN s ELSE s - C
  <2>1. CASE s < C
    <3>1. s \in 0 .. C - 1
      BY <1>1, <1>3, <2>1
    <3>2. s % C = s
      BY <1>1, <3>1, SmallNumber
    <3>3. QED
      BY <2>1, <3>2
  <2>2. CASE ~(s < C)
    <3>1. s \in C .. 2 * C - 1
      BY <1>1, <1>3, <2>2
    <3>2. s % C = s - C
      BY <1>1, <1>3, <3>1, ShiftedResidue
    <3>3. QED
      BY <2>2, <3>2
  <2>3. QED
    BY <2>1, <2>2
<1>6. ExpSub(x, y) = (x - y) % C
  <2>1. CASE x < y
    <3>1. x - y \in -S .. -1 /\ x - y \in -C .. -1 /\ x - y \in Int
      BY <1>1, <1>2, <2>1
    <3>2. (x - y) % S = x - y + S /\ (x - y) % C = x - y + C
      BY <1>1, <3>1, ShiftedResidue
    <3>3. ExpSub(x, y) = (x - y + S + C) % S
      BY <2>1, <3>2 DEF ExpSub, C, S
    <3>4. x - y + S + C \in S .. 2 * S - 1 /\ x - y + S + C \in Int
      BY <1>1, <1>2, <2>1
    <3>5. (x - y + S + C) % S = x - y + S + C - S
      BY <1>1, <3>4, ShiftedResidue
    <3>6. QED
      BY <1>1, <1>2, <3>2, <3>3, <3>5
  <2>2. CASE x >= y
    <3>1. x - y \in 0 .. S - 1 /\ x - y \in 0 .. C - 1 /\ ~(x < y)
      BY <1>1, <1>2, <2>2
    <3>2. (x - y) % S = x - y /\ (x - y) % C = x - y
      BY <1>1, <3>1, SmallNumber
    <3>3. QED
      BY <3>1, <3>2 DEF ExpSub, C, S
  <2>3. QED
    BY <1>2, <2>1, <2>2
<1>7. (x - y) % C \in 0 .. C - 1 /\ s % C \in 0 .. C - 1
  BY <1>1, <1>2, <1>3, Division
<1>8. QED
  BY <1>4, <1>5, <1>6, <1>7 DEF Canonical, C, s

LEMMA ProductCanonical ==
  ASSUME NEW n \in Int
  PROVE  Canonical(ExpSetBigInt(n), n)
<1>1. CurveExponent \in Nat \ {0}
  BY ExponentConstants
<1> HIDE DEF CurveExponent
<1>2. QED
  BY <1>1, Division DEF Canonical, ExpSetBigInt

(* With the receiver as its argument.                                       *)
LEMMA NegCanonical ==
  ASSUME NEW x \in 0 .. CurveExponent - 1
  PROVE  Canonical(ExpNeg(x, x), -x)
<1> DEFINE C == CurveExponent
           S == ExponentSpace
<1>1. C \in Nat \ {0} /\ S \in Nat \ {0} /\ 2 * C < S
  BY ExponentConstants
<1> HIDE DEF C, S
<1>2. x \in 0 .. C - 1
  BY DEF C
<1>3. CASE x = 0
  <2>1. ExpNeg(x, x) = 0 /\ -x = 0 /\ 0 \in 0 .. C - 1
    <3>1. ExpNeg(x, x) = 0
      BY <1>3 DEF ExpNeg
    <3>2. -x = 0 - x /\ 0 - 0 = 0 /\ 0 \in 0 .. C - 1
      BY <1>1, <1>2
    <3>3. QED
      BY <1>3, <3>1, <3>2
  <2>2. 0 % C = 0
    BY <1>1, <2>1, SmallNumber
  <2>3. QED
    BY <2>1, <2>2 DEF Canonical, C
<1>4. CASE x # 0
  <2>1. C - x \in 0 .. S - 1 /\ C - x \in 0 .. C - 1 /\ -x \in -C .. -1 /\ -x \in Int
    BY <1>1, <1>2, <1>4
  <2>2. (C - x) % S = C - x /\ (-x) % C = -x + C
    BY <1>1, <2>1, SmallNumber, ShiftedResidue
  <2>3. ExpNeg(x, x) = (C - x) % S
    BY <1>4 DEF ExpNeg, C, S
  <2>4. QED
    BY <1>1, <1>2, <2>1, <2>2, <2>3 DEF Canonical, C
<1>5. QED
  BY <1>3, <1>4

LEMMA SmallCanonical ==
  ASSUME NEW n \in 0 .. ExponentWord - 1
  PROVE  Canonical(n, n)
<1> DEFINE C == CurveExponent
           B == ExponentWord
<1>1. C \in Nat \ {0} /\ B \in Nat /\ B <= C
  BY ExponentConstants
<1> HIDE DEF C, B
<1>2. n \in 0 .. C - 1
  BY <1>1 DEF B
<1>3. n % C = n
  BY <1>1, <1>2, SmallNumber
<1>4. QED
  BY <1>2, <1>3 DEF Canonical, C

LEMMA SignedCanonical ==
  ASSUME NEW n \in -(ExponentWord \div 2) .. ExponentWord \div 2 - 1
  PROVE  Canonical(ExpSetInt(n), n)
<1> DEFINE C == CurveExponent
           B == ExponentWord
           h == B \div 2
           high == C \div B
           rest == C % B
           low == rest + (n % B)
           carry == low \div B
           kept == low % B
<1>1. C \in Nat \ {0} /\ B \in Nat \ {0} /\ B <= C
  BY ExponentConstants
<1> HIDE DEF C, B
<1>2. h \in Int /\ B \div 2 = h /\ 2 * h <= B /\ h >= 0 /\ n \in -h .. h - 1 /\ n \in Int
  <2>1. h \in Int /\ B % 2 \in 0 .. 1 /\ B = 2 * h + (B % 2)
    BY <1>1
  <2>2. n \in -h .. h - 1
    BY DEF B
  <2> HIDE DEF h
  <2>3. 2 * h <= B /\ n \in Int
    BY <1>1, <2>1, <2>2
  <2>4. h >= 0
    BY <1>1, <2>1
  <2>5. QED
    BY <2>1, <2>2, <2>3, <2>4 DEF h
<1> HIDE DEF h
<1>3. CASE n >= 0
  <2>1. n \in 0 .. B - 1
    BY <1>1, <1>2, <1>3
  <2>2. Canonical(n, n)
    BY <2>1, SmallCanonical DEF B
  <2>3. QED
    BY <1>3, <2>2 DEF ExpSetInt
<1>4. CASE n < 0
  <2>1. n \in -B .. -1
    BY <1>1, <1>2, <1>4
  <2>2. n % B = n + B
    BY <1>1, <1>2, <2>1, ShiftedResidue
  <2>3. ExpSetInt(n) = kept + (high - 1 + carry) * B
    BY <1>4 DEF ExpSetInt, C, B
  <2>4. rest \in 0 .. B - 1 /\ high \in Int /\ C = B * high + rest
    BY <1>1, Division
  <2>5. low = rest + n + B /\ low \in Int
    BY <1>1, <1>2, <2>2, <2>4
  <2> HIDE DEF low, rest, high
  <2>6. kept \in 0 .. B - 1 /\ carry \in Int /\ low = B * carry + kept
    BY <1>1, <2>5, Division
  <2> HIDE DEF kept, carry
  <2>7. (high - 1 + carry) * B = B * high - B + B * carry
        /\ B * high \in Int /\ B * carry \in Int /\ (high - 1 + carry) * B \in Int
    BY <1>1, <2>4, <2>6
  <2> DEFINE x == B * high
             y == B * carry
             z == (high - 1 + carry) * B
  <2>8. z = x - B + y /\ C = x + rest /\ low = y + kept /\ ExpSetInt(n) = kept + z
        /\ x \in Int /\ y \in Int /\ z \in Int /\ rest \in Int /\ kept \in Int
    BY <2>3, <2>4, <2>6, <2>7
  <2> HIDE DEF x, y, z
  <2>9. ExpSetInt(n) = n + C
    BY <1>1, <1>2, <2>5, <2>8
  <2>10. n \in -C .. -1 /\ n + C \in 0 .. C - 1
    BY <1>1, <2>1
  <2>11. n % C = n + C
    BY <1>1, <1>2, <2>10, ShiftedResidue
  <2>12. QED
    BY <2>9, <2>10, <2>11 DEF Canonical, C
<1>5. QED
  BY <1>2, <1>3, <1>4

-----------------------------------------------------------------------------
(* The calls.                                                               *)

(* Variables hold what they should, in least representation.                *)
ExponentsInv ==
  /\ exponent \in [ExponentNames -> 0 .. CurveExponent - 1]
  /\ meant = exponent

LEMMA StoreKeeps ==
  ASSUME ExponentsInv, NEW z \in ExponentNames, NEW v, NEW n \in Int, Canonical(v, n), Store(z, v, n)
  PROVE  ExponentsInv'
<1> DEFINE R == 0 .. CurveExponent - 1
           after == [exponent EXCEPT ![z] = v]
<1>1. exponent \in [ExponentNames -> R] /\ meant = exponent
  BY DEF ExponentsInv
<1>2. v \in R /\ v = n % CurveExponent
  BY DEF Canonical
<1> HIDE DEF R
<1>3. exponent' = after /\ meant' = after
  BY <1>1, <1>2 DEF Store
<1>4. after \in [ExponentNames -> R]
  BY <1>1, <1>2
<1>5. QED
  BY <1>3, <1>4 DEF ExponentsInv, R, CurveExponent

(* As long as Neg is only called with its receiver as argument.             *)
LEMMA ExponentsStep ==
  ASSUME \A c \in NegCalls : c[1] = c[2], ExponentsInv, [ExponentsNext]_exponentVars
  PROVE  ExponentsInv'
<1>1. /\ exponent \in [ExponentNames -> 0 .. CurveExponent - 1] /\ meant = exponent
  BY DEF ExponentsInv
<1>2. \A x \in ExponentNames : /\ exponent[x] \in 0 .. CurveExponent - 1 /\ exponent[x] \in Int
                               /\ meant[x] = exponent[x]
  <2>1. CurveExponent \in Nat
    BY ExponentConstants
  <2> HIDE DEF CurveExponent
  <2>2. QED
    BY <1>1, <2>1
<1>3. ASSUME NEW z \in ExponentNames, SetZero(z) \/ SetOne(z)
      PROVE  ExponentsInv'
  <2>1. Canonical(0, 0) /\ Canonical(1, 1)
    <3> DEFINE C == CurveExponent
    <3>1. C \in Nat \ {0} /\ C > 1
      BY ExponentConstants
    <3> HIDE DEF C
    <3>2. 0 \in 0 .. C - 1 /\ 1 \in 0 .. C - 1
      BY <3>1
    <3>3. 0 % C = 0 /\ 1 % C = 1
      BY <3>1, <3>2, SmallNumber
    <3>4. QED
      BY <3>2, <3>3 DEF Canonical, C
  <2>2. QED
    BY <1>3, <2>1, StoreKeeps DEF SetZero, SetOne
<1>4. ASSUME NEW z \in ExponentNames, NEW n \in BigInts,
             CallSetBigInt(z, n) \/ CallSetUInt(z, n) \/ CallSetInt(z, n)
      PROVE  ExponentsInv'
  <2>1. n \in Int
    BY ExponentsAssumption
  <2>2. CASE CallSetBigInt(z, n)
    BY <2>1, <2>2, ProductCanonical, StoreKeeps DEF CallSetBigInt
  <2>3. CASE CallSetUInt(z, n)
    BY <2>1, <2>3, SmallCanonical, StoreKeeps DEF CallSetUInt
  <2>4. CASE CallSetInt(z, n)
    BY <2>1, <2>4, SignedCanonical, StoreKeeps DEF CallSetInt
  <2>5. QED
    BY <1>4, <2>2, <2>3, <2>4
<1>5. ASSUME NEW z \in ExponentNames, NEW x \in ExponentNames, CallNeg(z, x)
      PROVE  ExponentsInv'
  <2>1. z = x
    <3>1. <<z, x>> \in NegCalls
      BY <1>5 DEF CallNeg
    <3>2. <<z, x>>[1] = <<z, x>>[2]
      BY <3>1
    <3>3. QED
      BY <3>2
  <2>2. Store(z, ExpNeg(exponent[x], exponent[x]), -exponent[x])
    BY <1>2, <1>5, <2>1 DEF CallNeg
  <2>3. Canonical(ExpNeg(exponent[x], exponent[x]), -exponent[x]) /\ -exponent[x] \in Int
    <3> DEFINE e == exponent[x]
    <3>1. e \in 0 .. CurveExponent - 1 /\ e \in Int
      BY <1>2
    <3> HIDE DEF e
    <3>2. Canonical(ExpNeg(e, e), -e) /\ -e \in Int
      BY <3>1, NegCanonical
    <3>3. QED
      BY <3>2 DEF e
  <2>4. QED
    BY <2>2, <2>3, StoreKeeps
<1>6. ASSUME NEW z \in ExponentNames, NEW x \in ExponentNames, NEW y \in ExponentNames,
             CallAdd(z, x, y) \/ CallSub(z, x, y) \/ CallMul(z, x, y)
      PROVE  ExponentsInv'
  <2> DEFINE a == exponent[x]
             b == exponent[y]
  <2>1. a \in 0 .. CurveExponent - 1 /\ b \in 0 .. CurveExponent - 1 /\ a \in Int /\ b \in Int
        /\ meant[x] = a /\ meant[y] = b
    BY <1>2
  <2>2. \/ Store(z, ExpAdd(a, b), a + b) \/ Store(z, ExpSub(a, b), a - b)
        \/ Store(z, ExpMul(a, b), a * b)
    BY <1>6, <2>1 DEF CallAdd, CallSub, CallMul
  <2> HIDE DEF a, b
  <2>3. a + b \in Int /\ a - b \in Int /\ a * b \in Int
    BY <2>1
  <2>4. Canonical(ExpAdd(a, b), a + b) /\ Canonical(ExpSub(a, b), a - b)
    BY <2>1, SumCanonical
  <2>5. Canonical(ExpMul(a, b), a * b)
    BY <2>3, ProductCanonical DEF ExpMul
  <2>6. QED
    BY <2>2, <2>3, <2>4, <2>5, StoreKeeps
<1>7. CASE UNCHANGED exponentVars
  BY <1>1, <1>7 DEF exponentVars, ExponentsInv, CurveExponent
<1>8. QED
  BY <1>3, <1>4, <1>5, <1>6, <1>7 DEF ExponentsNext

LEMMA ExponentsStart == ExponentsInit => ExponentsInv
<1> SUFFICES ASSUME ExponentsInit PROVE ExponentsInv
  OBVIOUS
<1>1. /\ exponent \in InitialExponents /\ meant = exponent
  BY DEF ExponentsInit
<1>2. exponent \in [ExponentNames -> 0 .. CurveExponent - 1]
  BY <1>1, ExponentsAssumption
<1>3. QED
  BY <1>1, <1>2 DEF ExponentsInv

(* After any calls the variables hold what they should, provided that Neg   *)
(* is only called with its receiver as argument.                            *)
THEOREM ExponentsInvariance ==
  (\A c \in NegCalls : c[1] = c[2]) => (ExponentsSpec => []ExponentsInv)
<1> SUFFICES ASSUME \A c \in NegCalls : c[1] = c[2]
             PROVE  ExponentsSpec => []ExponentsInv
  OBVIOUS
<1>1. ExponentsInit => ExponentsInv
  BY ExponentsStart
<1>2. ExponentsInv /\ [ExponentsNext]_exponentVars => ExponentsInv'
  BY ExponentsStep
<1>3. QED
  BY <1>1, <1>2, PTL DEF ExponentsSpec

(* What the tests modulo p253 say of a value modulo 2*p253.                 *)
LEMMA ViewsRight ==
  ASSUME NEW z \in 0 .. CurveExponent - 1
  PROVE  LET view == z % GroupOrder
         IN  /\ IsZero_Subgroup(z) <=> view = 0
             /\ IsOne_Subgroup(z) <=> view = 1
             /\ IsZero_Full(z) => IsZero_Subgroup(z)
             /\ IsOne_Full(z) => IsOne_Subgroup(z)
<1> DEFINE P == GroupOrder
           view == z % P
<1>1. P \in Nat \ {0} /\ P > 1 /\ z \in 0 .. 2 * P - 1
  <2>1. P \in Nat /\ P > 1 /\ CurveExponent = 2 * P
    BY ExponentConstants
  <2> HIDE DEF P, CurveExponent
  <2>2. QED
    BY <2>1
<1> HIDE DEF P
<1>2. view = IF z < P THEN z ELSE z - P
  <2>1. CASE z < P
    <3>1. z \in 0 .. P - 1
      BY <1>1, <2>1
    <3>2. QED
      BY <1>1, <2>1, <3>1, SmallNumber
  <2>2. CASE ~(z < P)
    <3>1. z \in P .. 2 * P - 1 /\ z \in Int
      BY <1>1, <2>2
    <3>2. QED
      BY <1>1, <2>2, <3>1, ShiftedResidue
  <2>3. QED
    BY <2>1, <2>2
<1> HIDE DEF view
<1>3. /\ z = 0 \/ z = P <=> view = 0
      /\ z = 1 \/ z = P + 1 <=> view = 1
  BY <1>1, <1>2
<1>4. QED
  BY <1>3 DEF IsZero_Subgroup, IsOne_Subgroup, IsZero_Full, IsOne_Full, view, P

(* For words of any size and any odd group order that fits them, every      *)
(* variable holds the least representative modulo 2*p253 of what the calls  *)
(* compute, and the tests for zero and one modulo p253 say so, as long as   *)
(* Neg is called with its receiver as argument (with another one it         *)
(* computes something else).  Nothing is said of ModuloP253, which is wrong *)
(* above p253.                                                              *)
THEOREM ExponentsCorrect ==
  (\A c \in NegCalls : c[1] = c[2]) => (ExponentsSpec => []ExponentsExact)
<1> SUFFICES ASSUME \A c \in NegCalls : c[1] = c[2]
             PROVE  ExponentsSpec => []ExponentsExact
  OBVIOUS
<1>1. ExponentsInv => ExponentsExact
  <2> SUFFICES ASSUME ExponentsInv PROVE ExponentsExact
    OBVIOUS
  <2>1. ASSUME NEW n \in ExponentNames
        PROVE  exponent[n] \in 0 .. CurveExponent - 1 /\ exponent[n] = meant[n]
    <3> DEFINE R == 0 .. CurveExponent - 1
    <3>1. exponent \in [ExponentNames -> R] /\ meant = exponent
      BY DEF ExponentsInv
    <3> HIDE DEF R
    <3>2. exponent[n] \in R /\ exponent[n] = meant[n]
      BY <3>1
    <3>3. QED
      BY <3>2 DEF R
  <2>2. QED
    BY <2>1, ViewsRight DEF ExponentsExact
<1>2. ExponentsSpec => []ExponentsInv
  BY ExponentsInvariance
<1>3. QED
  BY <1>1, <1>2, PTL

-----------------------------------------------------------------------------
(* Binary digits.                                                           *)

(* Division by a product, in two steps.                                     *)
LEMMA TwoDivisions ==
  ASSUME NEW v \in Nat, NEW p \in Nat \ {0}, NEW q \in Nat \ {0}
  PROVE  /\ v \div p \in Nat /\ v % p \in Nat
         /\ v \div (p * q) = (v \div p) \div q /\ v % (p * q) = (v % p) + p * ((v \div p) % q)
         /\ (v % (p * q)) % p = v % p /\ (v % (p * q)) \div p = (v \div p) % q
<1> DEFINE a == v \div p
           b == v % p
           c == a \div q
           d == a % q
<1>1. a \in Int /\ b \in 0 .. p - 1 /\ v = p * a + b
  BY Division
<1> HIDE DEF a, b
<1>2. a >= 0
  <2>1. ASSUME a < 0 PROVE FALSE
    <3>1. a <= -1 /\ -1 \in Int
      BY <1>1, <2>1
    <3>2. p * a <= p * (-1) /\ p * a \in Int
      BY <1>1, <3>1, Monotone
    <3>3. QED
      BY <1>1, <3>2
  <2>2. QED
    BY <1>1, <2>1
<1>3. c \in Int /\ d \in 0 .. q - 1 /\ a = q * c + d
  BY <1>1, Division
<1> HIDE DEF c, d
<1> DEFINE r == p * d + b
<1>4. v = (p * q) * c + r /\ p * q \in Nat \ {0}
  BY <1>1, <1>3
<1>5. r \in 0 .. p * q - 1
  <2>1. d <= q - 1 /\ d \in Nat /\ q - 1 \in Int
    BY <1>3
  <2>2. p * d <= p * (q - 1) /\ p * d \in Int /\ p * d >= 0
    BY <2>1, Monotone
  <2>3. p * (q - 1) = p * q - p /\ p * q \in Int
    OBVIOUS
  <2>4. QED
    BY <1>1, <2>2, <2>3
<1> HIDE DEF r
<1>6. v % (p * q) = r /\ v \div (p * q) = c
  <2> DEFINE m == p * q
  <2>1. m \in Nat \ {0} /\ v = m * c + r /\ r \in 0 .. m - 1
    BY <1>4, <1>5
  <2> HIDE DEF m
  <2>2. (m * c + r) % m = r /\ (m * c + r) \div m = c
    BY <1>3, <2>1, DivisionUnique
  <2>3. QED
    BY <2>1, <2>2 DEF m
<1>7. r % p = b /\ r \div p = d
  <2>1. (p * d + b) % p = b /\ (p * d + b) \div p = d
    BY <1>1, <1>3, DivisionUnique
  <2>2. QED
    BY <2>1 DEF r
<1>8. a \in Nat /\ b \in Nat
  BY <1>1, <1>2
<1>9. r = b + p * d
  BY <1>1, <1>3 DEF r
<1>10. QED
  BY <1>6, <1>7, <1>8, <1>9 DEF a, b, c, d

(* The powers of 2 that the prover is told of.                              *)
PowersKnown(N) == N \in Nat /\ 2^0 = 1 /\ \A k \in 0 .. N - 1 : 2^(k + 1) = 2 * 2^k

(* The powers of both decompositions are known.                             *)
LEMMA KnownPowers ==
  /\ WordBits \in Nat \ {0} /\ inputBitLen \in Nat \ {0}
  /\ PowersKnown(5 * WordBits) /\ PowersKnown(2 * inputBitLen)
BY WordBitsAssumption, PowersAssumption, inputBitLenAssumption, DigitPowersAssumption DEF PowersKnown

(* Powers are positive, and that of a sum is a product.                     *)
LEMMA PowerIs ==
  ASSUME NEW N, PowersKnown(N), NEW a \in Nat, NEW b \in Nat, a + b <= N
  PROVE  /\ 2^a \in Nat \ {0} /\ 2^b \in Nat \ {0} /\ 2^(a + b) \in Nat \ {0}
         /\ 2^(a + b) = 2^a * 2^b /\ 2^a <= 2^(a + b)
<1>1. N \in Nat /\ 2^0 = 1 /\ \A k \in 0 .. N - 1 : 2^(k + 1) = 2 * 2^k
  BY DEF PowersKnown
<1>2. \A k \in 0 .. N : 2^k \in Nat \ {0}
  BY <1>1, PowersUpTo
<1>3. 2^(a + b) = 2^a * 2^b
  BY <1>1, PowersAddUpTo
<1>4. 2^a \in Nat \ {0} /\ 2^b \in Nat \ {0} /\ 2^(a + b) \in Nat \ {0}
  <2>1. a \in 0 .. N /\ b \in 0 .. N /\ a + b \in 0 .. N
    BY <1>1
  <2>2. QED
    BY <1>2, <2>1
<1>5. 2^a <= 2^(a + b)
  <2> DEFINE A == 2^a
             B == 2^b
  <2>1. A \in Nat /\ B \in Nat /\ 1 <= B
    BY <1>4
  <2> HIDE DEF A, B
  <2>2. A * 1 <= A * B /\ A * 1 = A
    BY <2>1, Monotone
  <2>3. QED
    BY <1>3, <2>2 DEF A, B
<1>6. QED
  BY <1>3, <1>4, <1>5

(* The first two powers.                                                    *)
LEMMA FirstPowers ==
  ASSUME NEW N, PowersKnown(N)
  PROVE  2^0 = 1 /\ (N >= 1 => 2^1 = 2)
<1>1. N \in Nat /\ 2^0 = 1 /\ \A k \in 0 .. N - 1 : 2^(k + 1) = 2 * 2^k
  BY DEF PowersKnown
<1>2. ASSUME N >= 1 PROVE 2^1 = 2
  <2>1. 0 \in 0 .. N - 1 /\ 0 + 1 = 1
    BY <1>1, <1>2
  <2>2. 2^(0 + 1) = 2 * 2^0
    BY <1>1, <2>1
  <2>3. QED
    BY <1>1, <2>1, <2>2
<1>3. QED
  BY <1>1, <1>2

(* A number cut at bit a and at bit a + b.                                  *)
CutsAt(v, a, b) ==
  /\ v \div 2^a \in Nat /\ v % 2^a \in Nat
  /\ v \div 2^(a + b) = (v \div 2^a) \div 2^b
  /\ v % 2^(a + b) = (v % 2^a) + 2^a * ((v \div 2^a) % 2^b)
  /\ (v % 2^(a + b)) % 2^a = v % 2^a /\ (v % 2^(a + b)) \div 2^a = (v \div 2^a) % 2^b

(* Division by powers of 2, bit by bit.                                     *)
LEMMA Cuts ==
  ASSUME NEW N, PowersKnown(N), NEW v \in Nat, NEW a \in Nat, NEW b \in Nat, a + b <= N
  PROVE  CutsAt(v, a, b)
<1> DEFINE A == 2^a
           B == 2^b
           C == 2^(a + b)
<1>1. A \in Nat \ {0} /\ B \in Nat \ {0} /\ C = A * B
  BY PowerIs
<1> HIDE DEF A, B, C
<1>2. /\ v \div A \in Nat /\ v % A \in Nat
      /\ v \div C = (v \div A) \div B /\ v % C = (v % A) + A * ((v \div A) % B)
      /\ (v % C) % A = v % A /\ (v % C) \div A = (v \div A) % B
  <2>1. /\ v \div A \in Nat /\ v % A \in Nat
        /\ v \div (A * B) = (v \div A) \div B /\ v % (A * B) = (v % A) + A * ((v \div A) % B)
        /\ (v % (A * B)) % A = v % A /\ (v % (A * B)) \div A = (v \div A) % B
    BY <1>1, TwoDivisions, ZenonT(60)
  <2>2. QED
    BY <1>1, <2>1, ZenonT(60)
<1>3. QED
  BY <1>2 DEF A, B, C, CutsAt

(* The trailing zeros of a word, and the odd number above them.             *)
ZerosOf(w, t) ==
  /\ t \in 0 .. WordBits /\ w % 2^t = 0
  /\ t = WordBits => w = 0
  /\ t # WordBits => (w \div 2^t) % 2 = 1
  /\ \A k \in 0 .. WordBits : w % 2^k = 0 => k <= t

(* TrailingZeros64 finds them.                                              *)
LEMMA TrailingZerosRight ==
  ASSUME NEW w \in 0 .. W - 1
  PROVE  ZerosOf(w, TrailingZeros64(w))
<1> DEFINE Is(t) == w % 2^t = 0 /\ (t = WordBits \/ w % 2^(t + 1) # 0)
           t == TrailingZeros64(w)
           Bad == {k \in 0 .. WordBits : w % 2^k # 0}
<1>1. /\ WordBits \in Nat \ {0} /\ PowersKnown(5 * WordBits) /\ W = 2^WordBits /\ W \in Nat /\ w \in Nat
      /\ 2^0 = 1 /\ 2^1 = 2
  <2>1. WordBits \in Nat \ {0} /\ PowersKnown(5 * WordBits) /\ W = 2^WordBits
    BY KnownPowers DEF W
  <2>2. W \in Nat
    BY WordIsPower
  <2>3. 5 * WordBits >= 1
    BY <2>1
  <2>4. 2^0 = 1 /\ 2^1 = 2
    BY <2>1, <2>3, FirstPowers
  <2> HIDE DEF W
  <2>5. QED
    BY <2>1, <2>2, <2>4
<1> HIDE DEF W
<1>2. \E k \in 0 .. WordBits : Is(k)
  <2>1. CASE Bad = {}
    <3>1. WordBits \in 0 .. WordBits
      BY <1>1
    <3>2. w % 2^WordBits = 0
      BY <2>1, <3>1
    <3>3. QED
      BY <3>1, <3>2
  <2>2. CASE Bad # {}
    <3>1. PICK k \in Bad : \A m \in Bad : k <= m
      <4>1. Bad \subseteq Nat
        BY <1>1
      <4> HIDE DEF Bad
      <4>2. QED
        BY <2>2, <4>1, LeastElement
    <3>2. k \in 0 .. WordBits /\ w % 2^k # 0
      OBVIOUS
    <3>3. k # 0
      <4>1. w % 1 = 0
        BY <1>1
      <4>2. QED
        BY <1>1, <3>2, <4>1
    <3>4. k - 1 \in 0 .. WordBits /\ (k - 1) + 1 = k /\ k - 1 < k
      BY <1>1, <3>2, <3>3
    <3>5. k - 1 \notin Bad
      <4> HIDE DEF Bad
      <4>1. QED
        BY <3>1, <3>2, <3>4
    <3>6. Is(k - 1)
      BY <3>2, <3>4, <3>5
    <3>7. QED
      BY <3>4, <3>6
  <2>3. QED
    BY <2>1, <2>2
<1>3. t \in 0 .. WordBits /\ Is(t)
  <2>1. t = CHOOSE k \in 0 .. WordBits : Is(k)
    BY DEF TrailingZeros64
  <2> HIDE DEF t, Is
  <2>2. QED
    BY <1>2, <2>1
<1> HIDE DEF t
<1>4. t = WordBits => w = 0
  <2>1. w % W = w
    BY <1>1, SmallNumber
  <2>2. QED
    BY <1>1, <1>3, <2>1
<1>5. t # WordBits => (w \div 2^t) % 2 = 1
  <2>1. ASSUME t # WordBits PROVE (w \div 2^t) % 2 = 1
    <3>1. t \in Nat /\ 1 \in Nat /\ t + 1 <= 5 * WordBits
      BY <1>1, <1>3, <2>1
    <3>2. CutsAt(w, t, 1)
      BY <1>1, <3>1, Cuts
    <3> DEFINE x == w \div 2^t
               A == 2^t
    <3>3. w % 2^(t + 1) = (w % A) + A * (x % 2) /\ x \in Nat
      BY <1>1, <3>2 DEF CutsAt
    <3>4. A \in Nat
      BY <1>1, <3>1, PowerIs
    <3>5. w % A = 0 /\ w % 2^(t + 1) # 0
      BY <1>3, <2>1
    <3> HIDE DEF x, A
    <3>6. ASSUME x % 2 = 0 PROVE FALSE
      <4>1. A * 0 = 0
        BY <3>4
      <4>2. QED
        BY <3>3, <3>5, <3>6, <4>1
    <3>7. x % 2 \in 0 .. 1
      BY <3>3
    <3>8. x % 2 = 1
      BY <3>6, <3>7
    <3>9. QED
      BY <3>8 DEF x
  <2>2. QED
    BY <2>1
<1>6. ASSUME NEW k \in 0 .. WordBits, w % 2^k = 0 PROVE k <= t
  <2>1. SUFFICES ASSUME t < k PROVE FALSE
    BY <1>1, <1>3
  <2> DEFINE a == t + 1
             b == k - (t + 1)
  <2>2. a \in Nat /\ b \in Nat /\ a + b = k /\ a + b <= 5 * WordBits /\ t # WordBits
    BY <1>1, <1>3, <2>1
  <2>3. w % 2^a # 0
    BY <1>3, <2>2
  <2> HIDE DEF a, b
  <2>4. CutsAt(w, a, b) /\ 2^a \in Nat \ {0}
    BY <1>1, <2>2, Cuts, PowerIs
  <2>5. (w % 2^k) % 2^a = w % 2^a
    BY <2>2, <2>4 DEF CutsAt
  <2>6. 0 % 2^a = 0
    <3> DEFINE A == 2^a
    <3>1. A \in Nat \ {0} /\ 0 \in 0 .. A - 1
      BY <2>4
    <3> HIDE DEF A
    <3>2. 0 % A = 0
      BY <3>1, SmallNumber
    <3>3. QED
      BY <3>2 DEF A
  <2>7. QED
    BY <1>6, <2>3, <2>5, <2>6
<1>7. QED
  BY <1>3, <1>4, <1>5, <1>6 DEF ZerosOf, t

-----------------------------------------------------------------------------
(* Windows.                                                                 *)

(* The powers at the sizes of a word and of a Uint256.                      *)
LEMMA WordIsPowerOfTwo ==
  /\ WordBits \in Nat \ {0} /\ PowersKnown(5 * WordBits)
  /\ W = 2^WordBits /\ Two256 = 2^(4 * WordBits)
<1>1. WordBits \in Nat \ {0} /\ PowersKnown(5 * WordBits) /\ W = 2^WordBits
  BY KnownPowers DEF W
<1> DEFINE n == WordBits
<1>2. n \in Nat /\ n + n = 2 * n /\ n + 2 * n = 3 * n /\ n + 3 * n = 4 * n
      /\ 2 * n \in Nat /\ 3 * n \in Nat /\ 2 * n <= 5 * n /\ 3 * n <= 5 * n /\ 4 * n <= 5 * n
  BY <1>1
<1>3. PowersKnown(5 * n) /\ W = 2^n
  BY <1>1
<1> HIDE DEF n, W
<1>4. 2^(n + n) = 2^n * 2^n
  BY <1>2, <1>3, PowerIs
<1>5. 2^(n + 2 * n) = 2^n * 2^(2 * n)
  BY <1>2, <1>3, PowerIs
<1>6. 2^(n + 3 * n) = 2^n * 2^(3 * n)
  BY <1>2, <1>3, PowerIs
<1>7. 2^(4 * n) = W * (W * (W * W))
  BY <1>2, <1>3, <1>4, <1>5, <1>6
<1>8. Two256 = W * (W * (W * W))
  BY WordPowers
<1>9. QED
  BY <1>1, <1>7, <1>8 DEF n

(* The number of squarings between two entries is that of the difference of *)
(* their positions.                                                         *)
Entry == [exp : Nat, pos : 0 .. 4 * WordBits - 1]
Descending(d) == \A i \in 1 .. Len(d) - 1 : d[i + 1].pos <= d[i].pos
Accumulates(f, d) ==
  /\ f \in [1 .. Len(d) -> Nat] /\ f[1] = d[1].exp
  /\ \A i \in 2 .. Len(d) : f[i] = f[i - 1] * 2^(d[i - 1].pos - d[i].pos) + d[i].exp

(* As many squarings as two positions differ.                               *)
LEMMA Squarings ==
  ASSUME NEW a \in 0 .. 4 * WordBits - 1, NEW b \in 0 .. 4 * WordBits - 1, b <= a
  PROVE  a - b \in Nat /\ 2^(a - b) \in Nat \ {0} /\ 2^b \in Nat \ {0} /\ 2^(a - b) * 2^b = 2^a
<1>1. WordBits \in Nat \ {0} /\ PowersKnown(5 * WordBits)
  BY KnownPowers
<1>2. a - b \in Nat /\ b \in Nat /\ (a - b) + b = a /\ (a - b) + b <= 5 * WordBits
  BY <1>1
<1> DEFINE c == a - b
<1>3. c \in Nat /\ b \in Nat /\ c + b = a /\ c + b <= 5 * WordBits
  BY <1>2
<1> HIDE DEF c
<1>4. 2^(c + b) = 2^c * 2^b /\ 2^c \in Nat \ {0} /\ 2^b \in Nat \ {0}
  BY <1>1, <1>3, PowerIs
<1>5. QED
  BY <1>3, <1>4 DEF c

(* The accumulator of ExponentOf, entry by entry.                           *)
LEMMA Accumulator ==
  ASSUME NEW d \in Seq(Entry), d # <<>>, Descending(d)
  PROVE  \E f : Accumulates(f, d) /\ ExponentOf(d) = f[Len(d)] * 2^(d[Len(d)].pos)
<1> DEFINE n == Len(d)
           shift(i) == 2^(d[i - 1].pos - d[i].pos)
           term(i, v) == IF i \in 2 .. n THEN v * shift(i) + d[i].exp ELSE 0
           G == [p \in (2 .. n) \X Nat |-> term(p[1], p[2])]
           Is(f) == f = [i \in 1 .. n |-> IF i = 1 THEN d[1].exp
                                          ELSE f[i - 1] * 2^(d[i - 1].pos - d[i].pos) + d[i].exp]
           acc == CHOOSE f : Is(f)
<1>1. n \in Nat /\ n >= 1 /\ n # 0
  OBVIOUS
<1>2. \A i \in 1 .. n : d[i] \in Entry /\ d[i].exp \in Nat /\ d[i].pos \in 0 .. 4 * WordBits - 1
  <2>1. ASSUME NEW i \in 1 .. n PROVE d[i] \in Entry
    OBVIOUS
  <2>2. ASSUME NEW x \in Entry PROVE x.exp \in Nat /\ x.pos \in 0 .. 4 * WordBits - 1
    BY DEF Entry
  <2> HIDE DEF n
  <2>3. QED
    BY <2>1, <2>2
<1>3. ASSUME NEW i \in 2 .. n PROVE shift(i) \in Nat
  <2>1. i - 1 \in 1 .. n /\ i \in 1 .. n /\ i - 1 \in 1 .. Len(d) - 1 /\ (i - 1) + 1 = i
    BY <1>1
  <2>2. d[i].pos <= d[i - 1].pos
    BY <2>1 DEF Descending
  <2>3. QED
    BY <1>2, <2>1, <2>2, Squarings
<1> HIDE DEF shift
<1>4. ASSUME NEW i \in 2 .. n, NEW v \in Nat
      PROVE  G[<<i, v>>] = v * shift(i) + d[i].exp /\ G[<<i, v>>] \in Nat
  <2>1. <<i, v>> \in (2 .. n) \X Nat /\ <<i, v>>[1] = i /\ <<i, v>>[2] = v
    OBVIOUS
  <2>2. i \in 1 .. n
    BY <1>1
  <2>3. v * shift(i) + d[i].exp \in Nat
    <3> DEFINE a == shift(i)
               b == d[i].exp
    <3>1. a \in Nat /\ b \in Nat
      BY <1>2, <1>3, <2>2
    <3> HIDE DEF a, b
    <3>2. v * a + b \in Nat
      BY <3>1
    <3>3. QED
      BY <3>2 DEF a, b
  <2>4. G[<<i, v>>] = term(i, v)
    <3> HIDE DEF term
    <3>1. QED
      BY <2>1
  <2>5. QED
    BY <2>3, <2>4
<1>5. PICK f \in [1 .. n -> Nat] : f[1] = d[1].exp /\ \A j \in 2 .. n : f[j] = G[<<j, f[j - 1]>>]
  <2> DEFINE V == Nat
             lo == 1
             a == d[1].exp
  <2> HIDE DEF G
  <2>1. 1 \in 1 .. n /\ \A j \in 2 .. n, v \in Nat : G[<<j, v>>] \in Nat
    BY <1>1, <1>4
  <2>2. /\ lo \in Int /\ n \in Int /\ lo <= n /\ a \in V
        /\ \A j \in lo + 1 .. n, v \in V : G[<<j, v>>] \in V
    BY <1>1, <1>2, <2>1
  <2>3. lo + 1 = 2
    OBVIOUS
  <2> HIDE DEF V, lo, a, G, n
  <2>4. PICK f \in [lo .. n -> V] : Recursion(f, lo, n, a, G)
    BY <2>2, RecursionExists
  <2>5. QED
    BY <2>3, <2>4 DEF V, lo, a, Recursion
<1>6. ASSUME NEW i \in 2 .. n PROVE f[i] = f[i - 1] * shift(i) + d[i].exp
  <2>1. i - 1 \in 1 .. n
    BY <1>1
  <2>2. f[i - 1] \in Nat
    BY <2>1
  <2> HIDE DEF G
  <2>3. f[i] = G[<<i, f[i - 1]>>]
    BY <1>5
  <2>4. QED
    BY <1>4, <2>2, <2>3
<1>7. Is(f)
  <2>1. f = [i \in 1 .. n |-> f[i]]
    OBVIOUS
  <2>2. ASSUME NEW i \in 1 .. n
        PROVE  f[i] = IF i = 1 THEN d[1].exp ELSE f[i - 1] * 2^(d[i - 1].pos - d[i].pos) + d[i].exp
    <3>1. i # 1 => i \in 2 .. n
      BY <1>1
    <3>2. QED
      BY <1>5, <1>6, <3>1 DEF shift
  <2>3. QED
    BY <2>1, <2>2
<1>8. Is(acc)
  BY <1>7
<1>9. ExponentOf(d) = acc[n] * 2^(d[n].pos)
  BY <1>1 DEF ExponentOf
<1> HIDE DEF acc
<1>10. \A i \in 1 .. n : acc[i] = IF i = 1 THEN d[1].exp
                                  ELSE acc[i - 1] * 2^(d[i - 1].pos - d[i].pos) + d[i].exp
  BY <1>8
<1>11. acc[1] = d[1].exp /\ \A i \in 2 .. n : acc[i] = acc[i - 1] * shift(i) + d[i].exp
  <2>1. 1 \in 1 .. n
    BY <1>1
  <2>2. acc[1] = d[1].exp
    BY <1>10, <2>1
  <2>3. ASSUME NEW i \in 2 .. n PROVE acc[i] = acc[i - 1] * shift(i) + d[i].exp
    <3>1. i \in 1 .. n /\ i # 1
      BY <1>1
    <3>2. QED
      BY <1>10, <3>1 DEF shift
  <2>4. QED
    BY <2>2, <2>3
<1>12. \A i \in 1 .. n : acc[i] \in Nat
  <2> DEFINE m == n - 1
             S == {k \in 0 .. m : acc[k + 1] \in Nat}
  <2>1. m \in Nat
    BY <1>1
  <2>2. 0 \in S
    <3>1. 1 \in 1 .. n /\ 0 + 1 = 1 /\ 0 \in 0 .. m
      BY <1>1
    <3>2. QED
      BY <1>2, <1>11, <3>1
  <2>3. ASSUME NEW k \in 0 .. m - 1, k \in S PROVE k + 1 \in S
    <3>1. k + 1 \in 0 .. m /\ (k + 1) + 1 \in 2 .. n /\ (k + 1) + 1 \in 1 .. n /\ ((k + 1) + 1) - 1 = k + 1
      BY <1>1
    <3>2. acc[k + 1] \in Nat
      BY <2>3
    <3> DEFINE i == (k + 1) + 1
               a == acc[k + 1]
               b == shift(i)
               c == d[i].exp
    <3>3. a \in Nat /\ b \in Nat /\ c \in Nat /\ acc[i] = a * b + c
      BY <1>2, <1>3, <1>11, <3>1, <3>2
    <3> HIDE DEF i, a, b, c
    <3>4. acc[i] \in Nat
      BY <3>3
    <3>5. QED
      BY <3>1, <3>4 DEF i
  <2> HIDE DEF S
  <2>4. \A k \in 0 .. m : k \in S
    BY <2>1, <2>2, <2>3, UpTo
  <2>5. ASSUME NEW i \in 1 .. n PROVE acc[i] \in Nat
    <3>1. i - 1 \in 0 .. m /\ (i - 1) + 1 = i
      BY <1>1
    <3>2. QED
      BY <2>4, <3>1 DEF S
  <2>6. QED
    BY <2>5
<1>13. acc \in [1 .. n -> Nat]
  BY <1>8, <1>12
<1>14. Accumulates(acc, d)
  BY <1>11, <1>13 DEF Accumulates, shift
<1>15. QED
  BY <1>9, <1>14

(* What an entry in front adds to the exponent.                             *)
LEMMA OneMore ==
  ASSUME NEW d \in Seq(Entry), Descending(d), NEW x \in Entry, d # <<>> => d[1].pos <= x.pos
  PROVE  /\ <<x>> \o d \in Seq(Entry) /\ Descending(<<x>> \o d)
         /\ ExponentOf(<<x>> \o d) = x.exp * 2^(x.pos) + ExponentOf(d)
<1> DEFINE e == <<x>> \o d
           n == Len(d)
<1>1. /\ n \in Nat /\ e \in Seq(Entry) /\ Len(e) = n + 1 /\ e # <<>> /\ e[1] = x
      /\ \A i \in 1 .. n : e[i + 1] = d[i]
  OBVIOUS
<1>2. \A i \in 1 .. n : d[i] \in Entry
  OBVIOUS
<1>3. \A y \in Entry : y.exp \in Nat /\ y.pos \in 0 .. 4 * WordBits - 1
  BY DEF Entry
<1>4. \A i \in 1 .. n - 1 : d[i + 1].pos <= d[i].pos
  BY DEF Descending
<1>5. n # 0 => d # <<>>
  OBVIOUS
<1>6. n = 0 => d = <<>>
  OBVIOUS
<1> HIDE DEF e, n
<1>7. Descending(e)
  <2>1. ASSUME NEW i \in 1 .. Len(e) - 1 PROVE e[i + 1].pos <= e[i].pos
    <3>1. i \in 1 .. n /\ e[i + 1] = d[i]
      BY <1>1
    <3>2. CASE i = 1
      <4>1. e[i] = x /\ d # <<>>
        BY <1>1, <1>5, <3>1, <3>2
      <4>2. QED
        BY <3>1, <3>2, <4>1
    <3>3. CASE i # 1
      <4>1. i - 1 \in 1 .. n - 1 /\ i - 1 \in 1 .. n /\ (i - 1) + 1 = i
        BY <1>1, <3>1, <3>3
      <4>2. e[i] = d[i - 1] /\ d[i].pos <= d[i - 1].pos
        BY <1>1, <1>4, <4>1
      <4>3. QED
        BY <3>1, <4>2
    <3>4. QED
      BY <3>2, <3>3
  <2>2. QED
    BY <2>1 DEF Descending
<1>8. PICK g : Accumulates(g, e) /\ ExponentOf(e) = g[Len(e)] * 2^(e[Len(e)].pos)
  BY <1>1, <1>7, Accumulator
<1>9. g[1] = x.exp /\ \A i \in 1 .. n : g[i + 1] = g[i] * 2^(e[i].pos - d[i].pos) + d[i].exp
  <2>1. g[1] = x.exp
    BY <1>1, <1>8 DEF Accumulates
  <2>2. ASSUME NEW i \in 1 .. n PROVE g[i + 1] = g[i] * 2^(e[i].pos - d[i].pos) + d[i].exp
    <3>1. i + 1 \in 2 .. Len(e) /\ (i + 1) - 1 = i /\ e[i + 1] = d[i]
      BY <1>1
    <3>2. g[i + 1] = g[(i + 1) - 1] * 2^(e[(i + 1) - 1].pos - e[i + 1].pos) + e[i + 1].exp
      BY <1>8, <3>1 DEF Accumulates
    <3>3. QED
      BY <3>1, <3>2
  <2>3. QED
    BY <2>1, <2>2
<1>10. CASE n = 0
  <2>1. ExponentOf(d) = 0
    BY <1>6, <1>10 DEF ExponentOf
  <2>2. Len(e) = 1
    BY <1>1, <1>10
  <2>3. ExponentOf(e) = x.exp * 2^(x.pos)
    BY <1>1, <1>8, <1>9, <2>2
  <2>4. x.exp * 2^(x.pos) + 0 = x.exp * 2^(x.pos)
    <3>1. x.exp \in Nat /\ 2^(x.pos) \in Nat \ {0}
      BY <1>3, Squarings
    <3>2. QED
      BY <3>1
  <2>5. QED
    BY <1>1, <1>7, <2>1, <2>3, <2>4 DEF e
<1>11. CASE n # 0
  <2>1. PICK f : Accumulates(f, d) /\ ExponentOf(d) = f[n] * 2^(d[n].pos)
    BY <1>5, <1>11, Accumulator DEF n
  <2>2. /\ f \in [1 .. n -> Nat] /\ f[1] = d[1].exp
        /\ \A i \in 2 .. n : f[i] = f[i - 1] * 2^(d[i - 1].pos - d[i].pos) + d[i].exp
    BY <2>1 DEF Accumulates, n
  <2> DEFINE SumAt(i) == /\ d[i].pos <= x.pos
                        /\ g[i + 1] = x.exp * 2^(x.pos - d[i].pos) + f[i]
             m == n - 1
             S == {k \in 0 .. m : SumAt(k + 1)}
  <2>3. m \in Nat /\ 1 \in 1 .. n /\ n \in 1 .. n /\ m + 1 = n
    BY <1>1, <1>11
  <2>4. 0 \in S
    <3>1. 0 \in 0 .. m /\ 0 + 1 = 1 /\ e[1] = x /\ d[1].pos <= x.pos
      BY <1>1, <1>5, <1>11, <2>3
    <3>2. g[1 + 1] = g[1] * 2^(e[1].pos - d[1].pos) + d[1].exp
      BY <1>9, <2>3
    <3>3. SumAt(1)
      BY <1>9, <2>2, <3>1, <3>2
    <3> HIDE DEF SumAt
    <3>4. QED
      BY <3>1, <3>3
  <2>5. ASSUME NEW k \in 0 .. m - 1, k \in S PROVE k + 1 \in S
    <3> DEFINE i == k + 1
               j == i + 1
    <3>1. /\ i \in 1 .. n /\ j \in 1 .. n /\ j \in 2 .. n /\ j - 1 = i /\ i \in 1 .. n - 1 /\ i \in 0 .. m
      BY <1>1
    <3>2. SumAt(i)
      BY <2>5
    <3> HIDE DEF i
    <3>3. d[i].pos <= x.pos /\ g[j] = x.exp * 2^(x.pos - d[i].pos) + f[i]
      BY <3>2
    <3>4. e[j] = d[i] /\ d[j].pos <= d[i].pos
      BY <1>1, <1>4, <3>1
    <3>5. g[j + 1] = g[j] * 2^(d[i].pos - d[j].pos) + d[j].exp
      BY <1>9, <3>1, <3>4
    <3>6. f[j] = f[i] * 2^(d[i].pos - d[j].pos) + d[j].exp
      BY <2>2, <3>1
    <3> HIDE DEF j, SumAt, S
    <3> DEFINE p == x.pos
               q == d[i].pos
               r == d[j].pos
               u == 2^(p - q)
               v == 2^(q - r)
               w == 2^(p - r)
    <3>7. /\ p \in 0 .. 4 * WordBits - 1 /\ q \in 0 .. 4 * WordBits - 1 /\ r \in 0 .. 4 * WordBits - 1
          /\ x.exp \in Nat /\ d[j].exp \in Nat
      BY <1>2, <1>3, <3>1
    <3>7a. p \in Int /\ q \in Int /\ r \in Int
      <4>1. WordBits \in Nat
        BY KnownPowers
      <4> HIDE DEF p, q, r
      <4>2. QED
        BY <3>7, <4>1
    <3>8. q <= p /\ r <= q /\ p - q \in Nat /\ q - r \in Nat /\ p - r \in Nat /\ (p - q) + (q - r) = p - r
      <4>1. q <= p /\ r <= q
        BY <3>3, <3>4
      <4> HIDE DEF p, q, r
      <4>2. QED
        BY <3>7a, <4>1
    <3> HIDE DEF p, q, r
    <3>9. u \in Nat /\ v \in Nat /\ w = u * v
      <4> DEFINE a == p - q
                 b == q - r
      <4>1. a \in Nat /\ b \in Nat /\ a + b = p - r
        BY <3>8
      <4>2. a + b <= 5 * WordBits /\ PowersKnown(5 * WordBits)
        <5>1. WordBits \in Nat \ {0} /\ PowersKnown(5 * WordBits)
          BY KnownPowers
        <5>2. QED
          BY <3>7, <4>1, <5>1
      <4> HIDE DEF a, b
      <4>3. 2^(a + b) = 2^a * 2^b /\ 2^a \in Nat \ {0} /\ 2^b \in Nat \ {0}
        BY <4>1, <4>2, PowerIs
      <4>4. QED
        BY <4>1, <4>3 DEF a, b
    <3>10. g[j] = x.exp * u + f[i] /\ g[j + 1] = g[j] * v + d[j].exp /\ f[j] = f[i] * v + d[j].exp
      BY <3>3, <3>5, <3>6 DEF p, q, r
    <3> HIDE DEF u, v, w
    <3> DEFINE X == x.exp
               F == f[i]
               Y == d[j].exp
    <3>11. X \in Nat /\ F \in Nat /\ Y \in Nat
      BY <2>2, <3>1, <3>7
    <3>12. g[j] = X * u + F /\ g[j + 1] = g[j] * v + Y /\ f[j] = F * v + Y
      BY <3>10
    <3> HIDE DEF X, F, Y
    <3>13. (X * u + F) * v + Y = X * (u * v) + (F * v + Y)
      <4>1. (X * u + F) * v = X * (u * v) + F * v /\ X * (u * v) \in Nat /\ F * v \in Nat
        BY <3>9, <3>11
      <4>2. QED
        BY <3>11, <4>1
    <3>14. g[j + 1] = x.exp * 2^(x.pos - d[j].pos) + f[j]
      BY <3>9, <3>12, <3>13 DEF X, w, p, r
    <3>15. d[j].pos <= x.pos
      BY <3>7a, <3>8 DEF p, r
    <3>16. k + 1 \in 0 .. m /\ SumAt((k + 1) + 1)
      BY <3>1, <3>14, <3>15 DEF i, j, SumAt
    <3>17. QED
      BY <3>16 DEF S
  <2> HIDE DEF S
  <2>6. \A k \in 0 .. m : k \in S
    BY <2>3, <2>4, <2>5, UpTo
  <2>7. SumAt(n)
    <3>1. m \in 0 .. m
      BY <2>3
    <3>2. SumAt(m + 1)
      BY <2>6, <3>1 DEF S
    <3>3. QED
      BY <2>3, <3>2
  <2> DEFINE p == x.pos
             r == d[n].pos
             X == x.exp
             F == f[n]
             u == 2^(p - r)
             v == 2^r
  <2>8. p \in 0 .. 4 * WordBits - 1 /\ r \in 0 .. 4 * WordBits - 1 /\ r <= p /\ X \in Nat /\ F \in Nat
    BY <1>2, <1>3, <2>2, <2>3, <2>7
  <2>9. Len(e) = n + 1 /\ e[n + 1] = d[n] /\ g[n + 1] = X * u + F
    BY <1>1, <2>3, <2>7
  <2>10. ExponentOf(e) = (X * u + F) * v /\ ExponentOf(d) = F * v
    BY <1>8, <2>1, <2>9
  <2> HIDE DEF p, r, X, F
  <2>11. u \in Nat \ {0} /\ v \in Nat \ {0} /\ u * v = 2^p
    BY <2>8, Squarings
  <2> HIDE DEF u, v
  <2>12. (X * u + F) * v = X * (u * v) + F * v
    BY <2>8, <2>11
  <2>13. ExponentOf(e) = x.exp * 2^(x.pos) + ExponentOf(d)
    BY <2>10, <2>11, <2>12 DEF X, p
  <2>14. QED
    BY <1>1, <1>7, <2>13 DEF e
<1>12. QED
  BY <1>10, <1>11

(* The entries that are read off the bits of a number below cp.             *)
Entries(d, s, cp) ==
  /\ d \in Seq(Entry)
  /\ \A i \in DOMAIN d : d[i].exp % 2 = 1 /\ d[i].exp < 2^s
  /\ \A i \in 1 .. Len(d) - 1 : d[i].pos - d[i + 1].pos >= s
  /\ d # <<>> => d[1].pos + s <= cp /\ (Len(d) - 1) * s <= d[1].pos

\* The number is split at bit cp: into entries, and a rest.
Read(v, s, cp, rest, d) ==
  /\ cp \in 0 .. 5 * WordBits /\ rest = v \div 2^cp
  /\ ExponentOf(d) = v % 2^cp /\ Entries(d, s, cp)

(* The fields of an entry.                                                  *)
LEMMA EntryFacts ==
  /\ WordBits \in Nat \ {0}
  /\ \A y \in Entry : y.exp \in Nat /\ y.pos \in Nat /\ y.pos \in 0 .. 4 * WordBits - 1 /\ y.pos < 4 * WordBits
BY KnownPowers DEF Entry

(* Positions a window apart decrease.                                       *)
LEMMA EntriesDescend ==
  ASSUME NEW s \in Nat \ {0}, NEW cp \in Nat, NEW d, Entries(d, s, cp)
  PROVE  Descending(d)
<1>1. d \in Seq(Entry) /\ \A i \in 1 .. Len(d) - 1 : d[i].pos - d[i + 1].pos >= s
  BY DEF Entries
<1>2. ASSUME NEW i \in 1 .. Len(d) - 1 PROVE d[i + 1].pos <= d[i].pos
  <2>1. d[i] \in Entry /\ d[i + 1] \in Entry
    BY <1>1
  <2>2. d[i].pos \in Nat /\ d[i + 1].pos \in Nat /\ d[i].pos - d[i + 1].pos >= s
    BY <1>1, <2>1, EntryFacts
  <2>3. QED
    BY <2>2
<1>3. QED
  BY <1>2 DEF Descending

(* Entry x, read at position cp, in front of d.                             *)
Prepended(x, d, s, cp, k) ==
  /\ Entries(<<x>> \o d, s, cp + k)
  /\ ExponentOf(<<x>> \o d) = x.exp * 2^cp + ExponentOf(d)

LEMMA EntriesPrepended ==
  ASSUME NEW s \in Nat \ {0}, NEW cp \in Nat, NEW k \in Nat, s <= k, NEW d, Entries(d, s, cp),
         NEW x \in Entry, x.pos = cp, x.exp % 2 = 1, x.exp < 2^s
  PROVE  Prepended(x, d, s, cp, k)
<1> DEFINE e == <<x>> \o d
           n == Len(d)
<1>1. /\ d \in Seq(Entry)
      /\ \A i \in 1 .. n : d[i].exp % 2 = 1 /\ d[i].exp < 2^s
      /\ \A i \in 1 .. n - 1 : d[i].pos - d[i + 1].pos >= s
      /\ d # <<>> => d[1].pos + s <= cp /\ (n - 1) * s <= d[1].pos
  <2>1. d \in Seq(Entry) /\ DOMAIN d = 1 .. n
    BY DEF Entries
  <2>2. QED
    BY <2>1 DEF Entries
<1>2. /\ n \in Nat /\ e \in Seq(Entry) /\ Len(e) = n + 1 /\ e # <<>> /\ e[1] = x
      /\ \A i \in 1 .. n : e[i + 1] = d[i] /\ d[i] \in Entry
      /\ DOMAIN e = 1 .. n + 1
  BY <1>1
<1>3. n # 0 => d # <<>>
  BY <1>1
<1>4. d # <<>> => d[1].pos \in Nat /\ d[1].pos <= cp
  <2>1. ASSUME d # <<>> PROVE d[1].pos \in Nat /\ d[1].pos <= cp
    <3>1. d[1] \in Entry
      BY <1>1, <2>1
    <3>2. QED
      BY <1>1, <2>1, <3>1, EntryFacts
  <2>2. QED
    BY <2>1
<1>5. ExponentOf(e) = x.exp * 2^cp + ExponentOf(d)
  <2>1. Descending(d)
    BY EntriesDescend
  <2>2. QED
    BY <1>1, <1>4, <2>1, OneMore
<1> HIDE DEF e, n
<1>6. ASSUME NEW i \in DOMAIN e PROVE e[i].exp % 2 = 1 /\ e[i].exp < 2^s
  <2>1. CASE i = 1
    BY <1>2, <2>1
  <2>2. CASE i # 1
    <3>1. i - 1 \in 1 .. n /\ (i - 1) + 1 = i
      BY <1>2, <2>2
    <3>2. QED
      BY <1>1, <1>2, <3>1
  <2>3. QED
    BY <2>1, <2>2
<1>7. ASSUME NEW i \in 1 .. Len(e) - 1 PROVE e[i].pos - e[i + 1].pos >= s
  <2>1. i \in 1 .. n /\ e[i + 1] = d[i]
    BY <1>2
  <2>2. CASE i = 1
    <3>1. d # <<>> /\ e[i] = x
      BY <1>2, <1>3, <2>1, <2>2
    <3>2. d[1].pos + s <= cp /\ d[1].pos \in Nat
      BY <1>1, <1>4, <3>1
    <3>3. QED
      BY <2>1, <2>2, <3>1, <3>2
  <2>3. CASE i # 1
    <3>1. i - 1 \in 1 .. n - 1 /\ i - 1 \in 1 .. n /\ (i - 1) + 1 = i
      BY <1>2, <2>1, <2>3
    <3>2. QED
      BY <1>1, <1>2, <2>1, <3>1
  <2>4. QED
    BY <2>2, <2>3
<1>8. e[1].pos + s <= cp + k /\ (Len(e) - 1) * s <= e[1].pos
  <2>1. n * s <= cp
    <3>1. CASE n = 0
      <4>1. 0 * s = 0
        OBVIOUS
      <4>2. QED
        BY <3>1, <4>1
    <3>2. CASE n # 0
      <4> DEFINE a == (n - 1) * s
      <4>1. a <= cp - s /\ a \in Int
        BY <1>1, <1>2, <1>3, <1>4, <3>2
      <4>2. n * s = a + s
        BY <1>2
      <4> HIDE DEF a
      <4>3. QED
        BY <4>1, <4>2
    <3>3. QED
      BY <3>1, <3>2
  <2>2. Len(e) - 1 = n
    BY <1>2
  <2>3. QED
    BY <1>2, <2>1, <2>2
<1>9. Entries(e, s, cp + k)
  BY <1>2, <1>6, <1>7, <1>8 DEF Entries
<1>10. QED
  BY <1>5, <1>9 DEF e, Prepended

(* The entries stay below a later position.                                 *)
LEMMA EntriesLater ==
  ASSUME NEW s \in Nat \ {0}, NEW cp \in Nat, NEW k \in Nat, NEW d, Entries(d, s, cp)
  PROVE  Entries(d, s, cp + k)
<1>1. ASSUME d # <<>> PROVE d[1].pos + s <= cp + k
  <2>1. d \in Seq(Entry) /\ d[1].pos + s <= cp
    BY <1>1 DEF Entries
  <2>2. d[1] \in Entry
    BY <1>1, <2>1
  <2>3. d[1].pos \in Nat
    BY <2>2, EntryFacts
  <2>4. QED
    BY <2>1, <2>3
<1>2. QED
  BY <1>1 DEF Entries

(* Bits that are 0 are skipped.                                             *)
LEMMA ReadOn ==
  ASSUME NEW v \in Nat, NEW s \in Nat \ {0}, NEW cp, NEW rest, NEW d, Read(v, s, cp, rest, d),
         NEW k \in Nat, cp + k <= 5 * WordBits, rest % 2^k = 0
  PROVE  Read(v, s, cp + k, rest \div 2^k, d)
<1>1. /\ cp \in Nat /\ rest = v \div 2^cp /\ ExponentOf(d) = v % 2^cp /\ Entries(d, s, cp)
      /\ WordBits \in Nat \ {0} /\ PowersKnown(5 * WordBits)
  BY KnownPowers DEF Read
<1>2. CutsAt(v, cp, k) /\ 2^cp \in Nat \ {0}
  BY <1>1, Cuts, PowerIs
<1>3. v \div 2^(cp + k) = rest \div 2^k /\ v % 2^(cp + k) = (v % 2^cp) + 2^cp * 0 /\ v % 2^cp \in Nat
  BY <1>1, <1>2 DEF CutsAt
<1>4. v % 2^(cp + k) = v % 2^cp
  <2> DEFINE a == v % 2^cp
             b == 2^cp
             c == v % 2^(cp + k)
  <2>1. a \in Nat /\ b \in Nat /\ c = a + b * 0
    BY <1>2, <1>3
  <2> HIDE DEF a, b, c
  <2>2. c = a
    BY <2>1
  <2>3. QED
    BY <2>2 DEF a, c
<1>5. Entries(d, s, cp + k)
  BY <1>1, EntriesLater
<1>6. cp + k \in 0 .. 5 * WordBits
  BY <1>1
<1>7. QED
  BY <1>1, <1>3, <1>4, <1>5, <1>6 DEF Read

(* While a bit is left, the position is within the Uint256.                 *)
LEMMA BitsLeft ==
  ASSUME NEW v \in Uints, NEW cp \in 0 .. 5 * WordBits, v \div 2^cp # 0
  PROVE  cp < 4 * WordBits /\ v \in Nat
<1>1. /\ WordBits \in Nat \ {0} /\ PowersKnown(5 * WordBits)
      /\ Two256 = 2^(4 * WordBits) /\ Two256 \in Nat \ {0}
  BY WordIsPowerOfTwo, WordPowers
<1>2. v \in 0 .. Two256 - 1
  BY DEF Uints
<1> HIDE DEF Two256
<1>3. SUFFICES ASSUME cp >= 4 * WordBits PROVE FALSE
  BY <1>1, <1>2
<1> DEFINE a == 4 * WordBits
           b == cp - 4 * WordBits
<1>4. a \in Nat /\ b \in Nat /\ a + b = cp /\ a + b <= 5 * WordBits /\ v \in Nat
  BY <1>1, <1>2, <1>3
<1>5. v \div 2^a = 0
  BY <1>1, <1>2, SmallNumber
<1> HIDE DEF a, b
<1>6. CutsAt(v, a, b) /\ 2^b \in Nat \ {0}
  BY <1>1, <1>4, Cuts, PowerIs
<1>7. v \div 2^cp = 0 \div 2^b
  BY <1>4, <1>5, <1>6 DEF CutsAt
<1>8. 0 \div 2^b = 0
  <2> DEFINE B == 2^b
  <2>1. B \in Nat \ {0} /\ 0 \in 0 .. B - 1
    BY <1>6
  <2> HIDE DEF B
  <2>2. 0 \div B = 0
    BY <2>1, SmallNumber
  <2>3. QED
    BY <2>2 DEF B
<1>9. QED
  BY <1>7, <1>8

(* An entry, and zeros after it, are read off.                              *)
LEMMA ReadEntry ==
  ASSUME NEW v \in Uints, NEW s \in Nat \ {0}, NEW cp, NEW rest, NEW d, Read(v, s, cp, rest, d),
         NEW k \in Nat, s <= k, cp + k <= 5 * WordBits, NEW x, x = rest % 2^k, x % 2 = 1, x < 2^s
  PROVE  Read(v, s, cp + k, rest \div 2^k, <<[exp |-> x, pos |-> cp]>> \o d)
<1>1. /\ cp \in Nat /\ cp \in 0 .. 5 * WordBits /\ rest = v \div 2^cp /\ ExponentOf(d) = v % 2^cp
      /\ Entries(d, s, cp) /\ WordBits \in Nat \ {0} /\ PowersKnown(5 * WordBits)
  BY KnownPowers DEF Read
<1>2. v \in Nat
  <2>1. Two256 \in Nat
    BY WordPowers
  <2> HIDE DEF Two256
  <2>2. QED
    BY <2>1 DEF Uints
<1>3. CutsAt(v, cp, k) /\ 2^cp \in Nat \ {0} /\ 2^k \in Nat \ {0}
  BY <1>1, <1>2, Cuts, PowerIs
<1>4. /\ v \div 2^(cp + k) = rest \div 2^k /\ v % 2^(cp + k) = (v % 2^cp) + 2^cp * x
      /\ v % 2^cp \in Nat /\ rest \in Nat
  BY <1>1, <1>3 DEF CutsAt
<1>5. x \in Nat /\ rest # 0
  <2> DEFINE K == 2^k
  <2>1. K \in Nat \ {0} /\ x = rest % K /\ rest \in Nat /\ x % 2 = 1 /\ 0 \in 0 .. K - 1
    BY <1>3, <1>4
  <2> HIDE DEF K
  <2>2. x \in Nat
    BY <2>1
  <2>3. 0 % K = 0
    BY <2>1, SmallNumber
  <2>4. x # 0
    BY <2>1
  <2>5. QED
    BY <2>1, <2>2, <2>3, <2>4
<1>6. cp < 4 * WordBits
  BY <1>1, <1>5, BitsLeft
<1> DEFINE y == [exp |-> x, pos |-> cp]
<1>7. y \in Entry /\ y.exp = x /\ y.pos = cp
  <2>1. cp \in 0 .. 4 * WordBits - 1
    BY <1>1, <1>6
  <2>2. QED
    BY <1>5, <2>1 DEF Entry
<1> HIDE DEF y
<1>8. /\ Entries(<<y>> \o d, s, cp + k)
      /\ ExponentOf(<<y>> \o d) = x * 2^cp + ExponentOf(d)
  <2>1. y.exp % 2 = 1 /\ y.exp < 2^s
    BY <1>7
  <2>2. Prepended(y, d, s, cp, k)
    BY <1>1, <1>7, <2>1, EntriesPrepended
  <2>3. QED
    BY <1>7, <2>2 DEF Prepended
<1>9. x * 2^cp + (v % 2^cp) = (v % 2^cp) + 2^cp * x
  <2> DEFINE a == v % 2^cp
             b == 2^cp
  <2>1. a \in Nat /\ b \in Nat
    BY <1>3, <1>4
  <2> HIDE DEF a, b
  <2>2. x * b + a = a + b * x
    BY <1>5, <2>1
  <2>3. QED
    BY <2>2 DEF a, b
<1>10. cp + k \in 0 .. 5 * WordBits
  BY <1>1
<1>11. Read(v, s, cp + k, rest \div 2^k, <<y>> \o d)
  BY <1>1, <1>4, <1>8, <1>9, <1>10 DEF Read
<1>12. QED
  BY <1>11 DEF y

\* What is left of the lowest word, m of whose bits are read.
Opened(rest, z, m, cp, s) ==
  /\ m \in 0 .. WordBits /\ z = rest % 2^(WordBits - m) /\ z \in Nat
  /\ cp < 4 * WordBits + m
  /\ m <= WordBits - s => z % 2 = 1

(* The three ways to read a word.                                           *)
LEMMA WordSkipped ==
  ASSUME NEW v \in Uints, NEW s \in Nat \ {0}, NEW cp, NEW rest, NEW d, Read(v, s, cp, rest, d),
         rest # 0, TrailingZeros64(rest % W) = WordBits
  PROVE  Read(v, s, cp + WordBits, rest \div W, d)
<1>1. /\ WordBits \in Nat \ {0} /\ PowersKnown(5 * WordBits) /\ W = 2^WordBits /\ W \in Nat \ {0}
      /\ cp \in 0 .. 5 * WordBits /\ cp \in Nat /\ rest = v \div 2^cp
  BY WordIsPowerOfTwo, WordIsPower DEF Read
<1>2. cp < 4 * WordBits /\ v \in Nat
  BY <1>1, BitsLeft
<1>3. rest \in Nat
  <2>1. 0 \in Nat /\ cp + 0 <= 5 * WordBits
    BY <1>1
  <2>2. CutsAt(v, cp, 0)
    BY <1>1, <1>2, <2>1, Cuts
  <2>3. QED
    BY <1>1, <2>2 DEF CutsAt
<1> DEFINE w == rest % W
<1> HIDE DEF W
<1>4. w \in 0 .. W - 1
  BY <1>1, <1>3, NatDivision
<1>5. ZerosOf(w, WordBits)
  BY <1>4, TrailingZerosRight
<1>6. rest % 2^WordBits = 0
  BY <1>1, <1>5 DEF ZerosOf
<1>7. WordBits \in Nat /\ cp + WordBits <= 5 * WordBits
  BY <1>1, <1>2
<1>8. Read(v, s, cp + WordBits, rest \div 2^WordBits, d)
  BY <1>2, <1>6, <1>7, ReadOn
<1>9. QED
  BY <1>1, <1>8

(* Its trailing zeros are skipped, and windows are read off the rest.       *)
LEMMA WordOpened ==
  ASSUME NEW v \in Uints, NEW s \in Nat \ {0}, NEW cp, NEW rest, NEW d, Read(v, s, cp, rest, d),
         NEW t, t = TrailingZeros64(rest % W), t # WordBits
  PROVE  /\ rest \in Nat /\ t \in 0 .. WordBits
         /\ Read(v, s, cp + t, rest \div 2^t, d)
         /\ Opened(rest \div 2^t, (rest % W) \div 2^t, t, cp + t, s)
<1>1. /\ WordBits \in Nat \ {0} /\ PowersKnown(5 * WordBits) /\ W = 2^WordBits /\ W \in Nat \ {0}
      /\ cp \in 0 .. 5 * WordBits /\ cp \in Nat /\ rest = v \div 2^cp
  BY WordIsPowerOfTwo, WordIsPower DEF Read
<1> HIDE DEF W
<1>2. v \in Nat
  <2>1. Two256 \in Nat
    BY WordPowers
  <2> HIDE DEF Two256
  <2>2. QED
    BY <2>1 DEF Uints
<1>3. rest \in Nat
  <2>1. 0 \in Nat /\ cp + 0 <= 5 * WordBits
    BY <1>1
  <2>2. CutsAt(v, cp, 0)
    BY <1>1, <1>2, <2>1, Cuts
  <2>3. QED
    BY <1>1, <2>2 DEF CutsAt
<1> DEFINE w == rest % W
<1>4. w \in 0 .. W - 1
  BY <1>1, <1>3, NatDivision
<1>5. ZerosOf(w, t)
  BY <1>4, TrailingZerosRight
<1>6. t \in 0 .. WordBits /\ w % 2^t = 0 /\ (w \div 2^t) % 2 = 1
  BY <1>5 DEF ZerosOf
<1> DEFINE c == WordBits - t
<1>7. t \in Nat /\ c \in Nat /\ t + c = WordBits /\ t + c <= 5 * WordBits
  BY <1>1, <1>6
<1>8. CutsAt(rest, t, c) /\ 2^t \in Nat \ {0} /\ 2^c \in Nat \ {0}
  <2> HIDE DEF c
  <2>1. QED
    BY <1>1, <1>3, <1>7, Cuts, PowerIs
<1>9. w % 2^t = rest % 2^t /\ w \div 2^t = (rest \div 2^t) % 2^c /\ rest \div 2^t \in Nat
  <2> HIDE DEF c
  <2>1. (rest % 2^(t + c)) % 2^t = rest % 2^t /\ (rest % 2^(t + c)) \div 2^t = (rest \div 2^t) % 2^c
        /\ rest \div 2^t \in Nat
    BY <1>8 DEF CutsAt
  <2>2. rest % 2^(t + c) = w
    BY <1>1, <1>7
  <2>3. QED
    BY <2>1, <2>2
<1>10. rest # 0
  <2>1. SUFFICES ASSUME rest = 0 PROVE FALSE
    OBVIOUS
  <2> DEFINE A == 2^t
             C == 2^c
  <2>2. A \in Nat \ {0} /\ C \in Nat \ {0} /\ 0 \in 0 .. A - 1 /\ 0 \in 0 .. C - 1
    BY <1>8
  <2> HIDE DEF A, C
  <2>3. 0 \div A = 0 /\ 0 % C = 0
    BY <2>2, SmallNumber
  <2>4. w \div 2^t = 0
    BY <1>9, <2>1, <2>3 DEF A, C
  <2>5. QED
    BY <1>6, <2>4
<1>11. cp < 4 * WordBits
  BY <1>1, <1>10, BitsLeft
<1>12. cp + t <= 5 * WordBits /\ cp + t < 4 * WordBits + t
  BY <1>1, <1>7, <1>11
<1>13. Read(v, s, cp + t, rest \div 2^t, d)
  BY <1>2, <1>6, <1>7, <1>9, <1>12, ReadOn
<1>14. Opened(rest \div 2^t, w \div 2^t, t, cp + t, s)
  <2> DEFINE A == rest \div 2^t
             C == 2^c
             z == w \div 2^t
  <2>1. A \in Nat /\ C \in Nat \ {0} /\ z = A % C
    BY <1>8, <1>9
  <2> HIDE DEF A, C, z
  <2>2. z \in Nat
    BY <2>1
  <2>3. QED
    BY <1>6, <1>9, <1>12, <2>2 DEF z, Opened
<1>15. QED
  BY <1>3, <1>6, <1>13, <1>14

(* A window, and the zeros that follow it in its word.                      *)
WindowFacts(Z, z, n, s, t) ==
  /\ z % 2^s = Z % 2^s /\ (z % 2^s) % 2 = 1 /\ z % 2^s \in Nat /\ z % 2^s < 2^s /\ s <= t /\ t \in 0 .. WordBits
  /\ t <= n => /\ z % 2^s = Z % 2^t
               /\ (z - (z % 2^s)) \div 2^t = (Z \div 2^t) % 2^(n - t)
  /\ t # WordBits => ((z - (z % 2^s)) \div 2^t) % 2 = 1

(* It has these facts, if the word has a whole window left.                 *)
LEMMA WindowRead ==
  ASSUME NEW Z \in Nat, NEW n \in 0 .. WordBits, NEW s \in Nat \ {0}, s <= n,
         NEW z, z = Z % 2^n, z % 2 = 1
  PROVE  WindowFacts(Z, z, n, s, TrailingZeros64(z - (z % 2^s)))
<1> DEFINE e == z % 2^s
           r == z - e
           t == TrailingZeros64(r)
<1>1. WordBits \in Nat \ {0} /\ PowersKnown(5 * WordBits) /\ W = 2^WordBits /\ W \in Nat \ {0}
  BY WordIsPowerOfTwo, WordIsPower
<1> HIDE DEF W
<1> DEFINE a == n - s
           b == WordBits - n
           c == s - 1
<1>2. /\ n \in Nat /\ s \in Nat /\ a \in Nat /\ b \in Nat /\ c \in Nat /\ 1 \in Nat
      /\ s + a = n /\ n + b = WordBits /\ 1 + c = s
      /\ s + a <= 5 * WordBits /\ n + b <= 5 * WordBits /\ 1 + c <= 5 * WordBits /\ s \in 0 .. WordBits
  BY <1>1
<1> HIDE DEF a, b, c
<1>3. /\ 2^s \in Nat \ {0} /\ 2^a \in Nat \ {0} /\ 2^n \in Nat \ {0} /\ 2^n = 2^s * 2^a
      /\ 2^n <= W /\ 2^1 \in Nat \ {0} /\ 2^c \in Nat \ {0} /\ 2^1 = 2
  <2>1. 2^(s + a) = 2^s * 2^a /\ 2^s \in Nat \ {0} /\ 2^a \in Nat \ {0} /\ 2^(s + a) \in Nat \ {0}
    BY <1>1, <1>2, PowerIs
  <2>2. 2^n <= 2^(n + b)
    BY <1>1, <1>2, PowerIs
  <2>3. 2^1 \in Nat \ {0} /\ 2^c \in Nat \ {0}
    BY <1>1, <1>2, PowerIs
  <2>4. 5 * WordBits >= 1
    BY <1>1
  <2>5. 2^1 = 2
    BY <1>1, <2>4, FirstPowers
  <2>6. QED
    BY <1>1, <1>2, <2>1, <2>2, <2>3, <2>5
<1>4. z \in 0 .. 2^n - 1 /\ z \in Nat
  <2> DEFINE N == 2^n
  <2>1. N \in Nat \ {0} /\ z = Z % N
    BY <1>3
  <2> HIDE DEF N
  <2>2. z \in 0 .. N - 1
    BY <2>1, NatDivision
  <2>3. z \in Nat
    BY <2>1, <2>2
  <2>4. QED
    BY <2>2, <2>3 DEF N
<1>5. z % 2^s = Z % 2^s
  <2>1. CutsAt(Z, s, a)
    BY <1>1, <1>2, Cuts
  <2>2. (Z % 2^(s + a)) % 2^s = Z % 2^s
    BY <2>1 DEF CutsAt
  <2>3. QED
    BY <1>2, <2>2
<1>6. e % 2 = 1
  <2>1. CutsAt(z, 1, c)
    BY <1>1, <1>2, <1>4, Cuts
  <2>2. (z % 2^(1 + c)) % 2^1 = z % 2^1
    BY <2>1 DEF CutsAt
  <2>3. QED
    BY <1>2, <1>3, <2>2
<1>7. e \in 0 .. 2^s - 1 /\ e \in Nat /\ e < 2^s /\ e <= z
  <2> DEFINE S == 2^s
             q == z \div S
  <2>1. S \in Nat \ {0} /\ e = z % S
    BY <1>3
  <2> HIDE DEF S, e
  <2>2. e \in 0 .. S - 1 /\ z = S * q + e /\ q \in Nat
    <3>1. e \in 0 .. S - 1 /\ z = S * q + e
      BY <1>4, <2>1, NatDivision
    <3>2. q \in Nat
      BY <1>4, <2>1
    <3>3. QED
      BY <3>1, <3>2
  <2> HIDE DEF q
  <2>3. S * q \in Nat
    BY <2>1, <2>2
  <2>4. e \in Nat /\ e < S /\ e <= z
    <3> DEFINE p == S * q
    <3>1. p \in Nat /\ z = p + e
      BY <2>2, <2>3
    <3> HIDE DEF p
    <3>2. QED
      BY <2>1, <2>2, <3>1
  <2>5. QED
    BY <2>2, <2>4 DEF S
<1>8. r \in 0 .. W - 1 /\ r \in Nat
  <2> DEFINE N == 2^n
  <2>1. N \in Nat /\ N <= W /\ z \in 0 .. N - 1 /\ e \in Nat /\ e <= z
    BY <1>3, <1>4, <1>7
  <2> HIDE DEF N, e
  <2>2. QED
    BY <1>1, <2>1
<1>9. r % 2^s = 0
  <2> DEFINE S == 2^s
             q == z \div S
  <2>1. S \in Nat \ {0} /\ z = S * q + e /\ q \in Int /\ e \in Nat
    <3>1. S \in Nat \ {0}
      BY <1>3
    <3> HIDE DEF S
    <3>2. z = S * q + (z % S) /\ q \in Nat
      BY <1>4, <3>1, NatDivision
    <3>3. q \in Int
      BY <3>2
    <3>4. QED
      BY <1>7, <3>1, <3>2, <3>3 DEF S
  <2> HIDE DEF S, q, e
  <2>2. r = S * q + 0 /\ 0 \in 0 .. S - 1
    <3> DEFINE p == S * q
    <3>1. p \in Int /\ z = p + e
      BY <2>1
    <3> HIDE DEF p
    <3>2. r = p + 0 /\ 0 \in 0 .. S - 1
      BY <2>1, <3>1
    <3>3. QED
      BY <3>2 DEF p
  <2>3. (S * q + 0) % S = 0
    BY <2>1, <2>2, DivisionUnique
  <2>4. QED
    BY <2>2, <2>3 DEF S
<1> HIDE DEF r, e
<1>10. ZerosOf(r, t)
  BY <1>8, TrailingZerosRight
<1> HIDE DEF t
<1>11. t \in 0 .. WordBits /\ r % 2^t = 0 /\ s <= t /\ (t # WordBits => (r \div 2^t) % 2 = 1)
  BY <1>2, <1>9, <1>10 DEF ZerosOf
<1>12. ASSUME t <= n PROVE e = Z % 2^t /\ r \div 2^t = (Z \div 2^t) % 2^(n - t)
  <2> DEFINE b2 == n - t
             k == t - s
  <2>1. /\ t \in Nat /\ b2 \in Nat /\ t + b2 = n /\ t + b2 <= 5 * WordBits
        /\ k \in Nat /\ s + k = t /\ s + k <= 5 * WordBits
    BY <1>1, <1>2, <1>11, <1>12
  <2> HIDE DEF b2, k
  <2>2. CutsAt(Z, t, b2) /\ 2^t \in Nat \ {0} /\ 2^s <= 2^t
    <3>1. CutsAt(Z, t, b2) /\ 2^t \in Nat \ {0}
      BY <1>1, <2>1, Cuts, PowerIs
    <3>2. 2^s <= 2^(s + k)
      BY <1>1, <1>2, <2>1, PowerIs
    <3>3. QED
      BY <2>1, <3>1, <3>2
  <2>3. z % 2^t = Z % 2^t /\ z \div 2^t = (Z \div 2^t) % 2^b2
    <3>1. (Z % 2^(t + b2)) % 2^t = Z % 2^t /\ (Z % 2^(t + b2)) \div 2^t = (Z \div 2^t) % 2^b2
      BY <2>2 DEF CutsAt
    <3>2. QED
      BY <2>1, <3>1
  <2> DEFINE T == 2^t
             q == r \div T
  <2>4. T \in Nat \ {0} /\ e \in 0 .. T - 1 /\ r % T = 0
    <3> DEFINE S == 2^s
    <3>1. S \in Nat \ {0} /\ e \in 0 .. S - 1 /\ S <= T /\ T \in Nat \ {0}
      BY <1>3, <1>7, <2>2
    <3> HIDE DEF S, T
    <3>2. e \in 0 .. T - 1
      BY <3>1
    <3>3. QED
      BY <1>11, <3>1, <3>2 DEF T
  <2> HIDE DEF T
  <2>5. r = T * q + (r % T) /\ q \in Int
    BY <1>8, <2>4, NatDivision
  <2> HIDE DEF q
  <2>6. z = T * q + e
    <3> DEFINE p == T * q
    <3>1. p \in Int /\ r = p + 0 /\ e \in Int /\ z \in Int /\ r = z - e
      BY <1>4, <2>4, <2>5 DEF r
    <3> HIDE DEF p
    <3>2. z = p + e
      BY <3>1
    <3>3. QED
      BY <3>2 DEF p
  <2>7. (T * q + e) % T = e /\ (T * q + e) \div T = q
    BY <2>4, <2>5, DivisionUnique
  <2>8. QED
    BY <2>3, <2>6, <2>7 DEF T, q, b2
<1>13. QED
  BY <1>5, <1>6, <1>7, <1>11, <1>12 DEF WindowFacts, t, r, e

(* What ReadWindow leaves, whether the word is exhausted or not.            *)
WindowTakenAs(v, s, cp, zc, d, m, z, x, t) ==
  LET d2 == <<[exp |-> x, pos |-> cp]>> \o d
  IN  /\ t + m > WordBits => m + s \in 0 .. WordBits /\ Read(v, s, cp + s, zc \div 2^(m + s), d2)
      /\ ~(t + m > WordBits) => /\ m + t \in 0 .. WordBits
                                /\ Read(v, s, cp + t, zc \div 2^(m + t), d2)
                                /\ Opened(zc \div 2^(m + t), (z - x) \div 2^t, m + t, cp + t, s)

(* Either way, the rest of the number is left for the next step.            *)
LEMMA WindowTaken ==
  ASSUME NEW v \in Uints, NEW s \in Nat \ {0}, NEW cp, NEW rest, NEW d, Read(v, s, cp, rest, d),
         NEW zc \in Nat, NEW m, rest = zc \div 2^m, NEW z, Opened(rest, z, m, cp, s), m <= WordBits - s
  PROVE  WindowTakenAs(v, s, cp, zc, d, m, z, z % 2^s, TrailingZeros64(z - (z % 2^s)))
<1> DEFINE x == z % 2^s
           t == TrailingZeros64(z - x)
           n == WordBits - m
           d2 == <<[exp |-> x, pos |-> cp]>> \o d
<1>1. WordBits \in Nat \ {0} /\ PowersKnown(5 * WordBits) /\ cp \in 0 .. 5 * WordBits /\ cp \in Nat
  BY KnownPowers DEF Read
<1>2. m \in 0 .. WordBits /\ z = rest % 2^n /\ z \in Nat /\ cp < 4 * WordBits + m /\ z % 2 = 1
  BY DEF Opened
<1>3. n \in 0 .. WordBits /\ s <= n /\ m \in Nat /\ m <= 5 * WordBits /\ n + m = WordBits
  BY <1>1, <1>2
<1>4. ASSUME NEW k \in Nat, m + k <= WordBits
      PROVE  /\ rest \in Nat /\ zc \div 2^(m + k) = rest \div 2^k /\ cp + k <= 5 * WordBits
             /\ m + k \in 0 .. WordBits
  <2>1. m + k <= 5 * WordBits /\ cp + k <= 5 * WordBits /\ m + k \in 0 .. WordBits
    BY <1>1, <1>2, <1>3, <1>4
  <2>2. CutsAt(zc, m, k)
    BY <1>1, <1>3, <2>1, Cuts
  <2>3. QED
    BY <2>1, <2>2 DEF CutsAt
<1>5. rest \in Nat
  <2>1. 0 \in Nat /\ m + 0 <= WordBits
    BY <1>1, <1>2
  <2>2. QED
    BY <1>4, <2>1
<1> HIDE DEF n
<1>6. WindowFacts(rest, z, n, s, t)
  BY <1>2, <1>3, <1>5, WindowRead
<1> HIDE DEF t
<1>7. /\ x = rest % 2^s /\ x % 2 = 1 /\ x < 2^s /\ s <= t /\ t \in 0 .. WordBits
      /\ t <= n => x = rest % 2^t /\ (z - x) \div 2^t = (rest \div 2^t) % 2^(n - t)
      /\ t # WordBits => ((z - x) \div 2^t) % 2 = 1
  BY <1>6 DEF WindowFacts
<1> HIDE DEF x
<1>8. CASE t + m > WordBits
  <2>1. s \in Nat /\ s <= s /\ m + s <= WordBits
    BY <1>1, <1>2
  <2>2. zc \div 2^(m + s) = rest \div 2^s /\ cp + s <= 5 * WordBits /\ m + s \in 0 .. WordBits
    BY <1>4, <2>1
  <2>3. Read(v, s, cp + s, rest \div 2^s, d2)
    BY <1>7, <2>1, <2>2, ReadEntry
  <2>4. QED
    BY <1>8, <2>2, <2>3 DEF WindowTakenAs, x, t
<1>9. CASE ~(t + m > WordBits)
  <2>1. t \in Nat /\ m + t <= WordBits /\ t <= n
    BY <1>1, <1>2, <1>3, <1>7, <1>9
  <2>2. zc \div 2^(m + t) = rest \div 2^t /\ cp + t <= 5 * WordBits /\ m + t \in 0 .. WordBits
    BY <1>4, <2>1
  <2>3. Read(v, s, cp + t, rest \div 2^t, d2)
    BY <1>7, <2>1, <2>2, ReadEntry
  <2>4. Opened(rest \div 2^t, (z - x) \div 2^t, m + t, cp + t, s)
    <3> DEFINE y == (z - x) \div 2^t
               A == rest \div 2^t
    <3>1. n - t = WordBits - (m + t) /\ n - t \in Nat /\ t + (n - t) <= 5 * WordBits
      BY <1>1, <1>2, <1>3, <2>1
    <3> DEFINE c == n - t
    <3>2. c \in Nat /\ t + c <= 5 * WordBits /\ c = WordBits - (m + t)
      BY <3>1
    <3>3. y = A % 2^c
      BY <1>7, <2>1
    <3> HIDE DEF c, y
    <3>4. 2^c \in Nat \ {0} /\ CutsAt(rest, t, c)
      BY <1>1, <1>5, <2>1, <3>2, PowerIs, Cuts
    <3>5. A \in Nat
      BY <3>4 DEF CutsAt
    <3>6. y \in Nat
      <4> DEFINE C == 2^c
      <4>1. C \in Nat \ {0} /\ y = A % C
        BY <3>3, <3>4
      <4> HIDE DEF A, C
      <4>2. QED
        BY <3>5, <4>1
    <3>7. cp + t < 4 * WordBits + (m + t)
      BY <1>1, <1>2, <2>1
    <3>8. m + t <= WordBits - s => y % 2 = 1
      <4>1. ASSUME m + t <= WordBits - s PROVE y % 2 = 1
        <5>1. t # WordBits
          BY <1>1, <1>2, <2>1, <4>1
        <5>2. QED
          BY <1>7, <5>1 DEF y
      <4>2. QED
        BY <4>1
    <3>9. y = A % 2^(WordBits - (m + t))
      BY <3>2, <3>3
    <3>10. Opened(A, y, m + t, cp + t, s)
      <4> HIDE DEF A
      <4>1. QED
        BY <2>2, <3>6, <3>7, <3>8, <3>9 DEF Opened
    <3>11. QED
      BY <3>10 DEF y
  <2>5. QED
    BY <1>9, <2>2, <2>3, <2>4 DEF WindowTakenAs, x, t
<1>10. QED
  BY <1>8, <1>9 DEF x, t

(* What is known between the steps of the sliding windows: the position is  *)
(* where number is split into the entries and a rest; zCopy is that rest,   *)
(* unshifted by L, and z0 what is left of its lowest word.                  *)
Rest == IF windowPc = "windows" THEN zCopy \div 2^L ELSE zCopy

WindowInv ==
  /\ windowPc \in {"idle", "word", "windows", "decomposed"}
  /\ number \in Uints /\ zCopy \in Nat /\ windowsize \in Nat \ {0}
  /\ windowPc = "idle" => decomposition = <<>> /\ currentPos = 0
  /\ windowPc # "idle" => Read(number, windowsize, currentPos, Rest, decomposition)
  /\ windowPc = "windows" => Opened(Rest, z0, L, currentPos, windowsize)
  /\ windowPc = "decomposed" => zCopy = 0

(* Uint256s are numbers.                                                    *)
LEMMA UintsAreNat == Two256 \in Nat \ {0} /\ Uints \subseteq Nat /\ 0 \in Uints
<1>1. Two256 \in Nat \ {0}
  BY WordPowers
<1> HIDE DEF Two256
<1>2. QED
  BY <1>1 DEF Uints

(* At the start, all of the number is the rest.                             *)
LEMMA NothingRead ==
  ASSUME NEW v \in Uints, NEW s \in Nat \ {0}
  PROVE  Read(v, s, 0, v, <<>>)
<1>1. WordBits \in Nat \ {0} /\ PowersKnown(5 * WordBits) /\ v \in Nat
  BY KnownPowers, UintsAreNat
<1>2. 2^0 = 1
  BY <1>1, FirstPowers
<1>3. v \div 1 = v /\ v % 1 = 0
  BY <1>1
<1>4. ExponentOf(<<>>) = 0
  BY DEF ExponentOf
<1>5. Entries(<<>>, s, 0)
  BY DEF Entries
<1>6. 0 \in 0 .. 5 * WordBits
  BY <1>1
<1>7. QED
  BY <1>2, <1>3, <1>4, <1>5, <1>6 DEF Read

(* Each step keeps WindowInv.                                               *)
LEMMA WindowStartKeeps == WindowInv /\ WindowStart => WindowInv'
<1>1. SUFFICES ASSUME WindowInv, WindowStart PROVE WindowInv'
  OBVIOUS
<1>2. /\ number' \in Uints /\ windowsize' \in Nat \ {0} /\ zCopy' = number' /\ windowPc' = "word"
      /\ decomposition' = <<>> /\ currentPos' = 0
  <2>1. windowsize' \in 1 .. WordBits - 1 /\ number' \in WindowInputs
    BY <1>1 DEF WindowStart
  <2>2. WordBits \in Nat
    BY KnownPowers
  <2>3. windowsize' \in Nat \ {0}
    BY <2>1, <2>2
  <2>4. QED
    BY <1>1, <2>1, <2>3, WindowInputsAssumption DEF WindowStart, WindowInv
<1>3. Read(number', windowsize', 0, number', <<>>)
  BY <1>2, NothingRead
<1>4. Rest' = number' /\ zCopy' \in Nat
  BY <1>2, UintsAreNat DEF Rest
<1>5. QED
  BY <1>2, <1>3, <1>4 DEF WindowInv

LEMMA ReadWordKeeps == WindowInv /\ ReadWord => WindowInv'
<1>1. SUFFICES ASSUME WindowInv, ReadWord PROVE WindowInv'
  OBVIOUS
<1> DEFINE t == TrailingZeros64(zCopy % W)
<1>2. /\ windowPc = "word" /\ number \in Uints /\ zCopy \in Nat /\ windowsize \in Nat \ {0}
      /\ Read(number, windowsize, currentPos, zCopy, decomposition)
      /\ number' = number /\ windowsize' = windowsize /\ decomposition' = decomposition
  BY <1>1 DEF ReadWord, WindowInv, Rest
<1>3. CASE zCopy = 0 /\ windowPc' = "decomposed" /\ UNCHANGED <<zCopy, z0, L, currentPos>>
  <2>1. Rest' = zCopy
    BY <1>3 DEF Rest
  <2>2. QED
    BY <1>2, <1>3, <2>1 DEF WindowInv
<1>4. CASE /\ zCopy # 0 /\ t = WordBits
           /\ zCopy' = zCopy \div W /\ currentPos' = currentPos + WordBits
           /\ UNCHANGED <<z0, L, windowPc>>
  <2>1. Read(number, windowsize, currentPos + WordBits, zCopy \div W, decomposition)
    BY <1>2, <1>4, WordSkipped
  <2>2. zCopy \div W \in Nat
    <3>1. W \in Nat \ {0}
      BY WordIsPower
    <3> HIDE DEF W
    <3>2. QED
      BY <1>2, <3>1, NatDivision
  <2>3. Rest' = zCopy' /\ windowPc' = "word"
    BY <1>2, <1>4 DEF Rest
  <2>4. QED
    BY <1>2, <1>4, <2>1, <2>2, <2>3 DEF WindowInv
<1>5. CASE /\ t # WordBits
           /\ L' = t /\ currentPos' = currentPos + t
           /\ z0' = (zCopy % W) \div 2^t
           /\ windowPc' = "windows" /\ UNCHANGED zCopy
  <2>1. /\ Read(number, windowsize, currentPos + t, zCopy \div 2^t, decomposition)
        /\ Opened(zCopy \div 2^t, (zCopy % W) \div 2^t, t, currentPos + t, windowsize)
    BY <1>2, <1>5, WordOpened
  <2>2. Rest' = zCopy \div 2^t
    BY <1>5 DEF Rest
  <2>3. /\ Read(number', windowsize', currentPos', Rest', decomposition')
        /\ Opened(Rest', z0', L', currentPos', windowsize')
    BY <1>2, <1>5, <2>1, <2>2
  <2>4. QED
    BY <1>2, <1>5, <2>3 DEF WindowInv
<1>6. QED
  BY <1>1, <1>3, <1>4, <1>5 DEF ReadWord

LEMMA ReadWindowKeeps == WindowInv /\ ReadWindow => WindowInv'
<1>1. SUFFICES ASSUME WindowInv, ReadWindow PROVE WindowInv'
  OBVIOUS
<1> DEFINE x == z0 % 2^windowsize
           t == TrailingZeros64(z0 - x)
           k == IF t + L > WordBits THEN windowsize ELSE t
           d == <<[exp |-> x, pos |-> currentPos]>> \o decomposition
<1>2. /\ windowPc = "windows" /\ number \in Uints /\ zCopy \in Nat /\ windowsize \in Nat \ {0}
      /\ Read(number, windowsize, currentPos, zCopy \div 2^L, decomposition)
      /\ Opened(zCopy \div 2^L, z0, L, currentPos, windowsize)
      /\ L <= WordBits - windowsize
  BY <1>1 DEF ReadWindow, WindowInv, Rest
<1>3. /\ number' = number /\ windowsize' = windowsize /\ decomposition' = d
      /\ L' = L + k /\ currentPos' = currentPos + k
      /\ t + L > WordBits => zCopy' = zCopy \div 2^(L') /\ windowPc' = "word"
      /\ ~(t + L > WordBits) => /\ z0' = (z0 - x) \div 2^t
                                /\ zCopy' = zCopy /\ windowPc' = windowPc
  BY <1>1 DEF ReadWindow
<1>4. WindowTakenAs(number, windowsize, currentPos, zCopy, decomposition, L, z0, x, t)
  <2> HIDE DEF t, x, k, d
  <2> USE DEF t, x
  <2>1. QED
    BY <1>2, WindowTaken
<1> HIDE DEF t, x
<1>5. CASE t + L > WordBits
  <2>1. L + windowsize \in 0 .. WordBits
        /\ Read(number, windowsize, currentPos + windowsize, zCopy \div 2^(L + windowsize), d)
    BY <1>4, <1>5 DEF WindowTakenAs
  <2> HIDE DEF d
  <2>2. /\ zCopy' = zCopy \div 2^(L + windowsize) /\ windowPc' = "word"
        /\ currentPos' = currentPos + windowsize
    BY <1>3, <1>5
  <2>3. Rest' = zCopy'
    BY <2>2 DEF Rest
  <2>4. zCopy' \in Nat
    <3> DEFINE n == L + windowsize
    <3>1. n \in Nat /\ n + 0 <= 5 * WordBits /\ PowersKnown(5 * WordBits) /\ 0 \in Nat
      BY <2>1, KnownPowers
    <3> HIDE DEF n
    <3>2. CutsAt(zCopy, n, 0)
      BY <1>2, <3>1, Cuts
    <3>3. QED
      BY <2>2, <3>2 DEF CutsAt, n
  <2>5. QED
    BY <1>2, <1>3, <2>1, <2>2, <2>3, <2>4 DEF WindowInv
<1>6. CASE ~(t + L > WordBits)
  <2>1. /\ Read(number, windowsize, currentPos + t, zCopy \div 2^(L + t), d)
        /\ Opened(zCopy \div 2^(L + t), (z0 - x) \div 2^t, L + t, currentPos + t, windowsize)
    BY <1>4, <1>6 DEF WindowTakenAs
  <2> HIDE DEF d
  <2>2. /\ zCopy' = zCopy /\ windowPc' = "windows" /\ L' = L + t
        /\ currentPos' = currentPos + t /\ z0' = (z0 - x) \div 2^t
    BY <1>2, <1>3, <1>6
  <2>3. Rest' = zCopy \div 2^(L + t)
    BY <2>2 DEF Rest
  <2>4. /\ Read(number', windowsize', currentPos', Rest', decomposition')
        /\ Opened(Rest', z0', L', currentPos', windowsize')
    BY <1>3, <2>1, <2>2, <2>3
  <2>5. QED
    BY <1>2, <1>3, <2>2, <2>4 DEF WindowInv
<1>7. QED
  BY <1>5, <1>6

LEMMA CommitShiftKeeps == WindowInv /\ CommitShift => WindowInv'
<1>1. SUFFICES ASSUME WindowInv, CommitShift PROVE WindowInv'
  OBVIOUS
<1>2. /\ windowPc = "windows" /\ number \in Uints /\ zCopy \in Nat /\ windowsize \in Nat \ {0}
      /\ Read(number, windowsize, currentPos, zCopy \div 2^L, decomposition)
      /\ Opened(zCopy \div 2^L, z0, L, currentPos, windowsize)
      /\ zCopy' = zCopy \div 2^L /\ windowPc' = "word"
      /\ UNCHANGED <<number, windowsize, decomposition, currentPos>>
  BY <1>1 DEF CommitShift, WindowInv, Rest
<1>3. Rest' = zCopy'
  BY <1>2 DEF Rest
<1>4. zCopy' \in Nat
  <2>1. L \in Nat /\ L + 0 <= 5 * WordBits /\ PowersKnown(5 * WordBits) /\ 0 \in Nat
    <3>1. L \in 0 .. WordBits /\ WordBits \in Nat
      BY <1>2, KnownPowers DEF Opened
    <3>2. QED
      BY <3>1, KnownPowers
  <2>2. CutsAt(zCopy, L, 0)
    BY <1>2, <2>1, Cuts
  <2>3. QED
    BY <1>2, <2>2 DEF CutsAt
<1>5. QED
  BY <1>2, <1>3, <1>4 DEF WindowInv

LEMMA WindowReturnKeeps == WindowInv /\ WindowReturn => WindowInv'
BY UintsAreNat DEF WindowInv, WindowReturn

(* WindowInv says what is documented: the number of windows is bounded      *)
(* since each takes windowsize bits.                                        *)
LEMMA WindowInvImplies == WindowInv => DecompositionExact
<1>1. SUFFICES ASSUME WindowInv PROVE DecompositionExact
  OBVIOUS
<1> DEFINE d == decomposition
           s == windowsize
<1>2. s \in Nat \ {0} /\ WordBits \in Nat \ {0} /\ PowersKnown(5 * WordBits) /\ number \in Nat
  BY <1>1, KnownPowers, UintsAreNat DEF WindowInv
<1>3. \E cp \in Nat : Entries(d, s, cp)
  <2>1. CASE windowPc = "idle"
    <3>1. d = <<>>
      BY <1>1, <2>1 DEF WindowInv
    <3>2. Entries(<<>>, s, 0)
      BY <1>1, NothingRead DEF WindowInv, Read
    <3>3. QED
      BY <3>1, <3>2
  <2>2. CASE windowPc # "idle"
    <3>1. currentPos \in 0 .. 5 * WordBits /\ Entries(d, s, currentPos)
      BY <1>1, <2>2 DEF WindowInv, Read
    <3>2. currentPos \in Nat
      BY <3>1
    <3>3. QED
      BY <3>1, <3>2
  <2>3. QED
    BY <2>1, <2>2
<1>4. Len(d) <= MAXSIZE
  <2> DEFINE n == Len(d)
             b == s + 4 * WordBits - 1
             q == b \div s
  <2>1. PICK cp \in Nat : Entries(d, s, cp)
    BY <1>3
  <2>2. d \in Seq(Entry)
    BY <2>1 DEF Entries
  <2>3. n \in Nat
    BY <2>2
  <2>4. b \in Nat /\ MAXSIZE = q
    BY <1>2 DEF MAXSIZE
  <2>5. n * s <= b
    <3>1. CASE n = 0
      <4>1. 0 * s = 0
        BY <1>2
      <4>2. QED
        BY <2>4, <3>1, <4>1
    <3>2. CASE n # 0
      <4>1. d # <<>> /\ d[1] \in Entry
        BY <2>2, <3>2
      <4>2. (n - 1) * s <= d[1].pos
        BY <2>1, <4>1 DEF Entries
      <4>3. d[1].pos \in Nat /\ d[1].pos < 4 * WordBits
        BY <4>1, EntryFacts
      <4> DEFINE a == (n - 1) * s
                 p == d[1].pos
                 c == 4 * WordBits
      <4>4. a \in Int /\ n * s = a + s
        BY <1>2, <2>3
      <4>5. p \in Nat /\ c \in Nat /\ p < c /\ a <= p /\ b = s + c - 1
        BY <1>2, <4>2, <4>3
      <4> HIDE DEF a, p, c, b
      <4>6. a + s <= b
        BY <1>2, <4>4, <4>5
      <4>7. QED
        BY <4>4, <4>6
    <3>3. QED
      BY <3>1, <3>2
  <2> HIDE DEF b, q, n, s
  <2>6. b = s * q + (b % s) /\ b % s \in 0 .. s - 1 /\ q \in Nat
    BY <1>2, <2>4, NatDivision DEF q
  <2> DEFINE r == b % s
  <2> HIDE DEF r
  <2>7. r \in 0 .. s - 1 /\ b = s * q + r
    BY <2>6 DEF r
  <2>8. s * q + s = s * (q + 1) /\ s * q \in Nat /\ s * (q + 1) \in Nat
    BY <1>2, <2>6
  <2>9. n * s < s * (q + 1)
    <3> DEFINE u == s * q
               w == n * s
    <3>1. u \in Nat /\ w \in Nat /\ w <= b /\ b = u + r
      BY <1>2, <2>3, <2>5, <2>6, <2>7
    <3> HIDE DEF u, w
    <3>2. w < u + s
      BY <1>2, <2>7, <3>1
    <3>3. QED
      BY <2>8, <3>2 DEF u, w
  <2>10. n <= q
    <3>1. SUFFICES ASSUME n >= q + 1 PROVE FALSE
      BY <2>3, <2>6
    <3>2. (q + 1) * s <= n * s
      BY <1>2, <2>3, <2>6, <3>1, Monotone
    <3>3. (q + 1) * s = s * (q + 1) /\ n * s \in Nat
      BY <1>2, <2>3, <2>6
    <3>4. QED
      BY <2>8, <2>9, <3>2, <3>3
  <2>11. QED
    BY <2>4, <2>10 DEF n
<1>5. ASSUME windowPc = "decomposed" PROVE ExponentOf(d) = number
  <2>1. /\ zCopy = 0 /\ Read(number, s, currentPos, zCopy, d)
    BY <1>1, <1>5 DEF WindowInv, Rest
  <2>2. /\ number \div 2^currentPos = 0 /\ ExponentOf(d) = number % 2^currentPos
        /\ currentPos \in 0 .. 5 * WordBits
    BY <2>1 DEF Read
  <2> DEFINE B == 2^currentPos
  <2>3. B \in Nat \ {0}
    <3>1. currentPos \in Nat /\ 0 \in Nat /\ currentPos + 0 <= 5 * WordBits
      BY <1>2, <2>2
    <3>2. QED
      BY <1>2, <3>1, PowerIs
  <2>4. number \div B = 0 /\ ExponentOf(d) = number % B
    BY <2>2
  <2> HIDE DEF B
  <2>5. number = B * 0 + (number % B) /\ number % B \in 0 .. B - 1
    BY <1>2, <2>3, <2>4, NatDivision
  <2>6. number = number % B
    BY <2>3, <2>5
  <2>7. QED
    BY <2>4, <2>6
<1>6. QED
  BY <1>3, <1>4, <1>5 DEF DecompositionExact, Entries

-----------------------------------------------------------------------------
(* Signed digits.                                                           *)

(* Digits, and what they add to the sum.                                    *)
AdicDigit == [position : Nat, coeff : Nat, sign : {-1, 1}]
Contribution(x) == x.sign * x.coeff * 2^(x.position)
Summed(f, d) == f[0] = 0 /\ \A k \in 1 .. Len(d) : f[k] = f[k - 1] + Contribution(d[k])
Positions(d) == \A k \in 1 .. Len(d) : d[k].position <= 2 * inputBitLen

(* The fields of a digit.                                                   *)
LEMMA DigitFacts ==
  ASSUME NEW x \in AdicDigit, x.position <= 2 * inputBitLen
  PROVE  /\ x.position \in Nat /\ x.coeff \in Nat /\ x.sign \in {-1, 1} /\ 2^(x.position) \in Nat \ {0}
         /\ Contribution(x) \in Int
<1>1. x.position \in Nat /\ x.coeff \in Nat /\ x.sign \in {-1, 1}
  BY DEF AdicDigit
<1>2. inputBitLen \in Nat \ {0} /\ PowersKnown(2 * inputBitLen)
  BY KnownPowers
<1> DEFINE p == x.position
           a == x.sign
           b == x.coeff
           c == 2^p
<1>3. p \in Nat /\ 0 \in Nat /\ p + 0 <= 2 * inputBitLen /\ a \in Int /\ b \in Nat
  BY <1>1, <1>2
<1> HIDE DEF p, a, b
<1>4. c \in Nat \ {0}
  BY <1>2, <1>3, PowerIs
<1> HIDE DEF c
<1>5. a * b * c \in Int
  BY <1>3, <1>4
<1>6. QED
  BY <1>1, <1>4, <1>5 DEF Contribution, a, b, c, p

(* The sum of the digits, digit by digit.                                   *)
LEMMA SumIs ==
  ASSUME NEW d \in Seq(AdicDigit), Positions(d)
  PROVE  \E f \in [0 .. Len(d) -> Int] : Summed(f, d) /\ SumOf(d) = f[Len(d)]
<1> DEFINE n == Len(d)
           term(i, v) == IF i \in 1 .. n THEN v + Contribution(d[i]) ELSE 0
           G == [p \in (1 .. n) \X Int |-> term(p[1], p[2])]
           Is(f) == f = [k \in 0 .. n |-> IF k = 0 THEN 0
                                          ELSE f[k - 1] + d[k].sign * d[k].coeff * 2^(d[k].position)]
           sum == CHOOSE f : Is(f)
<1>1. n \in Nat
  OBVIOUS
<1>2. \A i \in 1 .. n : Contribution(d[i]) \in Int
  <2>1. ASSUME NEW i \in 1 .. n PROVE d[i] \in AdicDigit /\ d[i].position <= 2 * inputBitLen
    BY DEF Positions
  <2> HIDE DEF n
  <2>2. QED
    BY <2>1, DigitFacts
<1>3. ASSUME NEW i \in 1 .. n, NEW v \in Int
      PROVE  G[<<i, v>>] = v + Contribution(d[i]) /\ G[<<i, v>>] \in Int
  <2>1. <<i, v>> \in (1 .. n) \X Int /\ <<i, v>>[1] = i /\ <<i, v>>[2] = v
    OBVIOUS
  <2>2. v + Contribution(d[i]) \in Int
    <3> HIDE DEF n
    <3>1. Contribution(d[i]) \in Int
      BY <1>2
    <3>2. QED
      BY <3>1
  <2>3. G[<<i, v>>] = term(i, v)
    <3> HIDE DEF term
    <3>1. QED
      BY <2>1
  <2>4. QED
    BY <2>2, <2>3
<1>4. PICK f \in [0 .. n -> Int] : f[0] = 0 /\ \A j \in 1 .. n : f[j] = G[<<j, f[j - 1]>>]
  <2> HIDE DEF G
  <2> DEFINE V == Int
             lo == 0
             a == 0
  <2>1. \A j \in 1 .. n, v \in Int : G[<<j, v>>] \in Int
    BY <1>3
  <2>2. /\ lo \in Int /\ n \in Int /\ lo <= n /\ a \in V
        /\ \A j \in lo + 1 .. n, v \in V : G[<<j, v>>] \in V
    BY <1>1, <2>1
  <2>3. lo + 1 = 1
    OBVIOUS
  <2> HIDE DEF V, lo, a, n
  <2>4. PICK f \in [lo .. n -> V] : Recursion(f, lo, n, a, G)
    BY <2>2, RecursionExists
  <2>5. QED
    BY <2>3, <2>4 DEF V, lo, a, Recursion
<1>5. ASSUME NEW i \in 1 .. n PROVE f[i] = f[i - 1] + Contribution(d[i])
  <2>1. i - 1 \in 0 .. n
    BY <1>1
  <2>2. f[i - 1] \in Int
    BY <2>1
  <2> HIDE DEF G
  <2>3. f[i] = G[<<i, f[i - 1]>>]
    BY <1>4
  <2>4. QED
    BY <1>3, <2>2, <2>3
<1>6. Is(f)
  <2>1. f = [i \in 0 .. n |-> f[i]]
    OBVIOUS
  <2>2. ASSUME NEW i \in 0 .. n
        PROVE  f[i] = IF i = 0 THEN 0 ELSE f[i - 1] + d[i].sign * d[i].coeff * 2^(d[i].position)
    <3>1. i # 0 => i \in 1 .. n
      BY <1>1
    <3>2. QED
      BY <1>4, <1>5, <3>1 DEF Contribution
  <2>3. QED
    BY <2>1, <2>2
<1>7. Is(sum)
  BY <1>6
<1>8. SumOf(d) = sum[n]
  BY DEF SumOf
<1> HIDE DEF sum
<1>9. \A i \in 0 .. n : sum[i] = IF i = 0 THEN 0 ELSE sum[i - 1] + d[i].sign * d[i].coeff * 2^(d[i].position)
  BY <1>7
<1>10. sum[0] = 0 /\ \A i \in 1 .. n : sum[i] = sum[i - 1] + Contribution(d[i])
  <2>1. 0 \in 0 .. n
    BY <1>1
  <2>2. sum[0] = 0
    BY <1>9, <2>1
  <2>3. ASSUME NEW i \in 1 .. n PROVE sum[i] = sum[i - 1] + Contribution(d[i])
    <3>1. i \in 0 .. n /\ i # 0
      BY <1>1
    <3>2. QED
      BY <1>9, <3>1 DEF Contribution
  <2>4. QED
    BY <2>2, <2>3
<1>11. \A i \in 0 .. n : sum[i] \in Int
  <2> DEFINE S == {k \in 0 .. n : sum[k] \in Int}
  <2>1. 0 \in S
    BY <1>1, <1>10
  <2>2. ASSUME NEW k \in 0 .. n - 1, k \in S PROVE k + 1 \in S
    <3>1. k + 1 \in 0 .. n /\ k + 1 \in 1 .. n /\ (k + 1) - 1 = k
      BY <1>1
    <3>2. sum[k] \in Int /\ sum[k + 1] = sum[(k + 1) - 1] + Contribution(d[k + 1]) /\ Contribution(d[k + 1]) \in Int
      BY <1>2, <1>10, <2>2, <3>1
    <3>3. sum[k + 1] \in Int
      BY <3>1, <3>2
    <3>4. QED
      BY <3>1, <3>3
  <2> HIDE DEF S
  <2>3. \A k \in 0 .. n : k \in S
    BY <1>1, <2>1, <2>2, UpTo
  <2>4. QED
    BY <2>3 DEF S
<1>12. sum \in [0 .. n -> Int]
  BY <1>7, <1>11
<1>13. QED
  BY <1>8, <1>10, <1>12 DEF Summed

(* The sum with one more digit.                                             *)
LEMMA OneMoreDigit ==
  ASSUME NEW d \in Seq(AdicDigit), Positions(d), NEW x \in AdicDigit, x.position <= 2 * inputBitLen
  PROVE  /\ SumOf(Append(d, x)) = SumOf(d) + Contribution(x) /\ SumOf(d) \in Int
         /\ Contribution(x) \in Int
<1> DEFINE e == Append(d, x)
           n == Len(d)
<1>1. /\ n \in Nat /\ e \in Seq(AdicDigit) /\ Len(e) = n + 1 /\ e[n + 1] = x
      /\ \A i \in 1 .. n : e[i] = d[i]
  OBVIOUS
<1> HIDE DEF e
<1>2. \A i \in 1 .. n : d[i].position <= 2 * inputBitLen
  BY DEF Positions
<1> HIDE DEF n
<1>3. Positions(e)
  <2>1. ASSUME NEW k \in 1 .. Len(e) PROVE e[k].position <= 2 * inputBitLen
    <3>1. CASE k = n + 1
      BY <1>1, <3>1
    <3>2. CASE k # n + 1
      <4>1. k \in 1 .. n
        BY <1>1, <3>2
      <4>2. QED
        BY <1>1, <1>2, <4>1
    <3>3. QED
      BY <3>1, <3>2
  <2>2. QED
    BY <2>1 DEF Positions
<1>4. PICK f \in [0 .. n -> Int] : Summed(f, d) /\ SumOf(d) = f[n]
  BY SumIs DEF n
<1>5. PICK g \in [0 .. n + 1 -> Int] : Summed(g, e) /\ SumOf(e) = g[n + 1]
  <2>1. PICK g \in [0 .. Len(e) -> Int] : Summed(g, e) /\ SumOf(e) = g[Len(e)]
    BY <1>1, <1>3, SumIs
  <2>2. QED
    BY <1>1, <2>1
<1> DEFINE S == {k \in 0 .. n : g[k] = f[k]}
<1>6. 0 \in S
  BY <1>1, <1>4, <1>5 DEF Summed
<1>7. ASSUME NEW k \in 0 .. n - 1, k \in S PROVE k + 1 \in S
  <2>1. k + 1 \in 0 .. n /\ k + 1 \in 1 .. n /\ k + 1 \in 1 .. Len(e) /\ (k + 1) - 1 = k /\ e[k + 1] = d[k + 1]
    <3> DEFINE j == k + 1
    <3>1. j \in 0 .. n /\ j \in 1 .. n /\ j \in 1 .. n + 1 /\ j - 1 = k
      BY <1>1
    <3> HIDE DEF j
    <3>2. e[j] = d[j]
      BY <1>1, <3>1
    <3>3. QED
      BY <1>1, <3>1, <3>2 DEF j
  <2>2. g[k + 1] = g[(k + 1) - 1] + Contribution(e[k + 1])
    BY <1>5, <2>1 DEF Summed
  <2>3. f[k + 1] = f[(k + 1) - 1] + Contribution(d[k + 1])
    BY <1>4, <2>1 DEF Summed, n
  <2>4. g[k] = f[k]
    BY <1>7
  <2>5. QED
    BY <2>1, <2>2, <2>3, <2>4
<1> HIDE DEF S
<1>8. \A k \in 0 .. n : k \in S
  BY <1>1, <1>6, <1>7, UpTo
<1>9. g[n] = f[n] /\ f[n] \in Int
  <2>1. n \in 0 .. n
    BY <1>1
  <2>2. QED
    BY <1>4, <1>8, <2>1 DEF S
<1>10. g[n + 1] = g[n] + Contribution(x)
  <2>1. n + 1 \in 1 .. Len(e) /\ (n + 1) - 1 = n
    BY <1>1
  <2>2. g[n + 1] = g[(n + 1) - 1] + Contribution(e[n + 1])
    BY <1>5, <2>1 DEF Summed
  <2>3. QED
    BY <1>1, <2>1, <2>2
<1>11. Contribution(x) \in Int
  BY DigitFacts
<1>12. QED
  BY <1>4, <1>5, <1>9, <1>10, <1>11 DEF e

(* The fields of a glvExponent.                                             *)
LEMMA glvExponentFacts ==
  /\ inputBitLen \in Nat \ {0} /\ PowersKnown(2 * inputBitLen) /\ 2^inputBitLen \in Nat \ {0}
  /\ \A x \in glvExponent : /\ x.value \in Nat /\ x.value < 2^inputBitLen /\ Sign(x) \in Int
                            /\ x.value # 0 => Sign(x) \in {-1, 1}
<1>1. inputBitLen \in Nat \ {0} /\ PowersKnown(2 * inputBitLen)
  BY KnownPowers
<1>2. 2^inputBitLen \in Nat \ {0}
  <2>1. inputBitLen \in Nat /\ 0 \in Nat /\ inputBitLen + 0 <= 2 * inputBitLen
    BY <1>1
  <2>2. QED
    BY <1>1, <2>1, PowerIs
<1> DEFINE B == 2^inputBitLen
<1>3. ASSUME NEW x \in glvExponent
      PROVE  /\ x.value \in Nat /\ x.value < B /\ Sign(x) \in Int /\ (x.value # 0 => Sign(x) \in {-1, 1})
  <2>1. B \in Nat \ {0} /\ (x \in [value : 0 .. B - 1, sign : {-1, 1}] \/ x \in [value : {0}, sign : {0}])
    BY <1>2 DEF glvExponent
  <2> HIDE DEF B
  <2>2. x.value \in Nat /\ x.value < B /\ (x.value # 0 => x.sign \in {-1, 1})
    BY <2>1
  <2>3. QED
    BY <2>2 DEF Sign
<1>4. QED
  BY <1>1, <1>2, <1>3

(* Bits above the highest are 0.                                            *)
LEMMA SmallValue ==
  ASSUME NEW v \in Nat, v < 2^inputBitLen, NEW i \in Nat, inputBitLen <= i, i <= 2 * inputBitLen
  PROVE  v % 2^i = v /\ v \div 2^i = 0 /\ Bit([value |-> v, sign |-> 1], i) = 0
<1> DEFINE a == i - inputBitLen
           B == 2^inputBitLen
           C == 2^i
<1>1. inputBitLen \in Nat /\ a \in Nat /\ inputBitLen + a = i /\ inputBitLen + a <= 2 * inputBitLen
      /\ PowersKnown(2 * inputBitLen)
  BY KnownPowers
<1> HIDE DEF a
<1>2. B <= C /\ B \in Nat \ {0} /\ C \in Nat \ {0}
  <2>1. 2^inputBitLen <= 2^(inputBitLen + a) /\ 2^inputBitLen \in Nat \ {0} /\ 2^(inputBitLen + a) \in Nat \ {0}
    BY <1>1, PowerIs
  <2>2. QED
    BY <1>1, <2>1
<1>3. v < B
  OBVIOUS
<1> HIDE DEF B, C
<1>4. v \in 0 .. C - 1
  BY <1>2, <1>3
<1>5. v % C = v /\ v \div C = 0
  BY <1>2, <1>4, SmallNumber
<1>6. 0 % 2 = 0
  OBVIOUS
<1>7. QED
  BY <1>5, <1>6 DEF C, Bit

(* The bits that a pass of the loop looks at.                               *)
Scanned(v, i, b) == v % 2^(i + 1) = (v % 2^i) + 2^i * b /\ b \in {0, 1} /\ v % 2^i \in Nat

(* One more bit.                                                            *)
LEMMA NextBit ==
  ASSUME NEW v \in Nat, NEW i \in Nat, i < 2 * inputBitLen
  PROVE  /\ Scanned(v, i, (v \div 2^i) % 2)
         /\ 2^i \in Nat \ {0} /\ 2^(i + 1) = 2 * 2^i
<1>1. 1 \in Nat /\ i + 1 <= 2 * inputBitLen /\ PowersKnown(2 * inputBitLen) /\ 2 * inputBitLen >= 1
  BY KnownPowers
<1>2. 2^1 = 2
  BY <1>1, FirstPowers
<1>3. CutsAt(v, i, 1)
  BY <1>1, Cuts
<1>4. 2^i \in Nat \ {0} /\ 2^(i + 1) = 2^i * 2^1
  <2> DEFINE n == 2 * inputBitLen
             o == 1
  <2>1. o \in Nat /\ i + o <= n /\ PowersKnown(n)
    BY <1>1
  <2> HIDE DEF n, o
  <2>2. 2^i \in Nat \ {0} /\ 2^(i + o) = 2^i * 2^o
    BY <2>1, PowerIs
  <2>3. QED
    BY <2>2 DEF o
<1> DEFINE y == v \div 2^i
           A == 2^i
<1>5. y \in Nat /\ v % 2^(i + 1) = (v % 2^i) + 2^i * (y % 2) /\ v % 2^i \in Nat
  BY <1>2, <1>3 DEF CutsAt
<1>6. y % 2 \in {0, 1}
  <2> HIDE DEF y
  <2>1. y % 2 \in 0 .. 1
    BY <1>5
  <2>2. QED
    BY <2>1
<1>7. A \in Nat /\ 2^(i + 1) = A * 2
  BY <1>2, <1>4
<1> HIDE DEF A
<1>8. 2^(i + 1) = 2 * A
  BY <1>7
<1>9. QED
  BY <1>4, <1>5, <1>6, <1>8 DEF A, Scanned

\* r are the m bits from bit i on, b and nx the first and the one after them.
Window(v, i, m, r, b, nx) ==
  /\ r \in Nat /\ r < 2^m /\ r % 2 = b /\ b \in {0, 1} /\ nx \in {0, 1}
  /\ v % 2^(i + m + 1) = (v % 2^i) + 2^i * (r + 2^m * nx) /\ v % 2^i \in Nat

(* A window of bits and the one after it.                                   *)
LEMMA NextWindow ==
  ASSUME NEW v \in Nat, NEW i \in Nat, NEW m \in Nat \ {0}, i + m < 2 * inputBitLen
  PROVE  /\ Window(v, i, m, (v \div 2^i) % 2^m, (v \div 2^i) % 2, (v \div 2^(i + m)) % 2)
         /\ 2^i \in Nat \ {0} /\ 2^m \in Nat \ {0} /\ 2^m % 2 = 0
         /\ 2^(i + m + 1) = 2^i * (2 * 2^m)
<1> DEFINE Z == v \div 2^i
           r == Z % 2^m
           nx == (v \div 2^(i + m)) % 2
           j == m - 1
           k == m + 1
<1>1. /\ 1 \in Nat /\ j \in Nat /\ 1 + j = m /\ 1 + j <= 2 * inputBitLen /\ i + m <= 2 * inputBitLen
      /\ k \in Nat /\ k = m + 1 /\ i + k = i + m + 1 /\ i + k <= 2 * inputBitLen
      /\ m + 1 <= 2 * inputBitLen /\ m < 2 * inputBitLen
      /\ PowersKnown(2 * inputBitLen) /\ 2 * inputBitLen >= 1
  BY KnownPowers
<1> HIDE DEF j, k
<1>2. 2^1 = 2
  BY <1>1, FirstPowers
<1>3. CutsAt(v, i, k) /\ CutsAt(v, i, m)
  BY <1>1, Cuts
<1>4. Z \in Nat
  BY <1>3 DEF CutsAt
<1>5. /\ 2^i \in Nat \ {0} /\ 2^m \in Nat \ {0} /\ 2^(i + k) = 2^i * 2^k
      /\ 2^j \in Nat \ {0} /\ 2^(1 + j) = 2^1 * 2^j
  <2> DEFINE n == 2 * inputBitLen
             o == 1
  <2>1. PowersKnown(n) /\ o \in Nat /\ o + j <= n /\ i + k <= n /\ m \in Nat /\ 0 \in Nat /\ m + 0 <= n
    BY <1>1
  <2> HIDE DEF n, o
  <2>2. 2^i \in Nat \ {0} /\ 2^(i + k) = 2^i * 2^k
    BY <1>1, <2>1, PowerIs
  <2>3. 2^m \in Nat \ {0}
    BY <2>1, PowerIs
  <2>4. 2^j \in Nat \ {0} /\ 2^(o + j) = 2^o * 2^j
    BY <1>1, <2>1, PowerIs
  <2>5. QED
    BY <2>2, <2>3, <2>4 DEF o
<1>6. 2^k = 2 * 2^m /\ Scanned(Z, m, (Z \div 2^m) % 2)
  BY <1>1, <1>4, NextBit
<1>7. 2^m % 2 = 0
  <2> DEFINE A == 2^j
  <2>1. 2^m = 2 * A /\ A \in Nat
    BY <1>1, <1>2, <1>5
  <2> HIDE DEF A
  <2>2. QED
    BY <2>1
<1>8. Z \div 2^m = v \div 2^(i + m)
  BY <1>3 DEF CutsAt
<1>9. Z % 2^k = r + 2^m * nx /\ nx \in {0, 1} /\ r \in Nat
  BY <1>1, <1>6, <1>8 DEF Scanned
<1>10. v % 2^(i + m + 1) = (v % 2^i) + 2^i * (r + 2^m * nx) /\ v % 2^i \in Nat
  <2>1. v % 2^(i + k) = (v % 2^i) + 2^i * (Z % 2^k) /\ v % 2^i \in Nat
    BY <1>3 DEF CutsAt
  <2>2. QED
    BY <1>1, <1>9, <2>1
<1>11. r < 2^m
  <2> DEFINE B == 2^m
  <2>1. B \in Nat \ {0}
    BY <1>5
  <2> HIDE DEF B, Z
  <2>2. Z % B \in 0 .. B - 1
    BY <1>4, <2>1, NatDivision
  <2>3. QED
    BY <2>1, <2>2 DEF B
<1>12. r % 2 = Z % 2 /\ Z % 2 \in {0, 1}
  <2>1. CutsAt(Z, 1, j)
    BY <1>1, <1>4, Cuts
  <2>2. (Z % 2^(1 + j)) % 2^1 = Z % 2^1
    BY <2>1 DEF CutsAt
  <2>3. r % 2 = Z % 2
    BY <1>1, <1>2, <2>2
  <2> HIDE DEF Z
  <2>4. Z % 2 \in 0 .. 1
    BY <1>4
  <2>5. QED
    BY <2>3, <2>4
<1>13. QED
  BY <1>1, <1>5, <1>6, <1>7, <1>9, <1>10, <1>11, <1>12 DEF Window

(* A negative digit and a carry stand for the same bits as a positive one.  *)
LEMMA DigitAlgebra ==
  ASSUME NEW g \in {-1, 0, 1}, NEW S \in Int, NEW c \in {0, 1}, NEW A \in Int, NEW p \in Int, NEW q \in Int,
         NEW r \in Int, NEW nx \in {0, 1}, S + g * c * p = g * A
  PROVE  S + g * (r + c - nx * q) * p + g * nx * (p * (2 * q)) = g * (A + p * (r + q * nx))
<1> DEFINE t == p * q
           u == p * r
<1>1. t \in Int /\ u \in Int /\ p * (2 * q) = 2 * t
  OBVIOUS
<1>2. p * (r + q * nx) = u + nx * t /\ (r + c - nx * q) * p = u + c * p - nx * t
  <2>1. CASE nx = 0
    BY <2>1
  <2>2. CASE nx = 1
    BY <2>2
  <2>3. QED
    BY <2>1, <2>2
<1> DEFINE w == u + c * p - nx * t
           x == u + nx * t
<1>3. g * (r + c - nx * q) * p = g * w /\ w \in Int
  <2> DEFINE y == r + c - nx * q
  <2>1. y \in Int /\ y * p = w
    BY <1>2
  <2>2. w \in Int
    BY <1>1
  <2> HIDE DEF y, w
  <2>3. g * y * p = g * (y * p)
    BY <2>1
  <2>4. QED
    BY <2>1, <2>2, <2>3 DEF y
<1> HIDE DEF t, u
<1>4. S + g * w + g * nx * (2 * t) = g * (A + x)
  <2>1. CASE c = 0 /\ nx = 0
    BY <1>1, <2>1
  <2>2. CASE c = 0 /\ nx = 1
    BY <1>1, <2>2
  <2>3. CASE c = 1 /\ nx = 0
    BY <1>1, <2>3
  <2>4. CASE c = 1 /\ nx = 1
    BY <1>1, <2>4
  <2>5. QED
    BY <2>1, <2>2, <2>3, <2>4
<1>5. QED
  BY <1>1, <1>2, <1>3, <1>4

(* What is known between the steps of the other decomposition: the digits   *)
(* and the carry stand for the bits below position, a carry is never left   *)
(* above the last bit, and the digits leave room for each other.            *)
Digits(d, m) ==
  /\ d \in Seq(AdicDigit) /\ Positions(d)
  /\ \A k \in DOMAIN d : d[k].coeff % 2 = 1 /\ d[k].coeff \in 1 .. 2^m - 1 /\ d[k].sign \in {-1, 1}
  /\ \A k \in 1 .. Len(d) - 1 : d[k + 1].position > d[k].position + m

DigitsBelow(d, m, i) ==
  /\ \A k \in DOMAIN d : d[k].position + m < i
  /\ Len(d) * (m + 1) <= i

AdicInv ==
  /\ adicPc \in {"idle", "scan", "returned"}
  /\ adicInput \in glvExponent /\ adicCarry \in {0, 1} /\ position \in Nat /\ maxbits \in Nat \ {0}
  /\ adicPc # "idle" => maxbits < inputBitLen
  /\ adicPc = "idle" => position = 0 /\ adicCarry = 0 /\ digits = <<>>
  /\ position <= inputBitLen + maxbits /\ (position > inputBitLen => adicCarry = 0)
  /\ adicInput.value = 0 => adicCarry = 0
  /\ Digits(digits, maxbits) /\ Len(digits) <= 1 + inputBitLen \div maxbits
  /\ adicPc = "scan" =>
       /\ DigitsBelow(digits, maxbits, position)
       /\ SumOf(digits) + Sign(adicInput) * adicCarry * 2^position
            = Sign(adicInput) * (adicInput.value % 2^position)
  /\ adicPc = "returned" => SumOf(digits) = Sign(adicInput) * adicInput.value

(* AdicInv says what is documented.                                         *)
LEMMA AdicInvImplies == AdicInv => AdicExact
BY DEF AdicInv, AdicExact, Digits

(* One more digit, at position i.                                           *)
LEMMA DigitsAppended ==
  ASSUME NEW d, NEW m \in Nat \ {0}, NEW i \in Nat, i <= 2 * inputBitLen, Digits(d, m), DigitsBelow(d, m, i),
         NEW x \in AdicDigit, x.position = i, x.coeff % 2 = 1, x.coeff \in 1 .. 2^m - 1
  PROVE  /\ Digits(Append(d, x), m) /\ DigitsBelow(Append(d, x), m, i + m + 1)
         /\ Len(Append(d, x)) = Len(d) + 1
<1> DEFINE e == Append(d, x)
           n == Len(d)
<1>1. d \in Seq(AdicDigit) /\ inputBitLen \in Nat /\ x.sign \in {-1, 1}
  BY KnownPowers DEF Digits, AdicDigit
<1>2. /\ n \in Nat /\ e \in Seq(AdicDigit) /\ Len(e) = n + 1 /\ e[n + 1] = x
      /\ DOMAIN d = 1 .. n /\ DOMAIN e = 1 .. n + 1
      /\ \A k \in 1 .. n : e[k] = d[k] /\ d[k] \in AdicDigit
  BY <1>1
<1> HIDE DEF e, n
<1>3. /\ \A k \in 1 .. n : /\ d[k].coeff % 2 = 1 /\ d[k].coeff \in 1 .. 2^m - 1 /\ d[k].sign \in {-1, 1}
                           /\ d[k].position <= 2 * inputBitLen /\ d[k].position + m < i
      /\ \A k \in 1 .. n - 1 : d[k + 1].position > d[k].position + m
      /\ n * (m + 1) <= i
  BY <1>2 DEF Digits, DigitsBelow, Positions, n
<1>4. \A y \in AdicDigit : y.position \in Nat
  BY DEF AdicDigit
<1>5. ASSUME NEW k \in 1 .. n + 1
      PROVE  /\ e[k].coeff % 2 = 1 /\ e[k].coeff \in 1 .. 2^m - 1 /\ e[k].sign \in {-1, 1}
             /\ e[k].position <= 2 * inputBitLen /\ e[k].position + m < i + m + 1
  <2>1. CASE k = n + 1
    BY <1>1, <1>2, <2>1
  <2>2. CASE k # n + 1
    <3>1. k \in 1 .. n
      BY <1>2, <2>2
    <3>2. d[k].position \in Nat /\ d[k].position + m < i /\ e[k] = d[k]
      BY <1>2, <1>3, <1>4, <3>1
    <3>3. d[k].position + m < i + m + 1
      BY <3>2
    <3>4. QED
      BY <1>3, <3>1, <3>2, <3>3
  <2>3. QED
    BY <2>1, <2>2
<1>6. ASSUME NEW k \in 1 .. n PROVE e[k + 1].position > e[k].position + m
  <2>1. CASE k = n
    <3>1. e[k + 1] = x /\ e[k] = d[k] /\ d[k].position + m < i /\ d[k].position \in Nat
      BY <1>2, <1>3, <1>4, <2>1
    <3>2. QED
      BY <3>1
  <2>2. CASE k # n
    <3>1. k \in 1 .. n - 1 /\ k + 1 \in 1 .. n
      BY <1>2, <2>2
    <3>2. e[k + 1] = d[k + 1] /\ e[k] = d[k]
      BY <1>2, <3>1
    <3>3. QED
      BY <1>3, <3>1, <3>2
  <2>3. QED
    BY <2>1, <2>2
<1>7. (n + 1) * (m + 1) <= i + m + 1
  <2> DEFINE a == n * (m + 1)
  <2>1. (n + 1) * (m + 1) = a + (m + 1) /\ a \in Nat /\ a <= i
    BY <1>2, <1>3
  <2> HIDE DEF a
  <2>2. a + (m + 1) <= i + m + 1
    BY <2>1
  <2>3. QED
    BY <2>1, <2>2
<1>8. Positions(e)
  BY <1>2, <1>5 DEF Positions
<1>9. Digits(e, m)
  <2>1. \A k \in 1 .. Len(e) - 1 : e[k + 1].position > e[k].position + m
    <3>1. Len(e) - 1 = n
      BY <1>2
    <3>2. QED
      BY <1>6, <3>1
  <2>2. QED
    BY <1>2, <1>5, <1>8, <2>1 DEF Digits
<1>10. DigitsBelow(e, m, i + m + 1)
  BY <1>2, <1>5, <1>7 DEF DigitsBelow
<1>11. QED
  BY <1>2, <1>9, <1>10 DEF e, n

(* There is room for the digits below the last bit and one more.            *)
LEMMA Capacity ==
  ASSUME NEW n \in Nat, NEW m \in Nat \ {0}, NEW i \in Nat, i <= inputBitLen, n * (m + 1) <= i
  PROVE  n <= inputBitLen \div m
<1> DEFINE b == inputBitLen
           q == b \div m
           r == b % m
<1>1. b \in Nat
  BY KnownPowers
<1> HIDE DEF b
<1>2. q \in Nat /\ r \in 0 .. m - 1 /\ b = m * q + r
  BY <1>1, NatDivision
<1> HIDE DEF q, r
<1>3. n * m <= b
  <2> DEFINE a == n * m
  <2>1. n * (m + 1) = a + n /\ a \in Nat
    OBVIOUS
  <2>2. a + n <= b
    <3> DEFINE c == n * (m + 1)
    <3>1. c = a + n /\ c <= i /\ i <= b
      BY <2>1 DEF b
    <3> HIDE DEF a, c
    <3>2. QED
      BY <1>1, <2>1, <3>1
  <2> HIDE DEF a
  <2>3. a <= b
    BY <1>1, <2>1, <2>2
  <2>4. QED
    BY <2>3 DEF a
<1>4. SUFFICES ASSUME n >= q + 1 PROVE FALSE
  BY <1>2 DEF q, b
<1>5. (q + 1) * m <= n * m
  BY <1>2, <1>4, Monotone
<1>6. (q + 1) * m = m * q + m /\ m * q \in Nat /\ n * m \in Nat
  BY <1>2
<1> DEFINE x == m * q
           y == n * m
           z == (q + 1) * m
<1>7. z <= y /\ z = x + m /\ x \in Nat /\ y \in Nat /\ y <= b /\ b = x + r
  BY <1>2, <1>3, <1>5, <1>6
<1> HIDE DEF x, y, z
<1>8. QED
  BY <1>1, <1>2, <1>7

(* Each step keeps AdicInv.                                                 *)
LEMMA AdicStartKeeps == AdicInv /\ AdicStart => AdicInv'
<1>1. SUFFICES ASSUME AdicInv, AdicStart PROVE AdicInv'
  OBVIOUS
<1>2. /\ adicInput' \in glvExponent /\ maxbits' \in Nat \ {0} /\ maxbits' < inputBitLen /\ adicPc' = "scan"
      /\ position' = 0 /\ adicCarry' = 0 /\ digits' = <<>>
  <2>1. maxbits' \in 1 .. inputBitLen - 1 /\ inputBitLen \in Nat
    BY <1>1, KnownPowers DEF AdicStart
  <2>2. maxbits' \in Nat \ {0} /\ maxbits' < inputBitLen
    BY <2>1
  <2>3. QED
    BY <1>1, <2>2 DEF AdicStart, AdicInv
<1>3. Digits(<<>>, maxbits') /\ DigitsBelow(<<>>, maxbits', 0) /\ Len(<<>>) = 0 /\ SumOf(<<>>) = 0
  <2>1. <<>> \in Seq(AdicDigit) /\ Positions(<<>>) /\ Len(<<>>) = 0
    BY DEF Positions
  <2>2. PICK f \in [0 .. Len(<<>>) -> Int] : Summed(f, <<>>) /\ SumOf(<<>>) = f[Len(<<>>)]
    BY <2>1, SumIs
  <2>3. SumOf(<<>>) = 0
    BY <2>1, <2>2 DEF Summed
  <2>4. 0 * (maxbits' + 1) <= 0
    <3> DEFINE m == maxbits'
    <3>1. m \in Nat
      BY <1>2
    <3> HIDE DEF m
    <3>2. 0 * (m + 1) <= 0
      BY <3>1
    <3>3. QED
      BY <3>2 DEF m
  <2>5. Digits(<<>>, maxbits') /\ DigitsBelow(<<>>, maxbits', 0)
    BY <2>1, <2>4 DEF Digits, DigitsBelow
  <2>6. QED
    BY <2>1, <2>3, <2>5
<1>4. inputBitLen \div maxbits' \in Nat /\ inputBitLen \in Nat
  BY <1>2, KnownPowers, NatDivision
<1>5. SumOf(digits') + Sign(adicInput)' * adicCarry' * 2^(position')
        = Sign(adicInput)' * (adicInput'.value % 2^(position'))
  <2> DEFINE v == adicInput'.value
             g == Sign(adicInput)'
  <2>1. v \in Nat /\ g \in Int /\ 2^0 = 1
    <3>1. 2^0 = 1
      BY glvExponentFacts, FirstPowers
    <3>2. Sign(adicInput)' = Sign(adicInput')
      BY DEF Sign
    <3>3. QED
      BY <1>2, <3>1, <3>2, glvExponentFacts
  <2> HIDE DEF v, g
  <2>2. 0 + g * 0 * 1 = g * (v % 1)
    BY <2>1
  <2>3. QED
    BY <1>2, <1>3, <2>1, <2>2 DEF v, g
<1>6. 0 <= inputBitLen + maxbits' /\ ~(0 > inputBitLen) /\ 0 \in Nat /\ 0 <= 1 + inputBitLen \div maxbits'
  <2> DEFINE q == inputBitLen \div maxbits'
             m == maxbits'
             n == inputBitLen
  <2>1. q \in Nat /\ m \in Nat /\ n \in Nat
    BY <1>2, <1>4
  <2> HIDE DEF q, m, n
  <2>2. 0 <= n + m /\ ~(0 > n) /\ 0 \in Nat /\ 0 <= 1 + q
    BY <2>1
  <2>3. QED
    BY <2>2 DEF q, m, n
<1>7. QED
  BY <1>2, <1>3, <1>5, <1>6 DEF AdicInv

LEMMA SkipBitKeeps == AdicInv /\ SkipBit => AdicInv'
<1>1. SUFFICES ASSUME AdicInv, SkipBit PROVE AdicInv'
  OBVIOUS
<1> DEFINE v == adicInput.value
           g == Sign(adicInput)
           i == position
           S == SumOf(digits)
           c == adicCarry
           A == v % 2^i
           p == 2^i
<1>2. /\ adicPc = "scan" /\ i \in Nat /\ i < inputBitLen /\ (v \div 2^i) % 2 = c /\ i' = i + 1
      /\ UNCHANGED <<adicInput, maxbits, adicCarry, digits, adicPc>>
      /\ maxbits \in Nat \ {0} /\ inputBitLen \in Nat /\ v \in Nat /\ g \in Int
      /\ S + g * c * p = g * A /\ DigitsBelow(digits, maxbits, i) /\ Digits(digits, maxbits)
  BY <1>1, glvExponentFacts DEF SkipBit, AdicInv, Bit
<1>3. v % 2^(i + 1) = A + p * c /\ c \in {0, 1} /\ A \in Nat /\ p \in Nat \ {0} /\ 2^(i + 1) = 2 * p
  <2>1. i < 2 * inputBitLen
    BY <1>2
  <2>2. Scanned(v, i, (v \div 2^i) % 2) /\ p \in Nat \ {0} /\ 2^(i + 1) = 2 * p
    BY <1>2, <2>1, NextBit
  <2>3. QED
    BY <1>2, <2>2 DEF Scanned
<1>4. S \in Int
  <2>1. PICK f \in [0 .. Len(digits) -> Int] : S = f[Len(digits)]
    BY <1>2, SumIs DEF Digits
  <2>2. Len(digits) \in 0 .. Len(digits)
    BY <1>2 DEF Digits
  <2>3. QED
    BY <2>1, <2>2
<1>5. S + g * c * (2 * p) = g * (A + p * c)
  <2> HIDE DEF S, g, c, p, A, i, v
  <2>1. CASE c = 0
    BY <1>2, <1>3, <1>4, <2>1
  <2>2. CASE c = 1
    <3>1. S + g * p = g * A /\ g * p \in Int /\ g * A \in Int
      BY <1>2, <1>3, <2>2
    <3>2. g * c * (2 * p) = 2 * (g * p) /\ g * (A + p * c) = g * A + g * p
      BY <1>2, <1>3, <2>2
    <3> DEFINE a == g * p
               b == g * A
    <3>3. S + a = b /\ a \in Int /\ b \in Int
      BY <3>1
    <3> HIDE DEF a, b
    <3>4. S + 2 * a = b + a
      BY <1>4, <3>3
    <3>5. QED
      BY <3>2, <3>4 DEF a, b
  <2>3. QED
    BY <1>3, <2>1, <2>2
<1>6. SumOf(digits') + Sign(adicInput)' * adicCarry' * 2^(position')
        = Sign(adicInput)' * (adicInput'.value % 2^(position'))
  <2>1. Sign(adicInput)' = g
    BY <1>2 DEF Sign
  <2>2. QED
    BY <1>2, <1>3, <1>5, <2>1
<1>7. DigitsBelow(digits, maxbits, i + 1)
  <2>1. \A k \in DOMAIN digits : digits[k].position \in Nat
    <3>1. digits \in Seq(AdicDigit)
      BY <1>2 DEF Digits
    <3>2. ASSUME NEW k \in DOMAIN digits PROVE digits[k] \in AdicDigit
      BY <3>1
    <3>3. QED
      BY <3>2 DEF AdicDigit
  <2>2. \A k \in DOMAIN digits : digits[k].position + maxbits < i + 1
    BY <1>2, <2>1 DEF DigitsBelow
  <2>3. Len(digits) * (maxbits + 1) <= i + 1
    <3> DEFINE a == Len(digits) * (maxbits + 1)
    <3>1. a \in Nat /\ a <= i
      <4>1. Len(digits) \in Nat
        BY <1>2 DEF Digits
      <4>2. QED
        BY <1>2, <4>1 DEF DigitsBelow
    <3> HIDE DEF a
    <3>2. a <= i + 1
      BY <1>2, <3>1
    <3>3. QED
      BY <3>2 DEF a
  <2>4. QED
    BY <2>2, <2>3 DEF DigitsBelow
<1>8. i + 1 \in Nat /\ i + 1 <= inputBitLen + maxbits /\ ~(i + 1 > inputBitLen)
  BY <1>2
<1>9. QED
  BY <1>1, <1>2, <1>6, <1>7, <1>8 DEF AdicInv

LEMMA TakeDigitKeeps == AdicInv /\ TakeDigit => AdicInv'
<1>1. SUFFICES ASSUME AdicInv, TakeDigit PROVE AdicInv'
  OBVIOUS
<1> DEFINE v == adicInput.value
           g == Sign(adicInput)
           i == position
           m == maxbits
           c == adicCarry
           d == digits
           r == (v \div 2^i) % 2^m
           b == (v \div 2^i) % 2
           nx == (v \div 2^(i + m)) % 2
           y == IF nx = 1 THEN 2^m - (r + c) ELSE r + c
           h == IF nx = 1 THEN -g ELSE g
           x == [position |-> i, coeff |-> y, sign |-> h]
<1>2. /\ adicPc = "scan" /\ i \in Nat /\ i < inputBitLen /\ b # c /\ c \in {0, 1}
      /\ m \in Nat \ {0} /\ m < inputBitLen /\ inputBitLen \in Nat
      /\ v \in Nat /\ v < 2^inputBitLen /\ g \in Int /\ (v # 0 => g \in {-1, 1}) /\ (v = 0 => c = 0)
      /\ Digits(d, m) /\ DigitsBelow(d, m, i)
      /\ SumOf(d) + g * c * 2^i = g * (v % 2^i)
  BY <1>1, glvExponentFacts DEF TakeDigit, AdicInv, Bit
<1>3. /\ adicCarry' = nx /\ position' = i + m + 1 /\ digits' = Append(d, x)
      /\ UNCHANGED <<adicInput, maxbits, adicPc>>
  <2>1. getBitRange(adicInput, i, i + m) = r /\ Bit(adicInput, i + m) = nx
    <3>1. (i + m) - i = m
      BY <1>2
    <3>2. getBitRange(adicInput, i, i + m) = (v \div 2^i) % 2^((i + m) - i)
      BY DEF getBitRange
    <3>3. QED
      BY <3>1, <3>2 DEF Bit
  <2>2. /\ adicCarry' = nx /\ position' = i + m + 1
        /\ digits' = Append(d, IF nx = 1 THEN Digit(2^m - (r + c), -g) ELSE Digit(r + c, g))
        /\ UNCHANGED <<adicInput, maxbits, adicPc>>
    BY <1>1, <2>1 DEF TakeDigit
  <2> HIDE DEF r, nx, v, g, i, m, c, d
  <2>3. x = IF nx = 1 THEN Digit(2^m - (r + c), -g) ELSE Digit(r + c, g)
    <3>1. CASE nx = 1
      BY <3>1 DEF Digit, i
    <3>2. CASE nx # 1
      BY <3>2 DEF Digit, i
    <3>3. QED
      BY <3>1, <3>2
  <2>4. QED
    BY <2>2, <2>3 DEF m
<1>4. /\ Window(v, i, m, r, b, nx)
      /\ 2^i \in Nat \ {0} /\ 2^m \in Nat \ {0} /\ 2^m % 2 = 0 /\ 2^(i + m + 1) = 2^i * (2 * 2^m)
  <2> HIDE DEF v, i, m
  <2>1. i + m < 2 * inputBitLen
    BY <1>2
  <2>2. QED
    BY <1>2, <2>1, NextWindow
<1>5. /\ r \in Nat /\ r < 2^m /\ r % 2 = b /\ b \in {0, 1} /\ nx \in {0, 1}
      /\ v % 2^(i + m + 1) = (v % 2^i) + 2^i * (r + 2^m * nx) /\ v % 2^i \in Nat
  <2> HIDE DEF v, i, m, r, b, nx
  <2>1. QED
    BY <1>4 DEF Window
<1>6. /\ i + m + 1 <= inputBitLen + m /\ i + m + 1 \in Nat /\ i <= 2 * inputBitLen
      /\ (i + m + 1 > inputBitLen => nx = 0)
  <2> HIDE DEF v
  <2>1. ASSUME i + m + 1 > inputBitLen PROVE nx = 0
    <3> DEFINE j == i + m
    <3>1. j \in Nat /\ inputBitLen <= j /\ j <= 2 * inputBitLen
      BY <1>2, <2>1
    <3> HIDE DEF j
    <3>2. v \div 2^j = 0
      BY <1>2, <3>1, SmallValue
    <3>3. nx = 0 % 2
      BY <3>2 DEF j
    <3>4. QED
      BY <3>3
  <2>2. i + m + 1 <= inputBitLen + m /\ i + m + 1 \in Nat /\ i <= 2 * inputBitLen
    BY <1>2
  <2>3. QED
    BY <2>1, <2>2
<1>7. v # 0
  <2>1. SUFFICES ASSUME v = 0 PROVE FALSE
    OBVIOUS
  <2>2. v \div 2^i = 0
    <3> DEFINE p == 2^i
    <3>1. p \in Nat \ {0} /\ 0 \in 0 .. p - 1
      BY <1>4
    <3> HIDE DEF p
    <3>2. 0 \div p = 0
      BY <3>1, SmallNumber
    <3>3. QED
      BY <2>1, <3>2 DEF p
  <2>3. b = 0 % 2
    BY <2>2
  <2>4. QED
    BY <1>2, <2>1, <2>3
<1> HIDE DEF r, nx, b, v, g
<1>8. y % 2 = 1 /\ y \in 1 .. 2^m - 1 /\ y \in Nat
  <2> DEFINE M2 == 2^m
             z == r + c
  <2>1. /\ M2 \in Nat \ {0} /\ M2 % 2 = 0 /\ r \in Nat /\ r < M2 /\ r % 2 = b /\ b \in {0, 1} /\ c \in {0, 1} /\ b # c
    BY <1>2, <1>4, <1>5
  <2> HIDE DEF M2, b, c
  <2>2. z \in Nat /\ z <= M2 /\ z % 2 = 1
    BY <2>1
  <2> HIDE DEF z
  <2>3. z # M2 /\ z # 0
    BY <2>1, <2>2
  <2>4. z \in 1 .. M2 - 1 /\ M2 - z \in 1 .. M2 - 1 /\ (M2 - z) % 2 = 1 /\ M2 - z \in Nat
    BY <2>1, <2>2, <2>3
  <2>5. y = IF nx = 1 THEN M2 - z ELSE z
    BY DEF M2, z
  <2> HIDE DEF y
  <2>6. y % 2 = 1 /\ y \in 1 .. M2 - 1 /\ y \in Nat
    BY <2>2, <2>4, <2>5
  <2>7. QED
    BY <2>6 DEF M2
<1>9. h \in {-1, 1} /\ g \in {-1, 1}
  <2>1. g \in {-1, 1}
    BY <1>2, <1>7
  <2>2. QED
    BY <2>1
<1> HIDE DEF y, h
<1>10. x \in AdicDigit /\ x.position = i /\ x.coeff = y /\ x.sign = h
  BY <1>2, <1>8, <1>9 DEF AdicDigit
<1> HIDE DEF x
<1>11. /\ Digits(Append(d, x), m) /\ DigitsBelow(Append(d, x), m, i + m + 1)
       /\ Len(Append(d, x)) = Len(d) + 1
  <2> HIDE DEF d, i, m
  <2>1. x.coeff % 2 = 1 /\ x.coeff \in 1 .. 2^m - 1
    BY <1>8, <1>10
  <2>2. QED
    BY <1>2, <1>6, <1>10, <2>1, DigitsAppended
<1>12. d \in Seq(AdicDigit) /\ Len(d) \in Nat /\ Len(d) * (m + 1) <= i /\ Positions(d)
  <2>1. d \in Seq(AdicDigit) /\ Positions(d)
    BY <1>2 DEF Digits
  <2>2. QED
    BY <1>2, <2>1 DEF DigitsBelow
<1>13. Len(d) + 1 <= 1 + inputBitLen \div m
  <2> DEFINE q == inputBitLen \div m
             n == Len(d)
  <2>1. n <= q
    <3> HIDE DEF d, i, m
    <3>1. i <= inputBitLen
      BY <1>2
    <3>2. QED
      BY <1>2, <1>12, <3>1, Capacity
  <2>2. q \in Nat /\ n \in Nat
    BY <1>2, <1>12, NatDivision
  <2> HIDE DEF q, n
  <2>3. n + 1 <= 1 + q
    BY <2>1, <2>2
  <2>4. QED
    BY <2>3 DEF q, n
<1>14. SumOf(Append(d, x)) = SumOf(d) + Contribution(x) /\ SumOf(d) \in Int
  <2> HIDE DEF d
  <2>1. x.position <= 2 * inputBitLen
    BY <1>6, <1>10
  <2>2. QED
    BY <1>10, <1>12, <2>1, OneMoreDigit
<1> DEFINE p == 2^i
           q == 2^m
           A == v % 2^i
           S == SumOf(d)
<1>15. /\ p \in Int /\ q \in Int /\ A \in Int /\ S \in Int /\ r \in Int /\ nx \in {0, 1} /\ c \in {0, 1}
       /\ g \in {-1, 0, 1} /\ S + g * c * p = g * A
  BY <1>2, <1>4, <1>5, <1>9, <1>14
<1>16. Contribution(x) = h * y * p
  BY <1>10 DEF Contribution
<1>17. h * y = g * (r + c - nx * q)
  <2>1. y = IF nx = 1 THEN q - (r + c) ELSE r + c
    BY DEF y
  <2>2. h = IF nx = 1 THEN -g ELSE g
    BY DEF h
  <2> HIDE DEF p, q, c, h, y
  <2>3. CASE nx = 1
    <3>1. h * y = -g * (q - (r + c)) /\ r + c - nx * q = r + c - q
      BY <1>15, <2>1, <2>2, <2>3
    <3>2. QED
      BY <1>9, <1>15, <3>1
  <2>4. CASE nx = 0
    BY <1>15, <2>1, <2>2, <2>4
  <2>5. QED
    BY <1>15, <2>3, <2>4
<1>18. S + g * (r + c - nx * q) * p + g * nx * (p * (2 * q)) = g * (A + p * (r + q * nx))
  <2> HIDE DEF p, q, A, S, c
  <2>1. QED
    BY <1>15, DigitAlgebra
<1>19. SumOf(digits') + Sign(adicInput)' * adicCarry' * 2^(position')
        = Sign(adicInput)' * (adicInput'.value % 2^(position'))
  <2>1. Sign(adicInput)' = g /\ adicInput'.value = v
    BY <1>3 DEF Sign, g, v
  <2>2. 2^(position') = p * (2 * q) /\ v % 2^(position') = A + p * (r + q * nx)
    BY <1>3, <1>4, <1>5
  <2>3. SumOf(digits') = S + g * (r + c - nx * q) * p
    BY <1>3, <1>14, <1>16, <1>17
  <2> HIDE DEF p, q, A, S
  <2>4. QED
    BY <1>3, <1>18, <2>1, <2>2, <2>3
<1>20. DigitsBelow(digits', maxbits', position') /\ Digits(digits', maxbits')
       /\ Len(digits') <= 1 + inputBitLen \div maxbits'
  BY <1>3, <1>11, <1>13
<1>21. adicCarry' \in {0, 1} /\ position' \in Nat /\ position' <= inputBitLen + maxbits'
       /\ (position' > inputBitLen => adicCarry' = 0) /\ adicInput'.value # 0
  BY <1>3, <1>5, <1>6, <1>7 DEF v
<1>22. /\ adicPc' = "scan" /\ adicInput' \in glvExponent /\ maxbits' \in Nat \ {0} /\ maxbits' < inputBitLen
  BY <1>1, <1>2, <1>3 DEF AdicInv
<1> HIDE DEF p, q, A, S, x
<1>23. QED
  BY <1>19, <1>20, <1>21, <1>22 DEF AdicInv

LEMMA LastCarryKeeps == AdicInv /\ LastCarry => AdicInv'
<1>1. SUFFICES ASSUME AdicInv, LastCarry PROVE AdicInv'
  OBVIOUS
<1> DEFINE v == adicInput.value
           g == Sign(adicInput)
           i == position
           m == maxbits
           d == digits
           S == SumOf(d)
           p == 2^i
           x == [position |-> i, coeff |-> 1, sign |-> g]
<1>2. /\ adicPc = "scan" /\ i \in Nat /\ i >= inputBitLen /\ i <= inputBitLen + m /\ adicCarry \in {0, 1}
      /\ (i > inputBitLen => adicCarry = 0)
      /\ m \in Nat \ {0} /\ m < inputBitLen /\ inputBitLen \in Nat
      /\ v \in Nat /\ v < 2^inputBitLen /\ g \in Int /\ (v # 0 => g \in {-1, 1}) /\ (v = 0 => adicCarry = 0)
      /\ Digits(d, m) /\ DigitsBelow(d, m, i) /\ Len(d) <= 1 + inputBitLen \div m
      /\ S + g * adicCarry * p = g * (v % 2^i)
  BY <1>1, glvExponentFacts DEF LastCarry, AdicInv
<1>3. /\ digits' = IF adicCarry = 1 THEN Append(d, x) ELSE d
      /\ adicPc' = "returned" /\ UNCHANGED <<adicInput, maxbits, position, adicCarry>>
  BY <1>1 DEF LastCarry, Digit
<1>4. v % 2^i = v /\ i <= 2 * inputBitLen /\ p \in Nat \ {0}
  <2> HIDE DEF v, i, m
  <2>1. i <= 2 * inputBitLen
    BY <1>2
  <2>2. v % 2^i = v
    BY <1>2, <2>1, SmallValue
  <2>3. 0 \in Nat /\ i + 0 <= 2 * inputBitLen /\ PowersKnown(2 * inputBitLen)
    BY <1>2, <2>1, KnownPowers
  <2>4. p \in Nat \ {0}
    BY <1>2, <2>3, PowerIs
  <2>5. QED
    BY <2>1, <2>2, <2>4
<1>5. d \in Seq(AdicDigit) /\ Positions(d) /\ Len(d) \in Nat
  <2>1. d \in Seq(AdicDigit) /\ Positions(d)
    BY <1>2 DEF Digits
  <2>2. QED
    BY <2>1
<1>6. S \in Int
  <2>1. PICK f \in [0 .. Len(d) -> Int] : S = f[Len(d)]
    BY <1>5, SumIs
  <2>2. Len(d) \in 0 .. Len(d)
    BY <1>5
  <2>3. QED
    BY <2>1, <2>2
<1>7. Sign(adicInput)' = g /\ adicInput'.value = v
  BY <1>3 DEF Sign
<1>8. /\ Digits(digits', m) /\ SumOf(digits') = g * v /\ Len(digits') <= 1 + inputBitLen \div m
  <2>1. CASE adicCarry = 0
    <3>1. digits' = d
      BY <1>3, <2>1
    <3>2. S = g * v
      <4> HIDE DEF S, g, p, v
      <4>1. S + g * 0 * p = g * v
        BY <1>2, <1>4, <2>1
      <4>2. QED
        BY <1>2, <1>4, <1>6, <4>1
    <3>3. QED
      BY <1>2, <3>1, <3>2
  <2>2. CASE adicCarry = 1
    <3>1. i = inputBitLen /\ g \in {-1, 1} /\ digits' = Append(d, x)
      BY <1>2, <1>3, <2>2
    <3>2. x \in AdicDigit /\ x.position = i /\ x.coeff = 1 /\ x.sign = g
      BY <1>2, <3>1 DEF AdicDigit
    <3> HIDE DEF x
    <3>3. x.coeff % 2 = 1 /\ x.coeff \in 1 .. 2^m - 1
      <4> DEFINE q == 2^m
      <4>1. q \in Nat \ {0} /\ q % 2 = 0
        <5> HIDE DEF i, m, v
        <5>1. 0 \in Nat /\ 0 + m < 2 * inputBitLen /\ v \in Nat
          BY <1>2
        <5>2. QED
          BY <1>2, <5>1, NextWindow
      <4> HIDE DEF q
      <4>2. 1 \in 1 .. q - 1 /\ 1 % 2 = 1
        BY <4>1
      <4>3. QED
        BY <3>2, <4>2 DEF q
    <3>4. Digits(Append(d, x), m) /\ Len(Append(d, x)) = Len(d) + 1
      <4> HIDE DEF d, m, i
      <4>1. QED
        BY <1>2, <1>4, <3>2, <3>3, DigitsAppended
    <3>5. Len(d) + 1 <= 1 + inputBitLen \div m
      <4> DEFINE q == inputBitLen \div m
                 n == Len(d)
      <4>1. n <= q
        <5>1. Len(d) * (m + 1) <= i /\ i <= inputBitLen
          BY <1>2, <3>1 DEF DigitsBelow
        <5> HIDE DEF d, i, m
        <5>2. QED
          BY <1>2, <1>5, <5>1, Capacity
      <4>2. q \in Nat /\ n \in Nat
        BY <1>2, <1>5, NatDivision
      <4> HIDE DEF q, n
      <4>3. n + 1 <= 1 + q
        BY <4>1, <4>2
      <4>4. QED
        BY <4>3 DEF q, n
    <3>6. SumOf(Append(d, x)) = S + Contribution(x)
      <4>1. x.position <= 2 * inputBitLen
        BY <1>4, <3>2
      <4> HIDE DEF d
      <4>2. SumOf(Append(d, x)) = SumOf(d) + Contribution(x)
        BY <1>5, <3>2, <4>1, OneMoreDigit
      <4>3. QED
        BY <4>2
    <3>7. Contribution(x) = g * 1 * p
      BY <3>2 DEF Contribution
    <3>8. S + g * 1 * p = g * v
      BY <1>2, <1>4, <2>2
    <3>9. SumOf(Append(d, x)) = g * v
      BY <3>6, <3>7, <3>8
    <3>10. QED
      BY <3>1, <3>4, <3>5, <3>9
  <2>3. QED
    BY <1>2, <2>1, <2>2
<1>9. /\ Digits(digits', maxbits') /\ Len(digits') <= 1 + inputBitLen \div maxbits'
      /\ SumOf(digits') = Sign(adicInput)' * adicInput'.value
  BY <1>3, <1>7, <1>8
<1>10. /\ adicInput' \in glvExponent /\ adicCarry' \in {0, 1} /\ position' \in Nat /\ maxbits' \in Nat \ {0}
       /\ maxbits' < inputBitLen
       /\ position' <= inputBitLen + maxbits' /\ (position' > inputBitLen => adicCarry' = 0)
       /\ (adicInput'.value = 0 => adicCarry' = 0)
  BY <1>1, <1>2, <1>3 DEF AdicInv
<1>11. QED
  BY <1>3, <1>9, <1>10 DEF AdicInv

(* Without digits.                                                          *)
LEMMA NoDigits ==
  ASSUME NEW m \in Nat \ {0}
  PROVE  /\ Digits(<<>>, m) /\ Len(<<>>) <= 1 + inputBitLen \div m /\ 0 <= inputBitLen + m
         /\ ~(0 > inputBitLen) /\ 0 \in Nat
<1> DEFINE q == inputBitLen \div m
           n == inputBitLen
<1>1. n \in Nat /\ q \in Nat
  BY KnownPowers, NatDivision
<1>2. <<>> \in Seq(AdicDigit) /\ Positions(<<>>) /\ Len(<<>>) = 0
  BY DEF Positions
<1>3. Digits(<<>>, m)
  BY <1>2 DEF Digits
<1> HIDE DEF q, n
<1>4. 0 <= 1 + q /\ 0 <= n + m /\ ~(0 > n) /\ 0 \in Nat
  BY <1>1
<1>5. QED
  BY <1>2, <1>3, <1>4 DEF q, n

LEMMA ZeroIsExponent == [value |-> 0, sign |-> 0] \in glvExponent
<1>1. [value |-> 0, sign |-> 0] \in [value : {0}, sign : {0}]
  OBVIOUS
<1>2. QED
  BY <1>1 DEF glvExponent

LEMMA AdicReturnKeeps == AdicInv /\ AdicReturn => AdicInv'
<1>1. SUFFICES ASSUME AdicReturn PROVE AdicInv'
  OBVIOUS
<1>2. /\ adicInput' = [value |-> 0, sign |-> 0] /\ maxbits' = 1 /\ 1 \in Nat \ {0}
      /\ position' = 0 /\ adicCarry' = 0 /\ digits' = <<>> /\ adicPc' = "idle"
  BY <1>1 DEF AdicReturn
<1>3. QED
  BY <1>2, ZeroIsExponent, NoDigits DEF AdicInv

(* Both invariants hold at the start and are kept by the steps of either.   *)
LEMMA DecompositionsStart == DecompositionsInit => WindowInv /\ AdicInv
<1>1. SUFFICES ASSUME DecompositionsInit PROVE WindowInv /\ AdicInv
  OBVIOUS
<1>2. WindowInv
  BY <1>1, UintsAreNat DEF DecompositionsInit, WindowInit, WindowInv
<1>3. /\ adicInput = [value |-> 0, sign |-> 0] /\ maxbits = 1 /\ 1 \in Nat \ {0}
      /\ position = 0 /\ adicCarry = 0 /\ digits = <<>> /\ adicPc = "idle"
  BY <1>1 DEF DecompositionsInit, AdicInit
<1>4. AdicInv
  BY <1>3, ZeroIsExponent, NoDigits DEF AdicInv
<1>5. QED
  BY <1>2, <1>4

LEMMA WindowUnchanged == WindowInv /\ UNCHANGED windowVars => WindowInv'
BY DEF WindowInv, windowVars, Rest, Read, Opened, Entries

LEMMA AdicUnchanged == AdicInv /\ UNCHANGED adicVars => AdicInv'
BY DEF AdicInv, adicVars, Digits, DigitsBelow, Positions, Sign

LEMMA DecompositionsStep ==
  WindowInv /\ AdicInv /\ [DecompositionsNext]_<<windowVars, adicVars>> => WindowInv' /\ AdicInv'
<1>1. SUFFICES ASSUME WindowInv, AdicInv, [DecompositionsNext]_<<windowVars, adicVars>>
               PROVE  WindowInv' /\ AdicInv'
  OBVIOUS
<1>2. CASE (WindowStart \/ WindowLoop \/ WindowReturn) /\ UNCHANGED adicVars
  BY <1>1, <1>2, AdicUnchanged, WindowStartKeeps, ReadWordKeeps, ReadWindowKeeps, CommitShiftKeeps,
     WindowReturnKeeps DEF WindowLoop
<1>3. CASE (AdicStart \/ AdicLoop \/ AdicReturn) /\ UNCHANGED windowVars
  BY <1>1, <1>3, WindowUnchanged, AdicStartKeeps, SkipBitKeeps, TakeDigitKeeps, LastCarryKeeps,
     AdicReturnKeeps DEF AdicLoop
<1>4. CASE UNCHANGED <<windowVars, adicVars>>
  BY <1>1, <1>4, WindowUnchanged, AdicUnchanged
<1>5. QED
  BY <1>1, <1>2, <1>3, <1>4 DEF DecompositionsNext

(* The sliding windows and the signed digits stand for the exponent that    *)
(* they are read off, are odd and as small and as few as documented, and    *)
(* never outgrow the slice that is allocated for them: for words of every   *)
(* size, every number, every window size and every length of an exponent.   *)
THEOREM ExpansionsCorrect == DecompositionsSpec => []ExpansionsExact
<1>1. WindowInv /\ AdicInv => ExpansionsExact
  BY WindowInvImplies, AdicInvImplies DEF ExpansionsExact
<1>2. QED
  BY <1>1, DecompositionsStart, DecompositionsStep, PTL DEF DecompositionsSpec

-----------------------------------------------------------------------------
(* The GLV decomposition.  lBasis_1 is <<l, s>> and lBasis_2 is             *)
(* <<-2 * s, l>>, of determinant P.                                         *)

l == lBasis_11
s == lBasis_12
P == GroupOrder
lambda == EndomorphismEigenvalue

LEMMA BasisFacts ==
  /\ l \in Nat /\ s \in Nat \ {0} /\ 2 * s <= l /\ lambda \in Int
  /\ P \in Nat /\ P > 1 /\ P = l * l + 2 * (s * s)
  /\ (l + s * lambda) % P = 0 /\ (-2 * s + l * lambda) % P = 0
  /\ halfGroupOrder \in Nat /\ 2 * halfGroupOrder + 1 = P
<1>1. /\ l \in Nat /\ s \in Nat \ {0} /\ 2 * s <= l /\ lambda \in Int
      /\ (l + s * lambda) % P = 0 /\ (-2 * s + l * lambda) % P = 0
      /\ l * l - s * (-2 * s) = P /\ P % 2 = 1
  BY ExponentsAssumption DEF l, s, P, lambda, lBasis_21, lBasis_22
<1>2. P \in Nat /\ P > 1
  BY ExponentConstants DEF P
<1>3. halfGroupOrder = (P - 1) \div 2
  BY DEF halfGroupOrder, P
<1> HIDE DEF l, s, P, lambda
<1>4. s * (-2 * s) = -(2 * (s * s)) /\ s * s \in Int /\ l * l \in Int
  BY <1>1
<1>5. P = l * l + 2 * (s * s)
  BY <1>1, <1>2, <1>4
<1>6. halfGroupOrder \in Nat /\ 2 * halfGroupOrder + 1 = P
  BY <1>1, <1>2, <1>3
<1>7. QED
  BY <1>1, <1>2, <1>5, <1>6

Divisible(n) == \E k \in Int : n = P * k

LEMMA DivisibleIff ==
  ASSUME NEW n \in Int
  PROVE  n % P = 0 <=> Divisible(n)
<1>1. P \in Nat \ {0}
  BY BasisFacts
<1> HIDE DEF P
<1>2. ASSUME n % P = 0 PROVE Divisible(n)
  <2>1. n \div P \in Int /\ n = P * (n \div P) + (n % P)
    BY <1>1, Division
  <2> DEFINE q == n \div P
  <2> HIDE DEF q
  <2>2. q \in Int /\ n = P * q /\ P * q \in Int
    <3>1. q \in Int /\ n = P * q + 0
      BY <1>2, <2>1 DEF q
    <3>2. P * q \in Int
      BY <1>1, <3>1
    <3>3. QED
      BY <3>1, <3>2
  <2>3. QED
    BY <2>2 DEF Divisible
<1>3. ASSUME Divisible(n) PROVE n % P = 0
  <2>1. PICK k \in Int : n = P * k
    BY <1>3 DEF Divisible
  <2>2. 0 \in 0 .. P - 1 /\ P * k + 0 = P * k
    BY <1>1
  <2>3. (P * k + 0) % P = 0
    BY <1>1, <2>2, DivisionUnique
  <2>4. QED
    BY <2>1, <2>2, <2>3
<1>4. QED
  BY <1>2, <1>3

LEMMA DivisibleSums ==
  ASSUME NEW a \in Int, NEW b \in Int, Divisible(a), Divisible(b), NEW c \in Int
  PROVE  Divisible(a + b) /\ Divisible(a - b) /\ Divisible(c * a)
<1>1. P \in Nat
  BY BasisFacts
<1> HIDE DEF P
<1>2. PICK j \in Int, k \in Int : a = P * j /\ b = P * k
  BY DEF Divisible
<1>3. j + k \in Int /\ j - k \in Int /\ c * j \in Int
  OBVIOUS
<1>4. P * (j + k) = P * j + P * k /\ P * (j - k) = P * j - P * k /\ P * (c * j) = c * (P * j)
  BY <1>1
<1>5. a + b = P * (j + k) /\ a - b = P * (j - k) /\ c * a = P * (c * j)
  BY <1>2, <1>4
<1>6. QED
  BY <1>3, <1>5 DEF Divisible

(* The residue nearest to 0.                                                *)
LEMMA Centered ==
  ASSUME NEW n \in Int
  PROVE  LET r == mod_centered(n)
         IN  r \in Int /\ 2 * r < P /\ -2 * r < P /\ Divisible(n - r)
<1> DEFINE h == halfGroupOrder
           r == mod_centered(n)
           q == (n + h) \div P
           m == (n + h) % P
<1>1. P \in Nat \ {0} /\ h \in Nat /\ 2 * h + 1 = P
  BY BasisFacts
<1>2. r = m - h
  BY DEF mod_centered, P
<1> HIDE DEF P, h, r
<1>3. m \in 0 .. P - 1 /\ q \in Int /\ n + h = P * q + m /\ m \in Int /\ P * q \in Int
  <2>1. n + h \in Int
    BY <1>1
  <2>2. m \in 0 .. P - 1 /\ q \in Int /\ n + h = P * q + m
    BY <1>1, <2>1, Division
  <2> HIDE DEF m, q
  <2>3. QED
    BY <1>1, <2>2
<1> HIDE DEF m, q
<1>4. r \in Int /\ 2 * r < P /\ -2 * r < P
  BY <1>1, <1>2, <1>3
<1>5. n - r = P * q
  <2> DEFINE x == P * q
  <2>1. n + h = x + m /\ x \in Int
    BY <1>3
  <2> HIDE DEF x
  <2>2. n - r = x
    BY <1>1, <1>2, <1>3, <2>1
  <2>3. QED
    BY <2>2 DEF x
<1>6. QED
  BY <1>3, <1>4, <1>5 DEF Divisible, r

(* Rounding: what is left of (t, 0) is at most half of each basis vector,   *)
(* and the second part is negative where the first is large, or the other   *)
(* way round.                                                               *)
LEMMA Rounded ==
  ASSUME NEW t \in Int
  PROVE  \E u \in Int, v \in Int :
           /\ BabaiRounding(t) = <<u, v>>
           /\ Divisible(u + v * lambda - t)
           /\ 2 * u <= l + 2 * s /\ -2 * u <= l + 2 * s
           /\ 2 * v <= l + s /\ -2 * v <= l + s
           /\ 2 * u > l + s => v < 0
           /\ -2 * u > l + s => v > 0
<1> DEFINE da == mod_centered(t * lBasis_22)
           db == mod_centered(-t * lBasis_12)
           x == l * da - 2 * s * db
           y == s * da + l * db
<1>1. /\ l \in Nat /\ s \in Nat \ {0} /\ 2 * s <= l /\ lambda \in Int
      /\ P \in Nat \ {0} /\ P = l * l + 2 * (s * s)
      /\ Divisible(l + s * lambda) /\ Divisible(-2 * s + l * lambda)
  <2>1. /\ l \in Nat /\ s \in Nat \ {0} /\ 2 * s <= l /\ lambda \in Int
        /\ P \in Nat \ {0} /\ P = l * l + 2 * (s * s)
        /\ (l + s * lambda) % P = 0 /\ (-2 * s + l * lambda) % P = 0
    BY BasisFacts
  <2> HIDE DEF l, s, P, lambda
  <2>2. l + s * lambda \in Int /\ -2 * s + l * lambda \in Int
    BY <2>1
  <2>3. QED
    BY <2>1, <2>2, DivisibleIff
<1>2. BabaiRounding(t) = <<x \div P, y \div P>>
  <2>1. BabaiRounding(t) = <<(l * da + (-2 * s) * db) \div P, (s * da + l * db) \div P>>
    BY DEF BabaiRounding, lBasis_21, lBasis_22, l, s, P
  <2>2. /\ da \in Int /\ db \in Int
    <3>1. t * l \in Int /\ -t * s \in Int
      BY <1>1
    <3>2. QED
      BY <3>1, Centered DEF lBasis_22, l, s
  <2> HIDE DEF da, db, l, s, P
  <2>3. (-2 * s) * db = -(2 * s * db) /\ l * da \in Int /\ 2 * s * db \in Int
    BY <1>1, <2>2
  <2>4. l * da + (-2 * s) * db = x
    BY <2>3
  <2>5. QED
    BY <2>1, <2>4
<1>3. /\ da \in Int /\ 2 * da < P /\ -2 * da < P /\ Divisible(t * l - da)
      /\ db \in Int /\ 2 * db < P /\ -2 * db < P /\ Divisible(-t * s - db)
  <2>1. t * l \in Int /\ -t * s \in Int
    BY <1>1
  <2>2. QED
    BY <2>1, Centered DEF lBasis_22, l, s
<1> HIDE DEF da, db, l, s, P, lambda
<1>4. PICK a \in Int, b \in Int : t * l - da = P * a /\ -t * s - db = P * b
  BY <1>3 DEF Divisible
<1>5. da = t * l - P * a /\ db = -t * s - P * b
  <2> DEFINE Pa == P * a
             Pb == P * b
             tL == t * l
             ts == -t * s
  <2>1. Pa \in Int /\ Pb \in Int /\ tL \in Int /\ ts \in Int /\ tL - da = Pa /\ ts - db = Pb
    BY <1>1, <1>4
  <2> HIDE DEF Pa, Pb, tL, ts
  <2>2. da = tL - Pa /\ db = ts - Pb
    BY <1>3, <2>1
  <2>3. QED
    BY <2>2 DEF Pa, Pb, tL, ts
<1> DEFINE u == t - (a * l - 2 * (b * s))
           v == -(a * s + b * l)
<1>6. u \in Int /\ v \in Int
  BY <1>1
<1>7. x = P * u /\ y = P * v
  <2>1. ASSUME NEW p \in Int
        PROVE  /\ l * (t * l - p * a) - 2 * s * (-t * s - p * b)
                    = t * (l * l + 2 * (s * s)) - p * (a * l - 2 * (b * s))
               /\ s * (t * l - p * a) + l * (-t * s - p * b) = p * (-(a * s + b * l))
    BY <1>1
  <2>2. x = t * P - P * (a * l - 2 * (b * s)) /\ y = P * v
    BY <1>1, <1>5, <2>1
  <2>3. t * P - P * (a * l - 2 * (b * s)) = P * u
    <3> DEFINE z == a * l - 2 * (b * s)
    <3>1. z \in Int
      BY <1>1
    <3> HIDE DEF z
    <3>2. t * P - P * z = P * (t - z)
      BY <1>1, <3>1
    <3>3. QED
      BY <3>2 DEF z
  <2>4. QED
    BY <2>2, <2>3
<1>8. x \div P = u /\ y \div P = v
  <2>1. 0 \in 0 .. P - 1 /\ x = P * u + 0 /\ y = P * v + 0
    <3> HIDE DEF x, y, u, v
    <3>1. P * u + 0 = P * u /\ P * v + 0 = P * v /\ 0 \in 0 .. P - 1
      BY <1>1, <1>6
    <3>2. QED
      BY <1>7, <3>1
  <2> HIDE DEF x, y, u, v
  <2>2. QED
    BY <1>1, <1>6, <2>1, DivisionUnique
<1>9. Divisible(u + v * lambda - t)
  <2> DEFINE e == l + s * lambda
             f == -2 * s + l * lambda
  <2>1. e \in Int /\ f \in Int /\ Divisible(e) /\ Divisible(f) /\ -a \in Int
    BY <1>1
  <2>2. (-a) * e - b * f = u + v * lambda - t
    BY <1>1
  <2> HIDE DEF e, f
  <2>3. Divisible((-a) * e) /\ Divisible(b * f) /\ (-a) * e \in Int /\ b * f \in Int
    BY <2>1, DivisibleSums
  <2>4. Divisible((-a) * e - b * f)
    BY <2>3, DivisibleSums
  <2>5. QED
    BY <2>2, <2>4
<1> HIDE DEF u, v
(* Bounds, times P.                                                         *)
<1> DEFINE A == l * da
           B == s * db
           D == s * da
           E == l * db
           PL == P * l
           Ps == P * s
<1>10. /\ A \in Int /\ B \in Int /\ D \in Int /\ E \in Int /\ PL \in Int /\ Ps \in Int
       /\ P * u = A - 2 * B /\ P * v = D + E /\ P * u \in Int /\ P * v \in Int
  <2>1. 2 * s * db = 2 * (s * db)
    BY <1>1, <1>3
  <2>2. A \in Int /\ B \in Int /\ D \in Int /\ E \in Int /\ PL \in Int /\ Ps \in Int
        /\ P * u \in Int /\ P * v \in Int
    BY <1>1, <1>3, <1>6
  <2>3. QED
    BY <1>7, <2>1, <2>2
<1>11. /\ 2 * A <= PL /\ -2 * A <= PL /\ 2 * E <= PL /\ -2 * E <= PL
       /\ 2 * B <= Ps /\ -2 * B <= Ps /\ 2 * D <= Ps /\ -2 * D <= Ps
  <2>1. ASSUME NEW d \in Int, 2 * d < P, -2 * d < P, NEW c \in Nat
        PROVE  2 * (c * d) <= P * c /\ -2 * (c * d) <= P * c
    <3>1. c * (2 * d) <= c * P /\ c * (-2 * d) <= c * P
      BY <1>1, <2>1, Monotone
    <3>2. c * (2 * d) = 2 * (c * d) /\ c * (-2 * d) = -2 * (c * d) /\ c * P = P * c
      BY <1>1
    <3>3. QED
      BY <3>1, <3>2
  <2>2. s \in Nat
    BY <1>1
  <2>3. QED
    BY <1>1, <1>3, <2>1, <2>2
<1>12. ASSUME NEW m \in Int, NEW n \in Int, P * m <= P * n
       PROVE  m <= n
  <2>1. ASSUME n < m PROVE FALSE
    <3>1. n + 1 <= m
      BY <2>1
    <3>2. P * (n + 1) <= P * m
      BY <1>1, <3>1, Monotone
    <3>3. P * (n + 1) = P * n + P /\ P * n \in Int /\ P * m \in Int
      BY <1>1
    <3>4. QED
      BY <1>1, <1>12, <3>2, <3>3
  <2>2. QED
    BY <2>1
<1>13. /\ P * (2 * u) = 2 * (P * u) /\ P * (-2 * u) = -2 * (P * u)
       /\ P * (2 * v) = 2 * (P * v) /\ P * (-2 * v) = -2 * (P * v)
       /\ P * (l + 2 * s) = PL + 2 * Ps /\ P * (l + s) = PL + Ps
       /\ 2 * u \in Int /\ -2 * u \in Int /\ 2 * v \in Int /\ -2 * v \in Int
       /\ l + 2 * s \in Int /\ l + s \in Int
  BY <1>1, <1>6
<1>14. 2 * Ps <= PL
  <2>1. P * (2 * s) <= P * l
    BY <1>1, Monotone
  <2>2. P * (2 * s) = 2 * Ps
    BY <1>1
  <2>3. QED
    BY <2>1, <2>2
<1>15. (* A basis vector is large enough to move the other part. *)
       /\ -4 * B > Ps => -4 * E > PL
       /\ 4 * B > Ps => 4 * E > PL
  <2>1. ASSUME NEW d \in Int, 4 * (s * d) > Ps
        PROVE  4 * (l * d) > PL
    <3>1. ASSUME 4 * d <= P PROVE FALSE
      <4>1. s * (4 * d) <= s * P
        BY <1>1, <3>1, Monotone
      <4>2. s * (4 * d) = 4 * (s * d) /\ s * P = Ps
        BY <1>1
      <4> DEFINE z == s * d
                 w == s * (4 * d)
                 x1 == s * P
      <4>3. z \in Int /\ 4 * z > Ps /\ w <= x1 /\ w = 4 * z /\ x1 = Ps
        BY <1>1, <2>1, <4>1, <4>2
      <4> HIDE DEF z, w, x1, Ps
      <4>4. QED
        BY <1>10, <4>3
    <3>2. 4 * d >= P + 1
      BY <1>1, <3>1
    <3>3. l * (P + 1) <= l * (4 * d)
      BY <1>1, <3>2, Monotone
    <3>4. l * (P + 1) = PL + l /\ l * (4 * d) = 4 * (l * d) /\ l > 0
      BY <1>1
    <3>5. QED
      BY <1>1, <1>10, <3>3, <3>4
  <2>2. /\ s * (-db) = -B /\ l * (-db) = -E /\ -db \in Int
    BY <1>1, <1>3
  <2>3. ASSUME -4 * B > Ps PROVE -4 * E > PL
    <3>1. 4 * (s * (-db)) > Ps
      BY <1>10, <2>2, <2>3
    <3>2. 4 * (l * (-db)) > PL
      BY <2>1, <2>2, <3>1
    <3>3. QED
      BY <1>10, <2>2, <3>2
  <2>4. ASSUME 4 * B > Ps PROVE 4 * E > PL
    BY <1>3, <2>1, <2>4
  <2>5. QED
    BY <2>3, <2>4
<1> HIDE DEF A, B, D, E, PL, Ps
<1>16. /\ 2 * u <= l + 2 * s /\ -2 * u <= l + 2 * s
       /\ 2 * v <= l + s /\ -2 * v <= l + s
  <2>1. /\ P * (2 * u) <= P * (l + 2 * s) /\ P * (-2 * u) <= P * (l + 2 * s)
        /\ P * (2 * v) <= P * (l + s) /\ P * (-2 * v) <= P * (l + s)
    <3> DEFINE p == P * u
               q == P * v
    <3> HIDE DEF p, q
    <3>1. p = A - 2 * B /\ q = D + E /\ p \in Int /\ q \in Int
      BY <1>10 DEF p, q
    <3>2. 2 * p <= PL + 2 * Ps /\ -2 * p <= PL + 2 * Ps /\ 2 * q <= PL + Ps /\ -2 * q <= PL + Ps
      BY <1>10, <1>11, <3>1
    <3>3. QED
      BY <1>13, <3>2 DEF p, q
  <2>2. QED
    BY <1>12, <1>13, <2>1
<1>17. ASSUME 2 * u > l + s PROVE v < 0
  <2> DEFINE p == P * u
             q == P * v
  <2> HIDE DEF p, q
  <2>1. p = A - 2 * B /\ q = D + E /\ p \in Int /\ q \in Int
    BY <1>10 DEF p, q
  <2>2. ~(P * (2 * u) <= P * (l + s))
    BY <1>12, <1>13, <1>17
  <2>3. 2 * p > PL + Ps
    BY <1>10, <1>13, <2>1, <2>2 DEF p
  <2>4. -4 * B > Ps
    BY <1>10, <1>11, <2>1, <2>3
  <2>5. -4 * E > PL
    BY <1>15, <2>4
  <2>6. q < 0
    BY <1>10, <1>11, <1>14, <2>1, <2>5
  <2>7. ASSUME v >= 0 PROVE FALSE
    <3>1. P * v >= 0
      BY <1>1, <1>6, <2>7
    <3>2. QED
      BY <2>1, <2>6, <3>1 DEF q
  <2>8. QED
    BY <1>6, <2>7
<1>18. ASSUME -2 * u > l + s PROVE v > 0
  <2> DEFINE p == P * u
             q == P * v
  <2> HIDE DEF p, q
  <2>1. p = A - 2 * B /\ q = D + E /\ p \in Int /\ q \in Int
    BY <1>10 DEF p, q
  <2>2. ~(P * (-2 * u) <= P * (l + s))
    BY <1>12, <1>13, <1>18
  <2>3. -2 * p > PL + Ps
    BY <1>10, <1>13, <2>1, <2>2 DEF p
  <2>4. 4 * B > Ps
    BY <1>10, <1>11, <2>1, <2>3
  <2>5. 4 * E > PL
    BY <1>15, <2>4
  <2>6. q > 0
    BY <1>10, <1>11, <1>14, <2>1, <2>5
  <2>7. ASSUME v <= 0 PROVE FALSE
    <3>1. P * v <= 0
      BY <1>1, <1>6, <2>7
    <3>2. QED
      BY <2>1, <2>6, <3>1 DEF q
  <2>8. QED
    BY <1>6, <2>7
<1>19. BabaiRounding(t) = <<u, v>>
  BY <1>2, <1>8
<1>20. QED
  BY <1>6, <1>9, <1>16, <1>17, <1>18, <1>19

(* The norm of a vector.                                                    *)
Norm(a, b) == infty_norm(<<a, b>>)

LEMMA NormFacts ==
  ASSUME NEW a \in Int, NEW b \in Int
  PROVE  /\ Norm(a, b) \in Int /\ a <= Norm(a, b) /\ -a <= Norm(a, b) /\ b <= Norm(a, b) /\ -b <= Norm(a, b)
         /\ Norm(a, b) \in {a, -a, b, -b}
BY DEF Norm, infty_norm, Abs

(* The three candidates, and which of them is taken.                        *)
LEMMA Taken ==
  ASSUME NEW t \in Int, NEW u \in Int, NEW v \in Int, BabaiRounding(t) = <<u, v>>
  PROVE  LET i == IF u > 0 THEN -1 ELSE 1
             k == IF v > 0 THEN -1 ELSE 1
             u1 == u + i * l
             v1 == v + i * s
             u2 == u - k * (2 * s)
             v2 == v + k * l
         IN  \E a \in Int, b \in Int :
               /\ GLV_representation(t) = <<a, b>>
               /\ (a = u /\ b = v) \/ (a = u1 /\ b = v1) \/ (a = u2 /\ b = v2)
               /\ Norm(a, b) <= Norm(u, v) /\ Norm(a, b) <= Norm(u1, v1) /\ Norm(a, b) <= Norm(u2, v2)
<1> DEFINE i == IF u > 0 THEN -1 ELSE 1
           k == IF v > 0 THEN -1 ELSE 1
           u1 == u + i * l
           v1 == v + i * s
           u2 == u - k * (2 * s)
           v2 == v + k * l
           first == Shorter(<<u1, v1>>, <<u, v>>)
           w == Shorter(<<u2, v2>>, first)
<1>1. l \in Int /\ s \in Int
  BY BasisFacts
<1>2. i \in Int /\ k \in Int
  OBVIOUS
<1>3. GLV_representation(t) = w
  <2>1. GLV_representation(t)
          = Shorter(<<u + k * (-2 * s), v + k * l>>, Shorter(<<u + i * l, v + i * s>>, <<u, v>>))
    BY DEF GLV_representation, Shift, lBasis_1, lBasis_2, lBasis_21, lBasis_22, l, s
  <2> HIDE DEF l, s, i, k
  <2>2. u + k * (-2 * s) = u2
    BY <1>1, <1>2
  <2>3. QED
    BY <2>1, <2>2
<1> HIDE DEF l, s, i, k
<1>4. u1 \in Int /\ v1 \in Int /\ u2 \in Int /\ v2 \in Int
  BY <1>1, <1>2
<1> HIDE DEF u1, v1, u2, v2
<1>5. Norm(u, v) \in Int /\ Norm(u1, v1) \in Int /\ Norm(u2, v2) \in Int
  BY <1>4, NormFacts
<1>6. /\ first = IF Norm(u1, v1) < Norm(u, v) THEN <<u1, v1>> ELSE <<u, v>>
      /\ w = IF Norm(u2, v2) < infty_norm(first) THEN <<u2, v2>> ELSE first
  BY DEF Shorter, Norm
<1> HIDE DEF w, first
<1>7. \E c \in Int, d \in Int : /\ first = <<c, d>> /\ ((c = u /\ d = v) \/ (c = u1 /\ d = v1))
                               /\ Norm(c, d) <= Norm(u, v) /\ Norm(c, d) <= Norm(u1, v1)
  <2>1. CASE Norm(u1, v1) < Norm(u, v)
    <3>1. first = <<u1, v1>> /\ Norm(u1, v1) <= Norm(u, v) /\ Norm(u1, v1) <= Norm(u1, v1)
      BY <1>5, <1>6, <2>1
    <3>2. QED
      BY <1>4, <3>1, Zenon
  <2>2. CASE ~(Norm(u1, v1) < Norm(u, v))
    <3>1. first = <<u, v>> /\ Norm(u, v) <= Norm(u1, v1) /\ Norm(u, v) <= Norm(u, v)
      BY <1>5, <1>6, <2>2
    <3>2. WITNESS u \in Int, v \in Int
    <3>3. QED
      BY <3>1
  <2>3. QED
    BY <2>1, <2>2
<1>8. PICK c \in Int, d \in Int : /\ first = <<c, d>> /\ ((c = u /\ d = v) \/ (c = u1 /\ d = v1))
                                  /\ Norm(c, d) <= Norm(u, v) /\ Norm(c, d) <= Norm(u1, v1)
  BY <1>7, Zenon
<1>9. Norm(c, d) \in Int /\ infty_norm(first) = Norm(c, d)
  BY <1>8, NormFacts DEF Norm
<1>10. \E a \in Int, b \in Int :
         /\ w = <<a, b>>
         /\ (a = u /\ b = v) \/ (a = u1 /\ b = v1) \/ (a = u2 /\ b = v2)
         /\ Norm(a, b) <= Norm(u, v) /\ Norm(a, b) <= Norm(u1, v1) /\ Norm(a, b) <= Norm(u2, v2)
  <2>1. CASE Norm(u2, v2) < Norm(c, d)
    <3>1. w = <<u2, v2>>
      BY <1>6, <1>9, <2>1
    <3>2. /\ Norm(u2, v2) <= Norm(u, v) /\ Norm(u2, v2) <= Norm(u1, v1) /\ Norm(u2, v2) <= Norm(u2, v2)
      BY <1>5, <1>8, <1>9, <2>1
    <3>3. QED
      BY <1>4, <3>1, <3>2, Zenon
  <2>2. CASE ~(Norm(u2, v2) < Norm(c, d))
    <3>1. w = <<c, d>>
      BY <1>6, <1>8, <1>9, <2>2
    <3>2. Norm(c, d) <= Norm(u2, v2)
      BY <1>5, <1>9, <2>2
    <3>3. WITNESS c \in Int, d \in Int
    <3>4. QED
      BY <1>8, <3>1, <3>2
  <2>3. QED
    BY <2>1, <2>2
<1>11. QED
  BY <1>3, <1>10, Zenon DEF i, k, u1, v1, u2, v2

(* The rounded solution <<u, v>> and the vector <<a, b>> that is taken.     *)
Near(u, v, a, b) ==
  LET i == IF u > 0 THEN -1 ELSE 1
      k == IF v > 0 THEN -1 ELSE 1
      u1 == u + i * l
      v1 == v + i * s
      u2 == u - k * (2 * s)
      v2 == v + k * l
  IN  /\ u \in Int /\ v \in Int /\ a \in Int /\ b \in Int
      /\ 2 * u <= l + 2 * s /\ -2 * u <= l + 2 * s
      /\ 2 * v <= l + s /\ -2 * v <= l + s
      /\ 2 * u > l + s => v < 0
      /\ -2 * u > l + s => v > 0
      /\ (a = u /\ b = v) \/ (a = u1 /\ b = v1) \/ (a = u2 /\ b = v2)
      /\ Norm(a, b) <= Norm(u, v) /\ Norm(a, b) <= Norm(u1, v1) /\ Norm(a, b) <= Norm(u2, v2)

LEMMA GLVResult ==
  ASSUME NEW t \in Int
  PROVE  \E u \in Int, v \in Int, a \in Int, b \in Int :
           /\ GLV_representation(t) = <<a, b>>
           /\ Near(u, v, a, b) /\ Divisible(u + v * lambda - t)
<1>1. PICK u \in Int, v \in Int :
           /\ BabaiRounding(t) = <<u, v>>
           /\ Divisible(u + v * lambda - t)
           /\ 2 * u <= l + 2 * s /\ -2 * u <= l + 2 * s
           /\ 2 * v <= l + s /\ -2 * v <= l + s
           /\ 2 * u > l + s => v < 0
           /\ -2 * u > l + s => v > 0
  BY Rounded, Zenon
<1> DEFINE i == IF u > 0 THEN -1 ELSE 1
           k == IF v > 0 THEN -1 ELSE 1
           u1 == u + i * l
           v1 == v + i * s
           u2 == u - k * (2 * s)
           v2 == v + k * l
<1>2. PICK a \in Int, b \in Int :
         /\ GLV_representation(t) = <<a, b>>
         /\ (a = u /\ b = v) \/ (a = u1 /\ b = v1) \/ (a = u2 /\ b = v2)
         /\ Norm(a, b) <= Norm(u, v) /\ Norm(a, b) <= Norm(u1, v1) /\ Norm(a, b) <= Norm(u2, v2)
  BY <1>1, Taken, Zenon
<1>3. Near(u, v, a, b)
  BY <1>1, <1>2, Zenon DEF Near
<1>4. QED
  BY <1>1, <1>2, <1>3, Zenon

(* The candidates by sign.                                                  *)
LEMMA NearBySign ==
  ASSUME NEW u, NEW v, NEW a, NEW b, Near(u, v, a, b)
  PROVE  /\ u \in Int /\ v \in Int /\ a \in Int /\ b \in Int
         /\ l \in Nat /\ s \in Nat \ {0} /\ 2 * s <= l
         /\ 2 * u <= l + 2 * s /\ -2 * u <= l + 2 * s
         /\ 2 * v <= l + s /\ -2 * v <= l + s
         /\ 2 * u > l + s => v < 0
         /\ -2 * u > l + s => v > 0
         /\ Norm(a, b) <= Norm(u, v)
         /\ u > 0 => Norm(a, b) <= Norm(u - l, v - s)
         /\ ~(u > 0) => Norm(a, b) <= Norm(u + l, v + s)
         /\ v > 0 => Norm(a, b) <= Norm(u + 2 * s, v - l)
         /\ ~(v > 0) => Norm(a, b) <= Norm(u - 2 * s, v + l)
         /\ \/ a = u /\ b = v
            \/ u > 0 /\ a = u - l /\ b = v - s
            \/ ~(u > 0) /\ a = u + l /\ b = v + s
            \/ v > 0 /\ a = u + 2 * s /\ b = v - l
            \/ ~(v > 0) /\ a = u - 2 * s /\ b = v + l
<1> DEFINE i == IF u > 0 THEN -1 ELSE 1
           k == IF v > 0 THEN -1 ELSE 1
           u1 == u + i * l
           v1 == v + i * s
           u2 == u - k * (2 * s)
           v2 == v + k * l
<1>1. l \in Nat /\ s \in Nat \ {0} /\ 2 * s <= l
  BY BasisFacts
<1>2. /\ u \in Int /\ v \in Int /\ a \in Int /\ b \in Int
      /\ 2 * u <= l + 2 * s /\ -2 * u <= l + 2 * s
      /\ 2 * v <= l + s /\ -2 * v <= l + s
      /\ 2 * u > l + s => v < 0
      /\ -2 * u > l + s => v > 0
      /\ (a = u /\ b = v) \/ (a = u1 /\ b = v1) \/ (a = u2 /\ b = v2)
      /\ Norm(a, b) <= Norm(u, v) /\ Norm(a, b) <= Norm(u1, v1) /\ Norm(a, b) <= Norm(u2, v2)
  BY Zenon DEF Near
<1> HIDE DEF l, s
<1>3. /\ u > 0 => u1 = u - l /\ v1 = v - s
      /\ ~(u > 0) => u1 = u + l /\ v1 = v + s
      /\ v > 0 => u2 = u + 2 * s /\ v2 = v - l
      /\ ~(v > 0) => u2 = u - 2 * s /\ v2 = v + l
  BY <1>1, <1>2
<1> HIDE DEF u1, v1, u2, v2
<1>4. /\ u > 0 => Norm(a, b) <= Norm(u - l, v - s)
      /\ ~(u > 0) => Norm(a, b) <= Norm(u + l, v + s)
      /\ v > 0 => Norm(a, b) <= Norm(u + 2 * s, v - l)
      /\ ~(v > 0) => Norm(a, b) <= Norm(u - 2 * s, v + l)
  BY <1>2, <1>3, Zenon
<1>5. \/ a = u /\ b = v
      \/ u > 0 /\ a = u - l /\ b = v - s
      \/ ~(u > 0) /\ a = u + l /\ b = v + s
      \/ v > 0 /\ a = u + 2 * s /\ b = v - l
      \/ ~(v > 0) /\ a = u - 2 * s /\ b = v + l
  BY <1>2, <1>3, Zenon
<1>6. QED
  BY <1>1, <1>2, <1>4, <1>5

(* At most half of l + s.                                                   *)
LEMMA Half ==
  ASSUME NEW u, NEW v, NEW a, NEW b, Near(u, v, a, b)
  PROVE  2 * Norm(a, b) <= l + s
<1>1. /\ u \in Int /\ v \in Int /\ a \in Int /\ b \in Int
      /\ l \in Nat /\ s \in Nat \ {0} /\ 2 * s <= l
      /\ 2 * u <= l + 2 * s /\ -2 * u <= l + 2 * s
      /\ 2 * v <= l + s /\ -2 * v <= l + s
      /\ 2 * u > l + s => v < 0
      /\ -2 * u > l + s => v > 0
      /\ Norm(a, b) <= Norm(u, v)
      /\ u > 0 => Norm(a, b) <= Norm(u - l, v - s)
      /\ ~(u > 0) => Norm(a, b) <= Norm(u + l, v + s)
      /\ v > 0 => Norm(a, b) <= Norm(u + 2 * s, v - l)
      /\ ~(v > 0) => Norm(a, b) <= Norm(u - 2 * s, v + l)
  BY NearBySign
<1> HIDE DEF l, s
<1>2. ASSUME NEW x \in Int, NEW y \in Int, Norm(a, b) <= Norm(x, y),
             2 * x <= l + s, -2 * x <= l + s, 2 * y <= l + s, -2 * y <= l + s
      PROVE  2 * Norm(a, b) <= l + s
  <2>1. Norm(x, y) \in {x, -x, y, -y} /\ Norm(x, y) \in Int /\ Norm(a, b) \in Int
    BY <1>1, NormFacts
  <2>2. QED
    BY <1>1, <1>2, <2>1
<1>3. CASE 2 * u <= l + s /\ -2 * u <= l + s
  BY <1>1, <1>2, <1>3
<1>4. CASE 2 * u > l + s /\ 2 * v >= s - l
  <2>1. /\ u - l \in Int /\ v - s \in Int /\ u > 0
        /\ 2 * (u - l) <= l + s /\ -2 * (u - l) <= l + s
        /\ 2 * (v - s) <= l + s /\ -2 * (v - s) <= l + s
    BY <1>1, <1>4
  <2>2. QED
    BY <1>1, <1>2, <2>1
<1>5. CASE 2 * u > l + s /\ 2 * v < s - l
  <2>1. /\ u - 2 * s \in Int /\ v + l \in Int /\ ~(v > 0)
        /\ 2 * (u - 2 * s) <= l + s /\ -2 * (u - 2 * s) <= l + s
        /\ 2 * (v + l) <= l + s /\ -2 * (v + l) <= l + s
    BY <1>1, <1>5
  <2>2. QED
    BY <1>1, <1>2, <2>1
<1>6. CASE -2 * u > l + s /\ 2 * v <= l - s
  <2>1. /\ u + l \in Int /\ v + s \in Int /\ ~(u > 0)
        /\ 2 * (u + l) <= l + s /\ -2 * (u + l) <= l + s
        /\ 2 * (v + s) <= l + s /\ -2 * (v + s) <= l + s
    BY <1>1, <1>6
  <2>2. QED
    BY <1>1, <1>2, <2>1
<1>7. CASE -2 * u > l + s /\ 2 * v > l - s
  <2>1. /\ u + 2 * s \in Int /\ v - l \in Int /\ v > 0
        /\ 2 * (u + 2 * s) <= l + s /\ -2 * (u + 2 * s) <= l + s
        /\ 2 * (v - l) <= l + s /\ -2 * (v - l) <= l + s
    BY <1>1, <1>7
  <2>2. QED
    BY <1>1, <1>2, <2>1
<1>8. QED
  BY <1>1, <1>3, <1>4, <1>5, <1>6, <1>7

(* No neighbour along a basis vector is shorter.                            *)
LEMMA Neighbours ==
  ASSUME NEW u, NEW v, NEW a, NEW b, Near(u, v, a, b)
  PROVE  /\ Norm(a, b) <= Norm(a + l, b + s) /\ Norm(a, b) <= Norm(a - l, b - s)
         /\ Norm(a, b) <= Norm(a - 2 * s, b + l) /\ Norm(a, b) <= Norm(a + 2 * s, b - l)
<1>1. /\ u \in Int /\ v \in Int /\ a \in Int /\ b \in Int
      /\ l \in Nat /\ s \in Nat \ {0} /\ 2 * s <= l
      /\ 2 * u <= l + 2 * s /\ -2 * u <= l + 2 * s
      /\ 2 * v <= l + s /\ -2 * v <= l + s
      /\ Norm(a, b) <= Norm(u, v)
      /\ u > 0 => Norm(a, b) <= Norm(u - l, v - s)
      /\ ~(u > 0) => Norm(a, b) <= Norm(u + l, v + s)
      /\ v > 0 => Norm(a, b) <= Norm(u + 2 * s, v - l)
      /\ ~(v > 0) => Norm(a, b) <= Norm(u - 2 * s, v + l)
      /\ \/ a = u /\ b = v
         \/ u > 0 /\ a = u - l /\ b = v - s
         \/ ~(u > 0) /\ a = u + l /\ b = v + s
         \/ v > 0 /\ a = u + 2 * s /\ b = v - l
         \/ ~(v > 0) /\ a = u - 2 * s /\ b = v + l
  BY NearBySign
<1>2. 2 * Norm(a, b) <= l + s /\ Norm(a, b) \in Int
  BY <1>1, Half, NormFacts
<1> HIDE DEF l, s
<1>3. ASSUME NEW x \in Int, NEW y \in Int,
             2 * x >= l + s \/ -2 * x >= l + s \/ 2 * y >= l + s \/ -2 * y >= l + s
      PROVE  Norm(a, b) <= Norm(x, y)
  <2>1. Norm(x, y) \in Int /\ x <= Norm(x, y) /\ -x <= Norm(x, y) /\ y <= Norm(x, y) /\ -y <= Norm(x, y)
    BY NormFacts
  <2>2. QED
    BY <1>1, <1>2, <1>3, <2>1
<1>4. /\ a + l \in Int /\ b + s \in Int /\ a - l \in Int /\ b - s \in Int
      /\ a - 2 * s \in Int /\ b + l \in Int /\ a + 2 * s \in Int /\ b - l \in Int
  BY <1>1
<1> DEFINE Large(x, y) == 2 * x >= l + s \/ -2 * x >= l + s \/ 2 * y >= l + s \/ -2 * y >= l + s
<1>5. CASE a = u /\ b = v
  <2>1. /\ u > 0 => Large(a + l, b + s)
        /\ ~(u > 0) => Large(a - l, b - s)
        /\ v > 0 => Large(a - 2 * s, b + l)
        /\ ~(v > 0) => Large(a + 2 * s, b - l)
    BY <1>1, <1>5
  <2>2. /\ u > 0 => Norm(a, b) <= Norm(a + l, b + s)
        /\ ~(u > 0) => Norm(a, b) <= Norm(a - l, b - s)
        /\ v > 0 => Norm(a, b) <= Norm(a - 2 * s, b + l)
        /\ ~(v > 0) => Norm(a, b) <= Norm(a + 2 * s, b - l)
    BY <1>3, <1>4, <2>1
  <2>3. QED
    BY <1>1, <1>5, <2>2, Zenon
<1>6. CASE u > 0 /\ a = u - l /\ b = v - s
  <2>1. /\ a + l = u /\ b + s = v
        /\ Large(a - l, b - s) /\ Large(a - 2 * s, b + l) /\ Large(a + 2 * s, b - l)
    BY <1>1, <1>6
  <2>2. QED
    BY <1>1, <1>3, <1>4, <2>1
<1>7. CASE ~(u > 0) /\ a = u + l /\ b = v + s
  <2>1. /\ a - l = u /\ b - s = v
        /\ Large(a + l, b + s) /\ Large(a - 2 * s, b + l) /\ Large(a + 2 * s, b - l)
    BY <1>1, <1>7
  <2>2. QED
    BY <1>1, <1>3, <1>4, <2>1
<1>8. CASE v > 0 /\ a = u + 2 * s /\ b = v - l
  <2>1. /\ a - 2 * s = u /\ b + l = v
        /\ Large(a + l, b + s) /\ Large(a - l, b - s) /\ Large(a + 2 * s, b - l)
    BY <1>1, <1>8
  <2>2. QED
    BY <1>1, <1>3, <1>4, <2>1
<1>9. CASE ~(v > 0) /\ a = u - 2 * s /\ b = v + l
  <2>1. /\ a + 2 * s = u /\ b - l = v
        /\ Large(a + l, b + s) /\ Large(a - l, b - s) /\ Large(a - 2 * s, b + l)
    BY <1>1, <1>9
  <2>2. QED
    BY <1>1, <1>3, <1>4, <2>1
<1>10. QED
  BY <1>1, <1>5, <1>6, <1>7, <1>8, <1>9

(* Products with a bound that is not linear.                                *)
LEMMA Products ==
  ASSUME NEW x \in Nat, NEW y \in Nat, NEW c \in Nat, NEW d \in Nat, x <= c, y <= d
  PROVE  x * y <= c * d
<1>1. x * y <= c * y /\ c * y <= c * d /\ x * y \in Int /\ c * y \in Int /\ c * d \in Int
  BY Monotone
<1>2. QED
  BY <1>1

(* A lattice vector both of whose parts are less than l + s has coordinates *)
(* -1, 0 or 1.                                                              *)
LEMMA SmallCoordinates ==
  ASSUME NEW m \in Int, NEW n \in Int,
         m * l - 2 * (n * s) < l + s, -(m * l - 2 * (n * s)) < l + s,
         m * s + n * l < l + s, -(m * s + n * l) < l + s
  PROVE  m \in {-1, 0, 1} /\ n \in {-1, 0, 1}
<1> DEFINE x == m * l - 2 * (n * s)
           y == m * s + n * l
           LL == l * l
           ls == l * s
           ss == s * s
<1>1. l \in Nat /\ s \in Nat \ {0} /\ 2 * s <= l /\ P \in Nat \ {0} /\ P = LL + 2 * ss
  BY BasisFacts
<1> HIDE DEF l, s, P
<1>2. /\ x \in Int /\ y \in Int /\ x < l + s /\ -x < l + s /\ y < l + s /\ -y < l + s
      /\ LL \in Nat /\ ls \in Nat /\ ss \in Nat
  BY <1>1
<1>3. P * m = l * x + 2 * (s * y) /\ P * n = l * y - s * x
  <2>1. (l * l + 2 * (s * s)) * m = l * (m * l - 2 * (n * s)) + 2 * (s * (m * s + n * l))
    BY <1>1
  <2>2. (l * l + 2 * (s * s)) * n = l * (m * s + n * l) - s * (m * l - 2 * (n * s))
    BY <1>1
  <2>3. QED
    BY <1>1, <2>1, <2>2
<1> HIDE DEF x, y
<1> DEFINE Lx == l * x
           sy == s * y
           Ly == l * y
           sx == s * x
<1>4. /\ Lx \in Int /\ sy \in Int /\ Ly \in Int /\ sx \in Int
      /\ Lx <= LL + ls /\ -Lx <= LL + ls /\ Ly <= LL + ls /\ -Ly <= LL + ls
      /\ sx < ls + ss /\ -sx < ls + ss /\ sy < ls + ss /\ -sy < ls + ss
  <2>1. ASSUME NEW z \in Int, z < l + s
        PROVE  l * z <= LL + ls /\ s * z < ls + ss
    <3>1. z <= l + s - 1
      BY <1>1, <2>1
    <3>2. l * z <= l * (l + s - 1) /\ s * z <= s * (l + s - 1)
      BY <1>1, <3>1, Monotone
    <3>3. l * (l + s - 1) = LL + ls - l /\ s * (l + s - 1) = ls + ss - s
      BY <1>1
    <3>4. l * z \in Int /\ s * z \in Int
      BY <1>1
    <3> HIDE DEF LL, ls, ss
    <3>5. QED
      BY <1>1, <1>2, <3>2, <3>3, <3>4
  <2>2. -x \in Int /\ -y \in Int
    BY <1>2
  <2>3. /\ l * x <= LL + ls /\ s * x < ls + ss /\ l * (-x) <= LL + ls /\ s * (-x) < ls + ss
        /\ l * y <= LL + ls /\ s * y < ls + ss /\ l * (-y) <= LL + ls /\ s * (-y) < ls + ss
    BY <1>2, <2>1, <2>2
  <2>4. l * (-x) = -(l * x) /\ s * (-x) = -(s * x) /\ l * (-y) = -(l * y) /\ s * (-y) = -(s * y)
    BY <1>1, <1>2
  <2>5. /\ l * x \in Int /\ s * x \in Int /\ l * y \in Int /\ s * y \in Int
    BY <1>1, <1>2
  <2> HIDE DEF LL, ls, ss
  <2>6. QED
    BY <2>3, <2>4, <2>5
<1>5. 3 * ls <= LL + 2 * ss
  <2>1. l - s \in Nat /\ l - 2 * s \in Nat
    BY <1>1
  <2>2. (l - s) * (l - 2 * s) = LL - 3 * ls + 2 * ss
    BY <1>1
  <2>3. (l - s) * (l - 2 * s) >= 0
    BY <2>1
  <2> HIDE DEF LL, ls, ss
  <2>4. QED
    BY <1>2, <2>2, <2>3
<1>6. ss > 0
  BY <1>1
<1>7. 2 * ls <= LL
  <2>1. (2 * s) * l <= l * l
    BY <1>1, Monotone
  <2>2. (2 * s) * l = 2 * ls
    BY <1>1
  <2>3. QED
    BY <2>1, <2>2
<1> DEFINE Pm == P * m
           Pn == P * n
<1>8. Pm \in Int /\ Pn \in Int /\ Pm = Lx + 2 * sy /\ Pn = Ly - sx
  BY <1>1, <1>3
<1>9. P * 2 = 2 * LL + 4 * ss /\ P * (-2) = -(2 * LL + 4 * ss)
  BY <1>1, <1>2
<1> HIDE DEF Lx, sy, Ly, sx, LL, ls, ss, Pm, Pn
<1>10. /\ Pm < 2 * LL + 4 * ss /\ -Pm < 2 * LL + 4 * ss
       /\ Pn < 2 * LL + 4 * ss /\ -Pn < 2 * LL + 4 * ss
  BY <1>2, <1>4, <1>5, <1>6, <1>7, <1>8
<1>11. ASSUME NEW c \in Int, P * c < 2 * LL + 4 * ss, -(P * c) < 2 * LL + 4 * ss
       PROVE  c \in {-1, 0, 1}
  <2>1. ASSUME c >= 2 PROVE FALSE
    <3>1. P * 2 <= P * c /\ P * c \in Int
      BY <1>1, <2>1, Monotone
    <3>2. QED
      BY <1>2, <1>9, <1>11, <3>1
  <2>2. ASSUME c <= -2 PROVE FALSE
    <3>1. P * c <= P * (-2) /\ P * c \in Int
      BY <1>1, <2>2, Monotone
    <3>2. QED
      BY <1>2, <1>9, <1>11, <3>1
  <2>3. QED
    BY <2>1, <2>2
<1>12. QED
  BY <1>10, <1>11 DEF Pm, Pn

(* No vector of the same class is shorter.                                  *)
LEMMA Shortest ==
  ASSUME NEW u, NEW v, NEW a, NEW b, Near(u, v, a, b), NEW m \in Int, NEW n \in Int
  PROVE  Norm(a, b) <= Norm(a + (m * l - 2 * (n * s)), b + (m * s + n * l))
<1> DEFINE x == m * l - 2 * (n * s)
           y == m * s + n * l
<1>1. /\ a \in Int /\ b \in Int
      /\ l \in Nat /\ s \in Nat \ {0} /\ 2 * s <= l
  BY NearBySign
<1>2. 2 * Norm(a, b) <= l + s
  BY Half
<1>3. /\ Norm(a, b) <= Norm(a + l, b + s) /\ Norm(a, b) <= Norm(a - l, b - s)
      /\ Norm(a, b) <= Norm(a - 2 * s, b + l) /\ Norm(a, b) <= Norm(a + 2 * s, b - l)
  BY Neighbours
<1> HIDE DEF l, s
<1>4. x \in Int /\ y \in Int
  BY <1>1
<1>5. /\ Norm(a, b) \in Int /\ Norm(a + x, b + y) \in Int
      /\ a <= Norm(a, b) /\ -a <= Norm(a, b) /\ b <= Norm(a, b) /\ -b <= Norm(a, b)
      /\ a + x <= Norm(a + x, b + y) /\ -(a + x) <= Norm(a + x, b + y)
      /\ b + y <= Norm(a + x, b + y) /\ -(b + y) <= Norm(a + x, b + y)
  <2>1. a + x \in Int /\ b + y \in Int
    BY <1>1, <1>4
  <2> HIDE DEF x, y
  <2>2. QED
    BY <1>1, <2>1, NormFacts
<1>6. SUFFICES ASSUME Norm(a + x, b + y) < Norm(a, b)
               PROVE  FALSE
  BY <1>5
<1>7. x < l + s /\ -x < l + s /\ y < l + s /\ -y < l + s
  <2> HIDE DEF x, y
  <2>1. QED
    BY <1>1, <1>2, <1>4, <1>5, <1>6
<1>8. m \in {-1, 0, 1} /\ n \in {-1, 0, 1}
  BY <1>7, SmallCoordinates
<1>9. /\ m = 0 /\ n = 0 => x = 0 /\ y = 0
      /\ m = 1 /\ n = 0 => x = l /\ y = s
      /\ m = -1 /\ n = 0 => x = -l /\ y = -s
      /\ m = 0 /\ n = 1 => x = -2 * s /\ y = l
      /\ m = 0 /\ n = -1 => x = 2 * s /\ y = -l
      /\ m = 1 /\ n = 1 => y = l + s
      /\ m = -1 /\ n = -1 => y = -(l + s)
      /\ m = 1 /\ n = -1 => x = l + 2 * s
      /\ m = -1 /\ n = 1 => x = -(l + 2 * s)
  BY <1>1
<1> HIDE DEF x, y
<1>10. ~(m = 1 /\ n = 1) /\ ~(m = -1 /\ n = -1) /\ ~(m = 1 /\ n = -1) /\ ~(m = -1 /\ n = 1)
  BY <1>1, <1>7, <1>9
<1>11. CASE m = 0 /\ n = 0
  <2>1. a + x = a /\ b + y = b
    BY <1>1, <1>9, <1>11
  <2>2. QED
    BY <1>5, <1>6, <2>1
<1>12. CASE m = 1 /\ n = 0
  <2>1. x = l /\ y = s
    BY <1>9, <1>12
  <2>2. QED
    BY <1>3, <1>5, <1>6, <2>1
<1>13. CASE m = -1 /\ n = 0
  <2>1. a + x = a - l /\ b + y = b - s
    BY <1>1, <1>9, <1>13
  <2>2. QED
    BY <1>3, <1>5, <1>6, <2>1
<1>14. CASE m = 0 /\ n = 1
  <2>1. a + x = a - 2 * s /\ b + y = b + l
    BY <1>1, <1>9, <1>14
  <2>2. QED
    BY <1>3, <1>5, <1>6, <2>1
<1>15. CASE m = 0 /\ n = -1
  <2>1. a + x = a + 2 * s /\ b + y = b - l
    BY <1>1, <1>9, <1>15
  <2>2. QED
    BY <1>3, <1>5, <1>6, <2>1
<1>16. QED
  BY <1>8, <1>10, <1>11, <1>12, <1>13, <1>14, <1>15

(* A vector of the class of t is the one that is taken plus a lattice vector. *)
LEMMA NearRepresents ==
  ASSUME NEW t \in Int, NEW u, NEW v, NEW a, NEW b,
         Near(u, v, a, b), Divisible(u + v * lambda - t)
  PROVE  Divisible(a + b * lambda - t)
<1> DEFINE e == l + s * lambda
           f == -2 * s + l * lambda
           g == u + v * lambda - t
<1>1. /\ u \in Int /\ v \in Int /\ a \in Int /\ b \in Int
      /\ l \in Nat /\ s \in Nat \ {0}
      /\ \/ a = u /\ b = v
         \/ u > 0 /\ a = u - l /\ b = v - s
         \/ ~(u > 0) /\ a = u + l /\ b = v + s
         \/ v > 0 /\ a = u + 2 * s /\ b = v - l
         \/ ~(v > 0) /\ a = u - 2 * s /\ b = v + l
  BY NearBySign
<1>2. lambda \in Int /\ e % P = 0 /\ f % P = 0
  BY BasisFacts
<1> HIDE DEF l, s, lambda, P
<1>3. e \in Int /\ f \in Int /\ g \in Int
  BY <1>1, <1>2
<1>4. Divisible(e) /\ Divisible(f) /\ Divisible(g)
  BY <1>2, <1>3, DivisibleIff
<1>5. /\ (u - l) + (v - s) * lambda - t = g - e
      /\ (u + l) + (v + s) * lambda - t = g + e
      /\ (u + 2 * s) + (v - l) * lambda - t = g - f
      /\ (u - 2 * s) + (v + l) * lambda - t = g + f
  BY <1>1, <1>2
<1>6. a + b * lambda - t \in {g, g - e, g + e, g - f, g + f}
  BY <1>1, <1>5
<1>7. Divisible(g - e) /\ Divisible(g + e) /\ Divisible(g - f) /\ Divisible(g + f)
  <2> HIDE DEF e, f, g
  <2>1. QED
    BY <1>3, <1>4, DivisibleSums
<1>8. QED
  BY <1>4, <1>6, <1>7

LEMMA SameFactor ==
  ASSUME NEW x \in Int, NEW y \in Int, NEW p \in Nat \ {0}, p * x = p * y
  PROVE  x = y
<1>1. ASSUME NEW c \in Int, NEW d \in Int, p * c = p * d
      PROVE  ~(c < d)
  <2>1. ASSUME c < d PROVE FALSE
    <3>1. p * (c + 1) <= p * d /\ p * (c + 1) = p * c + p /\ p * c \in Int
      BY <2>1, Monotone
    <3>2. QED
      BY <1>1, <3>1
  <2>2. QED
    BY <2>1
<1>2. QED
  BY <1>1

LEMMA LatticeCoordinates ==
  ASSUME NEW x \in Int, NEW y \in Int, Divisible(x + y * lambda)
  PROVE  \E m \in Int, n \in Int : x = m * l - 2 * (n * s) /\ y = m * s + n * l
<1> DEFINE e == l + s * lambda
           f == -2 * s + l * lambda
           g == x + y * lambda
<1>1. /\ l \in Nat /\ s \in Nat \ {0} /\ P = l * l + 2 * (s * s) /\ P \in Nat \ {0}
      /\ lambda \in Int /\ e % P = 0 /\ f % P = 0
  BY BasisFacts
<1> HIDE DEF l, s, lambda, P
<1>2. e \in Int /\ f \in Int /\ g \in Int
  BY <1>1
<1>3. Divisible(e) /\ Divisible(f) /\ Divisible(g)
  BY <1>1, <1>2, DivisibleIff
<1>4. l * g - y * f = l * x + 2 * (s * y) /\ y * e - s * g = l * y - s * x
  BY <1>1
<1>5. Divisible(l * g - y * f) /\ Divisible(y * e - s * g)
  <2> HIDE DEF e, f, g
  <2>1. l * g \in Int /\ y * f \in Int /\ y * e \in Int /\ s * g \in Int
    BY <1>1, <1>2
  <2>2. Divisible(l * g) /\ Divisible(y * f) /\ Divisible(y * e) /\ Divisible(s * g)
    <3>1. l \in Int /\ s \in Int
      BY <1>1
    <3>2. ASSUME NEW c \in Int, NEW d \in Int, Divisible(d)
          PROVE  Divisible(c * d)
      BY <3>2, DivisibleSums
    <3>3. QED
      BY <1>2, <1>3, <3>1, <3>2
  <2>3. QED
    BY <2>1, <2>2, DivisibleSums
<1>6. PICK m \in Int : l * x + 2 * (s * y) = P * m
  BY <1>4, <1>5 DEF Divisible
<1>7. PICK n \in Int : l * y - s * x = P * n
  BY <1>4, <1>5 DEF Divisible
<1>8. P * (m * l - 2 * (n * s)) = P * x
  <2>1. P * (m * l - 2 * (n * s)) = l * (P * m) - 2 * (s * (P * n))
    BY <1>1
  <2>2. l * (l * x + 2 * (s * y)) - 2 * (s * (l * y - s * x)) = (l * l + 2 * (s * s)) * x
    BY <1>1
  <2>3. QED
    BY <1>1, <1>6, <1>7, <2>1, <2>2
<1>9. P * (m * s + n * l) = P * y
  <2>1. P * (m * s + n * l) = s * (P * m) + l * (P * n)
    BY <1>1
  <2>2. s * (l * x + 2 * (s * y)) + l * (l * y - s * x) = (l * l + 2 * (s * s)) * y
    BY <1>1
  <2>3. QED
    BY <1>1, <1>6, <1>7, <2>1, <2>2
<1>10. m * l - 2 * (n * s) \in Int /\ m * s + n * l \in Int
  BY <1>1
<1>11. x = m * l - 2 * (n * s) /\ y = m * s + n * l
  <2> DEFINE c == m * l - 2 * (n * s)
             d == m * s + n * l
  <2>1. c \in Int /\ d \in Int /\ P * c = P * x /\ P * d = P * y
    BY <1>8, <1>9, <1>10
  <2> HIDE DEF c, d
  <2>2. c = x /\ d = y
    BY <1>1, <2>1, SameFactor
  <2>3. QED
    BY <2>2 DEF c, d
<1>12. QED
  BY <1>11

(* Every representation of t is at least as long as the one that is taken. *)
THEOREM GLVOptimal ==
  ASSUME NEW t \in Int, NEW x \in Int, NEW y \in Int,
         (x + y * EndomorphismEigenvalue - t) % GroupOrder = 0
  PROVE  infty_norm(GLV_representation(t)) <= infty_norm(<<x, y>>)
<1>1. PICK u \in Int, v \in Int, a \in Int, b \in Int :
        /\ GLV_representation(t) = <<a, b>>
        /\ Near(u, v, a, b) /\ Divisible(u + v * lambda - t)
  BY GLVResult
<1>2. Divisible(a + b * lambda - t)
  BY <1>1, NearRepresents
<1>3. (x + y * lambda - t) % P = 0 /\ lambda \in Int
  BY BasisFacts DEF lambda, P
<1> HIDE DEF lambda, P, l, s
<1>4. Divisible((x - a) + (y - b) * lambda)
  <2> DEFINE c == x + y * lambda - t
             d == a + b * lambda - t
  <2>1. c \in Int /\ d \in Int /\ c - d = (x - a) + (y - b) * lambda
    BY <1>3
  <2>2. Divisible(c) /\ Divisible(d)
    <3>1. c % P = 0
      BY <1>3
    <3> HIDE DEF c
    <3>2. Divisible(c)
      BY <2>1, <3>1, DivisibleIff
    <3>3. QED
      BY <1>2, <3>2
  <2> HIDE DEF c, d
  <2>3. QED
    BY <2>1, <2>2, DivisibleSums
<1>5. PICK m \in Int, n \in Int : x - a = m * l - 2 * (n * s) /\ y - b = m * s + n * l
  <2>1. x - a \in Int /\ y - b \in Int
    OBVIOUS
  <2>2. QED
    BY <1>4, <2>1, LatticeCoordinates
<1>6. Norm(a, b) <= Norm(a + (m * l - 2 * (n * s)), b + (m * s + n * l))
  BY <1>1, Shortest
<1>7. a + (x - a) = x /\ b + (y - b) = y
  OBVIOUS
<1>8. Norm(a, b) <= Norm(x, y)
  BY <1>5, <1>6, <1>7
<1>9. QED
  BY <1>1, <1>8 DEF Norm

LEMMA MaximumFits ==
  /\ glvDecompositionMax = (s + l) \div 2 /\ glvDecompositionMax < TwoTo128
<1> DEFINE T == TwoTo128
<1>1. l \in Nat /\ s \in Nat \ {0} /\ 2 * s <= l /\ P = l * l + 2 * (s * s) /\ P \in Nat
  BY BasisFacts
<1>2. T \in Nat /\ 4 * P < T * T
  <2>1. T \in Nat
    <3>1. ExponentWord \in Nat /\ TwoTo128 = ExponentWord * ExponentWord
      BY ExponentPowersAssumption
    <3> HIDE DEF ExponentWord
    <3>2. QED
      BY <3>1
  <2>2. 2 * CurveExponent < ExponentSpace /\ CurveExponent = 2 * GroupOrder
    BY ExponentConstants
  <2>3. ExponentSpace = T * T
    BY ExponentPowersAssumption
  <2> HIDE DEF T
  <2>4. 2 * (2 * P) < T * T
    BY <2>2, <2>3 DEF P
  <2>5. QED
    BY <1>1, <2>1, <2>4
<1>3. glvDecompositionMax = (s + l) \div 2
  BY DEF glvDecompositionMax, lBasis_22, s, l
<1> HIDE DEF l, s, P, T
<1>4. ASSUME T <= l PROVE FALSE
  <2>1. T * T <= l * l
    BY <1>1, <1>2, <1>4, Products
  <2>2. s * s \in Nat /\ l * l \in Nat /\ T * T \in Nat
    BY <1>1, <1>2
  <2>3. QED
    BY <1>1, <1>2, <2>1, <2>2
<1>5. (s + l) \div 2 <= l
  BY <1>1
<1>6. (s + l) \div 2 \in Int
  BY <1>1
<1>7. QED
  BY <1>1, <1>2, <1>3, <1>4, <1>5, <1>6 DEF T

(* What GLVShortest says of one exponent.                                   *)
LEMMA GLVRight ==
  ASSUME NEW t \in Int
  PROVE  LET uv == GLV_representation(t)
         IN  /\ (uv[1] + uv[2] * EndomorphismEigenvalue - t) % GroupOrder = 0
             /\ infty_norm(uv) <= glvDecompositionMax /\ glvDecompositionMax < TwoTo128
             /\ \A k \in {-1, 1} :
                  /\ infty_norm(Shift(uv, k, lBasis_1)) >= infty_norm(uv)
                  /\ infty_norm(Shift(uv, k, lBasis_2)) >= infty_norm(uv)
                  /\ infty_norm(Shift(Shift(uv, k, lBasis_1), k, lBasis_2)) >= infty_norm(uv)
<1> DEFINE uv == GLV_representation(t)
<1>1. PICK u \in Int, v \in Int, a \in Int, b \in Int :
        /\ uv = <<a, b>> /\ Near(u, v, a, b) /\ Divisible(u + v * lambda - t)
  BY GLVResult
<1>2. l \in Nat /\ s \in Nat /\ lambda \in Int
  BY BasisFacts
<1> HIDE DEF uv
<1>3. (uv[1] + uv[2] * EndomorphismEigenvalue - t) % GroupOrder = 0
  <2>1. Divisible(a + b * lambda - t)
    BY <1>1, NearRepresents
  <2>2. a + b * lambda - t \in Int
    <3> HIDE DEF lambda
    <3>1. QED
      BY <1>2
  <2>3. (a + b * lambda - t) % P = 0
    BY <2>1, <2>2, DivisibleIff
  <2>4. QED
    BY <1>1, <2>3 DEF P, lambda
<1>4. infty_norm(uv) <= glvDecompositionMax /\ glvDecompositionMax < TwoTo128
  <2>1. 2 * Norm(a, b) <= l + s /\ Norm(a, b) \in Int
    BY <1>1, Half, NormFacts
  <2> HIDE DEF l, s
  <2>2. Norm(a, b) <= (s + l) \div 2
    BY <1>2, <2>1
  <2>3. QED
    BY <1>1, <2>2, MaximumFits DEF Norm
<1>5. ASSUME NEW k \in {-1, 1}
      PROVE  /\ infty_norm(uv) <= infty_norm(Shift(uv, k, lBasis_1))
             /\ infty_norm(uv) <= infty_norm(Shift(uv, k, lBasis_2))
             /\ infty_norm(uv) <= infty_norm(Shift(Shift(uv, k, lBasis_1), k, lBasis_2))
  <2>1. /\ Shift(uv, k, lBasis_1) = <<a + k * l, b + k * s>>
        /\ Shift(uv, k, lBasis_2) = <<a + k * (-2 * s), b + k * l>>
        /\ Shift(Shift(uv, k, lBasis_1), k, lBasis_2)
             = <<(a + k * l) + k * (-2 * s), (b + k * s) + k * l>>
    BY <1>1 DEF Shift, lBasis_1, lBasis_2, lBasis_21, lBasis_22, l, s
  <2>2. k \in Int
    OBVIOUS
  <2> HIDE DEF l, s
  <2>3. /\ <<a + k * l, b + k * s>> = <<a + (k * l - 2 * (0 * s)), b + (k * s + 0 * l)>>
        /\ <<a + k * (-2 * s), b + k * l>> = <<a + (0 * l - 2 * (k * s)), b + (0 * s + k * l)>>
        /\ <<(a + k * l) + k * (-2 * s), (b + k * s) + k * l>>
             = <<a + (k * l - 2 * (k * s)), b + (k * s + k * l)>>
    BY <1>2, <2>2
  <2>4. /\ Norm(a, b) <= Norm(a + (k * l - 2 * (0 * s)), b + (k * s + 0 * l))
        /\ Norm(a, b) <= Norm(a + (0 * l - 2 * (k * s)), b + (0 * s + k * l))
        /\ Norm(a, b) <= Norm(a + (k * l - 2 * (k * s)), b + (k * s + k * l))
    BY <1>1, <2>2, Shortest
  <2>5. QED
    BY <1>1, <2>1, <2>3, <2>4 DEF Norm
<1>6. ASSUME NEW k \in {-1, 1}
      PROVE  /\ infty_norm(Shift(uv, k, lBasis_1)) >= infty_norm(uv)
             /\ infty_norm(Shift(uv, k, lBasis_2)) >= infty_norm(uv)
             /\ infty_norm(Shift(Shift(uv, k, lBasis_1), k, lBasis_2)) >= infty_norm(uv)
  BY <1>5
<1>7. QED
  BY <1>3, <1>4, <1>6 DEF uv

(* Words are integers, whatever the calls.                                  *)
ExponentTypes == exponent \in [ExponentNames -> Int]

LEMMA ValuesAreInts ==
  ASSUME NEW x \in Int, NEW y \in Int
  PROVE  /\ ExpAdd(x, y) \in Int /\ ExpSub(x, y) \in Int /\ ExpMul(x, y) \in Int
         /\ ExpNeg(x, y) \in Int /\ ExpSetBigInt(x) \in Int /\ ExpSetInt(x) \in Int
<1> DEFINE C == CurveExponent
           S == ExponentSpace
           B == ExponentWord
<1>1. C \in Nat \ {0} /\ S \in Nat \ {0} /\ B \in Nat \ {0}
  BY ExponentConstants
<1> HIDE DEF C, S, B
<1>2. x + y \in Int /\ x - y \in Int /\ x * y \in Int /\ C - x \in Int
  BY <1>1
<1>3. ASSUME NEW a \in Int, NEW b \in Nat \ {0} PROVE a % b \in Int /\ a \div b \in Int
  OBVIOUS
<1>4. /\ (x + y) % S \in Int /\ (x - y) % S \in Int /\ (C - x) % S \in Int
      /\ x % C \in Int /\ (x * y) % C \in Int /\ x % B \in Int /\ C % B \in Int /\ C \div B \in Int
  BY <1>1, <1>2, <1>3
<1>5. ExpAdd(x, y) \in Int
  <2>1. ExpAdd(x, y) \in {(x + y) % S, ((x + y) % S) - C}
    BY DEF ExpAdd, normalize_once, S, C
  <2>2. QED
    BY <1>1, <1>4, <2>1
<1>6. ExpSub(x, y) \in Int
  <2>1. ExpSub(x, y) \in {(x - y) % S, (((x - y) % S) + C) % S}
    BY DEF ExpSub, S, C
  <2>2. ((x - y) % S) + C \in Int
    BY <1>1, <1>4
  <2>3. (((x - y) % S) + C) % S \in Int
    BY <1>1, <1>3, <2>2
  <2>4. QED
    BY <1>4, <2>1, <2>3
<1>7. ExpMul(x, y) \in Int /\ ExpSetBigInt(x) \in Int
  BY <1>4 DEF ExpMul, ExpSetBigInt, C
<1>8. ExpNeg(x, y) \in Int
  <2>1. ExpNeg(x, y) \in {0, (C - x) % S}
    BY DEF ExpNeg, C, S
  <2>2. QED
    BY <1>4, <2>1
<1>9. ExpSetInt(x) \in Int
  <2> DEFINE low == (C % B) + (x % B)
             high == C \div B
  <2>1. ExpSetInt(x) \in {x, (low % B) + (high - 1 + low \div B) * B}
    BY DEF ExpSetInt, C, B
  <2>2. low \in Int /\ high \in Int
    BY <1>4
  <2> HIDE DEF low, high
  <2>3. low % B \in Int /\ low \div B \in Int
    BY <1>1, <1>3, <2>2
  <2>4. (low % B) + (high - 1 + low \div B) * B \in Int
    <3>1. high - 1 + low \div B \in Int
      BY <2>2, <2>3
    <3>2. (high - 1 + low \div B) * B \in Int
      BY <1>1, <3>1
    <3>3. QED
      BY <2>3, <3>2
  <2>5. QED
    BY <2>1, <2>4
<1>10. QED
  BY <1>5, <1>6, <1>7, <1>8, <1>9

LEMMA ExponentTypesStep ==
  ExponentTypes /\ [ExponentsNext]_exponentVars => ExponentTypes'
<1> SUFFICES ASSUME ExponentTypes, [ExponentsNext]_exponentVars
             PROVE  ExponentTypes'
  OBVIOUS
<1>1. ASSUME NEW z \in ExponentNames, NEW value \in Int, NEW class, Store(z, value, class)
      PROVE  ExponentTypes'
  <2>1. exponent' = [exponent EXCEPT ![z] = value]
    BY <1>1 DEF Store
  <2>2. QED
    BY <2>1 DEF ExponentTypes
<1>2. CASE ExponentsNext
  <2>1. PICK z \in ExponentNames :
          \/ SetZero(z) \/ SetOne(z)
          \/ \E n \in BigInts : CallSetBigInt(z, n) \/ CallSetUInt(z, n) \/ CallSetInt(z, n)
          \/ \E x \in ExponentNames :
               \/ CallNeg(z, x)
               \/ \E y \in ExponentNames : CallAdd(z, x, y) \/ CallSub(z, x, y) \/ CallMul(z, x, y)
    BY <1>2, Zenon DEF ExponentsNext
  <2>2. CASE SetZero(z)
    <3>1. 0 \in Int
      OBVIOUS
    <3>2. QED
      BY <1>1, <2>2, <3>1, Zenon DEF SetZero
  <2>3. CASE SetOne(z)
    <3>1. 1 \in Int
      OBVIOUS
    <3>2. QED
      BY <1>1, <2>3, <3>1, Zenon DEF SetOne
  <2>4. ASSUME NEW n \in BigInts, CallSetBigInt(z, n) \/ CallSetUInt(z, n) \/ CallSetInt(z, n)
        PROVE  ExponentTypes'
    <3>1. n \in Int
      BY ExponentsAssumption
    <3>2. ExpSetBigInt(n) \in Int /\ ExpSetInt(n) \in Int
      BY <3>1, ValuesAreInts
    <3>3. QED
      BY <1>1, <2>4, <3>1, <3>2, Zenon DEF CallSetBigInt, CallSetUInt, CallSetInt
  <2>5. ASSUME NEW x \in ExponentNames, CallNeg(z, x)
        PROVE  ExponentTypes'
    <3>1. exponent[z] \in Int /\ exponent[x] \in Int
      BY DEF ExponentTypes
    <3>2. ExpNeg(exponent[z], exponent[x]) \in Int
      BY <3>1, ValuesAreInts
    <3>3. QED
      BY <1>1, <2>5, <3>2, Zenon DEF CallNeg
  <2>6. ASSUME NEW x \in ExponentNames, NEW y \in ExponentNames,
               CallAdd(z, x, y) \/ CallSub(z, x, y) \/ CallMul(z, x, y)
        PROVE  ExponentTypes'
    <3>1. exponent[x] \in Int /\ exponent[y] \in Int
      BY DEF ExponentTypes
    <3>2. /\ ExpAdd(exponent[x], exponent[y]) \in Int /\ ExpSub(exponent[x], exponent[y]) \in Int
          /\ ExpMul(exponent[x], exponent[y]) \in Int
      BY <3>1, ValuesAreInts
    <3>3. QED
      BY <1>1, <2>6, <3>2, Zenon DEF CallAdd, CallSub, CallMul
  <2>7. QED
    BY <2>1, <2>2, <2>3, <2>4, <2>5, <2>6, Zenon
<1>3. CASE UNCHANGED exponentVars
  BY <1>3 DEF exponentVars, ExponentTypes
<1>4. QED
  BY <1>2, <1>3

(* Whatever calls were made, every exponent is decomposed as documented.    *)
THEOREM GLVCorrect == ExponentsSpec => []GLVShortest
<1>1. ExponentsInit => ExponentTypes
  <2> DEFINE R == 0 .. CurveExponent - 1
  <2>1. InitialExponents \subseteq [ExponentNames -> R]
    BY ExponentsAssumption
  <2>2. R \subseteq Int
    BY ExponentConstants
  <2> HIDE DEF R
  <2>3. QED
    BY <2>1, <2>2 DEF ExponentsInit, ExponentTypes
<1>2. ExponentTypes /\ [ExponentsNext]_exponentVars => ExponentTypes'
  BY ExponentTypesStep
<1>3. ExponentTypes => GLVShortest
  <2> SUFFICES ASSUME ExponentTypes, NEW n \in ExponentNames
               PROVE  LET t == exponent[n]
                          uv == GLV_representation(t)
                      IN  /\ (uv[1] + uv[2] * EndomorphismEigenvalue - t) % GroupOrder = 0
                          /\ infty_norm(uv) <= glvDecompositionMax /\ glvDecompositionMax < TwoTo128
                          /\ \A k \in {-1, 1} :
                               /\ infty_norm(Shift(uv, k, lBasis_1)) >= infty_norm(uv)
                               /\ infty_norm(Shift(uv, k, lBasis_2)) >= infty_norm(uv)
                               /\ infty_norm(Shift(Shift(uv, k, lBasis_1), k, lBasis_2)) >= infty_norm(uv)
    BY Zenon DEF GLVShortest
  <2>1. exponent[n] \in Int
    BY DEF ExponentTypes
  <2>2. QED
    BY <2>1, GLVRight, Zenon
<1>4. QED
  BY <1>1, <1>2, <1>3, PTL DEF ExponentsSpec
=============================================================================
