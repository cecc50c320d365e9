----------------------------- MODULE Exponents -----------------------------
(***************************************************************************)
(* Type Exponent of package exponents: integers modulo 2*p253, stored in   *)
(* four words, whose users may see them modulo p253; and the decomposition *)
(* of an exponent that makes use of the endomorphism of the curve          *)
(* (GLV_representation).                                                   *)
(*                                                                         *)
(* An Exponent is the value of its words.  Sums and differences are taken  *)
(* modulo the width of the four words, as in the code, before they are     *)
(* normalized.                                                             *)
(***************************************************************************)
EXTENDS Integers, FiniteSets

CONSTANTS ExponentWordBits,            \* of a word, 64
          GroupOrder,                  \* p253
          EndomorphismEigenvalue,
          lBasis_11, lBasis_12,        \* the reduced basis of the lattice
          ExponentNames,               \* variables of the caller
          InitialExponents,            \* what they hold at first
          BigInts,                     \* arguments of the setters
          NegCalls,                    \* receiver and argument of calls of Neg
          MaxExponentCalls             \* bound of the model

ExponentWord == 2^ExponentWordBits
ExponentSpace == ExponentWord^4
TwoTo128 == ExponentWord^2
CurveExponent == 2 * GroupOrder
curveExponent_1 == (CurveExponent \div ExponentWord) % ExponentWord
halfGroupOrder == (GroupOrder - 1) \div 2

lBasis_21 == -2 * lBasis_12
lBasis_22 == lBasis_11
glvDecompositionMax == (lBasis_12 + lBasis_22) \div 2

\* What the definition of exponentiation says of the powers that are used.
\* (The provers do not know the definition.)
ASSUME ExponentPowersAssumption ==
  /\ ExponentWord \in Nat \ {0}
  /\ TwoTo128 = ExponentWord * ExponentWord /\ ExponentSpace = TwoTo128 * TwoTo128

\* What the code relies on, and its tests check (TestGLVParameters): both rows
\* of the basis are in the lattice, and its determinant is p253.  The rows are
\* short and close to orthogonal, as the search next to the rounded solution
\* needs.
ASSUME ExponentsAssumption ==
  /\ ExponentWordBits \in Nat \ {0} /\ GroupOrder \in Nat
  /\ GroupOrder % 2 = 1 /\ GroupOrder % ExponentWord # ExponentWord - 1
  /\ 2 * CurveExponent < ExponentSpace /\ curveExponent_1 > 0
  /\ EndomorphismEigenvalue \in Int /\ lBasis_11 \in Nat /\ lBasis_12 \in Nat \ {0}
  /\ 2 * lBasis_12 <= lBasis_11
  /\ (lBasis_11 + lBasis_12 * EndomorphismEigenvalue) % GroupOrder = 0
  /\ (lBasis_21 + lBasis_22 * EndomorphismEigenvalue) % GroupOrder = 0
  /\ lBasis_11 * lBasis_22 - lBasis_12 * lBasis_21 = GroupOrder
  /\ NegCalls \subseteq ExponentNames \X ExponentNames /\ BigInts \subseteq Int
  /\ InitialExponents \subseteq [ExponentNames -> 0..CurveExponent-1]

VARIABLES exponent,        \* what the variables hold
          meant,           \* what the documentation of the calls promises
          exponentCalls

exponentVars == <<exponent, meant, exponentCalls>>

----------------------------------------------------------------------------
(* What the methods compute. *)

isNormalized_Full(z) == z < CurveExponent
isNormalized_Subgroup(z) == z < GroupOrder
normalize_once(z) == IF isNormalized_Full(z) THEN z ELSE z - CurveExponent

(* Mutant: a sum equal to 2*p253 is not reduced. *)
ExpAddMutant(x, y) ==
  LET z == (x + y) % ExponentSpace IN IF z <= CurveExponent THEN z ELSE z - CurveExponent

ExpAdd(x, y) == normalize_once((x + y) % ExponentSpace)
ExpSub(x, y) ==
  LET z == (x - y) % ExponentSpace
  IN  IF x < y THEN (z + CurveExponent) % ExponentSpace ELSE z

ExpSetBigInt(n) == n % CurveExponent
ExpMul(x, y) == ExpSetBigInt(x * y)

\* Unless x is zero, the code subtracts the old value of the receiver.
ExpNeg(z, x) == IF x = 0 THEN 0 ELSE (CurveExponent - z) % ExponentSpace

\* A negative int64, reinterpreted as uint64, is added to the lowest word; the
\* carry makes up for the 1 that is taken from the next.
ExpSetInt(n) ==
  LET low == (CurveExponent % ExponentWord) + (n % ExponentWord)
      high == CurveExponent \div ExponentWord
  IN  IF n >= 0 THEN n
      ELSE (low % ExponentWord) + (high - 1 + low \div ExponentWord) * ExponentWord

ModuloP253(z) == IF isNormalized_Subgroup(z) THEN z ELSE ExpSub(GroupOrder, z)
ToBigInt_Subgroup(z) == ModuloP253(z)

IsZero_Full(z) == z = 0
IsZero_Subgroup(z) == z \in {0, GroupOrder}
IsOne_Full(z) == z = 1
IsOne_Subgroup(z) == z \in {1, GroupOrder + 1}

----------------------------------------------------------------------------
(* GLV_representation.  A vector is a pair of integers. *)

Abs(n) == IF n < 0 THEN -n ELSE n
infty_norm(x) == IF Abs(x[1]) > Abs(x[2]) THEN Abs(x[1]) ELSE Abs(x[2])

lBasis_1 == <<lBasis_11, lBasis_12>>
lBasis_2 == <<lBasis_21, lBasis_22>>
Shift(x, k, b) == <<x[1] + k * b[1], x[2] + k * b[2]>>

(* Mutant: the quotient is rounded down. *)
mod_centeredMutant(n) == n % GroupOrder

\* The centered residue modulo p253: the quotient is rounded to the nearest.
mod_centered(n) == ((n + halfGroupOrder) % GroupOrder) - halfGroupOrder

\* (t, 0) minus a lattice vector close to it; the divisions are exact.
BabaiRounding(t) ==
  LET delta_alpha == mod_centered(t * lBasis_22)
      delta_beta == mod_centered(-t * lBasis_12)
  IN  <<(lBasis_11 * delta_alpha + lBasis_21 * delta_beta) \div GroupOrder,
        (lBasis_12 * delta_alpha + lBasis_22 * delta_beta) \div GroupOrder>>

Shorter(x, best) == IF infty_norm(x) < infty_norm(best) THEN x ELSE best

\* Both candidates are next to the rounded solution, on the side its signs tell.
GLV_representation(t) ==
  LET approx == BabaiRounding(t)
      first == Shorter(Shift(approx, IF approx[1] > 0 THEN -1 ELSE 1, lBasis_1), approx)
  IN  Shorter(Shift(approx, IF approx[2] > 0 THEN -1 ELSE 1, lBasis_2), first)

----------------------------------------------------------------------------
(* The calls.  The receiver may be one of the arguments. *)

ExponentsInit ==
  /\ exponent \in InitialExponents
  /\ meant = exponent
  /\ exponentCalls = 0

Store(z, value, class) ==
  /\ exponentCalls < MaxExponentCalls /\ exponentCalls' = exponentCalls + 1
  /\ exponent' = [exponent EXCEPT ![z] = value]
  /\ meant' = [meant EXCEPT ![z] = class % CurveExponent]

CallAdd(z, x, y) == Store(z, ExpAdd(exponent[x], exponent[y]), meant[x] + meant[y])
CallSub(z, x, y) == Store(z, ExpSub(exponent[x], exponent[y]), meant[x] - meant[y])
CallMul(z, x, y) == Store(z, ExpMul(exponent[x], exponent[y]), meant[x] * meant[y])
CallNeg(z, x) == <<z, x>> \in NegCalls /\ Store(z, ExpNeg(exponent[z], exponent[x]), -meant[x])
CallSetBigInt(z, n) == Store(z, ExpSetBigInt(n), n)
CallSetUInt(z, n) == n \in 0..ExponentWord-1 /\ Store(z, n, n)
CallSetInt(z, n) ==
  n \in -(ExponentWord \div 2)..ExponentWord \div 2 - 1 /\ Store(z, ExpSetInt(n), n)
SetZero(z) == Store(z, 0, 0)
SetOne(z) == Store(z, 1, 1)

ExponentsNext ==
  \E z \in ExponentNames :
    \/ SetZero(z) \/ SetOne(z)
    \/ \E n \in BigInts : CallSetBigInt(z, n) \/ CallSetUInt(z, n) \/ CallSetInt(z, n)
    \/ \E x \in ExponentNames :
         \/ CallNeg(z, x)
         \/ \E y \in ExponentNames : CallAdd(z, x, y) \/ CallSub(z, x, y) \/ CallMul(z, x, y)

ExponentsSpec == ExponentsInit /\ [][ExponentsNext]_exponentVars

----------------------------------------------------------------------------

\* Variables stand for what the documented calls compute modulo 2*p253.
ValuesAsDocumented == \A n \in ExponentNames : exponent[n] % CurveExponent = meant[n]

\* After any calls, with the receiver among the arguments or not, a variable
\* holds the least representative modulo 2*p253 of what the calls are documented
\* to compute; and for zero and for one, the tests modulo p253 agree with it,
\* whichever of the two representatives of the class modulo p253 it is.  (The
\* conversion to the view modulo p253 is the subject of SubgroupViewExact.)
ExponentsExact ==
  \A n \in ExponentNames :
    LET z == exponent[n]
        view == meant[n] % GroupOrder
    IN  /\ z = meant[n]
        /\ IsZero_Subgroup(z) <=> view = 0
        /\ IsOne_Subgroup(z) <=> view = 1
        /\ IsZero_Full(z) => IsZero_Subgroup(z)
        /\ IsOne_Full(z) => IsOne_Subgroup(z)

\* "ModuloP253 reduces the exponent modulo p253 (we usually work internally
\* modulo 2*p253)": the view modulo p253 of every variable is the residue of
\* what the calls compute.  This does not hold: the operands of Sub are swapped.
SubgroupViewExact ==
  \A n \in ExponentNames : ToBigInt_Subgroup(exponent[n]) = meant[n] % GroupOrder

\* u and v represent t for the endomorphism, are as small as documented (and fit
\* 128 bits), and no other representation that differs by one of the six
\* relevant vectors is shorter.
GLVShortest ==
  \A n \in ExponentNames :
    LET t == exponent[n]
        uv == GLV_representation(t)
    IN  /\ (uv[1] + uv[2] * EndomorphismEigenvalue - t) % GroupOrder = 0
        /\ infty_norm(uv) <= glvDecompositionMax /\ glvDecompositionMax < TwoTo128
        /\ \A k \in {-1, 1} :
             /\ infty_norm(Shift(uv, k, lBasis_1)) >= infty_norm(uv)
             /\ infty_norm(Shift(uv, k, lBasis_2)) >= infty_norm(uv)
             /\ infty_norm(Shift(Shift(uv, k, lBasis_1), k, lBasis_2)) >= infty_norm(uv)
=============================================================================
