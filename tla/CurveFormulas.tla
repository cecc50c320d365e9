---------------------------- MODULE CurveFormulas ----------------------------
(***************************************************************************)
(* The formulas of package curvePoints on the coordinates of points of the *)
(* twisted Edwards curve ax^2 + y^2 = 1 + dx^2y^2, a = -5.                 *)
(*                                                                         *)
(*   xtw   X:Y:T:Z, with X*Y = T*Z      (Go's suffix t)                    *)
(*   axtw  X:Y:T, with Z = 1            (Go's suffix a)                    *)
(*   efgh  X = E*F, Y = G*H, T = E*H, Z = F*G   (Go's suffix s)            *)
(*                                                                         *)
(* The field has FieldPrime elements.  The operands of the formulas may    *)
(* not be points (NaPs): uninitialized variables and what is computed from *)
(* them.                                                                   *)
(***************************************************************************)
EXTENDS Integers, FiniteSets, SequencesExt, TLC

CONSTANTS FieldPrime,
          CurveParameterD,
          squareRootDbyA,      \* r with r^2 = d/a
          endo_b, endo_c       \* constants of the endomorphism

Fe == 0..FieldPrime-1
mod(n) == n % FieldPrime
Square(n) == n * n
CurveParameterA == mod(-5)
D == CurveParameterD
Squares == {mod(n * n) : n \in Fe \ {0}}

\* What the code knows of the constants of Bandersnatch and relies on: a and d
\* are not squares, -1 is one (BaseField2Adicity is 32), b is a/d's square root
\* and 2(r+1) is a square.
ASSUME CurveAssumption ==
  /\ FieldPrime \in Nat /\ FieldPrime > 5
  /\ \A n \in Fe \ {0} : \E i \in Fe : mod(n * i) = 1
  /\ {D, squareRootDbyA, endo_b, endo_c} \subseteq Fe \ {0}
  /\ CurveParameterA \notin Squares /\ D \notin Squares /\ mod(-1) \in Squares
  /\ mod(mod(Square(squareRootDbyA)) * CurveParameterA) = D
  /\ mod(endo_b * squareRootDbyA) = 1
  /\ mod(2 * (squareRootDbyA + 1)) \in Squares

\* The function f, and the sequence s, whose values are computed once.
Table(f) == f @@ <<>>
List(s) == s \o <<>>

Inverses == List([n \in 1..FieldPrime-1 |-> CHOOSE i \in Fe : mod(n * i) = 1])
Inv(n) == Inverses[n]
Sign(n) == IF n = 0 THEN 0 ELSE IF n <= FieldPrime \div 2 THEN 1 ELSE -1
Symbols == List([n \in 1..FieldPrime-1 |-> IF n \in Squares THEN 1 ELSE -1])
Jacobi(n) == IF n = 0 THEN 0 ELSE Symbols[n]

endo_binverse == squareRootDbyA
endo_bcd == mod(mod(endo_b * endo_c) * D)

xtw(x, y, t, z) == [x |-> x, y |-> y, t |-> t, z |-> z]
axtw(x, y, t) == [x |-> x, y |-> y, t |-> t]
efgh(e, f, g, h) == [e |-> e, f |-> f, g |-> g, h |-> h]

WithZ(p) == xtw(p.x, p.y, p.t, 1)

----------------------------------------------------------------------------
(* NaPs.                                                                   *)

IsNaP_xtw(p) == p.x = 0 /\ p.y = 0
IsNaP_axtw(p) == p.x = 0 /\ p.y = 0
\* The cases for which the code panics, h = 0 # e*f and f = 0 # h, do not
\* occur: see FormsValid of module CurvePoints.
IsNaP_efgh(p) == p.h = 0 \/ (p.g = 0 /\ p.e = 0)

----------------------------------------------------------------------------
(* Sums.                                                                   *)

add_stt(p1, p2) ==
  LET A == mod(p1.x * p2.x)
      B == mod(p1.y * p2.y)
      C == mod(mod(p1.t * p2.t) * D)
      DD == p1.z * p2.z
  IN  efgh(mod((p1.x + p1.y) * (p2.x + p2.y) - A - B), mod(DD - C), mod(DD + C), mod(B + 5 * A))

(* Mutant: the formulas are used for every difference. *)
add_safe_sttMutant(p1, p2) == add_stt(p1, p2)

\* F = 0: the formulas do not hold when the difference of the points is at
\* infinity; others are used instead.
add_safe_stt(p1, p2) ==
  LET sum == add_stt(p1, p2)
  IN  IF sum.f # 0 THEN sum
      ELSE IF IsNaP_xtw(p1) \/ IsNaP_xtw(p2) THEN efgh(0, 0, 0, 0)
      ELSE [sum EXCEPT !.f = mod(p1.y * p2.x - p1.x * p2.y),
                       !.h = mod(p1.z * p2.t - p1.t * p2.z)]

\* With Z2 = 1, and with Z1 = Z2 = 1.
add_sta(p1, p2) == add_stt(p1, WithZ(p2))
add_saa(p1, p2) == add_stt(WithZ(p1), WithZ(p2))

neg_tt(p) == [p EXCEPT !.x = mod(-p.x), !.t = mod(-p.t)]
neg_aa(p) == [p EXCEPT !.x = mod(-p.x), !.t = mod(-p.t)]
neg_ss(p) == [p EXCEPT !.e = mod(-p.e)]

sub_stt(p1, p2) == add_stt(p1, neg_tt(p2))
sub_safe_stt(p1, p2) == add_safe_stt(p1, neg_tt(p2))
sub_sta(p1, p2) == add_sta(p1, neg_aa(p2))
sub_sat(p1, p2) == add_sta(neg_tt(p2), p1)
sub_saa(p1, p2) == add_saa(p1, neg_aa(p2))

----------------------------------------------------------------------------
(* Doubles and the endomorphism.                                           *)

double_st(p) ==
  LET xx == mod(Square(p.x))
      yy == mod(Square(p.y))
      g == mod(yy - 5 * xx)
  IN  efgh(mod(Square(p.x + p.y) - xx - yy), mod(2 * Square(p.z) - g), g, mod(yy + 5 * xx))
double_sa(p) ==
  LET xx5 == 5 * Square(p.x)
      g == mod(Square(p.y) - xx5)
  IN  efgh(mod(2 * p.t), mod(2 - g), g, mod(Square(p.y) + xx5))
double_ss(p) == double_st(xtw(mod(p.e * p.f), mod(p.g * p.h), 0, mod(p.f * p.g)))

computeEndomorphism_st(p) ==
  LET zz == Square(p.z)
      yy == Square(p.y)
      bzz == endo_b * mod(zz)
  IN  efgh(mod(mod(zz - yy) * endo_c), mod(yy - bzz), mod(p.x * p.y), mod(mod(yy + bzz) * endo_b))
computeEndomorphism_sa(p) ==
  [computeEndomorphism_st(WithZ(p)) EXCEPT !.g = p.t]
computeEndomorphism_ss(p) ==
  LET hhByb == mod(Square(p.h)) * endo_binverse
      ff == Square(p.f)
      bff == mod(ff) * endo_b
  IN  efgh(mod(endo_bcd * mod(mod(bff - hhByb) * p.e)), mod(hhByb - ff),
           mod(p.g * mod(p.f * p.h)), mod(Square(p.h) + bff))

----------------------------------------------------------------------------
(* Adding the points of order two, for tests: A = (0, -1) and the points   *)
(* E1 and E2 at infinity.                                                  *)

torsionAddA_xtw(p) == [p EXCEPT !.x = mod(-p.x), !.y = mod(-p.y)]
torsionAddA_axtw(p) == [p EXCEPT !.x = mod(-p.x), !.y = mod(-p.y)]
torsionAddA_efgh(p) == [p EXCEPT !.e = mod(-p.e), !.h = mod(-p.h)]

torsionAddE1_xtw(p) ==
  xtw(mod(p.y * squareRootDbyA), mod(mod(p.x * squareRootDbyA) * CurveParameterA), p.z, mod(p.t * D))
\* Panics for x = 0, where the sum is at infinity.
torsionAddE1_axtw(p) ==
  LET t == Inv(mod(p.t * D))
  IN  axtw(mod(mod(p.y * squareRootDbyA) * t), mod(mod(mod(p.x * squareRootDbyA) * CurveParameterA) * t), t)
torsionAddE1_efgh(p) ==
  efgh(p.g, mod(p.h * squareRootDbyA), mod(mod(p.e * squareRootDbyA) * CurveParameterA), p.f)

----------------------------------------------------------------------------
(* Checks.                                                                 *)

\* Is X:Z in the cyclic subgroup with A?  Jacobi is never 0 for points.
legendreCheckA_affineX(x) == Jacobi(mod(1 + 5 * Square(x))) >= 0
legendreCheckA_projectiveXZ(x, z) == Jacobi(mod(Square(z) + 5 * Square(x))) >= 0
legendreCheckA_EG(e, g) == Jacobi(mod(Square(g) + 5 * Square(e))) >= 0

\* Distinguishes P and P+A for P in the prime-order subgroup.
rAndOne == squareRootDbyA + 1
legendreCheckE1_affineY(y) == Jacobi(mod(mod(Square(y)) * squareRootDbyA - y * rAndOne + 1)) <= 0
legendreCheckE1_projectiveYZ(y, z) ==
  Jacobi(mod(Square(z) - mod(y * z) * rAndOne + mod(Square(y)) * squareRootDbyA)) <= 0
legendreCheckE1_FH(f, h) ==
  Jacobi(mod(Square(f) - mod(f * h) * rAndOne + mod(Square(h)) * squareRootDbyA)) <= 0

isPointOnCurve_xtw(p) ==
  /\ ~IsNaP_xtw(p)
  /\ mod(p.x * p.y) = mod(p.t * p.z)
  /\ mod(mod(Square(p.t)) * D + Square(p.z) - Square(p.y) + 5 * Square(p.x)) = 0
isPointOnCurve_axtw(p) ==
  /\ ~IsNaP_axtw(p)
  /\ mod(p.x * p.y) = p.t
  /\ mod(mod(Square(p.t)) * D + 1 - Square(p.y) + 5 * Square(p.x)) = 0
toDecaf_xtw(p) == xtw(mod(p.e * p.f), mod(p.g * p.h), mod(p.e * p.h), mod(p.f * p.g))
isPointOnCurve_efgh(p) == ~IsNaP_efgh(p) /\ isPointOnCurve_xtw(toDecaf_xtw(p))

----------------------------------------------------------------------------
(* Equality, for coordinates that are not NaPs: exact, or modulo A.        *)

EqualQuotients(x1, y1, x2, y2) == mod(x1 * y2) = mod(y1 * x2)
checkEqualityOfQuotients(x1, y1, x2, y2) ==
  [equal |-> EqualQuotients(x1, y1, x2, y2),
   zero |-> EqualQuotients(x1, y1, x2, y2) /\ mod(x1 * y2) = 0]

isEqual_moduloA_tt(p1, p2) == checkEqualityOfQuotients(p1.x, p1.y, p2.x, p2.y)
isEqual_moduloA_tany(p1, p2) == checkEqualityOfQuotients(p1.x, p1.y, p2.x, p2.y).equal
isEqual_moduloA_at(p1, p2) == checkEqualityOfQuotients(p1.x, p1.y, p2.x, p2.y)

\* Y up to its sign (CmpAbs), then X with the same sign.
isEqual_moduloA_aa(p1, p2) ==
  IF p1.y = p2.y THEN p1.x = p2.x ELSE p1.y = mod(-p2.y) /\ mod(-p1.x) = p2.x
isEqual_moduloA_aany(p1, p2) ==
  LET y == mod(p1.y * p2.z)
      x == mod(p1.x * p2.z)
  IN  IF y = p2.y THEN x = p2.x ELSE y = mod(-p2.y) /\ x = mod(-p2.x)

isEqual_exact_tt(p1, p2) ==
  LET quotients == checkEqualityOfQuotients(p1.x, p1.y, p2.x, p2.y)
  IN  [equal |-> quotients.equal /\ IF quotients.zero /\ p1.x # 0
                                    THEN mod(p1.x * p2.t) = mod(p1.t * p2.x)
                                    ELSE mod(p1.y * p2.z) = mod(p1.z * p2.y),
       zero |-> quotients.zero]
isEqual_exact_ta(p1, p2) ==
  p1.z # 0 /\ mod(p1.z * p2.x) = p1.x /\ mod(p1.z * p2.y) = p1.y
isEqual_exact_aa(p1, p2) == p1.x = p2.x /\ p1.y = p2.y

AtInfinity_xtw(p) == ~IsNaP_xtw(p) /\ p.z = 0
IsE1_xtw(p) == AtInfinity_xtw(p) /\ mod(p.t * squareRootDbyA) = p.x
IsE2_xtw(p) == AtInfinity_xtw(p) /\ mod(-(p.t * squareRootDbyA)) = p.x
AtInfinity_efgh(p) == ~IsNaP_efgh(p) /\ p.g = 0
IsE1_efgh(p) == AtInfinity_efgh(p) /\ mod(p.h * squareRootDbyA) = p.f
IsE2_efgh(p) == AtInfinity_efgh(p) /\ mod(-(p.h * squareRootDbyA)) = p.f

\* p2: the coordinates of a point in efgh form, of which decafX and decafY
\* are taken before, x, y and z after it is normalized modulo A; p2IsE1 is
\* only looked at when both points are at infinity.
isEqual_exact_tany(p1, decaf, p2, p2CanBeInfinite, p2IsE1) ==
  LET quotients == checkEqualityOfQuotients(p1.x, p1.y, decaf.x, decaf.y)
  IN  /\ quotients.equal
      /\ IF ~quotients.zero \/ decaf.x = 0 THEN mod(p2.y * p1.z) = mod(p2.z * p1.y)
         ELSE p2CanBeInfinite /\ (IsE1_xtw(p1) <=> p2IsE1)
isEqual_exact_aany(p1, p2, p2AtInfinity) ==
  ~p2AtInfinity /\ mod(p1.x * p2.z) = p2.x /\ mod(p1.y * p2.z) = p2.y

isEqual_exact_ss(p1, p2) ==
  mod(p1.h * p2.f) = mod(p1.f * p2.h) /\ mod(p1.e * p2.g) = mod(p1.g * p2.e)
isEqual_moduloA_ss(p1, p2) ==
  LET hf == mod(p1.h * p2.f)
      fh == mod(p1.f * p2.h)
      eg == mod(p1.e * p2.g)
      ge == mod(p1.g * p2.e)
  IN  IF hf = fh THEN eg = ge ELSE mod(-hf) = fh /\ mod(-eg) = ge
isEqual_exact_sany(p1, p2, p2IsE1) ==
  LET zh == mod(p2.z * p1.h)
  IN  /\ zh = mod(p2.y * p1.f)
      /\ IF zh = 0 THEN p1.g = 0 /\ (IsE1_efgh(p1) <=> p2IsE1)
         ELSE mod(p2.z * p1.e) = mod(p2.x * p1.g)
isEqual_moduloA_sany(p1, p2) ==
  mod(mod(p2.x * p1.g) * p1.h) = mod(mod(p2.y * p1.e) * p1.f)

-----------------------------------------------------------------------------
(* The group of the curve, as a table: the points of package curvePoints   *)
(* are compared with it.  It is built with the textbook addition law that  *)
(* the tests of the package use, and E1 is added by                        *)
(*            (x, y) + E1 = (1/(a r x), 1/(r y)),   r^2 = d/a.             *)
(* Elements are written as in module PointGroup.                           *)

CONSTANTS q,             \* the order of the prime-order subgroup
          Generator      \* of the cyclic group of order 2q, affine <<x, y>>

NaP == <<-1, -1>>
NoElement == <<-2, -2>>
Neutral == <<0, 0>>
A == <<q, 0>>
E1 == <<0, 1>>
E2 == <<q, 1>>
GroupElements == (0..2*q-1) \X {0, 1}
Plus(s, t) == <<(s[1] + t[1]) % (2 * q), (s[2] + t[2]) % 2>>

\* The sum of two affine points, unless a denominator is 0.
denom_common(p1, p2) == mod(mod(mod(p1[1] * p2[1]) * mod(p1[2] * p2[2])) * D)
NaiveSumDefined(p1, p2) == denom_common(p1, p2) \notin {1, FieldPrime - 1}
addNaive_ttt(p1, p2) ==
  LET common == denom_common(p1, p2)
  IN  <<mod(mod(p1[1] * p2[2] + p1[2] * p2[1]) * Inv(mod(1 + common))),
        mod(mod(5 * p1[1] * p2[1] + p1[2] * p2[2]) * Inv(mod(1 - common)))>>

\* multiples[m + 1] = m * Generator
multiples ==
  FoldLeft(LAMBDA sums, i : Append(sums, addNaive_ttt(Last(sums), Generator)),
           <<<<0, 1>>>>, [i \in 1..2*q-1 |-> i])

AffineCoordinates ==
  Table([s \in GroupElements \ {E1, E2} |->
     LET p == multiples[s[1] + 1]
     IN  IF s[2] = 0 THEN p
         ELSE <<Inv(mod(mod(CurveParameterA * squareRootDbyA) * p[1])), Inv(mod(squareRootDbyA * p[2]))>>])

ElementAt ==
  Table([p \in {AffineCoordinates[s] : s \in GroupElements \ {E1, E2}} |->
     CHOOSE s \in GroupElements \ {E1, E2} : AffineCoordinates[s] = p])

\* The table is a group under the naive sum, and has all affine points.
ASSUME GroupAssumption ==
  /\ q \in Nat /\ q % 2 = 1
  /\ AffineCoordinates[A] = <<0, FieldPrime - 1>>
  /\ DOMAIN ElementAt = {p \in Fe \X Fe : isPointOnCurve_axtw(axtw(p[1], p[2], mod(p[1] * p[2])))}
  /\ \A s, t \in GroupElements \ {E1, E2} :
       NaiveSumDefined(AffineCoordinates[s], AffineCoordinates[t])
         => /\ Plus(s, t) \notin {E1, E2}
            /\ addNaive_ttt(AffineCoordinates[s], AffineCoordinates[t]) = AffineCoordinates[Plus(s, t)]

\* The element of X:Y:T:Z, with E1 = r:0:1:0 and E2 = r:0:-1:0.
Element(c) ==
  IF c.x = 0 /\ c.y = 0 THEN NaP
  ELSE IF mod(c.x * c.y) # mod(c.t * c.z) THEN NoElement
  ELSE IF c.z = 0
       THEN CASE c.y = 0 /\ c.x = mod(c.t * squareRootDbyA) -> E1
              [] c.y = 0 /\ c.x = mod(-(c.t * squareRootDbyA)) -> E2
              [] OTHER -> NoElement
  ELSE LET p == <<mod(c.x * Inv(c.z)), mod(c.y * Inv(c.z))>>
       IN  IF p \in DOMAIN ElementAt THEN ElementAt[p] ELSE NoElement

\* Modulo A, with the representative in the prime-order subgroup.
ModuloA(s) ==
  IF s \in {NaP, NoElement} THEN s
  ELSE IF s[2] = 1 THEN NoElement
  ELSE IF s[1] % 2 = 0 THEN s ELSE Plus(s, A)
===============================================================================
