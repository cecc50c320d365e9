------------------------------ MODULE CurvePoints ------------------------------
(***************************************************************************)
(* Variables of the six types of curve points and the calls on them.       *)
(*                                                                         *)
(* A variable has a form of coordinates (see module CurveFormulas) and may *)
(* be of a type for the prime-order subgroup only; such a type holds P as  *)
(* the coordinates of P or of P+A.  Calls take any variables as operands,  *)
(* the receiver too.  Reading and converting an operand may change its     *)
(* coordinates, not what it means: this is part of the call.  The handler  *)
(* of NaPs is the one the package starts with, which does nothing.         *)
(***************************************************************************)
EXTENDS CurveFormulas

CONSTANTS Names,          \* variables of the caller
          Scales,         \* random factors of coordinates
          RandomX,        \* random x-coordinates
          Eigenvalue,     \* of the endomorphism
          MaxCalls        \* bound of the model

VARIABLES points,         \* [kind, sub, c: coordinates]
          call,           \* the last call: [op, r, x, y, answer, got]
          calls           \* their number

pointVars == <<points, call, calls>>

Panic == [panic |-> TRUE]
NoCoordinates == xtw(0, 0, 0, 0)

ByKind(kind, t, a, s) == CASE kind = "xtw" -> t [] kind = "axtw" -> a [] kind = "efgh" -> s
Scaled(c, n) == [k \in DOMAIN c |-> mod(c[k] * n)]
Zero(kind) == ByKind(kind, xtw(0, 0, 0, 0), axtw(0, 0, 0), efgh(0, 0, 0, 0))

neutralElement_xtwbase == xtw(0, 1, 0, 1)
orderTwoPoint_xtw == xtw(0, FieldPrime - 1, 0, 1)
infinitePoint1_xtw_base == xtw(squareRootDbyA, 0, 1, 0)
infinitePoint2_xtw_base == xtw(squareRootDbyA, 0, FieldPrime - 1, 0)
neutralElement_axtwbase == axtw(0, 1, 0)
affineOrderTwoPoint_axtwbase == axtw(0, FieldPrime - 1, 0)
neutralElement_efghbase == efgh(0, 1, 1, 1)
orderTwoPoint_efghbase == efgh(0, 1, 1, FieldPrime - 1)
exceptionalPoint_1_efghbase == efgh(1, squareRootDbyA, 0, 1)
exceptionalPoint_2_efghbase == efgh(1, squareRootDbyA, 0, FieldPrime - 1)

IsNaP(o) == ByKind(o.kind, IsNaP_xtw(o.c), IsNaP_axtw(o.c), IsNaP_efgh(o.c))

----------------------------------------------------------------------------
(* Changes of representation.                                              *)

\* P+A becomes P (flipDecaf).
normalizeSubgroup_xtw(c) == IF legendreCheckE1_projectiveYZ(c.y, c.z) THEN c ELSE torsionAddA_xtw(c)
normalizeSubgroup_axtw(c) == IF legendreCheckE1_affineY(c.y) THEN c ELSE torsionAddA_axtw(c)
normalizeSubgroup_efgh(c) == IF legendreCheckE1_FH(c.f, c.h) THEN c ELSE torsionAddA_efgh(c)

Normalized(o) ==
  IF ~o.sub THEN o
  ELSE [o EXCEPT !.c = ByKind(o.kind, normalizeSubgroup_xtw(@), normalizeSubgroup_axtw(@),
                                      normalizeSubgroup_efgh(@))]

normalizeAffineZ_xtw(c) ==
  IF IsNaP_xtw(c) THEN xtw(0, 0, 0, 1)
  ELSE IF c.z = 0 THEN Panic
  ELSE Scaled(c, Inv(c.z))
normalize_affine_efgh(c) ==
  IF c.f = 1 /\ c.g = 1 THEN c
  ELSE IF IsNaP_efgh(c) THEN efgh(0, 0, 0, 0)
  ELSE IF c.g = 0 THEN Panic
  ELSE efgh(mod(c.e * Inv(c.g)), 1, 1, mod(c.h * Inv(c.f)))

\* For a point at infinity the code panics, and nothing has changed.
Affine(o) ==
  LET c == ByKind(o.kind, normalizeAffineZ_xtw(o.c), o.c, normalize_affine_efgh(o.c))
  IN  IF c = Panic THEN o ELSE [o EXCEPT !.c = c]

NormalizeForZ_xtw(sub, c) ==
  IF IsNaP_xtw(c) THEN [ok |-> FALSE, c |-> xtw(0, 0, 0, 0)]
  ELSE IF c.z # 0 THEN [ok |-> TRUE, c |-> Scaled(c, Inv(c.z))]
  ELSE IF sub THEN Panic
  ELSE [ok |-> FALSE, c |-> IF IsE1_xtw(c) THEN infinitePoint1_xtw_base ELSE infinitePoint2_xtw_base]
NormalizeForY_xtw(sub, c) ==
  IF IsNaP_xtw(c) THEN [ok |-> FALSE, c |-> xtw(0, 0, 0, 0)]
  ELSE IF c.y # 0 THEN [ok |-> TRUE, c |-> Scaled(c, Inv(c.y))]
  ELSE IF sub THEN Panic
  ELSE [ok |-> FALSE, c |-> IF IsE1_xtw(c) THEN infinitePoint1_xtw_base ELSE infinitePoint2_xtw_base]
NormalizeForZ_axtw(c) == [ok |-> ~IsNaP_axtw(c), c |-> c]

rerandomizeRepresentation_xtw(sub, c, m, flip) ==
  IF sub /\ flip THEN torsionAddA_xtw(Scaled(c, m)) ELSE Scaled(c, m)
rerandomizeRepresentation_axtw(sub, c, flip) == IF sub /\ flip THEN torsionAddA_axtw(c) ELSE c
rerandomizeRepresentation_efgh(sub, c, m, n, flip) ==
  LET scaled == efgh(mod(c.e * m), mod(c.f * n), mod(c.g * m), mod(c.h * n))
  IN  IF sub /\ flip THEN torsionAddA_efgh(scaled) ELSE scaled

\* A point's coordinates, as X:Y:T:Z; "decaf" ones are of P or of P+A.
XYTZ_decaf_projective(o) == ByKind(o.kind, o.c, WithZ(o.c), toDecaf_xtw(o.c))
XYTZ_projective_xtw(sub, c) == IF sub THEN normalizeSubgroup_xtw(c) ELSE c
(* Mutant: P+A is read as it is. *)
XYTZ_projective_axtwMutant(sub, c) == WithZ(c)

XYTZ_projective_axtw(sub, c) == WithZ(IF sub THEN normalizeSubgroup_axtw(c) ELSE c)
XYTZ_projective_efgh(sub, c) == toDecaf_xtw(IF sub THEN normalizeSubgroup_efgh(c) ELSE c)
XYTZ_projective(o) ==
  ByKind(o.kind, XYTZ_projective_xtw(o.sub, o.c), XYTZ_projective_axtw(o.sub, o.c),
                 XYTZ_projective_efgh(o.sub, o.c))

XYT_affine_xtw(sub, c) ==
  LET affine == normalizeAffineZ_xtw(c)
  IN  IF affine = Panic THEN Panic ELSE XYTZ_projective_xtw(sub, affine)
XYT_affine_axtw(sub, c) == XYTZ_projective_axtw(sub, c)
XYT_affine_efgh(sub, c) ==
  LET affine == normalize_affine_efgh(c)
      normal == IF sub THEN normalizeSubgroup_efgh(affine) ELSE affine
  IN  IF affine = Panic THEN Panic ELSE xtw(normal.e, normal.h, mod(normal.e * normal.h), 1)
XYT_affine(o) ==
  ByKind(o.kind, XYT_affine_xtw(o.sub, o.c), XYT_affine_axtw(o.sub, o.c), XYT_affine_efgh(o.sub, o.c))

toDecaf_axtw(c) ==
  LET affine == normalize_affine_efgh(c)
  IN  IF affine = Panic THEN Panic ELSE axtw(affine.e, affine.h, mod(affine.e * affine.h))

----------------------------------------------------------------------------
(* Queries.                                                                *)

IsNeutralElement_xtw(sub, c) == c.x = 0 /\ c.y # 0 /\ (sub \/ c.y = c.z)
IsNeutralElement_axtw(sub, c) == c.x = 0 /\ c.y # 0 /\ (sub \/ c.y = 1)
IsNeutralElement_efgh(sub, c) == ~IsNaP_efgh(c) /\ c.e = 0 /\ (sub \/ c.f = c.h)
IsNeutralElement(o) ==
  ByKind(o.kind, IsNeutralElement_xtw(o.sub, o.c), IsNeutralElement_axtw(o.sub, o.c),
                 IsNeutralElement_efgh(o.sub, o.c))

IsAtInfinity_xtw(sub, c) == ~sub /\ AtInfinity_xtw(c)
IsAtInfinity_axtw(c) == FALSE
IsAtInfinity_efgh(sub, c) == ~sub /\ AtInfinity_efgh(c)
IsAtInfinity(o) ==
  ByKind(o.kind, IsAtInfinity_xtw(o.sub, o.c), IsAtInfinity_axtw(o.c), IsAtInfinity_efgh(o.sub, o.c))
IsE1(o) == ByKind(o.kind, IsE1_xtw(o.c), FALSE, IsE1_efgh(o.c))
IsE2(o) == ByKind(o.kind, IsE2_xtw(o.c), FALSE, IsE2_efgh(o.c))

IsInSubgroup_xtw(c) ==
  ~IsNaP_xtw(c) /\ legendreCheckA_projectiveXZ(c.x, c.z) /\ legendreCheckE1_projectiveYZ(c.y, c.z)
IsInSubgroup_axtw(c) == ~IsNaP_axtw(c) /\ legendreCheckA_affineX(c.x) /\ legendreCheckE1_affineY(c.y)
IsInSubgroup_efgh(c) == legendreCheckA_EG(c.e, c.g) /\ legendreCheckE1_FH(c.f, c.h)
IsInSubgroup(o) ==
  o.sub \/ ByKind(o.kind, IsInSubgroup_xtw(o.c), IsInSubgroup_axtw(o.c), IsInSubgroup_efgh(o.c))

Validate_xtw(sub, c) == isPointOnCurve_xtw(c) /\ (sub => legendreCheckA_projectiveXZ(c.x, c.z))
Validate_axtw(sub, c) == isPointOnCurve_axtw(c) /\ (sub => legendreCheckA_affineX(c.x))
Validate_efgh(sub, c) == isPointOnCurve_efgh(c) /\ (sub => legendreCheckA_EG(c.e, c.g))
Validate(o) ==
  ByKind(o.kind, Validate_xtw(o.sub, o.c), Validate_axtw(o.sub, o.c), Validate_efgh(o.sub, o.c))

\* o is compared with other: of which type it is selects the formula.
BothForSubgroup(o, other) == o.sub /\ other.sub
IsEqual_xtw(o, other) ==
  LET c == Normalized(o).c
      d == Normalized(other).c
      t == isEqual_moduloA_tt(o.c, other.c)
      exact == isEqual_exact_tt(c, d)
  IN  IF BothForSubgroup(o, other)
      THEN ByKind(other.kind, t.equal, t.equal, isEqual_moduloA_tany(o.c, XYTZ_decaf_projective(other)))
      ELSE ByKind(other.kind, exact.equal, isEqual_exact_ta(c, d),
             isEqual_exact_tany(c, XYTZ_decaf_projective(other), XYTZ_projective(other), ~other.sub,
                                IsE1(other)))
IsEqual_axtw(o, other) ==
  LET c == Normalized(o).c
      d == Normalized(other).c
  IN  IF BothForSubgroup(o, other)
      THEN ByKind(other.kind, isEqual_moduloA_at(o.c, other.c).equal, isEqual_moduloA_aa(o.c, other.c),
             isEqual_moduloA_aany(o.c, XYTZ_decaf_projective(other)))
      ELSE ByKind(other.kind, isEqual_exact_ta(d, c), isEqual_exact_aa(c, d),
             isEqual_exact_aany(c, XYTZ_projective(other), IsAtInfinity(other)))
IsEqual_efgh(o, other) ==
  LET c == Normalized(o).c
      d == Normalized(other).c
      sany == IF BothForSubgroup(o, other) THEN isEqual_moduloA_sany(o.c, XYTZ_decaf_projective(other))
              ELSE isEqual_exact_sany(c, XYTZ_projective(other), IsE1(other))
  IN  ByKind(other.kind, sany, sany,
        IF BothForSubgroup(o, other) THEN isEqual_moduloA_ss(o.c, other.c) ELSE isEqual_exact_ss(c, d))
IsEqual(o, other) ==
  /\ ~IsNaP(o) /\ ~IsNaP(other)
  /\ ByKind(o.kind, IsEqual_xtw(o, other), IsEqual_axtw(o, other), IsEqual_efgh(o, other))

\* What the comparison does to its operands.
QuotientsDiffer(o, other) ==
  LET quotients == checkEqualityOfQuotients(o.c.x, o.c.y, XYTZ_decaf_projective(other).x,
                                            XYTZ_decaf_projective(other).y)
  IN  ~quotients.equal \/ (quotients.zero /\ XYTZ_decaf_projective(other).x # 0)
ReceiverOfIsEqual(o, other) ==
  IF o.sub /\ ~other.sub /\ ((~IsNaP(o) /\ ~IsNaP(other)) \/ (o.kind = "xtw" /\ other.kind # "efgh"))
  THEN Normalized(o) ELSE o
OperandOfIsEqual(o, other) ==
  IF \/ IsNaP(o) \/ IsNaP(other) \/ o.sub
     \/ (o.kind = "xtw" /\ other.kind = "efgh" /\ QuotientsDiffer(o, other))
  THEN other ELSE Normalized(other)

----------------------------------------------------------------------------
(* Conversions.  sub: the receiver's type is for the subgroup.             *)

\* ensureSubgroupOnly: types for the subgroup only take such operands.
Ensured(sub, operands, c) == IF sub /\ \E o \in operands : ~o.sub THEN Panic ELSE c

SetFrom_xtw(sub, o) ==
  Ensured(sub, {o}, IF sub THEN XYTZ_decaf_projective(o) ELSE XYTZ_projective(o))
SetFrom_axtw(sub, o) ==
  LET c == IF sub THEN o.c ELSE Normalized(o).c
      affine == ByKind(o.kind, normalizeAffineZ_xtw(c), c, c)
  IN  Ensured(sub, {o},
        IF o.kind = "efgh" THEN toDecaf_axtw(c)
        ELSE IF IsNaP(o) /\ (o.kind = "xtw" \/ ~sub) THEN axtw(0, 0, 0)
        ELSE IF affine = Panic THEN Panic
        ELSE axtw(affine.x, affine.y, affine.t))
SetFrom_efgh(sub, o) ==
  LET n == IF sub THEN o ELSE Normalized(o)
      c == n.c
      converted == ByKind(o.kind, efgh(c.x, c.z, c.z, c.y), efgh(c.x, 1, 1, c.y), c)
  IN  IF sub /\ ~o.sub /\ IsNaP(o) THEN efgh(0, 0, 0, 0)
      ELSE Ensured(sub, {o},
             IF sub \/ o.kind = "efgh" THEN converted
             ELSE IF IsNaP(o) THEN efgh(0, 0, 0, 0)
             ELSE IF IsAtInfinity(o)
                  THEN IF IsE1(o) THEN exceptionalPoint_1_efghbase ELSE exceptionalPoint_2_efghbase
             ELSE converted)
SetFrom(kind, sub, o) == ByKind(kind, SetFrom_xtw(sub, o), SetFrom_axtw(sub, o), SetFrom_efgh(sub, o))

\* What it does to o.
AfterSetFrom(kind, sub, o) ==
  IF sub /\ (~o.sub \/ kind # "axtw") THEN o
  ELSE IF kind # "axtw" THEN Normalized(o)
  ELSE CASE o.kind = "efgh" -> Affine(IF sub THEN o ELSE Normalized(o))
         [] o.kind = "xtw" /\ ~sub /\ ~IsNaP(o) -> Normalized(Affine(o))
         [] o.kind = "axtw" /\ ~sub -> Normalized(o)
         [] OTHER -> o

\* With the check that o is in the subgroup, or without for trusted callers.
\* Below are the receiver's coordinates c afterwards, and o's.
Accepted(o, trusted) == ~IsNaP(o) /\ (trusted \/ IsInSubgroup(o))
SetFromSubgroupPoint_xtw(sub, c, o, trusted) ==
  IF IsNaP(o) THEN xtw(0, 0, 0, 0)
  ELSE IF ~Accepted(o, trusted) THEN c ELSE SetFrom_xtw(sub /\ o.sub, o)
SetFromSubgroupPoint_axtw(sub, c, o, trusted) ==
  IF ~Accepted(o, trusted) THEN c ELSE SetFrom_axtw(sub /\ o.sub, o)
SetFromSubgroupPoint_efgh(sub, c, o, trusted) ==
  IF ~Accepted(o, trusted) THEN c ELSE SetFrom_efgh(sub /\ o.sub, o)
SetFromSubgroupPoint(kind, sub, c, o, trusted) ==
  ByKind(kind, SetFromSubgroupPoint_xtw(sub, c, o, trusted), SetFromSubgroupPoint_axtw(sub, c, o, trusted),
               SetFromSubgroupPoint_efgh(sub, c, o, trusted))
AfterSetFromSubgroupPoint(kind, sub, o, trusted) ==
  IF Accepted(o, trusted) THEN AfterSetFrom(kind, sub /\ o.sub, o) ELSE o

----------------------------------------------------------------------------
(* Arithmetic: first in efgh form, then converted to the receiver's.       *)

Add_efgh(sub, o1, o2) ==
  LET x == SetFrom_xtw(sub, o1)
      y == SetFrom_xtw(sub, o2)
  IN  Ensured(sub, {o1, o2},
        CASE ~sub -> add_safe_stt(x, y)
          [] sub /\ o1.kind = "axtw" /\ o2.kind = "axtw" -> add_saa(o1.c, o2.c)
          [] sub /\ o1.kind = "axtw" /\ o2.kind # "axtw" -> add_sta(y, o1.c)
          [] sub /\ o1.kind # "axtw" /\ o2.kind = "axtw" -> add_sta(x, o2.c)
          [] sub /\ o1.kind # "axtw" /\ o2.kind # "axtw" -> add_stt(x, y))
Sub_efgh(sub, o1, o2) ==
  LET x == SetFrom_xtw(sub, o1)
      y == SetFrom_xtw(sub, o2)
  IN  Ensured(sub, {o1, o2},
        CASE ~sub -> sub_safe_stt(x, y)
          [] sub /\ o1.kind = "axtw" /\ o2.kind = "axtw" -> sub_saa(o1.c, o2.c)
          [] sub /\ o1.kind = "axtw" /\ o2.kind # "axtw" -> sub_sat(o1.c, y)
          [] sub /\ o1.kind # "axtw" /\ o2.kind = "axtw" -> sub_sta(x, o2.c)
          [] sub /\ o1.kind # "axtw" /\ o2.kind # "axtw" -> sub_stt(x, y))
Double_efgh(o) ==
  ByKind(o.kind, double_st(o.c), IF IsNaP(o) THEN efgh(0, 0, 0, 0) ELSE double_sa(o.c), double_ss(o.c))
Neg_efgh(sub, o) ==
  LET c == SetFrom_efgh(sub, o)
  IN  IF sub /\ ~o.sub THEN Panic ELSE neg_ss(c)

EndoOf(o) ==
  ByKind(o.kind, computeEndomorphism_st(o.c), computeEndomorphism_sa(o.c), computeEndomorphism_ss(o.c))
Endo_efgh_subgroup(o) ==
  Ensured(TRUE, {o},
    IF o.kind # "efgh" /\ (EndoOf(o).g = 0 \/ IsNaP(o))
    THEN IF IsNaP(o) THEN efgh(0, 0, 0, 0) ELSE neutralElement_efghbase
    ELSE EndoOf(o))
Endo_efgh_full(o) ==
  IF IsNaP(o) THEN efgh(0, 0, 0, 0)
  ELSE IF IsAtInfinity(o) THEN orderTwoPoint_efghbase
  ELSE IF XYTZ_decaf_projective(o).x = 0 THEN neutralElement_efghbase
  ELSE EndoOf(o)
Endo_efgh(sub, o) == IF sub THEN Endo_efgh_subgroup(o) ELSE Endo_efgh_full(o)

InXtw(c) == IF c = Panic THEN Panic ELSE toDecaf_xtw(c)
InAxtw(c) == IF c = Panic THEN Panic ELSE toDecaf_axtw(c)

Add_xtw(sub, o1, o2) == InXtw(Add_efgh(sub, o1, o2))
Sub_xtw(sub, o1, o2) == InXtw(Sub_efgh(sub, o1, o2))
Double_xtw(o) == InXtw(Double_efgh(o))
Endo_xtw(sub, o) == InXtw(Endo_efgh(sub, o))
Neg_xtw(sub, o) == LET c == SetFrom_xtw(sub, o) IN IF c = Panic THEN Panic ELSE neg_tt(c)

Add_axtw(sub, o1, o2) == InAxtw(Add_efgh(sub, o1, o2))
Sub_axtw(sub, o1, o2) == InAxtw(Sub_efgh(sub, o1, o2))
Double_axtw(o) == InAxtw(Double_efgh(o))
Endo_axtw(sub, o) == InAxtw(Endo_efgh(sub, o))
Neg_axtw(sub, o) == LET c == SetFrom_axtw(sub, o) IN IF c = Panic THEN Panic ELSE neg_aa(c)

\* In-place calls that are not the call with the receiver as operand.
DoubleEq_axtw(c) == toDecaf_axtw(add_saa(c, c))
EndoEq_efgh(sub, c) ==
  IF ~sub /\ AtInfinity_efgh(c) THEN orderTwoPoint_efghbase ELSE computeEndomorphism_ss(c)

\* All points of the curve with this x and sign of y; none for some x.
makeRandomPointOnCurve_a(x, sign) ==
  {axtw(x, y, mod(x * y)) :
     y \in {y \in Fe : mod(mod(Square(y)) * mod(1 - mod(Square(x)) * D)) = mod(1 + 5 * Square(x)) /\ Sign(y) = sign}}
makeRandomPointOnCurve_t(x, sign, z) == {Scaled(WithZ(c), z) : c \in makeRandomPointOnCurve_a(x, sign)}
sampleRandomUnsafe_xtw(sub, x, sign, z) ==
  {IF sub THEN toDecaf_xtw(double_st(c)) ELSE c : c \in makeRandomPointOnCurve_t(x, sign, z)}
sampleRandomUnsafe_axtw(sub, x, sign) ==
  {IF sub THEN DoubleEq_axtw(c) ELSE c : c \in makeRandomPointOnCurve_a(x, sign)}
sampleRandomUnsafe_efgh(sub, x, sign, m, n, flip) ==
  {rerandomizeRepresentation_efgh(sub, SetFrom_efgh(sub, [kind |-> "axtw", sub |-> sub, c |-> c]), m, n, flip) :
     c \in sampleRandomUnsafe_axtw(sub, x, sign)}

----------------------------------------------------------------------------
(* The calls.                                                              *)

Called(op, r, x, y, answer, got) ==
  call' = [op |-> op, r |-> r, x |-> x, y |-> y, answer |-> answer, got |-> got]

\* Receiver r becomes c, and operands are as in touched; or the call panics.
Assigns(op, r, x, y, c, touched) ==
  IF c = Panic
  THEN Called(op, r, x, y, "panic", NoCoordinates) /\ points' = touched
  ELSE Called(op, r, x, y, "done", NoCoordinates) /\ points' = [touched EXCEPT ![r].c = c]

Answers(op, r, x, b, touched) ==
  /\ Called(op, r, x, x, IF b THEN "true" ELSE "false", NoCoordinates)
  /\ points' = touched

\* Operands of arithmetic are converted, for full receivers by SetFrom_xtw.
Converted(sub, xs) == IF sub THEN points ELSE [n \in Names |-> IF n \in xs THEN Normalized(points[n]) ELSE points[n]]

Add(r, x, y) ==
  LET p == points[r] IN
  Assigns("Add", r, x, y,
          ByKind(p.kind, Add_xtw(p.sub, points[x], points[y]), Add_axtw(p.sub, points[x], points[y]),
                         Add_efgh(p.sub, points[x], points[y])),
          Converted(p.sub, {x, y}))
Sub(r, x, y) ==
  LET p == points[r] IN
  Assigns("Sub", r, x, y,
          ByKind(p.kind, Sub_xtw(p.sub, points[x], points[y]), Sub_axtw(p.sub, points[x], points[y]),
                         Sub_efgh(p.sub, points[x], points[y])),
          Converted(p.sub, {x, y}))
Double(r, x) ==
  Assigns("Double", r, x, x,
          ByKind(points[r].kind, Double_xtw(points[x]), Double_axtw(points[x]), Double_efgh(points[x])), points)
DoubleEq(r) ==
  LET p == points[r] IN
  Assigns("Double", r, r, r,
          ByKind(p.kind, toDecaf_xtw(double_st(p.c)), DoubleEq_axtw(p.c), double_ss(p.c)), points)
Neg(r, x) ==
  LET p == points[r] IN
  Assigns("Neg", r, x, x,
          ByKind(p.kind, Neg_xtw(p.sub, points[x]), Neg_axtw(p.sub, points[x]), Neg_efgh(p.sub, points[x])),
          [points EXCEPT ![x] = AfterSetFrom(p.kind, p.sub, @)])
NegEq(r) ==
  LET p == points[r] IN
  Assigns("Neg", r, r, r, ByKind(p.kind, neg_tt(p.c), neg_aa(p.c), neg_ss(p.c)), points)
Endo(r, x) ==
  LET p == points[r] IN
  Assigns("Endo", r, x, x,
          ByKind(p.kind, Endo_xtw(p.sub, points[x]), Endo_axtw(p.sub, points[x]), Endo_efgh(p.sub, points[x])),
          points)
EndoEq(r) ==
  /\ points[r].kind = "efgh"
  /\ Assigns("Endo", r, r, r, EndoEq_efgh(points[r].sub, points[r].c), points)

Convert(r, x) ==
  LET p == points[r] IN
  Assigns("SetFrom", r, x, x, SetFrom(p.kind, p.sub, points[x]),
          [points EXCEPT ![x] = AfterSetFrom(p.kind, p.sub, @)])
\* Callers that ask not to check know that x is in the subgroup.
ConvertSubgroupPoint(r, x, trusted) ==
  LET p == points[r] IN
  /\ trusted => ModuloA(Element(XYTZ_decaf_projective(points[x]))) = Element(XYTZ_projective(points[x]))
  /\ Called("SetFromSubgroupPoint", r, x, x, IF Accepted(points[x], trusted) THEN "true" ELSE "false",
            NoCoordinates)
  /\ points' = [points EXCEPT
                  ![x] = AfterSetFromSubgroupPoint(p.kind, p.sub, @, trusted),
                  ![r].c = SetFromSubgroupPoint(p.kind, p.sub, p.c, points[x], trusted)]

SetNeutral(r) ==
  Assigns("SetNeutral", r, r, r,
          ByKind(points[r].kind, neutralElement_xtwbase, neutralElement_axtwbase, neutralElement_efghbase), points)
SetAffineTwoTorsion(r) ==
  /\ ~points[r].sub
  /\ Assigns("SetAffineTwoTorsion", r, r, r,
             ByKind(points[r].kind, orderTwoPoint_xtw, affineOrderTwoPoint_axtwbase, orderTwoPoint_efghbase), points)
SetE1(r) ==
  /\ ~points[r].sub /\ points[r].kind # "axtw"
  /\ Assigns("SetE1", r, r, r,
             ByKind(points[r].kind, infinitePoint1_xtw_base, Panic, exceptionalPoint_1_efghbase), points)
SetE2(r) ==
  /\ ~points[r].sub /\ points[r].kind # "axtw"
  /\ Assigns("SetE2", r, r, r,
             ByKind(points[r].kind, infinitePoint2_xtw_base, Panic, exceptionalPoint_2_efghbase), points)
torsionAddA(r) ==
  LET p == points[r] IN
  /\ ~p.sub
  /\ Assigns("torsionAddA", r, r, r,
             ByKind(p.kind, torsionAddA_xtw(p.c), torsionAddA_axtw(p.c), torsionAddA_efgh(p.c)), points)
torsionAddE1(r) ==
  LET p == points[r] IN
  /\ ~p.sub
  /\ Assigns("torsionAddE1", r, r, r,
             IF IsNaP(p) /\ p.kind # "xtw" THEN Zero(p.kind)
             ELSE IF p.kind = "axtw" /\ p.c.x = 0 THEN Panic
             ELSE ByKind(p.kind, torsionAddE1_xtw(p.c), torsionAddE1_axtw(p.c), torsionAddE1_efgh(p.c)), points)

Compare(r, x) ==
  Answers("IsEqual", r, x, IsEqual(points[r], points[x]),
          [points EXCEPT ![r] = ReceiverOfIsEqual(points[r], points[x]),
                         ![x] = OperandOfIsEqual(points[r], points[x])])

ReadProjective(r) ==
  /\ Called("coordinates", r, r, r, "done", XYTZ_projective(points[r]))
  /\ points' = [points EXCEPT ![r] = Normalized(@)]
ReadAffine(r) ==
  LET got == XYT_affine(points[r])
  IN  IF got = Panic
      THEN Called("affine coordinates", r, r, r, "panic", NoCoordinates) /\ UNCHANGED points
      ELSE /\ Called("affine coordinates", r, r, r, "done", got)
           /\ points' = [points EXCEPT ![r] = Normalized(Affine(@))]
MapToFieldElement(r) ==
  IF IsAtInfinity(points[r]) \/ IsNaP(points[r])
  THEN Called("MapToFieldElement", r, r, r, "panic", NoCoordinates) /\ UNCHANGED points
  ELSE LET c == XYTZ_decaf_projective(points[r])
       IN  /\ Called("MapToFieldElement", r, r, r, "done", [NoCoordinates EXCEPT !.x = mod(Inv(c.y) * c.x)])
           /\ UNCHANGED points
\* X_decaf_affine and so on.
ReadDecafAffine(r) ==
  /\ Called("decaf affine coordinates", r, r, r, IF IsAtInfinity(points[r]) THEN "panic" ELSE "done", NoCoordinates)
  /\ points' = [points EXCEPT ![r] = Affine(@)]

NormalizeForZ(r) ==
  LET p == points[r]
      normalized == ByKind(p.kind, NormalizeForZ_xtw(p.sub, p.c), NormalizeForZ_axtw(p.c), Panic)
  IN  /\ p.kind # "efgh"
      /\ Answers("NormalizeForZ", r, r, normalized.ok, [points EXCEPT ![r].c = normalized.c])
NormalizeForY(r) ==
  LET p == points[r]
      normalized == NormalizeForY_xtw(p.sub, p.c)
  IN  /\ p.kind = "xtw"
      /\ Answers("NormalizeForY", r, r, normalized.ok, [points EXCEPT ![r].c = normalized.c])

rerandomizeRepresentation(r, m, n, flip) ==
  LET p == points[r] IN
  Assigns("rerandomize", r, r, r,
          ByKind(p.kind, rerandomizeRepresentation_xtw(p.sub, p.c, m, flip),
                         rerandomizeRepresentation_axtw(p.sub, p.c, flip),
                         rerandomizeRepresentation_efgh(p.sub, p.c, m, n, flip)), points)
sampleRandomUnsafe(r, x, sign, m, n) ==
  LET p == points[r] IN
  \E c \in ByKind(p.kind, sampleRandomUnsafe_xtw(p.sub, x, sign, m),
                          sampleRandomUnsafe_axtw(p.sub, x, sign),
                          sampleRandomUnsafe_efgh(p.sub, x, sign, m, n, TRUE)) :
     Assigns("sample", r, r, r, c, points)

PointsNext ==
  /\ calls < MaxCalls
  /\ calls' = calls + 1
  /\ \E r \in Names :
       \/ \E x, y \in Names : Add(r, x, y) \/ Sub(r, x, y)
       \/ \E x \in Names : Double(r, x) \/ Neg(r, x) \/ Endo(r, x) \/ Convert(r, x) \/ Compare(r, x)
       \/ \E x \in Names, trusted \in BOOLEAN : ConvertSubgroupPoint(r, x, trusted)
       \/ DoubleEq(r) \/ NegEq(r) \/ EndoEq(r)
       \/ SetNeutral(r) \/ SetAffineTwoTorsion(r) \/ SetE1(r) \/ SetE2(r)
       \/ torsionAddA(r) \/ torsionAddE1(r)
       \/ ReadProjective(r) \/ ReadAffine(r) \/ ReadDecafAffine(r) \/ MapToFieldElement(r)
       \/ NormalizeForZ(r) \/ NormalizeForY(r)
       \/ \E m, n \in Scales, flip \in BOOLEAN : rerandomizeRepresentation(r, m, n, flip)
       \/ \E x \in RandomX, sign \in {1, -1}, m, n \in Scales : sampleRandomUnsafe(r, x, sign, m, n)

----------------------------------------------------------------------------
(* Properties.                                                             *)

\* The element that a variable means.
Value(o) ==
  LET s == Element(XYTZ_decaf_projective(o))
  IN  IF IsNaP(o) THEN NaP ELSE IF o.sub THEN ModuloA(s) ELSE s

\* No call makes coordinates that are neither those of a point
\* of the variable's type nor recognized as a NaP: t belongs to x, y and z,
\* Validate accepts them, and the internal cases of IsNaP, IsAtInfinity and
\* the normalizers for which the code panics do not occur.
FormsValid ==
  \A n \in Names :
    LET o == points[n]
        c == o.c
    IN  /\ o.kind = "efgh" => /\ c.h = 0 => c.e = 0 \/ c.f = 0
                              /\ c.f = 0 /\ c.h # 0 => c.e = 0 /\ c.g = 0
        /\ IsNaP(o) \/ (Validate(o) /\ Value(o) # NoElement)
        /\ o.kind = "axtw" => Value(o) \notin {E1, E2}

\* Queries answer for the element a variable means, in whatever coordinates,
\* and are false for NaPs; only IsInSubgroup does not look for these in two
\* cases.
QueriesExact ==
  \A n \in Names :
    LET o == points[n]
        s == Value(o)
    IN  /\ IsNeutralElement(o) <=> s = Neutral
        /\ IsAtInfinity(o) <=> s \in {E1, E2}
        /\ IsE1(o) <=> s = E1
        /\ IsE2(o) <=> s = E2
        /\ s # NaP \/ (o.kind # "efgh" /\ ~o.sub) =>
             (IsInSubgroup(o) <=> s # NaP /\ ModuloA(s) = s)

\* Coordinates that are read are those of the point and not of P+A, and
\* affine ones have z = 1; the field element that a point is mapped to is X/Y
\* of both.
CoordinatesExact ==
  LET o == points[call.r]
  IN  call.answer = "done" =>
        /\ call.op \in {"coordinates", "affine coordinates"} => Element(call.got) = Value(o)
        /\ call.op = "affine coordinates" => call.got.z = 1
        /\ call.op = "MapToFieldElement" =>
             mod(call.got.x * AffineCoordinates[Value(o)][2]) = AffineCoordinates[Value(o)][1]

\* Whatever a caller can observe of a point is that of the element it means,
\* in coordinates that no sequence of calls makes invalid.
ObservationsExact == FormsValid /\ QueriesExact /\ CoordinatesExact

\* Variables hold elements of the group and calls compute in it.
Group ==
  INSTANCE PointGroup WITH
    value <- Table([n \in Names |-> Value(points[n])]),
    range <- [n \in Names |-> IF points[n].sub THEN "subgroup"
                              ELSE IF points[n].kind = "axtw" THEN "finite" ELSE "curve"]
ImplementsGroup == Group!Spec
================================================================================
