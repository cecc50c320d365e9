----------------------------- MODULE CurveRecovery -----------------------------
(***************************************************************************)
(* Points from field elements: one coordinate and a sign, or both.  Types  *)
(* for the subgroup need less, as they work modulo A.                      *)
(*                                                                         *)
(* A request is a function with its arguments.  Which of two square roots  *)
(* the field returns is not specified: root is the sign of the one.        *)
(***************************************************************************)
EXTENDS CurveFormulas

CONSTANTS Xs, Ys,           \* coordinates, for functions of both
          Signs

VARIABLES request,          \* [fn, a, b, trusted, root]
          recovered

recoveryVars == <<request, recovered>>

Point(c, err) == [c |-> c, err |-> err]
Failed(err) == Point(axtw(0, 0, 0), err)
Trusted(point, trusted) == IF trusted /\ point.err # "none" THEN Failed("panic") ELSE point
Roots(n) == {r \in Fe : mod(Square(r)) = n}

recoverYFromXAffine(x, legendreCheckX, root) ==
  LET num == mod(1 + 5 * Square(x))
      ys == Roots(mod(num * Inv(mod(1 - mod(Square(x)) * D))))
  IN  [roots |-> {y \in ys : Sign(y) \in {0, root}},
       err |-> IF ys = {} THEN "ErrXNotOnCurve"
               ELSE IF legendreCheckX /\ Jacobi(num) < 0 THEN "ErrXNotInSubgroup" ELSE "none"]

recoverXFromYAffine(y, root) ==
  LET denom == mod(mod(Square(y)) * D - CurveParameterA)
      xs == IF denom = 0 THEN {} ELSE Roots(mod(mod(Square(y) - 1) * Inv(denom)))
  IN  [roots |-> {x \in xs : Sign(x) \in {0, root}}, err |-> IF xs = {} THEN "ErrYNotOnCurve" ELSE "none"]

WithSign(n, sign) == IF Sign(n) = sign THEN n ELSE mod(-n)
Only(S) == CHOOSE n \in S : TRUE
OfXY(x, y) == Point(axtw(x, y, mod(x * y)), "none")

(* Mutant: only the check for the cyclic subgroup with A is made. *)
InSubgroupOnlyMutant(point, trusted) ==
  IF point.err # "none" THEN point
  ELSE IF IsNaP_axtw(point.c) \/ (~trusted /\ ~legendreCheckA_affineX(point.c.x)) THEN Failed("ErrNotInSubgroup")
  ELSE point

\* SetFromSubgroupPoint of an affine point, which does not check it again.
InSubgroupOnly(point, trusted) ==
  IF point.err # "none" THEN point
  ELSE IF IsNaP_axtw(point.c) THEN Failed("ErrNotInSubgroup")
  ELSE IF ~trusted /\ ~(legendreCheckA_affineX(point.c.x) /\ legendreCheckE1_affineY(point.c.y))
       THEN Failed("ErrNotInSubgroup")
  ELSE point

CurvePointFromXYAffine_full(x, y, trusted) ==
  IF trusted THEN OfXY(x, y)
  ELSE IF x = 0 /\ y = 0 THEN Failed("ErrCannotDeserializeXYAllZero")
  ELSE IF ~isPointOnCurve_axtw(OfXY(x, y).c) THEN Failed("ErrNotOnCurve")
  ELSE OfXY(x, y)
CurvePointFromXYAffine_subgroup(x, y, trusted) ==
  InSubgroupOnly(CurvePointFromXYAffine_full(x, y, trusted), trusted)

CurvePointFromXAndSignY_full(x, signY, trusted, root) ==
  LET y == recoverYFromXAffine(x, FALSE, root)
  IN  Trusted(IF signY \notin {1, -1} THEN Failed("ErrInvalidSign")
              ELSE IF y.err # "none" THEN Failed(y.err)
              ELSE OfXY(x, WithSign(Only(y.roots), signY)), trusted)
CurvePointFromXAndSignY_subgroup(x, signY, trusted, root) ==
  Trusted(InSubgroupOnly(CurvePointFromXAndSignY_full(x, signY, trusted, root), trusted), trusted)

CurvePointFromYAndSignX_full(y, signX, trusted, root) ==
  LET x == recoverXFromYAffine(y, root)
  IN  Trusted(CASE signX = 0 -> IF y \in {1, FieldPrime - 1} THEN OfXY(0, y) ELSE Failed("ErrInvalidZeroSignX")
                [] signX \notin {0, 1, -1} -> Failed("ErrInvalidSign")
                [] signX \in {1, -1} -> IF x.err # "none" THEN Failed(x.err)
                                        ELSE OfXY(WithSign(Only(x.roots), signX), y), trusted)
CurvePointFromYAndSignX_subgroup(y, signX, trusted, root) ==
  Trusted(InSubgroupOnly(CurvePointFromYAndSignX_full(y, signX, trusted, root), trusted), trusted)

CurvePointFromXTimesSignY_subgroup(xSignY, trusted, root) ==
  LET y == recoverYFromXAffine(xSignY, ~trusted, root)
  IN  Trusted(IF y.err # "none" THEN Failed(y.err) ELSE OfXY(xSignY, WithSign(Only(y.roots), 1)), trusted)

CurvePointFromXYTimesSignY_subgroup(xSignY, ySignY, trusted) ==
  IF trusted THEN OfXY(xSignY, ySignY)
  ELSE IF Sign(ySignY) <= 0 THEN Failed("ErrWrongSignY")
  ELSE IF mod(1 + 5 * Square(xSignY) - Square(ySignY) + mod(Square(mod(xSignY * ySignY))) * D) # 0 THEN Failed("ErrNotOnCurve")
  ELSE IF Jacobi(mod(1 + 5 * Square(xSignY))) < 0 THEN Failed("ErrNotInSubgroup")
  ELSE OfXY(xSignY, ySignY)

Recover(fn, a, b, trusted, root) ==
  CASE fn = "XYAffine_full" -> CurvePointFromXYAffine_full(a, b, trusted)
    [] fn = "XYAffine_subgroup" -> CurvePointFromXYAffine_subgroup(a, b, trusted)
    [] fn = "XAndSignY_full" -> CurvePointFromXAndSignY_full(a, b, trusted, root)
    [] fn = "XAndSignY_subgroup" -> CurvePointFromXAndSignY_subgroup(a, b, trusted, root)
    [] fn = "YAndSignX_full" -> CurvePointFromYAndSignX_full(a, b, trusted, root)
    [] fn = "YAndSignX_subgroup" -> CurvePointFromYAndSignX_subgroup(a, b, trusted, root)
    [] fn = "XTimesSignY_subgroup" -> CurvePointFromXTimesSignY_subgroup(a, trusted, root)
    [] fn = "XYTimesSignY_subgroup" -> CurvePointFromXYTimesSignY_subgroup(a, b, trusted)

\* Which affine points a request describes.
Described(fn, a, b, s) ==
  LET x == AffineCoordinates[s][1]
      y == AffineCoordinates[s][2]
  IN  CASE fn \in {"XYAffine_full", "XYAffine_subgroup"} -> x = a /\ y = b
        [] fn \in {"XAndSignY_full", "XAndSignY_subgroup"} -> x = a /\ Sign(y) = b
        [] fn \in {"YAndSignX_full", "YAndSignX_subgroup"} ->
             y = a /\ (Sign(x) = b \/ (x = 0 /\ b \in {-1, 0, 1}))
        [] fn = "XTimesSignY_subgroup" -> mod(x * Sign(y)) = a
        [] fn = "XYTimesSignY_subgroup" -> mod(x * Sign(y)) = a /\ mod(y * Sign(y)) = b

PrimeOrder(s) == ModuloA(s) = s
ForSubgroup(fn) == fn \notin {"XYAffine_full", "XAndSignY_full", "YAndSignX_full"}
Meant(r) ==
  {s \in DOMAIN AffineCoordinates : Described(r.fn, r.a, r.b, s) /\ (ForSubgroup(r.fn) => PrimeOrder(s))}

RequestOf(fn, a, b, trusted, root) == [fn |-> fn, a |-> a, b |-> b, trusted |-> trusted, root |-> root]
Unanswered == Failed("unanswered")

RecoveryInit ==
  /\ recovered = Unanswered
  /\ \E trusted \in BOOLEAN, root \in {1, -1} :
       \/ \E fn \in {"XYAffine_full", "XYAffine_subgroup", "XYTimesSignY_subgroup"}, x \in Xs, y \in Ys :
            request = RequestOf(fn, x, y, trusted, root)
       \/ \E fn \in {"XAndSignY_full", "XAndSignY_subgroup", "YAndSignX_full", "YAndSignX_subgroup"},
             a \in Fe, sign \in Signs :
            request = RequestOf(fn, a, sign, trusted, root)
       \/ \E x \in Fe : request = RequestOf("XTimesSignY_subgroup", x, 0, trusted, root)

\* Only callers that know it to describe a point ask not to check the input.
RecoveryNext ==
  /\ recovered = Unanswered
  /\ request.trusted => Meant(request) # {}
  /\ recovered' = Recover(request.fn, request.a, request.b, request.trusted, request.root)
  /\ UNCHANGED request

----------------------------------------------------------------------------
(* Properties.                                                             *)

\* The point is recovered exactly if one is described, and it is that point
\* (for subgroup types modulo A), whichever square root the field gives and
\* whether the caller is trusted or the input is checked.  Nothing else is
\* accepted, the error says whether a point outside the subgroup is meant,
\* and what is returned with an error is a NaP.
RecoveredExactly ==
  recovered # Unanswered =>
    LET meant == Meant(request)
        value == Element(WithZ(recovered.c))
        error == recovered.err
    IN  /\ error = "none" => \E s \in meant :
                               meant = {s} /\ value \in {s, IF ForSubgroup(request.fn) THEN Plus(s, A) ELSE s}
        /\ error # "none" => meant = {} /\ value = NaP
        /\ error \in {"ErrNotInSubgroup", "ErrXNotInSubgroup"} <=>
             /\ meant = {} /\ error # "ErrWrongSignY"
             /\ \E s \in DOMAIN AffineCoordinates : Described(request.fn, request.a, request.b, s)
        /\ error # "panic"
================================================================================
