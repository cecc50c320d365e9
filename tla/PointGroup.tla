------------------------------ MODULE PointGroup ------------------------------
(***************************************************************************)
(* What variables of the types of curve points promise to a caller: they   *)
(* hold elements of the group of the curve, and calls compute in it.       *)
(*                                                                         *)
(* The group is Z/2q + Z/2: element <<m, e>> is m times a generator of the *)
(* cyclic subgroup plus e times the point E1 at infinity.  A = <<q, 0>> is *)
(* the affine point of order two; the prime-order subgroup has even m.     *)
(***************************************************************************)
EXTENDS Integers

CONSTANTS q,               \* the order of the prime-order subgroup
          Eigenvalue       \* the endomorphism on it is a multiplication

VARIABLES value,           \* the element, or NaP, in every variable
          range,           \* what its type can hold
          call             \* the last call and its answer

NaP == <<-1, -1>>
Neutral == <<0, 0>>
A == <<q, 0>>
E1 == <<0, 1>>
E2 == <<q, 1>>

Plus(s, t) == IF NaP \in {s, t} THEN NaP ELSE <<(s[1] + t[1]) % (2 * q), (s[2] + t[2]) % 2>>
Negative(s) == IF s = NaP THEN NaP ELSE <<(-s[1]) % (2 * q), s[2]>>

\* The endomorphism: Eigenvalue on the prime-order subgroup; A goes to 0 and
\* the points at infinity to A.  q + 1 is 1 modulo q and 0 modulo 2.
Endomorphic(s) ==
  IF s = NaP THEN NaP
  ELSE <<(((Eigenvalue * (q + 1)) % (2 * q)) * s[1] + q * s[2]) % (2 * q), 0>>

InSubgroup(s) == s # NaP /\ s[2] = 0 /\ s[1] % 2 = 0
CanHold(r, s) == CASE r = "subgroup" -> s = NaP \/ InSubgroup(s)
                   [] r = "finite" -> s \notin {E1, E2}
                   [] r = "curve" -> TRUE

----------------------------------------------------------------------------
(* The answers of a call, with the variables after it; v: before it.       *)

Outcome(answer, v) == [answer |-> answer, value |-> v]
Set(v, r, s) == {Outcome("done", [v EXCEPT ![r] = s])}

\* Assigns s to receiver r, or panics: a type for the subgroup only takes
\* operands of such types, and an affine type no point at infinity.
Assign(v, r, operands, s) ==
  IF (range[r] = "subgroup" /\ \E x \in operands : range[x] # "subgroup") \/ ~CanHold(range[r], s)
  THEN {Outcome("panic", v)}
  ELSE Set(v, r, s)

\* A copy of a NaP may be made whatever its type.
SetFrom(v, r, x) == Assign(v, r, {x}, v[x]) \cup (IF v[x] = NaP THEN Set(v, r, NaP) ELSE {})

\* Checks that x is in the subgroup, whatever its type.  For a NaP the
\* receiver may also become one.
SetFromSubgroupPoint(v, r, x) ==
  IF InSubgroup(v[x]) THEN {Outcome("true", [v EXCEPT ![r] = v[x]])}
  ELSE {Outcome("false", v)} \cup
       (IF v[x] = NaP THEN {Outcome("false", [v EXCEPT ![r] = NaP])} ELSE {})

IsEqual(s, t) == IF s # NaP /\ s = t THEN "true" ELSE "false"

Outcomes(v, op, r, x, y) ==
  CASE op = "Add" -> Assign(v, r, {x, y}, Plus(v[x], v[y]))
    [] op = "Sub" -> Assign(v, r, {x, y}, Plus(v[x], Negative(v[y])))
    [] op = "Neg" -> Assign(v, r, {x}, Negative(v[x]))
    [] op = "Double" -> Set(v, r, Plus(v[x], v[x]))
    [] op = "Endo" -> Assign(v, r, {x}, Endomorphic(v[x]))
    [] op = "SetFrom" -> SetFrom(v, r, x)
    [] op = "SetFromSubgroupPoint" -> SetFromSubgroupPoint(v, r, x)
    [] op = "SetNeutral" -> Set(v, r, Neutral)
    [] op = "SetAffineTwoTorsion" -> Set(v, r, A)
    [] op = "SetE1" -> Set(v, r, E1)
    [] op = "SetE2" -> Set(v, r, E2)
    [] op = "torsionAddA" -> Assign(v, r, {}, Plus(v[r], A))
    [] op = "torsionAddE1" -> Assign(v, r, {}, Plus(v[r], E1))
    [] op = "sample" -> UNION {Set(v, r, s) : s \in {s \in (0..2*q-1) \X {0, 1} : CanHold(range[r], s)}}
    [] op = "IsEqual" -> {Outcome(IsEqual(v[r], v[x]), v)}
    [] op \in {"coordinates", "rerandomize"} -> {Outcome("done", v)}
    [] op \in {"affine coordinates", "decaf affine coordinates"} ->
         {Outcome(IF v[r] \in {E1, E2} THEN "panic" ELSE "done", v)}
    [] op = "MapToFieldElement" -> {Outcome(IF v[r] \in {NaP, E1, E2} THEN "panic" ELSE "done", v)}
    [] op \in {"NormalizeForZ", "NormalizeForY"} ->
         {Outcome(IF v[r] \in {NaP, E1, E2} THEN "false" ELSE "true", v)}
    [] OTHER -> {}

Next ==
  /\ UNCHANGED range
  /\ Outcome(call'.answer, value') \in Outcomes(value, call'.op, call'.r, call'.x, call'.y)

\* Points are changed by calls on them only, and hold only what they can.
Init == \A n \in DOMAIN value : CanHold(range[n], value[n])
Spec == Init /\ [][Next]_<<value, range, call>>
=============================================================================
