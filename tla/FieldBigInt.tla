----------------------------- MODULE FieldBigInt -----------------------------
(***************************************************************************)
(* What a field element promises: type bsFieldElement_BigInt, the          *)
(* reference implementation of the interface of field elements, computes   *)
(* with integers in 0..BaseFieldSize-1 and reduces after every operation.  *)
(***************************************************************************)
EXTENDS Integers

CONSTANT BaseFieldSize

SetBigInt(n) == n % BaseFieldSize

Add(x, y) == SetBigInt(x + y)
Sub(x, y) == SetBigInt(x - y)
Mul(x, y) == SetBigInt(x * y)
Neg(x) == SetBigInt(-x)
Double(x) == Add(x, x)
Square(x) == Mul(x, x)
MulFive(x) == SetBigInt(5 * x)

\* Inv and Divide panic with ErrDivisionByZero for 0.
Inv(x) == CHOOSE y \in 0..BaseFieldSize-1 : (x * y) % BaseFieldSize = 1
Divide(x, y) == Mul(x, Inv(y))

SetInt64(n) == IF n >= 0 THEN n ELSE Neg(-n)

\* The sign of the representative of least absolute value.
Sign(x) == IF x = 0 THEN 0 ELSE IF x < (BaseFieldSize + 1) \div 2 THEN 1 ELSE -1

\* Whether the square root exists; Jacobi is the Jacobi symbol of big.Int.
Squares == {(r * r) % BaseFieldSize : r \in 1..BaseFieldSize \div 2}
SquareRootExists(x) == x = 0 \/ x \in Squares
Jacobi(x) == IF x = 0 THEN 0 ELSE IF x \in Squares THEN 1 ELSE -1

\* Conversions that fail when the value does not fit; word is 2^64.
ToUint64Fails(x, word) == x >= word
ToInt64(x) == IF Sign(x) >= 0 THEN x ELSE -Neg(x)
ToInt64Fails(x, word) == ToInt64(x) \notin -(word \div 2)..(word \div 2)-1

Exp(x, e) ==
  LET power[i \in 0..e] == IF i = 0 THEN SetBigInt(1) ELSE Mul(power[i-1], x)
  IN  power[e]
=============================================================================
