--------------------------- MODULE ResidueRegister ---------------------------
(***************************************************************************)
(* A variable of type Uint256 under any sequence of the calls of module    *)
(* Residues, each made where the documented ranges allow it: register is   *)
(* its value; residue and quality are what the documentation of the calls  *)
(* made so far promises of it, the residue class it stands for and its     *)
(* range.                                                                  *)
(***************************************************************************)
EXTENDS Residues

CONSTANTS Operands,        \* the second arguments of the calls
          Wide             \* the 512-bit integers given to the reduction

ASSUME OperandsAssumption ==
  /\ Operands \subseteq 0..Two256-1
  /\ Wide \subseteq 0..Two256 * Two256 - 1

VARIABLES register, residue, quality

residueVars == <<register, residue, quality>>

ResiduesInit ==
  /\ register \in Operands
  /\ residue = register % M
  /\ quality = "a"

\* The result of a call, the residue it documents and its range.
Returns(value, class, q) == register' = value /\ residue' = class % M /\ quality' = q

\* A call may be made when the ranges it requires hold.
Promised(q) == \/ quality = q
               \/ quality = "f" /\ q \in {"b", "c", "a"}
               \/ quality = "c" /\ q \in {"b", "a"}
               \/ quality = "b" /\ q = "a"

AddAndReduce(q, x) ==
  Promised(q) /\ x \in ReducedRange(q) /\ Returns(AddAndReduce_b_c(register, x), residue + x, q)
SubFrom_c(x) ==
  Promised("c") /\ x \in ReducedRange("c") /\ Returns(SubAndReduce_c(x, register), x - residue, "c")
SubFrom_b(x) ==
  Promised("b") /\ x \in ReducedRange("b") /\ Returns(SubAndReduce_b(x, register), x - residue, "b")
AddEq(x) == Returns(AddEqAndReduce_a(register, x), residue + x, "a")
SubEq(x) == Returns(SubEqAndReduce_a(register, x), residue - x, "a")
MulEq(x) == Returns(MulAndReduce_a(register, x), residue * x, "a")
DoubleEq == Returns(DoubleEqAndReduce_a(register), 2 * residue, "a")
Negate == Returns(ComputeModularNegative_Weak_a(register), -residue, "a")

ReduceToFull ==
  \/ Returns(Reduce_fa_optimistic(register), residue, "f")
  \/ Returns(Reduce_fa_loop(register), residue, "f")
  \/ Returns(Reduce_fa_barret(register), residue, "f")
  \/ Promised("b") /\ Returns(Reduce_fb_exact(register), residue, "f")
  \/ Promised("b") /\ Returns(Reduce_fb_optimistic(register), residue, "f")
ReduceToCarryFree == Returns(Reduce_ca(register), residue, "c")
\* The wide integers with their reductions, none of which depends on the
\* state: TLC computes the pairs once.
ReducedWide == {<<x, ReduceUint512ToUint256_a(x)>> : x \in Wide}
ReduceWide(p) == Returns(p[2], p[1], "a")

MulMontgomery(x) ==
  /\ Promised("c") /\ x \in ReducedRange("c")
  /\ \/ Returns(mulMontgomery_Unrolled_c(register, x), residue * ((x * InverseOfTwo256) % M), "c")
     \/ Returns(mulMontgomerySlow_c(register, x), residue * ((x * InverseOfTwo256) % M), "c")
FromMontgomery ==
  /\ Promised("c")
  /\ \/ Returns(FromMontgomeryRepresentation_fc(register), residue * InverseOfTwo256, "f")
     \/ Returns(ToNonMontgomery_fc(register), residue * InverseOfTwo256, "f")
ToMontgomery ==
  Promised("c") /\ Returns(ConvertToMontgomeryRepresentation_c(register), residue * twoTo256ModBaseField, "c")

ResiduesNext ==
  \/ \E x \in Operands : \/ \E q \in {"b", "c"} : AddAndReduce(q, x)
                      \/ SubFrom_c(x) \/ SubFrom_b(x)
                      \/ AddEq(x) \/ SubEq(x) \/ MulEq(x) \/ MulMontgomery(x)
  \/ DoubleEq \/ Negate \/ ReduceToFull \/ ReduceToCarryFree
  \/ \E p \in ReducedWide : ReduceWide(p)
  \/ FromMontgomery \/ ToMontgomery

ResiduesSpec == ResiduesInit /\ [][ResiduesNext]_residueVars

----------------------------------------------------------------------------
(* Properties.                                                             *)

\* Whatever calls were made, in any order and with any arguments of the
\* documented ranges, the words still stand for the documented residue: no
\* carry or borrow is lost and none is corrected twice; and they lie in the
\* range promised, so that the next call may rely on it.
ResidueTracked ==
  register % M = residue /\ register \in ReducedRange(quality) /\ IsReduced(register, quality)

\* The chains of carries, borrows and partial products of module Uint256
\* compute the integer results the definitions above take them for, whatever
\* the words are: no carry is dropped that matters, a chain that is cut off
\* at its last word never loses one.
ArithmeticExact ==
  quality = "a" =>
    LET zw == ToWords(register, 4)
    IN  /\ \A x \in Operands :
             LET xw == ToWords(x, 4)
                 sum == AddAndReturnCarry(zw, xw)
                 difference == SubAndReturnBorrow(zw, xw)
             IN  /\ ToInt(sum.sum) + sum.carry * Two256 = register + x
                 /\ ToInt(difference.difference) - difference.borrow * Two256 = register - x
                 /\ Cmp(zw, xw) = IF register < x THEN -1 ELSE IF register = x THEN 0 ELSE 1
                 /\ ToInt(LongMul(zw, xw)) = register * x
                 /\ ToInt(Mul(zw, xw)) = (register * x) % Two256
                 /\ ToInt(LongMulUint64(zw, xw[0])) = register * xw[0]
        /\ ToInt(LongSquare(zw)) = register * register
        /\ ToInt(Increment(zw)) = Plus(register, 1) /\ ToInt(Decrement(zw)) = Minus(register, 1)
        /\ IsZero(zw) <=> register = 0
        /\ IsOne(zw) <=> register = 1
        /\ \A n \in 0..WordBits : ToInt(ShiftRightEq(zw, n)) = register \div 2^n
        /\ ToInt(ShiftRightEq_64(zw)) = register \div W
        /\ ToInt(ShiftLeftEq_64(zw)) = (register * W) % Two256
        /\ register < 2^BitLen(zw) /\ (register > 0 => register >= 2^(BitLen(zw) - 1))
=============================================================================
