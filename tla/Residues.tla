------------------------------ MODULE Residues ------------------------------
(***************************************************************************)
(* Arithmetic of Uint256 modulo BaseFieldSize (uint256_modular.go and      *)
(* uint256_montgomery.go).  Results need not be the least representative:  *)
(* the suffix of a method says in which range it expects its arguments and *)
(* leaves its result.                                                      *)
(*                                                                         *)
(* A Uint256 is its value here; module Uint256 has the words and the chains*)
(* of carries.  What a chain drops is kept: every sum, difference and      *)
(* product is taken modulo the width of its target.  Where the code looks  *)
(* at the highest word only, so does the model.                            *)
(***************************************************************************)
EXTENDS Uint256

CONSTANT BaseFieldSize             \* the modulus

\* The relations between the modulus and the word size the code relies on:
\* the modulus is between a third and a half of 2^256, and a number whose
\* highest word is at most one more than that of the modulus is in range c.
ASSUME BaseFieldSizeAssumption ==
  /\ BaseFieldSize \in Nat
  /\ BaseFieldSize % 2 = 1
  /\ 3 * BaseFieldSize > Two256 /\ 2 * BaseFieldSize < Two256
  /\ (BaseFieldSize \div W^3 + 2) * W^3 <= Two256 - BaseFieldSize

M == BaseFieldSize
Uints == 0..Two256-1
Top(z) == z \div W^3             \* z[3]
M_3 == Top(M)                    \* baseFieldSize_3

\* The precomputed constants: multiples of the modulus, its reciprocal (five
\* words), -1/M modulo a word and the powers of 2^256.
twiceBaseFieldSize == 2 * M
montgomeryBound == Two256 - M
reciprocal == (Two256 * Two256 - 1) \div M
mmu0 == M * (reciprocal \div Two256)
mmu1 == (M * (reciprocal \div Two256 + 1)) % Two256
negativeInverseModulus == CHOOSE n \in Word : (n * M + 1) % W = 0
twoTo256ModBaseField == Two256 % M
twoTo512ModBaseField == (twoTo256ModBaseField * twoTo256ModBaseField) % M

\* 1 / 2^256 modulo the modulus.
InverseOfTwo256 == CHOOSE r \in 0..M-1 : (r * twoTo256ModBaseField) % M = 1

\* Sums and differences of 256 bits.
Plus(x, y) == (x + y) % Two256
Minus(x, y) == (x - y) % Two256

----------------------------------------------------------------------------
(* How far a representation is reduced.                                    *)

ReducedRange(q) == CASE q = "a" -> Uints
              [] q = "b" -> 0..2*M-1
              [] q = "c" -> 0..Two256-M-1
              [] q = "f" -> 0..M-1

IsReduced(z, q) == CASE q = "a" -> TRUE
                     [] q = "b" -> z < twiceBaseFieldSize
                     [] q = "c" -> z < montgomeryBound
                     [] q = "f" -> z < M

----------------------------------------------------------------------------
(* Sums, differences and negatives.                                        *)

\* The final step of several methods: reduce once when the highest word
\* exceeds that of the modulus, whatever the other words are.
Reduce_ca(z) == IF Top(z) > M_3 THEN Minus(z, M) ELSE z

AddAndReduce_b_c(x, y) ==
  LET z == Plus(x, y)
  IN  Reduce_ca(IF x + y >= Two256 THEN Minus(z, twiceBaseFieldSize) ELSE z)

\* Without a carry nothing is reduced; with one, a multiple of the modulus
\* that cancels the carry is subtracted.
CancelCarry(t) == IF t >= mmu0 THEN Minus(t, mmu1) ELSE Minus(t, mmu0)
AddEqAndReduce_a(z, x) ==
  IF x + z < Two256 THEN z + x ELSE CancelCarry(Plus(z, x))
DoubleEqAndReduce_a(z) ==
  IF 2 * z < Two256 THEN 2 * z ELSE CancelCarry(Plus(z, z))

(* Mutant: after a borrow, the modulus is added once whatever the highest word is. *)
SubAndReduce_cMutant(x, y) == IF x >= y THEN x - y ELSE Plus(Minus(x, y), M)

SubAndReduce_c(x, y) ==
  LET z == Minus(x, y)
  IN  IF x >= y THEN z
      ELSE IF Top(z) > W - 1 - M_3 THEN Plus(z, M) ELSE Plus(z, twiceBaseFieldSize)

SubAndReduce_b(x, y) ==
  IF x >= y THEN x - y ELSE Plus(Minus(x, y), twiceBaseFieldSize)

SubEqAndReduce_a(z, x) ==
  LET t == Minus(z, x)
  IN  IF z >= x THEN t
      ELSE IF t + mmu0 < Two256 THEN Plus(t, mmu1) ELSE Plus(t, mmu0)

ComputeModularNegative_Weak_a(z) ==
  IF z <= mmu0 THEN mmu0 - z ELSE Minus(mmu1, z)

----------------------------------------------------------------------------
(* Reductions.                                                             *)

Reduce_fb_exact(z) == IF z < M THEN z ELSE Minus(z, M)
Reduce_fb_optimistic(z) ==
  IF Top(z) < M_3 THEN z
  ELSE IF z < M THEN Plus(Minus(z, M), M) ELSE z - M

\* The highest word selects the multiple; a borrow is corrected once.
Reduce_fa_optimistic(z) ==
  LET k == IF Top(z) < Top(twiceBaseFieldSize) THEN M ELSE twiceBaseFieldSize
  IN  IF Top(z) < M_3 THEN z
      ELSE IF z < k THEN Plus(Minus(z, k), M) ELSE z - k

Reduce_fa_loop(z) ==
  LET reduce[y \in Uints] ==
        IF Top(y) < M_3 THEN y
        ELSE IF y < M THEN Plus(Minus(y, M), M) ELSE reduce[y - M]
  IN  reduce[z]

\* One word of the quotient, then as many subtractions as are needed.
Reduce_fa_barret(z) ==
  LET q3 == (Top(z) * (reciprocal \div Two256)) \div W
      subtract[r \in 0..W^5-1] == IF r < M THEN r ELSE subtract[r - M]
  IN  subtract[(z - q3 * M) % W^5] % Two256

\* Barrett reduction: the product of the high words x[3..7] and the
\* reciprocal without the lowest partial products, of some only the high word;
\* then at most one addition and two subtractions of the modulus.
BarrettQuotient(x) ==
  LET xw == ToWords(x \div W^3, 5)
      re == ToWords(reciprocal, 5)
      part(a, b) == IF a + b >= 4 THEN xw[a] * re[b] * W^(a + b - 4)
                    ELSE IF a + b = 3 THEN (xw[a] * re[b]) \div W ELSE 0
      row(a) == part(a, 0) + part(a, 1) + part(a, 2) + part(a, 3) + part(a, 4)
  IN  ((row(0) + row(1) + row(2) + row(3) + row(4)) % W^6) \div W

ReduceUint512ToUint256_a(x) ==
  LET low == x % W^5
      r2 == (BarrettQuotient(x) * M) % W^5
      r == IF low >= r2 THEN low - r2 ELSE (low - r2 + M) % W^5
      once(t) == IF t >= M THEN t - M ELSE t
  IN  IF M_3 < W \div 3 THEN r % Two256 ELSE once(once(r)) % Two256

\* LongMul and LongSquare are exact (module Uint256).
MulAndReduce_a(x, y) == ReduceUint512ToUint256_a(x * y)

----------------------------------------------------------------------------
(* Montgomery multiplication: x*y / 2^256 modulo the modulus.              *)

\* Adds the multiple of the modulus that clears the lowest word of t and
\* shifts by a word.  The lowest words are not added: unless t[0] is 0, their
\* sum is 2^64, a carry of 1.  The result keeps four words.
MontgomeryStep(t) ==
  LET q == ((t % W) * negativeInverseModulus) % W
      carry == (q * (M % W)) \div W + 1
  IN  IF t % W = 0 THEN t \div W
      ELSE (t \div W + carry + q * (M \div W)) % Two256

montgomery_iteration(t, x, y) == (MontgomeryStep(t) + x * y) % W^5

mulMontgomery_Unrolled_c(x, y) ==
  LET yw == ToWords(y, 4)
      temp1 == montgomery_iteration(x * yw[0], x, yw[1])
      temp2 == montgomery_iteration(temp1, x, yw[2])
      temp3 == montgomery_iteration(temp2, x, yw[3])
  IN  Reduce_ca(MontgomeryStep(temp3))

\* The older version: the four steps keep only four words and the lowest
\* word apart (add_mul_shift_64, montgomery_step_64).
mulMontgomerySlow_c(x, y) ==
  LET yw == ToWords(y, 4)
      add_mul_shift_64(t, w) == (t + x * w) % W^5
      step(s) == MontgomeryStep(s) % Two256
      s1 == add_mul_shift_64(step(x * yw[0]), yw[1])
      s2 == add_mul_shift_64(step(s1), yw[2])
      s3 == add_mul_shift_64(step(s2), yw[3])
  IN  Reduce_ca(step(s3))

FromMontgomeryRepresentation_fc(x) ==
  Reduce_fb_exact(MontgomeryStep(MontgomeryStep(MontgomeryStep(MontgomeryStep(x)))))

ToNonMontgomery_fc(z) ==
  LET step(t) == MontgomeryStep(t) % Two256
  IN  Reduce_fb_exact(Reduce_ca(step(step(step(step(z))))))

ConvertToMontgomeryRepresentation_c(x) ==
  mulMontgomery_Unrolled_c(x, twoTo512ModBaseField)

(* Mutant: the carry of the last sum is dropped. *)
MulEqFiveMutant(z) ==
  LET w == ToWords(z, 4)
      t == ToWords(twoTo256ModBaseField, 4)
      folded == [i \in 0..3 |->
                   ((IF i = 0 THEN 0 ELSE (5 * w[i-1]) \div W) + ((5 * w[3]) \div W) * t[i]
                    + IF i = 3 THEN ((5 * w[3]) \div W) \div 2 ELSE 0) % W]
  IN  Reduce_ca(ToInt(Add([i \in 0..3 |-> (5 * w[i]) % W], folded)))

\* Times 5 in place: the words are multiplied one by one and the overflow of
\* the highest is folded back as a multiple of 2^256 mod M, with a carry that
\* is worked out by hand: that sums of overflows stay below a word, except
\* overflow2 for overflow4 = 2, depends on the bits of the modulus.
MulEqFive(z) ==
  LET w == ToWords(z, 4)
      t == ToWords(twoTo256ModBaseField, 4)
      product == [i \in 0..3 |-> (5 * w[i]) % W]
      overflow == [i \in 1..4 |-> (5 * w[i-1]) \div W]
      folded == [i \in 0..3 |->
                   ((IF i = 0 THEN 0 ELSE overflow[i]) + overflow[4] * t[i]
                    + IF i = 3 THEN overflow[4] \div 2 ELSE 0) % W]
      sum == AddAndReturnCarry(product, folded)
  IN  Reduce_ca(ToInt(IF sum.carry = 1 THEN Add(sum.sum, t) ELSE sum.sum))
=============================================================================
