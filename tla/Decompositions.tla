---------------------------- MODULE Decompositions ----------------------------
(***************************************************************************)
(* Exponents as sums of odd digits times powers of two.  A step is one     *)
(* pass of a loop.                                                         *)
(***************************************************************************)
EXTENDS Residues

CONSTANTS WindowInputs,    \* the Uint256s that are decomposed
          inputBitLen      \* of a glvExponent: 128

ASSUME WindowInputsAssumption == WindowInputs \subseteq Uints

ASSUME inputBitLenAssumption == inputBitLen \in Nat \ {0}

\* What the definition of exponentiation says of the powers of 2 that the
\* positions of digits need.  (The provers do not know the definition.)
ASSUME DigitPowersAssumption ==
  /\ \A n \in 0..5*WordBits-1 : 2^(n + 1) = 2 * 2^n
  /\ \A n \in 0..2*inputBitLen-1 : 2^(n + 1) = 2 * 2^n

-----------------------------------------------------------------------------
(* SlidingWindowDecomposition of uint256.go: the windows are read off the  *)
(* lowest word, z0, and the number itself, zCopy, is shifted only when the *)
(* word is used up.                                                        *)

VARIABLES number, windowsize, zCopy, z0, L, currentPos, decomposition, windowPc

windowVars == <<number, windowsize, zCopy, z0, L, currentPos, decomposition, windowPc>>

WindowInit ==
  /\ number = 0 /\ windowsize = 1 /\ zCopy = 0 /\ z0 = 0 /\ L = 0 /\ currentPos = 0
  /\ decomposition = <<>> /\ windowPc = "idle"

\* Window sizes of 0 and of a whole word panic.
WindowStart ==
  /\ windowPc = "idle"
  /\ number' \in WindowInputs /\ windowsize' \in 1..WordBits-1
  /\ zCopy' = number' /\ windowPc' = "word"
  /\ UNCHANGED <<z0, L, currentPos, decomposition>>

\* The lowest word of zCopy: its trailing zeros are skipped.
ReadWord ==
  LET zeros == TrailingZeros64(zCopy % W)
  IN  /\ windowPc = "word"
      /\ \/ /\ zCopy = 0
            /\ windowPc' = "decomposed"
            /\ UNCHANGED <<zCopy, z0, L, currentPos>>
         \/ /\ zCopy # 0 /\ zeros = WordBits
            /\ zCopy' = zCopy \div W /\ currentPos' = currentPos + WordBits
            /\ UNCHANGED <<z0, L, windowPc>>
         \/ /\ zeros # WordBits
            /\ L' = zeros /\ currentPos' = currentPos + zeros
            /\ z0' = (zCopy % W) \div 2^zeros
            /\ windowPc' = "windows" /\ UNCHANGED zCopy
      /\ UNCHANGED <<number, windowsize, decomposition>>

\* An entry is read off while the word has a whole window left; then the
\* window and the zeros that follow it are skipped.  When z0 is used up, only
\* the window is: the zeros above it are still to be read in zCopy.
ReadWindow ==
  LET rest == z0 - (z0 % 2^windowsize)
      zeroBits == TrailingZeros64(rest)
      exhausted == zeroBits + L > WordBits
      skip == IF exhausted THEN windowsize ELSE zeroBits
  IN  /\ windowPc = "windows" /\ L <= WordBits - windowsize
      /\ decomposition' =
           <<[exp |-> z0 % 2^windowsize, pos |-> currentPos]>> \o decomposition
      /\ L' = L + skip /\ currentPos' = currentPos + skip
      /\ IF exhausted THEN zCopy' = zCopy \div 2^(L') /\ windowPc' = "word" /\ UNCHANGED z0
         ELSE z0' = rest \div 2^zeroBits /\ UNCHANGED <<zCopy, windowPc>>
      /\ UNCHANGED <<number, windowsize>>

CommitShift ==
  /\ windowPc = "windows" /\ L > WordBits - windowsize
  /\ zCopy' = zCopy \div 2^L /\ windowPc' = "word"
  /\ UNCHANGED <<number, windowsize, z0, L, currentPos, decomposition>>

WindowReturn ==
  /\ windowPc = "decomposed"
  /\ number' = 0 /\ windowsize' = 1 /\ z0' = 0 /\ L' = 0 /\ currentPos' = 0
  /\ decomposition' = <<>> /\ windowPc' = "idle" /\ UNCHANGED zCopy

WindowLoop == ReadWord \/ ReadWindow \/ CommitShift

\* The slice has a place for each window of the bits of a Uint256; entries
\* are filled in from its end.
MAXSIZE == (windowsize + 4 * WordBits - 1) \div windowsize

\* modularExponentiationSlidingWindowMontgomery_fa: the exponent of base in
\* acc after the entries of d, each a look-up among the odd powers below
\* 2^windowsize and as many squarings as the positions differ.
ExponentOf(d) ==
  LET n == Len(d)
      acc[i \in 1..n] == IF i = 1 THEN d[1].exp
                         ELSE acc[i-1] * 2^(d[i-1].pos - d[i].pos) + d[i].exp
  IN  IF n = 0 THEN 0 ELSE acc[n] * 2^(d[n].pos)

----------------------------------------------------------------------------

\* The documented properties of the decomposition: it sums up to the number,
\* its exponents are odd and below 2^windowsize, its positions decrease (by a
\* window at least), and it never outgrows the slice allocated for it; so
\* exponentiation with it computes the power, with positive numbers of
\* squarings.
DecompositionExact ==
  /\ Len(decomposition) <= MAXSIZE
  /\ \A i \in DOMAIN decomposition :
       decomposition[i].exp % 2 = 1 /\ decomposition[i].exp < 2^windowsize
  /\ \A i \in 1..Len(decomposition)-1 :
       decomposition[i].pos - decomposition[i+1].pos >= windowsize
  /\ windowPc = "decomposed" => ExponentOf(decomposition) = number

-----------------------------------------------------------------------------
(* decomposeUnalignedSignedAdic of package exponents: a glvExponent, which *)
(* is a sign and an absolute value of 128 bits, is written with signed     *)
(* digits.                                                                 *)

VARIABLES adicInput,       \* [value, sign], a glvExponent
          maxbits,
          position,        \* i
          adicCarry,
          digits,          \* of records [position, coeff, sign]
          adicPc

adicVars == <<adicInput, maxbits, position, adicCarry, digits, adicPc>>

\* For 0, any sign may be stored.
glvExponent == [value : 0..2^inputBitLen-1, sign : {-1, 1}] \cup [value : {0}, sign : {0}]
Sign(x) == IF x.value = 0 THEN 0 ELSE x.sign

\* Bits from 128 on are 0.
Bit(x, k) == (x.value \div 2^k) % 2
getBitRange(x, low, high) == (x.value \div 2^low) % 2^(high - low)

AdicInit ==
  /\ adicInput = [value |-> 0, sign |-> 0] /\ maxbits = 1
  /\ position = 0 /\ adicCarry = 0 /\ digits = <<>> /\ adicPc = "idle"

AdicStart ==
  /\ adicPc = "idle"
  /\ adicInput' \in glvExponent /\ maxbits' \in 1..inputBitLen-1
  /\ adicPc' = "scan"
  /\ UNCHANGED <<position, adicCarry, digits>>

Digit(c, s) == [position |-> position, coeff |-> c, sign |-> s]

SkipBit ==
  /\ adicPc = "scan" /\ position < inputBitLen
  /\ Bit(adicInput, position) = adicCarry
  /\ position' = position + 1
  /\ UNCHANGED <<adicInput, maxbits, adicCarry, digits, adicPc>>

\* The digit is negative, and a carry is left, if the bit after it is set.
\* That bit is skipped with it.
TakeDigit ==
  LET v == getBitRange(adicInput, position, position + maxbits) + adicCarry
      next == Bit(adicInput, position + maxbits)
  IN  /\ adicPc = "scan" /\ position < inputBitLen
      /\ Bit(adicInput, position) # adicCarry
      /\ adicCarry' = next
      /\ digits' = Append(digits, IF next = 1 THEN Digit(2^maxbits - v, -Sign(adicInput))
                                              ELSE Digit(v, Sign(adicInput)))
      /\ position' = position + maxbits + 1
      /\ UNCHANGED <<adicInput, maxbits, adicPc>>

(* Mutant: the carry out of the last bit is lost. *)
LastCarryMutant ==
  /\ adicPc = "scan" /\ position >= inputBitLen
  /\ adicPc' = "returned"
  /\ UNCHANGED <<adicInput, maxbits, position, adicCarry, digits>>

\* At the end, a carry becomes a digit of its own.
LastCarry ==
  /\ adicPc = "scan" /\ position >= inputBitLen
  /\ digits' = IF adicCarry = 1 THEN Append(digits, Digit(1, Sign(adicInput))) ELSE digits
  /\ adicPc' = "returned"
  /\ UNCHANGED <<adicInput, maxbits, position, adicCarry>>

AdicReturn ==
  /\ adicPc = "returned"
  /\ adicInput' = [value |-> 0, sign |-> 0] /\ maxbits' = 1
  /\ position' = 0 /\ adicCarry' = 0 /\ digits' = <<>> /\ adicPc' = "idle"

AdicLoop == SkipBit \/ TakeDigit \/ LastCarry

----------------------------------------------------------------------------

SumOf(d) ==
  LET sum[k \in 0..Len(d)] ==
        IF k = 0 THEN 0 ELSE sum[k-1] + d[k].sign * d[k].coeff * 2^(d[k].position)
  IN  sum[Len(d)]

\* The digits and the carry stand for the bits scanned so far, at every pass
\* of the loop; at its end, the digits for the input.  They are odd and below
\* 2^maxbits, signed, in ascending positions that leave room for each, and no
\* more than the capacity that is allocated for them.
AdicExact ==
  /\ adicPc = "scan" =>
       SumOf(digits) + Sign(adicInput) * adicCarry * 2^position
         = Sign(adicInput) * (adicInput.value % 2^position)
  /\ adicPc = "returned" => SumOf(digits) = Sign(adicInput) * adicInput.value
  /\ \A k \in DOMAIN digits :
       digits[k].coeff % 2 = 1 /\ digits[k].coeff \in 1..2^maxbits-1 /\ digits[k].sign \in {-1, 1}
  /\ \A k \in 1..Len(digits)-1 : digits[k+1].position > digits[k].position + maxbits
  /\ Len(digits) <= 1 + inputBitLen \div maxbits

-----------------------------------------------------------------------------
(* Calls of both, one at a time or interleaved: they share nothing.        *)

DecompositionsInit == WindowInit /\ AdicInit

DecompositionsNext ==
  \/ (WindowStart \/ WindowLoop \/ WindowReturn) /\ UNCHANGED adicVars
  \/ (AdicStart \/ AdicLoop \/ AdicReturn) /\ UNCHANGED windowVars

DecompositionsSpec == DecompositionsInit /\ [][DecompositionsNext]_<<windowVars, adicVars>>

\* Both decompositions of exponents, into windows and into signed digits.
ExpansionsExact == DecompositionExact /\ AdicExact
=============================================================================
