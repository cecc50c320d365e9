--------------------------- MODULE CurvePointProofs ---------------------------
(***************************************************************************)
(* Batch normalization gives what normalizing each point alone gives, for  *)
(* every curve of the form and slices of every length.  The points for     *)
(* which it has a case of its own are those with a coordinate that is 0;   *)
(* that there are no others than the code expects follows from the         *)
(* formulas, since a and d are not squares and -1 is one.                  *)
(*                                                                         *)
(* NaPs are reported exactly as long as one goroutine watches at a time,   *)
(* however many calls it nests and whatever panics on the way.  (With two  *)
(* goroutines the run of NaPsNotMissed finds a NaP that is missed.)        *)
(***************************************************************************)
EXTENDS NaPHandler, BatchNormalization, SequenceTheorems, WellFoundedInduction, TLAPS

-----------------------------------------------------------------------------
(* The field.                                                              *)

p == FieldPrime

(* Multiples of the prime.                                                  *)
Null(n) == \E k \in Int : n = p * k

LEMMA FieldFacts ==
  /\ p \in Nat /\ p > 5
  /\ Fe = 0 .. p - 1
  /\ D \in Fe \ {0} /\ squareRootDbyA \in Fe \ {0}
BY CurveAssumption DEF p, D, Fe

LEMMA ResidueIs ==
  ASSUME NEW n \in Int
  PROVE  mod(n) \in Fe /\ Null(n - mod(n))
<1>1. p \in Nat \ {0}
  BY FieldFacts
<1>2. mod(n) = n % p
  BY DEF mod, p
<1>3. Fe = 0 .. p - 1
  BY FieldFacts
<1> HIDE DEF p, Fe
<1>4. n % p \in 0 .. p - 1 /\ n \div p \in Int /\ n = p * (n \div p) + (n % p)
  BY <1>1
<1> DEFINE k == n \div p
           r == n % p
<1> HIDE DEF k, r
<1>5. k \in Int /\ r \in Int /\ n = p * k + r /\ p * k \in Int
  BY <1>1, <1>4 DEF k, r
<1>6. n - r = p * k
  BY <1>5
<1>7. QED
  BY <1>2, <1>3, <1>4, <1>5, <1>6 DEF Null, r

LEMMA NullSums ==
  ASSUME NEW a \in Int, NEW b \in Int, Null(a), Null(b), NEW c \in Int
  PROVE  Null(a + b) /\ Null(a - b) /\ Null(c * a) /\ Null(-a)
<1>1. p \in Nat
  BY FieldFacts
<1> HIDE DEF p
<1>2. PICK j \in Int, k \in Int : a = p * j /\ b = p * k
  BY DEF Null
<1>3. j + k \in Int /\ j - k \in Int /\ c * j \in Int /\ -j \in Int
  OBVIOUS
<1>4. /\ p * (j + k) = p * j + p * k /\ p * (j - k) = p * j - p * k
      /\ p * (c * j) = c * (p * j) /\ p * (-j) = -(p * j)
  BY <1>1
<1>5. a + b = p * (j + k) /\ a - b = p * (j - k) /\ c * a = p * (c * j) /\ -a = p * (-j)
  BY <1>2, <1>4
<1>6. QED
  BY <1>3, <1>5 DEF Null

LEMMA NullTimes ==
  ASSUME NEW a \in Int, Null(a), NEW c \in Int
  PROVE  Null(c * a) /\ c * a \in Int
BY NullSums

LEMMA NullElement ==
  ASSUME NEW a \in Int, Null(a), a < p, -a < p
  PROVE  a = 0
<1>1. p \in Nat \ {0}
  BY FieldFacts
<1> HIDE DEF p
<1>2. PICK k \in Int : a = p * k
  BY DEF Null
<1>3. ASSUME k >= 1 PROVE FALSE
  <2>1. p * k >= p
    BY <1>1, <1>3
  <2>2. QED
    BY <1>1, <1>2, <2>1
<1>4. ASSUME k <= -1 PROVE FALSE
  <2>1. -k >= 1 /\ -k \in Int
    BY <1>4
  <2>2. p * (-k) >= p
    BY <1>1, <2>1
  <2>3. p * (-k) = -(p * k) /\ p * k \in Int
    BY <1>1
  <2>4. QED
    BY <1>1, <1>2, <2>2, <2>3
<1>5. k = 0
  BY <1>3, <1>4
<1>6. QED
  BY <1>1, <1>2, <1>5

LEMMA ModEqual ==
  ASSUME NEW a \in Int, NEW b \in Int
  PROVE  mod(a) = mod(b) <=> Null(a - b)
<1> DEFINE r == mod(a)
           s == mod(b)
<1>1. /\ r \in Fe /\ s \in Fe /\ Null(a - r) /\ Null(b - s)
      /\ r \in Int /\ s \in Int /\ r - s < p /\ -(r - s) < p /\ p \in Nat
  <2>1. r \in Fe /\ s \in Fe /\ Null(a - r) /\ Null(b - s)
    BY ResidueIs
  <2>2. Fe = 0 .. p - 1 /\ p \in Nat
    BY FieldFacts
  <2> HIDE DEF r, s, p, Fe
  <2>3. QED
    BY <2>1, <2>2
<1> HIDE DEF r, s, p
<1>2. ASSUME r = s PROVE Null(a - b)
  <2>1. a - b = (a - r) - (b - s) /\ a - r \in Int /\ b - s \in Int
    BY <1>1, <1>2
  <2>2. Null((a - r) - (b - s))
    BY <1>1, <2>1, NullSums
  <2>3. QED
    BY <2>1, <2>2
<1>3. ASSUME Null(a - b) PROVE r = s
  <2>1. r - s = ((a - b) - (a - r)) + (b - s) /\ a - r \in Int /\ b - s \in Int /\ a - b \in Int
        /\ (a - b) - (a - r) \in Int /\ r - s \in Int
    BY <1>1
  <2>2. Null((a - b) - (a - r))
    BY <1>1, <1>3, <2>1, NullSums
  <2>3. Null(((a - b) - (a - r)) + (b - s))
    BY <1>1, <2>1, <2>2, NullSums
  <2>4. Null(r - s)
    BY <2>1, <2>3
  <2>5. r - s = 0
    BY <1>1, <2>1, <2>4, NullElement
  <2>6. QED
    BY <1>1, <2>5
<1>4. QED
  BY <1>2, <1>3 DEF r, s

LEMMA ElementIsResidue ==
  ASSUME NEW a \in Fe
  PROVE  mod(a) = a /\ a \in Int
<1>1. a \in 0 .. p - 1 /\ p \in Nat \ {0}
  BY FieldFacts
<1>2. mod(a) = a % p
  BY DEF mod, p
<1> HIDE DEF p
<1>3. a % p = a
  BY <1>1
<1>4. QED
  BY <1>1, <1>2, <1>3

LEMMA ModZero ==
  ASSUME NEW a \in Int
  PROVE  mod(a) = 0 <=> Null(a)
<1>1. 0 \in Fe
  <2>1. Fe = 0 .. p - 1 /\ p \in Nat /\ p > 5
    BY FieldFacts
  <2> HIDE DEF Fe, p
  <2>2. QED
    BY <2>1
<1>2. mod(0) = 0 /\ a - 0 = a
  BY <1>1, ElementIsResidue
<1>3. mod(a) = mod(0) <=> Null(a - 0)
  BY ModEqual
<1>4. QED
  BY <1>2, <1>3

LEMMA ListIs ==
  ASSUME NEW S, NEW n \in Nat, NEW s \in [1 .. n -> S]
  PROVE  List(s) = s
<1>1. s \in Seq(S)
  BY SeqDef
<1>2. QED
  BY <1>1, ConcatEmptySeq DEF List

LEMMA TablesAre ==
  /\ \A n \in Fe \ {0} : Inv(n) \in Fe /\ mod(n * Inv(n)) = 1
  /\ \A n \in Fe \ {0} : Jacobi(n) = IF n \in Squares THEN 1 ELSE -1
<1> DEFINE S == 1 .. p - 1
           inverses == [n \in S |-> CHOOSE i \in Fe : mod(n * i) = 1]
           symbols == [n \in S |-> IF n \in Squares THEN 1 ELSE -1]
<1>1. p - 1 \in Nat /\ Fe \ {0} = S
  <2>1. Fe = 0 .. p - 1 /\ p \in Nat /\ p > 5
    BY FieldFacts
  <2> HIDE DEF Fe, p
  <2>2. QED
    BY <2>1
<1>2. \A n \in S : \E i \in Fe : mod(n * i) = 1
  BY <1>1, CurveAssumption
<1> HIDE DEF S
<1>3. \A n \in S : inverses[n] \in Fe /\ mod(n * inverses[n]) = 1
  BY <1>2
<1>4. Inverses = List(inverses) /\ Symbols = List(symbols)
  BY DEF Inverses, Symbols, S, p
<1>5. Inverses = inverses
  <2>1. inverses \in [S -> Fe]
    BY <1>3
  <2> HIDE DEF inverses
  <2>2. QED
    BY <1>1, <1>4, <2>1, ListIs DEF S
<1>6. Symbols = symbols
  <2>1. symbols \in [S -> {1, -1}]
    OBVIOUS
  <2> HIDE DEF symbols
  <2>2. QED
    BY <1>1, <1>4, <2>1, ListIs DEF S
<1>7. \A n \in S : n # 0
  BY <1>1
<1>8. QED
  BY <1>1, <1>3, <1>5, <1>6, <1>7 DEF Inv, Jacobi

LEMMA InverseIs ==
  ASSUME NEW n \in Fe \ {0}
  PROVE  Inv(n) \in Fe /\ mod(n * Inv(n)) = 1 /\ Null(n * Inv(n) - 1)
<1>3. Inv(n) \in Fe /\ mod(n * Inv(n)) = 1
  BY TablesAre
<1>4. Null(n * Inv(n) - 1)
  <2>1. n \in Int /\ Inv(n) \in Int /\ 1 \in Fe
    <3>1. Fe = 0 .. p - 1 /\ p \in Nat /\ p > 5
      BY FieldFacts
    <3>2. n \in Int /\ Inv(n) \in Int
      BY <1>3, ElementIsResidue
    <3> HIDE DEF p, Fe
    <3>3. QED
      BY <3>1, <3>2
  <2>2. mod(1) = 1
    BY <2>1, ElementIsResidue
  <2>3. n * Inv(n) \in Int /\ 1 \in Int
    BY <2>1
  <2>4. QED
    BY <1>3, <2>2, <2>3, ModEqual
<1>5. QED
  BY <1>3, <1>4

(* Without divisors of zero.                                                *)
LEMMA NullProduct ==
  ASSUME NEW a \in Fe \ {0}, NEW b \in Int, Null(a * b)
  PROVE  Null(b)
<1> DEFINE i == Inv(a)
<1>1. i \in Int /\ a \in Int /\ Null(a * i - 1)
  BY InverseIs, ElementIsResidue
<1> HIDE DEF i
<1>2. a * b \in Int /\ a * i - 1 \in Int
  BY <1>1
<1>3. Null(i * (a * b)) /\ Null(b * (a * i - 1)) /\ i * (a * b) \in Int /\ b * (a * i - 1) \in Int
  BY <1>1, <1>2, NullTimes
<1>4. Null(i * (a * b) - b * (a * i - 1))
  BY <1>3, NullSums
<1>5. i * (a * b) - b * (a * i - 1) = b
  BY <1>1
<1>6. QED
  BY <1>4, <1>5

LEMMA SquareIs ==
  ASSUME NEW a \in Fe \ {0}, NEW w \in Int, Null(a - w * w)
  PROVE  a \in Squares
<1> DEFINE m == mod(w)
<1>1. m \in Fe /\ m \in Int /\ Null(w - m) /\ a \in Int
  BY ResidueIs, ElementIsResidue
<1> HIDE DEF m
<1>2. Null(a - m * m)
  <2>1. w - m \in Int /\ w + m \in Int /\ a - w * w \in Int
    BY <1>1
  <2>2. Null((w + m) * (w - m)) /\ (w + m) * (w - m) \in Int
    BY <1>1, <2>1, NullTimes
  <2>3. Null((a - w * w) + (w + m) * (w - m))
    BY <2>1, <2>2, NullSums
  <2>4. (a - w * w) + (w + m) * (w - m) = a - m * m
    BY <1>1
  <2>5. QED
    BY <2>3, <2>4
<1>3. mod(a) = mod(m * m)
  <2>1. m * m \in Int
    BY <1>1
  <2>2. QED
    BY <1>1, <1>2, <2>1, ModEqual
<1>4. a = mod(m * m)
  BY <1>3, ElementIsResidue
<1>5. m # 0
  <2>1. ASSUME m = 0 PROVE FALSE
    <3>1. a - m * m = a
      BY <1>1, <2>1
    <3>2. Null(a) /\ mod(a) = 0
      BY <1>1, <1>2, <3>1, ModZero
    <3>3. QED
      BY <3>2, ElementIsResidue
  <2>2. QED
    BY <2>1
<1>6. QED
  BY <1>1, <1>4, <1>5 DEF Squares

-----------------------------------------------------------------------------
(* Points at infinity.                                                     *)

XTW == [x : Fe, y : Fe, t : Fe, z : Fe]
R == squareRootDbyA

LEMMA ZeroAndOne == 0 \in Fe /\ 1 \in Fe /\ 5 \in Fe
<1>1. Fe = 0 .. p - 1 /\ p \in Nat /\ p > 5
  BY FieldFacts
<1> HIDE DEF Fe, p
<1>2. QED
  BY <1>1

LEMMA Parameters ==
  /\ D \in Int /\ R \in Int /\ D \in Fe \ {0} /\ R \in Fe \ {0} /\ 5 \in Fe \ {0}
  /\ Null(D + 5 * (R * R))
  /\ CurveParameterA \in Fe \ {0} /\ Null(CurveParameterA + 5)
  /\ CurveParameterA \notin Squares /\ D \notin Squares
  /\ \E i \in Int : Null(i * i + 1)
<1> DEFINE a == CurveParameterA
           rr == mod(R * R)
<1>1. /\ D \in Fe \ {0} /\ R \in Fe \ {0} /\ a \notin Squares /\ D \notin Squares /\ mod(-1) \in Squares
      /\ mod(rr * a) = D /\ a = mod(-5)
  BY CurveAssumption DEF R, D, CurveParameterA, Square
<1>2. D \in Int /\ R \in Int /\ 5 \in Fe \ {0}
  BY <1>1, ZeroAndOne, ElementIsResidue
<1>3. a \in Fe /\ Null(-5 - a) /\ a \in Int
  <2>1. -5 \in Int
    OBVIOUS
  <2>2. QED
    BY <1>1, <2>1, ResidueIs, ElementIsResidue
<1> HIDE DEF a, R, D, CurveParameterA
<1>4. Null(a + 5)
  <2>1. -5 - a \in Int
    BY <1>3
  <2>2. Null(-(-5 - a)) /\ -(-5 - a) = a + 5
    BY <1>3, <2>1, NullSums
  <2>3. QED
    BY <2>2
<1>5. a # 0
  <2>1. ASSUME a = 0 PROVE FALSE
    <3>1. Null(5) /\ 5 \in Int
      BY <1>4, <2>1
    <3>2. mod(5) = 0
      BY <3>1, ModZero
    <3>3. QED
      BY <3>2, <1>2, ElementIsResidue
  <2>2. QED
    BY <2>1
<1>6. Null(D + 5 * (R * R))
  <2>1. R * R \in Int
    BY <1>2
  <2>2. rr \in Int /\ Null(R * R - rr)
    BY <2>1, ResidueIs, ElementIsResidue
  <2> HIDE DEF rr
  <2>3. rr * a \in Int
    BY <1>3, <2>2
  <2>4. Null(rr * a - D)
    BY <1>1, <2>3, ResidueIs
  <2>5. R * R - rr \in Int /\ a + 5 \in Int /\ rr * a - D \in Int
    BY <1>2, <1>3, <2>1, <2>2, <2>3
  <2>6. /\ Null(rr * (a + 5)) /\ rr * (a + 5) \in Int
        /\ Null(5 * (R * R - rr)) /\ 5 * (R * R - rr) \in Int
    BY <1>4, <2>2, <2>5, NullTimes
  <2>7. Null(5 * (R * R - rr) + rr * (a + 5)) /\ 5 * (R * R - rr) + rr * (a + 5) \in Int
    BY <2>6, NullSums
  <2>8. Null((5 * (R * R - rr) + rr * (a + 5)) - (rr * a - D))
    BY <2>4, <2>5, <2>7, NullSums
  <2>9. (5 * (R * R - rr) + rr * (a + 5)) - (rr * a - D) = D + 5 * (R * R)
    BY <1>2, <1>3, <2>1, <2>2
  <2>10. QED
    BY <2>8, <2>9
<1>7. \E i \in Int : Null(i * i + 1)
  <2>1. PICK n \in Fe \ {0} : mod(-1) = mod(n * n)
    BY <1>1 DEF Squares
  <2>2. n \in Int
    BY ElementIsResidue
  <2>3. n * n \in Int /\ -1 \in Int
    BY <2>2
  <2>4. Null(-1 - n * n) /\ -1 - n * n \in Int
    <3> DEFINE u == -1
               w == n * n
    <3>1. u \in Int /\ w \in Int /\ mod(u) = mod(w)
      BY <2>1, <2>3
    <3> HIDE DEF u, w
    <3>2. Null(u - w) /\ u - w \in Int
      BY <3>1, ModEqual
    <3>3. QED
      BY <3>2 DEF u, w
  <2>5. Null(-(-1 - n * n)) /\ -(-1 - n * n) = n * n + 1
    BY <2>3, <2>4, NullSums
  <2>6. QED
    BY <2>2, <2>5
<1>8. QED
  BY <1>1, <1>2, <1>3, <1>4, <1>5, <1>6, <1>7 DEF a

LEMMA Coordinates ==
  ASSUME NEW c \in XTW
  PROVE  /\ c.x \in Fe /\ c.y \in Fe /\ c.t \in Fe /\ c.z \in Fe
         /\ c.x \in Int /\ c.y \in Int /\ c.t \in Int /\ c.z \in Int
<1>1. c.x \in Fe /\ c.y \in Fe /\ c.t \in Fe /\ c.z \in Fe
  BY DEF XTW
<1>2. QED
  BY <1>1, ElementIsResidue

LEMMA OnCurve ==
  ASSUME NEW c \in XTW, isPointOnCurve_xtw(c)
  PROVE  /\ ~(c.x = 0 /\ c.y = 0)
         /\ Null(c.x * c.y - c.t * c.z)
         /\ Null(D * (c.t * c.t) + c.z * c.z - c.y * c.y + 5 * (c.x * c.x))
<1> DEFINE x == c.x
           y == c.y
           t == c.t
           z == c.z
           tt == mod(t * t)
<1>1. x \in Int /\ y \in Int /\ t \in Int /\ z \in Int /\ D \in Int
  BY Coordinates, Parameters
<1>2. /\ ~(x = 0 /\ y = 0) /\ mod(x * y) = mod(t * z)
      /\ mod(tt * D + z * z - y * y + 5 * (x * x)) = 0
  BY DEF isPointOnCurve_xtw, IsNaP_xtw, Square
<1> HIDE DEF x, y, t, z, D
<1>3. x * y \in Int /\ t * z \in Int /\ t * t \in Int /\ z * z \in Int /\ y * y \in Int /\ x * x \in Int
  BY <1>1
<1>4. Null(x * y - t * z)
  BY <1>2, <1>3, ModEqual
<1>5. tt \in Int /\ Null(t * t - tt)
  BY <1>3, ResidueIs, ElementIsResidue
<1> HIDE DEF tt
<1>6. Null(tt * D + z * z - y * y + 5 * (x * x))
  <2>1. tt * D + z * z - y * y + 5 * (x * x) \in Int
    BY <1>1, <1>3, <1>5
  <2>2. QED
    BY <1>2, <2>1, ModZero
<1>7. Null(D * (t * t - tt)) /\ D * (t * t - tt) \in Int
  <2>1. t * t - tt \in Int
    BY <1>3, <1>5
  <2>2. QED
    BY <1>1, <1>5, <2>1, NullTimes
<1>8. Null(D * (t * t) + z * z - y * y + 5 * (x * x))
  <2> DEFINE e == tt * D + z * z - y * y + 5 * (x * x)
             f == D * (t * t - tt)
  <2>1. e \in Int /\ f \in Int
    BY <1>1, <1>3, <1>5
  <2>2. e + f = D * (t * t) + z * z - y * y + 5 * (x * x)
    BY <1>1, <1>3, <1>5
  <2>3. Null(e) /\ Null(f)
    BY <1>6, <1>7
  <2> HIDE DEF e, f
  <2>4. QED
    BY <2>1, <2>2, <2>3, NullSums
<1>9. QED
  BY <1>2, <1>4, <1>8 DEF x, y, t, z

(* A quotient of squares is a square.                                       *)
LEMMA Quotient ==
  ASSUME NEW a \in Fe \ {0}, NEW b \in Fe \ {0}, NEW n \in Int, Null(a * (b * b) - n * n)
  PROVE  a \in Squares
<1> DEFINE i == Inv(b)
           w == n * i
           e == a * (b * b) - n * n
           f == b * i - 1
<1>1. i \in Int /\ b \in Int /\ a \in Int /\ Null(f)
  BY InverseIs, ElementIsResidue
<1> HIDE DEF i
<1>2. e \in Int /\ f \in Int /\ a * (b * i + 1) \in Int /\ i * i \in Int
  BY <1>1
<1>3. /\ Null((i * i) * e) /\ (i * i) * e \in Int
      /\ Null((a * (b * i + 1)) * f) /\ (a * (b * i + 1)) * f \in Int
  <2>1. Null(e)
    OBVIOUS
  <2> HIDE DEF e, f
  <2>2. QED
    BY <1>1, <1>2, <2>1, NullTimes
<1>4. Null((i * i) * e - (a * (b * i + 1)) * f)
  BY <1>3, NullSums
<1>5. (i * i) * e - (a * (b * i + 1)) * f = a - w * w
  BY <1>1
<1>6. w \in Int
  BY <1>1
<1> HIDE DEF w
<1>7. QED
  BY <1>4, <1>5, <1>6, SquareIs

(* At infinity there are multiples of E1 and E2 only, and neither passes    *)
(* the check for the subgroup.                                              *)
LEMMA AtInfinity ==
  ASSUME NEW c \in XTW, isPointOnCurve_xtw(c), c.z = 0
  PROVE  /\ c.y = 0 /\ c.x # 0
         /\ IsE1_xtw(c) \/ IsE2_xtw(c)
         /\ ~Validate_xtw(TRUE, c)
<1> DEFINE x == c.x
           y == c.y
           t == c.t
<1>1. /\ x \in Int /\ y \in Int /\ t \in Int /\ x \in Fe /\ y \in Fe /\ t \in Fe
      /\ ~(x = 0 /\ y = 0) /\ c.z = 0
      /\ Null(x * y - t * c.z) /\ Null(D * (t * t) + c.z * c.z - y * y + 5 * (x * x))
  BY Coordinates, OnCurve
<1>2. /\ D \in Int /\ R \in Int /\ D \in Fe \ {0} /\ 5 \in Fe \ {0} /\ D \notin Squares
      /\ Null(D + 5 * (R * R))
  BY Parameters
<1> HIDE DEF x, y, t, D, R
<1>3. Null(x * y) /\ Null(D * (t * t) - y * y + 5 * (x * x))
  <2>1. /\ x * y - t * 0 = x * y
        /\ D * (t * t) + 0 * 0 - y * y + 5 * (x * x) = D * (t * t) - y * y + 5 * (x * x)
    BY <1>1, <1>2
  <2>2. QED
    BY <1>1, <2>1
<1>4. ASSUME NEW n \in Fe, NEW m \in Int, Null(m * n)
      PROVE  n = 0 \/ Null(m)
  <2>1. CASE n # 0
    <3>1. n \in Int /\ m * n = n * m
      BY ElementIsResidue
    <3>2. QED
      BY <1>4, <2>1, <3>1, NullProduct
  <2>2. QED
    BY <2>1
<1>5. ASSUME NEW n \in Fe, Null(n)
      PROVE  n = 0
  BY <1>5, ModZero, ElementIsResidue
<1>6. x # 0
  <2> SUFFICES ASSUME x = 0 PROVE FALSE
    OBVIOUS
  <2>1. Null(D * (t * t) - y * y) /\ y # 0
    <3>1. D * (t * t) - y * y + 5 * (0 * 0) = D * (t * t) - y * y
      BY <1>1, <1>2
    <3>2. QED
      BY <1>1, <1>3, <3>1
  <2>2. CASE t # 0
    <3>1. D \in Squares
      BY <1>1, <1>2, <2>1, <2>2, Quotient
    <3>2. QED
      BY <1>2, <3>1
  <2>3. CASE t = 0
    <3>1. D * (0 * 0) - y * y = -(y * y) /\ y * y \in Int /\ -(-(y * y)) = y * y /\ -(y * y) \in Int
      BY <1>1, <1>2
    <3>2. Null(y * y)
      BY <2>1, <2>3, <3>1, NullSums
    <3>3. QED
      BY <1>1, <1>4, <1>5, <2>1, <3>2
  <2>4. QED
    BY <2>2, <2>3
<1>7. y = 0
  <2>1. Null(y)
    BY <1>1, <1>3, <1>6, NullProduct
  <2>2. QED
    BY <1>1, <1>5, <2>1
<1>8. Null((x - R * t) * (x + R * t))
  <2> DEFINE e == D * (t * t) + 5 * (x * x)
             f == D + 5 * (R * R)
             g == (x - R * t) * (x + R * t)
  <2>1. Null(e)
    <3>1. D * (t * t) - 0 * 0 + 5 * (x * x) = e
      BY <1>1, <1>2
    <3>2. QED
      BY <1>3, <1>7, <3>1
  <2>2. e \in Int /\ f \in Int /\ g \in Int /\ t * t \in Int
    BY <1>1, <1>2
  <2>3. e - (t * t) * f = 5 * g
    BY <1>1, <1>2
  <2>4. Null(f)
    BY <1>2
  <2> HIDE DEF e, f, g
  <2>5. Null((t * t) * f) /\ (t * t) * f \in Int
    BY <2>2, <2>4, NullTimes
  <2>6. Null(5 * g)
    BY <2>1, <2>2, <2>3, <2>5, NullSums
  <2>7. Null(g)
    BY <1>2, <2>2, <2>6, NullProduct
  <2>8. QED
    BY <2>7 DEF g
<1>9. mod(R * t) = x \/ mod(-(R * t)) = x
  <2>1. x - R * t \in Int /\ x + R * t \in Int /\ R * t \in Int /\ -(R * t) \in Int
    BY <1>1, <1>2
  <2>2. CASE Null(x - R * t)
    <3>1. mod(x) = mod(R * t)
      BY <1>1, <2>1, <2>2, ModEqual
    <3>2. QED
      BY <1>1, <3>1, ElementIsResidue
  <2>3. CASE ~Null(x - R * t)
    <3> DEFINE g == x - R * t
               h == x + R * t
               m == mod(g)
    <3>1. g \in Int /\ h \in Int /\ Null(g * h) /\ ~Null(g)
      BY <1>8, <2>1, <2>3
    <3> HIDE DEF g, h
    <3>2. m \in Fe /\ m \in Int /\ Null(g - m) /\ m # 0
      <4>1. m \in Fe /\ m \in Int /\ Null(g - m)
        BY <3>1, ResidueIs, ElementIsResidue
      <4>2. m # 0
        BY <3>1, ModZero
      <4>3. QED
        BY <4>1, <4>2
    <3> HIDE DEF m
    <3>3. Null(h * (g - m)) /\ h * (g - m) \in Int /\ g * h \in Int
      <4>1. g - m \in Int
        BY <3>1, <3>2
      <4>2. QED
        BY <3>1, <3>2, <4>1, NullTimes
    <3>4. Null(g * h - h * (g - m)) /\ g * h - h * (g - m) = m * h
      BY <3>1, <3>2, <3>3, NullSums
    <3>5. Null(h)
      BY <3>1, <3>2, <3>4, NullProduct
    <3>6. Null(x - (-(R * t)))
      <4>1. x - (-(R * t)) = h
        BY <1>1, <2>1 DEF h
      <4>2. QED
        BY <3>5, <4>1
    <3>7. mod(x) = mod(-(R * t))
      BY <1>1, <2>1, <3>6, ModEqual
    <3>8. QED
      BY <1>1, <3>7, ElementIsResidue
  <2>4. QED
    BY <2>2, <2>3
<1>10. IsE1_xtw(c) \/ IsE2_xtw(c)
  <2>1. R * t = t * R
    BY <1>1, <1>2
  <2>2. c.z = 0 /\ ~(c.x = 0 /\ c.y = 0)
    BY <1>6 DEF x
  <2>3. mod(c.t * squareRootDbyA) = c.x \/ mod(-(c.t * squareRootDbyA)) = c.x
    BY <1>9, <2>1 DEF x, t, R
  <2>4. QED
    BY <2>2, <2>3 DEF IsE1_xtw, IsE2_xtw, AtInfinity_xtw, IsNaP_xtw
<1>11. ~Validate_xtw(TRUE, c)
  <2> DEFINE n == mod(5 * (x * x))
  <2>1. ASSUME n \in Squares PROVE FALSE
    <3>1. PICK m \in Fe \ {0} : n = mod(m * m)
      BY <2>1 DEF Squares
    <3>2. PICK i \in Int : Null(i * i + 1)
      BY Parameters
    <3> DEFINE a == CurveParameterA
               e == 5 * (x * x) - m * m
               f == i * i + 1
               g == a + 5
    <3>3. m \in Int /\ a \in Int /\ a \in Fe \ {0} /\ a \notin Squares /\ Null(g) /\ x \in Fe \ {0}
      BY <1>1, <1>6, Parameters, ElementIsResidue
    <3>4. Null(e)
      <4>1. 5 * (x * x) \in Int /\ m * m \in Int
        BY <1>1, <3>3
      <4>2. QED
        BY <3>1, <4>1, ModEqual
    <3> HIDE DEF a
    <3>5. e \in Int /\ f \in Int /\ g \in Int /\ x * x \in Int /\ m * m \in Int
      BY <1>1, <3>3
    <3>6. /\ Null((x * x) * g) /\ (x * x) * g \in Int
          /\ Null((m * m) * f) /\ (m * m) * f \in Int
      <4>1. Null(g) /\ Null(f)
        BY <3>2, <3>3
      <4> HIDE DEF g, f
      <4>2. QED
        BY <3>5, <4>1, NullTimes
    <3>7. ((x * x) * g - e) - (m * m) * f = a * (x * x) - (m * i) * (m * i)
      BY <1>1, <3>3
    <3> HIDE DEF e, f, g
    <3>8. Null((x * x) * g - e) /\ (x * x) * g - e \in Int
      BY <3>4, <3>5, <3>6, NullSums
    <3>9. Null(((x * x) * g - e) - (m * m) * f)
      BY <3>6, <3>8, NullSums
    <3>10. m * i \in Int
      BY <3>3
    <3>11. a \in Squares
      BY <3>3, <3>7, <3>9, <3>10, Quotient
    <3>12. QED
      BY <3>3, <3>11
  <2>2. n \in Fe /\ n # 0
    <3>1. 5 * (x * x) \in Int
      BY <1>1
    <3>2. ASSUME n = 0 PROVE FALSE
      <4>1. Null(5 * (x * x)) /\ x * x \in Int
        BY <1>1, <3>1, <3>2, ModZero
      <4>2. Null(x * x)
        BY <1>2, <4>1, NullProduct
      <4>3. QED
        BY <1>1, <1>4, <1>5, <1>6, <4>2
    <3>3. QED
      BY <3>1, <3>2, ResidueIs
  <2>3. legendreCheckA_projectiveXZ(c.x, c.z) <=> Jacobi(mod(0 * 0 + 5 * (x * x))) >= 0
    BY <1>1 DEF legendreCheckA_projectiveXZ, Square, x
  <2>4. 0 * 0 + 5 * (x * x) = 5 * (x * x)
    BY <1>1
  <2>5. Jacobi(n) = -1
    BY <2>1, <2>2, TablesAre
  <2>6. ~legendreCheckA_projectiveXZ(c.x, c.z)
    BY <2>3, <2>4, <2>5
  <2>7. QED
    BY <2>6 DEF Validate_xtw
<1>12. QED
  BY <1>6, <1>7, <1>10, <1>11 DEF x, y

(* So are the points whose y is 0.                                          *)
LEMMA OnXAxis ==
  ASSUME NEW c \in XTW, isPointOnCurve_xtw(c), c.y = 0
  PROVE  c.z = 0
<1> DEFINE x == c.x
           t == c.t
           z == c.z
           a == CurveParameterA
<1>1. /\ x \in Int /\ z \in Int /\ t \in Int /\ x \in Fe /\ z \in Fe /\ t \in Fe
      /\ x # 0 /\ c.y = 0
      /\ Null(x * c.y - t * z) /\ Null(D * (t * t) + z * z - c.y * c.y + 5 * (x * x))
  BY Coordinates, OnCurve
<1>2. D \in Int /\ a \in Int /\ a \in Fe \ {0} /\ a \notin Squares /\ Null(a + 5)
  BY Parameters, ElementIsResidue
<1> HIDE DEF x, t, z, D, a
<1>3. Null(t * z) /\ Null(D * (t * t) + z * z + 5 * (x * x))
  <2>1. /\ x * 0 - t * z = -(t * z) /\ t * z \in Int /\ -(-(t * z)) = t * z /\ -(t * z) \in Int
        /\ D * (t * t) + z * z - 0 * 0 + 5 * (x * x) = D * (t * t) + z * z + 5 * (x * x)
    BY <1>1, <1>2
  <2>2. QED
    BY <1>1, <2>1, NullSums
<1>4. CASE t = 0
  <2> DEFINE e == z * z + 5 * (x * x)
             g == a + 5
  <2>1. Null(e)
    <3>1. D * (0 * 0) + z * z + 5 * (x * x) = e
      BY <1>1, <1>2
    <3>2. QED
      BY <1>3, <1>4, <3>1
  <2>2. e \in Int /\ g \in Int /\ x * x \in Int /\ Null(g)
    BY <1>1, <1>2
  <2>3. (x * x) * g - e = a * (x * x) - z * z
    BY <1>1, <1>2
  <2> HIDE DEF e, g
  <2>4. Null((x * x) * g) /\ (x * x) * g \in Int
    BY <2>2, NullTimes
  <2>5. Null(a * (x * x) - z * z)
    BY <2>1, <2>2, <2>3, <2>4, NullSums
  <2>6. a \in Squares
    BY <1>1, <1>2, <2>5, Quotient
  <2>7. QED
    BY <1>2, <2>6
<1>5. CASE t # 0
  <2>1. Null(z)
    BY <1>1, <1>3, <1>5, NullProduct
  <2>2. z = 0
    BY <1>1, <2>1, ModZero, ElementIsResidue
  <2>3. QED
    BY <2>2 DEF z
<1>6. QED
  BY <1>4, <1>5

-----------------------------------------------------------------------------
(* The indices of the coordinates that are 0.                              *)

(* A set of numbers that is not empty has a least one.                      *)
LEMMA LeastElement ==
  ASSUME NEW S, S \subseteq Nat, S # {}
  PROVE  \E n \in S : \A m \in S : n <= m
<1> DEFINE Less == OpToRel(<, Nat)
<1>1. IsWellFoundedOn(Less, Nat)
  BY NatLessThanWellFounded
<1> HIDE DEF Less
<1>2. PICK n \in S : \A m \in S : ~(<<m, n>> \in Less)
  BY <1>1, WFMin
<1>3. \A m \in S : ~(m < n)
  BY <1>2 DEF Less, OpToRel
<1>4. QED
  BY <1>3

-----------------------------------------------------------------------------
ZerosUpTo(f, s, by, n) ==
  /\ f \in Seq(Nat)
  /\ \A k \in 1 .. Len(f) : f[k] \in 0 .. n - 1 /\ Coordinate(s[f[k] + 1], by) = 0
  /\ \A j \in 0 .. n - 1 : Coordinate(s[j + 1], by) = 0 => \E k \in 1 .. Len(f) : f[k] = j
  /\ \A i, k \in 1 .. Len(f) : i < k => f[i] < f[k]

LEMMA NextZero ==
  ASSUME NEW f, NEW s, NEW by, NEW n \in Nat, ZerosUpTo(f, s, by, n)
  PROVE  /\ Coordinate(s[n + 1], by) = 0 => ZerosUpTo(Append(f, n), s, by, n + 1)
         /\ Coordinate(s[n + 1], by) # 0 => ZerosUpTo(f, s, by, n + 1)
<1>1. f \in Seq(Nat) /\ Len(f) \in Nat
  BY DEF ZerosUpTo
<1>2. ASSUME Coordinate(s[n + 1], by) = 0 PROVE ZerosUpTo(Append(f, n), s, by, n + 1)
  <2> DEFINE g == Append(f, n)
             m == Len(f)
  <2>1. /\ g \in Seq(Nat) /\ Len(g) = m + 1 /\ g[m + 1] = n
        /\ \A k \in 1 .. m : g[k] = f[k]
    BY <1>1, AppendProperties
  <2> HIDE DEF g
  <2>2. m \in Nat /\ \A k \in 1 .. m + 1 : k \in 1 .. m \/ k = m + 1
    BY <1>1
  <2>3. \A k \in 1 .. m : f[k] \in 0 .. n - 1 /\ Coordinate(s[f[k] + 1], by) = 0
    BY DEF ZerosUpTo
  <2> HIDE DEF m
  <2>4. ASSUME NEW k \in 1 .. m + 1
        PROVE  g[k] \in 0 .. n /\ Coordinate(s[g[k] + 1], by) = 0
    <3>1. CASE k \in 1 .. m
      BY <2>1, <2>3, <3>1
    <3>2. CASE k = m + 1
      <4>1. n \in 0 .. n
        OBVIOUS
      <4>2. QED
        BY <1>2, <2>1, <3>2, <4>1
    <3>3. QED
      BY <2>2, <3>1, <3>2
  <2>5. ASSUME NEW j \in 0 .. n, Coordinate(s[j + 1], by) = 0
        PROVE  \E k \in 1 .. m + 1 : g[k] = j
    <3>1. CASE j = n
      BY <2>1, <2>2, <3>1
    <3>2. CASE j \in 0 .. n - 1
      <4>1. PICK k \in 1 .. m : f[k] = j
        BY <2>5, <3>2 DEF ZerosUpTo, m
      <4>2. k \in 1 .. m + 1 /\ g[k] = j
        BY <2>1, <2>2, <4>1
      <4>3. QED
        BY <4>2
    <3>3. QED
      BY <3>1, <3>2
  <2>6. ASSUME NEW i \in 1 .. m + 1, NEW k \in 1 .. m + 1, i < k
        PROVE  g[i] < g[k]
    <3>1. i \in 1 .. m /\ g[i] = f[i]
      BY <2>1, <2>2, <2>6
    <3>2. CASE k \in 1 .. m
      <4>1. f[i] < f[k]
        BY <2>6, <3>1, <3>2 DEF ZerosUpTo, m
      <4>2. QED
        BY <2>1, <3>1, <3>2, <4>1
    <3>3. CASE k = m + 1
      BY <2>1, <2>3, <3>1, <3>3
    <3>4. QED
      BY <2>2, <3>2, <3>3
  <2>7. (n + 1) - 1 = n
    OBVIOUS
  <2>8. QED
    BY <2>1, <2>4, <2>5, <2>6, <2>7 DEF ZerosUpTo, g
<1>3. ASSUME Coordinate(s[n + 1], by) # 0 PROVE ZerosUpTo(f, s, by, n + 1)
  <2>1. \A j \in 0 .. n : j \in 0 .. n - 1 \/ j = n
    OBVIOUS
  <2>2. (n + 1) - 1 = n /\ \A j \in 0 .. n - 1 : j \in 0 .. n
    OBVIOUS
  <2>3. QED
    BY <1>3, <2>1, <2>2 DEF ZerosUpTo
<1>4. QED
  BY <1>2, <1>3

LEMMA ZerosRight ==
  ASSUME NEW s, Len(s) \in Nat, NEW by
  PROVE  ZerosUpTo(ZerosOf(s, by), s, by, Len(s))
<1> DEFINE N == Len(s)
           Body(f, n) == IF n = 0 THEN <<>>
                         ELSE IF Coordinate(s[n], by) = 0 THEN Append(f[n - 1], n - 1) ELSE f[n - 1]
           Is(f, m) == f = [n \in 0 .. m |-> Body(f, n)]
           zeros == CHOOSE f : Is(f, N)
<1>1. ZerosOf(s, by) = zeros[N]
  BY DEF ZerosOf
<1> HIDE DEF N
<1>2. N \in Nat
  BY DEF N
<1>3. \A m \in 0 .. N : \E f : Is(f, m)
  <2> DEFINE Bad == {m \in 0 .. N : ~\E f : Is(f, m)}
  <2>1. SUFFICES ASSUME Bad # {} PROVE FALSE
    OBVIOUS
  <2>2. PICK m \in Bad : \A k \in Bad : m <= k
    <3>1. Bad \subseteq Nat
      OBVIOUS
    <3> HIDE DEF Bad
    <3>2. QED
      BY <2>1, <3>1, LeastElement
  <2>3. m \in 0 .. N /\ ~\E f : Is(f, m)
    OBVIOUS
  <2>4. CASE m = 0
    <3> DEFINE f == [n \in 0 .. 0 |-> <<>>]
    <3>1. Is(f, 0)
      OBVIOUS
    <3> HIDE DEF f, Is
    <3>2. QED
      BY <2>3, <2>4, <3>1
  <2>5. CASE m # 0
    <3>1. m - 1 \in 0 .. N /\ m - 1 < m
      BY <1>2, <2>3, <2>5
    <3>2. m - 1 \notin Bad
      <4> HIDE DEF Bad
      <4>1. m - 1 \in Bad => m <= m - 1
        BY <2>2
      <4>2. QED
        BY <2>3, <3>1, <4>1
    <3>3. PICK g : Is(g, m - 1)
      BY <3>1, <3>2
    <3>0. g = [i \in 0 .. m - 1 |-> Body(g, i)]
      BY <3>3
    <3> DEFINE f == [n \in 0 .. m |-> IF n = m THEN Body(g, m) ELSE g[n]]
    <3>4. ASSUME NEW n \in 0 .. m
          PROVE  f[n] = Body(f, n)
      <4>1. CASE n = 0
        <5>1. 0 \in 0 .. m - 1
          BY <2>3, <2>5
        <5>2. g[0] = Body(g, 0)
          BY <3>0, <5>1
        <5>3. QED
          BY <2>5, <4>1, <5>2
      <4>2. CASE n # 0
        <5>1. n - 1 \in 0 .. m - 1 /\ n - 1 \in 0 .. m /\ n - 1 # m
          BY <2>3, <4>2
        <5>2. f[n - 1] = g[n - 1]
          BY <5>1
        <5>3. Body(f, n) = Body(g, n)
          <6> HIDE DEF f
          <6>1. QED
            BY <5>2
        <5>4. CASE n = m
          <6>1. f[n] = Body(g, n)
            BY <5>4
          <6>2. QED
            BY <5>3, <6>1
        <5>5. CASE n # m
          <6>1. n \in 0 .. m - 1 /\ f[n] = g[n]
            BY <2>3, <5>5
          <6>2. g[n] = Body(g, n)
            BY <3>0, <6>1
          <6>3. QED
            BY <5>3, <6>1, <6>2
        <5>6. QED
          BY <5>4, <5>5
      <4>3. QED
        BY <4>1, <4>2
    <3>5. Is(f, m)
      <4>1. f = [n \in 0 .. m |-> f[n]]
        OBVIOUS
      <4> HIDE DEF f, Body
      <4>2. QED
        BY <3>4, <4>1
    <3> HIDE DEF f, Is
    <3>6. QED
      BY <2>3, <3>5
  <2>6. QED
    BY <2>4, <2>5
<1>4. Is(zeros, N)
  <2> HIDE DEF Is
  <2>1. N \in 0 .. N
    BY <1>2
  <2>2. \E f : Is(f, N)
    BY <1>3, <2>1
  <2>3. QED
    BY <2>2
<1> HIDE DEF zeros
<1>5. \A n \in 0 .. N : zeros[n] = Body(zeros, n)
  BY <1>4
<1>6. \A m \in 0 .. N : ZerosUpTo(zeros[m], s, by, m)
  <2> DEFINE Bad == {m \in 0 .. N : ~ZerosUpTo(zeros[m], s, by, m)}
  <2>1. SUFFICES ASSUME Bad # {} PROVE FALSE
    OBVIOUS
  <2>2. PICK m \in Bad : \A k \in Bad : m <= k
    <3>1. Bad \subseteq Nat
      OBVIOUS
    <3> HIDE DEF Bad
    <3>2. QED
      BY <2>1, <3>1, LeastElement
  <2>3. m \in 0 .. N /\ ~ZerosUpTo(zeros[m], s, by, m)
    OBVIOUS
  <2>4. CASE m = 0
    <3>1. zeros[0] = <<>>
      BY <1>2, <1>5
    <3>2. ZerosUpTo(<<>>, s, by, 0)
      BY DEF ZerosUpTo
    <3>3. QED
      BY <2>3, <2>4, <3>1, <3>2
  <2>5. CASE m # 0
    <3>1. m - 1 \in 0 .. N /\ m - 1 < m /\ m - 1 \in Nat /\ (m - 1) + 1 = m
      BY <1>2, <2>3, <2>5
    <3>2. m - 1 \notin Bad
      <4> HIDE DEF Bad
      <4>1. m - 1 \in Bad => m <= m - 1
        BY <2>2
      <4>2. QED
        BY <2>3, <3>1, <4>1
    <3>3. ZerosUpTo(zeros[m - 1], s, by, m - 1)
      BY <3>1, <3>2
    <3>4. /\ Coordinate(s[m], by) = 0 => ZerosUpTo(Append(zeros[m - 1], m - 1), s, by, m)
          /\ Coordinate(s[m], by) # 0 => ZerosUpTo(zeros[m - 1], s, by, m)
      <4> DEFINE n == m - 1
      <4>1. /\ Coordinate(s[n + 1], by) = 0 => ZerosUpTo(Append(zeros[n], n), s, by, n + 1)
            /\ Coordinate(s[n + 1], by) # 0 => ZerosUpTo(zeros[n], s, by, n + 1)
        BY <3>1, <3>3, NextZero
      <4>2. QED
        BY <3>1, <4>1
    <3>5. zeros[m] = IF Coordinate(s[m], by) = 0 THEN Append(zeros[m - 1], m - 1) ELSE zeros[m - 1]
      BY <1>5, <2>3, <2>5
    <3>6. ZerosUpTo(zeros[m], s, by, m)
      BY <3>4, <3>5
    <3>7. QED
      BY <2>3, <3>6
  <2>6. QED
    BY <2>4, <2>5
<1>7. QED
  BY <1>1, <1>2, <1>6 DEF N

-----------------------------------------------------------------------------
(* One point.                                                              *)

LEMMA ScaledIs ==
  ASSUME NEW c \in XTW, NEW n \in Int
  PROVE  /\ Scaled(c, n) = xtw(mod(c.x * n), mod(c.y * n), mod(c.t * n), mod(c.z * n))
         /\ Scaled(c, n) \in XTW
<1>1. /\ c.x * n \in Int /\ c.y * n \in Int /\ c.t * n \in Int /\ c.z * n \in Int
  BY Coordinates
<1>2. mod(c.x * n) \in Fe /\ mod(c.y * n) \in Fe /\ mod(c.t * n) \in Fe /\ mod(c.z * n) \in Fe
  BY <1>1, ResidueIs
<1>3. Scaled(c, n) = xtw(mod(c.x * n), mod(c.y * n), mod(c.t * n), mod(c.z * n))
  BY DEF Scaled, xtw, XTW
<1>4. QED
  BY <1>2, <1>3 DEF xtw, XTW

LEMMA NoPanic == \A c \in XTW : c # Panic
BY DEF XTW, Panic

LEMMA SpecialPoints ==
  /\ xtw(0, 0, 0, 0) \in XTW
  /\ infinitePoint1_xtw_base \in XTW /\ infinitePoint2_xtw_base \in XTW
<1>1. 0 \in Fe /\ 1 \in Fe /\ squareRootDbyA \in Fe /\ FieldPrime - 1 \in Fe
  <2>1. Fe = 0 .. p - 1 /\ p \in Nat /\ p > 5 /\ squareRootDbyA \in Fe
    BY FieldFacts
  <2>2. p - 1 \in Fe
    <3> HIDE DEF Fe, p
    <3>1. QED
      BY <2>1
  <2>3. QED
    BY <2>1, <2>2, ZeroAndOne DEF p
<1>2. QED
  BY <1>1 DEF xtw, XTW, infinitePoint1_xtw_base, infinitePoint2_xtw_base

(* E1 and E2 differ.                                                        *)
LEMMA OneOfBoth ==
  ASSUME NEW c \in XTW, isPointOnCurve_xtw(c), c.z = 0
  PROVE  ~(IsE1_xtw(c) /\ IsE2_xtw(c))
<1> DEFINE w == c.t * squareRootDbyA
<1>1. c.x # 0 /\ c.x \in Int /\ w \in Int
  <2>1. c.x # 0 /\ c.x \in Int /\ c.t \in Int
    BY AtInfinity, Coordinates
  <2>2. squareRootDbyA \in Int
    BY Parameters DEF R
  <2>3. QED
    BY <2>1, <2>2
<1>2. SUFFICES ASSUME mod(w) = c.x, mod(-w) = c.x
               PROVE  FALSE
  BY DEF IsE1_xtw, IsE2_xtw
<1> HIDE DEF w
<1>3. Null(w - (-w)) /\ w - (-w) = 2 * w
  <2> DEFINE v == -w
  <2>1. v \in Int /\ mod(w) = mod(v) /\ w - v = 2 * w
    BY <1>1, <1>2
  <2> HIDE DEF v
  <2>2. Null(w - v)
    BY <1>1, <2>1, ModEqual
  <2>3. QED
    BY <2>1, <2>2 DEF v
<1>4. 2 \in Fe \ {0}
  <2>1. Fe = 0 .. p - 1 /\ p \in Nat /\ p > 5
    BY FieldFacts
  <2> HIDE DEF Fe, p
  <2>2. QED
    BY <2>1
<1>5. Null(w)
  BY <1>1, <1>3, <1>4, NullProduct
<1>6. mod(w) = 0
  BY <1>1, <1>5, ModZero
<1>7. QED
  BY <1>1, <1>2, <1>6

(* What a point becomes when all coordinates are inverted at first.         *)
Result(c, by) ==
  IF Coordinate(c, by) # 0 THEN Finished(WithInverted(c, by), by)
  ELSE IF IsNaP_xtw(c) THEN xtw(0, 0, 0, 0)
  ELSE IF IsE1_xtw(c) THEN infinitePoint1_xtw_base ELSE infinitePoint2_xtw_base

Single(sub, c, by) == IF by = "z" THEN NormalizeForZ_xtw(sub, c) ELSE NormalizeForY_xtw(sub, c)
Hidden(c, by) == IsNaP_xtw(c) /\ Coordinate(c, by) # 0

LEMMA InvertedIs ==
  ASSUME NEW c \in XTW, NEW by \in {"z", "y"}, Coordinate(c, by) # 0
  PROVE  /\ WithInverted(c, by) \in XTW
         /\ WithInverted(c, by) = IF by = "z" THEN xtw(c.x, c.y, c.t, Inv(c.z)) ELSE xtw(c.x, Inv(c.y), c.t, c.z)
<1>1. Coordinate(c, by) \in Fe \ {0} /\ Inv(Coordinate(c, by)) \in Fe
  BY Coordinates, InverseIs DEF Coordinate
<1>2. WithInverted(c, by) = IF by = "z" THEN xtw(c.x, c.y, c.t, Inv(c.z)) ELSE xtw(c.x, Inv(c.y), c.t, c.z)
  BY DEF WithInverted, xtw, XTW
<1>3. QED
  BY <1>1, <1>2, Coordinates DEF Coordinate, xtw, XTW

LEMMA FinishedIs ==
  ASSUME NEW c \in XTW, NEW by \in {"z", "y"}, Coordinate(c, by) # 0
  PROVE  LET i == Inv(Coordinate(c, by))
             d == Finished(WithInverted(c, by), by)
         IN  /\ d = Scaled(c, i) /\ d \in XTW
             /\ by = "z" => d.z = 1
             /\ by = "y" => d.y = 1
             /\ d.x = mod(c.x * i)
             /\ by = "z" => d.y = mod(c.y * i)
<1> DEFINE i == Inv(Coordinate(c, by))
           e == WithInverted(c, by)
<1>1. /\ Coordinate(c, by) \in Fe \ {0} /\ i \in Fe /\ i \in Int
      /\ mod(Coordinate(c, by) * i) = 1
  BY Coordinates, InverseIs, ElementIsResidue DEF Coordinate
<1>2. e \in XTW /\ e = IF by = "z" THEN xtw(c.x, c.y, c.t, i) ELSE xtw(c.x, i, c.t, c.z)
  BY InvertedIs DEF Coordinate
<1>3. Coordinate(e, by) = i
  BY <1>2 DEF Coordinate, xtw
<1> HIDE DEF i, e
<1>4. /\ Scaled(e, i) = xtw(mod(e.x * i), mod(e.y * i), mod(e.t * i), mod(e.z * i))
      /\ Scaled(c, i) = xtw(mod(c.x * i), mod(c.y * i), mod(c.t * i), mod(c.z * i))
      /\ Scaled(c, i) \in XTW
  BY <1>1, <1>2, ScaledIs
<1>5. CASE by = "z"
  <2>1. e.x = c.x /\ e.y = c.y /\ e.t = c.t /\ mod(c.z * i) = 1
    BY <1>1, <1>2, <1>5 DEF xtw, Coordinate
  <2>2. Finished(e, by) = [Scaled(e, i) EXCEPT !.z = 1]
    BY <1>3, <1>5 DEF Finished
  <2>3. Finished(e, by) = xtw(mod(e.x * i), mod(e.y * i), mod(e.t * i), 1)
    BY <1>4, <2>2 DEF xtw
  <2>4. QED
    BY <1>4, <1>5, <2>1, <2>3 DEF e, i, xtw
<1>6. CASE by = "y"
  <2>1. e.x = c.x /\ e.t = c.t /\ e.z = c.z /\ mod(c.y * i) = 1
    BY <1>1, <1>2, <1>6 DEF xtw, Coordinate
  <2>2. Finished(e, by) = [Scaled(e, i) EXCEPT !.y = 1]
    BY <1>3, <1>6 DEF Finished
  <2>3. Finished(e, by) = xtw(mod(e.x * i), 1, mod(e.t * i), mod(e.z * i))
    BY <1>4, <2>2 DEF xtw
  <2>4. QED
    BY <1>4, <1>6, <2>1, <2>3 DEF e, i, xtw
<1>7. QED
  BY <1>5, <1>6

(* A coordinate that is 0: at infinity, and not in the subgroup.            *)
LEMMA ZeroCoordinate ==
  ASSUME NEW sub \in BOOLEAN, NEW by \in {"z", "y"}, NEW c, ValidInSlice(sub, c),
         Coordinate(c, by) = 0, ~IsNaP_xtw(c)
  PROVE  /\ c.z = 0 /\ c.y = 0 /\ ~sub
         /\ IsE1_xtw(c) \/ IsE2_xtw(c)
         /\ ~(IsE1_xtw(c) /\ IsE2_xtw(c))
<1>1. c \in XTW /\ Validate_xtw(sub, c) /\ isPointOnCurve_xtw(c)
  BY DEF ValidInSlice, XTW, Validate_xtw
<1>2. c.z = 0
  BY <1>1, OnXAxis DEF Coordinate
<1>3. QED
  BY <1>1, <1>2, AtInfinity, OneOfBoth

(* The result is that of normalizing the point alone.                       *)
LEMMA ResultRight ==
  ASSUME NEW sub \in BOOLEAN, NEW by \in {"z", "y"}, NEW c, ValidInSlice(sub, c)
  PROVE  LET single == Single(sub, c, by)
             d == Result(c, by)
         IN  /\ d \in XTW
             /\ Coordinate(c, by) = 0 <=> ~single.ok /\ ~Hidden(c, by)
             /\ ~Hidden(c, by) => d = single.c
             /\ Hidden(c, by) => IsNaP_xtw(d) /\ d.z = 1
<1> DEFINE d == Result(c, by)
           single == Single(sub, c, by)
<1>1. c \in XTW
  BY DEF ValidInSlice, XTW
<1>2. CASE Hidden(c, by)
  <2>1. by = "z" /\ c.x = 0 /\ c.y = 0 /\ Coordinate(c, by) # 0
    BY <1>2 DEF Hidden, IsNaP_xtw, Coordinate
  <2> DEFINE i == Inv(Coordinate(c, by))
  <2>2. /\ d \in XTW /\ d.x = mod(0 * i) /\ d.y = mod(0 * i) /\ d.z = 1
    BY <1>1, <2>1, FinishedIs DEF Result
  <2>3. i \in Int
    BY <1>1, <2>1, Coordinates, InverseIs, ElementIsResidue DEF Coordinate
  <2> HIDE DEF i
  <2>4. 0 * i = 0 /\ mod(0) = 0
    BY <2>3, ZeroAndOne, ElementIsResidue
  <2>5. IsNaP_xtw(d) /\ d.z = 1
    BY <2>2, <2>4 DEF IsNaP_xtw
  <2>6. QED
    BY <1>2, <2>1, <2>2, <2>5
<1>3. CASE ~Hidden(c, by) /\ IsNaP_xtw(c)
  <2>1. Coordinate(c, by) = 0
    BY <1>3 DEF Hidden
  <2>2. d = xtw(0, 0, 0, 0) /\ single = [ok |-> FALSE, c |-> xtw(0, 0, 0, 0)]
    BY <1>3, <2>1 DEF Result, Single, NormalizeForZ_xtw, NormalizeForY_xtw
  <2>3. ~single.ok /\ single.c = d
    BY <2>2
  <2>4. d \in XTW
    BY <2>2, SpecialPoints
  <2>5. QED
    BY <1>3, <2>1, <2>3, <2>4
<1>4. CASE ~IsNaP_xtw(c) /\ Coordinate(c, by) # 0
  <2>1. single = [ok |-> TRUE, c |-> Scaled(c, Inv(Coordinate(c, by)))]
    BY <1>4 DEF Single, NormalizeForZ_xtw, NormalizeForY_xtw, Coordinate
  <2>2. d = Scaled(c, Inv(Coordinate(c, by))) /\ d \in XTW
    BY <1>1, <1>4, FinishedIs DEF Result
  <2>3. single.ok /\ single.c = d
    BY <2>1, <2>2
  <2>4. QED
    BY <1>4, <2>2, <2>3 DEF Hidden
<1>5. CASE ~IsNaP_xtw(c) /\ Coordinate(c, by) = 0
  <2>1. ~sub
    BY <1>5, ZeroCoordinate
  <2>2. /\ single = [ok |-> FALSE, c |-> IF IsE1_xtw(c) THEN infinitePoint1_xtw_base ELSE infinitePoint2_xtw_base]
        /\ d = IF IsE1_xtw(c) THEN infinitePoint1_xtw_base ELSE infinitePoint2_xtw_base
    BY <1>5, <2>1 DEF Single, NormalizeForZ_xtw, NormalizeForY_xtw, Coordinate, Result
  <2>3. ~single.ok /\ single.c = d
    BY <2>2
  <2>4. d \in XTW
    BY <2>2, SpecialPoints
  <2>5. QED
    BY <1>5, <2>3, <2>4 DEF Hidden
<1>6. QED
  BY <1>2, <1>3, <1>4, <1>5

-----------------------------------------------------------------------------
(* The inductive invariant of the pass over the slice.                      *)

BatchTypes ==
  /\ batch \in [sub : BOOLEAN, by : {"z", "y"}, original : Seq(XTW)]
  /\ \A j \in 1 .. Len(batch.original) : ValidInSlice(batch.sub, batch.original[j])
  /\ slice \in Seq(XTW) /\ Len(slice) = Len(batch.original)
  /\ index \in 0 .. Len(slice)
  /\ stage \in {"invert", "loop", "done", "handler panicked"}

NothingDone ==
  stage = "invert" => slice = batch.original /\ index = 0 /\ failingIndicesProcessed = 0

ZerosFound ==
  stage # "invert" => ZerosUpTo(failingIndices, batch.original, batch.by, Len(slice))

Inverted(c, by) == IF Coordinate(c, by) = 0 THEN c ELSE WithInverted(c, by)
PointsSoFar ==
  stage # "invert" =>
    \A j \in 0 .. Len(slice) - 1 :
      slice[j + 1] = IF j < index THEN Result(batch.original[j + 1], batch.by)
                     ELSE Inverted(batch.original[j + 1], batch.by)

SecondIndex ==
  stage = "loop" =>
    /\ failingIndicesProcessed \in 0 .. Len(failingIndices)
    /\ \A k \in 1 .. Len(failingIndices) : k <= failingIndicesProcessed <=> failingIndices[k] < index
    /\ nextFailingIndex = NextFailing(failingIndicesProcessed)

AtTheEnd == stage = "done" => index = Len(slice)

BatchInv == BatchTypes /\ NothingDone /\ ZerosFound /\ PointsSoFar /\ SecondIndex /\ AtTheEnd

(* The code's question index = nextFailingIndex is whether the coordinate   *)
(* was 0.                                                                   *)
LEMMA NextFailingIsNextZero ==
  ASSUME BatchInv, stage = "loop", index < Len(slice)
  PROVE  /\ index \in 0 .. Len(slice) - 1 /\ index + 1 \in 1 .. Len(batch.original)
         /\ index = nextFailingIndex <=> Coordinate(batch.original[index + 1], batch.by) = 0
         /\ index = nextFailingIndex =>
              failingIndicesProcessed < Len(failingIndices) /\ failingIndices[failingIndicesProcessed + 1] = index
<1> DEFINE n == Len(slice)
           m == Len(failingIndices)
           processed == failingIndicesProcessed
           s == batch.original
           by == batch.by
<1>1. /\ n \in Nat /\ n = Len(s) /\ index \in 0 .. n /\ index < n
      /\ ZerosUpTo(failingIndices, s, by, n)
      /\ processed \in 0 .. m
      /\ \A k \in 1 .. m : k <= processed <=> failingIndices[k] < index
      /\ nextFailingIndex = IF processed = m THEN n ELSE failingIndices[processed + 1]
  BY DEF BatchInv, BatchTypes, ZerosFound, SecondIndex, NextFailing
<1>2. /\ m \in Nat
      /\ \A k \in 1 .. m : failingIndices[k] \in 0 .. n - 1 /\ Coordinate(s[failingIndices[k] + 1], by) = 0
      /\ \A j \in 0 .. n - 1 : Coordinate(s[j + 1], by) = 0 => \E k \in 1 .. m : failingIndices[k] = j
      /\ \A i, k \in 1 .. m : i < k => failingIndices[i] < failingIndices[k]
  <2>1. failingIndices \in Seq(Nat)
    BY <1>1 DEF ZerosUpTo
  <2>2. m \in Nat
    BY <2>1
  <2>3. QED
    BY <1>1, <2>2 DEF ZerosUpTo
<1> HIDE DEF n, m, processed, s, by
<1>3. index \in 0 .. n - 1 /\ index + 1 \in 1 .. n
  BY <1>1
<1>4. ASSUME index = nextFailingIndex
      PROVE  processed < m /\ failingIndices[processed + 1] = index /\ Coordinate(s[index + 1], by) = 0
  <2>1. processed # m
    BY <1>1, <1>4
  <2>2. processed < m /\ processed + 1 \in 1 .. m
    BY <1>1, <1>2, <2>1
  <2>3. failingIndices[processed + 1] = index
    BY <1>1, <1>4, <2>1
  <2>4. QED
    BY <1>2, <2>2, <2>3
<1>5. ASSUME Coordinate(s[index + 1], by) = 0
      PROVE  index = nextFailingIndex
  <2>1. PICK k \in 1 .. m : failingIndices[k] = index
    BY <1>2, <1>3, <1>5
  <2>2. ~(k <= processed)
    BY <1>1, <2>1
  <2>3. processed < m /\ processed + 1 \in 1 .. m /\ processed + 1 <= k /\ ~(processed + 1 <= processed)
    BY <1>1, <1>2, <2>1, <2>2
  <2>4. ~(failingIndices[processed + 1] < index) /\ failingIndices[processed + 1] \in 0 .. n - 1
    BY <1>1, <1>2, <2>3
  <2>5. processed + 1 = k \/ failingIndices[processed + 1] < failingIndices[k]
    BY <1>2, <2>1, <2>3
  <2>6. failingIndices[processed + 1] = index
    BY <2>1, <2>4, <2>5
  <2>7. QED
    BY <1>1, <2>3, <2>6
<1>6. QED
  BY <1>1, <1>3, <1>4, <1>5 DEF n, m, s, by, processed

LEMMA BatchStarts ==
  ASSUME NEW sub \in BOOLEAN, NEW by \in {"z", "y"}, NEW n \in Nat,
         NEW original \in [1 .. n -> [x : Fe, y : Fe, t : Fe, z : Fe]],
         \A j \in 1 .. n : ValidInSlice(sub, original[j]), BatchInit(sub, by, original)
  PROVE  BatchInv
<1>1. original \in Seq(XTW) /\ Len(original) = n
  <2>1. original \in [1 .. n -> XTW]
    BY DEF XTW
  <2> HIDE DEF XTW
  <2>2. original \in Seq(XTW)
    BY <2>1, SeqDef
  <2>3. QED
    BY <2>1, <2>2
<1>2. /\ batch = [sub |-> sub, by |-> by, original |-> original] /\ slice = original
      /\ index = 0 /\ failingIndicesProcessed = 0 /\ stage = "invert"
  BY DEF BatchInit
<1>3. batch.original = original /\ batch.sub = sub /\ batch.by = by
  BY <1>2
<1>4. BatchTypes
  <2>1. batch \in [sub : BOOLEAN, by : {"z", "y"}, original : Seq(XTW)]
    BY <1>1, <1>2
  <2>2. \A j \in 1 .. Len(batch.original) : ValidInSlice(batch.sub, batch.original[j])
    BY <1>1, <1>3
  <2>3. slice \in Seq(XTW) /\ Len(slice) = Len(batch.original) /\ index \in 0 .. Len(slice)
    BY <1>1, <1>2, <1>3
  <2>4. QED
    BY <1>2, <2>1, <2>2, <2>3 DEF BatchTypes
<1>5. QED
  BY <1>2, <1>3, <1>4 DEF BatchInv, NothingDone, ZerosFound, PointsSoFar, SecondIndex, AtTheEnd

LEMMA InvertAllKeeps ==
  ASSUME BatchInv, InvertAll
  PROVE  BatchInv'
<1> DEFINE n == Len(slice)
           s == batch.original
           by == batch.by
           f == failingIndices'
<1>1. /\ by \in {"z", "y"} /\ s \in Seq(XTW) /\ n \in Nat /\ Len(s) = n /\ slice = s /\ index = 0
      /\ failingIndicesProcessed = 0 /\ DOMAIN slice = 1 .. n
      /\ \A j \in 1 .. n : s[j] \in XTW
  <2>1. slice \in Seq(XTW) /\ slice = s /\ by \in {"z", "y"} /\ index = 0 /\ failingIndicesProcessed = 0
    BY DEF BatchInv, BatchTypes, NothingDone, InvertAll
  <2>2. QED
    BY <2>1
<1>2. /\ slice' = [j \in DOMAIN slice |-> IF Coordinate(slice[j], by) = 0 THEN slice[j] ELSE WithInverted(slice[j], by)]
      /\ f = ZerosOf(slice, by)
      /\ nextFailingIndex' = IF f # <<>> THEN Head(f) ELSE Len(slice)
      /\ stage' = "loop" /\ batch' = batch /\ index' = index
      /\ failingIndicesProcessed' = failingIndicesProcessed
  BY Zenon DEF InvertAll
<1> HIDE DEF s, by, n, f
<1>3. slice' = [j \in 1 .. n |-> Inverted(s[j], by)]
  BY <1>1, <1>2 DEF Inverted
<1>4. \A j \in 1 .. n : Inverted(s[j], by) \in XTW
  BY <1>1, InvertedIs DEF Inverted
<1>5. slice' \in Seq(XTW) /\ Len(slice') = n
  <2>1. slice' \in [1 .. n -> XTW]
    BY <1>3, <1>4
  <2>2. QED
    BY <1>1, <2>1, SeqDef
<1>6. BatchTypes'
  <2>1. /\ batch \in [sub : BOOLEAN, by : {"z", "y"}, original : Seq(XTW)]
        /\ \A j \in 1 .. Len(batch.original) : ValidInSlice(batch.sub, batch.original[j])
        /\ Len(batch.original) = n
    BY DEF BatchInv, BatchTypes, n
  <2>2. index' \in 0 .. n
    BY <1>1, <1>2
  <2>3. QED
    <3>1. /\ batch' \in [sub : BOOLEAN, by : {"z", "y"}, original : Seq(XTW)]
          /\ \A j \in 1 .. Len(batch'.original) : ValidInSlice(batch'.sub, batch'.original[j])
          /\ Len(batch'.original) = n
      BY <1>2, <2>1
    <3>2. index' \in 0 .. Len(slice')
      BY <1>5, <2>2
    <3>3. Len(slice') = Len(batch'.original)
      BY <1>5, <3>1
    <3>4. QED
      BY <1>2, <1>5, <3>1, <3>2, <3>3 DEF BatchTypes
<1>7. ZerosUpTo(f, s, by, n)
  <2>1. ZerosUpTo(ZerosOf(s, by), s, by, Len(s))
    BY <1>1, ZerosRight
  <2>2. QED
    BY <1>1, <1>2, <2>1
<1>8. ZerosFound'
  BY <1>2, <1>5, <1>7 DEF ZerosFound, f, s, by
<1>9. PointsSoFar'
  <2>1. \A j \in 0 .. n - 1 : j + 1 \in 1 .. n /\ ~(j < index')
    BY <1>1, <1>2
  <2>2. \A j \in 0 .. n - 1 : slice'[j + 1] = Inverted(s[j + 1], by)
    BY <1>3, <2>1
  <2>3. batch'.original = s /\ batch'.by = by
    BY <1>2 DEF s, by
  <2>4. QED
    BY <1>5, <2>1, <2>2, <2>3 DEF PointsSoFar
<1>10. SecondIndex'
  <2>1. f \in Seq(Nat) /\ \A k \in 1 .. Len(f) : f[k] \in 0 .. n - 1
    BY <1>7 DEF ZerosUpTo
  <2>2. Len(f) \in Nat /\ (Len(f) = 0 <=> f = <<>>) /\ (f # <<>> => Head(f) = f[1])
    BY <2>1
  <2>3. nextFailingIndex' = IF 0 = Len(f) THEN n ELSE f[0 + 1]
    BY <1>2, <2>2 DEF n
  <2>4. \A k \in 1 .. Len(f) : ~(k <= 0) /\ ~(f[k] < 0)
    BY <1>1, <2>1, <2>2
  <2>5. 0 \in 0 .. Len(f) /\ failingIndicesProcessed' = 0 /\ index' = 0
    BY <1>1, <1>2, <2>2
  <2>6. QED
    BY <1>5, <2>3, <2>4, <2>5 DEF SecondIndex, NextFailing, f
<1>11. QED
  BY <1>2, <1>6, <1>8, <1>9, <1>10 DEF BatchInv, NothingDone, AtTheEnd

(* What both steps of the loop leave, given what they did to one point.     *)
LEMMA PointHandled ==
  ASSUME BatchInv, stage = "loop", index < Len(slice),
         slice' = [slice EXCEPT ![index + 1] = Result(batch.original[index + 1], batch.by)],
         index' = index + 1, batch' = batch, failingIndices' = failingIndices, stage' = "loop"
  PROVE  (BatchTypes /\ NothingDone /\ ZerosFound /\ PointsSoFar /\ AtTheEnd)' /\ Len(slice') = Len(slice)
<1> DEFINE n == Len(slice)
           s == batch.original
           by == batch.by
           new == Result(s[index + 1], by)
<1>1. /\ slice \in Seq(XTW) /\ n \in Nat /\ index \in 0 .. n /\ index + 1 \in 1 .. n /\ Len(s) = n
      /\ by \in {"z", "y"} /\ batch.sub \in BOOLEAN /\ ValidInSlice(batch.sub, s[index + 1])
      /\ index' \in 0 .. n
  <2>1. slice \in Seq(XTW) /\ Len(s) = n /\ index \in 0 .. n /\ by \in {"z", "y"} /\ batch.sub \in BOOLEAN
        /\ \A j \in 1 .. Len(s) : ValidInSlice(batch.sub, s[j])
    BY DEF BatchInv, BatchTypes
  <2>2. n \in Nat
    BY <2>1
  <2> HIDE DEF n
  <2>3. index + 1 \in 1 .. n /\ index + 1 \in 0 .. n
    BY <2>1, <2>2 DEF n
  <2>4. QED
    BY <2>1, <2>2, <2>3
<1>2. new \in XTW
  BY <1>1, ResultRight
<1>3. slice' = [slice EXCEPT ![index + 1] = new]
  OBVIOUS
<1> HIDE DEF new
<1>4. /\ slice' \in Seq(XTW) /\ Len(slice') = n
      /\ slice'[index + 1] = new
      /\ \A j \in 1 .. n : j # index + 1 => slice'[j] = slice[j]
  BY <1>1, <1>2, <1>3, ExceptSeq
<1>5. BatchTypes'
  <2>1. /\ batch \in [sub : BOOLEAN, by : {"z", "y"}, original : Seq(XTW)]
        /\ \A j \in 1 .. Len(batch.original) : ValidInSlice(batch.sub, batch.original[j])
    BY DEF BatchInv, BatchTypes
  <2>2. QED
    BY <1>1, <1>4, <2>1 DEF BatchTypes
<1>6. ZerosFound'
  BY <1>4 DEF BatchInv, ZerosFound
<1>7. PointsSoFar'
  <2>1. ASSUME NEW j \in 0 .. n - 1
        PROVE  slice'[j + 1] = IF j < index + 1 THEN Result(s[j + 1], by) ELSE Inverted(s[j + 1], by)
    <3>1. slice[j + 1] = IF j < index THEN Result(s[j + 1], by) ELSE Inverted(s[j + 1], by)
      BY DEF BatchInv, PointsSoFar
    <3>2. CASE j = index
      <4>1. j < index + 1
        BY <1>1, <3>2
      <4>2. QED
        BY <1>4, <3>2, <4>1 DEF new
    <3>3. CASE j # index
      <4>1. j + 1 \in 1 .. n /\ j + 1 # index + 1 /\ (j < index <=> j < index + 1)
        BY <1>1, <3>3
      <4>2. QED
        BY <1>4, <3>1, <4>1
    <3>4. QED
      BY <3>2, <3>3
  <2>2. batch'.original = s /\ batch'.by = by
    OBVIOUS
  <2>3. QED
    BY <1>4, <2>1, <2>2 DEF PointsSoFar
<1>8. QED
  BY <1>4, <1>5, <1>6, <1>7 DEF NothingDone, AtTheEnd

LEMMA FinishPointKeeps ==
  ASSUME BatchInv, FinishPoint
  PROVE  BatchInv'
<1> DEFINE c == batch.original[index + 1]
           by == batch.by
<1>1. /\ stage = "loop" /\ index < Len(slice) /\ index # nextFailingIndex
      /\ slice' = [slice EXCEPT ![index + 1] = Finished(slice[index + 1], by)]
      /\ index' = index + 1 /\ batch' = batch /\ failingIndices' = failingIndices /\ stage' = "loop"
      /\ nextFailingIndex' = nextFailingIndex /\ failingIndicesProcessed' = failingIndicesProcessed
  BY DEF FinishPoint
<1>2. Coordinate(c, by) # 0 /\ index \in 0 .. Len(slice) - 1
  BY <1>1, NextFailingIsNextZero
<1>3. slice[index + 1] = WithInverted(c, by)
  <2>1. ~(index < index)
    BY <1>2
  <2>2. slice[index + 1] = Inverted(c, by)
    BY <1>1, <1>2, <2>1 DEF BatchInv, PointsSoFar
  <2>3. QED
    BY <1>2, <2>2 DEF Inverted
<1>4. Finished(slice[index + 1], by) = Result(c, by)
  BY <1>2, <1>3 DEF Result
<1>5. (BatchTypes /\ NothingDone /\ ZerosFound /\ PointsSoFar /\ AtTheEnd)' /\ Len(slice') = Len(slice)
  BY <1>1, <1>4, PointHandled
<1>6. SecondIndex'
  <2> DEFINE m == Len(failingIndices)
  <2>1. /\ failingIndicesProcessed \in 0 .. m
        /\ \A k \in 1 .. m : k <= failingIndicesProcessed <=> failingIndices[k] < index
        /\ nextFailingIndex = IF failingIndicesProcessed = m THEN Len(slice) ELSE failingIndices[failingIndicesProcessed + 1]
        /\ ZerosUpTo(failingIndices, batch.original, by, Len(slice))
    BY <1>1 DEF BatchInv, SecondIndex, NextFailing, ZerosFound
  <2>2. \A k \in 1 .. m : failingIndices[k] # index /\ failingIndices[k] \in Nat
    BY <1>2, <2>1 DEF ZerosUpTo
  <2>3. index \in Nat
    BY <1>2
  <2> HIDE DEF m
  <2>4. \A k \in 1 .. m : k <= failingIndicesProcessed <=> failingIndices[k] < index + 1
    BY <2>1, <2>2, <2>3
  <2>5. QED
    BY <1>1, <1>5, <2>1, <2>4 DEF SecondIndex, NextFailing, m
<1>7. QED
  BY <1>5, <1>6 DEF BatchInv

LEMMA FailingPointKeeps ==
  ASSUME BatchInv, NEW panics \in BOOLEAN, FailingPoint(panics)
  PROVE  BatchInv'
<1> DEFINE c == batch.original[index + 1]
           by == batch.by
           P == IF IsNaP_xtw(c) THEN IF panics THEN Panic ELSE xtw(0, 0, 0, 0) ELSE AtInfinityInBatch(c)
<1>1. stage = "loop" /\ index < Len(slice) /\ index = nextFailingIndex
  BY DEF FailingPoint
<1>2. /\ index \in 0 .. Len(slice) - 1 /\ index + 1 \in 1 .. Len(batch.original)
      /\ Coordinate(c, by) = 0
      /\ failingIndicesProcessed < Len(failingIndices)
      /\ failingIndices[failingIndicesProcessed + 1] = index
  BY <1>1, NextFailingIsNextZero
<1>3. slice[index + 1] = c
  <2>1. ~(index < index)
    BY <1>2
  <2>2. slice[index + 1] = Inverted(c, by)
    BY <1>1, <1>2, <2>1 DEF BatchInv, PointsSoFar
  <2>3. QED
    BY <1>2, <2>2 DEF Inverted
<1>4. /\ failingIndicesProcessed' = failingIndicesProcessed + 1
      /\ nextFailingIndex' = NextFailing(failingIndicesProcessed')
      /\ panics => IsNaP_xtw(c)
      /\ IF P = Panic THEN stage' = (IF panics THEN "handler panicked" ELSE "panic") /\ UNCHANGED <<slice, index>>
         ELSE slice' = [slice EXCEPT ![index + 1] = P] /\ index' = index + 1 /\ stage' = stage
      /\ batch' = batch /\ failingIndices' = failingIndices
  BY <1>3 DEF FailingPoint
<1>5. P = IF panics THEN Panic ELSE Result(c, by)
  <2>1. CASE IsNaP_xtw(c)
    BY <1>2, <2>1 DEF Result
  <2>2. CASE ~IsNaP_xtw(c)
    <3>1. batch.sub \in BOOLEAN /\ by \in {"z", "y"} /\ ValidInSlice(batch.sub, c)
      BY <1>2 DEF BatchInv, BatchTypes
    <3>2. ~batch.sub /\ (IsE1_xtw(c) \/ IsE2_xtw(c)) /\ ~(IsE1_xtw(c) /\ IsE2_xtw(c))
      BY <1>2, <2>2, <3>1, ZeroCoordinate
    <3>3. CASE IsE1_xtw(c)
      <4>1. AtInfinityInBatch(c) = infinitePoint1_xtw_base
        BY <3>2, <3>3 DEF AtInfinityInBatch
      <4>2. Result(c, by) = infinitePoint1_xtw_base
        BY <1>2, <2>2, <3>3 DEF Result
      <4>3. QED
        BY <1>4, <2>2, <4>1, <4>2
    <3>4. CASE ~IsE1_xtw(c)
      <4>1. AtInfinityInBatch(c) = infinitePoint2_xtw_base
        BY <3>2, <3>4 DEF AtInfinityInBatch
      <4>2. Result(c, by) = infinitePoint2_xtw_base
        BY <1>2, <2>2, <3>4 DEF Result
      <4>3. QED
        BY <1>4, <2>2, <4>1, <4>2
    <3>5. QED
      BY <3>3, <3>4
  <2>3. QED
    BY <2>1, <2>2
<1>6. Result(c, by) # Panic
  <2>1. batch.sub \in BOOLEAN /\ by \in {"z", "y"} /\ ValidInSlice(batch.sub, c)
    BY <1>2 DEF BatchInv, BatchTypes
  <2>2. Result(c, by) \in XTW
    BY <2>1, ResultRight
  <2>3. QED
    BY <2>2, NoPanic
<1> HIDE DEF P
<1>7. CASE panics
  <2>1. stage' = "handler panicked" /\ slice' = slice /\ index' = index
    BY <1>4, <1>5, <1>7
  <2>2. BatchTypes'
    BY <1>4, <2>1 DEF BatchInv, BatchTypes
  <2>3. ZerosFound' /\ PointsSoFar'
    BY <1>1, <1>4, <2>1 DEF BatchInv, ZerosFound, PointsSoFar
  <2>4. QED
    BY <2>1, <2>2, <2>3 DEF BatchInv, NothingDone, SecondIndex, AtTheEnd
<1>8. CASE ~panics
  <2>1. slice' = [slice EXCEPT ![index + 1] = Result(c, by)] /\ index' = index + 1 /\ stage' = "loop"
    BY <1>1, <1>4, <1>5, <1>6, <1>8
  <2>2. (BatchTypes /\ NothingDone /\ ZerosFound /\ PointsSoFar /\ AtTheEnd)' /\ Len(slice') = Len(slice)
    BY <1>1, <1>4, <2>1, PointHandled
  <2>3. SecondIndex'
    <3> DEFINE m == Len(failingIndices)
               i == failingIndicesProcessed
    <3>1. /\ i \in 0 .. m
          /\ \A k \in 1 .. m : k <= i <=> failingIndices[k] < index
          /\ ZerosUpTo(failingIndices, batch.original, by, Len(slice))
      BY <1>1 DEF BatchInv, SecondIndex, ZerosFound
    <3>2. failingIndices \in Seq(Nat)
      BY <3>1 DEF ZerosUpTo
    <3>3. /\ m \in Nat /\ \A k \in 1 .. m : failingIndices[k] \in Nat
          /\ \A j, k \in 1 .. m : j < k => failingIndices[j] < failingIndices[k]
      <4>1. \A j, k \in 1 .. m : j < k => failingIndices[j] < failingIndices[k]
        BY <3>1 DEF ZerosUpTo
      <4>2. m \in Nat /\ \A k \in 1 .. m : failingIndices[k] \in Nat
        BY <3>2
      <4>3. QED
        BY <4>1, <4>2
    <3>4. index \in Nat /\ i < m /\ failingIndices[i + 1] = index
      BY <1>2
    <3> HIDE DEF m, i
    <3>5. i + 1 \in 0 .. m /\ i + 1 \in 1 .. m
      BY <3>1, <3>3, <3>4
    <3>6. ASSUME NEW k \in 1 .. m
          PROVE  k <= i + 1 <=> failingIndices[k] < index + 1
      <4>1. CASE k <= i
        <5>1. failingIndices[k] < index /\ k <= i + 1
          BY <3>1, <4>1
        <5>2. QED
          BY <3>3, <3>4, <5>1
      <4>2. CASE k = i + 1
        BY <3>4, <3>5, <4>2
      <4>3. CASE k > i + 1
        <5>1. failingIndices[i + 1] < failingIndices[k]
          BY <3>3, <3>5, <4>3
        <5>2. failingIndices[k] \in Nat /\ ~(failingIndices[k] < index + 1)
          BY <3>3, <3>4, <5>1
        <5>3. ~(k <= i + 1)
          BY <3>5, <4>3
        <5>4. QED
          BY <5>2, <5>3
      <4>4. QED
        BY <3>1, <4>1, <4>2, <4>3
    <3>7. failingIndicesProcessed' = i + 1 /\ nextFailingIndex' = NextFailing(failingIndicesProcessed')
      BY <1>4 DEF i
    <3>8. NextFailing(failingIndicesProcessed)' = NextFailing(failingIndicesProcessed')
      BY <1>4, <2>2 DEF NextFailing
    <3>9. QED
      BY <1>4, <2>1, <3>5, <3>6, <3>7, <3>8 DEF SecondIndex, m
  <2>4. QED
    BY <2>2, <2>3 DEF BatchInv
<1>9. QED
  BY <1>7, <1>8

(* The inductive invariant of BatchNormalizeForZ and BatchNormalizeForY.    *)
THEOREM BatchInvariance == BatchSpec => []BatchInv
<1> DEFINE Start == \E sub \in BOOLEAN, by \in {"z", "y"}, n \in Nat :
                      \E original \in [1 .. n -> [x : Fe, y : Fe, t : Fe, z : Fe]] :
                        /\ \A j \in 1 .. n : ValidInSlice(sub, original[j])
                        /\ BatchInit(sub, by, original)
<1>1. Start => BatchInv
  BY BatchStarts
<1>2. ASSUME BatchInv, [BatchNext]_batchVars
      PROVE  BatchInv'
  <2>1. CASE InvertAll
    BY <1>2, <2>1, InvertAllKeeps
  <2>2. CASE FinishPoint
    BY <1>2, <2>2, FinishPointKeeps
  <2>3. CASE \E panics \in BOOLEAN : FailingPoint(panics)
    BY <1>2, <2>3, FailingPointKeeps
  <2>4. CASE Return
    <3>1. /\ stage' = "done" /\ stage = "loop" /\ index = Len(slice) /\ batch' = batch /\ slice' = slice
          /\ failingIndices' = failingIndices /\ index' = index
      BY <2>4 DEF Return, loopVars
    <3>2. BatchTypes'
      BY <1>2, <3>1 DEF BatchInv, BatchTypes
    <3>3. ZerosFound' /\ PointsSoFar'
      BY <1>2, <3>1 DEF BatchInv, ZerosFound, PointsSoFar
    <3>4. QED
      BY <3>1, <3>2, <3>3 DEF BatchInv, NothingDone, SecondIndex, AtTheEnd
  <2>5. CASE UNCHANGED batchVars
    <3>1. /\ batch' = batch /\ slice' = slice /\ failingIndices' = failingIndices /\ index' = index
          /\ nextFailingIndex' = nextFailingIndex /\ failingIndicesProcessed' = failingIndicesProcessed
          /\ stage' = stage
      BY <2>5 DEF batchVars, loopVars
    <3>2. QED
      BY <1>2, <3>1 DEF BatchInv, BatchTypes, NothingDone, ZerosFound, PointsSoFar, SecondIndex, AtTheEnd, NextFailing
  <2>6. QED
    BY <1>2, <2>1, <2>2, <2>3, <2>4, <2>5 DEF BatchNext
<1> HIDE DEF Start
<1>3. BatchSpec => Start /\ [][BatchNext]_batchVars
  BY DEF BatchSpec, Start
<1>4. QED
  BY <1>1, <1>2, <1>3, PTL

LEMMA BatchInvIsEnough == BatchInv => NormalizedSoFar
<1> SUFFICES ASSUME BatchInv PROVE NormalizedSoFar
  OBVIOUS
<1> DEFINE n == Len(slice)
           s == batch.original
           by == batch.by
           sub == batch.sub
<1>1. /\ stage # "panic" /\ by \in {"z", "y"} /\ sub \in BOOLEAN /\ n \in Nat /\ Len(s) = n
      /\ index \in 0 .. n
      /\ \A j \in 1 .. n : ValidInSlice(sub, s[j])
  <2>1. slice \in Seq(XTW)
    BY DEF BatchInv, BatchTypes
  <2>2. n \in Nat
    BY <2>1
  <2>3. /\ batch \in [sub : BOOLEAN, by : {"z", "y"}, original : Seq(XTW)]
        /\ \A j \in 1 .. Len(s) : ValidInSlice(sub, s[j])
        /\ n = Len(s) /\ index \in 0 .. n
        /\ stage \in {"invert", "loop", "done", "handler panicked"}
    BY DEF BatchInv, BatchTypes
  <2> HIDE DEF n, s, sub, by
  <2>4. sub \in BOOLEAN /\ by \in {"z", "y"} /\ stage # "panic"
    BY <2>3 DEF sub, by
  <2>5. QED
    BY <2>2, <2>3, <2>4
<1>2. stage = "done" => index = n
  BY DEF BatchInv, AtTheEnd
<1>3. ASSUME stage # "invert", NEW j \in 0 .. n - 1
      PROVE  LET c == s[j + 1]
                 single == Single(sub, c, by)
                 hidden == Hidden(c, by)
                 fails == \E k \in DOMAIN failingIndices : failingIndices[k] = j
             IN  /\ fails <=> ~single.ok /\ ~hidden
                 /\ j < index => IF hidden THEN IsNaP_xtw(slice[j + 1]) /\ slice[j + 1].z = 1
                                 ELSE slice[j + 1] = single.c
                 /\ j >= index => IF fails THEN slice[j + 1] = c ELSE slice[j + 1] = WithInverted(c, by)
  <2> DEFINE c == s[j + 1]
             single == Single(sub, c, by)
             hidden == Hidden(c, by)
             fails == \E k \in DOMAIN failingIndices : failingIndices[k] = j
             d == Result(c, by)
  <2>1. ValidInSlice(sub, c) /\ (j >= index <=> ~(j < index))
    BY <1>1
  <2>2. fails <=> Coordinate(c, by) = 0
    <3>1. ZerosUpTo(failingIndices, s, by, n)
      BY <1>3 DEF BatchInv, ZerosFound
    <3>2. failingIndices \in Seq(Nat)
      BY <3>1 DEF ZerosUpTo
    <3>3. DOMAIN failingIndices = 1 .. Len(failingIndices)
      BY <3>2
    <3>4. QED
      BY <3>1, <3>3 DEF ZerosUpTo
  <2>3. /\ Coordinate(c, by) = 0 <=> ~single.ok /\ ~hidden
        /\ ~hidden => d = single.c
        /\ hidden => IsNaP_xtw(d) /\ d.z = 1
    BY <1>1, <2>1, ResultRight
  <2>4. slice[j + 1] = IF j < index THEN d ELSE Inverted(c, by)
    BY <1>3 DEF BatchInv, PointsSoFar
  <2> HIDE DEF c, single, hidden, fails, d
  <2>5. fails <=> ~single.ok /\ ~hidden
    BY <2>2, <2>3
  <2>6. j < index => IF hidden THEN IsNaP_xtw(slice[j + 1]) /\ slice[j + 1].z = 1 ELSE slice[j + 1] = single.c
    BY <2>3, <2>4
  <2>7. j >= index => IF fails THEN slice[j + 1] = c ELSE slice[j + 1] = WithInverted(c, by)
    BY <2>1, <2>2, <2>4 DEF Inverted
  <2>8. QED
    BY <2>5, <2>6, <2>7 DEF c, single, hidden, fails
<1>4. QED
  BY <1>1, <1>2, <1>3, Zenon DEF NormalizedSoFar, Single, Hidden

(* Every point before index is as normalizing it alone leaves it, the      *)
(* failing indices are the indices where that fails, and no case for which *)
(* BatchNormalizeForZ and BatchNormalizeForY panic occurs.                  *)
THEOREM NormalizedCorrect == BatchSpec => []NormalizedSoFar
BY BatchInvariance, BatchInvIsEnough, PTL

-----------------------------------------------------------------------------
(* The handler of NaPs: the inductive invariant.                            *)

Frame == [old : Int, old_handler_ptr : Int, error_bit : BOOLEAN,
          result : {"none", "true", "false"}, met : BOOLEAN]

HandlerTypes ==
  /\ current_error_handler \in Int /\ installed \in UserHandlers
  /\ frames \in Seq(Frame)
  /\ nested \in [Goroutines -> Seq(Nat)]
  /\ handling \in [Goroutines -> Int]

Depth(g) == Len(nested[g])

(* The handler that the k-th of the nested calls has replaced.              *)
Outer(g, k) == IF k = 1 THEN installed ELSE nested[g][k - 1]

(* The calls are nested, later ones in earlier ones.                        *)
Nesting(g) ==
  /\ \A k \in 1 .. Depth(g) :
       /\ nested[g][k] \in 1 .. Len(frames)
       /\ frames[nested[g][k]].old = Outer(g, k)
       /\ frames[nested[g][k]].old_handler_ptr \in {Nil, Outer(g, k)}
  /\ \A j, k \in 1 .. Depth(g) : j < k => nested[g][j] < nested[g][k]
  /\ current_error_handler = Outer(g, Depth(g) + 1)

(* While the innermost function runs or a handler does, all functions do.   *)
AllWatching(g) ==
  \A k \in 1 .. Depth(g) :
    k < Depth(g) \/ handling[g] # None => Watching(nested[g][k])

(* A NaP is on its way to the k-th call: its closure or that of an inner    *)
(* call runs.                                                               *)
Marked(g, k) == \E j \in k .. Depth(g) : handling[g] = nested[g][j]

Noted(g) ==
  /\ handling[g] \in {None, Panicking} \cup {Outer(g, k) : k \in 1 .. Depth(g) + 1}
  /\ \A k \in 1 .. Depth(g) :
       IF Marked(g, k) THEN frames[nested[g][k]].met
       ELSE frames[nested[g][k]].error_bit = frames[nested[g][k]].met

ResultsRight ==
  \A f \in 1 .. Len(frames) :
    frames[f].result # "none" => (frames[f].result = "true" <=> frames[f].met)

HInv(g) == HandlerTypes /\ Nesting(g) /\ AllWatching(g) /\ Noted(g) /\ ResultsRight

-----------------------------------------------------------------------------
LEMMA Numbers ==
  /\ UserHandlers = {0, -1} /\ Nil = -2 /\ None = -3 /\ Panicking = -4
  /\ Nil \notin Nat /\ None \notin Nat /\ Panicking \notin Nat
  /\ Nil \notin UserHandlers /\ None \notin UserHandlers /\ Panicking \notin UserHandlers
  /\ None # Panicking
BY DEF UserHandlers, Returns, Panics, Nil, None, Panicking

(* Simple facts about the variables.                                        *)
LEMMA StateFacts ==
  ASSUME NEW g, Goroutines = {g}, HInv(g)
  PROVE  /\ Depth(g) \in Nat /\ Len(frames) \in Nat
         /\ DOMAIN frames = 1 .. Len(frames)
         /\ DOMAIN nested[g] = 1 .. Depth(g)
         /\ nested[g] \in Seq(Nat)
         /\ ToSet(nested[g]) = {nested[g][k] : k \in 1 .. Depth(g)}
         /\ \A k \in 1 .. Depth(g) : nested[g][k] \in Nat \ {0}
         /\ \A f \in 1 .. Len(frames) : frames[f] \in Frame
         /\ \A k \in 1 .. Depth(g) + 1 : Outer(g, k) \in UserHandlers \cup Nat
         /\ nested[g] # <<>> => Depth(g) # 0 /\ Innermost(g) = nested[g][Depth(g)]
         /\ nested[g] = <<>> => Depth(g) = 0
<1>1. /\ nested[g] \in Seq(Nat) /\ frames \in Seq(Frame) /\ installed \in UserHandlers
  BY DEF HInv, HandlerTypes
<1>2. /\ Depth(g) \in Nat /\ Len(frames) \in Nat /\ DOMAIN frames = 1 .. Len(frames)
      /\ DOMAIN nested[g] = 1 .. Depth(g)
      /\ \A f \in 1 .. Len(frames) : frames[f] \in Frame
  BY <1>1, LenProperties, ElementOfSeq DEF Depth
<1>3. \A k \in 1 .. Depth(g) : nested[g][k] \in Nat \ {0}
  BY <1>2 DEF HInv, Nesting
<1>4. \A k \in 1 .. Depth(g) + 1 : Outer(g, k) \in UserHandlers \cup Nat
  BY <1>1, <1>2, <1>3 DEF Outer
<1>5. ToSet(nested[g]) = {nested[g][k] : k \in 1 .. Depth(g)}
  BY <1>2 DEF ToSet
<1>6. /\ nested[g] # <<>> => Depth(g) # 0 /\ Innermost(g) = nested[g][Depth(g)]
      /\ nested[g] = <<>> => Depth(g) = 0
  BY <1>1, EmptySeq DEF Innermost, Last, Depth
<1>7. QED
  BY <1>1, <1>2, <1>3, <1>4, <1>5, <1>6

(* One frame changes.                                                       *)
LEMMA FrameChanges ==
  ASSUME frames \in Seq(Frame), NEW e \in 1 .. Len(frames), NEW r \in Frame,
         frames' = [frames EXCEPT ![e] = r]
  PROVE  /\ frames' \in Seq(Frame) /\ Len(frames') = Len(frames)
         /\ frames'[e] = r
         /\ \A f \in 1 .. Len(frames) : f # e => frames'[f] = frames[f]
BY ExceptSeq, LenProperties

(* Frames are numbered from the outermost, so one frame is one call.        *)
LEMMA FramesDiffer ==
  ASSUME NEW g, Goroutines = {g}, HInv(g),
         NEW j \in 1 .. Depth(g), NEW k \in 1 .. Depth(g), nested[g][j] = nested[g][k]
  PROVE  j = k
<1>1. /\ Depth(g) \in Nat /\ nested[g][j] \in Nat /\ nested[g][k] \in Nat
      /\ (j < k => nested[g][j] < nested[g][k]) /\ (k < j => nested[g][k] < nested[g][j])
  BY StateFacts DEF HInv, Nesting
<1>2. QED
  BY <1>1

(* The frame of the innermost call.                                         *)
LEMMA InnermostIsFrame ==
  ASSUME NEW g, Goroutines = {g}, HInv(g), nested[g] # <<>>
  PROVE  /\ Innermost(g) \in 1 .. Len(frames)
         /\ frames[Innermost(g)] \in Frame
         /\ frames[Innermost(g)].old_handler_ptr \in {Nil, frames[Innermost(g)].old}
         /\ handling[g] = None => frames[Innermost(g)].error_bit = frames[Innermost(g)].met
<1> DEFINE d == Depth(g)
<1>1. d \in Nat \ {0} /\ d \in 1 .. d /\ Innermost(g) = nested[g][d]
  BY StateFacts
<1>2. /\ nested[g][d] \in 1 .. Len(frames)
      /\ frames[nested[g][d]].old_handler_ptr \in {Nil, frames[nested[g][d]].old}
  BY <1>1 DEF HInv, Nesting
<1>3. frames[nested[g][d]] \in Frame
  BY <1>2, StateFacts
<1>4. handling[g] = None => ~Marked(g, d)
  <2>1. \A j \in d .. d : nested[g][j] \in Nat
    BY <1>1, StateFacts
  <2>2. QED
    BY <2>1, Numbers DEF Marked
<1>5. QED
  BY <1>1, <1>2, <1>3, <1>4 DEF HInv, Noted

-----------------------------------------------------------------------------
LEMMA SetHandlerStep ==
  ASSUME NEW g, Goroutines = {g}, HInv(g), NEW h \in UserHandlers, SetNaPErrorHandler(g, h)
  PROVE  HInv(g)'
<1>1. /\ current_error_handler' = h /\ installed' = h /\ UNCHANGED <<frames, nested, handling>>
      /\ handling[g] = None /\ Depth(g) = 0
  BY StateFacts DEF SetNaPErrorHandler, Runs
<1>2. HandlerTypes'
  BY <1>1, Numbers DEF HInv, HandlerTypes
<1>3. QED
  BY <1>1, <1>2 DEF HInv, Nesting, AllWatching, Noted, ResultsRight, Depth, Outer

LEMMA InstallStep ==
  ASSUME NEW g, Goroutines = {g}, HInv(g), Install(g)
  PROVE  HInv(g)'
<1> DEFINE d == Depth(g)
           n == Len(frames)
           new == [old |-> current_error_handler, old_handler_ptr |-> Nil,
                   error_bit |-> FALSE, result |-> "none", met |-> FALSE]
<1>1. /\ current_error_handler' = n + 1 /\ frames' = Append(frames, new)
      /\ nested' = [nested EXCEPT ![g] = Append(@, n + 1)]
      /\ UNCHANGED <<handling, installed>>
      /\ handling[g] = None /\ (d # 0 => Watching(nested[g][d]))
  BY StateFacts DEF Install, Runs, Depth
<1>2. /\ d \in Nat /\ n \in Nat /\ nested[g] \in Seq(Nat) /\ frames \in Seq(Frame)
      /\ \A k \in 1 .. d : nested[g][k] \in 1 .. n
  BY StateFacts DEF HInv, HandlerTypes, Nesting
<1>3. new \in Frame
  BY Numbers DEF HInv, HandlerTypes, Frame
<1>4. /\ frames' \in Seq(Frame) /\ Len(frames') = n + 1
      /\ \A f \in 1 .. n : frames'[f] = frames[f]
      /\ frames'[n + 1] = new
  BY <1>1, <1>2, <1>3, AppendProperties
<1>5. /\ nested'[g] \in Seq(Nat) /\ Depth(g)' = d + 1
      /\ \A k \in 1 .. d : nested'[g][k] = nested[g][k]
      /\ nested'[g][d + 1] = n + 1
  <2>1. nested'[g] = Append(nested[g], n + 1)
    BY <1>1 DEF HInv, HandlerTypes
  <2>2. QED
    BY <1>2, <2>1, AppendProperties DEF Depth
<1> HIDE DEF new, d, n
<1>6. \A k \in 1 .. d + 1 : Outer(g, k)' = Outer(g, k)
  <2>1. \A k \in 1 .. d + 1 : k # 1 => k - 1 \in 1 .. d
    BY <1>2
  <2>2. QED
    BY <1>1, <1>5, <2>1 DEF Outer
<1>7. ASSUME NEW k \in 1 .. d + 1
       PROVE  \/ /\ k \in 1 .. d /\ nested'[g][k] = nested[g][k] /\ nested[g][k] \in 1 .. n
                 /\ frames'[nested'[g][k]] = frames[nested[g][k]]
              \/ /\ k = d + 1 /\ nested'[g][k] = n + 1
                 /\ frames'[nested'[g][k]] = new
  <2>1. CASE k \in 1 .. d
    <3>1. nested'[g][k] = nested[g][k] /\ nested[g][k] \in 1 .. n
      BY <1>2, <1>5, <2>1
    <3>2. QED
      BY <1>4, <2>1, <3>1
  <2>2. CASE k = d + 1
    BY <1>4, <1>5, <2>2
  <2>3. QED
    BY <1>2, <2>1, <2>2
<1>8. HandlerTypes'
  BY <1>1, <1>2, <1>4, <1>5 DEF HInv, HandlerTypes
<1>9. Nesting(g)'
  <2>1. ASSUME NEW k \in 1 .. d + 1
        PROVE  /\ nested'[g][k] \in 1 .. Len(frames')
               /\ frames'[nested'[g][k]].old = Outer(g, k)'
               /\ frames'[nested'[g][k]].old_handler_ptr \in {Nil, Outer(g, k)'}
    <3>1. CASE k \in 1 .. d
      <4>1. /\ nested'[g][k] \in 1 .. n /\ frames'[nested'[g][k]] = frames[nested[g][k]]
            /\ Outer(g, k)' = Outer(g, k)
        BY <1>2, <1>6, <1>7, <3>1
      <4>2. nested'[g][k] \in 1 .. Len(frames')
        BY <1>2, <1>4, <4>1
      <4>3. /\ frames[nested[g][k]].old = Outer(g, k)
            /\ frames[nested[g][k]].old_handler_ptr \in {Nil, Outer(g, k)}
        BY <3>1 DEF HInv, Nesting, d
      <4>4. QED
        BY <4>1, <4>2, <4>3
    <3>2. CASE k = d + 1
      <4>1. nested'[g][k] = n + 1 /\ frames'[nested'[g][k]] = new /\ Outer(g, k)' = Outer(g, k)
        BY <1>4, <1>5, <1>6, <3>2
      <4>2. nested'[g][k] \in 1 .. Len(frames')
        BY <1>2, <1>4, <4>1
      <4>3. new.old = Outer(g, k) /\ new.old_handler_ptr = Nil
        BY <3>2 DEF HInv, Nesting, new, d
      <4>4. QED
        BY <4>1, <4>2, <4>3
    <3>3. QED
      BY <1>2, <3>1, <3>2
  <2>2. ASSUME NEW j \in 1 .. d + 1, NEW k \in 1 .. d + 1, j < k
        PROVE  nested'[g][j] < nested'[g][k]
    <3>1. j \in 1 .. d /\ nested'[g][j] = nested[g][j] /\ nested[g][j] \in 1 .. n
      BY <1>2, <1>7, <2>2
    <3>2. CASE k \in 1 .. d
      BY <1>5, <2>2, <3>1, <3>2 DEF HInv, Nesting, d
    <3>3. CASE k = d + 1
      BY <1>2, <1>5, <3>1, <3>3
    <3>4. QED
      BY <1>2, <3>2, <3>3
  <2>3. current_error_handler' = Outer(g, Depth(g) + 1)'
    BY <1>1, <1>2, <1>5 DEF Outer, Depth
  <2>4. QED
    BY <1>5, <2>1, <2>2, <2>3 DEF Nesting
<1>10. AllWatching(g)'
  <2>1. ASSUME NEW k \in 1 .. d + 1, k < d + 1
        PROVE  Watching(nested[g][k])'
    <3>1. k \in 1 .. d /\ Watching(nested[g][k])
      BY <1>1, <1>2, <2>1 DEF HInv, AllWatching, d
    <3>2. QED
      BY <1>2, <1>4, <1>5, <3>1 DEF Watching
  <2>2. QED
    BY <1>1, <1>5, <2>1 DEF AllWatching
<1>11. Noted(g)'
  <2>1. \A k \in 1 .. d + 1 : ~Marked(g, k)' /\ ~Marked(g, k)
    <3>1. \A j \in 1 .. d + 1 : j \in 1 .. d \/ j = d + 1
      BY <1>2
    <3>2. \A j \in 1 .. d + 1 : nested'[g][j] \in Nat /\ (j \in 1 .. d => nested[g][j] \in Nat)
      BY <1>2, <1>7
    <3>3. handling[g] \notin Nat /\ handling'[g] \notin Nat
      BY <1>1, Numbers
    <3>4. ASSUME NEW k \in 1 .. d + 1
          PROVE  ~Marked(g, k)'
      <4>1. \A j \in k .. d + 1 : j \in 1 .. d + 1
        BY <1>2
      <4>2. QED
        BY <1>5, <3>2, <3>3, <4>1 DEF Marked
    <3>5. ASSUME NEW k \in 1 .. d + 1
          PROVE  ~Marked(g, k)
      <4>1. \A j \in k .. d : j \in 1 .. d /\ j \in 1 .. d + 1
        BY <1>2
      <4>2. QED
        BY <3>2, <3>3, <4>1 DEF Marked, d
    <3>6. QED
      BY <3>4, <3>5
  <2>2. \A k \in 1 .. d : frames[nested[g][k]].error_bit = frames[nested[g][k]].met
    <3>1. \A k \in 1 .. d : k \in 1 .. d + 1
      BY <1>2
    <3>2. QED
      BY <2>1, <3>1 DEF HInv, Noted, d
  <2>3. \A k \in 1 .. d + 1 : frames'[nested'[g][k]].error_bit = frames'[nested'[g][k]].met
    <3>1. new.error_bit = new.met
      BY DEF new
    <3>2. QED
      BY <1>7, <2>2, <3>1
  <2>4. QED
    BY <1>1, <1>5, <2>1, <2>3 DEF Noted
<1>12. ResultsRight'
  <2>1. \A f \in 1 .. n + 1 : f \in 1 .. n \/ f = n + 1
    BY <1>2
  <2>2. QED
    BY <1>4, <2>1 DEF HInv, ResultsRight, new, n
<1>13. QED
  BY <1>8, <1>9, <1>10, <1>11, <1>12 DEF HInv

(* A step that changes one frame of the innermost call, and not its old.      *)
LEMMA InnermostStep ==
  ASSUME NEW g, Goroutines = {g}, HInv(g), nested[g] # <<>>, Runs(g),
         UNCHANGED <<current_error_handler, nested, handling, installed>>,
         NEW r \in Frame, frames' = [frames EXCEPT ![Innermost(g)] = r],
         r.old = frames[Innermost(g)].old, r.old_handler_ptr \in {Nil, r.old},
         r.error_bit = frames[Innermost(g)].error_bit, r.met = frames[Innermost(g)].met,
         r.result # "none" => (r.result = "true" <=> r.met)
  PROVE  HInv(g)'
<1> DEFINE d == Depth(g)
           e == Innermost(g)
<1>1. /\ d \in Nat \ {0} /\ e = nested[g][d] /\ e \in 1 .. Len(frames) /\ handling[g] = None
      /\ frames \in Seq(Frame) /\ Len(frames) \in Nat
      /\ \A k \in 1 .. d : nested[g][k] \in 1 .. Len(frames)
  <2>1. /\ d \in Nat \ {0} /\ e = nested[g][d] /\ handling[g] = None
        /\ frames \in Seq(Frame) /\ Len(frames) \in Nat
        /\ \A k \in 1 .. d : nested[g][k] \in 1 .. Len(frames)
    BY StateFacts DEF HInv, HandlerTypes, Nesting, Runs
  <2>2. d \in 1 .. d
    BY <2>1
  <2>3. QED
    BY <2>1, <2>2
<1>2. /\ frames' \in Seq(Frame) /\ Len(frames') = Len(frames) /\ frames'[e] = r
      /\ \A f \in 1 .. Len(frames) : f # e => frames'[f] = frames[f]
  BY <1>1, FrameChanges
<1>3. Depth(g)' = d /\ nested'[g] = nested[g] /\ \A k \in 1 .. d + 1 : Outer(g, k)' = Outer(g, k)
  BY DEF Depth, Outer
<1> HIDE DEF e, d
<1>4. HandlerTypes'
  BY <1>2 DEF HInv, HandlerTypes
<1>5. \A k \in 1 .. d : /\ frames'[nested[g][k]].old = frames[nested[g][k]].old
                        /\ \/ frames'[nested[g][k]].old_handler_ptr = frames[nested[g][k]].old_handler_ptr
                           \/ frames'[nested[g][k]].old_handler_ptr \in {Nil, frames[nested[g][k]].old}
                        /\ frames'[nested[g][k]].error_bit = frames[nested[g][k]].error_bit
                        /\ frames'[nested[g][k]].met = frames[nested[g][k]].met
  BY <1>1, <1>2 DEF e
<1>6. Nesting(g)'
  <2>1. \A k \in 1 .. d : frames'[nested[g][k]].old_handler_ptr \in {Nil, Outer(g, k)}
    BY <1>5 DEF HInv, Nesting, d
  <2>2. current_error_handler' = Outer(g, Depth(g) + 1)'
    BY <1>1, <1>3 DEF HInv, Nesting, Outer, Depth, d
  <2>3. QED
    BY <1>1, <1>2, <1>3, <1>5, <2>1, <2>2 DEF HInv, Nesting, d
<1>7. AllWatching(g)'
  <2>1. ASSUME NEW k \in 1 .. d, k < d
        PROVE  Watching(nested[g][k])'
    <3>1. nested[g][k] # e
      BY <1>1, <2>1, FramesDiffer DEF d
    <3>2. Watching(nested[g][k])
      BY <2>1 DEF HInv, AllWatching, d
    <3>3. QED
      BY <1>1, <1>2, <1>3, <3>1, <3>2 DEF Watching
  <2>2. QED
    BY <1>1, <1>3, <2>1 DEF AllWatching
<1>8. Noted(g)'
  <2>1. \A k \in 1 .. d : Marked(g, k)' <=> Marked(g, k)
    BY <1>3 DEF Marked, d
  <2>2. handling'[g] \in {None, Panicking} \cup {Outer(g, k)' : k \in 1 .. d + 1}
    BY <1>1
  <2>3. QED
    BY <1>3, <1>5, <2>1, <2>2 DEF HInv, Noted, d
<1>9. ResultsRight'
  BY <1>1, <1>2 DEF HInv, ResultsRight
<1>10. QED
  BY <1>4, <1>6, <1>7, <1>8, <1>9 DEF HInv

LEMMA SetPointerStep ==
  ASSUME NEW g, Goroutines = {g}, HInv(g), SetPointer(g)
  PROVE  HInv(g)'
<1> DEFINE e == Innermost(g)
           r == [frames[e] EXCEPT !.old_handler_ptr = frames[e].old]
<1>1. /\ nested[g] # <<>> /\ Runs(g) /\ frames' = [frames EXCEPT ![e] = r]
      /\ UNCHANGED <<current_error_handler, nested, handling, installed>>
  BY DEF SetPointer
<1>2. frames[e] \in Frame
  BY <1>1, InnermostIsFrame
<1>3. /\ r \in Frame /\ r.old = frames[e].old /\ r.old_handler_ptr = frames[e].old
      /\ r.error_bit = frames[e].error_bit /\ r.met = frames[e].met /\ r.result = frames[e].result
  BY <1>2 DEF Frame
<1>4. frames[e].result # "none" => (frames[e].result = "true" <=> frames[e].met)
  BY <1>1, InnermostIsFrame DEF HInv, ResultsRight
<1> HIDE DEF e, r
<1>5. QED
  BY <1>1, <1>3, <1>4, InnermostStep DEF e

LEMMA TakeResultStep ==
  ASSUME NEW g, Goroutines = {g}, HInv(g), TakeResult(g)
  PROVE  HInv(g)'
<1> DEFINE e == Innermost(g)
           r == [frames[e] EXCEPT !.result = IF frames[e].error_bit THEN "true" ELSE "false"]
<1>1. /\ nested[g] # <<>> /\ Runs(g) /\ frames' = [frames EXCEPT ![e] = r]
      /\ UNCHANGED <<current_error_handler, nested, handling, installed>>
  BY DEF TakeResult
<1>2. frames[e] \in Frame /\ frames[e].old_handler_ptr \in {Nil, frames[e].old}
  BY <1>1, InnermostIsFrame
<1>3. /\ r \in Frame /\ r.old = frames[e].old /\ r.old_handler_ptr = frames[e].old_handler_ptr
      /\ r.error_bit = frames[e].error_bit /\ r.met = frames[e].met
      /\ r.result = IF frames[e].error_bit THEN "true" ELSE "false"
  BY <1>2 DEF Frame
<1>4. frames[e].error_bit = frames[e].met
  BY <1>1, InnermostIsFrame DEF Runs
<1>5. r.result = "true" <=> r.met
  BY <1>3, <1>4
<1> HIDE DEF e, r
<1>6. QED
  BY <1>1, <1>2, <1>3, <1>5, InnermostStep DEF e

LEMMA FunPanicsStep ==
  ASSUME NEW g, Goroutines = {g}, HInv(g), FunPanics(g) \/ RecoverFromPanic(g)
  PROVE  HInv(g)'
<1>1. /\ UNCHANGED <<current_error_handler, frames, nested, installed>>
      /\ {handling[g], handling'[g]} = {None, Panicking}
      /\ handling' \in [Goroutines -> Int]
      /\ handling'[g] # None => nested[g] # <<>> /\ Watching(Innermost(g))
  BY Numbers DEF HInv, HandlerTypes, FunPanics, RecoverFromPanic, Runs
<1>2. HandlerTypes'
  BY <1>1 DEF HInv, HandlerTypes
<1>3. Nesting(g)'
  BY <1>1 DEF HInv, Nesting, Depth, Outer
<1>4. AllWatching(g)'
  <2>1. ASSUME NEW k \in 1 .. Depth(g), k < Depth(g) \/ handling'[g] # None
        PROVE  Watching(nested[g][k])
    <3>1. CASE k < Depth(g)
      BY <3>1 DEF HInv, AllWatching
    <3>2. CASE ~(k < Depth(g))
      BY <1>1, <2>1, <3>2, StateFacts
    <3>3. QED
      BY <3>1, <3>2
  <2>2. QED
    BY <1>1, <2>1 DEF AllWatching, Depth, Watching
<1>5. Noted(g)'
  <2>1. ASSUME NEW k \in 1 .. Depth(g)
        PROVE  ~Marked(g, k) /\ ~Marked(g, k)'
    <3>1. \A j \in k .. Depth(g) : nested[g][j] \in Nat
      BY StateFacts
    <3>2. QED
      BY <1>1, <3>1, Numbers DEF Marked, Depth
  <2>2. Depth(g)' = Depth(g) /\ nested' = nested /\ frames' = frames
    BY <1>1 DEF Depth
  <2>3. \A k \in 1 .. Depth(g) : frames[nested[g][k]].error_bit = frames[nested[g][k]].met
    BY <2>1 DEF HInv, Noted
  <2>4. QED
    BY <1>1, <2>1, <2>2, <2>3 DEF Noted
<1>6. ResultsRight'
  BY <1>1 DEF HInv, ResultsRight
<1>7. QED
  BY <1>2, <1>3, <1>4, <1>5, <1>6 DEF HInv

LEMMA NapEncounteredStep ==
  ASSUME NEW g, Goroutines = {g}, HInv(g), NapEncountered(g)
  PROVE  HInv(g)'
<1> DEFINE d == Depth(g)
           N == nested[g]
           n == Len(frames)
<1>1. /\ UNCHANGED <<current_error_handler, nested, installed>>
      /\ handling'[g] = current_error_handler /\ handling' \in [Goroutines -> Int]
      /\ frames' = [f \in 1 .. n |-> IF f \in ToSet(N) THEN [frames[f] EXCEPT !.met = TRUE] ELSE frames[f]]
      /\ N # <<>> => Watching(Innermost(g))
  BY StateFacts DEF NapEncountered, HInv, HandlerTypes
<1>2. /\ d \in Nat /\ n \in Nat /\ ToSet(N) = {N[k] : k \in 1 .. d}
      /\ \A f \in 1 .. n : frames[f] \in Frame
      /\ N # <<>> => d # 0 /\ Innermost(g) = N[d]
      /\ N = <<>> => d = 0
      /\ \A k \in 1 .. d : N[k] \in 1 .. n
  BY StateFacts DEF HInv, Nesting
<1>3. ASSUME NEW f \in 1 .. n
      PROVE  /\ frames'[f] \in Frame /\ frames'[f].old = frames[f].old
             /\ frames'[f].old_handler_ptr = frames[f].old_handler_ptr
             /\ frames'[f].result = frames[f].result
             /\ frames'[f].error_bit = frames[f].error_bit
             /\ IF f \in ToSet(N) THEN frames'[f].met ELSE frames'[f] = frames[f]
  BY <1>1, <1>2 DEF Frame
<1>4. frames' \in Seq(Frame) /\ Len(frames') = n
  <2>1. frames' \in [1 .. n -> Frame]
    BY <1>1, <1>3
  <2>2. frames' \in Seq(Frame)
    BY <1>2, <2>1, IsASeq
  <2>3. QED
    BY <1>2, <2>1, <2>2, LenProperties
<1>5. Depth(g)' = d /\ nested'[g] = N /\ \A k \in 1 .. d + 1 : Outer(g, k)' = Outer(g, k)
  BY <1>1 DEF Depth, Outer
<1> HIDE DEF d, N, n
<1>6. HandlerTypes'
  BY <1>1, <1>4 DEF HInv, HandlerTypes
<1>7. Nesting(g)'
  <2>1. current_error_handler' = Outer(g, Depth(g) + 1)'
    BY <1>1 DEF HInv, Nesting, Outer, Depth
  <2>2. \A k \in 1 .. d : /\ N[k] \in 1 .. n /\ frames[N[k]].old = Outer(g, k)
                          /\ frames[N[k]].old_handler_ptr \in {Nil, Outer(g, k)}
    BY DEF HInv, Nesting, d, n, N
  <2>3. \A k \in 1 .. d : k \in 1 .. d + 1
    BY <1>2
  <2>4. \A k \in 1 .. d : /\ N[k] \in 1 .. Len(frames') /\ frames'[N[k]].old = Outer(g, k)'
                          /\ frames'[N[k]].old_handler_ptr \in {Nil, Outer(g, k)'}
    BY <1>3, <1>4, <1>5, <2>2, <2>3
  <2>5. \A j, k \in 1 .. d : j < k => N[j] < N[k]
    BY DEF HInv, Nesting, d, N
  <2>6. QED
    BY <1>5, <2>1, <2>4, <2>5 DEF Nesting
<1>8. \A k \in 1 .. d : Watching(N[k])
  <2>1. \A k \in 1 .. d : k < d => Watching(N[k])
    BY DEF HInv, AllWatching, d, N
  <2>2. d # 0 => Watching(N[d])
    BY <1>1, <1>2
  <2>3. \A k \in 1 .. d : k < d \/ (k = d /\ d # 0)
    BY <1>2
  <2>4. QED
    BY <2>1, <2>2, <2>3
<1>9. AllWatching(g)'
  <2>1. \A k \in 1 .. d : frames'[N[k]].old_handler_ptr # Nil /\ frames'[N[k]].result = "none"
    BY <1>2, <1>3, <1>8 DEF Watching
  <2>2. ASSUME NEW k \in 1 .. d PROVE Watching(nested[g][k])'
    BY <1>5, <2>1 DEF Watching
  <2>3. QED
    BY <1>5, <2>2 DEF AllWatching
<1>10. Noted(g)'
  <2>1. \A k \in 1 .. d : frames'[N[k]].met
    BY <1>2, <1>3
  <2>2. ASSUME NEW k \in 1 .. d PROVE Marked(g, k)'
    <3>1. handling'[g] = N[d]
      BY <1>1, <1>2 DEF HInv, Nesting, Outer, d, N
    <3>2. d \in k .. d
      BY <1>2
    <3>3. QED
      BY <1>5, <3>1, <3>2 DEF Marked
  <2>3. handling'[g] = Outer(g, d + 1)
    BY <1>1 DEF HInv, Nesting, d
  <2>4. d + 1 \in 1 .. d + 1
    BY <1>2
  <2>5. handling'[g] \in {Outer(g, k)' : k \in 1 .. d + 1}
    BY <1>5, <2>3, <2>4
  <2>6. ASSUME NEW k \in 1 .. d PROVE Marked(g, k)' /\ frames'[nested'[g][k]].met
    BY <1>5, <2>1, <2>2
  <2>7. QED
    BY <1>5, <2>5, <2>6 DEF Noted
<1>11. ResultsRight'
  <2>1. ASSUME NEW f \in 1 .. n, frames'[f].result # "none"
        PROVE  frames'[f].result = "true" <=> frames'[f].met
    <3>1. f \notin ToSet(N)
      BY <1>2, <1>3, <1>8, <2>1 DEF Watching
    <3>2. QED
      BY <1>3, <2>1, <3>1 DEF HInv, ResultsRight, n
  <2>2. QED
    BY <1>4, <2>1 DEF ResultsRight
<1>12. QED
  BY <1>6, <1>7, <1>9, <1>10, <1>11 DEF HInv

(* A users' handler returns or panics; a closure passes the NaP on to the    *)
(* next outer call, whose closure notes it in turn.                          *)
LEMMA CallHandlerStep ==
  ASSUME NEW g, Goroutines = {g}, HInv(g), CallHandler(g)
  PROVE  HInv(g)'
<1> DEFINE d == Depth(g)
           N == nested[g]
           n == Len(frames)
           h == handling[g]
<1>1. /\ d \in Nat /\ n \in Nat /\ frames \in Seq(Frame)
      /\ \A k \in 1 .. d : N[k] \in 1 .. n /\ N[k] \in Nat \ {0}
      /\ \A f \in 1 .. n : frames[f] \in Frame
      /\ \A k \in 1 .. d + 1 : Outer(g, k) \in UserHandlers \cup Nat
  BY StateFacts DEF HInv, HandlerTypes, Nesting
<1>2. /\ UNCHANGED <<current_error_handler, nested, installed>>
      /\ h \notin {None, Panicking} /\ handling \in [Goroutines -> Int]
  BY DEF CallHandler, HInv, HandlerTypes
<1>3. /\ Depth(g)' = d /\ nested'[g] = N /\ \A k \in 1 .. d + 1 : Outer(g, k)' = Outer(g, k)
      /\ current_error_handler' = Outer(g, Depth(g) + 1)'
  BY <1>2 DEF Depth, Outer, HInv, Nesting
<1>4. \A k \in 1 .. d : Watching(N[k])
  BY <1>2 DEF HInv, AllWatching
<1>5. CASE h \in UserHandlers
  <2>1. frames' = frames /\ handling'[g] \in {None, Panicking} /\ handling' \in [Goroutines -> Int]
    BY <1>2, <1>5, Numbers DEF CallHandler
  <2>2. HandlerTypes'
    BY <1>2, <2>1 DEF HInv, HandlerTypes
  <2>3. Nesting(g)'
    BY <1>2, <2>1 DEF HInv, Nesting, Depth, Outer
  <2>4. AllWatching(g)'
    BY <1>3, <1>4, <2>1 DEF AllWatching, Watching
  <2>5. Noted(g)'
    <3>1. ASSUME NEW k \in 1 .. d
          PROVE  ~Marked(g, k) /\ ~Marked(g, k)'
      <4>1. \A j \in k .. d : N[j] \in Nat \ {0}
        BY <1>1
      <4>2. \A j \in k .. d : N[j] # handling[g] /\ N[j] # handling'[g]
        BY <1>5, <2>1, <4>1, Numbers
      <4>3. QED
        BY <1>3, <4>2 DEF Marked
    <3>2. \A k \in 1 .. d : frames[N[k]].error_bit = frames[N[k]].met
      BY <3>1 DEF HInv, Noted
    <3>3. QED
      BY <1>3, <2>1, <3>1, <3>2 DEF Noted
  <2>6. ResultsRight'
    BY <2>1 DEF HInv, ResultsRight
  <2>7. QED
    BY <2>2, <2>3, <2>4, <2>5, <2>6 DEF HInv
<1>6. CASE h \notin UserHandlers
  <2> DEFINE r == [frames[h] EXCEPT !.error_bit = TRUE]
  <2>1. PICK j \in 1 .. d : h = N[j]
    <3>1. PICK k \in 1 .. d + 1 : h = Outer(g, k)
      BY <1>2 DEF HInv, Noted
    <3>2. k # 1
      BY <1>6, <3>1 DEF HInv, HandlerTypes, Outer
    <3>3. k - 1 \in 1 .. d /\ h = N[k - 1]
      BY <1>1, <3>1, <3>2 DEF Outer
    <3>4. QED
      BY <3>3
  <2>2. /\ h \in 1 .. n /\ frames[h] \in Frame
        /\ frames[h].old_handler_ptr = Outer(g, j) /\ frames[h].old_handler_ptr # Nil
        /\ frames[h].result = "none"
    BY <1>1, <1>4, <2>1 DEF HInv, Nesting, Watching
  <2>3. frames' = [frames EXCEPT ![h] = r] /\ handling' = [handling EXCEPT ![g] = Outer(g, j)]
    BY <1>6, <2>2 DEF CallHandler
  <2>4. /\ r \in Frame /\ r.old = frames[h].old /\ r.old_handler_ptr = frames[h].old_handler_ptr
        /\ r.error_bit = TRUE /\ r.met = frames[h].met /\ r.result = "none"
    BY <2>2 DEF Frame
  <2>5. Outer(g, j) \in Int /\ j \in 1 .. d + 1
    BY <1>1, Numbers
  <2>6. handling'[g] = Outer(g, j) /\ handling' \in [Goroutines -> Int]
    BY <1>2, <2>3, <2>5
  <2> HIDE DEF d, N, n, h, r
  <2>7. /\ frames' \in Seq(Frame) /\ Len(frames') = n /\ frames'[h] = r
        /\ \A f \in 1 .. n : f # h => frames'[f] = frames[f]
    BY <1>1, <2>2, <2>3, <2>4, FrameChanges DEF n
  <2>8. \A f \in 1 .. n : /\ frames'[f].old = frames[f].old
                           /\ frames'[f].old_handler_ptr = frames[f].old_handler_ptr
                           /\ frames'[f].met = frames[f].met /\ frames'[f].result = frames[f].result
    BY <2>2, <2>4, <2>7
  <2>9. HandlerTypes'
    BY <1>2, <2>6, <2>7 DEF HInv, HandlerTypes
  <2>10. Nesting(g)'
    <3>1. \A k \in 1 .. d : /\ N[k] \in 1 .. n /\ frames[N[k]].old = Outer(g, k)
                            /\ frames[N[k]].old_handler_ptr \in {Nil, Outer(g, k)}
      BY DEF HInv, Nesting, d, n, N
    <3>2. \A k \in 1 .. d : k \in 1 .. d + 1
      BY <1>1
    <3>3. \A k \in 1 .. d : /\ N[k] \in 1 .. Len(frames') /\ frames'[N[k]].old = Outer(g, k)'
                            /\ frames'[N[k]].old_handler_ptr \in {Nil, Outer(g, k)'}
      BY <1>3, <2>7, <2>8, <3>1, <3>2
    <3>4. \A i, k \in 1 .. d : i < k => N[i] < N[k]
      BY DEF HInv, Nesting, d, N
    <3>5. QED
      BY <1>3, <3>3, <3>4 DEF Nesting
  <2>11. AllWatching(g)'
    <3>1. \A k \in 1 .. d : frames'[N[k]].old_handler_ptr # Nil /\ frames'[N[k]].result = "none"
      BY <1>1, <1>4, <2>8 DEF Watching
    <3>2. ASSUME NEW k \in 1 .. d PROVE Watching(nested[g][k])'
      BY <1>3, <3>1 DEF Watching
    <3>3. QED
      BY <1>3, <3>2 DEF AllWatching
  <2>12. Noted(g)'
    <3>1. \A k \in 1 .. d : IF Marked(g, k) THEN frames[N[k]].met
                             ELSE frames[N[k]].error_bit = frames[N[k]].met
      BY DEF HInv, Noted, d, N
    <3>2. ASSUME NEW k \in 1 .. d
          PROVE  IF Marked(g, k)' THEN frames'[N[k]].met
                 ELSE frames'[N[k]].error_bit = frames'[N[k]].met
      <4>1. CASE k < j
        <5>1. /\ j \in k .. d /\ j - 1 \in k .. d /\ handling'[g] = nested'[g][j - 1]
          BY <1>1, <1>3, <2>1, <2>6, <4>1 DEF Outer, N
        <5>2. Marked(g, k) /\ Marked(g, k)'
          BY <1>3, <2>1, <5>1 DEF Marked, d, N, h
        <5>3. QED
          BY <1>1, <2>8, <3>1, <5>2
      <4>2. CASE k = j
        <5>1. j \in j .. d
          BY <1>1, <2>1
        <5>2. Marked(g, j)
          BY <2>1, <5>1 DEF Marked, d, N, h
        <5>3. r.error_bit = TRUE /\ r.met
          BY <2>1, <2>4, <3>1, <5>2
        <5>4. frames'[N[k]] = r /\ r \in Frame
          BY <2>1, <2>4, <2>7, <4>2
        <5>5. r.met = TRUE
          BY <5>3, <5>4 DEF Frame
        <5>6. QED
          BY <5>3, <5>4, <5>5
      <4>3. CASE k > j
        <5>1. ASSUME NEW i \in k .. d
              PROVE  N[i] # h /\ N[i] # Outer(g, j)
          <6>1. i \in 1 .. d /\ i # j /\ i # j - 1
            BY <1>1, <2>1, <4>3
          <6>2. N[i] # N[j]
            BY <6>1, <2>1, FramesDiffer DEF d, N
          <6>3. CASE j = 1
            <7>1. N[i] \in Nat \ {0} /\ installed \in UserHandlers
              BY <1>1, <6>1 DEF HInv, HandlerTypes
            <7>2. QED
              BY <2>1, <6>2, <6>3, <7>1, Numbers DEF Outer
          <6>4. CASE j # 1
            <7>1. j - 1 \in 1 .. d /\ Outer(g, j) = N[j - 1]
              BY <1>1, <2>1, <6>4 DEF Outer, N
            <7>2. N[i] # N[j - 1]
              BY <6>1, <7>1, FramesDiffer DEF d, N
            <7>3. QED
              BY <2>1, <6>2, <7>1, <7>2
          <6>5. QED
            BY <6>3, <6>4
        <5>2. ~Marked(g, k)
          BY <5>1 DEF Marked, d, N, h
        <5>3. ~Marked(g, k)'
          BY <1>3, <2>6, <5>1 DEF Marked
        <5>4. frames'[N[k]] = frames[N[k]]
          <6>1. k \in k .. d
            BY <1>1
          <6>2. QED
            BY <1>1, <2>7, <5>1, <6>1
        <5>5. QED
          BY <3>1, <5>2, <5>3, <5>4
      <4>4. QED
        BY <1>1, <2>1, <4>1, <4>2, <4>3
    <3>3. handling'[g] \in {Outer(g, k)' : k \in 1 .. d + 1}
      BY <1>3, <2>5, <2>6
    <3>4. QED
      BY <1>3, <3>2, <3>3 DEF Noted
  <2>13. ResultsRight'
    BY <2>7, <2>8 DEF HInv, ResultsRight, n
  <2>14. QED
    BY <2>9, <2>10, <2>11, <2>12, <2>13 DEF HInv
<1>7. QED
  BY <1>5, <1>6

(* The innermost call ends: its handler is the one that was in force when    *)
(* it began, also when its function has panicked.                            *)
LEMMA RestoreStep ==
  ASSUME NEW g, Goroutines = {g}, HInv(g), Restore(g)
  PROVE  HInv(g)'
<1> DEFINE d == Depth(g)
           N == nested[g]
           n == Len(frames)
<1>1. /\ d \in Nat \ {0} /\ n \in Nat /\ N \in Seq(Nat) /\ Innermost(g) = N[d] /\ N # <<>>
      /\ \A k \in 1 .. d : N[k] \in 1 .. n /\ frames[N[k]].old = Outer(g, k) /\ N[k] \in Nat
  BY StateFacts DEF HInv, Nesting, Restore
<1>2. /\ current_error_handler' = frames[Innermost(g)].old
      /\ nested' = [nested EXCEPT ![g] = Front(@)]
      /\ UNCHANGED <<frames, handling, installed>>
      /\ handling[g] \in {None, Panicking}
  BY DEF Restore, Runs
<1>3. /\ nested'[g] = Front(N) /\ Front(N) \in Seq(Nat) /\ Len(Front(N)) = d - 1
      /\ \A k \in 1 .. d - 1 : Front(N)[k] = N[k]
  <2>1. nested'[g] = Front(N) /\ Front(N) = SubSeq(N, 1, d - 1)
    BY <1>2 DEF HInv, HandlerTypes, Front, Depth
  <2>2. d - 1 \in Int /\ d - 1 <= d
    BY <1>1
  <2>3. QED
    BY <1>1, <2>1, SubSeqProperties DEF Depth
<1>4. d - 1 \in Nat /\ Depth(g)' = d - 1 /\ \A k \in 1 .. d - 1 : nested'[g][k] = N[k]
  <2>1. d - 1 \in Nat
    BY <1>1
  <2>2. Depth(g)' = d - 1
    BY <1>3 DEF Depth
  <2>3. QED
    BY <1>3, <2>1, <2>2
<1> HIDE DEF d, N, n
<1>5. \A k \in 1 .. d : Outer(g, k)' = Outer(g, k)
  <2>1. \A k \in 1 .. d : k # 1 => k - 1 \in 1 .. d - 1
    BY <1>1
  <2>2. QED
    BY <1>2, <1>4, <2>1 DEF Outer, N
<1>6. \A k \in 1 .. d - 1 : k \in 1 .. d /\ k < d
  BY <1>1
<1>7. d \in 1 .. d /\ (d - 1) + 1 = d
  BY <1>1
<1>8. HandlerTypes'
  <2>1. current_error_handler' \in Int
    <3>1. current_error_handler' = Outer(g, d)
      BY <1>1, <1>2, <1>7
    <3>2. Outer(g, d) \in UserHandlers \cup Nat
      <4>1. d \in 1 .. d + 1
        BY <1>1
      <4>2. QED
        BY <4>1, StateFacts DEF d
    <3>3. QED
      BY <3>1, <3>2, Numbers
  <2>2. nested' \in [Goroutines -> Seq(Nat)]
    BY <1>2, <1>3 DEF HInv, HandlerTypes, N
  <2>3. QED
    BY <1>2, <2>1, <2>2 DEF HInv, HandlerTypes
<1>9. Nesting(g)'
  <2>1. \A k \in 1 .. d : frames[N[k]].old_handler_ptr \in {Nil, Outer(g, k)}
    BY DEF HInv, Nesting, d, N
  <2>2. \A k \in 1 .. d - 1 : /\ nested'[g][k] \in 1 .. Len(frames')
                              /\ frames'[nested'[g][k]].old = Outer(g, k)'
                              /\ frames'[nested'[g][k]].old_handler_ptr \in {Nil, Outer(g, k)'}
    BY <1>1, <1>2, <1>4, <1>5, <1>6, <2>1 DEF n
  <2>3. \A j, k \in 1 .. d : j < k => N[j] < N[k]
    BY DEF HInv, Nesting, d, N
  <2>4. \A j, k \in 1 .. d - 1 : j < k => nested'[g][j] < nested'[g][k]
    BY <1>4, <1>6, <2>3
  <2>5. current_error_handler' = IF d = 1 THEN installed' ELSE nested'[g][d - 1]
    <3>1. current_error_handler' = Outer(g, d)
      BY <1>1, <1>2, <1>7
    <3>2. d # 1 => nested'[g][d - 1] = N[d - 1]
      BY <1>1, <1>4
    <3>3. QED
      BY <1>2, <3>1, <3>2 DEF Outer, N
  <2>6. current_error_handler' = Outer(g, Depth(g) + 1)'
    <3>1. (Depth(g) + 1)' = d
      BY <1>4, <1>7
    <3>2. QED
      BY <2>5, <3>1 DEF Outer
  <2>7. QED
    BY <1>4, <2>2, <2>4, <2>6 DEF Nesting
<1>10. AllWatching(g)'
  <2>1. \A k \in 1 .. d : k < d => Watching(N[k])
    BY DEF HInv, AllWatching, d, N
  <2>2. ASSUME NEW k \in 1 .. d - 1 PROVE Watching(nested[g][k])'
    BY <1>2, <1>4, <1>6, <2>1 DEF Watching
  <2>3. QED
    BY <1>4, <2>2 DEF AllWatching
<1>11. Noted(g)'
  <2>1. ASSUME NEW k \in 1 .. d - 1
        PROVE  ~Marked(g, k) /\ ~Marked(g, k)'
    <3>1. \A j \in k .. d : N[j] \in Nat
      BY <1>1
    <3>2. \A j \in k .. d : N[j] # handling[g]
      BY <1>2, <3>1, Numbers
    <3>3. ~Marked(g, k)
      BY <3>2 DEF Marked, d, N
    <3>4. \A j \in k .. d - 1 : j \in k .. d /\ j \in 1 .. d - 1
      BY <1>1
    <3>5. ~Marked(g, k)'
      BY <1>2, <1>4, <3>2, <3>4 DEF Marked
    <3>6. QED
      BY <3>3, <3>5
  <2>2. \A k \in 1 .. d : IF Marked(g, k) THEN frames[N[k]].met
                           ELSE frames[N[k]].error_bit = frames[N[k]].met
    BY DEF HInv, Noted, d, N
  <2>3. \A k \in 1 .. d - 1 : frames'[nested'[g][k]].error_bit = frames'[nested'[g][k]].met
    BY <1>2, <1>4, <1>6, <2>1, <2>2
  <2>4. QED
    BY <1>2, <1>4, <2>1, <2>3 DEF Noted
<1>12. ResultsRight'
  BY <1>2 DEF HInv, ResultsRight
<1>13. QED
  BY <1>8, <1>9, <1>10, <1>11, <1>12 DEF HInv

-----------------------------------------------------------------------------
LEMMA InitRight ==
  ASSUME NEW g, Goroutines = {g}, HandlerInit
  PROVE  HInv(g)
<1>1. /\ frames = <<>> /\ nested[g] = <<>> /\ handling[g] = None
      /\ current_error_handler = installed /\ installed \in UserHandlers
  BY DEF HandlerInit, UserHandlers
<1>2. HandlerTypes
  BY Numbers, EmptySeq DEF HandlerInit, HandlerTypes, UserHandlers, Returns
<1>3. Len(frames) = 0 /\ Depth(g) = 0
  BY <1>1, EmptySeq DEF Depth
<1>4. Nesting(g) /\ AllWatching(g) /\ ResultsRight
  BY <1>1, <1>3 DEF Nesting, AllWatching, ResultsRight, Outer
<1>5. Noted(g)
  BY <1>1, <1>3 DEF Noted
<1>6. QED
  BY <1>2, <1>4, <1>5 DEF HInv

LEMMA HandlerStep ==
  ASSUME NEW g, Goroutines = {g}, HInv(g), [HandlerNext]_handlerVars
  PROVE  HInv(g)'
<1>1. CASE HandlerNext
  <2>1. \/ \E h \in UserHandlers : SetNaPErrorHandler(g, h)
        \/ Install(g) \/ SetPointer(g) \/ NapEncountered(g) \/ CallHandler(g) \/ FunPanics(g)
        \/ TakeResult(g) \/ Restore(g) \/ RecoverFromPanic(g)
    BY <1>1 DEF HandlerNext
  <2>2. QED
    BY <2>1, SetHandlerStep, InstallStep, SetPointerStep, NapEncounteredStep, CallHandlerStep,
       FunPanicsStep, TakeResultStep, RestoreStep
<1>2. CASE UNCHANGED handlerVars
  BY <1>2 DEF handlerVars, HInv, HandlerTypes, Nesting, AllWatching, Noted, ResultsRight, Depth,
     Outer, Watching, Marked
<1>3. QED
  BY <1>1, <1>2

LEMMA ReportedNow ==
  ASSUME NEW g, Goroutines = {g}, HInv(g)
  PROVE  NaPsReported
<1>1. \A f \in DOMAIN frames : frames[f].result # "none" => (frames[f].result = "true" <=> frames[f].met)
  BY StateFacts DEF HInv, ResultsRight
<1>2. ASSUME handling[g] \notin UserHandlers \cup {None, Panicking}
      PROVE  handling[g] \in ToSet(nested[g]) /\ frames[handling[g]].old_handler_ptr # Nil
  <2>1. Depth(g) \in Nat /\ installed \in UserHandlers
    BY StateFacts DEF HInv, HandlerTypes
  <2>2. PICK k \in 1 .. Depth(g) + 1 : handling[g] = Outer(g, k)
    BY <1>2 DEF HInv, Noted
  <2>3. k - 1 \in 1 .. Depth(g) /\ handling[g] = nested[g][k - 1]
    BY <1>2, <2>1, <2>2 DEF Outer
  <2>4. Watching(nested[g][k - 1])
    BY <1>2, <2>3 DEF HInv, AllWatching
  <2>5. frames[handling[g]].old_handler_ptr # Nil
    BY <2>3, <2>4 DEF Watching
  <2>6. handling[g] \in ToSet(nested[g])
    BY <2>3, StateFacts
  <2>7. QED
    BY <2>5, <2>6
<1>3. nested[g] = <<>> => current_error_handler = installed
  BY StateFacts DEF HInv, Nesting, Outer
<1>4. QED
  BY <1>1, <1>2, <1>3 DEF NaPsReported

(* As long as a single goroutine watches functions, each call returns        *)
(* exactly whether its function met a NaP, no NaP reaches a closure of a call *)
(* that is over or that is not set up yet, and the users' handler is in force *)
(* again when all calls are over: for every nesting and every panic.          *)
THEOREM NaPsAreReported ==
  ASSUME NEW g, Goroutines = {g}
  PROVE  HandlerSpec => []NaPsReported
<1>1. HandlerInit => HInv(g)
  BY InitRight
<1>2. HInv(g) /\ [HandlerNext]_handlerVars => HInv(g)'
  BY HandlerStep
<1>3. HInv(g) => NaPsReported
  BY ReportedNow
<1>4. QED
  BY <1>1, <1>2, <1>3, PTL DEF HandlerSpec
=============================================================================
