---------------------------- MODULE ResidueProofs ----------------------------
(***************************************************************************)
(* Whatever calls are made, a Uint256 stands for the residue they document *)
(* and lies in the range they promise: for words of any size and any       *)
(* modulus that fits the assumptions.                                      *)
(***************************************************************************)
EXTENDS ResidueRegister, WellFoundedInduction, TLAPS

-----------------------------------------------------------------------------
(* Integers.                                                                *)

LEMMA Division ==
  ASSUME NEW a \in Int, NEW b \in Nat \ {0}
  PROVE  /\ a \div b \in Int /\ a % b \in 0 .. b - 1
         /\ a = b * (a \div b) + (a % b)
BY SMT

LEMMA DivisionUnique ==
  ASSUME NEW b \in Nat \ {0}, NEW q \in Int, NEW r \in 0 .. b - 1
  PROVE  (b * q + r) % b = r /\ (b * q + r) \div b = q
BY SMT

LEMMA Monotone ==
  ASSUME NEW a \in Int, NEW b \in Int, NEW c \in Nat, a <= b
  PROVE  a * c <= b * c /\ c * a <= c * b /\ a * c \in Int /\ b * c \in Int
BY SMT

LEMMA Cancel ==
  ASSUME NEW a \in Int, NEW b \in Int, NEW c \in Nat \ {0}, a * c <= b * c
  PROVE  a <= b
BY SMT

(* A set of numbers that is not empty has a least one.                      *)
LEMMA LeastElement ==
  ASSUME NEW S, S \subseteq Nat, S # {}
  PROVE  \E n \in S : \A m \in S : n <= m
<1> DEFINE R == OpToRel(<, Nat)
<1>1. IsWellFoundedOn(R, Nat)
  BY NatLessThanWellFounded
<1> HIDE DEF R
<1>2. PICK n \in S : \A m \in S : ~(<<m, n>> \in R)
  BY <1>1, WFMin
<1>3. \A m \in S : ~(m < n)
  BY <1>2 DEF R, OpToRel
<1>4. QED
  BY <1>3

-----------------------------------------------------------------------------
(* Induction and recursion over an interval.                                *)

(* Induction up to n, for a set.                                            *)
LEMMA UpTo ==
  ASSUME NEW n \in Nat, NEW S, 0 \in S, \A k \in 0 .. n - 1 : k \in S => k + 1 \in S
  PROVE  \A k \in 0 .. n : k \in S
<1> DEFINE Bad == {k \in 0 .. n : k \notin S}
<1>1. SUFFICES ASSUME Bad # {} PROVE FALSE
  OBVIOUS
<1>2. PICK k \in Bad : \A m \in Bad : k <= m
  <2>1. Bad \subseteq Nat
    OBVIOUS
  <2> HIDE DEF Bad
  <2>2. QED
    BY <1>1, <2>1, LeastElement
<1>3. k \in 0 .. n /\ k \notin S
  OBVIOUS
<1>4. k # 0 /\ k - 1 \in 0 .. n - 1 /\ k - 1 \in 0 .. n /\ (k - 1) + 1 = k /\ k - 1 < k
  BY <1>3
<1>5. k - 1 \notin Bad
  <2> HIDE DEF Bad
  <2>1. QED
    BY <1>2, <1>3, <1>4
<1>6. k - 1 \in S
  BY <1>4, <1>5
<1>7. QED
  BY <1>3, <1>4, <1>6

(* A function on lo .. hi can be defined by recursion, with a at lo, and at  *)
(* each other j with what G makes of j and of the value before.             *)
Recursion(f, lo, hi, a, G) ==
  DOMAIN f = lo .. hi /\ f[lo] = a /\ \A j \in lo + 1 .. hi : f[j] = G[<<j, f[j - 1]>>]

(* A function defined by a recursion over an interval exists.               *)
LEMMA RecursionExists ==
  ASSUME NEW lo \in Int, NEW hi \in Int, lo <= hi, NEW V, NEW a \in V,
         NEW G, \A j \in lo + 1 .. hi, v \in V : G[<<j, v>>] \in V
  PROVE  \E f \in [lo .. hi -> V] : Recursion(f, lo, hi, a, G)
<1> DEFINE Is(f, m) == /\ f \in [lo .. m -> V] /\ f[lo] = a
                       /\ \A j \in lo + 1 .. m : f[j] = G[<<j, f[j - 1]>>]
           S == {k \in Nat : \E f : Is(f, lo + k)}
           n == hi - lo
<1>1. n \in Nat /\ lo + n = hi
  OBVIOUS
<1>2. 0 \in S
  <2> DEFINE f == [j \in lo .. lo + 0 |-> a]
  <2>1. f \in [lo .. lo + 0 -> V] /\ f[lo] = a /\ \A j \in lo + 1 .. lo + 0 : FALSE
    OBVIOUS
  <2> HIDE DEF f
  <2>2. Is(f, lo + 0)
    BY <2>1
  <2>3. QED
    BY <2>2
<1>3. ASSUME NEW k \in 0 .. n - 1, k \in S PROVE k + 1 \in S
  <2>1. k \in Nat /\ k + 1 \in Nat /\ lo + k \in Int /\ lo + k < hi /\ (lo + k) + 1 = lo + (k + 1)
    BY <1>1
  <2>2. PICK f : Is(f, lo + k)
    BY <1>3
  <2> DEFINE m == lo + k
             g == [j \in lo .. m + 1 |-> IF j <= m THEN f[j] ELSE G[<<m + 1, f[m]>>]]
  <2>3. /\ f \in [lo .. m -> V] /\ f[lo] = a
        /\ \A j \in lo + 1 .. m : f[j] = G[<<j, f[j - 1]>>]
    BY <2>2
  <2>4. m \in Int /\ lo <= m /\ m < hi /\ m + 1 \in lo + 1 .. hi
    BY <2>1
  <2> HIDE DEF m, Is, n
  <2>5. f[m] \in V /\ G[<<m + 1, f[m]>>] \in V
    BY <2>3, <2>4
  <2>6. g \in [lo .. m + 1 -> V] /\ g[m + 1] = G[<<m + 1, f[m]>>] /\ \A j \in lo .. m : g[j] = f[j]
    <3>1. \A j \in lo .. m : j \in lo .. m + 1 /\ j <= m
      BY <2>4
    <3>2. m + 1 \in lo .. m + 1 /\ ~(m + 1 <= m)
      BY <2>4
    <3>3. \A j \in lo .. m + 1 : j <= m => j \in lo .. m
      BY <2>4
    <3>4. QED
      BY <2>3, <2>5, <3>1, <3>2, <3>3
  <2> HIDE DEF g
  <2>7. g[lo] = a
    BY <2>3, <2>4, <2>6
  <2>8. ASSUME NEW j \in lo + 1 .. m + 1 PROVE g[j] = G[<<j, g[j - 1]>>]
    <3>1. CASE j = m + 1
      <4>1. j - 1 = m /\ m \in lo .. m
        BY <2>4, <3>1
      <4>2. QED
        BY <2>6, <3>1, <4>1
    <3>2. CASE j # m + 1
      <4>1. j \in lo + 1 .. m /\ j \in lo .. m /\ j - 1 \in lo .. m
        BY <2>4, <3>2
      <4>2. QED
        BY <2>3, <2>6, <4>1
    <3>3. QED
      BY <3>1, <3>2
  <2>9. Is(g, m + 1)
    BY <2>6, <2>7, <2>8 DEF Is
  <2>10. m + 1 = lo + (k + 1)
    BY <2>1 DEF m
  <2>11. QED
    BY <2>1, <2>9, <2>10
<1>4. n \in S
  <2> HIDE DEF S
  <2>1. \A k \in 0 .. n - 1 : k \in S => k + 1 \in S
    BY <1>3
  <2> HIDE DEF n
  <2>2. n \in 0 .. n
    BY <1>1
  <2>3. QED
    BY <1>1, <1>2, <2>1, <2>2, UpTo
<1>5. PICK f : Is(f, hi)
  BY <1>1, <1>4
<1>6. Recursion(f, lo, hi, a, G)
  BY <1>5 DEF Recursion
<1>7. QED
  BY <1>5, <1>6

-----------------------------------------------------------------------------
(* The powers of 2 and of W.                                                *)

(* What follows from the recursion equation of the powers of 2 up to n.     *)
LEMMA PowersUpTo ==
  ASSUME NEW n \in Nat, 2^0 = 1, \A k \in 0 .. n - 1 : 2^(k + 1) = 2 * 2^k
  PROVE  \A k \in 0 .. n : 2^k \in Nat \ {0}
<1> DEFINE S == {k \in 0 .. n : 2^k \in Nat \ {0}}
<1>1. 0 \in S
  OBVIOUS
<1>2. ASSUME NEW k \in 0 .. n - 1, k \in S PROVE k + 1 \in S
  <2>1. k + 1 \in 0 .. n /\ 2^k \in Nat \ {0} /\ 2^(k + 1) = 2 * 2^k
    BY <1>2
  <2>2. 2^(k + 1) \in Nat \ {0}
    BY <2>1
  <2>3. QED
    BY <2>1, <2>2
<1> HIDE DEF S
<1>3. \A k \in 0 .. n : k \in S
  BY <1>1, <1>2, UpTo
<1>4. QED
  BY <1>3 DEF S

LEMMA PowersAddUpTo ==
  ASSUME NEW n \in Nat, 2^0 = 1, \A k \in 0 .. n - 1 : 2^(k + 1) = 2 * 2^k,
         NEW a \in Nat, NEW b \in Nat, a + b <= n
  PROVE  2^(a + b) = 2^a * 2^b
<1>1. \A k \in 0 .. n : 2^k \in Nat \ {0}
  BY PowersUpTo
<1> DEFINE S == {k \in 0 .. b : 2^(a + k) = 2^a * 2^k}
<1>2. a \in 0 .. n /\ 2^a \in Nat
  BY <1>1
<1>3. 0 \in S
  <2>1. a + 0 = a /\ 2^a * 1 = 2^a
    BY <1>2
  <2>2. QED
    BY <2>1
<1>4. ASSUME NEW k \in 0 .. b - 1, k \in S PROVE k + 1 \in S
  <2>1. /\ k + 1 \in 0 .. b /\ k \in 0 .. n - 1 /\ k \in 0 .. n
        /\ a + k \in 0 .. n - 1 /\ (a + k) + 1 = a + (k + 1)
    OBVIOUS
  <2>2. 2^(a + k) = 2^a * 2^k
    BY <1>4
  <2>3. 2^(k + 1) = 2 * 2^k /\ 2^((a + k) + 1) = 2 * 2^(a + k) /\ 2^k \in Nat
    BY <1>1, <2>1
  <2> DEFINE A == 2^a
             B == 2^k
  <2>4. A \in Nat /\ B \in Nat
    BY <1>2, <2>3
  <2> HIDE DEF A, B
  <2>5. 2 * (A * B) = A * (2 * B)
    BY <2>4
  <2>6. 2^(a + (k + 1)) = 2^a * 2^(k + 1)
    BY <2>1, <2>2, <2>3, <2>5 DEF A, B
  <2>7. QED
    BY <2>1, <2>6
<1> HIDE DEF S
<1>5. \A k \in 0 .. b : k \in S
  BY <1>3, <1>4, UpTo
<1>6. QED
  BY <1>5 DEF S

LEMMA MorePowersOfTwo ==
  /\ WordBits \in Nat \ {0} /\ 2^0 = 1
  /\ \A n \in 0 .. 4 * WordBits - 1 : 2^(n + 1) = 2 * 2^n
  /\ \A n \in 0 .. 4 * WordBits : 2^n \in Nat \ {0}
<1>1. WordBits \in Nat \ {0} /\ 2^0 = 1 /\ \A n \in 0 .. 4 * WordBits - 1 : 2^(n + 1) = 2 * 2^n
  BY WordBitsAssumption, PowersAssumption
<1> DEFINE m == 4 * WordBits
<1>2. m \in Nat
  BY <1>1
<1> HIDE DEF m
<1>3. \A n \in 0 .. m : 2^n \in Nat \ {0}
  BY <1>1, <1>2, PowersUpTo DEF m
<1>4. QED
  BY <1>1, <1>3 DEF m

LEMMA PowersAdd ==
  ASSUME NEW a \in Nat, NEW b \in Nat, a + b <= 4 * WordBits
  PROVE  2^(a + b) = 2^a * 2^b
<1> DEFINE m == 4 * WordBits
<1>1. m \in Nat /\ 2^0 = 1 /\ \A n \in 0 .. m - 1 : 2^(n + 1) = 2 * 2^n
  BY MorePowersOfTwo
<1>2. a + b <= m
  OBVIOUS
<1> HIDE DEF m
<1>3. QED
  BY <1>1, <1>2, PowersAddUpTo

LEMMA PowersOfTwo == \A k \in 0 .. WordBits : 2^k \in Nat \ {0}
<1> DEFINE Bad == {k \in 0 .. WordBits : 2^k \notin Nat \ {0}}
<1>1. WordBits \in Nat /\ 2^0 = 1 /\ \A n \in 0 .. WordBits - 1 : 2^(n + 1) = 2 * 2^n
  BY WordBitsAssumption, PowersAssumption
<1>2. SUFFICES ASSUME Bad # {} PROVE FALSE
  OBVIOUS
<1>3. PICK k \in Bad : \A m \in Bad : k <= m
  <2>1. Bad \subseteq Nat
    BY <1>1
  <2> HIDE DEF Bad
  <2>2. QED
    BY <1>2, <2>1, LeastElement
<1>4. CASE k = 0
  BY <1>1, <1>3, <1>4
<1>5. CASE k # 0
  <2>1. k - 1 \in 0 .. WordBits - 1 /\ k - 1 \in 0 .. WordBits /\ (k - 1) + 1 = k /\ k - 1 < k
    BY <1>1, <1>3, <1>5
  <2>2. 2^(k - 1) \in Nat \ {0}
    BY <1>1, <1>3, <2>1
  <2>3. 2^((k - 1) + 1) = 2 * 2^(k - 1)
    BY <1>1, <2>1
  <2>4. 2^k = 2 * 2^(k - 1)
    BY <2>1, <2>3
  <2>5. QED
    BY <1>3, <2>2, <2>4
<1>6. QED
  BY <1>4, <1>5

LEMMA WordIsPower == W \in Nat /\ (W = 2 \/ W = 4 \/ W >= 8)
<1>1. WordBits \in Nat \ {0} /\ 2^0 = 1 /\ \A n \in 0 .. WordBits - 1 : 2^(n + 1) = 2 * 2^n
  BY WordBitsAssumption, PowersAssumption
<1>2. 2^1 = 2 /\ (WordBits >= 2 => 2^2 = 4)
  <2>1. 2^(0 + 1) = 2 * 2^0 /\ (WordBits >= 2 => 2^(1 + 1) = 2 * 2^1)
    BY <1>1
  <2>2. QED
    BY <1>1, <2>1
<1>3. CASE WordBits = 1 \/ WordBits = 2
  <2>1. CASE WordBits = 1
    BY <1>2, <2>1 DEF W
  <2>2. CASE WordBits = 2
    BY <1>2, <2>2 DEF W
  <2>3. QED
    BY <1>3, <2>1, <2>2
<1>4. CASE WordBits >= 3
  <2> DEFINE n == WordBits - 3
  <2>1. n \in 0 .. WordBits /\ n \in 0 .. WordBits - 1 /\ n + 1 \in 0 .. WordBits - 1 /\ n + 2 \in 0 .. WordBits - 1
    BY <1>1, <1>4
  <2>2. 2^n \in Nat \ {0}
    BY <2>1, PowersOfTwo
  <2>3. 2^(n + 1) = 2 * 2^n /\ 2^((n + 1) + 1) = 2 * 2^(n + 1) /\ 2^((n + 2) + 1) = 2 * 2^(n + 2)
    BY <1>1, <2>1
  <2>4. (n + 1) + 1 = n + 2 /\ (n + 2) + 1 = WordBits
    BY <1>1
  <2>5. W = 2 * (2 * (2 * 2^n))
    BY <2>3, <2>4 DEF W
  <2>6. QED
    BY <2>2, <2>5
<1>5. QED
  BY <1>1, <1>3, <1>4

(* The powers of W as products.                                             *)
LEMMA WordPowers ==
  /\ W^0 = 1 /\ W^1 = W /\ W^2 = W * W /\ W^3 = W * W^2 /\ W^4 = W * W^3 /\ W^5 = W * W^4
  /\ W^6 = W * W^5
  /\ Two256 = W^4
  /\ W^2 \in Nat \ {0} /\ W^3 \in Nat \ {0} /\ Two256 \in Nat \ {0} /\ W^5 \in Nat \ {0}
  /\ W^6 \in Nat \ {0}
<1>1. W^0 = 1 /\ \A n \in 0 .. 5 : W^(n + 1) = W * W^n
  BY PowersAssumption
<1> HIDE DEF W
<1>2. /\ W^(0 + 1) = W * W^0 /\ W^(1 + 1) = W * W^1 /\ W^(2 + 1) = W * W^2
      /\ W^(3 + 1) = W * W^3 /\ W^(4 + 1) = W * W^4 /\ W^(5 + 1) = W * W^5
  BY <1>1
<1>3. W \in Nat \ {0}
  BY WordIsPower
<1>4. /\ W^1 = W /\ W^2 = W * W /\ W^3 = W * W^2 /\ W^4 = W * W^3 /\ W^5 = W * W^4
      /\ W^6 = W * W^5
  BY <1>1, <1>2, <1>3
<1>5. ASSUME NEW n \in Nat \ {0} PROVE W * n \in Nat \ {0}
  BY <1>3
<1>6. W^2 \in Nat \ {0}
  BY <1>3, <1>4
<1>7. W^3 \in Nat \ {0}
  BY <1>4, <1>5, <1>6
<1>8. W^4 \in Nat \ {0}
  BY <1>4, <1>5, <1>7
<1>9. W^5 \in Nat \ {0}
  BY <1>4, <1>5, <1>8
<1>10. W^6 \in Nat \ {0}
  BY <1>4, <1>5, <1>9
<1>11. QED
  BY <1>1, <1>4, <1>6, <1>7, <1>8, <1>9, <1>10 DEF Two256

(* The modulus and its highest word.                                        *)
LEMMA Modulus ==
  /\ M \in Nat \ {0} /\ 3 * M > Two256 /\ 2 * M < Two256 /\ M % 2 = 1
  /\ M_3 \in Nat /\ M_3 * W^3 <= M /\ M < M_3 * W^3 + W^3
  /\ M_3 * W^3 \in Nat
  /\ M_3 * W^3 + 2 * W^3 <= Two256 - M
  /\ W >= 8 /\ M > W^3
<1> DEFINE X == W^3
<1>1. /\ M \in Nat /\ 3 * M > Two256 /\ 2 * M < Two256 /\ M % 2 = 1
      /\ (M \div X + 2) * X <= Two256 - M
  BY BaseFieldSizeAssumption DEF M
<1>2. X \in Nat \ {0} /\ Two256 = W * X /\ Two256 \in Nat /\ W \in Nat
  BY WordPowers, WordIsPower
<1>3. M_3 = M \div X
  BY DEF M_3, Top
<1> HIDE DEF X, M, M_3, W, Two256
<1>4. /\ M_3 \in Int /\ M % X \in 0 .. X - 1 /\ M = X * M_3 + (M % X)
  BY <1>1, <1>2, <1>3, Division
<1>5. M_3 \in Nat
  <2>1. ASSUME M_3 < 0 PROVE FALSE
    <3>1. M_3 <= -1
      BY <1>4, <2>1
    <3>2. X * M_3 <= X * (-1)
      BY <1>2, <1>4, <3>1, Monotone
    <3>3. QED
      BY <1>1, <1>2, <1>4, <3>2
  <2>2. QED
    BY <1>4, <2>1
<1>6. /\ M_3 * X \in Nat /\ M_3 * X <= M /\ M < M_3 * X + X /\ (M_3 + 2) * X = M_3 * X + 2 * X
  BY <1>2, <1>4, <1>5
<1>7. M_3 * X + 2 * X <= W * X - M
  BY <1>1, <1>2, <1>3, <1>6
<1>8. 2 * M_3 + 2 <= W
  <2>1. (2 * M_3 + 2) * X <= W * X
    BY <1>1, <1>2, <1>5, <1>6, <1>7
  <2>2. QED
    BY <1>2, <1>5, <2>1, Cancel
<1>9. W <= 3 * M_3 + 3
  <2>1. W * X <= (3 * M_3 + 3) * X
    BY <1>1, <1>2, <1>5, <1>6
  <2>2. QED
    BY <1>2, <1>5, <2>1, Cancel
<1>10. W # 2
  <2>1. ASSUME W = 2 PROVE FALSE
    <3>1. M_3 = 0
      BY <1>5, <1>8, <2>1
    <3>2. M_3 * X = 0 /\ W * X = 2 * X
      BY <1>2, <2>1, <3>1
    <3>3. M <= 0
      BY <1>1, <1>2, <1>7, <3>2
    <3>4. QED
      BY <1>1, <1>2, <3>3
  <2>2. QED
    BY <2>1
<1>11. W # 4
  <2>1. ASSUME W = 4 PROVE FALSE
    <3>1. M_3 = 1
      BY <1>5, <1>8, <1>9, <2>1
    <3>2. M_3 * X = X /\ W * X = 4 * X
      BY <1>2, <2>1, <3>1
    <3>3. M <= X /\ 3 * M > 4 * X
      BY <1>1, <1>2, <1>7, <3>2
    <3>4. QED
      BY <1>1, <1>2, <3>3
  <2>2. QED
    BY <2>1
<1>12. W >= 8
  BY <1>10, <1>11, WordIsPower
<1>13. M > X
  <2>1. 8 * X <= W * X
    BY <1>2, <1>12, Monotone
  <2>2. QED
    BY <1>1, <1>2, <2>1
<1>14. QED
  BY <1>1, <1>2, <1>5, <1>6, <1>7, <1>12, <1>13 DEF X

(* The highest word of z, compared with that of the modulus.                *)
LEMMA TopOf ==
  ASSUME NEW z \in Uints
  PROVE  /\ Top(z) \in Nat /\ Top(z) * W^3 \in Nat
         /\ Top(z) * W^3 <= z /\ z < Top(z) * W^3 + W^3
<1> DEFINE X == W^3
<1>1. X \in Nat \ {0} /\ Two256 \in Nat /\ z \in Nat
  BY WordPowers DEF Uints
<1>2. Top(z) = z \div X
  BY DEF Top
<1> HIDE DEF X
<1>3. Top(z) \in Int /\ z % X \in 0 .. X - 1 /\ z = X * Top(z) + (z % X)
  BY <1>1, <1>2, Division
<1>4. Top(z) \in Nat
  <2>1. ASSUME Top(z) < 0 PROVE FALSE
    <3>1. X * Top(z) <= X * (-1)
      <4>1. Top(z) <= -1
        BY <1>3, <2>1
      <4>2. QED
        BY <1>1, <1>3, <4>1, Monotone
    <3>2. QED
      BY <1>1, <1>3, <3>1
  <2>2. QED
    BY <1>3, <2>1
<1>5. Top(z) * X \in Nat /\ Top(z) * X = X * Top(z)
  BY <1>1, <1>4
<1>6. QED
  BY <1>1, <1>3, <1>4, <1>5 DEF X

LEMMA TopCompared ==
  ASSUME NEW z \in Uints
  PROVE  /\ Top(z) > M_3 => z > M
         /\ ~(Top(z) > M_3) => z <= Two256 - M - W^3 /\ z < M + W^3
         /\ Top(z) < M_3 => z < M
<1> DEFINE X == W^3
           t == Top(z)
<1>1. /\ X \in Nat \ {0} /\ Two256 \in Nat /\ z \in Nat /\ t \in Nat /\ t * X \in Nat
      /\ t * X <= z /\ z < t * X + X
  BY WordPowers, TopOf DEF Uints
<1>2. /\ M \in Nat /\ M_3 \in Nat /\ M_3 * X <= M /\ M < M_3 * X + X /\ M_3 * X \in Nat
      /\ M_3 * X + 2 * X <= Two256 - M
  BY Modulus
<1> HIDE DEF X, t, M, M_3, Two256
<1>3. CASE t > M_3
  <2>1. M_3 + 1 <= t
    BY <1>1, <1>2, <1>3
  <2>2. (M_3 + 1) * X <= t * X
    BY <1>1, <1>2, <2>1, Monotone
  <2>3. (M_3 + 1) * X = M_3 * X + X
    BY <1>1, <1>2
  <2>4. z > M
    BY <1>1, <1>2, <2>2, <2>3
  <2>5. QED
    BY <1>1, <1>2, <1>3, <2>4 DEF t
<1>4. CASE t <= M_3
  <2>1. t * X <= M_3 * X
    BY <1>1, <1>2, <1>4, Monotone
  <2>2. z < M_3 * X + X
    BY <1>1, <1>2, <2>1
  <2>3. z <= Two256 - M - X /\ z < M + X
    BY <1>1, <1>2, <2>2
  <2>4. t < M_3 => z < M
    <3>1. ASSUME t < M_3 PROVE z < M
      <4>1. t + 1 <= M_3
        BY <1>1, <1>2, <3>1
      <4>2. (t + 1) * X <= M_3 * X
        BY <1>1, <1>2, <4>1, Monotone
      <4>3. (t + 1) * X = t * X + X
        BY <1>1
      <4>4. QED
        BY <1>1, <1>2, <4>2, <4>3
    <3>2. QED
      BY <3>1
  <2>5. ~(t > M_3)
    BY <1>1, <1>2, <1>4
  <2>6. QED
    BY <2>3, <2>4, <2>5 DEF t, X
<1>5. QED
  BY <1>1, <1>2, <1>3, <1>4

-----------------------------------------------------------------------------
(* Congruence modulo the modulus.                                           *)

Cong(a, b) == \E k \in Int : a = b + k * M

LEMMA CongIntro ==
  ASSUME NEW b \in Int, NEW k \in Int
  PROVE  Cong(b + k * M, b)
BY DEF Cong

(* The cases that most calls need.                                          *)
LEMMA CongShifts ==
  ASSUME NEW a \in Int
  PROVE  Cong(a, a) /\ Cong(a - M, a) /\ Cong(a + M, a) /\ Cong(a + 2 * M, a) /\ Cong(a - 2 * M, a)
         /\ Cong(a - 3 * M, a) /\ Cong(a + 3 * M, a)
<1>1. M \in Nat
  BY Modulus
<1>2. /\ a = a + 0 * M /\ a - M = a + (-1) * M /\ a + M = a + 1 * M /\ a - 2 * M = a + (-2) * M
      /\ a - 3 * M = a + (-3) * M
  BY <1>1
<1>3. 0 \in Int /\ 1 \in Int /\ -1 \in Int /\ 2 \in Int /\ -2 \in Int /\ -3 \in Int /\ 3 \in Int
  OBVIOUS
<1> HIDE DEF M
<1>4. QED
  BY <1>2, <1>3 DEF Cong

LEMMA CongMod ==
  ASSUME NEW a \in Int, NEW b \in Int, Cong(a, b)
  PROVE  a % M = b % M
<1>1. M \in Nat \ {0}
  BY Modulus
<1>2. PICK k \in Int : a = b + k * M
  BY DEF Cong
<1> HIDE DEF M
<1> DEFINE q == b \div M
           r == b % M
<1>3. q \in Int /\ r \in 0 .. M - 1 /\ b = M * q + r
  BY <1>1, Division
<1> HIDE DEF q, r
<1>4. a = M * (q + k) + r /\ q + k \in Int
  BY <1>1, <1>2, <1>3
<1>5. a % M = r
  BY <1>1, <1>3, <1>4, DivisionUnique
<1>6. QED
  BY <1>5 DEF r

LEMMA CongOfMod ==
  ASSUME NEW a \in Int
  PROVE  Cong(a, a % M) /\ Cong(a % M, a) /\ a % M \in 0 .. M - 1
<1>1. M \in Nat \ {0}
  BY Modulus
<1> HIDE DEF M
<1>2. a \div M \in Int /\ a % M \in 0 .. M - 1 /\ a = M * (a \div M) + (a % M)
  BY <1>1, Division
<1>3. a = (a % M) + (a \div M) * M
  BY <1>1, <1>2
<1>4. (a % M) = a + (-(a \div M)) * M /\ -(a \div M) \in Int
  BY <1>1, <1>2
<1>5. QED
  BY <1>2, <1>3, <1>4 DEF Cong

LEMMA CongTrans ==
  ASSUME NEW a \in Int, NEW b \in Int, NEW c \in Int, Cong(a, b), Cong(b, c)
  PROVE  Cong(a, c)
<1>1. M \in Nat
  BY Modulus
<1>2. PICK k \in Int : a = b + k * M
  BY DEF Cong
<1>3. PICK l \in Int : b = c + l * M
  BY DEF Cong
<1> HIDE DEF M
<1>4. a = c + (k + l) * M /\ k + l \in Int
  BY <1>1, <1>2, <1>3
<1>5. QED
  BY <1>4 DEF Cong

LEMMA CongSum ==
  ASSUME NEW a \in Int, NEW b \in Int, NEW c \in Int, NEW d \in Int, Cong(a, b), Cong(c, d)
  PROVE  Cong(a + c, b + d) /\ Cong(a - c, b - d) /\ Cong(b, a)
<1>1. M \in Nat
  BY Modulus
<1>2. PICK k \in Int : a = b + k * M
  BY DEF Cong
<1>3. PICK l \in Int : c = d + l * M
  BY DEF Cong
<1> HIDE DEF M
<1>4. /\ a + c = (b + d) + (k + l) * M /\ a - c = (b - d) + (k - l) * M /\ b = a + (-k) * M
      /\ k + l \in Int /\ k - l \in Int /\ -k \in Int
  BY <1>1, <1>2, <1>3
<1>5. QED
  BY <1>4 DEF Cong

LEMMA CongProduct ==
  ASSUME NEW a \in Int, NEW b \in Int, NEW c \in Int, NEW d \in Int, Cong(a, b), Cong(c, d)
  PROVE  Cong(a * c, b * d)
<1>1. M \in Nat
  BY Modulus
<1>2. PICK k \in Int : a = b + k * M
  BY DEF Cong
<1>3. PICK l \in Int : c = d + l * M
  BY DEF Cong
<1> HIDE DEF M
<1>4. a * c = b * d + (b * l + k * d + (k * l) * M) * M
  <2>1. a * c = (b + k * M) * (d + l * M)
    BY <1>2, <1>3
  <2>2. (b + k * M) * (d + l * M) = b * d + (b * l + k * d + (k * l) * M) * M
    BY <1>1, SMT
  <2>3. QED
    BY <2>1, <2>2
<1>5. b * l + k * d + (k * l) * M \in Int /\ b * d \in Int
  BY <1>1
<1>6. QED
  BY <1>4, <1>5 DEF Cong

-----------------------------------------------------------------------------
(* Sums and differences of 256 bits.                                        *)

LEMMA Wraps ==
  ASSUME NEW n \in Int
  PROVE  /\ n \in 0 .. Two256 - 1 => n % Two256 = n
         /\ n \in Two256 .. 2 * Two256 - 1 => n % Two256 = n - Two256
         /\ n \in -Two256 .. -1 => n % Two256 = n + Two256
<1>1. Two256 \in Nat \ {0}
  BY WordPowers
<1> HIDE DEF Two256
<1>2. ASSUME n \in 0 .. Two256 - 1 PROVE n % Two256 = n
  <2>1. n = Two256 * 0 + n
    BY <1>1
  <2>2. QED
    BY <1>1, <1>2, <2>1, DivisionUnique
<1>3. ASSUME n \in Two256 .. 2 * Two256 - 1 PROVE n % Two256 = n - Two256
  <2>1. n = Two256 * 1 + (n - Two256) /\ n - Two256 \in 0 .. Two256 - 1
    BY <1>1, <1>3
  <2>2. QED
    BY <1>1, <2>1, DivisionUnique
<1>4. ASSUME n \in -Two256 .. -1 PROVE n % Two256 = n + Two256
  <2>1. n = Two256 * (-1) + (n + Two256) /\ n + Two256 \in 0 .. Two256 - 1
    BY <1>1, <1>4
  <2>2. QED
    BY <1>1, <2>1, DivisionUnique
<1>5. QED
  BY <1>2, <1>3, <1>4

LEMMA Sums ==
  ASSUME NEW x \in Uints, NEW y \in Uints
  PROVE  /\ x + y < Two256 => Plus(x, y) = x + y
         /\ x + y >= Two256 => Plus(x, y) = x + y - Two256
         /\ x >= y => Minus(x, y) = x - y
         /\ x < y => Minus(x, y) = x - y + Two256
         /\ Plus(x, y) \in Uints /\ Minus(x, y) \in Uints
<1>1. Two256 \in Nat \ {0} /\ x \in 0 .. Two256 - 1 /\ y \in 0 .. Two256 - 1
  BY WordPowers DEF Uints
<1> HIDE DEF Two256
<1>2. /\ x + y < Two256 => x + y \in 0 .. Two256 - 1
      /\ x + y >= Two256 => x + y \in Two256 .. 2 * Two256 - 1
      /\ x >= y => x - y \in 0 .. Two256 - 1
      /\ x < y => x - y \in -Two256 .. -1
      /\ x + y \in Int /\ x - y \in Int
  BY <1>1
<1>3. /\ x + y < Two256 => Plus(x, y) = x + y
      /\ x + y >= Two256 => Plus(x, y) = x + y - Two256
      /\ x >= y => Minus(x, y) = x - y
      /\ x < y => Minus(x, y) = x - y + Two256
  <2> DEFINE s == x + y
             d == x - y
  <2>1. /\ s \in 0 .. Two256 - 1 => s % Two256 = s
        /\ s \in Two256 .. 2 * Two256 - 1 => s % Two256 = s - Two256
        /\ d \in 0 .. Two256 - 1 => d % Two256 = d
        /\ d \in -Two256 .. -1 => d % Two256 = d + Two256
    BY <1>2, Wraps
  <2>2. Plus(x, y) = s % Two256 /\ Minus(x, y) = d % Two256 /\ s = x + y /\ d = x - y
    BY DEF Plus, Minus
  <2>3. /\ x + y < Two256 => s \in 0 .. Two256 - 1
        /\ x + y >= Two256 => s \in Two256 .. 2 * Two256 - 1
        /\ x >= y => d \in 0 .. Two256 - 1
        /\ x < y => d \in -Two256 .. -1
    BY <1>2
  <2> HIDE DEF s, d
  <2>4. QED
    BY <1>1, <1>2, <2>1, <2>2, <2>3
<1>4. Plus(x, y) \in Uints /\ Minus(x, y) \in Uints
  BY <1>1, <1>2, <1>3 DEF Uints
<1>5. QED
  BY <1>3, <1>4

(* The multiples of the modulus that cancel a carry.                        *)
LEMMA Multiples ==
  /\ twiceBaseFieldSize = 2 * M /\ montgomeryBound = Two256 - M
  /\ reciprocal \div Two256 = 2 /\ mmu0 = 2 * M /\ mmu1 = 3 * M - Two256
  /\ reciprocal \in Nat /\ M * reciprocal <= Two256 * Two256 - 1 /\ Two256 * Two256 - 1 < M * reciprocal + M
<1>1. M \in Nat \ {0} /\ 3 * M > Two256 /\ 2 * M < Two256 /\ Two256 \in Nat \ {0}
  BY Modulus, WordPowers
<1> DEFINE T == Two256
           r == reciprocal
<1>2. r = (T * T - 1) \div M
  BY DEF reciprocal
<1> HIDE DEF T, r, M
<1>3. T \in Nat \ {0} /\ M \in Nat \ {0} /\ 3 * M > T /\ 2 * M < T /\ T * T - 1 \in Int
  BY <1>1 DEF T
<1>4. r \in Int /\ (T * T - 1) % M \in 0 .. M - 1 /\ T * T - 1 = M * r + ((T * T - 1) % M)
  BY <1>2, <1>3, Division
<1>5. M * r <= T * T - 1 /\ T * T - 1 < M * r + M
  BY <1>3, <1>4
<1>6. 2 * T <= r
  <2>1. ASSUME r < 2 * T PROVE FALSE
    <3>1. r + 1 <= 2 * T
      BY <1>3, <1>4, <2>1
    <3>2. M * (r + 1) <= M * (2 * T)
      BY <1>3, <1>4, <3>1, Monotone
    <3>3. M * (r + 1) = M * r + M /\ M * (2 * T) = (2 * M) * T
      BY <1>3, <1>4
    <3>4. (2 * M) * T <= (T - 1) * T
      <4>1. 2 * M <= T - 1
        BY <1>3
      <4>2. QED
        BY <1>3, <4>1, Monotone
    <3>5. (T - 1) * T = T * T - T
      BY <1>3
    <3>6. T * T \in Int /\ M * r \in Int /\ (2 * M) * T \in Int /\ (T - 1) * T \in Int
      BY <1>3, <1>4
    <3>7. QED
      BY <1>3, <1>5, <3>2, <3>3, <3>4, <3>5, <3>6
  <2>2. QED
    BY <1>3, <1>4, <2>1
<1>7. r < 3 * T
  <2>1. ASSUME r >= 3 * T PROVE FALSE
    <3>1. M * (3 * T) <= M * r
      BY <1>3, <1>4, <2>1, Monotone
    <3>2. M * (3 * T) = (3 * M) * T
      BY <1>3
    <3>3. T * T <= (3 * M) * T
      BY <1>3, Monotone
    <3>4. T * T \in Int /\ M * r \in Int /\ (3 * M) * T \in Int
      BY <1>3, <1>4
    <3>5. QED
      BY <1>5, <3>1, <3>2, <3>3, <3>4
  <2>2. QED
    BY <1>3, <1>4, <2>1
<1>8. r \div T = 2
  <2> DEFINE s == r - 2 * T
  <2>1. r = T * 2 + s /\ s \in 0 .. T - 1
    BY <1>3, <1>4, <1>6, <1>7
  <2> HIDE DEF s
  <2>2. (T * 2 + s) \div T = 2
    BY <1>3, <2>1, DivisionUnique
  <2>3. QED
    BY <2>1, <2>2
<1>9. mmu0 = 2 * M
  BY <1>3, <1>8 DEF mmu0, T, r
<1>10. mmu1 = 3 * M - T
  <2>1. mmu1 = (M * (2 + 1)) % Two256
    BY <1>8 DEF mmu1, T, r
  <2>2. M * (2 + 1) = 3 * M /\ 3 * M \in Two256 .. 2 * Two256 - 1 /\ 3 * M \in Int
    BY <1>3 DEF T
  <2>3. QED
    BY <2>1, <2>2, Wraps DEF T
<1>11. r \in Nat
  BY <1>3, <1>4, <1>6
<1>12. QED
  BY <1>5, <1>8, <1>9, <1>10, <1>11 DEF T, r, twiceBaseFieldSize, montgomeryBound

-----------------------------------------------------------------------------
(* The calls.  Each lemma says of a call that its result stands for the     *)
(* residue documented and lies in the range promised.                       *)

(* What the proofs about sums use of the constants.                         *)
LEMMA Constants ==
  /\ M \in Nat \ {0} /\ Two256 \in Nat /\ W^3 \in Nat \ {0}
  /\ 3 * M > Two256 /\ 2 * M < Two256 /\ W^3 < M
  /\ mmu0 = 2 * M /\ mmu1 = 3 * M - Two256
  /\ twiceBaseFieldSize = 2 * M /\ montgomeryBound = Two256 - M
  /\ M \in Uints /\ mmu0 \in Uints /\ mmu1 \in Uints /\ twiceBaseFieldSize \in Uints
<1>1. /\ M \in Nat \ {0} /\ Two256 \in Nat /\ W^3 \in Nat \ {0}
      /\ 3 * M > Two256 /\ 2 * M < Two256 /\ W^3 < M
      /\ mmu0 = 2 * M /\ mmu1 = 3 * M - Two256
      /\ twiceBaseFieldSize = 2 * M /\ montgomeryBound = Two256 - M
  BY Modulus, WordPowers, Multiples
<1> HIDE DEF M, Two256
<1>2. M \in Uints /\ mmu0 \in Uints /\ mmu1 \in Uints /\ twiceBaseFieldSize \in Uints
  BY <1>1 DEF Uints
<1>3. QED
  BY <1>1, <1>2

LEMMA Ranges ==
  ASSUME NEW q \in {"a", "b", "c", "f"}, NEW z \in Int
  PROVE  /\ z \in ReducedRange(q) <=>
              0 <= z /\ z < Two256 /\ (q = "b" => z < 2 * M) /\ (q = "c" => z < Two256 - M) /\ (q = "f" => z < M)
         /\ z \in ReducedRange(q) => z \in Uints /\ IsReduced(z, q)
<1>1. /\ M \in Nat \ {0} /\ Two256 \in Nat /\ 3 * M > Two256 /\ 2 * M < Two256
      /\ twiceBaseFieldSize = 2 * M /\ montgomeryBound = Two256 - M
  BY Constants
<1> HIDE DEF M, Two256
<1>2. CASE q = "a"
  BY <1>1, <1>2 DEF ReducedRange, IsReduced, Uints
<1>3. CASE q = "b"
  BY <1>1, <1>3 DEF ReducedRange, IsReduced, Uints
<1>4. CASE q = "c"
  BY <1>1, <1>4 DEF ReducedRange, IsReduced, Uints
<1>5. CASE q = "f"
  BY <1>1, <1>5 DEF ReducedRange, IsReduced, Uints
<1>6. QED
  BY <1>2, <1>3, <1>4, <1>5

(* z stands for n.                                                          *)
Right(z, n, q) == z \in ReducedRange(q) /\ Cong(z, n)

LEMMA Reduce_ca_Right ==
  ASSUME NEW z \in Uints
  PROVE  /\ Right(Reduce_ca(z), z, "c")
         /\ Reduce_ca(z) <= z /\ (z < 2 * M => Reduce_ca(z) < 2 * M) /\ Reduce_ca(z) \in Nat
         /\ (Reduce_ca(z) = z \/ Reduce_ca(z) = z - M)
<1>1. /\ Two256 \in Nat /\ M \in Nat \ {0} /\ M \in Uints /\ W^3 \in Nat \ {0}
      /\ 3 * M > Two256 /\ 2 * M < Two256
  BY Constants
<1>2. /\ Top(z) > M_3 => z > M
      /\ ~(Top(z) > M_3) => z <= Two256 - M - W^3
  BY TopCompared
<1>3. z >= M => Minus(z, M) = z - M
  BY <1>1, Sums
<1>4. z \in 0 .. Two256 - 1
  BY DEF Uints
<1> HIDE DEF M, Two256
<1>5. CASE Top(z) > M_3
  <2>1. Reduce_ca(z) = z - M /\ z > M
    BY <1>1, <1>2, <1>3, <1>4, <1>5 DEF Reduce_ca
  <2>2. z - M \in Nat /\ z - M < Two256 - M /\ z - M < Two256
    BY <1>1, <1>4, <2>1
  <2>3. Reduce_ca(z) \in ReducedRange("c")
    BY <1>1, <2>1, <2>2, Ranges
  <2>4. Cong(Reduce_ca(z), z)
    BY <1>4, <2>1, CongShifts
  <2>5. QED
    BY <1>1, <1>4, <2>1, <2>2, <2>3, <2>4 DEF Right
<1>6. CASE ~(Top(z) > M_3)
  <2>1. Reduce_ca(z) = z
    BY <1>6 DEF Reduce_ca
  <2>2. z < Two256 - M /\ z < Two256
    BY <1>1, <1>2, <1>4, <1>6
  <2>3. Reduce_ca(z) \in ReducedRange("c")
    BY <1>4, <2>1, <2>2, Ranges
  <2>4. Cong(Reduce_ca(z), z)
    BY <1>4, <2>1, CongShifts
  <2>5. QED
    BY <1>1, <1>4, <2>1, <2>2, <2>3, <2>4 DEF Right
<1>7. QED
  BY <1>5, <1>6

LEMMA Add_Right ==
  ASSUME NEW q \in {"b", "c"}, NEW x \in ReducedRange(q), NEW y \in ReducedRange(q)
  PROVE  Right(AddAndReduce_b_c(x, y), x + y, q)
<1>1. /\ Two256 \in Nat /\ M \in Nat \ {0} /\ twiceBaseFieldSize = 2 * M /\ twiceBaseFieldSize \in Uints
      /\ 3 * M > Two256 /\ 2 * M < Two256
  BY Constants
<1>2. /\ x \in Uints /\ y \in Uints /\ x \in Nat /\ y \in Nat /\ x < Two256 /\ y < Two256
      /\ (q = "b" => x < 2 * M /\ y < 2 * M) /\ (q = "c" => x < Two256 - M /\ y < Two256 - M)
  <2>1. ReducedRange(q) \subseteq Int
    BY <1>1 DEF ReducedRange, Uints
  <2>2. QED
    BY <2>1, Ranges
<1> DEFINE p == Plus(x, y)
           v == IF x + y >= Two256 THEN Minus(p, twiceBaseFieldSize) ELSE p
<1>3. p \in Uints /\ p = IF x + y >= Two256 THEN x + y - Two256 ELSE x + y
  BY <1>1, <1>2, Sums
<1>4. AddAndReduce_b_c(x, y) = Reduce_ca(v)
  BY DEF AddAndReduce_b_c
<1>5. /\ p >= 2 * M => Minus(p, twiceBaseFieldSize) = p - 2 * M
      /\ p < 2 * M => Minus(p, twiceBaseFieldSize) = p - 2 * M + Two256
  BY <1>1, <1>3, Sums
<1> HIDE DEF p, M, Two256
<1>6. v = IF x + y >= Two256 THEN x + y - 2 * M ELSE x + y
  <2>1. x + y >= Two256 => p < 2 * M
    BY <1>1, <1>2, <1>3
  <2>2. QED
    BY <1>1, <1>2, <1>3, <1>5, <2>1
<1>7. v \in 0 .. Two256 - 1 /\ (q = "b" /\ x + y >= Two256 => v < 2 * M)
  BY <1>1, <1>2, <1>6
<1>8. Cong(v, x + y)
  BY <1>1, <1>2, <1>6, CongShifts
<1> HIDE DEF v
<1>9. v \in Uints
  BY <1>7 DEF Uints
<1>10. Right(Reduce_ca(v), v, "c") /\ (v < 2 * M => Reduce_ca(v) < 2 * M) /\ Reduce_ca(v) \in Nat
  BY <1>9, Reduce_ca_Right
<1>11. Reduce_ca(v) < Two256 - M
  BY <1>10, Ranges DEF Right
<1>12. Cong(Reduce_ca(v), x + y)
  BY <1>2, <1>7, <1>8, <1>10, CongTrans DEF Right
<1>13. Reduce_ca(v) \in ReducedRange(q)
  BY <1>1, <1>10, <1>11, Ranges
<1>14. QED
  BY <1>4, <1>12, <1>13 DEF Right

LEMMA Sub_c_Right ==
  ASSUME NEW x \in ReducedRange("c"), NEW y \in ReducedRange("c")
  PROVE  Right(SubAndReduce_c(x, y), x - y, "c")
<1>1. /\ Two256 \in Nat /\ M \in Nat \ {0} /\ twiceBaseFieldSize = 2 * M /\ twiceBaseFieldSize \in Uints
      /\ 3 * M > Two256 /\ 2 * M < Two256 /\ M \in Uints
  BY Constants
<1>2. x \in Uints /\ y \in Uints /\ x \in Nat /\ y \in Nat /\ x < Two256 - M /\ y < Two256 - M
  <2>1. ReducedRange("c") \subseteq Int
    BY <1>1 DEF ReducedRange
  <2>2. QED
    BY <2>1, Ranges
<1> DEFINE z == Minus(x, y)
           X == W^3
           t == Top(z)
<1>3. /\ z \in Uints
      /\ x >= y => z = x - y
      /\ x < y => z = x - y + Two256
  BY <1>2, Sums
<1>4. /\ Plus(z, M) = IF z + M < Two256 THEN z + M ELSE z + M - Two256
      /\ Plus(z, twiceBaseFieldSize) = IF z + 2 * M < Two256 THEN z + 2 * M ELSE z + 2 * M - Two256
  <2> HIDE DEF z
  <2>1. z \in Nat
    BY <1>1, <1>3 DEF Uints
  <2> HIDE DEF M, Two256
  <2>2. z + M < Two256 \/ z + M >= Two256
    BY <1>1, <2>1
  <2>3. z + 2 * M < Two256 \/ z + 2 * M >= Two256
    BY <1>1, <2>1
  <2>4. QED
    BY <1>1, <1>3, <2>1, <2>2, <2>3, Sums
<1>5. /\ t \in Nat /\ t * X \in Nat /\ t * X <= z /\ z < t * X + X
      /\ X \in Nat \ {0} /\ Two256 = W * X /\ W \in Nat
      /\ M_3 \in Nat /\ M_3 * X <= M /\ M < M_3 * X + X /\ M_3 * X \in Nat
      /\ M_3 * X + 2 * X <= Two256 - M
  BY <1>3, TopOf, Modulus, WordPowers, WordIsPower
<1>6. SubAndReduce_c(x, y) = IF x >= y THEN z
                             ELSE IF t > W - 1 - M_3 THEN Plus(z, M) ELSE Plus(z, twiceBaseFieldSize)
  BY DEF SubAndReduce_c
<1>7. z \in Nat /\ z < Two256
  BY <1>1, <1>3 DEF Uints
<1> DEFINE res == SubAndReduce_c(x, y)
<1> HIDE DEF z, X, t, M, M_3, Two256, W, res
<1>8. CASE x >= y
  <2>1. res = x - y
    BY <1>3, <1>6, <1>8 DEF res
  <2>2. res \in Nat /\ res < Two256 - M /\ res < Two256
    BY <1>1, <1>2, <1>8, <2>1
  <2>3. Cong(res, x - y)
    BY <1>2, <2>1, CongShifts
  <2>4. QED
    BY <1>1, <2>2, <2>3, Ranges DEF Right, res
<1>9. CASE x < y /\ t > W - 1 - M_3
  <2>1. (W - M_3) * X <= t * X
    <3>1. W - M_3 <= t
      BY <1>5, <1>9
    <3>2. QED
      BY <1>5, <3>1, Monotone
  <2>2. (W - M_3) * X = Two256 - M_3 * X
    BY <1>1, <1>5
  <2>3. z + M >= Two256
    BY <1>1, <1>5, <1>7, <2>1, <2>2
  <2>4. res = z + M - Two256
    BY <1>1, <1>2, <1>4, <1>6, <1>7, <1>9, <2>3 DEF res
  <2>5. res = (x - y) + M
    BY <1>1, <1>2, <1>3, <1>9, <2>4
  <2>6. res \in Nat /\ res < Two256 - M /\ res < Two256
    BY <1>1, <1>2, <1>7, <2>3, <2>4
  <2>7. Cong(res, x - y)
    BY <1>2, <2>5, CongShifts
  <2>8. QED
    BY <1>1, <2>6, <2>7, Ranges DEF Right, res
<1>10. CASE x < y /\ ~(t > W - 1 - M_3)
  <2>1. t * X <= (W - 1 - M_3) * X
    <3>1. t <= W - 1 - M_3
      BY <1>5, <1>10
    <3>2. QED
      BY <1>5, <3>1, Monotone
  <2>2. (W - 1 - M_3) * X = Two256 - X - M_3 * X
    BY <1>1, <1>5
  <2>3. z < Two256 - M_3 * X
    BY <1>1, <1>5, <1>7, <2>1, <2>2
  <2>4. z > M
    BY <1>1, <1>2, <1>3, <1>10
  <2>5. res = z + 2 * M - Two256
    BY <1>1, <1>2, <1>4, <1>6, <1>7, <1>10, <2>4 DEF res
  <2>6. res = (x - y) + 2 * M
    BY <1>1, <1>2, <1>3, <1>10, <2>5
  <2>7. res < 2 * M - M_3 * X
    BY <1>1, <1>5, <1>7, <2>3, <2>5
  <2>8. res \in Nat /\ res < Two256 - M /\ res < Two256
    BY <1>1, <1>5, <1>7, <2>4, <2>5, <2>7
  <2>9. Cong(res, x - y)
    BY <1>2, <2>6, CongShifts
  <2>10. QED
    BY <1>1, <2>8, <2>9, Ranges DEF Right, res
<1>11. QED
  BY <1>2, <1>8, <1>9, <1>10

LEMMA Sub_b_Right ==
  ASSUME NEW x \in ReducedRange("b"), NEW y \in ReducedRange("b")
  PROVE  Right(SubAndReduce_b(x, y), x - y, "b")
<1>1. /\ Two256 \in Nat /\ M \in Nat \ {0} /\ twiceBaseFieldSize = 2 * M /\ twiceBaseFieldSize \in Uints
      /\ 3 * M > Two256 /\ 2 * M < Two256
  BY Constants
<1>2. x \in Uints /\ y \in Uints /\ x \in Nat /\ y \in Nat /\ x < 2 * M /\ y < 2 * M
  <2>1. ReducedRange("b") \subseteq Int
    BY <1>1 DEF ReducedRange
  <2>2. QED
    BY <2>1, Ranges
<1> DEFINE z == Minus(x, y)
           res == SubAndReduce_b(x, y)
<1>3. /\ z \in Uints
      /\ x < y => z = x - y + Two256
  BY <1>2, Sums
<1>4. res = IF x >= y THEN x - y ELSE Plus(z, twiceBaseFieldSize)
  BY DEF SubAndReduce_b
<1>5. z + 2 * M >= Two256 => Plus(z, twiceBaseFieldSize) = z + 2 * M - Two256
  BY <1>1, <1>3, Sums
<1> HIDE DEF z, M, Two256, res
<1>6. res = x - y \/ res = (x - y) + 2 * M
  BY <1>1, <1>2, <1>3, <1>4, <1>5
<1>7. res \in Nat /\ res < 2 * M /\ res < Two256
  BY <1>1, <1>2, <1>3, <1>4, <1>5
<1>8. Cong(res, x - y)
  BY <1>2, <1>6, CongShifts
<1>9. QED
  BY <1>1, <1>7, <1>8, Ranges DEF Right, res

LEMMA CancelCarry_Right ==
  ASSUME NEW s \in Int, s >= Two256, s <= 2 * Two256 - 2
  PROVE  Right(CancelCarry(s - Two256), s, "a")
<1>1. /\ Two256 \in Nat /\ M \in Nat \ {0} /\ mmu0 = 2 * M /\ mmu1 = 3 * M - Two256
      /\ 3 * M > Two256 /\ 2 * M < Two256 /\ mmu0 \in Uints /\ mmu1 \in Uints
  BY Constants
<1> DEFINE t == s - Two256
           res == CancelCarry(t)
<1>2. t \in Nat /\ t < Two256
  BY <1>1
<1>3. t \in Uints
  BY <1>1, <1>2 DEF Uints
<1>4. /\ t >= mmu1 => Minus(t, mmu1) = t - mmu1
      /\ t < mmu0 => Minus(t, mmu0) = t - mmu0 + Two256
  <2> HIDE DEF t
  <2>1. QED
    BY <1>1, <1>3, Sums
<1>5. res = IF t >= mmu0 THEN Minus(t, mmu1) ELSE Minus(t, mmu0)
  BY DEF CancelCarry
<1>6. s = t + Two256
  BY <1>1
<1> HIDE DEF t, M, Two256, res
<1>7. res = s - 3 * M \/ res = s - 2 * M
  BY <1>1, <1>2, <1>4, <1>5, <1>6
<1>8. res \in Nat /\ res < Two256
  BY <1>1, <1>2, <1>4, <1>5
<1>9. Cong(res, s)
  BY <1>7, CongShifts
<1>10. QED
  BY <1>1, <1>8, <1>9, Ranges DEF Right, res, t

LEMMA AddEq_Right ==
  ASSUME NEW z \in Uints, NEW x \in Uints
  PROVE  Right(AddEqAndReduce_a(z, x), z + x, "a")
<1>1. Two256 \in Nat /\ z \in Nat /\ x \in Nat /\ z < Two256 /\ x < Two256
  BY Constants DEF Uints
<1>2. z + x >= Two256 => Plus(z, x) = z + x - Two256
  BY Sums
<1>3. x + z = z + x
  BY <1>1
<1> HIDE DEF Two256
<1>4. CASE z + x < Two256
  <2>1. AddEqAndReduce_a(z, x) = z + x
    BY <1>3, <1>4 DEF AddEqAndReduce_a
  <2>2. z + x \in Nat /\ z + x \in Int
    BY <1>1
  <2>3. QED
    BY <1>4, <2>1, <2>2, Ranges, CongShifts DEF Right
<1>5. CASE z + x >= Two256
  <2>1. AddEqAndReduce_a(z, x) = CancelCarry((z + x) - Two256)
    BY <1>1, <1>2, <1>3, <1>5 DEF AddEqAndReduce_a
  <2>2. z + x \in Int /\ z + x <= 2 * Two256 - 2
    BY <1>1
  <2> DEFINE s == z + x
  <2>3. Right(CancelCarry(s - Two256), s, "a")
    <3>1. s \in Int /\ s >= Two256 /\ s <= 2 * Two256 - 2
      BY <1>5, <2>2
    <3> HIDE DEF s
    <3>2. QED
      BY <3>1, CancelCarry_Right
  <2>4. QED
    BY <2>1, <2>3
<1>6. QED
  BY <1>1, <1>4, <1>5

LEMMA Double_Right ==
  ASSUME NEW z \in Uints
  PROVE  Right(DoubleEqAndReduce_a(z), 2 * z, "a")
<1>1. z \in Nat
  BY Constants DEF Uints
<1>2. 2 * z = z + z
  BY <1>1
<1>3. DoubleEqAndReduce_a(z) = AddEqAndReduce_a(z, z)
  BY <1>2 DEF DoubleEqAndReduce_a, AddEqAndReduce_a
<1>4. QED
  BY <1>2, <1>3, AddEq_Right

LEMMA SubEq_Right ==
  ASSUME NEW z \in Uints, NEW x \in Uints
  PROVE  Right(SubEqAndReduce_a(z, x), z - x, "a")
<1>1. /\ Two256 \in Nat /\ z \in Nat /\ x \in Nat /\ z < Two256 /\ x < Two256
      /\ M \in Nat \ {0} /\ mmu0 = 2 * M /\ mmu1 = 3 * M - Two256
      /\ 3 * M > Two256 /\ 2 * M < Two256 /\ mmu0 \in Uints /\ mmu1 \in Uints
  BY Constants DEF Uints
<1> DEFINE t == Minus(z, x)
           res == SubEqAndReduce_a(z, x)
<1>2. t \in Uints /\ (z >= x => t = z - x) /\ (z < x => t = z - x + Two256)
  BY Sums
<1>3. t \in Nat /\ t < Two256
  BY <1>1, <1>2 DEF Uints
<1>4. res = IF z >= x THEN t ELSE IF t + mmu0 < Two256 THEN Plus(t, mmu1) ELSE Plus(t, mmu0)
  BY DEF SubEqAndReduce_a
<1>5. /\ t + mmu1 < Two256 => Plus(t, mmu1) = t + mmu1
      /\ t + mmu0 >= Two256 => Plus(t, mmu0) = t + mmu0 - Two256
  BY <1>1, <1>2, Sums
<1> HIDE DEF t, res, M, Two256
<1>6. res = z - x \/ res = (z - x) + 2 * M \/ res = (z - x) + 3 * M
  BY <1>1, <1>2, <1>3, <1>4, <1>5
<1>7. res \in Nat /\ res < Two256
  BY <1>1, <1>2, <1>3, <1>4, <1>5
<1>8. Cong(res, z - x)
  BY <1>1, <1>6, CongShifts
<1>9. QED
  BY <1>1, <1>7, <1>8, Ranges DEF Right, res

LEMMA Negative_Right ==
  ASSUME NEW z \in Uints
  PROVE  Right(ComputeModularNegative_Weak_a(z), -z, "a")
<1>1. /\ Two256 \in Nat /\ z \in Nat /\ z < Two256
      /\ M \in Nat \ {0} /\ mmu0 = 2 * M /\ mmu1 = 3 * M - Two256
      /\ 3 * M > Two256 /\ 2 * M < Two256 /\ mmu0 \in Uints /\ mmu1 \in Uints
  BY Constants DEF Uints
<1> DEFINE res == ComputeModularNegative_Weak_a(z)
<1>2. /\ mmu1 >= z => Minus(mmu1, z) = mmu1 - z
      /\ mmu1 < z => Minus(mmu1, z) = mmu1 - z + Two256
  BY <1>1, Sums
<1>3. res = IF z <= mmu0 THEN mmu0 - z ELSE Minus(mmu1, z)
  BY DEF ComputeModularNegative_Weak_a
<1> HIDE DEF res, M, Two256
<1>4. res = (-z) + 2 * M \/ res = (-z) + 3 * M
  BY <1>1, <1>2, <1>3
<1>5. res \in Nat /\ res < Two256
  BY <1>1, <1>2, <1>3
<1>6. Cong(res, -z)
  <2>1. -z \in Int
    BY <1>1
  <2>2. QED
    BY <1>4, <2>1, CongShifts
<1>7. QED
  BY <1>1, <1>5, <1>6, Ranges DEF Right, res

-----------------------------------------------------------------------------
(* Reductions.                                                              *)

(* What is known of a Uint256 and the constants.                            *)
LEMMA UintFacts ==
  ASSUME NEW z \in Uints
  PROVE  /\ z \in Nat /\ z < Two256 /\ Two256 \in Nat
         /\ M \in Nat \ {0} /\ M \in Uints /\ 3 * M > Two256 /\ 2 * M < Two256
         /\ Top(z) < M_3 => z < M
         /\ z < M => Plus(Minus(z, M), M) = z
         /\ z >= M => Minus(z, M) = z - M
<1>1. /\ z \in Nat /\ z < Two256 /\ Two256 \in Nat
      /\ M \in Nat \ {0} /\ M \in Uints /\ 3 * M > Two256 /\ 2 * M < Two256
  BY Constants DEF Uints
<1>2. Top(z) < M_3 => z < M
  BY TopCompared
<1> DEFINE d == Minus(z, M)
<1>3. d \in Uints /\ (z < M => d = z - M + Two256) /\ (z >= M => d = z - M)
  BY <1>1, Sums
<1>4. d \in Nat /\ d + M >= Two256 => Plus(d, M) = d + M - Two256
  BY <1>1, <1>3, Sums
<1>5. d \in Nat
  BY <1>3 DEF Uints
<1> HIDE DEF d, M, Two256
<1>6. z < M => Plus(d, M) = z
  BY <1>1, <1>3, <1>4, <1>5
<1>7. QED
  BY <1>1, <1>2, <1>3, <1>6 DEF d

(* A result that is z or z minus a multiple of the modulus.                 *)
LEMMA ReducedTo ==
  ASSUME NEW z \in Int, NEW v \in Nat, v < M, v = z \/ v = z - M \/ v = z - 2 * M
  PROVE  Right(v, z, "f")
<1>1. M < Two256 /\ M \in Nat /\ Two256 \in Nat
  BY UintFacts, Constants
<1>2. v < Two256
  <2> HIDE DEF M, Two256
  <2> QED
    BY <1>1
<1>3. Cong(v, z)
  BY CongShifts
<1>4. v \in ReducedRange("f")
  BY <1>2, Ranges
<1>5. QED
  BY <1>3, <1>4 DEF Right

LEMMA Reduce_fb_Right ==
  ASSUME NEW z \in Uints, z < 2 * M
  PROVE  Right(Reduce_fb_exact(z), z, "f") /\ Right(Reduce_fb_optimistic(z), z, "f")
<1>1. /\ z \in Nat /\ M \in Nat \ {0}
      /\ Top(z) < M_3 => z < M
      /\ z < M => Plus(Minus(z, M), M) = z
      /\ z >= M => Minus(z, M) = z - M
  BY UintFacts
<1> DEFINE v == IF z < M THEN z ELSE z - M
<1>2. Reduce_fb_exact(z) = v
  BY <1>1 DEF Reduce_fb_exact
<1>3. Reduce_fb_optimistic(z) = v
  BY <1>1 DEF Reduce_fb_optimistic
<1>4. v \in Nat /\ v < M /\ (v = z \/ v = z - M)
  <2> HIDE DEF M
  <2> QED
    BY <1>1
<1> HIDE DEF v
<1>5. Right(v, z, "f")
  BY <1>1, <1>4, ReducedTo
<1>6. QED
  BY <1>2, <1>3, <1>5

LEMMA Reduce_fa_optimistic_Right ==
  ASSUME NEW z \in Uints
  PROVE  Right(Reduce_fa_optimistic(z), z, "f")
<1> DEFINE two == twiceBaseFieldSize
           X == W^3
           v == Reduce_fa_optimistic(z)
           e == Minus(z, two)
<1>1. /\ z \in Nat /\ z < Two256 /\ Two256 \in Nat
      /\ M \in Nat \ {0} /\ M \in Uints /\ 3 * M > Two256 /\ 2 * M < Two256
      /\ Top(z) < M_3 => z < M
      /\ z < M => Plus(Minus(z, M), M) = z
      /\ two = 2 * M /\ two \in Uints /\ X \in Nat \ {0} /\ X < M
  BY UintFacts, Constants
<1>2. /\ v = IF Top(z) < M_3 THEN z
             ELSE IF Top(z) < Top(two)
               THEN IF z < M THEN Plus(Minus(z, M), M) ELSE z - M
               ELSE IF z < two THEN Plus(e, M) ELSE z - two
  BY DEF Reduce_fa_optimistic
<1>3. /\ e \in Uints /\ (z < two => e = z - two + Two256)
  BY <1>1, Sums
<1>4. e \in Nat /\ (e + M >= Two256 => Plus(e, M) = e + M - Two256)
  BY <1>1, <1>3, Sums DEF Uints
<1>5. /\ Top(z) \in Nat /\ Top(z) * X <= z /\ z < Top(z) * X + X /\ Top(z) * X \in Nat
      /\ Top(two) \in Nat /\ Top(two) * X <= two /\ two < Top(two) * X + X /\ Top(two) * X \in Nat
  BY <1>1, TopOf
<1> HIDE DEF two, X, v, e, M, Two256, Top
<1>6. CASE Top(z) < M_3 \/ z < M
  <2>1. z < M
    BY <1>1, <1>6
  <2>2. CASE Top(z) < M_3 \/ Top(z) < Top(two)
    <3>1. v = z
      BY <1>1, <1>2, <2>1, <2>2
    <3>2. QED
      BY <1>1, <2>1, <3>1, ReducedTo DEF v
  <2>3. CASE ~(Top(z) < Top(two))
    <3>1. Top(two) * X <= Top(z) * X
      <4>1. Top(two) <= Top(z)
        BY <1>5, <2>3
      <4>2. QED
        BY <1>1, <1>5, <4>1, Monotone
    <3>2. two < z + X
      BY <1>1, <1>5, <3>1
    <3>3. FALSE
      BY <1>1, <2>1, <3>2
    <3>4. QED
      BY <3>3
  <2>4. QED
    BY <2>2, <2>3
<1>7. CASE ~(Top(z) < M_3) /\ ~(z < M)
  <2>1. CASE Top(z) < Top(two)
    <3>1. Top(z) * X + X <= Top(two) * X
      <4>1. Top(z) + 1 <= Top(two)
        BY <1>5, <2>1
      <4>2. (Top(z) + 1) * X <= Top(two) * X
        BY <1>1, <1>5, <4>1, Monotone
      <4>3. (Top(z) + 1) * X = Top(z) * X + X
        BY <1>1, <1>5
      <4>4. QED
        BY <4>2, <4>3
    <3>2. z < 2 * M
      BY <1>1, <1>5, <3>1
    <3>3. v = z - M
      BY <1>2, <1>7, <2>1
    <3>4. v \in Nat /\ v < M
      BY <1>1, <1>7, <3>2, <3>3
    <3>5. QED
      BY <1>1, <3>3, <3>4, ReducedTo DEF v
  <2>2. CASE ~(Top(z) < Top(two))
    <3>1. CASE z < two
      <4>1. e = z - 2 * M + Two256
        BY <1>1, <1>3, <3>1
      <4>2. e + M >= Two256
        BY <1>1, <1>7, <4>1
      <4>3. v = z - M
        BY <1>1, <1>2, <1>4, <1>7, <2>2, <3>1, <4>1, <4>2
      <4>4. v \in Nat /\ v < M
        BY <1>1, <1>7, <3>1, <4>3
      <4>5. QED
        BY <1>1, <4>3, <4>4, ReducedTo DEF v
    <3>2. CASE ~(z < two)
      <4>1. v = z - 2 * M
        BY <1>1, <1>2, <1>7, <2>2, <3>2
      <4>2. v \in Nat /\ v < M
        BY <1>1, <3>2, <4>1
      <4>3. QED
        BY <1>1, <4>1, <4>2, ReducedTo DEF v
    <3>3. QED
      BY <3>1, <3>2
  <2>3. QED
    BY <2>1, <2>2
<1>8. QED
  BY <1>6, <1>7

(* A loop that subtracts the modulus while it can.                          *)
SubtractsModulus(f, n) == f = [r \in 0 .. n |-> IF r < M THEN r ELSE f[r - M]]

LEMMA SubtractionLoop ==
  ASSUME NEW n \in Nat
  PROVE  /\ \E f : SubtractsModulus(f, n)
         /\ \A f : SubtractsModulus(f, n) => \A r \in 0 .. n : f[r] = r % M
<1>1. M \in Nat \ {0}
  BY Constants
<1> HIDE DEF M
<1>2. ASSUME NEW r \in 0 .. n
      PROVE  r % M = IF r < M THEN r ELSE (r - M) % M
  <2>1. CASE r < M
    <3>1. r = M * 0 + r /\ r \in 0 .. M - 1
      BY <1>1, <2>1
    <3>2. QED
      BY <1>1, <2>1, <3>1, DivisionUnique
  <2>2. CASE ~(r < M)
    <3> DEFINE d == r - M
               k == d \div M
               s == d % M
    <3>1. d \in Int
      BY <1>1
    <3>2. k \in Int /\ s \in 0 .. M - 1 /\ d = M * k + s
      BY <1>1, <3>1, Division
    <3>3. r = d + M
      BY <1>1
    <3> HIDE DEF d, k, s
    <3>4. r = M * (k + 1) + s /\ k + 1 \in Int
      BY <1>1, <3>1, <3>2, <3>3
    <3>5. r % M = s
      BY <1>1, <3>2, <3>4, DivisionUnique
    <3>6. QED
      BY <2>2, <3>5 DEF s, d
  <2>3. QED
    BY <2>1, <2>2
<1>3. \E f : SubtractsModulus(f, n)
  <2> DEFINE g == [r \in 0 .. n |-> r % M]
  <2>1. ASSUME NEW r \in 0 .. n
        PROVE  g[r] = IF r < M THEN r ELSE g[r - M]
    <3>1. ~(r < M) => r - M \in 0 .. n
      BY <1>1
    <3>2. ~(r < M) => g[r - M] = (r - M) % M
      BY <3>1
    <3>3. g[r] = r % M
      OBVIOUS
    <3> HIDE DEF g
    <3>4. QED
      BY <1>2, <3>2, <3>3
  <2>2. g = [r \in 0 .. n |-> g[r]]
    OBVIOUS
  <2> HIDE DEF g
  <2>3. SubtractsModulus(g, n)
    BY <2>1, <2>2 DEF SubtractsModulus
  <2>4. QED
    BY <2>3
<1>4. ASSUME NEW f, SubtractsModulus(f, n)
      PROVE  \A r \in 0 .. n : f[r] = r % M
  <2> DEFINE Bad == {r \in 0 .. n : f[r] # r % M}
  <2>1. SUFFICES ASSUME Bad # {} PROVE FALSE
    OBVIOUS
  <2>2. PICK r \in Bad : \A m \in Bad : r <= m
    <3>1. Bad \subseteq Nat
      OBVIOUS
    <3> HIDE DEF Bad
    <3>2. QED
      BY <2>1, <3>1, LeastElement
  <2>3. r \in 0 .. n /\ f[r] # r % M
    OBVIOUS
  <2>4. f[r] = IF r < M THEN r ELSE f[r - M]
    BY <2>3, <1>4 DEF SubtractsModulus
  <2>5. ~(r < M)
    BY <1>2, <2>3, <2>4
  <2>6. r - M \in 0 .. n /\ r - M < r
    BY <1>1, <2>3, <2>5
  <2>7. f[r - M] = (r - M) % M
    <3>1. r - M \notin Bad
      <4> HIDE DEF Bad
      <4>1. r - M \in Bad => r <= r - M
        BY <2>2
      <4>2. QED
        BY <1>1, <2>3, <2>6, <4>1
    <3>2. QED
      BY <2>6, <3>1
  <2>8. QED
    BY <1>2, <2>3, <2>4, <2>5, <2>7
<1>5. QED
  BY <1>3, <1>4

LEMMA Remainder_Right ==
  ASSUME NEW z \in Int, NEW d \in Int, d = z \/ d = z - M
  PROVE  Right(d % M, z, "f")
<1>1. M \in Nat \ {0} /\ Two256 \in Nat /\ M < Two256
  <2>1. M \in Nat \ {0} /\ Two256 \in Nat /\ 2 * M < Two256
    BY Constants
  <2> HIDE DEF M, Two256
  <2>2. QED
    BY <2>1
<1>2. Cong(d % M, d) /\ d % M \in 0 .. M - 1 /\ Cong(d, z)
  BY CongOfMod, CongShifts
<1> DEFINE v == d % M
<1> HIDE DEF v, M, Two256
<1>3. v \in Int /\ v < M /\ v < Two256 /\ v >= 0
  BY <1>1, <1>2 DEF v
<1>4. Cong(v, z)
  BY <1>2, <1>3, CongTrans DEF v
<1>5. v \in ReducedRange("f")
  BY <1>3, Ranges
<1>6. QED
  BY <1>4, <1>5 DEF Right, v

LEMMA Reduce_fa_loop_Right ==
  ASSUME NEW z \in Uints
  PROVE  Right(Reduce_fa_loop(z), z, "f")
<1> DEFINE Is(f) == f = [y \in Uints |-> IF Top(y) < M_3 THEN y
                                        ELSE IF y < M THEN Plus(Minus(y, M), M) ELSE f[y - M]]
           n == Two256 - 1
           loop == CHOOSE f : Is(f)
<1>1. n \in Nat /\ Uints = 0 .. n
  BY WordPowers DEF Uints
<1>2. \A f : Is(f) <=> SubtractsModulus(f, n)
  <2>1. ASSUME NEW f, NEW y \in Uints
        PROVE  (IF Top(y) < M_3 THEN y ELSE IF y < M THEN Plus(Minus(y, M), M) ELSE f[y - M])
                 = IF y < M THEN y ELSE f[y - M]
    BY UintFacts
  <2> HIDE DEF n
  <2>2. QED
    BY <1>1, <2>1 DEF SubtractsModulus
<1>3. Reduce_fa_loop(z) = loop[z]
  BY DEF Reduce_fa_loop
<1> HIDE DEF Is, n
<1>4. Is(loop)
  BY <1>1, <1>2, SubtractionLoop
<1> HIDE DEF loop
<1>5. loop[z] = z % M
  BY <1>1, <1>2, <1>4, SubtractionLoop
<1>6. z \in Int
  BY UintFacts
<1>7. QED
  BY <1>3, <1>5, <1>6, Remainder_Right

LEMMA Reduce_fa_barret_Right ==
  ASSUME NEW z \in Uints
  PROVE  Right(Reduce_fa_barret(z), z, "f")
<1> DEFINE X == W^3
           t == Top(z)
           q3 == (t * 2) \div W
           n == W^5 - 1
           loop == CHOOSE f : f = [r \in 0 .. W^5 - 1 |-> IF r < M THEN r ELSE f[r - M]]
           d == z - q3 * M
<1>1. /\ z \in Nat /\ z < Two256 /\ Two256 \in Nat /\ M \in Nat \ {0} /\ 2 * M < Two256
      /\ t \in Nat /\ t * X \in Nat /\ t * X <= z /\ z < t * X + X
      /\ X \in Nat \ {0} /\ W \in Nat /\ W >= 8 /\ Two256 = W * X /\ W^5 = W * Two256
      /\ W^5 \in Nat \ {0}
  BY UintFacts, TopOf, WordPowers, WordIsPower, Modulus
<1>2. n \in Nat
  BY <1>1
<1>3. Reduce_fa_barret(z) = loop[d % W^5] % Two256
  BY Multiples DEF Reduce_fa_barret
<1> HIDE DEF X, t, W, M, Two256, n
<1>4. q3 \in {0, 1} /\ (q3 = 1 => 2 * t >= W)
  <2>1. q3 \in Int /\ (t * 2) % W \in 0 .. W - 1 /\ t * 2 = W * q3 + ((t * 2) % W)
    <3> DEFINE s == t * 2
    <3>1. s \in Int /\ W \in Nat \ {0}
      BY <1>1
    <3> HIDE DEF s
    <3>2. s \div W \in Int /\ s % W \in 0 .. W - 1 /\ s = W * (s \div W) + (s % W)
      BY <3>1, Division
    <3>3. QED
      BY <3>2 DEF s, q3
  <2>2. t < W
    <3>1. ASSUME W <= t PROVE FALSE
      <4>1. W * X <= t * X
        BY <1>1, <3>1, Monotone
      <4>2. QED
        BY <1>1, <4>1
    <3>2. QED
      BY <1>1, <3>1
  <2> HIDE DEF q3
  <2>3. q3 < 2
    <3>1. ASSUME 2 <= q3 PROVE FALSE
      <4>1. W * 2 <= W * q3
        BY <1>1, <2>1, <3>1, Monotone
      <4>2. QED
        BY <1>1, <2>1, <2>2, <4>1
    <3>2. QED
      BY <2>1, <3>1
  <2>4. q3 > -1
    <3>1. ASSUME q3 <= -1 PROVE FALSE
      <4>1. W * q3 <= W * (-1)
        BY <1>1, <2>1, <3>1, Monotone
      <4>2. QED
        BY <1>1, <2>1, <4>1
    <3>2. QED
      BY <2>1, <3>1
  <2>5. q3 = 1 => 2 * t >= W
    BY <1>1, <2>1
  <2>6. QED
    BY <2>1, <2>3, <2>4, <2>5
<1>5. d = z \/ d = z - M
  BY <1>1, <1>4
<1>6. d \in 0 .. Two256 - 1
  <2>1. CASE q3 = 0
    BY <1>1, <2>1
  <2>2. CASE q3 = 1
    <3>1. W * X <= (2 * t) * X
      BY <1>1, <1>4, <2>2, Monotone
    <3>2. (2 * t) * X = 2 * (t * X)
      BY <1>1
    <3>3. Two256 <= 2 * z
      BY <1>1, <3>1, <3>2
    <3>4. d = z - M
      BY <1>1, <2>2
    <3>5. QED
      BY <1>1, <3>3, <3>4
  <2>3. QED
    BY <1>4, <2>1, <2>2
<1> HIDE DEF d
<1>7. d \in 0 .. n /\ d % W^5 = d
  <2>1. 1 * Two256 <= W * Two256
    BY <1>1, Monotone
  <2>2. d \in 0 .. W^5 - 1
    BY <1>1, <1>6, <2>1
  <2>3. d = W^5 * 0 + d
    BY <1>1, <2>2
  <2>4. QED
    BY <1>1, <2>2, <2>3, DivisionUnique DEF n
<1>8. SubtractsModulus(loop, n)
  <2>1. \E f : SubtractsModulus(f, n)
    BY <1>2, SubtractionLoop
  <2>2. QED
    BY <2>1 DEF SubtractsModulus, n
<1> HIDE DEF loop
<1>9. loop[d % W^5] = d % M
  BY <1>2, <1>7, <1>8, SubtractionLoop
<1>10. Right(d % M, z, "f")
  <2>1. z \in Int /\ d \in Int
    BY <1>1, <1>6
  <2>2. QED
    BY <1>5, <2>1, Remainder_Right
<1>11. (d % M) % Two256 = d % M
  <2>1. d % M \in 0 .. M - 1
    BY <1>1, <1>6, CongOfMod
  <2>2. d % M \in 0 .. Two256 - 1
    BY <1>1, <2>1
  <2>3. QED
    BY <2>2, Wraps
<1>12. QED
  BY <1>3, <1>9, <1>10, <1>11


-----------------------------------------------------------------------------
(* Words of an integer.                                                     *)

LEMMA Distribute ==
  ASSUME NEW a \in Int, NEW b \in Int, NEW c \in Int, NEW d \in Int
  PROVE  /\ a * (b + c) = a * b + a * c /\ (b + c) * a = b * a + c * a
         /\ (a * b) * c = a * (b * c) /\ a * b = b * a
         /\ a * (b * c + d) = (b * a) * c + a * d
<1>1. a * (b + c) = a * b + a * c /\ (b + c) * a = b * a + c * a
  BY SMT
<1>2. (a * b) * c = a * (b * c) /\ a * b = b * a
  BY SMT
<1>3. a * (b * c + d) = a * (b * c) + a * d
  BY SMT
<1>4. a * (b * c) = (b * a) * c
  BY SMT
<1>5. QED
  BY <1>1, <1>2, <1>3, <1>4

LEMMA QuotientDigit ==
  ASSUME NEW n \in Nat, NEW P \in Nat \ {0}
  PROVE  /\ n \div P \in Nat /\ (n \div P) % W \in 0 .. W - 1
         /\ n \div P = W * (n \div (W * P)) + ((n \div P) % W)
         /\ n < P => n \div P = 0
<1>1. W \in Nat \ {0}
  BY WordIsPower
<1> HIDE DEF W
<1> DEFINE q == n \div P
           r == n % P
           Q == q \div W
           s == q % W
<1>2. q \in Int /\ r \in 0 .. P - 1 /\ n = P * q + r
  BY Division
<1> HIDE DEF q, r
<1>3. q \in Nat
  <2>1. ASSUME q <= -1 PROVE FALSE
    <3>1. P * q <= P * (-1)
      BY <1>2, <2>1, Monotone
    <3>2. QED
      BY <1>2, <3>1
  <2>2. QED
    BY <1>2, <2>1
<1>4. Q \in Int /\ s \in 0 .. W - 1 /\ q = W * Q + s
  BY <1>1, <1>2, Division
<1> HIDE DEF Q, s
<1>5. n \div (W * P) = Q
  <2> DEFINE t == P * s + r
             B == W * P
  <2>1. P * s <= P * (W - 1) /\ P * s >= P * 0 /\ P * s \in Int
    BY <1>1, <1>4, Monotone
  <2>2. P * (W - 1) = W * P - P /\ W * P \in Nat \ {0}
    BY <1>1
  <2>3. t \in 0 .. B - 1 /\ B \in Nat \ {0}
    BY <1>2, <2>1, <2>2
  <2>4. P * (W * Q + s) = B * Q + P * s
    <3>1. P \in Int /\ W \in Int /\ Q \in Int /\ s \in Int
      BY <1>1, <1>4
    <3>2. QED
      BY <3>1, Distribute
  <2>5. B * Q \in Int
    BY <1>4, <2>3
  <2> HIDE DEF B
  <2>6. n = B * Q + t
    <3>1. n = P * (W * Q + s) + r
      BY <1>2, <1>4
    <3> DEFINE u == B * Q
               v == P * s
    <3> HIDE DEF u, v
    <3>2. n = (u + v) + r
      BY <2>4, <3>1 DEF u, v
    <3>3. u \in Int /\ v \in Int /\ r \in Int
      BY <1>2, <2>1, <2>5 DEF u, v
    <3>4. n = u + (v + r)
      BY <3>2, <3>3
    <3>5. QED
      BY <3>4 DEF u, v, t
  <2> HIDE DEF t
  <2>7. (B * Q + t) \div B = Q
    BY <1>4, <2>3, DivisionUnique
  <2>8. QED
    BY <2>6, <2>7 DEF B
<1>6. n < P => q = 0
  <2>1. ASSUME n < P, q >= 1 PROVE FALSE
    <3>1. P * 1 <= P * q
      BY <1>3, <2>1, Monotone
    <3>2. QED
      BY <1>2, <2>1, <3>1
  <2>2. QED
    BY <1>3, <2>1
<1>7. QED
  BY <1>3, <1>4, <1>5, <1>6 DEF q, Q, s

(* An integer below W^5 is what its five words stand for, one below W^4     *)
(* what its four words stand for.                                           *)
LEMMA WordsOf ==
  ASSUME NEW n \in Nat, NEW k \in {4, 5}, n < W^k
  PROVE  LET w == ToWords(n, k)
         IN  /\ \A i \in 0 .. k - 1 : w[i] \in 0 .. W - 1
             /\ k = 4 => n = w[0] + W * (w[1] + W * (w[2] + W * w[3]))
             /\ k = 5 => n = w[0] + W * (w[1] + W * (w[2] + W * (w[3] + W * w[4])))
<1> DEFINE w == ToWords(n, k)
           e(i) == n \div W^i
<1>1. /\ W^0 = 1 /\ W^1 = W * W^0 /\ W^2 = W * W^1 /\ W^3 = W * W^2 /\ W^4 = W * W^3 /\ W^5 = W * W^4
      /\ W \in Nat \ {0} /\ W^1 \in Nat \ {0} /\ W^2 \in Nat \ {0} /\ W^3 \in Nat \ {0}
      /\ W^4 \in Nat \ {0} /\ W^5 \in Nat \ {0} /\ W^0 \in Nat \ {0}
  BY WordPowers, WordIsPower
<1>2. \A i \in 0 .. k - 1 : w[i] = e(i) % W
  BY DEF ToWords
<1> HIDE DEF w, W
<1>3. \A i \in 0 .. 4 : /\ e(i) \in Nat /\ e(i) % W \in 0 .. W - 1
                        /\ e(i) = W * e(i + 1) + (e(i) % W)
  <2>1. ASSUME NEW i \in 0 .. 4
        PROVE  W^i \in Nat \ {0} /\ W^(i + 1) = W * W^i
    <3>1. CASE i = 0
      BY <1>1, <3>1
    <3>2. CASE i = 1
      BY <1>1, <3>2
    <3>3. CASE i = 2
      BY <1>1, <3>3
    <3>4. CASE i = 3
      BY <1>1, <3>4
    <3>5. CASE i = 4
      BY <1>1, <3>5
    <3>6. QED
      BY <3>1, <3>2, <3>3, <3>4, <3>5
  <2>2. QED
    BY <2>1, QuotientDigit
<1>4. e(k) = 0
  BY <1>1, QuotientDigit
<1>5. e(0) = n
  <2>1. n = 1 * n + 0 /\ 0 \in 0 .. 1 - 1
    OBVIOUS
  <2>2. n \div 1 = n
    BY <2>1, DivisionUnique
  <2>3. QED
    BY <1>1, <2>2
<1> HIDE DEF e
<1>6. k = 4 => /\ w[0] = e(0) % W /\ w[1] = e(1) % W /\ w[2] = e(2) % W /\ w[3] = e(3) % W
               /\ e(0) = W * e(1) + (e(0) % W) /\ e(1) = W * e(2) + (e(1) % W)
               /\ e(2) = W * e(3) + (e(2) % W) /\ e(3) = W * e(4) + (e(3) % W)
  BY <1>2, <1>3
<1>7. k = 5 => /\ w[0] = e(0) % W /\ w[1] = e(1) % W /\ w[2] = e(2) % W /\ w[3] = e(3) % W
               /\ w[4] = e(4) % W
               /\ e(0) = W * e(1) + (e(0) % W) /\ e(1) = W * e(2) + (e(1) % W)
               /\ e(2) = W * e(3) + (e(2) % W) /\ e(3) = W * e(4) + (e(3) % W)
               /\ e(4) = W * e(5) + (e(4) % W)
  BY <1>2, <1>3
<1>8. \A i \in 0 .. k - 1 : w[i] \in 0 .. W - 1
  BY <1>2, <1>3
<1>9. k = 4 => n = w[0] + W * (w[1] + W * (w[2] + W * w[3]))
  <2>1. ASSUME k = 4
        PROVE  e(3) = w[3] /\ e(2) = w[2] + W * w[3] /\ e(1) = w[1] + W * (w[2] + W * w[3])
               /\ e(0) = w[0] + W * (w[1] + W * (w[2] + W * w[3]))
    <3>1. e(3) = w[3]
      BY <1>1, <1>4, <1>6, <1>8, <2>1
    <3>2. e(2) = w[2] + W * w[3]
      BY <1>1, <1>6, <1>8, <2>1, <3>1
    <3>3. e(1) = w[1] + W * (w[2] + W * w[3])
      BY <1>1, <1>6, <1>8, <2>1, <3>2
    <3>4. QED
      BY <1>1, <1>6, <1>8, <2>1, <3>1, <3>2, <3>3
  <2>2. QED
    BY <1>5, <2>1
<1>10. k = 5 => n = w[0] + W * (w[1] + W * (w[2] + W * (w[3] + W * w[4])))
  <2>1. ASSUME k = 5
        PROVE  e(0) = w[0] + W * (w[1] + W * (w[2] + W * (w[3] + W * w[4])))
    <3>1. e(4) = w[4]
      BY <1>1, <1>4, <1>7, <1>8, <2>1
    <3>2. e(3) = w[3] + W * w[4]
      BY <1>1, <1>7, <1>8, <2>1, <3>1
    <3>3. e(2) = w[2] + W * (w[3] + W * w[4])
      BY <1>1, <1>7, <1>8, <2>1, <3>2
    <3>4. e(1) = w[1] + W * (w[2] + W * (w[3] + W * w[4]))
      BY <1>1, <1>7, <1>8, <2>1, <3>3
    <3>5. QED
      BY <1>1, <1>7, <1>8, <2>1, <3>4
  <2>2. QED
    BY <1>5, <2>1
<1>11. QED
  BY <1>8, <1>9, <1>10 DEF w

-----------------------------------------------------------------------------
(* Barrett reduction of a 512-bit integer.                                  *)

(* The rows of the product, as multiples of v^4 and a rest; h and l are the *)
(* high and the low word of the partial product that is cut.                *)
RowsSplit(v, v2, v3, v4, p0, p1, p2, p3, p4, h, l) ==
  /\ p0 + v * (p1 + v * (p2 + v * ((v * h + l) + v * p4)))
       = (h + p4) * v4 + (p0 + v * p1 + v2 * p2 + v3 * l)
  /\ v * (p0 + v * (p1 + v * ((v * h + l) + v * (p3 + v * p4))))
       = (h + p3 + p4 * v) * v4 + (v * p0 + v2 * p1 + v3 * l)
  /\ v2 * (p0 + v * ((v * h + l) + v * (p2 + v * (p3 + v * p4))))
       = (h + p2 + p3 * v + p4 * v2) * v4 + (v2 * p0 + v3 * l)
  /\ v3 * ((v * h + l) + v * (p1 + v * (p2 + v * (p3 + v * p4))))
       = (h + p1 + p2 * v + p3 * v2 + p4 * v3) * v4 + v3 * l
  /\ v4 * (p0 + v * (p1 + v * (p2 + v * (p3 + v * p4))))
       = (p0 + p1 * v + p2 * v2 + p3 * v3 + p4 * v4) * v4

LEMMA Polynomials ==
  \A v, v2, v3, v4, p0, p1, p2, p3, p4, h, l \in Int :
    v2 = v * v /\ v3 = v * v2 /\ v4 = v * v3 => RowsSplit(v, v2, v3, v4, p0, p1, p2, p3, p4, h, l)
BY DEF RowsSplit

LEMMA Scaled ==
  ASSUME NEW v \in Int, NEW w \in Int, NEW r0 \in Int, NEW r1 \in Int,
         NEW r2 \in Int, NEW r3 \in Int, NEW r4 \in Int
  PROVE  w * (r0 + v * (r1 + v * (r2 + v * (r3 + v * r4))))
           = w * r0 + v * (w * r1 + v * (w * r2 + v * (w * r3 + v * (w * r4))))
OBVIOUS

(* The product of two words.                                                *)
LEMMA WordProduct ==
  ASSUME NEW a \in 0 .. W - 1, NEW b \in 0 .. W - 1
  PROVE  /\ a * b \in Nat /\ a * b <= W^2 - W
         /\ (a * b) \div W \in Nat /\ (a * b) % W \in 0 .. W - 1
         /\ a * b = W * ((a * b) \div W) + ((a * b) % W)
<1>1. W \in Nat \ {0} /\ W^2 = W * W
  BY WordPowers, WordIsPower
<1> DEFINE p == a * b
<1> HIDE DEF W
<1>2. a * b <= (W - 1) * b /\ a * b \in Nat /\ (W - 1) * b <= (W - 1) * W
  <2>1. a * b <= (W - 1) * b /\ a * b \in Int
    BY <1>1, Monotone
  <2>2. (W - 1) * b <= (W - 1) * W
    BY <1>1, Monotone
  <2>3. 0 * b <= a * b
    BY <1>1, Monotone
  <2>4. QED
    BY <1>1, <2>1, <2>2, <2>3
<1>3. (W - 1) * W = W^2 - W /\ (W - 1) * b \in Int
  BY <1>1
<1>4. p \in Nat /\ p <= W^2 - W
  BY <1>1, <1>2, <1>3
<1> HIDE DEF p
<1>5. p \div W \in Int /\ p % W \in 0 .. W - 1 /\ p = W * (p \div W) + (p % W)
  BY <1>1, <1>4, Division
<1>6. p \div W \in Nat
  BY <1>1, <1>4, <1>5, QuotientDigit
<1>7. QED
  BY <1>4, <1>5, <1>6 DEF p

(* What a row of the product keeps: the partial products from W^4 up and    *)
(* the high words of those of W^3.                                          *)
Kept(p, a) ==
  CASE a = 0 -> p[3] \div W + p[4]
    [] a = 1 -> p[2] \div W + p[3] + p[4] * W
    [] a = 2 -> p[1] \div W + p[2] + p[3] * W + p[4] * W^2
    [] a = 3 -> p[0] \div W + p[1] + p[2] * W + p[3] * W^2 + p[4] * W^3
    [] a = 4 -> p[0] + p[1] * W + p[2] * W^2 + p[3] * W^3 + p[4] * W^4

LEMMA BarrettRow ==
  ASSUME NEW r \in Nat, r < W^5, NEW w \in 0 .. W - 1, NEW a \in 0 .. 4
  PROVE  LET p == [b \in 0 .. 4 |-> w * ToWords(r, 5)[b]]
         IN  /\ Kept(p, a) \in Nat
             /\ \E e \in Nat : /\ W^a * (w * r) = Kept(p, a) * W^4 + e
                               /\ e <= (IF a < 3 THEN 2 ELSE IF a = 3 THEN 1 ELSE 0) * W^4
<1> DEFINE d == ToWords(r, 5)
           p == [b \in 0 .. 4 |-> w * d[b]]
           h(b) == p[b] \div W
           l(b) == p[b] % W
<1> SUFFICES /\ Kept(p, a) \in Nat
             /\ \E e \in Nat : /\ W^a * (w * r) = Kept(p, a) * W^4 + e
                               /\ e <= (IF a < 3 THEN 2 ELSE IF a = 3 THEN 1 ELSE 0) * W^4
  OBVIOUS
<1>1. /\ W \in Nat \ {0} /\ W^0 = 1 /\ W^1 = W /\ W^2 = W * W /\ W^3 = W * W^2 /\ W^4 = W * W^3
      /\ W^2 \in Nat /\ W^3 \in Nat /\ W^4 \in Nat
  BY WordPowers, WordIsPower
<1>2. /\ \A b \in 0 .. 4 : d[b] \in 0 .. W - 1
      /\ r = d[0] + W * (d[1] + W * (d[2] + W * (d[3] + W * d[4])))
  BY WordsOf
<1> HIDE DEF d, W
<1>3. \A b \in 0 .. 4 : /\ p[b] \in Nat /\ p[b] <= W^2 - W /\ h(b) \in Nat /\ l(b) \in 0 .. W - 1
                        /\ p[b] = W * h(b) + l(b)
  BY <1>2, WordProduct
<1>4. w * r = p[0] + W * (p[1] + W * (p[2] + W * (p[3] + W * p[4])))
  <2>1. w \in Int /\ W \in Int /\ d[0] \in Int /\ d[1] \in Int /\ d[2] \in Int /\ d[3] \in Int /\ d[4] \in Int
    BY <1>1, <1>2
  <2>2. QED
    BY <1>2, <2>1, Scaled
<1> HIDE DEF p, h, l
<1>5. /\ p[0] \in Nat /\ p[1] \in Nat /\ p[2] \in Nat /\ p[3] \in Nat /\ p[4] \in Nat
      /\ p[0] <= W^2 - W /\ p[1] <= W^2 - W /\ p[2] <= W^2 - W
      /\ h(0) \in Nat /\ h(1) \in Nat /\ h(2) \in Nat /\ h(3) \in Nat
      /\ l(0) \in 0 .. W - 1 /\ l(1) \in 0 .. W - 1 /\ l(2) \in 0 .. W - 1 /\ l(3) \in 0 .. W - 1
      /\ p[0] = W * h(0) + l(0) /\ p[1] = W * h(1) + l(1) /\ p[2] = W * h(2) + l(2)
      /\ p[3] = W * h(3) + l(3)
  BY <1>3
<1>6. /\ W * p[0] \in Nat /\ W * p[1] \in Nat /\ W^2 * p[0] \in Nat /\ W^2 * p[1] \in Nat
      /\ W^2 * p[2] \in Nat
      /\ W * p[0] <= W * (W^2 - W) /\ W * p[1] <= W * (W^2 - W)
      /\ W^2 * p[0] <= W^2 * (W^2 - W)
      /\ W^2 * p[1] <= W^2 * (W^2 - W) /\ W^2 * p[2] <= W^2 * (W^2 - W)
  <2>1. ASSUME NEW q \in Nat, q <= W^2 - W
        PROVE  W * q \in Nat /\ W^2 * q \in Nat /\ W * q <= W * (W^2 - W) /\ W^2 * q <= W^2 * (W^2 - W)
    <3> DEFINE m == W^2 - W
               X == W^2
    <3>1. m \in Int /\ X \in Nat /\ W \in Nat /\ q <= m
      BY <1>1, <2>1
    <3> HIDE DEF m, X
    <3>2. W * q <= W * m /\ X * q <= X * m /\ W * 0 <= W * q /\ X * 0 <= X * q /\ W * q \in Int /\ X * q \in Int
      BY <3>1, Monotone
    <3>3. W * q \in Nat /\ X * q \in Nat
      BY <3>1, <3>2
    <3>4. QED
      BY <3>2, <3>3 DEF m, X
  <2>2. QED
    BY <1>5, <2>1
<1>7. W * (W^2 - W) = W^3 - W^2 /\ W^2 * (W^2 - W) = W^4 - W^3
  BY <1>1
<1>8. ASSUME NEW m \in 0 .. W - 1
      PROVE  W^3 * m \in Nat /\ W^3 * m <= W^4 - W^3
  <2>1. W^3 * m <= W^3 * (W - 1) /\ W^3 * 0 <= W^3 * m /\ W^3 * m \in Int
    BY <1>1, Monotone
  <2>2. W^3 * (W - 1) = W^4 - W^3
    BY <1>1
  <2>3. QED
    BY <1>1, <2>1, <2>2
<1>9. /\ W * p[0] \in Nat /\ W * p[1] \in Nat /\ W^2 * p[0] \in Nat /\ W^2 * p[1] \in Nat
      /\ W^2 * p[2] \in Nat
      /\ W * p[0] <= W^3 - W^2 /\ W * p[1] <= W^3 - W^2
      /\ W^2 * p[0] <= W^4 - W^3 /\ W^2 * p[1] <= W^4 - W^3 /\ W^2 * p[2] <= W^4 - W^3
  BY <1>6, <1>7
<1>10. /\ W \in Int /\ W^2 \in Int /\ W^3 \in Int /\ W^4 \in Int
      /\ p[0] \in Int /\ p[1] \in Int /\ p[2] \in Int /\ p[3] \in Int /\ p[4] \in Int
      /\ h(0) \in Int /\ h(1) \in Int /\ h(2) \in Int /\ h(3) \in Int
      /\ l(0) \in Int /\ l(1) \in Int /\ l(2) \in Int /\ l(3) \in Int /\ 0 \in Int
      /\ W^2 = W * W /\ W^3 = W * W^2 /\ W^4 = W * W^3
  BY <1>1, <1>5
<1>11. CASE a = 0
  <2> DEFINE k == h(3) + p[4]
             e == p[0] + W * p[1] + W^2 * p[2] + W^3 * l(3)
  <2>1. Kept(p, 0) = k
    BY DEF Kept, h
  <2>2. w * r = k * W^4 + e
    <3>1. RowsSplit(W, W^2, W^3, W^4, p[0], p[1], p[2], p[3], p[4], h(3), l(3))
      BY <1>10, Polynomials
    <3>2. w * r = p[0] + W * (p[1] + W * (p[2] + W * ((W * h(3) + l(3)) + W * p[4])))
      BY <1>4, <1>5
    <3>3. QED
      BY <3>1, <3>2 DEF RowsSplit
  <2>3. W^3 * l(3) \in Nat /\ W^3 * l(3) <= W^4 - W^3
    BY <1>5, <1>8
  <2>4. e \in Nat /\ e <= 2 * W^4
    BY <1>1, <1>5, <1>9, <2>3
  <2>5. k \in Nat /\ W^0 * (w * r) = w * r
    <3>1. w * r \in Int
      BY <1>1
    <3>2. QED
      BY <1>1, <1>5, <3>1
  <2> HIDE DEF k, e
  <2>6. QED
    BY <1>11, <2>1, <2>2, <2>4, <2>5
<1>12. CASE a = 1
  <2> DEFINE k == h(2) + p[3] + p[4] * W
             e == W * p[0] + W^2 * p[1] + W^3 * l(2)
  <2>1. Kept(p, 1) = k
    BY DEF Kept, h
  <2>2. W * (w * r) = k * W^4 + e
    <3>1. RowsSplit(W, W^2, W^3, W^4, p[0], p[1], p[2], p[3], p[4], h(2), l(2))
      BY <1>10, Polynomials
    <3>2. w * r = p[0] + W * (p[1] + W * ((W * h(2) + l(2)) + W * (p[3] + W * p[4])))
      BY <1>4, <1>5
    <3>3. QED
      BY <3>1, <3>2 DEF RowsSplit
  <2>3. W^3 * l(2) \in Nat /\ W^3 * l(2) <= W^4 - W^3
    BY <1>5, <1>8
  <2>4. e \in Nat /\ e <= 2 * W^4
    BY <1>1, <1>5, <1>9, <2>3
  <2>5. k \in Nat
    BY <1>1, <1>5
  <2> HIDE DEF k, e
  <2>6. QED
    <3>1. W^1 * (w * r) = k * W^4 + e
      BY <1>1, <2>2
    <3>2. QED
      BY <1>12, <2>1, <2>4, <2>5, <3>1
<1>13. CASE a = 2
  <2> DEFINE k == h(1) + p[2] + p[3] * W + p[4] * W^2
             e == W^2 * p[0] + W^3 * l(1)
  <2>1. Kept(p, 2) = k
    BY DEF Kept, h
  <2>2. W^2 * (w * r) = k * W^4 + e
    <3>1. RowsSplit(W, W^2, W^3, W^4, p[0], p[1], p[2], p[3], p[4], h(1), l(1))
      BY <1>10, Polynomials
    <3>2. w * r = p[0] + W * ((W * h(1) + l(1)) + W * (p[2] + W * (p[3] + W * p[4])))
      BY <1>4, <1>5
    <3>3. QED
      BY <3>1, <3>2 DEF RowsSplit
  <2>3. W^3 * l(1) \in Nat /\ W^3 * l(1) <= W^4 - W^3
    BY <1>5, <1>8
  <2>4. e \in Nat /\ e <= 2 * W^4
    BY <1>1, <1>5, <1>9, <2>3
  <2>5. k \in Nat
    BY <1>1, <1>5
  <2> HIDE DEF k, e
  <2>6. QED
    BY <1>13, <2>1, <2>2, <2>4, <2>5
<1>14. CASE a = 3
  <2> DEFINE k == h(0) + p[1] + p[2] * W + p[3] * W^2 + p[4] * W^3
             e == W^3 * l(0)
  <2>1. Kept(p, 3) = k
    BY DEF Kept, h
  <2>2. W^3 * (w * r) = k * W^4 + e
    <3>1. RowsSplit(W, W^2, W^3, W^4, p[0], p[1], p[2], p[3], p[4], h(0), l(0))
      BY <1>10, Polynomials
    <3>2. w * r = (W * h(0) + l(0)) + W * (p[1] + W * (p[2] + W * (p[3] + W * p[4])))
      BY <1>4, <1>5
    <3>3. QED
      BY <3>1, <3>2 DEF RowsSplit
  <2>3. e \in Nat /\ e <= 1 * W^4
    BY <1>1, <1>5, <1>8
  <2>4. k \in Nat
    BY <1>1, <1>5
  <2> HIDE DEF k, e
  <2>5. QED
    BY <1>14, <2>1, <2>2, <2>3, <2>4
<1>15. CASE a = 4
  <2> DEFINE k == p[0] + p[1] * W + p[2] * W^2 + p[3] * W^3 + p[4] * W^4
  <2>1. Kept(p, 4) = k
    BY DEF Kept
  <2>2. W^4 * (w * r) = k * W^4
    <3>1. RowsSplit(W, W^2, W^3, W^4, p[0], p[1], p[2], p[3], p[4], 0, 0)
      BY <1>10, Polynomials
    <3>2. QED
      BY <1>4, <3>1 DEF RowsSplit
  <2>3. k \in Nat
    BY <1>1, <1>5
  <2> HIDE DEF k
  <2>4. k * W^4 = k * W^4 + 0 /\ 0 <= 0 * W^4
    BY <1>1, <2>3
  <2>5. QED
    BY <1>15, <2>1, <2>2, <2>3, <2>4
<1>16. QED
  BY <1>11, <1>12, <1>13, <1>14, <1>15

SumSplit(v, v2, v3, v4, x0, x1, x2, x3, x4, r) ==
  (x0 + v * (x1 + v * (x2 + v * (x3 + v * x4)))) * r
    = x0 * r + v * (x1 * r) + v2 * (x2 * r) + v3 * (x3 * r) + v4 * (x4 * r)

LEMMA ProductByRows ==
  \A v, v2, v3, v4, x0, x1, x2, x3, x4, r \in Int :
    v2 = v * v /\ v3 = v * v2 /\ v4 = v * v3 => SumSplit(v, v2, v3, v4, x0, x1, x2, x3, x4, r)
BY DEF SumSplit

PartialProducts(X, R, a) == [b \in 0 .. 4 |-> ToWords(X, 5)[a] * ToWords(R, 5)[b]]
KeptSum(X, R) ==
  LET kept(a) == Kept(PartialProducts(X, R, a), a)
  IN  kept(0) + kept(1) + kept(2) + kept(3) + kept(4)

(* The partial products that Barrett's reduction drops are less than W^5.   *)
LEMMA BarrettSum ==
  ASSUME NEW X \in Nat, X < W^5, NEW R \in Nat, R < W^5
  PROVE  /\ KeptSum(X, R) \in Nat
         /\ KeptSum(X, R) * W^4 <= X * R /\ X * R <= KeptSum(X, R) * W^4 + 7 * W^4
<1> DEFINE x == ToWords(X, 5)
           k(a) == Kept(PartialProducts(X, R, a), a)
           c(a) == IF a < 3 THEN 2 ELSE IF a = 3 THEN 1 ELSE 0
<1>1. /\ W \in Nat \ {0} /\ W^0 = 1 /\ W^1 = W /\ W^2 = W * W /\ W^3 = W * W^2 /\ W^4 = W * W^3
      /\ W^2 \in Nat /\ W^3 \in Nat /\ W^4 \in Nat
  BY WordPowers, WordIsPower
<1>2. /\ \A a \in 0 .. 4 : x[a] \in 0 .. W - 1
      /\ X = x[0] + W * (x[1] + W * (x[2] + W * (x[3] + W * x[4])))
  BY WordsOf
<1>3. \A a \in 0 .. 4 : /\ k(a) \in Nat
                        /\ \E e \in Nat : W^a * (x[a] * R) = k(a) * W^4 + e /\ e <= c(a) * W^4
  <2>1. ASSUME NEW a \in 0 .. 4
        PROVE  /\ k(a) \in Nat
               /\ \E e \in Nat : W^a * (x[a] * R) = k(a) * W^4 + e /\ e <= c(a) * W^4
    BY <1>2, BarrettRow DEF PartialProducts
  <2>2. QED
    BY <2>1
<1>4. KeptSum(X, R) = k(0) + k(1) + k(2) + k(3) + k(4)
  BY DEF KeptSum
<1> HIDE DEF x, k, W
<1>5. PICK e0 \in Nat : 1 * (x[0] * R) = k(0) * W^4 + e0 /\ e0 <= 2 * W^4
  BY <1>1, <1>3
<1>6. PICK e1 \in Nat : W * (x[1] * R) = k(1) * W^4 + e1 /\ e1 <= 2 * W^4
  BY <1>1, <1>3
<1>7. PICK e2 \in Nat : W^2 * (x[2] * R) = k(2) * W^4 + e2 /\ e2 <= 2 * W^4
  BY <1>1, <1>3
<1>8. PICK e3 \in Nat : W^3 * (x[3] * R) = k(3) * W^4 + e3 /\ e3 <= 1 * W^4
  BY <1>1, <1>3
<1>9. PICK e4 \in Nat : W^4 * (x[4] * R) = k(4) * W^4 + e4 /\ e4 <= 0 * W^4
  BY <1>1, <1>3
<1>10. /\ k(0) \in Nat /\ k(1) \in Nat /\ k(2) \in Nat /\ k(3) \in Nat /\ k(4) \in Nat
       /\ x[0] \in Int /\ x[1] \in Int /\ x[2] \in Int /\ x[3] \in Int /\ x[4] \in Int
  BY <1>1, <1>2, <1>3
<1> DEFINE S == k(0) + k(1) + k(2) + k(3) + k(4)
           e == e0 + e1 + e2 + e3 + e4
<1>11. X * R = x[0] * R + W * (x[1] * R) + W^2 * (x[2] * R) + W^3 * (x[3] * R) + W^4 * (x[4] * R)
  <2>1. /\ W \in Int /\ W^2 \in Int /\ W^3 \in Int /\ W^4 \in Int /\ R \in Int
        /\ W^2 = W * W /\ W^3 = W * W^2 /\ W^4 = W * W^3
    BY <1>1
  <2>2. SumSplit(W, W^2, W^3, W^4, x[0], x[1], x[2], x[3], x[4], R)
    BY <1>10, <2>1, ProductByRows
  <2>3. QED
    BY <1>2, <2>2 DEF SumSplit
<1>12. x[0] * R = k(0) * W^4 + e0
  <2>1. x[0] * R \in Int
    BY <1>10
  <2>2. QED
    BY <1>5, <2>1
<1>13. X * R = S * W^4 + e
  <2>1. X * R = (k(0) * W^4 + e0) + (k(1) * W^4 + e1) + (k(2) * W^4 + e2) + (k(3) * W^4 + e3) + (k(4) * W^4 + e4)
    BY <1>6, <1>7, <1>8, <1>9, <1>11, <1>12
  <2>2. QED
    BY <1>1, <1>10, <2>1
<1>14. e \in Nat /\ e <= 7 * W^4
  BY <1>1, <1>5, <1>6, <1>7, <1>8, <1>9
<1>15. S \in Nat /\ S * W^4 \in Nat
  BY <1>1, <1>10
<1> HIDE DEF S, e
<1>16. S * W^4 <= X * R /\ X * R <= S * W^4 + 7 * W^4
  BY <1>1, <1>13, <1>14, <1>15
<1>17. QED
  BY <1>4, <1>15, <1>16 DEF S

(* The quotient is never too large and at most three too small, but for the *)
(* lowest words of the dividend.                                            *)
LEMMA BarrettQuotient_Close ==
  ASSUME NEW x \in Nat, x < Two256 * Two256
  PROVE  /\ BarrettQuotient(x) \in Nat /\ BarrettQuotient(x) * M \in Nat
         /\ BarrettQuotient(x) * M <= x
         /\ x < BarrettQuotient(x) * M + 3 * M + W^3
<1> DEFINE X == x \div W^3
           u == x % W^3
           R == reciprocal
           S == KeptSum(X, R)
           q == S \div W
           s == S % W
           W3 == W^3
           W4 == W^4
           W5 == W^5
           W8 == W4 * W4
<1>1. /\ W \in Nat /\ W >= 8 /\ W3 \in Nat \ {0} /\ W4 \in Nat \ {0} /\ W5 \in Nat \ {0}
      /\ W4 = W * W3 /\ W5 = W * W4 /\ W8 = W3 * W5 /\ W8 = W4 * W4 /\ W8 \in Nat /\ W^6 = W * W5
      /\ M \in Nat \ {0} /\ M <= W4
      /\ R \in Nat /\ M * R <= W8 - 1 /\ W8 - 1 < M * R + M
      /\ Two256 = W4
  <2>1. /\ W \in Nat /\ W >= 8 /\ W3 \in Nat \ {0} /\ W4 \in Nat \ {0} /\ W5 \in Nat \ {0}
        /\ W4 = W * W3 /\ W5 = W * W4 /\ W^6 = W * W5 /\ Two256 = W4
        /\ W3 = W * W^2 /\ W^2 = W * W
    BY WordPowers, WordIsPower, Modulus
  <2>3. W8 = W3 * W5
    <3> HIDE DEF W, W3, W4, W5
    <3>1. W3 * W5 = W * (W3 * W4) /\ W4 * W4 = W * (W3 * W4)
      <4>1. /\ W3 * (W * W4) = W * (W3 * W4)
            /\ (W * W3) * W4 = W * (W3 * W4)
        BY <2>1
      <4>2. QED
        BY <2>1, <4>1
    <3>2. QED
      BY <3>1
  <2>4. W8 = W4 * W4
    OBVIOUS
  <2>5. W8 \in Nat
    BY <2>1, <2>4
  <2>6. /\ M \in Nat \ {0} /\ 2 * M < Two256 /\ R \in Nat
        /\ M * R <= Two256 * Two256 - 1 /\ Two256 * Two256 - 1 < M * R + M
    BY Constants, Multiples
  <2>7. M <= W4
    <3> HIDE DEF M, W4
    <3>1. QED
      BY <2>1, <2>6
  <2>8. QED
    BY <2>1, <2>3, <2>4, <2>5, <2>6, <2>7
<1> HIDE DEF W, M, R, W3, W4, W5, W8
<1>2. X \in Int /\ u \in 0 .. W3 - 1 /\ x = W3 * X + u /\ X \in Nat
  <2>1. X \in Int /\ u \in 0 .. W3 - 1 /\ x = W3 * X + u
    <3>1. X = x \div W3 /\ u = x % W3 /\ x \in Int
      BY DEF W3
    <3>2. x \div W3 \in Int /\ x % W3 \in 0 .. W3 - 1 /\ x = W3 * (x \div W3) + (x % W3)
      BY <1>1, <3>1, Division
    <3>3. QED
      BY <3>1, <3>2
  <2>2. X \in Nat
    BY <1>1, QuotientDigit DEF W3
  <2>3. QED
    BY <2>1, <2>2
<1> HIDE DEF X, u
<1>3. X < W5
  <2>1. ASSUME W5 <= X PROVE FALSE
    <3>1. W3 * W5 <= W3 * X
      BY <1>1, <1>2, <2>1, Monotone
    <3>2. x < W8
      BY <1>1
    <3>3. W3 * X \in Int /\ W3 * X <= x
      BY <1>1, <1>2
    <3>4. QED
      BY <1>1, <3>1, <3>2, <3>3
  <2>2. QED
    BY <1>1, <1>2, <2>1
<1>4. R < W5
  <2>1. ASSUME W5 <= R PROVE FALSE
    <3>1. M * W5 <= M * R
      BY <1>1, <2>1, Monotone
    <3>2. W3 * W5 <= M * W5
      <4>1. W3 <= M
        <5>1. M > W^3
          BY Modulus
        <5>2. QED
          BY <1>1, <5>1 DEF W3
      <4>2. QED
        BY <1>1, <4>1, Monotone
    <3>3. M * W5 \in Int /\ M * R \in Int
      BY <1>1
    <3>4. QED
      BY <1>1, <3>1, <3>2, <3>3
  <2>2. QED
    BY <1>1, <2>1
<1>5. S \in Nat /\ S * W4 <= X * R /\ X * R <= S * W4 + 7 * W4 /\ S * W4 \in Nat /\ X * R \in Nat
  <2>1. S \in Nat /\ S * W^4 <= X * R /\ X * R <= S * W^4 + 7 * W^4
    BY <1>1, <1>2, <1>3, <1>4, BarrettSum DEF W5
  <2> HIDE DEF S
  <2>2. S * W4 \in Nat /\ X * R \in Nat
    BY <1>1, <1>2, <2>1
  <2>3. QED
    BY <2>1, <2>2 DEF W4
<1>6. S < W^6
  <2> HIDE DEF S
  <2>1. ASSUME W^6 <= S PROVE FALSE
    <3>1. W^6 \in Nat
      BY <1>1
    <3>2. W^6 * W4 <= S * W4
      BY <1>1, <1>5, <2>1, <3>1, Monotone
    <3>3. X * R <= (W5 - 1) * R /\ (W5 - 1) * R <= (W5 - 1) * W5
      <4>1. X <= W5 - 1 /\ R <= W5 /\ W5 - 1 \in Nat
        BY <1>1, <1>2, <1>3, <1>4
      <4>2. QED
        BY <1>1, <1>2, <4>1, Monotone
    <3>4. W^6 * W4 = W5 * W5
      BY <1>1
    <3>5. (W5 - 1) * W5 = W5 * W5 - W5 /\ (W5 - 1) * R \in Int /\ W5 * W5 \in Int
      BY <1>1
    <3>6. QED
      BY <1>1, <1>5, <3>2, <3>3, <3>4, <3>5
  <2>2. W^6 \in Nat
    BY <1>1
  <2>3. QED
    BY <1>5, <2>1, <2>2
<1>7. BarrettQuotient(x) = q
  <2>1. BarrettQuotient(x) = (S % W^6) \div W
    <3> USE DEF X, R
    <3> DEFINE xw == ToWords(x \div W^3, 5)
               re == ToWords(reciprocal, 5)
               part(a, b) == IF a + b >= 4 THEN xw[a] * re[b] * W^(a + b - 4)
                             ELSE IF a + b = 3 THEN (xw[a] * re[b]) \div W ELSE 0
               row(a) == part(a, 0) + part(a, 1) + part(a, 2) + part(a, 3) + part(a, 4)
               k(a) == Kept(PartialProducts(X, R, a), a)
    <3>1. BarrettQuotient(x) = ((row(0) + row(1) + row(2) + row(3) + row(4)) % W^6) \div W
      BY DEF BarrettQuotient
    <3>2. S = k(0) + k(1) + k(2) + k(3) + k(4)
      BY DEF KeptSum
    <3>3. /\ \A a \in 0 .. 4 : xw[a] \in 0 .. W - 1
          /\ \A b \in 0 .. 4 : re[b] \in 0 .. W - 1
      BY <1>2, <1>3, <1>1, <1>4, WordsOf DEF W5
    <3>4. \A a \in 0 .. 4, b \in 0 .. 4 :
            /\ xw[a] * re[b] \in Nat /\ (xw[a] * re[b]) \div W \in Nat
            /\ PartialProducts(X, R, a)[b] = xw[a] * re[b]
      BY <3>3, WordProduct DEF PartialProducts
    <3>5. W^0 = 1 /\ W^1 = W /\ W^2 \in Nat /\ W^3 \in Nat /\ W^4 \in Nat
      BY WordPowers
    <3> HIDE DEF xw, re, X, R
    <3>6. row(0) = k(0)
      BY <3>4, <3>5 DEF Kept
    <3>7. row(1) = k(1)
      BY <1>1, <3>4, <3>5 DEF Kept
    <3>8. row(2) = k(2)
      BY <1>1, <3>4, <3>5 DEF Kept
    <3>9. row(3) = k(3)
      BY <1>1, <3>4, <3>5 DEF Kept
    <3>10. row(4) = k(4)
      BY <1>1, <3>4, <3>5 DEF Kept
    <3> HIDE DEF row, k, S
    <3>11. QED
      BY <3>1, <3>2, <3>6, <3>7, <3>8, <3>9, <3>10
  <2>2. S % W^6 = S
    <3> DEFINE V == W^6
    <3> HIDE DEF S
    <3>1. V \in Nat \ {0} /\ S \in 0 .. V - 1
      BY <1>1, <1>5, <1>6
    <3> HIDE DEF V
    <3>2. S = V * 0 + S
      BY <3>1
    <3>3. S % V = S
      BY <3>1, <3>2, DivisionUnique
    <3>4. QED
      BY <3>3 DEF V
  <2>3. QED
    BY <2>1, <2>2
<1> HIDE DEF S
<1>8. q \in Nat /\ s \in 0 .. W - 1 /\ S = W * q + s
  <2>1. S \in Int /\ S \in Nat /\ W \in Nat \ {0}
    BY <1>1, <1>5
  <2>2. S \div W \in Int /\ S % W \in 0 .. W - 1 /\ S = W * (S \div W) + (S % W)
    BY <2>1, Division
  <2>3. S \div W \in Nat
    BY <2>1, QuotientDigit
  <2>4. QED
    BY <2>2, <2>3
<1> HIDE DEF q, s
<1>9. /\ W5 * q <= X * R /\ X * R <= W5 * q + 2 * W5 /\ W5 * q \in Nat
  <2>1. S * W4 = W5 * q + s * W4 /\ W5 * q \in Nat /\ s * W4 \in Nat
    <3>1. (W * q + s) * W4 = (W * W4) * q + s * W4
      BY <1>1, <1>8
    <3>2. QED
      BY <1>1, <1>8, <3>1
  <2>2. s * W4 <= W * W4 /\ 8 * W4 <= W * W4
    BY <1>1, <1>8, Monotone
  <2>3. QED
    BY <1>1, <1>5, <2>1, <2>2
<1> DEFINE A == q * M
           B == X * R
           C == W5 * q
<1>10. A \in Nat /\ W5 * A = C * M
  <2>1. A \in Nat
    BY <1>1, <1>8
  <2>2. W5 * (q * M) = (W5 * q) * M
    BY <1>1, <1>8
  <2>3. QED
    BY <2>1, <2>2
<1>11. B * M = X * (M * R) /\ B \in Nat
  BY <1>1, <1>2
<1>12. X * W8 = (W3 * X) * W5 /\ W3 * X \in Nat /\ X * W8 \in Nat
  <2>1. X * (W3 * W5) = (W3 * X) * W5 /\ W3 * X \in Nat
    BY <1>1, <1>2
  <2>2. QED
    BY <1>1, <1>2, <2>1
<1> HIDE DEF A, B, C
<1>13. C \in Nat /\ B \in Nat /\ C <= B /\ B <= C + 2 * W5
  BY <1>9, <1>11 DEF B, C
<1>14. A <= x
  <2>1. C * M <= B * M
    BY <1>1, <1>13, Monotone
  <2>2. X * (M * R) <= X * W8
    <3> DEFINE m == M * R
    <3>1. m \in Nat /\ m <= W8
      BY <1>1
    <3> HIDE DEF m
    <3>2. X * m <= X * W8
      BY <1>1, <1>2, <3>1, Monotone
    <3>3. QED
      BY <3>2 DEF m
  <2>3. (W3 * X) * W5 <= x * W5
    <3>1. W3 * X <= x /\ W3 * X \in Int
      BY <1>1, <1>2, <1>12
    <3> DEFINE y == W3 * X
    <3> HIDE DEF y
    <3>2. y \in Int /\ y <= x
      BY <3>1 DEF y
    <3>3. y * W5 <= x * W5
      BY <1>1, <3>2, Monotone
    <3>4. QED
      BY <3>3 DEF y
  <2>4. A * W5 <= x * W5
    <3>1. A * W5 = W5 * A /\ W5 * A \in Nat /\ x * W5 \in Nat /\ B * M \in Nat
      BY <1>1, <1>10, <1>11
    <3>2. QED
      BY <1>10, <1>11, <1>12, <2>1, <2>2, <2>3, <3>1
  <2>5. QED
    BY <1>1, <1>10, <2>4, Cancel
<1>15. W3 * X <= A + 3 * M
  <2>1. B * M <= (C + 2 * W5) * M
    BY <1>1, <1>13, Monotone
  <2>2. (C + 2 * W5) * M = W5 * A + 2 * (W5 * M) /\ W5 * A \in Nat /\ W5 * M \in Nat
    <3>1. (C + 2 * W5) * M = C * M + 2 * (W5 * M)
      BY <1>1, <1>13
    <3>2. QED
      BY <1>1, <1>10, <3>1
  <2>3. X * W8 <= B * M + W5 * M
    <3> DEFINE m == M * R
    <3>1. m \in Nat /\ W8 <= m + M /\ m + M \in Int
      BY <1>1
    <3> HIDE DEF m
    <3>2. X * W8 <= X * (m + M)
      BY <1>1, <1>2, <3>1, Monotone
    <3>3. X * (m + M) = X * m + X * M /\ X * m \in Nat /\ X * M \in Nat
      BY <1>1, <1>2, <3>1
    <3>4. X * M <= W5 * M
      BY <1>1, <1>2, <1>3, Monotone
    <3>5. B * M = X * m
      BY <1>11 DEF m
    <3>6. QED
      BY <1>12, <2>2, <3>2, <3>3, <3>4, <3>5
  <2>4. W5 * A + 3 * (W5 * M) = (A + 3 * M) * W5
    BY <1>1, <1>10
  <2>5. (W3 * X) * W5 <= (A + 3 * M) * W5
    <3>1. B * M \in Nat
      BY <1>1, <1>11
    <3>2. QED
      BY <1>12, <2>1, <2>2, <2>3, <2>4, <3>1
  <2> DEFINE y == W3 * X
             t == A + 3 * M
  <2>6. y \in Int /\ t \in Int
    BY <1>1, <1>10, <1>12
  <2> HIDE DEF y, t
  <2>7. y <= t
    <3>1. y * W5 <= t * W5
      BY <2>5 DEF y, t
    <3>2. QED
      BY <1>1, <2>6, <3>1, Cancel
  <2>8. QED
    BY <2>7 DEF y, t
<1>16. x < A + 3 * M + W3
  BY <1>1, <1>2, <1>10, <1>12, <1>15
<1>17. QED
  BY <1>7, <1>8, <1>10, <1>14, <1>16 DEF A, W3

(* The modulus is more than a third of 2^256, so is its highest word of W.  *)
LEMMA HighestWordLarge == ~(M_3 < W \div 3) /\ 2 * M + W^3 <= Two256
<1> DEFINE X == W^3
           k == W \div 3
<1>1. /\ M \in Nat \ {0} /\ 3 * M > Two256 /\ M_3 \in Nat /\ M_3 * X <= M /\ M < M_3 * X + X
      /\ M_3 * X \in Nat /\ M_3 * X + 2 * X <= Two256 - M
      /\ W \in Nat /\ X \in Nat \ {0} /\ Two256 = W * X /\ Two256 \in Nat
  BY Modulus, WordPowers, WordIsPower
<1> HIDE DEF X, M, M_3, W, Two256
<1>2. k \in Int /\ W = 3 * k + (W % 3) /\ W % 3 \in 0 .. 2
  <2>1. W \in Int /\ 3 \in Nat \ {0}
    BY <1>1
  <2>2. W \div 3 \in Int /\ W % 3 \in 0 .. 3 - 1 /\ W = 3 * (W \div 3) + (W % 3)
    BY <2>1, Division
  <2>3. QED
    BY <2>2
<1> HIDE DEF k
<1>3. ASSUME M_3 < k PROVE FALSE
  <2>1. 3 * M < 3 * (M_3 * X) + 3 * X
    BY <1>1
  <2>2. (3 * (M_3 + 1)) * X = 3 * (M_3 * X) + 3 * X
    BY <1>1
  <2>3. 3 * (M_3 + 1) <= W
    BY <1>1, <1>2, <1>3
  <2>4. (3 * (M_3 + 1)) * X <= W * X
    BY <1>1, <2>3, Monotone
  <2>5. QED
    BY <1>1, <2>1, <2>2, <2>4
<1>4. 2 * M + X <= Two256
  BY <1>1
<1>5. QED
  BY <1>3, <1>4 DEF k, X

(* The difference of the low words is that of the numbers, or needs the     *)
(* modulus added when it borrows.                                           *)
LowWordsDiffer(V, x, y, m) ==
  /\ x % V >= y % V => (x % V) - (y % V) = x - y
  /\ ~(x % V >= y % V) => ((x % V) - (y % V) + m) % V = x - y + m

LEMMA LowDifference ==
  ASSUME NEW V \in Nat \ {0}, NEW x \in Nat, NEW y \in Nat, NEW m \in Nat,
         y <= x, x - y + m < V
  PROVE  LowWordsDiffer(V, x, y, m)
<1> DEFINE D == x - y
           a == x \div V
           b == y \div V
           l == x % V
           r == y % V
<1>1. /\ a \in Int /\ l \in 0 .. V - 1 /\ x = V * a + l
      /\ b \in Int /\ r \in 0 .. V - 1 /\ y = V * b + r
  BY Division
<1>2. D \in 0 .. V - 1 /\ D + m \in 0 .. V - 1
  OBVIOUS
<1> HIDE DEF a, b, l, r
<1>3. /\ D = V * (a - b) + (l - r) /\ D = V * (a - b - 1) + (l - r + V)
      /\ a - b \in Int /\ a - b - 1 \in Int
  BY <1>1
<1> HIDE DEF D
<1>4. D = V * 0 + D /\ 0 \in Int
  BY <1>2
<1>5. D % V = D
  BY <1>2, <1>4, DivisionUnique
<1>6. l >= r => l - r = D
  <2> DEFINE e == l - r
  <2>1. SUFFICES ASSUME l >= r PROVE e = D
    OBVIOUS
  <2>2. e \in 0 .. V - 1
    BY <1>1, <2>1
  <2>3. D = V * (a - b) + e
    BY <1>3
  <2> HIDE DEF e
  <2>4. D % V = e
    BY <1>3, <2>2, <2>3, DivisionUnique
  <2>5. QED
    BY <1>5, <2>4
<1>7. ~(l >= r) => (l - r + m) % V = D + m
  <2> DEFINE e == l - r + V
             d == D + m
             c == l - r + m
  <2>1. SUFFICES ASSUME ~(l >= r) PROVE c % V = d
    OBVIOUS
  <2>2. e \in 0 .. V - 1
    BY <1>1, <2>1
  <2>3. D = V * (a - b - 1) + e
    BY <1>3
  <2>4. e = D
    <3> HIDE DEF e
    <3>1. D % V = e
      BY <1>3, <2>2, <2>3, DivisionUnique
    <3>2. QED
      BY <1>5, <3>1
  <2>5. c = V * (-1) + d /\ -1 \in Int /\ d \in 0 .. V - 1
    BY <1>1, <1>2, <2>4
  <2> HIDE DEF c, d
  <2>6. QED
    BY <2>5, DivisionUnique
<1>8. QED
  BY <1>6, <1>7 DEF D, l, r, LowWordsDiffer

LEMMA ReduceUint512_Right ==
  ASSUME NEW x \in Nat, x < Two256 * Two256
  PROVE  Right(ReduceUint512ToUint256_a(x), x, "a")
<1> DEFINE A == BarrettQuotient(x) * M
           Q == BarrettQuotient(x)
           D == x - A
           X == W^3
           V == W^5
           low == x % V
           r2 == A % V
           r == IF low >= r2 THEN low - r2 ELSE (low - r2 + M) % V
           once(t) == IF t >= M THEN t - M ELSE t
<1>1. /\ A \in Nat /\ Q \in Nat /\ A <= x /\ x < A + 3 * M + X
      /\ M \in Nat \ {0} /\ 2 * M + X <= Two256 /\ 2 * M < Two256 /\ X \in Nat /\ X < M
      /\ Two256 \in Nat /\ V = W * Two256 /\ W \in Nat /\ W >= 8
  BY BarrettQuotient_Close, Constants, HighestWordLarge, WordPowers, WordIsPower, Modulus
<1>2. ReduceUint512ToUint256_a(x) = once(once(r)) % Two256
  BY HighestWordLarge DEF ReduceUint512ToUint256_a
<1> HIDE DEF M, W, Two256, X, V
<1>3. 8 * Two256 <= V /\ V \in Nat \ {0}
  <2>1. 8 * Two256 <= W * Two256
    BY <1>1, Monotone
  <2>2. QED
    BY <1>1, <2>1
<1> HIDE DEF A, Q
<1>4. D \in Nat /\ D < 3 * M + X /\ x - A + M < V
  BY <1>1, <1>3
<1>5. r = D \/ r = D + M
  <2>1. V \in Nat \ {0} /\ A \in Nat /\ M \in Nat /\ A <= x /\ x - A + M < V
    BY <1>1, <1>3, <1>4
  <2>2. /\ low >= r2 => low - r2 = D
        /\ ~(low >= r2) => (low - r2 + M) % V = D + M
    <3>1. LowWordsDiffer(V, x, A, M)
      BY <2>1, LowDifference
    <3>2. QED
      BY <3>1 DEF LowWordsDiffer
  <2> HIDE DEF low, r2, D
  <2>3. QED
    BY <2>2
<1> HIDE DEF r
<1>6. Cong(D, x)
  <2>1. D = x + (-Q) * M /\ -Q \in Int
    <3>1. (-Q) * M = -(Q * M)
      BY <1>1
    <3>2. QED
      BY <1>1, <3>1 DEF A, Q
  <2> HIDE DEF D
  <2>2. x \in Int
    OBVIOUS
  <2>3. QED
    BY <2>1, <2>2 DEF Cong
<1> HIDE DEF D
<1> DEFINE v == once(once(r))
<1>7. v \in Nat /\ v < Two256 /\ (v = D \/ v = D - M \/ v = D - 2 * M \/ v = D + M)
  BY <1>1, <1>4, <1>5
<1>8. Cong(v, D)
  <2>1. Cong(D, D) /\ Cong(D - M, D) /\ Cong(D + M, D) /\ Cong(D - 2 * M, D)
    BY <1>4, CongShifts
  <2> HIDE DEF v
  <2>2. QED
    BY <1>7, <2>1
<1> HIDE DEF v
<1>9. Cong(v, x)
  <2>1. v \in Int /\ D \in Int /\ x \in Int
    BY <1>4, <1>7
  <2>2. QED
    BY <1>6, <1>8, <2>1, CongTrans
<1>10. v % Two256 = v /\ v \in Int
  <2>1. v \in 0 .. Two256 - 1 /\ v \in Int
    BY <1>1, <1>7
  <2>2. QED
    BY <2>1, Wraps
<1>11. v \in ReducedRange("a")
  BY <1>7, <1>10, Ranges
<1>12. ReduceUint512ToUint256_a(x) = v
  BY <1>2, <1>10 DEF v
<1>13. QED
  BY <1>9, <1>11, <1>12 DEF Right

LEMMA MulEq_Right ==
  ASSUME NEW x \in Uints, NEW y \in Uints
  PROVE  Right(MulAndReduce_a(x, y), x * y, "a")
<1>1. x \in Nat /\ y \in Nat /\ x < Two256 /\ y < Two256 /\ Two256 \in Nat
  BY UintFacts
<1> DEFINE p == x * y
<1>2. p \in Nat /\ p < Two256 * Two256
  <2> HIDE DEF Two256
  <2>1. x * y <= (Two256 - 1) * y /\ (Two256 - 1) * y <= (Two256 - 1) * (Two256 - 1) /\ x * y \in Nat
    <3>1. x * y <= (Two256 - 1) * y /\ Two256 - 1 \in Nat
      BY <1>1, Monotone
    <3>2. (Two256 - 1) * y <= (Two256 - 1) * (Two256 - 1)
      BY <1>1, <3>1, Monotone
    <3>3. x * y \in Nat
      BY <1>1
    <3>4. QED
      BY <3>1, <3>2, <3>3
  <2>2. (Two256 - 1) * (Two256 - 1) = Two256 * Two256 - 2 * Two256 + 1 /\ (Two256 - 1) * y \in Int
    BY <1>1
  <2>3. Two256 * Two256 \in Nat /\ Two256 > 0
    BY <1>1
  <2>4. QED
    BY <1>1, <2>1, <2>2, <2>3
<1> HIDE DEF p
<1>3. Right(ReduceUint512ToUint256_a(p), p, "a")
  BY <1>2, ReduceUint512_Right
<1>4. QED
  BY <1>3 DEF p, MulAndReduce_a

-----------------------------------------------------------------------------
(* Montgomery multiplication.                                               *)

(* The modulus is odd: -1/M exists modulo every power of 2 up to W.         *)
NegativeInverse(k, n, u) == n * M + 1 = u * 2^k

LEMMA NegativeInverses ==
  \A k \in 0 .. WordBits : \E n, u \in Int : NegativeInverse(k, n, u)
<1> DEFINE P(k) == \E n, u \in Int : NegativeInverse(k, n, u)
           Bad == {k \in 0 .. WordBits : ~P(k)}
<1>1. /\ WordBits \in Nat /\ 2^0 = 1 /\ \A n \in 0 .. WordBits - 1 : 2^(n + 1) = 2 * 2^n
      /\ M \in Nat /\ M % 2 = 1
  BY WordBitsAssumption, PowersAssumption, Modulus
<1> HIDE DEF M
<1>2. PICK m \in Int : M = 2 * m + 1
  <2>1. M \in Int /\ 2 \in Nat \ {0}
    BY <1>1
  <2>2. M \div 2 \in Int /\ M = 2 * (M \div 2) + (M % 2)
    BY <2>1, Division
  <2>3. QED
    BY <1>1, <2>2
<1>3. P(0)
  <2>1. NegativeInverse(0, 0, 1)
    BY <1>1 DEF NegativeInverse
  <2>2. QED
    BY <2>1
<1>4. ASSUME NEW k \in 0 .. WordBits - 1, P(k)
      PROVE  P(k + 1)
  <2>1. PICK n \in Int, u \in Int : NegativeInverse(k, n, u)
    BY <1>4
  <2> DEFINE t == 2^k
  <2>2. t \in Nat /\ 2^(k + 1) = 2 * t
    BY <1>1, <1>4, PowersOfTwo
  <2>3. n * M + 1 = u * t
    BY <2>1 DEF NegativeInverse
  <2> HIDE DEF t
  <2>4. PICK h \in Int : u = 2 * h \/ u = 2 * h + 1
    <3>1. u \div 2 \in Int /\ u % 2 \in 0 .. 2 - 1 /\ u = 2 * (u \div 2) + (u % 2)
      BY Division
    <3>2. QED
      BY <3>1
  <2>5. CASE u = 2 * h
    <3>1. (2 * h) * t = h * (2 * t)
      BY <2>2
    <3>2. NegativeInverse(k + 1, n, h)
      BY <2>2, <2>3, <2>5, <3>1 DEF NegativeInverse
    <3>3. QED
      BY <3>2
  <2>6. CASE u = 2 * h + 1
    <3>1. (n + t) * M + 1 = n * M + t * M + 1 /\ n * M \in Int /\ t * M \in Int
      BY <1>1, <2>2
    <3>2. u * t + t * M = (u + M) * t /\ u * t \in Int
      BY <1>1, <2>2
    <3>3. (n + t) * M + 1 = (u + M) * t
      BY <2>3, <3>1, <3>2
    <3>4. u + M = 2 * (h + m + 1) /\ h + m + 1 \in Int
      BY <1>2, <2>6
    <3> DEFINE g == h + m + 1
    <3>5. (2 * g) * t = g * (2 * t)
      BY <2>2
    <3>6. (n + t) * M + 1 = g * (2 * t)
      BY <3>3, <3>4, <3>5
    <3>7. NegativeInverse(k + 1, n + t, g)
      BY <2>2, <3>6 DEF NegativeInverse
    <3>8. n + t \in Int
      BY <2>2
    <3> HIDE DEF g
    <3>9. g \in Int
      BY <3>4 DEF g
    <3>10. QED
      BY <3>7, <3>8, <3>9
  <2>7. QED
    BY <2>4, <2>5, <2>6
<1> HIDE DEF P
<1>5. SUFFICES ASSUME Bad # {} PROVE FALSE
  BY DEF P
<1>6. PICK k \in Bad : \A j \in Bad : k <= j
  <2>1. Bad \subseteq Nat
    BY <1>1
  <2> HIDE DEF Bad
  <2>2. QED
    BY <1>5, <2>1, LeastElement
<1>7. k \in 0 .. WordBits /\ ~P(k) /\ k # 0
  BY <1>3, <1>6
<1>8. k - 1 \in 0 .. WordBits - 1 /\ (k - 1) + 1 = k /\ k - 1 \in 0 .. WordBits /\ k - 1 < k
  BY <1>1, <1>7
<1>9. P(k - 1)
  BY <1>6, <1>8
<1>10. P((k - 1) + 1)
  BY <1>4, <1>8, <1>9
<1>11. QED
  BY <1>7, <1>8, <1>10

LEMMA NegativeInverseModulus ==
  /\ negativeInverseModulus \in 0 .. W - 1
  /\ \E u \in Int : negativeInverseModulus * M + 1 = u * W
<1>1. W \in Nat \ {0} /\ M \in Nat /\ WordBits \in 0 .. WordBits /\ W = 2^WordBits
  BY WordIsPower, Modulus, WordBitsAssumption DEF W
<1>2. PICK n \in Int, u \in Int : n * M + 1 = u * W
  <2>1. \E n, u \in Int : NegativeInverse(WordBits, n, u)
    BY <1>1, NegativeInverses
  <2>2. QED
    BY <1>1, <2>1 DEF NegativeInverse
<1> HIDE DEF W, M
<1> DEFINE a == n \div W
           r == n % W
<1>3. a \in Int /\ r \in 0 .. W - 1 /\ n = W * a + r
  BY <1>1, Division
<1> HIDE DEF a, r
<1>4. r * M + 1 = W * (u - a * M) + 0 /\ u - a * M \in Int
  <2>1. (W * a + r) * M = W * (a * M) + r * M /\ a * M \in Int /\ r * M \in Int
    BY <1>1, <1>3
  <2>2. W * (u - a * M) = W * u - W * (a * M)
    BY <1>1, <1>3
  <2>3. W * u = u * W /\ W * u \in Int /\ W * (a * M) \in Int
    BY <1>1, <1>3
  <2>4. r * M + W * (a * M) + 1 = u * W
    <3>1. n * M = (W * a + r) * M
      BY <1>3
    <3>2. (W * a + r) * M + 1 = u * W
      BY <1>2, <3>1
    <3>3. r * M \in Int /\ W * (a * M) \in Int /\ u * W \in Int
      BY <1>1, <1>3, <2>1
    <3>4. W * (a * M) + r * M + 1 = u * W
      BY <2>1, <3>2
    <3>5. QED
      BY <3>3, <3>4
  <2>5. QED
    BY <2>1, <2>2, <2>3, <2>4
<1>5. (r * M + 1) % W = 0
  <2> DEFINE c == u - a * M
  <2>1. c \in Int /\ 0 \in 0 .. W - 1 /\ r * M + 1 = W * c + 0
    BY <1>1, <1>4
  <2> HIDE DEF c
  <2>2. QED
    BY <1>1, <2>1, DivisionUnique
<1>6. Word = 0 .. W - 1
  BY DEF Word
<1>7. negativeInverseModulus \in 0 .. W - 1 /\ (negativeInverseModulus * M + 1) % W = 0
  BY <1>3, <1>5, <1>6 DEF negativeInverseModulus
<1> DEFINE N == negativeInverseModulus
           s == N * M + 1
<1> HIDE DEF N
<1>8. s \in Int
  BY <1>1, <1>7 DEF N
<1> HIDE DEF s
<1>9. s \div W \in Int /\ s = W * (s \div W) + (s % W)
  BY <1>1, <1>8, Division
<1>10. s = (s \div W) * W
  <2>1. s % W = 0
    BY <1>7 DEF s, N
  <2>2. QED
    BY <1>1, <1>9, <2>1
<1>11. QED
  BY <1>7, <1>9, <1>10 DEF s, N

(* W, and with it 2^256, has an inverse modulo the modulus.                 *)
LEMMA InverseOfTwo256_Right ==
  /\ InverseOfTwo256 \in 0 .. M - 1
  /\ Cong(InverseOfTwo256 * Two256, 1)
<1> DEFINE N == negativeInverseModulus
<1>1. /\ W \in Nat \ {0} /\ M \in Nat \ {0} /\ M > 1 /\ Two256 \in Nat \ {0}
      /\ Two256 = W * W^3 /\ W^3 = W * W^2 /\ W^2 = W * W
  <2>1. M > W^3 /\ W^3 \in Nat \ {0} /\ M \in Nat \ {0}
    BY Modulus, WordPowers
  <2>2. M > 1
    <3> HIDE DEF M
    <3>1. QED
      BY <2>1
  <2>3. QED
    BY <2>1, <2>2, WordIsPower, WordPowers
<1>2. N \in Int
  BY <1>1, NegativeInverseModulus
<1>3. PICK u \in Int : N * M + 1 = u * W
  BY NegativeInverseModulus
<1> HIDE DEF N, W, M, Two256
<1>4. Cong(u * W, 1)
  <2>1. u * W = 1 + N * M
    BY <1>1, <1>2, <1>3
  <2>2. QED
    BY <1>2, <2>1 DEF Cong
<1>5. Cong((u * W) * (u * W), 1)
  <2>1. u * W \in Int
    BY <1>1
  <2>2. Cong((u * W) * (u * W), 1 * 1)
    BY <1>4, <2>1, CongProduct
  <2>3. QED
    BY <2>2
<1> DEFINE v == (u * W) * (u * W)
<1>6. v \in Int
  BY <1>1
<1> HIDE DEF v
<1>7. Cong(v * v, 1)
  <2>1. Cong(v * v, 1 * 1)
    BY <1>5, <1>6, CongProduct DEF v
  <2>2. QED
    BY <2>1
<1> DEFINE U == (u * u) * (u * u)
           I == U % M
           T == Two256 % M
<1>8. U \in Int /\ v * v = U * Two256
  <2>1. U \in Int
    OBVIOUS
  <2>2. ((u * W) * (u * W)) * ((u * W) * (u * W)) = U * (W * (W * (W * W)))
    BY <1>1
  <2>3. QED
    BY <1>1, <2>1, <2>2 DEF v
<1> HIDE DEF U
<1>9. Cong(U * Two256, 1)
  BY <1>7, <1>8
<1>10. Cong(I, U) /\ I \in 0 .. M - 1 /\ Cong(T, Two256) /\ T \in 0 .. M - 1
  BY <1>1, <1>8, CongOfMod
<1> HIDE DEF I, T
<1>11. Cong(I * T, 1)
  <2>1. I \in Int /\ T \in Int /\ U \in Int /\ Two256 \in Int /\ I * T \in Int /\ U * Two256 \in Int
    BY <1>1, <1>8, <1>10
  <2>2. Cong(I * T, U * Two256)
    BY <1>10, <2>1, CongProduct
  <2>3. QED
    BY <1>9, <2>1, <2>2, CongTrans
<1>12. 1 % M = 1
  <2>1. 1 = M * 0 + 1 /\ 1 \in 0 .. M - 1
    BY <1>1
  <2>2. QED
    BY <1>1, <2>1, DivisionUnique
<1>13. (I * T) % M = 1
  <2>1. I * T \in Int /\ 1 \in Int
    BY <1>1, <1>10
  <2>2. QED
    BY <1>11, <1>12, <2>1, CongMod
<1> DEFINE J == InverseOfTwo256
<1>14. J \in 0 .. M - 1 /\ (J * T) % M = 1
  <2>1. \E r \in 0 .. M - 1 : (r * T) % M = 1
    BY <1>10, <1>13
  <2>2. J = CHOOSE r \in 0 .. M - 1 : (r * T) % M = 1
    BY DEF InverseOfTwo256, twoTo256ModBaseField, T
  <2> HIDE DEF J
  <2>3. QED
    BY <2>1, <2>2
<1> HIDE DEF J
<1>15. Cong(J * T, 1)
  <2>1. J * T \in Int
    BY <1>1, <1>10, <1>14
  <2>2. QED
    BY <1>14, <2>1, CongOfMod
<1>16. Cong(J * Two256, 1)
  <2>1. J \in Int /\ T \in Int /\ Two256 \in Int /\ J * T \in Int /\ J * Two256 \in Int
    BY <1>1, <1>10, <1>14
  <2>2. Cong(J, J) /\ Cong(Two256, T)
    BY <1>10, <2>1, CongShifts, CongSum
  <2>3. Cong(J * Two256, J * T)
    BY <2>1, <2>2, CongProduct
  <2>4. QED
    BY <1>15, <2>1, <2>3, CongTrans
<1>17. QED
  BY <1>14, <1>16 DEF J

(* A number that is a / 2^256 modulo the modulus.                           *)
LEMMA DividedByTwo256 ==
  ASSUME NEW s \in Int, NEW a \in Int, Cong(Two256 * s, a)
  PROVE  Cong(s, a * InverseOfTwo256)
<1> DEFINE J == InverseOfTwo256
<1>1. J \in Int /\ Two256 \in Int /\ Cong(J * Two256, 1)
  BY Modulus, WordPowers, InverseOfTwo256_Right
<1> HIDE DEF J, Two256
<1>2. /\ J * Two256 \in Int /\ (Two256 * s) * J \in Int /\ a * J \in Int /\ Two256 * s \in Int
      /\ s * (J * Two256) \in Int
      /\ s * (J * Two256) = (Two256 * s) * J /\ s * 1 = s
  BY <1>1
<1>3. Cong((Two256 * s) * J, a * J)
  BY <1>1, <1>2, CongProduct, CongShifts
<1>4. Cong(s * (J * Two256), s * 1)
  BY <1>1, <1>2, CongProduct, CongShifts
<1>5. Cong(s, (Two256 * s) * J)
  BY <1>2, <1>4, CongSum
<1>6. QED
  BY <1>2, <1>3, <1>5, CongTrans DEF J

LEMMA NatDivision ==
  ASSUME NEW a \in Nat, NEW b \in Nat \ {0}
  PROVE  a \div b \in Nat /\ a % b \in 0 .. b - 1 /\ a = b * (a \div b) + (a % b)
<1>1. a \in Int
  OBVIOUS
<1>2. a % b \in 0 .. b - 1 /\ a = b * (a \div b) + (a % b)
  BY <1>1, Division
<1>3. a \div b \in Nat
  BY QuotientDigit
<1>4. QED
  BY <1>2, <1>3

(* A step adds a multiple of the modulus and divides by W, exactly: the sum *)
(* of the lowest words, which is not computed, is 0 or W.                   *)
LEMMA MontgomeryStep_Exact ==
  ASSUME NEW t \in Nat
  PROVE  \E q \in 0 .. W - 1, v \in Nat : W * v = t + q * M /\ (v < Two256 => MontgomeryStep(t) = v)
<1> DEFINE N == negativeInverseModulus
           t0 == t % W
           t1 == t \div W
           M0 == M % W
           M1 == M \div W
           q == (t0 * N) % W
           d == (q * M0) \div W
           d0 == (q * M0) % W
<1>1. W \in Nat \ {0} /\ W >= 8 /\ M \in Nat \ {0} /\ Two256 \in Nat \ {0} /\ N \in 0 .. W - 1
  BY WordIsPower, Modulus, WordPowers, NegativeInverseModulus
<1>2. PICK u \in Int : N * M + 1 = u * W
  BY NegativeInverseModulus
<1>3. MontgomeryStep(t) = IF t0 = 0 THEN t1 ELSE (t1 + (d + 1) + q * M1) % Two256
  BY DEF MontgomeryStep
<1> HIDE DEF N, W, M, Two256
<1>4. t1 \in Int /\ t0 \in 0 .. W - 1 /\ t = W * t1 + t0 /\ t1 \in Nat
  <2>1. t \div W \in Nat /\ t % W \in 0 .. W - 1 /\ t = W * (t \div W) + (t % W)
    BY <1>1, NatDivision
  <2>2. QED
    BY <2>1
<1>5. M1 \in Int /\ M0 \in 0 .. W - 1 /\ M = W * M1 + M0 /\ M1 \in Nat
  <2>1. M \div W \in Nat /\ M % W \in 0 .. W - 1 /\ M = W * (M \div W) + (M % W)
    BY <1>1, NatDivision
  <2>2. QED
    BY <2>1
<1> HIDE DEF t0, t1, M0, M1
<1>6. q \in 0 .. W - 1 /\ \E a \in Int : t0 * N = W * a + q
  <2> DEFINE p == t0 * N
  <2>1. p \in Int
    BY <1>1, <1>4
  <2> HIDE DEF p
  <2>2. p \div W \in Int /\ p % W \in 0 .. W - 1 /\ p = W * (p \div W) + (p % W)
    BY <1>1, <2>1, Division
  <2>3. QED
    BY <2>2 DEF p
<1> HIDE DEF q
<1>7. d \in Nat /\ d0 \in 0 .. W - 1 /\ q * M0 = W * d + d0
  <2> DEFINE p == q * M0
  <2>1. p \in Nat /\ p \in Int
    BY <1>1, <1>5, <1>6
  <2> HIDE DEF p
  <2>2. p \div W \in Nat /\ p % W \in 0 .. W - 1 /\ p = W * (p \div W) + (p % W)
    BY <1>1, <2>1, Division, QuotientDigit
  <2>3. QED
    BY <2>2 DEF p
<1> HIDE DEF d, d0
<1>8. \E c \in Int : t0 + q * M0 = W * c
  <2>1. PICK a \in Int : t0 * N = W * a + q
    BY <1>6
  <2>2. q = t0 * N - W * a /\ q \in Int /\ t0 \in Int /\ N \in Int /\ M1 \in Int /\ M0 \in Int
    BY <1>1, <1>4, <1>5, <1>6, <2>1
  <2>3. N * (W * M1 + M0) + 1 = u * W
    BY <1>2, <1>5
  <2>4. N * M0 = W * (u - N * M1) - 1
    <3>1. N * (W * M1 + M0) = W * (N * M1) + N * M0
      BY <1>1, <2>2
    <3>2. W * (u - N * M1) = u * W - W * (N * M1)
      BY <1>1, <2>2
    <3>3. W * (N * M1) \in Int /\ N * M0 \in Int /\ u * W \in Int
      BY <1>1, <2>2
    <3>4. QED
      BY <2>3, <3>1, <3>2, <3>3
  <2> DEFINE e == u - N * M1
  <2>5. e \in Int
    BY <2>2
  <2> HIDE DEF e
  <2>6. t0 + (t0 * N - W * a) * M0 = W * (t0 * e - a * M0)
    <3>1. (t0 * N - W * a) * M0 = t0 * (N * M0) - W * (a * M0)
      BY <1>1, <2>2
    <3>2. N * M0 = W * e - 1
      BY <2>4 DEF e
    <3>3. t0 * (N * M0) = t0 * (W * e - 1)
      BY <3>2
    <3>4. t0 * (W * e - 1) = W * (t0 * e) - t0
      BY <1>1, <2>2, <2>5
    <3>5. W * (t0 * e - a * M0) = W * (t0 * e) - W * (a * M0)
      BY <1>1, <2>2, <2>5
    <3>6. W * (t0 * e) \in Int /\ W * (a * M0) \in Int
      BY <1>1, <2>2, <2>5
    <3>7. QED
      BY <2>2, <3>1, <3>3, <3>4, <3>5, <3>6
  <2>7. t0 * e - a * M0 \in Int
    BY <2>2, <2>5
  <2>8. t0 + q * M0 = W * (t0 * e - a * M0)
    BY <2>2, <2>6
  <2>9. QED
    BY <2>7, <2>8
<1>9. PICK c \in Int : t0 + q * M0 = W * c
  BY <1>8
<1> DEFINE v == t1 + c + q * M1
<1>10. W * v = t + q * M /\ v \in Int
  <2>1. W * (t1 + c + q * M1) = W * t1 + W * c + q * (W * M1)
    BY <1>1, <1>4, <1>5, <1>6
  <2>2. q * M = q * (W * M1 + M0)
    BY <1>5
  <2>3. q * (W * M1 + M0) = q * (W * M1) + q * M0
    BY <1>1, <1>5, <1>6
  <2>4. q * (W * M1) \in Int /\ q * M0 \in Int /\ W * t1 \in Int /\ W * c \in Int /\ q * M1 \in Int
    BY <1>1, <1>4, <1>5, <1>6
  <2>5. QED
    BY <1>4, <1>9, <2>1, <2>2, <2>3, <2>4
<1>11. t0 = 0 => q = 0 /\ c = 0
  <2>1. ASSUME t0 = 0 PROVE q = 0
    <3>1. PICK a \in Int : t0 * N = W * a + q
      BY <1>6
    <3>2. W * a + q = 0
      BY <1>1, <2>1, <3>1
    <3>3. 0 \in 0 .. W - 1 /\ W * 0 + 0 = 0 /\ 0 \in Int
      BY <1>1
    <3>4. (W * a + q) % W = q /\ (W * 0 + 0) % W = 0
      BY <1>1, <1>6, <3>3, DivisionUnique
    <3>5. QED
      BY <3>2, <3>3, <3>4
  <2>2. ASSUME t0 = 0 PROVE c = 0
    <3>1. W * c = 0
      BY <1>5, <1>9, <2>1, <2>2
    <3>2. ~(c >= 1)
      <4>1. ASSUME c >= 1 PROVE FALSE
        <5>1. W * 1 <= W * c
          BY <1>1, <4>1, Monotone
        <5>2. QED
          BY <1>1, <3>1, <5>1
      <4>2. QED
        BY <4>1
    <3>3. ~(c <= -1)
      <4>1. ASSUME c <= -1 PROVE FALSE
        <5>1. W * c <= W * (-1)
          BY <1>1, <4>1, Monotone
        <5>2. QED
          BY <1>1, <3>1, <5>1
      <4>2. QED
        BY <4>1
    <3>4. QED
      BY <3>2, <3>3
  <2>3. QED
    BY <2>1, <2>2
<1>12. t0 # 0 => c = d + 1
  <2>1. SUFFICES ASSUME t0 # 0 PROVE c = d + 1
    OBVIOUS
  <2> DEFINE g == c - d
  <2>2. g \in Int /\ W * g = t0 + d0
    <3>1. W * (c - d) = W * c - W * d /\ W * c \in Int /\ W * d \in Int
      BY <1>1, <1>7
    <3>2. QED
      BY <1>4, <1>7, <1>9, <3>1
  <2> HIDE DEF g
  <2>3. ~(g >= 2)
    <3>1. ASSUME g >= 2 PROVE FALSE
      <4>1. W * 2 <= W * g
        BY <1>1, <2>2, <3>1, Monotone
      <4>2. QED
        BY <1>1, <1>4, <1>7, <2>2, <4>1
    <3>2. QED
      BY <3>1
  <2>4. ~(g <= 0)
    <3>1. ASSUME g <= 0 PROVE FALSE
      <4>1. W * g <= W * 0
        BY <1>1, <2>2, <3>1, Monotone
      <4>2. QED
        BY <1>1, <1>4, <1>7, <2>1, <2>2, <4>1
    <3>2. QED
      BY <3>1
  <2>5. g = 1
    BY <2>2, <2>3, <2>4
  <2>6. QED
    BY <1>7, <2>5 DEF g
<1>13. v \in Nat
  <2>1. q * M1 \in Nat
    BY <1>5, <1>6, <1>1
  <2>2. c >= 0
    BY <1>7, <1>11, <1>12
  <2>3. QED
    BY <1>4, <2>1, <2>2
<1>14. v < Two256 => MontgomeryStep(t) = v
  <2>1. CASE t0 = 0
    <3>1. v = t1
      BY <1>4, <1>5, <1>11, <2>1
    <3>2. QED
      BY <1>3, <2>1, <3>1
  <2>2. CASE t0 # 0
    <3>1. MontgomeryStep(t) = v % Two256
      BY <1>3, <1>12, <2>2
    <3> HIDE DEF v
    <3>2. v < Two256 => v \in 0 .. Two256 - 1
      BY <1>1, <1>13
    <3>3. v \in Int
      BY <1>13
    <3>4. QED
      BY <3>1, <3>2, <3>3, Wraps
  <2>3. QED
    BY <2>1, <2>2
<1> HIDE DEF v
<1>15. QED
  BY <1>6, <1>10, <1>13, <1>14

LEMMA MontgomeryStep_Bounded ==
  ASSUME NEW t \in Nat, NEW b \in Nat, t + (W - 1) * M <= W * b, b < Two256
  PROVE  /\ MontgomeryStep(t) \in 0 .. b
         /\ \E q \in 0 .. W - 1 : W * MontgomeryStep(t) = t + q * M
<1>1. W \in Nat \ {0} /\ M \in Nat /\ Two256 \in Nat
  BY WordIsPower, Modulus, WordPowers
<1>2. PICK q \in 0 .. W - 1, v \in Nat : W * v = t + q * M /\ (v < Two256 => MontgomeryStep(t) = v)
  BY MontgomeryStep_Exact
<1> HIDE DEF W, M, Two256
<1>3. v <= b
  <2>1. q * M <= (W - 1) * M /\ q * M \in Int /\ (W - 1) * M \in Int
    BY <1>1, Monotone
  <2>2. W * v <= W * b /\ W * v = v * W /\ W * b = b * W
    BY <1>1, <1>2, <2>1
  <2>3. v * W <= b * W
    BY <2>2
  <2>4. QED
    BY <1>1, <2>3, Cancel
<1>4. MontgomeryStep(t) = v
  BY <1>1, <1>2, <1>3
<1>5. QED
  BY <1>2, <1>3, <1>4

(* What a number stands for after some steps: P is the power of W it has    *)
(* been divided by.                                                         *)
Divided(P, z, s, x, a, k) == P * z = s + x * a + k * M

(* A row of the multiplication: no sum exceeds five words, no step four.    *)
RowRight(s, x, y) ==
  LET t == s + x * y
      z == MontgomeryStep(t)
  IN  /\ t % W^5 = t /\ t \in Nat
      /\ z \in 0 .. Two256 - 1 /\ z % Two256 = z
      /\ \E q \in Int : Divided(W, z, s, x, y, q)

LEMMA MontgomeryRow ==
  ASSUME NEW s \in 0 .. Two256 - 1, NEW x \in 0 .. Two256 - M - 1, NEW y \in 0 .. W - 1
  PROVE  RowRight(s, x, y)
<1> DEFINE t == s + x * y
           b == Two256 - 1
           V == W^5
<1>1. /\ W \in Nat \ {0} /\ M \in Nat \ {0} /\ Two256 \in Nat \ {0} /\ M < Two256
      /\ V = W * Two256 /\ V \in Nat \ {0}
  <2>1. W \in Nat /\ W >= 8 /\ M \in Nat \ {0} /\ Two256 \in Nat \ {0} /\ 2 * M < Two256
    BY WordIsPower, Modulus, WordPowers
  <2>2. V = W * Two256 /\ V \in Nat \ {0}
    BY WordPowers
  <2> HIDE DEF W, M, Two256, V
  <2>3. QED
    BY <2>1, <2>2
<1> HIDE DEF W, M, Two256, V
<1>2. x * y \in Nat /\ x * y <= (Two256 - M - 1) * (W - 1)
  <2>1. x * y <= (Two256 - M - 1) * y /\ x * y \in Int /\ 0 * y <= x * y
    BY <1>1, Monotone
  <2>2. (Two256 - M - 1) * y <= (Two256 - M - 1) * (W - 1)
    BY <1>1, Monotone
  <2>3. (Two256 - M - 1) * y \in Int /\ (Two256 - M - 1) * (W - 1) \in Int
    BY <1>1
  <2>4. QED
    BY <2>1, <2>2, <2>3
<1>3. t \in Nat /\ t + (W - 1) * M <= W * b /\ b \in Nat /\ b < Two256
  <2>1. (Two256 - M - 1) * (W - 1) + (W - 1) * M = (W - 1) * b
    BY <1>1
  <2>2. W * b = b + (W - 1) * b
    BY <1>1
  <2>3. (Two256 - M - 1) * (W - 1) \in Int /\ (W - 1) * M \in Nat /\ (W - 1) * b \in Int
    BY <1>1
  <2>4. QED
    BY <1>1, <1>2, <2>1, <2>2, <2>3
<1>4. t < V
  <2>1. W * b = V - W /\ (W - 1) * M \in Nat
    BY <1>1
  <2>2. QED
    BY <1>1, <1>3, <2>1
<1> HIDE DEF t, b
<1>5. t % V = t
  <2>1. t \in 0 .. V - 1 /\ t = V * 0 + t
    BY <1>1, <1>3, <1>4
  <2>2. QED
    BY <1>1, <2>1, DivisionUnique
<1>6. /\ MontgomeryStep(t) \in 0 .. b
      /\ \E q \in 0 .. W - 1 : W * MontgomeryStep(t) = t + q * M
  BY <1>3, MontgomeryStep_Bounded
<1>7. MontgomeryStep(t) % Two256 = MontgomeryStep(t)
  <2> DEFINE r == MontgomeryStep(t)
  <2>1. r \in 0 .. Two256 - 1 /\ r \in Int
    BY <1>1, <1>6 DEF b
  <2> HIDE DEF r
  <2>2. r % Two256 = r
    BY <2>1, Wraps
  <2>3. QED
    BY <2>2 DEF r
<1>8. \E q \in Int : Divided(W, MontgomeryStep(t), s, x, y, q)
  <2>1. PICK q \in 0 .. W - 1 : W * MontgomeryStep(t) = t + q * M
    BY <1>6
  <2>2. q \in Int
    BY <1>1
  <2>3. Divided(W, MontgomeryStep(t), s, x, y, q)
    BY <2>1 DEF Divided, t
  <2>4. QED
    BY <2>2, <2>3
<1>9. QED
  BY <1>3, <1>5, <1>6, <1>7, <1>8 DEF t, b, V, RowRight

LEMMA DividedAgain ==
  \A P, z, s, x, a, k, r, b, q \in Int :
    Divided(P, z, s, x, a, k) /\ Divided(W, s, r, x, b, q) => Divided(W * P, z, r, x, b + W * a, q + W * k)
<1> SUFFICES ASSUME NEW P \in Int, NEW z \in Int, NEW s \in Int, NEW x \in Int, NEW a \in Int,
                    NEW k \in Int, NEW r \in Int, NEW b \in Int, NEW q \in Int,
                    Divided(P, z, s, x, a, k), Divided(W, s, r, x, b, q)
             PROVE  Divided(W * P, z, r, x, b + W * a, q + W * k)
  OBVIOUS
<1>1. W \in Int /\ M \in Int
  BY WordIsPower, Modulus
<1> HIDE DEF W, M
<1>2. P * z = s + x * a + k * M /\ W * s = r + x * b + q * M
  BY DEF Divided
<1>3. (W * P) * z = W * (s + x * a + k * M)
  <2>1. (W * P) * z = W * (P * z)
    BY <1>1
  <2>2. QED
    BY <1>2, <2>1
<1>4. W * (s + x * a + k * M) = W * s + x * (W * a) + (W * k) * M
  BY <1>1
<1>5. (r + x * b + q * M) + x * (W * a) + (W * k) * M = r + x * (b + W * a) + (q + W * k) * M
  BY <1>1
<1>6. (W * P) * z = r + x * (b + W * a) + (q + W * k) * M
  BY <1>2, <1>3, <1>4, <1>5
<1>7. QED
  BY <1>6 DEF Divided

(* Four steps divide by 2^256.                                              *)
LEMMA FourSteps ==
  ASSUME NEW r \in Int, NEW x \in Int,
         NEW s1 \in Int, NEW s2 \in Int, NEW s3 \in Int, NEW s4 \in Int,
         NEW y0 \in Int, NEW y1 \in Int, NEW y2 \in Int, NEW y3 \in Int,
         \E q \in Int : Divided(W, s1, r, x, y0, q), \E q \in Int : Divided(W, s2, s1, x, y1, q),
         \E q \in Int : Divided(W, s3, s2, x, y2, q), \E q \in Int : Divided(W, s4, s3, x, y3, q)
  PROVE  Cong(Two256 * s4, r + x * (y0 + W * (y1 + W * (y2 + W * y3))))
<1>1. /\ W \in Int /\ M \in Int /\ Two256 = W * W^3 /\ W^3 = W * W^2 /\ W^2 = W * W
      /\ W^2 \in Int /\ W^3 \in Int /\ Two256 \in Int
  BY WordIsPower, Modulus, WordPowers
<1> HIDE DEF W, M, Two256
<1>2. PICK q0 \in Int : Divided(W, s1, r, x, y0, q0)
  OBVIOUS
<1>3. PICK q1 \in Int : Divided(W, s2, s1, x, y1, q1)
  OBVIOUS
<1>4. PICK q2 \in Int : Divided(W, s3, s2, x, y2, q2)
  OBVIOUS
<1>5. PICK q3 \in Int : Divided(W, s4, s3, x, y3, q3)
  OBVIOUS
<1> DEFINE a2 == y2 + W * y3
           k2 == q2 + W * q3
           a1 == y1 + W * a2
           k1 == q1 + W * k2
           a0 == y0 + W * a1
           k0 == q0 + W * k1
<1>6. Divided(W * W, s4, s2, x, a2, k2) /\ a2 \in Int /\ k2 \in Int
  BY <1>1, <1>4, <1>5, DividedAgain
<1> HIDE DEF a2, k2
<1>7. Divided(W * W^2, s4, s1, x, a1, k1) /\ a1 \in Int /\ k1 \in Int
  BY <1>1, <1>3, <1>6, DividedAgain
<1> HIDE DEF a1, k1
<1>8. Divided(W * W^3, s4, r, x, a0, k0) /\ a0 \in Int /\ k0 \in Int
  BY <1>1, <1>2, <1>7, DividedAgain
<1> HIDE DEF a0, k0
<1>9. Two256 * s4 = (r + x * a0) + k0 * M
  BY <1>1, <1>8 DEF Divided
<1>10. Cong(Two256 * s4, r + x * a0)
  BY <1>8, <1>9 DEF Cong
<1>11. QED
  BY <1>10 DEF a0, a1, a2

LEMMA mulMontgomery_Right ==
  ASSUME NEW x \in ReducedRange("c"), NEW y \in Uints
  PROVE  /\ Right(mulMontgomery_Unrolled_c(x, y), x * (y * InverseOfTwo256), "c")
         /\ Right(mulMontgomerySlow_c(x, y), x * (y * InverseOfTwo256), "c")
<1> DEFINE w == ToWords(y, 4)
           t1 == 0 + x * w[0]
           s1 == MontgomeryStep(t1)
           t2 == s1 + x * w[1]
           s2 == MontgomeryStep(t2)
           t3 == s2 + x * w[2]
           s3 == MontgomeryStep(t3)
           t4 == s3 + x * w[3]
           s4 == MontgomeryStep(t4)
           J == InverseOfTwo256
<1>1. /\ W \in Nat \ {0} /\ M \in Nat /\ Two256 \in Nat \ {0} /\ M < Two256
      /\ x \in 0 .. Two256 - M - 1 /\ y \in Nat /\ Uints = 0 .. Two256 - 1
  <2>1. W \in Nat \ {0} /\ M \in Nat /\ Two256 \in Nat \ {0} /\ 2 * M < Two256 /\ Uints = 0 .. Two256 - 1
    BY WordIsPower, Modulus, WordPowers DEF Uints
  <2>2. x \in Uints
    BY <2>1 DEF ReducedRange, Uints
  <2>3. x \in Int /\ x >= 0 /\ x < Two256 - M
    BY <2>1, <2>2, Ranges
  <2> HIDE DEF W, M, Two256
  <2>4. QED
    BY <2>1, <2>3
<1>2. /\ w[0] \in 0 .. W - 1 /\ w[1] \in 0 .. W - 1 /\ w[2] \in 0 .. W - 1 /\ w[3] \in 0 .. W - 1
      /\ y = w[0] + W * (w[1] + W * (w[2] + W * w[3]))
  <2>1. y < W^4
    BY <1>1, WordPowers
  <2>2. QED
    BY <1>1, <2>1, WordsOf
<1> HIDE DEF w, W, M, Two256
<1>3. 0 \in 0 .. Two256 - 1
  BY <1>1
<1>4. /\ t1 \in Nat /\ s1 \in 0 .. Two256 - 1 /\ s1 % Two256 = s1
      /\ \E q \in Int : Divided(W, s1, 0, x, w[0], q)
  <2>1. RowRight(0, x, w[0])
    BY <1>1, <1>2, <1>3, MontgomeryRow
  <2>2. QED
    BY <2>1 DEF RowRight
<1>5. t1 = x * w[0]
  <2>1. x \in Int /\ w[0] \in Int
    BY <1>1, <1>2
  <2>2. QED
    BY <2>1
<1> HIDE DEF s1
<1>6. /\ t2 % W^5 = t2 /\ s2 \in 0 .. Two256 - 1 /\ s2 % Two256 = s2
      /\ \E q \in Int : Divided(W, s2, s1, x, w[1], q)
  <2>1. RowRight(s1, x, w[1])
    BY <1>1, <1>2, <1>4, MontgomeryRow
  <2>2. QED
    BY <2>1 DEF RowRight
<1> HIDE DEF s2
<1>7. /\ t3 % W^5 = t3 /\ s3 \in 0 .. Two256 - 1 /\ s3 % Two256 = s3
      /\ \E q \in Int : Divided(W, s3, s2, x, w[2], q)
  <2>1. RowRight(s2, x, w[2])
    BY <1>1, <1>2, <1>6, MontgomeryRow
  <2>2. QED
    BY <2>1 DEF RowRight
<1> HIDE DEF s3
<1>8. /\ t4 % W^5 = t4 /\ s4 \in 0 .. Two256 - 1 /\ s4 % Two256 = s4
      /\ \E q \in Int : Divided(W, s4, s3, x, w[3], q)
  <2>1. RowRight(s3, x, w[3])
    BY <1>1, <1>2, <1>7, MontgomeryRow
  <2>2. QED
    BY <2>1 DEF RowRight
<1>9. mulMontgomery_Unrolled_c(x, y) = Reduce_ca(s4)
  <2> HIDE DEF t1, t2, t3, t4, s4
  <2>1. montgomery_iteration(x * w[0], x, w[1]) = t2
    BY <1>5, <1>6 DEF montgomery_iteration, t2, s1
  <2>2. montgomery_iteration(t2, x, w[2]) = t3
    BY <1>7 DEF montgomery_iteration, t3, s2
  <2>3. montgomery_iteration(t3, x, w[3]) = t4
    BY <1>8 DEF montgomery_iteration, t4, s3
  <2>4. mulMontgomery_Unrolled_c(x, y) =
          Reduce_ca(MontgomeryStep(montgomery_iteration(montgomery_iteration(
            montgomery_iteration(x * w[0], x, w[1]), x, w[2]), x, w[3])))
    BY DEF mulMontgomery_Unrolled_c, w
  <2>5. QED
    BY <2>1, <2>2, <2>3, <2>4 DEF s4
<1>10. mulMontgomerySlow_c(x, y) = Reduce_ca(s4)
  <2> DEFINE add_mul_shift_64(t, v) == (t + x * v) % W^5
             step(s) == MontgomeryStep(s) % Two256
  <2> HIDE DEF t1, t2, t3, t4, s4
  <2>1. add_mul_shift_64(step(x * w[0]), w[1]) = t2
    BY <1>4, <1>5, <1>6 DEF t2, s1
  <2>2. add_mul_shift_64(step(t2), w[2]) = t3
    BY <1>6, <1>7 DEF t3, s2
  <2>3. add_mul_shift_64(step(t3), w[3]) = t4
    BY <1>7, <1>8 DEF t4, s3
  <2>4. step(t4) = s4
    BY <1>8 DEF s4
  <2>5. mulMontgomerySlow_c(x, y) =
          Reduce_ca(step(add_mul_shift_64(step(add_mul_shift_64(step(
            add_mul_shift_64(step(x * w[0]), w[1])), w[2])), w[3])))
    BY DEF mulMontgomerySlow_c, w
  <2> HIDE DEF add_mul_shift_64, step
  <2>6. QED
    BY <2>1, <2>2, <2>3, <2>4, <2>5
<1> HIDE DEF s4
<1>11. Cong(Two256 * s4, x * y)
  <2>1. /\ 0 \in Int /\ x \in Int /\ s1 \in Int /\ s2 \in Int /\ s3 \in Int /\ s4 \in Int
        /\ w[0] \in Int /\ w[1] \in Int /\ w[2] \in Int /\ w[3] \in Int
    <3>1. x \in Int /\ w[0] \in Int /\ w[1] \in Int /\ w[2] \in Int /\ w[3] \in Int
      BY <1>1, <1>2
    <3>2. \A z \in 0 .. Two256 - 1 : z \in Int
      BY <1>1
    <3>3. s1 \in Int /\ s2 \in Int /\ s3 \in Int /\ s4 \in Int
      BY <1>4, <1>6, <1>7, <1>8, <3>2
    <3>4. QED
      BY <3>1, <3>3
  <2> DEFINE r == 0
             y0 == w[0]
             y1 == w[1]
             y2 == w[2]
             y3 == w[3]
  <2>2. Cong(Two256 * s4, r + x * (y0 + W * (y1 + W * (y2 + W * y3))))
    <3>1. /\ r \in Int /\ x \in Int /\ s1 \in Int /\ s2 \in Int /\ s3 \in Int /\ s4 \in Int
          /\ y0 \in Int /\ y1 \in Int /\ y2 \in Int /\ y3 \in Int
      BY <2>1
    <3>2. /\ \E q \in Int : Divided(W, s1, r, x, y0, q)
          /\ \E q \in Int : Divided(W, s2, s1, x, y1, q)
          /\ \E q \in Int : Divided(W, s3, s2, x, y2, q)
          /\ \E q \in Int : Divided(W, s4, s3, x, y3, q)
      BY <1>4, <1>6, <1>7, <1>8
    <3> HIDE DEF r, y0, y1, y2, y3
    <3>3. QED
      BY <3>1, <3>2, FourSteps, ZenonT(60)
  <2>3. x * y \in Int
    BY <1>1
  <2>4. 0 + x * y = x * y
    BY <2>3
  <2>5. QED
    BY <1>2, <2>2, <2>4
<1>12. J \in Int
  BY Modulus, InverseOfTwo256_Right
<1> HIDE DEF J
<1>13. Cong(s4, x * (y * J))
  <2>1. s4 \in Int /\ x * y \in Int
    BY <1>1, <1>8
  <2>2. Cong(s4, (x * y) * J)
    BY <1>11, <2>1, DividedByTwo256 DEF J
  <2>3. (x * y) * J = x * (y * J)
    BY <1>1, <1>12
  <2>4. QED
    BY <2>2, <2>3
<1>14. Right(Reduce_ca(s4), s4, "c") /\ Reduce_ca(s4) \in Nat
  BY <1>1, <1>8, Reduce_ca_Right
<1>15. Right(Reduce_ca(s4), x * (y * J), "c")
  <2> DEFINE z == Reduce_ca(s4)
             n == x * (y * J)
  <2>1. z \in Int /\ s4 \in Int /\ n \in Int /\ z \in ReducedRange("c") /\ Cong(z, s4)
    BY <1>1, <1>8, <1>12, <1>14 DEF Right
  <2> HIDE DEF z
  <2>2. Cong(s4, n)
    BY <1>13
  <2> HIDE DEF n
  <2>3. Cong(z, n)
    BY <2>1, <2>2, CongTrans
  <2>4. QED
    BY <2>1, <2>3 DEF Right, z, n
<1>16. QED
  BY <1>9, <1>10, <1>15 DEF J

(* Without a multiplication the steps stay below twice the modulus.         *)
StepRight(t) ==
  LET z == MontgomeryStep(t)
  IN  /\ z \in Nat /\ z < 2 * M /\ z % Two256 = z
      /\ \E q \in Int : Divided(W, z, t, 0, 0, q)

LEMMA MontgomeryReduction ==
  ASSUME NEW t \in Nat, t < 3 * M
  PROVE  StepRight(t)
<1> DEFINE b == 2 * M - 1
           z == MontgomeryStep(t)
<1>1. /\ W \in Nat \ {0} /\ W >= 8 /\ M \in Nat \ {0} /\ Two256 \in Nat \ {0} /\ 2 * M < Two256
      /\ W^2 \in Nat \ {0} /\ W <= M
  <2>1. /\ W \in Nat \ {0} /\ W >= 8 /\ M \in Nat \ {0} /\ Two256 \in Nat \ {0} /\ 2 * M < Two256
        /\ W^2 \in Nat \ {0} /\ M > W^3 /\ W^3 = W * W^2 /\ W^3 \in Nat
    BY WordIsPower, Modulus, WordPowers
  <2> HIDE DEF W, M
  <2>2. W * 1 <= W * W^2
    BY <2>1, Monotone
  <2>3. W <= M
    BY <2>1, <2>2
  <2>4. QED
    BY <2>1, <2>3
<1> HIDE DEF W, M, Two256
<1>2. t + (W - 1) * M <= W * b /\ b \in Nat /\ b < Two256
  <2>1. 8 * M <= W * M /\ W * M \in Nat
    BY <1>1, Monotone
  <2>2. (W - 1) * M = W * M - M /\ W * b = 2 * (W * M) - W
    BY <1>1
  <2>3. QED
    BY <1>1, <2>1, <2>2
<1>3. /\ z \in 0 .. b
      /\ \E q \in 0 .. W - 1 : W * z = t + q * M
  <2> HIDE DEF b
  <2>1. QED
    BY <1>2, MontgomeryStep_Bounded
<1> HIDE DEF z
<1>4. z \in Nat /\ z < 2 * M /\ z % Two256 = z
  <2>1. z \in 0 .. Two256 - 1 /\ z \in Nat /\ z < 2 * M /\ z \in Int
    BY <1>1, <1>3
  <2>2. QED
    BY <2>1, Wraps
<1>5. \E q \in Int : Divided(W, z, t, 0, 0, q)
  <2>1. PICK q \in 0 .. W - 1 : W * z = t + q * M
    BY <1>3
  <2>2. q \in Int
    BY <1>1
  <2>3. t + 0 * 0 + q * M = t + q * M
    OBVIOUS
  <2>4. Divided(W, z, t, 0, 0, q)
    BY <2>1, <2>3 DEF Divided
  <2>5. QED
    BY <2>2, <2>4
<1>6. QED
  BY <1>4, <1>5 DEF StepRight, z

LEMMA RightTrans ==
  ASSUME NEW z, NEW m \in Int, NEW n \in Int, NEW q \in {"a", "b", "c", "f"},
         Right(z, m, q), Cong(m, n), z \in Int
  PROVE  Right(z, n, q)
BY CongTrans DEF Right

LEMMA FromMontgomery_Right ==
  ASSUME NEW x \in ReducedRange("c")
  PROVE  /\ Right(FromMontgomeryRepresentation_fc(x), x * InverseOfTwo256, "f")
         /\ Right(ToNonMontgomery_fc(x), x * InverseOfTwo256, "f")
<1> DEFINE s1 == MontgomeryStep(x)
           s2 == MontgomeryStep(s1)
           s3 == MontgomeryStep(s2)
           s4 == MontgomeryStep(s3)
           J == InverseOfTwo256
<1>1. /\ M \in Nat \ {0} /\ Two256 \in Nat \ {0} /\ 2 * M < Two256 /\ Uints = 0 .. Two256 - 1
      /\ x \in Nat /\ x < 3 * M /\ J \in Int /\ W \in Int
  <2>1. /\ M \in Nat \ {0} /\ Two256 \in Nat \ {0} /\ 2 * M < Two256 /\ Uints = 0 .. Two256 - 1
        /\ 3 * M > Two256 /\ J \in Int /\ W \in Int
    BY Modulus, WordPowers, WordIsPower, InverseOfTwo256_Right DEF Uints
  <2>2. x \in Uints
    BY <2>1 DEF ReducedRange, Uints
  <2> HIDE DEF W, M, Two256, J
  <2>3. QED
    BY <2>1, <2>2
<1> HIDE DEF W, M, Two256, J
<1>2. StepRight(x)
  BY <1>1, MontgomeryReduction
<1>3. /\ s1 \in Nat /\ s1 < 3 * M /\ s1 % Two256 = s1
      /\ \E q \in Int : Divided(W, s1, x, 0, 0, q)
  <2>1. /\ s1 \in Nat /\ s1 < 2 * M /\ s1 % Two256 = s1
        /\ \E q \in Int : Divided(W, s1, x, 0, 0, q)
    BY <1>2 DEF StepRight
  <2> HIDE DEF s1
  <2>2. s1 < 3 * M
    BY <1>1, <2>1
  <2>3. QED
    BY <2>1, <2>2
<1> HIDE DEF s1
<1>4. StepRight(s1)
  BY <1>3, MontgomeryReduction
<1>5. /\ s2 \in Nat /\ s2 < 3 * M /\ s2 % Two256 = s2
      /\ \E q \in Int : Divided(W, s2, s1, 0, 0, q)
  <2>1. /\ s2 \in Nat /\ s2 < 2 * M /\ s2 % Two256 = s2
        /\ \E q \in Int : Divided(W, s2, s1, 0, 0, q)
    BY <1>4 DEF StepRight
  <2> HIDE DEF s2
  <2>2. s2 < 3 * M
    BY <1>1, <2>1
  <2>3. QED
    BY <2>1, <2>2
<1> HIDE DEF s2
<1>6. StepRight(s2)
  BY <1>5, MontgomeryReduction
<1>7. /\ s3 \in Nat /\ s3 < 3 * M /\ s3 % Two256 = s3
      /\ \E q \in Int : Divided(W, s3, s2, 0, 0, q)
  <2>1. /\ s3 \in Nat /\ s3 < 2 * M /\ s3 % Two256 = s3
        /\ \E q \in Int : Divided(W, s3, s2, 0, 0, q)
    BY <1>6 DEF StepRight
  <2> HIDE DEF s3
  <2>2. s3 < 3 * M
    BY <1>1, <2>1
  <2>3. QED
    BY <2>1, <2>2
<1> HIDE DEF s3
<1>8. StepRight(s3)
  BY <1>7, MontgomeryReduction
<1>9. /\ s4 \in Nat /\ s4 < 2 * M /\ s4 % Two256 = s4
      /\ \E q \in Int : Divided(W, s4, s3, 0, 0, q)
  BY <1>8 DEF StepRight
<1>10. FromMontgomeryRepresentation_fc(x) = Reduce_fb_exact(s4)
  BY DEF FromMontgomeryRepresentation_fc, s1, s2, s3
<1>11. ToNonMontgomery_fc(x) = Reduce_fb_exact(Reduce_ca(s4))
  <2> DEFINE step(t) == MontgomeryStep(t) % Two256
  <2>1. ToNonMontgomery_fc(x) = Reduce_fb_exact(Reduce_ca(step(step(step(step(x))))))
    BY DEF ToNonMontgomery_fc
  <2>2. step(x) = s1 /\ step(s1) = s2 /\ step(s2) = s3 /\ step(s3) = s4
    BY <1>3, <1>5, <1>7, <1>9 DEF s1, s2, s3
  <2> HIDE DEF step, s4
  <2>3. QED
    BY <2>1, <2>2
<1> HIDE DEF s4
<1>12. Cong(Two256 * s4, x)
  <2>1. /\ 0 \in Int /\ x \in Int /\ s1 \in Int /\ s2 \in Int /\ s3 \in Int /\ s4 \in Int
    BY <1>1, <1>3, <1>5, <1>7, <1>9
  <2>2. Cong(Two256 * s4, x + 0 * (0 + W * (0 + W * (0 + W * 0))))
    BY <1>3, <1>5, <1>7, <1>9, <2>1, FourSteps
  <2>3. x + 0 * (0 + W * (0 + W * (0 + W * 0))) = x
    BY <1>1
  <2>4. QED
    BY <2>2, <2>3
<1> DEFINE n == x * J
<1>13. Cong(s4, n) /\ n \in Int /\ s4 \in Int
  <2>1. s4 \in Int /\ x \in Int /\ n \in Int
    BY <1>1, <1>9
  <2>2. Cong(s4, x * J)
    BY <1>12, <2>1, DividedByTwo256 DEF J
  <2>3. QED
    BY <2>1, <2>2
<1>14. s4 \in Uints
  BY <1>1, <1>9
<1> HIDE DEF n
<1>15. Right(Reduce_fb_exact(s4), n, "f")
  <2>1. Right(Reduce_fb_exact(s4), s4, "f")
    BY <1>9, <1>14, Reduce_fb_Right
  <2>2. Reduce_fb_exact(s4) \in Int
    BY <1>1, <2>1 DEF Right, ReducedRange
  <2>3. QED
    BY <1>13, <2>1, <2>2, RightTrans
<1> DEFINE r == Reduce_ca(s4)
<1>16. /\ r \in Nat /\ r < 2 * M /\ Cong(r, s4) /\ r \in Uints
  <2>1. Right(r, s4, "c") /\ r \in Nat /\ r < 2 * M
    BY <1>9, <1>14, Reduce_ca_Right
  <2> HIDE DEF r
  <2>2. r \in Uints
    BY <1>1, <2>1
  <2>3. QED
    BY <2>1, <2>2 DEF Right
<1> HIDE DEF r
<1>17. Right(Reduce_fb_exact(r), n, "f")
  <2>1. Right(Reduce_fb_exact(r), r, "f")
    BY <1>16, Reduce_fb_Right
  <2>2. Reduce_fb_exact(r) \in Int /\ r \in Int
    BY <1>1, <1>16, <2>1 DEF Right, ReducedRange
  <2>3. Cong(r, n)
    BY <1>13, <1>16, <2>2, CongTrans
  <2>4. QED
    BY <1>13, <2>1, <2>2, <2>3, RightTrans
<1>18. QED
  BY <1>10, <1>11, <1>15, <1>17 DEF n, r, J

LEMMA ToMontgomery_Right ==
  ASSUME NEW x \in ReducedRange("c")
  PROVE  Right(ConvertToMontgomeryRepresentation_c(x), x * twoTo256ModBaseField, "c")
<1> DEFINE t == twoTo256ModBaseField
           y == twoTo512ModBaseField
           J == InverseOfTwo256
<1>1. /\ M \in Nat \ {0} /\ Two256 \in Nat \ {0} /\ 2 * M < Two256 /\ Uints = 0 .. Two256 - 1
      /\ x \in Int /\ J \in Int
  <2>1. /\ M \in Nat \ {0} /\ Two256 \in Nat \ {0} /\ 2 * M < Two256 /\ Uints = 0 .. Two256 - 1
        /\ J \in Int
    BY Modulus, WordPowers, InverseOfTwo256_Right DEF Uints
  <2>2. x \in Uints
    BY <2>1 DEF ReducedRange, Uints
  <2> HIDE DEF M, Two256, J
  <2>3. QED
    BY <2>1, <2>2
<1>2. /\ t \in 0 .. M - 1 /\ Cong(Two256, t)
      /\ \A a \in Int : Cong(a % M, a) /\ a % M \in 0 .. M - 1
  <2>1. \A a \in Int : Cong(a, a % M) /\ Cong(a % M, a) /\ a % M \in 0 .. M - 1
    BY CongOfMod
  <2>2. t = Two256 % M /\ Two256 \in Int
    BY <1>1 DEF twoTo256ModBaseField
  <2> HIDE DEF M, Two256, t
  <2>3. QED
    BY <2>1, <2>2
<1>3. y = (t * t) % M
  BY DEF twoTo512ModBaseField
<1>4. Right(ConvertToMontgomeryRepresentation_c(x), x * (y * J), "c") \/ y \notin Uints
  BY mulMontgomery_Right DEF ConvertToMontgomeryRepresentation_c
<1>5. Cong(J * Two256, 1)
  BY InverseOfTwo256_Right
<1> HIDE DEF M, Two256, J, t, y
<1>6. t \in Int /\ t * t \in Int
  BY <1>1, <1>2
<1>7. Cong(y, t * t) /\ y \in 0 .. M - 1
  BY <1>2, <1>3, <1>6
<1>8. y \in Uints /\ y \in Int
  BY <1>1, <1>7
<1>9. Cong(y * J, t)
  <2>1. y * J \in Int /\ (t * t) * J \in Int /\ J * t \in Int /\ J * Two256 \in Int /\ Two256 \in Int
        /\ (t * t) * J = t * (J * t) /\ t * 1 = t /\ t * (J * t) \in Int
    BY <1>1, <1>6, <1>8
  <2>2. Cong(y * J, (t * t) * J)
    BY <1>1, <1>6, <1>7, <1>8, CongProduct, CongShifts
  <2>3. Cong(J * Two256, J * t)
    BY <1>1, <1>2, <1>6, <2>1, CongProduct, CongShifts
  <2>4. Cong(J * t, 1)
    <3>1. Cong(J * t, J * Two256)
      BY <2>1, <2>3, CongSum
    <3>2. QED
      BY <1>5, <2>1, <3>1, CongTrans
  <2>5. Cong(t * (J * t), t * 1)
    BY <1>6, <2>1, <2>4, CongProduct, CongShifts
  <2>6. QED
    BY <1>6, <2>1, <2>2, <2>5, CongTrans
<1> DEFINE m == x * (y * J)
           n == x * t
           r == ConvertToMontgomeryRepresentation_c(x)
<1>10. Cong(m, n) /\ m \in Int /\ n \in Int
  <2>1. y * J \in Int
    BY <1>1, <1>8
  <2>2. Cong(x * (y * J), x * t)
    BY <1>1, <1>6, <1>9, <2>1, CongProduct, CongShifts
  <2>3. QED
    BY <1>1, <1>6, <2>1, <2>2
<1>11. Right(r, m, "c")
  BY <1>4, <1>8
<1> HIDE DEF m, n, r
<1>12. r \in Int
  <2>1. r \in ReducedRange("c")
    BY <1>11 DEF Right
  <2>2. QED
    BY <1>1, <2>1 DEF ReducedRange
<1>13. Right(r, n, "c")
  BY <1>10, <1>11, <1>12, RightTrans
<1>14. QED
  BY <1>13 DEF r, n, t

-----------------------------------------------------------------------------
(* The register.                                                            *)

ResidueInv == quality \in {"a", "b", "c", "f"} /\ ResidueTracked

(* What a register satisfying the invariant is known to be.                 *)
LEMMA RegisterFacts ==
  ASSUME ResidueInv
  PROVE  /\ register \in Uints /\ register \in Int /\ residue \in Int
         /\ Cong(register, residue)
         /\ \A q \in {"a", "b", "c", "f"} : Promised(q) => register \in ReducedRange(q)
         /\ Promised("b") => register < 2 * M
<1>1. /\ quality \in {"a", "b", "c", "f"} /\ register % M = residue
      /\ register \in ReducedRange(quality)
  BY DEF ResidueInv, ResidueTracked
<1>2. /\ M \in Nat \ {0} /\ Two256 \in Nat \ {0} /\ 3 * M > Two256 /\ 2 * M < Two256
      /\ Uints = 0 .. Two256 - 1
  BY Constants, WordPowers DEF Uints
<1>3. register \in Int
  BY <1>1, <1>2 DEF ReducedRange, Uints
<1>4. \A q \in {"a", "b", "c", "f"} :
        register \in ReducedRange(q) <=>
          0 <= register /\ register < Two256 /\ (q = "b" => register < 2 * M)
          /\ (q = "c" => register < Two256 - M) /\ (q = "f" => register < M)
  BY <1>3, Ranges
<1>5. Cong(register, residue) /\ residue \in 0 .. M - 1
  BY <1>1, <1>3, CongOfMod
<1> HIDE DEF M, Two256
<1>6. /\ 0 <= register /\ register < Two256 /\ (quality = "b" => register < 2 * M)
      /\ (quality = "c" => register < Two256 - M) /\ (quality = "f" => register < M)
  BY <1>1, <1>4
<1>7. register \in Uints
  BY <1>2, <1>3, <1>6
<1>8. residue \in Int
  BY <1>2, <1>5
<1>9. Promised("b") => register < 2 * M
  BY <1>1, <1>2, <1>3, <1>6 DEF Promised
<1>10. Promised("c") => register < Two256 - M
  BY <1>1, <1>2, <1>3, <1>6 DEF Promised
<1>11. Promised("f") => register < M
  BY <1>1, <1>6 DEF Promised
<1>12. ASSUME NEW q \in {"a", "b", "c", "f"}, Promised(q)
       PROVE  register \in ReducedRange(q)
  BY <1>4, <1>6, <1>9, <1>10, <1>11, <1>12
<1>13. QED
  BY <1>3, <1>5, <1>7, <1>8, <1>9, <1>12

(* A call that is right restores the invariant.                             *)
LEMMA CallKeeps ==
  ASSUME NEW v, NEW n \in Int, NEW class \in Int, NEW q \in {"a", "b", "c", "f"},
         Right(v, n, q), Cong(n, class), Returns(v, class, q)
  PROVE  ResidueInv'
<1>1. v \in Int /\ v \in ReducedRange(q) /\ Cong(v, n)
  <2>1. Two256 \in Nat /\ M \in Nat
    BY Constants
  <2> HIDE DEF Two256, M
  <2>2. QED
    BY <2>1 DEF Right, ReducedRange, Uints
<1>2. IsReduced(v, q)
  BY <1>1, Ranges
<1>3. v % M = class % M
  BY <1>1, CongTrans, CongMod
<1>4. register' = v /\ residue' = class % M /\ quality' = q
  BY DEF Returns
<1>5. QED
  BY <1>1, <1>2, <1>3, <1>4 DEF ResidueInv, ResidueTracked

LEMMA ResiduesStart == ResiduesInit => ResidueInv
<1>1. M \in Nat /\ Uints = 0 .. Two256 - 1 /\ Two256 \in Nat
  BY Constants DEF Uints
<1>2. ASSUME ResiduesInit PROVE ResidueInv
  <2>1. register \in 0 .. Two256 - 1 /\ residue = register % M /\ quality = "a"
    BY <1>2, OperandsAssumption DEF ResiduesInit
  <2>2. register \in Uints
    BY <1>1, <2>1
  <2>3. register \in ReducedRange("a") /\ IsReduced(register, "a")
    BY <2>2 DEF ReducedRange, IsReduced
  <2>4. QED
    BY <2>1, <2>3 DEF ResidueInv, ResidueTracked
<1>3. QED
  BY <1>2

LEMMA SumsKeep ==
  ASSUME ResidueInv, NEW x \in Operands
  PROVE  /\ \A q \in {"b", "c"} : AddAndReduce(q, x) => ResidueInv'
         /\ SubFrom_c(x) => ResidueInv'
         /\ SubFrom_b(x) => ResidueInv'
         /\ AddEq(x) => ResidueInv'
         /\ SubEq(x) => ResidueInv'
<1>1. /\ register \in Uints /\ register \in Int /\ residue \in Int /\ Cong(register, residue)
      /\ \A q \in {"a", "b", "c", "f"} : Promised(q) => register \in ReducedRange(q)
  BY RegisterFacts
<1>2. x \in Uints /\ x \in Int
  <2>1. Uints = 0 .. Two256 - 1 /\ Two256 \in Nat
    BY Constants DEF Uints
  <2>2. QED
    BY <2>1, OperandsAssumption
<1>3. /\ Cong(register + x, residue + x) /\ Cong(x - register, x - residue)
      /\ Cong(register - x, residue - x)
  <2>1. Cong(x, x)
    BY <1>2, CongShifts
  <2>2. QED
    BY <1>1, <1>2, <2>1, CongSum
<1>4. /\ register + x \in Int /\ residue + x \in Int /\ x - register \in Int /\ x - residue \in Int
      /\ register - x \in Int /\ residue - x \in Int
  BY <1>1, <1>2
<1>5. ASSUME NEW q \in {"b", "c"}, AddAndReduce(q, x) PROVE ResidueInv'
  <2>1. register \in ReducedRange(q) /\ x \in ReducedRange(q)
    BY <1>1, <1>5 DEF AddAndReduce
  <2>2. Right(AddAndReduce_b_c(register, x), register + x, q)
    BY <2>1, Add_Right
  <2>3. Returns(AddAndReduce_b_c(register, x), residue + x, q)
    BY <1>5 DEF AddAndReduce
  <2>4. QED
    BY <1>3, <1>4, <2>2, <2>3, CallKeeps
<1>6. ASSUME SubFrom_c(x) PROVE ResidueInv'
  <2>1. register \in ReducedRange("c") /\ x \in ReducedRange("c")
    BY <1>1, <1>6 DEF SubFrom_c
  <2>2. Right(SubAndReduce_c(x, register), x - register, "c")
    BY <2>1, Sub_c_Right
  <2>3. Returns(SubAndReduce_c(x, register), x - residue, "c")
    BY <1>6 DEF SubFrom_c
  <2>4. QED
    BY <1>3, <1>4, <2>2, <2>3, CallKeeps
<1>7. ASSUME SubFrom_b(x) PROVE ResidueInv'
  <2>1. register \in ReducedRange("b") /\ x \in ReducedRange("b")
    BY <1>1, <1>7 DEF SubFrom_b
  <2>2. Right(SubAndReduce_b(x, register), x - register, "b")
    BY <2>1, Sub_b_Right
  <2>3. Returns(SubAndReduce_b(x, register), x - residue, "b")
    BY <1>7 DEF SubFrom_b
  <2>4. QED
    BY <1>3, <1>4, <2>2, <2>3, CallKeeps
<1>8. ASSUME AddEq(x) PROVE ResidueInv'
  <2>1. Right(AddEqAndReduce_a(register, x), register + x, "a")
    BY <1>1, <1>2, AddEq_Right
  <2>2. Returns(AddEqAndReduce_a(register, x), residue + x, "a")
    BY <1>8 DEF AddEq
  <2>3. QED
    BY <1>3, <1>4, <2>1, <2>2, CallKeeps
<1>9. ASSUME SubEq(x) PROVE ResidueInv'
  <2>1. Right(SubEqAndReduce_a(register, x), register - x, "a")
    BY <1>1, <1>2, SubEq_Right
  <2>2. Returns(SubEqAndReduce_a(register, x), residue - x, "a")
    BY <1>9 DEF SubEq
  <2>3. QED
    BY <1>3, <1>4, <2>1, <2>2, CallKeeps
<1>10. QED
  BY <1>5, <1>6, <1>7, <1>8, <1>9

LEMMA ProductsKeep ==
  ASSUME ResidueInv, NEW x \in Operands
  PROVE  (MulEq(x) => ResidueInv') /\ (MulMontgomery(x) => ResidueInv')
<1> DEFINE J == InverseOfTwo256
           y == x * J
           r == y % M
<1>1. /\ register \in Uints /\ register \in Int /\ residue \in Int /\ Cong(register, residue)
      /\ \A q \in {"a", "b", "c", "f"} : Promised(q) => register \in ReducedRange(q)
  BY RegisterFacts
<1>2. x \in Uints /\ x \in Int /\ M \in Nat \ {0} /\ J \in Int
  <2>1. Uints = 0 .. Two256 - 1 /\ Two256 \in Nat
    BY Constants DEF Uints
  <2>2. M \in Nat \ {0} /\ J \in 0 .. M - 1
    BY Modulus, InverseOfTwo256_Right
  <2> HIDE DEF M
  <2>3. QED
    BY <2>1, <2>2, OperandsAssumption
<1> HIDE DEF J, M
<1>3. y \in Int
  BY <1>2
<1>4. r \in Int /\ Cong(y, r)
  <2> HIDE DEF y
  <2>1. y % M \in 0 .. M - 1 /\ Cong(y, y % M)
    BY <1>3, CongOfMod
  <2>2. QED
    BY <1>2, <2>1
<1> HIDE DEF y, r
<1>5. /\ Cong(register * x, residue * x) /\ Cong(register * y, residue * r)
  BY <1>1, <1>2, <1>3, <1>4, CongProduct, CongShifts
<1>6. /\ register * x \in Int /\ residue * x \in Int /\ register * y \in Int /\ residue * r \in Int
  BY <1>1, <1>2, <1>3, <1>4
<1>7. ASSUME MulEq(x) PROVE ResidueInv'
  <2>1. Right(MulAndReduce_a(register, x), register * x, "a")
    BY <1>1, <1>2, MulEq_Right
  <2>2. Returns(MulAndReduce_a(register, x), residue * x, "a")
    BY <1>7 DEF MulEq
  <2>3. QED
    BY <1>5, <1>6, <2>1, <2>2, CallKeeps
<1>8. ASSUME MulMontgomery(x) PROVE ResidueInv'
  <2>1. register \in ReducedRange("c")
    BY <1>1, <1>8 DEF MulMontgomery
  <2>2. /\ Right(mulMontgomery_Unrolled_c(register, x), register * y, "c")
        /\ Right(mulMontgomerySlow_c(register, x), register * y, "c")
    BY <1>2, <2>1, mulMontgomery_Right DEF y, J
  <2>3. \/ Returns(mulMontgomery_Unrolled_c(register, x), residue * r, "c")
        \/ Returns(mulMontgomerySlow_c(register, x), residue * r, "c")
    BY <1>8 DEF MulMontgomery, r, y, J
  <2>4. CASE Returns(mulMontgomery_Unrolled_c(register, x), residue * r, "c")
    BY <1>5, <1>6, <2>2, <2>4, CallKeeps
  <2>5. CASE Returns(mulMontgomerySlow_c(register, x), residue * r, "c")
    BY <1>5, <1>6, <2>2, <2>5, CallKeeps
  <2>6. QED
    BY <2>3, <2>4, <2>5
<1>9. QED
  BY <1>7, <1>8

LEMMA ReductionsKeep ==
  ASSUME ResidueInv
  PROVE  /\ DoubleEq => ResidueInv'
         /\ Negate => ResidueInv'
         /\ ReduceToFull => ResidueInv'
         /\ ReduceToCarryFree => ResidueInv'
<1>1. /\ register \in Uints /\ register \in Int /\ residue \in Int /\ Cong(register, residue)
      /\ Promised("b") => register < 2 * M
  BY RegisterFacts
<1>2. /\ 2 * register \in Int /\ 2 * residue \in Int /\ -register \in Int /\ -residue \in Int
      /\ 0 - register = -register /\ 0 - residue = -residue
  BY <1>1
<1>3. Cong(2 * register, 2 * residue) /\ Cong(-register, -residue)
  <2>1. Cong(2, 2) /\ Cong(0, 0)
    BY CongShifts
  <2>2. Cong(2 * register, 2 * residue)
    BY <1>1, <2>1, CongProduct
  <2>3. Cong(0 - register, 0 - residue)
    BY <1>1, <2>1, CongSum
  <2>4. QED
    BY <1>2, <2>2, <2>3
<1>4. ASSUME DoubleEq PROVE ResidueInv'
  <2>1. Right(DoubleEqAndReduce_a(register), 2 * register, "a")
    BY <1>1, Double_Right
  <2>2. Returns(DoubleEqAndReduce_a(register), 2 * residue, "a")
    BY <1>4 DEF DoubleEq
  <2>3. QED
    BY <1>2, <1>3, <2>1, <2>2, CallKeeps
<1>5. ASSUME Negate PROVE ResidueInv'
  <2>1. Right(ComputeModularNegative_Weak_a(register), -register, "a")
    BY <1>1, Negative_Right
  <2>2. Returns(ComputeModularNegative_Weak_a(register), -residue, "a")
    BY <1>5 DEF Negate
  <2>3. QED
    BY <1>2, <1>3, <2>1, <2>2, CallKeeps
<1>6. ASSUME ReduceToFull PROVE ResidueInv'
  <2>1. \E v : Right(v, register, "f") /\ Returns(v, residue, "f")
    <3>1. CASE Returns(Reduce_fa_optimistic(register), residue, "f")
      BY <1>1, <3>1, Reduce_fa_optimistic_Right
    <3>2. CASE Returns(Reduce_fa_loop(register), residue, "f")
      BY <1>1, <3>2, Reduce_fa_loop_Right
    <3>3. CASE Returns(Reduce_fa_barret(register), residue, "f")
      BY <1>1, <3>3, Reduce_fa_barret_Right
    <3>4. CASE Promised("b") /\ Returns(Reduce_fb_exact(register), residue, "f")
      BY <1>1, <3>4, Reduce_fb_Right
    <3>5. CASE Promised("b") /\ Returns(Reduce_fb_optimistic(register), residue, "f")
      BY <1>1, <3>5, Reduce_fb_Right
    <3>6. QED
      BY <1>6, <3>1, <3>2, <3>3, <3>4, <3>5 DEF ReduceToFull
  <2>2. QED
    BY <1>1, <2>1, CallKeeps
<1>7. ASSUME ReduceToCarryFree PROVE ResidueInv'
  <2>1. Right(Reduce_ca(register), register, "c")
    BY <1>1, Reduce_ca_Right
  <2>2. Returns(Reduce_ca(register), residue, "c")
    BY <1>7 DEF ReduceToCarryFree
  <2>3. QED
    BY <1>1, <2>1, <2>2, CallKeeps
<1>8. QED
  BY <1>4, <1>5, <1>6, <1>7

LEMMA ConversionsKeep ==
  ASSUME ResidueInv
  PROVE  /\ \A p \in ReducedWide : ReduceWide(p) => ResidueInv'
         /\ FromMontgomery => ResidueInv'
         /\ ToMontgomery => ResidueInv'
<1> DEFINE J == InverseOfTwo256
           t == twoTo256ModBaseField
<1>1. /\ register \in Int /\ residue \in Int /\ Cong(register, residue)
      /\ \A q \in {"a", "b", "c", "f"} : Promised(q) => register \in ReducedRange(q)
  BY RegisterFacts
<1>2. J \in Int /\ t \in Int
  <2>1. M \in Nat \ {0} /\ J \in 0 .. M - 1 /\ Two256 \in Int
    BY Modulus, WordPowers, InverseOfTwo256_Right
  <2>2. Two256 % M \in 0 .. M - 1
    BY <2>1, CongOfMod
  <2> HIDE DEF M
  <2>3. QED
    BY <2>1, <2>2 DEF twoTo256ModBaseField
<1> HIDE DEF J, t
<1>3. /\ register * J \in Int /\ residue * J \in Int /\ register * t \in Int /\ residue * t \in Int
      /\ Cong(register * J, residue * J) /\ Cong(register * t, residue * t)
  <2>1. Cong(J, J) /\ Cong(t, t)
    BY <1>2, CongShifts
  <2>2. register * J \in Int /\ residue * J \in Int /\ register * t \in Int /\ residue * t \in Int
    BY <1>1, <1>2
  <2>3. QED
    BY <1>1, <1>2, <2>1, <2>2, CongProduct
<1>4. ASSUME NEW p \in ReducedWide, ReduceWide(p) PROVE ResidueInv'
  <2>1. PICK x \in Wide : p = <<x, ReduceUint512ToUint256_a(x)>>
    BY DEF ReducedWide
  <2>2. x \in Nat /\ x < Two256 * Two256
    <3>1. Two256 \in Nat
      BY Constants
    <3> HIDE DEF Two256
    <3>2. Two256 * Two256 \in Nat
      BY <3>1
    <3>3. QED
      BY <3>2, OperandsAssumption
  <2>3. Right(ReduceUint512ToUint256_a(x), x, "a") /\ Cong(x, x) /\ x \in Int
    BY <2>2, ReduceUint512_Right, CongShifts
  <2>4. Returns(ReduceUint512ToUint256_a(x), x, "a")
    BY <1>4, <2>1 DEF ReduceWide
  <2>5. QED
    BY <2>3, <2>4, CallKeeps
<1>5. ASSUME FromMontgomery PROVE ResidueInv'
  <2>1. register \in ReducedRange("c")
    BY <1>1, <1>5 DEF FromMontgomery
  <2>2. /\ Right(FromMontgomeryRepresentation_fc(register), register * J, "f")
        /\ Right(ToNonMontgomery_fc(register), register * J, "f")
    BY <2>1, FromMontgomery_Right DEF J
  <2>3. \/ Returns(FromMontgomeryRepresentation_fc(register), residue * J, "f")
        \/ Returns(ToNonMontgomery_fc(register), residue * J, "f")
    BY <1>5 DEF FromMontgomery, J
  <2>4. QED
    BY <1>3, <2>2, <2>3, CallKeeps
<1>6. ASSUME ToMontgomery PROVE ResidueInv'
  <2>1. register \in ReducedRange("c")
    BY <1>1, <1>6 DEF ToMontgomery
  <2>2. Right(ConvertToMontgomeryRepresentation_c(register), register * t, "c")
    BY <2>1, ToMontgomery_Right DEF t
  <2>3. Returns(ConvertToMontgomeryRepresentation_c(register), residue * t, "c")
    BY <1>6 DEF ToMontgomery, t
  <2>4. QED
    BY <1>3, <2>2, <2>3, CallKeeps
<1>7. QED
  BY <1>4, <1>5, <1>6

(* Whatever calls are made, the inductive invariant holds.                  *)
THEOREM ResiduesInvariance == ResiduesSpec => []ResidueInv
<1>1. ResiduesInit => ResidueInv
  BY ResiduesStart
<1>2. ASSUME ResidueInv, ResiduesNext PROVE ResidueInv'
  <2>1. CASE \E x \in Operands : \/ \E q \in {"b", "c"} : AddAndReduce(q, x)
                                 \/ SubFrom_c(x) \/ SubFrom_b(x) \/ AddEq(x) \/ SubEq(x)
                                 \/ MulEq(x) \/ MulMontgomery(x)
    BY <1>2, <2>1, SumsKeep, ProductsKeep
  <2>2. CASE DoubleEq \/ Negate \/ ReduceToFull \/ ReduceToCarryFree
    BY <1>2, <2>2, ReductionsKeep
  <2>3. CASE (\E p \in ReducedWide : ReduceWide(p)) \/ FromMontgomery \/ ToMontgomery
    BY <1>2, <2>3, ConversionsKeep
  <2>4. QED
    BY <1>2, <2>1, <2>2, <2>3 DEF ResiduesNext
<1>3. ASSUME ResidueInv, UNCHANGED residueVars PROVE ResidueInv'
  BY <1>3 DEF ResidueInv, ResidueTracked, residueVars
<1>4. ResidueInv /\ [ResiduesNext]_residueVars => ResidueInv'
  BY <1>2, <1>3
<1>5. QED
  BY <1>1, <1>4, PTL DEF ResiduesSpec

(* Whatever calls are made within their documented ranges, for words of any *)
(* size and any modulus that fits them, the register stands for the residue *)
(* the calls document and lies in the range they promise.                   *)
THEOREM ResiduesTracked == ResiduesSpec => []ResidueTracked
<1>1. ResidueInv => ResidueTracked
  BY DEF ResidueInv
<1>2. QED
  BY <1>1, ResiduesInvariance, PTL
=============================================================================
