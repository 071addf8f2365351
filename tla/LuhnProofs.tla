----------------------------- MODULE LuhnProofs -----------------------------
(***************************************************************************)
(* Proofs that the check of an order number is Luhn's algorithm and        *)
(* notices mistyped and swapped digits, for numbers of any length.         *)
(*                                                                         *)
(* The code reads the digits of a number one after the other; the          *)
(* algorithm is stated about the digit at a position. DigitsAre relates    *)
(* them, and Sum is what both add up.                                      *)
(***************************************************************************)
EXTENDS Luhn, InductionFacts

-----------------------------------------------------------------------------
(* Division *)

\* A number is its quotient, its divisor and its remainder.
LEMMA Divided ==
  ASSUME NEW a \in Int, NEW b \in Nat \ {0}
  PROVE  a \div b \in Int /\ a % b \in 0 .. b - 1 /\ a = b * (a \div b) + (a % b)
<1>1. a \div b \in Int /\ a % b \in Int
  OBVIOUS
<1>2. 0 <= a % b /\ a % b < b
  OBVIOUS
<1>3. a = b * (a \div b) + (a % b)
  OBVIOUS
<1> QED BY <1>1, <1>2, <1>3

\* Quotient and remainder are unique.
LEMMA DivisionIs ==
  ASSUME NEW a \in Int, NEW b \in Nat \ {0}, NEW q \in Int, NEW r \in 0 .. b - 1, a = b * q + r
  PROVE  a \div b = q /\ a % b = r
<1>1. PICK p \in Int, s \in 0 .. b - 1 : a \div b = p /\ a % b = s /\ a = b * p + s
  BY Divided
<1>2. b * (p - q) = r - s
  BY <1>1
<1>3. p - q \in Int /\ r - s < b /\ s - r < b
  BY <1>1
<1>4. ~(p - q >= 1)
  <2>1. \A d \in Int : d >= 1 => b * d >= b
    OBVIOUS
  <2> QED BY <1>1, <1>2, <1>3, <2>1
<1>5. ~(p - q <= -1)
  <2>1. \A d \in Int : d <= -1 => b * d <= -b
    OBVIOUS
  <2> QED BY <1>1, <1>2, <1>3, <2>1
<1>6. p = q
  BY <1>1, <1>4, <1>5
<1> QED BY <1>1, <1>2, <1>6

-----------------------------------------------------------------------------
(* Digits and powers of ten *)

\* The recursion of the digits.
LEMMA DigitsUnfold ==
  /\ NumberToDigitsReversed \in [Nat -> Seq(0 .. 9)]
  /\ \A n \in Nat :
       NumberToDigitsReversed[n]
         = IF n = 0 THEN <<>> ELSE <<n % 10>> \o NumberToDigitsReversed[n \div 10]
<1> DEFINE V == Seq(0 .. 9)
           step == [n \in Nat |-> [s \in V |-> <<n % 10>> \o s]]
           before == [n \in Nat |-> n \div 10]
           Solution(f) == f = [n \in Nat |-> IF n = 0 THEN <<>> ELSE <<n % 10>> \o f[n \div 10]]
<1>1. \A n \in Nat : n % 10 \in 0 .. 9 /\ n \div 10 \in Nat /\ (n # 0 => n \div 10 < n)
  OBVIOUS
<1>2. <<>> \in V /\ step \in [Nat -> [V -> V]]
  <2>1. ASSUME NEW n \in Nat, NEW s \in V PROVE <<n % 10>> \o s \in V
    <3>1. <<n % 10>> \in Seq(0 .. 9)
      BY <1>1
    <3> QED BY <3>1
  <2> QED BY <2>1
<1>3. before \in [Nat -> Nat] /\ \A n \in Nat \ {0} : before[n] < n
  BY <1>1
<1>4. PICK f \in [Nat -> V] : Defined(f, <<>>, step, before)
  <2> HIDE DEF V, step, before
  <2> QED BY <1>2, <1>3, Recursion
<1>5. ASSUME NEW n \in Nat, n # 0 PROVE step[n][f[before[n]]] = <<n % 10>> \o f[n \div 10]
  <2>1. before[n] = n \div 10 /\ f[n \div 10] \in V
    BY <1>1
  <2> HIDE DEF before, V
  <2> QED BY <2>1
<1>6. Solution(f)
  <2>1. \A n \in Nat : f[n] = IF n = 0 THEN <<>> ELSE <<n % 10>> \o f[n \div 10]
    <3> HIDE DEF step, before
    <3> QED BY <1>4, <1>5 DEF Defined
  <2>2. f = [n \in Nat |-> f[n]]
    <3> HIDE DEF V
    <3> QED OBVIOUS
  <2> QED BY <2>1, <2>2
<1>7. NumberToDigitsReversed = CHOOSE g : Solution(g)
  BY DEF NumberToDigitsReversed
<1>8. Solution(NumberToDigitsReversed)
  <2> HIDE DEF Solution
  <2> QED BY <1>6, <1>7
<1>9. \A n \in Nat :
        NumberToDigitsReversed[n]
          = IF n = 0 THEN <<>> ELSE <<n % 10>> \o NumberToDigitsReversed[n \div 10]
  BY <1>8
<1> DEFINE A == {n \in Nat : \A m \in 0 .. n : NumberToDigitsReversed[m] \in V}
<1>10. 0 \in A
  <2>1. NumberToDigitsReversed[0] = <<>>
    BY <1>9
  <2> HIDE DEF V
  <2> QED BY <1>2, <2>1
<1>11. ASSUME NEW n \in Nat, n \in A PROVE n + 1 \in A
  <2>1. (n + 1) \div 10 \in 0 .. n /\ (n + 1) % 10 \in 0 .. 9 /\ n + 1 \in Nat \ {0}
    OBVIOUS
  <2>2. NumberToDigitsReversed[(n + 1) \div 10] \in V
    BY <1>11, <2>1
  <2>3. NumberToDigitsReversed[n + 1]
          = <<(n + 1) % 10>> \o NumberToDigitsReversed[(n + 1) \div 10]
    BY <1>9, <2>1
  <2>4. \A d \in 0 .. 9, s \in V : <<d>> \o s \in V
    <3> SUFFICES ASSUME NEW d \in 0 .. 9, NEW s \in V PROVE <<d>> \o s \in V
      OBVIOUS
    <3>1. <<d>> \in Seq(0 .. 9)
      OBVIOUS
    <3> QED BY <3>1
  <2>5. NumberToDigitsReversed[n + 1] \in V
    <3> HIDE DEF V
    <3> QED BY <2>1, <2>2, <2>3, <2>4
  <2>6. \A m \in 0 .. n + 1 : m \in 0 .. n \/ m = n + 1
    OBVIOUS
  <2> HIDE DEF V
  <2> QED BY <1>11, <2>5, <2>6
<1>12. \A n \in Nat : n \in A
  <2> HIDE DEF A
  <2> QED BY <1>10, <1>11, NumberInduction
<1>13. \A n \in Nat : NumberToDigitsReversed[n] \in V
  <2> HIDE DEF V
  <2> QED BY <1>12
<1>14. NumberToDigitsReversed = [n \in Nat |-> NumberToDigitsReversed[n]]
  <2>1. \A g, h : g = [n \in Nat |-> h[n]] => g = [n \in Nat |-> g[n]]
    OBVIOUS
  <2> QED BY <1>8
<1> HIDE DEF V
<1>15. NumberToDigitsReversed \in [Nat -> V]
  BY <1>13, <1>14
<1> QED BY <1>9, <1>15 DEF V

\* The recursion of the powers of ten.
LEMMA PowersUnfold ==
  /\ Power10[0] = 1
  /\ \A i \in Nat : Power10[i + 1] = 10 * Power10[i] /\ Power10[i] \in Nat \ {0}
<1> DEFINE step == [i \in Nat |-> [p \in Nat |-> 10 * p]]
           before == [i \in Nat |-> IF i = 0 THEN 0 ELSE i - 1]
           Solution(f) == f = [i \in Nat |-> IF i = 0 THEN 1 ELSE 10 * f[i - 1]]
<1>1. 1 \in Nat /\ step \in [Nat -> [Nat -> Nat]]
  OBVIOUS
<1>2. before \in [Nat -> Nat] /\ \A i \in Nat \ {0} : before[i] < i
  OBVIOUS
<1>3. PICK f \in [Nat -> Nat] : Defined(f, 1, step, before)
  <2> HIDE DEF step, before
  <2> QED BY <1>1, <1>2, Recursion
<1>4. ASSUME NEW i \in Nat, i # 0 PROVE step[i][f[before[i]]] = 10 * f[i - 1]
  <2>1. before[i] = i - 1 /\ i - 1 \in Nat
    BY <1>4
  <2>2. f[i - 1] \in Nat
    BY <2>1
  <2> QED BY <2>1, <2>2
<1>5. Solution(f)
  <2>1. \A i \in Nat : f[i] = IF i = 0 THEN 1 ELSE 10 * f[i - 1]
    <3> HIDE DEF step, before
    <3> QED BY <1>3, <1>4 DEF Defined
  <2> QED BY <2>1
<1>6. Power10 = CHOOSE g : Solution(g)
  BY DEF Power10
<1>7. Solution(Power10)
  <2> HIDE DEF Solution
  <2> QED BY <1>5, <1>6
<1>8. Power10[0] = 1
  BY <1>7
<1>9. ASSUME NEW i \in Nat PROVE Power10[i + 1] = 10 * Power10[i]
  <2>1. i + 1 \in Nat /\ i + 1 # 0 /\ (i + 1) - 1 = i
    OBVIOUS
  <2>2. \A j \in Nat : Power10[j] = IF j = 0 THEN 1 ELSE 10 * Power10[j - 1]
    BY <1>7
  <2> QED BY <2>1, <2>2
<1> DEFINE A == {i \in Nat : Power10[i] \in Nat \ {0}}
<1>10. \A i \in Nat : i \in A
  <2>1. 0 \in A
    BY <1>8
  <2>2. ASSUME NEW i \in Nat, i \in A PROVE i + 1 \in A
    BY <1>9, <2>2
  <2> HIDE DEF A
  <2> QED BY <2>1, <2>2, NumberInduction
<1> QED BY <1>8, <1>9, <1>10

\* A digit is a digit: the last one is the remainder, the others are those of
\* the quotient.
LEMMA NextDigit ==
  ASSUME NEW n \in Nat
  PROVE  /\ Digit(n, 1) = n % 10 /\ n \div 10 \in Nat
         /\ \A i \in Nat \ {0} : /\ Digit(n, i) \in 0 .. 9
                                 /\ Digit(n, i + 1) = Digit(n \div 10, i)
<1>1. Digit(n, 1) = n % 10
  <2>1. 1 - 1 = 0 /\ n \div 1 = n
    OBVIOUS
  <2> QED BY <2>1, PowersUnfold DEF Digit
<1>2. ASSUME NEW i \in Nat \ {0}
      PROVE  Digit(n, i) \in 0 .. 9 /\ Digit(n, i + 1) = Digit(n \div 10, i)
  <2>1. i - 1 \in Nat /\ (i - 1) + 1 = i /\ (i + 1) - 1 = i
    OBVIOUS
  <2>2. PICK p \in Nat \ {0} : p = Power10[i - 1] /\ Power10[i] = 10 * p
    <3>1. Power10[(i - 1) + 1] = 10 * Power10[i - 1] /\ Power10[i - 1] \in Nat \ {0}
      BY <2>1, PowersUnfold
    <3> QED BY <2>1, <3>1
  <2>3. PICK c \in Nat \ {0}, m \in Nat : c = 10 * p /\ m = n \div 10
    OBVIOUS
  <2>4. n \div c = m \div p
    <3>1. PICK s \in 0 .. 9 : n = 10 * m + s
      BY <2>3
    <3>2. PICK q \in Int, r \in 0 .. p - 1 : m \div p = q /\ m = p * q + r
      BY Divided
    <3>3. PICK t \in 0 .. c - 1 : t = 10 * r + s
      BY <2>3
    <3>4. 10 * (p * q) = c * q
      BY <2>3
    <3>5. n = c * q + t
      BY <3>1, <3>2, <3>3, <3>4
    <3>6. n \div c = q
      BY <3>5, DivisionIs
    <3> QED BY <3>2, <3>6
  <2>5. Digit(n, i) = (n \div p) % 10 /\ Digit(n, i + 1) = (n \div c) % 10
    BY <2>1, <2>2, <2>3 DEF Digit
  <2>6. Digit(m, i) = (m \div p) % 10
    BY <2>2 DEF Digit
  <2>7. PICK d \in Int : d = n \div p
    OBVIOUS
  <2>8. Digit(n, i) \in 0 .. 9
    BY ONLY <2>5, <2>7
  <2> QED BY <2>3, <2>4, <2>5, <2>6, <2>8
<1>3. n \div 10 \in Nat
  OBVIOUS
<1> QED BY <1>1, <1>2, <1>3

\* The list of the digits of n is the digit at each position, and beyond it
\* there are only zeros.
DigitsRight(n) ==
  LET digits == NumberToDigitsReversed[n]
  IN  /\ Len(digits) \in Nat /\ (n # 0 => Len(digits) # 0)
      /\ \A i \in 1 .. Len(digits) : digits[i] = Digit(n, i)
      /\ \A i \in Nat \ {0} : i > Len(digits) => Digit(n, i) = 0

\* It is so for every number.
LEMMA DigitsAre == \A n \in Nat : DigitsRight(n)
<1> DEFINE A == {n \in Nat : \A m \in 0 .. n : DigitsRight(m)}
<1>1. DigitsRight(0)
  <2>1. NumberToDigitsReversed[0] = <<>> /\ Len(<<>>) = 0
    BY DigitsUnfold
  <2> DEFINE Z == {i \in Nat : Digit(0, i + 1) = 0}
  <2>2. 0 % 10 = 0 /\ 0 \div 10 = 0
    OBVIOUS
  <2>3. 0 \in Z
    BY <2>2, NextDigit
  <2>4. ASSUME NEW i \in Nat, i \in Z PROVE i + 1 \in Z
    <3>1. Digit(0, (i + 1) + 1) = Digit(0, i + 1)
      BY <2>2, NextDigit
    <3> QED BY <2>4, <3>1
  <2>5. \A i \in Nat : i \in Z
    <3> HIDE DEF Z
    <3> QED BY <2>3, <2>4, NumberInduction
  <2>6. ASSUME NEW i \in Nat \ {0} PROVE Digit(0, i) = 0
    <3>1. i - 1 \in Z /\ (i - 1) + 1 = i
      <4>1. i - 1 \in Nat /\ (i - 1) + 1 = i
        OBVIOUS
      <4> HIDE DEF Z
      <4> QED BY <2>5, <4>1
    <3> QED BY <3>1
  <2> QED BY <2>1, <2>6 DEF DigitsRight
<1>2. ASSUME NEW n \in Nat \ {0}, DigitsRight(n \div 10) PROVE DigitsRight(n)
  <2> DEFINE rest == NumberToDigitsReversed[n \div 10]
             all == NumberToDigitsReversed[n]
  <2>1. all = <<n % 10>> \o rest
    BY DigitsUnfold
  <2>2. n \div 10 \in Nat /\ n % 10 \in 0 .. 9
    OBVIOUS
  <2>3. rest \in Seq(0 .. 9) /\ <<n % 10>> \in Seq(0 .. 9) /\ Len(<<n % 10>>) = 1
    BY <2>2, DigitsUnfold
  <2>4. /\ Len(rest) \in Nat /\ Len(all) = 1 + Len(rest)
        /\ all[1] = n % 10
        /\ \A i \in 2 .. Len(all) : all[i] = rest[i - 1]
    <3> HIDE DEF rest, all
    <3>1. Len(rest) \in Nat /\ Len(all) = 1 + Len(rest)
      BY <2>1, <2>3
    <3>2. all[1] = n % 10
      BY <2>1, <2>3
    <3>3. ASSUME NEW i \in 2 .. Len(all) PROVE all[i] = rest[i - 1]
      BY <2>1, <2>3, <3>1
    <3> QED BY <3>1, <3>2, <3>3
  <2>5. ASSUME NEW i \in Nat, i >= 2 PROVE Digit(n, i) = Digit(n \div 10, i - 1) /\ i - 1 \in Nat \ {0}
    <3>1. i - 1 \in Nat \ {0} /\ (i - 1) + 1 = i
      BY <2>5
    <3>2. Digit(n, (i - 1) + 1) = Digit(n \div 10, i - 1)
      BY <3>1, NextDigit
    <3> QED BY <3>1, <3>2
  <2>6. /\ \A i \in 1 .. Len(rest) : rest[i] = Digit(n \div 10, i)
        /\ \A i \in Nat \ {0} : i > Len(rest) => Digit(n \div 10, i) = 0
    BY <1>2 DEF DigitsRight
  <2> HIDE DEF rest, all
  <2>7. ASSUME NEW i \in 1 .. Len(all) PROVE all[i] = Digit(n, i)
    <3>1. CASE i = 1
      BY <2>4, <3>1, NextDigit
    <3>2. CASE i # 1
      <4>1. i \in 2 .. Len(all) /\ i - 1 \in 1 .. Len(rest)
        BY <2>4, <3>2
      <4>2. all[i] = rest[i - 1] /\ Digit(n, i) = Digit(n \div 10, i - 1)
        BY <2>4, <2>5, <4>1
      <4> QED BY <2>6, <4>1, <4>2
    <3> QED BY <3>1, <3>2
  <2>8. ASSUME NEW i \in Nat \ {0}, i > Len(all) PROVE Digit(n, i) = 0
    <3>1. i >= 2 /\ i - 1 > Len(rest)
      BY <2>4, <2>8
    <3> QED BY <2>5, <2>6, <3>1
  <2>9. Len(all) \in Nat /\ Len(all) # 0
    BY <2>4
  <2> QED BY <2>7, <2>8, <2>9 DEF DigitsRight, all
<1>3. 0 \in A
  BY <1>1
<1>4. ASSUME NEW n \in Nat, n \in A PROVE n + 1 \in A
  <2>1. n + 1 \in Nat \ {0} /\ (n + 1) \div 10 \in 0 .. n
    OBVIOUS
  <2>2. DigitsRight(n + 1)
    BY <1>2, <1>4, <2>1
  <2>3. \A m \in 0 .. n + 1 : m \in 0 .. n \/ m = n + 1
    OBVIOUS
  <2> QED BY <1>4, <2>2, <2>3
<1>5. \A n \in Nat : n \in A
  <2> HIDE DEF A
  <2> QED BY <1>3, <1>4, NumberInduction
<1> QED BY <1>5

-----------------------------------------------------------------------------
(* Replacing a digit *)

\* WithDigit replaces the digit at a position and no other.
Replaced(n, i, d) ==
  LET m == WithDigit(n, i, d)
  IN  /\ m \in Nat /\ Digit(m, i) = d
      /\ \A j \in Nat \ {0} : j # i => Digit(m, j) = Digit(n, j)

\* At every position of every number.
LEMMA DigitReplaced == \A n \in Nat, i \in Nat \ {0}, d \in 0 .. 9 : Replaced(n, i, d)
<1> DEFINE A == {k \in Nat : \A n \in Nat, d \in 0 .. 9 : Replaced(n, k + 1, d)}
<1>1. ASSUME NEW n \in Nat, NEW d \in 0 .. 9 PROVE Replaced(n, 1, d)
  <2>1. PICK a \in Nat, r \in 0 .. 9 : a = n \div 10 /\ r = n % 10
    OBVIOUS
  <2>2. PICK m \in Nat : m = 10 * a + d
    OBVIOUS
  <2>3. Digit(n, 1) = r /\ Power10[1 - 1] = 1
    <3>1. 1 - 1 = 0
      OBVIOUS
    <3> QED BY <2>1, <3>1, NextDigit, PowersUnfold
  <2>4. WithDigit(n, 1, d) = m
    <3>1. WithDigit(n, 1, d) = n + (d - r) * 1
      BY <2>3 DEF WithDigit
    <3>2. n = 10 * a + r
      BY <2>1
    <3>3. n + (d - r) * 1 = m
      BY ONLY <2>2, <3>2, n \in Nat, a \in Nat, r \in 0 .. 9, d \in 0 .. 9
    <3> QED BY ONLY <3>1, <3>3
  <2>5. Digit(m, 1) = d /\ \A i \in Nat \ {0} : Digit(m, i + 1) = Digit(n, i + 1)
    <3>1. m % 10 = d /\ m \div 10 = a
      BY <2>2
    <3>2. Digit(m, 1) = d /\ \A i \in Nat \ {0} : Digit(m, i + 1) = Digit(a, i)
      BY <3>1, NextDigit
    <3>3. \A i \in Nat \ {0} : Digit(n, i + 1) = Digit(a, i)
      BY <2>1, NextDigit
    <3> QED BY <3>2, <3>3
  <2>6. ASSUME NEW j \in Nat \ {0}, j # 1 PROVE Digit(m, j) = Digit(n, j)
    <3>1. j - 1 \in Nat \ {0} /\ (j - 1) + 1 = j
      BY <2>6
    <3> QED BY <2>5, <3>1
  <2> QED BY <2>4, <2>5, <2>6 DEF Replaced
<1>2. 0 \in A
  BY <1>1
<1>3. ASSUME NEW k \in Nat, k \in A PROVE k + 1 \in A
  <2> SUFFICES ASSUME NEW n \in Nat, NEW d \in 0 .. 9 PROVE Replaced(n, (k + 1) + 1, d)
    OBVIOUS
  <2>1. PICK i \in Nat \ {0} : i = k + 1
    OBVIOUS
  <2>2. PICK a \in Nat, r \in 0 .. 9 : a = n \div 10 /\ r = n % 10
    OBVIOUS
  <2>3. Replaced(a, i, d)
    BY <1>3, <2>1
  <2>4. PICK b \in Nat : b = WithDigit(a, i, d)
    BY <2>3 DEF Replaced
  <2>5. PICK m \in Nat : m = 10 * b + r
    OBVIOUS
  <2>6. WithDigit(n, i + 1, d) = m
    <3>1. PICK p \in Nat : p = Power10[k] /\ Power10[k + 1] = 10 * p
      BY PowersUnfold
    <3>2. PICK c \in 0 .. 9 : c = Digit(a, i) /\ Digit(n, i + 1) = c
      BY <2>2, NextDigit
    <3>3. i - 1 = k /\ (i + 1) - 1 = k + 1
      BY <2>1
    <3>4. b = a + (d - c) * p
      BY <2>4, <3>1, <3>2, <3>3 DEF WithDigit
    <3>5. WithDigit(n, i + 1, d) = n + (d - c) * (10 * p)
      BY <3>1, <3>2, <3>3 DEF WithDigit
    <3>6. PICK x \in Int : x = (d - c) * p
      OBVIOUS
    <3>7. (d - c) * (10 * p) = 10 * x
      BY <3>6
    <3>8. b = a + x
      BY <3>4, <3>6
    <3>9. n + 10 * x = m
      <4>1. n = 10 * a + r
        BY <2>2
      <4> QED BY <2>5, <3>8, <4>1
    <3> QED BY ONLY <3>5, <3>7, <3>9
  <2>7. /\ Digit(m, 1) = Digit(n, 1)
        /\ \A j \in Nat \ {0} : /\ Digit(m, j + 1) = Digit(b, j)
                                /\ Digit(n, j + 1) = Digit(a, j)
    <3>1. m % 10 = r /\ m \div 10 = b
      BY <2>5
    <3> QED BY <2>2, <3>1, NextDigit
  <2>8. Digit(b, i) = d /\ \A j \in Nat \ {0} : j # i => Digit(b, j) = Digit(a, j)
    BY <2>3, <2>4 DEF Replaced
  <2>9. ASSUME NEW j \in Nat \ {0}, j # i + 1 PROVE Digit(m, j) = Digit(n, j)
    <3>1. CASE j = 1
      BY <2>7, <3>1
    <3>2. CASE j # 1
      <4>1. j - 1 \in Nat \ {0} /\ j - 1 # i /\ (j - 1) + 1 = j
        BY <2>9, <3>2
      <4> QED BY <2>7, <2>8, <4>1
    <3> QED BY <3>1, <3>2
  <2>10. Replaced(n, i + 1, d)
    BY <2>6, <2>7, <2>8, <2>9 DEF Replaced
  <2> QED BY <2>1, <2>10
<1>4. \A k \in Nat : k \in A
  <2> HIDE DEF A
  <2> QED BY <1>2, <1>3, NumberInduction
<1>5. ASSUME NEW n \in Nat, NEW i \in Nat \ {0}, NEW d \in 0 .. 9 PROVE Replaced(n, i, d)
  <2>1. i - 1 \in Nat /\ (i - 1) + 1 = i
    OBVIOUS
  <2> QED BY <1>4, <2>1
<1> QED BY <1>5

-----------------------------------------------------------------------------
(* The sum *)

\* What a digit adds to the sum of the algorithm.
ValueAt(d, i) == IF i % 2 = 1 THEN d ELSE ((2 * d) \div 10) + ((2 * d) % 10)
Values(n) == [i \in Nat \ {0} |-> ValueAt(Digit(n, i), i)]

\* The code's value of a digit is the algorithm's, a digit again.
LEMMA ValueOfDigit ==
  ASSUME NEW d \in 0 .. 9, NEW i \in Nat
  PROVE  MaybeDoubleDigit(d, i) = ValueAt(d, i) /\ ValueAt(d, i) \in 0 .. 9
<1>1. i % 2 = 1 \/ i % 2 = 0
  OBVIOUS
<1>2. CASE i % 2 = 1
  BY <1>2 DEF MaybeDoubleDigit, ValueAt
<1>3. CASE i % 2 = 0
  BY <1>3 DEF MaybeDoubleDigit, ValueAt, DoubleDigit
<1> QED BY <1>1, <1>2, <1>3

\* The sum of the algorithm is the sum of a function.
LEMMA ReferenceIs ==
  ASSUME NEW n \in Nat
  PROVE  Reference(n) <=> SumOf(Values(n), Positions(n)) % 10 = 0
<1> DEFINE S == Positions(n)
           h == Values(n)
           Value(i) == IF i % 2 = 1 THEN Digit(n, i)
                       ELSE ((2 * Digit(n, i)) \div 10) + ((2 * Digit(n, i)) % 10)
           Taken(g) == g = [s \in SUBSET S |->
                         IF s = {} THEN 0
                         ELSE Value(CHOOSE x \in s : TRUE) + g[s \ {CHOOSE x \in s : TRUE}]]
<1>1. Reference(n) <=> (CHOOSE g : Taken(g))[S] % 10 = 0
  BY DEF Reference, MapThenSumSet, MapThenFoldSet
<1>2. IsFiniteSet(S) /\ S \subseteq Nat \ {0}
  <2>1. PICK k \in Nat : k = Len(NumberToDigitsReversed[n])
    BY DigitsAre DEF DigitsRight
  <2>2. 1 .. k \subseteq Nat \ {0} /\ IsFiniteSet(1 .. k)
    BY FS_Interval
  <2> QED BY <2>1, <2>2 DEF Positions
<1>3. ASSUME NEW g PROVE Taken(g) <=> Totals(h, S, g)
  <2>1. ASSUME NEW s \in SUBSET S
        PROVE  Total(h, g, s)
                 = IF s = {} THEN 0
                   ELSE Value(CHOOSE x \in s : TRUE) + g[s \ {CHOOSE x \in s : TRUE}]
    <3> HIDE DEF S
    <3>1. CASE s = {}
      BY <3>1 DEF Total
    <3>2. CASE s # {}
      <4>1. PICK x \in s : x = Chosen(s)
        BY <3>2, ChosenElement
      <4>2. x \in Nat \ {0}
        BY <1>2
      <4>3. h[x] = Value(x)
        BY <4>2 DEF Values, ValueAt
      <4>4. Total(h, g, s) = h[x] + g[s \ {x}]
        BY <3>2, <4>1 DEF Total
      <4>5. x = CHOOSE y \in s : TRUE
        BY <4>1 DEF Chosen
      <4> HIDE DEF Value, h
      <4> QED BY <3>2, <4>3, <4>4, <4>5
    <3> QED BY <3>1, <3>2
  <2> QED BY <2>1 DEF Totals
<1>4. PICK g : Totals(h, S, g)
  <2> HIDE DEF h, S
  <2> QED BY <1>2, TotalsExist
<1>5. Taken(CHOOSE f : Taken(f))
  <2> HIDE DEF Taken, S, h
  <2>1. \E f : Taken(f)
    BY <1>3, <1>4
  <2> QED BY <2>1
<1>6. Totals(h, S, CHOOSE f : Taken(f))
  BY <1>3, <1>5
<1> HIDE DEF Taken, S
<1>7. SumOf(h, S) = (CHOOSE f : Taken(f))[S]
  BY <1>2, <1>6, SumOfIs
<1> QED BY <1>1, <1>7 DEF S

\* So is the one the code computes, of all digits but the last.
LEMMA CheckDigitIs ==
  ASSUME NEW n \in Nat
  PROVE  CheckDigit(NumberToDigitsReversed[n])
           = (10 - (SumOf(Values(n), 2 .. Len(NumberToDigitsReversed[n])) % 10)) % 10
<1> DEFINE digits == NumberToDigitsReversed[n]
           S == 2 .. Len(digits)
           h == Values(n)
           Taken(g) == g = [s \in SUBSET S |->
                         IF s = {} THEN 0
                         ELSE MaybeDoubleDigit(digits[CHOOSE x \in s : TRUE], CHOOSE x \in s : TRUE)
                                + g[s \ {CHOOSE x \in s : TRUE}]]
<1>1. CheckDigit(digits) = (10 - ((CHOOSE g : Taken(g))[S] % 10)) % 10
  BY DEF CheckDigit, MapThenSumSet, MapThenFoldSet
<1>2. IsFiniteSet(S) /\ \A x \in S : x \in Nat \ {0} /\ MaybeDoubleDigit(digits[x], x) = h[x]
  <2>1. PICK k \in Nat : k = Len(digits)
    BY DigitsAre DEF DigitsRight
  <2>2. IsFiniteSet(2 .. k)
    BY FS_Interval
  <2>3. ASSUME NEW x \in 2 .. k
        PROVE  x \in Nat \ {0} /\ MaybeDoubleDigit(digits[x], x) = h[x]
    <3>1. x \in Nat \ {0} /\ x \in 1 .. k
      OBVIOUS
    <3>2. digits[x] = Digit(n, x)
      BY <2>1, <3>1, DigitsAre DEF DigitsRight
    <3>3. Digit(n, x) \in 0 .. 9
      BY <3>1, NextDigit
    <3>4. MaybeDoubleDigit(Digit(n, x), x) = ValueAt(Digit(n, x), x)
      BY <3>1, <3>3, ValueOfDigit
    <3> QED BY <3>1, <3>2, <3>4 DEF Values
  <2> QED BY <2>1, <2>2, <2>3
<1>3. ASSUME NEW g PROVE Taken(g) <=> Totals(h, S, g)
  <2>1. ASSUME NEW s \in SUBSET S
        PROVE  Total(h, g, s)
                 = IF s = {} THEN 0
                   ELSE MaybeDoubleDigit(digits[CHOOSE x \in s : TRUE], CHOOSE x \in s : TRUE)
                          + g[s \ {CHOOSE x \in s : TRUE}]
    <3> HIDE DEF S, digits
    <3>1. CASE s = {}
      BY <3>1 DEF Total
    <3>2. CASE s # {}
      <4>1. PICK x \in s : x = Chosen(s)
        BY <3>2, ChosenElement
      <4>2. Total(h, g, s) = h[x] + g[s \ {x}]
        BY <3>2, <4>1 DEF Total
      <4>3. h[x] = MaybeDoubleDigit(digits[x], x)
        BY <1>2
      <4>4. x = CHOOSE y \in s : TRUE
        BY <4>1 DEF Chosen
      <4> HIDE DEF h
      <4> QED BY <3>2, <4>2, <4>3, <4>4
    <3> QED BY <3>1, <3>2
  <2> QED BY <2>1 DEF Totals
<1>4. PICK g : Totals(h, S, g)
  <2> HIDE DEF h, S
  <2> QED BY <1>2, TotalsExist
<1>5. Taken(CHOOSE f : Taken(f))
  <2> HIDE DEF Taken, S, h
  <2>1. \E f : Taken(f)
    BY <1>3, <1>4
  <2> QED BY <2>1
<1>6. Totals(h, S, CHOOSE f : Taken(f))
  BY <1>3, <1>5
<1> HIDE DEF Taken, S
<1>7. SumOf(h, S) = (CHOOSE f : Taken(f))[S]
  BY <1>2, <1>6, SumOfIs
<1> QED BY <1>1, <1>7 DEF S

\* The values are digits, so their sums are numbers.
LEMMA ValuesTyped ==
  ASSUME NEW n \in Nat
  PROVE  /\ \A i \in Nat \ {0} : /\ Values(n)[i] = ValueAt(Digit(n, i), i)
                                 /\ Values(n)[i] \in 0 .. 9
         /\ \A S \in SUBSET (Nat \ {0}) : IsFiniteSet(S) => SumOf(Values(n), S) \in Nat
<1>1. ASSUME NEW i \in Nat \ {0}
      PROVE  Values(n)[i] = ValueAt(Digit(n, i), i) /\ Values(n)[i] \in 0 .. 9
  <2>1. Digit(n, i) \in 0 .. 9
    BY NextDigit
  <2>2. ValueAt(Digit(n, i), i) \in 0 .. 9
    BY <2>1, ValueOfDigit
  <2> QED BY <2>2 DEF Values
<1>2. ASSUME NEW S \in SUBSET (Nat \ {0}), IsFiniteSet(S) PROVE SumOf(Values(n), S) \in Nat
  <2>1. \A i \in S : Values(n)[i] \in Nat
    BY <1>1
  <2> QED BY <1>2, <2>1, SumOfNat
<1> QED BY <1>1, <1>2

\* The sum over the first k positions.
Sum(n, k) == SumOf(Values(n), 1 .. k)

\* Positions beyond the last digit add nothing.
LEMMA SumPadded ==
  ASSUME NEW n \in Nat, NEW k \in Nat, k >= Len(NumberToDigitsReversed[n])
  PROVE  Sum(n, k) = Sum(n, Len(NumberToDigitsReversed[n]))
<1>1. PICK len \in Nat : len = Len(NumberToDigitsReversed[n])
  BY DigitsAre DEF DigitsRight
<1> DEFINE A == {j \in Nat : Sum(n, len + j) = Sum(n, len)}
<1>2. 0 \in A
  OBVIOUS
<1>3. ASSUME NEW j \in Nat, j \in A PROVE j + 1 \in A
  <2>1. PICK m \in Nat : m = len + j
    OBVIOUS
  <2>2. 1 .. m + 1 = (1 .. m) \cup {m + 1} /\ m + 1 \notin 1 .. m /\ 1 .. m \subseteq Nat \ {0}
    OBVIOUS
  <2>3. IsFiniteSet(1 .. m)
    BY FS_Interval
  <2>4. Values(n)[m + 1] = 0
    <3>1. m + 1 \in Nat \ {0} /\ m + 1 > len
      BY <2>1
    <3>2. Digit(n, m + 1) = 0
      BY <1>1, <3>1, DigitsAre DEF DigitsRight
    <3>3. \A i \in Nat : ValueAt(0, i) = 0
      BY DEF ValueAt
    <3> QED BY <3>1, <3>2, <3>3, ValuesTyped
  <2>5. \A i \in (1 .. m) \cup {m + 1} : Values(n)[i] \in Nat
    <3>1. \A i \in (1 .. m) \cup {m + 1} : i \in Nat \ {0}
      OBVIOUS
    <3>2. \A i \in Nat \ {0} : Values(n)[i] \in Nat
      BY ValuesTyped
    <3> QED BY <3>1, <3>2
  <2>6. SumOf(Values(n), (1 .. m) \cup {m + 1}) = Values(n)[m + 1] + SumOf(Values(n), 1 .. m)
    BY <2>2, <2>3, <2>5, SumOfAdded
  <2>7. SumOf(Values(n), 1 .. m) \in Nat
    BY <2>2, <2>3, ValuesTyped
  <2>8. Sum(n, m + 1) = Sum(n, m)
    <3>1. 0 + SumOf(Values(n), 1 .. m) = SumOf(Values(n), 1 .. m)
      BY <2>7
    <3>2. SumOf(Values(n), 1 .. m + 1) = 0 + SumOf(Values(n), 1 .. m)
      BY <2>2, <2>4, <2>6
    <3> QED BY <3>1, <3>2 DEF Sum
  <2>9. len + (j + 1) = m + 1
    BY <2>1
  <2> QED BY <1>3, <2>1, <2>8, <2>9
<1>4. k - len \in Nat /\ len + (k - len) = k
  BY <1>1
<1>5. k - len \in A
  <2>1. \A j \in Nat : j \in A
    <3> HIDE DEF A
    <3> QED BY <1>2, <1>3, NumberInduction
  <2> HIDE DEF A
  <2> QED BY <1>4, <2>1
<1> QED BY <1>1, <1>4, <1>5

\* The code accepts what makes the sum over all positions a multiple of ten.
LEMMA ValidateIs ==
  ASSUME NEW n \in Nat
  PROVE  Validate(n) = "ok" <=> n # 0 /\ Sum(n, Len(NumberToDigitsReversed[n])) % 10 = 0
<1>1. CASE n = 0
  BY <1>1 DEF Validate, ChecksumMatches
<1>2. CASE n # 0
  <2>1. PICK len \in Nat \ {0} : len = Len(NumberToDigitsReversed[n])
    BY <1>2, DigitsAre DEF DigitsRight
  <2>2. PICK d \in 0 .. 9 : /\ d = NumberToDigitsReversed[n][1]
                            /\ d = Values(n)[1]
    <3>1. NumberToDigitsReversed[n][1] = Digit(n, 1)
      <4>1. 1 \in 1 .. len
        OBVIOUS
      <4> QED BY <2>1, <4>1, DigitsAre DEF DigitsRight
    <3>2. 1 \in Nat \ {0} /\ 1 % 2 = 1
      OBVIOUS
    <3>3. Values(n)[1] = Digit(n, 1)
      BY <3>2, ValuesTyped DEF ValueAt
    <3> QED BY <3>1, <3>2, <3>3, NextDigit
  <2>3. PICK rest \in Nat : rest = SumOf(Values(n), 2 .. len)
    <3>1. IsFiniteSet(2 .. len) /\ 2 .. len \in SUBSET (Nat \ {0})
      BY FS_Interval
    <3> QED BY <3>1, ValuesTyped
  <2>4. Sum(n, len) = d + rest
    <3>1. (1 .. len) \ {1} = 2 .. len /\ 1 \in 1 .. len /\ 1 .. len \subseteq Nat \ {0}
      OBVIOUS
    <3>2. IsFiniteSet(1 .. len)
      BY FS_Interval
    <3>3. \A i \in 1 .. len : Values(n)[i] \in Nat
      BY <3>1, ValuesTyped
    <3>4. SumOf(Values(n), 1 .. len) = Values(n)[1] + SumOf(Values(n), (1 .. len) \ {1})
      BY <3>1, <3>2, <3>3, SumOfElement
    <3> QED BY <2>2, <2>3, <3>1, <3>4 DEF Sum
  <2>5. Validate(n) = "ok" <=> d = (10 - (rest % 10)) % 10
    BY <1>2, <2>1, <2>2, <2>3, CheckDigitIs DEF Validate, ChecksumMatches
  <2>6. d = (10 - (rest % 10)) % 10 <=> (d + rest) % 10 = 0
    OBVIOUS
  <2> QED BY <1>2, <2>1, <2>4, <2>5, <2>6
<1> QED BY <1>1, <1>2

-----------------------------------------------------------------------------
(* Mistakes *)

\* At one position different digits have different values.
LEMMA ValuesDiffer ==
  ASSUME NEW i \in Nat, NEW d \in 0 .. 9, NEW e \in 0 .. 9, d # e
  PROVE  ValueAt(d, i) # ValueAt(e, i)
<1>1. CASE i % 2 = 1
  BY <1>1 DEF ValueAt
<1>2. CASE i % 2 # 1
  BY <1>2 DEF ValueAt
<1> QED BY <1>1, <1>2

\* Exchanged with its neighbour, a digit changes the sum, unless one is 0 and the
\* other 9.
LEMMA SwapDiffers ==
  ASSUME NEW i \in Nat \ {0}, NEW a \in 0 .. 9, NEW b \in 0 .. 9, a # b, {a, b} # {0, 9},
         NEW rest \in Nat, (ValueAt(a, i + 1) + ValueAt(b, i) + rest) % 10 = 0
  PROVE  (ValueAt(b, i + 1) + ValueAt(a, i) + rest) % 10 # 0
<1> DEFINE Twice(d) == ((2 * d) \div 10) + ((2 * d) % 10)
<1>0. ~(a = 0 /\ b = 9) /\ ~(a = 9 /\ b = 0)
  OBVIOUS
<1>1. CASE i % 2 = 1
  <2>1. (i + 1) % 2 # 1
    BY <1>1
  <2>2. \A d, e : ValueAt(d, i + 1) + ValueAt(e, i) = Twice(d) + e
    BY <1>1, <2>1 DEF ValueAt
  <2>3. (Twice(a) + b + rest) % 10 = 0
    BY <2>2
  <2>4. (Twice(b) + a + rest) % 10 # 0
    BY <1>0, <2>3
  <2> QED BY <2>2, <2>4
<1>2. CASE i % 2 # 1
  <2>1. (i + 1) % 2 = 1
    BY <1>2
  <2>2. \A d, e : ValueAt(d, i + 1) + ValueAt(e, i) = d + Twice(e)
    BY <1>2, <2>1 DEF ValueAt
  <2>3. (a + Twice(b) + rest) % 10 = 0
    BY <2>2
  <2>4. (b + Twice(a) + rest) % 10 # 0
    BY <1>0, <2>3
  <2> QED BY <2>2, <2>4
<1> QED BY <1>1, <1>2

\* The sums of two numbers can be taken over the same positions.
LEMMA CommonLength ==
  ASSUME NEW n \in Nat, NEW m \in Nat, NEW i \in Positions(n)
  PROVE  \E k \in Nat : /\ i \in 1 .. k
                        /\ Sum(n, k) = Sum(n, Len(NumberToDigitsReversed[n]))
                        /\ Sum(m, k) = Sum(m, Len(NumberToDigitsReversed[m]))
<1>1. PICK a \in Nat, b \in Nat : /\ a = Len(NumberToDigitsReversed[n])
                                  /\ b = Len(NumberToDigitsReversed[m])
  BY DigitsAre DEF DigitsRight
<1>2. a + b \in Nat /\ a + b >= a /\ a + b >= b /\ i \in 1 .. a + b
  <2>1. i \in 1 .. a
    BY <1>1 DEF Positions
  <2> QED BY <2>1
<1>3. Sum(n, a + b) = Sum(n, a) /\ Sum(m, a + b) = Sum(m, b)
  BY <1>1, <1>2, SumPadded
<1> QED BY <1>1, <1>2, <1>3

\* A mistyped digit makes an accepted number one that is refused.
LEMMA MistypedRefused ==
  ASSUME NEW n \in Nat, Validate(n) = "ok",
         NEW i \in Positions(n), NEW d \in 0 .. 9, d # Digit(n, i)
  PROVE  Validate(WithDigit(n, i, d)) # "ok"
<1>1. i \in Nat \ {0}
  BY DigitsAre DEF DigitsRight, Positions
<1>2. Replaced(n, i, d)
  BY <1>1, DigitReplaced
<1>3. PICK m \in Nat : m = WithDigit(n, i, d)
  BY <1>2 DEF Replaced
<1>4. Digit(m, i) = d /\ \A j \in Nat \ {0} : j # i => Digit(m, j) = Digit(n, j)
  BY <1>2, <1>3 DEF Replaced
<1>5. PICK k \in Nat : /\ i \in 1 .. k
                       /\ Sum(n, k) = Sum(n, Len(NumberToDigitsReversed[n]))
                       /\ Sum(m, k) = Sum(m, Len(NumberToDigitsReversed[m]))
  BY CommonLength
<1> DEFINE Others == (1 .. k) \ {i}
<1>6. IsFiniteSet(1 .. k) /\ IsFiniteSet(Others) /\ 1 .. k \in SUBSET (Nat \ {0})
  <2>1. IsFiniteSet(1 .. k)
    BY FS_Interval
  <2>2. Others \in SUBSET (1 .. k) /\ 1 .. k \in SUBSET (Nat \ {0})
    OBVIOUS
  <2> HIDE DEF Others
  <2> QED BY <2>1, <2>2, FS_Subset
<1>7. ASSUME NEW x \in 1 .. k PROVE Values(n)[x] \in Nat /\ Values(m)[x] \in Nat
  <2>1. x \in Nat \ {0}
    OBVIOUS
  <2> QED BY <2>1, ValuesTyped
<1>8. /\ Sum(n, k) = Values(n)[i] + SumOf(Values(n), Others)
      /\ Sum(m, k) = Values(m)[i] + SumOf(Values(m), Others)
  BY <1>5, <1>6, <1>7, SumOfElement DEF Sum
<1>9. SumOf(Values(m), Others) = SumOf(Values(n), Others)
  <2>1. ASSUME NEW x \in Others PROVE Values(m)[x] = Values(n)[x]
    <3>1. x \in Nat \ {0} /\ x # i
      BY <1>6
    <3> QED BY <1>4, <3>1, ValuesTyped
  <2> HIDE DEF Others
  <2> QED BY <1>6, <2>1, SumOfSame
<1>10. PICK rest \in Nat : rest = SumOf(Values(n), Others)
  <2>1. Others \in SUBSET (Nat \ {0})
    BY <1>6
  <2> HIDE DEF Others
  <2> QED BY <1>6, <2>1, ValuesTyped
<1>11. PICK v \in 0 .. 9, w \in 0 .. 9 : v = Values(n)[i] /\ w = Values(m)[i] /\ v # w
  <2>1. Digit(n, i) \in 0 .. 9
    BY <1>1, NextDigit
  <2>2. ValueAt(d, i) # ValueAt(Digit(n, i), i)
    BY <1>1, <2>1, ValuesDiffer
  <2> QED BY <1>1, <1>4, <2>2, ValuesTyped
<1>12. (v + rest) % 10 = 0
  BY <1>5, <1>8, <1>10, <1>11, ValidateIs
<1>13. (w + rest) % 10 # 0
  <2>1. v # w /\ v \in 0 .. 9 /\ w \in 0 .. 9 /\ rest \in Nat
    BY <1>11
  <2> QED BY ONLY <1>12, <2>1
<1>14. Sum(m, Len(NumberToDigitsReversed[m])) % 10 # 0
  BY <1>5, <1>8, <1>9, <1>10, <1>11, <1>13
<1> QED BY <1>3, <1>14, ValidateIs

\* So do two digits that change places.
LEMMA SwappedRefused ==
  ASSUME NEW n \in Nat, Validate(n) = "ok", NEW i \in Positions(n) \ {1},
         Digit(n, i) # Digit(n, i - 1), {Digit(n, i), Digit(n, i - 1)} # {0, 9}
  PROVE  Validate(WithDigit(WithDigit(n, i, Digit(n, i - 1)), i - 1, Digit(n, i))) # "ok"
<1>1. PICK j \in Nat \ {0} : j = i - 1 /\ i = j + 1 /\ i \in Nat \ {0} /\ i # j
  <2>1. i \in Nat \ {0, 1}
    BY DigitsAre DEF DigitsRight, Positions
  <2> QED BY <2>1
<1>2. PICK a \in 0 .. 9, b \in 0 .. 9 :
        a = Digit(n, i) /\ b = Digit(n, j) /\ a # b /\ {a, b} # {0, 9}
  BY <1>1, NextDigit
<1>3. PICK l \in Nat : /\ l = WithDigit(n, i, b) /\ Digit(l, i) = b
                       /\ \A x \in Nat \ {0} : x # i => Digit(l, x) = Digit(n, x)
  <2>1. Replaced(n, i, b)
    BY <1>1, DigitReplaced
  <2> QED BY <2>1 DEF Replaced
<1>4. PICK m \in Nat : /\ m = WithDigit(l, j, a) /\ Digit(m, j) = a
                       /\ \A x \in Nat \ {0} : x # j => Digit(m, x) = Digit(l, x)
  <2>1. Replaced(l, j, a)
    BY DigitReplaced
  <2> QED BY <2>1 DEF Replaced
<1>5. /\ Digit(m, i) = b /\ Digit(m, j) = a
      /\ \A x \in Nat \ {0} : x # i /\ x # j => Digit(m, x) = Digit(n, x)
  BY <1>1, <1>3, <1>4
<1>6. PICK k \in Nat : /\ i \in 1 .. k
                       /\ Sum(n, k) = Sum(n, Len(NumberToDigitsReversed[n]))
                       /\ Sum(m, k) = Sum(m, Len(NumberToDigitsReversed[m]))
  BY CommonLength
<1> DEFINE Rest == (1 .. k) \ {i}
           Others == Rest \ {j}
<1>7. /\ IsFiniteSet(1 .. k) /\ IsFiniteSet(Rest) /\ IsFiniteSet(Others)
      /\ 1 .. k \in SUBSET (Nat \ {0}) /\ j \in Rest
  <2>1. IsFiniteSet(1 .. k)
    BY FS_Interval
  <2>2. Rest \in SUBSET (1 .. k) /\ Others \in SUBSET (1 .. k) /\ 1 .. k \in SUBSET (Nat \ {0})
    OBVIOUS
  <2>3. j \in Rest
    BY <1>1, <1>6
  <2> HIDE DEF Rest, Others
  <2> QED BY <2>1, <2>2, <2>3, FS_Subset
<1>8. ASSUME NEW x \in 1 .. k PROVE Values(n)[x] \in Nat /\ Values(m)[x] \in Nat
  <2>1. x \in Nat \ {0}
    OBVIOUS
  <2> QED BY <2>1, ValuesTyped
<1>9. \A x \in Rest : Values(n)[x] \in Nat /\ Values(m)[x] \in Nat
  BY <1>8
<1>10. /\ Sum(n, k) = Values(n)[i] + SumOf(Values(n), Rest)
       /\ Sum(m, k) = Values(m)[i] + SumOf(Values(m), Rest)
  BY <1>6, <1>7, <1>8, SumOfElement DEF Sum
<1>11. /\ SumOf(Values(n), Rest) = Values(n)[j] + SumOf(Values(n), Others)
       /\ SumOf(Values(m), Rest) = Values(m)[j] + SumOf(Values(m), Others)
  <2> HIDE DEF Rest
  <2> QED BY <1>7, <1>9, SumOfElement
<1>12. SumOf(Values(m), Others) = SumOf(Values(n), Others)
  <2>1. ASSUME NEW x \in Others PROVE Values(m)[x] = Values(n)[x]
    <3>1. x \in Nat \ {0} /\ x # i /\ x # j
      BY <1>7
    <3> QED BY <1>5, <3>1, ValuesTyped
  <2> HIDE DEF Others
  <2> QED BY <1>7, <2>1, SumOfSame
<1>13. PICK rest \in Nat : rest = SumOf(Values(n), Others)
  <2>1. Others \in SUBSET (Nat \ {0})
    BY <1>7
  <2> HIDE DEF Others
  <2> QED BY <1>7, <2>1, ValuesTyped
<1>14. /\ Values(n)[i] = ValueAt(a, i) /\ Values(n)[j] = ValueAt(b, j)
       /\ Values(m)[i] = ValueAt(b, i) /\ Values(m)[j] = ValueAt(a, j)
  BY <1>1, <1>2, <1>5, ValuesTyped
<1>15. /\ ValueAt(a, i) \in 0 .. 9 /\ ValueAt(b, i) \in 0 .. 9
       /\ ValueAt(a, j) \in 0 .. 9 /\ ValueAt(b, j) \in 0 .. 9
  BY <1>1, ValueOfDigit
<1>16. /\ Sum(n, k) = ValueAt(a, i) + ValueAt(b, j) + rest
       /\ Sum(m, k) = ValueAt(b, i) + ValueAt(a, j) + rest
  <2> HIDE DEF Rest, Others
  <2> QED BY <1>10, <1>11, <1>12, <1>13, <1>14, <1>15
<1>17. (ValueAt(a, i) + ValueAt(b, j) + rest) % 10 = 0
  BY <1>6, <1>16, ValidateIs
<1>18. (ValueAt(b, i) + ValueAt(a, j) + rest) % 10 # 0
  <2>1. a # b /\ {a, b} # {0, 9}
    BY <1>2
  <2>2. (ValueAt(a, j + 1) + ValueAt(b, j) + rest) % 10 = 0
    BY <1>1, <1>17
  <2>3. (ValueAt(b, j + 1) + ValueAt(a, j) + rest) % 10 # 0
    BY <2>1, <2>2, SwapDiffers
  <2> QED BY <1>1, <2>3
<1>19. Sum(m, Len(NumberToDigitsReversed[m])) % 10 # 0
  BY <1>6, <1>16, <1>18
<1>20. Validate(m) # "ok"
  BY <1>19, ValidateIs
<1> QED BY <1>1, <1>2, <1>3, <1>4, <1>20

-----------------------------------------------------------------------------
(* The specification *)

\* The verdict is that of the number.
Judged == number \in Nat /\ verdict \in {"none", Validate(number)}

\* In every state.
LEMMA AlwaysJudged == Spec => []Judged
<1>1. Init => Judged
  BY LuhnAssumption DEF Init, Judged
<1>2. Judged /\ [Next]_vars => Judged'
  BY DEF Judged, Next, Check, vars
<1> QED BY <1>1, <1>2, PTL DEF Spec

\* The numbers accepted are those Luhn's algorithm accepts, and 0 is refused, for
\* numbers of any length.
THEOREM AcceptsThoseOfLuhn == Spec => []AcceptsLuhnNumbers
<1>1. Judged => AcceptsLuhnNumbers
  <2> SUFFICES ASSUME Judged, verdict # "none"
               PROVE  verdict = "ok" <=> number > 0 /\ Reference(number)
    BY DEF AcceptsLuhnNumbers
  <2>1. verdict = Validate(number) /\ number \in Nat
    BY DEF Judged
  <2>2. Reference(number) <=> Sum(number, Len(NumberToDigitsReversed[number])) % 10 = 0
    BY <2>1, ReferenceIs DEF Sum, Positions
  <2> QED BY <2>1, <2>2, ValidateIs
<1> QED BY <1>1, AlwaysJudged, PTL

\* One mistyped digit in an accepted number is noticed, in numbers of any length.
THEOREM NoticesMistypedDigit == Spec => []MistypedDigitNoticed
<1>1. Judged => MistypedDigitNoticed
  <2> SUFFICES ASSUME Judged, verdict = "ok",
                      NEW i \in Positions(number), NEW d \in 0 .. 9, d # Digit(number, i)
               PROVE  Validate(WithDigit(number, i, d)) # "ok"
    BY DEF MistypedDigitNoticed
  <2>1. Validate(number) = "ok" /\ number \in Nat
    BY DEF Judged
  <2> QED BY <2>1, MistypedRefused
<1> QED BY <1>1, AlwaysJudged, PTL

\* Two neighbouring digits that changed places are noticed, unless they are 0 and
\* 9, in numbers of any length.
THEOREM NoticesSwappedDigits == Spec => []SwappedDigitsNoticed
<1>1. Judged => SwappedDigitsNoticed
  <2> SUFFICES ASSUME Judged, verdict = "ok", NEW i \in Positions(number) \ {1},
                      Digit(number, i) # Digit(number, i - 1),
                      {Digit(number, i), Digit(number, i - 1)} # {0, 9}
               PROVE  Validate(WithDigit(WithDigit(number, i, Digit(number, i - 1)),
                                         i - 1, Digit(number, i))) # "ok"
    BY DEF SwappedDigitsNoticed
  <2>1. Validate(number) = "ok" /\ number \in Nat
    BY DEF Judged
  <2> QED BY <2>1, SwappedRefused
<1> QED BY <1>1, AlwaysJudged, PTL
=============================================================================
