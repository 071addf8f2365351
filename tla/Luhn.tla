-------------------------------- MODULE Luhn --------------------------------
(***************************************************************************)
(* The check of an uploaded order number: OrderID.Validate of the HTTP API *)
(* and Luhn's algorithm of pkg/luhn behind it.                             *)
(***************************************************************************)
EXTENDS Integers, Sequences, FiniteSetsExt

CONSTANT MaxNumber   \* numbers 0 .. MaxNumber are tried (the code has 64 bits)

ASSUME LuhnAssumption == MaxNumber \in Nat

VARIABLES
  number,   \* the number in the request
  verdict   \* what Validate says of it, "none" before

vars == <<number, verdict>>

\* The digits of a number, the last one first; no digit at all for 0.
NumberToDigitsReversed[n \in Nat] ==
  IF n = 0 THEN <<>> ELSE <<n % 10>> \o NumberToDigitsReversed[n \div 10]

DoubleDigit(digit) == IF 2 * digit > 9 THEN 2 * digit - 9 ELSE 2 * digit

\* Mutant of MaybeDoubleDigit: positions are counted from 0.
MaybeDoubleDigitFromZero(digit, position) ==
  IF position % 2 = 0 THEN digit ELSE DoubleDigit(digit)

\* Mutant of MaybeDoubleDigit: no digit is doubled.
NeverDoubleDigit(digit, position) == digit

\* Mutant of MaybeDoubleDigit: a doubled digit keeps its overflow.
DoubleWithOverflow(digit, position) ==
  IF position % 2 # 0 THEN digit ELSE 2 * digit

MaybeDoubleDigit(digit, position) ==
  IF position % 2 # 0 THEN digit ELSE DoubleDigit(digit)

\* The digit the others call for.
CheckDigit(digits) ==
  LET checkSum == MapThenSumSet(LAMBDA i : MaybeDoubleDigit(digits[i], i),
                                2 .. Len(digits))
  IN  (10 - (checkSum % 10)) % 10

\* luhn.Validate, which reads the first digit of a number that must not be 0.
ChecksumMatches(n) ==
  LET digits == NumberToDigitsReversed[n] IN digits[1] = CheckDigit(digits)

\* OrderID.Validate of the API.
Validate(n) ==
  CASE n = 0 -> "zero"
    [] n # 0 /\ ChecksumMatches(n) -> "ok"
    [] n # 0 /\ ~ChecksumMatches(n) -> "mismatch"

Init == number \in 0 .. MaxNumber /\ verdict = "none"

Check ==
  /\ verdict = "none"
  /\ verdict' = Validate(number)
  /\ UNCHANGED number

Next == Check

Spec == Init /\ [][Next]_vars

-----------------------------------------------------------------------------
(* Properties *)

Power10[i \in Nat] == IF i = 0 THEN 1 ELSE 10 * Power10[i - 1]

\* Digit i of n, counted from the right, from 1.
Digit(n, i) == (n \div Power10[i - 1]) % 10
WithDigit(n, i, d) == n + (d - Digit(n, i)) * Power10[i - 1]
Positions(n) == 1 .. Len(NumberToDigitsReversed[n])

\* The algorithm as it is taught: double every second digit from the right, add
\* the digits of what results, and expect a multiple of ten.
Reference(n) ==
  LET Value(i) == IF i % 2 = 1 THEN Digit(n, i)
                  ELSE ((2 * Digit(n, i)) \div 10) + ((2 * Digit(n, i)) % 10)
  IN  MapThenSumSet(Value, Positions(n)) % 10 = 0

\* A number is accepted exactly when the algorithm, in its usual form, accepts
\* it, and 0 never reaches the code that needs a digit.
AcceptsLuhnNumbers ==
  verdict # "none" => (verdict = "ok" <=> number > 0 /\ Reference(number))

\* One mistyped digit in an accepted number, anywhere, is noticed.
MistypedDigitNoticed ==
  verdict = "ok" =>
    \A i \in Positions(number), d \in 0 .. 9 :
      d # Digit(number, i) => Validate(WithDigit(number, i, d)) # "ok"

\* Two neighbouring digits swapped are noticed, unless they are 0 and 9.
SwappedDigitsNoticed ==
  verdict = "ok" =>
    \A i \in Positions(number) \ {1} :
      LET a == Digit(number, i)
          b == Digit(number, i - 1)
          swapped == WithDigit(WithDigit(number, i, b), i - 1, a)
      IN  a # b /\ {a, b} # {0, 9} => Validate(swapped) # "ok"
=============================================================================
