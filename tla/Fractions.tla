----------------------------- MODULE Fractions -----------------------------
(***************************************************************************)
(* Exact arithmetic in place of the code's floating point: a fraction is   *)
(* <<numerator, denominator>> in lowest terms with a positive denominator. *)
(***************************************************************************)
EXTENDS Integers

LOCAL Gcd[p \in Nat \X Nat] == IF p[2] = 0 THEN p[1] ELSE Gcd[<<p[2], p[1] % p[2]>>]
LOCAL Magnitude(n) == IF n < 0 THEN -n ELSE n

\* n / d, for d # 0.
Frac(n, d) ==
  LET g == Gcd[<<Magnitude(n), Magnitude(d)>>]
      s == IF d < 0 THEN -g ELSE g
  IN <<n \div s, d \div s>>

Zero == <<0, 1>>
One == <<1, 1>>
Whole(n) == <<n, 1>>
Plus(a, b) == Frac(a[1] * b[2] + b[1] * a[2], a[2] * b[2])
Minus(a, b) == Frac(a[1] * b[2] - b[1] * a[2], a[2] * b[2])
Times(a, b) == Frac(a[1] * b[1], a[2] * b[2])
Over(a, b) == Frac(a[1] * b[2], a[2] * b[1])
Negative(a) == <<-a[1], a[2]>>
AtMost(a, b) == a[1] * b[2] <= b[1] * a[2]
Below(a, b) == a[1] * b[2] < b[1] * a[2]
LesserOf(a, b) == IF AtMost(a, b) THEN a ELSE b
GreaterOf(a, b) == IF AtMost(a, b) THEN b ELSE a
Within(a, lo, hi) == GreaterOf(lo, LesserOf(a, hi))
FloorOf(a) == a[1] \div a[2]
\* round(): halves go away from zero.
Rounded(a) == IF a[1] >= 0 THEN (2 * a[1] + a[2]) \div (2 * a[2]) ELSE -((a[2] - 2 * a[1]) \div (2 * a[2]))
=============================================================================
