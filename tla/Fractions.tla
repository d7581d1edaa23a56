------------------------------ MODULE Fractions ------------------------------
(***************************************************************************)
(* Exact fractions <<numerator, denominator>> in lowest terms, with a      *)
(* positive denominator, for what the code keeps in floating point.        *)
(***************************************************************************)
EXTENDS Integers, FiniteSetsExt

Gcd[p \in Nat \X Nat] == IF p[2] = 0 THEN p[1] ELSE Gcd[<<p[2], p[1] % p[2]>>]

Abs(n) == IF n < 0 THEN -n ELSE n
Frac(n, d) ==
    LET g == Gcd[<<Abs(n), Abs(d)>>]
        sign == IF d < 0 THEN -1 ELSE 1
    IN <<(sign * n) \div g, Abs(d) \div g>>

Whole(n) == <<n, 1>>
Plus(x, y) == Frac(x[1] * y[2] + y[1] * x[2], x[2] * y[2])
Times(x, y) == Frac(x[1] * y[1], x[2] * y[2])
Over(x, y) == Frac(x[1] * y[2], x[2] * y[1])

\* The sum and the product of f over a finite set S.
SumBy(S, f(_)) == MapThenFoldSet(Plus, Whole(0), f, LAMBDA T : CHOOSE x \in T : TRUE, S)
Product(S, f(_)) == MapThenFoldSet(Times, Whole(1), f, LAMBDA T : CHOOSE x \in T : TRUE, S)
=============================================================================
