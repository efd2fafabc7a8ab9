----------------------------- MODULE Fractions -----------------------------
(***************************************************************************)
(* Exact fractions <<n, d>> in lowest terms, for what the code computes in *)
(* floating point, and what statistics.fmean and statistics.median do.     *)
(***************************************************************************)
EXTENDS Integers, Sequences, SequencesExt

gcd[p \in Nat \X Nat] == IF p[2] = 0 THEN p[1] ELSE gcd[<<p[2], p[1] % p[2]>>]

Fraction == Int \X (Nat \ {0})

Positive(n) == IF n < 0 THEN 0 - n ELSE n

\* n / d for a positive d.
Frac(n, d) ==
    LET g == gcd[<<Positive(n), d>>]
    IN  <<n \div g, d \div g>>

Whole(n) == <<n, 1>>
Zero == Whole(0)
One == Whole(1)

Plus(a, b) ==
    LET g == gcd[<<a[2], b[2]>>]
    IN  Frac(a[1] * (b[2] \div g) + b[1] * (a[2] \div g), a[2] * (b[2] \div g))

Negative(a) == <<0 - a[1], a[2]>>
Minus(a, b) == Plus(a, Negative(b))
Distance(a, b) == LET d == Minus(a, b) IN <<Positive(d[1]), d[2]>>

Times(a, b) ==
    LET p == Frac(a[1], b[2])
        q == Frac(b[1], a[2])
    IN  <<p[1] * q[1], p[2] * q[2]>>

\* a / b for a positive b.
Over(a, b) == Times(a, <<b[2], b[1]>>)

Less(a, b) == Minus(a, b)[1] < 0
AtMost(a, b) == ~ Less(b, a)
Larger(a, b) == IF Less(a, b) THEN b ELSE a
Smaller(a, b) == IF Less(a, b) THEN a ELSE b

\* The smoothing step: a share alpha of the new value, the rest of the old.
Mix(alpha, new, old) == Plus(Times(alpha, new), Times(Minus(One, alpha), old))

Total(s) == FoldLeft(Plus, Zero, s)
Mean(s) == IF s = << >> THEN Zero ELSE Over(Total(s), Whole(Len(s)))

Median(s) ==
    LET sorted == SortSeq(s, Less)
        middle == (Len(s) + 1) \div 2
    IN  IF Len(s) % 2 = 1
        THEN sorted[middle]
        ELSE Mean(<<sorted[middle], sorted[middle + 1]>>)
=============================================================================
