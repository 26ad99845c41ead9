------------------------------ MODULE Fractions ------------------------------
(* Fractions that are not negative, in lowest terms: what the floats of the    *)
(* analyses of a case stand for, without their rounding.                       *)
EXTENDS Integers, FiniteSetsExt, SequencesExt

Lowest(n, d) == LET g == Max({k \in 1..d : d % k = 0 /\ n % k = 0}) IN <<n \div g, d \div g>>
Whole(n) == <<n, 1>>
Zero == Whole(0)

Plus(p, q) == Lowest(p[1] * q[2] + q[1] * p[2], p[2] * q[2])
Minus(p, q) == Lowest(p[1] * q[2] - q[1] * p[2], p[2] * q[2])
Times(p, q) == Lowest(p[1] * q[1], p[2] * q[2])
Over(p, q) == Lowest(p[1] * q[2], p[2] * q[1])
Less(p, q) == p[1] * q[2] < q[1] * p[2]
Least(p, q) == IF Less(q, p) THEN q ELSE p
Total(amounts) == FoldLeft(Plus, Zero, amounts)

\* the elements of a set in a strict total order
Sorted(S, Before(_, _)) ==
    [i \in 1..Cardinality(S) |-> CHOOSE e \in S : Cardinality({d \in S : Before(d, e)}) = i - 1]
================================================================================
