--------------------------------- MODULE Ratios ---------------------------------
(* Quotients of integers, which the code computes in floating point, exactly: *)
(* [num, den] in lowest terms with den > 0.                                    *)
EXTENDS Integers, FiniteSetsExt

RECURSIVE Gcd(_, _)
Gcd(a, b) == IF b = 0 THEN a ELSE Gcd(b, a % b)

(* n / d, for d > 0 *)
Over(n, d) ==
  LET g == Gcd(IF n < 0 THEN -n ELSE n, d)
  IN [num |-> n \div g, den |-> d \div g]

Zero == Over(0, 1)
One == Over(1, 1)

Plus(p, q) == Over(p.num * q.den + q.num * p.den, p.den * q.den)
Times(p, q) == Over(p.num * q.num, p.den * q.den)

(* The sum of op(x) for x in a set. *)
SumRatios(op(_), S) == FoldSet(LAMBDA x, sum : Plus(op(x), sum), Zero, S)
=============================================================================
