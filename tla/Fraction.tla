------------------------------ MODULE Fraction ------------------------------
(***************************************************************************)
(* Numbers as fractions <<numerator, denominator>>, the denominator        *)
(* positive: where the program computes with doubles, the models do so     *)
(* without rounding.                                                       *)
(***************************************************************************)
EXTENDS Integers

Fractions == Int \X (Nat \ {0})

Plus(x, y)  == <<x[1] * y[2] + y[1] * x[2], x[2] * y[2]>>
Minus(x, y) == <<x[1] * y[2] - y[1] * x[2], x[2] * y[2]>>
Leq(x, y)   == x[1] * y[2] <= y[1] * x[2]
Abs(n)      == IF n < 0 THEN -n ELSE n

=============================================================================
