----------------------------- MODULE FixedU128 -----------------------------
(***************************************************************************)
(* sp_arithmetic's FixedU128 (model crate: Price, Ratio, Rate), as the     *)
(* natural number n standing for n / Accuracy.  Every operation the       *)
(* pallets use floors, as FixedU128 does; the scale is 10^18 in the code  *)
(* and a small constant here, so that rounding shows at small amounts.    *)
(* Zero stands for the None that the code unwraps to its default.         *)
(***************************************************************************)
EXTENDS Naturals

CONSTANT Accuracy   \* FixedU128::DIV

ASSUME Accuracy \in Nat \ {0}

(* checked_from_rational(n, d) / saturating_from_rational(n, d): n / d.   *)
CheckedFromRational(n, d) == IF d = 0 THEN 0 ELSE (n * Accuracy) \div d

(* saturating_mul_int / checked_mul_int: floor(p * x).                     *)
MulInt(p, x) == (p * x) \div Accuracy

(* Fixed-point product (saturating_mul, and Mul): floor(a * b).           *)
FMul(a, b) == (a * b) \div Accuracy

(* Fixed-point quotient (Div); the code panics on a zero divisor, which   *)
(* callers rule out.                                                       *)
FDiv(a, b) == (a * Accuracy) \div b

(* reciprocal(r) = 1 / r, None (zero here) for r = 0.                      *)
Reciprocal(r) == IF r = 0 THEN 0 ELSE (Accuracy * Accuracy) \div r

=============================================================================
