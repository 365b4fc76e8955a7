-------------------------------- MODULE U64 ---------------------------------
(* Unsigned 64-bit arithmetic of the source, with a bound small enough for *)
(* products to overflow.                                                   *)
EXTENDS Integers

CONSTANT U64Max     \* u64::MAX

ASSUME U64Assumption == U64Max \in Nat

\* checked_mul and checked_add return Some exactly when the result fits.
fits(n) == n <= U64Max

saturating_sub(a, b) == IF a >= b THEN a - b ELSE 0
=============================================================================
