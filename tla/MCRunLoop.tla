----------------------------- MODULE MCRunLoop -----------------------------
(* A 5-bit cycle counter instead of a 64-bit one.                          *)
EXTENDS RunLoop

MCCosts == {2, 3, 7}
SmallBudgets == {0, 1, 6, 20}
============================================================================
