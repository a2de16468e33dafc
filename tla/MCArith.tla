------------------------------ MODULE MCArith ------------------------------
(* Operands at the edges of digits, of signed and of unsigned bytes.       *)
EXTENDS Arith

Edges == {1, 9, 80, 127, 128, 153}
============================================================================
