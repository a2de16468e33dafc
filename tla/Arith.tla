-------------------------------- MODULE Arith --------------------------------
(***************************************************************************)
(* ADC, SBC and CMP (mos6502/arith.go, compare in instructions.go), binary *)
(* and NMOS decimal, as the program meets them: numbers of several bytes   *)
(* are added and subtracted byte by byte, low byte first, the carry going  *)
(* from one instruction to the next through P.                             *)
(***************************************************************************)
EXTENDS Alu

CONSTANTS
    Operands,   \* bytes loaded into A and taken from memory
    MaxBytes    \* bound: bytes of one number

ASSUME ArithAssumption == Operands \subseteq Byte /\ MaxBytes \in Nat

VARIABLES
    A, P,
    \* history variables:
    sum,      \* the operation on longer numbers in progress
    loaded    \* A holds a byte just loaded

vars == <<A, P, sum, loaded>>

-------------------------------------------------------------------------------
(* Numbers of n bytes: in decimal mode a byte is two decimal digits.         *)

IsDecimal(v) == LowNibble(v) <= 9 /\ v \div 16 <= 9
Value(v, S) == IF "D" \in S THEN 10 * (v \div 16) + LowNibble(v) ELSE v
Base(S) == IF "D" \in S THEN 100 ELSE 256

\* x op y with carry-in `carry` has given z so far, over `n` bytes; `unit` is
\* the weight of the next byte.
NoSum == [op |-> "none", n |-> 0, unit |-> 1, x |-> 0, y |-> 0, z |-> 0, carry |-> 0]

Extended(op, m, result) ==
    LET s == IF sum.op = op /\ sum.n < MaxBytes THEN sum
             ELSE [NoSum EXCEPT !.op = op, !.carry = CarryIn(P)]
    IN  IF ~loaded \/ ("D" \in P /\ ~(IsDecimal(A) /\ IsDecimal(m))) THEN NoSum
        ELSE [s EXCEPT !.n = @ + 1, !.unit = @ * Base(P),
                       !.x = @ + s.unit * Value(A, P), !.y = @ + s.unit * Value(m, P),
                       !.z = @ + s.unit * Value(result, P)]

-------------------------------------------------------------------------------
\* The A and P of a fresh CPU.
Init == A = 0 /\ P = {} /\ sum = NoSum /\ loaded = FALSE

LDA(v) == A' = v /\ P' = SetNZ(P, v) /\ loaded' = TRUE /\ UNCHANGED sum

ADC(m) ==
    LET out == opAdc(A, P, m)
    IN  A' = out.A /\ P' = out.P /\ sum' = Extended("ADC", m, out.A) /\ loaded' = FALSE

SBC(m) ==
    LET out == opSbc(A, P, m)
    IN  A' = out.A /\ P' = out.P /\ sum' = Extended("SBC", m, out.A) /\ loaded' = FALSE

CMP(m) == P' = compare(P, A, m) /\ sum' = NoSum /\ UNCHANGED <<A, loaded>>

\* CLC, SEC, CLD, SED, CLV
SetFlagTo(f, on) == P' = SetFlag(P, f, on) /\ sum' = NoSum /\ UNCHANGED <<A, loaded>>

Next ==
    \/ \E v \in Operands : LDA(v) \/ ADC(v) \/ SBC(v) \/ CMP(v)
    \/ \E f \in {"C", "D"}, on \in BOOLEAN : SetFlagTo(f, on)
    \/ SetFlagTo("V", FALSE)

Spec == Init /\ [][Next]_vars

-------------------------------------------------------------------------------
(* Properties                                                                *)

\* A byte-by-byte addition or subtraction is exact, in binary and in decimal
\* mode: the bytes left in A, with the carry (or borrow) that is left in C, are
\* the sum or difference of the whole numbers, and the carry survives the loads
\* in between.
MultiByteExact ==
    sum.n > 0 =>
        LET carry == CarryIn(P) IN
        CASE sum.op = "ADC" -> sum.x + sum.y + sum.carry = sum.z + carry * sum.unit
          [] sum.op = "SBC" -> sum.x - sum.y - (1 - sum.carry) = sum.z - (1 - carry) * sum.unit

\* In decimal mode, decimal operands leave decimal digits in A.
DecimalStaysDecimal ==
    [][\A m \in Operands : (ADC(m) \/ SBC(m)) /\ "D" \in P /\ IsDecimal(A) /\ IsDecimal(m)
          => IsDecimal(A')]_vars

\* V after the last byte of a binary operation says that the signed numbers'
\* result does not fit.
Signed(w) == IF 2 * w >= sum.unit THEN w - sum.unit ELSE w
OverflowMeansSigned ==
    sum.n > 0 /\ "D" \notin P =>
        LET exact == IF sum.op = "ADC" THEN Signed(sum.x) + Signed(sum.y) + sum.carry
                     ELSE Signed(sum.x) - Signed(sum.y) - (1 - sum.carry)
        IN  "V" \in P <=> exact # Signed(sum.z)

\* CMP sets C, Z and N as a binary SBC with the carry set would, and is not
\* affected by decimal mode.
CompareIsSubtract ==
    [][\A m \in Operands : CMP(m) =>
          LET flags == {"C", "Z", "N"} IN
          P' \cap flags = opSbc(A, (P \cup {"C"}) \ {"D"}, m).P \cap flags]_vars
===============================================================================
