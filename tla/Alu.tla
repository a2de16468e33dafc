--------------------------------- MODULE Alu ---------------------------------
(***************************************************************************)
(* The arithmetic of the instruction handlers (mos6502/arith.go, rmw.go    *)
(* and instructions.go): the byte they produce and the P they leave.       *)
(***************************************************************************)
EXTENDS Status

CarryIn(S) == IF "C" \in S THEN 1 ELSE 0
Sign(v) == v >= 128
LowNibble(v) == v % 16
HighNibble(v) == v - (v % 16)

\* Seeded fault: V looks at one operand only.
OverflowedOneSided(a, m, r) == Sign(a) # Sign(r)

\* (a ^ r) & (m ^ r) & 0x80
Overflowed(a, m, r) == Sign(a) # Sign(r) /\ Sign(m) # Sign(r)

\* The binary sum of a, m and carry, with all four flags.
Binary(a, S, m) ==
    LET total == a + m + CarryIn(S)
        r == total % 256
    IN  [A |-> r,
         P |-> SetNZ(SetFlag(SetFlag(S, "C", total > 255), "V", Overflowed(a, m, r)), r)]

\* Seeded fault: the low digit's carry is lost when it is exactly ten.
AdcBCDLowTen(a, S, m) ==
    LET al == LowNibble(a) + LowNibble(m) + CarryIn(S)
        low == IF al > 10 THEN ((al + 6) % 16) + 16 ELSE al
        ah == HighNibble(a) + HighNibble(m) + low
        high == IF ah >= 160 THEN ah + 96 ELSE ah
    IN  [A |-> high % 256, P |-> SetFlag(S, "C", high >= 256)]

\* Z from the binary sum, N and V from the sum before the high digit is
\* corrected, C from the decimal sum.
adcBCD(a, S, m) ==
    LET al == LowNibble(a) + LowNibble(m) + CarryIn(S)
        low == IF al >= 10 THEN ((al + 6) % 16) + 16 ELSE al
        ah == HighNibble(a) + HighNibble(m) + low
        high == IF ah >= 160 THEN ah + 96 ELSE ah
        N == (ah \div 128) % 2 = 1
        V == Overflowed(a, m, ah % 256)
        Z == (a + m + CarryIn(S)) % 256 = 0
    IN  [A |-> high % 256,
         P |-> SetFlag(SetFlag(SetFlag(SetFlag(S, "Z", Z), "N", N), "V", V), "C", high >= 256)]

\* All four flags from the binary difference; A is corrected digit by digit.
sbcBCD(a, S, m) ==
    LET al == LowNibble(a) - LowNibble(m) - (1 - CarryIn(S))
        low == IF al < 0 THEN ((al - 6) % 16) - 16 ELSE al
        aInt == HighNibble(a) - HighNibble(m) + low
    IN  [A |-> (IF aInt < 0 THEN aInt - 96 ELSE aInt) % 256, P |-> Binary(a, S, 255 - m).P]

opAdc(a, S, m) == IF "D" \in S THEN adcBCD(a, S, m) ELSE Binary(a, S, m)

\* Seeded fault: a borrow adds one instead of taking one away.
opSbcNegated(a, S, m) == IF "D" \in S THEN sbcBCD(a, S, m) ELSE Binary(a, S, (256 - m) % 256)

opSbc(a, S, m) == IF "D" \in S THEN sbcBCD(a, S, m) ELSE Binary(a, S, 255 - m)

\* Seeded fault: N is the sign of the register, not of the difference.
compareSign(S, reg, m) == SetNZ(SetFlag(S, "C", reg >= m), IF reg = m THEN 0 ELSE reg)

compare(S, reg, m) == SetNZ(SetFlag(S, "C", reg >= m), (reg - m) % 256)

-------------------------------------------------------------------------------
(* Logic and shifts.  A byte is the set of its bits.                         *)

And(a, b) == Encode(Decode(a) \cap Decode(b))
Or(a, b) == Encode(Decode(a) \cup Decode(b))
Xor(a, b) == Encode((Decode(a) \ Decode(b)) \cup (Decode(b) \ Decode(a)))

doBit(S, a, m) ==
    SetFlag(SetFlag(SetFlag(S, "Z", And(a, m) = 0), "V", "V" \in Decode(m)), "N", Sign(m))

\* Shifts, rotates, increments: the new byte and P.
Modified(S, v, carry) == [v |-> v, P |-> SetNZ(SetFlag(S, "C", carry), v)]

Modify(op, S, v) ==
    LET c == CarryIn(S) IN
    CASE op = "ASL" -> Modified(S, (2 * v) % 256, Sign(v))
      [] op = "LSR" -> Modified(S, v \div 2, v % 2 = 1)
      [] op = "ROL" -> Modified(S, ((2 * v) % 256) + c, Sign(v))
      [] op = "ROR" -> Modified(S, (v \div 2) + (128 * c), v % 2 = 1)
      [] op = "INC" -> Modified(S, (v + 1) % 256, "C" \in S)
      [] op = "DEC" -> Modified(S, (v - 1) % 256, "C" \in S)
===============================================================================
