-------------------------------- MODULE Status --------------------------------
(***************************************************************************)
(* The processor status register P of the NMOS 6502 (mos6502/status.go).   *)
(* The live register is the set of the flags that are set; the byte that   *)
(* goes over the bus when P is pushed or pulled is a number in 0..255, and *)
(* Encode and Decode are the conversions between the two.                  *)
(***************************************************************************)
EXTENDS Integers

Byte == 0..255
Word == 0..65535

\* The eight bits, LSB first: C, Z, I, D, B, U, V, N.
Flags == {"C", "Z", "I", "D", "B", "U", "V", "N"}

Weight == [C |-> 1, Z |-> 2, I |-> 4, D |-> 8, B |-> 16, U |-> 32, V |-> 64, N |-> 128]

\* The byte whose set bits are the flags of S.
Encode(S) ==
    LET Bit(f) == IF f \in S THEN Weight[f] ELSE 0
    IN  Bit("C") + Bit("Z") + Bit("I") + Bit("D") + Bit("B") + Bit("U") + Bit("V") + Bit("N")

\* The flags whose bits are set in the byte v.
Decode(v) == {f \in Flags : (v \div Weight[f]) % 2 = 1}

SetFlag(S, f, on) == IF on THEN S \cup {f} ELSE S \ {f}

\* N and Z from the byte v, as every load, arithmetic and logic instruction does.
SetNZ(S, v) == SetFlag(SetFlag(S, "Z", v = 0), "N", v >= 128)

\* The copy of P that an instruction or interrupt entry pushes.
PushedStatus(S, brk) == S \cup {"U"} \cup (IF brk THEN {"B"} ELSE {})

\* The live P after PLP or RTI pulled the byte v: B does not exist, U is forced.
PulledStatus(v) == (Decode(v) \ {"B"}) \cup {"U"}

Hi(w) == w \div 256
Lo(w) == w % 256
MakeWord(lo, hi) == lo + 256 * hi
===============================================================================
