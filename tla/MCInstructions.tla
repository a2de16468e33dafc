----------------------------- MODULE MCInstructions -----------------------------
EXTENDS Instructions

\* Arbitrary bytes, different in neighbouring cells.
Noise(a) == (17 * a + 5) % 256

\* Code that runs over a page boundary, in the stack and past the top of memory;
\* a stack about to wrap; indexes that cross a page and indexes that do not.
Corners ==
    {[A |-> 145, X |-> x, Y |-> 256 - x, SP |-> sp, PC |-> pc, P |-> p] :
        x \in {1, 255}, sp \in {0, 255}, pc \in {254, 509, 65534},
        p \in {{"U"}, {"C", "Z", "D", "V", "N"}}}

\* One register file for programs of several instructions.
Calls == {[A |-> 7, X |-> 255, Y |-> 0, SP |-> sp, PC |-> pc, P |-> {"U"}] : sp \in {0, 1}, pc \in {509, 768}}

\* All 151 documented opcodes and two illegal ones.
AllOpcodes == {op \in Byte : ~opcodeMeta[op].illegal} \cup {2, 255}

\* JSR, RTS, PHA, PLA, TXS, INC abs
StackOpcodes == {32, 96, 72, 104, 154, 238}

\* One instruction of every kind, and programs of four calls, returns and pushes.
MCSuite ==
    [single |-> [starts |-> Corners, opcodes |-> AllOpcodes, operands |-> {0, 127, 255}, steps |-> 1],
     calls  |-> [starts |-> Calls, opcodes |-> StackOpcodes, operands |-> {1, 255}, steps |-> 4]]
===============================================================================
