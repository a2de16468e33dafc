-------------------------------- MODULE Opcodes --------------------------------
(***************************************************************************)
(* The documented instruction set: the dispatch table of                   *)
(* mos6502/opcodes.go, the addressing modes' lengths (addressing.go) and   *)
(* what Disassemble (disasm.go) says of an instruction.  A mode is named   *)
(* by the suffix of its handlers: ldaZpX is LDA in mode "ZpX".             *)
(***************************************************************************)
EXTENDS Integers

modeBytes ==
    [Imp |-> 1, A |-> 1, Imm |-> 2, Zp |-> 2, ZpX |-> 2, ZpY |-> 2, Rel |-> 2,
     Abs |-> 3, AbsX |-> 3, AbsY |-> 3, Ind |-> 3, IndX |-> 2, IndY |-> 2]

\* <<opcode, mnemonic, mode, base cycles>>
EntriesLow ==
    {<<\h00, "BRK", "Imp", 7>>,  <<\h01, "ORA", "IndX", 6>>, <<\h05, "ORA", "Zp", 3>>,   <<\h06, "ASL", "Zp", 5>>,
     <<\h08, "PHP", "Imp", 3>>,  <<\h09, "ORA", "Imm", 2>>,  <<\h0A, "ASL", "A", 2>>,    <<\h0D, "ORA", "Abs", 4>>,
     <<\h0E, "ASL", "Abs", 6>>,  <<\h10, "BPL", "Rel", 2>>,  <<\h11, "ORA", "IndY", 5>>, <<\h15, "ORA", "ZpX", 4>>,
     <<\h16, "ASL", "ZpX", 6>>,  <<\h18, "CLC", "Imp", 2>>,  <<\h19, "ORA", "AbsY", 4>>, <<\h1D, "ORA", "AbsX", 4>>,
     <<\h1E, "ASL", "AbsX", 7>>, <<\h20, "JSR", "Abs", 6>>,  <<\h21, "AND", "IndX", 6>>, <<\h24, "BIT", "Zp", 3>>,
     <<\h25, "AND", "Zp", 3>>,   <<\h26, "ROL", "Zp", 5>>,   <<\h28, "PLP", "Imp", 4>>,  <<\h29, "AND", "Imm", 2>>,
     <<\h2A, "ROL", "A", 2>>,    <<\h2C, "BIT", "Abs", 4>>,  <<\h2D, "AND", "Abs", 4>>,  <<\h2E, "ROL", "Abs", 6>>,
     <<\h30, "BMI", "Rel", 2>>,  <<\h31, "AND", "IndY", 5>>, <<\h35, "AND", "ZpX", 4>>,  <<\h36, "ROL", "ZpX", 6>>,
     <<\h38, "SEC", "Imp", 2>>,  <<\h39, "AND", "AbsY", 4>>, <<\h3D, "AND", "AbsX", 4>>, <<\h3E, "ROL", "AbsX", 7>>,
     <<\h40, "RTI", "Imp", 6>>,  <<\h41, "EOR", "IndX", 6>>, <<\h45, "EOR", "Zp", 3>>,   <<\h46, "LSR", "Zp", 5>>,
     <<\h48, "PHA", "Imp", 3>>,  <<\h49, "EOR", "Imm", 2>>,  <<\h4A, "LSR", "A", 2>>,    <<\h4C, "JMP", "Abs", 3>>,
     <<\h4D, "EOR", "Abs", 4>>,  <<\h4E, "LSR", "Abs", 6>>,  <<\h50, "BVC", "Rel", 2>>,  <<\h51, "EOR", "IndY", 5>>,
     <<\h55, "EOR", "ZpX", 4>>,  <<\h56, "LSR", "ZpX", 6>>,  <<\h58, "CLI", "Imp", 2>>,  <<\h59, "EOR", "AbsY", 4>>,
     <<\h5D, "EOR", "AbsX", 4>>, <<\h5E, "LSR", "AbsX", 7>>, <<\h60, "RTS", "Imp", 6>>,  <<\h61, "ADC", "IndX", 6>>,
     <<\h65, "ADC", "Zp", 3>>,   <<\h66, "ROR", "Zp", 5>>,   <<\h68, "PLA", "Imp", 4>>,  <<\h69, "ADC", "Imm", 2>>,
     <<\h6A, "ROR", "A", 2>>,    <<\h6C, "JMP", "Ind", 5>>,  <<\h6D, "ADC", "Abs", 4>>,  <<\h6E, "ROR", "Abs", 6>>,
     <<\h70, "BVS", "Rel", 2>>,  <<\h71, "ADC", "IndY", 5>>, <<\h75, "ADC", "ZpX", 4>>,  <<\h76, "ROR", "ZpX", 6>>,
     <<\h78, "SEI", "Imp", 2>>,  <<\h79, "ADC", "AbsY", 4>>, <<\h7D, "ADC", "AbsX", 4>>, <<\h7E, "ROR", "AbsX", 7>>}

EntriesHigh ==
    {<<\h81, "STA", "IndX", 6>>, <<\h84, "STY", "Zp", 3>>,   <<\h85, "STA", "Zp", 3>>,   <<\h86, "STX", "Zp", 3>>,
     <<\h88, "DEY", "Imp", 2>>,  <<\h8A, "TXA", "Imp", 2>>,  <<\h8C, "STY", "Abs", 4>>,  <<\h8D, "STA", "Abs", 4>>,
     <<\h8E, "STX", "Abs", 4>>,  <<\h90, "BCC", "Rel", 2>>,  <<\h91, "STA", "IndY", 6>>, <<\h94, "STY", "ZpX", 4>>,
     <<\h95, "STA", "ZpX", 4>>,  <<\h96, "STX", "ZpY", 4>>,  <<\h98, "TYA", "Imp", 2>>,  <<\h99, "STA", "AbsY", 5>>,
     <<\h9A, "TXS", "Imp", 2>>,  <<\h9D, "STA", "AbsX", 5>>, <<\hA0, "LDY", "Imm", 2>>,  <<\hA1, "LDA", "IndX", 6>>,
     <<\hA2, "LDX", "Imm", 2>>,  <<\hA4, "LDY", "Zp", 3>>,   <<\hA5, "LDA", "Zp", 3>>,   <<\hA6, "LDX", "Zp", 3>>,
     <<\hA8, "TAY", "Imp", 2>>,  <<\hA9, "LDA", "Imm", 2>>,  <<\hAA, "TAX", "Imp", 2>>,  <<\hAC, "LDY", "Abs", 4>>,
     <<\hAD, "LDA", "Abs", 4>>,  <<\hAE, "LDX", "Abs", 4>>,  <<\hB0, "BCS", "Rel", 2>>,  <<\hB1, "LDA", "IndY", 5>>,
     <<\hB4, "LDY", "ZpX", 4>>,  <<\hB5, "LDA", "ZpX", 4>>,  <<\hB6, "LDX", "ZpY", 4>>,  <<\hB8, "CLV", "Imp", 2>>,
     <<\hB9, "LDA", "AbsY", 4>>, <<\hBA, "TSX", "Imp", 2>>,  <<\hBC, "LDY", "AbsX", 4>>, <<\hBD, "LDA", "AbsX", 4>>,
     <<\hBE, "LDX", "AbsY", 4>>, <<\hC0, "CPY", "Imm", 2>>,  <<\hC1, "CMP", "IndX", 6>>, <<\hC4, "CPY", "Zp", 3>>,
     <<\hC5, "CMP", "Zp", 3>>,   <<\hC6, "DEC", "Zp", 5>>,   <<\hC8, "INY", "Imp", 2>>,  <<\hC9, "CMP", "Imm", 2>>,
     <<\hCA, "DEX", "Imp", 2>>,  <<\hCC, "CPY", "Abs", 4>>,  <<\hCD, "CMP", "Abs", 4>>,  <<\hCE, "DEC", "Abs", 6>>,
     <<\hD0, "BNE", "Rel", 2>>,  <<\hD1, "CMP", "IndY", 5>>, <<\hD5, "CMP", "ZpX", 4>>,  <<\hD6, "DEC", "ZpX", 6>>,
     <<\hD8, "CLD", "Imp", 2>>,  <<\hD9, "CMP", "AbsY", 4>>, <<\hDD, "CMP", "AbsX", 4>>, <<\hDE, "DEC", "AbsX", 7>>,
     <<\hE0, "CPX", "Imm", 2>>,  <<\hE1, "SBC", "IndX", 6>>, <<\hE4, "CPX", "Zp", 3>>,   <<\hE5, "SBC", "Zp", 3>>,
     <<\hE6, "INC", "Zp", 5>>,   <<\hE8, "INX", "Imp", 2>>,  <<\hE9, "SBC", "Imm", 2>>,  <<\hEA, "NOP", "Imp", 2>>,
     <<\hEC, "CPX", "Abs", 4>>,  <<\hED, "SBC", "Abs", 4>>,  <<\hEE, "INC", "Abs", 6>>,  <<\hF0, "BEQ", "Rel", 2>>,
     <<\hF1, "SBC", "IndY", 5>>, <<\hF5, "SBC", "ZpX", 4>>,  <<\hF6, "INC", "ZpX", 6>>,  <<\hF8, "SED", "Imp", 2>>,
     <<\hF9, "SBC", "AbsY", 4>>, <<\hFD, "SBC", "AbsX", 4>>, <<\hFE, "INC", "AbsX", 7>>}

Entry(e) ==
    [mnemonic |-> e[2], mode |-> e[3], cycles |-> e[4], length |-> modeBytes[e[3]], illegal |-> FALSE]

\* Every slot without an entry is an illegal opcode.
IllegalMeta == [mnemonic |-> "???", mode |-> "Imp", cycles |-> 0, length |-> 1, illegal |-> TRUE]

opcodeMeta ==
    LET entries == EntriesLow \cup EntriesHigh IN
    [op \in 0..255 |->
        IF \E e \in entries : e[1] = op THEN Entry(CHOOSE e \in entries : e[1] = op) ELSE IllegalMeta]

\* A byte as a branch offset: int8.
Offset(v) == IF v >= 128 THEN v - 256 ELSE v

NoOperand == -1

\* The operand Disassemble shows for the instruction at pc, whose bytes
\* (modulo the address space) are bytes[0], bytes[1] and bytes[2]: a branch is
\* shown with its destination, the other modes with their bytes.
appendOperand(bytes, pc, mode) ==
    CASE mode \in {"Imp", "A"} -> NoOperand
      [] mode = "Rel" -> (pc + 2 + Offset(bytes[1])) % 65536
      [] modeBytes[mode] = 2 /\ mode # "Rel" -> bytes[1]
      [] modeBytes[mode] = 3 -> bytes[1] + 256 * bytes[2]

Disassemble(bytes, pc) ==
    LET meta == opcodeMeta[bytes[0]] IN
    [mnemonic |-> meta.mnemonic, mode |-> meta.mode,
     operand |-> appendOperand(bytes, pc, meta.mode), length |-> meta.length]
===============================================================================
