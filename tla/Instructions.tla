------------------------------ MODULE Instructions ------------------------------
(***************************************************************************)
(* One Step of the CPU with no signal pending (mos6502/cpu.go Step and the *)
(* handlers of instructions.go, arith.go, rmw.go, illegal.go,              *)
(* addressing.go): the registers it leaves, the memory it changes and the  *)
(* bus cycles it makes, in order.  Interrupt entry is in Interrupts.       *)
(*                                                                         *)
(* Memory is the overlay `cells` on a constant background.  The host puts  *)
(* an instruction at PC (Load), the CPU executes it (one action per        *)
(* handler family), and at the end of a case the host starts another one.  *)
(***************************************************************************)
EXTENDS Alu, Opcodes, Sequences

CONSTANTS
    Background(_),  \* the byte at an address nobody has written
    Suite           \* for each suite of cases: the register files the host sets, the
                    \* opcodes it puts at PC, the operand bytes it puts after them,
                    \* and how many instructions a case has

Registers == [A : Byte, X : Byte, Y : Byte, SP : Byte, PC : Word, P : SUBSET Flags]

ASSUME InstructionsAssumption ==
    /\ \A a \in Word : Background(a) \in Byte
    /\ \A n \in DOMAIN Suite :
          /\ Suite[n].starts \subseteq Registers /\ Suite[n].steps \in Nat
          /\ Suite[n].opcodes \subseteq Byte /\ Suite[n].operands \subseteq Byte

VARIABLES
    cpu,      \* A, X, Y, SP, PC and P
    cells,    \* the memory written so far
    bus,      \* the bus cycles of the last instruction
    ready,    \* an instruction is loaded at PC
    suite,    \* the suite the case belongs to
    steps,
    frames    \* history: return addresses on the stack that nothing overwrote

vars == <<cpu, cells, bus, ready, suite, steps, frames>>

-------------------------------------------------------------------------------
(* Memory and bus cycles                                                     *)

MemIn(c, a) == IF a \in DOMAIN c THEN c[a] ELSE Background(a)
Mem(a) == MemIn(cells, a)

ReadCycle(a) == [kind |-> "read", addr |-> a, value |-> Mem(a)]
WriteCycle(a, v) == [kind |-> "write", addr |-> a, value |-> v]
Reads(addrs) == [i \in DOMAIN addrs |-> ReadCycle(addrs[i])]

\* The cycles that write the cell a, and the cells some cycle writes.
Writes(cycles, a) == {i \in DOMAIN cycles : cycles[i].kind = "write" /\ cycles[i].addr = a}
Written(cycles) == {cycles[i].addr : i \in {j \in DOMAIN cycles : cycles[j].kind = "write"}}

\* The memory after the write cycles, the last write to a cell winning.
LastWrite(cycles, a) == CHOOSE i \in Writes(cycles, a) : \A j \in Writes(cycles, a) : j <= i
After(c, cycles) ==
    [a \in DOMAIN c \cup Written(cycles) |->
        IF a \in Written(cycles) THEN cycles[LastWrite(cycles, a)].value ELSE c[a]]

\* The k-th byte after the opcode, and the operand as a word.
At(k) == (cpu.PC + k) % 65536
Operand1 == Mem(At(1))
OperandWord == MakeWord(Operand1, Mem(At(2)))

\* Seeded fault: a slot below the bottom of the stack page is in page zero.
StackNoWrap(k) == 256 + cpu.SP + k

\* The k-th slot above SP (below, for a negative k).
Stack(k) == 256 + ((cpu.SP + k) % 256)

-------------------------------------------------------------------------------
(* Effective addresses: the address, and the reads that computing it makes.  *)

\* Seeded fault: the pointer's high byte is taken from the next page.
SamePageCarry(p) == (p + 1) % 65536

\* The byte after p in p's own page.
SamePage(p) == MakeWord((Lo(p) + 1) % 256, Hi(p))

Pointer(p) == MakeWord(Mem(p), Mem(SamePage(p)))

\* Seeded fault: stores and read-modify-writes skip the read when the page stays.
IndexedNoPenalty(base, i, reads, penalty) ==
    LET addr == (base + i) % 65536 IN
    [addr |-> addr,
     reads |-> IF Hi(base) # Hi(addr) THEN Append(reads, MakeWord(Lo(addr), Hi(base))) ELSE reads]

\* base + i, after a read with the high byte not yet fixed up: of the code's
\* alwaysPenalty, penalty = "crossing" is false (the read is made when the page
\* changes) and penalty = "always" is true.
Indexed(base, i, reads, penalty) ==
    LET addr == (base + i) % 65536 IN
    [addr |-> addr,
     reads |-> IF penalty = "always" \/ Hi(base) # Hi(addr)
               THEN Append(reads, MakeWord(Lo(addr), Hi(base))) ELSE reads]

Eff(mode, penalty) ==
    LET zp == Operand1
        word == OperandWord
        zpx == (zp + cpu.X) % 256
    IN
    CASE mode = "Imm"  -> [addr |-> At(1), reads |-> <<>>]
      [] mode = "Zp"   -> [addr |-> zp, reads |-> <<At(1)>>]
      [] mode = "ZpX"  -> [addr |-> zpx, reads |-> <<At(1), zp>>]
      [] mode = "ZpY"  -> [addr |-> (zp + cpu.Y) % 256, reads |-> <<At(1), zp>>]
      [] mode = "Abs"  -> [addr |-> word, reads |-> <<At(1), At(2)>>]
      [] mode = "AbsX" -> Indexed(word, cpu.X, <<At(1), At(2)>>, penalty)
      [] mode = "AbsY" -> Indexed(word, cpu.Y, <<At(1), At(2)>>, penalty)
      [] mode = "Ind"  -> [addr |-> Pointer(word),
                           reads |-> <<At(1), At(2), word, SamePage(word)>>]
      [] mode = "IndX" -> [addr |-> Pointer(zpx), reads |-> <<At(1), zp, zpx, SamePage(zpx)>>]
      [] mode = "IndY" -> Indexed(Pointer(zp), cpu.Y, <<At(1), zp, SamePage(zp)>>, penalty)

-------------------------------------------------------------------------------
(* The host                                                                  *)

NoBus == <<>>

Init ==
    /\ suite \in DOMAIN Suite /\ cpu \in Suite[suite].starts
    /\ cells = << >> /\ bus = NoBus /\ ready = FALSE /\ steps = 0 /\ frames = {}

\* A frame [sp, ret] survives the writes to the addresses w.
Intact(f, w) == w \cap {256 + ((f.sp + 1) % 256), 256 + ((f.sp + 2) % 256)} = {}

\* The host writes an instruction at PC.
Load(op, b1, b2) ==
    /\ ~ready /\ steps < Suite[suite].steps
    /\ cells' = After(cells, <<WriteCycle(At(0), op), WriteCycle(At(1), b1), WriteCycle(At(2), b2)>>)
    /\ ready' = TRUE
    /\ frames' = {f \in frames : Intact(f, {At(0), At(1), At(2)})}
    /\ UNCHANGED <<cpu, bus, suite, steps>>

\* The host starts over with other registers and clean memory.
NewCase(r) ==
    /\ ~ready /\ steps = Suite[suite].steps
    /\ cpu' = r /\ cells' = << >> /\ bus' = NoBus /\ steps' = 0 /\ frames' = {}
    /\ UNCHANGED <<ready, suite>>

-------------------------------------------------------------------------------
(* The instructions.  Meta is the table's entry for the opcode at PC; c is   *)
(* the register file the handler leaves, cycles the bus cycles after the     *)
(* opcode fetch.                                                             *)

Meta == opcodeMeta[Mem(cpu.PC)]
Executes(mnemonics) == ready /\ Meta.mnemonic \in mnemonics
\* Seeded fault: PC runs past the top of memory.
FollowingNoWrap == cpu.PC + Meta.length

Following == (cpu.PC + Meta.length) % 65536

Retire(c, cycles, new) ==
    /\ cpu' = c
    /\ bus' = <<ReadCycle(cpu.PC)>> \o cycles
    /\ cells' = After(cells, cycles)
    /\ frames' = {f \in frames : Intact(f, Written(cycles))} \cup new
    /\ ready' = FALSE /\ steps' = steps + 1
    /\ UNCHANGED suite

Finish(c, cycles) == Retire(c, cycles, {})

\* The register file after a load, logic, arithmetic or compare instruction.
SetReg(reg, v, P) == [cpu EXCEPT ![reg] = v, !.P = P, !.PC = Following]
Loaded(reg, v) == SetReg(reg, v, SetNZ(cpu.P, v))
Flagged(P) == [cpu EXCEPT !.P = P, !.PC = Following]

Consumed(mnemonic, m) ==
    CASE mnemonic = "LDA" -> Loaded("A", m)
      [] mnemonic = "LDX" -> Loaded("X", m)
      [] mnemonic = "LDY" -> Loaded("Y", m)
      [] mnemonic = "AND" -> Loaded("A", And(cpu.A, m))
      [] mnemonic = "ORA" -> Loaded("A", Or(cpu.A, m))
      [] mnemonic = "EOR" -> Loaded("A", Xor(cpu.A, m))
      [] mnemonic = "ADC" -> LET out == opAdc(cpu.A, cpu.P, m) IN SetReg("A", out.A, out.P)
      [] mnemonic = "SBC" -> LET out == opSbc(cpu.A, cpu.P, m) IN SetReg("A", out.A, out.P)
      [] mnemonic = "BIT" -> Flagged(doBit(cpu.P, cpu.A, m))
      [] mnemonic = "CMP" -> Flagged(compare(cpu.P, cpu.A, m))
      [] mnemonic = "CPX" -> Flagged(compare(cpu.P, cpu.X, m))
      [] mnemonic = "CPY" -> Flagged(compare(cpu.P, cpu.Y, m))

ReadOps == {"LDA", "LDX", "LDY", "AND", "ORA", "EOR", "ADC", "SBC", "BIT", "CMP", "CPX", "CPY"}
StoreOps == [STA |-> "A", STX |-> "X", STY |-> "Y"]
RmwOps == {"ASL", "LSR", "ROL", "ROR", "INC", "DEC"}

ReadOp ==
    /\ Executes(ReadOps)
    /\ LET e == Eff(Meta.mode, "crossing")
       IN  Finish(Consumed(Meta.mnemonic, Mem(e.addr)), Reads(Append(e.reads, e.addr)))

StoreOp ==
    /\ Executes(DOMAIN StoreOps)
    /\ LET e == Eff(Meta.mode, "always")
       IN  Finish([cpu EXCEPT !.PC = Following],
                  Append(Reads(e.reads), WriteCycle(e.addr, cpu[StoreOps[Meta.mnemonic]])))

\* The byte is read, written back unchanged and written again modified.
rmw ==
    /\ Executes(RmwOps) /\ Meta.mode # "A"
    /\ LET e == Eff(Meta.mode, "always")
           v == Mem(e.addr)
           out == Modify(Meta.mnemonic, cpu.P, v)
       IN  Finish(Flagged(out.P),
                  Reads(Append(e.reads, e.addr)) \o <<WriteCycle(e.addr, v), WriteCycle(e.addr, out.v)>>)

AccumulatorShift ==
    /\ Executes(RmwOps) /\ Meta.mode = "A"
    /\ LET out == Modify(Meta.mnemonic, cpu.P, cpu.A)
       IN  Finish(SetReg("A", out.v, out.P), Reads(<<At(1)>>))

\* Transfers, flags, INX/INY/DEX/DEY and NOP, after a read of the next byte.
Transfers == [TAX |-> <<"A", "X">>, TAY |-> <<"A", "Y">>, TSX |-> <<"SP", "X">>,
              TXA |-> <<"X", "A">>, TYA |-> <<"Y", "A">>]
FlagOps == [CLC |-> <<"C", FALSE>>, SEC |-> <<"C", TRUE>>, CLD |-> <<"D", FALSE>>, SED |-> <<"D", TRUE>>,
            CLI |-> <<"I", FALSE>>, SEI |-> <<"I", TRUE>>, CLV |-> <<"V", FALSE>>]
Counters == [INX |-> <<"X", "INC">>, INY |-> <<"Y", "INC">>, DEX |-> <<"X", "DEC">>, DEY |-> <<"Y", "DEC">>]

Transfer ==
    /\ Executes(DOMAIN Transfers)
    /\ LET t == Transfers[Meta.mnemonic] IN Finish(Loaded(t[2], cpu[t[1]]), Reads(<<At(1)>>))

TXS == Executes({"TXS"}) /\ Finish(SetReg("SP", cpu.X, cpu.P), Reads(<<At(1)>>))

FlagOp ==
    /\ Executes(DOMAIN FlagOps)
    /\ LET f == FlagOps[Meta.mnemonic] IN Finish(Flagged(SetFlag(cpu.P, f[1], f[2])), Reads(<<At(1)>>))

Count ==
    /\ Executes(DOMAIN Counters)
    /\ LET k == Counters[Meta.mnemonic]
           out == Modify(k[2], cpu.P, cpu[k[1]])
       IN  Finish(SetReg(k[1], out.v, out.P), Reads(<<At(1)>>))

\* NOP, and every undocumented opcode (illegalNOP; its hook only observes).
NOP == Executes({"NOP", "???"}) /\ Finish(Flagged(cpu.P), Reads(<<At(1)>>))

-------------------------------------------------------------------------------
(* Branches, jumps and the stack                                             *)

Branches == [BCC |-> <<"C", FALSE>>, BCS |-> <<"C", TRUE>>, BEQ |-> <<"Z", TRUE>>, BNE |-> <<"Z", FALSE>>,
             BMI |-> <<"N", TRUE>>, BPL |-> <<"N", FALSE>>, BVC |-> <<"V", FALSE>>, BVS |-> <<"V", TRUE>>]

Taken == LET b == Branches[Meta.mnemonic] IN (b[1] \in cpu.P) = b[2]

\* Seeded fault: the offset is added without its sign.
branchUnsigned ==
    /\ Executes(DOMAIN Branches)
    /\ LET to == Indexed(At(2), Operand1, <<At(1), At(2)>>, "crossing")
       IN  IF Taken THEN Finish([cpu EXCEPT !.PC = to.addr], Reads(to.reads))
           ELSE Finish([cpu EXCEPT !.PC = Following], Reads(<<At(1)>>))

branch ==
    /\ Executes(DOMAIN Branches)
    /\ LET to == Indexed(At(2), Offset(Operand1), <<At(1), At(2)>>, "crossing")
       IN  IF Taken THEN Finish([cpu EXCEPT !.PC = to.addr], Reads(to.reads))
           ELSE Finish([cpu EXCEPT !.PC = Following], Reads(<<At(1)>>))

JMP ==
    /\ Executes({"JMP"})
    /\ LET e == Eff(Meta.mode, "crossing") IN Finish([cpu EXCEPT !.PC = e.addr], Reads(e.reads))

\* The target's high byte is fetched after the pushes, which may have
\* overwritten it.
jsr ==
    /\ Executes({"JSR"})
    /\ LET pushes == <<WriteCycle(Stack(0), Hi(At(2))), WriteCycle(Stack(-1), Lo(At(2)))>>
           hi == MemIn(After(cells, pushes), At(2))
           sp == (cpu.SP - 2) % 256
       IN  Retire([cpu EXCEPT !.SP = sp, !.PC = MakeWord(Operand1, hi)],
                  Reads(<<At(1), Stack(0)>>) \o pushes \o <<[kind |-> "read", addr |-> At(2), value |-> hi]>>,
                  {[sp |-> sp, ret |-> At(3)]})

rts ==
    /\ Executes({"RTS"})
    /\ LET pc == MakeWord(Mem(Stack(1)), Mem(Stack(2)))
       IN  Finish([cpu EXCEPT !.SP = (@ + 2) % 256, !.PC = (pc + 1) % 65536],
                  Reads(<<At(1), Stack(0), Stack(1), Stack(2), pc>>))

rti ==
    /\ Executes({"RTI"})
    /\ Finish([cpu EXCEPT !.SP = (@ + 3) % 256, !.P = PulledStatus(Mem(Stack(1))),
                          !.PC = MakeWord(Mem(Stack(2)), Mem(Stack(3)))],
              Reads(<<At(1), Stack(0), Stack(1), Stack(2), Stack(3)>>))

\* BRK with no NMI latched: the byte after it is skipped.
brk ==
    /\ Executes({"BRK"})
    /\ Finish([cpu EXCEPT !.SP = (@ - 3) % 256, !.P = @ \cup {"I", "U"},
                          !.PC = MakeWord(Mem(65534), Mem(65535))],
              Reads(<<At(1)>>)
              \o <<WriteCycle(Stack(0), Hi(At(2))), WriteCycle(Stack(-1), Lo(At(2))),
                   WriteCycle(Stack(-2), Encode(PushedStatus(cpu.P, TRUE)))>>
              \o Reads(<<65534, 65535>>))

Push ==
    /\ Executes({"PHA", "PHP"})
    /\ LET v == IF Meta.mnemonic = "PHA" THEN cpu.A ELSE Encode(PushedStatus(cpu.P, TRUE))
       IN  Finish([cpu EXCEPT !.SP = (@ - 1) % 256, !.PC = Following],
                  Append(Reads(<<At(1)>>), WriteCycle(Stack(0), v)))

Pull ==
    /\ Executes({"PLA", "PLP"})
    /\ LET v == Mem(Stack(1))
           c == IF Meta.mnemonic = "PLA" THEN Loaded("A", v) ELSE Flagged(PulledStatus(v))
       IN  Finish([c EXCEPT !.SP = (@ + 1) % 256], Reads(<<At(1), Stack(0), Stack(1)>>))

Step ==
    \/ ReadOp \/ StoreOp \/ rmw \/ AccumulatorShift \/ Transfer \/ TXS \/ FlagOp \/ Count \/ NOP
    \/ branch \/ JMP \/ jsr \/ rts \/ rti \/ brk \/ Push \/ Pull

Next ==
    \/ \E op \in Suite[suite].opcodes, b1, b2 \in Suite[suite].operands : Load(op, b1, b2)
    \/ Step
    \/ \E r \in Suite[suite].starts : NewCase(r)

Spec == Init /\ [][Next]_vars
-------------------------------------------------------------------------------
(* Properties                                                                *)

Cycle == [kind : {"read", "write"}, addr : Word, value : Byte]

\* Registers keep their widths, and every bus cycle is a byte at an address.
TypeOK ==
    /\ cpu \in Registers
    /\ DOMAIN cells \subseteq Word /\ \A a \in DOMAIN cells : cells[a] \in Byte
    /\ \A i \in DOMAIN bus : bus[i] \in Cycle
    /\ ready \in BOOLEAN /\ steps \in 0..Suite[suite].steps
    /\ frames \subseteq [sp : Byte, ret : Word]

\* The address an indexed mode starts from, and the index.
IndexBase == IF Meta.mode = "IndY" THEN Pointer(Operand1) ELSE OperandWord
Index == IF Meta.mode = "AbsX" THEN cpu.X ELSE cpu.Y

\* The extra cycles the documentation grants: one for a read whose index leaves
\* the page, one for a branch taken and one more when it leaves the page.
Penalty ==
    LET Crosses(a, b) == Hi(a) # Hi(b % 65536) IN
    CASE Meta.mode \in {"AbsX", "AbsY", "IndY"} /\ Meta.mnemonic \in ReadOps ->
            IF Crosses(IndexBase, IndexBase + Index) THEN 1 ELSE 0
      [] Meta.mode = "Rel" /\ Taken ->
            IF Crosses(At(2), At(2) + Offset(Operand1)) THEN 2 ELSE 1
      [] OTHER -> 0

\* Every documented instruction makes exactly the bus cycles of its table entry
\* plus the documented penalty, whatever wraps or overlaps: the table of
\* opcodes.go and the cycles its handlers really make agree.
CyclesAsDocumented ==
    [][Step /\ ~Meta.illegal => Len(bus') = Meta.cycles + Penalty]_vars

\* Both bytes of a pointer come from one page: zero-page pointers wrap at $FF,
\* and JMP ($xxFF) takes its high byte from $xx00.
PointersStayInPage ==
    [][Step /\ Meta.mode \in {"Ind", "IndX", "IndY"} =>
          LET i == IF Meta.mode = "IndY" THEN 3 ELSE 4
          IN  /\ Hi(bus'[i].addr) = Hi(bus'[i + 1].addr)
              /\ Meta.mode # "Ind" => Hi(bus'[i].addr) = 0]_vars

\* What Disassemble says of the instruction at PC tells where the next one is:
\* after its length, or at the shown target of a jump, a call or a taken branch.
\* A call whose pushes overwrite its own operand goes elsewhere.
DisassemblerPredictsPC ==
    [][Step /\ Meta.mnemonic \notin {"BRK", "RTS", "RTI"} /\ Meta.mode # "Ind"
            /\ (Meta.mnemonic = "JSR" => At(2) \notin {Stack(0), Stack(-1)}) =>
          LET shown == Disassemble([k \in 0..2 |-> Mem(At(k))], cpu.PC)
              jumps == Meta.mnemonic \in {"JMP", "JSR"} \/ (Meta.mode = "Rel" /\ Taken)
          IN  cpu'.PC = IF jumps THEN shown.operand ELSE (cpu.PC + shown.length) % 65536]_vars

\* RTS goes to the instruction after the JSR whose return address is on top of
\* the stack and was not overwritten, whatever was pushed and pulled in between
\* and wherever the stack pointer wrapped.
CallsReturn ==
    [][rts => \A f \in frames : f.sp = cpu.SP => cpu'.PC = f.ret]_vars
===============================================================================
