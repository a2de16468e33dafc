--------------------------- MODULE InstructionsProofs ---------------------------
(***************************************************************************)
(* Proofs about the instruction set: types and widths, bus cycles against  *)
(* the opcode table, pointers, the disassembler, and calls.                *)
(***************************************************************************)
EXTENDS Instructions, WellFoundedInduction, TLAPS

-------------------------------------------------------------------------------
(* The opcode table.                                                         *)

\* What the table's entries have in common: the modes of each family of
\* mnemonics, and their base cycles.
ReadCycles == [Imm |-> 2, Zp |-> 3, ZpX |-> 4, ZpY |-> 4, Abs |-> 4, AbsX |-> 4, AbsY |-> 4,
               IndX |-> 6, IndY |-> 5]
StoreCycles == [Zp |-> 3, ZpX |-> 4, ZpY |-> 4, Abs |-> 4, AbsX |-> 5, AbsY |-> 5, IndX |-> 6, IndY |-> 6]
RmwCycles == [A |-> 2, Zp |-> 5, ZpX |-> 6, Abs |-> 6, AbsX |-> 7]
JumpCycles == [Abs |-> 3, Ind |-> 5]
Quick == DOMAIN Transfers \cup DOMAIN FlagOps \cup DOMAIN Counters \cup {"TXS", "NOP"}
StackCycles == [BRK |-> 7, RTI |-> 6, RTS |-> 6, PHA |-> 3, PHP |-> 3, PLA |-> 4, PLP |-> 4]

Regular(mnemonic, mode, cycles) ==
    \/ mnemonic \in ReadOps /\ mode \in DOMAIN ReadCycles /\ cycles = ReadCycles[mode]
    \/ mnemonic \in DOMAIN StoreOps /\ mode \in DOMAIN StoreCycles /\ cycles = StoreCycles[mode]
    \/ mnemonic \in RmwOps /\ mode \in DOMAIN RmwCycles /\ cycles = RmwCycles[mode]
    \/ mnemonic \in Quick /\ mode = "Imp" /\ cycles = 2
    \/ mnemonic \in DOMAIN Branches /\ mode = "Rel" /\ cycles = 2
    \/ mnemonic = "JMP" /\ mode \in DOMAIN JumpCycles /\ cycles = JumpCycles[mode]
    \/ mnemonic = "JSR" /\ mode = "Abs" /\ cycles = 6
    \/ mnemonic \in DOMAIN StackCycles /\ mode = "Imp" /\ cycles = StackCycles[mnemonic]

LEMMA LowRegular == \A e \in EntriesLow : Regular(e[2], e[3], e[4])
  BY DEF EntriesLow, Regular, ReadOps, StoreOps, RmwOps, Transfers, FlagOps, Counters, Branches,
         ReadCycles, StoreCycles, RmwCycles, JumpCycles, Quick, StackCycles

LEMMA HighRegular == \A e \in EntriesHigh : Regular(e[2], e[3], e[4])
  BY DEF EntriesHigh, Regular, ReadOps, StoreOps, RmwOps, Transfers, FlagOps, Counters, Branches,
         ReadCycles, StoreCycles, RmwCycles, JumpCycles, Quick, StackCycles

\* Every byte decodes to an illegal opcode or to a regular entry.
LEMMA TableRegular ==
    ASSUME NEW op \in Byte
    PROVE  \/ opcodeMeta[op] = IllegalMeta
           \/ LET m == opcodeMeta[op] IN
              /\ m = [mnemonic |-> m.mnemonic, mode |-> m.mode, cycles |-> m.cycles,
                      length |-> modeBytes[m.mode], illegal |-> FALSE]
              /\ Regular(m.mnemonic, m.mode, m.cycles)
<1> DEFINE entries == EntriesLow \cup EntriesHigh
           e == CHOOSE x \in entries : x[1] = op
<1>1. CASE \E x \in entries : x[1] = op
  <2>1. e \in entries
    BY <1>1
  <2>2. Regular(e[2], e[3], e[4])
    BY <2>1, LowRegular, HighRegular
  <2>3. opcodeMeta[op] = Entry(e)
    BY <1>1 DEF opcodeMeta, Byte
  <2> HIDE DEF e
  <2> QED BY <2>2, <2>3 DEF Entry
<1>2. CASE ~\E x \in entries : x[1] = op
  BY <1>2 DEF opcodeMeta, Byte
<1> QED BY <1>1, <1>2

-------------------------------------------------------------------------------
(* Bytes and words.                                                          *)

LEMMA Ranges == \A n \in Int : \A x : x \in 0..n <=> (x \in Int /\ 0 <= x /\ x <= n)
  OBVIOUS

LEMMA ByteIs == \A x : x \in Byte <=> (x \in Int /\ 0 <= x /\ x <= 255)
<1>1. PICK n \in Int : n = 255
  OBVIOUS
<1>2. Byte = 0..n
  BY <1>1 DEF Byte
<1>3. \A x : x \in Byte <=> (x \in Int /\ 0 <= x /\ x <= n)
  BY <1>2, Ranges, Zenon
<1> QED BY <1>1, <1>3

LEMMA WordIs == \A x : x \in Word <=> (x \in Int /\ 0 <= x /\ x <= 65535)
<1>1. PICK n \in Int : n = 65535
  OBVIOUS
<1>2. Word = 0..n
  BY <1>1 DEF Word
<1>3. \A x : x \in Word <=> (x \in Int /\ 0 <= x /\ x <= n)
  BY <1>2, Ranges, Zenon
<1> QED BY <1>1, <1>3

LEMMA Mods == \A i \in Int : i % 256 \in Byte /\ i % 65536 \in Word
  BY WordIs, ByteIs

LEMMA Split == ASSUME NEW w \in Word PROVE Hi(w) \in Byte /\ Lo(w) \in Byte /\ MakeWord(Lo(w), Hi(w)) = w
  BY WordIs, ByteIs DEF Hi, Lo, MakeWord

LEMMA Join ==
    ASSUME NEW l \in Byte, NEW h \in Byte
    PROVE  MakeWord(l, h) \in Word /\ Hi(MakeWord(l, h)) = h /\ Lo(MakeWord(l, h)) = l
<1> DEFINE x == l + 256 * h
<1>0. l \in Int /\ 0 <= l /\ l <= 255 /\ h \in Int /\ 0 <= h /\ h <= 255
  BY ByteIs
<1>1. x % 256 = l
  BY <1>0
<1>2. x \div 256 = h
  BY <1>0
<1>3. x \in Int /\ 0 <= x /\ x <= 65535
  BY <1>0
<1>4. MakeWord(l, h) = x
  BY DEF MakeWord
<1> HIDE DEF x
<1>5. x \in Word
  BY <1>3, WordIs
<1>6. Hi(x) = h /\ Lo(x) = l
  BY <1>1, <1>2, Zenon DEF Hi, Lo
<1> QED BY <1>4, <1>5, <1>6, Zenon

LEMMA InRange == ASSUME NEW v \in Int, 0 <= v, v <= 65535 PROVE v % 65536 = v
  OBVIOUS

LEMMA BelowRange == ASSUME NEW v \in Int, v < 0, -65536 <= v PROVE v % 65536 = v + 65536
  OBVIOUS

LEMMA AboveRange == ASSUME NEW v \in Int, 65536 <= v, v <= 131071 PROVE v % 65536 = v - 65536
  OBVIOUS

LEMMA BackAndOn == ASSUME NEW w \in Word PROVE (((w - 1) % 65536) + 1) % 65536 = w /\ (w - 1) % 65536 \in Word
<1> DEFINE b == w - 1
           m == b % 65536
           n == m + 1
<1>1. w \in Int /\ 0 <= w /\ w <= 65535
  BY WordIs
<1>2. b \in Int /\ b + 1 = w
  BY <1>1
<1> HIDE DEF b
<1>3. ASSUME b < 0 PROVE n % 65536 = w /\ m \in Word
  <2>1. m = b + 65536
    BY <1>1, <1>2, <1>3, BelowRange
  <2> HIDE DEF m
  <2>2. m = 65535 /\ n = 65536 /\ w = 0
    BY <1>1, <1>2, <1>3, <2>1
  <2> HIDE DEF n
  <2>3. n % 65536 = n - 65536
    BY <2>2, AboveRange
  <2> QED BY <2>2, <2>3, WordIs
<1>4. ASSUME 0 <= b PROVE n % 65536 = w /\ m \in Word
  <2>1. m = b
    BY <1>1, <1>2, <1>4, InRange
  <2> HIDE DEF m
  <2>2. n = w
    BY <1>2, <2>1
  <2> HIDE DEF n
  <2>3. n % 65536 = n
    BY <1>1, <2>2, InRange
  <2>4. b \in Word
    BY <1>1, <1>2, <1>4, WordIs
  <2> QED BY <2>1, <2>2, <2>3, <2>4
<1> HIDE DEF m, n
<1>5. n % 65536 = w /\ m \in Word
  BY <1>2, <1>3, <1>4
<1> QED BY <1>5 DEF n, m, b

LEMMA FlagTypes ==
    /\ \A S \in SUBSET Flags, f \in Flags : \A on : SetFlag(S, f, on) \in SUBSET Flags
    /\ \A S \in SUBSET Flags : \A v : SetNZ(S, v) \in SUBSET Flags
    /\ \A v : Decode(v) \in SUBSET Flags /\ PulledStatus(v) \in SUBSET Flags
    /\ \A S : Encode(S) \in Byte
<1>1. \A S \in SUBSET Flags, f \in Flags : \A on : SetFlag(S, f, on) \in SUBSET Flags
  BY DEF SetFlag
<1>2. "Z" \in Flags /\ "N" \in Flags /\ "U" \in Flags
  BY DEF Flags
<1>3. \A S \in SUBSET Flags : \A v : SetNZ(S, v) \in SUBSET Flags
  BY <1>1, <1>2, Zenon DEF SetNZ
<1>4. \A v : Decode(v) \in SUBSET Flags
  BY DEF Decode
<1>5. \A v : PulledStatus(v) \in SUBSET Flags
  BY <1>2, <1>4 DEF PulledStatus
<1>6. \A S : Encode(S) \in Byte
  BY ByteIs DEF Encode, Weight
<1> QED BY <1>1, <1>3, <1>4, <1>5, <1>6

LEMMA BinaryType ==
    ASSUME NEW a \in Byte, NEW m \in Byte, NEW S \in SUBSET Flags
    PROVE  Binary(a, S, m).A \in Byte /\ Binary(a, S, m).P \in SUBSET Flags
<1>1. "C" \in Flags /\ "V" \in Flags
  BY DEF Flags
<1>2. a + m + CarryIn(S) \in Int
  BY ByteIs DEF CarryIn
<1> QED BY <1>1, <1>2, Mods, FlagTypes DEF Binary

\* ADC, SBC, shifts and logic leave bytes and flags.
LEMMA AdcSbcType ==
    ASSUME NEW a \in Byte, NEW m \in Byte, NEW S \in SUBSET Flags
    PROVE  /\ opAdc(a, S, m).A \in Byte /\ opAdc(a, S, m).P \in SUBSET Flags
           /\ opSbc(a, S, m).A \in Byte /\ opSbc(a, S, m).P \in SUBSET Flags
<1>1. {"C", "Z", "V", "N"} \subseteq Flags
  BY DEF Flags
<1>2. 255 - m \in Byte
  BY ByteIs
<1>3. adcBCD(a, S, m).A \in Byte /\ sbcBCD(a, S, m).A \in Byte
  <2>1. CarryIn(S) \in Int /\ LowNibble(a) \in Int /\ LowNibble(m) \in Int
        /\ HighNibble(a) \in Int /\ HighNibble(m) \in Int
    BY ByteIs DEF CarryIn, LowNibble, HighNibble
  <2> QED BY <2>1, Mods DEF adcBCD, sbcBCD
<1>4. adcBCD(a, S, m).P \in SUBSET Flags
  BY <1>1, FlagTypes DEF adcBCD
<1>5. sbcBCD(a, S, m).P \in SUBSET Flags
  BY <1>2, BinaryType DEF sbcBCD
<1> QED BY <1>2, <1>3, <1>4, <1>5, BinaryType DEF opAdc, opSbc

LEMMA ModifyType ==
    ASSUME NEW op \in RmwOps, NEW S \in SUBSET Flags, NEW v \in Byte
    PROVE  Modify(op, S, v).v \in Byte /\ Modify(op, S, v).P \in SUBSET Flags
<1>1. "C" \in Flags
  BY DEF Flags
<1>2. \A x, carry : Modified(S, x, carry).P \in SUBSET Flags /\ Modified(S, x, carry).v = x
  BY <1>1, FlagTypes DEF Modified
<1>3. /\ (2 * v) % 256 \in Byte /\ v \div 2 \in Byte
      /\ ((2 * v) % 256) + CarryIn(S) \in Byte /\ (v \div 2) + (128 * CarryIn(S)) \in Byte
      /\ (v + 1) % 256 \in Byte /\ (v - 1) % 256 \in Byte
  BY ByteIs DEF CarryIn
<1> QED BY <1>2, <1>3 DEF Modify, RmwOps

-------------------------------------------------------------------------------
(* Memory and bus cycles.                                                    *)

LEMMA LeastNatural == ASSUME NEW S \in SUBSET Nat, S # {} PROVE \E n \in S : \A m \in S : n <= m
<1> DEFINE Less == {p \in Nat \X Nat : p[1] < p[2]}
<1>1. IsWellFoundedOn(Less, Nat)
  BY NatLessThanWellFounded DEF OpToRel
<1>2. PICK n \in S : \A m \in S : <<m, n>> \notin Less
  <2> HIDE DEF Less
  <2> QED BY <1>1, WFMin
<1>3. ASSUME NEW m \in S PROVE ~(m < n)
  <2>1. <<m, n>> \in Nat \X Nat /\ <<m, n>> \notin Less
    BY <1>2
  <2> QED BY <2>1
<1> QED BY <1>3

\* A cell that some cycle writes has a last write.
LEMMA LastWriteIs ==
    ASSUME NEW cycles \in Seq(Cycle), NEW a \in Written(cycles)
    PROVE  /\ LastWrite(cycles, a) \in Writes(cycles, a)
           /\ \A j \in Writes(cycles, a) : j <= LastWrite(cycles, a)
<1> DEFINE W == Writes(cycles, a)
           S == {Len(cycles) - i : i \in W}
<1>1. W \subseteq 1..Len(cycles) /\ W # {} /\ Len(cycles) \in Nat
  BY DEF Written, Writes
<1>2. S \in SUBSET Nat /\ S # {}
  BY <1>1
<1>3. PICK n \in S : \A m \in S : n <= m
  BY <1>2, LeastNatural
<1>4. PICK i \in W : n = Len(cycles) - i
  BY <1>3
<1>5. ASSUME NEW j \in W PROVE j <= i
  <2>1. Len(cycles) - j \in S
    OBVIOUS
  <2>2. n <= Len(cycles) - j /\ i \in Int /\ j \in Int /\ Len(cycles) \in Int
    BY <2>1, <1>1, <1>3
  <2> QED BY <2>2, <1>4
<1>6. \E x \in W : \A j \in W : j <= x
  BY <1>5
<1> QED BY <1>6 DEF LastWrite

\* Writing bytes leaves a memory of bytes, and what is not written stays.
LEMMA AfterType ==
    ASSUME NEW c, DOMAIN c \subseteq Word, \A a \in DOMAIN c : c[a] \in Byte, NEW cycles \in Seq(Cycle)
    PROVE  LET m == After(c, cycles) IN
           /\ DOMAIN m \subseteq Word /\ \A a \in DOMAIN m : m[a] \in Byte
<1>1. \A i \in DOMAIN cycles : cycles[i] \in Cycle
  OBVIOUS
<1>2. Written(cycles) \subseteq Word
  BY <1>1 DEF Written, Cycle
<1>3. \A a \in Written(cycles) : cycles[LastWrite(cycles, a)].value \in Byte
  BY <1>1, LastWriteIs DEF Writes, Cycle
<1> QED BY <1>2, <1>3 DEF After

LEMMA AfterKeeps ==
    ASSUME NEW c, NEW cycles, NEW a, a \notin Written(cycles)
    PROVE  MemIn(After(c, cycles), a) = MemIn(c, a)
  BY DEF MemIn, After

LEMMA MemType == ASSUME TypeOK, NEW a \in Word PROVE Mem(a) \in Byte
  BY InstructionsAssumption DEF TypeOK, Mem, MemIn

LEMMA ReadsType ==
    ASSUME TypeOK, NEW addrs \in Seq(Word)
    PROVE  /\ Reads(addrs) \in Seq(Cycle) /\ Len(Reads(addrs)) = Len(addrs)
           /\ \A i \in 1..Len(addrs) : Reads(addrs)[i] = ReadCycle(addrs[i])
<1>1. \A a \in Word : ReadCycle(a) \in Cycle
  BY MemType DEF ReadCycle, Cycle
<1> QED BY <1>1 DEF Reads

LEMMA WriteType == \A a \in Word, v \in Byte : WriteCycle(a, v) \in Cycle
  BY DEF WriteCycle, Cycle

\* No read writes a cell.
LEMMA ReadsWriteNothing ==
    ASSUME NEW addrs PROVE Written(Reads(addrs)) = {}
  BY DEF Written, Reads, ReadCycle

-------------------------------------------------------------------------------
(* Effective addresses.                                                      *)

LEMMA RegisterTypes ==
    ASSUME TypeOK
    PROVE  /\ cpu.A \in Byte /\ cpu.X \in Byte /\ cpu.Y \in Byte /\ cpu.SP \in Byte
           /\ cpu.PC \in Word /\ cpu.P \in SUBSET Flags
<1>1. cpu \in Registers
  BY DEF TypeOK
<1> QED BY <1>1 DEF Registers

LEMMA Numbers == /\ \A b \in Byte : b \in Int /\ 0 <= b /\ b <= 255
                 /\ \A w \in Word : w \in Int /\ 0 <= w /\ w <= 65535
  BY ByteIs, WordIs

LEMMA AtType == ASSUME TypeOK, NEW k \in Nat PROVE At(k) \in Word
<1>1. cpu.PC + k \in Int
  BY RegisterTypes, Numbers
<1> QED BY <1>1, Mods DEF At

LEMMA StackType == ASSUME TypeOK, NEW k \in Int PROVE Stack(k) \in Word
<1>1. cpu.SP + k \in Int
  BY RegisterTypes, Numbers
<1> DEFINE s == (cpu.SP + k) % 256
<1>2. s \in Byte
  BY <1>1, Mods
<1>3. Stack(k) = 256 + s
  BY DEF Stack
<1> HIDE DEF s
<1> QED BY <1>2, <1>3, ByteIs, WordIs

LEMMA OperandTypes == ASSUME TypeOK PROVE Operand1 \in Byte /\ OperandWord \in Word
<1>1. At(1) \in Word /\ At(2) \in Word
  BY AtType
<1>2. Mem(At(1)) \in Byte /\ Mem(At(2)) \in Byte
  BY <1>1, MemType
<1> QED BY <1>2, Join DEF Operand1, OperandWord

LEMMA ByteIsWord == ASSUME NEW b \in Byte PROVE b \in Word /\ Hi(b) = 0
<1>1. b \in Int /\ 0 <= b /\ b <= 255
  BY ByteIs
<1>2. b \in Word
  BY <1>1, WordIs
<1>3. b \div 256 = 0
  BY <1>1
<1> QED BY <1>2, <1>3, Zenon DEF Hi

LEMMA SamePageType == ASSUME NEW p \in Word PROVE SamePage(p) \in Word /\ Hi(SamePage(p)) = Hi(p)
<1>1. Hi(p) \in Byte /\ Lo(p) \in Byte
  BY Split
<1>2. (Lo(p) + 1) % 256 \in Byte
  BY <1>1, Mods, ByteIs
<1> DEFINE l == (Lo(p) + 1) % 256
<1>3. MakeWord(l, Hi(p)) \in Word /\ Hi(MakeWord(l, Hi(p))) = Hi(p)
  <2> HIDE DEF l
  <2> QED BY <1>1, <1>2, Join DEF l
<1> QED BY <1>3 DEF SamePage

LEMMA PointerType == ASSUME TypeOK, NEW p \in Word PROVE Pointer(p) \in Word
  BY SamePageType, MemType, Join DEF Pointer

LEMMA Joined ==
    ASSUME NEW T, NEW s \in Seq(T), NEW t \in Seq(T)
    PROVE  /\ s \o t \in Seq(T) /\ Len(s \o t) = Len(s) + Len(t)
           /\ \A k \in 1..Len(s) : (s \o t)[k] = s[k]
           /\ \A k \in 1..Len(t) : (s \o t)[Len(s) + k] = t[k]
  OBVIOUS

LEMMA Appended ==
    ASSUME NEW T, NEW s \in Seq(T), NEW x \in T
    PROVE  /\ Append(s, x) \in Seq(T) /\ Len(Append(s, x)) = Len(s) + 1
           /\ \A k \in 1..Len(s) : Append(s, x)[k] = s[k]
           /\ Append(s, x)[Len(s) + 1] = x
  OBVIOUS

\* An indexed address is a word, and costs a read when it leaves the page.
Fixup(base, i, penalty) == IF penalty = "always" \/ Hi(base) # Hi((base + i) % 65536) THEN 1 ELSE 0

LEMMA IndexedType ==
    ASSUME NEW base \in Word, NEW i \in Int
    PROVE  /\ (base + i) % 65536 \in Word
           /\ MakeWord(Lo((base + i) % 65536), Hi(base)) \in Word
<1> DEFINE addr == (base + i) % 65536
<1>1. addr \in Word
  <2>1. base + i \in Int
    BY Numbers
  <2> QED BY <2>1, Mods
<1>2. MakeWord(Lo(addr), Hi(base)) \in Word
  <2> HIDE DEF addr
  <2> QED BY <1>1, Split, Join
<1> QED BY <1>1, <1>2

\* What every mode that names a cell computes and how many reads it makes.
Indexing == {"AbsX", "AbsY", "IndY"}
EffReads == [Imm |-> 0, Zp |-> 1, ZpX |-> 2, ZpY |-> 2, Abs |-> 2, AbsX |-> 2, AbsY |-> 2,
             Ind |-> 4, IndX |-> 4, IndY |-> 3]
BaseOf(mode) == IF mode = "IndY" THEN Pointer(Operand1) ELSE OperandWord
IndexOf(mode) == IF mode = "AbsX" THEN cpu.X ELSE cpu.Y
Extra(mode, penalty) ==
    IF mode \in Indexing THEN Fixup(BaseOf(mode), IndexOf(mode), penalty) ELSE 0

LEMMA EffType ==
    ASSUME TypeOK, NEW mode \in DOMAIN EffReads, NEW penalty \in {"always", "crossing"}
    PROVE  LET e == Eff(mode, penalty) IN
           /\ e.addr \in Word /\ e.reads \in Seq(Word)
           /\ Len(e.reads) = EffReads[mode] + Extra(mode, penalty)
<1> DEFINE zpx == (Operand1 + cpu.X) % 256
           zpy == (Operand1 + cpu.Y) % 256
<1>1. /\ At(1) \in Word /\ At(2) \in Word /\ Operand1 \in Byte /\ Operand1 \in Word
      /\ OperandWord \in Word /\ cpu.X \in Int /\ cpu.Y \in Int
  BY AtType, OperandTypes, ByteIsWord, RegisterTypes, ByteIs
<1>2. zpx \in Word /\ zpy \in Word
  <2>1. Operand1 + cpu.X \in Int /\ Operand1 + cpu.Y \in Int
    BY <1>1, ByteIs
  <2> QED BY <2>1, Mods, ByteIsWord
<1>3. /\ Pointer(OperandWord) \in Word /\ Pointer(zpx) \in Word /\ Pointer(Operand1) \in Word
      /\ SamePage(OperandWord) \in Word /\ SamePage(zpx) \in Word /\ SamePage(Operand1) \in Word
  BY <1>1, <1>2, PointerType, SamePageType
<1> DEFINE Good == /\ Eff(mode, penalty).addr \in Word /\ Eff(mode, penalty).reads \in Seq(Word)
                   /\ Len(Eff(mode, penalty).reads) = EffReads[mode] + Extra(mode, penalty)
<1>4. ASSUME mode = "Imm" PROVE Good
  <2>1. Eff(mode, penalty) = [addr |-> At(1), reads |-> <<>>]
    BY <1>4 DEF Eff
  <2>2. EffReads[mode] = 0 /\ Extra(mode, penalty) = 0
    BY <1>4 DEF EffReads, Extra, Indexing
  <2> QED BY <2>1, <2>2, <1>1
<1>5. ASSUME mode = "Zp" PROVE Good
  <2>1. Eff(mode, penalty) = [addr |-> Operand1, reads |-> <<At(1)>>]
    BY <1>5 DEF Eff
  <2>2. EffReads[mode] = 1 /\ Extra(mode, penalty) = 0
    BY <1>5 DEF EffReads, Extra, Indexing
  <2> QED BY <2>1, <2>2, <1>1
<1>6. ASSUME mode = "ZpX" PROVE Good
  <2>1. Eff(mode, penalty) = [addr |-> zpx, reads |-> <<At(1), Operand1>>]
    BY <1>6 DEF Eff
  <2>2. EffReads[mode] = 2 /\ Extra(mode, penalty) = 0
    BY <1>6 DEF EffReads, Extra, Indexing
  <2> HIDE DEF zpx
  <2> QED BY <2>1, <2>2, <1>1, <1>2
<1>7. ASSUME mode = "ZpY" PROVE Good
  <2>1. Eff(mode, penalty) = [addr |-> zpy, reads |-> <<At(1), Operand1>>]
    BY <1>7 DEF Eff
  <2>2. EffReads[mode] = 2 /\ Extra(mode, penalty) = 0
    BY <1>7 DEF EffReads, Extra, Indexing
  <2> HIDE DEF zpy
  <2> QED BY <2>1, <2>2, <1>1, <1>2
<1>8. ASSUME mode = "Abs" PROVE Good
  <2>1. Eff(mode, penalty) = [addr |-> OperandWord, reads |-> <<At(1), At(2)>>]
    BY <1>8 DEF Eff
  <2>2. EffReads[mode] = 2 /\ Extra(mode, penalty) = 0
    BY <1>8 DEF EffReads, Extra, Indexing
  <2> QED BY <2>1, <2>2, <1>1
<1>9. ASSUME mode = "Ind" PROVE Good
  <2>1. Eff(mode, penalty) = [addr |-> Pointer(OperandWord),
                             reads |-> <<At(1), At(2), OperandWord, SamePage(OperandWord)>>]
    BY <1>9 DEF Eff
  <2>2. EffReads[mode] = 4 /\ Extra(mode, penalty) = 0
    BY <1>9 DEF EffReads, Extra, Indexing
  <2> QED BY <2>1, <2>2, <1>1, <1>3
<1>10. ASSUME mode = "IndX" PROVE Good
  <2>1. Eff(mode, penalty) = [addr |-> Pointer(zpx), reads |-> <<At(1), Operand1, zpx, SamePage(zpx)>>]
    BY <1>10 DEF Eff
  <2>2. EffReads[mode] = 4 /\ Extra(mode, penalty) = 0
    BY <1>10 DEF EffReads, Extra, Indexing
  <2> HIDE DEF zpx
  <2> QED BY <2>1, <2>2, <1>1, <1>2, <1>3
<1>11. ASSUME mode \in {"AbsX", "AbsY"} PROVE Good
  <2>1. Eff(mode, penalty) = Indexed(BaseOf(mode), IndexOf(mode), <<At(1), At(2)>>, penalty)
    BY <1>11 DEF Eff, BaseOf, IndexOf
  <2>2. EffReads[mode] = 2 /\ mode \in Indexing
    BY <1>11 DEF EffReads, Indexing
  <2>3. BaseOf(mode) \in Word /\ IndexOf(mode) \in Int
    BY <1>1, <1>3 DEF BaseOf, IndexOf
  <2> DEFINE base == BaseOf(mode)
             i == IndexOf(mode)
             r == <<At(1), At(2)>>
  <2>5. r \in Seq(Word) /\ Len(r) = 2
    BY <1>1, <1>3
  <2>4. Extra(mode, penalty) = Fixup(base, i, penalty) /\ base \in Word /\ i \in Int
    BY <2>2, <2>3 DEF Extra
  <2> HIDE DEF base, i, r
  <2>6. /\ Indexed(base, i, r, penalty).addr \in Word /\ Indexed(base, i, r, penalty).reads \in Seq(Word)
        /\ Len(Indexed(base, i, r, penalty).reads) = Len(r) + Fixup(base, i, penalty)
    <3> DEFINE to == (base + i) % 65536
               wrong == MakeWord(Lo(to), Hi(base))
    <3>1. to \in Word /\ wrong \in Word
      BY <2>4, IndexedType
    <3>2. Indexed(base, i, r, penalty) =
            [addr |-> to, reads |-> IF penalty = "always" \/ Hi(base) # Hi(to) THEN Append(r, wrong) ELSE r]
      BY DEF Indexed
    <3>3. Fixup(base, i, penalty) = IF penalty = "always" \/ Hi(base) # Hi(to) THEN 1 ELSE 0
      BY DEF Fixup
    <3> HIDE DEF to, wrong
    <3>4. CASE penalty = "always" \/ Hi(base) # Hi(to)
      <4>1. Indexed(base, i, r, penalty) = [addr |-> to, reads |-> Append(r, wrong)]
        BY <3>2, <3>4, Zenon
      <4>2. Fixup(base, i, penalty) = 1
        BY <3>3, <3>4, Zenon
      <4>3. Append(r, wrong) \in Seq(Word) /\ Len(Append(r, wrong)) = Len(r) + 1
        BY <3>1, <2>5, Appended, Zenon
      <4> QED BY <3>1, <4>1, <4>2, <4>3
    <3>5. CASE ~(penalty = "always" \/ Hi(base) # Hi(to))
      <4>1. Indexed(base, i, r, penalty) = [addr |-> to, reads |-> r]
        BY <3>2, <3>5, Zenon
      <4>2. Fixup(base, i, penalty) = 0
        BY <3>3, <3>5, Zenon
      <4> QED BY <3>1, <2>5, <4>1, <4>2
    <3> QED BY <3>4, <3>5, Zenon
  <2>7. Eff(mode, penalty) = Indexed(base, i, r, penalty)
    BY <2>1 DEF base, i, r
  <2> QED BY <2>2, <2>4, <2>5, <2>6, <2>7
<1>12. ASSUME mode = "IndY" PROVE Good
  <2>1. Eff(mode, penalty) = Indexed(BaseOf(mode), IndexOf(mode), <<At(1), Operand1, SamePage(Operand1)>>, penalty)
    BY <1>12 DEF Eff, BaseOf, IndexOf
  <2>2. EffReads[mode] = 3 /\ mode \in Indexing
    BY <1>12 DEF EffReads, Indexing
  <2>3. BaseOf(mode) \in Word /\ IndexOf(mode) \in Int
    BY <1>1, <1>3 DEF BaseOf, IndexOf
  <2> DEFINE base == BaseOf(mode)
             i == IndexOf(mode)
             r == <<At(1), Operand1, SamePage(Operand1)>>
  <2>5. r \in Seq(Word) /\ Len(r) = 3
    BY <1>1, <1>3
  <2>4. Extra(mode, penalty) = Fixup(base, i, penalty) /\ base \in Word /\ i \in Int
    BY <2>2, <2>3 DEF Extra
  <2> HIDE DEF base, i, r
  <2>6. /\ Indexed(base, i, r, penalty).addr \in Word /\ Indexed(base, i, r, penalty).reads \in Seq(Word)
        /\ Len(Indexed(base, i, r, penalty).reads) = Len(r) + Fixup(base, i, penalty)
    <3> DEFINE to == (base + i) % 65536
               wrong == MakeWord(Lo(to), Hi(base))
    <3>1. to \in Word /\ wrong \in Word
      BY <2>4, IndexedType
    <3>2. Indexed(base, i, r, penalty) =
            [addr |-> to, reads |-> IF penalty = "always" \/ Hi(base) # Hi(to) THEN Append(r, wrong) ELSE r]
      BY DEF Indexed
    <3>3. Fixup(base, i, penalty) = IF penalty = "always" \/ Hi(base) # Hi(to) THEN 1 ELSE 0
      BY DEF Fixup
    <3> HIDE DEF to, wrong
    <3>4. CASE penalty = "always" \/ Hi(base) # Hi(to)
      <4>1. Indexed(base, i, r, penalty) = [addr |-> to, reads |-> Append(r, wrong)]
        BY <3>2, <3>4, Zenon
      <4>2. Fixup(base, i, penalty) = 1
        BY <3>3, <3>4, Zenon
      <4>3. Append(r, wrong) \in Seq(Word) /\ Len(Append(r, wrong)) = Len(r) + 1
        BY <3>1, <2>5, Appended, Zenon
      <4> QED BY <3>1, <4>1, <4>2, <4>3
    <3>5. CASE ~(penalty = "always" \/ Hi(base) # Hi(to))
      <4>1. Indexed(base, i, r, penalty) = [addr |-> to, reads |-> r]
        BY <3>2, <3>5, Zenon
      <4>2. Fixup(base, i, penalty) = 0
        BY <3>3, <3>5, Zenon
      <4> QED BY <3>1, <2>5, <4>1, <4>2
    <3> QED BY <3>4, <3>5, Zenon
  <2>7. Eff(mode, penalty) = Indexed(base, i, r, penalty)
    BY <2>1 DEF base, i, r
  <2> QED BY <2>2, <2>4, <2>5, <2>6, <2>7
<1> HIDE DEF Good
<1>13. Good
  BY <1>4, <1>5, <1>6, <1>7, <1>8, <1>9, <1>10, <1>11, <1>12 DEF EffReads
<1> QED BY <1>13 DEF Good

-------------------------------------------------------------------------------
(* The entry of the instruction at PC.                                       *)

\* No mnemonic belongs to two families.
LEMMA FamiliesDisjoint ==
    ASSUME NEW m
    PROVE  /\ m \in ReadOps => m \notin DOMAIN StoreOps /\ m \notin RmwOps /\ m \notin Quick
                                /\ m \notin DOMAIN Branches /\ m \notin {"JMP", "JSR", "???"}
                                /\ m \notin DOMAIN StackCycles
           /\ m \in DOMAIN StoreOps => m \notin RmwOps /\ m \notin Quick /\ m \notin DOMAIN Branches
                                /\ m \notin {"JMP", "JSR", "???"} /\ m \notin DOMAIN StackCycles
           /\ m \in RmwOps => m \notin Quick /\ m \notin DOMAIN Branches
                                /\ m \notin {"JMP", "JSR", "???"} /\ m \notin DOMAIN StackCycles
           /\ m \in Quick => m \notin DOMAIN Branches
                                /\ m \notin {"JMP", "JSR", "???"} /\ m \notin DOMAIN StackCycles
           /\ m \in DOMAIN Branches => m \notin {"JMP", "JSR", "???"} /\ m \notin DOMAIN StackCycles
           /\ m \in DOMAIN StackCycles => m \notin {"JMP", "JSR", "???"}
  BY DEF ReadOps, StoreOps, RmwOps, Transfers, FlagOps, Counters, Branches, Quick, StackCycles

LEMMA MetaIs ==
    ASSUME TypeOK
    PROVE  \/ Meta = IllegalMeta
           \/ /\ ~Meta.illegal /\ Meta.length = modeBytes[Meta.mode]
              /\ Regular(Meta.mnemonic, Meta.mode, Meta.cycles)
<1> DEFINE op == Mem(cpu.PC)
<1>1. op \in Byte
  BY RegisterTypes, MemType
<1>2. Meta = opcodeMeta[op]
  BY DEF Meta
<1> HIDE DEF op
<1>3. \/ Meta = IllegalMeta
      \/ /\ Meta = [mnemonic |-> Meta.mnemonic, mode |-> Meta.mode, cycles |-> Meta.cycles,
                    length |-> modeBytes[Meta.mode], illegal |-> FALSE]
         /\ Regular(Meta.mnemonic, Meta.mode, Meta.cycles)
  BY <1>1, <1>2, TableRegular, Zenon
<1> QED BY <1>3

\* The entry, family by family.
LEMMA MetaFamily ==
    ASSUME TypeOK
    PROVE  /\ Meta.mnemonic \in ReadOps =>
                 Meta.mode \in DOMAIN ReadCycles /\ Meta.cycles = ReadCycles[Meta.mode]
           /\ Meta.mnemonic \in DOMAIN StoreOps =>
                 Meta.mode \in DOMAIN StoreCycles /\ Meta.cycles = StoreCycles[Meta.mode]
           /\ Meta.mnemonic \in RmwOps =>
                 Meta.mode \in DOMAIN RmwCycles /\ Meta.cycles = RmwCycles[Meta.mode]
           /\ Meta.mnemonic \in Quick => Meta.mode = "Imp" /\ Meta.cycles = 2
           /\ Meta.mnemonic \in DOMAIN Branches => Meta.mode = "Rel" /\ Meta.cycles = 2
           /\ Meta.mnemonic = "JMP" =>
                 Meta.mode \in DOMAIN JumpCycles /\ Meta.cycles = JumpCycles[Meta.mode]
           /\ Meta.mnemonic = "JSR" => Meta.mode = "Abs" /\ Meta.cycles = 6
           /\ Meta.mnemonic \in DOMAIN StackCycles =>
                 Meta.mode = "Imp" /\ Meta.cycles = StackCycles[Meta.mnemonic]
           /\ Meta.mnemonic = "???" => Meta = IllegalMeta
           /\ Meta.illegal => Meta = IllegalMeta
           /\ Meta.length = modeBytes[Meta.mode]
<1> DEFINE m == Meta.mnemonic
           d == Meta.mode
           y == Meta.cycles
<1>1. CASE Meta = IllegalMeta
  <2>1. m = "???" /\ d = "Imp" /\ Meta.length = 1 /\ modeBytes["Imp"] = 1
    BY <1>1 DEF IllegalMeta, modeBytes
  <2> HIDE DEF m, d
  <2>2. /\ m \notin ReadOps /\ m \notin DOMAIN StoreOps /\ m \notin RmwOps /\ m \notin Quick
        /\ m \notin DOMAIN Branches /\ m \notin DOMAIN StackCycles /\ m # "JMP" /\ m # "JSR"
    BY <2>1, FamiliesDisjoint
  <2> QED BY <1>1, <2>1, <2>2 DEF m, d
<1>2. CASE ~Meta.illegal /\ Meta.length = modeBytes[Meta.mode] /\ Regular(m, d, y)
  <2> HIDE DEF m, d, y
  <2>1. Regular(m, d, y) /\ ~Meta.illegal /\ Meta.length = modeBytes[d]
    BY <1>2 DEF d
  <2>2. m \in ReadOps => d \in DOMAIN ReadCycles /\ y = ReadCycles[d]
    BY <2>1, FamiliesDisjoint DEF Regular
  <2>3. m \in DOMAIN StoreOps => d \in DOMAIN StoreCycles /\ y = StoreCycles[d]
    BY <2>1, FamiliesDisjoint DEF Regular
  <2>4. m \in RmwOps => d \in DOMAIN RmwCycles /\ y = RmwCycles[d]
    BY <2>1, FamiliesDisjoint DEF Regular
  <2>5. m \in Quick => d = "Imp" /\ y = 2
    BY <2>1, FamiliesDisjoint DEF Regular
  <2>6. m \in DOMAIN Branches => d = "Rel" /\ y = 2
    BY <2>1, FamiliesDisjoint DEF Regular
  <2>7. m = "JMP" => d \in DOMAIN JumpCycles /\ y = JumpCycles[d]
    BY <2>1, FamiliesDisjoint DEF Regular
  <2>8. m = "JSR" => d = "Abs" /\ y = 6
    BY <2>1, FamiliesDisjoint DEF Regular
  <2>9. m \in DOMAIN StackCycles => d = "Imp" /\ y = StackCycles[m]
    BY <2>1, FamiliesDisjoint DEF Regular
  <2>10. m # "???"
    BY <2>1, FamiliesDisjoint DEF Regular
  <2> QED BY <2>1, <2>2, <2>3, <2>4, <2>5, <2>6, <2>7, <2>8, <2>9, <2>10, Zenon DEF m, d, y
<1> QED BY <1>1, <1>2, MetaIs

LEMMA LengthIs == ASSUME TypeOK PROVE Meta.length \in 1..3
<1>1. \A d \in DOMAIN modeBytes : modeBytes[d] \in 1..3
  BY DEF modeBytes
<1>2. Meta.mode \in DOMAIN modeBytes
  BY MetaIs DEF IllegalMeta, Regular, modeBytes, ReadCycles, StoreCycles, RmwCycles, JumpCycles
<1> QED BY <1>1, <1>2, MetaFamily

LEMMA FollowingType == ASSUME TypeOK PROVE Following \in Word
<1>1. cpu.PC + Meta.length \in Int
  BY RegisterTypes, Numbers, LengthIs
<1> QED BY <1>1, Mods DEF Following

-------------------------------------------------------------------------------
(* The registers an instruction leaves.                                      *)

LEMMA SetRegType ==
    ASSUME TypeOK, NEW reg \in {"A", "X", "Y", "SP"}, NEW v \in Byte, NEW S \in SUBSET Flags
    PROVE  SetReg(reg, v, S) \in Registers /\ SetReg(reg, v, S).PC = Following
<1>1. cpu \in Registers /\ Following \in Word
  BY FollowingType DEF TypeOK
<1>2. CASE reg = "A"
  BY <1>1, <1>2 DEF SetReg, Registers
<1>3. CASE reg = "X"
  BY <1>1, <1>3 DEF SetReg, Registers
<1>4. CASE reg = "Y"
  BY <1>1, <1>4 DEF SetReg, Registers
<1>5. CASE reg = "SP"
  BY <1>1, <1>5 DEF SetReg, Registers
<1> QED BY <1>2, <1>3, <1>4, <1>5

LEMMA FlaggedType ==
    ASSUME TypeOK, NEW S \in SUBSET Flags
    PROVE  Flagged(S) \in Registers /\ Flagged(S).PC = Following
<1>1. cpu \in Registers /\ Following \in Word
  BY FollowingType DEF TypeOK
<1> QED BY <1>1 DEF Flagged, Registers

LEMMA JumpType ==
    ASSUME TypeOK, NEW w \in Word
    PROVE  [cpu EXCEPT !.PC = w] \in Registers /\ [cpu EXCEPT !.PC = w].PC = w
<1>1. cpu \in Registers
  BY DEF TypeOK
<1> QED BY <1>1 DEF Registers

LEMMA LoadedType ==
    ASSUME TypeOK, NEW reg \in {"A", "X", "Y", "SP"}, NEW v \in Byte
    PROVE  Loaded(reg, v) \in Registers /\ Loaded(reg, v).PC = Following
<1>1. SetNZ(cpu.P, v) \in SUBSET Flags
  BY RegisterTypes, FlagTypes
<1> QED BY <1>1, SetRegType DEF Loaded

LEMMA ConsumedType ==
    ASSUME TypeOK, NEW op \in ReadOps, NEW m \in Byte
    PROVE  Consumed(op, m) \in Registers /\ Consumed(op, m).PC = Following
<1>1. cpu.A \in Byte /\ cpu.X \in Byte /\ cpu.Y \in Byte /\ cpu.P \in SUBSET Flags
  BY RegisterTypes
<1>2. {"C", "Z", "V", "N"} \subseteq Flags
  BY DEF Flags
<1>3. /\ \A a \in Byte : compare(cpu.P, a, m) \in SUBSET Flags
      /\ doBit(cpu.P, cpu.A, m) \in SUBSET Flags
  BY <1>1, <1>2, FlagTypes DEF compare, doBit
<1>4. And(cpu.A, m) \in Byte /\ Or(cpu.A, m) \in Byte /\ Xor(cpu.A, m) \in Byte
  BY FlagTypes DEF And, Or, Xor
<1> DEFINE Good(c) == c \in Registers /\ c.PC = Following
<1>5. \A v \in Byte : Good(Loaded("A", v)) /\ Good(Loaded("X", v)) /\ Good(Loaded("Y", v))
  BY LoadedType
<1>6. \A S \in SUBSET Flags : Good(Flagged(S))
  BY FlaggedType
<1>7. LET out == opAdc(cpu.A, cpu.P, m) IN Good(SetReg("A", out.A, out.P))
  BY <1>1, AdcSbcType, SetRegType
<1>8. LET out == opSbc(cpu.A, cpu.P, m) IN Good(SetReg("A", out.A, out.P))
  BY <1>1, AdcSbcType, SetRegType
<1> HIDE DEF Good
<1>9. ASSUME op = "LDA" PROVE Good(Consumed(op, m))
  BY <1>5, <1>9 DEF Consumed
<1>10. ASSUME op = "LDX" PROVE Good(Consumed(op, m))
  BY <1>5, <1>10 DEF Consumed
<1>11. ASSUME op = "LDY" PROVE Good(Consumed(op, m))
  BY <1>5, <1>11 DEF Consumed
<1>12. ASSUME op = "AND" PROVE Good(Consumed(op, m))
  BY <1>4, <1>5, <1>12 DEF Consumed
<1>13. ASSUME op = "ORA" PROVE Good(Consumed(op, m))
  BY <1>4, <1>5, <1>13 DEF Consumed
<1>14. ASSUME op = "EOR" PROVE Good(Consumed(op, m))
  BY <1>4, <1>5, <1>14 DEF Consumed
<1>15. ASSUME op = "ADC" PROVE Good(Consumed(op, m))
  BY <1>7, <1>15 DEF Consumed
<1>16. ASSUME op = "SBC" PROVE Good(Consumed(op, m))
  BY <1>8, <1>16 DEF Consumed
<1>17. ASSUME op = "BIT" PROVE Good(Consumed(op, m))
  BY <1>3, <1>6, <1>17 DEF Consumed
<1>18. ASSUME op = "CMP" PROVE Good(Consumed(op, m))
  BY <1>1, <1>3, <1>6, <1>18 DEF Consumed
<1>19. ASSUME op = "CPX" PROVE Good(Consumed(op, m))
  BY <1>1, <1>3, <1>6, <1>19 DEF Consumed
<1>20. ASSUME op = "CPY" PROVE Good(Consumed(op, m))
  BY <1>1, <1>3, <1>6, <1>20 DEF Consumed
<1>21. Good(Consumed(op, m))
  BY <1>9, <1>10, <1>11, <1>12, <1>13, <1>14, <1>15, <1>16, <1>17, <1>18, <1>19, <1>20 DEF ReadOps
<1> QED BY <1>21 DEF Good

-------------------------------------------------------------------------------
(* What every instruction does: it leaves registers, makes the cycles of its *)
(* entry, and reads both bytes of a pointer from one page.                   *)

PointerAt == IF Meta.mode = "IndY" THEN 2 ELSE 3
PointersOK(addrs) ==
    Meta.mode \in {"Ind", "IndX", "IndY"} =>
       /\ PointerAt + 1 <= Len(addrs)
       /\ Hi(addrs[PointerAt]) = Hi(addrs[PointerAt + 1])
       /\ Meta.mode # "Ind" => Hi(addrs[PointerAt]) = 0

Addrs(cycles) == [i \in 1..Len(cycles) |-> cycles[i].addr]

Outcome(c, cycles) ==
    /\ c \in Registers /\ cycles \in Seq(Cycle)
    /\ ~Meta.illegal => 1 + Len(cycles) = Meta.cycles + Penalty
    /\ PointersOK(Addrs(cycles))

LEMMA PenaltyOfReads == ASSUME Meta.mnemonic \in ReadOps, Meta.mode # "Rel" PROVE Penalty = Extra(Meta.mode, "crossing")
<1>1. CASE Meta.mode \in Indexing
  <2>1. BaseOf(Meta.mode) = IndexBase /\ IndexOf(Meta.mode) = Index
    BY DEF BaseOf, IndexOf, IndexBase, Index
  <2> DEFINE crosses == Hi(IndexBase) # Hi((IndexBase + Index) % 65536)
  <2>2. CASE crosses
    <3>1. Penalty = 1
      BY <1>1, <2>2 DEF Penalty, Indexing
    <3>2. Extra(Meta.mode, "crossing") = 1
      BY <1>1, <2>1, <2>2 DEF Extra, Fixup
    <3> QED BY <3>1, <3>2
  <2>3. CASE ~crosses
    <3>1. Penalty = 0
      BY <1>1, <2>3 DEF Penalty, Indexing
    <3>2. Extra(Meta.mode, "crossing") = 0
      BY <1>1, <2>1, <2>3 DEF Extra, Fixup
    <3> QED BY <3>1, <3>2
  <2> QED BY <2>2, <2>3
<1>2. CASE Meta.mode \notin Indexing
  BY <1>2 DEF Penalty, Extra, Indexing
<1> QED BY <1>1, <1>2

LEMMA NoPenalty == ASSUME Meta.mnemonic \notin ReadOps, Meta.mode # "Rel" PROVE Penalty = 0
  BY DEF Penalty

LEMMA PenaltyOfBranches ==
    ASSUME Meta.mnemonic \notin ReadOps, Meta.mode = "Rel"
    PROVE  Penalty = IF Taken THEN 1 + Fixup(At(2), Offset(Operand1), "crossing") ELSE 0
  BY DEF Penalty, Fixup

\* The pointer of an indirect mode is read from one page.
LEMMA EffPointers ==
    ASSUME TypeOK, NEW penalty \in {"always", "crossing"}, Meta.mode \in DOMAIN EffReads
    PROVE  PointersOK(Eff(Meta.mode, penalty).reads)
<1> DEFINE e == Eff(Meta.mode, penalty)
           zpx == (Operand1 + cpu.X) % 256
<1>1. Operand1 \in Byte /\ OperandWord \in Word /\ cpu.X \in Byte
  BY OperandTypes, RegisterTypes
<1>2. zpx \in Byte
  <2>1. Operand1 + cpu.X \in Int
    BY <1>1, Numbers
  <2> QED BY <2>1, Mods
<1>3. /\ Hi(SamePage(OperandWord)) = Hi(OperandWord)
      /\ Hi(zpx) = 0 /\ Hi(SamePage(zpx)) = 0 /\ Hi(Operand1) = 0 /\ Hi(SamePage(Operand1)) = 0
  BY <1>1, <1>2, ByteIsWord, SamePageType
<1>4. CASE Meta.mode = "Ind"
  <2>1. e = [addr |-> Pointer(OperandWord),
             reads |-> <<At(1), At(2), OperandWord, SamePage(OperandWord)>>]
    BY <1>4 DEF Eff
  <2>2. e.reads[3] = OperandWord /\ e.reads[4] = SamePage(OperandWord) /\ Len(e.reads) = 4
    BY <2>1
  <2> HIDE DEF e
  <2> QED BY <1>3, <1>4, <2>2 DEF PointersOK, PointerAt, e
<1>5. CASE Meta.mode = "IndX"
  <2>1. e = [addr |-> Pointer(zpx), reads |-> <<At(1), Operand1, zpx, SamePage(zpx)>>]
    BY <1>5 DEF Eff
  <2> HIDE DEF zpx
  <2>2. e.reads[3] = zpx /\ e.reads[4] = SamePage(zpx) /\ Len(e.reads) = 4
    BY <2>1
  <2> HIDE DEF e
  <2> QED BY <1>3, <1>5, <2>2 DEF PointersOK, PointerAt, e
<1>6. CASE Meta.mode = "IndY"
  <2> DEFINE base == Pointer(Operand1)
             to == (base + cpu.Y) % 65536
             wrong == MakeWord(Lo(to), Hi(base))
             r == <<At(1), Operand1, SamePage(Operand1)>>
  <2>1. e = Indexed(base, cpu.Y, r, penalty)
    BY <1>6 DEF Eff
  <2>2. e.reads = IF penalty = "always" \/ Hi(base) # Hi(to) THEN Append(r, wrong) ELSE r
    BY <2>1 DEF Indexed
  <2> HIDE DEF wrong, to, base
  <2>3. e.reads = Append(r, wrong) \/ e.reads = r
    BY <2>2, Zenon
  <2>4. e.reads[2] = Operand1 /\ e.reads[3] = SamePage(Operand1) /\ 3 <= Len(e.reads)
    <3> HIDE DEF e
    <3> QED BY <2>3
  <2> HIDE DEF e
  <2> QED BY <1>3, <1>6, <2>4 DEF PointersOK, PointerAt, e
<1>7. CASE Meta.mode \notin {"Ind", "IndX", "IndY"}
  BY <1>7 DEF PointersOK
<1> QED BY <1>4, <1>5, <1>6, <1>7

\* More cycles after the pointer do not change it.
LEMMA PointersExtend ==
    ASSUME NEW r \in Seq(Word), NEW cycles \in Seq(Cycle), PointersOK(r), Len(r) <= Len(cycles),
           \A k \in 1..Len(r) : cycles[k].addr = r[k]
    PROVE  PointersOK(Addrs(cycles))
<1>1. PointerAt \in {2, 3}
  BY DEF PointerAt
<1>2. Len(Addrs(cycles)) = Len(cycles) /\ \A k \in 1..Len(cycles) : Addrs(cycles)[k] = cycles[k].addr
  BY DEF Addrs
<1>3. \A k \in 1..Len(r) : Addrs(cycles)[k] = r[k]
  BY <1>2
<1>4. CASE Meta.mode \in {"Ind", "IndX", "IndY"}
  <2>1. PointerAt \in 1..Len(r) /\ PointerAt + 1 \in 1..Len(r)
    BY <1>1, <1>4 DEF PointersOK
  <2> QED BY <1>2, <1>3, <1>4, <2>1 DEF PointersOK
<1> QED BY <1>4 DEF PointersOK

LEMMA NoPointers ==
    ASSUME Meta.mode \notin {"Ind", "IndX", "IndY"}, NEW cycles PROVE PointersOK(cycles)
  BY DEF PointersOK

-------------------------------------------------------------------------------
(* Instruction by instruction.                                               *)

\* An instruction that goes on with the one after it.
Straight == \E c, cycles : Finish(c, cycles) /\ Outcome(c, cycles) /\ c.PC = Following

LEMMA AddrOfRead == \A a : ReadCycle(a).addr = a
  BY DEF ReadCycle

LEMMA EffIs ==
    ASSUME TypeOK, Meta.mode \in DOMAIN EffReads, NEW penalty \in {"always", "crossing"}
    PROVE  /\ Eff(Meta.mode, penalty).addr \in Word /\ Eff(Meta.mode, penalty).reads \in Seq(Word)
           /\ Len(Eff(Meta.mode, penalty).reads) = EffReads[Meta.mode] + Extra(Meta.mode, penalty)
           /\ PointersOK(Eff(Meta.mode, penalty).reads)
  BY EffType, EffPointers

LEMMA CountTypes == ASSUME NEW d \in DOMAIN EffReads, NEW penalty PROVE EffReads[d] \in Nat /\ Extra(d, penalty) \in {0, 1}
<1>1. EffReads[d] \in Nat
  BY DEF EffReads
<1>2. Extra(d, penalty) \in {0, 1}
  BY DEF Extra, Fixup
<1> QED BY <1>1, <1>2

LEMMA ReadOpRuns == ASSUME TypeOK, ReadOp PROVE Straight
<1> DEFINE d == Meta.mode
           e == Eff(d, "crossing")
           r == Append(e.reads, e.addr)
           c == Consumed(Meta.mnemonic, Mem(e.addr))
<1>1. Meta.mnemonic \in ReadOps /\ Finish(c, Reads(r))
  BY DEF ReadOp, Executes
<1>2. d \in DOMAIN ReadCycles /\ Meta.cycles = ReadCycles[d]
  BY <1>1, MetaFamily
<1>3. d \in DOMAIN EffReads /\ d # "Rel" /\ ReadCycles[d] = EffReads[d] + 2
  <2> HIDE DEF d
  <2> QED BY <1>2 DEF ReadCycles, EffReads
<1>4. /\ e.addr \in Word /\ e.reads \in Seq(Word) /\ PointersOK(e.reads)
      /\ Len(e.reads) = EffReads[d] + Extra(d, "crossing")
  BY <1>3, EffIs
<1>5. Penalty = Extra(d, "crossing") /\ EffReads[d] \in Nat /\ Extra(d, "crossing") \in {0, 1}
  BY <1>1, <1>3, PenaltyOfReads, CountTypes
<1>6. c \in Registers /\ c.PC = Following
  <2>1. Mem(e.addr) \in Byte
    BY <1>4, MemType
  <2> QED BY <1>1, <2>1, ConsumedType
<1> HIDE DEF c, e
<1>7. /\ r \in Seq(Word) /\ Len(r) = Len(e.reads) + 1
      /\ \A k \in 1..Len(e.reads) : r[k] = e.reads[k]
  BY <1>4, Appended
<1> HIDE DEF r, d
<1>8. /\ Reads(r) \in Seq(Cycle) /\ Len(Reads(r)) = Len(r)
      /\ \A i \in 1..Len(r) : Reads(r)[i] = ReadCycle(r[i])
  BY <1>7, ReadsType
<1>9. 1 + Len(Reads(r)) = Meta.cycles + Penalty
  BY <1>2, <1>3, <1>4, <1>5, <1>7, <1>8
<1>10. PointersOK(Addrs(Reads(r)))
  <2>1. ASSUME NEW k \in 1..Len(e.reads) PROVE Reads(r)[k].addr = e.reads[k]
    <3>1. k \in 1..Len(r) /\ r[k] = e.reads[k]
      BY <1>4, <1>7
    <3> QED BY <3>1, <1>8, AddrOfRead
  <2>2. Len(e.reads) <= Len(Reads(r))
    BY <1>4, <1>7, <1>8
  <2> QED BY <2>1, <2>2, <1>4, <1>8, PointersExtend
<1> QED BY <1>1, <1>6, <1>8, <1>9, <1>10 DEF Straight, Outcome

LEMMA StoreOpRuns == ASSUME TypeOK, StoreOp PROVE Straight
<1> DEFINE d == Meta.mode
           e == Eff(d, "always")
           v == cpu[StoreOps[Meta.mnemonic]]
           r == Reads(e.reads)
           w == WriteCycle(e.addr, v)
           c == [cpu EXCEPT !.PC = Following]
<1>1. Meta.mnemonic \in DOMAIN StoreOps /\ Finish(c, Append(r, w))
  BY DEF StoreOp, Executes
<1>2. d \in DOMAIN StoreCycles /\ Meta.cycles = StoreCycles[d]
  BY <1>1, MetaFamily
<1>3. /\ d \in DOMAIN EffReads /\ d # "Rel"
      /\ StoreCycles[d] = EffReads[d] + 2 + (IF d \in Indexing THEN 1 ELSE 0)
  <2> HIDE DEF d
  <2> QED BY <1>2 DEF StoreCycles, EffReads, Indexing
<1>4. /\ e.addr \in Word /\ e.reads \in Seq(Word) /\ PointersOK(e.reads)
      /\ Len(e.reads) = EffReads[d] + Extra(d, "always")
  BY <1>3, EffIs
<1>5. /\ Penalty = 0 /\ EffReads[d] \in Nat
      /\ Extra(d, "always") = IF d \in Indexing THEN 1 ELSE 0
  <2>1. Penalty = 0
    BY <1>1, <1>3, NoPenalty, FamiliesDisjoint
  <2>2. Extra(d, "always") = IF d \in Indexing THEN 1 ELSE 0
    BY DEF Extra, Fixup
  <2> QED BY <1>3, <2>1, <2>2, CountTypes
<1>6. c \in Registers /\ c.PC = Following
  BY FollowingType, JumpType
<1>7. w \in Cycle
  <2>1. v \in Byte
    BY <1>1, RegisterTypes DEF StoreOps
  <2> HIDE DEF v, e
  <2> QED BY <1>4, <2>1, WriteType
<1> HIDE DEF c, e, w, d
<1>8. /\ r \in Seq(Cycle) /\ Len(r) = Len(e.reads)
      /\ \A i \in 1..Len(e.reads) : r[i] = ReadCycle(e.reads[i])
  BY <1>4, ReadsType
<1> HIDE DEF r
<1>9. /\ Append(r, w) \in Seq(Cycle) /\ Len(Append(r, w)) = Len(r) + 1
      /\ \A k \in 1..Len(r) : Append(r, w)[k] = r[k]
  BY <1>7, <1>8, Appended
<1>10. 1 + Len(Append(r, w)) = Meta.cycles + Penalty
  BY <1>2, <1>3, <1>4, <1>5, <1>8, <1>9
<1>11. PointersOK(Addrs(Append(r, w)))
  <2> DEFINE all == Append(r, w)
  <2>1. \A k \in 1..Len(e.reads) : all[k].addr = e.reads[k]
    BY <1>4, <1>8, <1>9, AddrOfRead
  <2>2. Len(e.reads) <= Len(all) /\ all \in Seq(Cycle)
    BY <1>4, <1>8, <1>9
  <2> HIDE DEF all
  <2>3. PointersOK(Addrs(all))
    BY <2>1, <2>2, <1>4, PointersExtend
  <2> QED BY <2>3 DEF all
<1> QED BY <1>1, <1>6, <1>9, <1>10, <1>11 DEF Straight, Outcome

LEMMA RmwRuns == ASSUME TypeOK, rmw PROVE Straight
<1> DEFINE d == Meta.mode
           e == Eff(d, "always")
           v == Mem(e.addr)
           out == Modify(Meta.mnemonic, cpu.P, v)
           a == Append(e.reads, e.addr)
           r == Reads(a)
           w == <<WriteCycle(e.addr, v), WriteCycle(e.addr, out.v)>>
           all == r \o w
           c == Flagged(out.P)
<1>1. Meta.mnemonic \in RmwOps /\ d # "A" /\ Finish(c, all)
  BY DEF rmw, Executes
<1>2. d \in DOMAIN RmwCycles /\ Meta.cycles = RmwCycles[d]
  BY <1>1, MetaFamily
<1>3. /\ d \in DOMAIN EffReads /\ d \notin {"Rel", "Ind", "IndX", "IndY"}
      /\ RmwCycles[d] = EffReads[d] + 4 + (IF d \in Indexing THEN 1 ELSE 0)
  <2> HIDE DEF d
  <2> QED BY <1>1, <1>2 DEF RmwCycles, EffReads, Indexing
<1>4. /\ e.addr \in Word /\ e.reads \in Seq(Word)
      /\ Len(e.reads) = EffReads[d] + Extra(d, "always")
  BY <1>3, EffIs
<1>5. /\ Penalty = 0 /\ EffReads[d] \in Nat
      /\ Extra(d, "always") = IF d \in Indexing THEN 1 ELSE 0
  <2>1. Penalty = 0
    BY <1>1, <1>3, NoPenalty, FamiliesDisjoint
  <2>2. Extra(d, "always") = IF d \in Indexing THEN 1 ELSE 0
    BY DEF Extra, Fixup
  <2> QED BY <1>3, <2>1, <2>2, CountTypes
<1>6. v \in Byte
  BY <1>4, MemType
<1>7. out.v \in Byte /\ out.P \in SUBSET Flags
  BY <1>1, <1>6, RegisterTypes, ModifyType
<1>8. c \in Registers /\ c.PC = Following
  BY <1>7, FlaggedType
<1> HIDE DEF c, v, out, e
<1>9. a \in Seq(Word) /\ Len(a) = Len(e.reads) + 1
  BY <1>4, Appended
<1> HIDE DEF a
<1>10. r \in Seq(Cycle) /\ Len(r) = Len(a)
  BY <1>9, ReadsType
<1>11. w \in Seq(Cycle) /\ Len(w) = 2
  <2>1. WriteCycle(e.addr, v) \in Cycle /\ WriteCycle(e.addr, out.v) \in Cycle
    BY <1>4, <1>6, <1>7, WriteType
  <2> QED BY <2>1
<1> HIDE DEF r, w, d
<1>12. all \in Seq(Cycle) /\ Len(all) = Len(r) + Len(w)
  BY <1>10, <1>11, Joined, Zenon
<1> HIDE DEF all
<1>13. 1 + Len(all) = Meta.cycles + Penalty
  BY <1>2, <1>3, <1>4, <1>5, <1>9, <1>10, <1>11, <1>12
<1>14. PointersOK(Addrs(all))
  BY <1>3, NoPointers DEF d
<1> QED BY <1>1, <1>8, <1>12, <1>13, <1>14 DEF Straight, Outcome

\* The single dummy read of the instructions without operands.
LEMMA DummyRead ==
    ASSUME TypeOK PROVE Reads(<<At(1)>>) \in Seq(Cycle) /\ Len(Reads(<<At(1)>>)) = 1
<1> DEFINE a == <<At(1)>>
<1>1. a \in Seq(Word) /\ Len(a) = 1
  BY AtType
<1> HIDE DEF a
<1>2. Reads(a) \in Seq(Cycle) /\ Len(Reads(a)) = 1
  BY <1>1, ReadsType
<1> QED BY <1>2 DEF a

LEMMA QuickRuns ==
    ASSUME TypeOK, NEW c \in Registers, c.PC = Following, Finish(c, Reads(<<At(1)>>)),
           Meta = IllegalMeta \/ (Meta.mode \in {"Imp", "A"} /\ Meta.cycles = 2),
           Meta.mnemonic \notin ReadOps
    PROVE  Straight
<1> DEFINE r == Reads(<<At(1)>>)
<1>1. Meta.mode \notin {"Rel", "Ind", "IndX", "IndY"} /\ (~Meta.illegal => Meta.cycles = 2)
  BY DEF IllegalMeta
<1>2. Penalty = 0
  BY <1>1, NoPenalty
<1>3. r \in Seq(Cycle) /\ Len(r) = 1
  BY DummyRead
<1> HIDE DEF r
<1>4. PointersOK(Addrs(r))
  BY <1>1, NoPointers
<1>5. Outcome(c, r)
  BY <1>1, <1>2, <1>3, <1>4 DEF Outcome
<1>6. Finish(c, r)
  BY DEF r
<1> QED BY <1>5, <1>6 DEF Straight

LEMMA AccumulatorRuns == ASSUME TypeOK, AccumulatorShift PROVE Straight
<1> DEFINE out == Modify(Meta.mnemonic, cpu.P, cpu.A)
<1>1. Meta.mnemonic \in RmwOps /\ Meta.mode = "A" /\ Finish(SetReg("A", out.v, out.P), Reads(<<At(1)>>))
  BY DEF AccumulatorShift, Executes
<1>2. Meta.cycles = 2
  BY <1>1, MetaFamily DEF RmwCycles
<1>3. out.v \in Byte /\ out.P \in SUBSET Flags
  BY <1>1, RegisterTypes, ModifyType
<1> HIDE DEF out
<1>4. SetReg("A", out.v, out.P) \in Registers /\ SetReg("A", out.v, out.P).PC = Following
  BY <1>3, SetRegType
<1> QED BY <1>1, <1>2, <1>4, QuickRuns, FamiliesDisjoint

LEMMA TransferRuns == ASSUME TypeOK, Transfer PROVE Straight
<1> DEFINE t == Transfers[Meta.mnemonic]
<1>1. Meta.mnemonic \in DOMAIN Transfers /\ Finish(Loaded(t[2], cpu[t[1]]), Reads(<<At(1)>>))
  BY DEF Transfer, Executes
<1>2. t[2] \in {"A", "X", "Y", "SP"} /\ cpu[t[1]] \in Byte
  BY <1>1, RegisterTypes DEF Transfers
<1>3. Meta.mnemonic \in Quick
  BY <1>1 DEF Quick
<1> HIDE DEF t
<1>4. Loaded(t[2], cpu[t[1]]) \in Registers /\ Loaded(t[2], cpu[t[1]]).PC = Following
  BY <1>2, LoadedType
<1> QED BY <1>1, <1>3, <1>4, MetaFamily, QuickRuns, FamiliesDisjoint

LEMMA TxsRuns == ASSUME TypeOK, TXS PROVE Straight
<1>1. Meta.mnemonic = "TXS" /\ Finish(SetReg("SP", cpu.X, cpu.P), Reads(<<At(1)>>))
  BY DEF TXS, Executes
<1>2. Meta.mnemonic \in Quick
  BY <1>1 DEF Quick
<1>3. SetReg("SP", cpu.X, cpu.P) \in Registers /\ SetReg("SP", cpu.X, cpu.P).PC = Following
  BY RegisterTypes, SetRegType
<1> QED BY <1>1, <1>2, <1>3, MetaFamily, QuickRuns, FamiliesDisjoint

LEMMA FlagOpRuns == ASSUME TypeOK, FlagOp PROVE Straight
<1> DEFINE f == FlagOps[Meta.mnemonic]
           S == SetFlag(cpu.P, f[1], f[2])
<1>1. Meta.mnemonic \in DOMAIN FlagOps /\ Finish(Flagged(S), Reads(<<At(1)>>))
  BY DEF FlagOp, Executes
<1>2. f[1] \in Flags
  BY <1>1 DEF FlagOps, Flags
<1>3. Meta.mnemonic \in Quick
  BY <1>1 DEF Quick
<1>4. S \in SUBSET Flags
  BY <1>2, RegisterTypes, FlagTypes
<1> HIDE DEF S
<1>5. Flagged(S) \in Registers /\ Flagged(S).PC = Following
  BY <1>4, FlaggedType
<1> QED BY <1>1, <1>3, <1>5, MetaFamily, QuickRuns, FamiliesDisjoint

LEMMA CountRuns == ASSUME TypeOK, Count PROVE Straight
<1> DEFINE k == Counters[Meta.mnemonic]
           out == Modify(k[2], cpu.P, cpu[k[1]])
<1>1. Meta.mnemonic \in DOMAIN Counters /\ Finish(SetReg(k[1], out.v, out.P), Reads(<<At(1)>>))
  BY DEF Count, Executes
<1>2. k[1] \in {"A", "X", "Y", "SP"} /\ k[2] \in RmwOps /\ cpu[k[1]] \in Byte
  BY <1>1, RegisterTypes DEF Counters, RmwOps
<1>3. Meta.mnemonic \in Quick
  BY <1>1 DEF Quick
<1> HIDE DEF k
<1>4. out.v \in Byte /\ out.P \in SUBSET Flags
  BY <1>2, RegisterTypes, ModifyType
<1> HIDE DEF out
<1>5. SetReg(k[1], out.v, out.P) \in Registers /\ SetReg(k[1], out.v, out.P).PC = Following
  BY <1>2, <1>4, SetRegType
<1> QED BY <1>1, <1>3, <1>5, MetaFamily, QuickRuns, FamiliesDisjoint

LEMMA NopRuns == ASSUME TypeOK, NOP PROVE Straight
<1>1. Meta.mnemonic \in {"NOP", "???"} /\ Finish(Flagged(cpu.P), Reads(<<At(1)>>))
  BY DEF NOP, Executes
<1>2. Flagged(cpu.P) \in Registers /\ Flagged(cpu.P).PC = Following
  BY RegisterTypes, FlaggedType
<1>3. Meta = IllegalMeta \/ (Meta.mode = "Imp" /\ Meta.cycles = 2)
  <2>1. "NOP" \in Quick
    BY DEF Quick
  <2> QED BY <1>1, <2>1, MetaFamily
<1>4. Meta.mnemonic \notin ReadOps
  BY <1>1 DEF ReadOps
<1> QED BY <1>1, <1>2, <1>3, <1>4, QuickRuns

LEMMA BranchRuns ==
    ASSUME TypeOK, branch
    PROVE  \E c, cycles : /\ Finish(c, cycles) /\ Outcome(c, cycles)
                          /\ c.PC = IF Taken THEN (At(2) + Offset(Operand1)) % 65536 ELSE Following
<1> DEFINE off == Offset(Operand1)
           base == At(2)
           to == (base + off) % 65536
           wrong == MakeWord(Lo(to), Hi(base))
           short == <<At(1), base>>
           long == Append(short, wrong)
           jump == [cpu EXCEPT !.PC = to]
           next == [cpu EXCEPT !.PC = Following]
<1>1. Meta.mnemonic \in DOMAIN Branches
  BY DEF branch, Executes
<1>2. Meta.mode = "Rel" /\ Meta.cycles = 2 /\ Meta.mnemonic \notin ReadOps /\ ~Meta.illegal
  BY <1>1, MetaFamily, FamiliesDisjoint DEF IllegalMeta
<1>3. Operand1 \in Byte /\ At(1) \in Word /\ base \in Word
  BY OperandTypes, AtType
<1>4. off \in Int
  BY <1>3, Numbers DEF Offset
<1>5. to \in Word /\ wrong \in Word
  BY <1>3, <1>4, IndexedType
<1>6. jump \in Registers /\ jump.PC = to /\ next \in Registers /\ next.PC = Following
  BY <1>5, FollowingType, JumpType
<1>7. \A cycles : PointersOK(cycles)
  BY <1>2, NoPointers
<1>8. Indexed(base, off, short, "crossing") =
        [addr |-> to, reads |-> IF Hi(base) # Hi(to) THEN long ELSE short]
  BY DEF Indexed
<1>10. Penalty = IF Taken THEN (IF Hi(base) # Hi(to) THEN 2 ELSE 1) ELSE 0
  BY <1>2 DEF Penalty
<1> HIDE DEF wrong, to, base, off
<1>9. short \in Seq(Word) /\ Len(short) = 2
  BY <1>3
<1>11. short \in Seq(Word) /\ Len(short) = 2 /\ long \in Seq(Word) /\ Len(long) = 3
  <2> HIDE DEF short
  <2>1. long \in Seq(Word) /\ Len(long) = Len(short) + 1
    BY <1>5, <1>9, Appended, Zenon
  <2> HIDE DEF long
  <2> QED BY <1>9, <2>1
<1>12. CASE Taken /\ Hi(base) # Hi(to)
  <2>1. Indexed(base, off, short, "crossing").addr = to /\ Indexed(base, off, short, "crossing").reads = long
    BY <1>8, <1>12
  <2>2. Finish(jump, Reads(long))
    BY <2>1, <1>12 DEF branch, base, off
  <2> HIDE DEF jump, long
  <2>3. Reads(long) \in Seq(Cycle) /\ Len(Reads(long)) = 3
    BY <1>11, ReadsType
  <2>4. Penalty = 2
    BY <1>10, <1>12
  <2>5. Outcome(jump, Reads(long))
    BY <1>2, <1>6, <1>7, <2>3, <2>4 DEF Outcome
  <2> QED BY <1>6, <1>12, <2>2, <2>5 DEF to, base, off
<1>13. CASE Taken /\ Hi(base) = Hi(to)
  <2>1. Indexed(base, off, short, "crossing").addr = to /\ Indexed(base, off, short, "crossing").reads = short
    BY <1>8, <1>13
  <2>2. Finish(jump, Reads(short))
    BY <2>1, <1>13 DEF branch, base, off
  <2> HIDE DEF jump, short
  <2>3. Reads(short) \in Seq(Cycle) /\ Len(Reads(short)) = 2
    BY <1>11, ReadsType
  <2>4. Penalty = 1
    BY <1>10, <1>13
  <2>5. Outcome(jump, Reads(short))
    BY <1>2, <1>6, <1>7, <2>3, <2>4 DEF Outcome
  <2> QED BY <1>6, <1>13, <2>2, <2>5 DEF to, base, off
<1>14. CASE ~Taken
  <2> DEFINE r == Reads(<<At(1)>>)
  <2>1. Finish(next, r) /\ r \in Seq(Cycle) /\ Len(r) = 1
    BY <1>14, DummyRead DEF branch
  <2>2. Penalty = 0
    BY <1>10, <1>14
  <2> HIDE DEF next, r
  <2>3. Outcome(next, r)
    BY <1>2, <1>6, <1>7, <2>1, <2>2 DEF Outcome
  <2> QED BY <1>6, <1>14, <2>1, <2>3
<1> QED BY <1>12, <1>13, <1>14

LEMMA JmpRuns ==
    ASSUME TypeOK, JMP
    PROVE  \E c, cycles : /\ Finish(c, cycles) /\ Outcome(c, cycles)
                          /\ Meta.mode # "Ind" => Meta.mode = "Abs" /\ c.PC = OperandWord
<1> DEFINE d == Meta.mode
           e == Eff(d, "crossing")
           c == [cpu EXCEPT !.PC = e.addr]
           r == Reads(e.reads)
<1>1. Meta.mnemonic = "JMP" /\ Finish(c, r)
  BY DEF JMP, Executes
<1>2. d \in DOMAIN JumpCycles /\ Meta.cycles = JumpCycles[d]
  BY <1>1, MetaFamily
<1>3. d \in DOMAIN EffReads /\ d \in {"Abs", "Ind"} /\ JumpCycles[d] = EffReads[d] + 1
  <2> HIDE DEF d
  <2> QED BY <1>2 DEF JumpCycles, EffReads
<1>4. /\ e.addr \in Word /\ e.reads \in Seq(Word) /\ PointersOK(e.reads)
      /\ Len(e.reads) = EffReads[d] + Extra(d, "crossing")
  BY <1>3, EffIs
<1>5. Penalty = 0 /\ Extra(d, "crossing") = 0 /\ EffReads[d] \in Nat
  <2>1. Penalty = 0
    BY <1>1, <1>3, NoPenalty, FamiliesDisjoint
  <2>2. Extra(d, "crossing") = 0
    BY <1>3 DEF Extra, Indexing
  <2> QED BY <1>3, <2>1, <2>2, CountTypes
<1>6. c \in Registers /\ c.PC = e.addr
  BY <1>4, JumpType
<1>7. d # "Ind" => d = "Abs" /\ e.addr = OperandWord
  BY <1>3 DEF Eff
<1> HIDE DEF c, e, d
<1>8. /\ r \in Seq(Cycle) /\ Len(r) = Len(e.reads)
      /\ \A i \in 1..Len(e.reads) : r[i] = ReadCycle(e.reads[i])
  BY <1>4, ReadsType
<1> HIDE DEF r
<1>9. 1 + Len(r) = Meta.cycles + Penalty
  BY <1>2, <1>3, <1>4, <1>5, <1>8
<1>10. PointersOK(Addrs(r))
  <2>1. \A k \in 1..Len(e.reads) : r[k].addr = e.reads[k]
    BY <1>8, AddrOfRead
  <2>2. Len(e.reads) <= Len(r)
    BY <1>4, <1>8
  <2> QED BY <2>1, <2>2, <1>4, <1>8, PointersExtend
<1>11. Outcome(c, r)
  BY <1>6, <1>8, <1>9, <1>10 DEF Outcome
<1> QED BY <1>1, <1>6, <1>7, <1>11 DEF d

\* The stack instructions have no penalty and no pointer.
LEMMA ImpliedOutcome ==
    ASSUME TypeOK, Meta.mnemonic \in DOMAIN StackCycles, NEW c \in Registers, NEW cycles \in Seq(Cycle),
           1 + Len(cycles) = StackCycles[Meta.mnemonic]
    PROVE  Outcome(c, cycles)
<1>1. /\ Meta.mode = "Imp" /\ Meta.cycles = StackCycles[Meta.mnemonic] /\ Meta.mnemonic \notin ReadOps
      /\ StackCycles[Meta.mnemonic] \in Nat
  BY MetaFamily, FamiliesDisjoint DEF StackCycles
<1>2. Penalty = 0 /\ PointersOK(Addrs(cycles))
  BY <1>1, NoPenalty, NoPointers
<1> QED BY <1>1, <1>2 DEF Outcome

Frame == [sp : Byte, ret : Word]

\* The two cells of a return address, and that they still hold it.
SlotLo(f) == 256 + ((f.sp + 1) % 256)
SlotHi(f) == 256 + ((f.sp + 2) % 256)
Held(c, f) ==
    /\ MemIn(c, SlotLo(f)) = Lo((f.ret - 1) % 65536)
    /\ MemIn(c, SlotHi(f)) = Hi((f.ret - 1) % 65536)

LEMMA StackArith ==
    ASSUME NEW s \in Byte
    PROVE  /\ (((s - 2) % 256) + 1) % 256 = (s + -1) % 256
           /\ (((s - 2) % 256) + 2) % 256 = (s + 0) % 256
           /\ (s + -1) % 256 # (s + 0) % 256
<1>1. CASE s = 0
  BY <1>1
<1>2. CASE s = 1
  BY <1>2
<1>3. CASE s \in Int /\ 2 <= s /\ s <= 255
  <2>1. (s - 2) % 256 = s - 2 /\ (s + -1) % 256 = s - 1 /\ (s + 0) % 256 = s
    BY <1>3
  <2> QED BY <1>3, <2>1
<1>4. s \in Int /\ 0 <= s /\ s <= 255
  BY ByteIs
<1> QED BY <1>1, <1>2, <1>3, <1>4

LEMMA PcArith == ASSUME NEW w \in Word PROVE (((w + 3) % 65536) - 1) % 65536 = (w + 2) % 65536
<1> DEFINE a == w + 3
           b == w + 2
           m == a % 65536
           n == m - 1
<1>1. w \in Int /\ 0 <= w /\ w <= 65535 /\ a \in Int /\ b \in Int /\ a = b + 1 /\ b = w + 2
  BY WordIs
<1> HIDE DEF a, b
<1>2. ASSUME a <= 65535 PROVE n % 65536 = b % 65536
  <2>1. m = a
    BY <1>1, <1>2, InRange
  <2> HIDE DEF m
  <2>2. n = b
    BY <1>1, <2>1
  <2> QED BY <2>2
<1>3. ASSUME 65536 <= a PROVE n % 65536 = b % 65536
  <2>1. m = a - 65536
    BY <1>1, <1>3, AboveRange
  <2> HIDE DEF m
  <2>2. n \in Int /\ n = b - 65536 /\ -1 <= n /\ n <= 1
    BY <1>1, <1>3, <2>1
  <2> HIDE DEF n
  <2>3. ASSUME n < 0 PROVE n % 65536 = b % 65536
    <3>1. n % 65536 = n + 65536
      BY <2>2, <2>3, BelowRange
    <3>2. b % 65536 = b
      BY <1>1, <2>2, <2>3, InRange
    <3> QED BY <1>1, <2>2, <3>1, <3>2
  <2>4. ASSUME 0 <= n PROVE n % 65536 = b % 65536
    <3>1. n % 65536 = n
      BY <2>2, <2>4, InRange
    <3>2. b % 65536 = b - 65536
      BY <1>1, <2>2, <2>4, AboveRange
    <3> QED BY <2>2, <3>1, <3>2
  <2> QED BY <2>2, <2>3, <2>4
<1> HIDE DEF n
<1>4. n % 65536 = b % 65536
  BY <1>1, <1>2, <1>3
<1> QED BY <1>4 DEF n, m, a, b

\* The memory after a sequence of cycles with one write to the cell a.
LEMMA SingleWrite ==
    ASSUME NEW c, NEW cycles \in Seq(Cycle), NEW k \in 1..Len(cycles), NEW a,
           cycles[k].kind = "write", cycles[k].addr = a,
           \A j \in 1..Len(cycles) : j # k => cycles[j].kind = "read" \/ cycles[j].addr # a
    PROVE  MemIn(After(c, cycles), a) = cycles[k].value
<1>1. a \in Written(cycles)
  BY DEF Written
<1>2. Writes(cycles, a) = {k}
  BY DEF Writes
<1>3. LastWrite(cycles, a) = k
  BY <1>1, <1>2, LastWriteIs
<1> QED BY <1>1, <1>3 DEF MemIn, After

LEMMA JoinedFive ==
    ASSUME NEW T, NEW r \in Seq(T), Len(r) = 2, NEW x \in T, NEW y \in T, NEW z \in T
    PROVE  /\ r \o <<x, y>> \o <<z>> \in Seq(T) /\ Len(r \o <<x, y>> \o <<z>>) = 5
           /\ (r \o <<x, y>> \o <<z>>)[1] = r[1] /\ (r \o <<x, y>> \o <<z>>)[2] = r[2]
           /\ (r \o <<x, y>> \o <<z>>)[3] = x /\ (r \o <<x, y>> \o <<z>>)[4] = y
           /\ (r \o <<x, y>> \o <<z>>)[5] = z
<1> DEFINE p == <<x, y>>
           q == r \o p
           t == <<z>>
           w == q \o t
<1>1. /\ p \in Seq(T) /\ Len(p) = 2 /\ p[1] = x /\ p[2] = y
      /\ t \in Seq(T) /\ Len(t) = 1 /\ t[1] = z
  OBVIOUS
<1>2. r \o <<x, y>> \o <<z>> = w
  OBVIOUS
<1> HIDE DEF p, t
<1>3. ASSUME NEW u \in Seq(T), NEW v \in Seq(T)
      PROVE  u \o v \in Seq(T) /\ Len(u \o v) = Len(u) + Len(v)
  BY Joined
<1>4. ASSUME NEW u \in Seq(T), NEW v \in Seq(T), NEW k \in 1..Len(u)
      PROVE  (u \o v)[k] = u[k]
  BY Joined
<1>5. ASSUME NEW u \in Seq(T), NEW v \in Seq(T), NEW k \in 1..Len(v)
      PROVE  (u \o v)[Len(u) + k] = v[k]
  BY Joined
<1>6. q \in Seq(T) /\ Len(q) = Len(r) + Len(p)
  BY <1>1, <1>3, Zenon
<1>7. 1 \in 1..Len(r) /\ 2 \in 1..Len(r) /\ 1 \in 1..Len(p) /\ 2 \in 1..Len(p)
  BY <1>1
<1>8. q[1] = r[1] /\ q[2] = r[2]
  BY <1>1, <1>4, <1>7, Zenon
<1>9. q[Len(r) + 1] = p[1] /\ q[Len(r) + 2] = p[2]
  BY <1>1, <1>5, <1>7, Zenon
<1> HIDE DEF q
<1>10. Len(q) = 4 /\ q[3] = x /\ q[4] = y
  BY <1>1, <1>6, <1>9
<1>11. w \in Seq(T) /\ Len(w) = Len(q) + Len(t)
  BY <1>1, <1>3, <1>6, Zenon
<1>12. 1 \in 1..Len(q) /\ 2 \in 1..Len(q) /\ 3 \in 1..Len(q) /\ 4 \in 1..Len(q) /\ 1 \in 1..Len(t)
  BY <1>1, <1>10
<1>13. w[1] = q[1] /\ w[2] = q[2] /\ w[3] = q[3] /\ w[4] = q[4]
  BY <1>1, <1>4, <1>6, <1>12, Zenon
<1>14. w[Len(q) + 1] = t[1]
  BY <1>1, <1>5, <1>6, <1>12, Zenon
<1> HIDE DEF w
<1>15. Len(w) = 5 /\ w[5] = z
  BY <1>1, <1>10, <1>11, <1>14
<1> QED BY <1>2, <1>8, <1>10, <1>11, <1>13, <1>15

LEMMA JsrRuns ==
    ASSUME TypeOK, jsr
    PROVE  \E c, cycles : \E f \in Frame :
              /\ Retire(c, cycles, {f}) /\ Outcome(c, cycles)
              /\ Held(After(cells, cycles), f)
              /\ At(2) \notin {Stack(0), Stack(-1)} => c.PC = OperandWord
<1> DEFINE s0 == Stack(0)
           s1 == Stack(-1)
           h == Hi(At(2))
           l == Lo(At(2))
           w0 == WriteCycle(s0, h)
           w1 == WriteCycle(s1, l)
           pushes == <<w0, w1>>
           hi == MemIn(After(cells, pushes), At(2))
           last == [kind |-> "read", addr |-> At(2), value |-> hi]
           r == Reads(<<At(1), s0>>)
           all == r \o pushes \o <<last>>
           sp == (cpu.SP - 2) % 256
           pc == MakeWord(Operand1, hi)
           c == [cpu EXCEPT !.SP = sp, !.PC = pc]
           f == [sp |-> sp, ret |-> At(3)]
<1>1. Meta.mnemonic = "JSR" /\ Retire(c, all, {f})
  BY DEF jsr, Executes
<1>2. /\ Meta.mode = "Abs" /\ Meta.cycles = 6 /\ Penalty = 0 /\ ~Meta.illegal
      /\ \A x : PointersOK(x)
  <2>1. Meta.mode = "Abs" /\ Meta.cycles = 6 /\ Meta.mnemonic \notin ReadOps /\ ~Meta.illegal
    BY <1>1, MetaFamily, FamiliesDisjoint DEF IllegalMeta
  <2> QED BY <2>1, NoPenalty, NoPointers
<1>3. /\ s0 \in Word /\ s1 \in Word /\ At(1) \in Word /\ At(2) \in Word /\ At(3) \in Word
      /\ h \in Byte /\ l \in Byte
  <2>1. At(1) \in Word /\ At(2) \in Word /\ At(3) \in Word
    BY AtType
  <2>2. s0 \in Word /\ s1 \in Word
    BY StackType
  <2> QED BY <2>1, <2>2, Split
<1>4. w0 \in Cycle /\ w1 \in Cycle
  BY <1>3, WriteType
<1>5. w0.kind = "write" /\ w0.addr = s0 /\ w0.value = h /\ w1.kind = "write" /\ w1.addr = s1 /\ w1.value = l
  BY DEF WriteCycle
<1>6. cpu.SP \in Byte /\ sp \in Byte
  <2>1. cpu.SP \in Byte /\ cpu.SP - 2 \in Int
    BY RegisterTypes, Numbers
  <2> QED BY <2>1, Mods
<1>7. s0 # s1 /\ SlotLo(f) = s1 /\ SlotHi(f) = s0
  <2> DEFINE x0 == (cpu.SP + 0) % 256
             x1 == (cpu.SP + -1) % 256
  <2>1. s0 = 256 + x0 /\ s1 = 256 + x1
    BY DEF Stack
  <2>2. x0 # x1 /\ (sp + 1) % 256 = x1 /\ (sp + 2) % 256 = x0
    BY <1>6, StackArith
  <2>3. x0 \in Int /\ x1 \in Int
    <3>1. cpu.SP + 0 \in Int /\ cpu.SP + -1 \in Int
      BY <1>6, Numbers
    <3> QED BY <3>1, Mods, Numbers
  <2> HIDE DEF x0, x1, s0, s1, sp
  <2> QED BY <2>1, <2>2, <2>3 DEF SlotLo, SlotHi
<1> HIDE DEF s0, s1, w0, w1, h, l
<1>8. pushes \in Seq(Cycle) /\ Len(pushes) = 2 /\ pushes[1] = w0 /\ pushes[2] = w1
  BY <1>4
<1>9. hi \in Byte
  <2>1. LET m == After(cells, pushes) IN DOMAIN m \subseteq Word /\ \A a \in DOMAIN m : m[a] \in Byte
    <3> HIDE DEF pushes
    <3> QED BY <1>8, AfterType DEF TypeOK
  <2> QED BY <2>1, <1>3, InstructionsAssumption DEF MemIn
<1>10. At(2) \notin {s0, s1} => hi = Mem(At(2))
  <2>1. Written(pushes) \subseteq {s0, s1}
    BY <1>5, <1>8 DEF Written
  <2> HIDE DEF pushes
  <2> QED BY <2>1, AfterKeeps DEF Mem
<1> HIDE DEF hi
<1>11. c \in Registers /\ c.PC = pc
  <2>1. pc \in Word /\ cpu \in Registers
    BY <1>9, OperandTypes, Join DEF TypeOK
  <2> HIDE DEF pc, sp
  <2> QED BY <1>6, <2>1 DEF Registers
<1>12. At(2) \notin {s0, s1} => c.PC = OperandWord
  BY <1>10, <1>11 DEF OperandWord
<1>13. f \in Frame /\ f.ret = At(3)
  <2> HIDE DEF sp
  <2> QED BY <1>3, <1>6 DEF Frame
<1>14. last \in Cycle /\ last.kind = "read"
  BY <1>3, <1>9 DEF Cycle
<1>15. r \in Seq(Cycle) /\ Len(r) = 2 /\ r[1].kind = "read" /\ r[2].kind = "read"
  <2> DEFINE a == <<At(1), s0>>
  <2>1. a \in Seq(Word) /\ Len(a) = 2
    BY <1>3
  <2> HIDE DEF a
  <2>2. Reads(a) \in Seq(Cycle) /\ Len(Reads(a)) = 2 /\ \A i \in 1..2 : Reads(a)[i] = ReadCycle(a[i])
    BY <2>1, ReadsType
  <2>3. \A x : ReadCycle(x).kind = "read"
    BY DEF ReadCycle
  <2>4. Reads(a)[1].kind = "read" /\ Reads(a)[2].kind = "read"
    BY <2>2, <2>3
  <2> QED BY <2>2, <2>4 DEF a
<1> HIDE DEF r, last, pushes
<1>16. /\ all \in Seq(Cycle) /\ Len(all) = 5
       /\ all[1] = r[1] /\ all[2] = r[2] /\ all[3] = w0 /\ all[4] = w1 /\ all[5] = last
  BY <1>4, <1>14, <1>15, JoinedFive DEF pushes
<1> HIDE DEF all, c, f
<1>17. Outcome(c, all)
  BY <1>2, <1>11, <1>16 DEF Outcome
<1>18. MemIn(After(cells, all), s0) = h
  <2>1. \A j \in 1..Len(all) : j # 3 => all[j].kind = "read" \/ all[j].addr # s0
    BY <1>5, <1>7, <1>14, <1>15, <1>16
  <2> QED BY <2>1, <1>5, <1>16, SingleWrite
<1>19. MemIn(After(cells, all), s1) = l
  <2>1. \A j \in 1..Len(all) : j # 4 => all[j].kind = "read" \/ all[j].addr # s1
    BY <1>5, <1>7, <1>14, <1>15, <1>16
  <2> QED BY <2>1, <1>5, <1>16, SingleWrite
<1>20. (f.ret - 1) % 65536 = At(2)
  BY <1>13, RegisterTypes, PcArith DEF At
<1>21. Held(After(cells, all), f)
  BY <1>7, <1>18, <1>19, <1>20 DEF Held, h, l
<1> QED BY <1>1, <1>12, <1>13, <1>17, <1>21 DEF s0, s1

LEMMA RtsRuns ==
    ASSUME TypeOK, rts
    PROVE  \E c, cycles : /\ Finish(c, cycles) /\ Outcome(c, cycles)
                          /\ \A f \in Frame : f.sp = cpu.SP /\ Held(cells, f) => c.PC = f.ret
<1> DEFINE m1 == Mem(Stack(1))
           m2 == Mem(Stack(2))
           pc == MakeWord(m1, m2)
           a1 == At(1)
           s0 == Stack(0)
           s1 == Stack(1)
           s2 == Stack(2)
           a == <<a1, s0, s1, s2, pc>>
           sp == (cpu.SP + 2) % 256
           to == (pc + 1) % 65536
           c == [cpu EXCEPT !.SP = sp, !.PC = to]
<1>1. Meta.mnemonic = "RTS" /\ Finish(c, Reads(a))
  BY DEF rts, Executes
<1>2. a1 \in Word /\ s0 \in Word /\ s1 \in Word /\ s2 \in Word
  BY AtType, StackType
<1>3. pc \in Word
  BY <1>2, MemType, Join
<1>4. sp \in Byte /\ to \in Word
  <2>1. cpu.SP + 2 \in Int
    BY RegisterTypes, Numbers
  <2>2. pc + 1 \in Int
    <3> HIDE DEF pc
    <3> QED BY <1>3, Numbers
  <2> QED BY <2>1, <2>2, Mods
<1>5. c \in Registers /\ c.PC = to
  <2> HIDE DEF sp, to
  <2> QED BY <1>4 DEF Registers, TypeOK
<1>6. ASSUME NEW f \in Frame, f.sp = cpu.SP, Held(cells, f) PROVE to = f.ret
  <2>1. SlotLo(f) = s1 /\ SlotHi(f) = s2
    BY <1>6 DEF SlotLo, SlotHi, Stack
  <2> DEFINE x == (f.ret - 1) % 65536
  <2>2. f.ret \in Word
    BY DEF Frame
  <2>3. x \in Word /\ (x + 1) % 65536 = f.ret
    BY <2>2, BackAndOn
  <2>4. m1 = Lo(x) /\ m2 = Hi(x)
    BY <1>6, <2>1 DEF Held, Mem
  <2> HIDE DEF x
  <2>5. pc = x
    BY <2>3, <2>4, Split
  <2> QED BY <2>3, <2>5
<1> HIDE DEF a1, s0, s1, s2, pc, to, sp
<1>7. a \in Seq(Word) /\ Len(a) = 5
  BY <1>2, <1>3
<1> HIDE DEF a, c
<1>8. Reads(a) \in Seq(Cycle) /\ Len(Reads(a)) = 5
  BY <1>7, ReadsType
<1>9. Meta.mnemonic \in DOMAIN StackCycles /\ 1 + Len(Reads(a)) = StackCycles[Meta.mnemonic]
  BY <1>1, <1>8 DEF StackCycles
<1>10. Outcome(c, Reads(a))
  BY <1>5, <1>8, <1>9, ImpliedOutcome
<1> QED BY <1>1, <1>5, <1>6, <1>10

LEMMA RtiRuns == ASSUME TypeOK, rti PROVE \E c, cycles : Finish(c, cycles) /\ Outcome(c, cycles)
<1> DEFINE p == PulledStatus(Mem(Stack(1)))
           pc == MakeWord(Mem(Stack(2)), Mem(Stack(3)))
           a1 == At(1)
           s0 == Stack(0)
           s1 == Stack(1)
           s2 == Stack(2)
           s3 == Stack(3)
           a == <<a1, s0, s1, s2, s3>>
           sp == (cpu.SP + 3) % 256
           c == [cpu EXCEPT !.SP = sp, !.P = p, !.PC = pc]
<1>1. Meta.mnemonic = "RTI" /\ Finish(c, Reads(a))
  BY DEF rti, Executes
<1>2. a1 \in Word /\ s0 \in Word /\ s1 \in Word /\ s2 \in Word /\ s3 \in Word
  BY AtType, StackType
<1>3. pc \in Word
  BY <1>2, MemType, Join
<1>4. sp \in Byte /\ p \in SUBSET Flags
  <2>1. cpu.SP + 3 \in Int
    BY RegisterTypes, Numbers
  <2> QED BY <2>1, Mods, FlagTypes
<1>5. c \in Registers
  <2> HIDE DEF sp, p, pc
  <2> QED BY <1>3, <1>4 DEF Registers, TypeOK
<1> HIDE DEF a1, s0, s1, s2, s3
<1>7. a \in Seq(Word) /\ Len(a) = 5
  BY <1>2
<1> HIDE DEF a, c
<1>8. Reads(a) \in Seq(Cycle) /\ Len(Reads(a)) = 5
  BY <1>7, ReadsType
<1>9. Meta.mnemonic \in DOMAIN StackCycles /\ 1 + Len(Reads(a)) = StackCycles[Meta.mnemonic]
  BY <1>1, <1>8 DEF StackCycles
<1>10. Outcome(c, Reads(a))
  BY <1>5, <1>8, <1>9, ImpliedOutcome
<1> QED BY <1>1, <1>10

LEMMA PullRuns == ASSUME TypeOK, Pull PROVE Straight
<1> DEFINE v == Mem(Stack(1))
           d == IF Meta.mnemonic = "PLA" THEN Loaded("A", v) ELSE Flagged(PulledStatus(v))
           a1 == At(1)
           s0 == Stack(0)
           s1 == Stack(1)
           a == <<a1, s0, s1>>
           c == [d EXCEPT !.SP = (d.SP + 1) % 256]
<1>1. Meta.mnemonic \in {"PLA", "PLP"} /\ Finish(c, Reads(a))
  BY DEF Pull, Executes
<1>2. a1 \in Word /\ s0 \in Word /\ s1 \in Word /\ v \in Byte
  BY AtType, StackType, MemType
<1>3. d \in Registers /\ d.PC = Following
  <2>1. Loaded("A", v) \in Registers /\ Loaded("A", v).PC = Following
    BY <1>2, LoadedType
  <2>2. Flagged(PulledStatus(v)) \in Registers /\ Flagged(PulledStatus(v)).PC = Following
    BY FlagTypes, FlaggedType
  <2> QED BY <2>1, <2>2
<1> HIDE DEF d
<1>4. (d.SP + 1) % 256 \in Byte
  <2>1. d.SP \in Byte
    BY <1>3 DEF Registers
  <2>2. d.SP + 1 \in Int
    BY <2>1, Numbers
  <2> QED BY <2>2, Mods
<1>5. c \in Registers /\ c.PC = Following
  <2> DEFINE sp == (d.SP + 1) % 256
  <2>1. sp \in Byte /\ c = [d EXCEPT !.SP = sp]
    BY <1>4
  <2> HIDE DEF sp, c
  <2> QED BY <1>3, <2>1 DEF Registers
<1> HIDE DEF a1, s0, s1, v
<1>7. a \in Seq(Word) /\ Len(a) = 3
  BY <1>2
<1> HIDE DEF a, c
<1>8. Reads(a) \in Seq(Cycle) /\ Len(Reads(a)) = 3
  BY <1>7, ReadsType
<1>9. Meta.mnemonic \in DOMAIN StackCycles /\ 1 + Len(Reads(a)) = StackCycles[Meta.mnemonic]
  BY <1>1, <1>8 DEF StackCycles
<1>10. Outcome(c, Reads(a))
  BY <1>5, <1>8, <1>9, ImpliedOutcome
<1> QED BY <1>1, <1>5, <1>10 DEF Straight

LEMMA PushRuns == ASSUME TypeOK, Push PROVE Straight
<1> DEFINE v == IF Meta.mnemonic = "PHA" THEN cpu.A ELSE Encode(PushedStatus(cpu.P, TRUE))
           r == Reads(<<At(1)>>)
           w == WriteCycle(Stack(0), v)
           all == Append(r, w)
           sp == (cpu.SP - 1) % 256
           c == [cpu EXCEPT !.SP = sp, !.PC = Following]
<1>1. Meta.mnemonic \in {"PHA", "PHP"} /\ Finish(c, all)
  BY DEF Push, Executes
<1>2. v \in Byte
  <2>1. cpu.A \in Byte
    BY RegisterTypes
  <2>2. \A S : Encode(S) \in Byte
    BY FlagTypes
  <2> QED BY <2>1, <2>2
<1>3. w \in Cycle
  <2>1. Stack(0) \in Word
    BY StackType
  <2> HIDE DEF v
  <2> QED BY <1>2, <2>1, WriteType
<1>4. sp \in Byte
  <2>1. cpu.SP - 1 \in Int
    BY RegisterTypes, Numbers
  <2> QED BY <2>1, Mods
<1>5. c \in Registers /\ c.PC = Following
  <2> HIDE DEF sp
  <2> QED BY <1>4, FollowingType DEF Registers, TypeOK
<1>6. r \in Seq(Cycle) /\ Len(r) = 1
  BY DummyRead
<1> HIDE DEF r, w, c
<1>7. all \in Seq(Cycle) /\ Len(all) = Len(r) + 1
  BY <1>3, <1>6, Appended, Zenon
<1> HIDE DEF all
<1>9. Meta.mnemonic \in DOMAIN StackCycles /\ 1 + Len(all) = StackCycles[Meta.mnemonic]
  BY <1>1, <1>6, <1>7 DEF StackCycles
<1>10. Outcome(c, all)
  BY <1>5, <1>7, <1>9, ImpliedOutcome
<1> QED BY <1>1, <1>5, <1>10 DEF Straight

LEMMA BrkRuns == ASSUME TypeOK, brk PROVE \E c, cycles : Finish(c, cycles) /\ Outcome(c, cycles)
<1> DEFINE w0 == WriteCycle(Stack(0), Hi(At(2)))
           w1 == WriteCycle(Stack(-1), Lo(At(2)))
           w2 == WriteCycle(Stack(-2), Encode(PushedStatus(cpu.P, TRUE)))
           r == Reads(<<At(1)>>)
           p == <<w0, w1, w2>>
           v == Reads(<<65534, 65535>>)
           q == r \o p
           all == q \o v
           sp == (cpu.SP - 3) % 256
           pc == MakeWord(Mem(65534), Mem(65535))
           c == [cpu EXCEPT !.SP = sp, !.P = cpu.P \cup {"I", "U"}, !.PC = pc]
<1>1. Meta.mnemonic = "BRK" /\ Finish(c, all)
  BY DEF brk, Executes
<1>2. w0 \in Cycle /\ w1 \in Cycle /\ w2 \in Cycle
  <2>1. Stack(0) \in Word /\ Stack(-1) \in Word /\ Stack(-2) \in Word
    BY StackType
  <2>2. At(2) \in Word
    BY AtType
  <2>3. Hi(At(2)) \in Byte /\ Lo(At(2)) \in Byte
    BY <2>2, Split
  <2>4. Encode(PushedStatus(cpu.P, TRUE)) \in Byte
    <3>1. \A S : Encode(S) \in Byte
      BY FlagTypes
    <3> QED BY <3>1
  <2> QED BY <2>1, <2>3, <2>4, WriteType
<1>3. 65534 \in Word /\ 65535 \in Word
  BY WordIs
<1>4. v \in Seq(Cycle) /\ Len(v) = 2
  <2> DEFINE a == <<65534, 65535>>
  <2>1. a \in Seq(Word) /\ Len(a) = 2
    BY <1>3
  <2> HIDE DEF a
  <2>2. Reads(a) \in Seq(Cycle) /\ Len(Reads(a)) = 2
    BY <2>1, ReadsType
  <2> QED BY <2>2 DEF a
<1>5. r \in Seq(Cycle) /\ Len(r) = 1
  BY DummyRead
<1>6. sp \in Byte /\ pc \in Word /\ cpu.P \cup {"I", "U"} \in SUBSET Flags
  <2>1. cpu.SP - 3 \in Int
    BY RegisterTypes, Numbers
  <2>2. pc \in Word
    BY <1>3, MemType, Join
  <2>3. cpu.P \cup {"I", "U"} \in SUBSET Flags
    BY RegisterTypes DEF Flags
  <2> QED BY <2>1, <2>2, <2>3, Mods
<1>7. c \in Registers
  <2> DEFINE s == cpu.P \cup {"I", "U"}
  <2> HIDE DEF sp, pc, s
  <2>1. s \in SUBSET Flags /\ c = [cpu EXCEPT !.SP = sp, !.P = s, !.PC = pc]
    BY <1>6 DEF s
  <2> HIDE DEF c
  <2> QED BY <1>6, <2>1 DEF Registers, TypeOK
<1> HIDE DEF w0, w1, w2, r, v, c
<1>8. p \in Seq(Cycle) /\ Len(p) = 3
  BY <1>2
<1> HIDE DEF p
<1>9. ASSUME NEW x \in Seq(Cycle), NEW y \in Seq(Cycle)
      PROVE  x \o y \in Seq(Cycle) /\ Len(x \o y) = Len(x) + Len(y)
  BY Joined
<1>10. q \in Seq(Cycle) /\ Len(q) = Len(r) + Len(p)
  BY <1>5, <1>8, <1>9, Zenon
<1> HIDE DEF q
<1>11. all \in Seq(Cycle) /\ Len(all) = Len(q) + Len(v)
  BY <1>4, <1>9, <1>10, Zenon
<1> HIDE DEF all
<1>12. Meta.mnemonic \in DOMAIN StackCycles /\ 1 + Len(all) = StackCycles[Meta.mnemonic]
  BY <1>1, <1>4, <1>5, <1>8, <1>10, <1>11 DEF StackCycles
<1>13. Outcome(c, all)
  BY <1>7, <1>11, <1>12, ImpliedOutcome
<1> QED BY <1>1, <1>13

-------------------------------------------------------------------------------
(* The inductive invariant: the types, the bound on the steps of a case, and *)
(* that every frame of the history is still in the stack page.               *)

FramesInv == \A f \in frames : Held(cells, f)
IInv ==
    /\ TypeOK /\ suite \in DOMAIN Suite
    /\ ready => steps < Suite[suite].steps
    /\ FramesInv

\* Writes that miss the two cells of a frame leave the frame in place.
LEMMA IntactKeeps ==
    ASSUME NEW c, NEW cycles, NEW f, Held(c, f), Intact(f, Written(cycles))
    PROVE  Held(After(c, cycles), f)
<1>1. SlotLo(f) \notin Written(cycles) /\ SlotHi(f) \notin Written(cycles)
  BY DEF Intact, SlotLo, SlotHi
<1> QED BY <1>1, AfterKeeps DEF Held

LEMMA SuiteTypes ==
    ASSUME suite \in DOMAIN Suite
    PROVE  /\ Suite[suite].starts \subseteq Registers /\ Suite[suite].steps \in Nat
           /\ Suite[suite].opcodes \subseteq Byte /\ Suite[suite].operands \subseteq Byte
  BY InstructionsAssumption

\* What a step of the CPU is: a Retire with an outcome, and new frames that hold.
Retires ==
    \E c, cycles, new :
       /\ Retire(c, cycles, new) /\ Outcome(c, cycles) /\ ready
       /\ new \subseteq Frame /\ \A f \in new : Held(After(cells, cycles), f)

LEMMA FinishRetires ==
    ASSUME NEW c, NEW cycles, Finish(c, cycles), Outcome(c, cycles), ready PROVE Retires
<1>1. Retire(c, cycles, {})
  BY DEF Finish
<1> QED BY <1>1 DEF Retires

LEMMA StraightRetires == ASSUME Straight, ready PROVE Retires
  BY FinishRetires DEF Straight

LEMMA StepRetires == ASSUME TypeOK, Step PROVE Retires
<1>0. ready
  <2>1. ReadOp \/ StoreOp \/ rmw \/ AccumulatorShift \/ Transfer \/ TXS \/ FlagOp \/ Count \/ NOP => ready
    BY Zenon DEF ReadOp, StoreOp, rmw, AccumulatorShift, Transfer, TXS, FlagOp, Count, NOP, Executes
  <2>2. JMP => ready
    BY DEF JMP, Executes
  <2>6. rts => ready
    BY DEF rts, Executes
  <2>7. rti => ready
    BY DEF rti, Executes
  <2>8. Push => ready
    BY DEF Push, Executes
  <2>9. Pull => ready
    BY DEF Pull, Executes
  <2>3. branch => ready
    BY DEF branch, Executes
  <2>4. jsr => ready
    BY DEF jsr, Executes
  <2>5. brk => ready
    BY DEF brk, Executes
  <2> QED BY <2>1, <2>2, <2>3, <2>4, <2>5, <2>6, <2>7, <2>8, <2>9, Zenon DEF Step
<1>1. ASSUME ReadOp PROVE Retires
  BY <1>0, <1>1, ReadOpRuns, StraightRetires
<1>2. ASSUME StoreOp PROVE Retires
  BY <1>0, <1>2, StoreOpRuns, StraightRetires
<1>3. ASSUME rmw PROVE Retires
  BY <1>0, <1>3, RmwRuns, StraightRetires
<1>4. ASSUME AccumulatorShift PROVE Retires
  BY <1>0, <1>4, AccumulatorRuns, StraightRetires
<1>5. ASSUME Transfer PROVE Retires
  BY <1>0, <1>5, TransferRuns, StraightRetires
<1>6. ASSUME TXS PROVE Retires
  BY <1>0, <1>6, TxsRuns, StraightRetires
<1>7. ASSUME FlagOp PROVE Retires
  BY <1>0, <1>7, FlagOpRuns, StraightRetires
<1>8. ASSUME Count PROVE Retires
  BY <1>0, <1>8, CountRuns, StraightRetires
<1>9. ASSUME NOP PROVE Retires
  BY <1>0, <1>9, NopRuns, StraightRetires
<1>10. ASSUME branch PROVE Retires
  <2>1. PICK c, cycles : Finish(c, cycles) /\ Outcome(c, cycles)
    BY <1>10, BranchRuns
  <2> QED BY <1>0, <2>1, FinishRetires
<1>11. ASSUME JMP PROVE Retires
  <2>1. PICK c, cycles : Finish(c, cycles) /\ Outcome(c, cycles)
    BY <1>11, JmpRuns
  <2> QED BY <1>0, <2>1, FinishRetires
<1>12. ASSUME jsr PROVE Retires
  <2>1. PICK c, cycles : \E f \in Frame :
            Retire(c, cycles, {f}) /\ Outcome(c, cycles) /\ Held(After(cells, cycles), f)
    BY <1>12, JsrRuns
  <2>2. PICK f \in Frame : Retire(c, cycles, {f}) /\ Outcome(c, cycles) /\ Held(After(cells, cycles), f)
    BY <2>1
  <2>3. {f} \subseteq Frame /\ \A g \in {f} : Held(After(cells, cycles), g)
    BY <2>2
  <2> QED BY <1>0, <2>2, <2>3 DEF Retires
<1>13. ASSUME rts PROVE Retires
  <2>1. PICK c, cycles : Finish(c, cycles) /\ Outcome(c, cycles)
    BY <1>13, RtsRuns
  <2> QED BY <1>0, <2>1, FinishRetires
<1>14. ASSUME rti PROVE Retires
  <2>1. PICK c, cycles : Finish(c, cycles) /\ Outcome(c, cycles)
    BY <1>14, RtiRuns
  <2> QED BY <1>0, <2>1, FinishRetires
<1>15. ASSUME brk PROVE Retires
  <2>1. PICK c, cycles : Finish(c, cycles) /\ Outcome(c, cycles)
    BY <1>15, BrkRuns
  <2> QED BY <1>0, <2>1, FinishRetires
<1>16. ASSUME Push PROVE Retires
  BY <1>0, <1>16, PushRuns, StraightRetires
<1>17. ASSUME Pull PROVE Retires
  BY <1>0, <1>17, PullRuns, StraightRetires
<1> QED BY <1>1, <1>2, <1>3, <1>4, <1>5, <1>6, <1>7, <1>8, <1>9, <1>10, <1>11, <1>12, <1>13, <1>14,
           <1>15, <1>16, <1>17 DEF Step

LEMMA RetireKeeps == ASSUME IInv, Retires PROVE IInv'
<1>1. PICK c, cycles, new :
          /\ Retire(c, cycles, new) /\ Outcome(c, cycles) /\ ready
          /\ new \subseteq Frame /\ \A f \in new : Held(After(cells, cycles), f)
  BY DEF Retires
<1>2. /\ cpu' = c /\ cells' = After(cells, cycles) /\ ready' = FALSE /\ steps' = steps + 1 /\ suite' = suite
      /\ bus' = <<ReadCycle(cpu.PC)>> \o cycles
      /\ frames' = {f \in frames : Intact(f, Written(cycles))} \cup new
  BY <1>1 DEF Retire
<1>3. c \in Registers /\ cycles \in Seq(Cycle)
  BY <1>1 DEF Outcome
<1>4. cpu' \in Registers
  BY <1>2, <1>3
<1>5. DOMAIN cells' \subseteq Word /\ \A a \in DOMAIN cells' : cells'[a] \in Byte
  BY <1>2, <1>3, AfterType DEF IInv, TypeOK
<1>6. \A i \in DOMAIN bus' : bus'[i] \in Cycle
  <2> DEFINE f == <<ReadCycle(cpu.PC)>>
  <2>1. ReadCycle(cpu.PC) \in Cycle
    BY RegisterTypes, MemType DEF IInv, ReadCycle, Cycle
  <2>2. f \in Seq(Cycle)
    BY <2>1
  <2> HIDE DEF f
  <2>3. bus' \in Seq(Cycle)
    BY <1>2, <1>3, <2>2, Joined DEF f
  <2> QED BY <2>3
<1>7. /\ ready' \in BOOLEAN /\ suite' \in DOMAIN Suite /\ steps' \in 0..Suite[suite'].steps
      /\ ready' => steps' < Suite[suite'].steps
  <2>1. suite \in DOMAIN Suite /\ steps \in 0..Suite[suite].steps /\ steps < Suite[suite].steps
    BY <1>1 DEF IInv, TypeOK
  <2>2. Suite[suite].steps \in Nat
    BY <2>1, SuiteTypes
  <2>3. steps' \in 0..Suite[suite].steps /\ suite' = suite
    BY <1>2, <2>1, <2>2
  <2>4. ready' = FALSE
    BY <1>2
  <2> QED BY <2>1, <2>3, <2>4, Zenon
<1>8. frames' \subseteq [sp : Byte, ret : Word]
  BY <1>1, <1>2 DEF IInv, TypeOK, Frame
<1>9. \A f \in frames' : Held(cells', f)
  <2> SUFFICES ASSUME NEW f \in frames' PROVE Held(After(cells, cycles), f)
    BY <1>2
  <2>1. CASE f \in new
    BY <1>1, <2>1
  <2>2. CASE f \in frames /\ Intact(f, Written(cycles))
    <3>1. Held(cells, f)
      BY <2>2 DEF IInv, FramesInv
    <3> QED BY <2>2, <3>1, IntactKeeps
  <2> QED BY <1>2, <2>1, <2>2
<1>10. TypeOK'
  BY <1>4, <1>5, <1>6, <1>7, <1>8 DEF TypeOK
<1>11. FramesInv'
  BY <1>9 DEF FramesInv, Held, SlotLo, SlotHi, MemIn
<1> QED BY <1>7, <1>10, <1>11 DEF IInv

LEMMA LoadKeeps ==
    ASSUME IInv, NEW op \in Suite[suite].opcodes, NEW b1 \in Suite[suite].operands,
           NEW b2 \in Suite[suite].operands, Load(op, b1, b2)
    PROVE  IInv'
<1> DEFINE w0 == WriteCycle(At(0), op)
           w1 == WriteCycle(At(1), b1)
           w2 == WriteCycle(At(2), b2)
           cycles == <<w0, w1, w2>>
<1>1. TypeOK /\ suite \in DOMAIN Suite /\ FramesInv
  BY DEF IInv
<1>2. /\ cells' = After(cells, cycles) /\ ready' = TRUE /\ steps < Suite[suite].steps
      /\ frames' = {f \in frames : Intact(f, {At(0), At(1), At(2)})}
      /\ cpu' = cpu /\ bus' = bus /\ suite' = suite /\ steps' = steps
  BY DEF Load
<1>3. At(0) \in Word /\ At(1) \in Word /\ At(2) \in Word /\ op \in Byte /\ b1 \in Byte /\ b2 \in Byte
  BY <1>1, AtType, SuiteTypes
<1>4. w0 \in Cycle /\ w1 \in Cycle /\ w2 \in Cycle
  BY <1>3, WriteType
<1>5. w0.addr = At(0) /\ w1.addr = At(1) /\ w2.addr = At(2)
  BY DEF WriteCycle
<1> HIDE DEF w0, w1, w2
<1>6. cycles \in Seq(Cycle) /\ Len(cycles) = 3 /\ cycles[1] = w0 /\ cycles[2] = w1 /\ cycles[3] = w2
  BY <1>4
<1>7. Written(cycles) \subseteq {At(0), At(1), At(2)}
  <2> HIDE DEF cycles
  <2> SUFFICES ASSUME NEW i \in DOMAIN cycles PROVE cycles[i].addr \in {At(0), At(1), At(2)}
    BY DEF Written
  <2>1. i \in {1, 2, 3}
    BY <1>6
  <2> QED BY <1>5, <1>6, <2>1
<1> HIDE DEF cycles
<1>8. DOMAIN cells' \subseteq Word /\ \A a \in DOMAIN cells' : cells'[a] \in Byte
  BY <1>1, <1>2, <1>6, AfterType DEF TypeOK
<1>9. frames' \subseteq [sp : Byte, ret : Word]
  BY <1>1, <1>2 DEF TypeOK
<1>10. TypeOK'
  BY <1>1, <1>2, <1>8, <1>9 DEF TypeOK
<1>11. \A f \in frames' : Held(After(cells, cycles), f)
  <2> SUFFICES ASSUME NEW f \in frames' PROVE Held(After(cells, cycles), f)
    OBVIOUS
  <2>1. f \in frames /\ Intact(f, {At(0), At(1), At(2)})
    BY <1>2
  <2>2. Held(cells, f)
    BY <1>1, <2>1 DEF FramesInv
  <2>3. Intact(f, Written(cycles))
    BY <1>7, <2>1 DEF Intact
  <2> QED BY <2>2, <2>3, IntactKeeps
<1>12. \A f \in frames' : Held(cells', f)
  BY <1>2, <1>11, Zenon
<1>13. FramesInv'
  BY <1>12 DEF FramesInv, Held, SlotLo, SlotHi, MemIn
<1> QED BY <1>1, <1>2, <1>10, <1>13 DEF IInv

LEMMA NewCaseKeeps ==
    ASSUME IInv, NEW r \in Suite[suite].starts, NewCase(r) PROVE IInv'
<1>1. TypeOK /\ suite \in DOMAIN Suite
  BY DEF IInv
<1>2. r \in Registers /\ Suite[suite].steps \in Nat
  BY <1>1, SuiteTypes
<1>3. /\ cpu' = r /\ cells' = << >> /\ bus' = << >> /\ steps' = 0 /\ frames' = {} /\ ready' = FALSE
      /\ suite' = suite
  <2>1. ~ready /\ ready' = ready /\ ready \in BOOLEAN
    BY <1>1 DEF NewCase, TypeOK
  <2> QED BY <2>1 DEF NewCase, NoBus
<1>4. DOMAIN cells' = {} /\ DOMAIN bus' = {}
  BY <1>3
<1>6. /\ cpu' \in Registers /\ ready' \in BOOLEAN /\ frames' \subseteq [sp : Byte, ret : Word]
      /\ steps' \in 0..Suite[suite'].steps
  <2>1. steps' = 0 /\ suite' = suite /\ ready' = FALSE /\ frames' = {} /\ cpu' = r
    BY <1>3
  <2>2. 0 \in 0..Suite[suite].steps
    BY <1>2
  <2> QED BY <1>2, <2>1, <2>2, Zenon
<1>5. TypeOK'
  BY <1>4, <1>6 DEF TypeOK
<1> QED BY <1>1, <1>3, <1>5 DEF IInv, FramesInv

LEMMA InitIInv == Init => IInv
<1> SUFFICES ASSUME Init PROVE IInv
  OBVIOUS
<1>1. /\ suite \in DOMAIN Suite /\ cpu \in Suite[suite].starts
      /\ cells = << >> /\ bus = << >> /\ ready = FALSE /\ steps = 0 /\ frames = {}
  BY DEF Init, NoBus
<1>2. cpu \in Registers /\ Suite[suite].steps \in Nat
  BY <1>1, SuiteTypes
<1>3. DOMAIN cells = {} /\ DOMAIN bus = {}
  BY <1>1
<1>5. ready \in BOOLEAN /\ frames \subseteq [sp : Byte, ret : Word] /\ steps \in 0..Suite[suite].steps
  <2>1. steps = 0 /\ ready = FALSE /\ frames = {}
    BY <1>1
  <2>2. 0 \in 0..Suite[suite].steps
    BY <1>2
  <2> QED BY <2>1, <2>2, Zenon
<1>4. TypeOK
  BY <1>2, <1>3, <1>5 DEF TypeOK
<1> QED BY <1>1, <1>4 DEF IInv, FramesInv

LEMMA NextIInv == IInv /\ [Next]_vars => IInv'
<1> SUFFICES ASSUME IInv, [Next]_vars PROVE IInv'
  OBVIOUS
<1>1. ASSUME NEW op \in Suite[suite].opcodes, NEW b1 \in Suite[suite].operands,
             NEW b2 \in Suite[suite].operands, Load(op, b1, b2)
      PROVE  IInv'
  BY <1>1, LoadKeeps
<1>2. ASSUME Step PROVE IInv'
  BY <1>2, StepRetires, RetireKeeps DEF IInv
<1>3. ASSUME NEW r \in Suite[suite].starts, NewCase(r) PROVE IInv'
  BY <1>3, NewCaseKeeps
<1>4. ASSUME UNCHANGED vars PROVE IInv'
  BY <1>4 DEF vars, IInv, TypeOK, FramesInv, Held, SlotLo, SlotHi, MemIn
<1> HIDE DEF IInv
<1> QED BY <1>1, <1>2, <1>3, <1>4 DEF Next

LEMMA InvHolds == Spec => []IInv
  BY InitIInv, NextIInv, PTL DEF Spec

\* The registers, the memory and every bus cycle keep their widths in every
\* reachable state, for every program and every register file the host starts
\* from: no handler of instructions.go, rmw.go or addressing.go leaves a value
\* that does not fit its uint8 or uint16.
THEOREM TypeCorrect == Spec => []TypeOK
<1>1. IInv => TypeOK
  BY DEF IInv
<1> QED BY <1>1, InvHolds, PTL

LEMMA Led ==
    ASSUME NEW T, NEW x \in T, NEW s \in Seq(T)
    PROVE  Len(<<x>> \o s) = 1 + Len(s) /\ \A k \in 1..Len(s) : (<<x>> \o s)[1 + k] = s[k]
<1> DEFINE f == <<x>>
<1>0. f \in Seq(T)
  OBVIOUS
<1>1. Len(f) = 1
  OBVIOUS
<1> HIDE DEF f
<1>2. Len(f \o s) = Len(f) + Len(s) /\ \A k \in 1..Len(s) : (f \o s)[Len(f) + k] = s[k]
  BY <1>0, Joined
<1>3. Len(f \o s) = 1 + Len(s) /\ \A k \in 1..Len(s) : (f \o s)[1 + k] = s[k]
  BY <1>1, <1>2
<1> QED BY <1>3 DEF f

\* The bus after a step: the opcode fetch, and then the cycles of an outcome.
LEMMA StepBus ==
    ASSUME TypeOK, Step
    PROVE  \E c, cycles : /\ Outcome(c, cycles) /\ Len(bus') = 1 + Len(cycles)
                          /\ \A k \in 1..Len(cycles) : bus'[1 + k] = cycles[k]
<1>1. PICK c, cycles, new : Retire(c, cycles, new) /\ Outcome(c, cycles)
  BY StepRetires DEF Retires
<1>2. bus' = <<ReadCycle(cpu.PC)>> \o cycles
  BY <1>1 DEF Retire
<1>3. cycles \in Seq(Cycle)
  BY <1>1 DEF Outcome
<1>4. ReadCycle(cpu.PC) \in Cycle
  BY RegisterTypes, MemType DEF ReadCycle, Cycle
<1> DEFINE x == ReadCycle(cpu.PC)
<1> HIDE DEF x
<1>5. x \in Cycle /\ bus' = <<x>> \o cycles
  BY <1>2, <1>4 DEF x
<1>6. Len(<<x>> \o cycles) = 1 + Len(cycles) /\ \A k \in 1..Len(cycles) : (<<x>> \o cycles)[1 + k] = cycles[k]
  BY <1>3, <1>5, Led
<1>7. Len(bus') = 1 + Len(cycles) /\ \A k \in 1..Len(cycles) : bus'[1 + k] = cycles[k]
  BY <1>5, <1>6, Zenon
<1> QED BY <1>1, <1>7, Zenon

\* Instructions.CyclesAsDocumented: for every program, register file and memory,
\* the handlers make exactly the bus cycles the opcode table documents, plus the
\* documented penalties.
THEOREM CyclesAsDocumentedHolds == Spec => CyclesAsDocumented
<1>1. TypeOK /\ [Next]_vars => [Step /\ ~Meta.illegal => Len(bus') = Meta.cycles + Penalty]_vars
  <2> SUFFICES ASSUME TypeOK, Step, ~Meta.illegal PROVE Len(bus') = Meta.cycles + Penalty
    OBVIOUS
  <2>1. PICK c, cycles : Outcome(c, cycles) /\ Len(bus') = 1 + Len(cycles)
    BY StepBus
  <2> QED BY <2>1 DEF Outcome
<1> QED BY <1>1, TypeCorrect, PTL DEF CyclesAsDocumented, Spec

\* Instructions.PointersStayInPage: whatever the pointer, both its bytes are read
\* from one page, and a zero-page pointer from page zero.
THEOREM PointersStayInPageHolds == Spec => PointersStayInPage
<1> DEFINE InPage == LET i == IF Meta.mode = "IndY" THEN 3 ELSE 4
                     IN  /\ Hi(bus'[i].addr) = Hi(bus'[i + 1].addr)
                         /\ Meta.mode # "Ind" => Hi(bus'[i].addr) = 0
<1>1. TypeOK /\ [Next]_vars => [Step /\ Meta.mode \in {"Ind", "IndX", "IndY"} => InPage]_vars
  <2> SUFFICES ASSUME TypeOK, Step, Meta.mode \in {"Ind", "IndX", "IndY"} PROVE InPage
    OBVIOUS
  <2>1. PICK c, cycles : /\ Outcome(c, cycles) /\ Len(bus') = 1 + Len(cycles)
                         /\ \A k \in 1..Len(cycles) : bus'[1 + k] = cycles[k]
    BY StepBus
  <2>2. /\ cycles \in Seq(Cycle) /\ PointerAt + 1 <= Len(Addrs(cycles))
        /\ Hi(Addrs(cycles)[PointerAt]) = Hi(Addrs(cycles)[PointerAt + 1])
        /\ Meta.mode # "Ind" => Hi(Addrs(cycles)[PointerAt]) = 0
    BY <2>1 DEF Outcome, PointersOK
  <2>3. Len(Addrs(cycles)) = Len(cycles) /\ \A k \in 1..Len(cycles) : Addrs(cycles)[k] = cycles[k].addr
    BY <2>2 DEF Addrs
  <2>4. PointerAt = (IF Meta.mode = "IndY" THEN 2 ELSE 3) /\ Len(cycles) \in Nat
    BY <2>2 DEF PointerAt
  <2>5. CASE Meta.mode = "IndY"
    <3>1. PointerAt = 2 /\ 2 \in 1..Len(cycles) /\ 3 \in 1..Len(cycles)
      BY <2>2, <2>3, <2>4, <2>5
    <3>2. bus'[1 + 2] = cycles[2] /\ bus'[1 + 3] = cycles[3]
      BY <2>1, <3>1
    <3>3. bus'[3] = cycles[2] /\ bus'[4] = cycles[3]
      BY <3>2
    <3>4. Hi(cycles[2].addr) = Hi(cycles[3].addr) /\ (Meta.mode # "Ind" => Hi(cycles[2].addr) = 0)
      BY <2>2, <2>3, <3>1
    <3> QED BY <2>5, <3>3, <3>4
  <2>6. CASE Meta.mode # "IndY"
    <3>1. PointerAt = 3 /\ 3 \in 1..Len(cycles) /\ 4 \in 1..Len(cycles)
      BY <2>2, <2>3, <2>4, <2>6
    <3>2. bus'[1 + 3] = cycles[3] /\ bus'[1 + 4] = cycles[4]
      BY <2>1, <3>1
    <3>3. bus'[4] = cycles[3] /\ bus'[5] = cycles[4]
      BY <3>2
    <3>4. Hi(cycles[3].addr) = Hi(cycles[4].addr) /\ (Meta.mode # "Ind" => Hi(cycles[3].addr) = 0)
      BY <2>2, <2>3, <3>1
    <3> QED BY <2>6, <3>3, <3>4
  <2> QED BY <2>5, <2>6
<1> QED BY <1>1, TypeCorrect, PTL DEF PointersStayInPage, Spec

\* Instructions.CallsReturn: RTS returns after the JSR whose return address is on
\* top of the stack, whatever ran in between, as long as nothing overwrote it.
THEOREM CallsReturnHolds == Spec => CallsReturn
<1>1. IInv /\ [Next]_vars => [rts => \A f \in frames : f.sp = cpu.SP => cpu'.PC = f.ret]_vars
  <2> SUFFICES ASSUME IInv, rts, NEW f \in frames, f.sp = cpu.SP PROVE cpu'.PC = f.ret
    OBVIOUS
  <2>1. TypeOK /\ Held(cells, f) /\ f \in Frame
    BY DEF IInv, FramesInv, TypeOK, Frame
  <2>2. PICK c, cycles : /\ Finish(c, cycles)
                         /\ \A g \in Frame : g.sp = cpu.SP /\ Held(cells, g) => c.PC = g.ret
    BY <2>1, RtsRuns
  <2>3. cpu' = c
    BY <2>2 DEF Finish, Retire
  <2> QED BY <2>1, <2>2, <2>3
<1> QED BY <1>1, InvHolds, PTL DEF CallsReturn, Spec

-------------------------------------------------------------------------------
(* The disassembler.                                                         *)

LEMMA OffsetRange == ASSUME NEW b \in Byte PROVE Offset(b) \in Int /\ -128 <= Offset(b) /\ Offset(b) <= 127
  BY Numbers DEF Offset

\* Wrapping PC + 2 before the offset is added, as branch does, or only once after
\* it, as the disassembler does, gives the same destination.
LEMMA WrapOnce ==
    ASSUME NEW w \in Word, NEW i \in Int, -128 <= i, i <= 127
    PROVE  (((w + 2) % 65536) + i) % 65536 = (w + 2 + i) % 65536
<1> DEFINE a == w + 2
           m == a % 65536
           u == m + i
           v == w + 2 + i
<1>1. w \in Int /\ 0 <= w /\ w <= 65535 /\ a \in Int /\ a = w + 2 /\ v \in Int /\ v = a + i
  BY Numbers
<1> HIDE DEF a, v
<1>2. ASSUME a <= 65535 PROVE u % 65536 = v % 65536
  <2>1. m = a
    BY <1>1, <1>2, InRange
  <2> HIDE DEF m
  <2>2. u = v
    BY <1>1, <2>1
  <2> QED BY <2>2
<1>3. ASSUME 65536 <= a PROVE u % 65536 = v % 65536
  <2>1. m = a - 65536
    BY <1>1, <1>3, AboveRange
  <2> HIDE DEF m
  <2>2. u \in Int /\ u = v - 65536 /\ -128 <= u /\ u <= 128
    BY <1>1, <1>3, <2>1
  <2> HIDE DEF u
  <2>3. ASSUME u < 0 PROVE u % 65536 = v % 65536
    <3>1. u % 65536 = u + 65536
      BY <2>2, <2>3, BelowRange
    <3>2. v % 65536 = v
      BY <1>1, <2>2, <2>3, InRange
    <3> QED BY <1>1, <2>2, <3>1, <3>2
  <2>4. ASSUME 0 <= u PROVE u % 65536 = v % 65536
    <3>1. u % 65536 = u
      BY <2>2, <2>4, InRange
    <3>2. v % 65536 = v - 65536
      BY <1>1, <2>2, <2>4, AboveRange
    <3> QED BY <2>2, <3>1, <3>2
  <2> QED BY <2>2, <2>3, <2>4
<1> HIDE DEF u
<1>4. u % 65536 = v % 65536
  BY <1>1, <1>2, <1>3
<1> QED BY <1>4 DEF u, m, a, v

Shown == Disassemble([k \in 0..2 |-> Mem(At(k))], cpu.PC)

\* The disassembler decodes the same entry and the same operand bytes.
LEMMA ShownIs ==
    ASSUME TypeOK
    PROVE  /\ Shown.length = Meta.length
           /\ Meta.mode = "Rel" => Shown.operand = (cpu.PC + 2 + Offset(Operand1)) % 65536
           /\ Meta.mode = "Abs" => Shown.operand = OperandWord
<1> DEFINE bytes == [k \in 0..2 |-> Mem(At(k))]
<1>1. At(0) = cpu.PC
  <2>1. cpu.PC \in Int /\ 0 <= cpu.PC /\ cpu.PC <= 65535
    BY RegisterTypes, Numbers
  <2>2. cpu.PC + 0 = cpu.PC
    BY <2>1
  <2> QED BY <2>1, <2>2, InRange DEF At
<1>2. bytes[0] = Mem(cpu.PC) /\ bytes[1] = Operand1 /\ bytes[2] = Mem(At(2))
  BY <1>1 DEF Operand1
<1> HIDE DEF bytes
<1>3. Shown = [mnemonic |-> Meta.mnemonic, mode |-> Meta.mode,
               operand |-> appendOperand(bytes, cpu.PC, Meta.mode), length |-> Meta.length]
  BY <1>2 DEF Shown, Disassemble, Meta, bytes
<1>4. Shown.length = Meta.length /\ Shown.operand = appendOperand(bytes, cpu.PC, Meta.mode)
  BY <1>3
<1>5. ASSUME Meta.mode = "Rel"
      PROVE  Shown.operand = (cpu.PC + 2 + Offset(Operand1)) % 65536
  <2>1. modeBytes["Rel"] = 2
    BY DEF modeBytes
  <2>2. appendOperand(bytes, cpu.PC, "Rel") = (cpu.PC + 2 + Offset(bytes[1])) % 65536
    BY <2>1 DEF appendOperand
  <2> QED BY <1>2, <1>4, <1>5, <2>2
<1>6. ASSUME Meta.mode = "Abs" PROVE Shown.operand = OperandWord
  <2>1. modeBytes["Abs"] = 3
    BY DEF modeBytes
  <2>2. appendOperand(bytes, cpu.PC, "Abs") = bytes[1] + 256 * bytes[2]
    BY <2>1 DEF appendOperand
  <2> QED BY <1>2, <1>4, <1>6, <2>2 DEF OperandWord, MakeWord
<1> QED BY <1>4, <1>5, <1>6

Jumps == Meta.mnemonic \in {"JMP", "JSR"} \/ (Meta.mode = "Rel" /\ Taken)
Predicted == cpu'.PC = IF Jumps THEN Shown.operand ELSE (cpu.PC + Shown.length) % 65536

\* The mnemonics of the instructions that always go on with the next one.
Sequential == ReadOps \cup DOMAIN StoreOps \cup RmwOps \cup Quick \cup {"???"} \cup DOMAIN StackCycles

LEMMA SequentialMode ==
    ASSUME TypeOK, Meta.mnemonic \in Sequential PROVE Meta.mode # "Rel" /\ Meta.mnemonic \notin {"JMP", "JSR"}
<1>1. Meta.mnemonic \notin {"JMP", "JSR"}
  BY FamiliesDisjoint DEF Sequential
<1>2. CASE Meta.mnemonic \in ReadOps
  BY <1>1, <1>2, MetaFamily DEF ReadCycles
<1>3. CASE Meta.mnemonic \in DOMAIN StoreOps
  BY <1>1, <1>3, MetaFamily DEF StoreCycles
<1>4. CASE Meta.mnemonic \in RmwOps
  BY <1>1, <1>4, MetaFamily DEF RmwCycles
<1>5. CASE Meta.mnemonic \in Quick \cup DOMAIN StackCycles
  BY <1>1, <1>5, MetaFamily
<1>6. CASE Meta.mnemonic = "???"
  BY <1>1, <1>6, MetaFamily DEF IllegalMeta
<1> QED BY <1>1, <1>2, <1>3, <1>4, <1>5, <1>6 DEF Sequential

LEMMA SequentialPredicted ==
    ASSUME TypeOK, Straight, Meta.mnemonic \in Sequential PROVE Predicted
<1>1. PICK c, cycles : Finish(c, cycles) /\ c.PC = Following
  BY DEF Straight
<1>2. cpu'.PC = Following
  BY <1>1 DEF Finish, Retire
<1>3. ~Jumps
  BY SequentialMode DEF Jumps
<1> QED BY <1>2, <1>3, ShownIs DEF Predicted, Following

LEMMA BranchPredicted == ASSUME TypeOK, branch PROVE Predicted
<1>1. PICK c, cycles : /\ Finish(c, cycles)
                       /\ c.PC = IF Taken THEN (At(2) + Offset(Operand1)) % 65536 ELSE Following
  BY BranchRuns
<1>2. cpu'.PC = IF Taken THEN (At(2) + Offset(Operand1)) % 65536 ELSE Following
  BY <1>1 DEF Finish, Retire
<1>3. Meta.mnemonic \in DOMAIN Branches
  BY DEF branch, Executes
<1>4. Meta.mode = "Rel" /\ Meta.mnemonic \notin {"JMP", "JSR"}
  BY <1>3, MetaFamily, FamiliesDisjoint
<1>5. Jumps = Taken
  BY <1>4 DEF Jumps, Taken
<1>6. (At(2) + Offset(Operand1)) % 65536 = (cpu.PC + 2 + Offset(Operand1)) % 65536
  <2>1. cpu.PC \in Word /\ Offset(Operand1) \in Int /\ -128 <= Offset(Operand1) /\ Offset(Operand1) <= 127
    BY RegisterTypes, OperandTypes, OffsetRange
  <2> DEFINE i == Offset(Operand1)
  <2> HIDE DEF i
  <2>2. (((cpu.PC + 2) % 65536) + i) % 65536 = (cpu.PC + 2 + i) % 65536
    BY <2>1, WrapOnce DEF i
  <2> QED BY <2>2 DEF i, At
<1>7. ASSUME Taken PROVE Predicted
  BY <1>2, <1>4, <1>5, <1>6, <1>7, ShownIs DEF Predicted
<1>8. ASSUME ~Taken PROVE Predicted
  BY <1>2, <1>5, <1>8, ShownIs DEF Predicted, Following
<1> QED BY <1>7, <1>8

LEMMA JumpPredicted ==
    ASSUME TypeOK, Meta.mode # "Ind",
           JMP \/ (jsr /\ At(2) \notin {Stack(0), Stack(-1)})
    PROVE  Predicted
<1>1. Meta.mnemonic \in {"JMP", "JSR"}
  BY DEF JMP, jsr, Executes
<1>2. Meta.mode = "Abs" /\ cpu'.PC = OperandWord
  <2>1. CASE JMP
    <3>1. PICK c, cycles : Finish(c, cycles) /\ Meta.mode = "Abs" /\ c.PC = OperandWord
      BY <2>1, JmpRuns
    <3> QED BY <3>1 DEF Finish, Retire
  <2>2. CASE jsr /\ At(2) \notin {Stack(0), Stack(-1)}
    <3>1. PICK c, cycles : \E f \in Frame : Retire(c, cycles, {f}) /\ c.PC = OperandWord
      BY <2>2, JsrRuns
    <3>2. PICK f \in Frame : Retire(c, cycles, {f}) /\ c.PC = OperandWord
      BY <3>1
    <3>3. cpu' = c
      BY <3>2 DEF Retire
    <3>4. Meta.mnemonic = "JSR"
      BY <2>2 DEF jsr, Executes
    <3> QED BY <3>2, <3>3, <3>4, MetaFamily
  <2> QED BY <2>1, <2>2
<1> QED BY <1>1, <1>2, ShownIs DEF Predicted, Jumps

\* Instructions.DisassemblerPredictsPC: for every program and register file, what
\* Disassemble shows of an instruction is where the CPU goes next.
THEOREM DisassemblerPredictsPCHolds == Spec => DisassemblerPredictsPC
<1> DEFINE Asked == /\ Step /\ Meta.mnemonic \notin {"BRK", "RTS", "RTI"} /\ Meta.mode # "Ind"
                    /\ (Meta.mnemonic = "JSR" => At(2) \notin {Stack(0), Stack(-1)})
<1>1. ASSUME TypeOK, Asked PROVE Predicted
  <2>1. ASSUME ReadOp PROVE Predicted
    <3>1. Meta.mnemonic \in Sequential
      BY <2>1 DEF ReadOp, Executes, Sequential
    <3> QED BY <1>1, <2>1, <3>1, ReadOpRuns, SequentialPredicted
  <2>2. ASSUME StoreOp PROVE Predicted
    <3>1. Meta.mnemonic \in Sequential
      BY <2>2 DEF StoreOp, Executes, Sequential
    <3> QED BY <1>1, <2>2, <3>1, StoreOpRuns, SequentialPredicted
  <2>3. ASSUME rmw PROVE Predicted
    <3>1. Meta.mnemonic \in Sequential
      BY <2>3 DEF rmw, Executes, Sequential
    <3> QED BY <1>1, <2>3, <3>1, RmwRuns, SequentialPredicted
  <2>4. ASSUME AccumulatorShift PROVE Predicted
    <3>1. Meta.mnemonic \in Sequential
      BY <2>4 DEF AccumulatorShift, Executes, Sequential
    <3> QED BY <1>1, <2>4, <3>1, AccumulatorRuns, SequentialPredicted
  <2>5. ASSUME Transfer PROVE Predicted
    <3>1. Meta.mnemonic \in Sequential
      BY <2>5 DEF Transfer, Executes, Sequential, Quick
    <3> QED BY <1>1, <2>5, <3>1, TransferRuns, SequentialPredicted
  <2>6. ASSUME TXS PROVE Predicted
    <3>1. Meta.mnemonic \in Sequential
      BY <2>6 DEF TXS, Executes, Sequential, Quick
    <3> QED BY <1>1, <2>6, <3>1, TxsRuns, SequentialPredicted
  <2>7. ASSUME FlagOp PROVE Predicted
    <3>1. Meta.mnemonic \in Sequential
      BY <2>7 DEF FlagOp, Executes, Sequential, Quick
    <3> QED BY <1>1, <2>7, <3>1, FlagOpRuns, SequentialPredicted
  <2>8. ASSUME Count PROVE Predicted
    <3>1. Meta.mnemonic \in Sequential
      BY <2>8 DEF Count, Executes, Sequential, Quick
    <3> QED BY <1>1, <2>8, <3>1, CountRuns, SequentialPredicted
  <2>9. ASSUME NOP PROVE Predicted
    <3>1. Meta.mnemonic \in Sequential
      BY <2>9 DEF NOP, Executes, Sequential, Quick
    <3> QED BY <1>1, <2>9, <3>1, NopRuns, SequentialPredicted
  <2>10. ASSUME branch PROVE Predicted
    BY <1>1, <2>10, BranchPredicted
  <2>11. ASSUME JMP PROVE Predicted
    BY <1>1, <2>11, JumpPredicted
  <2>12. ASSUME jsr PROVE Predicted
    <3>1. Meta.mnemonic = "JSR"
      BY <2>12 DEF jsr, Executes
    <3> QED BY <1>1, <2>12, <3>1, JumpPredicted
  <2>13. ASSUME Push PROVE Predicted
    <3>1. Meta.mnemonic \in Sequential
      BY <2>13 DEF Push, Executes, Sequential, StackCycles
    <3> QED BY <1>1, <2>13, <3>1, PushRuns, SequentialPredicted
  <2>14. ASSUME Pull PROVE Predicted
    <3>1. Meta.mnemonic \in Sequential
      BY <2>14 DEF Pull, Executes, Sequential, StackCycles
    <3> QED BY <1>1, <2>14, <3>1, PullRuns, SequentialPredicted
  <2>15. ~rts
    BY <1>1 DEF rts, Executes
  <2>16. ~rti
    BY <1>1 DEF rti, Executes
  <2>17. ~brk
    BY <1>1 DEF brk, Executes
  <2>18. Step
    BY <1>1
  <2> HIDE DEF Asked
  <2> QED BY <2>1, <2>2, <2>3, <2>4, <2>5, <2>6, <2>7, <2>8, <2>9, <2>10, <2>11, <2>12, <2>13, <2>14,
             <2>15, <2>16, <2>17, <2>18 DEF Step
<1>2. TypeOK /\ [Next]_vars =>
        [Asked => LET shown == Disassemble([k \in 0..2 |-> Mem(At(k))], cpu.PC)
                      jumps == Meta.mnemonic \in {"JMP", "JSR"} \/ (Meta.mode = "Rel" /\ Taken)
                  IN  cpu'.PC = IF jumps THEN shown.operand ELSE (cpu.PC + shown.length) % 65536]_vars
  <2> HIDE DEF Asked
  <2> QED BY <1>1 DEF Predicted, Shown, Jumps
<1> QED BY <1>2, TypeCorrect, PTL DEF DisassemblerPredictsPC, Spec

================================================================================
