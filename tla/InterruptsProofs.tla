--------------------------- MODULE InterruptsProofs ---------------------------
(***************************************************************************)
(* Proofs about Interrupts.  Inv is the inductive invariant: it adds to    *)
(* the properties what an entry in progress has already pushed, where its  *)
(* frame will lie, and what the NMI latch means during an NMI entry.       *)
(***************************************************************************)
EXTENDS Interrupts, TLAPS

(* What goes over the bus when P and PC are pushed comes back when pulled.     *)

\* The pushed copy of P is a byte.
LEMMA EncodeType == ASSUME NEW S PROVE Encode(S) \in Byte
  BY DEF Encode, Weight, Byte

\* A byte that was pushed is pulled as the same flags.
LEMMA DecodeEncode == ASSUME NEW S \in SUBSET Flags PROVE Decode(Encode(S)) = S
<1> DEFINE b(f) == IF f \in S THEN 1 ELSE 0
<1>1. Encode(S) = b("C") + 2*b("Z") + 4*b("I") + 8*b("D")
                    + 16*b("B") + 32*b("U") + 64*b("V") + 128*b("N")
  BY DEF Encode, Weight
<1>2. \A f \in Flags : b(f) \in {0,1}
  OBVIOUS
<1>3. \A f \in Flags : (Encode(S) \div Weight[f]) % 2 = b(f)
  <2> HIDE DEF b
  <2> QED BY <1>1, <1>2, SMTT(60) DEF Flags, Weight
<1> QED BY <1>3 DEF Decode

\* A PC pushed as two bytes is pulled as the same PC.
LEMMA WordParts ==
    ASSUME NEW w \in Word
    PROVE  Hi(w) \in Byte /\ Lo(w) \in Byte /\ MakeWord(Lo(w), Hi(w)) = w
  BY DEF Hi, Lo, MakeWord, Byte, Word

-------------------------------------------------------------------------------
\* What enterInterrupt has done so far: the context it interrupts is still in
\* PC and P until P is pushed, and the bytes already pushed are on the stack.
EntryInv ==
    /\ kind = "none" => cycle = 0
    /\ kind # "none" /\ cycle <= 4 => resume.p = P
    /\ kind = "brk" /\ cycle = 0 => resume.pc = (PC + 2) % 65536
    /\ kind = "brk" /\ cycle = 1 => resume.pc = (PC + 1) % 65536
    /\ kind # "none" /\ (kind # "brk" \/ cycle >= 2) => resume.pc = PC
    /\ kind = "irq" /\ cycle <= 4 => "I" \notin P
    /\ kind \notin {"none", "reset"} /\ cycle = 3 => stack[(SP + 1) % 256] = Hi(PC)
    /\ kind \notin {"none", "reset"} /\ cycle = 4 =>
          stack[(SP + 2) % 256] = Hi(PC) /\ stack[(SP + 1) % 256] = Lo(PC)

\* A frame that no write has touched still holds the context it saved.
FrameIntact(st, f) ==
    /\ st[f.at] = Hi(f.pc)
    /\ st[(f.at - 1) % 256] = Lo(f.pc)
    /\ st[(f.at - 2) % 256] = Encode(PushedStatus(f.p, f.cause = "brk"))
    /\ f.cause = "irq" => "I" \notin f.p

FramesInv == \A f \in frames : FrameIntact(stack, f)

LatchInv ==
    /\ line = nmiPrev
    /\ kind # "nmi" => (nmiPending <=> owed = "yes")
    /\ kind = "nmi" => nmiPending
    /\ kind = "nmi" => (cycle <= 4 <=> owed = "yes")

\* B is never live when the host does not put it there.
BreakInv == "B" \notin P /\ "B" \notin resume.p /\ \A f \in frames : "B" \notin f.p

Inv == TypeOK /\ EntryInv /\ FramesInv /\ LatchInv

-------------------------------------------------------------------------------
(* Lemmas about the operators.                                               *)

\* Pushing and pulling P keeps it a byte and a set of flags (status.go).
LEMMA StatusTypes ==
    /\ \A S \in SUBSET Flags, b \in BOOLEAN : PushedStatus(S, b) \in SUBSET Flags
    /\ \A v : PulledStatus(v) \in SUBSET Flags
    /\ \A S \in SUBSET Flags, v \in Byte : SetNZ(S, v) \in SUBSET Flags
    /\ \A S : Encode(S) \in Byte
<1>1. \A v : Decode(v) \in SUBSET Flags
  BY DEF Decode
<1>2. \A S \in SUBSET Flags, f \in Flags, b \in BOOLEAN : SetFlag(S, f, b) \in SUBSET Flags
  BY DEF SetFlag
<1>3. \A S \in SUBSET Flags, v \in Byte : SetNZ(S, v) \in SUBSET Flags
  BY <1>2 DEF SetNZ, SetFlag, Flags
<1>4. \A S \in SUBSET Flags, b \in BOOLEAN : PushedStatus(S, b) \in SUBSET Flags
  BY DEF PushedStatus, Flags
<1>5. \A v : PulledStatus(v) \in SUBSET Flags
  BY <1>1 DEF PulledStatus, Flags
<1> QED BY <1>3, <1>4, <1>5, EncodeType

\* SP stays a byte when it is moved up or down (uint8 arithmetic).
LEMMA StackPointerTypes ==
    ASSUME SP \in Byte
    PROVE  \A n \in Nat : Down(n) \in Byte /\ Up(n) \in Byte
<1>1. \A i \in Int : i % 256 \in 0..255
  OBVIOUS
<1>2. \A n \in Nat : SP - n \in Int /\ SP + n \in Int
  BY DEF Byte
<1> QED BY <1>1, <1>2 DEF Down, Up, Byte

\* The halves of PC that are pushed are bytes.
LEMMA PartTypes == \A w \in Word : Hi(w) \in Byte /\ Lo(w) \in Byte
BY WordParts

\* A PC put together from two pulled bytes is a word.
LEMMA MakeWordType == \A l \in Byte, h \in Byte : MakeWord(l, h) \in Word
BY DEF MakeWord, Byte, Word

\* PC stays a word when it moves on (uint16 arithmetic).
LEMMA WordWrap == \A w \in Word, n \in Nat : (w + n) % 65536 \in Word
<1>1. \A i \in Int : i % 65536 \in Word
  BY DEF Word
<1>2. \A w \in Word, n \in Nat : w + n \in Int
  BY DEF Word
<1> QED BY <1>1, <1>2

\* SP arithmetic is modulo 256, PC arithmetic modulo 65536.
LEMMA StackArith ==
    \A a \in Byte :
        /\ (((a - 1) % 256) + 1) % 256 = a
        /\ (((a - 1) % 256) + 2) % 256 = (a + 1) % 256
        /\ (((a + 2) % 256) - 1) % 256 = (a + 1) % 256
        /\ (((a + 2) % 256) - 2) % 256 = a
        /\ (((a + 3) % 256) - 1) % 256 = (a + 2) % 256
        /\ (((a + 3) % 256) - 2) % 256 = (a + 1) % 256
        /\ (a + 1) % 256 # a /\ (a + 2) % 256 # a /\ (a + 1) % 256 # (a + 2) % 256
        /\ (a + 1) % 256 \in Byte /\ (a + 2) % 256 \in Byte /\ (a + 3) % 256 \in Byte
<1> TAKE a \in Byte
<1> DEFINE m1 == IF a = 0 THEN 255 ELSE a - 1
           p1 == IF a = 255 THEN 0 ELSE a + 1
           p2 == IF a >= 254 THEN a - 254 ELSE a + 2
           p3 == IF a >= 253 THEN a - 253 ELSE a + 3
<1>1. (a - 1) % 256 = m1 /\ (a + 1) % 256 = p1 /\ (a + 2) % 256 = p2 /\ (a + 3) % 256 = p3
  BY DEF Byte
<1>2. (m1 + 1) % 256 = a /\ (m1 + 2) % 256 = p1
  BY DEF Byte
<1>3. (p2 - 1) % 256 = p1 /\ (p2 - 2) % 256 = a
  BY DEF Byte
<1>4. (p3 - 1) % 256 = p2 /\ (p3 - 2) % 256 = p1
  BY DEF Byte
<1>5. /\ p1 # a /\ p2 # a /\ p1 # p2
      /\ p1 \in Byte /\ p2 \in Byte /\ p3 \in Byte
  BY DEF Byte
<1> HIDE DEF m1, p1, p2, p3
<1> QED BY <1>1, <1>2, <1>3, <1>4, <1>5

\* Two single increments of PC are one of two, wrap-around included.
LEMMA WordArith == \A w \in Word : (((w + 1) % 65536) + 1) % 65536 = (w + 2) % 65536
BY DEF Word

\* Every flag named in the model is a flag.
LEMMA FlagsAre == {"C", "Z", "I", "D", "B", "U", "V", "N"} \subseteq Flags
BY DEF Flags

-------------------------------------------------------------------------------
(* Type correctness.                                                         *)

\* New gives every field a value of its type.
LEMMA TypeInit == Init => TypeOK
<1> SUFFICES ASSUME Init PROVE TypeOK
  OBVIOUS
<1>1. 0 \in Word /\ 0 \in Byte
  BY DEF Word, Byte
<1>2. stack \in [Byte -> Byte]
  BY <1>1 DEF Init
<1>3. resume \in [pc : Word, p : SUBSET Flags]
  BY <1>1 DEF Init
<1>4. /\ 0 \in 0..MaxSteps /\ 0 \in 0..MaxEdges /\ 0 \in 0..MaxResets
      /\ 0 \in 0..6
  BY InterruptsAssumption
<1> QED BY <1>1, <1>2, <1>3, <1>4 DEF Init, TypeOK, Kinds

\* The host calls (AssertNMI, SetRDY, ...) keep the types.
LEMMA HostType == TypeOK /\ Host => TypeOK'
<1> SUFFICES ASSUME TypeOK, Host PROVE TypeOK'
  OBVIOUS
<1> USE InterruptsAssumption
<1>1. CASE AssertReset
  BY <1>1 DEF TypeOK, AssertReset, regs, entry, history
<1>2. CASE AssertNMI
  BY <1>2 DEF TypeOK, AssertNMI, regs, entry
<1>3. CASE DeassertNMI
  BY <1>3 DEF TypeOK, DeassertNMI, regs, entry, counts
<1>4. CASE SetRegisters
  <2>1. PC' \in Word /\ SP' \in Byte /\ P' \in SUBSET Flags
    BY <1>4 DEF SetRegisters
  <2>2. steps' \in 0..MaxSteps
    BY <1>4 DEF TypeOK, SetRegisters
  <2> QED BY <1>4, <2>1, <2>2 DEF TypeOK, SetRegisters, entry, history
<1>5. ASSUME NEW b \in BOOLEAN, AssertIRQ(b) PROVE TypeOK'
  BY <1>5 DEF TypeOK, AssertIRQ, regs, entry, counts, history
<1>6. ASSUME NEW b \in BOOLEAN, SetRDY(b) PROVE TypeOK'
  BY <1>6 DEF TypeOK, SetRDY, regs, entry, counts, history
<1> QED BY <1>1, <1>2, <1>3, <1>4, <1>5, <1>6 DEF Host

\* A write to the stack page only removes frames.
LEMMA SurvivorsType == TypeOK => \A a : Survivors(a) \in SUBSET Frame
BY DEF TypeOK, Survivors

\* Every bus access of enterInterrupt keeps the types.
LEMMA EntryType == TypeOK /\ Entry => TypeOK'
<1> SUFFICES ASSUME TypeOK, Entry PROVE TypeOK'
  OBVIOUS
<1> USE InterruptsAssumption
<1>0. /\ Down(1) \in Byte /\ Up(2) \in Byte
      /\ \A a : Survivors(a) \in SUBSET Frame
      /\ Hi(PC) \in Byte /\ Lo(PC) \in Byte
      /\ Encode(PushedStatus(P, kind = "brk")) \in Byte
  <2>1. PC \in Word /\ SP \in Byte
    BY DEF TypeOK
  <2> QED BY <2>1, StackPointerTypes, SurvivorsType, PartTypes, EncodeType
<1>1. \A b \in Byte : EntryPush(b) => SP' \in Byte /\ stack' \in [Byte -> Byte]
  BY <1>0 DEF TypeOK, EntryPush
<1>2. ASSUME NEW k \in Kinds, Enter(k) PROVE TypeOK'
  BY <1>2 DEF TypeOK, Enter, regs, signals, counts
<1>3. CASE ServiceReset \/ ServiceNMI \/ ServiceIRQ
  BY <1>2, <1>3 DEF ServiceReset, ServiceNMI, ServiceIRQ, Kinds
<1>4. CASE EntryFetch
  <2>1. PC' \in Word
    BY <1>4, WordWrap DEF TypeOK, EntryFetch
  <2>2. cycle' \in 0..6
    BY <1>4 DEF TypeOK, EntryFetch
  <2> QED BY <1>4, <2>1, <2>2 DEF TypeOK, EntryFetch, signals, counts, history
<1>5. CASE EntryPushPCH
  <2>1. frames' \in SUBSET Frame
    BY <1>0, <1>5 DEF TypeOK, EntryPushPCH, Survived
  <2> QED BY <1>0, <1>1, <1>5, <2>1 DEF TypeOK, EntryPushPCH, signals, counts
<1>6. CASE EntryPushPCL
  <2>1. frames' \in SUBSET Frame
    BY <1>0, <1>6 DEF TypeOK, EntryPushPCL, Survived
  <2> QED BY <1>0, <1>1, <1>6, <2>1 DEF TypeOK, EntryPushPCL, signals, counts
<1>7. CASE EntryPushP
  <2>1. frames' \in SUBSET Frame
    <3>1. kind # "reset" =>
            [cause |-> kind, at |-> Up(2), pc |-> resume.pc, p |-> resume.p] \in Frame
      BY <1>0, <1>7 DEF TypeOK, EntryPushP, Frame
    <3> QED BY <1>0, <1>7, <3>1 DEF TypeOK, EntryPushP
  <2>2. P' \in SUBSET Flags
    BY <1>7, FlagsAre DEF TypeOK, EntryPushP
  <2>3. vec' \in {NmiVec, ResetVec, IrqVec} /\ nmiPending' \in BOOLEAN
    BY <1>7 DEF TypeOK, EntryPushP, ChooseVector
  <2> QED BY <1>0, <1>1, <1>7, <2>1, <2>2, <2>3 DEF TypeOK, EntryPushP, counts
<1>8. CASE EntryVectorLo
  <2>1. Vector[vec] \in Word
    BY DEF TypeOK
  <2>2. lo' \in Byte
    BY <1>8, <2>1, PartTypes DEF EntryVectorLo
  <2> QED BY <1>8, <2>2 DEF TypeOK, EntryVectorLo, regs, signals, counts, history
<1>9. CASE EntryVectorHi
  <2>1. PC' \in Word
    <3>1. Vector[vec] \in Word /\ lo \in Byte
      BY DEF TypeOK
    <3> QED BY <1>9, <3>1, PartTypes, MakeWordType DEF EntryVectorHi
  <2>2. nmiPending' \in BOOLEAN /\ resetPending' \in BOOLEAN
    BY <1>9 DEF TypeOK, EntryVectorHi, ClearServiced
  <2> QED BY <1>9, <2>1, <2>2 DEF TypeOK, EntryVectorHi, counts, history
<1> QED BY <1>3, <1>4, <1>5, <1>6, <1>7, <1>8, <1>9 DEF Entry

\* Every instruction keeps the types.
LEMMA InstructionType == TypeOK /\ Instruction => TypeOK'
<1> SUFFICES ASSUME TypeOK, Instruction PROVE TypeOK'
  OBVIOUS
<1> USE InterruptsAssumption
<1>0. /\ \A n \in 1..3 : Down(n) \in Byte /\ Up(n) \in Byte /\ stack[Up(n)] \in Byte
      /\ \A a : Survivors(a) \in SUBSET Frame
      /\ \A n \in Nat : (PC + n) % 65536 \in Word
  <2>1. PC \in Word /\ SP \in Byte /\ stack \in [Byte -> Byte]
    BY DEF TypeOK
  <2>2. \A n \in 1..3 : Down(n) \in Byte /\ Up(n) \in Byte
    BY <2>1, StackPointerTypes
  <2> QED BY <2>1, <2>2, SurvivorsType, WordWrap
<1>1. CASE BRK
  <2>1. /\ resume' \in [pc : Word, p : SUBSET Flags]
        /\ steps' \in 0..MaxSteps
    BY <1>0, <1>1 DEF TypeOK, BRK, Dispatch
  <2> QED BY <1>1, <2>1 DEF TypeOK, BRK, Kinds, regs, signals
<1>2. ASSUME Ordinary, PC' \in Word, SP' \in Byte, P' \in SUBSET Flags,
             stack' \in [Byte -> Byte], frames' \in SUBSET Frame
      PROVE  TypeOK'
  <2>1. steps' \in 0..MaxSteps
    BY <1>2 DEF TypeOK, Ordinary, Dispatch
  <2> QED BY <1>2, <2>1 DEF TypeOK, Ordinary, signals, entry
<1>3. CASE Plain
  <2>1. P' \in SUBSET Flags
    BY <1>3 DEF TypeOK, Plain, Flags
  <2> QED BY <1>2, <1>3, <2>1 DEF TypeOK, Plain
<1>4. CASE CLI
  <2>1. P' \in SUBSET Flags
    BY <1>4, FlagsAre DEF TypeOK, CLI, SetFlag
  <2>2. PC' \in Word
    BY <1>0, <1>4 DEF CLI
  <2> QED BY <1>2, <1>4, <2>1, <2>2 DEF TypeOK, CLI, SetFlag
<1>5. CASE SEI
  <2>1. P' \in SUBSET Flags
    BY <1>5, FlagsAre DEF TypeOK, SEI, SetFlag
  <2>2. PC' \in Word
    BY <1>0, <1>5 DEF SEI
  <2> QED BY <1>2, <1>5, <2>1, <2>2 DEF TypeOK, SEI, SetFlag
<1>6. CASE TXS
  BY <1>0, <1>2, <1>6 DEF TypeOK, TXS
<1>7. CASE STA
  <2>1. stack' \in [Byte -> Byte] /\ frames' \in SUBSET Frame
    BY <1>0, <1>7 DEF TypeOK, STA, WriteStack
  <2> QED BY <1>0, <1>2, <1>7, <2>1 DEF TypeOK, STA
<1>8. ASSUME NEW b \in Byte, Push(b)
      PROVE  SP' \in Byte /\ stack' \in [Byte -> Byte] /\ frames' \in SUBSET Frame
  BY <1>0, <1>8 DEF TypeOK, Push, WriteStack
<1>9. CASE PHA
  BY <1>0, <1>2, <1>8, <1>9 DEF TypeOK, PHA
<1>10. CASE PHP
  <2>1. SP' \in Byte /\ stack' \in [Byte -> Byte] /\ frames' \in SUBSET Frame
    BY <1>8, <1>10, EncodeType DEF PHP, PushedStatus
  <2>2. PC' \in Word
    BY <1>0, <1>10 DEF PHP
  <2> QED BY <1>2, <1>10, <2>1, <2>2 DEF TypeOK, PHP, PushedStatus
<1>11. CASE PLA
  BY <1>0, <1>2, <1>11, StatusTypes DEF TypeOK, PLA
<1>12. CASE PLP
  BY <1>0, <1>2, <1>12, StatusTypes DEF TypeOK, PLP
<1>13. CASE JSR
  <2>1. Hi((PC + 2) % 65536) \in Byte /\ Lo((PC + 2) % 65536) \in Byte
    BY <1>0, PartTypes
  <2>2. stack' \in [Byte -> Byte] /\ frames' \in SUBSET Frame
    BY <1>0, <1>13, <2>1 DEF TypeOK, JSR
  <2> QED BY <1>0, <1>2, <1>13, <2>2 DEF TypeOK, JSR
<1>14. CASE RTS
  <2>1. MakeWord(stack[Up(1)], stack[Up(2)]) \in Word
    BY <1>0, MakeWordType
  <2>2. PC' \in Word
    BY <1>14, <2>1, WordWrap DEF RTS
  <2> QED BY <1>0, <1>2, <1>14, <2>2 DEF TypeOK, RTS
<1>15. CASE RTI
  <2>1. PC' \in Word
    BY <1>0, <1>15, MakeWordType DEF RTI
  <2>2. P' \in SUBSET Flags
    BY <1>15, StatusTypes DEF RTI
  <2> QED BY <1>0, <1>2, <1>15, <2>1, <2>2 DEF TypeOK, RTI
<1> QED BY <1>1, <1>3, <1>4, <1>5, <1>6, <1>7, <1>9, <1>10, <1>11, <1>12, <1>13,
           <1>14, <1>15 DEF Instruction

\* Every step keeps the types.
LEMMA TypeStep == TypeOK /\ [Next]_vars => TypeOK'
<1>1. TypeOK /\ UNCHANGED vars => TypeOK'
  BY DEF TypeOK, vars
<1> QED BY <1>1, HostType, EntryType, InstructionType DEF Next, CpuStep

\* Every register, latch and local of the CPU keeps its type and width in
\* every reachable state (the uint8 and uint16 wrap-around of cpu.go).
THEOREM TypeCorrect == Spec => []TypeOK
BY TypeInit, TypeStep, PTL DEF Spec

-------------------------------------------------------------------------------
(* The inductive invariant.                                                  *)

\* New satisfies the inductive invariant.
LEMMA InvInit == Init => Inv
<1> SUFFICES ASSUME Init PROVE Inv
  OBVIOUS
<1>1. TypeOK
  BY TypeInit
<1>2. EntryInv
  BY DEF Init, EntryInv
<1>3. FramesInv
  BY DEF Init, FramesInv
<1>4. LatchInv
  BY DEF Init, LatchInv
<1> QED BY <1>1, <1>2, <1>3, <1>4 DEF Inv

\* Every instruction but BRK leaves the entry and the NMI latch alone.
LEMMA NotBrk == Instruction => BRK \/ Ordinary
<1>1. (Plain => Ordinary) /\ (TXS => Ordinary) /\ (STA => Ordinary)
  BY DEF Plain, TXS, STA
<1>2. (CLI => Ordinary) /\ (SEI => Ordinary)
  BY DEF CLI, SEI, SetFlag
<1>3. (PHA => Ordinary) /\ (PHP => Ordinary)
  BY DEF PHA, PHP, PushedStatus
<1>4. (PLA => Ordinary) /\ (PLP => Ordinary)
  BY DEF PLA, PLP
<1>5. (JSR => Ordinary) /\ (RTS => Ordinary) /\ (RTI => Ordinary)
  BY DEF JSR, RTS, RTI
<1> QED BY <1>1, <1>2, <1>3, <1>4, <1>5 DEF Instruction

\* Every step keeps the NMI latch equal to the edges that await service.
LEMMA LatchStep == Inv /\ [Next]_vars => LatchInv'
<1> SUFFICES ASSUME TypeOK, EntryInv, LatchInv, [Next]_vars PROVE LatchInv'
  BY DEF Inv
<1> DEFINE latch == <<line, nmiPrev, nmiPending, owed, kind, cycle>>
<1>0. UNCHANGED latch => LatchInv'
  BY DEF LatchInv
<1>1. CASE UNCHANGED vars
  BY <1>0, <1>1 DEF vars
<1>2. CASE AssertReset \/ SetRegisters \/ \E b \in BOOLEAN : AssertIRQ(b) \/ SetRDY(b)
  BY <1>0, <1>2 DEF AssertReset, SetRegisters, AssertIRQ, SetRDY, entry, counts, history
<1>3. CASE AssertNMI
  <2>1. line' = nmiPrev' /\ UNCHANGED <<kind, cycle>>
    BY <1>3 DEF AssertNMI, entry
  <2>2. CASE nmiPrev
    <3>1. UNCHANGED <<nmiPending, owed>>
      BY <1>3, <2>2 DEF AssertNMI, LatchInv, TypeOK
    <3> QED BY <2>1, <3>1 DEF LatchInv
  <2>3. CASE ~nmiPrev
    <3>1. /\ nmiPending'
          /\ owed' = IF kind = "nmi" /\ cycle >= 5 THEN "late" ELSE "yes"
      BY <1>3, <2>3 DEF AssertNMI, LatchInv, TypeOK
    <3> QED BY <2>1, <3>1 DEF LatchInv, TypeOK
  <2> QED BY <2>2, <2>3
<1>4. CASE DeassertNMI
  BY <1>4 DEF DeassertNMI, LatchInv, TypeOK, entry
<1>5. CASE ServiceReset \/ ServiceNMI \/ ServiceIRQ
  BY <1>5 DEF ServiceReset, ServiceNMI, ServiceIRQ, AtBoundary, Enter, LatchInv, TypeOK, signals
<1>6. CASE EntryFetch
  BY <1>6 DEF EntryFetch, LatchInv, TypeOK, signals, history
<1>7. CASE EntryPushPCH
  BY <1>7 DEF EntryPushPCH, LatchInv, TypeOK, signals
<1>8. CASE EntryPushPCL
  BY <1>8 DEF EntryPushPCL, LatchInv, TypeOK, signals
<1>9. CASE EntryPushP
  <2>1. kind = "nmi" => vec' = NmiVec /\ nmiPending'
    BY <1>9 DEF EntryPushP, ChooseVector, LatchInv
  <2>2. kind = "reset" => vec' # NmiVec /\ (nmiPending' <=> nmiPending)
    BY <1>9 DEF EntryPushP, ChooseVector, LatchInv, NmiVec, ResetVec, TypeOK
  <2>3. ASSUME kind \in {"irq", "brk"}
        PROVE  ~nmiPending' /\ (vec' = NmiVec <=> nmiPending)
    <3>1. vec' = IF nmiPending THEN NmiVec ELSE IrqVec
      BY <1>9, <2>3 DEF EntryPushP, ChooseVector
    <3>2. ~nmiPending'
      BY <1>9, <2>3 DEF EntryPushP, ChooseVector
    <3> QED BY <3>1, <3>2 DEF NmiVec, IrqVec
  <2> QED BY <1>9, <2>1, <2>2, <2>3 DEF EntryPushP, LatchInv, TypeOK, Kinds
<1>10. CASE EntryVectorLo
  BY <1>10 DEF EntryVectorLo, LatchInv, TypeOK, signals, history
<1>11. CASE EntryVectorHi
  <2>1. UNCHANGED <<line, nmiPrev, owed>> /\ kind' = "none" /\ cycle = 6
    BY <1>11 DEF EntryVectorHi, history
  <2>2. nmiPending' <=> nmiPending /\ kind # "nmi"
    BY <1>11 DEF EntryVectorHi, ClearServiced
  <2> QED BY <2>1, <2>2 DEF LatchInv
<1>12. CASE BRK
  BY <1>12 DEF BRK, Dispatch, AtBoundary, LatchInv, TypeOK, signals
<1>13. CASE Ordinary
  BY <1>0, <1>13 DEF Ordinary, signals, entry
<1> QED BY <1>1, <1>2, <1>3, <1>4, <1>5, <1>6, <1>7, <1>8, <1>9, <1>10, <1>11, <1>12,
           <1>13, NotBrk DEF Next, Host, CpuStep, Entry

\* Every step keeps what is known of the entry in progress.
LEMMA EntryStep == Inv /\ [Next]_vars => EntryInv'
<1> SUFFICES ASSUME TypeOK, EntryInv, [Next]_vars PROVE EntryInv'
  BY DEF Inv
<1>0. UNCHANGED <<PC, SP, P, stack, kind, cycle, resume>> => EntryInv'
  BY DEF EntryInv
<1>1. CASE UNCHANGED vars
  BY <1>0, <1>1 DEF vars
<1>2. CASE AssertReset \/ AssertNMI \/ DeassertNMI
           \/ \E b \in BOOLEAN : AssertIRQ(b) \/ SetRDY(b)
  BY <1>0, <1>2 DEF AssertReset, AssertNMI, DeassertNMI, AssertIRQ, SetRDY, regs, entry, history
<1>3. kind' = "none" /\ cycle' = 0 => EntryInv'
  BY DEF EntryInv
<1>4. CASE SetRegisters
  BY <1>3, <1>4 DEF SetRegisters, entry, EntryInv
<1>5. CASE ServiceReset \/ ServiceNMI \/ ServiceIRQ
  BY <1>5 DEF ServiceReset, ServiceNMI, ServiceIRQ, AtBoundary, Enter, EntryInv, regs
<1>6. CASE EntryFetch
  <2>1. kind = "brk" /\ cycle = 0 => resume.pc = (PC' + 1) % 65536
    <3>1. PC \in Word
      BY DEF TypeOK
    <3> QED BY <1>6, <3>1, WordArith DEF EntryFetch, EntryInv
  <2>2. kind = "brk" /\ cycle = 1 => resume.pc = PC'
    BY <1>6 DEF EntryFetch, EntryInv
  <2> QED BY <1>6, <2>1, <2>2 DEF EntryFetch, EntryInv, TypeOK, history
<1>7. CASE EntryPushPCH
  <2>1. (SP' + 1) % 256 = SP
    <3>1. SP \in Byte
      BY DEF TypeOK
    <3> QED BY <1>7, <3>1, StackArith DEF EntryPushPCH, EntryPush, Down
  <2>2. kind # "reset" => stack'[SP] = Hi(PC)
    BY <1>7 DEF EntryPushPCH, EntryPush, TypeOK
  <2> QED BY <1>7, <2>1, <2>2 DEF EntryPushPCH, EntryInv
<1>8. CASE EntryPushPCL
  <2>1. (SP' + 1) % 256 = SP /\ (SP' + 2) % 256 = (SP + 1) % 256 /\ (SP + 1) % 256 # SP
    <3>1. SP \in Byte
      BY DEF TypeOK
    <3> QED BY <1>8, <3>1, StackArith DEF EntryPushPCL, EntryPush, Down
  <2>2. kind # "reset" => stack'[SP] = Lo(PC) /\ stack'[(SP + 1) % 256] = Hi(PC)
    <3>1. (SP + 1) % 256 \in Byte
      BY StackArith DEF TypeOK
    <3> QED BY <1>8, <2>1, <3>1 DEF EntryPushPCL, EntryPush, EntryInv, TypeOK
  <2> QED BY <1>8, <2>1, <2>2 DEF EntryPushPCL, EntryInv
<1>9. CASE EntryPushP
  BY <1>9 DEF EntryPushP, EntryInv
<1>10. CASE EntryVectorLo
  BY <1>10 DEF EntryVectorLo, EntryInv, regs, history
<1>11. CASE EntryVectorHi
  BY <1>3, <1>11 DEF EntryVectorHi
<1>12. CASE BRK
  BY <1>12 DEF BRK, EntryInv, regs
<1>13. CASE Ordinary
  BY <1>3, <1>13 DEF Ordinary, Dispatch, AtBoundary, entry, EntryInv
<1> QED BY <1>1, <1>2, <1>4, <1>5, <1>6, <1>7, <1>8, <1>9, <1>10, <1>11, <1>12,
           <1>13, NotBrk DEF Next, Host, CpuStep, Entry

\* A write to $0100 + a keeps every frame that does not lie over it.
LEMMA WriteKeepsFrames ==
    ASSUME TypeOK, FramesInv, NEW a \in Byte, NEW v \in Byte, NEW f \in Survivors(a)
    PROVE  FrameIntact([stack EXCEPT ![a] = v], f)
<1>1. f \in frames /\ f.at # a /\ (f.at - 1) % 256 # a /\ (f.at - 2) % 256 # a
  BY DEF Survivors, Slots
<1>2. f.at \in Byte /\ (f.at - 1) % 256 \in Byte /\ (f.at - 2) % 256 \in Byte
  <2>1. f.at \in Byte
    BY <1>1 DEF TypeOK, Frame
  <2> QED BY <2>1 DEF Byte
<1>3. FrameIntact(stack, f)
  BY <1>1 DEF FramesInv
<1>4. stack \in [Byte -> Byte]
  BY DEF TypeOK
<1> QED BY <1>1, <1>2, <1>3, <1>4 DEF FrameIntact

\* Every step keeps the bytes of every live frame equal to what was interrupted.
LEMMA FramesStep == Inv /\ [Next]_vars => FramesInv'
<1> SUFFICES ASSUME TypeOK, EntryInv, FramesInv, [Next]_vars PROVE FramesInv'
  BY DEF Inv
<1> USE InterruptsAssumption
<1>0. /\ SP \in Byte /\ Down(1) \in Byte /\ Hi(PC) \in Byte /\ Lo(PC) \in Byte
      /\ \A S : Encode(S) \in Byte
  <2>1. PC \in Word /\ SP \in Byte
    BY DEF TypeOK
  <2> QED BY <2>1, StackPointerTypes, PartTypes, EncodeType
<1>1. UNCHANGED <<stack, frames>> => FramesInv'
  BY DEF FramesInv
<1>2. ASSUME NEW a \in Byte, NEW v \in Byte, stack' = [stack EXCEPT ![a] = v],
             frames' = Survivors(a)
      PROVE  FramesInv'
  <2> SUFFICES ASSUME NEW f \in Survivors(a) PROVE FrameIntact(stack', f)
    BY <1>2 DEF FramesInv
  <2> QED BY <1>2, WriteKeepsFrames
<1>3. CASE UNCHANGED vars
  BY <1>1, <1>3 DEF vars
<1>4. CASE Host
  BY <1>1, <1>4 DEF Host, AssertReset, AssertNMI, DeassertNMI, AssertIRQ, SetRDY,
                    SetRegisters, regs, history
<1>5. CASE ServiceReset \/ ServiceNMI \/ ServiceIRQ \/ EntryFetch \/ EntryVectorLo
           \/ EntryVectorHi \/ BRK
  BY <1>1, <1>5 DEF ServiceReset, ServiceNMI, ServiceIRQ, Enter, EntryFetch,
                    EntryVectorLo, EntryVectorHi, BRK, regs, history
<1>6. CASE EntryPushPCH
  <2>1. CASE kind = "reset"
    BY <1>1, <1>6, <2>1 DEF EntryPushPCH, EntryPush, Survived
  <2>2. CASE kind # "reset"
    BY <1>0, <1>2, <1>6, <2>2 DEF EntryPushPCH, EntryPush, Survived
  <2> QED BY <2>1, <2>2
<1>7. CASE EntryPushPCL
  <2>1. CASE kind = "reset"
    BY <1>1, <1>7, <2>1 DEF EntryPushPCL, EntryPush, Survived
  <2>2. CASE kind # "reset"
    BY <1>0, <1>2, <1>7, <2>2 DEF EntryPushPCL, EntryPush, Survived
  <2> QED BY <2>1, <2>2
<1>8. CASE EntryPushP
  <2> DEFINE pushed == Encode(PushedStatus(P, kind = "brk"))
             f0 == [cause |-> kind, at |-> Up(2), pc |-> resume.pc, p |-> resume.p]
  <2>1. CASE kind = "reset"
    BY <1>1, <1>8, <2>1 DEF EntryPushP, EntryPush
  <2>2. CASE kind # "reset"
    <3>1. stack' = [stack EXCEPT ![SP] = pushed] /\ frames' = Survivors(SP) \cup {f0}
      BY <1>8, <2>2 DEF EntryPushP, EntryPush
    <3>2. \A f \in Survivors(SP) : FrameIntact(stack', f)
      BY <1>0, <3>1, WriteKeepsFrames
    <3>3. FrameIntact(stack', f0)
      <4>1. /\ resume.pc = PC /\ resume.p = P
            /\ stack[(SP + 2) % 256] = Hi(PC) /\ stack[(SP + 1) % 256] = Lo(PC)
            /\ kind = "irq" => "I" \notin P
        BY <1>8, <2>2 DEF EntryPushP, EntryInv
      <4>2. /\ (Up(2) - 1) % 256 = (SP + 1) % 256 /\ (Up(2) - 2) % 256 = SP
            /\ (SP + 1) % 256 # SP /\ Up(2) # SP /\ Up(2) = (SP + 2) % 256
            /\ (SP + 1) % 256 \in Byte /\ Up(2) \in Byte
        BY <1>0, StackArith DEF Up
      <4>3. /\ stack'[Up(2)] = Hi(PC) /\ stack'[(Up(2) - 1) % 256] = Lo(PC)
            /\ stack'[(Up(2) - 2) % 256] = pushed
        <5> HIDE DEF pushed
        <5> QED BY <1>0, <3>1, <4>1, <4>2 DEF TypeOK
      <4> QED BY <4>1, <4>3 DEF FrameIntact
    <3> QED BY <3>1, <3>2, <3>3 DEF FramesInv
  <2> QED BY <2>1, <2>2
<1>9. CASE Plain \/ TXS \/ RTS
  BY <1>1, <1>9 DEF Plain, TXS, RTS
<1>10. CASE CLI \/ SEI
  BY <1>1, <1>10 DEF CLI, SEI, SetFlag
<1>11. CASE PLA \/ PLP \/ RTI
  BY <1>1, <1>11 DEF PLA, PLP, RTI
<1>12. CASE STA
  <2>1. PICK a \in StackTops, v \in Data : WriteStack(a, v)
    BY <1>12 DEF STA
  <2>2. a \in Byte /\ v \in Byte
    OBVIOUS
  <2> QED BY <1>2, <2>1, <2>2 DEF WriteStack
<1>13. CASE PHA
  <2>1. PICK v \in Data : WriteStack(SP, v)
    BY <1>13 DEF PHA, Push
  <2>2. v \in Byte
    OBVIOUS
  <2> QED BY <1>0, <1>2, <2>1, <2>2 DEF WriteStack
<1>14. CASE PHP
  <2> DEFINE v == Encode(P \cup {"U"} \cup {"B"})
  <2>1. WriteStack(SP, v)
    BY <1>14 DEF PHP, Push, PushedStatus
  <2>2. v \in Byte
    BY EncodeType
  <2> HIDE DEF v
  <2> QED BY <1>0, <1>2, <2>1, <2>2 DEF WriteStack
<1>15. CASE JSR
  <2> DEFINE h == Hi((PC + 2) % 65536)
             l == Lo((PC + 2) % 65536)
             st == [stack EXCEPT ![SP] = h]
  <2>1. h \in Byte /\ l \in Byte
    BY PartTypes, WordWrap DEF TypeOK
  <2>2. stack' = [st EXCEPT ![Down(1)] = l] /\ frames' = Survivors(SP) \cap Survivors(Down(1))
    BY <1>15 DEF JSR
  <2> SUFFICES ASSUME NEW f \in frames' PROVE FrameIntact(stack', f)
    BY DEF FramesInv
  <2>3. FrameIntact(st, f)
    <3>1. f \in Survivors(SP)
      BY <2>2
    <3> HIDE DEF h
    <3> QED BY <1>0, <2>1, <3>1, WriteKeepsFrames
  <2>4. /\ f.at # Down(1) /\ (f.at - 1) % 256 # Down(1) /\ (f.at - 2) % 256 # Down(1)
        /\ f \in frames
    BY <2>2 DEF Survivors, Slots
  <2>5. f.at \in Byte /\ (f.at - 1) % 256 \in Byte /\ (f.at - 2) % 256 \in Byte
    <3>1. f.at \in Byte
      BY <2>4 DEF TypeOK, Frame
    <3> QED BY <3>1 DEF Byte
  <2>6. st \in [Byte -> Byte]
    BY <1>0, <2>1 DEF TypeOK
  <2> HIDE DEF st, h, l
  <2> QED BY <2>2, <2>3, <2>4, <2>5, <2>6 DEF FrameIntact
<1> QED BY <1>3, <1>4, <1>5, <1>6, <1>7, <1>8, <1>9, <1>10, <1>11, <1>12, <1>13,
           <1>14, <1>15 DEF Next, CpuStep, Entry, Instruction

\* Inv holds in every reachable state.
THEOREM InvHolds == Spec => []Inv
<1>1. Inv /\ [Next]_vars => Inv'
  BY TypeStep, EntryStep, FramesStep, LatchStep DEF Inv
<1> QED BY <1>1, InvInit, PTL DEF Spec

-------------------------------------------------------------------------------
(* The properties.                                                           *)

\* Outside an NMI entry the latch is set exactly when an edge awaits service:
\* AssertNMI from any bus access of a RESET, IRQ or BRK entry, hijacked or
\* not, is neither lost nor serviced twice.
THEOREM NmiLatchCorrect == Spec => []NmiLatchExact
<1>1. Inv => NmiLatchExact
  BY DEF Inv, LatchInv, NmiLatchExact
<1> QED BY <1>1, InvHolds, PTL

\* enterInterrupt never writes the stack page on RESET.
THEOREM ResetWritesNothingHolds == Spec => ResetWritesNothing
<1>1. Inv /\ [Next]_vars => [kind = "reset" => stack' = stack]_vars
  <2> SUFFICES ASSUME Inv, Next, kind = "reset" PROVE stack' = stack
    BY DEF vars
  <2>1. CASE Host
    BY <2>1 DEF Host, AssertReset, AssertNMI, DeassertNMI, AssertIRQ, SetRDY,
                SetRegisters, regs
  <2>2. CASE Entry
    BY <2>2 DEF Entry, ServiceReset, ServiceNMI, ServiceIRQ, AtBoundary, EntryFetch,
                EntryPushPCH, EntryPushPCL, EntryPushP, EntryPush, EntryVectorLo,
                EntryVectorHi, regs
  <2>3. CASE Instruction
    BY <2>3, NotBrk DEF BRK, Ordinary, Dispatch, AtBoundary
  <2> QED BY <2>1, <2>2, <2>3 DEF Next, CpuStep
<1> QED BY <1>1, InvHolds, PTL DEF Spec, ResetWritesNothing

\* RTI over an intact frame resumes the interrupted context exactly, for any
\* stack depth, nesting and wrap-around (rti against enterInterrupt).
THEOREM RtiResumesHolds == Spec => RtiResumes
<1> DEFINE Resumed == RTI => \A f \in frames : f.at = Up(3) =>
                         PC' = f.pc /\ P' = (f.p \ {"B"}) \cup {"U"} /\ SP' = f.at
<1>1. ASSUME Inv, RTI, NEW f \in frames, f.at = Up(3)
      PROVE  PC' = f.pc /\ P' = (f.p \ {"B"}) \cup {"U"} /\ SP' = f.at
  <2>1. SP \in Byte /\ f.pc \in Word /\ f.p \in SUBSET Flags
    BY <1>1 DEF Inv, TypeOK, Frame
  <2>2. (Up(3) - 1) % 256 = Up(2) /\ (Up(3) - 2) % 256 = Up(1)
    BY <2>1, StackArith DEF Up
  <2>3. /\ stack[Up(3)] = Hi(f.pc) /\ stack[Up(2)] = Lo(f.pc)
        /\ stack[Up(1)] = Encode(PushedStatus(f.p, f.cause = "brk"))
    <3>1. FrameIntact(stack, f)
      BY <1>1 DEF Inv, FramesInv
    <3> QED BY <1>1, <2>2, <3>1 DEF FrameIntact
  <2>4. PC' = f.pc
    <3>1. MakeWord(Lo(f.pc), Hi(f.pc)) = f.pc
      BY <2>1, WordParts
    <3> QED BY <1>1, <2>3, <3>1 DEF RTI
  <2>5. P' = (f.p \ {"B"}) \cup {"U"}
    <3> DEFINE S == PushedStatus(f.p, f.cause = "brk")
    <3>1. S \in SUBSET Flags
      BY <2>1, FlagsAre DEF PushedStatus
    <3> HIDE DEF S
    <3>2. Decode(Encode(S)) = S
      BY <3>1, DecodeEncode
    <3>3. P' = (S \ {"B"}) \cup {"U"}
      BY <1>1, <2>3, <3>2 DEF RTI, PulledStatus, S
    <3> QED BY <3>3 DEF PushedStatus, S
  <2> QED BY <1>1, <2>4, <2>5 DEF RTI
<1>2. Inv => [Resumed]_vars
  BY <1>1
<1> QED BY <1>2, InvHolds, PTL DEF RtiResumes

\* The hypothesis of the next theorem: SetRegisters (or Restore through it) is
\* never given a P with the B bit set.
NoHostBreak == \A S \in HostStatus : "B" \notin S

\* Every step keeps B out of the live P and right in the frames, if the host does.
LEMMA BreakStep == ASSUME NoHostBreak PROVE Inv /\ BreakInv /\ [Next]_vars => BreakInv'
<1> SUFFICES ASSUME Inv, BreakInv, [Next]_vars PROVE BreakInv'
  OBVIOUS
<1>0. ASSUME "B" \notin P', UNCHANGED resume, frames' \subseteq frames PROVE BreakInv'
  BY <1>0 DEF BreakInv
<1>1. CASE UNCHANGED vars
  BY <1>1 DEF vars, BreakInv
<1>2. CASE Host
  BY <1>0, <1>2, NoHostBreak DEF NoHostBreak, BreakInv, Host, AssertReset, AssertNMI,
         DeassertNMI, AssertIRQ, SetRDY, SetRegisters, regs, history
<1>3. CASE ServiceReset \/ ServiceNMI \/ ServiceIRQ \/ BRK
  BY <1>3 DEF BreakInv, ServiceReset, ServiceNMI, ServiceIRQ, Enter, BRK, regs
<1>4. CASE EntryFetch \/ EntryVectorLo \/ EntryVectorHi
  BY <1>0, <1>4 DEF BreakInv, EntryFetch, EntryVectorLo, EntryVectorHi, regs, history
<1>5. CASE EntryPushPCH \/ EntryPushPCL
  BY <1>0, <1>5 DEF BreakInv, EntryPushPCH, EntryPushPCL, Survived, Survivors
<1>6. CASE EntryPushP
  BY <1>6 DEF BreakInv, EntryPushP, Survivors
<1>7. CASE Plain \/ TXS \/ RTS
  BY <1>0, <1>7, InterruptsAssumption DEF BreakInv, Plain, TXS, RTS, Ordinary
<1>8. CASE CLI \/ SEI
  BY <1>0, <1>8 DEF BreakInv, CLI, SEI, SetFlag, Ordinary
<1>9. CASE STA \/ PHA \/ PHP \/ JSR
  <2>1. P' = P /\ UNCHANGED resume /\ frames' \subseteq frames
    BY <1>9 DEF STA, PHA, PHP, JSR, Push, WriteStack, Survivors, Ordinary, PushedStatus
  <2> QED BY <1>0, <2>1 DEF BreakInv
<1>10. CASE PLA
  BY <1>0, <1>10 DEF BreakInv, PLA, SetNZ, SetFlag, Ordinary
<1>11. CASE PLP \/ RTI
  BY <1>0, <1>11 DEF BreakInv, PLP, RTI, PulledStatus, Ordinary
<1> QED BY <1>1, <1>2, <1>3, <1>4, <1>5, <1>6, <1>7, <1>8, <1>9, <1>10, <1>11
        DEF Next, CpuStep, Entry, Instruction

\* If the host never makes B live, the stacked P of every frame tells BRK from
\* IRQ and NMI, hijacked entries included, and every IRQ frame has I clear.
THEOREM StackedStatusCorrect ==
    ASSUME NoHostBreak PROVE Spec => []StackedStatusTellsCause
<1>1. Init => BreakInv
  BY DEF Init, BreakInv
<1>2. Inv /\ BreakInv => StackedStatusTellsCause
  <2> SUFFICES ASSUME Inv, BreakInv, NEW f \in frames
               PROVE  LET pushed == Decode(stack[(f.at - 2) % 256]) IN
                      /\ ("B" \in pushed) <=> (f.cause = "brk")
                      /\ f.cause = "irq" => "I" \notin pushed
    BY DEF StackedStatusTellsCause
  <2> DEFINE S == PushedStatus(f.p, f.cause = "brk")
  <2>1. stack[(f.at - 2) % 256] = Encode(S) /\ (f.cause = "irq" => "I" \notin f.p)
    BY DEF Inv, FramesInv, FrameIntact
  <2>2. f.p \in SUBSET Flags /\ "B" \notin f.p
    BY DEF Inv, TypeOK, Frame, BreakInv
  <2>3. S \in SUBSET Flags
    BY <2>2, FlagsAre DEF PushedStatus
  <2>4. Decode(stack[(f.at - 2) % 256]) = S
    BY <2>1, <2>3, DecodeEncode
  <2> QED BY <2>1, <2>2, <2>4 DEF PushedStatus
<1> QED BY <1>1, <1>2, InvHolds, BreakStep, PTL DEF Spec
===============================================================================
