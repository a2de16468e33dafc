------------------------------ MODULE Interrupts ------------------------------
(***************************************************************************)
(* Interrupt entry and return of the NMOS 6502 (mos6502/cpu.go,            *)
(* interrupts.go and the stack instructions of instructions.go).           *)
(*                                                                         *)
(* CPU.Step runs in one goroutine, but every bus access calls the host's   *)
(* Memory, whose Read and Write may call AssertNMI, AssertIRQ, SetRDY and  *)
(* so on before they return.  The seven accesses of an interrupt entry are *)
(* therefore seven steps here, and the host's calls may come between any   *)
(* two of them.  `cycle` = k means that access k+1 is under way: a host    *)
(* call sees the state before the effects that follow that access.         *)
(*                                                                         *)
(* All other instructions are one step: they never read the signals, so a  *)
(* host call made in the middle of one has the same effect as the same     *)
(* call right after it.                                                    *)
(***************************************************************************)
EXTENDS Status, FiniteSets

CONSTANTS
    Loc,         \* addresses the program may jump to
    StackTops,   \* values TXS or SetRegisters may give SP
    Data,        \* bytes PHA and STA may store
    DataFlags,   \* flags of C, Z, D, V, N that data instructions may leave set
    HostStatus,  \* values SetRegisters may give P (sets of flags)
    Vector,      \* the words at $FFFA, $FFFC and $FFFE
    MaxSteps,    \* bound: ordinary instructions and SetRegisters calls
    MaxEdges,    \* bound: AssertNMI calls
    MaxResets    \* bound: AssertReset calls

NmiVec == 65530    \* $FFFA
ResetVec == 65532  \* $FFFC
IrqVec == 65534    \* $FFFE

ASSUME InterruptsAssumption ==
    /\ Loc \subseteq Word
    /\ StackTops \subseteq Byte
    /\ Data \subseteq Byte
    /\ DataFlags \subseteq {"C", "Z", "D", "V", "N"}
    /\ HostStatus \subseteq SUBSET Flags
    /\ Vector \in [{NmiVec, ResetVec, IrqVec} -> Word]
    /\ MaxSteps \in Nat /\ MaxEdges \in Nat /\ MaxResets \in Nat

VARIABLES
    PC, SP, P,                                \* registers; P is a set of flags
    stack,                                    \* the page $0100..$01FF
    irqLine, nmiPending, nmiPrev, resetPending, rdy,
    kind,                                     \* entry in progress, or "none"
    cycle,                                    \* its bus accesses completed
    vec, lo,                                  \* locals of enterInterrupt
    steps, edges, resets,                     \* counters for the bounds
    \* history variables, read by properties only:
    line,    \* level of the host's NMI line
    owed,    \* "yes": an edge awaits its service; "late": it came after the
             \* NMI entry in progress had chosen its vector; "no": neither
    resume,  \* PC and P that the entry in progress interrupts
    frames   \* interrupt frames whose bytes have not been written over

regs == <<PC, SP, P, stack>>
signals == <<irqLine, nmiPending, nmiPrev, resetPending, rdy>>
entry == <<kind, cycle, vec, lo>>
counts == <<steps, edges, resets>>
history == <<line, owed, resume, frames>>
vars == <<PC, SP, P, stack, irqLine, nmiPending, nmiPrev, resetPending, rdy,
          kind, cycle, vec, lo, steps, edges, resets, line, owed, resume, frames>>

Kinds == {"irq", "nmi", "reset", "brk"}

\* at is the SP before the frame was pushed.
Frame == [cause : Kinds, at : Byte, pc : Word, p : SUBSET Flags]
Slots(f) == {f.at, (f.at - 1) % 256, (f.at - 2) % 256}

\* The frames that survive a write to $0100 + a.
Survivors(a) == {f \in frames : a \notin Slots(f)}

\* New: a pending RESET, RDY high, everything else zero.
Init ==
    /\ PC = 0 /\ SP = 0 /\ P = {}
    /\ stack = [a \in Byte |-> 0]
    /\ irqLine = FALSE /\ nmiPending = FALSE /\ nmiPrev = FALSE
    /\ resetPending = TRUE /\ rdy = TRUE
    /\ kind = "none" /\ cycle = 0 /\ vec = IrqVec /\ lo = 0
    /\ steps = 0 /\ edges = 0 /\ resets = 0
    /\ line = FALSE /\ owed = "no"
    /\ resume = [pc |-> 0, p |-> {}] /\ frames = {}

-------------------------------------------------------------------------------
(* The host: calls that may come at any time, from a Memory callback too.    *)

AssertReset ==
    /\ resets < MaxResets
    /\ resets' = resets + 1
    /\ resetPending' = TRUE
    /\ UNCHANGED <<regs, irqLine, nmiPending, nmiPrev, rdy, entry, steps, edges, history>>

AssertIRQ(level) ==
    /\ irqLine' = level
    /\ UNCHANGED <<regs, nmiPending, nmiPrev, resetPending, rdy, entry, counts, history>>

AssertNMI ==
    /\ edges < MaxEdges
    /\ edges' = edges + 1
    /\ nmiPending' = (nmiPending \/ ~nmiPrev)
    /\ nmiPrev' = TRUE
    /\ line' = TRUE
    /\ owed' = IF line THEN owed
               ELSE IF kind = "nmi" /\ cycle >= 5 THEN "late" ELSE "yes"
    /\ UNCHANGED <<regs, irqLine, resetPending, rdy, entry, steps, resets, resume, frames>>

DeassertNMI ==
    /\ nmiPrev' = FALSE
    /\ line' = FALSE
    /\ UNCHANGED <<regs, irqLine, nmiPending, resetPending, rdy, entry, counts,
                   owed, resume, frames>>

SetRDY(ready) ==
    /\ rdy' = ready
    /\ UNCHANGED <<regs, irqLine, nmiPending, nmiPrev, resetPending, entry, counts, history>>

\* Undefined in the middle of an instruction, so only between two.
SetRegisters ==
    /\ kind = "none" /\ steps < MaxSteps
    /\ steps' = steps + 1
    /\ PC' \in Loc /\ SP' \in StackTops /\ P' \in HostStatus
    /\ resetPending' = FALSE
    /\ UNCHANGED <<stack, irqLine, nmiPending, nmiPrev, rdy, entry, edges, resets, history>>

-------------------------------------------------------------------------------
(* CPU.Step: the choice at the instruction boundary.                         *)

AtBoundary == kind = "none" /\ rdy

Enter(k) ==
    /\ kind' = k
    /\ cycle' = 0
    /\ resume' = [pc |-> PC, p |-> P]
    /\ UNCHANGED <<regs, signals, vec, lo, counts, line, owed, frames>>

\* Seeded fault: RESET waits for a latched NMI, which waits for RESET.
ServiceResetAfterNMI == AtBoundary /\ resetPending /\ ~nmiPending /\ Enter("reset")

ServiceReset == AtBoundary /\ resetPending /\ Enter("reset")

\* Seeded fault: NMI honours the I flag.
ServiceNMIMasked ==
    AtBoundary /\ ~resetPending /\ nmiPending /\ "I" \notin P /\ Enter("nmi")

ServiceNMI == AtBoundary /\ ~resetPending /\ nmiPending /\ Enter("nmi")

\* Seeded fault: the sense of the I flag is inverted.
ServiceIRQInverted ==
    AtBoundary /\ ~resetPending /\ ~nmiPending /\ irqLine /\ "I" \in P /\ Enter("irq")

ServiceIRQ ==
    AtBoundary /\ ~resetPending /\ ~nmiPending /\ irqLine /\ "I" \notin P /\ Enter("irq")

\* No signal to service: fetch and dispatch an opcode.
Dispatch ==
    /\ AtBoundary /\ ~resetPending /\ ~nmiPending /\ ~(irqLine /\ "I" \notin P)
    /\ steps < MaxSteps
    /\ steps' = steps + 1

BRK ==
    /\ Dispatch
    /\ kind' = "brk" /\ cycle' = 0
    /\ resume' = [pc |-> (PC + 2) % 65536, p |-> P]
    /\ UNCHANGED <<regs, signals, vec, lo, edges, resets, line, owed, frames>>

-------------------------------------------------------------------------------
(* enterInterrupt, one action per bus access.                                *)

\* Seeded fault: SP does not wrap.
DownNoWrap(n) == SP - n

Down(n) == (SP - n) % 256
Up(n) == (SP + n) % 256

\* Accesses 1 and 2: dummy reads at PC; BRK's are its opcode and padding
\* fetches, which advance PC.
EntryFetch ==
    /\ kind # "none" /\ cycle < 2
    /\ cycle' = cycle + 1
    /\ PC' = IF kind = "brk" THEN (PC + 1) % 65536 ELSE PC
    /\ UNCHANGED <<SP, P, stack, signals, kind, vec, lo, counts, history>>

\* Seeded fault: RESET really writes to the stack.
EntryPushWritesOnReset(b) ==
    /\ SP' = Down(1)
    /\ stack' = [stack EXCEPT ![SP] = b]

\* One of accesses 3-5: a push, which RESET replaces by a read.
EntryPush(b) ==
    /\ SP' = Down(1)
    /\ stack' = IF kind = "reset" THEN stack ELSE [stack EXCEPT ![SP] = b]

Survived == frames' = IF kind = "reset" THEN frames ELSE Survivors(SP)

EntryPushPCH ==
    /\ kind # "none" /\ cycle = 2
    /\ cycle' = 3
    /\ EntryPush(Hi(PC))
    /\ Survived
    /\ UNCHANGED <<PC, P, signals, kind, vec, lo, counts, line, owed, resume>>

EntryPushPCL ==
    /\ kind # "none" /\ cycle = 3
    /\ cycle' = 4
    /\ EntryPush(Lo(PC))
    /\ Survived
    /\ UNCHANGED <<PC, P, signals, kind, vec, lo, counts, line, owed, resume>>

\* Seeded fault: a hijacked BRK or IRQ leaves the NMI latch set.
ChooseVectorKeepLatch ==
    /\ vec' = CASE kind = "nmi" -> NmiVec
                [] kind = "reset" -> ResetVec
                [] OTHER -> IF nmiPending THEN NmiVec ELSE IrqVec
    /\ nmiPending' = nmiPending

\* The vector, chosen after the push of P: a pending NMI hijacks BRK and IRQ.
ChooseVector ==
    /\ vec' = CASE kind = "nmi" -> NmiVec
                [] kind = "reset" -> ResetVec
                [] OTHER -> IF nmiPending THEN NmiVec ELSE IrqVec
    /\ nmiPending' = (nmiPending /\ kind \in {"nmi", "reset"})

EntryPushP ==
    /\ kind # "none" /\ cycle = 4
    /\ cycle' = 5
    /\ EntryPush(Encode(PushedStatus(P, kind = "brk")))
    /\ P' = P \cup {"I", "U"}
    /\ ChooseVector
    /\ owed' = IF vec' = NmiVec THEN "no" ELSE owed
    /\ frames' = IF kind = "reset" THEN frames
                 ELSE Survivors(SP) \cup
                      {[cause |-> kind, at |-> Up(2), pc |-> resume.pc, p |-> resume.p]}
    /\ UNCHANGED <<PC, irqLine, nmiPrev, resetPending, rdy, kind, lo, counts, line, resume>>

EntryVectorLo ==
    /\ kind # "none" /\ cycle = 5
    /\ cycle' = 6
    /\ lo' = Lo(Vector[vec])
    /\ UNCHANGED <<regs, signals, kind, vec, counts, history>>

ClearServiced ==
    /\ nmiPending' = (nmiPending /\ kind # "nmi")
    /\ resetPending' = (resetPending /\ kind # "reset")

EntryVectorHi ==
    /\ kind # "none" /\ cycle = 6
    /\ PC' = MakeWord(lo, Hi(Vector[vec]))
    /\ kind' = "none" /\ cycle' = 0
    /\ ClearServiced
    /\ UNCHANGED <<SP, P, stack, irqLine, nmiPrev, rdy, vec, lo, counts, history>>

-------------------------------------------------------------------------------
(* The other instructions, by what they do to PC, SP, P and the stack page.  *)

\* What every one of them leaves alone, besides the registers it names.
Ordinary ==
    /\ Dispatch
    /\ UNCHANGED <<signals, entry, edges, resets, line, owed, resume>>

\* Loads, transfers, arithmetic, jumps, branches: PC moves on, flags other
\* than I, B and U may change.
Plain ==
    /\ Ordinary
    /\ PC' \in Loc
    /\ \E S \in SUBSET DataFlags : P' = (P \ {"C", "Z", "D", "V", "N"}) \cup S
    /\ UNCHANGED <<SP, stack, frames>>

CLI == Ordinary /\ PC' = (PC + 1) % 65536 /\ P' = SetFlag(P, "I", FALSE)
       /\ UNCHANGED <<SP, stack, frames>>

SEI == Ordinary /\ PC' = (PC + 1) % 65536 /\ P' = SetFlag(P, "I", TRUE)
       /\ UNCHANGED <<SP, stack, frames>>

TXS == Ordinary /\ PC' = (PC + 1) % 65536 /\ SP' \in StackTops
       /\ UNCHANGED <<P, stack, frames>>

WriteStack(a, v) == stack' = [stack EXCEPT ![a] = v] /\ frames' = Survivors(a)

\* A store that hits the stack page.
STA ==
    /\ Ordinary
    /\ PC' = (PC + 3) % 65536
    /\ \E a \in StackTops, v \in Data : WriteStack(a, v)
    /\ UNCHANGED <<SP, P>>

Push(b) == WriteStack(SP, b) /\ SP' = Down(1)

PHA == /\ Ordinary
       /\ PC' = (PC + 1) % 65536
       /\ \E v \in Data : Push(v)
       /\ UNCHANGED P

PHP == Ordinary /\ PC' = (PC + 1) % 65536 /\ Push(Encode(PushedStatus(P, TRUE)))
       /\ UNCHANGED P

PLA == /\ Ordinary
       /\ PC' = (PC + 1) % 65536
       /\ SP' = Up(1)
       /\ P' = SetNZ(P, stack[Up(1)])
       /\ UNCHANGED <<stack, frames>>

\* Seeded fault: the pulled B bit becomes live.
PLPKeepsB == /\ Ordinary
             /\ PC' = (PC + 1) % 65536
             /\ SP' = Up(1)
             /\ P' = Decode(stack[Up(1)])
             /\ UNCHANGED <<stack, frames>>

PLP == /\ Ordinary
       /\ PC' = (PC + 1) % 65536
       /\ SP' = Up(1)
       /\ P' = PulledStatus(stack[Up(1)])
       /\ UNCHANGED <<stack, frames>>

\* JSR pushes the address of its own last byte.
JSR ==
    /\ Ordinary
    /\ PC' \in Loc
    /\ SP' = Down(2)
    /\ stack' = [stack EXCEPT ![SP] = Hi((PC + 2) % 65536), ![Down(1)] = Lo((PC + 2) % 65536)]
    /\ frames' = Survivors(SP) \cap Survivors(Down(1))
    /\ UNCHANGED P

RTS ==
    /\ Ordinary
    /\ SP' = Up(2)
    /\ PC' = (MakeWord(stack[Up(1)], stack[Up(2)]) + 1) % 65536
    /\ UNCHANGED <<P, stack, frames>>

\* Seeded fault: RTI steps over a byte, as RTS does.
RTIPlusOne ==
    /\ Ordinary
    /\ SP' = Up(3)
    /\ P' = PulledStatus(stack[Up(1)])
    /\ PC' = (MakeWord(stack[Up(2)], stack[Up(3)]) + 1) % 65536
    /\ UNCHANGED <<stack, frames>>

RTI ==
    /\ Ordinary
    /\ SP' = Up(3)
    /\ P' = PulledStatus(stack[Up(1)])
    /\ PC' = MakeWord(stack[Up(2)], stack[Up(3)])
    /\ UNCHANGED <<stack, frames>>

-------------------------------------------------------------------------------
Instruction ==
    \/ BRK \/ Plain \/ CLI \/ SEI \/ TXS \/ STA
    \/ PHA \/ PHP \/ PLA \/ PLP \/ JSR \/ RTS \/ RTI

Entry ==
    \/ ServiceReset \/ ServiceNMI \/ ServiceIRQ
    \/ EntryFetch \/ EntryPushPCH \/ EntryPushPCL \/ EntryPushP
    \/ EntryVectorLo \/ EntryVectorHi

Host ==
    \/ AssertReset \/ AssertNMI \/ DeassertNMI \/ SetRegisters
    \/ \E b \in BOOLEAN : AssertIRQ(b) \/ SetRDY(b)

CpuStep == Entry \/ Instruction

Next == Host \/ CpuStep

\* Safety: the host may stop calling Step at any time.
Spec == Init /\ [][Next]_vars

\* The host's main loop keeps calling Step, Run or Tick.
FairSpec == Spec /\ WF_vars(CpuStep)

-------------------------------------------------------------------------------
(* Properties                                                                *)

\* Every register keeps its width, every latch its range, through wrap-around
\* of SP and PC too.
TypeOK ==
    /\ PC \in Word /\ SP \in Byte /\ P \in SUBSET Flags
    /\ stack \in [Byte -> Byte]
    /\ irqLine \in BOOLEAN /\ nmiPending \in BOOLEAN /\ nmiPrev \in BOOLEAN
    /\ resetPending \in BOOLEAN /\ rdy \in BOOLEAN
    /\ kind \in Kinds \cup {"none"} /\ cycle \in 0..6
    /\ vec \in {NmiVec, ResetVec, IrqVec} /\ lo \in Byte
    /\ steps \in 0..MaxSteps /\ edges \in 0..MaxEdges /\ resets \in 0..MaxResets
    /\ line \in BOOLEAN /\ owed \in {"no", "yes", "late"}
    /\ resume \in [pc : Word, p : SUBSET Flags]
    /\ frames \in SUBSET Frame

\* The handler can tell what happened from the stacked P alone: its B bit is
\* set in a BRK frame and clear in an IRQ or NMI frame (hijacked entries
\* included), and an IRQ frame has I clear, because IRQ is only taken then.
StackedStatusTellsCause ==
    \A f \in frames :
        LET pushed == Decode(stack[(f.at - 2) % 256]) IN
        /\ ("B" \in pushed) <=> (f.cause = "brk")
        /\ f.cause = "irq" => "I" \notin pushed

\* RTI executed where an entry left SP, over a frame nobody has overwritten,
\* resumes exactly what was interrupted: PC, P (B cleared, U set) and SP,
\* whatever ran, nested or wrapped around the stack page in between.
RtiResumes ==
    [][RTI => \A f \in frames : f.at = Up(3) =>
                 PC' = f.pc /\ P' = (f.p \ {"B"}) \cup {"U"} /\ SP' = f.at]_vars

\* The one-bit NMI latch is exact outside an NMI entry: it is set when and
\* only when an edge awaits service.  No edge is lost to a RESET, IRQ or BRK
\* entry in progress, and none is serviced twice (hijack included).
NmiLatchExact == kind # "nmi" => (nmiPending <=> owed = "yes")

\* "The next AssertNMI will be observed as a new edge" (DeassertNMI): an edge
\* that has not been serviced is latched.
EveryEdgeLatched == owed # "no" => nmiPending

\* RESET reads where the other entries push: a whole reset leaves the stack
\* page as it was.
ResetWritesNothing == [][kind = "reset" => stack' = stack]_vars

\* A latched NMI is serviced if RDY is eventually kept high.
NmiServed == <>[]rdy => ((owed = "yes") ~> (owed = "no"))

\* A pending RESET is consumed if RDY is eventually kept high.
ResetServed == <>[]rdy => (resetPending ~> ~resetPending)

\* A held IRQ line is not ignored for ever: I is set again and again, by the
\* entry or by the program itself.
IrqNotIgnored == <>[](rdy /\ irqLine) => []<>("I" \in P)
===============================================================================
