-------------------------------- MODULE Board --------------------------------
(***************************************************************************)
(* The whole machine: the CPU of mos6502 running on the BBC memory map, one *)
(* bus access per step, under Machine.Tick.                                *)
(*                                                                         *)
(* Everything runs in one goroutine, but the memory map calls the           *)
(* UnmappedAccessHook in the middle of a bus access and the CPU calls the   *)
(* IllegalOpcodeHook in the middle of an instruction.  A hook holds the     *)
(* Machine, so every operation of Machine may run there as well as between  *)
(* two Ticks; what the instruction does afterwards uses the registers it    *)
(* finds then and the locals it had before.  A hook may call Tick, too: the  *)
(* instruction in flight then waits in `outer`.                             *)
(*                                                                         *)
(* `todo` holds the accesses the instruction or interrupt entry in progress *)
(* still has to make; Opcode gives the list of each instruction.  The ROM   *)
(* images are programs over a small part of the instruction set, which      *)
(* Instructions models in full.                                             *)
(***************************************************************************)
EXTENDS Machine, Sequences

CONSTANTS
    Budgets,      \* cycle budgets passed to Tick between Ticks
    HookBudgets,  \* and by a hook
    MaxDepth      \* bound: Ticks called in hooks of one another

ASSUME BoardAssumption == Budgets \subseteq Nat /\ HookBudgets \subseteq Nat /\ MaxDepth \in Nat

VARIABLES
    running,   \* a Tick is in progress
    outer,     \* the Ticks in whose hooks it was called, innermost first
    deadline,  \* its local
    kind,      \* "opcode", or the interrupt entry in progress
    todo,      \* bus accesses still to make
    addr, val, \* locals: effective address or vector, operand
    hook,      \* the hook that runs: "unmapped", "illegal" or "none"
    \* history variables, read by properties only:
    owed,      \* an NMI edge awaits its service
    due,       \* a Reset or ColdReset awaits the RESET sequence
    boot,      \* what a reset made between Ticks left in memory, or Nothing
    booted,    \* RESET has run, or Restore, since an OS ROM was loaded
    single,    \* memory as one write of a read-modify-write would leave it, or Nothing
    nextStep,  \* what Step was about to do when snap was taken
    phase,     \* "record" after a quiet Snapshot, "replay" after its Restore,
               \* "hold" once the host has interfered, or "off"
    path       \* registers at the opcode fetches since that Snapshot

locals == <<kind, todo, addr, val>>
ghosts == <<owed, due, boot, booted, single, nextStep, phase, path>>
vars == <<ram, os, sideways, bank, regs, selected, cpu, resetPending, nmiPending, nmiPrev,
          irqLine, rdy, snap, err, calls, seen, running, outer, deadline, kind, todo, addr,
          val, hook, owed, due, boot, booted, single, nextStep, phase, path>>

Nothing == [ram |-> <<>>]

Init ==
    /\ MachineInit
    /\ running = FALSE /\ outer = <<>> /\ deadline = 0 /\ kind = "opcode" /\ todo = <<>>
    /\ addr = 0 /\ val = 0 /\ hook = "none"
    /\ owed = FALSE /\ due = TRUE /\ boot = Nothing /\ booted = FALSE /\ single = Nothing
    /\ nextStep = "none" /\ phase = "off" /\ path = {}

-------------------------------------------------------------------------------
(* Tick, Run and Step.                                                       *)

\* What CPU.Step does at an instruction boundary.
StepKind ==
    CASE ~rdy -> "stalled"
      [] rdy /\ resetPending -> "reset"
      [] rdy /\ ~resetPending /\ nmiPending -> "nmi"
      [] rdy /\ ~resetPending /\ ~nmiPending /\ irqLine /\ "I" \notin cpu.P -> "irq"
      [] OTHER -> "opcode"

\* The Go frames that wait for a hook.
Frame == [deadline |-> deadline, kind |-> kind, todo |-> todo, addr |-> addr, val |-> val,
          hook |-> hook]

\* The host runs: between two Ticks, or in a hook.
HostRuns == ~running \/ hook # "none"

\* A call that may change what follows ends a recording or a replay.
Interferes ==
    /\ phase' = IF phase = "off" THEN "off" ELSE "hold"
    /\ UNCHANGED path

Tick(budget) ==
    /\ HostRuns /\ Call
    /\ budget \in (IF running THEN HookBudgets ELSE Budgets)
    /\ running => Len(outer) < MaxDepth
    /\ running' = TRUE /\ deadline' = cpu.cycles + budget
    /\ outer' = IF running THEN <<Frame>> \o outer ELSE outer
    /\ todo' = <<>> /\ hook' = "none"
    /\ single' = Nothing
    /\ IF running THEN Interferes ELSE UNCHANGED <<phase, path>>
    /\ err' = "ok"
    /\ UNCHANGED <<machine, snap, seen, kind, addr, val, owed, due, boot, booted, nextStep>>

Boundary == running /\ todo = <<>> /\ hook = "none"

TickReturns ==
    /\ Boundary /\ (cpu.cycles >= deadline \/ ~rdy)
    /\ IF outer = <<>>
       THEN running' = FALSE /\ UNCHANGED <<outer, deadline, locals, hook>>
       ELSE LET f == Head(outer) IN
            /\ outer' = Tail(outer)
            /\ deadline' = f.deadline /\ kind' = f.kind /\ todo' = f.todo
            /\ addr' = f.addr /\ val' = f.val /\ hook' = f.hook
            /\ UNCHANGED running
    /\ UNCHANGED <<machine, snap, err, calls, seen, ghosts>>

\* The accesses of enterInterrupt, the first two being dummy reads at PC.
Entry == <<"dummy", "dummy", "pushPCH", "pushPCL", "pushP", "vectorLo", "vectorHi">>

Step ==
    /\ Boundary /\ cpu.cycles < deadline /\ rdy
    /\ kind' = StepKind
    /\ todo' = IF StepKind = "opcode" THEN <<"opcode">> ELSE Entry
    /\ path' = IF StepKind = "opcode" /\ phase = "record" THEN path \cup {cpu} ELSE path
    /\ UNCHANGED <<machine, snap, err, calls, seen, running, outer, deadline, addr, val, hook,
                   owed, due, boot, booted, single, nextStep, phase>>

\* Read, write back, write; `back` names the operation.
rmw(back) == <<"lo", "hi", "get", back, "put">>

illegalNOP == <<"illegal", "dummy">>

\* Bytes of the ROM images and the open bus that no documented opcode has.
Undocumented == {2, 3, 18, 19, 50, 51, 66, 128, 251, 255}

\* The accesses after the opcode fetch, for the opcodes the ROM images use.  A
\* machine that comes to another one stops there (TLC reports a deadlock).
Opcode ==
    [op \in {0, 76, 88, 133, 141, 169, 173, 206, 234, 238, 254} \cup Undocumented |->
       CASE op = 0   -> <<"padding", "pushPCH", "pushPCL", "pushP", "vectorLo", "vectorHi">>   \* BRK
         [] op = 76  -> <<"lo", "jump">>                       \* JMP abs
         [] op = 88  -> <<"cli">>                              \* CLI
         [] op = 133 -> <<"lo", "store">>                      \* STA zp
         [] op = 141 -> <<"lo", "hi", "store">>                \* STA abs
         [] op = 169 -> <<"immediate">>                        \* LDA #
         [] op = 173 -> <<"lo", "hi", "load">>                 \* LDA abs
         [] op = 206 -> rmw("putBackDec")                      \* DEC abs
         [] op = 234 -> <<"dummy">>                            \* NOP
         [] op = 238 -> rmw("putBackInc")                      \* INC abs
         [] op = 254 -> <<"lo", "hi", "peek", "get", "putBackInc", "put">>   \* INC abs,X; X is 0
         [] op \in Undocumented -> illegalNOP]

-------------------------------------------------------------------------------
(* One bus access: its address, its byte if it is a write, and what the      *)
(* instruction does once it is over.                                         *)

Now == Head(todo)
Pushes == {"pushPCH", "pushPCL", "pushP"}

BusAddr ==
    CASE Now \in Pushes -> 256 + cpu.SP
      [] Now \in {"peek", "load", "store", "get", "putBackInc", "putBackDec", "put", "vectorLo"} -> addr
      [] Now = "vectorHi" -> addr + 1
      [] OTHER -> cpu.PC

\* Seeded fault: RESET really writes to the stack.
IsWriteOnReset == Now \in Pushes \cup {"store", "putBackInc", "putBackDec", "put"}

\* RESET reads where the other entries push.
IsWrite == Now \in {"store", "putBackInc", "putBackDec", "put"} \/ (Now \in Pushes /\ kind # "reset")

BusByte ==
    CASE Now = "store" -> cpu.A
      [] Now \in {"putBackInc", "putBackDec", "put"} -> val
      [] Now = "pushPCH" -> Hi(cpu.PC)
      [] Now = "pushPCL" -> Lo(cpu.PC)
      [] Now = "pushP" -> Encode(PushedStatus(cpu.P, kind = "brk"))

\* opInc and opDec
Modified(access, v) == IF access = "putBackInc" THEN (v + 1) % 256 ELSE (v - 1) % 256

Advanced == [cpu EXCEPT !.PC = (@ + 1) % 65536]
LoadA(c, v) == [c EXCEPT !.A = v, !.P = SetNZ(@, v)]

\* The registers, the cycle counter aside, after the access returned v.
RegistersAfter(v) ==
    CASE Now \in {"opcode", "lo", "hi", "padding"} -> Advanced
      [] Now = "immediate" -> LoadA(Advanced, v)
      [] Now = "load" -> LoadA(cpu, v)
      [] Now = "jump" -> [cpu EXCEPT !.PC = MakeWord(addr, v)]
      [] Now = "cli" -> [cpu EXCEPT !.P = SetFlag(@, "I", FALSE)]
      [] Now \in {"putBackInc", "putBackDec"} -> [cpu EXCEPT !.P = SetNZ(@, Modified(Now, val))]
      [] Now \in {"pushPCH", "pushPCL"} -> [cpu EXCEPT !.SP = (@ - 1) % 256]
      [] Now = "pushP" -> [cpu EXCEPT !.SP = (@ - 1) % 256, !.P = @ \cup {"I", "U"}]
      [] Now = "vectorHi" -> [cpu EXCEPT !.PC = MakeWord(val, v)]
      [] OTHER -> cpu

NmiVec == 65530
Vector == CASE kind = "nmi" -> NmiVec
            [] kind = "reset" -> 65532
            [] OTHER -> IF nmiPending THEN NmiVec ELSE 65534

Hijacks == Now = "pushP" /\ kind \in {"irq", "brk"} /\ nmiPending

\* Seeded fault: every entry clears the RESET latch when it ends.
ClearServicedBoth ==
    /\ nmiPending' = (nmiPending /\ ~Hijacks /\ ~(Now = "vectorHi" /\ kind = "nmi"))
    /\ resetPending' = (resetPending /\ Now # "vectorHi")

\* An entry clears its latch when it ends, a hijacked one when it is hijacked.
ClearServiced ==
    /\ nmiPending' = (nmiPending /\ ~Hijacks /\ ~(Now = "vectorHi" /\ kind = "nmi"))
    /\ resetPending' = (resetPending /\ ~(Now = "vectorHi" /\ kind = "reset"))

ResetOver == Now = "vectorHi" /\ kind = "reset"

\* The access returned v: the instruction goes on to the next one.
Finish(v) ==
    /\ Now = "opcode" => v \in DOMAIN Opcode
    /\ cpu' = [RegistersAfter(v) EXCEPT !.cycles = @ + 1]
    /\ todo' = IF Now = "opcode" THEN Opcode[v] ELSE Tail(todo)
    /\ kind' = IF Now = "opcode" /\ v = 0 THEN "brk" ELSE kind
    /\ addr' = CASE Now = "lo" -> v
                 [] Now = "hi" -> MakeWord(addr, v)
                 [] Now = "pushP" -> Vector
                 [] OTHER -> addr
    /\ val' = CASE Now \in {"get", "vectorLo"} -> v
                [] Now \in {"putBackInc", "putBackDec"} -> Modified(Now, val)
                [] OTHER -> val
    /\ ClearServiced
    /\ owed' = (owed /\ ~(Now = "pushP" /\ Vector = NmiVec))
    /\ due' = (due /\ ~ResetOver)
    /\ boot' = IF ResetOver THEN Nothing ELSE boot
    /\ booted' = (booted \/ (ResetOver /\ osLoaded))
    /\ err' = "ok"
    /\ UNCHANGED <<nmiPrev, irqLine, rdy, snap, calls, seen, running, outer, deadline,
                   nextStep, phase, path>>

FiresHook == IF IsWrite THEN WriteFiresHook(BusAddr) ELSE ReadFiresHook(BusAddr)

InAccess == todo # <<>> /\ Now # "illegal"

\* A read-modify-write's single write, from the byte its read returned.
KeepSingle(v) ==
    single' = CASE Now = "get" -> Written(Writable, addr, Modified(todo[2], v))
                [] Now = "put" -> Nothing
                [] OTHER -> single

BusRead ==
    /\ InAccess /\ hook = "none" /\ ~IsWrite /\ ~FiresHook
    /\ Finish(ReadValue(BusAddr)) /\ KeepSingle(ReadValue(BusAddr))
    /\ UNCHANGED <<mem, hook>>

BusStore ==
    /\ InAccess /\ hook = "none" /\ IsWrite /\ ~FiresHook
    /\ BusWrite(BusAddr, BusByte)
    /\ Finish(BusByte) /\ KeepSingle(BusByte)
    /\ UNCHANGED hook

\* fireUnmapped: the hook starts, and returns; the access then goes on with the
\* open bus, or with nothing written.
CallUnmappedHook ==
    /\ InAccess /\ hook = "none" /\ FiresHook
    /\ hook' = "unmapped"
    /\ UNCHANGED <<machine, snap, err, calls, seen, running, outer, deadline, locals, ghosts>>

UnmappedHookReturns ==
    /\ hook = "unmapped"
    /\ hook' = "none"
    /\ Finish(openBus) /\ KeepSingle(openBus)
    /\ UNCHANGED mem

\* illegalNOP calls its hook before its dummy read.
CallIllegalHook ==
    /\ todo # <<>> /\ Now = "illegal"
    /\ todo' = Tail(todo)
    /\ hook' = "illegal"
    /\ UNCHANGED <<machine, snap, err, calls, seen, running, outer, deadline, kind, addr, val, ghosts>>

IllegalHookReturns ==
    /\ hook = "illegal"
    /\ hook' = "none"
    /\ err' = "ok"
    /\ UNCHANGED <<machine, snap, calls, seen, running, outer, deadline, locals, ghosts>>

-------------------------------------------------------------------------------
(* The host: between two Ticks, or from a hook.                              *)

HostCalls ==
    /\ HostRuns
    /\ single' = Nothing
    /\ UNCHANGED <<running, outer, deadline, locals, hook>>

Quiet == ~resetPending /\ ~nmiPending /\ ~irqLine /\ rdy

HostLoads ==
    /\ HostCalls /\ Interferes
    /\ \E i \in Images, w \in BOOLEAN :
          LoadOSROM(i, w) \/ \E b \in BankArgs : LoadSidewaysROM(b, i, w)
    /\ UNCHANGED <<owed, due, boot, booted, nextStep>>

HostResets ==
    /\ HostCalls /\ Interferes
    /\ Reset \/ ColdReset
    /\ due' = (due \/ err' = "ok")
    /\ boot' = CASE err' # "ok" -> boot
                 [] err' = "ok" /\ running -> Nothing
                 [] err' = "ok" /\ ~running -> Writable'
    /\ UNCHANGED <<owed, booted, nextStep>>

HostSnapshots ==
    /\ HostCalls
    /\ Snapshot
    /\ nextStep' = IF running THEN "midway" ELSE StepKind
    /\ phase' = IF Quiet /\ ~running THEN "record" ELSE "off"
    /\ path' = {}
    /\ UNCHANGED <<owed, due, boot, booted>>

HostForges ==
    /\ HostCalls /\ Interferes
    /\ ForgeSnapshot
    /\ UNCHANGED <<owed, due, boot, booted, nextStep>>

HostRestores ==
    /\ HostCalls
    /\ Restore
    /\ due' = (due /\ err' # "ok") /\ booted' = (booted \/ err' = "ok")
    /\ boot' = IF err' = "ok" THEN Nothing ELSE boot
    /\ phase' = CASE phase = "off" -> "off"
                  [] phase # "off" -> IF err' = "ok" /\ ~running /\ seen # NoView /\ Quiet'
                                      THEN "replay" ELSE "hold"
    /\ UNCHANGED <<owed, nextStep, path>>

HostSignals ==
    /\ HostCalls /\ Interferes
    /\ \/ AssertNMI /\ owed' = (owed \/ ~nmiPrev)
       \/ (DeassertNMI \/ AssertIRQ(~irqLine) \/ SetRDY(~rdy)) /\ UNCHANGED owed
    /\ UNCHANGED <<due, boot, booted, nextStep>>

Next ==
    \/ \E b \in Budgets \cup HookBudgets : Tick(b)
    \/ TickReturns \/ Step
    \/ BusRead \/ BusStore
    \/ CallUnmappedHook \/ UnmappedHookReturns
    \/ CallIllegalHook \/ IllegalHookReturns
    \/ HostLoads \/ HostResets \/ HostSnapshots \/ HostForges \/ HostRestores \/ HostSignals

Spec == Init /\ [][Next]_vars

-------------------------------------------------------------------------------
(* Properties                                                                *)

\* Registers keep their width and every index stays inside its array - the
\* CRTC's register file, the four sideways banks - whatever the program writes,
\* whatever Snapshot the host hands to Restore and wherever in an instruction
\* it does so.
TypeOK ==
    /\ MachineTypeOK
    /\ addr \in Word /\ val \in Byte
    /\ kind \in {"opcode", "reset", "nmi", "irq", "brk"}
    /\ hook # "none" => running

\* No NMI edge is lost on a Machine: host code runs in hooks only, no vector
\* fetch fires one, so no edge can arrive between the choice of the NMI vector
\* and the end of the entry, where enterInterrupt clears the latch.
EveryNmiLatched == owed => nmiPending

\* After Reset or ColdReset, wherever it is called, the CPU starts nothing but
\* the RESET sequence: no opcode, no NMI, no IRQ comes first, and an entry in
\* progress does not swallow it.  (Restore cancels it.)
ResetComesFirst == [][Step => (due => kind' = "reset")]_vars

\* A reset made between two Ticks boots from the memory it left: the RESET
\* sequence ends at the vector with every RAM byte, the bank and every register
\* of the peripherals as Reset or ColdReset left them.
ResetBootsClean ==
    [][todo # <<>> /\ ResetOver /\ boot # Nothing =>
          boot = Writable' /\ cpu'.PC = MakeWord(ReadValue(65532), ReadValue(65533))]_vars

\* The two writes of a read-modify-write leave what its last write alone would
\* have left, on the I/O page too (ROM select, CRTC index and data).
RmwWritesOnce ==
    [][todo # <<>> /\ Now = "put" /\ todo' = <<>> /\ single # Nothing => Writable' = single]_vars

\* Restoring the snapshot the host holds brings back every byte the bus could
\* read when it was taken, as long as the same ROM images are loaded.
RestoreRoundTrip == [][Restore /\ err' = "ok" /\ seen # NoView => View' = seen]_vars

\* Between two Ticks with no signal raised, Snapshot, any use of the machine,
\* Restore and Tick execute again the instructions that followed the Snapshot:
\* same registers at the same cycles, as long as the host does not interfere.
RestoreReplays ==
    [][Step /\ phase = "replay" /\ (\E r \in path : r.cycles >= cpu.cycles)
          => kind' = "opcode" /\ cpu \in path]_vars

\* ColdReset leaves the memory of a fresh machine with the same ROMs.
FreshByte(a) ==
    CASE Device(a) = "OS" -> OsRead(a)
      [] Device(a) = "Sideways" -> IF sideways[0] = NoImage THEN openBus
                                   ELSE RomByte(sideways[0], a - 32768)
      [] Device(a) \in {"RAM"} \cup (Files \ {"CRTC", "FDC", "Econet"}) -> 0
      [] Device(a) = "CRTC" -> IF Register(a) = 0 THEN openBus ELSE 0
      [] OTHER -> openBus
ColdResetClearsMemory ==
    [][ColdReset /\ err' = "ok" => \A a \in BusAddrs : ReadValue(a)' = FreshByte(a)]_vars

\* "subsequent Tick calls produce bit-identical execution" (Restore): between
\* Ticks, the CPU's next step is the one it was about to take when the snapshot
\* was taken.
RestoreResumesExecution ==
    [][Restore /\ err' = "ok" /\ seen # NoView /\ ~running /\ nextStep # "midway"
          => StepKind' = nextStep]_vars

\* "the first Tick (after LoadOSROM) performs the 7-cycle RESET sequence" (New):
\* with an OS ROM loaded, no opcode is executed before RESET has run on it.
FirstOpcodeIsBoot == [][Step /\ osLoaded /\ kind' = "opcode" => booted]_vars
===============================================================================
