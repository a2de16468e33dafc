------------------------------- MODULE Machine -------------------------------
(***************************************************************************)
(* bbc.Machine (bbc/machine.go, rom.go, snapshot.go): the operations a host *)
(* calls on the memory map and the CPU's registers and signal latches: the  *)
(* ROM loaders, Reset, ColdReset, Snapshot, Restore and the signals.  Tick,  *)
(* which runs the CPU, is in Board.                                         *)
(***************************************************************************)
EXTENDS MemoryMap

CONSTANTS
    BankArgs, \* bank numbers passed to LoadSidewaysROM
    Forged,   \* bytes a host may put in a Snapshot's index fields
    MaxCalls  \* bound: calls of the Machine

ASSUME MachineAssumption == BankArgs \subseteq Int /\ Forged \subseteq Byte /\ MaxCalls \in Nat

VARIABLES
    cpu,        \* architectural registers and the cycle counter
    resetPending, nmiPending, nmiPrev, irqLine, rdy,
    snap,       \* the Snapshot the host holds, or NoSnap
    err,        \* the error the last call returned, until the CPU goes on
    calls,
    seen        \* history: every byte of BusAddrs when snap was taken, or NoView

latches == <<resetPending, nmiPending, nmiPrev, irqLine, rdy>>
machine == <<mem, cpu, latches>>

\* X and Y are left out: no instruction of Board uses them.
Registers == [A : Byte, SP : Byte, PC : Word, P : SUBSET Flags, cycles : Nat]
NoSnap == [taken |-> FALSE]
NoView == <<>>
View == [a \in BusAddrs |-> ReadValue(a)]

\* bbc.New
MachineInit ==
    /\ MapInit
    /\ cpu = [A |-> 0, SP |-> 0, PC |-> 0, P |-> {}, cycles |-> 0]
    /\ resetPending = TRUE /\ nmiPending = FALSE /\ nmiPrev = FALSE
    /\ irqLine = FALSE /\ rdy = TRUE
    /\ snap = NoSnap /\ err = "ok" /\ calls = 0 /\ seen = NoView

Call == calls < MaxCalls /\ calls' = calls + 1

Fails(e) == err' = e /\ UNCHANGED <<machine, snap, calls, seen>>

osLoaded == os # NoImage

-------------------------------------------------------------------------------
(* The ROM loaders.  `whole` says that the image has exactly 16384 bytes.    *)

LoadOSROM(image, whole) ==
    \/ ~whole /\ Fails("ErrInvalidROMSize")
    \/ /\ whole /\ Call
       /\ os' = image
       /\ seen' = IF os = image THEN seen ELSE NoView
       /\ err' = "ok"
       /\ UNCHANGED <<ram, sideways, bank, regs, selected, cpu, latches, snap>>

LoadSidewaysROM(b, image, whole) ==
    \/ b \notin 0..3 /\ Fails("ErrBankOutOfRange")
    \/ b \in 0..3 /\ ~whole /\ Fails("ErrInvalidROMSize")
    \/ /\ b \in 0..3 /\ whole /\ Call
       /\ sideways' = [sideways EXCEPT ![b] = image]
       /\ seen' = IF sideways[b] = image THEN seen ELSE NoView
       /\ err' = "ok"
       /\ UNCHANGED <<ram, os, bank, regs, selected, cpu, latches, snap>>

-------------------------------------------------------------------------------
(* Resets.                                                                   *)

\* The BREAK key.
Reset ==
    \/ ~osLoaded /\ Fails("ErrNoOSROM")
    \/ /\ osLoaded /\ Call
       /\ bank' = 0
       /\ resetPending' = TRUE
       /\ err' = "ok"
       /\ UNCHANGED <<ram, os, sideways, regs, selected, cpu, nmiPending, nmiPrev, irqLine, rdy,
                      snap, seen>>

\* Seeded fault: the System VIA is left out of Peripherals.Zero.
ZeroPeripheralsButVIA ==
    regs' = [ZeroRegs EXCEPT !["SystemVIA"] = regs["SystemVIA"]] /\ selected' = 0

\* Peripherals.Zero
ZeroPeripherals == regs' = ZeroRegs /\ selected' = 0

ColdReset ==
    \/ ~osLoaded /\ Fails("ErrNoOSROM")
    \/ /\ osLoaded /\ Call
       /\ ram' = ZeroRam
       /\ bank' = 0
       /\ ZeroPeripherals
       /\ resetPending' = TRUE
       /\ err' = "ok"
       /\ UNCHANGED <<os, sideways, cpu, nmiPending, nmiPrev, irqLine, rdy, snap, seen>>

-------------------------------------------------------------------------------
(* Snapshot and Restore.                                                     *)

Loaded == [b \in 0..3 |-> sideways[b] # NoImage]

\* Seeded fault: Snapshot leaves the CRTC's index out.
CaptureNoIndex ==
    [taken |-> TRUE, cpu |-> cpu, ram |-> ram, bank |-> bank, loaded |-> Loaded,
     regs |-> regs, selected |-> 0]

Capture ==
    [taken |-> TRUE, cpu |-> cpu, ram |-> ram, bank |-> bank, loaded |-> Loaded,
     regs |-> regs, selected |-> selected]

Snapshot ==
    /\ Call
    /\ snap' = Capture
    /\ seen' = View
    /\ err' = "ok"
    /\ UNCHANGED machine

\* A Snapshot is a plain Go value: the host may edit it before Restore.
ForgeSnapshot ==
    /\ snap.taken /\ Call
    /\ \E s \in Forged, b \in Forged : snap' = [snap EXCEPT !.selected = s, !.bank = b]
    /\ seen' = NoView
    /\ err' = "ok"
    /\ UNCHANGED machine

\* Seeded fault: P is not written back.
SetRegistersButStatus(r) == cpu' = [r EXCEPT !.P = cpu.P] /\ resetPending' = FALSE

\* CPU.SetRegisters clears a pending RESET and no other latch.
SetRegisters(r) == cpu' = r /\ resetPending' = FALSE

\* CRTC.Restore keeps the index in 0..17.
RestoreCrtcIndex == selected' = snap.selected % 18

Restore ==
    /\ snap.taken
    /\ \/ ~osLoaded /\ Fails("ErrNoOSROM")
       \/ osLoaded /\ snap.loaded # Loaded /\ Fails("ErrRestoreMismatch")
       \/ /\ osLoaded /\ snap.loaded = Loaded /\ Call
          /\ SetRegisters(snap.cpu)
          /\ ram' = snap.ram
          /\ bank' = snap.bank % 4
          /\ regs' = snap.regs
          /\ RestoreCrtcIndex
          /\ err' = "ok"
          /\ UNCHANGED <<os, sideways, nmiPending, nmiPrev, irqLine, rdy, snap, seen>>

-------------------------------------------------------------------------------
(* Signals from the host.                                                    *)

AssertIRQ(level) ==
    /\ Call
    /\ irqLine' = level
    /\ err' = "ok"
    /\ UNCHANGED <<mem, cpu, resetPending, nmiPending, nmiPrev, rdy, snap, seen>>

AssertNMI ==
    /\ Call
    /\ nmiPending' = (nmiPending \/ ~nmiPrev) /\ nmiPrev' = TRUE
    /\ err' = "ok"
    /\ UNCHANGED <<mem, cpu, resetPending, irqLine, rdy, snap, seen>>

DeassertNMI ==
    /\ Call
    /\ nmiPrev' = FALSE
    /\ err' = "ok"
    /\ UNCHANGED <<mem, cpu, resetPending, nmiPending, irqLine, rdy, snap, seen>>

SetRDY(ready) ==
    /\ Call
    /\ rdy' = ready
    /\ err' = "ok"
    /\ UNCHANGED <<mem, cpu, resetPending, nmiPending, nmiPrev, irqLine, snap, seen>>

-------------------------------------------------------------------------------
(* Properties                                                                *)

\* Every index stays inside its array - the CRTC's register file, the four
\* sideways banks - whatever is written over the bus and whatever Snapshot the
\* host hands to Restore.
MachineTypeOK ==
    /\ ram \in [RamAddrs -> Byte]
    /\ os \in Images \cup {NoImage} /\ sideways \in [0..3 -> Images \cup {NoImage}]
    /\ bank \in 0..3 /\ selected \in 0..17
    /\ regs = [d \in Files |-> regs[d]]
    /\ \A d \in Files : regs[d] \in [0..(RegCount[d] - 1) -> Byte]
    /\ cpu \in Registers
    /\ resetPending \in BOOLEAN /\ nmiPending \in BOOLEAN /\ nmiPrev \in BOOLEAN
    /\ irqLine \in BOOLEAN /\ rdy \in BOOLEAN
===============================================================================
