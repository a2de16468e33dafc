------------------------------ MODULE BusAccess ------------------------------
(***************************************************************************)
(* The memory map as the CPU drives it: any sequence of bus writes, with   *)
(* any set of ROMs loaded beforehand.  (Init, Next and Spec have Access in *)
(* their names because BoardProofs extends this module and Board.)         *)
(***************************************************************************)
EXTENDS MemoryMap

CONSTANTS
    Values,      \* bytes written over the bus
    MaxWrites    \* bound: bus writes

ASSUME BusAccessAssumption == Values \subseteq Byte /\ MaxWrites \in Nat

VARIABLES writes,    \* how many there were
          last,      \* history: the last one
          hooked     \* the last one called the UnmappedAccessHook

accessVars == <<ram, os, sideways, bank, regs, selected, writes, last, hooked>>

AccessInit ==
    /\ ram = ZeroRam /\ bank = 0 /\ regs = ZeroRegs /\ selected = 0
    /\ os \in Images \cup {NoImage}
    /\ sideways \in [0..3 -> Images \cup {NoImage}]
    /\ writes = 0 /\ last = [addr |-> 0, value |-> 0] /\ hooked = FALSE

Write(a, v) ==
    /\ writes < MaxWrites
    /\ writes' = writes + 1
    /\ last' = [addr |-> a, value |-> v]
    /\ hooked' = WriteFiresHook(a)
    /\ BusWrite(a, v)

\* A read, at any address, changes nothing.
Read == UNCHANGED accessVars

AccessNext == Read \/ \E a \in BusAddrs, v \in Values : Write(a, v)

AccessSpec == AccessInit /\ [][AccessNext]_accessVars

-------------------------------------------------------------------------------
\* Two addresses are the same register when a write to one may be read at the
\* other: RAM cells, mirrors of a register, the CRTC's index and data ports,
\* and the ROM-select latch with the window it switches.
SameCell(a, b) ==
    \/ a = b
    \/ Device(a) = "CRTC" /\ Device(b) = "CRTC"
    \/ Device(a) = "RomSelect" /\ Device(b) = "Sideways"
    \/ /\ Device(a) = Device(b) /\ Device(a) \in Files \ {"CRTC"}
       /\ \E n \in {1, 2, 4, 8, 16} : n = RegCount[Device(a)] /\ a % n = b % n

\* A bus write is visible at the mirrors of its address and nowhere else: no
\* peripheral, RAM cell or ROM byte ever changes through another's address.
WritesStayLocal ==
    [][\A b \in BusAddrs : ~SameCell(last'.addr, b) => ReadValue(b)' = ReadValue(b)]_accessVars

\* What was written to RAM or to a readable register is read back at every
\* mirror of the address.
WritesReadBack ==
    [][Device(last'.addr) \in {"RAM"} \cup (Files \ {"CRTC", "FDC", "Econet"}) =>
          \A b \in BusAddrs : SameCell(last'.addr, b) => ReadValue(b)' = last'.value]_accessVars

\* "Mapped accesses never invoke the hook": where a read fires it the byte is
\* open bus, and a write that fires it changes nothing that can be read.
HookMeansOpenBus ==
    /\ [](\A a \in BusAddrs : ReadFiresHook(a) => ReadValue(a) = openBus)
    /\ [][hooked' => \A a \in BusAddrs : ReadValue(a)' = ReadValue(a)]_accessVars
===============================================================================
