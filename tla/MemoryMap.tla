------------------------------ MODULE MemoryMap ------------------------------
(***************************************************************************)
(* The BBC Model B memory map (bbc/memory_map.go), its ROM banks           *)
(* (bbc/rom.go, bbc/rom_select.go) and the SHEILA stub peripherals.        *)
(* Addresses are real 16-bit addresses.  A read never changes state, so it *)
(* is a function of the state (ReadValue); a write is the action BusWrite. *)
(***************************************************************************)
EXTENDS Status

CONSTANTS
    BusAddrs,       \* the addresses the model exercises
    Images,         \* ROM images
    NoImage,        \* a bank without an image
    RomByte(_, _)   \* RomByte(i, n) is byte n of image i

romImageSize == 16384
RamAddrs == {a \in BusAddrs : a < 32768}

ASSUME MemoryMapAssumption ==
    /\ BusAddrs \subseteq Word
    /\ NoImage \notin Images
    /\ \A i \in Images, n \in 0..(romImageSize - 1) : RomByte(i, n) \in Byte

VARIABLES
    ram,         \* main RAM, at the addresses of RamAddrs
    os,          \* the OS ROM image, or NoImage
    sideways,    \* the image of each sideways bank, or NoImage
    bank,        \* the ROM-select latch
    regs,        \* the register file of every peripheral
    selected     \* the CRTC's register index

mem == <<ram, os, sideways, bank, regs, selected>>

openBus == 255

-------------------------------------------------------------------------------
(* Address decoding: Read, Write, ioRead and ioWrite share one layout.       *)

\* Number of registers of each peripheral; ACCCON has none.
RegCount == [CRTC |-> 18, ACIA |-> 4, SerialULA |-> 1, VideoULA |-> 2, SystemVIA |-> 16,
             UserVIA |-> 16, FDC |-> 4, Econet |-> 4, ADC |-> 4, Tube |-> 8]
Files == DOMAIN RegCount

\* SHEILA, $FE00-$FEFF, by the low byte of the address.
Sheila(low) ==
    CASE low < 8   -> "CRTC"
      [] low \in 8..15 -> "ACIA"
      [] low \in 16..31 -> "SerialULA"
      [] low \in 32..47 -> "VideoULA"
      [] low \in 48..51 -> "RomSelect"
      [] low \in 52..55 -> "ACCCON"
      [] low \in 56..63 -> "Gap"
      [] low \in 64..95 -> "SystemVIA"
      [] low \in 96..127 -> "UserVIA"
      [] low \in 128..159 -> "FDC"
      [] low \in 160..191 -> "Econet"
      [] low \in 192..223 -> "ADC"
      [] OTHER -> "Tube"

Device(a) ==
    IF a < 32768 THEN "RAM"
    ELSE IF a < 49152 THEN "Sideways"
    ELSE IF a < 64512 THEN "OS"
    ELSE IF a < 64768 THEN "FRED"
    ELSE IF a < 65024 THEN "JIM"
    ELSE IF a < 65280 THEN Sheila(a % 256)
    ELSE "OS"

\* Seeded fault: the Tube decodes two address bits instead of three.
RegisterNarrow(a) == a % (IF Device(a) = "CRTC" THEN 2
                          ELSE IF Device(a) = "Tube" THEN 4 ELSE RegCount[Device(a)])

\* The register offset the decoder passes on: the address masked to the
\* device's register count (CRTC: bit 0 tells index from data).
Register(a) == a % (IF Device(a) = "CRTC" THEN 2 ELSE RegCount[Device(a)])

-------------------------------------------------------------------------------
(* Reads.                                                                    *)

\* Seeded fault: a bank without an image reads as zeros and fires no hook.
SidewaysReadBlank(a) == IF sideways[bank] = NoImage THEN 0 ELSE RomByte(sideways[bank], a - 32768)

SidewaysRead(a) == IF sideways[bank] = NoImage THEN openBus
                   ELSE RomByte(sideways[bank], a - 32768)

\* An OS ROM that was never loaded is an array of zeros.
OsRead(a) == IF os = NoImage THEN 0 ELSE RomByte(os, a - 49152)

\* Seeded fault: reads of the User VIA are dispatched to the System VIA.
PeripheralReadSwapped(a) ==
    CASE Device(a) \in {"FDC", "Econet"} -> openBus
      [] Device(a) = "CRTC" -> IF Register(a) = 0 THEN openBus ELSE regs["CRTC"][selected]
      [] Device(a) = "UserVIA" -> regs["SystemVIA"][Register(a)]
      [] OTHER -> regs[Device(a)][Register(a)]

PeripheralRead(a) ==
    CASE Device(a) \in {"FDC", "Econet"} -> openBus
      [] Device(a) = "CRTC" -> IF Register(a) = 0 THEN openBus ELSE regs["CRTC"][selected]
      [] OTHER -> regs[Device(a)][Register(a)]

ReadValue(a) ==
    CASE Device(a) = "RAM" -> ram[a]
      [] Device(a) = "Sideways" -> SidewaysRead(a)
      [] Device(a) = "OS" -> OsRead(a)
      [] Device(a) \in Files -> PeripheralRead(a)
      [] OTHER -> openBus

\* Seeded fault: reads of an OS ROM that was never loaded are unmapped too.
ReadFiresHookNoOS(a) ==
    \/ Device(a) \in {"FRED", "JIM", "RomSelect", "Gap"}
    \/ Device(a) = "Sideways" /\ sideways[bank] = NoImage
    \/ Device(a) = "OS" /\ os = NoImage

\* The accesses that call the UnmappedAccessHook.
ReadFiresHook(a) ==
    \/ Device(a) \in {"FRED", "JIM", "RomSelect", "Gap"}
    \/ Device(a) = "Sideways" /\ sideways[bank] = NoImage

WriteFiresHook(a) == Device(a) \in {"FRED", "JIM", "Gap"}

-------------------------------------------------------------------------------
(* Writes.                                                                   *)

\* Seeded fault: the index is masked to five bits and no further.
CrtcIndexMasked(v) == v % 32

\* CRTC.Write keeps the index in 0..17.
CrtcIndex(v) == (v % 32) % 18

\* Seeded fault: a write to the data port moves the index on.
WriteCrtcAdvancing(m, r, v) ==
    IF r = 0 THEN [m EXCEPT !.selected = CrtcIndex(v)]
    ELSE [m EXCEPT !.regs["CRTC"][m.selected] = v, !.selected = (m.selected + 1) % 18]

WriteCrtc(m, r, v) ==
    IF r = 0 THEN [m EXCEPT !.selected = CrtcIndex(v)]
    ELSE [m EXCEPT !.regs["CRTC"][m.selected] = v]

\* What a write may change, and MemoryMap.Write as a function of it.  ROM, FRED,
\* JIM, ACCCON and the gap drop the byte.
Writable == [ram |-> ram, bank |-> bank, regs |-> regs, selected |-> selected]

Written(m, a, v) ==
    CASE Device(a) = "RAM" -> [m EXCEPT !.ram[a] = v]
      [] Device(a) = "RomSelect" -> [m EXCEPT !.bank = v % 4]
      [] Device(a) = "CRTC" -> WriteCrtc(m, Register(a), v)
      [] Device(a) \in Files \ {"CRTC"} -> [m EXCEPT !.regs[Device(a)][Register(a)] = v]
      [] OTHER -> m

BusWrite(a, v) ==
    LET m == Written(Writable, a, v) IN
    /\ ram' = m.ram /\ bank' = m.bank /\ regs' = m.regs /\ selected' = m.selected
    /\ UNCHANGED <<os, sideways>>

ZeroRam == [a \in RamAddrs |-> 0]
ZeroRegs == [d \in Files |-> [r \in 0..(RegCount[d] - 1) |-> 0]]

MapInit ==
    /\ ram = ZeroRam /\ os = NoImage /\ sideways = [b \in 0..3 |-> NoImage]
    /\ bank = 0 /\ regs = ZeroRegs /\ selected = 0
===============================================================================
