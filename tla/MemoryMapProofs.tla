--------------------------- MODULE MemoryMapProofs ---------------------------
(***************************************************************************)
(* What the address decoder, reads and writes of the memory map do, for    *)
(* every address, byte and set of ROMs; and the properties of BusAccess:   *)
(* bus writes change what is read at the mirrors of their address and      *)
(* nowhere else.                                                           *)
(***************************************************************************)
EXTENDS BusAccess, TLAPS

\* The register files, each with one byte per register.
FilesOK(r) ==
    /\ r = [d \in Files |-> r[d]]
    /\ \A d \in Files : r[d] \in [0..(RegCount[d] - 1) -> Byte]

\* The memory a write may change, in the shape of Writable.
MemOK(m) ==
    /\ m = [ram |-> m.ram, bank |-> m.bank, regs |-> m.regs, selected |-> m.selected]
    /\ m.ram \in [RamAddrs -> Byte] /\ m.bank \in 0..3
    /\ FilesOK(m.regs) /\ m.selected \in 0..17

RomsOK ==
    /\ os \in Images \cup {NoImage}
    /\ sideways \in [0..3 -> Images \cup {NoImage}]

\* All 32 KB of RAM are there.
WholeRam == \A a \in Word : a < 32768 => a \in BusAddrs

\* The address is modelled, as far as RAM is concerned.
Covered(a) == Device(a) = "RAM" => a \in RamAddrs

-------------------------------------------------------------------------------
(* The decoder.                                                              *)

Others == {"RAM", "Sideways", "OS", "FRED", "JIM", "RomSelect", "ACCCON", "Gap"}

\* The ten register files and their sizes.
LEMMA FileSizes ==
    /\ Files = {"CRTC", "ACIA", "SerialULA", "VideoULA", "SystemVIA", "UserVIA", "FDC",
                "Econet", "ADC", "Tube"}
    /\ RegCount["CRTC"] = 18 /\ RegCount["ACIA"] = 4 /\ RegCount["SerialULA"] = 1
    /\ RegCount["VideoULA"] = 2 /\ RegCount["SystemVIA"] = 16 /\ RegCount["UserVIA"] = 16
    /\ RegCount["FDC"] = 4 /\ RegCount["Econet"] = 4 /\ RegCount["ADC"] = 4
    /\ RegCount["Tube"] = 8
BY DEF Files, RegCount

\* SHEILA decodes every low byte.
LEMMA SheilaDecodes ==
    ASSUME NEW low \in Byte
    PROVE  /\ Sheila(low) \in Files \cup {"RomSelect", "ACCCON", "Gap"}
           /\ Sheila(low) \notin {"RAM", "Sideways", "OS", "FRED", "JIM"}
<1>1. Sheila(low) \in {"CRTC", "ACIA", "SerialULA", "VideoULA", "SystemVIA", "UserVIA", "FDC",
                "Econet", "ADC", "Tube", "RomSelect", "ACCCON", "Gap"}
  BY DEF Sheila, Byte
<1> QED BY <1>1, FileSizes

\* An address as an integer with bounds: the provers enumerate 0..65535 itself.
LEMMA WordRange ==
    ASSUME NEW a
    PROVE  a \in Word <=> (a \in Int /\ 0 <= a /\ a <= 65535)
<1>1. PICK hi \in Int : hi = 65535
  OBVIOUS
<1>2. a \in 0..hi <=> (a \in Int /\ 0 <= a /\ a <= hi)
  OBVIOUS
<1>3. Word = 0..hi
  BY <1>1, Z3 DEF Word
<1>4. a <= hi <=> a <= 65535
  BY <1>1
<1> QED BY <1>2, <1>3, <1>4

\* Every byte of a ROM image is a byte.
LEMMA RomBytes ==
    ASSUME NEW i \in Images, NEW n \in Int, 0 <= n, n <= 16383
    PROVE  RomByte(i, n) \in Byte
<1>1. romImageSize \in Int /\ n <= romImageSize - 1
  BY DEF romImageSize
<1>2. n \in 0..(romImageSize - 1)
  BY <1>1
<1> QED BY <1>2, MemoryMapAssumption

\* Every address belongs to one device, each region where the code has it.
LEMMA Decodes ==
    ASSUME NEW a \in Word
    PROVE  /\ Device(a) \in Files \cup Others
           /\ Device(a) = "RAM" <=> a < 32768
           /\ Device(a) = "Sideways" => a - 32768 \in Int /\ 0 <= a - 32768 /\ a - 32768 <= 16383
           /\ Device(a) = "OS" => a - 49152 \in Int /\ 0 <= a - 49152 /\ a - 49152 <= 16383
           /\ a >= 65280 => Device(a) = "OS"
<1>1. a \in Int /\ 0 <= a /\ a <= 65535
  BY WordRange
<1>2. a % 256 \in Byte
  BY <1>1 DEF Byte
<1>3. /\ Sheila(a % 256) \in Files \cup Others
      /\ Sheila(a % 256) \notin {"RAM", "Sideways", "OS"}
  BY <1>2, SheilaDecodes DEF Others
<1>4. Device(a) \in {"RAM", "Sideways", "OS", "FRED", "JIM", Sheila(a % 256)}
  BY <1>1 DEF Device
<1>5. Device(a) \in Files \cup Others
  BY <1>3, <1>4 DEF Others
<1> QED BY <1>1, <1>3, <1>5 DEF Device

\* The decoder's masks keep the register offset inside the device's file.
LEMMA RegisterInFile ==
    ASSUME NEW a \in Word, Device(a) \in Files
    PROVE  IF Device(a) = "CRTC" THEN Register(a) \in {0, 1}
           ELSE Register(a) \in 0..(RegCount[Device(a)] - 1)
<1>1. a \in Int
  BY DEF Word
<1>2. CASE Device(a) = "CRTC"
  BY <1>1, <1>2 DEF Register
<1>3. CASE Device(a) # "CRTC"
  <2>1. RegCount[Device(a)] \in {1, 2, 4, 8, 16}
    BY <1>3, FileSizes
  <2>2. Register(a) = a % RegCount[Device(a)]
    BY <1>3 DEF Register
  <2> QED BY <1>1, <1>3, <2>1, <2>2
<1> QED BY <1>2, <1>3

\* With all of RAM there, no address is left out.
LEMMA AllCovered == ASSUME WholeRam, NEW a \in Word PROVE Covered(a)
BY Decodes DEF WholeRam, Covered, RamAddrs

-------------------------------------------------------------------------------
(* Reads and writes.                                                         *)

\* The CRTC's file is indexed by 0..17.
LEMMA CrtcFile == ASSUME NEW r, FilesOK(r) PROVE r["CRTC"] \in [0..17 -> Byte]
<1>1. "CRTC" \in Files /\ RegCount["CRTC"] = 18
  BY FileSizes
<1>2. r["CRTC"] \in [0..(RegCount["CRTC"] - 1) -> Byte]
  BY <1>1 DEF FilesOK
<1>3. RegCount["CRTC"] - 1 = 17
  BY <1>1
<1> QED BY <1>2, <1>3

\* A byte written to a register of a file.
LEMMA FileWritten ==
    ASSUME NEW r, FilesOK(r), NEW d \in Files, NEW n \in 0..(RegCount[d] - 1), NEW v \in Byte
    PROVE  FilesOK([r EXCEPT ![d][n] = v])
<1> DEFINE s == [r EXCEPT ![d][n] = v]
<1>1. /\ r = [e \in Files |-> r[e]]
      /\ \A e \in Files : r[e] \in [0..(RegCount[e] - 1) -> Byte]
  BY DEF FilesOK
<1>2. s = [e \in Files |-> s[e]]
  BY <1>1
<1>3. ASSUME NEW e \in Files PROVE s[e] \in [0..(RegCount[e] - 1) -> Byte]
  <2>1. CASE e = d
    <3>1. s[d] = [r[d] EXCEPT ![n] = v]
      BY <1>1
    <3> QED BY <1>1, <2>1, <3>1
  <2>2. CASE e # d
    BY <1>1, <2>2
  <2> QED BY <2>1, <2>2
<1> QED BY <1>2, <1>3 DEF FilesOK

\* The fields of Writable.
LEMMA WritableFields ==
    /\ Writable.ram = ram /\ Writable.bank = bank
    /\ Writable.regs = regs /\ Writable.selected = selected
    /\ MemOK(Writable) <=> /\ ram \in [RamAddrs -> Byte] /\ bank \in 0..3
                           /\ FilesOK(regs) /\ selected \in 0..17
BY DEF Writable, MemOK

\* ReadValue as a function of the memory m, the OS ROM o and the sideways ROMs s.
ReadOf(m, o, s, a) ==
    CASE Device(a) = "RAM" -> m.ram[a]
      [] Device(a) = "Sideways" -> IF s[m.bank] = NoImage THEN openBus
                                   ELSE RomByte(s[m.bank], a - 32768)
      [] Device(a) = "OS" -> IF o = NoImage THEN 0 ELSE RomByte(o, a - 49152)
      [] Device(a) = "CRTC" -> IF Register(a) = 0 THEN openBus
                               ELSE m.regs["CRTC"][m.selected]
      [] Device(a) \in Files \ {"CRTC", "FDC", "Econet"} -> m.regs[Device(a)][Register(a)]
      [] OTHER -> openBus

\* ReadOf by device.
LEMMA ReadOfIs ==
    ASSUME NEW m, NEW o, NEW s, NEW a
    PROVE  /\ Device(a) = "RAM" => ReadOf(m, o, s, a) = m.ram[a]
           /\ Device(a) = "Sideways" =>
                ReadOf(m, o, s, a) = IF s[m.bank] = NoImage THEN openBus
                                     ELSE RomByte(s[m.bank], a - 32768)
           /\ Device(a) = "OS" =>
                ReadOf(m, o, s, a) = IF o = NoImage THEN 0 ELSE RomByte(o, a - 49152)
           /\ Device(a) = "CRTC" =>
                ReadOf(m, o, s, a) = IF Register(a) = 0 THEN openBus
                                     ELSE m.regs["CRTC"][m.selected]
           /\ Device(a) \in Files \ {"CRTC", "FDC", "Econet"} =>
                ReadOf(m, o, s, a) = m.regs[Device(a)][Register(a)]
           /\ Device(a) \in {"FDC", "Econet"} => ReadOf(m, o, s, a) = openBus
           /\ Device(a) \notin Files \cup {"RAM", "Sideways", "OS"} =>
                ReadOf(m, o, s, a) = openBus
<1>1. CASE Device(a) = "RAM"
  BY <1>1, FileSizes DEF ReadOf
<1>2. CASE Device(a) = "Sideways"
  BY <1>2, FileSizes DEF ReadOf
<1>3. CASE Device(a) = "OS"
  BY <1>3, FileSizes DEF ReadOf
<1>4. CASE Device(a) = "CRTC"
  BY <1>4, FileSizes DEF ReadOf
<1>5. CASE Device(a) \in Files \ {"CRTC", "FDC", "Econet"}
  BY <1>5, FileSizes DEF ReadOf
<1>6. CASE Device(a) \in {"FDC", "Econet"}
  BY <1>6, FileSizes DEF ReadOf
<1>7. CASE Device(a) \notin Files \cup {"RAM", "Sideways", "OS"}
  BY <1>7, FileSizes DEF ReadOf
<1> QED BY <1>1, <1>2, <1>3, <1>4, <1>5, <1>6, <1>7, FileSizes

\* ReadValue is ReadOf of the current state; so it is of the next one.
LEMMA ReadValueIs ==
    ASSUME NEW CONSTANT a
    PROVE  /\ ReadValue(a) = ReadOf(Writable, os, sideways, a)
           /\ ReadValue(a)' = ReadOf(Writable', os', sideways', a)
<1>1. CASE Device(a) = "RAM"
  BY <1>1, FileSizes, ReadOfIs DEF ReadValue, Writable
<1>2. CASE Device(a) = "Sideways"
  BY <1>2, FileSizes, ReadOfIs DEF ReadValue, SidewaysRead, Writable
<1>3. CASE Device(a) = "OS"
  BY <1>3, FileSizes, ReadOfIs DEF ReadValue, OsRead, Writable
<1>4. CASE Device(a) = "CRTC"
  BY <1>4, FileSizes, ReadOfIs DEF ReadValue, PeripheralRead, Writable
<1>5. CASE Device(a) \in Files \ {"CRTC", "FDC", "Econet"}
  BY <1>5, FileSizes, ReadOfIs DEF ReadValue, PeripheralRead, Writable
<1>6. CASE Device(a) \in {"FDC", "Econet"}
  BY <1>6, FileSizes, ReadOfIs DEF ReadValue, PeripheralRead, Writable
<1>7. CASE Device(a) \notin Files \cup {"RAM", "Sideways", "OS"}
  BY <1>7, FileSizes, ReadOfIs DEF ReadValue, Writable
<1> QED BY <1>1, <1>2, <1>3, <1>4, <1>5, <1>6, <1>7, FileSizes

\* Every read returns a byte: no index leaves its array.
LEMMA ReadType ==
    ASSUME NEW a \in Word, Covered(a), RomsOK, MemOK(Writable)
    PROVE  ReadValue(a) \in Byte
<1>1. /\ ram \in [RamAddrs -> Byte] /\ bank \in 0..3 /\ FilesOK(regs) /\ selected \in 0..17
  BY WritableFields
<1>2. openBus \in Byte
  BY DEF openBus, Byte
<1>3. CASE Device(a) = "RAM"
  <2>1. ReadValue(a) = ram[a]
    BY <1>3, FileSizes DEF ReadValue
  <2> QED BY <1>1, <1>3, <2>1 DEF Covered
<1>4. CASE Device(a) = "Sideways"
  <2>1. SidewaysRead(a) \in Byte
    BY <1>1, <1>2, <1>4, Decodes, RomBytes DEF SidewaysRead, RomsOK
  <2> QED BY <1>4, <2>1, FileSizes DEF ReadValue
<1>5. CASE Device(a) = "OS"
  <2>1. OsRead(a) \in Byte
    BY <1>5, Decodes, RomBytes DEF OsRead, RomsOK, Byte
  <2> QED BY <1>5, <2>1, FileSizes DEF ReadValue
<1>6. CASE Device(a) \in Files
  <2>1. ReadValue(a) = PeripheralRead(a)
    BY <1>6, FileSizes DEF ReadValue
  <2>2. CASE Device(a) \in {"FDC", "Econet"}
    BY <1>2, <2>1, <2>2 DEF PeripheralRead
  <2>3. CASE Device(a) = "CRTC"
    <3>1. regs["CRTC"][selected] \in Byte
      BY <1>1, CrtcFile
    <3> QED BY <1>2, <2>1, <2>3, <3>1 DEF PeripheralRead
  <2>4. CASE Device(a) \notin {"FDC", "Econet", "CRTC"}
    <3>1. regs[Device(a)][Register(a)] \in Byte
      BY <1>1, <1>6, <2>4, RegisterInFile DEF FilesOK
    <3> QED BY <2>1, <2>4, <3>1 DEF PeripheralRead
  <2> QED BY <2>2, <2>3, <2>4
<1>7. CASE Device(a) \notin {"RAM", "Sideways", "OS"} /\ Device(a) \notin Files
  BY <1>2, <1>7 DEF ReadValue
<1> QED BY <1>3, <1>4, <1>5, <1>6, <1>7

\* The memory has its four fields and no others.
Shaped(m) == m = [ram |-> m.ram, bank |-> m.bank, regs |-> m.regs, selected |-> m.selected]

\* Memory updates, one field at a time.
LEMMA Updated ==
    ASSUME NEW m, Shaped(m), NEW x, NEW y, NEW z
    PROVE  /\ [m EXCEPT !.ram[x] = y] =
                [ram |-> [m.ram EXCEPT ![x] = y], bank |-> m.bank, regs |-> m.regs,
                 selected |-> m.selected]
           /\ [m EXCEPT !.bank = y] =
                [ram |-> m.ram, bank |-> y, regs |-> m.regs, selected |-> m.selected]
           /\ [m EXCEPT !.selected = y] =
                [ram |-> m.ram, bank |-> m.bank, regs |-> m.regs, selected |-> y]
           /\ [m EXCEPT !.regs[x][y] = z] =
                [ram |-> m.ram, bank |-> m.bank, regs |-> [m.regs EXCEPT ![x][y] = z],
                 selected |-> m.selected]
BY DEF Shaped

\* What a write does, by device.
LEMMA WrittenIs ==
    ASSUME NEW m, Shaped(m), NEW a, NEW v
    PROVE  /\ Device(a) = "RAM" =>
                Written(m, a, v) = [ram |-> [m.ram EXCEPT ![a] = v], bank |-> m.bank,
                                    regs |-> m.regs, selected |-> m.selected]
           /\ Device(a) = "RomSelect" =>
                Written(m, a, v) = [ram |-> m.ram, bank |-> v % 4,
                                    regs |-> m.regs, selected |-> m.selected]
           /\ Device(a) = "CRTC" /\ Register(a) = 0 =>
                Written(m, a, v) = [ram |-> m.ram, bank |-> m.bank,
                                    regs |-> m.regs, selected |-> CrtcIndex(v)]
           /\ Device(a) = "CRTC" /\ Register(a) # 0 =>
                Written(m, a, v) = [ram |-> m.ram, bank |-> m.bank,
                                    regs |-> [m.regs EXCEPT !["CRTC"][m.selected] = v],
                                    selected |-> m.selected]
           /\ Device(a) \in Files \ {"CRTC"} =>
                Written(m, a, v) = [ram |-> m.ram, bank |-> m.bank,
                                    regs |-> [m.regs EXCEPT ![Device(a)][Register(a)] = v],
                                    selected |-> m.selected]
           /\ Device(a) \notin Files \cup {"RAM", "RomSelect"} => Written(m, a, v) = m
<1>1. CASE Device(a) = "RAM"
  <2>1. Written(m, a, v) = [m EXCEPT !.ram[a] = v]
    BY <1>1, FileSizes DEF Written
  <2> QED BY <1>1, <2>1, Updated, FileSizes
<1>2. CASE Device(a) = "RomSelect"
  <2>1. Written(m, a, v) = [m EXCEPT !.bank = v % 4]
    BY <1>2, FileSizes DEF Written
  <2> QED BY <1>2, <2>1, Updated, FileSizes
<1>3. CASE Device(a) = "CRTC"
  <2>1. Written(m, a, v) = WriteCrtc(m, Register(a), v)
    BY <1>3, FileSizes DEF Written
  <2>2. CASE Register(a) = 0
    BY <1>3, <2>1, <2>2, Updated, FileSizes DEF WriteCrtc
  <2>3. CASE Register(a) # 0
    BY <1>3, <2>1, <2>3, Updated, FileSizes DEF WriteCrtc
  <2> QED BY <2>2, <2>3
<1>4. CASE Device(a) \in Files \ {"CRTC"}
  <2>1. Written(m, a, v) = [m EXCEPT !.regs[Device(a)][Register(a)] = v]
    BY <1>4, FileSizes DEF Written
  <2> QED BY <1>4, <2>1, Updated, FileSizes
<1>5. CASE Device(a) \notin Files \cup {"RAM", "RomSelect"}
  BY <1>5, FileSizes DEF Written
<1> QED BY <1>1, <1>2, <1>3, <1>4, <1>5, FileSizes

\* A write that fires the hook drops its byte.
LEMMA WriteDropped ==
    ASSUME NEW m, MemOK(m), NEW a, NEW v, WriteFiresHook(a)
    PROVE  Written(m, a, v) = m
<1>1. Shaped(m)
  BY DEF MemOK, Shaped
<1> QED BY <1>1, WrittenIs, FileSizes DEF WriteFiresHook

\* The CRTC's index never leaves its register file.
LEMMA CrtcIndexType == ASSUME NEW v \in Byte PROVE CrtcIndex(v) \in 0..17
BY DEF CrtcIndex, Byte

\* A bus write of a byte keeps every array's shape and every index in bounds.
LEMMA WrittenType ==
    ASSUME NEW m, MemOK(m), NEW a \in Word, Covered(a), NEW v \in Byte
    PROVE  MemOK(Written(m, a, v))
<1>1. /\ Shaped(m) /\ m.ram \in [RamAddrs -> Byte] /\ m.bank \in 0..3
      /\ FilesOK(m.regs) /\ m.selected \in 0..17
  BY DEF MemOK, Shaped
<1>2. CASE Device(a) = "RAM"
  <2>1. [m.ram EXCEPT ![a] = v] \in [RamAddrs -> Byte]
    BY <1>1, <1>2 DEF Covered
  <2> QED BY <1>1, <1>2, <2>1, WrittenIs DEF MemOK
<1>3. CASE Device(a) = "RomSelect"
  <2>1. v % 4 \in 0..3
    BY DEF Byte
  <2> QED BY <1>1, <1>3, <2>1, WrittenIs DEF MemOK
<1>4. CASE Device(a) = "CRTC" /\ Register(a) = 0
  BY <1>1, <1>4, WrittenIs, CrtcIndexType DEF MemOK
<1>5. CASE Device(a) = "CRTC" /\ Register(a) # 0
  <2>1. FilesOK([m.regs EXCEPT !["CRTC"][m.selected] = v])
    BY <1>1, FileSizes, FileWritten
  <2> QED BY <1>1, <1>5, <2>1, WrittenIs DEF MemOK
<1>6. CASE Device(a) \in Files \ {"CRTC"}
  <2>1. FilesOK([m.regs EXCEPT ![Device(a)][Register(a)] = v])
    BY <1>1, <1>6, RegisterInFile, FileWritten
  <2> QED BY <1>1, <1>6, <2>1, WrittenIs DEF MemOK
<1>7. CASE Device(a) \notin Files \cup {"RAM", "RomSelect"}
  BY <1>1, <1>7, WrittenIs
<1> QED BY <1>2, <1>3, <1>4, <1>5, <1>6, <1>7

\* Of two writes to one address the second decides: nothing in the memory map
\* counts writes.
LEMMA WrittenTwice ==
    ASSUME NEW m, MemOK(m), NEW a \in Word, Covered(a), NEW v \in Byte, NEW w \in Byte
    PROVE  Written(Written(m, a, v), a, w) = Written(m, a, w)
<1> DEFINE n == Written(m, a, v)
<1> SUFFICES Written(n, a, w) = Written(m, a, w)
  OBVIOUS
<1>1. Shaped(m) /\ Shaped(n)
  BY WrittenType DEF MemOK, Shaped
<1>2. CASE Device(a) = "RAM"
  <2>1. n.ram = [m.ram EXCEPT ![a] = v] /\ n.bank = m.bank /\ n.regs = m.regs
        /\ n.selected = m.selected
    BY <1>1, <1>2, WrittenIs
  <2>2. [n.ram EXCEPT ![a] = w] = [m.ram EXCEPT ![a] = w]
    BY <2>1 DEF MemOK
  <2> HIDE DEF n
  <2> QED BY <1>1, <1>2, <2>1, <2>2, WrittenIs
<1>3. CASE Device(a) = "RomSelect"
  <2>1. n.ram = m.ram /\ n.regs = m.regs /\ n.selected = m.selected
    BY <1>1, <1>3, WrittenIs
  <2> HIDE DEF n
  <2> QED BY <1>1, <1>3, <2>1, WrittenIs
<1>4. CASE Device(a) = "CRTC" /\ Register(a) = 0
  <2>1. n.ram = m.ram /\ n.bank = m.bank /\ n.regs = m.regs
    BY <1>1, <1>4, WrittenIs
  <2> HIDE DEF n
  <2> QED BY <1>1, <1>4, <2>1, WrittenIs
<1>5. CASE Device(a) = "CRTC" /\ Register(a) # 0
  <2>1. n.ram = m.ram /\ n.bank = m.bank /\ n.selected = m.selected
        /\ n.regs = [m.regs EXCEPT !["CRTC"][m.selected] = v]
    BY <1>1, <1>5, WrittenIs
  <2>2. [n.regs EXCEPT !["CRTC"][m.selected] = w] = [m.regs EXCEPT !["CRTC"][m.selected] = w]
    BY <2>1, FileSizes DEF MemOK, FilesOK
  <2> HIDE DEF n
  <2> QED BY <1>1, <1>5, <2>1, <2>2, WrittenIs
<1>6. CASE Device(a) \in Files \ {"CRTC"}
  <2>1. n.ram = m.ram /\ n.bank = m.bank /\ n.selected = m.selected
        /\ n.regs = [m.regs EXCEPT ![Device(a)][Register(a)] = v]
    BY <1>1, <1>6, WrittenIs
  <2>2. [n.regs EXCEPT ![Device(a)][Register(a)] = w]
          = [m.regs EXCEPT ![Device(a)][Register(a)] = w]
    BY <1>6, <2>1 DEF MemOK, FilesOK
  <2> HIDE DEF n
  <2> QED BY <1>1, <1>6, <2>1, <2>2, WrittenIs
<1>7. CASE Device(a) \notin Files \cup {"RAM", "RomSelect"}
  BY <1>1, <1>7, WrittenIs
<1> QED BY <1>2, <1>3, <1>4, <1>5, <1>6, <1>7

\* The memory of a new or cold-reset machine.
LEMMA ZeroMemory == MemOK([ram |-> ZeroRam, bank |-> 0, regs |-> ZeroRegs, selected |-> 0])
<1>1. ZeroRam \in [RamAddrs -> Byte]
  BY DEF ZeroRam, Byte
<1>2. FilesOK(ZeroRegs)
  BY FileSizes DEF ZeroRegs, FilesOK, Byte
<1> QED BY <1>1, <1>2 DEF MemOK

\* A bus write as a step of the whole memory.
LEMMA WriteStep ==
    ASSUME NEW a, NEW v, MemOK(Writable), a \in Word, Covered(a), v \in Byte, BusWrite(a, v)
    PROVE  Writable' = Written(Writable, a, v) /\ os' = os /\ sideways' = sideways
<1>1. Shaped(Written(Writable, a, v))
  BY WrittenType DEF MemOK, Shaped
<1> QED BY <1>1 DEF BusWrite, Writable, Shaped

\* Wherever a read would call the hook, the byte is open bus.
LEMMA HookedReadIsOpen ==
    ASSUME NEW a, ReadFiresHook(a) PROVE ReadValue(a) = openBus
<1>1. CASE Device(a) \in {"FRED", "JIM", "RomSelect", "Gap"}
  BY <1>1, FileSizes, ReadOfIs, ReadValueIs
<1>2. CASE Device(a) = "Sideways" /\ sideways[bank] = NoImage
  BY <1>2, FileSizes DEF ReadValue, SidewaysRead
<1> QED BY <1>1, <1>2 DEF ReadFiresHook

-------------------------------------------------------------------------------
(* Sequences of bus writes.                                                  *)

AccessInv == MemOK(Writable) /\ RomsOK

\* Every modelled address is a 16-bit address whose RAM is modelled.
LEMMA BusAddrsCovered == ASSUME NEW a \in BusAddrs PROVE a \in Word /\ Covered(a)
<1>1. a \in Word
  BY MemoryMapAssumption
<1> QED BY <1>1, Decodes DEF Covered, RamAddrs

\* Registers at mirrors of one another are one register.
LEMMA MirrorIsRegister ==
    ASSUME NEW a, NEW b, Device(a) = Device(b), Device(a) \in Files \ {"CRTC"}
    PROVE  SameCell(a, b) <=> (a = b \/ Register(a) = Register(b))
<1>1. RegCount[Device(a)] \in {1, 2, 4, 8, 16}
  BY FileSizes
<1>2. Register(a) = a % RegCount[Device(a)] /\ Register(b) = b % RegCount[Device(a)]
  BY DEF Register
<1>3. SameCell(a, b) <=> a = b \/ \E n \in {1, 2, 4, 8, 16} :
                                     n = RegCount[Device(a)] /\ a % n = b % n
  BY FileSizes DEF SameCell
<1>4. ASSUME NEW n \in {1, 2, 4, 8, 16}, n = RegCount[Device(a)]
      PROVE  a % n = b % n <=> Register(a) = Register(b)
  BY <1>2, <1>4
<1> QED BY <1>1, <1>3, <1>4

\* What a read depends on.
LEMMA SameReads ==
    ASSUME NEW m, NEW n, NEW o, NEW s, NEW b,
           Device(b) = "RAM" => n.ram[b] = m.ram[b],
           Device(b) = "Sideways" => n.bank = m.bank,
           Device(b) = "CRTC" => n.selected = m.selected /\ n.regs["CRTC"] = m.regs["CRTC"],
           Device(b) \in Files \ {"CRTC"} =>
              n.regs[Device(b)][Register(b)] = m.regs[Device(b)][Register(b)]
    PROVE  ReadOf(n, o, s, b) = ReadOf(m, o, s, b)
<1>1. CASE Device(b) = "RAM"
  BY <1>1, ReadOfIs
<1>2. CASE Device(b) = "Sideways"
  BY <1>2, ReadOfIs
<1>3. CASE Device(b) = "OS"
  BY <1>3, ReadOfIs
<1>4. CASE Device(b) = "CRTC"
  BY <1>4, ReadOfIs
<1>5. CASE Device(b) \in Files \ {"CRTC", "FDC", "Econet"}
  BY <1>5, ReadOfIs
<1>6. CASE Device(b) \in {"FDC", "Econet"}
  BY <1>6, ReadOfIs
<1>7. CASE Device(b) \notin Files \cup {"RAM", "Sideways", "OS"}
  BY <1>7, ReadOfIs
<1> QED BY <1>1, <1>2, <1>3, <1>4, <1>5, <1>6, <1>7, FileSizes

\* A write is read where it can be, and leaves every other cell alone.
LEMMA WriteLocal ==
    ASSUME NEW m, MemOK(m), NEW o, NEW s, NEW a \in BusAddrs, NEW b \in BusAddrs,
           NEW v \in Byte, ~SameCell(a, b)
    PROVE  ReadOf(Written(m, a, v), o, s, b) = ReadOf(m, o, s, b)
<1> DEFINE n == Written(m, a, v)
<1> SUFFICES ReadOf(n, o, s, b) = ReadOf(m, o, s, b)
  OBVIOUS
<1>1. Shaped(m) /\ FilesOK(m.regs) /\ m.ram \in [RamAddrs -> Byte]
  BY DEF MemOK, Shaped
<1>2. a # b
  BY DEF SameCell
<1>3. Covered(a) /\ Covered(b) /\ a \in Word /\ b \in Word
  BY BusAddrsCovered
<1>4. CASE Device(a) = "RAM"
  <2>1. n.bank = m.bank /\ n.regs = m.regs /\ n.selected = m.selected
        /\ n.ram = [m.ram EXCEPT ![a] = v]
    BY <1>1, <1>4, WrittenIs
  <2>2. Device(b) = "RAM" => n.ram[b] = m.ram[b]
    BY <1>1, <1>2, <1>3, <2>1 DEF Covered
  <2>3. n.bank = m.bank /\ n.regs = m.regs /\ n.selected = m.selected
    BY <2>1
  <2> HIDE DEF n
  <2> QED BY <2>2, <2>3, SameReads
<1>5. CASE Device(a) = "RomSelect"
  <2>1. n.ram = m.ram /\ n.regs = m.regs /\ n.selected = m.selected
    BY <1>1, <1>5, WrittenIs
  <2>2. Device(b) # "Sideways"
    BY <1>5 DEF SameCell
  <2> HIDE DEF n
  <2> QED BY <2>1, <2>2, SameReads, FileSizes
<1>6. CASE Device(a) = "CRTC"
  <2>1. n.ram = m.ram /\ n.bank = m.bank
        /\ \A d \in Files \ {"CRTC"} : n.regs[d] = m.regs[d]
    <3>1. CASE Register(a) = 0
      BY <1>1, <1>6, <3>1, WrittenIs
    <3>2. CASE Register(a) # 0
      <4>1. n.ram = m.ram /\ n.bank = m.bank
            /\ n.regs = [m.regs EXCEPT !["CRTC"][m.selected] = v]
        BY <1>1, <1>6, <3>2, WrittenIs
      <4> QED BY <1>1, <4>1 DEF FilesOK
    <3> QED BY <3>1, <3>2
  <2>2. Device(b) # "CRTC"
    BY <1>6 DEF SameCell
  <2> HIDE DEF n
  <2> QED BY <2>1, <2>2, SameReads, FileSizes
<1>7. CASE Device(a) \in Files \ {"CRTC"}
  <2>1. n.ram = m.ram /\ n.bank = m.bank /\ n.selected = m.selected
        /\ n.regs = [m.regs EXCEPT ![Device(a)][Register(a)] = v]
    BY <1>1, <1>7, WrittenIs
  <2>2. n.regs["CRTC"] = m.regs["CRTC"]
    BY <1>1, <1>7, <2>1, FileSizes DEF FilesOK
  <2>3. ASSUME Device(b) \in Files \ {"CRTC"}
        PROVE  n.regs[Device(b)][Register(b)] = m.regs[Device(b)][Register(b)]
    <3>1. CASE Device(b) = Device(a)
      <4>1. Register(a) # Register(b)
        BY <1>7, <3>1, MirrorIsRegister
      <4>2. Register(b) \in 0..(RegCount[Device(b)] - 1)
        BY <1>3, <2>3, RegisterInFile
      <4>3. n.regs[Device(b)] = [m.regs[Device(b)] EXCEPT ![Register(a)] = v]
        BY <1>1, <2>1, <2>3, <3>1 DEF FilesOK
      <4> QED BY <1>1, <2>3, <4>1, <4>2, <4>3 DEF FilesOK
    <3>2. CASE Device(b) # Device(a)
      BY <1>1, <2>1, <2>3, <3>2 DEF FilesOK
    <3> QED BY <3>1, <3>2
  <2>4. n.ram = m.ram /\ n.bank = m.bank /\ n.selected = m.selected
    BY <2>1
  <2> HIDE DEF n
  <2> QED BY <2>2, <2>3, <2>4, SameReads
<1>8. CASE Device(a) \notin Files \cup {"RAM", "RomSelect"}
  BY <1>1, <1>8, WrittenIs
<1> QED BY <1>4, <1>5, <1>6, <1>7, <1>8

\* RAM and the readable registers return what was written, at every mirror.
LEMMA WriteReadBack ==
    ASSUME NEW m, MemOK(m), NEW o, NEW s, NEW a \in BusAddrs, NEW b \in BusAddrs,
           NEW v \in Byte, SameCell(a, b),
           Device(a) \in {"RAM"} \cup (Files \ {"CRTC", "FDC", "Econet"})
    PROVE  ReadOf(Written(m, a, v), o, s, b) = v
<1> DEFINE n == Written(m, a, v)
<1> SUFFICES ReadOf(n, o, s, b) = v
  OBVIOUS
<1>1. Shaped(m) /\ FilesOK(m.regs) /\ m.ram \in [RamAddrs -> Byte]
  BY DEF MemOK, Shaped
<1>2. Covered(a) /\ a \in Word /\ b \in Word
  BY BusAddrsCovered
<1>3. CASE Device(a) = "RAM"
  <2>1. n.ram = [m.ram EXCEPT ![a] = v]
    BY <1>1, <1>3, WrittenIs
  <2>2. a = b
    BY <1>3, FileSizes DEF SameCell
  <2>3. n.ram[b] = v
    BY <1>1, <1>2, <1>3, <2>1, <2>2 DEF Covered
  <2> HIDE DEF n
  <2> QED BY <1>3, <2>2, <2>3, ReadOfIs
<1>4. CASE Device(a) \in Files \ {"CRTC", "FDC", "Econet"}
  <2>1. n.regs = [m.regs EXCEPT ![Device(a)][Register(a)] = v]
    BY <1>1, <1>4, WrittenIs
  <2>2. Device(b) = Device(a)
    BY <1>4, FileSizes DEF SameCell
  <2>3. Register(b) = Register(a)
    BY <1>4, <2>2, MirrorIsRegister
  <2>4. Register(a) \in 0..(RegCount[Device(a)] - 1)
    BY <1>2, <1>4, RegisterInFile
  <2>5. n.regs[Device(a)] = [m.regs[Device(a)] EXCEPT ![Register(a)] = v]
    BY <1>1, <1>4, <2>1 DEF FilesOK
  <2>6. n.regs[Device(a)][Register(a)] = v
    BY <1>1, <1>4, <2>4, <2>5 DEF FilesOK
  <2> HIDE DEF n
  <2> QED BY <1>4, <2>2, <2>3, <2>6, ReadOfIs
<1> QED BY <1>3, <1>4

-------------------------------------------------------------------------------
(* The specification.                                                        *)

\* The memory keeps its shape and the ROMs stay in their banks.
LEMMA AccessInvHolds == AccessSpec => []AccessInv
<1>1. AccessInit => AccessInv
  BY ZeroMemory DEF AccessInit, AccessInv, RomsOK, Writable
<1>2. AccessInv /\ [AccessNext]_accessVars => AccessInv'
  <2> SUFFICES ASSUME AccessInv, [AccessNext]_accessVars PROVE AccessInv'
    OBVIOUS
  <2>1. CASE UNCHANGED accessVars
    BY <2>1 DEF accessVars, AccessInv, RomsOK, Writable
  <2>2. ASSUME NEW a \in BusAddrs, NEW v \in Values, Write(a, v) PROVE AccessInv'
    <3>1. a \in Word /\ Covered(a) /\ v \in Byte
      BY BusAddrsCovered, BusAccessAssumption
    <3>2. Writable' = Written(Writable, a, v) /\ os' = os /\ sideways' = sideways
      BY <2>2, <3>1, WriteStep DEF Write, AccessInv
    <3>3. MemOK(Writable')
      BY <3>1, <3>2, WrittenType DEF AccessInv
    <3> QED BY <3>2, <3>3 DEF AccessInv, RomsOK
  <2> QED BY <2>1, <2>2 DEF AccessNext, Read
<1> QED BY <1>1, <1>2, PTL DEF AccessSpec

\* A step that is not a stutter is a write.
LEMMA StepIsWrite ==
    ASSUME AccessInv, [AccessNext]_accessVars, ~UNCHANGED accessVars
    PROVE  \E a \in BusAddrs, v \in Byte :
              /\ last' = [addr |-> a, value |-> v] /\ hooked' = WriteFiresHook(a)
              /\ Writable' = Written(Writable, a, v) /\ os' = os /\ sideways' = sideways
<1>1. PICK a \in BusAddrs, v \in Values : Write(a, v)
  BY DEF AccessNext, Read
<1>2. a \in Word /\ Covered(a) /\ v \in Byte
  BY BusAddrsCovered, BusAccessAssumption
<1>3. Writable' = Written(Writable, a, v) /\ os' = os /\ sideways' = sideways
  BY <1>1, <1>2, WriteStep DEF Write, AccessInv
<1> QED BY <1>1, <1>2, <1>3 DEF Write

\* No bus write is visible outside the mirrors of its address.
THEOREM WritesStayLocalHolds == AccessSpec => WritesStayLocal
<1>1. ASSUME AccessInv, [AccessNext]_accessVars
      PROVE  [\A b \in BusAddrs : ~SameCell(last'.addr, b) => ReadValue(b)' = ReadValue(b)]_accessVars
  <2> SUFFICES ASSUME ~UNCHANGED accessVars, NEW b \in BusAddrs, ~SameCell(last'.addr, b)
               PROVE  ReadValue(b)' = ReadValue(b)
    OBVIOUS
  <2>1. PICK a \in BusAddrs, v \in Byte :
           /\ last' = [addr |-> a, value |-> v] /\ hooked' = WriteFiresHook(a)
           /\ Writable' = Written(Writable, a, v) /\ os' = os /\ sideways' = sideways
    BY <1>1, StepIsWrite
  <2>2. ~SameCell(a, b)
    BY <2>1
  <2>3. ReadOf(Written(Writable, a, v), os, sideways, b) = ReadOf(Writable, os, sideways, b)
    BY <1>1, <2>2, WriteLocal DEF AccessInv
  <2> QED BY <2>1, <2>3, ReadValueIs
<1> QED BY <1>1, AccessInvHolds, PTL DEF AccessSpec, WritesStayLocal

\* RAM and every readable register return the byte written, at every mirror.
THEOREM WritesReadBackHolds == AccessSpec => WritesReadBack
<1>1. ASSUME AccessInv, [AccessNext]_accessVars
      PROVE  [Device(last'.addr) \in {"RAM"} \cup (Files \ {"CRTC", "FDC", "Econet"}) =>
                \A b \in BusAddrs : SameCell(last'.addr, b) => ReadValue(b)' = last'.value]_accessVars
  <2> SUFFICES ASSUME ~UNCHANGED accessVars, NEW b \in BusAddrs, SameCell(last'.addr, b),
                      Device(last'.addr) \in {"RAM"} \cup (Files \ {"CRTC", "FDC", "Econet"})
               PROVE  ReadValue(b)' = last'.value
    OBVIOUS
  <2>1. PICK a \in BusAddrs, v \in Byte :
           /\ last' = [addr |-> a, value |-> v] /\ hooked' = WriteFiresHook(a)
           /\ Writable' = Written(Writable, a, v) /\ os' = os /\ sideways' = sideways
    BY <1>1, StepIsWrite
  <2>2. SameCell(a, b) /\ Device(a) \in {"RAM"} \cup (Files \ {"CRTC", "FDC", "Econet"})
    BY <2>1
  <2>3. ReadOf(Written(Writable, a, v), os, sideways, b) = v
    BY <1>1, <2>2, WriteReadBack DEF AccessInv
  <2> QED BY <2>1, <2>3, ReadValueIs
<1> QED BY <1>1, AccessInvHolds, PTL DEF AccessSpec, WritesReadBack

\* The hook means open bus: where a read calls it the byte is $FF, and a write
\* that calls it changes nothing that can be read.
THEOREM HookMeansOpenBusHolds == AccessSpec => HookMeansOpenBus
<1>1. \A a \in BusAddrs : ReadFiresHook(a) => ReadValue(a) = openBus
  BY HookedReadIsOpen
<1>2. ASSUME AccessInv, [AccessNext]_accessVars
      PROVE  [hooked' => \A a \in BusAddrs : ReadValue(a)' = ReadValue(a)]_accessVars
  <2> SUFFICES ASSUME ~UNCHANGED accessVars, hooked', NEW b \in BusAddrs
               PROVE  ReadValue(b)' = ReadValue(b)
    OBVIOUS
  <2>1. PICK a \in BusAddrs, v \in Byte :
           /\ last' = [addr |-> a, value |-> v] /\ hooked' = WriteFiresHook(a)
           /\ Writable' = Written(Writable, a, v) /\ os' = os /\ sideways' = sideways
    BY <1>2, StepIsWrite
  <2>2. Writable' = Writable
    BY <1>2, <2>1, WriteDropped DEF AccessInv
  <2> QED BY <2>1, <2>2, ReadValueIs
<1> QED BY <1>1, <1>2, AccessInvHolds, PTL DEF AccessSpec, HookMeansOpenBus
===============================================================================
