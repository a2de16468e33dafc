--------------------------- MODULE BoardProofs ---------------------------
(***************************************************************************)
(* Proofs about Board: a CPU on the memory map, host calls between Ticks    *)
(* and in hooks, Ticks inside hooks.                                        *)
(*                                                                         *)
(* Inv is the inductive invariant.  It says of the instruction in progress,  *)
(* and of every one that waits for a hook, which accesses may follow which   *)
(* and what its locals hold meanwhile (FrameOK); and of the history          *)
(* variables, what makes the properties hold at the end of a sequence of     *)
(* accesses also while it lasts.  RestoreReplays needs more: QuietInv and    *)
(* ReplayInv, after the other theorems.                                     *)
(***************************************************************************)
EXTENDS Board, MemoryMapProofs, SequenceTheorems

Kinds == {"opcode", "reset", "nmi", "irq", "brk"}
Hooks == {"none", "unmapped", "illegal"}
Backs == {"putBackInc", "putBackDec"}
Vectors == {"vectorLo", "vectorHi"}
EntryAccesses == {"dummy"} \cup Pushes \cup Vectors
Accesses == {"opcode", "padding", "lo", "hi", "jump", "store", "load", "peek", "get", "put", "cli",
             "immediate", "illegal"} \cup Backs \cup EntryAccesses

\* Access y may come right after x.
Follows(x, y) ==
    \/ x = "lo" /\ y \in {"hi", "jump", "store"}
    \/ x = "hi" /\ y \in {"store", "load", "get", "peek"}
    \/ x = "peek" /\ y = "get"
    \/ x = "get" /\ y \in Backs
    \/ x \in Backs /\ y = "put"
    \/ x = "dummy" /\ y \in {"dummy", "pushPCH"}
    \/ x = "padding" /\ y = "pushPCH"
    \/ x = "pushPCH" /\ y = "pushPCL"
    \/ x = "pushPCL" /\ y = "pushP"
    \/ x = "pushP" /\ y = "vectorLo"
    \/ x = "vectorLo" /\ y = "vectorHi"
    \/ x = "illegal" /\ y = "dummy"

\* The rest of an instruction or entry: each access after one it may follow,
\* and no read-modify-write cut short.
Chained(t) ==
    /\ t \in Seq(Accesses)
    /\ \A i \in 1..(Len(t) - 1) : Follows(t[i], t[i + 1])
    /\ t # <<>> => t[Len(t)] \notin {"get"} \cup Backs

\* A Tick's locals, between any two accesses.
FrameOK(f) ==
    /\ f \in [deadline : Nat, kind : Kinds, todo : Seq(Accesses), addr : Word, val : Byte,
              hook : Hooks]
    /\ Chained(f.todo)
    /\ f.hook = "unmapped" => f.todo # <<>>
    /\ f.todo # <<>> =>
         LET x == Head(f.todo) IN
         /\ x \in {"hi", "jump"} => f.addr \in Byte
         /\ x \in Vectors => /\ f.hook = "none" /\ f.addr \in {65530, 65532, 65534}
                             /\ f.kind = "reset" => f.addr = 65532
         /\ x = "illegal" => f.hook = "none"
         /\ x \in Backs \cup {"put"} /\ f.hook = "unmapped" => WriteFiresHook(f.addr)

\* The frames that wait: each for its hook.
Waiting == {f \in [deadline : Nat, kind : Kinds, todo : Seq(Accesses), addr : Word, val : Byte,
                   hook : Hooks] : FrameOK(f) /\ f.hook # "none"}

FrameInv ==
    /\ FrameOK(Frame)
    /\ running \in BOOLEAN
    /\ outer \in Seq(Waiting)
    /\ ~running => todo = <<>> /\ outer = <<>> /\ hook = "none"

\* The memory a Snapshot holds, and the Snapshots a host can hold.
SnapMem == [ram |-> snap.ram, bank |-> snap.bank, regs |-> snap.regs, selected |-> snap.selected]
SnapOK(s) ==
    /\ s = [taken |-> TRUE, cpu |-> s.cpu, ram |-> s.ram, bank |-> s.bank, loaded |-> s.loaded,
            regs |-> s.regs, selected |-> s.selected]
    /\ s.cpu \in Registers /\ s.ram \in [RamAddrs -> Byte] /\ s.bank \in Byte
    /\ FilesOK(s.regs) /\ s.selected \in Byte
SnapInv ==
    /\ snap = NoSnap \/ SnapOK(snap)
    /\ seen # NoView =>
          /\ SnapOK(snap) /\ snap.bank \in 0..3 /\ snap.selected \in 0..17
          /\ seen = [a \in BusAddrs |-> ReadOf(SnapMem, os, sideways, a)]

\* The NMI latch holds every edge owed, and none arrives once the entry has
\* chosen the NMI vector.
NmiInv ==
    /\ owed \in BOOLEAN
    /\ owed => nmiPending
    /\ todo # <<>> /\ Now \in Vectors /\ kind = "nmi" => ~owed

DueInv == due \in BOOLEAN /\ (due => resetPending)

\* The low byte of the vector is still the one in memory.
VectorInv == todo # <<>> /\ Now = "vectorHi" => val = ReadOf(Writable, os, sideways, addr)

\* Between a reset made outside Ticks and the end of its RESET sequence, nothing
\* else is in progress and nothing has been written.
Resetting(f) == f.todo \in Seq(EntryAccesses) /\ (f.todo # <<>> => f.kind = "reset")
BootInv ==
    boot # Nothing =>
       /\ boot = Writable /\ due
       /\ Resetting(Frame)
       /\ \A i \in 1..Len(outer) : Resetting(outer[i])

\* What is left of a read-modify-write will leave the memory of a single write.
RmwInv ==
    single # Nothing =>
       /\ todo # <<>> /\ Now \in Backs \cup {"put"} /\ hook # "illegal"
       /\ single = Written(Writable, addr, IF Now = "put" THEN val ELSE Modified(Now, val))

Inv ==
    /\ MachineTypeOK /\ FrameInv /\ SnapInv
    /\ NmiInv /\ DueInv /\ VectorInv /\ BootInv /\ RmwInv

-------------------------------------------------------------------------------
(* Sequences of accesses.                                                    *)

\* Dropping the access just made leaves a chain whose head may follow it.
LEMMA TailChained ==
    ASSUME NEW t, Chained(t), t # <<>>
    PROVE  /\ Head(t) \in Accesses /\ Chained(Tail(t))
           /\ Tail(t) # <<>> => Follows(Head(t), Head(Tail(t))) /\ t[2] = Head(Tail(t))
           /\ Tail(t) = <<>> => Head(t) \notin {"get"} \cup Backs
<1>1. t \in Seq(Accesses) /\ Len(t) \in Nat /\ Len(t) >= 1
  BY DEF Chained
<1>2. Head(t) = t[1] /\ t[1] \in Accesses
  BY <1>1
<1>3. /\ Tail(t) \in Seq(Accesses) /\ Len(Tail(t)) = Len(t) - 1
      /\ \A i \in 1..(Len(t) - 1) : Tail(t)[i] = t[i + 1]
  BY <1>1
<1>4. \A i \in 1..(Len(t) - 1) : Follows(t[i], t[i + 1])
  BY DEF Chained
<1>5. \A i \in 1..(Len(Tail(t)) - 1) : Follows(Tail(t)[i], Tail(t)[i + 1])
  BY <1>1, <1>3, <1>4
<1>6. CASE Tail(t) = <<>>
  <2>1. Len(Tail(t)) = 0
    BY <1>3, <1>6, EmptySeq, Zenon
  <2>2. Len(t) - 1 = 0
    BY <1>3, <2>1, Zenon
  <2>3. Len(t) = 1
    BY <1>1, <2>2
  <2> QED BY <1>2, <1>3, <1>5, <1>6, <2>3 DEF Chained
<1>7. CASE Tail(t) # <<>>
  <2>1. Len(t) >= 2
    BY <1>1, <1>3, <1>7
  <2>2. Tail(t)[Len(Tail(t))] = t[Len(t)]
    BY <1>1, <1>3, <2>1
  <2>3. Head(Tail(t)) = t[2]
    BY <1>1, <1>3, <2>1
  <2>4. Follows(t[1], t[1 + 1])
    BY <1>1, <1>4, <2>1
  <2> QED BY <1>2, <1>3, <1>5, <1>7, <2>2, <2>3, <2>4 DEF Chained
<1> QED BY <1>6, <1>7

\* The accesses that start an instruction, after its opcode.
Starts == {"padding", "lo", "cli", "immediate", "dummy", "illegal"}

\* The interrupt entries.
LEMMA EntryChained ==
    /\ Chained(Entry) /\ Entry # <<>> /\ Head(Entry) = "dummy" /\ Entry \in Seq(EntryAccesses)
BY DEF Entry, Chained, Follows, EntryAccesses, Accesses, Pushes, Vectors, Backs

LEMMA SingleChained == ASSUME NEW x \in Accesses, x \notin {"get"} \cup Backs
    PROVE Chained(<<x>>) /\ <<x>> # <<>> /\ Head(<<x>>) = x
BY DEF Chained

LEMMA OpcodeChained ==
    ASSUME NEW v \in DOMAIN Opcode
    PROVE  Chained(Opcode[v]) /\ Opcode[v] # <<>> /\ Head(Opcode[v]) \in Starts
<1> USE DEF Chained, Follows, EntryAccesses, Accesses, Pushes, Vectors, Backs, Starts
<1>0. DOMAIN Opcode = {0, 76, 88, 133, 141, 169, 173, 206, 234, 238, 254} \cup Undocumented
  BY DEF Opcode
<1>1. CASE v = 0
  <2>1. Opcode[v] = <<"padding", "pushPCH", "pushPCL", "pushP", "vectorLo", "vectorHi">>
    BY <1>1 DEF Opcode, rmw, Undocumented
  <2> QED BY <2>1
<1>2. CASE v = 76
  <2>1. Opcode[v] = <<"lo", "jump">>
    BY <1>2 DEF Opcode, rmw, Undocumented
  <2> QED BY <2>1
<1>3. CASE v = 88
  <2>1. Opcode[v] = <<"cli">>
    BY <1>3 DEF Opcode, rmw, Undocumented
  <2> QED BY <2>1
<1>4. CASE v = 133
  <2>1. Opcode[v] = <<"lo", "store">>
    BY <1>4 DEF Opcode, rmw, Undocumented
  <2> QED BY <2>1
<1>5. CASE v = 141
  <2>1. Opcode[v] = <<"lo", "hi", "store">>
    BY <1>5 DEF Opcode, rmw, Undocumented
  <2> QED BY <2>1
<1>6. CASE v = 169
  <2>1. Opcode[v] = <<"immediate">>
    BY <1>6 DEF Opcode, rmw, Undocumented
  <2> QED BY <2>1
<1>7. CASE v = 173
  <2>1. Opcode[v] = <<"lo", "hi", "load">>
    BY <1>7 DEF Opcode, rmw, Undocumented
  <2> QED BY <2>1
<1>8. CASE v = 206
  <2>1. Opcode[v] = <<"lo", "hi", "get", "putBackDec", "put">>
    BY <1>8 DEF Opcode, rmw, Undocumented
  <2> QED BY <2>1
<1>9. CASE v = 234
  <2>1. Opcode[v] = <<"dummy">>
    BY <1>9 DEF Opcode, rmw, Undocumented
  <2> QED BY <2>1
<1>10. CASE v = 238
  <2>1. Opcode[v] = <<"lo", "hi", "get", "putBackInc", "put">>
    BY <1>10 DEF Opcode, rmw, Undocumented
  <2> QED BY <2>1
<1>11. CASE v = 254
  <2>1. Opcode[v] = <<"lo", "hi", "peek", "get", "putBackInc", "put">>
    BY <1>11 DEF Opcode, rmw, Undocumented
  <2> QED BY <2>1
<1>12. CASE v \in Undocumented
  <2>1. Opcode[v] = <<"illegal", "dummy">>
    BY <1>12 DEF Opcode, illegalNOP, Undocumented
  <2> QED BY <2>1
<1> QED BY <1>0, <1>1, <1>2, <1>3, <1>4, <1>5, <1>6, <1>7, <1>8, <1>9, <1>10, <1>11, <1>12

-------------------------------------------------------------------------------
(* The values of one access.                                                 *)

\* The copy of P that is pushed is a byte.
LEMMA EncodeType == ASSUME NEW S PROVE Encode(S) \in Byte
  BY DEF Encode, Weight, Byte

\* Two bytes make an address, and an address has two.
LEMMA MakeWordType == ASSUME NEW lo \in Byte, NEW hi \in Byte PROVE MakeWord(lo, hi) \in Word
<1>1. MakeWord(lo, hi) \in Int /\ 0 <= MakeWord(lo, hi) /\ MakeWord(lo, hi) <= 65535
  BY DEF MakeWord, Byte
<1> QED BY <1>1, WordRange

LEMMA PartsType == ASSUME NEW w \in Word PROVE Hi(w) \in Byte /\ Lo(w) \in Byte
<1>1. w \in Int /\ 0 <= w /\ w <= 65535
  BY WordRange
<1> QED BY <1>1 DEF Hi, Lo, Byte

\* A byte is an address.
LEMMA ByteIsWord == ASSUME NEW v \in Byte PROVE v \in Word
<1>1. v \in Int /\ 0 <= v /\ v <= 255
  BY DEF Byte
<1> QED BY <1>1, WordRange

LEMMA ModifiedType == ASSUME NEW x, NEW v \in Byte PROVE Modified(x, v) \in Byte
  BY DEF Modified, Byte

\* The registers, field by field.
LEMMA RegistersFields ==
    ASSUME cpu \in Registers
    PROVE  /\ cpu = [A |-> cpu.A, SP |-> cpu.SP, PC |-> cpu.PC, P |-> cpu.P, cycles |-> cpu.cycles]
           /\ cpu.A \in Byte /\ cpu.SP \in Byte /\ cpu.PC \in Word /\ cpu.P \in SUBSET Flags
           /\ cpu.cycles \in Nat
BY DEF Registers

LEMMA PCAdvances == ASSUME NEW w \in Word PROVE (w + 1) % 65536 \in Word
<1>1. w \in Int
  BY WordRange
<1>2. (w + 1) % 65536 \in Int /\ 0 <= (w + 1) % 65536 /\ (w + 1) % 65536 <= 65535
  BY <1>1
<1> QED BY <1>2, WordRange

LEMMA SetNZType == ASSUME NEW S \in SUBSET Flags, NEW v PROVE SetNZ(S, v) \in SUBSET Flags
  BY DEF SetNZ, SetFlag, Flags

LEMMA LoadAIs ==
    ASSUME NEW c, NEW d, NEW v, d = LoadA(c, v),
           c = [A |-> c.A, SP |-> c.SP, PC |-> c.PC, P |-> c.P, cycles |-> c.cycles]
    PROVE  d = [A |-> v, SP |-> c.SP, PC |-> c.PC, P |-> SetNZ(c.P, v), cycles |-> c.cycles]
  BY DEF LoadA

\* The state of an access in progress.
AccessOK == MachineTypeOK /\ FrameOK(Frame) /\ todo # <<>>

LEMMA FrameFields ==
    ASSUME FrameOK(Frame)
    PROVE  /\ deadline \in Nat /\ kind \in Kinds /\ addr \in Word /\ val \in Byte /\ hook \in Hooks
           /\ Chained(todo)
           /\ hook = "unmapped" => todo # <<>>
           /\ todo # <<>> =>
                /\ Now \in Accesses
                /\ Now \in {"hi", "jump"} => addr \in Byte
                /\ Now \in Vectors => /\ hook = "none" /\ addr \in {65530, 65532, 65534}
                                      /\ kind = "reset" => addr = 65532
                /\ Now = "illegal" => hook = "none"
                /\ Now \in Backs \cup {"put"} /\ hook = "unmapped" => WriteFiresHook(addr)
<1>1. todo # <<>> => Now \in Accesses
  BY TailChained DEF FrameOK, Frame, Now
<1> QED BY <1>1 DEF FrameOK, Frame, Now

\* The registers after an access keep their width.
LEMMA RegistersAfterType ==
    ASSUME AccessOK, NEW v \in Byte
    PROVE  /\ RegistersAfter(v) \in Registers /\ RegistersAfter(v).cycles = cpu.cycles
           /\ [RegistersAfter(v) EXCEPT !.cycles = @ + 1] \in Registers
<1>1. /\ cpu = [A |-> cpu.A, SP |-> cpu.SP, PC |-> cpu.PC, P |-> cpu.P, cycles |-> cpu.cycles]
      /\ cpu.A \in Byte /\ cpu.SP \in Byte /\ cpu.PC \in Word /\ cpu.P \in SUBSET Flags
      /\ cpu.cycles \in Nat
  BY RegistersFields DEF AccessOK, MachineTypeOK
<1>2. /\ val \in Byte /\ Now \in Accesses
      /\ Now = "jump" => addr \in Byte
  BY FrameFields DEF AccessOK
<1>3. (cpu.PC + 1) % 65536 \in Word /\ (cpu.SP - 1) % 256 \in Byte
  BY <1>1, PCAdvances DEF Byte
<1> DEFINE R == RegistersAfter(v)
<1>4. Advanced \in Registers /\ Advanced.cycles = cpu.cycles
      /\ Advanced = [A |-> cpu.A, SP |-> cpu.SP, PC |-> (cpu.PC + 1) % 65536, P |-> cpu.P,
                     cycles |-> cpu.cycles]
  BY <1>1, <1>3 DEF Advanced, Registers
<1>5. R \in Registers /\ R.cycles = cpu.cycles
  <2>1. CASE Now \in {"opcode", "lo", "hi", "padding"}
    BY <1>4, <2>1 DEF RegistersAfter
  <2>2. CASE Now = "immediate"
    <3>1. R = LoadA(Advanced, v)
      BY <2>2 DEF RegistersAfter
    <3>2. R = [A |-> v, SP |-> cpu.SP, PC |-> (cpu.PC + 1) % 65536, P |-> SetNZ(cpu.P, v),
               cycles |-> cpu.cycles]
      <4>1. /\ Advanced.SP = cpu.SP /\ Advanced.PC = (cpu.PC + 1) % 65536
            /\ Advanced.P = cpu.P /\ Advanced.cycles = cpu.cycles
            /\ Advanced = [A |-> Advanced.A, SP |-> Advanced.SP, PC |-> Advanced.PC,
                           P |-> Advanced.P, cycles |-> Advanced.cycles]
        BY <1>4
      <4> HIDE DEF R
      <4> QED BY <3>1, <4>1, LoadAIs
    <3>3. SetNZ(cpu.P, v) \in SUBSET Flags
      BY <1>1, SetNZType
    <3> QED BY <1>1, <1>3, <3>2, <3>3 DEF Registers
  <2>3. CASE Now = "load"
    <3>1. R = LoadA(cpu, v)
      BY <2>3 DEF RegistersAfter
    <3>2. R = [A |-> v, SP |-> cpu.SP, PC |-> cpu.PC, P |-> SetNZ(cpu.P, v),
               cycles |-> cpu.cycles]
      BY <1>1, <3>1, LoadAIs
    <3>3. SetNZ(cpu.P, v) \in SUBSET Flags
      BY <1>1, SetNZType
    <3> QED BY <1>1, <3>2, <3>3 DEF Registers
  <2>4. CASE Now = "jump"
    <3>1. R = [cpu EXCEPT !.PC = MakeWord(addr, v)]
      BY <2>4 DEF RegistersAfter
    <3>2. MakeWord(addr, v) \in Word
      BY <1>2, <2>4, MakeWordType
    <3> QED BY <1>1, <3>1, <3>2 DEF Registers
  <2>5. CASE Now = "cli"
    <3>1. R = [cpu EXCEPT !.P = SetFlag(@, "I", FALSE)]
      BY <2>5 DEF RegistersAfter
    <3> QED BY <1>1, <3>1 DEF Registers, SetFlag
  <2>6. CASE Now \in Backs
    <3>1. R = [cpu EXCEPT !.P = SetNZ(@, Modified(Now, val))]
      BY <2>6 DEF RegistersAfter, Backs
    <3> QED BY <1>1, <3>1, SetNZType DEF Registers
  <2>7. CASE Now \in {"pushPCH", "pushPCL"}
    <3>1. R = [cpu EXCEPT !.SP = (@ - 1) % 256]
      BY <2>7 DEF RegistersAfter
    <3> QED BY <1>1, <1>3, <3>1 DEF Registers
  <2>8. CASE Now = "pushP"
    <3>1. R = [cpu EXCEPT !.SP = (@ - 1) % 256, !.P = @ \cup {"I", "U"}]
      BY <2>8 DEF RegistersAfter
    <3>2. R = [A |-> cpu.A, SP |-> (cpu.SP - 1) % 256, PC |-> cpu.PC, P |-> cpu.P \cup {"I", "U"},
               cycles |-> cpu.cycles]
      BY <1>1, <3>1
    <3>3. cpu.P \cup {"I", "U"} \in SUBSET Flags
      BY <1>1 DEF Flags
    <3> QED BY <1>1, <1>3, <3>2, <3>3 DEF Registers
  <2>9. CASE Now = "vectorHi"
    <3>1. R = [cpu EXCEPT !.PC = MakeWord(val, v)]
      BY <2>9 DEF RegistersAfter
    <3> QED BY <1>1, <1>2, <3>1, MakeWordType DEF Registers
  <2>10. CASE Now \notin {"opcode", "lo", "hi", "padding", "immediate", "load", "jump", "cli",
                          "pushPCH", "pushPCL", "pushP", "vectorHi"} \cup Backs
    <3>1. R = cpu
      BY <2>10 DEF RegistersAfter, Backs
    <3> QED BY <1>1, <3>1 DEF Registers
  <2> QED BY <2>1, <2>2, <2>3, <2>4, <2>5, <2>6, <2>7, <2>8, <2>9, <2>10
<1> HIDE DEF R
<1>6. [R EXCEPT !.cycles = @ + 1] \in Registers
  BY <1>1, <1>5 DEF Registers
<1> QED BY <1>5, <1>6 DEF R

\* Every access goes to a 16-bit address.
LEMMA BusAddrType == ASSUME AccessOK PROVE BusAddr \in Word
<1>1. cpu.SP \in Byte /\ cpu.PC \in Word /\ addr \in Word
  BY RegistersFields, FrameFields DEF AccessOK, MachineTypeOK
<1>2. CASE Now \in Pushes
  <2>1. BusAddr = 256 + cpu.SP
    BY <1>2 DEF BusAddr, Pushes
  <2>2. 256 + cpu.SP \in Int /\ 0 <= 256 + cpu.SP /\ 256 + cpu.SP <= 65535
    BY <1>1 DEF Byte
  <2> QED BY <2>1, <2>2, WordRange
<1>3. CASE Now = "vectorHi"
  <2>1. BusAddr = addr + 1
    BY <1>3 DEF BusAddr, Pushes
  <2>2. addr \in {65530, 65532, 65534}
    BY <1>3, FrameFields DEF AccessOK, Vectors
  <2>3. addr + 1 \in Int /\ 0 <= addr + 1 /\ addr + 1 <= 65535
    BY <2>2
  <2> QED BY <2>1, <2>3, WordRange
<1>4. CASE Now \in {"peek", "load", "store", "get", "putBackInc", "putBackDec", "put", "vectorLo"}
  BY <1>1, <1>4 DEF BusAddr, Pushes
<1>5. CASE Now \notin Pushes \cup {"peek", "load", "store", "get", "putBackInc", "putBackDec", "put",
                                   "vectorLo", "vectorHi"}
  BY <1>1, <1>5 DEF BusAddr
<1> QED BY <1>2, <1>3, <1>4, <1>5

\* Every write writes a byte.
LEMMA BusByteType == ASSUME AccessOK, IsWrite PROVE BusByte \in Byte
<1>1. cpu.A \in Byte /\ cpu.PC \in Word /\ val \in Byte
  BY RegistersFields, FrameFields DEF AccessOK, MachineTypeOK
<1>2. CASE Now = "store"
  BY <1>1, <1>2 DEF BusByte
<1>3. CASE Now \in {"putBackInc", "putBackDec", "put"}
  BY <1>1, <1>3 DEF BusByte
<1>4. CASE Now = "pushPCH"
  BY <1>1, <1>4, PartsType DEF BusByte
<1>5. CASE Now = "pushPCL"
  BY <1>1, <1>5, PartsType DEF BusByte
<1>6. CASE Now = "pushP"
  BY <1>6, EncodeType DEF BusByte
<1> QED BY <1>2, <1>3, <1>4, <1>5, <1>6 DEF IsWrite, Pushes

\* The memory, as MachineTypeOK has it.
LEMMA MachineMemory == MachineTypeOK => MemOK(Writable) /\ RomsOK
  BY WritableFields DEF MachineTypeOK, RomsOK, FilesOK

\* Every read returns a byte.
LEMMA BusReadType == ASSUME WholeRam, AccessOK PROVE ReadValue(BusAddr) \in Byte
  BY BusAddrType, AllCovered, MachineMemory, ReadType DEF AccessOK

\* The vectors are in ROM: no fetch of one fires a hook.
LEMMA VectorsQuiet ==
    ASSUME AccessOK, Now \in Vectors
    PROVE  ~IsWrite /\ ~FiresHook /\ hook = "none" /\ BusAddr \in Int /\ BusAddr >= 65530
<1>1. hook = "none" /\ addr \in {65530, 65532, 65534}
  BY FrameFields DEF AccessOK
<1>2. ~IsWrite
  BY DEF IsWrite, Vectors, Pushes
<1>3. BusAddr \in {addr, addr + 1}
  BY DEF BusAddr, Vectors, Pushes
<1>4. BusAddr \in Int /\ BusAddr >= 65530
  BY <1>1, <1>3
<1>5. Device(BusAddr) = "OS"
  BY <1>4, BusAddrType, Decodes
<1>6. ~FiresHook
  BY <1>2, <1>5 DEF FiresHook, ReadFiresHook
<1> QED BY <1>1, <1>2, <1>4, <1>6

-------------------------------------------------------------------------------
(* Frames.                                                                   *)

LEMMA FrameIntro ==
    ASSUME NEW d \in Nat, NEW k \in Kinds, NEW t, Chained(t), NEW a \in Word, NEW v \in Byte,
           NEW h \in Hooks,
           h = "unmapped" => t # <<>>,
           t # <<>> /\ Head(t) \in {"hi", "jump"} => a \in Byte,
           t # <<>> /\ Head(t) \in Vectors =>
              h = "none" /\ a \in {65530, 65532, 65534} /\ (k = "reset" => a = 65532),
           t # <<>> /\ Head(t) = "illegal" => h = "none",
           t # <<>> /\ Head(t) \in Backs \cup {"put"} /\ h = "unmapped" => WriteFiresHook(a)
    PROVE  FrameOK([deadline |-> d, kind |-> k, todo |-> t, addr |-> a, val |-> v, hook |-> h])
<1>1. t \in Seq(Accesses)
  BY DEF Chained
<1> QED BY <1>1 DEF FrameOK

\* An access that is over leaves the frame ready for the next one.
LEMMA FinishFrame ==
    ASSUME AccessOK, Now # "illegal", NEW v \in Byte, Finish(v), hook' = "none"
    PROVE  FrameOK(Frame)'
<1>1. /\ deadline \in Nat /\ kind \in Kinds /\ addr \in Word /\ val \in Byte /\ Chained(todo)
      /\ Now \in Accesses
      /\ Now \in {"hi", "jump"} => addr \in Byte
      /\ Now \in Vectors => addr \in {65530, 65532, 65534} /\ (kind = "reset" => addr = 65532)
  BY FrameFields DEF AccessOK
<1>2. deadline' \in Nat /\ hook' \in Hooks
  BY <1>1 DEF Finish, Hooks
<1>3. kind' \in Kinds
  BY <1>1 DEF Finish, Kinds
<1>4. val' \in Byte
  BY <1>1, ModifiedType DEF Finish
<1>5. Vector \in {65530, 65532, 65534} /\ (kind = "reset" => Vector = 65532)
  BY <1>1 DEF Vector, NmiVec, Kinds
<1>6. addr' \in Word
  <2>1. CASE Now = "lo"
    BY <2>1, ByteIsWord DEF Finish
  <2>2. CASE Now = "hi"
    BY <1>1, <2>2, MakeWordType DEF Finish
  <2>3. CASE Now = "pushP"
    <3>1. addr' = Vector
      BY <2>3 DEF Finish
    <3>2. Vector \in Int /\ 0 <= Vector /\ Vector <= 65535
      BY <1>5
    <3> QED BY <3>1, <3>2, WordRange
  <2>4. CASE Now \notin {"lo", "hi", "pushP"}
    BY <1>1, <2>4 DEF Finish
  <2> QED BY <2>1, <2>2, <2>3, <2>4
<1>7. CASE Now = "opcode"
  <2>1. v \in DOMAIN Opcode /\ todo' = Opcode[v]
    BY <1>7 DEF Finish
  <2>2. Chained(todo') /\ todo' # <<>> /\ Head(todo') \in Starts
    BY <2>1, OpcodeChained
  <2>3. Head(todo') \notin {"hi", "jump", "put"} \cup Vectors \cup Backs
    BY <2>2 DEF Starts, Vectors, Backs
  <2>4. FrameOK([deadline |-> deadline', kind |-> kind', todo |-> todo', addr |-> addr',
                 val |-> val', hook |-> hook'])
    BY <1>2, <1>3, <1>4, <1>6, <2>2, <2>3, FrameIntro
  <2> QED BY <2>4 DEF Frame
<1>8. CASE Now # "opcode"
  <2>1. todo' = Tail(todo) /\ kind' = kind
    BY <1>8 DEF Finish
  <2>2. /\ Chained(todo')
        /\ todo' # <<>> => Follows(Now, Head(todo'))
    BY <1>1, <2>1, TailChained DEF AccessOK, Now
  <2>3. todo' # <<>> /\ Head(todo') \in {"hi", "jump"} => addr' \in Byte
    <3> SUFFICES ASSUME todo' # <<>>, Head(todo') \in {"hi", "jump"} PROVE addr' \in Byte
      OBVIOUS
    <3>1. Now = "lo"
      BY <2>2 DEF Follows, Backs
    <3> QED BY <3>1 DEF Finish
  <2>4. todo' # <<>> /\ Head(todo') \in Vectors =>
           addr' \in {65530, 65532, 65534} /\ (kind' = "reset" => addr' = 65532)
    <3> SUFFICES ASSUME todo' # <<>>, Head(todo') \in Vectors
                 PROVE  addr' \in {65530, 65532, 65534} /\ (kind' = "reset" => addr' = 65532)
      OBVIOUS
    <3>1. Now \in {"pushP", "vectorLo"}
      BY <2>2 DEF Follows, Vectors, Backs
    <3>2. CASE Now = "pushP"
      BY <1>5, <2>1, <3>2 DEF Finish
    <3>3. CASE Now = "vectorLo"
      <4>1. addr' = addr
        BY <3>3 DEF Finish
      <4> QED BY <1>1, <2>1, <3>3, <4>1 DEF Vectors
    <3> QED BY <3>1, <3>2, <3>3
  <2>5. FrameOK([deadline |-> deadline', kind |-> kind', todo |-> todo', addr |-> addr',
                 val |-> val', hook |-> hook'])
    BY <1>2, <1>3, <1>4, <1>6, <2>2, <2>3, <2>4, FrameIntro
  <2> QED BY <2>5 DEF Frame
<1> QED BY <1>7, <1>8

-------------------------------------------------------------------------------
(* The steps, grouped by what they do to the frame.                          *)

HostStep ==
    HostLoads \/ HostResets \/ HostSnapshots \/ HostForges \/ HostRestores \/ HostSignals

\* The end of an access.
AccessStep == BusRead \/ BusStore \/ UnmappedHookReturns

LEMMA NextSplit ==
    Next <=> \/ \E b \in Budgets \cup HookBudgets : Tick(b)
             \/ TickReturns \/ Step \/ AccessStep \/ CallUnmappedHook
             \/ CallIllegalHook \/ IllegalHookReturns \/ HostStep
  BY DEF Next, HostStep, AccessStep

\* The host leaves the frames alone.
LEMMA HostFrame ==
    ASSUME HostStep
    PROVE  HostRuns /\ single' = Nothing /\ UNCHANGED <<running, outer, deadline, kind, todo, addr, val, hook>>
  BY DEF HostStep, HostLoads, HostResets, HostSnapshots, HostForges, HostRestores, HostSignals,
         HostCalls, locals

\* An access that ends was in progress, and returned a byte.
LEMMA AccessEnds ==
    ASSUME WholeRam, Inv, AccessStep
    PROVE  /\ AccessOK /\ running /\ Now # "illegal" /\ hook' = "none"
           /\ os' = os /\ sideways' = sideways
           /\ \E v \in Byte :
                 /\ Finish(v) /\ KeepSingle(v)
                 /\ \/ /\ BusRead /\ v = ReadValue(BusAddr) /\ ~IsWrite /\ ~FiresHook
                       /\ Writable' = Writable
                    \/ /\ BusStore /\ IsWrite /\ BusByte \in Byte
                       /\ Writable' = Written(Writable, BusAddr, BusByte)
                    \/ UnmappedHookReturns /\ hook = "unmapped" /\ Writable' = Writable
<1>1. FrameOK(Frame) /\ MachineTypeOK /\ (~running => todo = <<>>)
  BY DEF Inv, FrameInv
<1>2. todo # <<>> /\ Now # "illegal"
  BY <1>1, FrameFields DEF AccessStep, BusRead, BusStore, UnmappedHookReturns, InAccess
<1>3. AccessOK /\ running
  BY <1>1, <1>2 DEF AccessOK
<1>4. CASE BusRead
  <2>1. ReadValue(BusAddr) \in Byte
    BY <1>3, BusReadType
  <2>2. /\ Finish(ReadValue(BusAddr)) /\ KeepSingle(ReadValue(BusAddr)) /\ hook' = "none"
        /\ ~IsWrite /\ ~FiresHook /\ UNCHANGED mem
    BY <1>4 DEF BusRead
  <2>3. os' = os /\ sideways' = sideways /\ Writable' = Writable
    BY <2>2 DEF mem, Writable
  <2> QED BY <1>2, <1>3, <1>4, <2>1, <2>2, <2>3
<1>5. CASE BusStore
  <2>1. /\ Finish(BusByte) /\ KeepSingle(BusByte) /\ hook' = "none" /\ IsWrite
        /\ BusWrite(BusAddr, BusByte)
    BY <1>5 DEF BusStore
  <2>2. BusByte \in Byte /\ BusAddr \in Word /\ Covered(BusAddr)
    BY <1>3, <2>1, BusByteType, BusAddrType, AllCovered
  <2>3. Writable' = Written(Writable, BusAddr, BusByte) /\ os' = os /\ sideways' = sideways
    BY <1>1, <2>1, <2>2, MachineMemory, WriteStep
  <2> QED BY <1>2, <1>3, <1>5, <2>1, <2>2, <2>3
<1>6. CASE UnmappedHookReturns
  <2>1. openBus \in Byte
    BY DEF openBus, Byte
  <2>2. /\ Finish(openBus) /\ KeepSingle(openBus) /\ hook' = "none" /\ hook = "unmapped"
        /\ UNCHANGED mem
    BY <1>6 DEF UnmappedHookReturns
  <2>3. os' = os /\ sideways' = sideways /\ Writable' = Writable
    BY <2>2 DEF mem, Writable
  <2> QED BY <1>2, <1>3, <1>6, <2>1, <2>2, <2>3
<1> QED BY <1>4, <1>5, <1>6 DEF AccessStep

LEMMA EmptyChained == Chained(<<>>)
  BY DEF Chained

\* Every step keeps the frames well-formed.
LEMMA FrameStep == ASSUME WholeRam, Inv, Next PROVE FrameInv'
<1>1. /\ FrameOK(Frame) /\ running \in BOOLEAN /\ outer \in Seq(Waiting)
      /\ ~running => todo = <<>> /\ outer = <<>> /\ hook = "none"
      /\ MachineTypeOK
  BY DEF Inv, FrameInv
<1>2. /\ deadline \in Nat /\ kind \in Kinds /\ addr \in Word /\ val \in Byte /\ hook \in Hooks
      /\ Chained(todo) /\ (hook = "unmapped" => todo # <<>>)
      /\ todo # <<>> =>
           /\ Now \in {"hi", "jump"} => addr \in Byte
           /\ Now \in Vectors => /\ hook = "none" /\ addr \in {65530, 65532, 65534}
                                 /\ kind = "reset" => addr = 65532
           /\ Now = "illegal" => hook = "none"
           /\ Now \in Backs \cup {"put"} /\ hook = "unmapped" => WriteFiresHook(addr)
  BY <1>1, FrameFields
<1>3. cpu.cycles \in Nat
  BY <1>1, RegistersFields DEF MachineTypeOK
<1>4. ASSUME NEW b \in Budgets \cup HookBudgets, Tick(b) PROVE FrameInv'
  <2>1. /\ deadline' = cpu.cycles + b /\ kind' = kind /\ todo' = <<>> /\ addr' = addr
        /\ val' = val /\ hook' = "none" /\ running' = TRUE
        /\ outer' = IF running THEN <<Frame>> \o outer ELSE outer
    BY <1>4 DEF Tick
  <2>2. deadline' \in Nat /\ hook' \in Hooks
    BY <1>3, <2>1, BoardAssumption DEF Hooks
  <2>3. FrameOK([deadline |-> deadline', kind |-> kind', todo |-> todo', addr |-> addr',
                 val |-> val', hook |-> hook'])
    BY <1>2, <2>1, <2>2, FrameIntro, EmptyChained
  <2>4. outer' \in Seq(Waiting)
    <3>1. CASE running
      <4>1. hook # "none"
        BY <1>4, <3>1 DEF Tick, HostRuns
      <4>2. Frame.hook = hook
        BY DEF Frame
      <4>3. Frame \in Waiting
        BY <1>1, <4>1, <4>2 DEF Waiting, FrameOK
      <4> QED BY <1>1, <2>1, <3>1, <4>3
    <3>2. CASE ~running
      BY <1>1, <2>1, <3>2
    <3> QED BY <3>1, <3>2
  <2> QED BY <2>1, <2>3, <2>4 DEF FrameInv, Frame
<1>5. CASE TickReturns
  <2>1. CASE outer = <<>>
    <3>1. /\ running' = FALSE /\ outer' = outer /\ todo' = todo /\ hook' = hook
          /\ deadline' = deadline /\ kind' = kind /\ addr' = addr /\ val' = val
          /\ todo = <<>> /\ hook = "none"
      BY <1>5, <2>1 DEF TickReturns, Boundary, locals
    <3>2. FrameOK(Frame)'
      BY <1>1, <3>1 DEF Frame
    <3> QED BY <1>1, <2>1, <3>1, <3>2 DEF FrameInv
  <2>2. CASE outer # <<>>
    <3> DEFINE f == Head(outer)
    <3>1. f \in Waiting /\ Tail(outer) \in Seq(Waiting)
      BY <1>1, <2>2
    <3>2. /\ outer' = Tail(outer) /\ deadline' = f.deadline /\ kind' = f.kind
          /\ todo' = f.todo /\ addr' = f.addr /\ val' = f.val /\ hook' = f.hook
          /\ running' = running /\ running
      BY <1>5, <2>2 DEF TickReturns, Boundary
    <3> HIDE DEF f
    <3>3. FrameOK(f) /\ f = [deadline |-> f.deadline, kind |-> f.kind, todo |-> f.todo,
                             addr |-> f.addr, val |-> f.val, hook |-> f.hook]
      BY <3>1 DEF Waiting
    <3>4. FrameOK(Frame)'
      BY <3>2, <3>3 DEF Frame
    <3> QED BY <1>1, <3>1, <3>2, <3>4 DEF FrameInv
  <2> QED BY <2>1, <2>2
<1>6. CASE Step
  <2>1. /\ kind' = StepKind /\ rdy /\ running /\ running' = running /\ outer' = outer
        /\ deadline' = deadline /\ addr' = addr /\ val' = val /\ hook' = hook /\ hook = "none"
        /\ todo' = IF StepKind = "opcode" THEN <<"opcode">> ELSE Entry
    BY <1>6 DEF Step, Boundary
  <2>2. kind' \in Kinds
    BY <2>1 DEF StepKind, Kinds
  <2>3. Chained(todo') /\ todo' # <<>> /\ Head(todo') \in {"opcode", "dummy"}
    <3>1. "opcode" \in Accesses /\ "opcode" \notin {"get"} \cup Backs
      BY DEF Accesses, Backs
    <3>2. Chained(<<"opcode">>) /\ <<"opcode">> # <<>> /\ Head(<<"opcode">>) = "opcode"
      BY <3>1, SingleChained
    <3>3. CASE StepKind = "opcode"
      <4>1. todo' = <<"opcode">>
        BY <2>1, <3>3
      <4> QED BY <3>2, <4>1, Zenon
    <3>4. CASE StepKind # "opcode"
      BY <2>1, <3>4, EntryChained
    <3> QED BY <3>3, <3>4
  <2>4. Head(todo') \notin {"hi", "jump", "illegal", "put"} \cup Vectors \cup Backs
    BY <2>3 DEF Vectors, Backs
  <2>5. FrameOK([deadline |-> deadline', kind |-> kind', todo |-> todo', addr |-> addr',
                 val |-> val', hook |-> hook'])
    <3>1. deadline' \in Nat /\ addr' \in Word /\ val' \in Byte /\ hook' \in Hooks /\ hook' = "none"
      BY <1>2, <2>1
    <3> QED BY <2>2, <2>3, <2>4, <3>1, FrameIntro
  <2> QED BY <1>1, <2>1, <2>5 DEF FrameInv, Frame
<1>7. CASE AccessStep
  <2>1. AccessOK /\ running /\ Now # "illegal" /\ hook' = "none" /\ \E v \in Byte : Finish(v)
    BY <1>7, AccessEnds
  <2>2. FrameOK(Frame)'
    BY <2>1, FinishFrame
  <2>3. running' = running /\ outer' = outer
    BY <2>1 DEF Finish
  <2> QED BY <1>1, <2>1, <2>2, <2>3 DEF FrameInv
<1>8. CASE CallUnmappedHook
  <2>1. /\ todo # <<>> /\ Now # "illegal" /\ FiresHook /\ hook' = "unmapped"
        /\ UNCHANGED <<running, outer, deadline, kind, todo, addr, val>>
    BY <1>8 DEF CallUnmappedHook, InAccess, locals
  <2>2. AccessOK /\ running
    BY <1>1, <2>1 DEF AccessOK
  <2>3. Now \notin Vectors
    BY <2>1, <2>2, VectorsQuiet
  <2>4. Now \in Backs \cup {"put"} => WriteFiresHook(addr)
    BY <2>1 DEF FiresHook, IsWrite, BusAddr, Backs, Pushes
  <2>5. FrameOK([deadline |-> deadline, kind |-> kind, todo |-> todo, addr |-> addr,
                 val |-> val, hook |-> "unmapped"])
    <3>1. "unmapped" \in Hooks
      BY DEF Hooks
    <3>2. /\ Head(todo) \in {"hi", "jump"} => addr \in Byte
          /\ Head(todo) \notin Vectors /\ Head(todo) # "illegal"
          /\ Head(todo) \in Backs \cup {"put"} => WriteFiresHook(addr)
      BY <1>2, <2>1, <2>3, <2>4 DEF Now
    <3> QED BY <1>2, <2>1, <3>1, <3>2, FrameIntro
  <2> QED BY <1>1, <2>1, <2>2, <2>5 DEF FrameInv, Frame
<1>9. CASE CallIllegalHook
  <2>1. /\ todo # <<>> /\ Now = "illegal" /\ hook' = "illegal" /\ todo' = Tail(todo)
        /\ UNCHANGED <<running, outer, deadline, kind, addr, val>>
    BY <1>9 DEF CallIllegalHook
  <2>2. Chained(todo') /\ (todo' # <<>> => Follows("illegal", Head(todo')))
    BY <1>2, <2>1, TailChained DEF Now
  <2>3. todo' # <<>> => Head(todo') = "dummy"
    BY <2>2 DEF Follows, Backs
  <2>4. FrameOK([deadline |-> deadline, kind |-> kind, todo |-> todo', addr |-> addr,
                 val |-> val, hook |-> "illegal"])
    <3>1. "dummy" \notin {"hi", "jump", "illegal", "put"} \cup Vectors \cup Backs /\ "illegal" \in Hooks
      BY DEF Vectors, Backs, Hooks
    <3> QED BY <1>2, <2>2, <2>3, <3>1, FrameIntro
  <2> QED BY <1>1, <2>1, <2>4 DEF FrameInv, Frame
<1>10. CASE IllegalHookReturns
  <2>1. hook = "illegal" /\ hook' = "none" /\ UNCHANGED <<running, outer, deadline, kind, todo, addr, val>>
    BY <1>10 DEF IllegalHookReturns, locals
  <2>2. FrameOK([deadline |-> deadline, kind |-> kind, todo |-> todo, addr |-> addr,
                 val |-> val, hook |-> "none"])
    <3>1. "none" \in Hooks
      BY DEF Hooks
    <3>2. todo # <<>> =>
            /\ Head(todo) \in {"hi", "jump"} => addr \in Byte
            /\ Head(todo) \in Vectors => addr \in {65530, 65532, 65534}
                                         /\ (kind = "reset" => addr = 65532)
      BY <1>2 DEF Now
    <3> QED BY <1>2, <3>1, <3>2, FrameIntro
  <2> QED BY <1>1, <2>1, <2>2 DEF FrameInv, Frame
<1>11. CASE HostStep
  <2>1. UNCHANGED <<running, outer, deadline, kind, todo, addr, val, hook>>
    BY <1>11, HostFrame
  <2> QED BY <1>1, <2>1 DEF FrameInv, Frame
<1> QED BY <1>4, <1>5, <1>6, <1>7, <1>8, <1>9, <1>10, <1>11, NextSplit

-------------------------------------------------------------------------------
(* Memory, registers and latches.                                            *)

LatchesOK ==
    /\ resetPending \in BOOLEAN /\ nmiPending \in BOOLEAN /\ nmiPrev \in BOOLEAN
    /\ irqLine \in BOOLEAN /\ rdy \in BOOLEAN

LEMMA MachineTypeIs ==
    /\ MachineTypeOK <=> MemOK(Writable) /\ RomsOK /\ cpu \in Registers /\ LatchesOK
    /\ MachineTypeOK' <=> MemOK(Writable)' /\ RomsOK' /\ (cpu \in Registers)' /\ LatchesOK'
<1>1. MemOK(Writable)' <=> /\ ram' \in [RamAddrs -> Byte] /\ bank' \in 0..3
                           /\ FilesOK(regs') /\ selected' \in 0..17
  BY DEF Writable, MemOK
<1> QED BY <1>1, WritableFields DEF MachineTypeOK, RomsOK, FilesOK, LatchesOK

LEMMA MachineUnchanged ==
    ASSUME UNCHANGED machine
    PROVE  /\ UNCHANGED <<ram, os, sideways, bank, regs, selected, cpu, resetPending, nmiPending,
                          nmiPrev, irqLine, rdy>>
           /\ Writable' = Writable
           /\ MachineTypeOK => MachineTypeOK'
  BY DEF machine, mem, latches, MachineTypeOK, Writable

\* A call that fails changes nothing.
LEMMA FailsQuietly ==
    ASSUME NEW e, Fails(e)
    PROVE  err' = e /\ UNCHANGED machine /\ UNCHANGED <<snap, seen>>
  BY DEF Fails

\* The effect of a reset on memory.
LEMMA ResetMemory ==
    ASSUME MachineTypeOK, Reset \/ ColdReset
    PROVE  /\ MachineTypeOK' /\ os' = os /\ sideways' = sideways
           /\ UNCHANGED <<cpu, nmiPending, nmiPrev, irqLine, rdy, snap, seen>>
           /\ \/ err' # "ok" /\ resetPending' = resetPending /\ Writable' = Writable
              \/ err' = "ok" /\ resetPending' = TRUE
<1>1. MemOK(Writable) /\ RomsOK /\ cpu \in Registers /\ LatchesOK
  BY MachineTypeIs
<1>2. CASE Fails("ErrNoOSROM")
  BY <1>2, FailsQuietly, MachineUnchanged
<1>3. CASE ~Fails("ErrNoOSROM")
  <2>1. /\ UNCHANGED <<os, sideways, cpu, nmiPending, nmiPrev, irqLine, rdy, snap, seen>>
        /\ err' = "ok" /\ resetPending' = TRUE
    BY <1>3 DEF Reset, ColdReset
  <2>2. MemOK(Writable)'
    <3>1. CASE Reset
      <4>1. ram' = ram /\ bank' = 0 /\ regs' = regs /\ selected' = selected
        BY <1>3, <3>1 DEF Reset
      <4> QED BY <1>1, <4>1, WritableFields DEF Writable, MemOK
    <3>2. CASE ColdReset
      <4>1. Writable' = [ram |-> ZeroRam, bank |-> 0, regs |-> ZeroRegs, selected |-> 0]
        BY <1>3, <3>2 DEF ColdReset, ZeroPeripherals, Writable
      <4> QED BY <4>1, ZeroMemory
    <3> QED BY <3>1, <3>2
  <2>3. RomsOK' /\ (cpu \in Registers)' /\ LatchesOK'
    BY <1>1, <2>1 DEF RomsOK, LatchesOK
  <2>4. MachineTypeOK'
    BY <2>2, <2>3, MachineTypeIs
  <2> QED BY <2>1, <2>4
<1> QED BY <1>2, <1>3

\* The effect of a Restore, whatever Snapshot the host holds.
LEMMA RestoreMemory ==
    ASSUME MachineTypeOK, SnapInv, Restore
    PROVE  /\ MachineTypeOK' /\ os' = os /\ sideways' = sideways
           /\ UNCHANGED <<nmiPending, nmiPrev, irqLine, rdy, snap, seen>>
           /\ \/ err' # "ok" /\ UNCHANGED <<cpu, resetPending>> /\ Writable' = Writable
              \/ /\ err' = "ok" /\ resetPending' = FALSE /\ SnapOK(snap)
                 /\ Writable' = [ram |-> snap.ram, bank |-> snap.bank % 4, regs |-> snap.regs,
                                 selected |-> snap.selected % 18]
<1>1. MemOK(Writable) /\ RomsOK /\ cpu \in Registers /\ LatchesOK
  BY MachineTypeIs
<1>2. CASE Fails("ErrNoOSROM") \/ Fails("ErrRestoreMismatch")
  BY <1>2, FailsQuietly, MachineUnchanged
<1>3. CASE ~Fails("ErrNoOSROM") /\ ~Fails("ErrRestoreMismatch")
  <2>1. /\ UNCHANGED <<os, sideways, nmiPending, nmiPrev, irqLine, rdy, snap, seen>>
        /\ cpu' = snap.cpu /\ resetPending' = FALSE /\ err' = "ok" /\ snap.taken
        /\ ram' = snap.ram /\ bank' = snap.bank % 4 /\ regs' = snap.regs
        /\ selected' = snap.selected % 18
    BY <1>3 DEF Restore, SetRegisters, RestoreCrtcIndex
  <2>2. SnapOK(snap)
    BY <2>1 DEF SnapInv, NoSnap
  <2>3. /\ snap.cpu \in Registers /\ snap.ram \in [RamAddrs -> Byte] /\ snap.bank \in Byte
        /\ FilesOK(snap.regs) /\ snap.selected \in Byte
    BY <2>2 DEF SnapOK
  <2>4. snap.bank % 4 \in 0..3 /\ snap.selected % 18 \in 0..17
    BY <2>3 DEF Byte
  <2>5. Writable' = [ram |-> snap.ram, bank |-> snap.bank % 4, regs |-> snap.regs,
                     selected |-> snap.selected % 18]
    BY <2>1 DEF Writable
  <2>6. MemOK(Writable)'
    BY <2>3, <2>4, <2>5 DEF MemOK
  <2>7. RomsOK' /\ (cpu \in Registers)' /\ LatchesOK'
    BY <1>1, <2>1, <2>3 DEF RomsOK, LatchesOK
  <2>8. MachineTypeOK'
    BY <2>6, <2>7, MachineTypeIs
  <2> QED BY <2>1, <2>2, <2>5, <2>8
<1> QED BY <1>2, <1>3

\* The effect of a ROM loader: a view of the snapshot survives only if no byte
\* of ROM changed.
LEMMA LoadMemory ==
    ASSUME MachineTypeOK, HostLoads
    PROVE  /\ MachineTypeOK' /\ Writable' = Writable
           /\ UNCHANGED <<cpu, resetPending, nmiPending, nmiPrev, irqLine, rdy, snap>>
           /\ \/ seen' = NoView
              \/ seen' = seen /\ os' = os /\ sideways' = sideways
<1>1. MemOK(Writable) /\ RomsOK /\ cpu \in Registers /\ LatchesOK
  BY MachineTypeIs
<1>2. PICK i \in Images, w \in BOOLEAN :
         LoadOSROM(i, w) \/ \E b \in BankArgs : LoadSidewaysROM(b, i, w)
  BY DEF HostLoads
<1>3. CASE Fails("ErrInvalidROMSize") \/ Fails("ErrBankOutOfRange")
  BY <1>3, FailsQuietly, MachineUnchanged
<1>4. CASE ~Fails("ErrInvalidROMSize") /\ LoadOSROM(i, w)
  <2>1. /\ os' = i /\ seen' = (IF os = i THEN seen ELSE NoView)
        /\ UNCHANGED <<ram, sideways, bank, regs, selected, cpu, latches, snap>>
    BY <1>4 DEF LoadOSROM
  <2>2. Writable' = Writable
    BY <2>1 DEF Writable
  <2>3. MemOK(Writable)' /\ RomsOK' /\ (cpu \in Registers)' /\ LatchesOK'
    BY <1>1, <2>1, <2>2 DEF RomsOK, LatchesOK, latches
  <2>4. MachineTypeOK'
    BY <2>3, MachineTypeIs
  <2> QED BY <2>1, <2>2, <2>4 DEF latches
<1>5. CASE /\ ~Fails("ErrInvalidROMSize") /\ ~Fails("ErrBankOutOfRange")
           /\ \E b \in BankArgs : LoadSidewaysROM(b, i, w)
  <2>1. PICK b \in BankArgs : LoadSidewaysROM(b, i, w)
    BY <1>5
  <2>2. /\ b \in 0..3 /\ sideways' = [sideways EXCEPT ![b] = i]
        /\ seen' = IF sideways[b] = i THEN seen ELSE NoView
        /\ UNCHANGED <<ram, os, bank, regs, selected, cpu, latches, snap>>
    BY <1>5, <2>1 DEF LoadSidewaysROM
  <2>3. Writable' = Writable
    BY <2>2 DEF Writable
  <2>4. MemOK(Writable)' /\ RomsOK' /\ (cpu \in Registers)' /\ LatchesOK'
    BY <1>1, <2>2, <2>3 DEF RomsOK, LatchesOK, latches
  <2>5. MachineTypeOK'
    BY <2>4, MachineTypeIs
  <2>6. sideways[b] = i => sideways' = sideways
    BY <1>1, <2>2 DEF RomsOK
  <2> QED BY <2>2, <2>3, <2>5, <2>6 DEF latches
<1> QED BY <1>2, <1>3, <1>4, <1>5

\* The effect of a signal.
LEMMA SignalMemory ==
    ASSUME MachineTypeOK, HostSignals
    PROVE  /\ MachineTypeOK' /\ Writable' = Writable
           /\ UNCHANGED <<os, sideways, cpu, resetPending, snap, seen>>
           /\ \/ nmiPending' = (nmiPending \/ ~nmiPrev) /\ owed' = (owed \/ ~nmiPrev)
              \/ nmiPending' = nmiPending /\ owed' = owed
<1>1. MemOK(Writable) /\ RomsOK /\ cpu \in Registers /\ LatchesOK
  BY MachineTypeIs
<1>2. /\ UNCHANGED <<mem, cpu, resetPending, snap, seen>>
      /\ LatchesOK'
      /\ \/ nmiPending' = (nmiPending \/ ~nmiPrev) /\ owed' = (owed \/ ~nmiPrev)
         \/ nmiPending' = nmiPending /\ owed' = owed
  BY <1>1 DEF HostSignals, AssertNMI, DeassertNMI, AssertIRQ, SetRDY, LatchesOK
<1>3. Writable' = Writable /\ os' = os /\ sideways' = sideways
  BY <1>2 DEF mem, Writable
<1>4. MemOK(Writable)' /\ RomsOK' /\ (cpu \in Registers)'
  BY <1>1, <1>2, <1>3 DEF RomsOK
<1> QED BY <1>2, <1>3, <1>4, MachineTypeIs

\* The steps between accesses, and a hook's start and end, leave the machine alone.
FrameOnly ==
    \/ \E b \in Budgets \cup HookBudgets : Tick(b)
    \/ TickReturns \/ Step \/ CallUnmappedHook \/ CallIllegalHook \/ IllegalHookReturns

LEMMA FrameOnlyMachine ==
    ASSUME FrameOnly
    PROVE  /\ UNCHANGED machine /\ UNCHANGED <<snap, seen, owed, due, boot>>
           /\ single' = single \/ single' = Nothing
  BY DEF FrameOnly, Tick, TickReturns, Step, CallUnmappedHook, CallIllegalHook,
         IllegalHookReturns, ghosts

\* Every step keeps every register's width and every index inside its array.
LEMMA MachineStep == ASSUME WholeRam, Inv, Next PROVE MachineTypeOK'
<1>1. MachineTypeOK /\ SnapInv /\ FrameOK(Frame)
  BY DEF Inv, FrameInv
<1>2. CASE FrameOnly
  BY <1>1, <1>2, FrameOnlyMachine, MachineUnchanged
<1>3. CASE AccessStep
  <2>1. PICK v \in Byte :
           /\ Finish(v)
           /\ \/ Writable' = Writable
              \/ /\ BusByte \in Byte /\ Writable' = Written(Writable, BusAddr, BusByte)
    BY <1>3, AccessEnds
  <2>2. AccessOK /\ os' = os /\ sideways' = sideways
    BY <1>3, AccessEnds
  <2>3. MemOK(Writable) /\ RomsOK /\ cpu \in Registers /\ LatchesOK
    BY <1>1, MachineTypeIs
  <2>4. MemOK(Writable)'
    <3>1. BusAddr \in Word /\ Covered(BusAddr)
      BY <2>2, BusAddrType, AllCovered
    <3> QED BY <2>1, <2>3, <3>1, WrittenType
  <2>5. cpu' \in Registers
    BY <2>1, <2>2, RegistersAfterType DEF Finish
  <2>6. LatchesOK'
    BY <2>1, <2>3 DEF Finish, ClearServiced, LatchesOK
  <2>7. RomsOK'
    BY <2>2, <2>3 DEF RomsOK
  <2> QED BY <2>4, <2>5, <2>6, <2>7, MachineTypeIs
<1>4. CASE HostLoads
  BY <1>1, <1>4, LoadMemory
<1>5. CASE HostResets
  BY <1>1, <1>5, ResetMemory DEF HostResets
<1>6. CASE HostSnapshots \/ HostForges
  <2>1. UNCHANGED machine
    BY <1>6 DEF HostSnapshots, HostForges, Snapshot, ForgeSnapshot
  <2> QED BY <1>1, <2>1, MachineUnchanged
<1>7. CASE HostRestores
  BY <1>1, <1>7, RestoreMemory DEF HostRestores
<1>8. CASE HostSignals
  BY <1>1, <1>8, SignalMemory
<1> QED BY <1>2, <1>3, <1>4, <1>5, <1>6, <1>7, <1>8, NextSplit DEF FrameOnly, HostStep

\* Every step keeps the Snapshot a host can hold, and what it would read as.
LEMMA SnapStep == ASSUME WholeRam, Inv, Next PROVE SnapInv'
<1>1. MachineTypeOK /\ SnapInv
  BY DEF Inv
<1>2. ASSUME UNCHANGED <<snap, os, sideways>>, seen' \in {seen, NoView} PROVE SnapInv'
  BY <1>1, <1>2 DEF SnapInv, SnapMem
<1>3. CASE FrameOnly
  BY <1>2, <1>3, FrameOnlyMachine, MachineUnchanged
<1>4. CASE AccessStep
  <2>1. os' = os /\ sideways' = sideways /\ \E v : Finish(v)
    BY <1>4, AccessEnds
  <2>2. snap' = snap /\ seen' = seen
    BY <2>1 DEF Finish
  <2> QED BY <1>2, <2>1, <2>2
<1>5. CASE HostLoads
  <2>1. snap' = snap /\ (seen' = NoView \/ (seen' = seen /\ os' = os /\ sideways' = sideways))
    BY <1>1, <1>5, LoadMemory
  <2>2. CASE seen' = NoView
    BY <1>1, <2>1, <2>2 DEF SnapInv
  <2> QED BY <1>2, <2>1, <2>2
<1>6. CASE HostResets
  BY <1>1, <1>2, <1>6, ResetMemory DEF HostResets
<1>7. CASE HostSnapshots
  <2>1. snap' = Capture /\ seen' = View /\ UNCHANGED machine
    BY <1>7 DEF HostSnapshots, Snapshot
  <2>2. UNCHANGED <<os, sideways>>
    BY <2>1, MachineUnchanged
  <2>3. MemOK(Writable) /\ cpu \in Registers
    BY <1>1, MachineTypeIs
  <2>4. /\ ram \in [RamAddrs -> Byte] /\ bank \in 0..3 /\ FilesOK(regs) /\ selected \in 0..17
    BY <2>3, WritableFields
  <2>5. bank \in Byte /\ selected \in Byte
    BY <2>4 DEF Byte
  <2>6. SnapOK(snap') /\ snap'.bank \in 0..3 /\ snap'.selected \in 0..17
    BY <2>1, <2>3, <2>4, <2>5 DEF Capture, SnapOK
  <2>7. SnapMem' = Writable
    BY <2>1 DEF SnapMem, Capture, Writable
  <2>8. seen' = [a \in BusAddrs |-> ReadOf(SnapMem', os', sideways', a)]
    BY <2>1, <2>2, <2>7, ReadValueIs DEF View
  <2> QED BY <2>6, <2>8 DEF SnapInv
<1>8. CASE HostForges
  <2>1. PICK s \in Forged, b \in Forged :
           snap.taken /\ snap' = [snap EXCEPT !.selected = s, !.bank = b] /\ seen' = NoView
    BY <1>8 DEF HostForges, ForgeSnapshot
  <2>2. SnapOK(snap) /\ s \in Byte /\ b \in Byte
    BY <1>1, <2>1, MachineAssumption DEF SnapInv, NoSnap
  <2>3. snap' = [taken |-> TRUE, cpu |-> snap.cpu, ram |-> snap.ram, bank |-> b,
                 loaded |-> snap.loaded, regs |-> snap.regs, selected |-> s]
    BY <2>1, <2>2 DEF SnapOK
  <2>4. SnapOK(snap')
    BY <2>2, <2>3 DEF SnapOK
  <2> QED BY <2>1, <2>4 DEF SnapInv
<1>9. CASE HostRestores
  BY <1>1, <1>2, <1>9, RestoreMemory DEF HostRestores
<1>10. CASE HostSignals
  BY <1>1, <1>2, <1>10, SignalMemory
<1> QED BY <1>3, <1>4, <1>5, <1>6, <1>7, <1>8, <1>9, <1>10, NextSplit DEF FrameOnly, HostStep

-------------------------------------------------------------------------------
(* The history variables.                                                    *)

\* Only the end of an access leads to the fetch of a vector: no hook is called,
\* and no host runs, between the choice of a vector and the end of the entry.
LEMMA VectorsAfterAccess ==
    ASSUME WholeRam, Inv, Next, FrameOnly \/ HostStep
    PROVE  ~(todo # <<>> /\ Now \in Vectors)'
<1>1. FrameOK(Frame) /\ (~running => todo = <<>>) /\ outer \in Seq(Waiting)
  BY DEF Inv, FrameInv
<1>2. (FrameOK(Frame))'
  BY FrameStep DEF FrameInv
<1>3. hook' # "none" => ~(todo # <<>> /\ Now \in Vectors)'
  BY <1>2 DEF FrameOK, Frame, Now
<1>4. hook # "none" => ~(todo # <<>> /\ Now \in Vectors)
  BY <1>1, FrameFields
<1>5. CASE \E b \in Budgets \cup HookBudgets : Tick(b)
  BY <1>5 DEF Tick
<1>6. CASE TickReturns
  <2>1. CASE outer = <<>>
    BY <1>6, <2>1 DEF TickReturns, Boundary, locals
  <2>2. CASE outer # <<>>
    <3>1. Head(outer) \in Waiting
      BY <1>1, <2>2
    <3>2. Head(outer).hook # "none"
      BY <3>1 DEF Waiting
    <3>3. hook' = Head(outer).hook
      BY <1>6, <2>2 DEF TickReturns
    <3> QED BY <1>3, <3>2, <3>3
  <2> QED BY <2>1, <2>2
<1>7. CASE Step
  <2>1. todo' = <<"opcode">> \/ todo' = Entry
    BY <1>7 DEF Step
  <2>2. Head(todo') \in {"opcode", "dummy"}
    <3>1. CASE todo' = <<"opcode">>
      BY <3>1
    <3>2. CASE todo' = Entry
      BY <3>2, EntryChained
    <3> QED BY <2>1, <3>1, <3>2
  <2> QED BY <2>2 DEF Now, Vectors
<1>8. CASE CallUnmappedHook \/ CallIllegalHook
  BY <1>3, <1>8 DEF CallUnmappedHook, CallIllegalHook
<1>9. CASE IllegalHookReturns
  <2>1. hook = "illegal" /\ todo' = todo
    BY <1>9 DEF IllegalHookReturns, locals
  <2> QED BY <1>4, <2>1 DEF Now
<1>10. CASE HostStep
  <2>1. HostRuns /\ todo' = todo
    BY <1>10, HostFrame
  <2> QED BY <1>1, <1>4, <2>1 DEF HostRuns, Now
<1> QED BY <1>5, <1>6, <1>7, <1>8, <1>9, <1>10 DEF FrameOnly

\* Where the next access comes from.
LEMMA NextAccess ==
    ASSUME AccessOK, NEW v, Finish(v)
    PROVE  /\ Now = "opcode" => todo' # <<>> /\ Now' \in Starts
           /\ Now # "opcode" => /\ todo' = Tail(todo) /\ kind' = kind
                                /\ todo' # <<>> => Follows(Now, Now') /\ todo[2] = Now'
                                /\ todo' = <<>> => Now \notin {"get"} \cup Backs
<1>1. Chained(todo) /\ todo # <<>>
  BY FrameFields DEF AccessOK
<1>2. CASE Now = "opcode"
  BY <1>2, OpcodeChained DEF Finish, Now
<1>3. CASE Now # "opcode"
  <2>1. todo' = Tail(todo) /\ kind' = kind
    BY <1>3 DEF Finish
  <2>2. /\ Tail(todo) # <<>> => Follows(Head(todo), Head(Tail(todo))) /\ todo[2] = Head(Tail(todo))
        /\ Tail(todo) = <<>> => Head(todo) \notin {"get"} \cup Backs
    BY <1>1, TailChained
  <2> QED BY <1>3, <2>1, <2>2 DEF Now
<1> QED BY <1>2, <1>3

\* No edge is lost: the latch is cleared where the NMI vector is chosen, or
\* after it, and no edge can arrive in between.
LEMMA NmiStep == ASSUME WholeRam, Inv, Next PROVE NmiInv'
<1>1. /\ owed \in BOOLEAN /\ (owed => nmiPending) /\ MachineTypeOK /\ SnapInv
      /\ todo # <<>> /\ Now \in Vectors /\ kind = "nmi" => ~owed
  BY DEF Inv, NmiInv
<1>2. nmiPending \in BOOLEAN /\ nmiPrev \in BOOLEAN
  BY <1>1 DEF MachineTypeOK
<1>3. CASE FrameOnly
  <2>1. owed' = owed /\ nmiPending' = nmiPending
    BY <1>3, FrameOnlyMachine, MachineUnchanged
  <2> QED BY <1>1, <1>3, <2>1, VectorsAfterAccess DEF NmiInv
<1>4. CASE AccessStep
  <2>1. AccessOK /\ \E v \in Byte : Finish(v)
    BY <1>4, AccessEnds
  <2>2. PICK v \in Byte : Finish(v)
    BY <2>1
  <2>3. /\ owed' = (owed /\ ~(Now = "pushP" /\ Vector = NmiVec))
        /\ nmiPending' = (nmiPending /\ ~Hijacks /\ ~(Now = "vectorHi" /\ kind = "nmi"))
    BY <2>2 DEF Finish, ClearServiced
  <2>4. Hijacks => Now = "pushP" /\ Vector = NmiVec
    BY DEF Hijacks, Vector
  <2>5. owed' => nmiPending'
    BY <1>1, <2>1, <2>3, <2>4 DEF AccessOK, Vectors
  <2>6. ASSUME todo' # <<>>, Now' \in Vectors, kind' = "nmi" PROVE ~owed'
    <3>1. Now # "opcode" /\ kind = "nmi" /\ Follows(Now, Now')
      BY <2>1, <2>2, <2>6, NextAccess DEF Starts, Vectors
    <3>2. Now \in {"pushP", "vectorLo"}
      BY <2>6, <3>1 DEF Follows, Vectors, Backs
    <3>3. CASE Now = "pushP"
      <4>1. Vector = NmiVec
        BY <3>1 DEF Vector
      <4> QED BY <2>3, <3>3, <4>1, Zenon
    <3>4. CASE Now = "vectorLo"
      BY <1>1, <2>1, <2>3, <3>1, <3>4 DEF AccessOK, Vectors
    <3> QED BY <3>2, <3>3, <3>4
  <2> QED BY <1>1, <2>3, <2>5, <2>6 DEF NmiInv
<1>5. CASE HostStep
  <2>1. /\ owed' \in BOOLEAN /\ (owed' => nmiPending')
    <3>1. CASE HostLoads
      BY <1>1, <3>1, LoadMemory DEF HostLoads
    <3>2. CASE HostResets
      BY <1>1, <3>2, ResetMemory DEF HostResets
    <3>3. CASE HostSnapshots \/ HostForges
      <4>1. UNCHANGED machine /\ owed' = owed
        BY <3>3 DEF HostSnapshots, HostForges, Snapshot, ForgeSnapshot
      <4> QED BY <1>1, <4>1, MachineUnchanged
    <3>4. CASE HostRestores
      BY <1>1, <3>4, RestoreMemory DEF HostRestores
    <3>5. CASE HostSignals
      <4>1. CASE nmiPending' = (nmiPending \/ ~nmiPrev) /\ owed' = (owed \/ ~nmiPrev)
        BY <1>1, <4>1, Zenon
      <4>2. CASE nmiPending' = nmiPending /\ owed' = owed
        BY <1>1, <4>2
      <4> QED BY <1>1, <3>5, <4>1, <4>2, SignalMemory
    <3> QED BY <1>5, <3>1, <3>2, <3>3, <3>4, <3>5 DEF HostStep
  <2> QED BY <1>5, <2>1, VectorsAfterAccess DEF NmiInv
<1> QED BY <1>3, <1>4, <1>5, NextSplit DEF FrameOnly

\* A reset that is due is still latched.
LEMMA DueStep == ASSUME WholeRam, Inv, Next PROVE DueInv'
<1>1. due \in BOOLEAN /\ (due => resetPending) /\ MachineTypeOK /\ SnapInv
  BY DEF Inv, DueInv
<1>2. CASE FrameOnly
  BY <1>1, <1>2, FrameOnlyMachine, MachineUnchanged DEF DueInv
<1>3. CASE AccessStep
  <2>1. \E v \in Byte : Finish(v)
    BY <1>3, AccessEnds
  <2> QED BY <1>1, <2>1 DEF Finish, ClearServiced, ResetOver, DueInv
<1>4. CASE HostLoads
  BY <1>1, <1>4, LoadMemory DEF HostLoads, DueInv
<1>5. CASE HostResets
  BY <1>1, <1>5, ResetMemory DEF HostResets, DueInv
<1>6. CASE HostSnapshots \/ HostForges
  <2>1. UNCHANGED machine /\ due' = due
    BY <1>6 DEF HostSnapshots, HostForges, Snapshot, ForgeSnapshot
  <2> QED BY <1>1, <2>1, MachineUnchanged DEF DueInv
<1>7. CASE HostRestores
  BY <1>1, <1>7, RestoreMemory DEF HostRestores, DueInv
<1>8. CASE HostSignals
  BY <1>1, <1>8, SignalMemory DEF HostSignals, DueInv
<1> QED BY <1>2, <1>3, <1>4, <1>5, <1>6, <1>7, <1>8, NextSplit DEF FrameOnly, HostStep

\* Nothing comes between the two reads of a vector.
LEMMA VectorStep == ASSUME WholeRam, Inv, Next PROVE VectorInv'
<1>1. CASE FrameOnly \/ HostStep
  BY <1>1, VectorsAfterAccess DEF VectorInv, Vectors
<1>2. CASE AccessStep
  <2> SUFFICES ASSUME todo' # <<>>, Now' = "vectorHi"
               PROVE  val' = ReadOf(Writable', os', sideways', addr')
    BY DEF VectorInv
  <2>1. AccessOK /\ os' = os /\ sideways' = sideways
    BY <1>2, AccessEnds
  <2>2. PICK v \in Byte :
           /\ Finish(v)
           /\ \/ v = ReadValue(BusAddr) /\ Writable' = Writable
              \/ IsWrite
              \/ hook = "unmapped"
    BY <1>2, AccessEnds
  <2>3. Now = "vectorLo"
    <3>1. Now # "opcode" /\ Follows(Now, Now')
      BY <2>1, <2>2, NextAccess DEF Starts
    <3> QED BY <3>1 DEF Follows, Backs
  <2>4. v = ReadValue(BusAddr) /\ Writable' = Writable
    BY <2>1, <2>2, <2>3, VectorsQuiet DEF Vectors
  <2>5. BusAddr = addr
    BY <2>3 DEF BusAddr, Pushes
  <2>6. addr' = addr /\ val' = v
    BY <2>2, <2>3 DEF Finish
  <2> QED BY <2>1, <2>4, <2>5, <2>6, ReadValueIs
<1> QED BY <1>1, <1>2, NextSplit DEF FrameOnly

LEMMA ResettingFrame ==
    /\ Resetting(Frame) <=> todo \in Seq(EntryAccesses) /\ (todo # <<>> => kind = "reset")
    /\ Resetting(Frame)' <=> todo' \in Seq(EntryAccesses) /\ (todo' # <<>> => kind' = "reset")
  BY DEF Resetting, Frame

\* Nothing but the RESET sequence runs after a reset made between Ticks, and it
\* writes nothing.
LEMMA BootStep == ASSUME WholeRam, Inv, Next PROVE BootInv'
<1>1. /\ MachineTypeOK /\ SnapInv /\ FrameOK(Frame) /\ outer \in Seq(Waiting)
      /\ ~running => todo = <<>> /\ outer = <<>>
      /\ due \in BOOLEAN /\ (due => resetPending)
  BY DEF Inv, FrameInv, DueInv
<1>2. boot # Nothing => /\ boot = Writable /\ due
                        /\ todo \in Seq(EntryAccesses) /\ (todo # <<>> => kind = "reset")
                        /\ \A i \in 1..Len(outer) : Resetting(outer[i])
  BY ResettingFrame DEF Inv, BootInv
<1>3. ASSUME boot' = boot, Writable' = Writable, due' = due,
             boot # Nothing => /\ todo' \in Seq(EntryAccesses) /\ (todo' # <<>> => kind' = "reset")
                               /\ \A i \in 1..Len(outer') : Resetting(outer'[i])
      PROVE  BootInv'
  BY <1>2, <1>3, ResettingFrame DEF BootInv
<1>4. CASE FrameOnly
  <2>1. boot' = boot /\ Writable' = Writable /\ due' = due
    BY <1>4, FrameOnlyMachine, MachineUnchanged
  <2> SUFFICES ASSUME boot # Nothing
               PROVE  /\ todo' \in Seq(EntryAccesses) /\ (todo' # <<>> => kind' = "reset")
                      /\ \A i \in 1..Len(outer') : Resetting(outer'[i])
    BY <1>3, <2>1
  <2>2. /\ due /\ todo \in Seq(EntryAccesses) /\ (todo # <<>> => kind = "reset")
        /\ \A i \in 1..Len(outer) : Resetting(outer[i])
    BY <1>2
  <2>3. ASSUME NEW b \in Budgets \cup HookBudgets, Tick(b)
        PROVE  /\ todo' \in Seq(EntryAccesses) /\ (todo' # <<>> => kind' = "reset")
               /\ \A i \in 1..Len(outer') : Resetting(outer'[i])
    <3>1. todo' = <<>> /\ outer' = IF running THEN <<Frame>> \o outer ELSE outer
      BY <2>3 DEF Tick
    <3>2. Resetting(Frame)
      BY <2>2, ResettingFrame
    <3>3. \A i \in 1..Len(<<Frame>> \o outer) : Resetting((<<Frame>> \o outer)[i])
      <4> DEFINE fr == Frame
      <4>1. fr \in [deadline : Nat, kind : Kinds, todo : Seq(Accesses), addr : Word, val : Byte,
                    hook : Hooks] /\ Resetting(fr)
        BY <1>1, <3>2 DEF FrameOK
      <4> HIDE DEF fr
      <4> SUFFICES ASSUME NEW i \in 1..Len(<<fr>> \o outer) PROVE Resetting((<<fr>> \o outer)[i])
        BY DEF fr
      <4>2. CASE i = 1
        <5>1. (<<fr>> \o outer)[i] = fr
          BY <1>1, <4>2
        <5> QED BY <4>1, <5>1
      <4>3. CASE i # 1
        <5>1. i - 1 \in 1..Len(outer) /\ (<<fr>> \o outer)[i] = outer[i - 1]
          BY <1>1, <4>3
        <5> QED BY <2>2, <5>1
      <4> QED BY <4>2, <4>3
    <3> QED BY <2>2, <3>1, <3>3
  <2>4. CASE TickReturns
    <3>1. CASE outer = <<>>
      BY <2>2, <2>4, <3>1 DEF TickReturns, locals
    <3>2. CASE outer # <<>>
      <4>1. todo' = Head(outer).todo /\ kind' = Head(outer).kind /\ outer' = Tail(outer)
        BY <2>4, <3>2 DEF TickReturns
      <4>2. /\ Head(outer) = outer[1] /\ 1 \in 1..Len(outer)
            /\ \A i \in 1..Len(Tail(outer)) : i + 1 \in 1..Len(outer) /\ Tail(outer)[i] = outer[i + 1]
        BY <1>1, <3>2
      <4>3. Resetting(Head(outer)) /\ \A i \in 1..Len(Tail(outer)) : Resetting(Tail(outer)[i])
        BY <2>2, <4>2
      <4> QED BY <4>1, <4>3 DEF Resetting
    <3> QED BY <3>1, <3>2
  <2>5. CASE Step
    <3>1. rdy /\ kind' = StepKind /\ outer' = outer
          /\ todo' = IF StepKind = "opcode" THEN <<"opcode">> ELSE Entry
      BY <2>5 DEF Step
    <3>2. StepKind = "reset"
      BY <1>1, <2>2, <3>1 DEF StepKind
    <3> QED BY <2>2, <3>1, <3>2, EntryChained
  <2>6. CASE CallUnmappedHook \/ IllegalHookReturns
    BY <2>2, <2>6 DEF CallUnmappedHook, IllegalHookReturns, locals
  <2>7. ~CallIllegalHook
    <3>1. todo # <<>> => Head(todo) \in EntryAccesses
      BY <2>2
    <3> QED BY <3>1 DEF CallIllegalHook, Now, EntryAccesses, Pushes, Vectors
  <2> QED BY <1>4, <2>3, <2>4, <2>5, <2>6, <2>7 DEF FrameOnly
<1>5. CASE AccessStep
  <2>1. AccessOK
    BY <1>5, AccessEnds
  <2>2. PICK v \in Byte : Finish(v) /\ (IsWrite \/ Writable' = Writable)
    BY <1>5, AccessEnds
  <2>3. CASE ResetOver
    <3>1. boot' = Nothing
      BY <2>2, <2>3 DEF Finish
    <3> QED BY <3>1 DEF BootInv
  <2>4. CASE ~ResetOver
    <3>1. boot' = boot /\ due' = due /\ outer' = outer
      BY <1>1, <2>2, <2>4 DEF Finish
    <3>2. CASE boot = Nothing
      BY <3>1, <3>2 DEF BootInv
    <3>3. CASE boot # Nothing
      <4>1. Now \in EntryAccesses /\ kind = "reset" /\ todo \in Seq(EntryAccesses)
            /\ Tail(todo) \in Seq(EntryAccesses)
        BY <1>2, <2>1, <3>3 DEF AccessOK, Now
      <4>2. ~IsWrite /\ Now # "opcode"
        BY <4>1 DEF IsWrite, EntryAccesses, Pushes, Vectors
      <4>3. todo' = Tail(todo) /\ kind' = kind
        BY <2>2, <4>2 DEF Finish
      <4> QED BY <1>2, <1>3, <2>2, <3>1, <3>3, <4>1, <4>2, <4>3
    <3> QED BY <3>2, <3>3
  <2> QED BY <2>3, <2>4
<1>6. ASSUME HostStep, boot' = boot, Writable' = Writable, due' = due PROVE BootInv'
  BY <1>2, <1>3, <1>6, HostFrame
<1>7. CASE HostLoads
  <2>1. boot' = boot /\ due' = due /\ Writable' = Writable
    BY <1>1, <1>7, LoadMemory DEF HostLoads
  <2> QED BY <1>6, <1>7, <2>1 DEF HostStep
<1>8. CASE HostResets
  <2>1. CASE err' # "ok"
    <3>1. boot' = boot /\ Writable' = Writable
      BY <1>1, <1>8, <2>1, ResetMemory DEF HostResets
    <3>2. due' = due
      BY <1>1, <1>8, <2>1 DEF HostResets
    <3> QED BY <1>6, <1>8, <3>1, <3>2 DEF HostStep
  <2>2. CASE err' = "ok" /\ running
    <3>1. boot' = Nothing
      BY <1>8, <2>2 DEF HostResets
    <3> QED BY <3>1 DEF BootInv
  <2>3. CASE err' = "ok" /\ ~running
    <3>1. boot' = Writable' /\ due' /\ todo' = todo /\ outer' = outer
      BY <1>8, <2>3, HostFrame DEF HostResets, HostStep
    <3>2. todo' = <<>> /\ outer' = <<>>
      BY <1>1, <2>3, <3>1
    <3>3. Resetting(Frame)'
      BY <3>2, ResettingFrame
    <3> QED BY <3>1, <3>2, <3>3 DEF BootInv
  <2> QED BY <2>1, <2>2, <2>3
<1>9. CASE HostSnapshots \/ HostForges
  <2>1. UNCHANGED machine /\ boot' = boot /\ due' = due
    BY <1>9 DEF HostSnapshots, HostForges, Snapshot, ForgeSnapshot
  <2> QED BY <1>6, <1>9, <2>1, MachineUnchanged DEF HostStep
<1>10. CASE HostRestores
  <2>1. CASE err' = "ok"
    <3>1. boot' = Nothing
      BY <1>10, <2>1 DEF HostRestores
    <3> QED BY <3>1 DEF BootInv
  <2>2. CASE err' # "ok"
    <3>1. boot' = boot /\ Writable' = Writable
      BY <1>1, <1>10, <2>2, RestoreMemory DEF HostRestores
    <3>2. due' = due
      BY <1>1, <1>10, <2>2 DEF HostRestores
    <3> QED BY <1>6, <1>10, <3>1, <3>2 DEF HostStep
  <2> QED BY <2>1, <2>2
<1>11. CASE HostSignals
  <2>1. boot' = boot /\ due' = due /\ Writable' = Writable
    BY <1>1, <1>11, SignalMemory DEF HostSignals
  <2> QED BY <1>6, <1>11, <2>1 DEF HostStep
<1> QED BY <1>4, <1>5, <1>7, <1>8, <1>9, <1>10, <1>11, NextSplit DEF FrameOnly, HostStep

\* A read-modify-write keeps the promise of its first access until its last.
LEMMA RmwStep == ASSUME WholeRam, Inv, Next PROVE RmwInv'
<1>1. MachineTypeOK /\ FrameOK(Frame)
  BY DEF Inv, FrameInv
<1>2. single # Nothing =>
         /\ todo # <<>> /\ Now \in Backs \cup {"put"} /\ hook # "illegal"
         /\ single = Written(Writable, addr, IF Now = "put" THEN val ELSE Modified(Now, val))
  BY DEF Inv, RmwInv
<1>3. CASE single' = Nothing
  BY <1>3 DEF RmwInv
<1>4. CASE FrameOnly /\ single' # Nothing
  <2>1. single # Nothing /\ single' = single /\ Writable' = Writable
    BY <1>4, FrameOnlyMachine, MachineUnchanged
  <2>2. todo # <<>> /\ Now # "illegal"
    BY <1>2, <2>1 DEF Backs
  <2>3. CASE CallUnmappedHook \/ IllegalHookReturns
    <3>1. todo' = todo /\ addr' = addr /\ val' = val /\ hook' # "illegal"
      BY <2>3 DEF CallUnmappedHook, IllegalHookReturns, locals
    <3>2. Now' = Now
      BY <3>1 DEF Now
    <3> QED BY <1>2, <2>1, <3>1, <3>2 DEF RmwInv
  <2>4. CASE \E b \in Budgets \cup HookBudgets : Tick(b)
    BY <1>4, <2>4 DEF Tick
  <2>5. ~TickReturns /\ ~Step /\ ~CallIllegalHook
    BY <2>2 DEF TickReturns, Step, CallIllegalHook, Boundary
  <2> QED BY <1>4, <2>3, <2>4, <2>5 DEF FrameOnly
<1>5. CASE AccessStep /\ single' # Nothing
  <2>1. AccessOK /\ MemOK(Writable) /\ hook' # "illegal"
    BY <1>1, <1>5, AccessEnds, MachineMemory
  <2>2. PICK v \in Byte :
           /\ Finish(v) /\ KeepSingle(v)
           /\ \/ Writable' = Writable
              \/ /\ IsWrite /\ BusByte \in Byte
                 /\ Writable' = Written(Writable, BusAddr, BusByte)
    BY <1>5, AccessEnds
  <2>3. /\ Now = "get" => todo' # <<>> /\ Now' \in Backs /\ todo[2] = Now'
        /\ Now \in Backs => todo' # <<>> /\ Now' = "put"
    <3>1. Now \in {"get"} \cup Backs => Now # "opcode"
      BY DEF Backs
    <3>2. Now \in {"get"} \cup Backs => todo' # <<>> /\ Follows(Now, Now') /\ todo[2] = Now'
      BY <2>1, <2>2, <3>1, NextAccess
    <3> QED BY <3>2 DEF Follows, Backs
  <2>4. CASE Now = "get"
    <3>1. single' = Written(Writable, addr, Modified(todo[2], v))
      BY <2>2, <2>4 DEF KeepSingle
    <3>2. addr' = addr /\ val' = v
      BY <2>2, <2>4 DEF Finish
    <3>3. Writable' = Writable
      BY <2>2, <2>4 DEF IsWrite, Pushes
    <3>4. Now' # "put"
      BY <2>3, <2>4 DEF Backs
    <3> QED BY <2>1, <2>3, <2>4, <3>1, <3>2, <3>3, <3>4 DEF RmwInv
  <2>5. CASE Now \in Backs
    <3>1. single' = single
      BY <2>2, <2>5 DEF KeepSingle, Backs
    <3>2. single = Written(Writable, addr, Modified(Now, val))
      BY <1>2, <1>5, <2>5, <3>1 DEF Backs
    <3>3. addr' = addr /\ val' = Modified(Now, val)
      BY <2>2, <2>5 DEF Finish, Backs
    <3>4. BusAddr = addr
      BY <2>5 DEF BusAddr, Backs, Pushes
    <3>5. addr \in Word /\ Covered(addr) /\ Modified(Now, val) \in Byte
      BY <1>1, FrameFields, AllCovered, ModifiedType
    <3>6. Written(Writable', addr, Modified(Now, val)) = Written(Writable, addr, Modified(Now, val))
      BY <2>1, <2>2, <3>4, <3>5, WrittenTwice
    <3> QED BY <2>1, <2>3, <2>5, <3>1, <3>2, <3>3, <3>6 DEF RmwInv
  <2>6. Now # "put"
    BY <1>5, <2>2 DEF KeepSingle
  <2>7. CASE Now \notin {"get", "put"} \cup Backs
    <3>1. single' = single
      BY <2>2, <2>7 DEF KeepSingle
    <3> QED BY <1>2, <1>5, <2>7, <3>1
  <2> QED BY <2>4, <2>5, <2>6, <2>7
<1>6. CASE HostStep
  BY <1>3, <1>6, HostFrame
<1> QED BY <1>3, <1>4, <1>5, <1>6, NextSplit DEF FrameOnly

-------------------------------------------------------------------------------
(* The invariant.                                                            *)

LEMMA InitInv == Init => Inv
<1> SUFFICES ASSUME Init PROVE Inv
  OBVIOUS
<1>1. MachineTypeOK
  <2>1. Writable = [ram |-> ZeroRam, bank |-> 0, regs |-> ZeroRegs, selected |-> 0]
    BY DEF Init, MachineInit, MapInit, Writable
  <2>2. RomsOK /\ LatchesOK
    BY DEF Init, MachineInit, MapInit, RomsOK, LatchesOK
  <2>3. 0 \in Byte /\ 0 \in Word
    BY WordRange DEF Byte
  <2>4. cpu \in Registers
    BY <2>3 DEF Init, MachineInit, Registers, Flags
  <2> QED BY <2>1, <2>2, <2>4, ZeroMemory, MachineTypeIs
<1>2. FrameInv
  <2>1. 0 \in Byte /\ 0 \in Word /\ "opcode" \in Kinds /\ "none" \in Hooks
    BY WordRange DEF Byte, Kinds, Hooks
  <2>2. FrameOK([deadline |-> 0, kind |-> "opcode", todo |-> <<>>, addr |-> 0, val |-> 0,
                 hook |-> "none"])
    BY <2>1, EmptyChained, FrameIntro
  <2>3. FrameOK(Frame)
    BY <2>2 DEF Init, Frame
  <2>4. /\ running = FALSE /\ todo = <<>> /\ outer = <<>> /\ hook = "none"
        /\ outer \in Seq(Waiting)
    BY DEF Init
  <2> QED BY <2>3, <2>4 DEF FrameInv
<1>3. SnapInv /\ NmiInv /\ DueInv
  BY DEF Init, MachineInit, SnapInv, NmiInv, DueInv
<1>4. VectorInv /\ BootInv /\ RmwInv
  BY DEF Init, VectorInv, BootInv, RmwInv
<1> QED BY <1>1, <1>2, <1>3, <1>4 DEF Inv

LEMMA InvStutters == Inv /\ UNCHANGED vars => Inv'
<1> SUFFICES ASSUME Inv, UNCHANGED vars PROVE Inv'
  OBVIOUS
<1>1. /\ UNCHANGED <<ram, os, sideways, bank, regs, selected, cpu, resetPending, nmiPending,
                     nmiPrev, irqLine, rdy, snap, seen>>
      /\ UNCHANGED <<running, outer, deadline, kind, todo, addr, val, hook>>
      /\ UNCHANGED <<owed, due, boot, single>>
  BY DEF vars
<1>2. Writable' = Writable /\ Frame' = Frame /\ Now' = Now /\ SnapMem' = SnapMem
  BY <1>1 DEF Writable, Frame, Now, SnapMem
<1>3. MachineTypeOK'
  BY <1>1 DEF Inv, MachineTypeOK
<1>4. FrameInv'
  BY <1>1, <1>2 DEF Inv, FrameInv
<1>5. SnapInv'
  BY <1>1, <1>2 DEF Inv, SnapInv
<1>6. NmiInv' /\ DueInv'
  BY <1>1, <1>2 DEF Inv, NmiInv, DueInv
<1>7. VectorInv' /\ BootInv' /\ RmwInv'
  BY <1>1, <1>2 DEF Inv, VectorInv, BootInv, RmwInv
<1> QED BY <1>3, <1>4, <1>5, <1>6, <1>7 DEF Inv

\* With all of RAM modelled, every reachable state satisfies Inv.
THEOREM InvHolds == WholeRam => (Spec => []Inv)
<1> SUFFICES ASSUME WholeRam PROVE Spec => []Inv
  OBVIOUS
<1>1. Inv /\ [Next]_vars => Inv'
  BY InvStutters, MachineStep, FrameStep, SnapStep, NmiStep, DueStep, VectorStep, BootStep, RmwStep
     DEF Inv
<1> QED BY <1>1, InitInv, PTL DEF Spec

-------------------------------------------------------------------------------
(* The properties.                                                           *)

\* Board.TypeOK: registers keep their width and every index stays inside its
\* array - the CRTC's file, the four banks - whatever program runs, whatever
\* Snapshot is restored, in a hook or between Ticks (CPU.Step, CRTC.Write,
\* RomSelect.Write, Machine.Restore).
THEOREM TypeCorrect == WholeRam => (Spec => []TypeOK)
<1>1. Inv => TypeOK
  BY FrameFields DEF Inv, FrameInv, TypeOK, Kinds
<1> QED BY <1>1, InvHolds, PTL

\* Board.EveryNmiLatched: no NMI edge is lost on a Machine.  enterInterrupt
\* clears the latch after the vector fetch, and no edge arrives between the
\* choice of the vector and that point, because no hook runs there.
THEOREM EveryNmiLatchedHolds == WholeRam => (Spec => []EveryNmiLatched)
<1>1. Inv => EveryNmiLatched
  BY DEF Inv, NmiInv, EveryNmiLatched
<1> QED BY <1>1, InvHolds, PTL

\* Board.ResetComesFirst: after Reset or ColdReset, in a hook or not, CPU.Step
\* starts nothing before the RESET sequence.
THEOREM ResetComesFirstHolds == WholeRam => (Spec => ResetComesFirst)
<1>1. Inv /\ Step => (due => kind' = "reset")
  <2> SUFFICES ASSUME Inv, Step, due PROVE kind' = "reset"
    OBVIOUS
  <2>1. resetPending /\ rdy /\ kind' = StepKind
    BY DEF Inv, DueInv, Step
  <2> QED BY <2>1 DEF StepKind
<1> QED BY <1>1, InvHolds, PTL DEF ResetComesFirst

\* Board.ResetBootsClean: the RESET sequence after a reset made between Ticks
\* writes nothing, and ends with PC at the vector it finds in ROM.
THEOREM ResetBootsCleanHolds == WholeRam => (Spec => ResetBootsClean)
<1> SUFFICES ASSUME WholeRam PROVE Spec => ResetBootsClean
  OBVIOUS
<1>1. ASSUME Inv, Next, todo # <<>>, ResetOver, boot # Nothing
      PROVE  boot = Writable' /\ cpu'.PC = MakeWord(ReadValue(65532), ReadValue(65533))
  <2>1. /\ MachineTypeOK /\ FrameOK(Frame) /\ (~running => todo = <<>>)
        /\ boot = Writable /\ val = ReadOf(Writable, os, sideways, addr)
    BY <1>1 DEF Inv, FrameInv, BootInv, VectorInv, ResetOver
  <2>2. AccessOK /\ running /\ Now = "vectorHi" /\ kind = "reset"
    BY <1>1, <2>1 DEF AccessOK, ResetOver
  <2>3. ~IsWrite /\ ~FiresHook /\ hook = "none" /\ addr = 65532
    BY <2>2, VectorsQuiet, FrameFields DEF AccessOK, Vectors
  <2>4. AccessStep
    <3>1. ~HostStep
      BY <2>2, <2>3, HostFrame DEF HostRuns
    <3>2. ~\E b \in Budgets \cup HookBudgets : Tick(b)
      BY <2>2, <2>3 DEF Tick, HostRuns
    <3>3. ~TickReturns /\ ~Step
      BY <1>1, Zenon DEF TickReturns, Step, Boundary
    <3>4. ~CallUnmappedHook
      BY <2>3 DEF CallUnmappedHook
    <3>5. ~CallIllegalHook
      BY <2>2 DEF CallIllegalHook
    <3>6. ~IllegalHookReturns
      BY <2>3 DEF IllegalHookReturns
    <3> QED BY <1>1, <3>1, <3>2, <3>3, <3>4, <3>5, <3>6, NextSplit
  <2>5. PICK v \in Byte : Finish(v) /\ v = ReadValue(BusAddr) /\ Writable' = Writable
    BY <1>1, <2>3, <2>4, AccessEnds
  <2>6. BusAddr = 65533
    BY <2>2, <2>3 DEF BusAddr, Pushes
  <2>7. RegistersAfter(v) = [cpu EXCEPT !.PC = MakeWord(val, v)]
    BY <2>2 DEF RegistersAfter
  <2>8. cpu'.PC = MakeWord(val, v)
    <3>1. cpu = [A |-> cpu.A, SP |-> cpu.SP, PC |-> cpu.PC, P |-> cpu.P, cycles |-> cpu.cycles]
      BY <2>1, RegistersFields DEF MachineTypeOK
    <3>2. cpu' = [RegistersAfter(v) EXCEPT !.cycles = @ + 1]
      BY <2>5 DEF Finish
    <3> QED BY <2>7, <3>1, <3>2
  <2>9. val = ReadValue(65532)
    BY <2>1, <2>3, ReadValueIs
  <2> QED BY <2>1, <2>5, <2>6, <2>8, <2>9
<1>2. Inv /\ [Next]_vars =>
        [todo # <<>> /\ ResetOver /\ boot # Nothing =>
           boot = Writable' /\ cpu'.PC = MakeWord(ReadValue(65532), ReadValue(65533))]_vars
  BY <1>1
<1> QED BY <1>2, InvHolds, PTL DEF ResetBootsClean, Spec

\* Board.RmwWritesOnce: the two writes of a read-modify-write leave the memory
\* its last one alone would have left, wherever the decoder sends them.
THEOREM RmwWritesOnceHolds == WholeRam => (Spec => RmwWritesOnce)
<1> SUFFICES ASSUME WholeRam PROVE Spec => RmwWritesOnce
  OBVIOUS
<1>1. ASSUME Inv, Next, todo # <<>>, Now = "put", todo' = <<>>, single # Nothing
      PROVE  Writable' = single
  <2>1. /\ MachineTypeOK /\ FrameOK(Frame) /\ (~running => todo = <<>>)
        /\ single = Written(Writable, addr, val) /\ hook # "illegal"
    BY <1>1 DEF Inv, FrameInv, RmwInv
  <2>2. AccessOK /\ running /\ MemOK(Writable)
    BY <1>1, <2>1, MachineMemory DEF AccessOK
  <2>3. hook = "unmapped" => Written(Writable, addr, val) = Writable
    BY <1>1, <2>1, <2>2, FrameFields, WriteDropped
  <2>4. CASE \E b \in Budgets \cup HookBudgets : Tick(b)
    <3>1. UNCHANGED machine /\ hook # "none"
      BY <2>2, <2>4 DEF Tick, HostRuns
    <3>2. hook = "unmapped"
      BY <2>1, <3>1, FrameFields DEF Hooks
    <3> QED BY <2>1, <2>3, <3>1, <3>2, MachineUnchanged
  <2>5. CASE AccessStep
    <3>1. IsWrite /\ BusAddr = addr /\ BusByte = val
      BY <1>1 DEF IsWrite, BusAddr, BusByte, Pushes
    <3>2. \/ Writable' = Written(Writable, BusAddr, BusByte)
          \/ hook = "unmapped" /\ Writable' = Writable
      BY <1>1, <2>5, <3>1, AccessEnds
    <3> QED BY <2>1, <2>3, <3>1, <3>2
  <2>6. ~HostStep
    BY <1>1, HostFrame
  <2>7. ~TickReturns /\ ~Step /\ ~CallUnmappedHook /\ ~CallIllegalHook /\ ~IllegalHookReturns
    BY <1>1 DEF TickReturns, Step, Boundary, CallUnmappedHook, CallIllegalHook,
                IllegalHookReturns, locals
  <2> QED BY <1>1, <2>4, <2>5, <2>6, <2>7, NextSplit
<1>2. Inv /\ [Next]_vars =>
        [todo # <<>> /\ Now = "put" /\ todo' = <<>> /\ single # Nothing => Writable' = single]_vars
  BY <1>1
<1> QED BY <1>2, InvHolds, PTL DEF RmwWritesOnce, Spec

\* Board.RestoreRoundTrip: Machine.Restore of the Snapshot the host holds makes
\* every address read as it did when Machine.Snapshot took it.
THEOREM RestoreRoundTripHolds == WholeRam => (Spec => RestoreRoundTrip)
<1>1. ASSUME Inv, Restore, err' = "ok", seen # NoView PROVE View' = seen
  <2>1. MachineTypeOK /\ SnapInv
    BY <1>1 DEF Inv
  <2>2. /\ os' = os /\ sideways' = sideways
        /\ Writable' = [ram |-> snap.ram, bank |-> snap.bank % 4, regs |-> snap.regs,
                        selected |-> snap.selected % 18]
    BY <1>1, <2>1, RestoreMemory
  <2>3. /\ snap.bank \in 0..3 /\ snap.selected \in 0..17
        /\ seen = [a \in BusAddrs |-> ReadOf(SnapMem, os, sideways, a)]
    BY <1>1, <2>1 DEF SnapInv
  <2>4. snap.bank % 4 = snap.bank /\ snap.selected % 18 = snap.selected
    BY <2>3
  <2>5. Writable' = SnapMem
    BY <2>2, <2>4 DEF SnapMem
  <2>6. View' = [a \in BusAddrs |-> ReadOf(Writable', os', sideways', a)]
    BY ReadValueIs DEF View
  <2> QED BY <2>2, <2>3, <2>5, <2>6
<1>2. Inv => [Restore /\ err' = "ok" /\ seen # NoView => View' = seen]_vars
  BY <1>1
<1> QED BY <1>2, InvHolds, PTL DEF RestoreRoundTrip

\* Board.ColdResetClearsMemory: Machine.ColdReset leaves every address reading
\* as on a new Machine with the same ROMs.
THEOREM ColdResetClearsMemoryHolds == Spec => ColdResetClearsMemory
<1>1. ASSUME ColdReset, err' = "ok", NEW CONSTANT a \in BusAddrs PROVE ReadValue(a)' = FreshByte(a)
  <2> DEFINE zero == [ram |-> ZeroRam, bank |-> 0, regs |-> ZeroRegs, selected |-> 0]
  <2>1. os' = os /\ sideways' = sideways /\ Writable' = zero
    BY <1>1 DEF ColdReset, Fails, ZeroPeripherals, Writable
  <2>2. ReadValue(a)' = ReadOf(zero, os, sideways, a)
    BY <2>1, ReadValueIs
  <2>3. a \in Word
    BY MemoryMapAssumption
  <2>4. Device(a) \in Files \cup Others
    BY <2>3, Decodes
  <2>5. CASE Device(a) = "RAM"
    <3>1. a \in RamAddrs
      BY <1>1, <2>3, <2>5, Decodes DEF RamAddrs
    <3> QED BY <2>2, <2>5, <3>1, ReadOfIs, FileSizes DEF FreshByte, ZeroRam
  <2>6. CASE Device(a) = "Sideways"
    BY <2>2, <2>6, ReadOfIs, FileSizes DEF FreshByte
  <2>7. CASE Device(a) = "OS"
    BY <2>2, <2>7, ReadOfIs, FileSizes DEF FreshByte, OsRead
  <2>8. CASE Device(a) = "CRTC"
    <3>1. ZeroRegs["CRTC"][0] = 0
      BY FileSizes DEF ZeroRegs
    <3> QED BY <2>2, <2>8, <3>1, ReadOfIs, FileSizes DEF FreshByte
  <2>9. CASE Device(a) \in Files \ {"CRTC", "FDC", "Econet"}
    <3>1. Register(a) \in 0..(RegCount[Device(a)] - 1)
      BY <2>3, <2>9, RegisterInFile
    <3>2. ZeroRegs[Device(a)][Register(a)] = 0
      BY <2>9, <3>1 DEF ZeroRegs
    <3>3. FreshByte(a) = 0
      BY <2>9, FileSizes DEF FreshByte
    <3> QED BY <2>2, <2>9, <3>2, <3>3, ReadOfIs
  <2>10. CASE Device(a) \in {"FDC", "Econet"} \cup (Others \ {"RAM", "Sideways", "OS"})
    <3>1. FreshByte(a) = openBus
      BY <2>10, FileSizes DEF FreshByte, Others
    <3> QED BY <2>2, <2>10, <3>1, ReadOfIs, FileSizes DEF Others
  <2> QED BY <2>4, <2>5, <2>6, <2>7, <2>8, <2>9, <2>10
<1>2. [ColdReset /\ err' = "ok" => \A a \in BusAddrs : ReadValue(a)' = FreshByte(a)]_vars
  BY <1>1
<1> QED BY <1>2, PTL DEF ColdResetClearsMemory

-------------------------------------------------------------------------------
(* Replays.  Without signals and without the host, the machine is a function *)
(* from its configuration to the next one.                                   *)

Writes == {"store", "put"} \cup Backs \cup Pushes
AddrReads == {"hi", "jump", "peek", "load", "store", "get", "put"} \cup Backs \cup Vectors
ValReads == {"put", "vectorHi"} \cup Backs

\* What the rest of the execution depends on: the locals an access still to be
\* made does not read are dead, and left out.
Canon(m, c, t, k, a, v) ==
    [mem |-> m, cpu |-> c, todo |-> t,
     kind |-> IF t = <<>> THEN "opcode" ELSE k,
     addr |-> IF t # <<>> /\ Head(t) \in AddrReads THEN a ELSE 0,
     val  |-> IF t # <<>> /\ Head(t) \in ValReads THEN v ELSE 0]
Config == Canon(Writable, cpu, todo, kind, addr, val)

\* Access x of an instruction or BRK, with registers c and locals a and v, as
\* Board makes it; y is the byte it reads.
AddrOf(x, c, a) ==
    CASE x \in Pushes -> 256 + c.SP
      [] x \in {"peek", "load", "store", "get", "put", "vectorLo"} \cup Backs -> a
      [] x = "vectorHi" -> a + 1
      [] OTHER -> c.PC
ByteOf(x, c, k, v) ==
    CASE x = "store" -> c.A
      [] x \in {"put"} \cup Backs -> v
      [] x = "pushPCH" -> Hi(c.PC)
      [] x = "pushPCL" -> Lo(c.PC)
      [] x = "pushP" -> Encode(PushedStatus(c.P, k = "brk"))
RegsOf(x, c, a, v, y) ==
    CASE x \in {"opcode", "lo", "hi", "padding"} -> [c EXCEPT !.PC = (@ + 1) % 65536]
      [] x = "immediate" -> LoadA([c EXCEPT !.PC = (@ + 1) % 65536], y)
      [] x = "load" -> LoadA(c, y)
      [] x = "jump" -> [c EXCEPT !.PC = MakeWord(a, y)]
      [] x = "cli" -> [c EXCEPT !.P = SetFlag(@, "I", FALSE)]
      [] x \in Backs -> [c EXCEPT !.P = SetNZ(@, Modified(x, v))]
      [] x \in {"pushPCH", "pushPCL"} -> [c EXCEPT !.SP = (@ - 1) % 256]
      [] x = "pushP" -> [c EXCEPT !.SP = (@ - 1) % 256, !.P = @ \cup {"I", "U"}]
      [] x = "vectorHi" -> [c EXCEPT !.PC = MakeWord(v, y)]
      [] OTHER -> c
NewAddr(x, a, y) ==
    CASE x = "lo" -> y [] x = "hi" -> MakeWord(a, y) [] x = "pushP" -> 65534 [] OTHER -> a
NewVal(x, v, y) ==
    CASE x \in {"get", "vectorLo"} -> y [] x \in Backs -> Modified(x, v) [] OTHER -> v

\* One access of the configuration s, with the ROMs o and w.
AccessOf(o, w, s) ==
    LET x == Head(s.todo)
        a == AddrOf(x, s.cpu, s.addr)
        y == IF x \in Writes THEN 0 ELSE ReadOf(s.mem, o, w, a)
    IN  Canon(IF x \in Writes THEN Written(s.mem, a, ByteOf(x, s.cpu, s.kind, s.val)) ELSE s.mem,
              [RegsOf(x, s.cpu, s.addr, s.val, y) EXCEPT !.cycles = @ + 1],
              IF x = "opcode" THEN Opcode[y] ELSE Tail(s.todo),
              IF x = "opcode" /\ y = 0 THEN "brk" ELSE s.kind,
              NewAddr(x, s.addr, y), NewVal(x, s.val, y))

\* The configuration after s: Step, CallIllegalHook or the access.
NextOf(o, w, s) ==
    IF s.todo = <<>> THEN Canon(s.mem, s.cpu, <<"opcode">>, "opcode", 0, 0)
    ELSE IF Head(s.todo) = "illegal" THEN Canon(s.mem, s.cpu, Tail(s.todo), s.kind, 0, 0)
    ELSE AccessOf(o, w, s)

\* Every instruction recorded began before s, or begins in s.
Beyond(s) ==
    \A r \in path : r.cycles < s.cpu.cycles \/ (r.cycles = s.cpu.cycles /\ s.todo = <<"opcode">>)

\* The configuration that Restore brings back.
Origin == Canon(SnapMem, snap.cpu, <<>>, "opcode", 0, 0)

\* H holds the configurations from Origin to tip, and path their instructions.
Trail(H, tip) ==
    /\ Origin \in H /\ tip \in H /\ Beyond(tip)
    /\ \A s \in H : s # tip => /\ NextOf(os, sideways, s) \in H
                               /\ s.todo = <<>> => s.cpu \in path

Phases == {"off", "record", "hold", "replay"}

\* While a recording or a replay goes on, no signal is up and no host has
\* interfered.
QuietInv ==
    /\ phase \in Phases /\ path \in SUBSET Registers
    /\ phase \in {"record", "replay"} =>
          /\ Quiet /\ seen # NoView /\ outer = <<>>
          /\ todo # <<>> => kind \in {"opcode", "brk"}
          /\ hook = "unmapped" => FiresHook

\* A recording is at the end of the trail since its Snapshot; a replay is on the
\* trail, or past the recording.
ReplayInv ==
    phase # "off" /\ seen # NoView =>
        \E H, tip :
           /\ Trail(H, tip)
           /\ phase = "record" => tip = Config
           /\ phase = "replay" => Config \in H \/ Beyond(Config)

\* A read as a function of the memory and the ROMs.
LEMMA ReadNow == ASSUME NEW a PROVE ReadValue(a) = ReadOf(Writable, os, sideways, a)
BY ReadValueIs

\* Config by field.
LEMMA ConfigIs ==
    /\ Config.mem = Writable /\ Config.cpu = cpu /\ Config.todo = todo
    /\ todo # <<>> => /\ Config.kind = kind
                      /\ Now \in AddrReads => Config.addr = addr
                      /\ Now \in ValReads => Config.val = val
BY DEF Config, Canon, Now

\* Two configurations that agree on what is live are equal.
LEMMA CanonEqual ==
    ASSUME NEW m, NEW c, NEW t, NEW k, NEW a, NEW v, NEW k2, NEW a2, NEW v2,
           t # <<>> => /\ k = k2
                       /\ Head(t) \in AddrReads => a = a2
                       /\ Head(t) \in ValReads => v = v2
    PROVE  Canon(m, c, t, k, a, v) = Canon(m, c, t, k2, a2, v2)
BY DEF Canon

\* The operators of Config are those of Board.
LEMMA BoardOperators ==
    ASSUME todo # <<>>, NEW y
    PROVE  /\ AddrOf(Now, cpu, Config.addr) = BusAddr
           /\ Now \in Writes => ByteOf(Now, cpu, kind, Config.val) = BusByte
           /\ RegsOf(Now, cpu, Config.addr, Config.val, y) = RegistersAfter(y)
<1>1. /\ Now \in AddrReads => Config.addr = addr
      /\ Now \in ValReads => Config.val = val
  BY ConfigIs
<1> DEFINE a == Config.addr
           v == Config.val
<1> HIDE DEF a, v
<1>2. (Now \in AddrReads => a = addr) /\ (Now \in ValReads => v = val)
  BY <1>1 DEF a, v
<1>3. AddrOf(Now, cpu, a) = BusAddr
  BY <1>2 DEF AddrOf, BusAddr, AddrReads, Backs, Vectors, Pushes
<1>4. Now \in Writes => ByteOf(Now, cpu, kind, v) = BusByte
  BY <1>2 DEF ByteOf, BusByte, Writes, ValReads, Backs, Pushes
<1>5. RegsOf(Now, cpu, a, v, y) = RegistersAfter(y)
  BY <1>2 DEF RegsOf, RegistersAfter, Advanced, AddrReads, ValReads, Backs, Vectors
<1> QED BY <1>3, <1>4, <1>5 DEF a, v

\* The byte an access returns is used by reads only.
LEMMA WriteIgnores ==
    ASSUME Now \in Writes, NEW y, NEW z
    PROVE  /\ RegistersAfter(y) = RegistersAfter(z)
           /\ Now # "opcode" /\ Now \notin {"lo", "hi", "get", "vectorLo"}
<1>1. Now # "opcode" /\ Now \notin {"lo", "hi", "get", "vectorLo"}
  BY DEF Writes, Backs, Pushes
<1>2. RegistersAfter(y) = RegistersAfter(z)
  <2>1. Now \notin {"opcode", "lo", "hi", "padding", "immediate", "load", "jump", "cli", "vectorHi"}
    BY DEF Writes, Backs, Pushes
  <2> QED BY <2>1 DEF RegistersAfter
<1> QED BY <1>1, <1>2

\* An access of an instruction leads to the configuration AccessOf gives.
LEMMA AccessAdvances ==
    ASSUME WholeRam, Inv, AccessStep, Quiet, kind \in {"opcode", "brk"},
           hook = "unmapped" => FiresHook
    PROVE  /\ Config' = AccessOf(os, sideways, Config)
           /\ todo # <<>> /\ Now # "illegal"
           /\ cpu'.cycles = cpu.cycles + 1 /\ cpu \in Registers
           /\ Quiet' /\ kind' \in {"opcode", "brk"}
<1> DEFINE a == Config.addr
           v == Config.val
           y == IF Now \in Writes THEN 0 ELSE ReadValue(BusAddr)
<1>1. AccessOK /\ todo # <<>> /\ Now # "illegal"
  BY AccessEnds DEF AccessOK
<1>2. cpu \in Registers /\ MemOK(Writable)
  BY <1>1, MachineMemory DEF AccessOK, MachineTypeOK
<1>3. IsWrite <=> Now \in Writes
  BY DEF IsWrite, Writes, Backs, Pushes
<1>4. PICK z \in Byte :
         /\ Finish(z)
         /\ Now \notin Writes => z = ReadValue(BusAddr)
         /\ Writable' = IF Now \in Writes THEN Written(Writable, BusAddr, BusByte) ELSE Writable
  <2>1. PICK z \in Byte :
           /\ Finish(z)
           /\ \/ BusRead /\ z = ReadValue(BusAddr) /\ ~IsWrite /\ Writable' = Writable
              \/ IsWrite /\ Writable' = Written(Writable, BusAddr, BusByte)
              \/ UnmappedHookReturns /\ hook = "unmapped" /\ Writable' = Writable
    BY AccessEnds
  <2>2. CASE UnmappedHookReturns /\ hook = "unmapped" /\ Writable' = Writable
    <3>1. FiresHook
      BY <2>2
    <3>2. Finish(openBus)
      BY <2>2 DEF UnmappedHookReturns
    <3>3. openBus \in Byte
      BY DEF openBus, Byte
    <3>4. Now \notin Writes => openBus = ReadValue(BusAddr)
      BY <1>3, <3>1, HookedReadIsOpen DEF FiresHook
    <3>5. Now \in Writes => Written(Writable, BusAddr, BusByte) = Writable
      BY <1>2, <1>3, <3>1, WriteDropped DEF FiresHook
    <3> QED BY <2>2, <3>2, <3>3, <3>4, <3>5
  <2> QED BY <1>3, <2>1, <2>2
<1>5. /\ kind' = IF Now = "opcode" /\ z = 0 THEN "brk" ELSE kind
      /\ todo' = IF Now = "opcode" THEN Opcode[z] ELSE Tail(todo)
      /\ cpu' = [RegistersAfter(z) EXCEPT !.cycles = @ + 1]
  BY <1>4 DEF Finish
<1>6. Now \notin Writes => y = z
  BY <1>4
<1>7. cpu' = [RegistersAfter(y) EXCEPT !.cycles = @ + 1]
  <2>1. RegistersAfter(z) = RegistersAfter(y)
    BY <1>6, WriteIgnores
  <2> QED BY <1>5, <2>1
<1>8. /\ todo' = IF Now = "opcode" THEN Opcode[y] ELSE Tail(todo)
      /\ kind' = IF Now = "opcode" /\ y = 0 THEN "brk" ELSE kind
  <2>1. Now = "opcode" => y = z
    BY <1>6, WriteIgnores
  <2> QED BY <1>5, <2>1
<1>9. cpu'.cycles = cpu.cycles + 1
  <2>1. RegistersAfter(z) \in Registers /\ RegistersAfter(z).cycles = cpu.cycles
    BY <1>1, RegistersAfterType
  <2> QED BY <1>5, <2>1 DEF Registers
<1>10. Quiet' /\ kind' \in {"opcode", "brk"}
  <2>1. /\ nmiPending' = (nmiPending /\ ~Hijacks /\ ~(Now = "vectorHi" /\ kind = "nmi"))
        /\ resetPending' = (resetPending /\ ~(Now = "vectorHi" /\ kind = "reset"))
        /\ irqLine' = irqLine /\ rdy' = rdy
    BY <1>4 DEF Finish, ClearServiced
  <2> QED BY <1>5, <2>1 DEF Quiet
<1>11. todo' # <<>> /\ Head(todo') \in AddrReads => addr' = NewAddr(Now, a, y)
  <2> SUFFICES ASSUME todo' # <<>>, Head(todo') \in AddrReads PROVE addr' = NewAddr(Now, a, y)
    OBVIOUS
  <2>1. Now # "opcode" /\ Follows(Now, Head(todo'))
    BY <1>1, <1>4, NextAccess DEF Starts, AddrReads, Backs, Vectors, Now
  <2>2. Now \in {"lo", "pushP"} \cup AddrReads
    BY <2>1 DEF Follows, AddrReads, Backs, Vectors
  <2>3. addr' = CASE Now = "lo" -> z [] Now = "hi" -> MakeWord(addr, z)
                  [] Now = "pushP" -> Vector [] OTHER -> addr
    BY <1>4 DEF Finish
  <2>4. Now \in AddrReads => a = addr
    BY <1>1, ConfigIs
  <2>5. CASE Now = "lo"
    BY <1>6, <2>3, <2>5, WriteIgnores DEF NewAddr
  <2>6. CASE Now = "hi"
    <3>1. y = z /\ a = addr
      BY <1>6, <2>4, <2>6, WriteIgnores DEF AddrReads
    <3>2. addr' = MakeWord(addr, z) /\ NewAddr(Now, a, y) = MakeWord(a, y)
      BY <2>3, <2>6 DEF NewAddr
    <3> HIDE DEF a, y
    <3> QED BY <3>1, <3>2
  <2>7. CASE Now = "pushP"
    <3>1. Vector = 65534
      BY DEF Vector, Quiet
    <3> QED BY <2>3, <2>7, <3>1 DEF NewAddr
  <2>8. CASE Now \notin {"lo", "hi", "pushP"}
    BY <2>2, <2>3, <2>4, <2>8 DEF NewAddr
  <2> QED BY <2>5, <2>6, <2>7, <2>8
<1>12. todo' # <<>> /\ Head(todo') \in ValReads => val' = NewVal(Now, v, y)
  <2> SUFFICES ASSUME todo' # <<>>, Head(todo') \in ValReads PROVE val' = NewVal(Now, v, y)
    OBVIOUS
  <2>1. Now # "opcode" /\ Follows(Now, Head(todo'))
    BY <1>1, <1>4, NextAccess DEF Starts, ValReads, Backs, Now
  <2>2. Now \in {"get", "vectorLo"} \cup Backs
    BY <2>1 DEF Follows, ValReads, Backs
  <2>3. val' = CASE Now \in {"get", "vectorLo"} -> z
                 [] Now \in Backs -> Modified(Now, val) [] OTHER -> val
    BY <1>4 DEF Finish, Backs
  <2>4. Now \in Backs => v = val
    BY <1>1, ConfigIs DEF ValReads
  <2>5. CASE Now \in {"get", "vectorLo"}
    <3>1. y = z
      BY <1>6, <2>5, WriteIgnores
    <3> HIDE DEF y
    <3>2. Now \notin Backs
      BY <2>5 DEF Backs
    <3> QED BY <2>3, <2>5, <3>1, <3>2 DEF NewVal
  <2>6. CASE Now \in Backs
    <3>1. Now \notin {"get", "vectorLo"}
      BY <2>6 DEF Backs
    <3> HIDE DEF v, y
    <3> QED BY <2>3, <2>4, <2>6, <3>1 DEF NewVal
  <2> QED BY <2>2, <2>5, <2>6
<1>13. AccessOf(os, sideways, Config)
         = Canon(Writable', cpu', todo', kind', NewAddr(Now, a, y), NewVal(Now, v, y))
  <2>1. /\ Config.mem = Writable /\ Config.cpu = cpu /\ Config.todo = todo
        /\ Config.kind = kind /\ Head(Config.todo) = Now
    BY <1>1, ConfigIs DEF Now
  <2>2. AddrOf(Now, cpu, a) = BusAddr
    BY <1>1, BoardOperators
  <2>3. (IF Now \in Writes THEN 0 ELSE ReadOf(Writable, os, sideways, BusAddr)) = y
    BY ReadNow
  <2>4. Writable' = IF Now \in Writes
                    THEN Written(Writable, BusAddr, ByteOf(Now, cpu, kind, v)) ELSE Writable
    BY <1>1, <1>4, BoardOperators
  <2>5. cpu' = [RegsOf(Now, cpu, a, v, y) EXCEPT !.cycles = @ + 1]
    BY <1>1, <1>7, BoardOperators
  <2> HIDE DEF y, a, v
  <2>6. AccessOf(os, sideways, Config)
         = Canon(IF Now \in Writes THEN Written(Writable, BusAddr, ByteOf(Now, cpu, kind, v)) ELSE Writable,
              [RegsOf(Now, cpu, a, v, y) EXCEPT !.cycles = @ + 1],
              IF Now = "opcode" THEN Opcode[y] ELSE Tail(todo),
              IF Now = "opcode" /\ y = 0 THEN "brk" ELSE kind,
              NewAddr(Now, a, y), NewVal(Now, v, y))
    <3>1. Config.addr = a /\ Config.val = v
      BY DEF a, v
    <3> QED BY <2>1, <2>2, <2>3, <3>1, Zenon DEF AccessOf
  <2> QED BY <1>8, <2>4, <2>5, <2>6, Zenon
<1>14. Config' = Canon(Writable', cpu', todo', kind', addr', val')
  BY DEF Config, Canon
<1>15. Config' = AccessOf(os, sideways, Config)
  <2> HIDE DEF y, a, v
  <2> QED BY <1>11, <1>12, <1>13, <1>14, CanonEqual
<1> QED BY <1>1, <1>2, <1>9, <1>10, <1>15

\* What the steps of a recording or a replay do to the configuration; the host
\* takes none of them.
Going == phase \in {"record", "replay"} /\ phase' = phase
Stays == /\ Config' = Config /\ path' = path
Advances ==
    /\ Config' = NextOf(os, sideways, Config)
    /\ path' = IF todo = <<>> /\ phase = "record" THEN path \cup {cpu} ELSE path
    /\ \/ todo = <<>> /\ todo' = <<"opcode">> /\ cpu' = cpu
       \/ todo # <<>> /\ todo # <<"opcode">> /\ cpu' = cpu
       \/ cpu'.cycles = cpu.cycles + 1
GoingOn ==
    /\ Quiet' /\ outer' = <<>> /\ UNCHANGED <<os, sideways, snap, seen, phase>>
    /\ (todo # <<>>)' => kind' \in {"opcode", "brk"}
    /\ hook' = "unmapped" => FiresHook'
    /\ Stays \/ Advances

\* Without signals, Step fetches an opcode.
LEMMA StepAdvances ==
    ASSUME QuietInv, phase \in {"record", "replay"}, Step
    PROVE  kind' = "opcode" /\ todo = <<>> /\ todo' = <<"opcode">> /\ GoingOn
<1>1. Quiet /\ outer = <<>>
  BY DEF QuietInv
<1>2. StepKind = "opcode"
  BY <1>1 DEF Quiet, StepKind
<1>3. /\ kind' = "opcode" /\ todo = <<>> /\ todo' = <<"opcode">>
      /\ path' = IF phase = "record" THEN path \cup {cpu} ELSE path
      /\ hook = "none" /\ hook' = hook
      /\ UNCHANGED <<machine, snap, seen, outer, phase>>
  BY <1>2 DEF Step, Boundary
<1>4. /\ UNCHANGED <<os, sideways, cpu, resetPending, nmiPending, irqLine, rdy>>
      /\ Writable' = Writable
  BY <1>3, MachineUnchanged
<1>5. Config' = NextOf(os, sideways, Config)
  <2>1. Config' = Canon(Writable, cpu, <<"opcode">>, "opcode", addr', val')
    BY <1>3, <1>4 DEF Config, Canon
  <2>2. Head(<<"opcode">>) \notin AddrReads \cup ValReads
    BY DEF AddrReads, ValReads, Backs, Vectors
  <2>3. Canon(Writable, cpu, <<"opcode">>, "opcode", addr', val')
          = Canon(Writable, cpu, <<"opcode">>, "opcode", 0, 0)
    BY <2>2, CanonEqual
  <2>4. Config.todo = <<>> /\ Config.mem = Writable /\ Config.cpu = cpu
    BY <1>3, ConfigIs
  <2> QED BY <2>1, <2>3, <2>4 DEF NextOf
<1>6. Advances
  BY <1>3, <1>4, <1>5 DEF Advances
<1>7. Quiet'
  BY <1>1, <1>4 DEF Quiet
<1> QED BY <1>1, <1>3, <1>4, <1>6, <1>7 DEF GoingOn

\* An undocumented opcode goes on to its dummy read.
LEMMA IllegalAdvances ==
    ASSUME Inv, QuietInv, phase \in {"record", "replay"}, CallIllegalHook
    PROVE  GoingOn
<1>1. Quiet /\ outer = <<>> /\ FrameOK(Frame)
  BY DEF QuietInv, Inv, FrameInv
<1>2. /\ todo # <<>> /\ Now = "illegal" /\ todo' = Tail(todo) /\ hook' = "illegal"
      /\ UNCHANGED <<machine, snap, seen, outer, phase, path, kind>>
  BY DEF CallIllegalHook, ghosts
<1>3. /\ UNCHANGED <<os, sideways, cpu, resetPending, nmiPending, irqLine, rdy>>
      /\ Writable' = Writable
  BY <1>2, MachineUnchanged
<1>4. todo' # <<>> => Head(todo') = "dummy"
  <2>1. Chained(todo)
    BY <1>1, FrameFields
  <2>2. todo' # <<>> => Follows("illegal", Head(todo'))
    BY <1>2, <2>1, TailChained DEF Now
  <2> QED BY <2>2 DEF Follows, Backs
<1>5. Config' = NextOf(os, sideways, Config)
  <2>1. Config' = Canon(Writable, cpu, todo', kind, addr', val')
    BY <1>2, <1>3 DEF Config, Canon
  <2>2. "dummy" \notin AddrReads \cup ValReads
    BY DEF AddrReads, ValReads, Backs, Vectors
  <2>3. Canon(Writable, cpu, todo', kind, addr', val') = Canon(Writable, cpu, todo', kind, 0, 0)
    BY <1>4, <2>2, CanonEqual
  <2>4. Config.todo = todo /\ Config.mem = Writable /\ Config.cpu = cpu /\ Config.kind = kind
    BY <1>2, ConfigIs
  <2> QED BY <1>2, <2>1, <2>3, <2>4 DEF NextOf, Now
<1>6. todo # <<"opcode">>
  BY <1>2 DEF Now
<1>7. Advances
  BY <1>2, <1>3, <1>5, <1>6 DEF Advances
<1>8. Quiet'
  BY <1>1, <1>3 DEF Quiet
<1>9. kind \in {"opcode", "brk"}
  BY <1>2 DEF QuietInv
<1> QED BY <1>1, <1>2, <1>3, <1>7, <1>8, <1>9 DEF GoingOn

\* An access leaves no signal up.
LEMMA AccessGoesOn ==
    ASSUME WholeRam, Inv, QuietInv, phase \in {"record", "replay"}, AccessStep
    PROVE  GoingOn
<1>1. todo # <<>> /\ hook' = "none" /\ os' = os /\ sideways' = sideways /\ \E v : Finish(v)
  BY AccessEnds DEF AccessOK
<1>2. UNCHANGED <<snap, seen, outer, phase, path>>
  BY <1>1 DEF Finish
<1>3. /\ Quiet /\ outer = <<>> /\ kind \in {"opcode", "brk"}
      /\ hook = "unmapped" => FiresHook
  BY <1>1 DEF QuietInv
<1>4. /\ Config' = AccessOf(os, sideways, Config) /\ Now # "illegal"
      /\ cpu'.cycles = cpu.cycles + 1
      /\ Quiet' /\ kind' \in {"opcode", "brk"}
  BY <1>3, AccessAdvances
<1>5. Config' = NextOf(os, sideways, Config)
  BY <1>1, <1>4, ConfigIs DEF NextOf, Now
<1>6. Advances
  BY <1>1, <1>2, <1>4, <1>5 DEF Advances
<1> QED BY <1>1, <1>2, <1>3, <1>4, <1>6 DEF GoingOn

\* The other steps between accesses change nothing, or end the recording.
LEMMA FrameStays ==
    ASSUME Inv, QuietInv, phase \in {"record", "replay"}, FrameOnly, ~Step, ~CallIllegalHook
    PROVE  \/ GoingOn
           \/ phase' = "hold" /\ path' = path
<1>1. /\ Quiet /\ outer = <<>> /\ (todo # <<>> => kind \in {"opcode", "brk"})
      /\ hook = "unmapped" => FiresHook
      /\ ~running => todo = <<>>
  BY DEF QuietInv, Inv, FrameInv
<1>2. /\ UNCHANGED <<os, sideways, bank, cpu, resetPending, nmiPending, irqLine, rdy, snap, seen>>
      /\ Writable' = Writable
  BY FrameOnlyMachine, MachineUnchanged
<1>3. Quiet'
  BY <1>1, <1>2 DEF Quiet
<1>4. ASSUME UNCHANGED <<outer, todo, kind, addr, val, phase, path>>,
             hook' = "unmapped" => FiresHook
      PROVE  GoingOn
  <2>1. Config' = Config
    BY <1>2, <1>4 DEF Config, Canon
  <2>2. FiresHook' = FiresHook
    BY <1>2, <1>4 DEF FiresHook, IsWrite, BusAddr, Now, WriteFiresHook, ReadFiresHook
  <2> QED BY <1>1, <1>2, <1>3, <1>4, <2>1, <2>2 DEF GoingOn, Stays
<1>5. ASSUME NEW b \in Budgets \cup HookBudgets, Tick(b)
      PROVE  GoingOn \/ (phase' = "hold" /\ path' = path)
  <2>1. CASE running
    BY <1>5, <2>1 DEF Tick, Interferes
  <2>2. CASE ~running
    <3>1. /\ todo' = todo /\ outer' = outer /\ hook' = "none"
          /\ UNCHANGED <<kind, addr, val, phase, path>>
      BY <1>1, <1>5, <2>2 DEF Tick
    <3> QED BY <1>4, <3>1
  <2> QED BY <2>1, <2>2
<1>6. CASE TickReturns
  <2>1. /\ hook = "none" /\ UNCHANGED <<outer, todo, kind, addr, val, hook, phase, path>>
    BY <1>1, <1>6 DEF TickReturns, Boundary, locals, ghosts
  <2> QED BY <1>4, <2>1
<1>7. CASE CallUnmappedHook
  BY <1>4, <1>7 DEF CallUnmappedHook, locals, ghosts
<1>8. CASE IllegalHookReturns
  BY <1>4, <1>8 DEF IllegalHookReturns, locals, ghosts
<1> QED BY <1>5, <1>6, <1>7, <1>8 DEF FrameOnly

\* A step of the host starts a recording or a replay, or ends it.
LEMMA HostReplay ==
    ASSUME Inv, HostStep, phase \in Phases
    PROVE  \/ phase' = "off" /\ path' \in {path, {}}
           \/ phase' = "hold" /\ path' = path /\ phase # "off" /\ (seen' # NoView =>
                snap' = snap /\ os' = os /\ sideways' = sideways /\ seen' = seen)
           \/ phase' = "record" /\ HostSnapshots /\ Quiet /\ ~running /\ path' = {}
           \/ phase' = "replay" /\ HostRestores /\ err' = "ok" /\ ~running /\ seen # NoView
              /\ Quiet' /\ path' = path /\ phase # "off"
<1>1. MachineTypeOK /\ SnapInv
  BY DEF Inv
<1>2. CASE HostLoads
  BY <1>1, <1>2, LoadMemory DEF HostLoads, Interferes
<1>3. CASE HostResets
  BY <1>1, <1>3, ResetMemory DEF HostResets, Interferes
<1>4. CASE HostSnapshots
  BY <1>4 DEF HostSnapshots
<1>5. CASE HostForges
  BY <1>5 DEF HostForges, ForgeSnapshot, Interferes
<1>6. CASE HostRestores
  BY <1>1, <1>6, RestoreMemory DEF HostRestores
<1>7. CASE HostSignals
  BY <1>1, <1>7, SignalMemory DEF HostSignals, Interferes
<1> QED BY <1>2, <1>3, <1>4, <1>5, <1>6, <1>7 DEF HostStep

\* Cycle counts grow: what began before one configuration began before the next.
LEMMA BeyondAdvances ==
    ASSUME Beyond(Config), path \in SUBSET Registers, cpu \in Registers, Advances
    PROVE  Beyond(Config)'
<1> SUFFICES ASSUME NEW r \in path'
             PROVE  r.cycles < cpu'.cycles \/ (r.cycles = cpu'.cycles /\ todo' = <<"opcode">>)
  BY DEF Beyond, Config, Canon
<1>1. cpu.cycles \in Nat /\ \A q \in path : q.cycles \in Nat
  BY DEF Registers
<1>2. r \in path => r.cycles < cpu.cycles \/ (r.cycles = cpu.cycles /\ todo = <<"opcode">>)
  BY DEF Beyond, Config, Canon
<1>3. r \in path \/ (r = cpu /\ todo = <<>>)
  BY DEF Advances
<1>4. CASE todo = <<>> /\ todo' = <<"opcode">> /\ cpu' = cpu
  <2>1. todo # <<"opcode">>
    BY <1>4
  <2> QED BY <1>1, <1>2, <1>3, <1>4, <2>1
<1>5. CASE todo # <<>> /\ todo # <<"opcode">> /\ cpu' = cpu
  BY <1>1, <1>2, <1>3, <1>5
<1>6. CASE cpu'.cycles = cpu.cycles + 1
  BY <1>1, <1>2, <1>3, <1>6
<1> QED BY <1>4, <1>5, <1>6 DEF Advances

\* Every step keeps QuietInv, and ReplayInv.
LEMMA QuietStep == ASSUME WholeRam, Inv, QuietInv, Next PROVE QuietInv'
<1>1. MachineTypeOK /\ FrameOK(Frame) /\ (~running => todo = <<>> /\ outer = <<>> /\ hook = "none")
  BY DEF Inv, FrameInv
<1>2. cpu \in Registers /\ phase \in Phases /\ path \in SUBSET Registers
  BY <1>1 DEF MachineTypeOK, QuietInv
<1>3. CASE phase \in {"record", "replay"} /\ GoingOn
  <2>1. path' \in SUBSET Registers
    BY <1>2, <1>3 DEF GoingOn, Stays, Advances
  <2> QED BY <1>2, <1>3, <2>1 DEF GoingOn, QuietInv
<1>4. CASE phase' \in {"hold", "off"} /\ path' \in {path, {}}
  BY <1>2, <1>4 DEF QuietInv, Phases
<1>5. CASE HostStep
  <2>1. /\ HostRuns /\ UNCHANGED <<running, outer, deadline, kind, todo, addr, val, hook>>
    BY <1>5, HostFrame
  <2>2. CASE phase' = "record" /\ HostSnapshots /\ Quiet /\ ~running /\ path' = {}
    <3>1. UNCHANGED machine /\ seen' = View
      BY <2>2 DEF HostSnapshots, Snapshot
    <3>2. View # NoView
      <4>1. 0 \in BusAddrs
        BY WordRange DEF WholeRam
      <4>2. DOMAIN View = BusAddrs
        BY DEF View
      <4>3. DOMAIN NoView = {}
        BY DEF NoView
      <4> QED BY <4>1, <4>2, <4>3
    <3>3. Quiet'
      BY <2>2, <3>1, MachineUnchanged DEF Quiet
    <3>4. seen' # NoView
      BY <3>1, <3>2 DEF NoView
    <3> QED BY <1>1, <2>1, <2>2, <3>3, <3>4 DEF QuietInv, Phases
  <2>3. CASE /\ phase' = "replay" /\ HostRestores /\ err' = "ok" /\ ~running /\ seen # NoView
             /\ Quiet' /\ path' = path
    <3>1. seen' = seen
      BY <2>3 DEF HostRestores, Restore, Fails
    <3>2. seen' # NoView
      BY <2>3, <3>1 DEF NoView
    <3> QED BY <1>1, <1>2, <2>1, <2>3, <3>2 DEF QuietInv, Phases
  <2> QED BY <1>2, <1>4, <1>5, <2>2, <2>3, HostReplay
<1>6. CASE phase \in {"record", "replay"} /\ ~HostStep
  BY <1>3, <1>4, <1>6, StepAdvances, IllegalAdvances, AccessGoesOn, FrameStays, NextSplit
     DEF FrameOnly
<1>7. CASE phase \in {"off", "hold"} /\ ~HostStep
  <2>1. phase' \in {"off", "hold"} /\ path' = path
    <3>1. CASE AccessStep
      <4>1. \E v : Finish(v)
        BY <3>1, AccessEnds
      <4> QED BY <1>7, <4>1 DEF Finish
    <3>2. CASE FrameOnly
      BY <1>7, <3>2 DEF FrameOnly, Tick, Interferes, TickReturns, Step, CallUnmappedHook,
                        CallIllegalHook, IllegalHookReturns, ghosts
    <3> QED BY <1>7, <3>1, <3>2, NextSplit DEF FrameOnly
  <2> QED BY <1>4, <2>1
<1> QED BY <1>2, <1>5, <1>6, <1>7 DEF Phases

\* A trail stays one as long as the Snapshot, the ROMs and the path stay.
LEMMA TrailStays ==
    ASSUME NEW CONSTANT H, NEW CONSTANT tip, Trail(H, tip),
           UNCHANGED <<snap, os, sideways, path>>
    PROVE  Trail(H, tip)'
BY DEF Trail, Beyond, Origin, SnapMem

\* The steps of a recording lengthen the trail.
LEMMA TrailGrows ==
    ASSUME NEW CONSTANT H, NEW CONSTANT tip, Trail(H, tip), tip = Config,
           path \in SUBSET Registers, cpu \in Registers,
           Advances, UNCHANGED <<snap, os, sideways>>, phase = "record",
           NEW CONSTANT n, n = Config'
    PROVE  Trail(H \cup {n}, n)'
<1>1. Origin' = Origin /\ Origin \in H
  BY DEF Origin, SnapMem, Trail
<1>2. Beyond(Config)'
  BY BeyondAdvances DEF Trail
<1>3. Beyond(n)'
  BY <1>2 DEF Beyond
<1>4. path' = (IF todo = <<>> THEN path \cup {cpu} ELSE path) /\ n = NextOf(os, sideways, Config)
  BY DEF Advances
<1>5. ASSUME NEW CONSTANT s \in H, s # n
      PROVE  NextOf(os, sideways, s) \in H \cup {n} /\ (s.todo = <<>> => s.cpu \in path')
  <2>1. CASE s # tip
    BY <1>4, <1>5, <2>1 DEF Trail
  <2>2. CASE s = tip
    <3>1. s.todo = todo /\ s.cpu = cpu
      BY <2>2, ConfigIs
    <3> QED BY <1>4, <2>2, <3>1
  <2> QED BY <2>1, <2>2
<1>6. \A s \in H \cup {n} : s # n => /\ NextOf(os', sideways', s) \in H \cup {n}
                                     /\ s.todo = <<>> => s.cpu \in path'
  BY <1>5
<1> QED BY <1>1, <1>3, <1>6 DEF Trail

LEMMA ReplayStep == ASSUME WholeRam, Inv, QuietInv, ReplayInv, Next PROVE ReplayInv'
<1>1. MachineTypeOK /\ SnapInv /\ FrameInv
  BY DEF Inv
<1>2. cpu \in Registers /\ phase \in Phases /\ path \in SUBSET Registers
  BY <1>1 DEF MachineTypeOK, QuietInv
<1>3. CASE phase \in {"record", "replay"} /\ GoingOn
  <2>1. seen # NoView /\ phase # "off"
    BY <1>3 DEF QuietInv
  <2>2. PICK H, tip :
           /\ Trail(H, tip)
           /\ phase = "record" => tip = Config
           /\ phase = "replay" => Config \in H \/ Beyond(Config)
    BY <2>1 DEF ReplayInv
  <2>3. UNCHANGED <<snap, os, sideways, phase>>
    BY <1>3 DEF GoingOn
  <2>4. CASE Stays
    <3>1. Trail(H, tip)' /\ (Beyond(Config) => Beyond(Config)')
      BY <2>2, <2>3, <2>4, TrailStays DEF Stays, Beyond
    <3> QED BY <2>2, <2>3, <2>4, <3>1 DEF Stays, ReplayInv
  <2>5. CASE Advances /\ phase = "record"
    <3>1. PICK n : n = Config'
      OBVIOUS
    <3>2. Trail(H \cup {n}, n)'
      BY <1>2, <2>2, <2>3, <2>5, <3>1, TrailGrows
    <3> QED BY <2>3, <2>5, <3>1, <3>2 DEF ReplayInv
  <2>6. CASE Advances /\ phase = "replay"
    <3>1. path' = path /\ Config' = NextOf(os, sideways, Config)
      BY <2>6 DEF Advances
    <3>2. Trail(H, tip)'
      BY <2>2, <2>3, <3>1, TrailStays
    <3>3. CASE Config \in H /\ Config # tip
      <4>1. Config' \in H
        BY <2>2, <3>1, <3>3 DEF Trail
      <4> QED BY <2>3, <2>6, <3>2, <4>1 DEF ReplayInv
    <3>4. CASE Config = tip \/ Beyond(Config)
      <4>1. Beyond(Config)
        BY <2>2, <3>4 DEF Trail
      <4>2. Beyond(Config)'
        BY <1>2, <2>6, <4>1, BeyondAdvances
      <4> QED BY <2>3, <2>6, <3>2, <4>2 DEF ReplayInv
    <3> QED BY <2>2, <2>6, <3>3, <3>4
  <2> QED BY <1>3, <2>4, <2>5, <2>6 DEF GoingOn
<1>4. CASE phase' = "off" \/ seen' = NoView
  BY <1>4 DEF ReplayInv, NoView
<1>5. CASE /\ phase # "off" /\ phase' = "hold" /\ seen' # NoView
           /\ UNCHANGED <<snap, os, sideways, seen, path>>
  <2>1. PICK H, tip : Trail(H, tip)
    BY <1>5 DEF ReplayInv, NoView
  <2>2. Trail(H, tip)'
    BY <1>5, <2>1, TrailStays
  <2> QED BY <1>5, <2>2 DEF ReplayInv
<1>6. CASE HostStep
  <2>1. UNCHANGED <<running, outer, deadline, kind, todo, addr, val, hook>>
    BY <1>6, HostFrame
  <2>2. ~running => todo = <<>>
    BY <1>1 DEF FrameInv
  <2>3. CASE phase' = "record" /\ HostSnapshots /\ Quiet /\ ~running /\ path' = {}
    <3>1. snap' = Capture /\ UNCHANGED machine
      BY <2>3 DEF HostSnapshots, Snapshot
    <3>2. Writable' = Writable /\ cpu' = cpu /\ todo' = <<>>
      BY <2>1, <2>2, <2>3, <3>1, MachineUnchanged
    <3>3. SnapMem' = Writable /\ snap'.cpu = cpu
      BY <3>1 DEF SnapMem, Capture, Writable
    <3>4. Origin' = Canon(Writable, cpu, <<>>, "opcode", 0, 0)
      BY <3>3 DEF Origin, Canon
    <3>5. Config' = Canon(Writable, cpu, <<>>, kind', addr', val')
      BY <3>2 DEF Config, Canon
    <3>6. Config' = Origin'
      BY <3>4, <3>5, CanonEqual
    <3>7. PICK n : n = Config'
      OBVIOUS
    <3>8. Trail({n}, n)'
      BY <2>3, <3>6, <3>7 DEF Trail, Beyond
    <3> QED BY <2>3, <3>7, <3>8 DEF ReplayInv
  <2>4. CASE /\ phase' = "replay" /\ HostRestores /\ err' = "ok" /\ ~running /\ seen # NoView
             /\ Quiet' /\ path' = path /\ phase # "off"
    <3>1. Restore
      BY <2>4 DEF HostRestores
    <3>2. /\ UNCHANGED <<os, sideways, snap, seen>> /\ SnapOK(snap)
          /\ Writable' = [ram |-> snap.ram, bank |-> snap.bank % 4, regs |-> snap.regs,
                          selected |-> snap.selected % 18]
      BY <1>1, <2>4, <3>1, RestoreMemory
    <3>3. snap.bank \in 0..3 /\ snap.selected \in 0..17
      BY <1>1, <2>4 DEF SnapInv
    <3>4. snap.bank % 4 = snap.bank /\ snap.selected % 18 = snap.selected
      BY <3>3
    <3>5. Writable' = SnapMem
      BY <3>2, <3>4 DEF SnapMem
    <3>6. cpu' = snap.cpu
      BY <2>4, <3>1 DEF Restore, Fails, SetRegisters
    <3>7. Config' = Origin
      <4>1. Config' = Canon(SnapMem, snap.cpu, <<>>, kind', addr', val')
        BY <2>1, <2>2, <2>4, <3>5, <3>6 DEF Config, Canon
      <4> QED BY <4>1, CanonEqual DEF Origin
    <3>8. PICK H, tip : Trail(H, tip)
      BY <2>4 DEF ReplayInv
    <3>9. Trail(H, tip)' /\ Config' \in H
      BY <2>4, <3>2, <3>7, <3>8, TrailStays DEF Trail
    <3> QED BY <2>4, <3>9 DEF ReplayInv
  <2> QED BY <1>2, <1>4, <1>5, <1>6, <2>3, <2>4, HostReplay
<1>7. CASE phase \in {"record", "replay"} /\ ~HostStep
  <2>1. AccessStep \/ FrameOnly
    BY <1>7, NextSplit DEF FrameOnly
  <2>2. GoingOn \/ (FrameOnly /\ phase' = "hold" /\ path' = path)
    BY <1>7, <2>1, StepAdvances, IllegalAdvances, AccessGoesOn, FrameStays
  <2>3. FrameOnly => UNCHANGED <<snap, os, sideways, seen>>
    BY FrameOnlyMachine, MachineUnchanged
  <2> QED BY <1>3, <1>4, <1>5, <1>7, <2>2, <2>3
<1>8. CASE phase \in {"off", "hold"} /\ ~HostStep
  <2>1. phase' \in {phase, "hold"} /\ path' = path /\ (phase = "off" => phase' = "off")
        /\ UNCHANGED <<snap, os, sideways, seen>>
    <3>1. CASE AccessStep
      <4>1. os' = os /\ sideways' = sideways /\ \E v : Finish(v)
        BY <3>1, AccessEnds
      <4> QED BY <1>8, <4>1 DEF Finish
    <3>2. CASE FrameOnly
      <4>1. UNCHANGED <<snap, os, sideways, seen>>
        BY <3>2, FrameOnlyMachine, MachineUnchanged
      <4> QED BY <1>8, <3>2, <4>1
              DEF FrameOnly, Tick, Interferes, TickReturns, Step, CallUnmappedHook,
                  CallIllegalHook, IllegalHookReturns, ghosts
    <3> QED BY <1>8, <3>1, <3>2, NextSplit DEF FrameOnly
  <2> QED BY <1>4, <1>5, <1>8, <2>1
<1> QED BY <1>2, <1>6, <1>7, <1>8 DEF Phases

LEMMA ReplayStutters ==
    ASSUME QuietInv, ReplayInv, UNCHANGED vars PROVE QuietInv' /\ ReplayInv'
<1>1. UNCHANGED <<ram, os, sideways, bank, regs, selected, cpu, resetPending, nmiPending, irqLine,
                  rdy, snap, seen, outer, kind, todo, addr, val, hook, phase, path>>
  BY DEF vars
<1>2. Writable' = Writable /\ Quiet' = Quiet /\ FiresHook' = FiresHook
  BY <1>1 DEF Writable, Quiet, FiresHook, IsWrite, BusAddr, Now, WriteFiresHook, ReadFiresHook
<1>3. Config' = Config /\ (Beyond(Config) => Beyond(Config)')
  BY <1>1, <1>2 DEF Config, Canon, Beyond
<1>4. QuietInv'
  BY <1>1, <1>2 DEF QuietInv
<1>5. ReplayInv'
  <2>1. CASE phase # "off" /\ seen # NoView
    <3>1. PICK H, tip :
             /\ Trail(H, tip)
             /\ phase = "record" => tip = Config
             /\ phase = "replay" => Config \in H \/ Beyond(Config)
      BY <2>1 DEF ReplayInv
    <3>2. Trail(H, tip)'
      BY <1>1, <3>1, TrailStays
    <3> QED BY <1>1, <1>3, <3>1, <3>2 DEF ReplayInv
  <2>2. CASE ~(phase # "off" /\ seen # NoView)
    BY <1>1, <2>2 DEF ReplayInv, NoView
  <2> QED BY <2>1, <2>2
<1> QED BY <1>4, <1>5

\* Board.RestoreReplays: after a Restore between Ticks, with no signal up and no
\* host in the way, CPU.Step begins the instructions it began after the Snapshot,
\* with the same registers and cycle counts (Machine.Snapshot, Machine.Restore).
THEOREM RestoreReplaysHolds == WholeRam => (Spec => RestoreReplays)
<1> SUFFICES ASSUME WholeRam PROVE Spec => RestoreReplays
  OBVIOUS
<1>1. Init => QuietInv /\ ReplayInv
  BY DEF Init, QuietInv, ReplayInv, Phases
<1>2. Inv /\ QuietInv /\ ReplayInv /\ [Next]_vars => QuietInv' /\ ReplayInv'
  BY QuietStep, ReplayStep, ReplayStutters
<1>3. Inv /\ QuietInv /\ ReplayInv =>
        [Step /\ phase = "replay" /\ (\E r \in path : r.cycles >= cpu.cycles)
            => kind' = "opcode" /\ cpu \in path]_vars
  <2> SUFFICES ASSUME Inv, QuietInv, ReplayInv, Step, phase = "replay",
                      NEW r \in path, r.cycles >= cpu.cycles
               PROVE  kind' = "opcode" /\ cpu \in path
    OBVIOUS
  <2>1. kind' = "opcode" /\ todo = <<>>
    BY StepAdvances
  <2>2. r.cycles \in Nat /\ cpu.cycles \in Nat
    BY DEF QuietInv, Registers, Inv, MachineTypeOK
  <2>3. Config.todo = <<>> /\ Config.cpu = cpu /\ <<>> # <<"opcode">>
    BY <2>1, ConfigIs
  <2>4. ~Beyond(Config)
    BY <2>2, <2>3 DEF Beyond
  <2>5. PICK H, tip : Trail(H, tip) /\ Config \in H
    BY <2>4 DEF ReplayInv, QuietInv
  <2>6. Config # tip
    BY <2>4, <2>5 DEF Trail
  <2> QED BY <2>1, <2>3, <2>5, <2>6 DEF Trail
<1> QED BY <1>1, <1>2, <1>3, InvHolds, PTL DEF Spec, RestoreReplays
===============================================================================
