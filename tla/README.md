# GoBeeb in TLA+

GoBeeb is a BBC Micro Model B emulator in Go. `src/mos6502` is a cycle-accurate
NMOS 6502, `src/bbc` the machine around it (memory map, ROM banks, stub
peripherals, snapshot), and `src/mos6502/gen.go` a generator that fetches the
test corpus the CPU is checked against. This directory models the three, checks
the models with TLC and proves the most important results with TLAPS.

## 1. Inventory

| Component | State | Operations | What is hard | What makes it correct |
|---|---|---|---|---|
| Signals, interrupt entry, stack (`cpu.go`, `interrupts.go`, stack part of `instructions.go`) | PC, SP, P, stack page; `irqLine`, `nmiPending`, `nmiPrev`, `resetPending`, `rdy` | `AssertNMI/DeassertNMI/AssertIRQ/DeassertIRQ/AssertReset/SetRDY/SetRegisters`, `Step`, `enterInterrupt`, the instructions | Every bus access calls the host's `Memory`, which may raise signals between two accesses of an entry; the vector is chosen late (hijack); SP wraps in the middle of a frame | No NMI edge lost or serviced twice; the stacked B tells the cause; RTI resumes exactly; RESET writes nothing; signals are not starved |
| Instructions (`instructions.go`, `rmw.go`, `illegal.go`, `addressing.go`, `opcodes.go`) | registers and memory | one handler per opcode | page crossing, pointer wrap, dummy reads, JSR fetching its operand after its pushes; a hand-written table of lengths and cycles | Cycles equal the table plus the documented penalty; pointers stay in their page; calls return |
| Arithmetic (`arith.go`, `compare`) | A, P | ADC, SBC, CMP, binary and decimal | nibble corrections, carry and borrow across bytes, V | Sums of numbers of any length are exact |
| Disassembler (`disasm.go`) | none | `Disassemble` | written beside the handlers, may drift | It predicts where the next instruction is |
| Run loop (`cpu.go` `Run`, `Step`, `StepCycle`) | `cycles` (uint64), `rdy` | `Run`, `Machine.Tick` | wrap of the deadline; RDY going low in the loop | Budget met with less than one instruction of overshoot; it returns |
| Bus trace (`trace.go`) | `events`, `head`, `full` | `append`, `Reset`, `Len`, `Snapshot`, `SetTrace` | ring wrap, reset after a wrap, capacity <= 1 | It is the log of the last events |
| Memory map, ROMs, peripherals (`memory_map.go`, `rom_select.go`, `crtc.go`, ...) | RAM, images, bank latch, ten register files, CRTC index | `Read`, `Write`, `ioRead`, `ioWrite` | two hand-written decoders, mirrors, index into an array of 18 | Writes stay local and read back; hooked accesses do nothing |
| Machine (`machine.go`, `rom.go`, `snapshot.go`) | all of the above | loaders, `Reset`, `ColdReset`, `Snapshot`, `Restore`, `Tick`, signals | calls in any order, snapshots edited by the host | Restore brings back what was readable and what is executed next; ColdReset clears; a reset comes first and boots clean; indexes stay in range |
| Hooks (`unmapped.go`, `illegal.go`) | the two hook functions | `fireUnmapped`, `illegalNOP` | host code in the middle of a bus access, holding the Machine: resets, restores, signals and Ticks meet an instruction half done | No reset and no NMI edge is lost there, no index leaves its array |
| Corpus generator (`gen.go`) | corpus directory, marker file | `main` and its git commands | any step may fail half-way or be killed; upstream moves; the pin is bumped | Exit 0 means the pinned corpus is there |

How they interact: `Machine.Tick` calls `CPU.Run`, which calls `Step` until the
deadline. `Step` looks at the latches (RDY, then RESET, NMI, IRQ), enters an
interrupt or dispatches an opcode. Each bus cycle goes through `CPU.read` or
`CPU.write`: it calls the `Memory` (in a Machine, the `MemoryMap`), counts a
cycle and appends to the trace. Everything runs in one goroutine; concurrency
comes from callbacks: `Memory.Read/Write` and the two hooks run host code in the
middle of an instruction, and that code may call any method of the Machine. The
generator is a separate process; only its files outlive it.

## 2. Modules

| Module | Models | Notes |
|---|---|---|
| `Status` | `status.go`, P as pushed and pulled | P is a set of flag names; `Encode`/`Decode` convert it to the byte on the stack |
| `Interrupts` | latches, `enterInterrupt`, stack instructions | one action per host call and per bus access of an entry |
| `RunLoop` | `Run`, `Step` over a wrapping counter | |
| `RecentLog` | abstract: the last `Cap` events | |
| `BusTrace` | `trace.go` | implements `RecentLog` (`log <- Snapshot`) |
| `Alu`, `Arith` | `arith.go`, shifts, compare; numbers of several bytes | |
| `Opcodes` | opcode table, `Disassemble` | |
| `Instructions` | all 151 opcodes and the illegal NOP with their bus cycles | extends `Alu`, `Opcodes` |
| `MemoryMap` | address decoding, ROM banks, peripherals | state without a `Next` |
| `BusAccess` | `MemoryMap` driven by bus writes | |
| `Machine` | the host's operations: loaders, resets, `Snapshot`, `Restore`, signals | extends `MemoryMap`; actions without a `Next` |
| `Board` | `Tick`: the CPU on the memory map, bus access by bus access, with both hooks | composes `Machine` with `Run`, `Step`, `enterInterrupt` and a part of the instruction set |
| `CorpusFetch` | `gen.go`; git and the file system as far as `main` relies on them | |

`MC*` modules give the constants their values; `*Proofs` hold the theorems, those
of `BusAccess` in `MemoryMapProofs`. A
definition commented "Seeded fault" is a plausible bug: put in the place of the
definition after it, it must break the property it is paired with in
`PROJECT.json`.

How the code's shape is kept:

* **Interrupts.** `cycle = k` means that access k+1 of the entry is under way. A
  host call between two entry actions is a call made by `Memory.Read/Write`
  during that access, and sees what the code has assigned by then: the latch is
  cleared in `EntryVectorHi`, at the end of `enterInterrupt`, and the vector
  chosen in `EntryPushP`, after the push of P. Ordinary instructions are one
  step, because none of them reads a latch. `line`, `owed`, `resume` and `frames`
  are history variables: the host's view of the NMI line, whether an edge awaits
  service, what is interrupted, and the frames on the stack nobody has written
  over. No action's guard reads them.
* **Instructions.** `Load` puts an opcode and its operands at PC, one action per
  handler family executes it. `bus` is the list of accesses, in order, dummy
  reads included; memory is an overlay on a background of unequal bytes, and a
  read after a write of the same instruction sees the write (JSR).
* **MemoryMap.** Real 16-bit addresses. A read has no side effect in any stub of
  the repository, so it is an operator; a write is an action.
* **Machine.** `Call` counts the calls that change something; failing calls
  (`Fails`) return before they change anything. `ForgeSnapshot` is the host
  editing the index fields of a `Snapshot`, which is a plain value.
* **Board.** `todo` lists the accesses the instruction or entry in flight still has
  to make; each step makes one, and `Finish` does what the code does when the
  access returns. An access that fires the unmapped hook takes two steps,
  `CallUnmappedHook` and `UnmappedHookReturns`, and the host's operations may come
  between them, or between two Ticks. What Go keeps in locals (`addr`, `val`,
  `kind`) survives such a call; registers, latches and memory are read when the
  code reads them, so STA stores the A it finds after the hook and a fetch
  increments the PC it finds. A Tick in a hook pushes the waiting frames on
  `outer`. Opcodes are numbers and ROM images are programs in memory: after a
  Restore in a hook PC may be on an operand, which is then executed as an opcode.
  At an opcode outside `Opcode` the model stops, and TLC reports a deadlock.
  `owed`, `due`, `boot`, `booted`, `single`, `nextStep`, `phase` and `path` are
  history variables that no guard reads.
* **CorpusFetch.** One action per step of `main`, and for the steps that can stop
  half-way (RemoveAll, checkout, WriteFile) an action that leaves a part done.
  `RemoveAll` takes the whole directory, so the git state (`remote`, `fetched`,
  HEAD) goes with the files and the marker. `remote` is modelled because
  `git remote add` refuses a remote that exists already: without the wipe of
  `.git` no run after a failed one would get past that step (`Recovers`).

## 3. Runs

| Run | Question | Bounds |
|---|---|---|
| `interrupt_stack` | stacked status, RTI, types | 3 instructions or `SetRegisters` calls, one NMI edge, any IRQ and RDY changes; PC at $01FF and SP at 1, so both wrap |
| `interrupt_signals` | NMI latch, RESET, and liveness | 3 edges, 1 RESET besides the first, 1 instruction |
| `late_nmi_edge` (violation) | is every unserviced edge latched? | as above without instructions |
| `run_loop` | budget, termination | a counter of 32 values for 2^64, any start value, budgets 0, 1, 6, 20, instructions of 2, 3 and 7 cycles |
| `bus_trace` | refinement of the log | capacity 4, three events: several wraps, resets at every head |
| `arith` | exact sums, V, decimal digits, CMP | two-byte numbers with bytes 1, 9, $50, $7F, $80, $99: both sides of digit, signed and unsigned edges |
| `instruction_set` | cycles, pointers, disassembler, types; JSR/RTS | one instruction of every opcode (two illegal ones) from 24 register files at page, stack and memory ends, 9 operand pairs; programs of four of JSR, RTS, PHA, PLA, TXS, INC with the stack wrapping and code in the stack page |
| `bus_access` | locality, read-back, hook | two writes, first and last address of every region and mirrors, every set of loaded ROMs |
| `board` | resets, NMI edges, read-modify-write, snapshots, cold reset, indexes | six calls of the Machine between Ticks or from hooks; budgets 1 and 20, 1 for a Tick in a hook, one level deep; one ROM image, as OS and in bank 2 |
| `restore_resumes` (violation) | does Restore resume execution? | as `board` |
| `tick_without_os` (violation) | does the first Tick after LoadOSROM boot? | as `board` |
| `corpus_fetch` | exit 0, failed runs, recovery | three commits, six failures or outside changes at any point |

Why the bounds are enough. Interrupt entries need one edge to hijack and two more
to show a lost or doubled service, and three instructions between an entry and
its RTI reach nesting, TXS and stack stores. The run loop compares and adds
modulo the counter's width: a short counter only makes the wrap near. Ring
behaviour depends on `head` and `full`, and all their combinations are reached.
Two writes are a write and one that may disturb it. On the board, load, boot,
snapshot, run, restore and run again are six calls, and so are load, boot and
three calls in hooks with the Tick that meets them; a budget of 20 takes the
program from its start through the CRTC, ROM select and BRK to the open bus, and
its IRQ and NMI handlers to the sideways window, where an empty bank fires both
hooks. The ROM image uses eleven opcodes, enough for every kind of access
(fetch, load, store, double write, push, vector); the rest of the instruction set
is in `Instructions`. X and Y stay 0. Deadlock is checked in all
runs.

Fairness. `Interrupts`: weak fairness of `CpuStep`, because a host that runs the
machine calls `Step`, `Run` or `Tick` again and again; nothing is assumed of the
host's signal calls, and the three liveness properties are conditional on RDY
staying high from some point (`IrqNotIgnored` on the line being held too).
`RunLoop`: weak fairness of the loop body, because `Run` is a synchronous call.
`CorpusFetch`: weak fairness of the steps of a run, because git commands end and
`go generate` is run again; `Recovers` speaks of the time after the last fault,
and starts from whatever the failed runs left in the directory, a repository with
its remote included.

## 4. Proofs

All hold for every value of the constants that satisfies the named assumptions;
the bounds of section 3 are parameters there.

* `InterruptsProofs`: `TypeCorrect`; `NmiLatchCorrect`, `ResetWritesNothingHolds`,
  `RtiResumesHolds` and `StackedStatusCorrect` (for a host that never puts B in
  the live P). The properties are not inductive: an entry in progress has pushed
  a part of its frame, so `EntryInv` says for each value of `cycle` which bytes
  are on the stack already and that PC and P are still the interrupted ones;
  `FramesInv` that every frame not written over holds its three bytes; `LatchInv`
  relates the latch to the edge owed, inside an NMI entry too, where the latch
  stays set until the end. `BreakInv`, needed by `StackedStatusCorrect` only, says
  that B is never live. Lemmas of their own: arithmetic modulo 256 and 65536, and
  P and PC written to the stack as bytes come back as they were.
* `RunLoopProofs`: `BudgetMetHolds`, from `CallInv`: while a call that fits runs,
  the deadline is start + budget, the counter start + consumed, and less than an
  instruction beyond the budget is used.
* `BusTraceProofs`: `TypeCorrect`, `LenMatches`, and `Refinement`: the ring
  implements `RecentLog`. Lemmas say what `Snapshot` is after an append before,
  at and after the wrap.
* `ArithProofs`: `MultiByteExactHolds` and `DecimalStaysDecimalHolds`, for all
  operands and numbers of any length. `SumInv` is the equation with the carry (or
  borrow) as the last digit; the lemmas say that one ADC or SBC, binary or
  decimal, is exact on bytes. `OverflowMeansSignedHolds` and
  `CompareIsSubtractHolds` follow: the first needs `SignedInv`, that the numbers
  so far stay below their unit between two bytes of a binary operation, so that
  V speaks of their top byte; the second is a step of its own.
* `InstructionsProofs`: `TypeCorrect`, `CyclesAsDocumentedHolds`,
  `PointersStayInPageHolds`, `CallsReturnHolds` and
  `DisassemblerPredictsPCHolds`, for every suite of programs, every register file
  and every memory behind them. Lemmas read the opcode table once (`Regular`: what
  family, mode, length and cycles an entry has); one lemma per handler then says
  that its instruction "retires" with the cycles, the next PC and the writes of
  its table entry. The invariant adds `FramesInv` (the return address of every
  call in progress is still in the stack page, at the place SP says), which
  `CallsReturn` needs because programs also push, pull, move SP and write to the
  stack page between JSR and RTS.
* `MemoryMapProofs`: the decoder sends every address to one device and register,
  and `Written` and `ReadOf`, memory after a write and what it reads as, keep
  bytes and indexes in range. On them rest the theorems of `BusAccess`:
  `WritesStayLocalHolds`, `WritesReadBackHolds` (the key lemma: two addresses that
  share a register are mirrors of each other, and no other address reads it) and
  `HookMeansOpenBusHolds`. The specification of `BusAccess` is called
  `AccessSpec`, because `BoardProofs` extends both it and `Board`.
* `BoardProofs`: `TypeCorrect`, `EveryNmiLatchedHolds`, `ResetComesFirstHolds`,
  `ResetBootsCleanHolds`, `RmwWritesOnceHolds`, `RestoreRoundTripHolds`,
  `RestoreReplaysHolds` and `ColdResetClearsMemoryHolds`, for every ROM image,
  budget and number of calls, as far as the programs keep to the opcodes of
  `Opcode` (the model stops at another one). All but the last assume `WholeRam`,
  that all 32 KB of RAM are in `BusAddrs`, as in the real machine (the stack and
  the operands of a program may be anywhere; a run of TLC exercises the addresses
  its programs use). The parts of `Inv`: `FrameInv` gives the order in which the accesses of an
  instruction follow each other and what its locals hold, for the instruction in
  progress and for those that wait in `outer` (no vector fetch waits for a hook:
  this is why no NMI edge is lost); `NmiInv`, `DueInv`: an owed edge or a reset due
  is in its latch; `VectorInv`: the low byte of the vector is still the one in
  memory when the high byte is read; `BootInv`: since a reset made between Ticks
  only the RESET sequence has run; `RmwInv`: the accesses left of a
  read-modify-write lead to the memory a single write leaves; `SnapInv`: a view
  kept beside a snapshot is what the snapshot's memory reads as with the ROMs of
  now. `RestoreReplays` compares two executions: `NextOf` gives, as a function of
  memory, registers and the locals still to be read, the configuration one step
  later, and lemmas show that every step of a machine without signals is one of
  it or none (`AccessAdvances`; a read that fires the hook returns what the open
  bus reads as, a write that does writes nothing). `ReplayInv` then says that
  there is a set of configurations, from the one the snapshot restores to the last
  recorded, closed under `NextOf`, whose instruction starts are `path`; a replay is
  in that set or past its end. A set does instead of a sequence, so no induction
  is needed.
* `CorpusFetchProofs`: `OkMeansPinnedHolds` and `FailureNotAcceptedHolds`. The
  invariant adds that a marker naming a commit stands beside files of that
  commit (`MarkerNamesFiles`), and what is on disk at each step of a run
  (`Progress`).

Only model-checked: the liveness properties `NmiServed`, `ResetServed`,
`IrqNotIgnored`, `RunTerminates` and `Recovers` (fairness and ENABLED are out of
the prover's reach). Everything else the passing runs check is a theorem. The
three violation runs show what is false, on one instance each.

## 5. Where code and documents disagree

Three disagreements have a run of their own:

* `late_nmi_edge`: `enterInterrupt` clears `nmiPending` at its end, after the
  vector fetches. If the `Memory` deasserts and asserts NMI during those two
  reads of an NMI entry, the new edge is erased, though `DeassertNMI` says that
  the next `AssertNMI` "will be observed as a new edge".
* `restore_resumes`: `Restore` promises "bit-identical execution", but a
  `Snapshot` does not hold the five latches; `SetRegisters` clears a pending RESET
  and the others keep the destination's values. `RestoreReplays` shows that
  execution is the same when no signal was up at either end.
* `tick_without_os`: `New` says the first Tick after `LoadOSROM` performs RESET, and
  that before it "the CPU never advances"; `errors.go` says that Tick returns
  `ErrNoOSROM`. `Tick` has no guard: it takes the RESET sequence on zeroed memory,
  which uses up the latch, and executes BRKs from address 0; the ROM loaded
  afterwards is not booted until `Reset`.

Others met while modelling, seen in the models but without a run:

* `Run`: `deadline := c.cycles + cycleBudget` wraps at 2^64, and a call whose
  deadline wraps (a huge budget is enough) returns at once. The properties of
  `RunLoop` are stated for calls that fit.
* `SetRegisters` may leave B set in the live P; IRQ and NMI then push it set, while
  `interrupts.go:27` says the pushed B is 0 for them. `StackedStatusTellsCause` is
  checked for hosts that leave B clear.
* `ColdReset` "equivalent to constructing a fresh Machine" keeps the CPU's
  registers and its NMI, IRQ and RDY latches.
* The unmapped hook and the machine do not say what may be called from a hook. What
  happens there: after `Reset` or `ColdReset` the instruction in flight still makes
  its writes (a DEC of ROM select sets the bank again, an interrupt entry pushes
  into the cleared RAM); `Snapshot` and `Registers` see PC and the cycle count in
  the middle of an instruction, not at "the most recent instruction boundary";
  `Restore` is followed by the rest of the instruction in flight; a Tick in a hook
  during the first reads of an NMI or RESET entry services the same latch, and the
  outer entry services it again.
* The late NMI edge cannot happen through a `Machine` (`EveryNmiLatched`): its host
  code runs in hooks only, and neither the stack page nor the vectors fire one.
* `doc.go` of `bbc` says that writes to read-only regions fire the hook; writes to
  the sideways window and the OS ROM do not.
* `specs/001-cpu-6502-core/spec.md` FR-016 wants N and V of decimal ADC from the
  binary sum; `adcBCD` takes them after the low digit's correction, as the NMOS
  part does.
* `Disassemble` reports one byte for BRK, which consumes two; therefore
  `DisassemblerPredictsPC` leaves BRK out.
* `specs/003-cpu-processor-tests/contracts/generator-contract.md`: a failing
  `WriteFile` leaves a marker after exit 1; the contract's "> 200" files is `>= 200`
  in the code.
* `specs/002-*/data-model.md` says Reset preserves the bank latch; the code sets it
  to 0.

## 6. Not modelled

* Host code that goes around the Machine (`CPU().SetRegisters`, `Memory().Write`),
  which `machine.go` tells hosts not to do; `SetRegisters` on a CPU alone is in
  `Interrupts` and `RunLoop`.
* A hook that is replaced while it runs, and a hook that reads unmapped memory and
  so calls itself.
* The stub peripherals' names and texts, the disassembler's formatting, error
  texts.
* Tests, benchmarks, the ProcessorTests harness, CI and the `.specify` scripts.

## 7. Plan

1. Lemmas about shifts and rotates (a rotate through C and back is the identity,
   ASL and LSR lose one bit into C).
2. Prove that `Board`'s fetch of an opcode executes the entry `Opcodes` has for it:
   the same accesses in the same order as in `Instructions`.
3. Two generator runs at the same time on one directory.
