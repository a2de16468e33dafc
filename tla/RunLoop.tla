------------------------------- MODULE RunLoop -------------------------------
(***************************************************************************)
(* CPU.Run (mos6502/cpu.go), reached through Machine.Tick: the loop that   *)
(* runs whole instructions until a cycle budget is used up.  The cycle     *)
(* counter is a uint64, so the deadline and the counter itself wrap at     *)
(* CycleMod; Registers.Cycles lets SetRegisters, and Machine.Restore       *)
(* through it, put any value there.                                        *)
(***************************************************************************)
EXTENDS Integers

CONSTANTS
    CycleMod,   \* 2^64 in the code
    Budgets,    \* cycle budgets the host passes to Run
    Costs,      \* cycles one Step may take: 2..7
    MaxCost,    \* the largest of them
    MaxConsumed \* bound: cycles one call of Run may use in the model; only a
                \* call that passes the counter's end can get there

ASSUME RunLoopAssumption ==
    /\ CycleMod \in Nat \ {0}
    /\ Budgets \subseteq 0..(CycleMod - 1)
    /\ MaxCost \in Nat \ {0}
    /\ Costs \subseteq 1..MaxCost
    /\ MaxConsumed \in Nat /\ MaxConsumed >= CycleMod + MaxCost

VARIABLES
    cycles,     \* the CPU's cumulative cycle counter
    rdy,
    running,    \* a call of Run is active
    deadline,   \* its local variable
    \* history variables of the active call:
    start, budget,
    consumed    \* bus cycles it has really used, never wrapped

vars == <<cycles, rdy, running, deadline, start, budget, consumed>>
call == <<deadline, start, budget>>

Counter == 0..(CycleMod - 1)

Init ==
    /\ cycles = 0 /\ rdy = TRUE /\ running = FALSE
    /\ deadline = 0 /\ start = 0 /\ budget = 0 /\ consumed = 0

\* Also called from a Memory callback in the middle of Run; Run looks at it
\* before its next Step only.
SetRDY(ready) ==
    /\ rdy' = ready
    /\ UNCHANGED <<cycles, running, call, consumed>>

\* Undefined in the middle of an instruction.
SetRegisters(c) ==
    /\ ~running
    /\ cycles' = c
    /\ UNCHANGED <<rdy, running, call, consumed>>

\* Entry of Run(b): the deadline is computed once, modulo 2^64.
CallRun(b) ==
    /\ ~running
    /\ running' = TRUE
    /\ deadline' = (cycles + b) % CycleMod
    /\ start' = cycles /\ budget' = b /\ consumed' = 0
    /\ UNCHANGED <<cycles, rdy>>

\* Seeded fault: the loop tests the budget one instruction late.
LoopEndsLate == cycles > deadline

LoopEnds == cycles >= deadline

\* Seeded fault: the loop body skips Step when RDY is low but does not return.
RunStalledSpins == running /\ ~LoopEnds /\ ~rdy /\ UNCHANGED vars

RunStalled ==
    /\ running /\ ~LoopEnds /\ ~rdy
    /\ running' = FALSE
    /\ UNCHANGED <<cycles, rdy, call, consumed>>

\* One whole instruction or interrupt entry of c bus cycles.
RunStep(c) ==
    /\ running /\ ~LoopEnds /\ rdy
    /\ consumed + c <= MaxConsumed
    /\ cycles' = (cycles + c) % CycleMod
    /\ consumed' = consumed + c
    /\ UNCHANGED <<rdy, running, call>>

RunReturns ==
    /\ running /\ LoopEnds
    /\ running' = FALSE
    /\ UNCHANGED <<cycles, rdy, call, consumed>>

\* CPU.Step (and StepCycle) called by the host itself.
Step(c) ==
    /\ ~running /\ rdy
    /\ cycles' = (cycles + c) % CycleMod
    /\ UNCHANGED <<rdy, running, call, consumed>>

Loop == RunStalled \/ RunReturns \/ \E c \in Costs : RunStep(c)

Next ==
    \/ \E r \in BOOLEAN : SetRDY(r)
    \/ \E c \in Counter : SetRegisters(c)
    \/ \E b \in Budgets : CallRun(b)
    \/ \E c \in Costs : Step(c)
    \/ Loop

Spec == Init /\ [][Next]_vars

\* Run is a synchronous call: its loop goes on by itself.
FairSpec == Spec /\ WF_vars(Loop)

-------------------------------------------------------------------------------
\* The counter and the deadline stay 64-bit numbers (proved; BudgetMet rests on it).
TypeOK ==
    /\ cycles \in Counter /\ rdy \in BOOLEAN /\ running \in BOOLEAN
    /\ deadline \in Counter /\ start \in Counter
    /\ budget \in 0..(CycleMod - 1) /\ consumed \in 0..MaxConsumed

\* The call cannot reach the end of the counter.
Fits == start + budget + MaxCost <= CycleMod

\* "Run executes whole instructions until at least cycleBudget bus cycles have
\* been consumed since the call" and overshoots by less than one instruction,
\* whatever the counter held at the call, as long as the call stays clear of
\* the counter's end.
BudgetMet ==
    [][RunReturns /\ Fits => budget <= consumed /\ consumed < budget + MaxCost]_vars

\* A call of Run that stays clear of the counter's end returns, stalled or not.
RunTerminates == (running /\ Fits) ~> ~running
===============================================================================
