---------------------------- MODULE RunLoopProofs ----------------------------
(* Proofs about RunLoop, for every counter width, budget and set of costs. *)
EXTENDS RunLoop, TLAPS

\* While a call that stays clear of the counter's end is active, nothing has
\* wrapped: the counter is where the cycles really used put it.
CallInv ==
    running /\ Fits =>
        /\ deadline = start + budget
        /\ cycles = start + consumed
        /\ consumed < budget + MaxCost

Inv == TypeOK /\ CallInv

\* The cycle counter keeps its width.
LEMMA CounterWraps == \A i \in Int : i % CycleMod \in Counter
BY RunLoopAssumption DEF Counter

\* Below the end of the counter, uint64 arithmetic is exact.
LEMMA NoWrap == \A i \in 0..(CycleMod - 1) : i % CycleMod = i
BY RunLoopAssumption

\* Every step keeps the types.
LEMMA TypeStep == TypeOK /\ [Next]_vars => TypeOK'
<1> SUFFICES ASSUME TypeOK, [Next]_vars PROVE TypeOK'
  OBVIOUS
<1> USE RunLoopAssumption
<1>0. \A n \in Nat : (cycles + n) % CycleMod \in Counter
  <2>1. cycles \in Int
    BY DEF TypeOK, Counter
  <2> QED BY <2>1, CounterWraps
<1>1. CASE UNCHANGED vars
  BY <1>1 DEF TypeOK, vars
<1>2. ASSUME NEW r \in BOOLEAN, SetRDY(r) PROVE TypeOK'
  BY <1>2 DEF TypeOK, SetRDY, call
<1>3. ASSUME NEW c \in Counter, SetRegisters(c) PROVE TypeOK'
  BY <1>3 DEF TypeOK, SetRegisters, call
<1>4. ASSUME NEW b \in Budgets, CallRun(b) PROVE TypeOK'
  <2>1. deadline' \in Counter
    BY <1>0, <1>4 DEF CallRun
  <2> QED BY <1>4, <2>1 DEF TypeOK, CallRun
<1>5. ASSUME NEW c \in Costs, Step(c) PROVE TypeOK'
  <2>1. cycles' \in Counter
    BY <1>0, <1>5 DEF Step
  <2> QED BY <1>5, <2>1 DEF TypeOK, Step, call
<1>6. CASE RunStalled \/ RunReturns
  BY <1>6 DEF TypeOK, RunStalled, RunReturns, call
<1>7. ASSUME NEW c \in Costs, RunStep(c) PROVE TypeOK'
  <2>1. cycles' \in Counter
    BY <1>0, <1>7 DEF RunStep
  <2>2. consumed' \in 0..MaxConsumed
    BY <1>7 DEF TypeOK, RunStep
  <2> QED BY <1>7, <2>1, <2>2 DEF TypeOK, RunStep, call
<1> QED BY <1>1, <1>2, <1>3, <1>4, <1>5, <1>6, <1>7 DEF Next, Loop

\* Every step keeps the relation of counter, deadline and consumed cycles.
LEMMA CallStep == Inv /\ [Next]_vars => CallInv'
<1> SUFFICES ASSUME TypeOK, CallInv, [Next]_vars, running', Fits'
             PROVE  CallInv'
  BY DEF Inv, CallInv
<1> USE RunLoopAssumption
<1>1. CASE UNCHANGED vars
  BY <1>1 DEF CallInv, Fits, vars
<1>2. ASSUME NEW r \in BOOLEAN, SetRDY(r) PROVE CallInv'
  BY <1>2 DEF CallInv, Fits, SetRDY, call
<1>3. ASSUME NEW c \in Counter, SetRegisters(c) PROVE CallInv'
  BY <1>3 DEF SetRegisters
<1>4. ASSUME NEW b \in Budgets, CallRun(b) PROVE CallInv'
  <2>1. cycles + b \in 0..(CycleMod - 1)
    BY <1>4 DEF TypeOK, Fits, CallRun, Counter
  <2>2. deadline' = cycles + b
    BY <1>4, <2>1, NoWrap DEF CallRun
  <2> QED BY <1>4, <2>2 DEF CallInv, CallRun, TypeOK, Counter
<1>5. ASSUME NEW c \in Costs, Step(c) PROVE CallInv'
  BY <1>5 DEF Step
<1>6. CASE RunStalled \/ RunReturns
  BY <1>6 DEF RunStalled, RunReturns
<1>7. ASSUME NEW c \in Costs, RunStep(c) PROVE CallInv'
  <2>1. running /\ Fits
    BY <1>7 DEF RunStep, Fits, call
  <2>2. cycles < start + budget
    BY <1>7, <2>1 DEF RunStep, LoopEnds, CallInv, TypeOK, Counter
  <2>3. consumed + c < budget + MaxCost
    BY <2>1, <2>2 DEF CallInv, TypeOK, Counter
  <2>4. cycles + c \in 0..(CycleMod - 1)
    BY <2>1, <2>2 DEF Fits, TypeOK, Counter
  <2>5. cycles' = start + consumed + c
    BY <1>7, <2>1, <2>4, NoWrap DEF RunStep, CallInv, TypeOK, Counter
  <2> QED BY <1>7, <2>1, <2>3, <2>5 DEF CallInv, RunStep, call, TypeOK, Counter
<1> QED BY <1>1, <1>2, <1>3, <1>4, <1>5, <1>6, <1>7 DEF Next, Loop

\* The inductive invariant of Run holds in every reachable state.
THEOREM InvHolds == Spec => []Inv
<1>1. Init => Inv
  <2>1. 0 \in Counter /\ 0 \in 0..(CycleMod - 1) /\ 0 \in 0..MaxConsumed
    BY RunLoopAssumption DEF Counter
  <2> QED BY <2>1 DEF Init, Inv, TypeOK, CallInv
<1>2. Inv /\ [Next]_vars => Inv'
  BY TypeStep, CallStep DEF Inv
<1> QED BY <1>1, <1>2, PTL DEF Spec

\* Run uses at least its budget and overshoots by less than the longest
\* instruction, for every counter width and budget, as long as the call stays
\* clear of the counter's end.
THEOREM BudgetMetHolds == Spec => BudgetMet
<1> DEFINE Met == RunReturns /\ Fits => budget <= consumed /\ consumed < budget + MaxCost
<1>1. Inv => [Met]_vars
  <2> SUFFICES ASSUME Inv, RunReturns, Fits
               PROVE  budget <= consumed /\ consumed < budget + MaxCost
    OBVIOUS
  <2>1. /\ running /\ cycles >= deadline
    BY DEF RunReturns, LoopEnds
  <2> QED BY <2>1, RunLoopAssumption DEF Inv, CallInv, TypeOK, Counter
<1> QED BY <1>1, InvHolds, PTL DEF BudgetMet
===============================================================================
