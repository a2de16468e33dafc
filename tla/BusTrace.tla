------------------------------- MODULE BusTrace -------------------------------
(***************************************************************************)
(* The bus-trace ring buffer (mos6502/trace.go) and the CPU's use of it:   *)
(* read and write append one event per bus cycle to the trace attached     *)
(* with SetTrace, if there is one.                                         *)
(***************************************************************************)
EXTENDS Sequences, Integers

CONSTANTS
    Capacity,  \* the argument of NewTrace, any int
    Event,     \* bus events: cycle stamp, address, value, direction
    Zero       \* the zero BusEvent the buffer is allocated with

\* NewTrace treats a capacity <= 0 as 1.
Cap == IF Capacity <= 0 THEN 1 ELSE Capacity

ASSUME BusTraceAssumption == Capacity \in Int /\ Zero \in Event

VARIABLES
    events, head, full,  \* the fields of Trace
    attached             \* the CPU's trace field is this Trace, not nil

vars == <<events, head, full, attached>>

Init ==
    /\ events = [i \in 0..(Cap - 1) |-> Zero]
    /\ head = 0
    /\ full = FALSE
    /\ attached = FALSE

\* Seeded fault: head runs past the buffer.
AppendNoWrap(e) ==
    /\ events' = [events EXCEPT ![head] = e]
    /\ head' = IF head = Cap THEN 0 ELSE head + 1
    /\ full' = (full \/ head = Cap)

\* Trace.append
AppendEvent(e) ==
    /\ events' = [events EXCEPT ![head] = e]
    /\ head' = IF head + 1 = Cap THEN 0 ELSE head + 1
    /\ full' = (full \/ head + 1 = Cap)

\* CPU.read or CPU.write: one bus cycle.
BusCycle(e) ==
    /\ IF attached THEN AppendEvent(e) ELSE UNCHANGED <<events, head, full>>
    /\ UNCHANGED attached

\* SetTrace(t) and SetTrace(nil)
SetTrace(on) ==
    /\ attached' = on
    /\ UNCHANGED <<events, head, full>>

\* Seeded fault: Reset forgets the full flag.
ResetHeadOnly ==
    /\ head' = 0
    /\ UNCHANGED <<events, full, attached>>

\* Trace.Reset keeps the buffer and its old contents.
Reset ==
    /\ head' = 0
    /\ full' = FALSE
    /\ UNCHANGED <<events, attached>>

Next ==
    \/ \E e \in Event : BusCycle(e)
    \/ \E on \in BOOLEAN : SetTrace(on)
    \/ Reset

Spec == Init /\ [][Next]_vars

-------------------------------------------------------------------------------
(* What the host reads out.                                                  *)

\* Seeded fault: one element is lost when the buffer is full and has wrapped.
TraceLenOff == IF full THEN Cap - 1 ELSE head

\* Trace.Len
TraceLen == IF full THEN Cap ELSE head

\* Trace.Snapshot: the two copies, events[head:] then events[:head].
Snapshot ==
    IF ~full
    THEN [i \in 1..head |-> events[i - 1]]
    ELSE [i \in 1..Cap |-> IF i <= Cap - head THEN events[head + i - 1]
                           ELSE events[i - 1 - (Cap - head)]]

-------------------------------------------------------------------------------
\* head is always an index into the buffer, also right after a wrap or Reset,
\* so append never indexes past the slice.
TypeOK ==
    /\ events \in [0..(Cap - 1) -> Event]
    /\ head \in 0..(Cap - 1)
    /\ full \in BOOLEAN /\ attached \in BOOLEAN

\* Len reports how many events Snapshot returns.
LenMatchesSnapshot == Len(Snapshot) = TraceLen

\* The ring implements the recent-events log: after any mix of appends, wraps,
\* resets, attaching and detaching, Snapshot is the last Cap events recorded
\* since the last Reset, in order.
Recent == INSTANCE RecentLog WITH log <- Snapshot
ImplementsRecentLog == Recent!Spec
===============================================================================
