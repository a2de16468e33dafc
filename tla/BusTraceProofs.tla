---------------------------- MODULE BusTraceProofs ----------------------------
(***************************************************************************)
(* For every capacity, including the ones NewTrace corrects, and every set *)
(* of events, the ring buffer implements the log of recent events.         *)
(***************************************************************************)
EXTENDS BusTrace, SequenceTheorems, TLAPS

\* NewTrace allocates at least one slot.
LEMMA CapType == Cap \in Nat /\ Cap >= 1 /\ 0 \in 0..(Cap - 1)
<1>1. Cap \in Nat /\ Cap >= 1
  BY BusTraceAssumption DEF Cap
<1> QED BY <1>1

\* Append never indexes past the buffer, whatever capacity NewTrace was given.
THEOREM TypeCorrect == Spec => []TypeOK
<1>1. Init => TypeOK
  BY CapType, BusTraceAssumption DEF Init, TypeOK
<1>2. TypeOK /\ [Next]_vars => TypeOK'
  <2> SUFFICES ASSUME TypeOK, [Next]_vars PROVE TypeOK'
    OBVIOUS
  <2>1. CASE UNCHANGED vars
    BY <2>1 DEF TypeOK, vars
  <2>2. ASSUME NEW e \in Event, BusCycle(e) PROVE TypeOK'
    BY <2>2, CapType DEF TypeOK, BusCycle, AppendEvent
  <2>3. ASSUME NEW on \in BOOLEAN, SetTrace(on) PROVE TypeOK'
    BY <2>3 DEF TypeOK, SetTrace
  <2>4. CASE Reset
    BY <2>4, CapType DEF TypeOK, Reset
  <2> QED BY <2>1, <2>2, <2>3, <2>4 DEF Next
<1> QED BY <1>1, <1>2, PTL DEF Spec

\* The length and the elements of Snapshot.
Shape ==
    /\ TraceLen \in 0..Cap
    /\ Snapshot \in Seq(Event)
    /\ Len(Snapshot) = TraceLen
    /\ ~full => \A i \in 1..TraceLen : Snapshot[i] = events[i - 1]
    /\ full => \A i \in 1..Cap :
          Snapshot[i] = IF i <= Cap - head THEN events[head + i - 1]
                        ELSE events[i - 1 - (Cap - head)]

\* Snapshot is a sequence of as many events as Len reports.
LEMMA SnapshotShape == TypeOK => Shape
<1> SUFFICES ASSUME TypeOK PROVE Shape
  OBVIOUS
<1>1. /\ TraceLen \in 0..Cap
      /\ Snapshot \in [1..TraceLen -> Event]
      /\ ~full => \A i \in 1..TraceLen : Snapshot[i] = events[i - 1]
      /\ full => \A i \in 1..Cap :
            Snapshot[i] = IF i <= Cap - head THEN events[head + i - 1]
                          ELSE events[i - 1 - (Cap - head)]
  <2>1. CASE ~full
    BY <2>1, CapType DEF TypeOK, Snapshot, TraceLen
  <2>2. CASE full
    <3>1. \A i \in 1..Cap : IF i <= Cap - head THEN head + i - 1 \in 0..(Cap - 1)
                            ELSE i - 1 - (Cap - head) \in 0..(Cap - 1)
      BY CapType DEF TypeOK
    <3> QED BY <2>2, <3>1, CapType DEF TypeOK, Snapshot, TraceLen
  <2> QED BY <2>1, <2>2
<1>2. TraceLen \in Nat
  BY <1>1, CapType
<1>3. Snapshot \in Seq(Event)
  BY <1>1, <1>2, SeqDef
<1>4. Len(Snapshot) = TraceLen
  BY <1>1, <1>2, <1>3, LenProperties
<1> QED BY <1>1, <1>3, <1>4 DEF Shape

\* Trace.Len is the number of events Trace.Snapshot returns.
THEOREM LenMatches == Spec => []LenMatchesSnapshot
<1>1. TypeOK => LenMatchesSnapshot
  BY SnapshotShape DEF LenMatchesSnapshot, Shape
<1> QED BY <1>1, TypeCorrect, PTL

\* Trace.append, wrapping or not, appends to the log and drops its oldest event if full.
LEMMA AppendRefines ==
    ASSUME TypeOK, TypeOK', Shape, Shape', NEW e \in Event, AppendEvent(e)
    PROVE  Recent!Record(e)
<1> DEFINE base == IF Len(Snapshot) < Cap THEN Snapshot ELSE Tail(Snapshot)
<1>0. /\ head \in 0..(Cap - 1) /\ events \in [0..(Cap - 1) -> Event] /\ full \in BOOLEAN
      /\ events' = [events EXCEPT ![head] = e]
      /\ head' = IF head + 1 = Cap THEN 0 ELSE head + 1
  BY DEF TypeOK, AppendEvent
<1>1. Snapshot \in Seq(Event) /\ Len(Snapshot) = TraceLen /\ TraceLen \in 0..Cap
  BY DEF Shape
<1>2. Snapshot' \in Seq(Event) /\ Len(Snapshot') = TraceLen'
  BY DEF Shape
<1>3. /\ base \in Seq(Event)
      /\ Len(base) = TraceLen' - 1
      /\ \A i \in 1..Len(base) : base[i] = Snapshot'[i]
  <2>1. CASE ~full
    <3>1. TraceLen = head /\ head < Cap /\ base = Snapshot
      BY <1>0, <1>1, <2>1, CapType DEF TraceLen
    <3>2. TraceLen' = head + 1
      <4>1. full' <=> head + 1 = Cap
        BY <2>1 DEF AppendEvent
      <4> QED BY <1>0, <4>1, CapType DEF TraceLen
    <3>3. ASSUME NEW i \in 1..head PROVE Snapshot'[i] = Snapshot[i]
      <4>1. Snapshot[i] = events[i - 1]
        BY <2>1, <3>1 DEF Shape
      <4>2. events'[i - 1] = events[i - 1]
        BY <1>0, CapType
      <4>3. CASE ~full'
        <5>1. i \in 1..TraceLen'
          BY <1>0, <3>2, CapType
        <5>2. Snapshot'[i] = events'[i - 1]
          BY <4>3, <5>1 DEF Shape
        <5> QED BY <4>1, <4>2, <5>2
      <4>4. CASE full'
        <5>1. head' = 0
          BY <1>0, <2>1, <4>4 DEF AppendEvent
        <5>2. i \in 1..Cap /\ i <= Cap - 0 /\ 0 + i - 1 = i - 1
          BY <1>0, CapType
        <5>3. Snapshot'[i] = events'[i - 1]
          BY <4>4, <5>1, <5>2 DEF Shape
        <5> QED BY <4>1, <4>2, <5>3
      <4> QED BY <4>3, <4>4
    <3> HIDE DEF base
    <3> QED BY <1>0, <1>1, <3>1, <3>2, <3>3, CapType
  <2>2. CASE full
    <3>1. TraceLen = Cap /\ base = Tail(Snapshot) /\ TraceLen' = Cap /\ full'
      <4>1. full'
        BY <2>2 DEF AppendEvent
      <4>2. TraceLen = Cap /\ TraceLen' = Cap
        BY <2>2, <4>1 DEF TraceLen
      <4>3. ~(Len(Snapshot) < Cap)
        BY <1>1, <4>2, CapType
      <4> QED BY <4>1, <4>2, <4>3
    <3>2. /\ base \in Seq(Event) /\ Len(base) = Cap - 1
          /\ \A i \in 1..(Cap - 1) : base[i] = Snapshot[i + 1]
      <4>1. Snapshot # <<>>
        BY <1>1, <3>1, CapType, EmptySeq
      <4> QED BY <1>1, <3>1, <4>1, HeadTailProperties
    <3>3. ASSUME NEW i \in 1..(Cap - 1) PROVE Snapshot'[i] = Snapshot[i + 1]
      <4>1. Snapshot[i + 1] = IF i + 1 <= Cap - head THEN events[head + i]
                              ELSE events[i - (Cap - head)]
        <5>1. i + 1 \in 1..Cap /\ head + (i + 1) - 1 = head + i
              /\ (i + 1) - 1 - (Cap - head) = i - (Cap - head)
          BY <1>0, CapType
        <5> QED BY <2>2, <5>1 DEF Shape
      <4>2. Snapshot'[i] = IF i <= Cap - head' THEN events'[head' + i - 1]
                           ELSE events'[i - 1 - (Cap - head')]
        <5>1. i \in 1..Cap
          BY CapType
        <5> QED BY <3>1, <5>1 DEF Shape
      <4>3. CASE head + 1 = Cap
        <5>1. head' = 0 /\ i <= Cap /\ 0 + i - 1 = i - 1 /\ Cap - 0 = Cap
              /\ ~(i + 1 <= Cap - head) /\ i - (Cap - head) = i - 1
              /\ i - 1 \in 0..(Cap - 1) /\ i - 1 # head
          BY <1>0, <4>3, CapType
        <5>2. Snapshot'[i] = events'[i - 1]
          BY <4>2, <5>1
        <5>3. Snapshot[i + 1] = events[i - 1]
          BY <4>1, <5>1
        <5> QED BY <1>0, <5>1, <5>2, <5>3
      <4>4. CASE head + 1 # Cap
        <5>1. head' = head + 1
          BY <1>0, <4>4
        <5>2. CASE i + 1 <= Cap - head
          <6>1. i <= Cap - head' /\ head' + i - 1 = head + i
                /\ head + i \in 0..(Cap - 1) /\ head + i # head
            BY <1>0, <5>1, <5>2, CapType
          <6> QED BY <1>0, <4>1, <4>2, <5>2, <6>1
        <5>3. CASE ~(i + 1 <= Cap - head)
          <6>1. ~(i <= Cap - head') /\ i - 1 - (Cap - head') = i - (Cap - head)
                /\ i - (Cap - head) \in 0..(Cap - 1) /\ i - (Cap - head) # head
            BY <1>0, <5>1, <5>3, CapType
          <6> QED BY <1>0, <4>1, <4>2, <5>3, <6>1
        <5> QED BY <5>2, <5>3
      <4> QED BY <4>3, <4>4
    <3> HIDE DEF base
    <3> QED BY <3>1, <3>2, <3>3
  <2> QED BY <2>1, <2>2
<1>4. TraceLen' \in 1..Cap /\ Snapshot'[TraceLen'] = e
  <2>1. events'[head] = e
    BY <1>0
  <2>2. CASE ~full'
    <3>1. head' = head + 1
      BY <1>0, <2>2 DEF AppendEvent
    <3>2. TraceLen' = head + 1 /\ head + 1 \in 1..Cap /\ (head + 1) - 1 = head
      BY <1>0, <2>2, <3>1, CapType DEF TraceLen
    <3>3. head + 1 \in 1..TraceLen'
      BY <1>0, <3>2
    <3> QED BY <2>1, <2>2, <3>2, <3>3 DEF Shape
  <2>3. CASE full'
    <3>1. TraceLen' = Cap /\ Cap \in 1..Cap
      BY <2>3, CapType DEF TraceLen
    <3>2. Snapshot'[Cap] = IF Cap <= Cap - head' THEN events'[head' + Cap - 1]
                           ELSE events'[Cap - 1 - (Cap - head')]
      BY <2>3, <3>1 DEF Shape
    <3>3. CASE head + 1 = Cap
      <4>1. Cap <= Cap - head' /\ head' + Cap - 1 = head
        BY <1>0, <3>3, CapType
      <4> QED BY <2>1, <3>1, <3>2, <4>1
    <3>4. CASE head + 1 # Cap
      <4>1. ~(Cap <= Cap - head') /\ Cap - 1 - (Cap - head') = head
        BY <1>0, <3>4, CapType
      <4> QED BY <2>1, <3>1, <3>2, <4>1
    <3> QED BY <3>3, <3>4
  <2> QED BY <2>2, <2>3
<1>5. Snapshot' = Append(base, e)
  <2> HIDE DEF base
  <2> DEFINE n == TraceLen'
  <2>0. n \in Nat /\ Len(base) + 1 = n
    <3>1. n \in 1..Cap /\ Len(base) = n - 1
      BY <1>3, <1>4
    <3> HIDE DEF n
    <3> QED BY <3>1, CapType
  <2>1. /\ Append(base, e) \in Seq(Event)
        /\ Len(Append(base, e)) = TraceLen'
        /\ \A i \in 1..Len(base) : Append(base, e)[i] = base[i]
        /\ Append(base, e)[TraceLen'] = e
    BY <1>3, <2>0, AppendProperties
  <2>2. ASSUME NEW i \in 1..TraceLen' PROVE Snapshot'[i] = Append(base, e)[i]
    <3>1. i \in 1..Len(base) \/ i = n
      <4>1. i \in 1..n
        OBVIOUS
      <4> HIDE DEF n
      <4> QED BY <4>1, <2>0
    <3> QED BY <1>3, <1>4, <2>1, <3>1
  <2> QED BY <1>2, <2>1, <2>2, SeqEqual
<1> QED BY <1>5 DEF Recent!Record

\* The ring buffer implements the abstract log: initial states map to initial
\* states, and every step of append, Reset, SetTrace and the bus maps to a
\* recorded event, a cleared log or a stuttering step.
THEOREM Refinement == Spec => ImplementsRecentLog
<1>1. Init => Recent!Init
  BY DEF Init, Recent!Init, Snapshot
<1>2. TypeOK /\ TypeOK' /\ Shape /\ Shape' /\ [Next]_vars => [Recent!Next]_Snapshot
  <2> SUFFICES ASSUME TypeOK, TypeOK', Shape, Shape', [Next]_vars
               PROVE  [Recent!Next]_Snapshot
    OBVIOUS
  <2>1. CASE UNCHANGED <<events, head, full>>
    BY <2>1 DEF Snapshot
  <2>2. ASSUME NEW e \in Event, BusCycle(e) PROVE [Recent!Next]_Snapshot
    <3>1. CASE attached
      BY <2>2, <3>1, AppendRefines DEF BusCycle, Recent!Next
    <3>2. CASE ~attached
      BY <2>1, <2>2, <3>2 DEF BusCycle
    <3> QED BY <3>1, <3>2
  <2>3. CASE Reset
    <3>1. Snapshot' = <<>>
      BY <2>3 DEF Reset, Snapshot
    <3> QED BY <3>1 DEF Recent!Next, Recent!Clear
  <2> QED BY <2>1, <2>2, <2>3 DEF Next, SetTrace, vars
<1> QED BY <1>1, <1>2, TypeCorrect, SnapshotShape, PTL DEF Spec, ImplementsRecentLog, Recent!Spec
===============================================================================
