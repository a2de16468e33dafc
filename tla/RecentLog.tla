------------------------------ MODULE RecentLog ------------------------------
(***************************************************************************)
(* What a bus trace promises (mos6502/trace.go): the last Cap bus events   *)
(* recorded since it was created or reset, oldest first.                   *)
(***************************************************************************)
EXTENDS Sequences, Integers

CONSTANTS Cap,    \* how many events are kept
          Event   \* bus events

VARIABLE log

Init == log = <<>>

Record(e) == log' = Append(IF Len(log) < Cap THEN log ELSE Tail(log), e)

Clear == log' = <<>>

Next == Clear \/ \E e \in Event : Record(e)

Spec == Init /\ [][Next]_log
===============================================================================
