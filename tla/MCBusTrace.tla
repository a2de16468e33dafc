----------------------------- MODULE MCBusTrace -----------------------------
(* Instances of BusTrace: three different bus events.                     *)
EXTENDS BusTrace

CONSTANTS e0, e1, e2
MCEvent == {e0, e1, e2}
=============================================================================
