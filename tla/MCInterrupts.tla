---------------------------- MODULE MCInterrupts ----------------------------
(* Instances of Interrupts for TLC.                                        *)
EXTENDS Interrupts, TLC

MCVector == (65530 :> 768) @@ (65532 :> 65534) @@ (65534 :> 1279)
MCLoc == {511}
MCStackTops == {1}
MCData == {0}
MCDataFlags == {"C"}
\* {} is the P of New; {"I"} masks IRQ.
NoFlags == {}
CleanStatus == {{}, {"I"}}
=============================================================================
