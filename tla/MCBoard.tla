------------------------------ MODULE MCBoard ------------------------------
(* Instances of Board.  The one ROM image is a program that writes to the   *)
(* CRTC, the System VIA, RAM and ROM select, reads where the hook fires,    *)
(* comes to a BRK whose padding byte is in FRED and ends in the sideways    *)
(* window: in open bus, or in the same image loaded there.  A Restore in a    *)
(* hook can leave PC on an operand; the low bytes are undocumented opcodes.  *)
EXTENDS Board, TLC

Main == << 88,               \* CLI
           169, 51,          \* LDA #51
           141, 3, 254,      \* STA $FE03   CRTC data
           141, 2, 254,      \* STA $FE02   CRTC index
           238, 3, 254,      \* INC $FE03
           206, 50, 254,     \* DEC $FE32   ROM select: bank 2
           173, 3, 254,      \* LDA $FE03
           76, 255, 251 >>   \* JMP $FBFF

OnIRQ == << 141, 66, 254,    \* STA $FE42   System VIA
            76, 0, 128 >>    \* JMP $8000

OnNMI == << 238, 18, 0,      \* INC $12
            133, 19,         \* STA $13
            234,             \* NOP
            76, 0, 128 >>    \* JMP $8000

\* BRK at $FBFF, and the vectors: NMI $C040, RESET $C000, IRQ $EA50
Fixed == (15359 :> 0) @@ (16378 :> 64) @@ (16379 :> 192) @@ (16380 :> 0) @@ (16381 :> 192)
         @@ (16382 :> 80) @@ (16383 :> 234)

MCRomByte(i, n) ==
    CASE n < Len(Main) -> Main[n + 1]
      [] n - 64 \in 0..(Len(OnNMI) - 1) -> OnNMI[n - 63]
      [] n - 10832 \in 0..(Len(OnIRQ) - 1) -> OnIRQ[n - 10831]
      [] n \in DOMAIN Fixed -> Fixed[n]
      [] OTHER -> 234

\* RAM the program uses (76, 653 and on when its operands are executed) and the stack as far as they push; ROM, CRTC, ROM select, VIA.
Cells == {0, 1, 18, 19, 76, 256, 653, 941, 1006, 13006} \cup 440..511 \cup {32768, 65026, 65027, 65074, 65090}
============================================================================
