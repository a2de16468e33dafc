---------------------------- MODULE MCBusAccess ----------------------------
(* Instances of BusAccess.  Bytes of an image depend on the image and on   *)
(* the offset, so that a wrong bank or a wrong offset shows.               *)
EXTENDS BusAccess

MCRomByte(i, n) == (i + n) % 251
MCImages == {1}

\* First and last address of every region, and mirrors of registers.
AllRegions ==
    {0, 32767, 32768, 49151, 49152, 64511, 64512, 65023,    \* RAM .. JIM
     65024, 65025, 65031,                                    \* CRTC index, data, data
     65032, 65036, 65040, 65055, 65056, 65071,               \* ACIA, serial, video
     65072, 65075, 65076, 65080,                             \* ROM select, ACCCON, gap
     65088, 65104, 65119, 65120, 65151,                      \* VIAs
     65152, 65184, 65216, 65248, 65252, 65279, 65280, 65535}        \* FDC .. Tube, vectors
AllValues == {7, 50}
============================================================================
