---------------------------- MODULE MCSelfTest ----------------------------
(***************************************************************************)
(* The shipped machine: 4096 bytes of RAM, programs at 512, the real fonts *)
(* and ROM 0 of ROM.c, a self-test of 18 instructions that draws, for each *)
(* of them, its opcode and the word OK or NO, and then loops for ever.     *)
(***************************************************************************)
EXTENDS Chip8, Programs

ROM0 == <<
     18, 78, 234, 172, 170, 234, 206, 170, 170, 174, 224, 160, 160, 224, 192, 64, 64, 224, 224, 32, 192, 224, 224, 96,
     32, 224, 160, 224, 32, 32, 96, 64, 32, 64, 224, 128, 224, 224, 224, 32, 32, 32, 224, 224, 160, 224, 224, 224,
     32, 224, 64, 160, 224, 160, 224, 192, 128, 224, 224, 128, 192, 128, 160, 64, 160, 160, 162, 2, 218, 180, 0, 238,
     162, 2, 218, 180, 19, 220, 104, 1, 105, 5, 106, 10, 107, 1, 101, 42, 102, 43, 162, 22, 216, 180, 162, 62,
     217, 180, 162, 2, 54, 43, 162, 6, 218, 180, 107, 6, 162, 26, 216, 180, 162, 62, 217, 180, 162, 6, 69, 42,
     162, 2, 218, 180, 107, 11, 162, 30, 216, 180, 162, 62, 217, 180, 162, 6, 85, 96, 162, 2, 218, 180, 107, 16,
     162, 38, 216, 180, 162, 62, 217, 180, 162, 6, 118, 255, 70, 42, 162, 2, 218, 180, 107, 21, 162, 46, 216, 180,
     162, 62, 217, 180, 162, 6, 149, 96, 162, 2, 218, 180, 107, 26, 162, 50, 216, 180, 162, 62, 217, 180, 34, 66,
     104, 23, 105, 27, 106, 32, 107, 1, 162, 10, 216, 180, 162, 54, 217, 180, 162, 2, 218, 180, 107, 6, 162, 42,
     216, 180, 162, 10, 217, 180, 162, 6, 135, 80, 71, 42, 162, 2, 218, 180, 107, 11, 162, 42, 216, 180, 162, 14,
     217, 180, 162, 6, 103, 42, 135, 177, 71, 43, 162, 2, 218, 180, 107, 16, 162, 42, 216, 180, 162, 18, 217, 180,
     162, 6, 102, 120, 103, 31, 135, 98, 71, 24, 162, 2, 218, 180, 107, 21, 162, 42, 216, 180, 162, 22, 217, 180,
     162, 6, 102, 120, 103, 31, 135, 99, 71, 103, 162, 2, 218, 180, 107, 26, 162, 42, 216, 180, 162, 26, 217, 180,
     162, 6, 102, 140, 103, 140, 135, 100, 71, 24, 162, 2, 218, 180, 104, 44, 105, 48, 106, 52, 107, 1, 162, 42,
     216, 180, 162, 30, 217, 180, 162, 6, 102, 140, 103, 120, 135, 101, 71, 236, 162, 2, 218, 180, 107, 6, 162, 42,
     216, 180, 162, 34, 217, 180, 162, 6, 102, 224, 134, 110, 70, 192, 162, 2, 218, 180, 107, 11, 162, 42, 216, 180,
     162, 54, 217, 180, 162, 6, 102, 15, 134, 102, 70, 7, 162, 2, 218, 180, 107, 16, 162, 58, 216, 180, 162, 30,
     217, 180, 163, 232, 96, 0, 97, 48, 241, 85, 163, 233, 240, 101, 162, 6, 64, 48, 162, 2, 218, 180, 107, 21,
     162, 58, 216, 180, 162, 22, 217, 180, 163, 232, 102, 137, 246, 51, 242, 101, 162, 2, 48, 1, 162, 6, 49, 3,
     162, 6, 50, 7, 162, 6, 218, 180, 107, 26, 162, 14, 216, 180, 162, 62, 217, 180, 18, 72, 19, 220 >>

ShippedROM ==
  [id \in {0} |-> [data |-> [a \in 0..477 |-> ROM0[a + 1]], keypad |-> Unmapped]]

\* Where ROM 0 draws its verdicts, and the bytes of OK, at 514.
VerdictCols == {10, 32, 52}
VerdictRows == {1, 6, 11, 16, 21, 26}
OK == <<234, 172, 170, 234>>
LastLoop == 988

ShowsOK(col, row) ==
  \A i \in 0..3, j \in 0..7 :
    Flat(row + i, col + j) \in DisplayData <=> Bit(OK[i + 1], 7 - j) = 1

\* The interpreter passes the self-test shipped with it: no instruction of it
\* writes out of bounds, and when it reaches its last loop the screen shows OK
\* at all eighteen places and every call has returned (ROM.c 4-37).
SelfTestPasses ==
  /\ phase # "wild"
  /\ RegisterPC = LastLoop =>
       RegisterSP = 0 /\ \A col \in VerdictCols, row \in VerdictRows : ShowsOK(col, row)

\* Unless it is reset again and again, or a message of main.c is never taken by
\* the host, the self-test gets to its last loop (ROM.c 4-37).
SelfTestEnds == []<>(phase = "boot") \/ UartBlocks \/ <>(RegisterPC = LastLoop)

=============================================================================
