------------------------------- MODULE Bytes -------------------------------
(***************************************************************************)
(* The fixed-width unsigned integers of the firmware (uint8_t, uint16_t of *)
(* Chip8Types.h) and the bit operators its C code applies to them.  Bits   *)
(* are numbered from 0, the least significant.                             *)
(***************************************************************************)
EXTENDS Integers

Byte == 0..255
Word == 0..65535

\* What storing an int into a uint8_t or a uint16_t keeps of it.
U8(n)  == n % 256
U16(n) == n % 65536

Flag(b) == IF b THEN 1 ELSE 0

BitIndex == 0..7
Place == [i \in BitIndex |->
            CASE i = 0 -> 1  [] i = 1 -> 2  [] i = 2 -> 4  [] i = 3 -> 8
              [] i = 4 -> 16 [] i = 5 -> 32 [] i = 6 -> 64 [] i = 7 -> 128]

Bit(b, i) == (b \div Place[i]) % 2

FromBits(f) == f[0] + 2 * f[1] + 4 * f[2] + 8 * f[3]
               + 16 * f[4] + 32 * f[5] + 64 * f[6] + 128 * f[7]

AndByte(a, b) == FromBits([i \in BitIndex |-> Bit(a, i) * Bit(b, i)])
OrByte(a, b)  == FromBits([i \in BitIndex |-> Flag(Bit(a, i) + Bit(b, i) > 0)])
XorByte(a, b) == FromBits([i \in BitIndex |-> (Bit(a, i) + Bit(b, i)) % 2])

=============================================================================
