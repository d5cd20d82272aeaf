------------------------------ MODULE Display ------------------------------
(***************************************************************************)
(* Display.c: the shadow picture DisplayData[HEIGHT][WIDTH] and the two    *)
(* ways CPU.c reaches into it.  Every byte of the array is 0x00 or 0xFF    *)
(* (putPixel XORs 0xFF, clearDisplay stores 0), so the array is the set of *)
(* the flat positions row * WIDTH + col whose byte is 0xFF.  The commands  *)
(* putPixel sends to the picture memory of the FPGA are in VideoPath.      *)
(***************************************************************************)
EXTENDS Bytes

CONSTANTS DISPLAY_WIDTH, DISPLAY_HEIGHT

\* 8 columns of a sprite fall on distinct positions, wrapped at 256 or not.
ASSUME DisplayAssumption ==
  /\ DISPLAY_WIDTH \in {8, 16, 32, 64, 128}
  /\ DISPLAY_HEIGHT \in 1..256

VARIABLE DisplayData

Flat(row, col) == row * DISPLAY_WIDTH + col
Cells == 0..(DISPLAY_HEIGHT * DISPLAY_WIDTH - 1)

Toggle(S, T) == (S \ T) \cup (T \ S)

\* Mutant of OnBits: the least significant bit leftmost.
OnBits_Mirrored(sprite) ==
  {p \in (DOMAIN sprite) \X BitIndex : Bit(sprite[p[1]], p[2]) = 1}

\* The on bits of a sprite, a function from its rows to bytes: <<row, column>>.
OnBits(sprite) ==
  {p \in (DOMAIN sprite) \X BitIndex : Bit(sprite[p[1]], 7 - p[2]) = 1}

\* Raster order, the order in which DRW visits the bits of a sprite.
Before(q, p) == q[1] < p[1] \/ (q[1] = p[1] /\ q[2] < p[2])

\* putPixel indexes with the 8-bit row and column as they are ...
PutAt(row, col, p) == Flat(U8(row + p[1]), U8(col + p[2]))
\* ... and getPixel wraps both at the size of the display.
GetAt(row, col, p) ==
  Flat(U8(row + p[1]) % DISPLAY_HEIGHT, U8(col + p[2]) % DISPLAY_WIDTH)

\* The positions a sprite at (row, col) toggles.
Put(row, col, sprite) == {PutAt(row, col, p) : p \in OnBits(sprite)}

\* Some on bit finds its pixel on when DRW gets to it.
Collides(row, col, sprite) ==
  \E p \in OnBits(sprite) :
    LET earlier == {PutAt(row, col, q) : q \in {r \in OnBits(sprite) : Before(r, p)}}
    IN  GetAt(row, col, p) \in Toggle(DisplayData, earlier)

=============================================================================
