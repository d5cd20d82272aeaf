----------------------------- MODULE VideoPath -----------------------------
(***************************************************************************)
(* The way of a picture to the screen.  DRW (CPU.c) toggles the pixels of  *)
(* a sprite one at a time in the shadow DisplayData, and for each of them  *)
(* putPixel (Display.c) writes a command word to a PIO port.  The FPGA's   *)
(* Video_Buffer obeys the word on the port at EVERY clock: there is no     *)
(* strobe, so a command is repeated until the next one replaces it, and a  *)
(* command replaced before a clock edge is lost.                           *)
(*                                                                         *)
(* Timing assumption: firmware and buffer share one 12.5 MHz clock and the *)
(* NIOS II/e core needs at least six cycles per instruction, so a command  *)
(* is seen before the next is written (unseen in the guards).              *)
(***************************************************************************)
EXTENDS Display

CONSTANT Draws   \* the draws a program may ask for: [row, col, sprite]

\* The command word has 5 bits for a row and 6 for a column.
ASSUME VideoAssumption ==
  /\ DISPLAY_WIDTH <= 64 /\ DISPLAY_HEIGHT <= 32
  /\ \A d \in Draws :
       /\ d.row \in Byte /\ d.col \in Byte
       /\ \E size \in 0..15 : d.sprite \in [0..(size - 1) -> Byte]

VARIABLES
  command,   \* the word on the port, as the fields Video_Buffer sees
  unseen,    \* the word has not met a clock edge yet
  buffer,    \* the picture memory: its lit <<row, column>> pairs
  task,      \* "boot", "idle", "clear", "draw", or "wild" (see CPU.tla)
  draw,      \* the draw under way, and those of its bits still to come
  left,
  vf         \* RegisterV[0xF]

vars == <<DisplayData, command, unseen, buffer, task, draw, left, vf>>
loop == <<task, draw, left>>

Command == [op : 0..15, value : {0, 1}, col : 0..63, row : 0..31]

NoCommand == [op |-> 0, value |-> 0, col |-> 0, row |-> 0]
ClearCommand == [op |-> 15, value |-> 0, col |-> 0, row |-> 0]

\* (DRAW << 12) | (on << 11) | (col << 5) | row for an 8-bit col: bits 6 and 7
\* of a column beyond 63 run into the value and the operation.
DrawCommand(row, col, on) ==
  [op    |-> 8 + col \div 128,
   value |-> IF on \/ (col \div 64) % 2 = 1 THEN 1 ELSE 0,
   col   |-> col % 64,
   row   |-> row]

\* Mutant of Obey: no clear.
Obey_NoClear(c, b) ==
  IF c.op # 8 THEN b
  ELSE IF c.value = 1 THEN b \cup {<<c.row, c.col>>}
  ELSE b \ {<<c.row, c.col>>}

\* Video_Buffer, one clock edge.
Obey(c, b) ==
  IF c.op = 15 THEN {}
  ELSE IF c.op # 8 THEN b
  ELSE IF c.value = 1 THEN b \cup {<<c.row, c.col>>}
  ELSE b \ {<<c.row, c.col>>}

NoDraw == [row |-> 0, col |-> 0, sprite |-> [i \in {} |-> 0]]

Init ==
  /\ DisplayData = {} /\ command = NoCommand /\ unseen = FALSE
  /\ buffer = {}
  /\ task = "boot" /\ draw = NoDraw /\ left = {} /\ vf = 0

\* Mutant of Write: a processor that outruns the clock of the buffer.
Write_Unpaced(word) == command' = word /\ unseen' = TRUE

\* Writes the port; the previous word has been seen.
Write(word) == ~unseen /\ command' = word /\ unseen' = TRUE

\* clearDisplay: the command first, then the memset.
SendClear ==
  /\ task \in {"boot", "idle"} /\ task' = "clear"
  /\ Write(ClearCommand)
  /\ UNCHANGED <<DisplayData, buffer, draw, left, vf>>

ClearShadow ==
  /\ task = "clear" /\ task' = "idle"
  /\ DisplayData' = {}
  /\ UNCHANGED <<command, unseen, buffer, draw, left, vf>>

\* Mutant of BeginDraw: VF is left as it is.
BeginDraw_KeepsVF ==
  /\ task = "idle" /\ task' = "draw"
  /\ \E d \in Draws : draw' = d /\ left' = OnBits(d.sprite)
  /\ UNCHANGED <<vf, DisplayData, command, unseen, buffer>>

\* DRW up to its loops.
BeginDraw ==
  /\ task = "idle" /\ task' = "draw"
  /\ \E d \in Draws : draw' = d /\ left' = OnBits(d.sprite)
  /\ vf' = 0
  /\ UNCHANGED <<DisplayData, command, unseen, buffer>>

\* The next on bit of the sprite in raster order: getPixel, then putPixel.
PutPixel ==
  /\ task = "draw"
  /\ \E p \in left :
       LET put == PutAt(draw.row, draw.col, p)
           shadow == Toggle(DisplayData, {put})
       IN  /\ \A q \in left \ {p} : Before(p, q)
           /\ put \in Cells
           /\ vf' = IF GetAt(draw.row, draw.col, p) \in DisplayData THEN 1 ELSE vf
           /\ DisplayData' = shadow
           /\ Write(DrawCommand(U8(draw.row + p[1]), U8(draw.col + p[2]), put \in shadow))
           /\ left' = left \ {p}
  /\ UNCHANGED <<buffer, task, draw>>

\* The next on bit lies outside DisplayData.
Overrun ==
  /\ task = "draw" /\ task' = "wild"
  /\ \E p \in left :
       /\ \A q \in left \ {p} : Before(p, q)
       /\ PutAt(draw.row, draw.col, p) \notin Cells
  /\ UNCHANGED <<DisplayData, command, unseen, buffer, draw, left, vf>>

EndDraw ==
  /\ task = "draw" /\ left = {}
  /\ task' = "idle" /\ draw' = NoDraw
  /\ UNCHANGED <<DisplayData, command, unseen, buffer, left, vf>>

Firmware == SendClear \/ ClearShadow \/ BeginDraw \/ PutPixel \/ Overrun \/ EndDraw

\* A clock edge of Video_Buffer.
Clock ==
  /\ buffer' = Obey(command, buffer) /\ unseen' = FALSE
  /\ UNCHANGED <<DisplayData, command, loop, vf>>

\* Select, A and B together: the port and the firmware's variables are zeroed,
\* the picture memory is not.
Reset ==
  /\ DisplayData' = {} /\ command' = NoCommand /\ unseen' = FALSE
  /\ task' = "boot" /\ draw' = NoDraw /\ left' = {} /\ vf' = 0
  /\ UNCHANGED buffer

Next == Firmware \/ Clock \/ Reset

Spec == Init /\ [][Next]_vars

\* The clock ticks and the processor finishes a draw or a clear it has begun.
\* Nothing makes a program draw or clear, or come up again after a reset: a
\* message precedes the clear of initChip8 and may never be taken by the host.
FairSpec ==
  /\ Spec
  /\ WF_vars(Clock)
  /\ WF_vars(ClearShadow \/ PutPixel \/ Overrun \/ EndDraw)
-----------------------------------------------------------------------------

\* Every variable has its type; no operation is left over outside a draw.
TypeOK ==
  /\ DisplayData \subseteq Cells
  /\ command \in Command /\ unseen \in BOOLEAN
  /\ buffer \subseteq (0..31) \X (0..63)
  /\ task \in {"boot", "idle", "clear", "draw", "wild"}
  /\ draw \in Draws \cup {NoDraw} /\ left \subseteq OnBits(draw.sprite)
  /\ vf \in {0, 1}

\* The shadow picture in the terms of the buffer.
Lit == {p \in (0..(DISPLAY_HEIGHT - 1)) \X (0..(DISPLAY_WIDTH - 1)) :
          Flat(p[1], p[2]) \in DisplayData}

\* No draw crosses the right edge (putPixel does not wrap columns).
ColumnsFit == \A d \in Draws : d.col + 8 <= DISPLAY_WIDTH

\* The screen follows the shadow: but for the one command that is on its way,
\* the picture memory shows what the firmware believes it shows, through draws,
\* clears and resets, and with commands that are executed over and over
\* (Display.c 8-29, Video_Buffer.sv 62-72).
Mirror ==
  /\ task \in {"idle", "draw"} => Obey(command, buffer) = Lit
  /\ task = "clear" => Obey(command, buffer) = {}

\* If the program is up in the end and no draw overruns DisplayData, the
\* screen shows the firmware's picture again and again: no command is stuck.
ScreenCatchesUp ==
  \/ []<>(task = "boot")   \* resets for ever, or a message that blocks
  \/ <>(task = "wild")
  \/ []<>(buffer = Lit)

\* The cells that some bits of a draw toggle, in 8 bits as putPixel takes them,
\* and those of a whole figure.
CellsOf(d, bits) == {<<U8(d.row + p[1]), U8(d.col + p[2])>> : p \in bits}
FigureOf(d) == CellsOf(d, OnBits(d.sprite))
Busy == task \in {"draw", "wild"}

Abstract == INSTANCE Screen WITH
  Figures <- {FigureOf(d) : d \in Draws},
  picture <- Toggle(Lit, CellsOf(draw, OnBits(draw.sprite) \ left)),
  drawing <- IF Busy THEN {FigureOf(draw)} ELSE {},
  vf      <- IF Busy THEN 0 ELSE vf

\* Drawing pixel by pixel, with the flag raised on the way, amounts to XORing
\* the whole figure at the end of DRW with VF = 1 exactly if it erased a pixel
\* (CPU.c 439-457), and a clear to an empty picture.
ImplementsScreen == Abstract!Spec

=============================================================================
