-------------------------- MODULE VideoPathProofs --------------------------
(***************************************************************************)
(* For every display size the command word can address and every set of    *)
(* draws that stay left of the right edge, the picture memory of the FPGA  *)
(* mirrors the firmware's shadow picture, and the pixels a draw toggles    *)
(* one by one amount to the XOR of a whole figure that Screen promises.    *)
(***************************************************************************)
EXTENDS VideoPath, TLAPS

\* Two pairs in range with the same flat position are the same.
LEMMA FlatInjective ==
  ASSUME NEW r \in Nat, NEW c \in 0..(DISPLAY_WIDTH - 1),
         NEW s \in Nat, NEW d \in 0..(DISPLAY_WIDTH - 1),
         Flat(r, c) = Flat(s, d)
  PROVE  r = s /\ c = d
  <1>1. CASE DISPLAY_WIDTH = 8
    BY <1>1 DEF Flat
  <1>2. CASE DISPLAY_WIDTH = 16
    BY <1>2 DEF Flat
  <1>3. CASE DISPLAY_WIDTH = 32
    BY <1>3 DEF Flat
  <1>4. CASE DISPLAY_WIDTH = 64
    BY <1>4 DEF Flat
  <1> QED BY <1>1, <1>2, <1>3, <1>4, DisplayAssumption, VideoAssumption

\* A position inside the array has its row on the display.
LEMMA RowInRange ==
  ASSUME NEW r \in Nat, NEW c \in Nat, Flat(r, c) \in Cells
  PROVE  r < DISPLAY_HEIGHT
  <1>1. CASE DISPLAY_WIDTH = 8
    BY <1>1, DisplayAssumption DEF Flat, Cells
  <1>2. CASE DISPLAY_WIDTH = 16
    BY <1>2, DisplayAssumption DEF Flat, Cells
  <1>3. CASE DISPLAY_WIDTH = 32
    BY <1>3, DisplayAssumption DEF Flat, Cells
  <1>4. CASE DISPLAY_WIDTH = 64
    BY <1>4, DisplayAssumption DEF Flat, Cells
  <1> QED BY <1>1, <1>2, <1>3, <1>4, DisplayAssumption, VideoAssumption

\* A command executed twice does what it does once.
LEMMA ObeyIdempotent ==
  \A c \in Command : \A b : Obey(c, Obey(c, b)) = Obey(c, b)
  BY DEF Obey, Command

LEMMA ObeyType ==
  ASSUME NEW c \in Command, NEW b \in SUBSET ((0..31) \X (0..63))
  PROVE  Obey(c, b) \in SUBSET ((0..31) \X (0..63))
  BY DEF Obey, Command

LEMMA ConstantCommands == NoCommand \in Command /\ ClearCommand \in Command
  BY DEF NoCommand, ClearCommand, Command

\* What a draw under way can be, and the bits of its sprite.
LEMMA DrawType ==
  ASSUME NEW d \in Draws \cup {NoDraw}
  PROVE  /\ d.row \in Byte /\ d.col \in Byte
         /\ \A p \in OnBits(d.sprite) : p[1] \in 0..14 /\ p[2] \in BitIndex
  <1>1. CASE d \in Draws
    BY <1>1, VideoAssumption DEF OnBits
  <1>2. CASE d = NoDraw
    BY <1>2 DEF NoDraw, OnBits, Byte
  <1> QED BY <1>1, <1>2

\* The word putPixel sends for a pixel inside DisplayData.
LEMMA DrawCommandType ==
  ASSUME NEW row \in Byte, NEW col \in Byte, NEW on \in BOOLEAN,
         Flat(row, col) \in Cells
  PROVE  DrawCommand(row, col, on) \in Command
  <1>1. row \in 0..31
    <2>1. row \in Nat /\ col \in Nat
      BY DEF Byte
    <2>2. row < DISPLAY_HEIGHT
      BY <2>1, RowInRange
    <2> QED BY <2>1, <2>2, DisplayAssumption, VideoAssumption
  <1>2. 8 + col \div 128 \in 0..15 /\ col % 64 \in 0..63
    BY DEF Byte
  <1> QED BY <1>1, <1>2 DEF DrawCommand, Command

\* Type correctness of the display path: the command word always fits its
\* fields, whatever is drawn (Display.c 8-17).
THEOREM VideoTyping == Spec => []TypeOK
  <1>1. Init => TypeOK
    BY ConstantCommands DEF Init, TypeOK, Cells, OnBits, NoDraw
  <1>2. TypeOK /\ [Next]_vars => TypeOK'
    <2> SUFFICES ASSUME TypeOK, [Next]_vars PROVE TypeOK'
      OBVIOUS
    <2>1. CASE SendClear
      BY <2>1, ConstantCommands DEF SendClear, Write, TypeOK
    <2>2. CASE ClearShadow
      BY <2>2 DEF ClearShadow, TypeOK
    <2>3. CASE BeginDraw
      BY <2>3 DEF BeginDraw, TypeOK
    <2>4. CASE PutPixel
      <3> PICK p \in left :
            /\ PutAt(draw.row, draw.col, p) \in Cells
            /\ vf' = IF GetAt(draw.row, draw.col, p) \in DisplayData THEN 1 ELSE vf
            /\ DisplayData' = Toggle(DisplayData, {PutAt(draw.row, draw.col, p)})
            /\ Write(DrawCommand(U8(draw.row + p[1]), U8(draw.col + p[2]),
                       PutAt(draw.row, draw.col, p) \in
                         Toggle(DisplayData, {PutAt(draw.row, draw.col, p)})))
            /\ left' = left \ {p}
        BY <2>4 DEF PutPixel
      <3> DEFINE row == U8(draw.row + p[1])
                 col == U8(draw.col + p[2])
      <3>1. row \in Byte /\ col \in Byte
        <4>1. /\ draw.row \in 0..255 /\ draw.col \in 0..255
              /\ p[1] \in 0..14 /\ p[2] \in 0..7
          BY DrawType DEF TypeOK, Byte, BitIndex
        <4> QED BY <4>1 DEF U8, Byte
      <3>2. Flat(row, col) \in Cells
        BY DEF PutAt
      <3>3. command' \in Command /\ unseen' \in BOOLEAN
        <4> DEFINE on == PutAt(draw.row, draw.col, p) \in
                           Toggle(DisplayData, {PutAt(draw.row, draw.col, p)})
        <4>1. command' = DrawCommand(row, col, on) /\ unseen' = TRUE
          BY DEF Write
        <4>2. on \in BOOLEAN
          OBVIOUS
        <4> HIDE DEF row, col, on
        <4> QED BY <3>1, <3>2, <4>1, <4>2, DrawCommandType
      <3>4. DisplayData' \subseteq Cells
        BY DEF Toggle, TypeOK
      <3> QED BY <2>4, <3>3, <3>4 DEF PutPixel, TypeOK
    <2>5. CASE Overrun
      BY <2>5 DEF Overrun, TypeOK
    <2>6. CASE EndDraw
      BY <2>6 DEF EndDraw, TypeOK
    <2>7. CASE Clock
      BY <2>7, ObeyType DEF Clock, loop, TypeOK
    <2>8. CASE Reset
      BY <2>8, ConstantCommands DEF Reset, TypeOK
    <2>9. CASE UNCHANGED vars
      BY <2>9 DEF vars, TypeOK
    <2> QED BY <2>1, <2>2, <2>3, <2>4, <2>5, <2>6, <2>7, <2>8, <2>9
            DEF Next, Firmware
  <1> QED BY <1>1, <1>2, PTL DEF Spec

-----------------------------------------------------------------------------

\* One pixel: toggling it in the shadow and obeying its command on a buffer
\* that mirrors the shadow keeps the two alike.
LEMMA PixelMirrored ==
  ASSUME TypeOK,
         NEW row \in Byte, NEW col \in 0..(DISPLAY_WIDTH - 1), Flat(row, col) \in Cells,
         NEW on, on = (Flat(row, col) \in Toggle(DisplayData, {Flat(row, col)})),
         DisplayData' = Toggle(DisplayData, {Flat(row, col)}),
         buffer = Lit
  PROVE  Obey(DrawCommand(row, col, on), buffer) = Lit'
  <1> DEFINE cmd == DrawCommand(row, col, on)
  <1>1. row \in 0..(DISPLAY_HEIGHT - 1)
    BY RowInRange, DisplayAssumption DEF Byte
  <1>2. /\ cmd.op = 8 /\ cmd.row = row /\ cmd.col = col
        /\ cmd.value = IF on THEN 1 ELSE 0
    <2>1. col \in 0..63
      BY DisplayAssumption, VideoAssumption
    <2>2. col \div 128 = 0 /\ col \div 64 = 0 /\ col % 64 = col
      BY <2>1
    <2> QED BY <2>2 DEF DrawCommand
  <1>3. \A p \in (0..(DISPLAY_HEIGHT - 1)) \X (0..(DISPLAY_WIDTH - 1)) :
          Flat(p[1], p[2]) = Flat(row, col) <=> p = <<row, col>>
    BY <1>1, FlatInjective, DisplayAssumption DEF Byte
  <1>4. Lit' = IF on THEN Lit \cup {<<row, col>>} ELSE Lit \ {<<row, col>>}
    <2> DEFINE Rect == (0..(DISPLAY_HEIGHT - 1)) \X (0..(DISPLAY_WIDTH - 1))
    <2>1. <<row, col>> \in Rect
      BY <1>1
    <2>2. Lit' = {p \in Rect : Flat(p[1], p[2]) \in DisplayData'}
      BY DEF Lit
    <2>3. on <=> Flat(row, col) \notin DisplayData
      BY DEF Toggle
    <2>4. \A p \in Rect : Flat(p[1], p[2]) \in DisplayData' <=>
            IF p = <<row, col>> THEN on ELSE Flat(p[1], p[2]) \in DisplayData
      BY <1>3, <2>3 DEF Toggle
    <2> QED BY <2>1, <2>2, <2>4 DEF Lit
  <1>5. Obey(cmd, buffer) = IF on THEN buffer \cup {<<row, col>>}
                                  ELSE buffer \ {<<row, col>>}
    BY <1>2 DEF Obey
  <1> QED BY <1>4, <1>5

\* Obeying the held command once more changes nothing once it has been seen,
\* which is what makes a port without a strobe work (Video_Buffer.sv 62-72).
HeldCommandIsIdle == ~unseen => Obey(command, buffer) = buffer

\* The inductive invariant: the mirror holds at the next clock edge because the
\* held command has either been seen, and changes nothing more, or is the only
\* difference between the buffer and the shadow.
Inv == TypeOK /\ Mirror /\ HeldCommandIsIdle

\* The screen mirrors the shadow as long as no draw crosses the right edge
\* (Display.c 8-29, Video_Buffer.sv 62-72).
THEOREM ScreenMirrors == ASSUME ColumnsFit PROVE Spec => []Mirror
  <1>1. Init => Inv
    <2> SUFFICES ASSUME Init PROVE Mirror /\ HeldCommandIsIdle /\ TypeOK
      BY DEF Inv
    <2>1. TypeOK
      BY ConstantCommands DEF Init, TypeOK, Cells, OnBits, NoDraw
    <2> QED BY <2>1 DEF Init, Mirror, HeldCommandIsIdle, Obey, NoCommand
  <1>2. Inv /\ TypeOK' /\ [Next]_vars => Inv'
    <2> SUFFICES ASSUME Inv, TypeOK', [Next]_vars
                 PROVE  Mirror' /\ HeldCommandIsIdle'
      BY DEF Inv
    <2> USE DEF Inv
    <2>1. CASE SendClear
      BY <2>1 DEF SendClear, Write, Mirror, HeldCommandIsIdle, Obey,
                  ClearCommand, NoCommand
    <2>2. CASE ClearShadow
      BY <2>2 DEF ClearShadow, Mirror, HeldCommandIsIdle, Lit
    <2>3. CASE BeginDraw
      BY <2>3 DEF BeginDraw, Mirror, HeldCommandIsIdle, Lit
    <2>4. CASE PutPixel
      <3> PICK p \in left :
            /\ PutAt(draw.row, draw.col, p) \in Cells
            /\ DisplayData' = Toggle(DisplayData, {PutAt(draw.row, draw.col, p)})
            /\ Write(DrawCommand(U8(draw.row + p[1]), U8(draw.col + p[2]),
                       PutAt(draw.row, draw.col, p) \in
                         Toggle(DisplayData, {PutAt(draw.row, draw.col, p)})))
        BY <2>4 DEF PutPixel
      <3> DEFINE row == U8(draw.row + p[1])
                 col == U8(draw.col + p[2])
      <3>1. draw \in Draws /\ p[1] \in 0..14 /\ p[2] \in BitIndex
        BY DrawType DEF TypeOK, NoDraw, OnBits
      <3>2. row \in Byte /\ col \in 0..(DISPLAY_WIDTH - 1)
        <4>1. /\ draw.row \in 0..255 /\ draw.col \in 0..255
              /\ p[1] \in 0..14 /\ p[2] \in 0..7
          BY <3>1, VideoAssumption DEF Byte, BitIndex
        <4>2. draw.col + 8 <= DISPLAY_WIDTH
          BY <3>1 DEF ColumnsFit
        <4>3. DISPLAY_WIDTH \in 8..64
          BY DisplayAssumption, VideoAssumption
        <4>4. draw.row + p[1] \in Nat /\ draw.col + p[2] \in 0..(DISPLAY_WIDTH - 1)
          BY <4>1, <4>2, <4>3
        <4>5. col = draw.col + p[2]
          BY <4>3, <4>4 DEF U8
        <4>6. row \in Byte
          BY <4>4 DEF U8, Byte
        <4> QED BY <4>4, <4>5, <4>6
      <3>3. buffer = Lit
        BY <2>4 DEF PutPixel, Write, Mirror, HeldCommandIsIdle
      <3>4. Obey(command', buffer) = Lit'
        BY <3>2, <3>3, PixelMirrored DEF Write, PutAt
      <3> QED BY <2>4, <3>4 DEF PutPixel, Write, Mirror, HeldCommandIsIdle
    <2>5. CASE Overrun
      BY <2>5 DEF Overrun, Mirror, HeldCommandIsIdle, Lit
    <2>6. CASE EndDraw
      BY <2>6 DEF EndDraw, Mirror, HeldCommandIsIdle, Lit
    <2>7. CASE Clock
      <3>1. Obey(command', buffer') = Obey(command, buffer)
        BY <2>7, ObeyIdempotent DEF Clock, TypeOK
      <3>2. buffer' = Obey(command, buffer) /\ Lit' = Lit /\ task' = task
        BY <2>7 DEF Clock, loop, Lit
      <3> QED BY <3>1, <3>2 DEF Mirror, HeldCommandIsIdle
    <2>8. CASE Reset
      BY <2>8 DEF Reset, Mirror, HeldCommandIsIdle, Obey, NoCommand
    <2>9. CASE UNCHANGED vars
      BY <2>9 DEF vars, Mirror, HeldCommandIsIdle, Lit
    <2> QED BY <2>1, <2>2, <2>3, <2>4, <2>5, <2>6, <2>7, <2>8, <2>9
            DEF Next, Firmware
  <1>3. Inv => Mirror
    BY DEF Inv
  <1> QED BY <1>1, <1>2, <1>3, VideoTyping, PTL DEF Spec

-----------------------------------------------------------------------------
(* A draw, pixel by pixel, is the draw of a figure. *)

Rect == (0..(DISPLAY_HEIGHT - 1)) \X (0..(DISPLAY_WIDTH - 1))

\* What the draw under way has toggled so far.
Done == CellsOf(draw, OnBits(draw.sprite) \ left)

\* The invariant the refinement needs besides the types: nothing is left over
\* between draws; during one, what has been toggled is on the display, and the flag
\* is raised exactly if a pixel of it is off now, since it was on before.
DrawInv ==
  /\ ~Busy => draw = NoDraw /\ left = {}
  /\ Busy => /\ draw \in Draws /\ Done \subseteq Rect
             /\ vf = Flag(Done \ Lit # {})

\* Two bits of a sprite never toggle the same cell.
LEMMA CellsApart ==
  ASSUME NEW r \in Byte, NEW c \in Byte,
         NEW p \in (0..14) \X BitIndex, NEW q \in (0..14) \X BitIndex,
         U8(r + p[1]) = U8(r + q[1]), U8(c + p[2]) = U8(c + q[2])
  PROVE  p = q
  <1>1. p[1] = q[1]
    BY DEF U8, Byte
  <1>2. p[2] = q[2]
    BY DEF U8, Byte, BitIndex
  <1> QED BY <1>1, <1>2

\* A cell toggled in the array is toggled in the picture.
LEMMA PixelToggled ==
  ASSUME NEW row \in Byte, NEW col \in 0..(DISPLAY_WIDTH - 1), Flat(row, col) \in Cells,
         DisplayData' = Toggle(DisplayData, {Flat(row, col)})
  PROVE  <<row, col>> \in Rect /\ Lit' = Toggle(Lit, {<<row, col>>})
  <1>1. row \in 0..(DISPLAY_HEIGHT - 1)
    BY RowInRange, DisplayAssumption DEF Byte
  <1>2. \A p \in Rect : Flat(p[1], p[2]) = Flat(row, col) <=> p = <<row, col>>
    BY <1>1, FlatInjective, DisplayAssumption DEF Byte, Rect
  <1>3. Lit' = {p \in Rect : Flat(p[1], p[2]) \in DisplayData'}
    BY DEF Lit, Rect
  <1>4. <<row, col>> \in Rect
    BY <1>1 DEF Rect
  <1>5. \A p \in Rect : Flat(p[1], p[2]) \in DisplayData' <=>
          IF p = <<row, col>> THEN Flat(row, col) \notin DisplayData
                              ELSE Flat(p[1], p[2]) \in DisplayData
    BY <1>2 DEF Toggle
  <1> QED BY <1>3, <1>4, <1>5 DEF Lit, Rect, Toggle

LEMMA ToggleOneMore ==
  ASSUME NEW L, NEW D, NEW x, x \notin D
  PROVE  /\ Toggle(Toggle(L, {x}), D \cup {x}) = Toggle(L, D)
         /\ (D \cup {x}) \ Toggle(L, {x}) = IF x \in L THEN (D \ L) \cup {x} ELSE D \ L
  BY DEF Toggle

\* One pixel: the invariant is kept and the abstract picture stays.
LEMMA PutPixelDraws ==
  ASSUME ColumnsFit, TypeOK, DrawInv, PutPixel
  PROVE  /\ DrawInv'
         /\ Toggle(Lit', Done') = Toggle(Lit, Done)
  <1> PICK p \in left :
        /\ PutAt(draw.row, draw.col, p) \in Cells
        /\ vf' = IF GetAt(draw.row, draw.col, p) \in DisplayData THEN 1 ELSE vf
        /\ DisplayData' = Toggle(DisplayData, {PutAt(draw.row, draw.col, p)})
        /\ left' = left \ {p}
    BY DEF PutPixel
  <1> DEFINE row == U8(draw.row + p[1])
             col == U8(draw.col + p[2])
  <1>1. /\ task = "draw" /\ task' = task /\ draw' = draw /\ draw \in Draws
        /\ Done \subseteq Rect /\ vf = Flag(Done \ Lit # {})
    BY DEF PutPixel, DrawInv, Busy
  <1>2. p \in OnBits(draw.sprite) /\ \A q \in OnBits(draw.sprite) : q \in (0..14) \X BitIndex
    <2>1. left \subseteq OnBits(draw.sprite)
      BY DEF TypeOK
    <2>2. \A q \in OnBits(draw.sprite) : q[1] \in 0..14 /\ q[2] \in BitIndex /\ q = <<q[1], q[2]>>
      BY <1>1, DrawType DEF OnBits
    <2> QED BY <2>1, <2>2
  <1>3. draw.row \in Byte /\ draw.col \in Byte /\ draw.col + 8 <= DISPLAY_WIDTH
    BY <1>1, VideoAssumption DEF ColumnsFit
  <1>4. row \in Byte /\ col \in 0..(DISPLAY_WIDTH - 1)
    <2>1. draw.row \in 0..255 /\ draw.col \in 0..255 /\ p[1] \in 0..14 /\ p[2] \in 0..7
      BY <1>2, <1>3 DEF Byte, BitIndex
    <2>2. DISPLAY_WIDTH \in 8..64
      BY DisplayAssumption, VideoAssumption
    <2>3. draw.row + p[1] \in Nat /\ draw.col + p[2] \in 0..(DISPLAY_WIDTH - 1)
      BY <1>3, <2>1, <2>2
    <2>4. col = draw.col + p[2]
      BY <2>2, <2>3 DEF U8
    <2>5. row \in Byte
      BY <2>3 DEF U8, Byte
    <2> QED BY <2>3, <2>4, <2>5
  <1>5. Flat(row, col) \in Cells /\ DisplayData' = Toggle(DisplayData, {Flat(row, col)})
    BY DEF PutAt
  <1>6. vf' = IF <<row, col>> \in Lit THEN 1 ELSE vf
    <2>1. row < DISPLAY_HEIGHT
      <3>1. row \in Nat /\ col \in Nat
        BY <1>4, DisplayAssumption DEF Byte
      <3> HIDE DEF row, col
      <3> QED BY <1>5, <3>1, RowInRange
    <2>2. row % DISPLAY_HEIGHT = row /\ col % DISPLAY_WIDTH = col
      <3> HIDE DEF row, col
      <3> QED BY <1>4, <2>1, DisplayAssumption DEF Byte
    <2>3. GetAt(draw.row, draw.col, p) = Flat(row, col)
      BY <2>2 DEF GetAt
    <2>4. <<row, col>> \in Rect
      BY <1>4, <2>1, DisplayAssumption DEF Rect, Byte
    <2>5. Lit = {q \in Rect : Flat(q[1], q[2]) \in DisplayData}
      BY DEF Lit, Rect
    <2> HIDE DEF row, col
    <2> QED BY <2>3, <2>4, <2>5
  <1> DEFINE x == <<row, col>>
  <1>7. x \in Rect /\ Lit' = Toggle(Lit, {x})
    <2> HIDE DEF row, col
    <2> QED BY <1>4, <1>5, PixelToggled
  <1>8. Done' = Done \cup {x}
    <2>1. OnBits(draw.sprite) \ left' = (OnBits(draw.sprite) \ left) \cup {p}
      BY <1>2
    <2> QED BY <1>1, <2>1 DEF Done, CellsOf
  <1>9. x \notin Done
    <2> SUFFICES ASSUME NEW q \in OnBits(draw.sprite) \ left,
                        x = <<U8(draw.row + q[1]), U8(draw.col + q[2])>>
                 PROVE  FALSE
      BY DEF Done, CellsOf
    <2>1. U8(draw.row + p[1]) = U8(draw.row + q[1]) /\ U8(draw.col + p[2]) = U8(draw.col + q[2])
      OBVIOUS
    <2>2. p = q
      BY <1>2, <1>3, <2>1, CellsApart
    <2> QED BY <2>2
  <1> HIDE DEF row, col, x
  <1>10. Toggle(Lit', Done') = Toggle(Lit, Done)
    BY <1>7, <1>8, <1>9, ToggleOneMore
  <1>11. Done' \ Lit' = IF x \in Lit THEN (Done \ Lit) \cup {x} ELSE Done \ Lit
    BY <1>7, <1>8, <1>9, ToggleOneMore
  <1>12. vf' = Flag(Done' \ Lit' # {})
    BY <1>1, <1>6, <1>11 DEF Flag, x
  <1> QED BY <1>1, <1>7, <1>8, <1>10, <1>12 DEF DrawInv, Busy

\* No draw, no cells.
LEMMA NothingToDraw ==
  /\ OnBits(NoDraw.sprite) = {} /\ CellsOf(NoDraw, {}) = {}
  /\ \A L : Toggle(L, {}) = L
  BY DEF NoDraw, OnBits, CellsOf, Toggle

LEMMA InitDrawInv == Init => DrawInv
  BY DEF Init, DrawInv, Busy

\* Two states that agree on these agree on the abstract picture.
LEMMA SameDraw ==
  ASSUME UNCHANGED <<DisplayData, draw, left>>
  PROVE  Lit' = Lit /\ Done' = Done
  BY DEF Lit, Done, CellsOf

LEMMA StepDrawInv ==
  ASSUME ColumnsFit, TypeOK, DrawInv, [Next]_vars
  PROVE  DrawInv'
  <1>1. CASE SendClear
    BY <1>1 DEF SendClear, DrawInv, Busy
  <1>2. CASE ClearShadow
    BY <1>2 DEF ClearShadow, DrawInv, Busy
  <1>3. CASE BeginDraw
    <2>1. Busy' /\ vf' = 0 /\ draw' \in Draws /\ left' = OnBits(draw'.sprite)
      BY <1>3 DEF BeginDraw, Busy
    <2>2. Done' = {}
      BY <2>1 DEF Done, CellsOf
    <2> QED BY <2>1, <2>2 DEF DrawInv, Flag
  <1>4. CASE PutPixel
    BY <1>4, PutPixelDraws
  <1>5. CASE Overrun
    BY <1>5, SameDraw DEF Overrun, DrawInv, Busy
  <1>6. CASE EndDraw
    BY <1>6 DEF EndDraw, DrawInv, Busy
  <1>7. CASE Clock
    BY <1>7, SameDraw DEF Clock, loop, DrawInv, Busy
  <1>8. CASE Reset
    BY <1>8 DEF Reset, DrawInv, Busy
  <1>9. CASE UNCHANGED vars
    BY <1>9, SameDraw DEF vars, DrawInv, Busy
  <1> QED BY <1>1, <1>2, <1>3, <1>4, <1>5, <1>6, <1>7, <1>8, <1>9 DEF Next, Firmware

-----------------------------------------------------------------------------

\* What a program is promised, as the values of the abstract variables.
Picture == Toggle(Lit, Done)
Drawing == IF Busy THEN {FigureOf(draw)} ELSE {}
Raised == IF Busy THEN 0 ELSE vf

LEMMA AbstractStutters ==
  ASSUME Picture' = Picture, Drawing' = Drawing, Raised' = Raised
  PROVE  [Abstract!Next]_(Abstract!vars)
  BY DEF Abstract!vars, Picture, Drawing, Raised, Done

LEMMA InitScreen == Init => Abstract!Init
  <1> SUFFICES ASSUME Init PROVE Abstract!Init
    OBVIOUS
  <1>1. Lit = {} /\ draw = NoDraw /\ left = {} /\ vf = 0 /\ ~Busy
    BY DEF Init, Lit, Busy
  <1>2. Picture = {}
    BY <1>1, NothingToDraw DEF Picture, Done
  <1> QED BY <1>1, <1>2 DEF Abstract!Init, Picture, Done

LEMMA StepScreen ==
  ASSUME ColumnsFit, TypeOK, DrawInv, DrawInv', [Next]_vars
  PROVE  [Abstract!Next]_(Abstract!vars)
  <1>1. CASE SendClear
    <2>1. ~Busy /\ ~Busy' /\ vf' = vf
      BY <1>1 DEF SendClear, Busy
    <2> QED BY <1>1, <2>1, SameDraw, AbstractStutters DEF SendClear, Picture, Drawing, Raised
  <1>2. CASE ClearShadow
    <2>1. ~Busy /\ ~Busy' /\ vf' = vf /\ draw' = draw /\ left' = left /\ draw = NoDraw /\ left = {}
      BY <1>2 DEF ClearShadow, Busy, DrawInv
    <2>2. Lit' = {}
      BY <1>2 DEF ClearShadow, Lit
    <2>3. Picture' = {}
      BY <2>1, <2>2, NothingToDraw DEF Picture, Done
    <2>4. Abstract!Clear
      BY <2>1, <2>3 DEF Abstract!Clear, Picture, Done
    <2> QED BY <2>4 DEF Abstract!Next
  <1>3. CASE BeginDraw
    <2>1. /\ ~Busy /\ Busy' /\ draw' \in Draws /\ left' = OnBits(draw'.sprite)
          /\ DisplayData' = DisplayData /\ draw = NoDraw /\ left = {}
      BY <1>3 DEF BeginDraw, Busy, DrawInv
    <2>2. Lit' = Lit
      BY <2>1 DEF Lit
    <2>3. Done' = {} /\ Done = {}
      BY <2>1, NothingToDraw DEF Done, CellsOf
    <2>4. Picture' = Picture
      BY <2>2, <2>3 DEF Picture
    <2>5. FigureOf(draw') \in {FigureOf(d) : d \in Draws}
      BY <2>1
    <2>6. Abstract!Begin
      BY <2>1, <2>4, <2>5 DEF Abstract!Begin, Picture, Done, FigureOf, CellsOf
    <2> QED BY <2>6 DEF Abstract!Next
  <1>4. CASE PutPixel
    <2>1. Busy /\ Busy' /\ draw' = draw
      BY <1>4 DEF PutPixel, Busy
    <2>2. Picture' = Picture
      BY <1>4, PutPixelDraws DEF Picture
    <2>3. Drawing' = Drawing /\ Raised' = Raised
      BY <2>1 DEF Drawing, Raised, FigureOf, CellsOf
    <2> QED BY <2>2, <2>3, AbstractStutters
  <1>5. CASE Overrun
    <2>1. Busy /\ Busy' /\ draw' = draw
      BY <1>5 DEF Overrun, Busy
    <2>2. Picture' = Picture
      BY <1>5, SameDraw DEF Overrun, Picture
    <2>3. Drawing' = Drawing /\ Raised' = Raised
      BY <2>1 DEF Drawing, Raised, FigureOf, CellsOf
    <2> QED BY <2>2, <2>3, AbstractStutters
  <1>6. CASE EndDraw
    <2>1. /\ Busy /\ ~Busy' /\ left = {} /\ left' = {} /\ draw' = NoDraw
          /\ DisplayData' = DisplayData /\ vf' = vf
      BY <1>6 DEF EndDraw, Busy
    <2>2. Lit' = Lit
      BY <2>1 DEF Lit
    <2>3. Done = FigureOf(draw)
      BY <2>1 DEF Done, FigureOf
    <2>4. Done' = {}
      BY <2>1, NothingToDraw DEF Done
    <2> DEFINE cells == FigureOf(draw)
    <2>5. Picture' = (Picture \ cells) \cup (cells \ Picture)
      BY <2>2, <2>3, <2>4 DEF Picture, Toggle
    <2>6. vf' = Flag(Picture \cap cells # {})
      <3>1. vf' = Flag(cells \ Lit # {})
        BY <2>1, <2>3 DEF DrawInv
      <3>2. Picture \cap cells = cells \ Lit
        BY <2>3 DEF Picture, Toggle
      <3> QED BY <3>1, <3>2
    <2>7. Drawing = {cells} /\ Drawing' = {} /\ Raised' = vf'
      BY <2>1 DEF Drawing, Raised
    <2> HIDE DEF cells
    <2>8. /\ Drawing = {cells} /\ Picture' = (Picture \ cells) \cup (cells \ Picture)
          /\ Raised' = Flag(Picture \cap cells # {}) /\ Drawing' = {}
      BY <2>5, <2>6, <2>7
    <2>9. Abstract!Finish
      BY <2>8 DEF Abstract!Finish, Abstract!Flag, Flag, Picture, Drawing, Raised, Done
    <2> QED BY <2>9 DEF Abstract!Next
  <1>7. CASE Clock
    <2>1. UNCHANGED <<DisplayData, task, draw, left, vf>>
      BY <1>7 DEF Clock, loop
    <2>2. Picture' = Picture
      BY <2>1, SameDraw DEF Picture
    <2>3. Drawing' = Drawing /\ Raised' = Raised
      BY <2>1 DEF Drawing, Raised, Busy, FigureOf, CellsOf
    <2> QED BY <2>2, <2>3, AbstractStutters
  <1>8. CASE Reset
    <2>1. ~Busy' /\ vf' = 0 /\ draw' = NoDraw /\ left' = {} /\ DisplayData' = {}
      BY <1>8 DEF Reset, Busy
    <2>2. Lit' = {}
      BY <2>1 DEF Lit
    <2>3. Picture' = {}
      BY <2>1, <2>2, NothingToDraw DEF Picture, Done
    <2>4. Abstract!Restart
      BY <2>1, <2>3 DEF Abstract!Restart, Picture, Done
    <2> QED BY <2>4 DEF Abstract!Next
  <1>9. CASE UNCHANGED vars
    <2>1. UNCHANGED <<DisplayData, task, draw, left, vf>>
      BY <1>9 DEF vars, loop
    <2>2. Picture' = Picture
      BY <2>1, SameDraw DEF Picture
    <2>3. Drawing' = Drawing /\ Raised' = Raised
      BY <2>1 DEF Drawing, Raised, Busy, FigureOf, CellsOf
    <2> QED BY <2>2, <2>3, AbstractStutters
  <1> QED BY <1>1, <1>2, <1>3, <1>4, <1>5, <1>6, <1>7, <1>8, <1>9 DEF Next, Firmware

\* If no draw crosses the right edge, drawing pixel by pixel implements the XOR of
\* whole figures and its collision flag, for every display and every set of
\* sprites, those that leave the display at the bottom or wrap to its top included,
\* and with a reset at any point of a draw (CPU.c 439-457, Display.c 8-29).
THEOREM DrawsWholeFigures == ASSUME ColumnsFit PROVE Spec => ImplementsScreen
  <1>1. Init => Abstract!Init
    BY InitScreen
  <1>2. Init => DrawInv
    BY InitDrawInv
  <1>3. TypeOK /\ DrawInv /\ [Next]_vars => DrawInv'
    BY StepDrawInv
  <1>4. TypeOK /\ DrawInv /\ DrawInv' /\ [Next]_vars => [Abstract!Next]_(Abstract!vars)
    BY StepScreen
  <1> QED BY <1>1, <1>2, <1>3, <1>4, VideoTyping, PTL DEF Spec, ImplementsScreen, Abstract!Spec

=============================================================================
