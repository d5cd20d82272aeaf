---------------------------------- MODULE Lcd ----------------------------------
(***************************************************************************)
(* What Screens_dispaly.sv puts together: the scan of VgaSync, the blanking *)
(* of the colours, and lcd_ctrl.sv, which copies the scan to a panel of its *)
(* own; with the read-out half of Video_Buffer.sv, which feeds both.        *)
(*                                                                          *)
(* One step is an edge of the 100 MHz clock.  The 25 MHz clock, of the scan *)
(* and of the command machine, rises with every fourth edge; the 12.5 MHz   *)
(* clock of the picture memory with every eighth (pll6_25.v: one phase).    *)
(* Numbers of the code are constants: the size of a cell 10, the border 80  *)
(* and 400, the waits 20000000 and 3000000, the stops 60E and 636 in the    *)
(* table of commands.  A level is the cell that was read, not its colour.   *)
(***************************************************************************)
EXTENDS VgaSync

CONSTANTS
  CELL, TOP, BOTTOM,      \* a cell's pixels, and the rows between the borders
  Settles,                \* waits before the first command; the code has one
  DELAY, RESET, COUNTS,   \* later waits, the panel's reset, 2^26
  FirstStop, LastStop,    \* where the table's first part and the table end
  Black, White            \* border or blank; the levels during a reset

ASSUME LcdAssumption ==
  /\ {CELL, TOP, BOTTOM, DELAY, RESET, COUNTS, FirstStop, LastStop} \subseteq Nat \ {0}
  /\ h_pixels > 1 /\ v_pixels > 1 /\ TOP <= BOTTOM
  /\ Settles \subseteq RESET..(COUNTS - 1) /\ DELAY < COUNTS
  /\ FirstStop % 4 = 2 /\ LastStop % 4 = 2 /\ FirstStop < LastStop /\ LastStop < 2048
\* Borders above and below, blanking after every line, and cells that are no border.
ASSUME LevelAssumption ==
  /\ BOTTOM < v_pixels /\ h_period > h_pixels
  /\ Black # White /\ {Black, White} \intersect (Nat \X Nat) = {}

VARIABLES
  quarter,      \* 100 MHz edges since the last of the 12.5 MHz clock
  settle,       \* the first wait of this start-up
  state, count, address, lcd_address,   \* lcd_address: as the table has taken it
  rgb_state,
  level,        \* Red_level, Green_level and Blue_level
  panel         \* the LCD: how many bytes of the table it has latched, and where
                \* the next byte of a pixel goes

commands == <<state, count, address, lcd_address>>
lcdVars == <<vars, quarter, settle, commands, rgb_state, level, panel>>

Fresh == [table |-> 0, row |-> 0, column |-> 0, half |-> 0]

LcdInit ==
  /\ Init
  /\ quarter \in {0, 4} /\ settle \in Settles
  /\ state = "HOLD" /\ count = 0 /\ address = 0 /\ lcd_address = 0
  /\ rgb_state = "RGB_IDLE" /\ level = Black /\ panel = Fresh

-----------------------------------------------------------------------------
(* The machine that sends the table: CMD and DATA words of two bytes.  The
   states RGB_CMD_*, which no state leads to, are left out. *)

CmdLow == {"CMD_1_d", "CMD_2_d", "CMD_5_d", "CMD_6_d", "CMD_e_1_d", "CMD_e_2_d"}
DataLow == {"DATA_1_d", "DATA_2_d", "DATA_e_1_d", "DATA_e_2_d"}
DataHigh == {"DATA_1_u", "DATA_2_u", "DATA_e_1_u", "DATA_e_2_u"}

\* The states with one successor.
After ==
  [HOLD |-> "IDLE",
   CMD_1_d |-> "CMD_1_u", CMD_1_u |-> "CMD_2_d", CMD_2_d |-> "CMD_2_u",
   DATA_1_d |-> "DATA_1_u", DATA_1_u |-> "DATA_2_d", DATA_2_d |-> "DATA_2_u",
   DATA_2_u |-> "CMD_1_d",
   CMD_5_d |-> "CMD_5_u", CMD_5_u |-> "CMD_6_d", CMD_6_d |-> "CMD_6_u",
   CMD_6_u |-> "DELAY_2",
   CMD_e_1_d |-> "CMD_e_1_u", CMD_e_1_u |-> "CMD_e_2_d", CMD_e_2_d |-> "CMD_e_2_u",
   DATA_e_1_d |-> "DATA_e_1_u", DATA_e_1_u |-> "DATA_e_2_d", DATA_e_2_d |-> "DATA_e_2_u",
   DATA_e_2_u |-> "CMD_e_1_d",
   RGB_wait |-> "RGB_wait"]

next_state ==
  CASE state = "IDLE" -> IF count # settle THEN "IDLE" ELSE "CMD_1_d"
    [] state = "CMD_2_u" -> IF address # FirstStop THEN "DATA_1_d" ELSE "DELAY_1"
    [] state = "DELAY_1" -> IF count # DELAY THEN "DELAY_1" ELSE "CMD_5_d"
    [] state = "DELAY_2" -> IF count # DELAY THEN "DELAY_2" ELSE "CMD_e_1_d"
    [] state = "CMD_e_2_u" -> IF address # LastStop THEN "DATA_e_1_d" ELSE "RGB_wait"
    [] OTHER -> After[state]

\* Mutant of count_start: the first wait starts anew all the time.
count_start_Always == state \in {"HOLD", "CMD_6_u", "IDLE"}
count_start == state \in {"HOLD", "CMD_6_u"} \/ (state = "IDLE" /\ count = settle)
add_init == state = "HOLD" \/ (state = "IDLE" /\ count # settle)
add_next == state \in CmdLow \cup DataLow
rgb_on == state = "RGB_wait"
lcd_reset == ~(state = "IDLE" /\ count < RESET)
cmd_lcd_wr == state \notin CmdLow \cup DataLow \cup {"RGB_wait"}
cmd_lcd_d_c ==
  \/ state \in DataLow \cup DataHigh \cup {"DELAY_2"}
  \/ state = "DELAY_1" /\ count # DELAY

\* A clk_25 edge of the command machine.
Commands ==
  /\ state' = next_state
  /\ count' = IF count_start THEN 0 ELSE (count + 1) % COUNTS
  /\ address' = IF add_next THEN (address + 1) % 2048 ELSE IF add_init THEN 0 ELSE address
  /\ lcd_address' = address

-----------------------------------------------------------------------------
(* The machine that sends the pixels, each in two bytes. *)

last_line == column = h_pixels - 1
last_pixle == last_line /\ row = v_pixels - 1
first_line == column = 0
first_pixle == first_line /\ row = 0

\* The pixel waited for is there.
Starting ==
  \/ rgb_state \in {"RGB_WAIT_START", "RGB_WAIT_NEXT_FRAME"} /\ first_pixle
  \/ rgb_state = "RGB_WAIT_NEXT_LINE" /\ first_line

\* Mutant of rgb_next_state: no wait for the frame.
rgb_next_state_AnyLine ==
  CASE rgb_state = "RGB_IDLE" -> IF rgb_on THEN "RGB_WAIT_START" ELSE "RGB_IDLE"
    [] rgb_state = "RGB_DATA_1_d" -> "RGB_DATA_1_u"
    [] rgb_state = "RGB_DATA_1_u" -> "RGB_DATA_2_d"
    [] rgb_state = "RGB_DATA_2_d" -> "RGB_DATA_2_u"
    [] rgb_state = "RGB_DATA_2_u" -> IF last_line THEN "RGB_WAIT_NEXT_LINE" ELSE "RGB_DATA_1_d"
    [] OTHER -> IF Starting THEN "RGB_DATA_1_u" ELSE rgb_state

\* STUCK, which no state leads to, is left out.
rgb_next_state ==
  CASE rgb_state = "RGB_IDLE" -> IF rgb_on THEN "RGB_WAIT_START" ELSE "RGB_IDLE"
    [] rgb_state = "RGB_DATA_1_d" -> "RGB_DATA_1_u"
    [] rgb_state = "RGB_DATA_1_u" -> "RGB_DATA_2_d"
    [] rgb_state = "RGB_DATA_2_d" -> "RGB_DATA_2_u"
    [] rgb_state = "RGB_DATA_2_u" /\ last_pixle -> "RGB_WAIT_NEXT_FRAME"
    [] rgb_state = "RGB_DATA_2_u" /\ ~last_pixle ->
         IF last_line THEN "RGB_WAIT_NEXT_LINE" ELSE "RGB_DATA_1_d"
    [] OTHER -> IF Starting THEN "RGB_DATA_1_u" ELSE rgb_state

rgb_lcd_wr ==
  /\ rgb_state = "RGB_IDLE" => rgb_on
  /\ rgb_state \notin {"RGB_DATA_1_d", "RGB_DATA_2_d"}
  /\ ~Starting
rgb_lcd_d_c == rgb_state # "RGB_IDLE" /\ (rgb_state = "RGB_WAIT_START" => first_pixle)
rgb_data_1 == rgb_lcd_d_c /\ rgb_state \notin {"RGB_DATA_2_d", "RGB_DATA_2_u"}
rgb_data_2 == rgb_state \in {"RGB_DATA_2_d", "RGB_DATA_2_u"}

-----------------------------------------------------------------------------
(* The signals to the panel, and the panel, which takes what is on the bus when
   the write signal rises. *)

\* The colours of both screens are blanked outside the picture.
Colour == IF disp_ena THEN level ELSE Black

lcd_wr == rgb_lcd_wr \/ cmd_lcd_wr
lcd_d_c == cmd_lcd_d_c \/ rgb_lcd_d_c
lcd_db ==
  CASE rgb_data_1 -> <<"upper", Colour>>
    [] rgb_data_2 -> <<"lower", Colour>>
    [] OTHER -> <<"table", lcd_address>>

Latches == ~lcd_wr /\ lcd_wr'

\* The panel fills its window row by row and starts again when it is full.
Taken(p) ==
  IF p.table < LastStop THEN [p EXCEPT !.table = @ + 1]
  ELSE IF p.half = 0 THEN [p EXCEPT !.half = 1]
  ELSE LET next == Following(p.row, p.column)
       IN  [p EXCEPT !.row = next[1], !.column = next[2], !.half = 0]
Panel ==
  panel' = IF ~lcd_reset' THEN Fresh ELSE IF Latches THEN Taken(panel) ELSE panel

-----------------------------------------------------------------------------
(* The read-out of the picture memory. *)

\* Mutant of CellOf: the upper border is not subtracted.
CellOf_Whole(r, c) == IF r < TOP \/ r >= BOTTOM THEN Black ELSE <<r \div CELL, c \div CELL>>
CellOf(r, c) ==
  IF r < TOP \/ r >= BOTTOM THEN Black ELSE <<(r - TOP) \div CELL, c \div CELL>>

\* A reset, at any time, makes the screen white up to the next clock after it.
ReadOut ==
  \E pressed \in BOOLEAN :
    level' = IF pressed THEN White ELSE IF quarter = 7 THEN CellOf(row, column) ELSE level

\* An edge of clk_100 alone, and one that is an edge of clk_25 too.
Between == quarter % 4 # 3 /\ UNCHANGED <<vars, commands>>
Pixel == quarter % 4 = 3 /\ Clock /\ Commands

Step ==
  /\ quarter' = (quarter + 1) % 8
  /\ Between \/ Pixel
  /\ rgb_state' = rgb_next_state
  /\ ReadOut /\ Panel
  /\ UNCHANGED settle

LcdSpec == LcdInit /\ [][Step]_lcdVars

\* The pixels start with the first pixel of the frame after the table.  Were the
\* table to end at just that pixel, they would start a quarter of a pixel late and
\* stay so; with the waits of the code it ends at row 475, column 83, 26000084
\* edges of clk_25 after power-up.
StartsBetween == rgb_state = "RGB_IDLE" /\ rgb_on => ~first_pixle

-----------------------------------------------------------------------------

\* The table is made of words of two bytes: commands and their arguments take
\* turns, but the command before FirstStop has no argument and another follows it.
IsArgument(i) == i % 4 >= 2 /\ i \notin {FirstStop, FirstStop + 1}

\* While the panel is being set up it takes the bytes of the table in order,
\* each as what it is, and none twice (lcd_ctrl.sv 133-444).
TableInOrder ==
  panel.table < LastStop =>
    lcd_db' = <<"table", panel.table>> /\ lcd_d_c' = IsArgument(panel.table)

\* From then on the panel, which only counts what it is sent, takes the halves of
\* the pixel the scan is at, of every pixel and of nothing else: no half is lost
\* or added in a blanking interval, between lines or between frames.
PixelInStep ==
  panel.table = LastStop =>
    /\ lcd_d_c' /\ disp_ena'
    /\ <<row', column'>> = <<panel.row, panel.column>>
    /\ lcd_db' = <<IF panel.half = 0 THEN "upper" ELSE "lower", level'>>

\* What the panel latches is right, and was on the bus an edge earlier (unless a
\* reset makes the screen white in between).
LcdInStep ==
  [][Latches => /\ TableInOrder /\ PixelInStep
                /\ lcd_db = lcd_db' \/ (level # level' /\ level' = White)]_lcdVars

\* The panel is sent one picture after another.
LcdFramesForever ==
  /\ []<>(panel.row = 0 /\ panel.column = 0)
  /\ []<>(panel.row = v_pixels - 1 /\ panel.column = h_pixels - 1)

\* An enabled pixel shows the cell of the pixel before it or of the one before
\* that, in turns, since cells are read at half the rate of the pixels: the first
\* pixel of a line shows the last cell of the line above (Video_Buffer.sv 74-91
\* under the clocks of Top_template.sv 227-235, 311-317).
CellsLag ==
  disp_ena /\ level # White =>
    LET lag == IF column = 0 THEN 1 ELSE 1 + quarter \div 4
        pixel == (row * h_pixels + column - lag) % (h_pixels * v_pixels)
        r == pixel \div h_pixels
        c == pixel % h_pixels
    IN  IF level = Black THEN r \notin TOP..(BOTTOM - 1)
        ELSE /\ r - TOP \in (level[1] * CELL)..(level[1] * CELL + CELL - 1)
             /\ c \in (level[2] * CELL)..(level[2] * CELL + CELL - 1)

=============================================================================
