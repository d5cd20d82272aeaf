------------------------------ MODULE LcdProofs ------------------------------
(***************************************************************************)
(* The scan of vga_controller.v shows every pixel once per frame and in     *)
(* order; the panel of lcd_ctrl.sv is sent the table in order and then every *)
(* pixel of the scan once and in step with it: for all sizes of the picture, *)
(* the blanking intervals and the table.                                    *)
(***************************************************************************)
EXTENDS Lcd, TLAPS

-----------------------------------------------------------------------------
(* The scan alone. *)

\* The registers show the counters of the previous clock, and a blanking
\* interval keeps the coordinates: so the counters determine the coordinates,
\* except before the first clock.
Powered ==
  /\ h_count = 0 /\ v_count = 0 /\ ~disp_ena /\ column = 0 /\ row = 0

LastLine == IF h_count > 0 THEN v_count
            ELSE IF v_count > 0 THEN v_count - 1 ELSE v_period - 1

Scanned ==
  /\ column = IF h_count \in 1..h_pixels THEN h_count - 1 ELSE h_pixels - 1
  /\ row = IF LastLine < v_pixels THEN LastLine ELSE v_pixels - 1

IInv == TypeOK /\ (Powered \/ Scanned)

-----------------------------------------------------------------------------

LEMMA PeriodType ==
  /\ h_period \in Nat /\ h_period >= h_pixels
  /\ v_period \in Nat /\ v_period >= v_pixels
  BY VgaAssumption DEF h_period, v_period

LEMMA InitIInv == Init => IInv
  <1> SUFFICES ASSUME Init PROVE IInv
    OBVIOUS
  <1>1. TypeOK
    <2>1. /\ h_count \in 0..(h_period - 1) /\ v_count \in 0..(v_period - 1)
          /\ column \in 0..(h_pixels - 1) /\ row \in 0..(v_pixels - 1)
      BY VgaAssumption, PeriodType DEF Init
    <2>2. h_sync \in {0, 1} /\ v_sync \in {0, 1} /\ disp_ena \in BOOLEAN
      BY DEF Init
    <2> QED BY <2>1, <2>2 DEF TypeOK
  <1>2. Powered
    BY DEF Init, Powered
  <1> QED BY <1>1, <1>2 DEF IInv

LEMMA StepTypeOK == TypeOK /\ [Clock]_vars => TypeOK'
  <1> SUFFICES ASSUME TypeOK, [Clock]_vars PROVE TypeOK'
    OBVIOUS
  <1>1. CASE Clock
    <2>1. h_count' \in 0..(h_period - 1) /\ v_count' \in 0..(v_period - 1)
      BY <1>1, PeriodType, VgaAssumption DEF Clock, Counters, TypeOK
    <2>2. h_sync' \in {0, 1} /\ v_sync' \in {0, 1} /\ disp_ena' \in BOOLEAN
      BY <1>1, VgaAssumption DEF Clock
    <2>3. column' \in 0..(h_pixels - 1) /\ row' \in 0..(v_pixels - 1)
      BY <1>1, VgaAssumption DEF Clock, TypeOK
    <2> QED BY <2>1, <2>2, <2>3 DEF TypeOK
  <1>2. CASE UNCHANGED vars
    BY <1>2 DEF vars, TypeOK
  <1> QED BY <1>1, <1>2

\* After a clock the coordinates are those of the counters before it.
LEMMA ClockScans ==
  ASSUME TypeOK, Powered \/ Scanned, Clock
  PROVE  Scanned'
  <1> USE VgaAssumption, PeriodType
  <1>1. column' = IF h_count' \in 1..h_pixels THEN h_count' - 1 ELSE h_pixels - 1
    BY DEF TypeOK, Powered, Scanned, Clock, Counters
  <1>2. LastLine' = v_count
    BY DEF TypeOK, LastLine, Clock, Counters
  <1>3. v_count >= v_pixels => row = v_pixels - 1
    <2> SUFFICES ASSUME v_count >= v_pixels PROVE row = v_pixels - 1
      OBVIOUS
    <2>1. Scanned
      BY DEF TypeOK, Powered
    <2>2. LastLine = v_count \/ LastLine = v_count - 1
      BY DEF TypeOK, LastLine
    <2> QED BY <2>1, <2>2 DEF Scanned, TypeOK
  <1>4. row' = IF v_count < v_pixels THEN v_count ELSE v_pixels - 1
    BY <1>3 DEF Clock, TypeOK
  <1> QED BY <1>1, <1>2, <1>4 DEF Scanned

LEMMA StepIInv == IInv /\ [Clock]_vars => IInv'
  <1> SUFFICES ASSUME IInv, [Clock]_vars PROVE IInv'
    OBVIOUS
  <1>1. TypeOK'
    BY StepTypeOK DEF IInv
  <1>2. CASE Clock
    BY <1>1, <1>2, ClockScans DEF IInv
  <1>3. CASE UNCHANGED vars
    BY <1>1, <1>3 DEF vars, IInv, Powered, Scanned, LastLine
  <1> QED BY <1>2, <1>3

\* Counters and coordinates keep their ranges, for all sizes.
THEOREM VgaTyping == Spec => []TypeOK
  <1>1. Init => TypeOK
    BY InitIInv DEF IInv
  <1>2. TypeOK /\ [Clock]_vars => TypeOK'
    BY StepTypeOK
  <1> QED BY <1>1, <1>2, PTL DEF Spec

LEMMA Wraps ==
  ASSUME NEW n \in Nat \ {0}, NEW i \in 0..(n - 1)
  PROVE  i % n = i /\ n % n = 0
  OBVIOUS

LEMMA StepRaster ==
  ASSUME IInv, Clock, disp_ena'
  PROVE  \/ <<row', column'>> = Following(row, column)
         \/ ~disp_ena /\ <<row, column>> = <<0, 0>> /\ <<row', column'>> = <<0, 0>>
  <1> USE VgaAssumption, PeriodType
  <1>1. h_count < h_pixels /\ v_count < v_pixels /\ column' = h_count /\ row' = v_count
    BY DEF Clock
  <1>2. TypeOK
    BY DEF IInv
  <1>3. CASE Powered
    BY <1>1, <1>3 DEF Powered
  <1>4. CASE Scanned /\ h_count > 0
    <2>1. column = h_count - 1 /\ row = v_count
      BY <1>1, <1>2, <1>4 DEF Scanned, LastLine, TypeOK
    <2> QED BY <1>1, <1>2, <1>4, <2>1 DEF Following, TypeOK
  <1>5. CASE Scanned /\ ~(h_count > 0)
    <2>1. h_count = 0 /\ column = h_pixels - 1
      BY <1>2, <1>5 DEF Scanned, TypeOK
    <2>2. row + 1 = IF v_count > 0 THEN v_count ELSE v_pixels
      BY <1>1, <1>2, <1>5 DEF Scanned, LastLine, TypeOK
    <2>3. (row + 1) % v_pixels = v_count
      <3>1. v_count % v_pixels = v_count /\ v_pixels % v_pixels = 0
        BY <1>1, <1>2, Wraps DEF TypeOK
      <3>2. CASE v_count > 0
        BY <2>2, <3>1, <3>2
      <3>3. CASE ~(v_count > 0)
        <4>1. v_count = 0
          BY <1>2, <3>3 DEF TypeOK
        <4> QED BY <2>2, <3>1, <4>1
      <3> QED BY <3>2, <3>3
    <2>4. ~(column < h_pixels - 1)
      BY <2>1
    <2> QED BY <1>1, <2>1, <2>3, <2>4 DEF Following
  <1> QED BY <1>3, <1>4, <1>5 DEF IInv

\* The enabled pixels come in raster order, for all sizes of the picture and of
\* the blanking intervals, empty ones too.
THEOREM VgaRaster == Spec => Raster
  <1>1. Init => IInv
    BY InitIInv
  <1>2. IInv /\ [Clock]_vars => IInv'
    BY StepIInv
  <1>3. IInv /\ [Clock]_vars =>
          [disp_ena' =>
             \/ <<row', column'>> = Following(row, column)
             \/ ~disp_ena /\ <<row, column>> = <<0, 0>> /\ <<row', column'>> = <<0, 0>>]_vars
    BY StepRaster
  <1> QED BY <1>1, <1>2, <1>3, PTL DEF Spec, Raster

\* No enabled pixel lies in a sync pulse, although the pulses are a count longer
\* than their parameters say.
THEOREM VgaBlanking == Spec => []BlankInPulse
  <1>1. Init => BlankInPulse
    BY DEF Init, BlankInPulse
  <1>2. TypeOK /\ BlankInPulse /\ [Clock]_vars => BlankInPulse'
    <2> SUFFICES ASSUME TypeOK, BlankInPulse, [Clock]_vars PROVE BlankInPulse'
      OBVIOUS
    <2>1. CASE Clock
      <3> SUFFICES ASSUME disp_ena' PROVE h_sync' = 1 - h_pol /\ v_sync' = 1 - v_pol
        BY DEF BlankInPulse
      <3>1. h_count < h_pixels /\ v_count < v_pixels
        BY <2>1 DEF Clock
      <3>2. ~HPulse(h_count) /\ ~VPulse(v_count)
        BY <3>1, VgaAssumption DEF TypeOK, HPulse, VPulse
      <3> QED BY <2>1, <3>2 DEF Clock
    <2>2. CASE UNCHANGED vars
      BY <2>2 DEF vars, BlankInPulse
    <2> QED BY <2>1, <2>2
  <1> QED BY <1>1, <1>2, VgaTyping, PTL DEF Spec

-----------------------------------------------------------------------------
(* The panel. *)

\* The scan is not disturbed by what watches it.
LEMMA StepScans == [Step]_lcdVars => [Clock]_vars
  BY DEF Step, Between, Pixel, lcdVars

\* So all that holds of the scan alone holds of it here.
THEOREM LcdScans == LcdSpec => Spec
  <1>1. LcdInit => Init
    BY DEF LcdInit
  <1> QED BY <1>1, StepScans, PTL DEF LcdSpec, Spec

-----------------------------------------------------------------------------
(* The inductive invariant. *)

At(t, r, c, l) == [table |-> t, row |-> r, column |-> c, half |-> l]

\* An enabled pixel is one of the picture's lines, not of those below it.
Enabled == Scanned /\ disp_ena => LastLine < v_pixels

ScanInv == IInv /\ disp_ena \in BOOLEAN /\ Enabled

\* Where in a pair of words each state of the command machine is.
Zero == {"CMD_1_d", "DATA_2_u", "CMD_e_1_d", "DATA_e_2_u"}
One == {"CMD_1_u", "CMD_2_d", "CMD_e_1_u", "CMD_e_2_d"}
Two == {"CMD_2_u", "DATA_1_d", "CMD_e_2_u", "DATA_e_1_d"}
Three == {"DATA_1_u", "DATA_2_d", "DATA_e_1_u", "DATA_e_2_d"}
FirstPart == {"CMD_1_d", "CMD_1_u", "CMD_2_d", "CMD_2_u",
              "DATA_1_d", "DATA_1_u", "DATA_2_d", "DATA_2_u"}
LastPart == {"CMD_e_1_d", "CMD_e_1_u", "CMD_e_2_d", "CMD_e_2_u",
             "DATA_e_1_d", "DATA_e_1_u", "DATA_e_2_d", "DATA_e_2_u"}
Middle == {"DELAY_1", "CMD_5_d", "CMD_5_u", "CMD_6_d", "CMD_6_u", "DELAY_2"}

\* The address counts the bytes that have been taken, and the position in the
\* table agrees with the state.
Place ==
  /\ state \in {"HOLD", "IDLE"} => address = 0
  /\ state \in Zero => address % 4 = 0
  /\ state \in One => address % 4 = 1
  /\ state \in Two => address % 4 = 2
  /\ state \in Three => address % 4 = 3
  /\ state \in FirstPart =>
       address < FirstStop \/ (state = "CMD_2_u" /\ address = FirstStop)
  /\ state \in {"DELAY_1", "CMD_5_d"} => address = FirstStop
  /\ state \in {"CMD_5_u", "CMD_6_d"} => address = FirstStop + 1
  /\ state \in {"CMD_6_u", "DELAY_2"} => address = FirstStop + 2
  /\ state \in LastPart => address > FirstStop + 1
  /\ state \in LastPart =>
       address < LastStop \/ (state = "CMD_e_2_u" /\ address = LastStop)
  /\ state = "RGB_wait" => address = LastStop

\* The table is being sent.
Sending ==
  /\ state \in {"HOLD", "IDLE"} \cup FirstPart \cup Middle \cup LastPart
  /\ rgb_state = "RGB_IDLE"
  /\ state \in {"HOLD", "IDLE"} \cup CmdLow \cup DataLow => lcd_address = address
  /\ panel = At(address, 0, 0, 0)

\* The table has been sent; the panel is where the scan is or will be.
Ready == rgb_state = "RGB_IDLE" /\ quarter % 4 = 0 /\ panel = At(LastStop, 0, 0, 0)
ForFrame ==
  /\ rgb_state \in {"RGB_WAIT_START", "RGB_WAIT_NEXT_FRAME"}
  /\ panel = At(LastStop, 0, 0, 0)
  /\ first_pixle => quarter % 4 = 0 /\ disp_ena
ForLine ==
  /\ rgb_state = "RGB_WAIT_NEXT_LINE"
  /\ \/ /\ column = h_pixels - 1 /\ row < v_pixels - 1
        /\ panel = At(LastStop, row + 1, 0, 0)
     \/ /\ column = 0 /\ disp_ena /\ quarter % 4 = 0
        /\ panel = At(LastStop, row, 0, 0)
InPixel ==
  /\ disp_ena
  /\ \/ /\ rgb_state = "RGB_DATA_1_d" /\ quarter % 4 = 0
        /\ panel = At(LastStop, row, column, 0)
     \/ /\ rgb_state = "RGB_DATA_1_u" /\ quarter % 4 = 1
        /\ panel = At(LastStop, row, column, 1)
     \/ /\ rgb_state = "RGB_DATA_2_d" /\ quarter % 4 = 2
        /\ panel = At(LastStop, row, column, 1)
     \/ /\ rgb_state = "RGB_DATA_2_u" /\ quarter % 4 = 3
        /\ panel = At(LastStop, Following(row, column)[1], Following(row, column)[2], 0)

Showing == state = "RGB_wait" /\ (Ready \/ ForFrame \/ ForLine \/ InPixel)

LcdInv ==
  /\ quarter \in 0..7 /\ address \in 0..LastStop
  /\ ScanInv /\ Place /\ (Sending \/ Showing)

-----------------------------------------------------------------------------

LEMMA Sizes ==
  /\ FirstStop \in Nat /\ LastStop \in Nat /\ FirstStop < LastStop /\ LastStop < 2048
  /\ FirstStop % 4 = 2 /\ LastStop % 4 = 2
  /\ h_pixels \in Nat /\ h_pixels > 1 /\ v_pixels \in Nat /\ v_pixels > 1
  BY LcdAssumption, VgaAssumption

\* The remainder of the next number.
LEMMA NextByFour ==
  ASSUME NEW n \in Nat
  PROVE  /\ n % 4 = 0 => (n + 1) % 4 = 1
         /\ n % 4 = 1 => (n + 1) % 4 = 2
         /\ n % 4 = 2 => (n + 1) % 4 = 3
         /\ n % 4 = 3 => (n + 1) % 4 = 0
  OBVIOUS

LEMMA QuarterStep ==
  ASSUME quarter \in 0..7, quarter' = (quarter + 1) % 8
  PROVE  /\ quarter' \in 0..7
         /\ quarter % 4 = 0 => quarter' % 4 = 1
         /\ quarter % 4 = 1 => quarter' % 4 = 2
         /\ quarter % 4 = 2 => quarter' % 4 = 3
         /\ quarter % 4 = 3 => quarter' % 4 = 0
  <1>1. quarter' = IF quarter = 7 THEN 0 ELSE quarter + 1
    OBVIOUS
  <1> QED BY <1>1

\* What the panel takes.
LEMMA TakesByte ==
  ASSUME NEW t \in Nat, t < LastStop, NEW r, NEW c, NEW l
  PROVE  Taken(At(t, r, c, l)) = At(t + 1, r, c, l)
  BY DEF Taken, At
LEMMA TakesUpper ==
  ASSUME NEW r, NEW c
  PROVE  Taken(At(LastStop, r, c, 0)) = At(LastStop, r, c, 1)
  <1>1. ~(LastStop < LastStop)
    BY Sizes
  <1>2. At(LastStop, r, c, 0).table = LastStop /\ At(LastStop, r, c, 0).half = 0
    BY DEF At
  <1>3. Taken(At(LastStop, r, c, 0)) = [At(LastStop, r, c, 0) EXCEPT !.half = 1]
    BY <1>1, <1>2 DEF Taken
  <1> QED BY <1>3 DEF At
LEMMA TakesLower ==
  ASSUME NEW r, NEW c
  PROVE  Taken(At(LastStop, r, c, 1)) =
           At(LastStop, Following(r, c)[1], Following(r, c)[2], 0)
  <1> DEFINE p == At(LastStop, r, c, 1)
  <1>1. ~(LastStop < LastStop)
    BY Sizes
  <1>2. p.table = LastStop /\ ~(p.half = 0) /\ p.row = r /\ p.column = c
    BY DEF At
  <1>3. Taken(p) = [p EXCEPT !.row = Following(r, c)[1], !.column = Following(r, c)[2],
                             !.half = 0]
    BY <1>1, <1>2 DEF Taken
  <1> QED BY <1>3 DEF At

-----------------------------------------------------------------------------
(* The scan. *)

LEMMA ScanTypes ==
  ASSUME ScanInv
  PROVE  /\ h_count \in 0..(h_period - 1) /\ v_count \in 0..(v_period - 1)
         /\ column \in 0..(h_pixels - 1) /\ row \in 0..(v_pixels - 1)
         /\ disp_ena \in BOOLEAN
         /\ h_period \in Nat /\ h_period >= h_pixels
         /\ v_period \in Nat /\ v_period >= v_pixels
  BY PeriodType DEF ScanInv, IInv, TypeOK

LEMMA ClockEnabled ==
  ASSUME ScanInv, Clock
  PROVE  Enabled'
  <1>1. LastLine' = v_count
    BY ScanTypes, Sizes DEF LastLine, Clock, Counters
  <1>2. disp_ena' = (h_count < h_pixels /\ v_count < v_pixels)
    BY DEF Clock
  <1> QED BY <1>1, <1>2 DEF Enabled

LEMMA StepScanInv == ScanInv /\ [Clock]_vars => ScanInv'
  <1> SUFFICES ASSUME ScanInv, [Clock]_vars PROVE ScanInv'
    OBVIOUS
  <1>1. IInv'
    BY StepIInv DEF ScanInv
  <1>2. disp_ena' \in BOOLEAN
    BY <1>1 DEF IInv, TypeOK
  <1>3. CASE Clock
    BY <1>1, <1>2, <1>3, ClockEnabled DEF ScanInv
  <1>4. CASE UNCHANGED vars
    BY <1>1, <1>2, <1>4 DEF ScanInv, vars, Enabled, Scanned, LastLine
  <1> QED BY <1>3, <1>4

\* Inside a line the next pixel follows at once.
LEMMA NextPixel ==
  ASSUME ScanInv, disp_ena, column < h_pixels - 1, Clock
  PROVE  column' = column + 1 /\ row' = row /\ disp_ena'
  <1>1. Scanned /\ LastLine < v_pixels
    BY DEF ScanInv, Enabled, IInv, Powered
  <1>2. column = h_count - 1 /\ v_count = row
    BY <1>1, ScanTypes DEF Scanned, LastLine
  <1>3. h_count < h_pixels /\ v_count < v_pixels
    BY <1>2, ScanTypes, Sizes
  <1>4. disp_ena'
    BY <1>3 DEF Clock
  <1>5. column' = h_count /\ row' = v_count
    BY <1>3 DEF Clock
  <1> QED BY <1>2, <1>4, <1>5, ScanTypes

\* After a line the coordinates stay until the next line begins.
LEMMA NextLine ==
  ASSUME ScanInv, column = h_pixels - 1, row < v_pixels - 1, Clock
  PROVE  \/ column' = h_pixels - 1 /\ row' = row
         \/ column' = 0 /\ row' = row + 1 /\ disp_ena'
  <1>1. Scanned
    BY ScanTypes, Sizes DEF ScanInv, IInv, Powered
  <1>2. LastLine = row
    BY <1>1, ScanTypes, Sizes DEF Scanned
  <1>3. CASE h_count > 0
    <2>1. v_count = row /\ h_count >= h_pixels
      BY <1>1, <1>2, <1>3, ScanTypes, Sizes DEF LastLine, Scanned
    <2> QED BY <2>1, ScanTypes, Sizes DEF Clock
  <1>4. CASE ~(h_count > 0)
    <2>1. h_count = 0 /\ v_count = row + 1
      BY <1>2, <1>4, ScanTypes, Sizes DEF LastLine
    <2>2. h_count < h_pixels /\ v_count < v_pixels
      BY <2>1, ScanTypes, Sizes
    <2>3. disp_ena'
      BY <2>2 DEF Clock
    <2>4. column' = 0 /\ row' = row + 1
      BY <2>1, <2>2 DEF Clock
    <2> QED BY <2>3, <2>4
  <1> QED BY <1>3, <1>4

\* The first pixel of a frame is enabled when the scan comes to it.
LEMMA FirstShown ==
  ASSUME ScanInv, Clock, first_pixle'
  PROVE  disp_ena'
  <1>1. column' = 0 /\ row' = 0
    BY DEF first_pixle, first_line
  <1>2. Scanned' /\ LastLine' = v_count
    <2>1. TypeOK /\ (Powered \/ Scanned)
      BY DEF ScanInv, IInv
    <2>2. LastLine' = v_count
      BY ScanTypes, Sizes DEF LastLine, Clock, Counters
    <2> QED BY <2>1, <2>2, ClockScans
  <1>3. h_count < h_pixels
    <2>1. h_count' \in 1..h_pixels
      BY <1>1, <1>2, Sizes DEF Scanned
    <2> QED BY <2>1, ScanTypes, Sizes DEF Clock, Counters
  <1>4. v_count < v_pixels
    BY <1>1, <1>2, ScanTypes, Sizes DEF Scanned
  <1> QED BY <1>3, <1>4 DEF Clock

-----------------------------------------------------------------------------
(* The signals. *)

Low == CmdLow \cup DataLow

\* What may be said of a step at which the panel takes a byte.
Right ==
  /\ TableInOrder /\ PixelInStep
  /\ lcd_db = lcd_db' \/ (level # level' /\ level' = White)

LEMMA SendingSignals ==
  ASSUME rgb_state = "RGB_IDLE", state # "RGB_wait"
  PROVE  /\ lcd_wr <=> state \notin Low
         /\ lcd_db = <<"table", lcd_address>>
  <1>1. ~rgb_on /\ ~rgb_lcd_wr
    BY DEF rgb_on, rgb_lcd_wr
  <1>2. ~rgb_lcd_d_c /\ ~rgb_data_1 /\ ~rgb_data_2
    BY DEF rgb_lcd_d_c, rgb_data_1, rgb_data_2
  <1>3. lcd_wr <=> state \notin Low
    BY <1>1 DEF lcd_wr, cmd_lcd_wr, Low
  <1>4. lcd_db = <<"table", lcd_address>>
    BY <1>2 DEF lcd_db
  <1> QED BY <1>3, <1>4

LEMMA SendingSignalsNext ==
  ASSUME rgb_state' = "RGB_IDLE", state' # "RGB_wait"
  PROVE  /\ lcd_wr' <=> state' \notin Low
         /\ lcd_d_c' <=> cmd_lcd_d_c'
         /\ lcd_db' = <<"table", lcd_address'>>
  <1>1. ~rgb_on' /\ ~rgb_lcd_wr'
    BY DEF rgb_on, rgb_lcd_wr
  <1>2. ~rgb_lcd_d_c' /\ ~rgb_data_1' /\ ~rgb_data_2'
    BY DEF rgb_lcd_d_c, rgb_data_1, rgb_data_2
  <1>3. lcd_wr' <=> state' \notin Low
    BY <1>1 DEF lcd_wr, cmd_lcd_wr, Low, CmdLow, DataLow
  <1>4. lcd_db' = <<"table", lcd_address'>>
    BY <1>2 DEF lcd_db
  <1>5. lcd_d_c' <=> cmd_lcd_d_c'
    BY <1>2 DEF lcd_d_c
  <1> QED BY <1>3, <1>4, <1>5

LEMMA ShowingSignals ==
  ASSUME state = "RGB_wait"
  PROVE  /\ rgb_on
         /\ lcd_wr <=> rgb_lcd_wr
  BY DEF rgb_on, lcd_wr, cmd_lcd_wr

LEMMA ShowingSignalsNext ==
  ASSUME state' = "RGB_wait"
  PROVE  /\ lcd_wr' <=> rgb_lcd_wr'
         /\ lcd_reset'
         /\ rgb_lcd_d_c' => lcd_d_c'
  BY DEF lcd_wr, cmd_lcd_wr, lcd_reset, lcd_d_c

\* While the panel is not reset it changes only by what it takes.
LEMMA PanelStep ==
  ASSUME Panel, lcd_reset'
  PROVE  /\ Latches => panel' = Taken(panel)
         /\ ~Latches => panel' = panel
  BY DEF Panel

\* The levels stay while the first or the second half of a pixel is written.
LEMMA LevelStays ==
  ASSUME ReadOut, quarter # 7
  PROVE  level' = level \/ (level # level' /\ level' = White)
  BY DEF ReadOut

-----------------------------------------------------------------------------
(* While the table is sent. *)

LEMMA BetweenSending ==
  ASSUME Sending, Place, Step, Between
  PROVE  Sending' /\ ~Latches
  <1>1. /\ state' = state /\ count' = count /\ address' = address
        /\ lcd_address' = lcd_address
    BY DEF Between, commands
  <1>2. state # "RGB_wait"
    BY DEF Sending, FirstPart, Middle, LastPart
  <1>3. rgb_state' = "RGB_IDLE"
    BY <1>2 DEF Step, rgb_next_state, rgb_on, Sending
  <1>4. lcd_wr <=> state \notin Low
    BY <1>2, SendingSignals DEF Sending
  <1>5. lcd_wr' <=> state' \notin Low
    BY <1>1, <1>2, <1>3, SendingSignalsNext
  <1>6. ~Latches
    BY <1>1, <1>4, <1>5 DEF Latches
  <1>7. panel' = panel
    <2>1. CASE lcd_reset'
      BY <1>6, <2>1, PanelStep DEF Step
    <2>2. CASE ~lcd_reset'
      <3>1. state = "IDLE"
        BY <1>1, <2>2 DEF lcd_reset
      <3>2. panel' = Fresh
        BY <2>2 DEF Step, Panel
      <3> QED BY <3>1, <3>2 DEF Sending, Place, At, Fresh
    <2> QED BY <2>1, <2>2
  <1> QED BY <1>1, <1>3, <1>6, <1>7 DEF Sending

\* The successors of the states.
LEMMA Successors ==
  /\ state = "HOLD" => next_state = "IDLE"
  /\ state = "CMD_1_d" => next_state = "CMD_1_u"
  /\ state = "CMD_1_u" => next_state = "CMD_2_d"
  /\ state = "CMD_2_d" => next_state = "CMD_2_u"
  /\ state = "DATA_1_d" => next_state = "DATA_1_u"
  /\ state = "DATA_1_u" => next_state = "DATA_2_d"
  /\ state = "DATA_2_d" => next_state = "DATA_2_u"
  /\ state = "DATA_2_u" => next_state = "CMD_1_d"
  /\ state = "CMD_5_d" => next_state = "CMD_5_u"
  /\ state = "CMD_5_u" => next_state = "CMD_6_d"
  /\ state = "CMD_6_d" => next_state = "CMD_6_u"
  /\ state = "CMD_6_u" => next_state = "DELAY_2"
  /\ state = "CMD_e_1_d" => next_state = "CMD_e_1_u"
  /\ state = "CMD_e_1_u" => next_state = "CMD_e_2_d"
  /\ state = "CMD_e_2_d" => next_state = "CMD_e_2_u"
  /\ state = "DATA_e_1_d" => next_state = "DATA_e_1_u"
  /\ state = "DATA_e_1_u" => next_state = "DATA_e_2_d"
  /\ state = "DATA_e_2_d" => next_state = "DATA_e_2_u"
  /\ state = "DATA_e_2_u" => next_state = "CMD_e_1_d"
  /\ state = "RGB_wait" => next_state = "RGB_wait"
  BY DEF next_state, After

Places == {"HOLD", "IDLE"} \cup FirstPart \cup Middle \cup LastPart

\* After a byte the address is the next one, and the state that of its place.
LEMMA PlaceAfterLow ==
  ASSUME Place, address \in Nat, state \in Low, state' = next_state,
         address' = (address + 1) % 2048
  PROVE  /\ address' = address + 1 /\ address < LastStop
         /\ address' <= LastStop
         /\ state' \in Places \ (Low \cup {"HOLD", "IDLE"})
         /\ Place'
  <1> USE Sizes, NextByFour
  <1>1. address < LastStop
    BY DEF Place, Low, CmdLow, DataLow, FirstPart, LastPart
  <1>2. address' = address + 1
    BY <1>1
  <1> DEFINE Goal == state' \in Places \ (Low \cup {"HOLD", "IDLE"}) /\ Place'
  <1>3. CASE state = "CMD_1_d"
    <2>1. state' = "CMD_1_u" /\ address % 4 = 0 /\ address < FirstStop
      BY <1>3, Successors DEF Place, Zero, One, Two, Three, FirstPart, LastPart
    <2> QED BY <1>1, <1>2, <2>1
        DEF Place, Zero, One, Two, Three, FirstPart, Middle, LastPart, Places, Low, CmdLow, DataLow
  <1>4. CASE state = "CMD_2_d"
    <2>1. state' = "CMD_2_u" /\ address % 4 = 1 /\ address < FirstStop
      BY <1>4, Successors DEF Place, Zero, One, Two, Three, FirstPart, LastPart
    <2> QED BY <1>1, <1>2, <2>1
        DEF Place, Zero, One, Two, Three, FirstPart, Middle, LastPart, Places, Low, CmdLow, DataLow
  <1>5. CASE state = "DATA_1_d"
    <2>1. state' = "DATA_1_u" /\ address % 4 = 2 /\ address < FirstStop
      BY <1>5, Successors DEF Place, Zero, One, Two, Three, FirstPart, LastPart
    <2> QED BY <1>1, <1>2, <2>1
        DEF Place, Zero, One, Two, Three, FirstPart, Middle, LastPart, Places, Low, CmdLow, DataLow
  <1>6. CASE state = "DATA_2_d"
    <2>1. state' = "DATA_2_u" /\ address % 4 = 3 /\ address < FirstStop
      BY <1>6, Successors DEF Place, Zero, One, Two, Three, FirstPart, LastPart
    <2> QED BY <1>1, <1>2, <2>1
        DEF Place, Zero, One, Two, Three, FirstPart, Middle, LastPart, Places, Low, CmdLow, DataLow
  <1>7. CASE state = "CMD_5_d"
    <2>1. state' = "CMD_5_u" /\ address = FirstStop
      BY <1>7, Successors DEF Place, Zero, One, Two, Three, FirstPart, LastPart
    <2> QED BY <1>1, <1>2, <2>1
        DEF Place, Zero, One, Two, Three, FirstPart, Middle, LastPart, Places, Low, CmdLow, DataLow
  <1>8. CASE state = "CMD_6_d"
    <2>1. state' = "CMD_6_u" /\ address = FirstStop + 1
      BY <1>8, Successors DEF Place, Zero, One, Two, Three, FirstPart, LastPart
    <2> QED BY <1>1, <1>2, <2>1
        DEF Place, Zero, One, Two, Three, FirstPart, Middle, LastPart, Places, Low, CmdLow, DataLow
  <1>9. CASE state = "CMD_e_1_d"
    <2>1. state' = "CMD_e_1_u" /\ address % 4 = 0 /\ address > FirstStop + 1
      BY <1>9, Successors DEF Place, Zero, One, Two, Three, FirstPart, LastPart
    <2> QED BY <1>1, <1>2, <2>1
        DEF Place, Zero, One, Two, Three, FirstPart, Middle, LastPart, Places, Low, CmdLow, DataLow
  <1>10. CASE state = "CMD_e_2_d"
    <2>1. state' = "CMD_e_2_u" /\ address % 4 = 1 /\ address > FirstStop + 1
      BY <1>10, Successors DEF Place, Zero, One, Two, Three, FirstPart, LastPart
    <2> QED BY <1>1, <1>2, <2>1
        DEF Place, Zero, One, Two, Three, FirstPart, Middle, LastPart, Places, Low, CmdLow, DataLow
  <1>11. CASE state = "DATA_e_1_d"
    <2>1. state' = "DATA_e_1_u" /\ address % 4 = 2 /\ address > FirstStop + 1
      BY <1>11, Successors DEF Place, Zero, One, Two, Three, FirstPart, LastPart
    <2> QED BY <1>1, <1>2, <2>1
        DEF Place, Zero, One, Two, Three, FirstPart, Middle, LastPart, Places, Low, CmdLow, DataLow
  <1>12. CASE state = "DATA_e_2_d"
    <2>1. state' = "DATA_e_2_u" /\ address % 4 = 3 /\ address > FirstStop + 1
      BY <1>12, Successors DEF Place, Zero, One, Two, Three, FirstPart, LastPart
    <2> QED BY <1>1, <1>2, <2>1
        DEF Place, Zero, One, Two, Three, FirstPart, Middle, LastPart, Places, Low, CmdLow, DataLow
  <1> QED BY <1>1, <1>2, <1>3, <1>4, <1>5, <1>6, <1>7, <1>8, <1>9, <1>10, <1>11, <1>12 DEF Low, CmdLow, DataLow

\* A step that takes no byte keeps the address, and the place of the state.
LEMMA PlaceAfterHigh ==
  ASSUME Place, address \in Nat, state \in Places \ Low, state' = next_state,
         address' = IF state \in {"HOLD", "IDLE"} THEN 0 ELSE address
  PROVE  state' \in Places \cup {"RGB_wait"} /\ Place'
  <1> USE Sizes
  <1>1. 0 < FirstStop /\ 0 < LastStop /\ 0 % 4 = 0 /\ FirstStop + 2 < LastStop
        /\ (FirstStop + 2) % 4 = 0
    OBVIOUS
  <1>2. CASE state = "CMD_1_u"
    <2>1. state' = "CMD_2_d"
      BY <1>2, Successors
    <2> QED BY <1>1, <1>2, <2>1
        DEF Place, Zero, One, Two, Three, FirstPart, Middle, LastPart, Places, Low, CmdLow, DataLow
  <1>3. CASE state = "CMD_6_u"
    <2>1. state' = "DELAY_2"
      BY <1>3, Successors
    <2> QED BY <1>1, <1>3, <2>1
        DEF Place, Zero, One, Two, Three, FirstPart, Middle, LastPart, Places, Low, CmdLow, DataLow
  <1>4. CASE state = "CMD_5_u"
    <2>1. state' = "CMD_6_d"
      BY <1>4, Successors
    <2> QED BY <1>1, <1>4, <2>1
        DEF Place, Zero, One, Two, Three, FirstPart, Middle, LastPart, Places, Low, CmdLow, DataLow
  <1>5. CASE state = "DATA_1_u"
    <2>1. state' = "DATA_2_d"
      BY <1>5, Successors
    <2> QED BY <1>1, <1>5, <2>1
        DEF Place, Zero, One, Two, Three, FirstPart, Middle, LastPart, Places, Low, CmdLow, DataLow
  <1>6. CASE state = "DATA_2_u"
    <2>1. state' = "CMD_1_d"
      BY <1>6, Successors
    <2> QED BY <1>1, <1>6, <2>1
        DEF Place, Zero, One, Two, Three, FirstPart, Middle, LastPart, Places, Low, CmdLow, DataLow
  <1>7. CASE state = "CMD_e_1_u"
    <2>1. state' = "CMD_e_2_d"
      BY <1>7, Successors
    <2> QED BY <1>1, <1>7, <2>1
        DEF Place, Zero, One, Two, Three, FirstPart, Middle, LastPart, Places, Low, CmdLow, DataLow
  <1>8. CASE state = "DATA_e_1_u"
    <2>1. state' = "DATA_e_2_d"
      BY <1>8, Successors
    <2> QED BY <1>1, <1>8, <2>1
        DEF Place, Zero, One, Two, Three, FirstPart, Middle, LastPart, Places, Low, CmdLow, DataLow
  <1>9. CASE state = "DATA_e_2_u"
    <2>1. state' = "CMD_e_1_d"
      BY <1>9, Successors
    <2> QED BY <1>1, <1>9, <2>1
        DEF Place, Zero, One, Two, Three, FirstPart, Middle, LastPart, Places, Low, CmdLow, DataLow
  <1>10. CASE state = "HOLD"
    <2>1. state' = "IDLE"
      BY <1>10, Successors
    <2> QED BY <1>1, <1>10, <2>1
        DEF Place, Zero, One, Two, Three, FirstPart, Middle, LastPart, Places, Low, CmdLow, DataLow
  <1>11. CASE state = "IDLE"
    <2>1. \/ state' = "IDLE"
          \/ state' = "CMD_1_d"
      BY <1>11 DEF next_state
    <2> QED BY <1>1, <1>11, <2>1
        DEF Place, Zero, One, Two, Three, FirstPart, Middle, LastPart, Places, Low, CmdLow, DataLow
  <1>12. CASE state = "CMD_2_u"
    <2>1. \/ state' = "DATA_1_d" /\ address # FirstStop
          \/ state' = "DELAY_1" /\ address = FirstStop
      BY <1>12 DEF next_state
    <2> QED BY <1>1, <1>12, <2>1
        DEF Place, Zero, One, Two, Three, FirstPart, Middle, LastPart, Places, Low, CmdLow, DataLow
  <1>13. CASE state = "DELAY_1"
    <2>1. \/ state' = "DELAY_1"
          \/ state' = "CMD_5_d"
      BY <1>13 DEF next_state
    <2> QED BY <1>1, <1>13, <2>1
        DEF Place, Zero, One, Two, Three, FirstPart, Middle, LastPart, Places, Low, CmdLow, DataLow
  <1>14. CASE state = "DELAY_2"
    <2>1. \/ state' = "DELAY_2"
          \/ state' = "CMD_e_1_d"
      BY <1>14 DEF next_state
    <2> QED BY <1>1, <1>14, <2>1
        DEF Place, Zero, One, Two, Three, FirstPart, Middle, LastPart, Places, Low, CmdLow, DataLow
  <1>15. CASE state = "CMD_e_2_u"
    <2>1. \/ state' = "DATA_e_1_d" /\ address # LastStop
          \/ state' = "RGB_wait" /\ address = LastStop
      BY <1>15 DEF next_state
    <2> QED BY <1>1, <1>15, <2>1
        DEF Place, Zero, One, Two, Three, FirstPart, Middle, LastPart, Places, Low, CmdLow, DataLow
  <1> QED BY <1>2, <1>3, <1>4, <1>5, <1>6, <1>7, <1>8, <1>9, <1>10, <1>11, <1>12, <1>13, <1>14, <1>15
      DEF Places, Low, CmdLow, DataLow, FirstPart, Middle, LastPart

\* Which bytes are arguments can be told from the state that sends them.
LEMMA ArgumentByState ==
  ASSUME Place, address \in Nat, state \in Low, state' = next_state
  PROVE  cmd_lcd_d_c' <=> IsArgument(address)
  <1>1. CASE state \in {"CMD_1_d", "CMD_2_d", "CMD_e_1_d", "CMD_e_2_d", "CMD_5_d", "CMD_6_d"}
    <2>1. state' \in {"CMD_1_u", "CMD_2_u", "CMD_e_1_u", "CMD_e_2_u", "CMD_5_u", "CMD_6_u"}
      BY <1>1, Successors
    <2>2. ~IsArgument(address)
      BY <1>1, Sizes DEF Place, Zero, One, IsArgument
    <2> QED BY <2>1, <2>2 DEF cmd_lcd_d_c, DataLow, DataHigh
  <1>2. CASE state \in DataLow
    <2>1. state' \in DataHigh
      BY <1>2, Successors DEF DataLow, DataHigh
    <2>2. IsArgument(address)
      BY <1>2, Sizes DEF Place, DataLow, Two, Three, FirstPart, LastPart, IsArgument
    <2> QED BY <2>1, <2>2 DEF cmd_lcd_d_c
  <1> QED BY <1>1, <1>2 DEF Low, CmdLow

LEMMA PixelSending ==
  ASSUME quarter \in 0..7, address \in 0..LastStop, Place, Sending, Step, Pixel
  PROVE  /\ address' \in 0..LastStop /\ Place'
         /\ Sending' \/ Showing'
         /\ Latches => Right
  <1>1. /\ state' = next_state /\ lcd_address' = address
        /\ address' = IF add_next THEN (address + 1) % 2048 ELSE IF add_init THEN 0 ELSE address
    BY DEF Pixel, Commands
  <1>2. state \in Places /\ state # "RGB_wait" /\ rgb_state = "RGB_IDLE"
    BY DEF Sending, Places, FirstPart, Middle, LastPart
  <1>3. rgb_state' = "RGB_IDLE"
    BY <1>2 DEF Step, rgb_next_state, rgb_on
  <1>4. address \in Nat
    BY Sizes
  <1>5. lcd_wr <=> state \notin Low
    BY <1>2, SendingSignals
  <1>6. quarter' % 4 = 0
    BY QuarterStep DEF Step, Pixel
  <1>7. panel = At(address, 0, 0, 0)
    BY DEF Sending
  <1>8. CASE state \in Low
    <2>1. address' = (address + 1) % 2048
      BY <1>1, <1>8 DEF add_next, Low
    <2>2. /\ address' = address + 1 /\ address < LastStop /\ address' <= LastStop /\ Place'
          /\ state' \in Places \ (Low \cup {"HOLD", "IDLE"})
      BY <1>1, <1>4, <1>8, <2>1, PlaceAfterLow
    <2>3. state' # "RGB_wait" /\ state' # "IDLE"
      BY <2>2 DEF Places, FirstPart, Middle, LastPart
    <2>4. /\ lcd_wr'
          /\ lcd_d_c' <=> cmd_lcd_d_c'
          /\ lcd_db' = <<"table", address>>
      BY <1>1, <1>3, <2>2, <2>3, SendingSignalsNext
    <2>5. Latches
      BY <1>5, <1>8, <2>4 DEF Latches
    <2>6. panel' = At(address', 0, 0, 0)
      <3>1. lcd_reset'
        BY <2>3 DEF lcd_reset
      <3>2. panel' = Taken(panel)
        BY <2>5, <3>1, PanelStep DEF Step
      <3> QED BY <1>4, <1>7, <2>2, <3>2, TakesByte
    <2>7. Sending'
      BY <1>3, <2>2, <2>6 DEF Sending, Places, Low
    <2>8. Right
      <3>1. panel.table = address
        BY <1>7 DEF At
      <3>2. lcd_db = <<"table", address>>
        BY <1>2, <1>8, SendingSignals DEF Sending, Low
      <3>3. lcd_d_c' <=> IsArgument(panel.table)
        BY <1>1, <1>4, <1>8, <2>4, <3>1, ArgumentByState
      <3>4. TableInOrder
        BY <2>4, <3>1, <3>3 DEF TableInOrder, lcd_d_c, IsArgument
      <3>5. PixelInStep
        BY <2>2, <3>1, Sizes DEF PixelInStep
      <3> QED BY <2>4, <3>2, <3>4, <3>5 DEF Right
    <2>9. address' \in 0..LastStop
      BY <1>4, <2>2, Sizes
    <2> QED BY <2>2, <2>7, <2>8, <2>9
  <1>9. CASE state \notin Low
    <2>1. address' = IF state \in {"HOLD", "IDLE"} THEN 0 ELSE address
      BY <1>1, <1>9 DEF add_next, add_init, Low, Place
    <2>2. state' \in Places \cup {"RGB_wait"} /\ Place'
      BY <1>1, <1>2, <1>4, <1>9, <2>1, PlaceAfterHigh
    <2>3. ~Latches
      BY <1>5, <1>9 DEF Latches
    <2>4. address' = address
      BY <2>1 DEF Place
    <2>5. panel' = At(address', 0, 0, 0)
      <3>1. CASE lcd_reset'
        BY <1>7, <2>3, <2>4, <3>1, PanelStep DEF Step
      <3>2. CASE ~lcd_reset'
        <4>1. state' = "IDLE"
          BY <3>2 DEF lcd_reset
        <4>2. address' = 0
          BY <2>2, <4>1 DEF Place
        <4>3. panel' = Fresh
          BY <3>2 DEF Step, Panel
        <4> QED BY <4>2, <4>3 DEF Fresh, At
      <3> QED BY <3>1, <3>2
    <2>6. Sending' \/ Showing'
      <3>1. CASE state' \in Places
        BY <1>1, <1>3, <2>4, <2>5, <3>1 DEF Sending, Places
      <3>2. CASE state' = "RGB_wait"
        <4>1. address' = LastStop
          BY <2>2, <3>2 DEF Place
        <4> QED BY <1>3, <1>6, <2>5, <3>2, <4>1 DEF Showing, Ready
      <3> QED BY <2>2, <3>1, <3>2
    <2> QED BY <2>2, <2>3, <2>4, <2>6
  <1> QED BY <1>8, <1>9

-----------------------------------------------------------------------------
(* While the picture is sent. *)

\* The signals of the states of the pixel machine.
LEMMA RgbSignals ==
  ASSUME state = "RGB_wait"
  PROVE  /\ rgb_state \in {"RGB_IDLE", "RGB_DATA_1_u", "RGB_DATA_2_u"} => lcd_wr
         /\ rgb_state \in {"RGB_DATA_1_d", "RGB_DATA_2_d"} => ~lcd_wr
         /\ rgb_state \in {"RGB_WAIT_START", "RGB_WAIT_NEXT_LINE", "RGB_WAIT_NEXT_FRAME"} =>
              (lcd_wr <=> ~Starting)
         /\ rgb_state = "RGB_DATA_1_d" \/ Starting => lcd_db = <<"upper", Colour>>
         /\ rgb_state = "RGB_DATA_2_d" => lcd_db = <<"lower", Colour>>
  <1>1. lcd_wr <=> rgb_lcd_wr
    BY ShowingSignals
  <1>2. rgb_on
    BY ShowingSignals
  <1>3. Starting => rgb_state \in {"RGB_WAIT_START", "RGB_WAIT_NEXT_LINE", "RGB_WAIT_NEXT_FRAME"}
    BY DEF Starting
  <1>4. rgb_state = "RGB_DATA_1_d" \/ Starting => lcd_db = <<"upper", Colour>>
    <2> SUFFICES ASSUME rgb_state = "RGB_DATA_1_d" \/ Starting PROVE lcd_db = <<"upper", Colour>>
      OBVIOUS
    <2>1. rgb_lcd_d_c
      BY <1>3 DEF rgb_lcd_d_c, Starting
    <2>2. rgb_data_1 /\ ~rgb_data_2
      BY <1>3, <2>1 DEF rgb_data_1, rgb_data_2
    <2> QED BY <2>2 DEF lcd_db
  <1>5. rgb_state = "RGB_DATA_2_d" => lcd_db = <<"lower", Colour>>
    BY DEF lcd_db, rgb_data_1, rgb_data_2
  <1>6. /\ rgb_state \in {"RGB_IDLE", "RGB_DATA_1_u", "RGB_DATA_2_u"} => rgb_lcd_wr
        /\ rgb_state \in {"RGB_DATA_1_d", "RGB_DATA_2_d"} => ~rgb_lcd_wr
        /\ rgb_state \in {"RGB_WAIT_START", "RGB_WAIT_NEXT_LINE", "RGB_WAIT_NEXT_FRAME"} =>
              (rgb_lcd_wr <=> ~Starting)
    BY <1>2, <1>3 DEF rgb_lcd_wr
  <1> QED BY <1>1, <1>4, <1>5, <1>6

LEMMA RgbSignalsNext ==
  ASSUME state' = "RGB_wait"
  PROVE  /\ rgb_state' \in {"RGB_DATA_1_u", "RGB_DATA_2_u"} => lcd_wr' /\ lcd_d_c'
         /\ rgb_state' = "RGB_DATA_1_u" => lcd_db' = <<"upper", Colour'>>
         /\ rgb_state' = "RGB_DATA_2_u" => lcd_db' = <<"lower", Colour'>>
  <1>1. rgb_state' \in {"RGB_DATA_1_u", "RGB_DATA_2_u"} => lcd_wr'
    <2> SUFFICES ASSUME rgb_state' \in {"RGB_DATA_1_u", "RGB_DATA_2_u"} PROVE lcd_wr'
      OBVIOUS
    <2>1. ~Starting'
      BY DEF Starting
    <2>2. rgb_lcd_wr'
      BY <2>1 DEF rgb_lcd_wr
    <2> QED BY <2>2, ShowingSignalsNext
  <1>2. rgb_state' \in {"RGB_DATA_1_u", "RGB_DATA_2_u"} => lcd_d_c'
    BY ShowingSignalsNext DEF rgb_lcd_d_c
  <1>3. rgb_state' = "RGB_DATA_1_u" => lcd_db' = <<"upper", Colour'>>
    <2> SUFFICES ASSUME rgb_state' = "RGB_DATA_1_u" PROVE lcd_db' = <<"upper", Colour'>>
      OBVIOUS
    <2>1. rgb_data_1' /\ ~rgb_data_2'
      BY DEF rgb_data_1, rgb_data_2, rgb_lcd_d_c
    <2> QED BY <2>1 DEF lcd_db
  <1>4. rgb_state' = "RGB_DATA_2_u" => lcd_db' = <<"lower", Colour'>>
    BY DEF lcd_db, rgb_data_1, rgb_data_2
  <1> QED BY <1>1, <1>2, <1>3, <1>4

\* A byte of a pixel is right if the panel is where the scan is.
LEMMA RightPixel ==
  ASSUME ReadOut, quarter # 7, disp_ena, disp_ena', row' = row, column' = column,
         NEW half \in {0, 1}, panel = At(LastStop, row, column, half),
         NEW word, word = IF half = 0 THEN "upper" ELSE "lower",
         lcd_db = <<word, Colour>>, lcd_db' = <<word, Colour'>>, lcd_d_c'
  PROVE  Right
  <1>1. Colour = level /\ Colour' = level'
    BY DEF Colour
  <1>2. /\ panel.table = LastStop /\ panel.row = row /\ panel.column = column
        /\ panel.half = half
    BY DEF At
  <1>3. TableInOrder
    BY <1>2, Sizes DEF TableInOrder
  <1>4. PixelInStep
    BY <1>1, <1>2 DEF PixelInStep
  <1>5. lcd_db = lcd_db' \/ (level # level' /\ level' = White)
    BY <1>1, LevelStays
  <1> QED BY <1>3, <1>4, <1>5 DEF Right

\* The first half is written: the panel goes on to the second.
LEMMA UpperWritten ==
  ASSUME Step, Between, state = "RGB_wait", quarter \in 0..7, quarter % 4 = 0,
         disp_ena, panel = At(LastStop, row, column, 0),
         rgb_state = "RGB_DATA_1_d" \/ Starting
  PROVE  Showing' /\ Right
  <1>1. /\ state' = "RGB_wait" /\ row' = row /\ column' = column /\ disp_ena'
        /\ quarter' % 4 = 1
    BY QuarterStep DEF Step, Between, vars, commands
  <1>2. rgb_state' = "RGB_DATA_1_u"
    BY DEF Step, rgb_next_state, Starting
  <1>3. /\ lcd_wr' /\ lcd_d_c'
        /\ lcd_db' = <<"upper", Colour'>>
    BY <1>1, <1>2, RgbSignalsNext
  <1>4. ~lcd_wr
    BY RgbSignals DEF Starting
  <1>5. lcd_db = <<"upper", Colour>>
    BY RgbSignals
  <1>6. panel' = At(LastStop, row, column, 1)
    BY <1>1, <1>3, <1>4, PanelStep, ShowingSignalsNext, TakesUpper DEF Step, Latches
  <1>7. Showing'
    BY <1>1, <1>2, <1>6 DEF Showing, InPixel
  <1>8. Right
    <2>1. ReadOut /\ quarter # 7 /\ "upper" = IF 0 = 0 THEN "upper" ELSE "lower"
      BY DEF Step
    <2> QED BY <1>1, <1>3, <1>5, <2>1, RightPixel
  <1> QED BY <1>7, <1>8

\* The second half is written: the panel goes on to the next pixel.
LEMMA LowerWritten ==
  ASSUME Step, Between, state = "RGB_wait", quarter \in 0..7, quarter % 4 = 2,
         disp_ena, panel = At(LastStop, row, column, 1),
         rgb_state = "RGB_DATA_2_d"
  PROVE  Showing' /\ Right
  <1>1. /\ state' = "RGB_wait" /\ row' = row /\ column' = column /\ disp_ena'
        /\ quarter' % 4 = 3
    BY QuarterStep DEF Step, Between, vars, commands
  <1>2. rgb_state' = "RGB_DATA_2_u"
    BY DEF Step, rgb_next_state
  <1>3. /\ lcd_wr' /\ lcd_d_c'
        /\ lcd_db' = <<"lower", Colour'>>
    BY <1>1, <1>2, RgbSignalsNext
  <1>4. ~lcd_wr
    BY RgbSignals
  <1>5. lcd_db = <<"lower", Colour>>
    BY RgbSignals
  <1>6. panel' = At(LastStop, Following(row, column)[1], Following(row, column)[2], 0)
    BY <1>1, <1>3, <1>4, PanelStep, ShowingSignalsNext, TakesLower DEF Step, Latches
  <1>7. Following(row, column)' = Following(row, column)
    BY <1>1 DEF Following
  <1>8. Showing'
    BY <1>1, <1>2, <1>6, <1>7 DEF Showing, InPixel
  <1>9. Right
    <2>1. ReadOut /\ quarter # 7 /\ "lower" = IF 1 = 0 THEN "upper" ELSE "lower"
      BY DEF Step
    <2> QED BY <1>1, <1>3, <1>5, <2>1, RightPixel
  <1> QED BY <1>8, <1>9

\* A step that writes nothing keeps the panel.
LEMMA NothingWritten ==
  ASSUME Step, state = "RGB_wait", state' = "RGB_wait", lcd_wr
  PROVE  panel' = panel /\ ~Latches
  BY PanelStep, ShowingSignalsNext DEF Step, Latches

LEMMA BetweenShowing ==
  ASSUME ScanInv, quarter \in 0..7, Showing, StartsBetween, Step, Between
  PROVE  Showing' /\ (Latches => Right)
  <1> USE Sizes
  <1>1. /\ state = "RGB_wait" /\ state' = "RGB_wait" /\ quarter % 4 # 3
        /\ row' = row /\ column' = column /\ disp_ena' = disp_ena
    BY DEF Showing, Between, vars, commands
  <1>2. CASE Ready
    <2>1. ~first_pixle
      BY <1>1, <1>2 DEF StartsBetween, Ready, rgb_on
    <2>2. rgb_state' = "RGB_WAIT_START"
      BY <1>1, <1>2 DEF Ready, Step, rgb_next_state, rgb_on
    <2>3. panel' = panel /\ ~Latches
      BY <1>1, <1>2, RgbSignals, NothingWritten DEF Ready
    <2>4. ~first_pixle'
      BY <1>1, <2>1 DEF first_pixle, first_line
    <2> QED BY <1>1, <1>2, <2>2, <2>3, <2>4 DEF Showing, Ready, ForFrame
  <1>3. CASE ForFrame
    <2>1. CASE first_pixle
      <3>1. Starting /\ quarter % 4 = 0 /\ disp_ena /\ row = 0 /\ column = 0
        BY <1>3, <2>1 DEF ForFrame, Starting, first_pixle, first_line
      <3> QED BY <1>1, <1>3, <3>1, UpperWritten DEF ForFrame
    <2>2. CASE ~first_pixle
      <3>1. ~Starting /\ rgb_state' = rgb_state
        BY <1>3, <2>2 DEF ForFrame, Starting, Step, rgb_next_state
      <3>2. panel' = panel /\ ~Latches
        BY <1>1, <1>3, <3>1, RgbSignals, NothingWritten DEF ForFrame
      <3>3. ~first_pixle'
        BY <1>1, <2>2 DEF first_pixle, first_line
      <3> QED BY <1>1, <1>3, <3>1, <3>2, <3>3 DEF Showing, ForFrame
    <2> QED BY <2>1, <2>2
  <1>4. CASE ForLine
    <2>1. CASE column = 0
      <3>1. Starting /\ quarter % 4 = 0 /\ disp_ena /\ panel = At(LastStop, row, column, 0)
        BY <1>4, <2>1 DEF ForLine, Starting, first_line
      <3> QED BY <1>1, <3>1, UpperWritten
    <2>2. CASE column # 0
      <3>1. ~Starting /\ rgb_state' = rgb_state
        BY <1>4, <2>2 DEF ForLine, Starting, first_line, Step, rgb_next_state
      <3>2. panel' = panel /\ ~Latches
        BY <1>1, <1>4, <3>1, RgbSignals, NothingWritten DEF ForLine
      <3> QED BY <1>1, <1>4, <2>2, <3>1, <3>2 DEF Showing, ForLine
    <2> QED BY <2>1, <2>2
  <1>5. CASE InPixel
    <2>1. CASE rgb_state = "RGB_DATA_1_d"
      BY <1>1, <1>5, <2>1, UpperWritten DEF InPixel
    <2>2. CASE rgb_state = "RGB_DATA_2_d"
      BY <1>1, <1>5, <2>2, LowerWritten DEF InPixel
    <2>3. CASE rgb_state = "RGB_DATA_1_u"
      <3>1. rgb_state' = "RGB_DATA_2_d"
        BY <2>3 DEF Step, rgb_next_state
      <3>2. panel' = panel /\ ~Latches
        BY <1>1, <2>3, RgbSignals, NothingWritten
      <3>3. quarter' % 4 = 2 /\ panel = At(LastStop, row, column, 1) /\ disp_ena
        BY <1>5, <2>3, QuarterStep DEF InPixel, Step
      <3> QED BY <1>1, <3>1, <3>2, <3>3 DEF Showing, InPixel
    <2> QED BY <1>1, <1>5, <2>1, <2>2, <2>3 DEF InPixel
  <1> QED BY <1>2, <1>3, <1>4, <1>5 DEF Showing

LEMMA PixelShowing ==
  ASSUME ScanInv, quarter \in 0..7, Place, Showing, Step, Pixel
  PROVE  address' = address /\ Place' /\ Showing' /\ ~Latches
  <1> USE Sizes
  <1>1. /\ state = "RGB_wait" /\ state' = "RGB_wait" /\ quarter % 4 = 3 /\ quarter' % 4 = 0
        /\ Clock
    BY Successors, QuarterStep DEF Showing, Pixel, Commands, Step
  <1>2. address' = address
    BY <1>1 DEF Pixel, Commands, add_next, add_init, CmdLow, DataLow
  <1>3. Place'
    BY <1>1, <1>2 DEF Place, Zero, One, Two, Three, FirstPart, LastPart
  <1>4. first_pixle' => disp_ena'
    BY <1>1, FirstShown
  <1>5. CASE ForFrame
    <2>1. ~first_pixle
      BY <1>1, <1>5 DEF ForFrame
    <2>2. ~Starting /\ rgb_state' = rgb_state
      BY <1>5, <2>1 DEF ForFrame, Starting, Step, rgb_next_state
    <2>3. panel' = panel /\ ~Latches
      BY <1>1, <1>5, <2>2, RgbSignals, NothingWritten DEF ForFrame
    <2> QED BY <1>1, <1>2, <1>3, <1>4, <1>5, <2>2, <2>3 DEF Showing, ForFrame
  <1>6. CASE ForLine
    <2>1. column = h_pixels - 1 /\ row < v_pixels - 1 /\ panel = At(LastStop, row + 1, 0, 0)
      BY <1>1, <1>6 DEF ForLine
    <2>2. ~Starting /\ rgb_state' = rgb_state
      BY <1>6, <2>1 DEF ForLine, Starting, first_line, Step, rgb_next_state
    <2>3. panel' = panel /\ ~Latches
      BY <1>1, <1>6, <2>2, RgbSignals, NothingWritten DEF ForLine
    <2>4. \/ column' = h_pixels - 1 /\ row' = row
          \/ column' = 0 /\ row' = row + 1 /\ disp_ena'
      BY <1>1, <2>1, NextLine
    <2>5. ForLine'
      BY <1>1, <1>6, <2>1, <2>2, <2>3, <2>4 DEF ForLine
    <2> QED BY <1>1, <1>2, <1>3, <2>3, <2>5 DEF Showing
  <1>7. CASE InPixel
    <2>1. /\ rgb_state = "RGB_DATA_2_u" /\ disp_ena
          /\ panel = At(LastStop, Following(row, column)[1], Following(row, column)[2], 0)
      BY <1>1, <1>7 DEF InPixel
    <2>2. panel' = panel /\ ~Latches
      BY <1>1, <2>1, RgbSignals, NothingWritten
    <2>3. row \in 0..(v_pixels - 1) /\ column \in 0..(h_pixels - 1)
      BY ScanTypes
    <2>4. CASE column < h_pixels - 1
      <3>1. column' = column + 1 /\ row' = row /\ disp_ena'
        BY <1>1, <2>1, <2>4, NextPixel
      <3>2. rgb_state' = "RGB_DATA_1_d"
        BY <2>1, <2>3, <2>4 DEF Step, rgb_next_state, last_pixle, last_line
      <3>3. panel' = At(LastStop, row', column', 0)
        BY <2>1, <2>2, <2>4, <3>1 DEF Following
      <3> QED BY <1>1, <1>2, <1>3, <2>2, <3>1, <3>2, <3>3 DEF Showing, InPixel
    <2>5. CASE column = h_pixels - 1 /\ row < v_pixels - 1
      <3>1. rgb_state' = "RGB_WAIT_NEXT_LINE"
        BY <2>1, <2>3, <2>5 DEF Step, rgb_next_state, last_pixle, last_line
      <3>2. panel' = At(LastStop, row + 1, 0, 0)
        <4>1. (row + 1) % v_pixels = row + 1
          BY <2>3, <2>5
        <4> QED BY <2>1, <2>2, <2>5, <4>1 DEF Following
      <3>3. \/ column' = h_pixels - 1 /\ row' = row
            \/ column' = 0 /\ row' = row + 1 /\ disp_ena'
        BY <1>1, <2>5, NextLine
      <3>4. ForLine'
        BY <1>1, <2>5, <3>1, <3>2, <3>3 DEF ForLine
      <3> QED BY <1>1, <1>2, <1>3, <2>2, <3>4 DEF Showing
    <2>6. CASE column = h_pixels - 1 /\ row = v_pixels - 1
      <3>1. rgb_state' = "RGB_WAIT_NEXT_FRAME"
        BY <2>1, <2>6 DEF Step, rgb_next_state, last_pixle, last_line
      <3>2. panel' = At(LastStop, 0, 0, 0)
        <4>1. (row + 1) % v_pixels = 0
          BY <2>6, Wraps
        <4> QED BY <2>1, <2>2, <2>6, <4>1 DEF Following
      <3> QED BY <1>1, <1>2, <1>3, <1>4, <2>2, <3>1, <3>2 DEF Showing, ForFrame
    <2> QED BY <2>3, <2>4, <2>5, <2>6
  <1> QED BY <1>1, <1>5, <1>6, <1>7 DEF Showing, Ready

-----------------------------------------------------------------------------

LEMMA InitLcdInv == LcdInit => LcdInv
  <1> SUFFICES ASSUME LcdInit PROVE LcdInv
    OBVIOUS
  <1>1. quarter \in 0..7 /\ address \in 0..LastStop
    BY Sizes DEF LcdInit
  <1>2. ScanInv
    <2>1. IInv
      BY InitIInv DEF LcdInit
    <2> QED BY <2>1 DEF LcdInit, Init, ScanInv, Enabled
  <1>3. Place
    BY DEF LcdInit, Place, Zero, One, Two, Three, FirstPart, LastPart
  <1>4. Sending
    BY DEF LcdInit, Sending, Fresh, At
  <1> QED BY <1>1, <1>2, <1>3, <1>4 DEF LcdInv

\* A step keeps the invariant, and what is latched in it is right.
LEMMA StepLcdInv ==
  ASSUME LcdInv, StartsBetween, Step
  PROVE  LcdInv' /\ (Latches => Right)
  <1>1. quarter' \in 0..7
    BY QuarterStep DEF LcdInv, Step
  <1>2. ScanInv'
    BY StepScans, StepScanInv DEF LcdInv
  <1>3. CASE Between
    <2>1. state' = state /\ address' = address
      BY <1>3 DEF Between, commands
    <2>2. address' \in 0..LastStop /\ Place'
      BY <2>1 DEF LcdInv, Place, Zero, One, Two, Three, FirstPart, LastPart
    <2> QED BY <1>1, <1>2, <1>3, <2>2, BetweenSending, BetweenShowing DEF LcdInv
  <1>4. CASE Pixel
    BY <1>1, <1>2, <1>4, PixelSending, PixelShowing DEF LcdInv
  <1> QED BY <1>3, <1>4 DEF Step

\* What does not change cannot be a latch.
LEMMA StutterLcdInv == LcdInv /\ UNCHANGED lcdVars => LcdInv'
  BY DEF LcdInv, lcdVars, vars, commands, ScanInv, IInv, TypeOK, Powered, Scanned, LastLine,
         Enabled, Place, Zero, One, Two, Three, FirstPart, LastPart, Sending, Showing, Ready,
         ForFrame, ForLine, InPixel, first_pixle, first_line, Following

\* If the table does not end exactly when the scan is at the first pixel, the panel
\* takes the table in order and then the pixels of every frame, each once, in step
\* with the scan, for all sizes and waits.
THEOREM LcdStaysInStep == LcdSpec /\ []StartsBetween => LcdInStep
  <1>1. LcdInit => LcdInv
    BY InitLcdInv
  <1>2. LcdInv /\ StartsBetween /\ [Step]_lcdVars => LcdInv'
    BY StepLcdInv, StutterLcdInv
  <1>3. LcdInv /\ StartsBetween /\ [Step]_lcdVars =>
          [Latches => /\ TableInOrder /\ PixelInStep
                      /\ lcd_db = lcd_db' \/ (level # level' /\ level' = White)]_lcdVars
    BY StepLcdInv DEF Right
  <1> QED BY <1>1, <1>2, <1>3, PTL DEF LcdSpec, LcdInStep

-----------------------------------------------------------------------------
(* The cells that are shown. *)

\* The pixel before one in raster order.
Preceding(r, c) ==
  IF c > 0 THEN <<r, c - 1>> ELSE <<IF r > 0 THEN r - 1 ELSE v_pixels - 1, h_pixels - 1>>
CellAt(p) == CellOf(p[1], p[2])

\* The picture is on when the counters have just passed a pixel, and off before a
\* line begins.
DispOn ==
  /\ h_count \in 1..h_pixels /\ v_count < v_pixels => disp_ena
  /\ h_count = 0 => ~disp_ena

\* Before the second pixel clock of a clock of the memory, the cell is that of the
\* pixel shown one clock ago; after it, that of two clocks ago.  While the
\* picture is off both are the pixel at which the scan waits.
Lag1 == level = CellAt(IF disp_ena THEN Preceding(row, column) ELSE <<row, column>>)
Lag2 == disp_ena => level = CellAt(IF column = 0 THEN Preceding(row, column)
                                   ELSE Preceding(Preceding(row, column)[1], Preceding(row, column)[2]))

LagInv ==
  /\ quarter \in 0..7 /\ ScanInv /\ DispOn
  /\ level = White \/ IF quarter < 4 THEN Lag1 ELSE Lag2

LEMMA DispStep ==
  ASSUME ScanInv, DispOn, Clock
  PROVE  DispOn'
  <1>1. disp_ena' <=> h_count < h_pixels /\ v_count < v_pixels
    BY DEF Clock
  <1>2. /\ h_count \in 0..(h_period - 1) /\ h_period \in Nat /\ h_period > h_pixels
        /\ h_pixels \in Nat
    BY ScanTypes, Sizes, LevelAssumption
  <1>3. CASE h_count < h_period - 1
    <2>1. h_count' = h_count + 1 /\ v_count' = v_count
      BY <1>3 DEF Clock, Counters
    <2>2. h_count' # 0
      BY <1>2, <2>1
    <2>3. h_count' \in 1..h_pixels => h_count < h_pixels
      BY <1>2, <2>1
    <2> QED BY <1>1, <2>1, <2>2, <2>3 DEF DispOn
  <1>4. CASE ~(h_count < h_period - 1)
    <2>1. h_count' = 0
      BY <1>4 DEF Clock, Counters
    <2>2. ~disp_ena'
      BY <1>1, <1>2, <1>4
    <2> QED BY <2>1, <2>2 DEF DispOn
  <1> QED BY <1>3, <1>4

\* Borders are all alike.
LEMMA Borders ==
  ASSUME NEW r, NEW c
  PROVE  /\ r = 0 \/ r = v_pixels - 1 => CellOf(r, c) = Black
  BY Sizes, LcdAssumption, LevelAssumption DEF CellOf

\* The pixel an enabled one comes after, or the border at the start.
LEMMA ComesAfter ==
  ASSUME ScanInv, Clock, disp_ena'
  PROVE  CellAt(Preceding(row', column')) = CellOf(row, column)
  <1>1. \/ <<row', column'>> = Following(row, column)
        \/ <<row, column>> = <<0, 0>> /\ <<row', column'>> = <<0, 0>>
    BY StepRaster DEF ScanInv
  <1>2. row \in 0..(v_pixels - 1) /\ column \in 0..(h_pixels - 1)
    BY ScanTypes
  <1>3. CASE <<row, column>> = <<0, 0>> /\ <<row', column'>> = <<0, 0>>
    <2>1. Preceding(row', column')[1] = v_pixels - 1
      BY <1>3 DEF Preceding
    <2> QED BY <1>3, <2>1, Borders DEF CellAt
  <1>4. CASE <<row', column'>> = Following(row, column) /\ column < h_pixels - 1
    <2>1. row' = row /\ column' = column + 1
      BY <1>4 DEF Following
    <2>2. Preceding(row', column') = <<row, column>>
      BY <1>2, <2>1 DEF Preceding
    <2> QED BY <2>2 DEF CellAt
  <1>5. CASE <<row', column'>> = Following(row, column) /\ ~(column < h_pixels - 1)
    <2>1. row' = (row + 1) % v_pixels /\ column' = 0 /\ column = h_pixels - 1
      BY <1>2, <1>5, Sizes DEF Following
    <2>2. row' = IF row = v_pixels - 1 THEN 0 ELSE row + 1
      BY <1>2, <2>1, Sizes
    <2>3. Preceding(row', column') = <<row, column>>
      BY <1>2, <2>1, <2>2, Sizes DEF Preceding
    <2> QED BY <2>3 DEF CellAt
  <1> QED BY <1>1, <1>3, <1>4, <1>5

\* While the picture is off the cell under the scan stays the same.
LEMMA OffStays ==
  ASSUME ScanInv, Clock, ~disp_ena'
  PROVE  CellOf(row', column') = CellOf(row, column)
  <1>1. ~(h_count < h_pixels /\ v_count < v_pixels)
    BY DEF Clock
  <1>2. Scanned
    BY <1>1, Sizes DEF ScanInv, IInv, Powered
  <1>3. CASE v_count < v_pixels
    <2>1. column' = column /\ row' = v_count /\ h_count >= h_pixels
      BY <1>1, <1>3, ScanTypes, Sizes DEF Clock
    <2>2. row = v_count
      BY <1>2, <1>3, <2>1, ScanTypes, Sizes DEF Scanned, LastLine
    <2> QED BY <2>1, <2>2
  <1>4. CASE ~(v_count < v_pixels)
    <2>1. row' = row
      BY <1>4 DEF Clock
    <2>2. row = v_pixels - 1
      BY <1>2, <1>4, ScanTypes, Sizes DEF Scanned, LastLine
    <2> QED BY <2>1, <2>2, Borders
  <1> QED BY <1>3, <1>4

\* One clock later the cell is one pixel further behind, but for the first pixel of
\* a line, before which the scan has waited.
LEMMA LagsTwo ==
  ASSUME ScanInv, DispOn, Clock, Lag1, level' = level
  PROVE  Lag2'
  <1> SUFFICES ASSUME disp_ena'
               PROVE  level = CellAt(IF column' = 0 THEN Preceding(row', column')
                                     ELSE Preceding(Preceding(row', column')[1], Preceding(row', column')[2]))
    BY DEF Lag2
  <1>1. h_count < h_pixels /\ v_count < v_pixels /\ column' = h_count /\ row' = v_count
    BY DEF Clock
  <1>2. CASE column' = 0
    <2>1. ~disp_ena
      BY <1>1, <1>2 DEF DispOn
    <2>2. level = CellOf(row, column)
      BY <2>1 DEF Lag1, CellAt
    <2> QED BY <1>2, <2>2, ComesAfter
  <1>3. CASE column' # 0
    <2>1. h_count \in 1..h_pixels
      BY <1>1, <1>3, ScanTypes, Sizes
    <2>2. disp_ena
      BY <1>1, <2>1 DEF DispOn
    <2>3. column = h_count - 1 /\ row = v_count
      BY <1>1, <2>1, ScanTypes, Sizes DEF ScanInv, IInv, Powered, Scanned, LastLine
    <2>4. Preceding(row', column') = <<row, column>>
      BY <1>1, <2>1, <2>3 DEF Preceding
    <2>5. level = CellAt(Preceding(row, column))
      BY <2>2 DEF Lag1
    <2> QED BY <1>3, <2>4, <2>5
  <1> QED BY <1>2, <1>3

LEMMA InitLagInv == LcdInit => LagInv
  <1> SUFFICES ASSUME LcdInit PROVE LagInv
    OBVIOUS
  <1>1. Init /\ quarter \in {0, 4} /\ level = Black
    BY DEF LcdInit
  <1>2. ScanInv
    <2>1. ~disp_ena /\ disp_ena \in BOOLEAN
      BY <1>1 DEF Init
    <2>2. Enabled
      BY <2>1 DEF Enabled
    <2>3. IInv
      BY <1>1, InitIInv
    <2> QED BY <2>1, <2>2, <2>3 DEF ScanInv
  <1>3. DispOn
    BY <1>1 DEF Init, DispOn
  <1>4. Lag1 /\ Lag2
    <2>1. CellOf(0, 0) = Black
      BY Borders
    <2> QED BY <1>1, <2>1 DEF Init, Lag1, Lag2, CellAt
  <1> QED BY <1>1, <1>2, <1>3, <1>4 DEF LagInv

LEMMA StepLagInv == LagInv /\ [Step]_lcdVars => LagInv'
  <1> SUFFICES ASSUME LagInv, [Step]_lcdVars PROVE LagInv'
    OBVIOUS
  <1>1. ScanInv'
    BY StepScanInv, StepScans DEF LagInv
  <1>2. CASE UNCHANGED lcdVars
    BY <1>1, <1>2 DEF lcdVars, vars, LagInv, Lag1, Lag2, DispOn, CellAt, CellOf, Preceding
  <1>3. CASE Step
    <2>1. /\ quarter \in 0..7 /\ ScanInv /\ DispOn
          /\ quarter' = (quarter + 1) % 8
          /\ level = White \/ IF quarter < 4 THEN Lag1 ELSE Lag2
      BY <1>3 DEF LagInv, Step
    <2>2. level' = White \/ level' = IF quarter = 7 THEN CellOf(row, column) ELSE level
      BY <1>3 DEF Step, ReadOut
    <2>3. quarter' = IF quarter = 7 THEN 0 ELSE quarter + 1
      BY <2>1
    <2>4. CASE quarter % 4 # 3
      <3>1. UNCHANGED vars
        BY <1>3, <2>4 DEF Step, Between, Pixel
      <3>2. quarter # 7 /\ quarter # 3
        BY <2>4
      <3>3. (quarter' < 4 <=> quarter < 4) /\ quarter' \in 0..7
        BY <2>1, <2>3, <3>2
      <3>4. level' = level /\ level # White => IF quarter < 4 THEN Lag1' ELSE Lag2'
        BY <2>1, <3>1 DEF vars, Lag1, Lag2, CellAt, CellOf, Preceding
      <3>5. DispOn'
        BY <2>1, <3>1 DEF vars, DispOn
      <3> QED BY <1>1, <2>2, <3>2, <3>3, <3>4, <3>5 DEF LagInv
    <2>5. CASE quarter = 3
      <3>1. Clock
        BY <1>3, <2>5 DEF Step, Between, Pixel
      <3>2. DispOn' /\ quarter' = 4
        BY <2>1, <2>3, <2>5, <3>1, DispStep
      <3>3. level' = White \/ level' = level
        BY <2>2, <2>5
      <3>4. level' = level /\ level # White => Lag2'
        BY <2>1, <2>5, <3>1, LagsTwo
      <3> QED BY <1>1, <3>2, <3>3, <3>4 DEF LagInv
    <2>6. CASE quarter = 7
      <3>1. Clock
        BY <1>3, <2>6 DEF Step, Between, Pixel
      <3>2. DispOn' /\ quarter' = 0
        BY <2>1, <2>3, <2>6, <3>1, DispStep
      <3>3. level' = CellOf(row, column) => Lag1'
        <4>1. CASE disp_ena'
          <5>1. CellAt(Preceding(row', column')) = CellOf(row, column)
            BY <2>1, <3>1, <4>1, ComesAfter
          <5>2. Lag1' <=> level' = CellAt(Preceding(row', column'))
            BY <4>1 DEF Lag1, CellAt, CellOf, Preceding
          <5> QED BY <5>1, <5>2
        <4>2. CASE ~disp_ena'
          <5>1. CellOf(row', column') = CellOf(row, column)
            BY <2>1, <3>1, <4>2, OffStays
          <5>2. Lag1' <=> level' = CellOf(row', column')
            BY <4>2 DEF Lag1, CellAt, CellOf
          <5> QED BY <5>1, <5>2
        <4> QED BY <4>1, <4>2
      <3> QED BY <1>1, <2>2, <2>6, <3>2, <3>3 DEF LagInv
    <2>7. quarter % 4 # 3 \/ quarter = 3 \/ quarter = 7
      BY <2>1
    <2> QED BY <2>4, <2>5, <2>6, <2>7
  <1> QED BY <1>2, <1>3

\* Numbers of pixels.
LEMMA Divides ==
  ASSUME NEW n \in Nat \ {0}, NEW a \in Nat, NEW b \in 0..(n - 1)
  PROVE  (a * n + b) \div n = a /\ (a * n + b) % n = b
  OBVIOUS
LEMMA InPicture ==
  ASSUME NEW r \in 0..(v_pixels - 1), NEW c \in 0..(h_pixels - 1)
  PROVE  r * h_pixels + c \in 0..(h_pixels * v_pixels - 1)
  BY VgaAssumption
LEMMA Stays == ASSUME NEW n \in Nat \ {0}, NEW i \in 0..(n - 1) PROVE i % n = i
  OBVIOUS
LEMMA WrapsBack == ASSUME NEW n \in Nat \ {0} PROVE (-1) % n = n - 1
  OBVIOUS
LEMMA InCell ==
  ASSUME NEW n \in Nat \ {0}, NEW i \in Nat
  PROVE  i \in ((i \div n) * n)..((i \div n) * n + n - 1) /\ i \div n \in Nat
  OBVIOUS

LEMMA Earlier ==
  ASSUME NEW n \in Nat, NEW c \in 0..(n - 1), NEW lag \in {1, 2}, c >= lag
  PROVE  /\ c - lag \in 0..(n - 1)
         /\ lag = 1 => c - lag = c - 1
         /\ lag = 2 => c - lag = c - 1 - 1
  OBVIOUS

\* The lag in pixels and in places of the picture.
LEMMA Behind ==
  ASSUME NEW r \in 0..(v_pixels - 1), NEW c \in 0..(h_pixels - 1), NEW lag \in {1, 2},
         c = 0 => lag = 1
  PROVE  LET pixel == (r * h_pixels + c - lag) % (h_pixels * v_pixels)
             p == IF lag = 1 THEN Preceding(r, c) ELSE Preceding(Preceding(r, c)[1], Preceding(r, c)[2])
         IN  /\ p[1] \in 0..(v_pixels - 1) /\ p[2] \in 0..(h_pixels - 1)
             /\ pixel \div h_pixels = p[1] /\ pixel % h_pixels = p[2]
  <1> DEFINE size == h_pixels * v_pixels
             pixel == (r * h_pixels + c - lag) % size
             p == IF lag = 1 THEN Preceding(r, c) ELSE Preceding(Preceding(r, c)[1], Preceding(r, c)[2])
             start == r * h_pixels
  <1>1. size \in Nat \ {0} /\ h_pixels \in Nat \ {0}
    BY VgaAssumption
  <1>2. start \in Nat /\ h_pixels > 1 /\ v_pixels > 1 /\ v_pixels \in Nat
    BY Sizes
  <1>3. CASE c >= lag
    <2>1. p = <<r, c - lag>> /\ c - lag \in 0..(h_pixels - 1)
      <3> HIDE DEF size, pixel, start
      <3>1. c > 0 /\ Preceding(r, c) = <<r, c - 1>>
        BY <1>3 DEF Preceding
      <3>2. lag = 2 => c - 1 > 0 /\ Preceding(r, c - 1) = <<r, c - 1 - 1>>
        BY <1>3 DEF Preceding
      <3>3. /\ c - lag \in 0..(h_pixels - 1)
            /\ lag = 1 => c - lag = c - 1
            /\ lag = 2 => c - lag = c - 1 - 1
        <4>1. h_pixels \in Nat
          BY Sizes
        <4> QED BY <1>3, <4>1, Earlier
      <3>4. CASE lag = 1
        BY <3>1, <3>3, <3>4
      <3>5. CASE lag = 2
        <4>1. p = Preceding(r, c - 1)
          BY <3>1, <3>5
        <4> QED BY <3>2, <3>3, <3>5, <4>1
      <3> QED BY <3>4, <3>5
    <2>2. start + (c - lag) \in 0..(size - 1)
      BY <2>1, InPicture
    <2>3. pixel = start + (c - lag)
      <3>1. start + c - lag = start + (c - lag)
        BY <1>2
      <3> HIDE DEF start, size
      <3>2. (start + (c - lag)) % size = start + (c - lag)
        BY <1>1, <2>2, Stays
      <3> QED BY <3>1, <3>2 DEF start
    <2> HIDE DEF p, pixel
    <2> QED BY <1>1, <2>1, <2>3, Divides DEF p, pixel
  <1>4. CASE c < lag /\ r > 0
    <2>1. p = <<r - 1, h_pixels - 1>> /\ c - lag = -1 /\ r - 1 \in 0..(v_pixels - 1)
      BY <1>2, <1>4 DEF Preceding
    <2>2. start + c - lag = (r - 1) * h_pixels + (h_pixels - 1)
      BY <1>1, <2>1
    <2>3. (r - 1) * h_pixels + (h_pixels - 1) \in 0..(size - 1)
      BY <1>1, <2>1, InPicture
    <2>4. pixel = (r - 1) * h_pixels + (h_pixels - 1)
      <3> HIDE DEF size
      <3> QED BY <1>1, <2>2, <2>3, Stays
    <2>5. h_pixels - 1 \in 0..(h_pixels - 1) /\ r - 1 \in Nat
      BY <1>1, <2>1
    <2> HIDE DEF p, pixel
    <2>6. pixel \div h_pixels = r - 1 /\ pixel % h_pixels = h_pixels - 1
      <3> DEFINE a == r - 1
                 b == h_pixels - 1
      <3>1. a \in Nat /\ b \in 0..(h_pixels - 1) /\ pixel = a * h_pixels + b
        BY <2>4, <2>5
      <3> HIDE DEF a, b
      <3>2. pixel \div h_pixels = a /\ pixel % h_pixels = b
        BY ONLY <1>1, <3>1, Divides
      <3> QED BY <3>2 DEF a, b
    <2> QED BY <2>1, <2>5, <2>6 DEF p, pixel
  <1>5. CASE c < lag /\ r = 0
    <2>1. p = <<v_pixels - 1, h_pixels - 1>> /\ c - lag = -1
      BY <1>2, <1>5 DEF Preceding
    <2>2. start + c - lag = -1
      BY <1>1, <1>5, <2>1
    <2>3. size - 1 = (v_pixels - 1) * h_pixels + (h_pixels - 1)
      BY <1>1, <1>2
    <2>4. pixel = (v_pixels - 1) * h_pixels + (h_pixels - 1)
      <3> HIDE DEF size
      <3> QED BY <1>1, <2>2, <2>3, WrapsBack
    <2>5. h_pixels - 1 \in 0..(h_pixels - 1) /\ v_pixels - 1 \in 0..(v_pixels - 1)
      BY <1>1, <1>2
    <2> HIDE DEF p, pixel
    <2>6. pixel \div h_pixels = v_pixels - 1 /\ pixel % h_pixels = h_pixels - 1
      <3> DEFINE a == v_pixels - 1
                 b == h_pixels - 1
      <3>1. a \in Nat /\ b \in 0..(h_pixels - 1) /\ pixel = a * h_pixels + b
        BY <1>2, <2>4, <2>5
      <3> HIDE DEF a, b
      <3>2. pixel \div h_pixels = a /\ pixel % h_pixels = b
        BY ONLY <1>1, <3>1, Divides
      <3> QED BY <3>2 DEF a, b
    <2> QED BY <2>1, <2>5, <2>6 DEF p, pixel
  <1> QED BY <1>3, <1>4, <1>5

\* An enabled pixel shows the cell of the pixel before it or of the one before that,
\* in turns, for all sizes of the picture, its cells and its borders, whenever the
\* screen is reset and wherever in a clock of the memory the scan starts
\* (Video_Buffer.sv, Screens_dispaly.sv).
THEOREM CellsLagBehind == LcdSpec => []CellsLag
  <1>1. LagInv => CellsLag
    <2> SUFFICES ASSUME LagInv, disp_ena, level # White PROVE CellsLag
      BY DEF CellsLag
    <2> DEFINE lag == IF column = 0 THEN 1 ELSE 1 + quarter \div 4
               pixel == (row * h_pixels + column - lag) % (h_pixels * v_pixels)
               r == pixel \div h_pixels
               c == pixel % h_pixels
               p == IF lag = 1 THEN Preceding(row, column)
                    ELSE Preceding(Preceding(row, column)[1], Preceding(row, column)[2])
    <2>1. row \in 0..(v_pixels - 1) /\ column \in 0..(h_pixels - 1) /\ quarter \in 0..7
      BY ScanTypes DEF LagInv
    <2>2. /\ lag \in {1, 2} /\ (column = 0 => lag = 1)
          /\ column # 0 => (lag = 1 <=> quarter < 4)
      BY <2>1
    <2>3. level = CellAt(p)
      BY <2>2 DEF LagInv, Lag1, Lag2
    <2> HIDE DEF lag
    <2>4. r \in 0..(v_pixels - 1) /\ c \in 0..(h_pixels - 1) /\ r = p[1] /\ c = p[2]
      BY <2>1, <2>2, Behind
    <2> HIDE DEF r, c, p
    <2>5. level = CellOf(r, c)
      BY <2>3, <2>4 DEF CellAt
    <2>6. IF level = Black THEN r \notin TOP..(BOTTOM - 1)
          ELSE /\ r - TOP \in (level[1] * CELL)..(level[1] * CELL + CELL - 1)
               /\ c \in (level[2] * CELL)..(level[2] * CELL + CELL - 1)
      <3>1. r \in Nat /\ c \in Nat /\ CELL \in Nat \ {0} /\ TOP \in Nat /\ BOTTOM \in Nat
        BY <2>1, <2>4, Sizes, LcdAssumption
      <3>2. CASE r < TOP \/ r >= BOTTOM
        BY <2>5, <3>1, <3>2 DEF CellOf
      <3>3. CASE ~(r < TOP \/ r >= BOTTOM)
        <4>1. r - TOP \in Nat
          BY <3>1, <3>3
        <4>2. /\ (r - TOP) \div CELL \in Nat /\ c \div CELL \in Nat
              /\ r - TOP \in (((r - TOP) \div CELL) * CELL)..(((r - TOP) \div CELL) * CELL + CELL - 1)
              /\ c \in ((c \div CELL) * CELL)..((c \div CELL) * CELL + CELL - 1)
          BY <3>1, <4>1, InCell
        <4> DEFINE i == (r - TOP) \div CELL
                   j == c \div CELL
        <4>3. level = <<i, j>>
          BY <2>5, <3>3 DEF CellOf
        <4> HIDE DEF i, j
        <4>4. i \in Nat /\ j \in Nat
          BY <4>2 DEF i, j
        <4>5. <<i, j>> \in Nat \X Nat
          BY <4>4
        <4>6. level # Black
          BY <4>3, <4>5, LevelAssumption
        <4>7. level[1] = i /\ level[2] = j
          BY <4>3
        <4> QED BY <4>2, <4>6, <4>7 DEF i, j
      <3> QED BY <3>2, <3>3
    <2> QED BY <2>6 DEF CellsLag, r, c, pixel, lag
  <1> QED BY <1>1, InitLagInv, StepLagInv, PTL DEF LcdSpec
=============================================================================
