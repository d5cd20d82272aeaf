------------------------------ MODULE VgaSync ------------------------------
(***************************************************************************)
(* vga_controller.v: the counters that scan the screen, and the registered *)
(* signals derived from them.  Every output is a register, so it shows the *)
(* counters of the previous pixel clock.  The reset input is tied off by   *)
(* Screens_dispaly.sv; all registers power up as zero.                     *)
(***************************************************************************)
EXTENDS Integers

CONSTANTS
  h_pixels, h_fp, h_pulse, h_bp, h_pol,   \* 640, 16, 96, 48 and 0 in the code
  v_pixels, v_fp, v_pulse, v_bp, v_pol    \* 480, 10, 2, 33 and 0

ASSUME VgaAssumption ==
  /\ h_pixels \in Nat \ {0} /\ v_pixels \in Nat \ {0}
  /\ h_fp \in Nat /\ h_pulse \in Nat /\ h_bp \in Nat
  /\ v_fp \in Nat /\ v_pulse \in Nat /\ v_bp \in Nat
  /\ h_pol \in {0, 1} /\ v_pol \in {0, 1}

h_period == h_pulse + h_bp + h_pixels + h_fp
v_period == v_pulse + v_bp + v_pixels + v_fp

VARIABLES h_count, v_count, h_sync, v_sync, disp_ena, column, row

vars == <<h_count, v_count, h_sync, v_sync, disp_ena, column, row>>

Init ==
  /\ h_count = 0 /\ v_count = 0
  /\ h_sync = 0 /\ v_sync = 0
  /\ disp_ena = FALSE /\ column = 0 /\ row = 0

\* Mutant of Counters: a line without its first pixel.
Counters_FromOne ==
  /\ h_count' = IF h_count < h_period - 1 THEN h_count + 1 ELSE 1
  /\ v_count' = IF h_count < h_period - 1 THEN v_count
                ELSE IF v_count < v_period - 1 THEN v_count + 1 ELSE 0

\* The counters wrap at the end of a line and of a frame.
Counters ==
  /\ h_count' = IF h_count < h_period - 1 THEN h_count + 1 ELSE 0
  /\ v_count' = IF h_count < h_period - 1 THEN v_count
                ELSE IF v_count < v_period - 1 THEN v_count + 1 ELSE 0

\* Mutant of HPulse: the pulse at the beginning of the line.
HPulse_First(count) == count <= h_pulse

\* The counts at which a sync signal is driven to its polarity.
HPulse(count) == count >= h_pixels + h_fp /\ count <= h_pixels + h_fp + h_pulse
VPulse(count) == count >= v_pixels + v_fp /\ count <= v_pixels + v_fp + v_pulse

\* One pixel clock.
Clock ==
  /\ Counters
  /\ h_sync' = IF HPulse(h_count) THEN h_pol ELSE 1 - h_pol
  /\ v_sync' = IF VPulse(v_count) THEN v_pol ELSE 1 - v_pol
  /\ column' = IF h_count < h_pixels THEN h_count ELSE column
  /\ row' = IF v_count < v_pixels THEN v_count ELSE row
  /\ disp_ena' = (h_count < h_pixels /\ v_count < v_pixels)

Spec == Init /\ [][Clock]_vars

-----------------------------------------------------------------------------

\* Counters and coordinates stay within a period and within the picture.
TypeOK ==
  /\ h_count \in 0..(h_period - 1) /\ v_count \in 0..(v_period - 1)
  /\ h_sync \in {0, 1} /\ v_sync \in {0, 1} /\ disp_ena \in BOOLEAN
  /\ column \in 0..(h_pixels - 1) /\ row \in 0..(v_pixels - 1)

\* The position after (row, column) in raster order, the first one after the last.
Following(r, c) ==
  IF c < h_pixels - 1 THEN <<r, c + 1>> ELSE <<(r + 1) % v_pixels, 0>>

\* The enabled pixels come in raster order, none twice and none left out: a
\* blanking interval keeps the coordinates so that the scan resumes where it
\* stopped (vga_controller.v 45-85).  The first pixel after power-up is (0, 0).
Raster ==
  [][disp_ena' =>
       \/ <<row', column'>> = Following(row, column)
       \/ ~disp_ena /\ <<row, column>> = <<0, 0>> /\ <<row', column'>> = <<0, 0>>]_vars

\* After power-up no pixel is enabled while a sync pulse is driven, so a pulse
\* lies in the blanking interval (vga_controller.v 57-69 with 80-85).
BlankInPulse ==
  disp_ena => h_sync = 1 - h_pol /\ v_sync = 1 - v_pol

=============================================================================
