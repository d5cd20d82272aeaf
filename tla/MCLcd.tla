-------------------------------- MODULE MCLcd --------------------------------
(* Lcd with clocks that never stop. *)
EXTENDS Lcd

FairSpec == LcdSpec /\ WF_lcdVars(Step)

=============================================================================
