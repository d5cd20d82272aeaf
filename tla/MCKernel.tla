------------------------------ MODULE MCKernel ------------------------------
(* A device, the clock and two alarms; the counter rolls over every four ticks. *)
EXTENDS Kernel
CONSTANTS a1, a2
=============================================================================
