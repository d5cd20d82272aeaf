---------------------------- MODULE MCAdcReader ----------------------------
(***************************************************************************)
(* AdcReader with a user who touches nothing, holds the stick to the left, *)
(* or holds it to the right and presses A.                                 *)
(***************************************************************************)
EXTENDS AdcReader

\* A and B rest at the high level and are low when pressed.
Released == [c \in Channels |-> IF c \in {3, 4} THEN 4095 ELSE 0]

MCPinSettings ==
  {Released,
   [Released EXCEPT ![0] = 4095],
   [Released EXCEPT ![0] = 2400, ![3] = 0]}

=============================================================================
