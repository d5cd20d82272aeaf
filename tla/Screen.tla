------------------------------- MODULE Screen -------------------------------
(***************************************************************************)
(* What the display promises a CHIP-8 program: a picture onto which whole  *)
(* sprites are XORed, a collision flag that says whether a draw switched   *)
(* any pixel off, and a clear.  A draw is a set of cells of the picture.   *)
(***************************************************************************)
EXTENDS Bytes

CONSTANT Figures   \* the sets of cells a program may draw

VARIABLES
  picture,   \* the cells that are lit
  drawing,   \* the set of at most one figure being drawn
  vf         \* the collision flag, 0 while a figure is being drawn

Init == picture = {} /\ drawing = {} /\ vf = 0

Begin ==
  /\ drawing = {} /\ vf' = 0
  /\ \E cells \in Figures : drawing' = {cells}
  /\ UNCHANGED picture

Finish ==
  \E cells \in drawing :
    /\ picture' = (picture \ cells) \cup (cells \ picture)
    /\ vf' = Flag(picture \cap cells # {})
    /\ drawing' = {}

Clear == drawing = {} /\ picture' = {} /\ UNCHANGED <<drawing, vf>>

Restart == picture' = {} /\ drawing' = {} /\ vf' = 0

vars == <<picture, drawing, vf>>

Next == Begin \/ Finish \/ Clear \/ Restart

Spec == Init /\ [][Next]_vars

=============================================================================
