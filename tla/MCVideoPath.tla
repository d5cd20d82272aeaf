---------------------------- MODULE MCVideoPath ----------------------------
(* VideoPath at the size of the real display, with a few overlapping draws. *)
EXTENDS VideoPath, Sequences

Sprite(bytes) == [i \in 0..(Len(bytes) - 1) |-> bytes[i + 1]]

At(row, col, bytes) == [row |-> row, col |-> col, sprite |-> Sprite(bytes)]

\* Overlapping figures in a corner, one on the last row and column, an empty
\* one, one that leaves the screen at the bottom, and one whose rows wrap at 256
\* to the top.
SafeDraws ==
  { At(0, 0, <<192, 128>>), At(0, 1, <<160>>), At(1, 0, <<192>>),
    At(31, 56, <<129>>), At(5, 5, <<>>), At(31, 3, <<128, 128>>),
    At(254, 1, <<0, 0, 192>>) }

=============================================================================
