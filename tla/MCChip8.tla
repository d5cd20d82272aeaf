------------------------------ MODULE MCChip8 ------------------------------
(* Chip8 with the programs its runs put in the ROM table. *)
EXTENDS Chip8, Programs

=============================================================================
