---------------------------- MODULE MCCallStack ----------------------------
(* CallStack with the programs its runs put in the ROM table. *)
EXTENDS CallStack, Programs

=============================================================================
