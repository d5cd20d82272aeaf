------------------------------- MODULE Arrays -------------------------------
(***************************************************************************)
(* The global byte arrays of the firmware and what C makes of an index     *)
(* outside them.  No accessor of the firmware checks its index.  A read    *)
(* outside the array is undefined behaviour, modelled as a read of some    *)
(* byte of Garbage: the readers return the SET of values a read can give.  *)
(* A write outside the array destroys unrelated state: its callers test    *)
(* the indices with Holds, and stop the modelled machine when it fails.    *)
(***************************************************************************)
EXTENDS Bytes

CONSTANT Garbage   \* the bytes an out-of-bounds read may return (a bound)

ASSUME GarbageAssumption == Garbage \subseteq Byte /\ Garbage # {}

Holds(mem, addresses) == addresses \subseteq DOMAIN mem

Peek(mem, address) == IF address \in DOMAIN mem THEN {mem[address]} ELSE Garbage

\* The words a big-endian read at address can give; address + 1 is an int.
Peek16(mem, address) ==
  {256 * hi + lo : hi \in Peek(mem, address), lo \in Peek(mem, address + 1)}

=============================================================================
