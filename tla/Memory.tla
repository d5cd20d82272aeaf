------------------------------ MODULE Memory ------------------------------
(***************************************************************************)
(* Memory.c: the byte arrays RAM and STACK and their big-endian accessors. *)
(***************************************************************************)
EXTENDS Arrays

CONSTANTS
  MEMORY_RAM_SIZE,    \* bytes of RAM: 4096 in the code
  MEMORY_STACK_SIZE   \* bytes of STACK: 32 in the code

\* In a STACK of 256 bytes the stack pointer, a byte, would wrap around before
\* it leaves the array.
ASSUME MemoryAssumption ==
  /\ MEMORY_RAM_SIZE \in 2..65536
  /\ MEMORY_STACK_SIZE \in 4..254 /\ MEMORY_STACK_SIZE % 2 = 0

VARIABLES RAM, STACK

RamAddress == 0..(MEMORY_RAM_SIZE - 1)
StackAddress == 0..(MEMORY_STACK_SIZE - 1)

ZeroRAM   == [a \in RamAddress |-> 0]
ZeroSTACK == [a \in StackAddress |-> 0]

readRAM8(address) == Peek(RAM, address)
readRAM16(address) == Peek16(RAM, address)

\* Mutant of readSTACK16: reads the slot above the stack pointer.
readSTACK16_Above(address) == Peek16(STACK, address + 2)

readSTACK16(address) == Peek16(STACK, address)

\* What the byte at a, old before, is after memcpy of data, a function on
\* 0..size-1, to address.
initRAM(old, a, address, data) ==
  IF a - address \in DOMAIN data THEN data[a - address] ELSE old

writeSTACK16(address, value) ==
  [STACK EXCEPT ![address] = value \div 256, ![address + 1] = value % 256]

=============================================================================
