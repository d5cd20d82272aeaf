--------------------------------- MODULE Heap ---------------------------------
(***************************************************************************)
(* ALT_SBRK (alt_sbrk.c) as a function of the heap: where it ends, the     *)
(* limit the stack check compares the stack pointer with, and whether an   *)
(* overflow has been reported.  Addresses count from __alt_heap_start; the *)
(* call runs with interrupts disabled, so it is one step.                  *)
(***************************************************************************)
EXTENDS Integers

CONSTANTS HeapLimit,      \* __alt_heap_limit
          StackCheck,     \* whether ALT_STACK_CHECK is defined
          StackPointer    \* of the caller: the stack grows down towards the heap
ASSUME HeapAssumption ==
  HeapLimit \in Nat /\ StackPointer \in Nat /\ StackCheck \in BOOLEAN

Failed == -1
Aligned(address) == 4 * ((address + 3) \div 4)

EmptyHeap == [end |-> 0, stack_limit |-> 0, overflow |-> FALSE]

\* The stack's limit moves with the heap while it is the end of the heap.
Checked(heap, prev_heap_end) ==
  IF StackCheck /\ heap.stack_limit = prev_heap_end
  THEN [heap EXCEPT !.overflow = @ \/ StackPointer <= heap.end, !.stack_limit = heap.end]
  ELSE heap

\* A request that does not fit changes nothing but the alignment.
ALT_SBRK(heap, incr) ==
  LET start == Aligned(heap.end) IN
  IF start + incr > HeapLimit
  THEN [result |-> Failed, heap |-> [heap EXCEPT !.end = start]]
  ELSE [result |-> start, heap |-> Checked([heap EXCEPT !.end = start + incr], start)]
=============================================================================
