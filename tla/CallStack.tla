----------------------------- MODULE CallStack -----------------------------
(***************************************************************************)
(* What CALL and RET (CPU.c 295-314) promise a program: a subroutine comes *)
(* back to the instruction after its call, in last-in first-out order.     *)
(* The module adds two history variables to Chip8, which constrain nothing:*)
(* calls, the addresses of the CALLs not yet returned from, and broken,    *)
(* true once a RET has been executed with no call outstanding.             *)
(***************************************************************************)
EXTENDS Chip8, SequencesExt

VARIABLES calls, broken

history == <<calls, broken>>

HInit == Init /\ calls = <<>> /\ broken = FALSE

\* RET with nothing to return to.
Underflows(op) == op = 238 /\ calls = <<>>

Track(op) ==
  /\ broken' = (broken \/ Underflows(op))
  /\ \/ broken' /\ calls' = <<>>
     \/ ~broken' /\ Class(op) = 2 /\ phase' = "press"
          /\ calls' = Append(calls, RegisterPC)
     \/ ~broken' /\ op = 238 /\ calls' = Front(calls)
     \/ ~broken' /\ op # 238 /\ ~(Class(op) = 2 /\ phase' = "press")
          /\ UNCHANGED calls

HNext ==
  \/ (initChip8 \/ pollButtons \/ Printed) /\ UNCHANGED history
  \/ \E op \in readRAM16(RegisterPC) :
       Cycle(op) /\ UNCHANGED switches /\ Track(op)
  \/ Reset /\ calls' = <<>> /\ broken' = FALSE

hvars == <<vars, history>>

HSpec == HInit /\ [][HNext]_hvars

-----------------------------------------------------------------------------

\* The stack pointer moves before the store, so slot 0 is never used by a
\* well-nested program and one call less than the array has words is left.
Capacity == MEMORY_STACK_SIZE \div 2 - 1

StackWord(i) == 256 * STACK[2 * i] + STACK[2 * i + 1]

\* CALL and RET keep, in the bytes of STACK below RegisterSP, exactly the
\* addresses of the outstanding calls, whatever else the program executes in
\* between (CPU.c 295-314 with Memory.c 36-48).
FramesOnStack ==
  ~broken =>
    /\ Len(calls) <= Capacity
    /\ RegisterSP = 2 * Len(calls)
    /\ \A i \in 1..Len(calls) : StackWord(i) = calls[i]

\* A RET resumes after the latest outstanding CALL, and nothing but RET takes
\* a call off the stack (CPU.c 295-300).
ReturnsToCaller ==
  [][phase' # "boot" /\ Len(calls') < Len(calls) /\ ~broken'
       => RegisterPC' = U16(Last(calls) + 2) /\ calls' = Front(calls)]_hvars

\* A CALL overruns STACK only when Capacity calls are outstanding, or after a
\* RET that had no CALL (CPU.c 309-314).
CallFits ==
  [][\A op \in readRAM16(RegisterPC) :
       phase = "cpu" /\ PCInRAM /\ Class(op) = 2 /\ ~broken
       /\ Len(calls) < Capacity => phase' # "wild"]_hvars

\* Calls and returns nest, by all that the stack holds and all that the two
\* instructions do.
CallsNest == []FramesOnStack /\ ReturnsToCaller /\ CallFits

=============================================================================
