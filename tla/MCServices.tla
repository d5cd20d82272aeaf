------------------------------ MODULE MCServices ------------------------------
(***************************************************************************)
(* Parts of the library that do not touch each other, each explored by     *)
(* itself: unit names the one that moves.  The unit "numbers" goes through *)
(* the arguments of the functions that keep no state, those of the         *)
(* interpreter's arithmetic included.                                      *)
(***************************************************************************)
EXTENDS Profile, TimeOfDay, Printing, Log, Boot

CONSTANTS Arguments,    \* of the printing functions, of usleep and in V0
          Operands      \* in V1
ASSUME ArgumentsAssumption ==
  /\ Arguments \in 0..255 /\ Operands \subseteq 0..255
  /\ Arguments < WordSize   \* an argument is a word

Cpu == INSTANCE Alu

VARIABLES unit, arg

vars == <<unit, arg, profileVars, timeVars, logVars, bootVars>>

Units == {"profile", "time", "log", "boot", "numbers"}

Init == /\ unit \in Units /\ arg = 0
        /\ ProfileInit /\ TimeInit /\ LogInit
        /\ IF unit = "boot" THEN BootInit ELSE BootInit /\ build = CHOOSE b \in Builds : TRUE

Profiling == /\ unit = "profile" /\ ProfileNext
             /\ UNCHANGED <<unit, arg, timeVars, logVars, bootVars>>
Timing    == /\ unit = "time" /\ TimeNext /\ elapsed < 2 * WORD
             /\ UNCHANGED <<unit, arg, profileVars, logVars, bootVars>>
Logging   == /\ unit = "log" /\ LogNext
             /\ UNCHANGED <<unit, arg, profileVars, timeVars, bootVars>>
Booting   == /\ unit = "boot" /\ BootNext
             /\ UNCHANGED <<unit, arg, profileVars, timeVars, logVars>>
Counting  == /\ unit = "numbers" /\ arg < Arguments /\ arg' = arg + 1
             /\ UNCHANGED <<unit, profileVars, timeVars, logVars, bootVars>>

Next == Profiling \/ Timing \/ Logging \/ Booting \/ Counting
Spec == Init /\ [][Next]_vars

\* The times a program sets.
Times == {[sec |-> 0, usec |-> 0], [sec |-> 3, usec |-> 7], [sec |-> 1, usec |-> 11]}

AllBuilds == [cplusplus : BOOLEAN, clean_exit : BOOLEAN, may_exit : BOOLEAN,
              direct : BOOLEAN, copied : BOOLEAN]

\* The time that is told and the time that is slept differ from the ticks that have
\* passed and the cycles asked for by no more than the code's roundings: see ClockAgrees
\* and SleepsNearly.
TimeKept == ClockAgrees /\ (unit = "numbers" /\ arg < WORD => SleepsNearly(arg))

\* Numbers survive being printed: see ReadsBack.
NumbersReadBack == unit = "numbers" => \A width \in 0..4 : ReadsBack(arg, width)

\* The register file with the argument in V0 and an operand in V1.
RegisterV(b) == [r \in Cpu!Reg |-> CASE r = 0 -> arg [] r = 1 -> b [] OTHER -> 0]
Both == {0, 1}

\* SUB and SUBN give the difference and its borrow, SHR and SHL keep the bit they shift
\* out, and the bitwise operations agree, for operands other than VF and also if both
\* are the same register: see SubtractsWithBorrow, ShiftsIntoVF and BitwiseAgree.
ArithmeticAgrees ==
  unit = "numbers" => \A b \in Operands, x, y \in Both :
    /\ Cpu!SubtractsWithBorrow(RegisterV(b), x, y)
    /\ Cpu!ShiftsIntoVF(RegisterV(b), x)
    /\ Cpu!BitwiseAgree(RegisterV(b), x, y)

\* ADD gives the sum and its carry for operands other than VF: see AddsWithCarry.
Carry ==
  unit = "numbers" => \A b \in Operands, x, y \in Both : Cpu!AddsWithCarry(RegisterV(b), x, y)
=============================================================================
