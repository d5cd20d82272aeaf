-------------------------------- MODULE CPU --------------------------------
(***************************************************************************)
(* CPU.c: the registers of the CHIP-8 machine and runCPU, which ticks the  *)
(* timers, fetches one big-endian word at RegisterPC, decodes it and       *)
(* executes it.  One action per instruction; its parameter op is the word. *)
(* An instruction that would write outside an array is not executed:       *)
(* WildWrite stops the machine, because nothing is known of its memory     *)
(* after that.                                                             *)
(***************************************************************************)
EXTENDS Alu, Memory, Display, Keyboard

CONSTANTS
  RandomBytes,   \* the values rand() % 256 may take (a bound)
  OffsetFont     \* where initChip8 put the fonts

ASSUME CPUAssumption ==
  /\ RandomBytes \subseteq Byte /\ RandomBytes # {}
  /\ OffsetFont \in Word

VARIABLES
  RegisterV, RegisterI, RegisterPC, RegisterSP, RegisterDT, RegisterST,
  phase   \* where the program stands: "boot", "press", "cpu", "print" or "wild"

memories == <<RAM, STACK, DisplayData>>
keyboard == <<Keypad, KeyMap>>
timers == <<RegisterDT, RegisterST>>
registers == <<RegisterV, RegisterI, RegisterPC, RegisterSP>>

-----------------------------------------------------------------------------
(* The fields of an instruction word. *)

Class(op) == op \div 4096
NNN(op) == op % 4096
X(op) == (op \div 256) % 16
Y(op) == (op \div 16) % 16
N(op) == op % 16
KK(op) == op % 256

-----------------------------------------------------------------------------
(* What most instructions share. *)

\* Mutant of Tick: off by one.
Tick_Sticks(t) == IF t > 1 THEN t - 1 ELSE t

Tick(t) == IF t > 0 THEN t - 1 ELSE 0

updateTimers == RegisterDT' = Tick(RegisterDT) /\ RegisterST' = Tick(RegisterST)

GoTo(pc) == RegisterPC' = U16(pc)

\* Only the program counter moves.
Move(pc) ==
  /\ GoTo(pc)
  /\ updateTimers
  /\ UNCHANGED <<RegisterV, RegisterI, RegisterSP, memories>>

SkipIf(cond) == Move(RegisterPC + (IF cond THEN 4 ELSE 2))

\* The register file becomes V, and the next instruction follows.
SetV(V) ==
  /\ RegisterV' = V
  /\ GoTo(RegisterPC + 2)
  /\ updateTimers
  /\ UNCHANGED <<RegisterI, RegisterSP, memories>>

SetI(address) ==
  /\ RegisterI' = U16(address)
  /\ GoTo(RegisterPC + 2)
  /\ updateTimers
  /\ UNCHANGED <<RegisterV, RegisterSP, memories>>

\* The addresses of size consecutive bytes at I: RegisterI + idx as uint16_t.
AtI(i) == U16(RegisterI + i)
FromI(size) == {AtI(i) : i \in 0..(size - 1)}

\* The values that reading size bytes from I on can give.
LoadsFromI(size) ==
  LET outside == {i \in 0..(size - 1) : AtI(i) \notin DOMAIN RAM}
  IN  {[i \in 0..(size - 1) |-> IF i \in outside THEN g[i] ELSE RAM[AtI(i)]] :
         g \in [outside -> Garbage]}

-----------------------------------------------------------------------------
(* Flow of control. *)

SYS(op) == Class(op) = 0 /\ NNN(op) \notin {224, 238} /\ Move(RegisterPC + 2)

\* Mutant of RET: the CALL is repeated.
RET_Repeats(op) ==
  /\ op = 238
  /\ \E caller \in readSTACK16(RegisterSP) : GoTo(caller)
  /\ RegisterSP' = U8(RegisterSP - 2)
  /\ updateTimers
  /\ UNCHANGED <<RegisterV, RegisterI, memories>>

RET(op) ==
  /\ op = 238
  /\ \E caller \in readSTACK16(RegisterSP) : GoTo(caller + 2)
  /\ RegisterSP' = U8(RegisterSP - 2)
  /\ updateTimers
  /\ UNCHANGED <<RegisterV, RegisterI, memories>>

JP(op) == Class(op) = 1 /\ Move(NNN(op))

\* The two bytes a CALL writes: the stack pointer moves first.
CallSlot == {U8(RegisterSP + 2), U8(RegisterSP + 2) + 1}

CALL(op) ==
  /\ Class(op) = 2
  /\ Holds(STACK, CallSlot)
  /\ RegisterSP' = U8(RegisterSP + 2)
  /\ STACK' = writeSTACK16(RegisterSP', RegisterPC)
  /\ GoTo(NNN(op))
  /\ updateTimers
  /\ UNCHANGED <<RegisterV, RegisterI, RAM, DisplayData>>

SE_byte(op)  == Class(op) = 3 /\ SkipIf(RegisterV[X(op)] = KK(op))
SNE_byte(op) == Class(op) = 4 /\ SkipIf(RegisterV[X(op)] # KK(op))
SE_reg(op)   == Class(op) = 5 /\ SkipIf(RegisterV[X(op)] = RegisterV[Y(op)])
SNE_reg(op)  == Class(op) = 9 /\ SkipIf(RegisterV[X(op)] # RegisterV[Y(op)])
JP_V0(op)    == Class(op) = 11 /\ Move(NNN(op) + RegisterV[0])

SKP(op) ==
  /\ Class(op) = 14 /\ KK(op) = 158
  /\ \E key \in getKey(RegisterV[X(op)]) : SkipIf(key = 1)

SKNP(op) ==
  /\ Class(op) = 14 /\ KK(op) = 161
  /\ \E key \in getKey(RegisterV[X(op)]) : SkipIf(key = 0)

\* No case of the inner switches: nothing advances RegisterPC.
Undefined(op) ==
  \/ Class(op) = 8 /\ N(op) \notin 0..7 \cup {14}
  \/ Class(op) = 14 /\ KK(op) \notin {158, 161}
  \/ Class(op) = 15 /\ KK(op) \notin {7, 10, 21, 24, 30, 41, 51, 85, 101}

\* Mutant of Stay: an undefined word is skipped.
Stay_Skips(op) == Undefined(op) /\ Move(RegisterPC + 2)

Stay(op) == Undefined(op) /\ Move(RegisterPC)

-----------------------------------------------------------------------------
(* Registers. *)

LD_byte(op)  == Class(op) = 6 /\ SetV(LD8(RegisterV, X(op), KK(op)))
ADD_byte(op) == Class(op) = 7 /\ SetV(ADD_NoCarry8(RegisterV, X(op), KK(op)))

Arithmetic(op) ==
  /\ Class(op) = 8
  /\ LET x == X(op)
         y == Y(op)
     IN  \/ N(op) = 0  /\ SetV(LD8(RegisterV, x, RegisterV[y]))
         \/ N(op) = 1  /\ SetV(OR(RegisterV, x, y))
         \/ N(op) = 2  /\ SetV(AND(RegisterV, x, y))
         \/ N(op) = 3  /\ SetV(XOR(RegisterV, x, y))
         \/ N(op) = 4  /\ SetV(ADD(RegisterV, x, y))
         \/ N(op) = 5  /\ SetV(SUB(RegisterV, x, y))
         \/ N(op) = 6  /\ SetV(SHR(RegisterV, x))
         \/ N(op) = 7  /\ SetV(SUBN(RegisterV, x, y))
         \/ N(op) = 14 /\ SetV(SHL(RegisterV, x))

RND_byte(op) ==
  /\ Class(op) = 12
  /\ \E r \in RandomBytes : SetV(RND(RegisterV, X(op), KK(op), r))

LD_I(op) == Class(op) = 10 /\ SetI(NNN(op))
ADD_I(op) == Class(op) = 15 /\ KK(op) = 30 /\ SetI(RegisterI + RegisterV[X(op)])
LD_F(op) ==
  Class(op) = 15 /\ KK(op) = 41 /\ SetI(OffsetFont + 5 * RegisterV[X(op)])

\* The timers have ticked before the instruction reads or writes them.
LD_Vx_DT(op) ==
  Class(op) = 15 /\ KK(op) = 7 /\ SetV(LD8(RegisterV, X(op), Tick(RegisterDT)))

LD_DT(op) ==
  /\ Class(op) = 15 /\ KK(op) = 21
  /\ RegisterDT' = RegisterV[X(op)]
  /\ RegisterST' = Tick(RegisterST)
  /\ GoTo(RegisterPC + 2)
  /\ UNCHANGED <<RegisterV, RegisterI, RegisterSP, memories>>

LD_ST(op) ==
  /\ Class(op) = 15 /\ KK(op) = 24
  /\ RegisterST' = RegisterV[X(op)]
  /\ RegisterDT' = Tick(RegisterDT)
  /\ GoTo(RegisterPC + 2)
  /\ UNCHANGED <<RegisterV, RegisterI, RegisterSP, memories>>

\* Mutant of LD_K: a key does not end the wait.
LD_K_Waits(op) == Class(op) = 15 /\ KK(op) = 10 /\ Move(RegisterPC)

\* Fx0A takes the lowest pressed key; with none it is executed again.
LD_K(op) ==
  /\ Class(op) = 15 /\ KK(op) = 10
  /\ \/ \E k \in PressedKeys :
          /\ \A j \in PressedKeys : k <= j
          /\ SetV(LD8(RegisterV, X(op), k))
     \/ PressedKeys = {} /\ Move(RegisterPC)

-----------------------------------------------------------------------------
(* Memory and screen. *)

\* Mutant of Digits: the tens are not reduced to one digit.
Digits_Tens(v) == [i \in 0..2 |-> IF i = 0 THEN v \div 100
                                 ELSE IF i = 1 THEN v \div 10
                                 ELSE v % 10]

\* What Fx33 and Fx55 store at I, I + 1, ...
Digits(v) == [i \in 0..2 |-> IF i = 0 THEN v \div 100
                            ELSE IF i = 1 THEN (v \div 10) % 10
                            ELSE v % 10]
LowRegisters(x) == [i \in 0..x |-> RegisterV[i]]

Stores(op) == Class(op) = 15 /\ KK(op) \in {51, 85}
Stored(op) == IF KK(op) = 51 THEN Digits(RegisterV[X(op)]) ELSE LowRegisters(X(op))
StoreSize(op) == IF KK(op) = 51 THEN 3 ELSE X(op) + 1

\* Fx33 (BCD of Vx) and Fx55 (V0 to Vx).
LD_mem(op) ==
  /\ Stores(op)
  /\ Holds(RAM, FromI(StoreSize(op)))
  /\ RAM' = [a \in DOMAIN RAM |->
               LET i == U16(a - RegisterI)
               IN  IF i < StoreSize(op) THEN Stored(op)[i] ELSE RAM[a]]
  /\ GoTo(RegisterPC + 2)
  /\ updateTimers
  /\ UNCHANGED <<RegisterV, RegisterI, RegisterSP, STACK, DisplayData>>

\* Fx65: V0 to Vx from memory.
LD_Vx_mem(op) ==
  /\ Class(op) = 15 /\ KK(op) = 101
  /\ \E loaded \in LoadsFromI(X(op) + 1) :
       SetV([r \in Reg |-> IF r <= X(op) THEN loaded[r] ELSE RegisterV[r]])

CLS(op) ==
  /\ op = 224
  /\ DisplayData' = {}
  /\ GoTo(RegisterPC + 2)
  /\ updateTimers
  /\ UNCHANGED <<RegisterV, RegisterI, RegisterSP, RAM, STACK>>

\* Dxyn: the n-byte sprite at I, at row Vy and column Vx.
Sprites(op) == LoadsFromI(N(op))
Row(op) == RegisterV[Y(op)]
Col(op) == RegisterV[X(op)]

DRW(op) ==
  /\ Class(op) = 13
  /\ \E sprite \in Sprites(op) :
       /\ Put(Row(op), Col(op), sprite) \subseteq Cells
       /\ DisplayData' = Toggle(DisplayData, Put(Row(op), Col(op), sprite))
       /\ RegisterV' = [RegisterV EXCEPT ![VF] =
                          Flag(Collides(Row(op), Col(op), sprite))]
  /\ GoTo(RegisterPC + 2)
  /\ updateTimers
  /\ UNCHANGED <<RegisterI, RegisterSP, RAM, STACK>>

-----------------------------------------------------------------------------
(* One call of runCPU. *)

\* The instructions with a message to the UART.  That of SYS comes before its
\* move of the program counter, which nobody reads in between.
Prints(op) ==
  \/ Class(op) = 0 /\ NNN(op) \notin {224, 238}
  \/ Class(op) \in {14, 15} /\ Undefined(op)

Execute(op) ==
  \/ SYS(op) \/ CLS(op) \/ RET(op) \/ JP(op) \/ CALL(op)
  \/ SE_byte(op) \/ SNE_byte(op) \/ SE_reg(op) \/ SNE_reg(op)
  \/ LD_byte(op) \/ ADD_byte(op) \/ Arithmetic(op) \/ RND_byte(op)
  \/ LD_I(op) \/ ADD_I(op) \/ LD_F(op) \/ JP_V0(op)
  \/ DRW(op) \/ SKP(op) \/ SKNP(op) \/ LD_K(op)
  \/ LD_Vx_DT(op) \/ LD_DT(op) \/ LD_ST(op)
  \/ LD_mem(op) \/ LD_Vx_mem(op) \/ Stay(op)

\* The instruction that would write outside an array.
OutOfBounds(op) ==
  \/ Class(op) = 2 /\ ~Holds(STACK, CallSlot)
  \/ Stores(op) /\ ~Holds(RAM, FromI(StoreSize(op)))
  \/ Class(op) = 13 /\ \E sprite \in Sprites(op) :
                          ~(Put(Row(op), Col(op), sprite) \subseteq Cells)

WildWrite(op) == OutOfBounds(op) /\ UNCHANGED <<registers, timers, memories>>

\* One instruction, op, from the tick of the timers to the end of the switch.
Cycle(op) ==
  /\ phase = "cpu"
  /\ \/ Execute(op) /\ phase' = IF Prints(op) THEN "print" ELSE "press"
     \/ WildWrite(op) /\ phase' = "wild"
  /\ UNCHANGED keyboard

runCPU == \E op \in readRAM16(RegisterPC) : Cycle(op)

=============================================================================
