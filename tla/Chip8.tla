------------------------------- MODULE Chip8 -------------------------------
(***************************************************************************)
(* The firmware's main program: main.c initialises the machine once        *)
(* (Chip8.c, initChip8) and then alternates a poll of the buttons with one *)
(* instruction for ever (runChip8).  Holding Select, A and B resets the    *)
(* processor at any moment (Top_template.sv), after which its start-up     *)
(* code clears every static variable and calls main again.                 *)
(***************************************************************************)
EXTENDS CPU

CONSTANTS
  ROM,            \* id -> [data : 0..size-1 -> Byte, keypad : Key -> masks]
  NumOfROMs,      \* entries of ROM, numbered from 0: 4 in the code
  Switches,       \* the positions the board's switches may be in
  Chip8Fonts,     \* the font table, 0..79 -> Byte
  OffsetProgram   \* where programs start: 512 in the code

ASSUME Chip8Assumption ==
  /\ NumOfROMs \in Nat \ {0} /\ DOMAIN ROM = 0..(NumOfROMs - 1)
  /\ Switches \subseteq Word /\ Switches # {}
  /\ OffsetProgram \in Word
  /\ \A a \in DOMAIN Chip8Fonts :
       Chip8Fonts[a] \in Byte /\ OffsetFont + a \in RamAddress
  /\ \A id \in DOMAIN ROM :
       /\ \A a \in DOMAIN ROM[id].data :
            ROM[id].data[a] \in Byte /\ OffsetProgram + a \in RamAddress
       /\ ROM[id].keypad \in [Key -> Byte]

VARIABLE switches   \* read once, by initChip8

vars == <<registers, timers, memories, keyboard, phase, switches>>

\* The ROM table's entry for the switches, the first one when they name none.
getROM(id) == ROM[IF id < NumOfROMs THEN id ELSE 0]

Init ==
  /\ RegisterV = [r \in Reg |-> 0] /\ RegisterI = 0 /\ RegisterPC = 0
  /\ RegisterSP = 0 /\ RegisterDT = 0 /\ RegisterST = 0
  /\ RAM = ZeroRAM /\ STACK = ZeroSTACK
  /\ DisplayData = {}
  /\ Keypad = NoKeys /\ KeyMap = NoKeys
  /\ phase = "boot"
  /\ switches \in Switches

\* memset(RegisterV, 0, 0xF) leaves the last register alone.
initCPU ==
  /\ RegisterV' = [r \in Reg |-> IF r < 15 THEN 0 ELSE RegisterV[r]]
  /\ RegisterI' = 0
  /\ RegisterPC' = OffsetProgram
  /\ RegisterSP' = 0 /\ RegisterDT' = 0 /\ RegisterST' = 0

\* Between the two messages of main.c.
initChip8 ==
  /\ phase = "boot" /\ phase' = "print"
  /\ initCPU
  /\ \E rom \in {getROM(switches)} :
       /\ RAM' = [a \in DOMAIN RAM |->
                    initRAM(initRAM(RAM[a], a, OffsetFont, Chip8Fonts),
                            a, OffsetProgram, rom.data)]
       /\ KeyMap' = rom.keypad
  /\ Keypad' = NoKeys
  /\ DisplayData' = {}
  /\ UNCHANGED <<STACK, switches>>

pollButtons ==
  /\ phase = "press" /\ phase' = "cpu"
  /\ processPress
  /\ UNCHANGED <<registers, timers, memories, switches>>

\* The write of a message ends: that of main.c before the event loop, or of an
\* instruction.  With the small driver it waits for room in the FIFO of the
\* UART, which only a host that reads makes: it may never end.
Printed ==
  /\ phase = "print" /\ phase' = "press"
  /\ UNCHANGED <<registers, timers, memories, keyboard, switches>>

runInstruction == runCPU /\ UNCHANGED switches

runChip8 == pollButtons \/ runInstruction

\* The switches stay: moving them and then resetting starts the behaviour of
\* another initial state.
Reset ==
  /\ phase # "boot" /\ phase' = "boot"
  /\ RegisterV' = [r \in Reg |-> 0] /\ RegisterI' = 0 /\ RegisterPC' = 0
  /\ RegisterSP' = 0 /\ RegisterDT' = 0 /\ RegisterST' = 0
  /\ RAM' = ZeroRAM /\ STACK' = ZeroSTACK
  /\ DisplayData' = {}
  /\ Keypad' = NoKeys /\ KeyMap' = NoKeys
  /\ UNCHANGED switches

Next == initChip8 \/ runChip8 \/ Printed \/ Reset

Spec == Init /\ [][Next]_vars

\* The loop of main.c is never left, and every step of it ends but those that
\* write to the UART: Printed, and initChip8, which a message precedes.
FairSpec == Spec /\ WF_vars(runChip8)

-----------------------------------------------------------------------------

\* Every variable stays within its C type and every array keeps its extent.
TypeOK ==
  /\ RegisterV \in RegisterFile
  /\ RegisterI \in Word /\ RegisterPC \in Word
  /\ RegisterSP \in Byte /\ RegisterDT \in Byte /\ RegisterST \in Byte
  /\ RAM \in [RamAddress -> Byte] /\ STACK \in [StackAddress -> Byte]
  /\ DisplayData \subseteq Cells
  /\ Keypad \in [Key -> {0, 1}] /\ KeyMap \in [Key -> Byte]
  /\ phase \in {"boot", "press", "cpu", "print", "wild"}
  /\ switches \in Switches

-----------------------------------------------------------------------------
(* Keys and timers. *)

\* At any moment the keypad shows the buttons of ONE poll: a key without a
\* button never reads as pressed, two keys sharing a button never disagree, and
\* no press of an earlier poll, or from before a reset, survives (Keyboad.c
\* 24-59, Chip8.c 40-41).
KeypadFollowsMap ==
  \E pressed \in Presses \cup {{}} :
    \A k \in Key : Keypad[k] = 1 <=> KeyMap[k] \in pressed

\* A program waiting in Fx0A.
AwaitsKey == \E op \in readRAM16(RegisterPC) : Class(op) = 15 /\ KK(op) = 10

\* If polls keep finding a mapped button held, Fx0A cannot hold the program
\* back for ever: the press is taken by the very instruction after the poll
\* (CPU.c 215-225).
HeldKeyEndsWait ==
  []<>(phase = "cpu" /\ PressedKeys # {}) => []<>(~AwaitsKey)

\* The program stands in a write to the UART, for want of a host that reads.
UartBlocks == <>[](phase = "print")

\* Unless the program reloads it again and again, a timer runs down to 0, also
\* while the program waits for a key, or hangs: an undefined opcode executed
\* over and over ticks the timers, but with a message each time for the classes
\* 0xE and 0xF, so only as long as the host takes these (CPU.c 70, 203-205,
\* 273-275, 486-496).
TimersDrain ==
  \/ UartBlocks
  \/ /\ []<>(RegisterDT = 0) \/ []<><<RegisterDT' > RegisterDT>>_vars
     /\ []<>(RegisterST = 0) \/ []<><<RegisterST' > RegisterST>>_vars

\* The next word lies in RAM, so readRAM16 can give one value only.
PCInRAM == Holds(RAM, {RegisterPC, RegisterPC + 1})

\* A machine on an undefined opcode.
Hangs ==
  /\ phase \in {"press", "cpu", "print"} /\ PCInRAM
  /\ \A op \in readRAM16(RegisterPC) : Undefined(op)

\* Nothing but a reset ends a hang: the opcode, the program counter, the
\* picture and the registers stay as they are (CPU.c 130-170, 204-206, 273-275).
HangsForGood ==
  [][Hangs => \/ phase' = "boot"
             \/ (Hangs' /\ UNCHANGED <<registers, memories>>)]_vars

-----------------------------------------------------------------------------
(* Memory and screen. *)

\* What Fx33 or Fx55 stores is what Fx65 or DRW would load from I next, the
\* three bytes of Fx33 spell Vx in decimal, and no other byte of RAM changes
\* (CPU.c 246-272).
StoresRoundTrip ==
  [][\A op \in readRAM16(RegisterPC) :
       phase = "cpu" /\ PCInRAM /\ phase' = "press" /\ Stores(op) =>
         /\ LoadsFromI(StoreSize(op))' = {Stored(op)}
         /\ \A a \in RamAddress \ FromI(StoreSize(op)) : RAM'[a] = RAM[a]
         /\ KK(op) = 51 => LET digit(i) == RAM'[AtI(i)]
                          IN  RegisterV[X(op)] =
                                100 * digit(0) + 10 * digit(1) + digit(2)]_vars

\* The sprite of op at its position, as CHIP-8 draws it: one cell per on bit.
OnScreen(op) ==
  Row(op) + N(op) <= DISPLAY_HEIGHT /\ Col(op) + 8 <= DISPLAY_WIDTH
SpriteBits(op) ==
  {p \in (0..(N(op) - 1)) \X BitIndex : Bit(RAM[RegisterI + p[1]], 7 - p[2]) = 1}
SpriteCells(op) ==
  {Flat(Row(op) + p[1], Col(op) + p[2]) : p \in SpriteBits(op)}

\* A sprite that fits on the screen is XORed onto the picture, and VF says
\* whether it erased a pixel, although DRW draws and tests pixel by pixel
\* (CPU.c 439-457, Display.c 8-22).
DrawIsXor ==
  [][\A op \in readRAM16(RegisterPC) :
       phase = "cpu" /\ PCInRAM /\ phase' # "boot"
       /\ Class(op) = 13 /\ OnScreen(op) /\ RegisterI + N(op) <= MEMORY_RAM_SIZE =>
         /\ phase' = "press"
         /\ DisplayData' = Toggle(DisplayData, SpriteCells(op))
         /\ RegisterV'[VF] = Flag(DisplayData \cap SpriteCells(op) # {})]_vars

\* CPU.c:451, "if pixel is already on" then VF: a draw that turns a pixel of
\* the picture off reports a collision, and one that turns none off does not.
VFReportsErasure ==
  [][\A op \in readRAM16(RegisterPC) :
       phase = "cpu" /\ PCInRAM /\ phase' = "press" /\ Class(op) = 13 =>
         RegisterV'[VF] = Flag(DisplayData \ DisplayData' # {})]_vars

=============================================================================
