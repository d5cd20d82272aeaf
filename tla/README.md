# TLA+ models of vCHIP-8

vCHIP-8 is a CHIP-8 console on a MAX 10 FPGA board.  A NIOS II/e processor runs
an interpreter written in C (`src/software/vChip8-Software`) on the HAL library
of its board support package (`src/software/vChip8-Software_bsp`).  Logic around
it, in SystemVerilog and Verilog, reads the buttons through an A/D converter,
keeps the picture and scans it to a VGA screen and an LCD.  This directory holds
the TLA+ modules of that system, the TLC configurations that check them on small
instances, and theorems that TLAPS checks for all instances.

Line numbers refer to the files under `src/`.  `CPU.c`, `Memory.c`, `Display.c`,
`Keyboad.c`, `Chip8.c`, `ROM.c` and `main.c` are those of
`src/software/vChip8-Software/`; the `alt_*` files are those of
`HAL/src`, `HAL/inc` and `drivers/src` of the board support package.
`PROJECT.json` maps every definition that models code to its lines.

## 1. The system

```
  pins -> converter, store -> core -> slave -> control FSM -> thresholds -> buttons PIO
                                                                        |
   switches PIO ---------------------------------------------> NIOS II/e: main.c
                                                               Chip8.c -> Keyboad.c
   host <- JTAG UART <- stdio, log, time, profiler, heap               -> CPU.c -> Memory.c
           (interrupts,     (the HAL library)                                  -> Display.c
            alarms)                                                     |
   VGA <- scan <----- picture memory (Video_Buffer) <------- command word PIO
   LCD <- lcd_ctrl <-/
```

| Component | State | Operations | How it meets the others |
|---|---|---|---|
| CPU (`CPU.c`) | `RegisterV`, `RegisterI`, `RegisterPC`, `RegisterSP`, two timers | `initCPU`; `runCPU`: tick the timers, fetch, decode, execute one of 35 instructions | calls Memory, Display and Keyboard |
| Memory (`Memory.c`) | `RAM`, `STACK`, two byte arrays | 8- and 16-bit reads and writes, `initRAM`; nothing is bounds-checked | called by CPU and Chip8 |
| Display (`Display.c`) | `DisplayData`, a shadow of the picture | `putPixel`, `getPixel`, `clearDisplay` | writes a command word to a port for each change |
| Keyboard (`Keyboad.c`) | `Keypad`, 16 keys, and the button of each | `processPress`, `initPress`, `getKey` | reads the buttons' port |
| Main loop (`main.c`, `Chip8.c`), ROM table | where the loop stands | `initChip8`, then a poll and an instruction for ever | Select, A and B together reset the processor (`Top_template.sv:257`) |
| Picture memory (`Video_Buffer.sv`) | `buffer`, 64 x 32 bits; three level registers | at EVERY clock, obeys the word on the port; reads a cell for the scan | no strobe, no acknowledgement, no reset of the buffer |
| Scan (`vga_controller.v`) | two counters, registered syncs and coordinates | one pixel clock | gives the coordinates to the picture memory and to the LCD |
| LCD (`lcd_ctrl.sv`, `lcd_cmd.v`, `Screens_dispaly.sv`) | two state machines, a counter, an address | a table of commands, then two bytes per pixel | follows the scan on a clock four times as fast |
| Analog input (`analog_input.sv`, `adc_adc_0.v`, `altera_up_avalon_adv_adc.v`, `altera_modular_adc_*.v`), periphery control | three state machines, the sample store, three stages of sample registers | one clock each; thresholds to eight buttons and a wheel | request and wait lines, the converter's interrupt line |
| JTAG UART (driver, `vChip8_uart.v`) | two ring buffers, two FIFOs, `irq_enable`, `host_inactive` | `read`, `write`, `close`, `ioctl`, the interrupt handler, the timeout alarm | handler, alarm, thread and host interleave |
| Interrupts (HAL) | status bit, `IENABLE`, tables of handlers, `alt_irq_active`, `alt_priority_mask` | dispatch, register, enable, disable, critical sections, interruptible handlers | carries every other handler |
| Alarms (HAL) | `alt_nticks`, a circular list | `alt_tick`, `alt_alarm_start`, `alt_alarm_stop`, callbacks | the clock's handler walks the list the thread changes |
| Files and devices (HAL) | `alt_fd_list`, device and file system lists, `alt_max_fd` | open, close, read, write, lseek, stat, fstat, fcntl, ioctl, isatty, redirection | calls drivers, which may fail |
| Profiler, heap (HAL) | arcs by caller, slabs, the end of the heap | `mcount`, `mcount_record`, the sampler, `sbrk` | handlers are profiled as well |
| Time, log, printing (HAL) | tick rate and offset; log level and countdown | `gettimeofday`, `settimeofday`, `times`, `usleep`; messages; two printf functions | tick counter; UART |
| Start and end (HAL) | which parts are up | `alt_load`, `alt_main`, constructors, `exit`, `kill` | runs `main` |

What the shipped build takes from the library: `public.mk` builds with direct
drivers, small drivers, no exit and no C++ (`ALT_USE_DIRECT_DRIVERS`,
`ALT_USE_SMALL_DRIVERS`, `ALT_NO_EXIT`, `ALT_NO_CLEAN_EXIT`,
`ALT_NO_C_PLUS_PLUS`), without an operating system, and `system.h` has no
system clock.  So on the board the UART is polled, `read` and `write` go to the
device for descriptors 0 to 2, and no interrupt is taken.  The interrupt-driven
driver, the pool of descriptors, alarms, profiler and log are the library's
other settings, which the same sources compile to; the models keep the settings
as constants or as a choice of the initial state, and include the shipped ones.

Hard behaviours: the button poll interleaves with instructions, and a key wait
is a loop through both; a reset may come between any two steps, also in the
middle of a draw; firmware and picture memory run side by side over a port
without a strobe; three clocks of different rates share the coordinates of the
scan; three state machines and a converter of unknown speed share a bus; a
handler, a thread, an alarm and a host share two ring buffers; handlers
interrupt handlers, also in the middle of a walk through a list; an open that
fails half-way, a profiler that is profiled; indices and counters are 4 to 32
bits wide, roll over and are not checked.

## 2. What makes each part correct

* CPU: calls and returns nest; the flags are those of the operands before the
  instruction; a hang changes nothing; the timers run down; what is stored is
  what is loaded.
* Display: a draw is a XOR of the whole sprite and reports a collision exactly
  if it erased a pixel.
* Keyboard: the keypad is a picture of ONE poll; a held key ends a wait.
* Picture memory with the firmware: the screen shows what the firmware believes
  it shows, at any relative timing of the two, through resets.
* Scan and LCD: every pixel once per frame and in order, on both; pulses only
  while blanked; the level is that of the cell a known number of pixels back.
* Analog input: the machines wait for each other without a deadlock; the samples
  a round hands out are of the conversion that the round asked for.
* JTAG UART: each direction is one queue; nobody waits for an interrupt that is
  off; every call comes back.
* Interrupts: a critical section holds; only the more urgent interrupt, and only
  those that allow it; the urgent are served.
* Alarms: each fires on its tick across roll-over, whoever starts and stops what
  in between; calls act as one step between ticks.
* Files: no descriptor leaks or is shared; a lock is lost only with its holder.
* Profiler and heap: no block is handed out twice; calls are counted.
* Time, log, printing: time agrees with the ticks; the log loses at most what
  interleaved; numbers survive being printed.
* Start: code runs only in an environment that is complete.

`PROJECT.json` lists under `hazards` where the code could miss these.

## 3. Modules

| Module | Models | Remarks |
|---|---|---|
| `Bytes` | the C integer types, bits of a byte | stores into `uint8_t` and `uint16_t`; bitwise operators by bits, so that they can be proved about |
| `Alu` | the arithmetic helpers of `CPU.c` | functions from register file to register file, each in the order of its assignments: an operand may be VF |
| `Arrays`, `Memory` | `Memory.c` | a read outside an array gives any byte of `Garbage` |
| `Display` | `DisplayData` | the set of lit flat positions; `putPixel` does not wrap columns, `getPixel` does |
| `Keyboard` | `Keyboad.c` | a poll reads any set of `Presses` |
| `CPU` | `runCPU` | one action per instruction; a write outside an array ends the modelled machine in phase "wild", because nothing is known of its memory afterwards |
| `Chip8` | `main.c`, `Chip8.c`, reset | the firmware's specification; `initChip8`, `pollButtons`, `runInstruction`, `Reset` are its actions |
| `CallStack` | history variables on `Chip8` | outstanding calls, and a RET without one; they constrain nothing |
| `Programs` | the ROM tables of the runs | programs of four words |
| `VideoPath` | the firmware's draws, the port, the write half of `Video_Buffer.sv` | a draw is one action per pixel, interleaved with clocks and resets |
| `Screen` | abstract | what a display promises; `VideoPath` implements it |
| `VgaSync` | `vga_controller.v` | one action, the pixel clock |
| `Lcd` | `Screens_dispaly.sv`, `lcd_ctrl.sv`, `lcd_cmd.v`, the read half of `Video_Buffer.sv` | EXTENDS `VgaSync`; one step is an edge of the 100 MHz clock, and the slower clocks rise with every fourth and eighth; the panel is external and only latches |
| `AdcReader` | analog input and periphery control | one action, the clock of three machines and of the sample store, which a sequencer that never stops overwrites slot by slot; of the converter only the analog block is external: it takes a level and answers at any clock |
| `JtagUart` | the driver, both versions, and the device | a handler runs to its end before the thread's next step, a host moves at any time; `config` is the build |
| `Stream` | abstract | a byte channel: two queues; `JtagUart` implements it |
| `Irq` | dispatcher, registration, critical sections, nesting | a bit mask is a set of numbers; `frames` is the stack of activations |
| `Alarms` | `alt_tick.c`, `alt_alarm_start.c`, `alt_llist.h` | the walk is a step per alarm; `due` and `stranded` are history |
| `Kernel` | `Irq` and `Alarms` composed | the clock's handler walks, may be interrupted, and the thread starts alarms in two steps; implements `Alarms` with calls as one step |
| `HalFiles` | the pool, devices, file systems and the calls on them | a driver's callback may fail; an answer is what a call returns and what it leaves in `errno`; the direct build's calls stand beside the pool's |
| `Heap`, `Profile` | `alt_sbrk.c`; `alt_mcount.S`, `alt_gmon.c` | `mcount` by steps, with calls of handlers in between |
| `TimeOfDay`, `Log`, `Printing`, `Boot` | the files they are named for | `Log` by character, with messages breaking in; `Printing` as pure operators |
| `MC...` | instances for TLC | `MCChip8`, `MCCallStack`, `MCSelfTest` (with the data of ROM 0), `MCVideoPath`, `MCAdcReader`, `MCLcd`, `MCJtagUart`, `MCKernel`, `MCHalFiles`, `MCServices` (the units that do not meet, and the pure functions) |
| `...Proofs` | theorems | `Chip8Proofs` (and its calls), `VideoPathProofs`, `AdcProofs`, `LcdProofs` (and the scan), `JtagUartProofs`, `KernelProofs` (and its alarms), `HalFilesProofs`, `ServicesProofs` (`MCServices` and its units) |

Choices worth knowing:

* One instruction is one atomic action in `Chip8`.  The firmware is a single
  thread without interrupts, so only a reset can come in between, and it clears
  everything an instruction writes except the picture memory.  That case, and
  the interleaving of a draw with the clock of the picture memory, is
  `VideoPath`, where a draw is a sequence of actions.
* A message is a step of its own (`Printed`, phase "print") after the instruction
  or the start-up that prints it.  With the small driver the write spins until
  the FIFO has room (`altera_avalon_jtag_uart_write.c:70-72`), so without a host
  that reads, the step may never come: nothing is fair about it.
* A reset clears the static variables, since the start-up code does so before
  `main`.  `initCPU` clears 15 of the 16 registers only (`CPU.c:56`); that never
  shows, because every way to it leads through the start-up code.
* In `VideoPath`, firmware and buffer share one clock, and the processor needs
  at least six of them per instruction: a command is seen by the buffer before
  the next is written.  Without it commands are lost; the mutant
  `Write_Unpaced` shows this.
* The registers of `AdcReader` hold samples with an age, the number of
  requests of the FSM since the one for which the core read the sample, two or
  more being one value.  It says nothing of when the level was taken: the
  sequencer runs by itself (`altera_modular_adc_sequencer_csr.v:93-98`), and the
  core may read slots of two sequences.  That every level in the path is one of
  the pins' and ends up at its own channel is `ButtonsSettle`.
  The reset of the slave and the core passes through three registers whose
  power-up value depends on the build, so it may last up to three clocks, and
  the very first request may be lost; `Fresh` leaves that round out.
* `Lcd` keeps which cell a level was read from, not its colour: the properties
  are about the place.  The outputs of the machine are combinational; what the
  panel takes is what is on the bus when the write signal, seen at clock edges,
  has risen, so glitches between edges are left out.
* In `JtagUart` a thread that waits has no step of its own: waiting and finding
  nothing are the same state.  `host_inactive` is not volatile, so the build may
  read it once before the loop or at each turn; `config.hoisted` is that choice.
* A handler of the UART or of the clock's tick is a step (`JtagUart`) or a
  sequence of steps that others may interrupt (`Kernel`, `Profile`, `Log`), as
  its properties ask.
* What the constants must satisfy is named where they are declared.  Some of it
  says something of the code: the device asks for bytes only if its threshold
  lies below the depth of its FIFO (8 of 64 in `vChip8_uart.v`;
  `SizesAssumption`), and otherwise a writer could wait for an interrupt that
  never comes; every line of the scan has blanking, and there is a border below
  the picture (`LevelAssumption`: 160 clocks, and row 400 of 480), and otherwise
  `CellsLag` would have to speak of the pixel after the last.
* A callback of `Alarms` may stop any alarm, the one that is next on the list
  included.  That one then points to itself (`alt_llist.h:115-116`), the walk,
  which had noted it (`alt_tick.c:102`), stays there, and nothing can be said of
  ticks any more: `stranded` records it, and the properties hold up to there.
* `TimeOfDay` counts a sleep in cycles of the processor, `CpuFreq` of them to a
  microsecond and `CyclesPerLoop` to a loop, 50 and 9 on the board.
* `HalFiles` takes each call of the single-threaded library as one step and
  keeps its errors: where nothing changes, the answer is an operator.

## 4. Runs

| Run | Instance and bounds | Shows |
|---|---|---|
| `programs` | every program of four words from three lists, 11953 in all; 128 bytes of RAM, 8 of STACK, the display at its real size; reset at any point; 4.4 million states | `CallsNest`, `StoresRoundTrip`, `DrawIsXor` |
| `keys` | every program of four words from nine (waits, skips, timers, a loop, an undefined opcode); two buttons changing at every poll, messages that may wait for the host for ever; 0.7 million states | `KeypadFollowsMap`, `HangsForGood`; with fairness `HeldKeyEndsWait`, `TimersDrain` |
| `selftest` | the real sizes, fonts and ROM 0; reset at any point; the switches on entry 0 and on none | the self-test ends, with OK at all its 18 places (`SelfTestPasses`, `SelfTestEnds`) |
| `video` | overlapping figures in a corner, on the last row and column, empty, one that leaves the screen at the bottom and one that starts below it, where the row as a byte wraps | `Mirror`, `ScreenCatchesUp`; `ImplementsScreen` (refinement) |
| `adc` | three settings of the pins, changing at any clock; two levels under way in the converter, which takes and answers at any clock; 0.2 million states | `Fresh`, `RoundsForever`, `ButtonsSettle` |
| `vga` | 16 x 12 pixels with porches and pulses of different lengths, cells of 2 x 2, a counter of 32, waits of four lengths so that the set-up ends at different points of the scan; reset buttons at any time | `Raster`, `BlankInPulse`, `CellsLag`, `LcdInStep`, `LcdFramesForever` |
| `uart` | rings of 3, FIFOs of 2, threshold 1, a timeout of 2, seven builds (both drivers, with and without a clock, `hoisted` or not); calls of up to 2 bytes, waiting or not | `WakeupsArmed`, `CallsReturn`, `BytesMoveOn`; `ImplementsStream` (refinement) |
| `kernel` | two interrupts, nesting of 2, two alarms, a counter of four values, delays 0 and 2, periods 1 and 3, every callback that stops or starts one alarm; 1.0 million states | `SectionsHold`, `NestedByUrgency`, `OnTime`, `UrgentServed`, `TickReturns`; `ImplementsAlarms` (refinement) |
| `files` | five descriptors, two devices, one file system, four names, two modes | `NothingLeaks`, `LockHolds`, `DirectIsPool` |
| `services` | a heap of 160 bytes, one function called from three sites; a clock of 64 values at four rates, 50 cycles to a microsecond and 9 to a loop; three messages deep in the log; all builds; every byte as argument | `MemoryApart`, `CallsCounted`, `TimeKept`, `LogLosesLittle`, `ProgramFindsItsWorld`, `NumbersReadBack`, `ArithmeticAgrees` |
| `carry` | as `services` | violated: `Carry` |
| `edge` | screen programs | violated: `VFReportsErasure` |

Why the bounds are enough to mean something.  A program of four words can loop,
call itself, return too often, jump into the middle of itself and overwrite
itself; STACK of four words, one of them never used, overflows in the fourth
nested call, and its 8-bit pointer wraps after a RET too many.  I and the
computed jumps go beyond 128 bytes of RAM.  A screen of 16 x 12 has lines with
blanking on both sides, cells, both borders and a frame, and the address of the
table runs through both of its stops; the ratios of the clocks are the real
ones.  A ring of three fills, empties and wraps inside one call of two bytes;
FIFOs of two with a threshold of one have states with and without an interrupt.
A counter of four values rolls over while two alarms wait, one of them for
longer than is left; a nesting of two has a handler under another, and the
thread below both.  Five descriptors leave two beside the standard streams, so
opens run out of them.  The heap of the profiler runs out.  Bounds on counts
(`CallBound`, `HeapBound`, `MessageBound`, twice the counter in `services`) are
named in the modules.  `Garbage` has one value in the runs; the theorems hold
for every set.

The units of `services` come to an end (a program stops, bounds are reached), so
`services` and `carry` say `CHECK_DEADLOCK FALSE`.  Elsewhere deadlock is
checked, also in `uart`, where a thread that waits has no step: the host or the
clock always has one.

Fairness.
* `Chip8!FairSpec`: weakly for `runChip8`; `main.c` loops for ever and nothing
  preempts it.  Not for `Printed` nor for `initChip8`, which a message precedes:
  a write may wait for the host for ever, and `TimersDrain` and `SelfTestEnds`
  except such a behaviour (`UartBlocks`).  So a program that hangs on an opcode
  of class 0xE or 0xF ticks its timers only as long as somebody reads its
  messages.  Nobody has to press a button or to reset;
  `HeldKeyEndsWait` has the press as its premise, and `SelfTestEnds` and
  `ScreenCatchesUp` except behaviours with resets for ever.
* `VideoPath`: the clock ticks and a draw or clear that has begun goes on; a
  program need not draw.  `AdcReader`: the clock ticks and a sequencer that
  is on goes on taking levels and answering (`altera_modular_adc_sequencer_ctrl.v:244-268`:
  nothing clears `run`).  `MCLcd`: the clocks do not stop.
* `JtagUart`: a pending interrupt is taken, an alarm that is due fires, a thread
  that can go on does.  Nothing is asked of the host: the properties name what it
  has to do as a premise.
* `Kernel`: the processor goes on, no more; who is served is the code's doing.
  `UrgentServed` has as its premise that the thread leaves its critical sections
  again and again, `TickReturns` that more urgent interrupts fall silent; both
  except a walk that is stray, at an alarm that a callback took off the list.

Every property of a passing run has a mutant of the modelled code under which
TLC finds it violated; the mutated definitions stand beside the originals.

## 5. What the models found

With a run:

* `ADD` computes the carry from the sum already stored (`CPU.c:359-360`), while
  `CPU.c:356` says "VF = 1 if carry": 255 + 1 leaves VF = 0 (`carry`).  The theorem
  `CarryLooksTwice` says how far this goes: the sum is right, and so is VF if and
  only if a + 2b is below 256, or a + b reaches 256 and a + 2b reaches 512; a
  register added to itself is right below 64 and from 192.
* `putPixel` (`Display.c:10`) does not wrap columns while `getPixel`
  (`Display.c:21`) does, so a draw across the right edge tests one pixel and
  toggles another; VF is not what `CPU.c:449-451` say (`edge`).

Seen while modelling; the properties are stated so that they allow for it.

* Interpreter: `CALL` moves the stack pointer before it stores (`CPU.c:311-312`),
  so of the "16 16-bits addresses" of `Memory.h:7` the first is never used and
  the sixteenth nested call writes beyond STACK.  `SUB` and `SHR` overwrite VF
  before they read it as an operand (`CPU.c:402`, `410`).  A column beyond 63
  also runs into the value and operation bits of the command word
  (`Display.c:13`).
* Screens: the comparison in `vga_controller.v:58` makes the horizontal pulse 97
  clocks long, not the 96 of line 8, and the vertical one three lines.  The
  picture lags one or two pixels behind the coordinates, and the first pixel of a
  line shows the last cell of the line above (`CellsLag`).  Were the LCD's set-up
  to end exactly when the scan is at the first pixel, its pixels would be a
  quarter of a pixel late for good: TLC finds it with such a wait.  With the
  waits of the code it ends 26000084 pixel clocks after power-up, at row 475,
  column 83.
* Buttons: a level of exactly `12'hCFF` is neither half of a pair
  (`periphery_control.sv:40-45`); the wheel lags one conversion behind; A and B
  count as pressed until the first round of the converter ends.
* UART: a blocking write that finds its ring full comes back short, or with
  `-EIO`, as soon as the host has been silent for one second, whatever the
  timeout is (`altera_avalon_jtag_uart_write.c:187`), though the comment at 214
  says "Host not connected"; a write of no bytes answers `-EIO` with the host
  present.  If the compiler reads `host_inactive` once, a write or close that
  waits never notices the timeout of `altera_avalon_jtag_uart_init.c:227-229`.
  A timeout of `INT_MAX - 1` or more never comes.
* Interrupts: `alt_irq_enable` and `alt_irq_disable` do not know of the mask an
  interruptible handler has put aside; the dispatcher, entered with nothing
  pending, does not leave its loop.
* Alarms: a callback that stops the alarm the walk goes to next leaves the tick
  going round at that alarm for ever (`alt_tick.c:102`, `140`,
  `alt_llist.h:115-116`); no comment forbids it.  `OnTime`, `TickReturns` and
  `TicksVisitOnce` say what holds before and after.  Starting an
  alarm that is on the list destroys the list; 2^32 - 1 ticks are one tick.
* Files: `alt_fd_lock.c:61` looks at descriptors below `alt_max_fd` and misses
  the highest one, though lines 43-45 say any; `close` of a standard stream does
  not release its lock (45-49); before redirection a standard stream may not be
  written although `alt_dev.c:84-85` says it is safe to; `stat` of a missing name
  answers `EBADFD`; the direct `read`, `write` and `ioctl`
  hand out the driver's negative answer without `errno` (`alt_read.c:72`,
  `alt_write.c:78`), where the pool's `read` and `write` set it and return -1 and
  its `ioctl` does both; `DirectIsPool` states the correspondence.
* Profiler and heap: the sampler may be started twice (`alt_gmon.c:169-170`) or
  tried again only by new records; an increment interrupted by one of the same
  arc is lost (`alt_mcount.S:120-122`); the last bucket lies one past those that
  were counted (265-266); the -1 of `sbrk` is not checked (139, 227-229), so a
  full heap is written through.
* Time: the product in `settimeofday` overflows a word, so that the time told
  right after is not the one set, which lines 61-63 promise (`alt_settod.c:84`),
  but off by the difference of two remainders; each roll-over of the counter
  takes the clock back by a word of ticks; time steps at roll-over in other ways
  if the rate does not divide a million.  A busy sleep takes 50 cycles of a
  microsecond for 5 loops of 9 (`alt_busy_sleep.c:64-75`), so `usleep` is a tenth
  SHORT on the board; a sleep of a whole number of big loops counts a word down
  once more (99-112).
  Log: the heartbeat comes every interval + 1 ticks (`alt_log_printf.c:471`), and
  without a host the log waits for ever.  Start: `_do_dtors` runs in the same
  direction as `_do_ctors`; with `ALT_NO_EXIT`, a `main` that returns has nowhere
  to return to.

## 6. Theorems

TLAPS proves, for every value of the constants that satisfies the named
assumptions of the modules:

| Module | Theorem | Argument |
|---|---|---|
| `Chip8Proofs` | `Chip8Typing` | `TypeOK` is inductive; one lemma per group of instructions |
| | `KeysOfOnePoll` | inductive with the types: what can be pressed is a button, so a key without one is never set |
| | `UndefinedHangs` | a hanging machine is in a phase of its own, which only a reset leaves |
| | `StoresAreReadBack` | the addresses `I`, `I + 1`, ... wrap as 16-bit words but do not meet, so each store changes its own byte; the three digits of a byte are bytes and spell it |
| | `DrawsAreXor` | two bits of a sprite that fits have different flat positions, so toggling one by one is the XOR, and the read back tests the cell that was toggled |
| | `FramesStayOnStack`, `ReturnsAreNested`, `CallsFit`, `CallsAndReturnsNest` | `IInv` = types, `HistoryOK` and `FramesOnStack`.  `FramesOnStack` alone is not inductive: without the types a word need not be the one its two bytes spell, and without `HistoryOK` the boot that empties the stack could leave calls outstanding |
| `VideoPathProofs` | `VideoTyping`, `ScreenMirrors` | `Mirror` speaks of the buffer after the pending command, which makes it inductive with the types: obeying a command twice is obeying it once, and a write needs the port seen.  Assumption `ColumnsFit`: no draw crosses the right edge |
| | `DrawsWholeFigures` | the steps of `VideoPath` are steps of `Screen`: the abstract picture is the one without the pixels of a draw in progress, so its end is the abstract draw and its pixels stutter.  `DrawInv`: between draws nothing is left; during one, what has been toggled lies on the display, and the flag is raised exactly if some of it is off now.  The same assumption |
| `AdcProofs` | `AdcTyping`, `AdcWaits`, `AdcFresh` | `IInv` relates the machines: `Requested`, `Paced`, `Counted`, `Collected`, `Delivered`.  Nothing is assumed of the converter's speed, of the moments at which the store is overwritten or of the pins |
| `LcdProofs` | `VgaTyping`, `VgaRaster`, `VgaBlanking` | the coordinates are a function of the counters, except before the first clock; blanking intervals may be empty |
| | `LcdScans`, `LcdStaysInStep` | every step of `Lcd` is a step of the scan or a stutter.  Then `LcdInv`: while the table is sent, the address counts the bytes taken and its remainder by four agrees with the state of the machine; afterwards the panel's place is the scan's, quarter by quarter.  Hypothesis `StartsBetween`: the set-up does not end exactly at the first pixel |
| | `CellsLagBehind` | `LagInv`: in the first half of the slow clock the level is that of the pixel before, in the second that of the one before it; the beginning of a line follows the end of the line above, since the coordinates wait there during the blanking |
| `JtagUartProofs` | `WakeupsStayArmed`, `UartTypes` | `IInv`: besides the types, the small driver turns nothing on; what the thread has found out of a buffer stays true whatever the handler does (it only takes from the one and adds to the other); the space the handler has read is still there; an interrupt that is pending has its reason.  `WakeupsArmed` is the last conjunct: by itself it is not inductive, since what the thread or the handler does next rests on what it has read |
| | `UartImplementsStream` | a ring holds what lies between its indices, in order, wrapped or not; the indices move by one and the FIFOs by their ends, so each step of the driver, the device or the host is a step of one of the two queues of `Stream`, or none |
| `KernelProofs` | `SectionsAreHeld`, `HandlersNest`, `AlarmsAreAtomic`, `ListIsACircle`, `SharedListIsACircle`, `KernelTypes` | `IInv` = types, `SectionsHold`, `NestedByUrgency`, what the masks put aside hold, what the processor's bit means, the walk runs only in the clock's handler, and a start in progress is in a critical section.  The urgency needs the lowest bit of a set of numbers, which is the least-number principle.  The circle is that both links are inverse to each other and an alarm is off the list exactly if it points to itself |
| | `TicksVisitOnce`, `TicksVisitOnceUnderInterrupts` | from the invariant below: the set of alarms that the walk has still to visit is determined by the list, since a second one would have an alarm of least rank; a start puts its alarm where the walk does not come.  Until a walk is stranded; a visit to an alarm off the list is followed by the same visit.  This is the part of `TickReturns` that needs no fairness |
| | `AlarmTypes`, `AlarmsOnTime`, `OnTimeUnderInterrupts` | `AlarmInv`: the list is ONE circle, since an alarm has a rank that grows along it up to the head; the alarms between the walk and the head, and no others, still compare with the last round of the counter; every time is the counter plus the ticks still to wait, modulo `WORD`.  All but the circle holds while no walk is stranded.  The rank is what tells that the walk meets every alarm, and each once.  Under interrupts it follows from `AlarmsAreAtomic` |
| `HalFilesProofs` | `FilesTypes`, `NoDescriptorLeaks`, `HeldUntilReleased`, `DirectBuildAgrees` | `IInv`: every pool that a call leaves behind is well-formed: a held descriptor is a device's and lies below the mark at which searches stop, so that a later open finds it; what is open beside the standard streams is what was handed out.  Searches in lists are least indices, so the least-number principle serves for their recursion.  `DirectBuildAgrees` relates what the two builds return and leave in `errno`, error by error |
| `ServicesProofs` | `ProgramsAreAtHome` | `BootInv`: what is up at each stage, and that `exit` finds the destructors registered only after the last constructor |
| | `LogIsNearlyComplete` | `LogInv`: a message that is about to write and finds the room gone has been broken into once more than it has lost characters, and so has every message that is broken into now |
| | `TimeIsKept` | `TimeInv`: what `settimeofday` put aside is the time set minus the ticks at that moment, each part as the code computes it; the rest is quotients and remainders, with the roll-overs since and the part of the product that was lost as terms of the equation.  The sleep needs no invariant |
| | `MemoryIsApart` | `ProfileInv`: blocks lie below the end of the heap and each is taken above it; records lie in blocks and apart from what is left of the slab; nothing is wild unless the heap is exhausted.  Hypothesis `SamplesFit`: the text is whole buckets, or their number is odd so that the incomplete one falls into the padding.  Otherwise it counts in the next block (section 5) |
| | `CallsAreCounted` | `CountInv`: besides the sums, what a call in progress has found is still there, the lists only grow while it looks; the count it has loaded is not more than the present one, and of the call that nothing interrupts it is the present one, so that its store adds one.  A sum over a finite set is first shown to solve its equation and not to depend on the order |
| | `NumbersAreReadBack` | digits are the remainders of the quotients that Horner's scheme takes back; the quotients of a word reach zero within `HexDigits` divisions and those of a number within as many as it counts; fillings and sign lie before the digits.  The buffer of semihosting holds, with its pieces, what has been printed |
| | `CarryLooksTwice` | cases of two wrapped sums |
| | `BitwiseCorrect`, `SubtractionsCorrect`, `ShiftsCorrect`, `ArithmeticIsRight` | the relations of `services`, for all bytes and registers: a byte is the sum of its bits; `SUBN` compares its source with the difference already stored, and that comparison decides the same |

What is defined by recursion or summed over a set is reasoned about without
instances of the library's induction theorems: every set of numbers has a least
element, so a set of numbers that has 0 and with each its successor has all
(`AllNumbers`); so the equations of a recursive function have a solution (`Iterates`,
`SumsExist`), which is what the definition chooses.

Every argument has a non-temporal part (initial states, steps, consequence),
which the last step combines.  Assumptions are those named `...Assumption` in the
modules that declare the constants, and TLC evaluates them in the runs.

Where a theorem states a property of a run, the run has the same property on a
small instance; theorems about `MCServices` are about its units and constants,
whatever their values.

Only model-checked:

* the liveness properties, because fairness and ENABLED are out of the prover's
  reach: `HeldKeyEndsWait`, `TimersDrain`, `SelfTestEnds`, `ScreenCatchesUp`,
  `RoundsForever`, `ButtonsSettle`, `LcdFramesForever`, `CallsReturn`,
  `BytesMoveOn`, `UrgentServed`, `TickReturns`;
* `SelfTestPasses`, a statement about one run of the data of ROM 0, which a proof
  would repeat instruction by instruction.

No module uses a RECURSIVE operator.

## 7. Not modelled

* The games in the ROM table (`ROM.c` 39-329): their states are those of whole
  games.
* `CPU.sv`, `RAM.sv`: an unfinished hardware interpreter that the top level does
  not instantiate.  `seven_segment.sv`, the LEDs and pins: no state.
* The contents of the LCD's commands; the states of `lcd_ctrl.sv` that no state
  leads to; glitches of combinational signals.
* Of the board support package: DMA, flash and caches, which the system does not
  have; the stubs that answer `ENOSYS`; the assembly entries (`crt0.S`, saving
  and restoring registers); the branches for uC/OS-II, for a separate exception
  stack and for `IGNORE_FIFO_FULL_ERROR`; the vectored interrupt controller;
  texts of the log and its dump of bytes.
* The generated NIOS II system, the PLLs and the analog block of the converter,
  with the states of its control FSM.  What the
  modelled code sees of them is in the models (`rand()`, the ports, the clocks
  and their ratios, the start-up code, the converter, the FIFOs of the UART).

## 8. What is left

1. More safety halves of the liveness properties, as `TicksVisitOnce` is one: a
   measure that falls while the device, the handler and the host of the UART pass
   bytes on, and one for the waits of critical sections.
2. `FairSpec` of `VideoPath` implements a `Screen` that catches up; only its
   safety half is proved.
3. The games of the ROM table, each a run of its own with the sizes of `programs`
   cut down to it.

## 9. Running

```
tlc -workers 2 -config programs.cfg MCCallStack
tlc -workers 2 -config uart.cfg MCJtagUart
tlapm KernelProofs.tla
```

`PROJECT.json` names the module and the configuration of every run.
