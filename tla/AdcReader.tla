----------------------------- MODULE AdcReader -----------------------------
(***************************************************************************)
(* How the board's buttons reach the processor.  Three machines run on one *)
(* clock: the control FSM of analog_input.sv, the bus slave of             *)
(* adc_adc_0.v, and the core of altera_up_avalon_adv_adc.v (its DE10-Lite  *)
(* branch), which reads the converted channels from the sample store.      *)
(* periphery_control.sv compares the results with thresholds.              *)
(*                                                                         *)
(* Once the core has turned it on, the sequencer runs by itself: channel   *)
(* after channel, for ever, whether or not anybody reads.  The sample      *)
(* store takes the answers slot by slot, so the core may read samples of   *)
(* two sequences, or of one that ended long before it was asked for them.  *)
(* Only the analog converter is external: the moments at which it takes a  *)
(* level and answers.                                                      *)
(*                                                                         *)
(* Beside its level, a sample carries its age: the number of requests of   *)
(* the FSM after the one for which the core read the sample.               *)
(***************************************************************************)
EXTENDS Integers, Sequences

CONSTANT PinSettings   \* what the user may do: the levels of the six pins

Channels == 0..5   \* numch = 5, and a0..a5

Level == 0..4095

ASSUME PinsAssumption == PinSettings # {} /\ PinSettings \subseteq [Channels -> Level]

Old == 2           \* a bound: two or more, or never read
Sample == [age : 0..Old, level : Level]
Grow(s) == [s EXCEPT !.age = IF @ < Old THEN @ + 1 ELSE Old]

\* The registers power up as zero.
Unread == [c \in Channels |-> [age |-> Old, level |-> 0]]

VARIABLES
  reset,       \* clocks for which the slave and the core are still in reset
  adc_state,   \* the FSM: [op, address, held]; "held" is the state named ..._r
  go,          \* the slave's request to the core
  values,      \* the samples in the slave's registers
  currState, channel, sequencer_on,   \* the core
  reading,     \* the samples in the core's registers
  taken,       \* levels the converter has taken and not yet answered
  slot,        \* the sample store: where the next answer goes
  stored,      \* the levels in its slots
  s_eop, irq,  \* a sequence has ended since the core was last done
  q, ram_rd_en_flp, readdata,   \* what the core reads, on its way
  a,           \* the samples in the outputs a0..a5
  pins         \* the levels at the pins

store == <<taken, slot, stored, s_eop, irq, q, ram_rd_en_flp, readdata>>
vars == <<reset, adc_state, go, values, currState, channel, sequencer_on, reading,
          store, a, pins>>

FsmState == [op : {"idle", "write", "read"}, address : Channels, held : BOOLEAN]

At(op, address) == [op |-> op, address |-> address, held |-> FALSE]

\* The FSM has no reset.  The reset of the other two, tied off, passes through
\* three registers that the build may power up as one or as zero.
Init ==
  /\ reset \in 0..3
  /\ adc_state = At("idle", 0)
  /\ go = FALSE
  /\ currState = "reset" /\ channel = 0 /\ sequencer_on = FALSE
  /\ values = Unread /\ reading = Unread /\ a = Unread
  /\ taken = <<>> /\ slot = 0 /\ stored = [c \in Channels |-> 0]
  /\ s_eop = FALSE /\ irq = FALSE
  /\ q = 0 /\ ram_rd_en_flp = FALSE /\ readdata = 0
  /\ pins \in PinSettings

-----------------------------------------------------------------------------
(* The wires between the machines. *)

adc_write == adc_state.op = "write"
adc_read == adc_state.op = "read"
done == currState = "done"

\* auto_run is never set: the FSM writes zero to address 1.
waitrequest == (adc_write /\ done) \/ (adc_read /\ go)

\* Samples that are kept age when a conversion is asked for.
Kept(samples) ==
  IF ~go /\ go' THEN [c \in Channels |-> Grow(samples[c])] ELSE samples

-----------------------------------------------------------------------------
(* The control FSM: write 0, write 1, read 0, ..., read 5, and again. *)

\* Mutant of NextAddress: only the first round asks for a conversion.
NextAddress_NoWrite(s) ==
  IF s.op = "write" THEN IF s.address = 0 THEN At("write", 1) ELSE At("read", 0)
  ELSE IF s.address < 5 THEN At("read", s.address + 1) ELSE At("read", 0)

NextAddress(s) ==
  IF s.op = "write" THEN IF s.address = 0 THEN At("write", 1) ELSE At("read", 0)
  ELSE IF s.address < 5 THEN At("read", s.address + 1) ELSE At("write", 0)

\* A state without _r is left at once; READ_2_r has another way to wait.
adc_next_state ==
  IF adc_state.op = "idle" THEN At("write", 0)
  ELSE IF ~adc_state.held THEN [adc_state EXCEPT !.held = TRUE]
  ELSE IF ~waitrequest THEN NextAddress(adc_state)
  ELSE IF adc_state.op = "read" /\ adc_state.address = 2
       THEN [At("read", 0) EXCEPT !.held = TRUE]
  ELSE adc_state

\* The word on the bus is kept whenever the slave does not make the FSM wait.
Capture ==
  a' = [c \in Channels |-> IF adc_read /\ ~waitrequest /\ adc_state.address = c
                           THEN values[c] ELSE Kept(a)[c]]

-----------------------------------------------------------------------------
(* The slave and the core. *)

\* A write to address 0 is the request; a conversion that is done takes it back.
Go == go' = (reset = 0 /\ ~done /\ (go \/ (adc_write /\ adc_state.address = 0)))

\* Mutant of Values: the registers are loaded when the conversion ends, before
\* the core has read it.
Values_OnIrq == values' = IF currState = "pending" /\ irq THEN reading ELSE Kept(values)

Values == values' = IF done THEN reading ELSE Kept(values)

NextState ==
  IF reset > 0 THEN "reset"
  ELSE CASE currState = "reset" -> "idle"
         [] currState = "idle" -> IF ~go THEN "idle"
                                  ELSE IF sequencer_on THEN "pending" ELSE "turnOn"
         [] currState = "turnOn" -> "pending"
         [] currState = "pending" -> IF irq THEN "read" ELSE "pending"
         [] currState = "read" -> IF channel <= 5 THEN "read" ELSE "done"
         [] currState = "done" -> "idle"

NextChannel ==
  CASE currState \in {"idle", "reset"} -> 0
    [] currState = "read" -> channel + 1
    [] OTHER -> channel

\* The word of slot c is on its way for two clocks, so it is taken at channel
\* c + 2.  Channel 5's arrives at the clock that loads values, which misses it.
Read == reading' = [c \in Channels |->
                      IF currState \in {"read", "done"} /\ channel = c + 2
                      THEN [age |-> 0, level |-> readdata]
                      ELSE Kept(reading)[c]]

Core ==
  /\ currState' = NextState
  /\ channel' = NextChannel
  /\ sequencer_on' = (reset = 0 /\ (sequencer_on \/ currState = "turnOn"))
  /\ Read

(* The sequencer, the converter and the sample store. *)

\* The answers come in the order of the slots, 0 to 5 and again, and lag one
\* conversion behind (altera_modular_adc_control_fsm.v 877-893).
Pipeline == 2
NextSlot == IF slot = 5 THEN 0 ELSE slot + 1

\* The converter takes the level of the next channel.
TakeLevel ==
  /\ sequencer_on /\ Len(taken) < Pipeline
  /\ taken' = Append(taken, pins[(slot + Len(taken)) % 6])
  /\ s_eop' = (s_eop /\ ~done)
  /\ UNCHANGED <<slot, stored>>

\* Mutant of Answer: an answer goes into the slot after its own.
Answer_Off ==
  /\ taken # <<>>
  /\ taken' = Tail(taken)
  /\ stored' = [stored EXCEPT ![NextSlot] = Head(taken)]
  /\ slot' = NextSlot
  /\ s_eop' = (slot = 5 \/ (s_eop /\ ~done))

\* Its answer is stored, over the one of the sequence before.  The last one of a
\* sequence sets s_eop, even at the clock at which the core clears it.
Answer ==
  /\ taken # <<>>
  /\ taken' = Tail(taken)
  /\ stored' = [stored EXCEPT ![slot] = Head(taken)]
  /\ slot' = NextSlot
  /\ s_eop' = (slot = 5 \/ (s_eop /\ ~done))

Pause == s_eop' = (s_eop /\ ~done) /\ UNCHANGED <<taken, slot, stored>>

\* The core reads a slot: out of the memory, then into readdata.  Slot 6, which
\* it reads as well, is never written.
Reply ==
  /\ irq' = s_eop
  /\ ram_rd_en_flp' = (currState = "read")
  /\ q' = IF currState # "read" THEN q
          ELSE IF channel \in Channels THEN stored[channel] ELSE 0
  /\ readdata' = IF ram_rd_en_flp THEN q ELSE 0

SampleStore == (TakeLevel \/ Answer \/ Pause) /\ Reply

-----------------------------------------------------------------------------

\* A stick or a pair of buttons on one channel, and a button that pulls its
\* channel low.  At 12'hCFF itself neither half of a pair is pressed.
Pair(level, high, middle) ==
  IF level > 3327 THEN {high}
  ELSE IF level < 3327 /\ level > 1535 THEN {middle} ELSE {}
Low(level, button) == IF level < 2048 THEN {button} ELSE {}

\* What periphery_control.sv reports for the levels l of the channels.
Pressed(l) ==
  Pair(l[0], "Left", "Right") \cup Pair(l[1], "Up", "Down")
    \cup Pair(l[2], "Select", "Start") \cup Low(l[3], "A") \cup Low(l[4], "B")

\* The buttons that the processor sees.
buttons == Pressed([c \in Channels |-> a[c].level])

Clock ==
  /\ reset' = IF reset > 0 THEN reset - 1 ELSE 0
  /\ adc_state' = adc_next_state
  /\ Go /\ Capture /\ Values /\ Core /\ SampleStore
  /\ pins' \in PinSettings

\* The clock never stops, and a sequencer that is on goes on: nothing but a word
\* with bit 0 clear, which the core never writes, would end its run.
Spec == Init /\ [][Clock]_vars
FairSpec == Spec /\ WF_vars(Clock) /\ WF_vars(Clock /\ taken' # taken)

-----------------------------------------------------------------------------

TypeOK ==
  /\ reset \in 0..3
  /\ adc_state \in FsmState
  /\ adc_write => adc_state.address \in {0, 1}
  /\ currState \in {"reset", "idle", "turnOn", "pending", "read", "done"}
  /\ go \in BOOLEAN /\ sequencer_on \in BOOLEAN
  /\ channel \in 0..7
  /\ values \in [Channels -> Sample] /\ reading \in [Channels -> Sample]
  /\ a \in [Channels -> Sample]
  /\ taken \in Seq(Level) /\ Len(taken) <= Pipeline
  /\ slot \in Channels /\ stored \in [Channels -> Level]
  /\ s_eop \in BOOLEAN /\ irq \in BOOLEAN
  /\ q \in Level /\ ram_rd_en_flp \in BOOLEAN /\ readdata \in Level
  /\ pins \in PinSettings

\* The slave makes the FSM wait for the first channel only: the core is ready
\* for every request, and a conversion that is done serves all the reads.  So
\* READ_2_r never takes its way back to READ_0_r (analog_input.sv:172), the one
\* state that would leave its address when it has to wait.
WaitsOnlyForChannel0 ==
  waitrequest => adc_read /\ adc_state.address = 0

\* A round of the FSM ends.
RoundEnds == adc_state.op = "read" /\ adc_state.address = 5 /\ adc_state'.op = "write"

\* When a round ends, the channels 0..4 are what the core read for the request of
\* this round: none was passed on early, late or twice (analog_input.sv 32-52
\* against adc_adc_0.v 71-114).  The very first request may be lost in the reset,
\* and that round then reads registers nothing was loaded into.
Fresh ==
  [][RoundEnds => (reading = Unread) \/ \A c \in 0..4 : a'[c].age = 0]_vars

\* Rounds end again and again.  Channel 5, the wheel, is then one request
\* behind, since values is loaded at the clock at which reading5 is
\* (altera_up_avalon_adv_adc.v 287-310 against adc_adc_0.v 104-114).
RoundsForever ==
  []<>(/\ adc_state = At("write", 0)
       /\ \A c \in Channels : a[c].age = IF c = 5 THEN 1 ELSE 0)

\* Buttons that the user holds or leaves alone are seen as they are in the end,
\* each at its own channel, although the store is overwritten while it is read: no
\* earlier press survives in a slot or a register of the path (sample_store.v
\* 155-227, altera_up_avalon_adv_adc.v 287-310, analog_input.sv 32-52).
ButtonsSettle ==
  \A p \in PinSettings : <>[](pins = p) => <>[](buttons = Pressed(p))

=============================================================================
