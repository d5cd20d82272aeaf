----------------------------- MODULE AdcProofs -----------------------------
(***************************************************************************)
(* The three machines that read the buttons stay in step, whenever the     *)
(* converter answers and whatever the user does with the pins: the FSM     *)
(* waits for the first channel only, and a round collects the samples that *)
(* the core read for its request.                                          *)
(***************************************************************************)
EXTENDS AdcReader, TLAPS

\* The first request met the reset: nothing has been read.
Lost == reading = Unread

InReset == reset > 0 => ~go /\ currState = "reset" /\ Lost

Busy == currState \in {"turnOn", "pending", "read", "done"}

\* A request is outstanding from the write of address 0 to the read of it.
Requested ==
  go => \/ adc_write /\ (adc_state.held \/ adc_state.address = 1)
        \/ adc_read /\ adc_state.address = 0

\* The core works on a request only, and the FSM reaches its first read before
\* the core has counted to the second channel.
Paced ==
  /\ Busy => go
  /\ adc_state.op = "idle" => ~Busy
  /\ adc_write /\ adc_state.address = 0 => ~Busy
  /\ adc_write /\ adc_state.address = 1 =>
       /\ currState # "done"
       /\ currState = "read" => adc_state.held /\ channel = 0

Counted ==
  /\ currState \in {"turnOn", "pending"} => channel = 0
  /\ currState = "read" => channel \in 0..6
  /\ currState = "done" => channel = 7

\* What the core has read since the request.
Collected ==
  \A c \in 0..4 : \/ currState = "read" /\ c + 2 < channel
                  \/ currState = "done"
                  => reading[c].age = 0

\* What the FSM finds in the slave, and what it has passed on.
Delivered ==
  ~go =>
    /\ adc_write /\ (adc_state.held \/ adc_state.address = 1) => Lost
    /\ adc_read => \/ Lost
                   \/ \A c \in 0..4 : /\ values[c].age = 0
                                      /\ c < adc_state.address => a[c].age = 0

Control == InReset /\ Requested /\ Paced /\ Counted
IInv == TypeOK /\ Control /\ Collected /\ Delivered

\* The part of TypeOK about the sequencer, the converter and the sample store.
StoreTyped ==
  /\ taken \in Seq(Level) /\ Len(taken) <= Pipeline
  /\ slot \in Channels /\ stored \in [Channels -> Level]
  /\ s_eop \in BOOLEAN /\ irq \in BOOLEAN
  /\ q \in Level /\ ram_rd_en_flp \in BOOLEAN /\ readdata \in Level

-----------------------------------------------------------------------------

LEMMA SampleFacts ==
  /\ Unread \in [Channels -> Sample]
  /\ \A s \in Sample : Grow(s) \in Sample
  /\ \A c \in Channels : Grow(Unread[c]) = Unread[c]
  <1>1. [age |-> Old, level |-> 0] \in Sample
    BY DEF Old, Sample, Level
  <1>2. ASSUME NEW s \in Sample PROVE Grow(s) \in Sample
    <2>1. s = [age |-> s.age, level |-> s.level] /\ s.age \in 0..2 /\ s.level \in Level
      BY DEF Sample, Old
    <2>2. Grow(s) = [age |-> IF s.age < 2 THEN s.age + 1 ELSE 2, level |-> s.level]
      BY <2>1 DEF Grow, Old
    <2> QED BY <2>1, <2>2 DEF Sample, Old
  <1>3. Grow([age |-> Old, level |-> 0]) = [age |-> Old, level |-> 0]
    BY DEF Grow, Old
  <1> QED BY <1>1, <1>2, <1>3 DEF Unread

LEMMA KeptType ==
  ASSUME NEW s \in [Channels -> Sample]
  PROVE  Kept(s) \in [Channels -> Sample]
  BY SampleFacts DEF Kept

\* The FSM waits for channel 0 only.
LEMMA ControlWaits ==
  ASSUME TypeOK, Requested, Paced
  PROVE  waitrequest => adc_read /\ adc_state.address = 0
  BY DEF TypeOK, Requested, Paced, waitrequest, done, adc_write, adc_read, Busy

\* The moves of the FSM, as changes of the fields of its state.
Enters(op, address, held) ==
  adc_state'.op = op /\ adc_state'.address = address /\ (adc_state'.held <=> held)

LEMMA Moves ==
  ASSUME TypeOK, Requested, Paced, Clock
  PROVE  \/ adc_state.op = "idle" /\ Enters("write", 0, FALSE)
         \/ adc_state.op # "idle" /\ ~adc_state.held
              /\ Enters(adc_state.op, adc_state.address, TRUE)
         \/ adc_read /\ adc_state.address = 0 /\ adc_state.held /\ go
              /\ Enters("read", 0, TRUE)
         \/ adc_write /\ adc_state.address = 0 /\ adc_state.held /\ Enters("write", 1, FALSE)
         \/ adc_write /\ adc_state.address = 1 /\ adc_state.held /\ Enters("read", 0, FALSE)
         \/ adc_read /\ adc_state.address < 5 /\ adc_state.held /\ ~go
              /\ Enters("read", adc_state.address + 1, FALSE)
         \/ adc_read /\ adc_state.address = 5 /\ adc_state.held /\ ~go
              /\ Enters("write", 0, FALSE)
  <1> USE DEF adc_read, adc_write
  <1>1. adc_state \in [op : {"idle", "write", "read"}, address : Channels, held : BOOLEAN]
        /\ (adc_write => adc_state.address \in {0, 1})
    BY DEF TypeOK, FsmState
  <1>2. adc_state' = adc_next_state
    BY DEF Clock
  <1>3. waitrequest => adc_read /\ adc_state.address = 0 /\ go
    BY ControlWaits DEF waitrequest
  <1>4. adc_read /\ go => waitrequest
    BY DEF waitrequest
  <1>5. CASE adc_state.op = "idle"
    BY <1>2, <1>5 DEF adc_next_state, At, Enters
  <1>6. CASE adc_state.op # "idle" /\ ~adc_state.held
    BY <1>1, <1>2, <1>6 DEF adc_next_state, Enters
  <1>7. CASE adc_state.op # "idle" /\ adc_state.held /\ waitrequest
    BY <1>1, <1>2, <1>3, <1>7 DEF adc_next_state, Enters
  <1>8. CASE adc_state.op # "idle" /\ adc_state.held /\ ~waitrequest
    <2>1. adc_state' = NextAddress(adc_state)
      BY <1>2, <1>8 DEF adc_next_state
    <2>2. CASE adc_write
      BY <1>1, <1>8, <2>1, <2>2 DEF NextAddress, At, Enters
    <2>3. CASE adc_read
      BY <1>1, <1>4, <1>8, <2>1, <2>3 DEF NextAddress, At, Enters, Channels
    <2> QED BY <1>1, <1>8, <2>2, <2>3
  <1> QED BY <1>1, <1>5, <1>6, <1>7, <1>8

-----------------------------------------------------------------------------

LEMMA InitIInv == Init => IInv
  <1> SUFFICES ASSUME Init PROVE IInv
    OBVIOUS
  <1>1. TypeOK
    <2>1. adc_state \in FsmState
          /\ (adc_write => adc_state.address \in {0, 1})
      BY DEF Init, At, FsmState, Channels, adc_write
    <2>2. values \in [Channels -> Sample] /\ reading \in [Channels -> Sample]
          /\ a \in [Channels -> Sample]
      BY SampleFacts DEF Init, Level
    <2>3. go \in BOOLEAN /\ sequencer_on \in BOOLEAN
      BY DEF Init
    <2>5. StoreTyped
      <3>1. taken = <<>> /\ slot = 0 /\ stored = [c \in Channels |-> 0] /\ ~s_eop /\ ~irq
            /\ q = 0 /\ ~ram_rd_en_flp /\ readdata = 0
        BY DEF Init
      <3>2. taken \in Seq(Level) /\ Len(taken) = 0
        BY <3>1
      <3>3. s_eop \in BOOLEAN /\ irq \in BOOLEAN /\ ram_rd_en_flp \in BOOLEAN
        BY DEF Init
      <3> QED BY <3>1, <3>2, <3>3 DEF StoreTyped, Channels, Level, Pipeline
    <2>4. reset \in 0..3 /\ channel \in 0..7 /\ pins \in PinSettings
          /\ currState \in {"reset", "idle", "turnOn", "pending", "read", "done"}
      BY DEF Init
    <2> QED BY <2>1, <2>2, <2>3, <2>4, <2>5 DEF TypeOK, StoreTyped
  <1>2. ~go /\ currState = "reset" /\ adc_state.op = "idle" /\ Lost
    BY DEF Init, At, Lost
  <1> QED BY <1>1, <1>2 DEF IInv, Control, InReset, Requested, Paced, Counted, Busy,
          Collected, Delivered, adc_write, adc_read

\* The sequencer, the converter and the sample store by themselves.
LEMMA StepStore ==
  ASSUME StoreTyped, pins \in PinSettings, Clock
  PROVE  StoreTyped'
  <1>2. pins \in [Channels -> Level]
    BY PinsAssumption
  <1>3. slot \in 0..5 /\ Len(taken) \in 0..2 /\ taken \in Seq(Level)
    <2>1. taken \in Seq(Level) /\ Len(taken) <= 2 /\ slot \in 0..5
      BY DEF StoreTyped, Channels, Pipeline
    <2>2. Len(taken) \in Nat
      BY <2>1
    <2>3. \A n \in Nat : n <= 2 => n \in 0..2
      OBVIOUS
    <2>4. Len(taken) \in 0..2
      BY <2>1, <2>2, <2>3, Zenon
    <2> QED BY <2>1, <2>4
  <1>4. NextSlot \in Channels
    BY <1>3 DEF NextSlot, Channels
  <1>5. SampleStore
    BY DEF Clock
  <1>6. /\ taken' \in Seq(Level) /\ Len(taken') <= Pipeline
        /\ slot' \in Channels /\ stored' \in [Channels -> Level] /\ s_eop' \in BOOLEAN
    <2>1. CASE TakeLevel
      <3> DEFINE c == (slot + Len(taken)) % 6
      <3>1. c \in Channels
        BY <1>3 DEF Channels
      <3>2. pins[c] \in Level
        BY <1>2, <3>1
      <3>3. taken' = Append(taken, pins[c]) /\ Len(taken) < Pipeline /\ sequencer_on
        BY <2>1 DEF TakeLevel
      <3> HIDE DEF c
      <3>4. taken' \in Seq(Level) /\ Len(taken') = Len(taken) + 1
        BY <1>3, <3>2, <3>3
      <3> QED BY <1>3, <2>1, <3>3, <3>4 DEF TakeLevel, StoreTyped, Pipeline
    <2>2. CASE Answer
      <3>1. Head(taken) \in Level /\ Tail(taken) \in Seq(Level)
            /\ Len(Tail(taken)) = Len(taken) - 1
        BY <1>3, <2>2 DEF Answer
      <3> QED BY <1>3, <1>4, <2>2, <3>1 DEF Answer, StoreTyped, Pipeline
    <2>3. CASE Pause
      BY <2>3 DEF Pause, StoreTyped
    <2> QED BY <1>5, <2>1, <2>2, <2>3 DEF SampleStore
  <1>7. irq' \in BOOLEAN /\ ram_rd_en_flp' \in BOOLEAN
    BY <1>5 DEF SampleStore, Reply, StoreTyped
  <1>8. q' \in Level /\ readdata' \in Level
    <2>1. 0 \in Level
      BY DEF Level
    <2> QED BY <1>5, <2>1 DEF SampleStore, Reply, StoreTyped
  <1> QED BY <1>6, <1>7, <1>8 DEF StoreTyped

LEMMA StepTypeOK ==
  ASSUME TypeOK, Requested, Paced, Counted, Clock
  PROVE  TypeOK'
  <1>1. /\ adc_state' \in FsmState
        /\ adc_write' => adc_state'.address \in {0, 1}
    <2>1. adc_state' = adc_next_state
          /\ adc_state \in FsmState
          /\ (adc_write => adc_state.address \in {0, 1})
      BY DEF Clock, TypeOK
    <2>2. adc_next_state \in FsmState
      <3>1. \A op \in {"write", "read"}, c \in Channels :
              At(op, c) \in FsmState
        BY DEF At, FsmState
      <3>2. NextAddress(adc_state) \in FsmState
        <4>1. adc_state.address \in 0..5
          BY <2>1 DEF Channels, FsmState
        <4>2. 0 \in Channels /\ 1 \in Channels
              /\ (adc_state.address < 5 => adc_state.address + 1 \in Channels)
          BY <4>1 DEF Channels
        <4> QED BY <3>1, <4>2 DEF NextAddress
      <3>3. \A s \in FsmState : [s EXCEPT !.held = TRUE] \in FsmState
        BY DEF FsmState
      <3>4. At("read", 0) \in FsmState
        BY <3>1 DEF Channels
      <3>5. At("write", 0) \in FsmState
        BY <3>1 DEF Channels
      <3> QED BY <2>1, <3>2, <3>3, <3>4, <3>5 DEF adc_next_state
    <2>3. adc_write' => adc_state'.address \in {0, 1}
      BY <2>1, Moves DEF Enters, adc_write, adc_read
    <2> QED BY <2>1, <2>2, <2>3
  <1>2. go' \in BOOLEAN /\ sequencer_on' \in BOOLEAN
    BY DEF Clock, Go, Core
  <1>3. StoreTyped'
    <2>1. StoreTyped /\ pins \in PinSettings
      BY DEF TypeOK, StoreTyped
    <2> QED BY <2>1, StepStore
  <1>4. reset' \in 0..3 /\ pins' \in PinSettings
    BY DEF Clock, TypeOK
  <1>5. currState' \in {"reset", "idle", "turnOn", "pending", "read", "done"}
    BY DEF Clock, Core, NextState, TypeOK
  <1>6. channel' \in 0..7
    BY DEF Clock, Core, NextChannel, TypeOK, Counted
  <1>7. values' \in [Channels -> Sample]
    BY KeptType DEF Clock, Values, TypeOK
  <1>8. reading' \in [Channels -> Sample]
    <2>1. [age |-> 0, level |-> readdata] \in Sample
      BY DEF TypeOK, Sample, Old
    <2>2. Kept(reading) \in [Channels -> Sample]
      BY KeptType DEF TypeOK
    <2> QED BY <2>1, <2>2 DEF Clock, Core, Read
  <1>9. a' \in [Channels -> Sample]
    <2>1. Kept(a) \in [Channels -> Sample] /\ values \in [Channels -> Sample]
      BY KeptType DEF TypeOK
    <2> QED BY <2>1 DEF Clock, Capture
  <1> QED BY <1>1, <1>2, <1>3, <1>4, <1>5, <1>6, <1>7, <1>8, <1>9 DEF TypeOK, StoreTyped

\* Registers nothing is read into stay as they were at power-up.
LEMMA StaysLost ==
  ASSUME Lost, Clock, ~(currState \in {"read", "done"})
  PROVE  Lost'
  <1>1. \A c \in Channels : Kept(reading)[c] = Unread[c]
    BY SampleFacts DEF Lost, Kept
  <1>2. reading' = [c \in Channels |-> Unread[c]]
    BY <1>1 DEF Clock, Core, Read
  <1> QED BY <1>2, SampleFacts DEF Lost, Unread

LEMMA StepControl ==
  ASSUME TypeOK, Control, Clock
  PROVE  Control'
  <1>1. /\ go' = (reset = 0 /\ ~done /\ (go \/ (adc_write /\ adc_state.address = 0)))
        /\ currState' = NextState /\ channel' = NextChannel
        /\ reset' = IF reset > 0 THEN reset - 1 ELSE 0
    BY DEF Clock, Go, Core
  <1>2. /\ reset \in 0..3 /\ channel \in 0..7
        /\ currState \in {"reset", "idle", "turnOn", "pending", "read", "done"}
    BY DEF TypeOK
  <1>3. done <=> currState = "done"
    BY DEF done
  <1>4. InReset'
    <2>1. reset' > 0 => reset > 0
      BY <1>1, <1>2
    <2>2. reset > 0 => currState' = "reset"
      BY <1>1, <1>2 DEF NextState
    <2>3. reset > 0 => ~(reset = 0)
      BY <1>2
    <2>4. reset > 0 => ~go'
      BY <1>1, <2>3
    <2>5. reset > 0 => Lost'
      BY StaysLost DEF Control, InReset
    <2> QED BY <2>1, <2>2, <2>4, <2>5 DEF InReset
  <1>5. Requested'
    <2>1. SUFFICES ASSUME go'
                   PROVE  \/ adc_write' /\ (adc_state'.held \/ adc_state'.address = 1)
                          \/ adc_read' /\ adc_state'.address = 0
      BY DEF Requested
    <2>2. ~done /\ (go \/ (adc_write /\ adc_state.address = 0))
      BY <1>1, <2>1
    <2>3. \/ adc_write
          \/ adc_read /\ adc_state.address = 0 /\ go
      BY <2>2 DEF Control, Requested
    <2> QED BY <2>3, Moves DEF Enters, adc_read, adc_write, Control, TypeOK
  <1>6. Busy' => go'
    <2>1. SUFFICES ASSUME Busy' PROVE go'
      OBVIOUS
    <2>2. go /\ reset = 0 /\ currState # "done"
      BY <1>1, <1>2, <2>1 DEF Busy, NextState, Control, Paced, InReset
    <2> QED BY <1>1, <1>3, <2>2
  <1>7. Busy' => Busy \/ (currState = "idle" /\ go)
    BY <1>1, <1>2 DEF Busy, NextState
  <1>8. ~(adc_state'.op = "idle")
    BY Moves DEF Enters, Control, adc_read, adc_write, TypeOK
  <1>9. adc_write' /\ adc_state'.address = 0 => ~Busy'
    <2>1. SUFFICES ASSUME adc_write', adc_state'.address = 0, Busy' PROVE FALSE
      OBVIOUS
    <2>2. \/ adc_state.op = "idle"
          \/ adc_write /\ adc_state.address = 0 /\ ~adc_state.held
          \/ adc_read /\ adc_state.address = 5
      BY <2>1, Moves DEF Enters, Control, adc_read, adc_write
    <2>3. ~go
      BY <2>2 DEF Control, Requested, adc_read, adc_write
    <2> QED BY <1>7, <2>1, <2>3 DEF Control, Paced
  <1>10. adc_write' /\ adc_state'.address = 1 =>
           /\ currState' # "done"
           /\ currState' = "read" => adc_state'.held /\ channel' = 0
    <2>1. SUFFICES ASSUME adc_write', adc_state'.address = 1
                   PROVE  /\ currState' # "done"
                          /\ currState' = "read" => adc_state'.held /\ channel' = 0
      OBVIOUS
    <2>2. \/ adc_write /\ adc_state.address = 0
          \/ adc_write /\ adc_state.address = 1 /\ ~adc_state.held /\ adc_state'.held
      BY <2>1, Moves DEF Enters, Control, adc_read, adc_write
    <2>3. CASE adc_write /\ adc_state.address = 0
      BY <1>1, <1>2, <2>3 DEF Control, Paced, Busy, NextState
    <2>4. CASE adc_write /\ adc_state.address = 1 /\ ~adc_state.held /\ adc_state'.held
      BY <1>1, <1>2, <2>4 DEF Control, Paced, Counted, NextState, NextChannel
    <2> QED BY <2>2, <2>3, <2>4
  <1>11. Paced'
    BY <1>6, <1>8, <1>9, <1>10 DEF Paced
  <1>12. Counted'
    BY <1>1, <1>2 DEF Counted, Control, InReset, NextState, NextChannel
  <1> QED BY <1>4, <1>5, <1>11, <1>12 DEF Control

\* Samples age only when the FSM asks for a conversion.
LEMMA Unaged ==
  ASSUME go \/ ~go', NEW s
  PROVE  Kept(s) = s
  BY DEF Kept

LEMMA StepCollected ==
  ASSUME TypeOK, Control, Collected, Clock
  PROVE  Collected'
  <1>1. currState' = NextState /\ channel' = NextChannel
    BY DEF Clock, Core
  <1>2. channel \in 0..7
        /\ currState \in {"reset", "idle", "turnOn", "pending", "read", "done"}
    BY DEF TypeOK
  <1> SUFFICES ASSUME NEW c \in 0..4,
                      \/ currState' = "read" /\ c + 2 < channel'
                      \/ currState' = "done"
               PROVE  reading'[c].age = 0
    BY DEF Collected
  <1>3. currState = "read"
    <2>1. ~(currState' = "read" /\ currState = "pending")
      BY <1>1, <1>2 DEF Control, Counted, NextChannel
    <2>2. currState' \in {"read", "done"} => currState \in {"pending", "read"}
      BY <1>1, <1>2 DEF NextState
    <2>3. currState' = "done" => currState = "read"
      BY <1>1, <1>2 DEF NextState
    <2> QED BY <2>1, <2>2, <2>3
  <1>4. c + 2 <= channel
    <2>1. channel' = channel + 1
      BY <1>1, <1>3 DEF NextChannel
    <2>2. currState' = "done" => channel = 6
      BY <1>1, <1>2, <1>3 DEF NextState, Control, Counted, InReset
    <2> QED BY <1>2, <2>1, <2>2
  <1>5. Kept(reading) = reading
    BY <1>3, Unaged DEF Control, Paced, Busy
  <1>6. c \in Channels
    BY DEF Channels
  <1>7. reading'[c] = IF channel = c + 2 THEN [age |-> 0, level |-> readdata]
                      ELSE reading[c]
    BY <1>3, <1>5, <1>6 DEF Clock, Core, Read
  <1>8. channel # c + 2 => reading[c].age = 0
    BY <1>2, <1>3, <1>4 DEF Collected
  <1> QED BY <1>7, <1>8

\* What the FSM passes on while no request is outstanding.
LEMMA Passes ==
  ASSUME Control, Clock, ~go, adc_read
  PROVE  /\ ~go' /\ values' = values
         /\ \A c \in Channels : a'[c] = IF adc_state.address = c THEN values[c] ELSE a[c]
  <1>1. currState # "done"
    BY DEF Control, Paced, Busy
  <1>2. ~adc_write
    BY DEF adc_read, adc_write
  <1>3. ~go'
    BY <1>2 DEF Clock, Go
  <1>4. Kept(values) = values /\ Kept(a) = a
    BY <1>3, Unaged
  <1>5. ~waitrequest
    BY <1>2 DEF waitrequest
  <1>6. values' = values
    BY <1>1, <1>4 DEF Clock, Values, done
  <1>7. a' = [c \in Channels |-> IF adc_state.address = c THEN values[c] ELSE a[c]]
    BY <1>4, <1>5 DEF Clock, Capture
  <1> QED BY <1>3, <1>6, <1>7

LEMMA StepDelivered ==
  ASSUME TypeOK, Control, Collected, Delivered, Clock
  PROVE  Delivered'
  <1> SUFFICES ASSUME ~go'
               PROVE  /\ adc_write' /\ (adc_state'.held \/ adc_state'.address = 1) => Lost'
                      /\ adc_read' => \/ Lost'
                                      \/ \A c \in 0..4 :
                                           /\ values'[c].age = 0
                                           /\ c < adc_state'.address => a'[c].age = 0
    BY DEF Delivered
  <1>1. go' = (reset = 0 /\ ~done /\ (go \/ (adc_write /\ adc_state.address = 0)))
    BY DEF Clock, Go
  <1>2. CASE Lost /\ ~Busy
    BY <1>2, StaysLost, Moves DEF Busy
  <1>3. CASE adc_state.op = "idle"
    BY <1>3, Moves DEF Enters, Control, adc_read, adc_write
  <1>4. CASE adc_write /\ ~go
    <2>1. ~Busy
      BY <1>4 DEF Control, Paced
    <2>2. CASE adc_state.held \/ adc_state.address = 1
      BY <1>2, <1>4, <2>1, <2>2 DEF Delivered
    <2>3. CASE ~(adc_state.held \/ adc_state.address = 1)
      <3>1. adc_state.address = 0 /\ ~done
        BY <1>4, <2>1, <2>3 DEF TypeOK, Busy, done
      <3>2. reset > 0
        <4>1. ~(reset = 0)
          BY <1>1, <1>4, <3>1
        <4> QED BY <4>1 DEF TypeOK
      <3> QED BY <1>2, <2>1, <3>2 DEF Control, InReset
    <2> QED BY <2>2, <2>3
  <1>5. CASE adc_read /\ ~go
    <2>1. ~Busy
      BY <1>5 DEF Control, Paced
    <2>2. CASE Lost
      BY <1>2, <2>1, <2>2
    <2>3. CASE ~Lost
      <3>1. \A c \in 0..4 : values[c].age = 0 /\ (c < adc_state.address => a[c].age = 0)
        BY <1>5, <2>3 DEF Delivered
      <3>2. adc_state.address \in 0..5
        BY DEF TypeOK, FsmState, Channels
      <3>3. \A c \in 0..4 : c \in Channels
        BY DEF Channels
      <3>4. \A c \in 0..4 : c <= adc_state.address => a'[c].age = 0
        BY <1>5, <3>1, <3>2, <3>3, Passes
      <3>5. \A c \in 0..4 : values'[c].age = 0
        BY <1>5, <3>1, Passes
      <3>6. adc_read' => adc_state'.address \in {adc_state.address, adc_state.address + 1}
        BY <1>5, Moves DEF Enters, Control, adc_read, adc_write
      <3>7. ~(adc_write' /\ (adc_state'.held \/ adc_state'.address = 1))
        BY <1>5, Moves DEF Enters, Control, adc_read, adc_write
      <3> QED BY <3>2, <3>4, <3>5, <3>6, <3>7
    <2> QED BY <2>2, <2>3
  <1>6. CASE go
    <2>1. reset = 0
      BY <1>6 DEF Control, InReset, TypeOK
    <2>2. done
      BY <1>1, <1>6, <2>1
    <2>3. adc_read /\ adc_state.address = 0
      BY <1>6, <2>2 DEF Control, Requested, Paced, Busy, done, TypeOK
    <2>4. values' = reading
      BY <2>2 DEF Clock, Values
    <2>5. \A c \in 0..4 : values'[c].age = 0
      BY <2>2, <2>4 DEF Collected, done
    <2>6. adc_read' /\ adc_state'.address = 0
      BY <1>6, <2>3, Moves DEF Enters, Control, adc_read, adc_write
    <2> QED BY <2>5, <2>6 DEF adc_read, adc_write
  <1> QED BY <1>3, <1>4, <1>5, <1>6 DEF TypeOK, FsmState, adc_read, adc_write

LEMMA StepIInv == IInv /\ [Clock]_vars => IInv'
  <1> SUFFICES ASSUME IInv, [Clock]_vars PROVE IInv'
    OBVIOUS
  <1>1. CASE Clock
    BY <1>1, StepTypeOK, StepControl, StepCollected, StepDelivered DEF IInv, Control
  <1>2. CASE UNCHANGED vars
    <2>1. TypeOK'
      BY <1>2 DEF IInv, TypeOK, vars, store, adc_write
    <2>2. Control'
      BY <1>2 DEF IInv, Control, InReset, Requested, Paced, Counted, Lost, Busy, vars,
            adc_write, adc_read
    <2>3. Collected'
      BY <1>2 DEF IInv, Collected, vars
    <2>4. Delivered'
      BY <1>2 DEF IInv, Delivered, Lost, vars, adc_write, adc_read
    <2> QED BY <2>1, <2>2, <2>3, <2>4 DEF IInv
  <1> QED BY <1>1, <1>2

LEMMA Inductive == Spec => []IInv
  BY InitIInv, StepIInv, PTL DEF Spec

-----------------------------------------------------------------------------

\* Every register keeps its type, for all settings of the pins.
THEOREM AdcTyping == Spec => []TypeOK
  <1>1. IInv => TypeOK
    BY DEF IInv
  <1> QED BY <1>1, Inductive, PTL

\* The FSM waits for the first channel only, so the odd branch of READ_2_r is
\* never taken.
THEOREM AdcWaits == Spec => []WaitsOnlyForChannel0
  <1>1. IInv => WaitsOnlyForChannel0
    BY ControlWaits DEF IInv, Control, WaitsOnlyForChannel0
  <1> QED BY <1>1, Inductive, PTL

\* A round that ends has collected what the core read for its own request.
LEMMA RoundFresh ==
  ASSUME IInv, Clock, RoundEnds
  PROVE  reading = Unread \/ \A c \in 0..4 : a'[c].age = 0
  <1>1. adc_read /\ adc_state.address = 5
    BY DEF RoundEnds, adc_read
  <1>2. ~go
    BY <1>1 DEF IInv, Control, Requested, adc_read, adc_write
  <1> SUFFICES ASSUME ~Lost, NEW c \in 0..4 PROVE a'[c].age = 0
    BY DEF Lost
  <1>3. a[c].age = 0
    BY <1>1, <1>2 DEF IInv, Delivered
  <1>4. c \in Channels /\ adc_state.address # c
    BY <1>1 DEF Channels
  <1> QED BY <1>1, <1>2, <1>3, <1>4, Passes DEF IInv

\* When a round of the FSM ends, the channels 0..4 are what the core read for its
\* request, whenever the converter takes a level or answers and however far the
\* sample store has run on (analog_input.sv 32-52, adc_adc_0.v 71-114).
THEOREM AdcFresh == Spec => Fresh
  <1>1. IInv /\ [Clock]_vars =>
          [RoundEnds => (reading = Unread) \/ \A c \in 0..4 : a'[c].age = 0]_vars
    BY RoundFresh
  <1> QED BY <1>1, Inductive, PTL DEF Spec, Fresh

=============================================================================
