------------------------------ MODULE JtagUart ------------------------------
(***************************************************************************)
(* The JTAG UART: altera_avalon_jtag_uart_*.c and .h of the board support  *)
(* package with vChip8_uart.v, the device.  One thread calls read, write,  *)
(* close and ioctl; the interrupt handler moves bytes between two ring     *)
(* buffers and the two FIFOs of the device; a host at the other end of the *)
(* cable sends, takes, pauses, goes away and comes back; an alarm looks    *)
(* for it once a second.  The handler runs to its end before the thread    *)
(* goes on, but the host interleaves with both.  A thread that waits is a  *)
(* thread without a step.                                                  *)
(*                                                                         *)
(* config holds what is decided when the library is built: the small,      *)
(* polled driver or the fast one, whether there is a system clock, whether *)
(* the compiler loads the field host_inactive, which is not volatile, once *)
(* before a waiting loop (hoisted); the bytes each side may send; and the  *)
(* calls the thread makes, by length and blocking or not.                  *)
(***************************************************************************)
EXTENDS Integers, Sequences, SequencesExt

CONSTANTS BUF_LEN, FIFO_DEPTH, THRESHOLD, INT_MAX, DEFAULT_TIMEOUT,
          Timeouts,     \* arguments of TIOCSTIMEOUT
          Configs

ASSUME SizesAssumption ==
  /\ BUF_LEN \in Nat /\ BUF_LEN > 1
  /\ FIFO_DEPTH \in Nat /\ FIFO_DEPTH > 0 /\ THRESHOLD \in 0..(FIFO_DEPTH - 1)
ASSUME TimeoutAssumption ==
  /\ INT_MAX \in Nat /\ DEFAULT_TIMEOUT \in 2..(INT_MAX - 2)
  /\ Timeouts \subseteq Int
ASSUME ConfigsAssumption ==
  Configs \subseteq [small : BOOLEAN, clock : BOOLEAN, hoisted : BOOLEAN,
                    rx : SUBSET (0..255), tx : SUBSET (0..255),
                    calls : SUBSET [length : Nat, nonblock : BOOLEAN]]

VARIABLES config,
          wfifo, rfifo, ien, pause_irq, ac,          \* the device
          irq_enable, rx_in, rx_out, rx_buf, tx_in, tx_out, tx_buf,
          host_inactive, timeout,                    \* the driver
          isr, thread, userGot

device == <<wfifo, rfifo, ien, pause_irq, ac>>
receive == <<rx_in, rx_out, rx_buf>>
transmit == <<tx_in, tx_out, tx_buf>>
clock == <<host_inactive, timeout>>
vars == <<config, device, irq_enable, receive, transmit, clock,
          isr, thread, userGot>>

Byte == config.rx \union config.tx
Index == 0..(BUF_LEN - 1)
Succ(i) == (i + 1) % BUF_LEN

\* What a ring buffer holds, oldest byte first.
Slots(buf, out, in) == [k \in 1..((in - out) % BUF_LEN) |-> buf[(out + k - 1) % BUF_LEN]]
Received == Slots(rx_buf, rx_out, rx_in)
Written == Slots(tx_buf, tx_out, tx_in)

Idle == [at |-> "idle", nonblock |-> FALSE, left |-> 0, done |-> FALSE,
         in |-> 0, out |-> 0, n |-> 0, data |-> <<>>, patient |-> TRUE, ret |-> "some"]
Outside == [at |-> "out", wi |-> FALSE, space |-> 0, ravail |-> FALSE]

InitFor(c) ==
  /\ config = c
  /\ wfifo = <<>> /\ rfifo = <<>> /\ pause_irq = FALSE /\ ac = FALSE
  /\ irq_enable = IF c.small THEN {} ELSE {"RE"}
  /\ ien = irq_enable
  /\ rx_in = 0 /\ rx_out = 0 /\ tx_in = 0 /\ tx_out = 0
  /\ rx_buf = [i \in Index |-> 0] /\ tx_buf = [i \in Index |-> 0]
  /\ host_inactive = 0
  /\ timeout = IF c.clock THEN DEFAULT_TIMEOUT ELSE INT_MAX
  /\ isr = Outside /\ thread = Idle /\ userGot = <<>>

Init == \E c \in Configs : InitFor(c)

-----------------------------------------------------------------------------
(* The device and the host. *)

ipen_AE == "WE" \in ien /\ Len(wfifo) <= THRESHOLD
ipen_AF == "RE" \in ien /\ (pause_irq \/ FIFO_DEPTH - Len(rfifo) <= THRESHOLD)

HostSend(b) ==
  /\ Len(rfifo) < FIFO_DEPTH
  /\ rfifo' = Append(rfifo, b) /\ ac' = TRUE
  /\ UNCHANGED <<config, wfifo, ien, pause_irq, irq_enable, receive, transmit,
                 clock, isr, thread, userGot>>

HostPause ==
  /\ pause_irq' = (pause_irq \/ rfifo # <<>>) /\ ac' = TRUE
  /\ UNCHANGED <<config, wfifo, rfifo, ien, irq_enable, receive, transmit,
                 clock, isr, thread, userGot>>

HostTake ==
  /\ wfifo # <<>>
  /\ wfifo' = Tail(wfifo)
  /\ UNCHANGED <<config, rfifo, ien, pause_irq, ac, irq_enable, receive, transmit,
                 clock, isr, thread, userGot>>

Host == HostPause \/ HostTake \/ \E b \in config.rx : HostSend(b)

-----------------------------------------------------------------------------
(* The interrupt handler.  Each of its steps is one round of a loop. *)

EnableOnly(e) == irq_enable' = e /\ ien' = e

\* Read the control register; leave when nothing is pending.
IsrControl ==
  /\ ~config.small
  /\ \/ isr.at = "out" /\ (ipen_AE \/ ipen_AF)
     \/ isr.at = "loop"
  /\ isr' = IF ~ipen_AE /\ ~ipen_AF THEN Outside
            ELSE [at |-> IF ipen_AF THEN "rx" ELSE "tx", wi |-> ipen_AE,
                  space |-> FIFO_DEPTH - Len(wfifo), ravail |-> ipen_AF]
  /\ UNCHANGED <<config, device, irq_enable, receive, transmit, clock, thread, userGot>>

\* A byte from the device into the ring buffer.
IsrReceive ==
  /\ isr.at = "rx" /\ Succ(rx_in) # rx_out /\ rfifo # <<>>
  /\ rx_buf' = [rx_buf EXCEPT ![rx_in] = Head(rfifo)]
  /\ rx_in' = Succ(rx_in)
  /\ rfifo' = Tail(rfifo) /\ pause_irq' = FALSE
  /\ isr' = [isr EXCEPT !.ravail = Tail(rfifo) # <<>>]
  /\ UNCHANGED <<config, wfifo, ien, ac, irq_enable, rx_out, transmit, clock,
                 thread, userGot>>

\* The loop over received bytes ends: the ring buffer is full, or a read found
\* the device empty.  The receive interrupt is turned off if the last read said
\* that more is available.
StopReceiving(more) ==
  /\ isr.at = "rx"
  /\ EnableOnly(irq_enable \ IF more THEN {"RE"} ELSE {})
  /\ isr' = [isr EXCEPT !.at = IF isr.wi THEN "tx" ELSE "loop", !.ravail = FALSE]
  /\ UNCHANGED <<config, wfifo, receive, transmit, clock, thread, userGot>>

IsrReceived ==
  \/ /\ Succ(rx_in) = rx_out
     /\ StopReceiving(isr.ravail) /\ UNCHANGED <<rfifo, pause_irq, ac>>
  \/ /\ Succ(rx_in) # rx_out /\ rfifo = <<>>
     /\ StopReceiving(FALSE) /\ pause_irq' = FALSE /\ UNCHANGED <<rfifo, ac>>

\* The device samples "valid" at the clock of the read and counts what is
\* available one clock later: a byte that arrives in between is reported as
\* available by a read that was not valid.
IsrReceivedLate ==
  /\ Succ(rx_in) # rx_out /\ rfifo = <<>>
  /\ StopReceiving(TRUE) /\ pause_irq' = FALSE
  /\ \E b \in config.rx : rfifo' = <<b>> /\ ac' = TRUE

\* A byte from the ring buffer to the device.
IsrTransmit ==
  /\ isr.at = "tx" /\ isr.space > 0 /\ tx_out # tx_in
  /\ wfifo' = IF Len(wfifo) < FIFO_DEPTH THEN Append(wfifo, tx_buf[tx_out]) ELSE wfifo
  /\ tx_out' = Succ(tx_out)
  /\ isr' = [isr EXCEPT !.space = @ - 1]
  /\ UNCHANGED <<config, rfifo, ien, pause_irq, ac, irq_enable, receive, tx_in,
                 tx_buf, clock, thread, userGot>>

\* Mutant of IsrTransmitted: the interrupt is switched off with bytes left to send.
IsrTransmitted_AlwaysOff ==
  /\ isr.at = "tx" /\ (isr.space = 0 \/ tx_out = tx_in)
  /\ EnableOnly(irq_enable \ {"WE"})
  /\ isr' = [Outside EXCEPT !.at = "loop"]
  /\ UNCHANGED <<config, rfifo, wfifo, pause_irq, ac, receive, transmit, clock, thread, userGot>>

\* Nothing left to send, or no space: the transmit interrupt goes off if space is left.
IsrTransmitted ==
  /\ isr.at = "tx" /\ (isr.space = 0 \/ tx_out = tx_in)
  /\ EnableOnly(irq_enable \ IF isr.space > 0 THEN {"WE"} ELSE {})
  /\ isr' = [Outside EXCEPT !.at = "loop"]
  /\ UNCHANGED <<config, wfifo, rfifo, pause_irq, ac, receive, transmit, clock,
                 thread, userGot>>

altera_avalon_jtag_uart_irq ==
  \/ IsrControl \/ IsrReceive \/ IsrReceived \/ IsrReceivedLate
  \/ IsrTransmit \/ IsrTransmitted

\* Mutant of altera_avalon_jtag_uart_timeout: silence is not counted.
altera_avalon_jtag_uart_timeout_NeverCounts ==
  /\ config.clock /\ ~config.small /\ isr.at = "out"
  /\ ac' = FALSE /\ host_inactive' = 0 /\ ien' = irq_enable
  /\ UNCHANGED <<config, wfifo, rfifo, pause_irq, irq_enable, receive, transmit,
                 timeout, isr, thread, userGot>>
\* The alarm: was the host active since the last time?
altera_avalon_jtag_uart_timeout ==
  /\ config.clock /\ ~config.small /\ isr.at = "out"
  /\ IF ac THEN ac' = FALSE /\ host_inactive' = 0
     ELSE /\ host_inactive < INT_MAX - 2
          /\ host_inactive' = host_inactive + 1 /\ UNCHANGED ac
  /\ ien' = IF ac THEN irq_enable ELSE ien
  /\ UNCHANGED <<config, wfifo, rfifo, pause_irq, irq_enable, receive, transmit,
                 timeout, isr, thread, userGot>>

-----------------------------------------------------------------------------
(* The thread. *)

At(place) == thread.at = place /\ isr.at = "out"
HostSeen == host_inactive < timeout

\* A waiting loop goes on while the host is seen; a compiler that hoists the
\* load looks once, when the loop is entered.
KeepsWaiting == IF config.hoisted THEN thread.patient ELSE HostSeen

Result(t) == IF t.done THEN "some" ELSE IF t.nonblock THEN "EWOULDBLOCK" ELSE "EIO"
Return(ret) == thread' = [Idle EXCEPT !.ret = ret] /\ userGot' = <<>>

Call(place, length, nonblock) ==
  /\ At("idle")
  /\ thread' = [Idle EXCEPT !.at = place, !.left = length, !.nonblock = nonblock,
                            !.patient = HostSeen]
  /\ UNCHANGED <<config, device, irq_enable, receive, transmit, clock, userGot, isr>>

altera_avalon_jtag_uart_read_fd ==
  \E c \in config.calls : /\ config.rx # {} /\ c.length > 0
                         /\ Call(IF config.small THEN "sRead" ELSE "rTake", c.length, c.nonblock)
altera_avalon_jtag_uart_write_fd ==
  \E c \in config.calls : /\ config.tx # {}
                         /\ Call(IF config.small THEN "sFetch" ELSE "wFill", c.length, c.nonblock)
altera_avalon_jtag_uart_close_fd ==
  \E c \in config.calls : config.tx # {} /\ ~config.small /\ Call("cDrain", 0, c.nonblock)

AfterTaking(t, in) ==
  IF t.done THEN [t EXCEPT !.at = "rEnable"]
  ELSE IF t.nonblock THEN [Idle EXCEPT !.ret = "EWOULDBLOCK"]
  ELSE [t EXCEPT !.at = "rSpin", !.in = in, !.patient = HostSeen]

\* Copy what lies in one piece; with nothing there, decide how to go on.
ReadTake ==
  LET piece == IF rx_in >= rx_out THEN rx_in - rx_out ELSE BUF_LEN - rx_out
      n == IF piece > thread.left THEN thread.left ELSE piece
  IN  /\ At("rTake")
      /\ IF n = 0 THEN thread' = AfterTaking(thread, rx_in) /\ userGot' = <<>>
         ELSE /\ userGot' = [k \in 1..n |-> rx_buf[rx_out + k - 1]]
              /\ thread' = [thread EXCEPT !.at = "rAdvance", !.out = rx_out, !.n = n]
      /\ UNCHANGED <<config, device, irq_enable, receive, transmit, clock, isr>>

ReadAdvance ==
  /\ At("rAdvance")
  /\ rx_out' = (thread.out + thread.n) % BUF_LEN
  /\ thread' = [thread EXCEPT !.at = IF thread.left = thread.n THEN "rEnable" ELSE "rTake",
                              !.left = @ - thread.n, !.done = TRUE, !.out = 0, !.n = 0]
  /\ userGot' = <<>>
  /\ UNCHANGED <<config, device, irq_enable, rx_in, rx_buf, transmit, clock, isr>>

ReadSpin ==
  /\ At("rSpin")
  /\ \/ rx_in # thread.in /\ thread' = [thread EXCEPT !.at = "rTake", !.in = 0, !.patient = TRUE]
                          /\ UNCHANGED userGot
     \/ rx_in = thread.in /\ ~KeepsWaiting /\ Return("EIO")
  /\ UNCHANGED <<config, device, irq_enable, receive, transmit, clock, isr>>

\* Interrupts are off from the change of irq_enable to the write of the register.
ReadEnable ==
  /\ At("rEnable")
  /\ EnableOnly(irq_enable \union {"RE"})
  /\ Return("some")
  /\ UNCHANGED <<config, wfifo, rfifo, pause_irq, ac, receive, transmit, clock, isr>>

\* Mutant of WriteFill: the index moves before the byte is stored.
WriteFill_PublishesFirst ==
  LET piece == IF tx_in < tx_out THEN tx_out - 1 - tx_in
               ELSE IF tx_out > 0 THEN BUF_LEN - tx_in ELSE BUF_LEN - 1 - tx_in
      n == IF piece > thread.left THEN thread.left ELSE piece
  IN  /\ At("wFill")
      /\ tx_in' = (tx_in + n) % BUF_LEN
      /\ IF n = 0 THEN thread' = [thread EXCEPT !.at = "wKick", !.out = tx_out]
         ELSE \E bytes \in [1..n -> config.tx] :
                thread' = [thread EXCEPT !.at = "wCopy", !.in = tx_in, !.n = n, !.data = bytes]
      /\ UNCHANGED <<config, device, irq_enable, receive, tx_out, tx_buf, clock, isr, userGot>>
\* The space in one piece, and the caller's next bytes for it.
WriteFill ==
  LET piece == IF tx_in < tx_out THEN tx_out - 1 - tx_in
               ELSE IF tx_out > 0 THEN BUF_LEN - tx_in ELSE BUF_LEN - 1 - tx_in
      n == IF piece > thread.left THEN thread.left ELSE piece
  IN  /\ At("wFill")
      /\ IF n = 0 THEN thread' = [thread EXCEPT !.at = "wKick", !.out = tx_out]
         ELSE \E bytes \in [1..n -> config.tx] :
                thread' = [thread EXCEPT !.at = "wCopy", !.in = tx_in, !.n = n, !.data = bytes]
      /\ UNCHANGED <<config, device, irq_enable, receive, transmit, clock, isr, userGot>>

WriteCopy ==
  /\ At("wCopy")
  /\ tx_buf' = [i \in Index |-> IF i \in thread.in..(thread.in + thread.n - 1)
                                THEN thread.data[i - thread.in + 1] ELSE tx_buf[i]]
  /\ thread' = [thread EXCEPT !.at = "wPublish"]
  /\ UNCHANGED <<config, device, irq_enable, receive, tx_in, tx_out, clock, isr, userGot>>

WritePublish ==
  /\ At("wPublish")
  /\ tx_in' = (thread.in + thread.n) % BUF_LEN
  /\ thread' = [thread EXCEPT !.at = "wFill", !.left = @ - thread.n, !.done = TRUE,
                              !.in = 0, !.n = 0, !.data = <<>>]
  /\ UNCHANGED <<config, device, irq_enable, receive, tx_out, tx_buf, clock, isr, userGot>>

\* Mutant of WriteKick: the interrupt is not switched on.
WriteKick_Quiet ==
  /\ At("wKick")
  /\ IF thread.left = 0 \/ thread.nonblock THEN Return(Result(thread))
     ELSE thread' = [thread EXCEPT !.at = "wSpin", !.patient = HostSeen] /\ UNCHANGED userGot
  /\ UNCHANGED <<config, device, irq_enable, receive, transmit, clock, isr>>
WriteKick ==
  /\ At("wKick")
  /\ EnableOnly(irq_enable \union {"WE"})
  /\ IF thread.left = 0 \/ thread.nonblock THEN Return(Result(thread))
     ELSE thread' = [thread EXCEPT !.at = "wSpin", !.patient = HostSeen] /\ UNCHANGED userGot
  /\ UNCHANGED <<config, wfifo, rfifo, pause_irq, ac, receive, transmit, clock, isr>>

WriteSpin ==
  /\ At("wSpin") /\ (tx_out # thread.out \/ ~KeepsWaiting)
  /\ IF host_inactive > 0 THEN Return(Result(thread))
     ELSE thread' = [thread EXCEPT !.at = "wFill", !.out = 0, !.patient = TRUE] /\ UNCHANGED userGot
  /\ UNCHANGED <<config, device, irq_enable, receive, transmit, clock, isr>>

\* Close waits until all is sent, unless it must not wait or the host is away.
altera_avalon_jtag_uart_close ==
  /\ At("cDrain")
  /\ IF tx_out = tx_in \/ ~KeepsWaiting THEN Return("some")
     ELSE thread.nonblock /\ Return("EWOULDBLOCK")
  /\ UNCHANGED <<config, device, irq_enable, receive, transmit, clock, isr>>

altera_avalon_jtag_uart_ioctl ==
  /\ At("idle") /\ timeout # INT_MAX /\ ~config.small
  /\ \E t \in Timeouts : timeout' = IF t >= 2 /\ t < INT_MAX THEN t ELSE INT_MAX - 1
  /\ UNCHANGED <<config, device, irq_enable, receive, transmit, host_inactive, isr,
                 thread, userGot>>

-----------------------------------------------------------------------------
(* The small driver, which polls the device. *)

SmallRead ==
  /\ At("sRead")
  /\ IF rfifo # <<>> /\ thread.left > 0
     THEN /\ userGot' = <<Head(rfifo)>> /\ rfifo' = Tail(rfifo) /\ pause_irq' = FALSE
          /\ thread' = [thread EXCEPT !.left = @ - 1, !.done = TRUE]
     ELSE /\ thread.left = 0 \/ thread.done \/ thread.nonblock
          /\ Return(Result(thread)) /\ pause_irq' = (pause_irq /\ thread.left = 0)
          /\ UNCHANGED rfifo
  /\ UNCHANGED <<config, wfifo, ien, ac, irq_enable, receive, transmit, clock, isr>>

SmallFetch ==
  /\ At("sFetch")
  /\ IF thread.left = 0 THEN Return("some")
     ELSE \E b \in config.tx : thread' = [thread EXCEPT !.at = "sPut", !.data = <<b>>] /\ UNCHANGED userGot
  /\ UNCHANGED <<config, device, irq_enable, receive, transmit, clock, isr>>

SmallPut ==
  /\ At("sPut") /\ Len(wfifo) < FIFO_DEPTH
  /\ wfifo' = wfifo \o thread.data
  /\ thread' = [thread EXCEPT !.at = "sFetch", !.left = @ - 1, !.data = <<>>]
  /\ UNCHANGED <<config, rfifo, ien, pause_irq, ac, irq_enable, receive, transmit,
                 clock, isr, userGot>>

-----------------------------------------------------------------------------
altera_avalon_jtag_uart_read == ReadTake \/ ReadAdvance \/ ReadSpin \/ ReadEnable \/ SmallRead
altera_avalon_jtag_uart_write ==
  WriteFill \/ WriteCopy \/ WritePublish \/ WriteKick \/ WriteSpin \/ SmallFetch \/ SmallPut
Continue ==
  altera_avalon_jtag_uart_read \/ altera_avalon_jtag_uart_write \/ altera_avalon_jtag_uart_close
Calls == \/ altera_avalon_jtag_uart_read_fd \/ altera_avalon_jtag_uart_write_fd
         \/ altera_avalon_jtag_uart_close_fd \/ altera_avalon_jtag_uart_ioctl

Next == Host \/ altera_avalon_jtag_uart_irq \/ altera_avalon_jtag_uart_timeout \/ Calls \/ Continue

Spec == Init /\ [][Next]_vars

\* Time passes, an interrupt that is pending is served, the thread runs.
\* Nothing is promised of the host.
FairSpec == Spec /\ WF_vars(altera_avalon_jtag_uart_irq)
                 /\ WF_vars(altera_avalon_jtag_uart_timeout) /\ WF_vars(Continue)
-----------------------------------------------------------------------------
Threads == {"idle", "rTake", "rAdvance", "rSpin", "rEnable", "wFill", "wCopy", "wPublish",
            "wKick", "wSpin", "cDrain", "sRead", "sFetch", "sPut"}

\* Indices stay in the buffers, FIFOs within their depth; only the small driver
\* and the handler touch the device's data.
TypeOK ==
  /\ config \in Configs
  /\ wfifo \in Seq(Byte) /\ Len(wfifo) <= FIFO_DEPTH
  /\ rfifo \in Seq(Byte) /\ Len(rfifo) <= FIFO_DEPTH
  /\ pause_irq \in BOOLEAN /\ ac \in BOOLEAN
  /\ irq_enable \subseteq {"RE", "WE"} /\ ien \subseteq {"RE", "WE"}
  /\ {rx_in, rx_out, tx_in, tx_out} \subseteq Index
  /\ rx_buf \in [Index -> Byte \union {0}] /\ tx_buf \in [Index -> Byte \union {0}]
  /\ host_inactive \in 0..(INT_MAX - 2) /\ timeout \in 2..INT_MAX
  /\ isr.at \in {"out", "loop", "rx", "tx"} /\ isr.space \in 0..FIFO_DEPTH
  /\ thread.at \in Threads /\ thread.left \in Nat /\ thread.n \in 0..BUF_LEN
  /\ config.small => isr = Outside /\ tx_in = 0 /\ rx_in = 0

\* Nobody waits for an interrupt that is turned off.  What the driver believes
\* to be enabled is enabled.  With bytes to send the transmit interrupt is on,
\* unless the writer is still to turn it on; the receive interrupt is off only
\* while received bytes are waiting or a reader, who took them, is to turn it on.
WakeupsArmed ==
  /\ irq_enable = ien
  /\ tx_in # tx_out => \/ "WE" \in ien
                       \/ thread.at \in {"wFill", "wCopy", "wPublish", "wKick"}
  /\ \/ config.small \/ "RE" \in ien \/ rx_in # rx_out
     \/ thread.at \in {"rTake", "rAdvance", "rEnable"} /\ thread.done

\* The driver and the device keep the promise of a channel: what a reader got,
\* or is about to, and what a writer gave are in the queues' order.  A byte that
\* is copied but not yet released from the ring buffer counts as taken.
Channel == INSTANCE Stream WITH
  Byte <- UNION {c.rx \union c.tx : c \in Configs},
  toUser <- SubSeq(Received, thread.n * (IF thread.at = "rAdvance" THEN 1 ELSE 0) + 1, Len(Received)) \o rfifo,
  userGot <- userGot, userGives <- thread.data, toHost <- wfifo \o Written
ImplementsStream == Channel!Spec

\* If the host falls silent for good, every call comes back, with a clock, the
\* fast driver and a timeout that can be reached; and if the host keeps emptying
\* the device every write does, with either driver and without a clock.
HostFallsSilent == <>[][~Host]_vars
CallsReturn ==
  /\ /\ config.clock /\ ~config.small /\ ~config.hoisted
     /\ HostFallsSilent /\ <>[](timeout <= INT_MAX - 2)
     => []<>(thread.at = "idle")
  /\ []<>(wfifo = <<>>) => []<>(thread.at \notin {"wSpin", "sPut"})

\* Bytes in the transmit buffer do not lie there while the device has nothing
\* to send, and, if the host pauses again and again and calls keep reading,
\* bytes in the device do not lie there while readers find nothing.
WrittenMovesOn == (Written # <<>>) ~> (wfifo # <<>> \/ Written = <<>>)
ReceivedMovesOn ==
  ~config.small /\ []<><<HostPause>>_vars /\ []<>(thread.at \in {"rTake", "rSpin"})
  => ((rfifo # <<>>) ~> (Received # <<>> \/ rfifo = <<>>))
BytesMoveOn == WrittenMovesOn /\ ReceivedMovesOn
=============================================================================
