---------------------------------- MODULE Log ----------------------------------
(***************************************************************************)
(* The log of alt_log_printf.c and alt_log_printf.h: who writes to it at   *)
(* which level of ALT_LOG_FLAGS, and how.  Every message is put into the   *)
(* UART character by character, after waiting for room; the program's own  *)
(* messages are interrupted by those of the interrupt and alarm handlers,  *)
(* which use the same loop.  A message is its number and its length.       *)
(***************************************************************************)
EXTENDS Integers, Sequences, SequencesExt, FiniteSets

CONSTANTS Flags,          \* ALT_LOG_FLAGS
          Room,           \* the characters the UART holds
          Lengths,        \* of messages
          Interval,       \* ALT_LOG_SYS_CLK_INTERVAL, in ticks
          Nesting,        \* handlers that interrupt each other, and the thread
          MessageBound    \* bound: messages
ASSUME LogAssumption ==
  /\ Flags \in {-1, 0, 1, 2, 3}
  /\ {Room, Interval, Nesting, MessageBound} \subseteq Nat \ {0}
  /\ Lengths \subseteq Nat \ {0}

VARIABLES printers,       \* the calls of alt_log_printf_proc in progress, innermost last
          sent, taken,    \* characters put into the UART; how many the host has read
          alt_log_sys_clk_count, alarmed,
          messages,       \* messages so far, the number of the next one
          lost,           \* history: characters written to a full UART, by message
          broken          \* history: messages that began inside another, by that message

logVars == <<printers, sent, taken, alt_log_sys_clk_count, alarmed, messages, lost, broken>>

\* The settings of the header for each level.
BootOn == Flags # -1
SysClkOn == Flags >= 1
StartupInfoOn == Flags >= 1
WriteOn == Flags >= 2
AlarmOn == Flags >= 2
IsrOn == Flags >= 3

LogInit ==
  /\ printers = <<>> /\ sent = <<>> /\ taken = 0
  /\ alt_log_sys_clk_count = 0 /\ alarmed = FALSE /\ messages = 0
  /\ lost = [m \in 1..MessageBound |-> 0] /\ broken = [m \in 1..MessageBound |-> 0]

-----------------------------------------------------------------------------
Printer == Last(printers)
Waiting == printers # <<>> /\ Printer.ready = FALSE
Ready == printers # <<>> /\ Printer.ready = TRUE
Space == Room - (Len(sent) - taken)

\* alt_log_printf_proc is called: by the thread or by whatever interrupts it.
Begin(length) ==
  /\ messages < MessageBound
  /\ messages' = messages + 1
  /\ printers' = Append(printers, [message |-> messages + 1, length |-> length,
                                   next |-> 1, ready |-> FALSE])
  /\ broken' = [m \in 1..MessageBound |->
                  IF \E i \in 1..Len(printers) : printers[i].message = m
                  THEN broken[m] + 1 ELSE broken[m]]

\* alt_log_txchar: the loop that reads the room, and the write.
\* Mutant of SeesRoom: the room is not waited for.
SeesRoom_Once == Waiting
SeesRoom == Waiting /\ Space > 0
TxWait ==
  /\ SeesRoom
  /\ printers' = Append(Front(printers), [Printer EXCEPT !.ready = TRUE])
  /\ UNCHANGED <<sent, taken, alt_log_sys_clk_count, alarmed, messages, lost, broken>>
TxWrite ==
  /\ Ready
  /\ IF Space > 0
     THEN sent' = Append(sent, <<Printer.message, Printer.next>>) /\ UNCHANGED lost
     ELSE lost' = [lost EXCEPT ![Printer.message] = @ + 1] /\ UNCHANGED sent
  /\ printers' = IF Printer.next = Printer.length THEN Front(printers)
                 ELSE Append(Front(printers),
                             [Printer EXCEPT !.next = @ + 1, !.ready = FALSE])
  /\ UNCHANGED <<taken, alt_log_sys_clk_count, alarmed, messages, broken>>

HostReads ==
  /\ taken < Len(sent) /\ taken' = taken + 1
  /\ UNCHANGED <<printers, sent, alt_log_sys_clk_count, alarmed, messages, lost, broken>>

-----------------------------------------------------------------------------
(* Who prints. *)

\* The thread: ALT_LOG_PRINT_BOOT, the start-up report of the UART, the echo of write().
ThreadPrints ==
  /\ printers = <<>> /\ (BootOn \/ StartupInfoOn \/ WriteOn)
  /\ \E length \in Lengths : Begin(length)
  /\ UNCHANGED <<sent, taken, alt_log_sys_clk_count, alarmed, lost>>

Interrupts == printers # <<>> /\ Len(printers) < Nesting

\* alt_log_jtag_uart_isr_proc.
IsrPrints ==
  /\ Interrupts /\ IsrOn
  /\ \E length \in Lengths : Begin(length)
  /\ UNCHANGED <<sent, taken, alt_log_sys_clk_count, alarmed, lost>>

\* ALT_LOG_JTAG_UART_ALARM_REGISTER, and the alarm's callback.
AlarmRegister ==
  /\ AlarmOn /\ ~alarmed /\ alarmed' = TRUE
  /\ UNCHANGED <<printers, sent, taken, alt_log_sys_clk_count, messages, lost, broken>>
altera_avalon_jtag_uart_report_log ==
  /\ Interrupts /\ alarmed
  /\ \E length \in Lengths : Begin(length)
  /\ UNCHANGED <<sent, taken, alt_log_sys_clk_count, alarmed, lost>>

\* The heartbeat: a message in every tick in which the count exceeds the interval.
alt_log_system_clock ==
  /\ SysClkOn /\ Len(printers) < Nesting
  /\ IF alt_log_sys_clk_count + 1 > Interval
     THEN /\ alt_log_sys_clk_count' = 0
          /\ \E length \in Lengths : Begin(length)
     ELSE /\ alt_log_sys_clk_count' = alt_log_sys_clk_count + 1
          /\ UNCHANGED <<printers, messages, broken>>
  /\ UNCHANGED <<sent, taken, alarmed, lost>>

LogNext == \/ TxWait \/ TxWrite \/ HostReads
           \/ ThreadPrints \/ IsrPrints \/ AlarmRegister
           \/ altera_avalon_jtag_uart_report_log \/ alt_log_system_clock
-----------------------------------------------------------------------------
\* The places of a message among the characters sent.
PlacesOf(m) == {i \in 1..Len(sent) : sent[i][1] = m}

\* The characters of a message come in its order and none twice.  One is lost only
\* between the look at the room and the write, when a message that breaks in takes
\* the room: never more than one for each message that broke in, and none of a
\* message that nothing interrupts.
LogLosesLittle ==
  \A m \in 1..messages :
    /\ \A i, j \in PlacesOf(m) : i < j => sent[i][2] < sent[j][2]
    /\ lost[m] <= broken[m]
=============================================================================
