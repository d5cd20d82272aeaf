-------------------------------- MODULE Kernel --------------------------------
(***************************************************************************)
(* Interrupts and alarms together.  The handler of the system clock runs   *)
(* alt_tick, a step at a time, and may be interrupted like any other; the  *)
(* thread starts and stops alarms inside critical sections, where it reads *)
(* the counter before it puts the alarm on the list.                       *)
(***************************************************************************)
EXTENDS Irq, Alarms

CONSTANTS Clock,    \* the interrupt of the system clock
          None
ASSUME ClockAssumption == Clock \in Id

VARIABLE starting   \* the call of alt_alarm_start that has read the counter

vars == <<irqVars, alarmVars, starting>>

Init == IrqInit /\ AlarmInit /\ starting = None

-----------------------------------------------------------------------------
ClockRuns == (Running("isr") \/ Running("open")) /\ Top.id = Clock /\ ~Top.served

ClockBegin ==
  /\ ClockRuns /\ TickBegin
  /\ line' = line \ {Clock}
  /\ UNCHANGED <<pie, masks, frames, held, starting>>
ClockVisit ==
  /\ ClockRuns /\ (TickPasses \/ TickFires)
  /\ UNCHANGED <<irqVars, starting>>
ClockEnd ==
  /\ ClockRuns /\ TickEnd
  /\ frames' = WithTop([Top EXCEPT !.served = TRUE])
  /\ UNCHANGED <<pie, line, masks, held, starting>>

ServeOther == Serve /\ Top.id # Clock
Interrupts ==
  /\ \/ Dispatcher \/ ServeOther \/ Return
     \/ alt_irq_interruptible \/ alt_irq_non_interruptible
  /\ UNCHANGED <<alarmVars, starting>>
Cpu == Interrupts \/ ClockBegin \/ ClockVisit \/ ClockEnd

-----------------------------------------------------------------------------
InSection == ThreadRuns /\ held # <<>>

\* Mutant of AlarmNote: the counter is read before the section begins.
AlarmNote_TooEarly(a, n) ==
  /\ ThreadRuns /\ held = <<>> /\ starting = None
  /\ starting' = [alarm |-> a, nticks |-> n, now |-> alt_nticks]
  /\ UNCHANGED <<irqVars, alarmVars>>
AlarmNote(a, n) ==
  /\ InSection /\ starting = None /\ ~Listed(links, a)
  /\ starting' = [alarm |-> a, nticks |-> n, now |-> alt_nticks]
  /\ UNCHANGED <<irqVars, alarmVars>>
AlarmInsert ==
  /\ InSection /\ starting # None
  /\ Start(starting.alarm, starting.nticks, starting.now)
  /\ starting' = None
  /\ UNCHANGED irqVars
AlarmStop(a) ==
  /\ InSection /\ starting = None /\ alt_alarm_stop(a)
  /\ UNCHANGED <<irqVars, starting>>
AlarmCalls == \/ AlarmInsert
              \/ \E a \in Alarm : AlarmStop(a) \/ \E n \in Delays : AlarmNote(a, n)

\* A call of alt_alarm_start leaves its section only when the alarm is on the list.
Others == /\ \/ Registration /\ starting = None
             \/ Sections /\ (starting = None \/ held' # <<>>)
          /\ UNCHANGED <<alarmVars, starting>>
Raised == (\E i \in Id : Raise(i)) /\ UNCHANGED <<alarmVars, starting>>

Next == Cpu \/ AlarmCalls \/ Others \/ Raised

Spec == Init /\ [][Next]_vars
\* The processor goes on: what is pending is taken, what runs makes steps.
FairSpec == Spec /\ WF_vars(Cpu)
-----------------------------------------------------------------------------
TypeOK == IrqTypeOK /\ AlarmTypeOK

\* Calls of the thread take effect in one piece, between ticks, although they are
\* made of steps and the tick may be due at any of them.
ImplementsAlarms == AlarmSpec

\* A thread that leaves its critical sections again and again lets the most urgent
\* interrupt be served, whatever other handlers do, except when a tick goes round for
\* ever at an alarm that a callback took off the list.
UrgentServed ==
  []<>(held = <<>>) /\ []<>(~Stray) => ((0 \in alt_irq_pending) ~> (0 \notin alt_irq_pending))

\* When more urgent interrupts fall silent, a tick that has begun comes to its end,
\* whatever its callbacks start and stop, but for one thing: a callback that stops the
\* alarm next on the list leaves the walk at an alarm that points to itself
\* (alt_tick.c:102 and 140, alt_llist.h:115), from where it does not return.
TickReturns ==
  <>[][\A i \in MoreUrgent(Clock) : ~Raise(i)]_vars =>
    ((walk # Outside) ~> (walk = Outside \/ Stray))
=============================================================================
