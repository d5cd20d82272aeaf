-------------------------------- MODULE Alarms --------------------------------
(***************************************************************************)
(* The system clock's alarms: alt_tick.c, alt_alarm_start.c and the        *)
(* circular list alt_llist.h.  alt_tick walks the list and calls what has  *)
(* expired; a callback answers how many ticks to wait for its next call,   *)
(* zero for never, and may itself start or stop an alarm.  Times are       *)
(* counted modulo WORD, and a flag tells a time that lies beyond the next  *)
(* roll-over.  due and stranded are history: the ticks an alarm still has  *)
(* to wait, and whether a callback has ever stopped the very alarm that    *)
(* the walk had noted as the next to visit.                                *)
(***************************************************************************)
EXTENDS Integers

CONSTANTS WORD, Alarm, ListHead, Outside,
          Delays,     \* arguments of alt_alarm_start
          Periods     \* what callbacks answer, apart from zero
ASSUME AlarmAssumption ==
  /\ WORD \in Nat /\ WORD > 1
  /\ ListHead \notin Alarm /\ Outside \notin Alarm \union {ListHead}
  /\ Delays \subseteq 0..(WORD - 2) /\ Periods \subseteq 1..(WORD - 1)

VARIABLES alt_nticks, links, alarm, walk, due, stranded
alarmVars == <<alt_nticks, links, alarm, walk, due, stranded>>

Link == Alarm \union {ListHead}

-----------------------------------------------------------------------------
(* The list.  An alarm that is not on it points to itself. *)

alt_llist_insert(l, entry) ==
  [previous |-> [l.previous EXCEPT ![entry] = ListHead, ![l.next[ListHead]] = entry],
   next     |-> [l.next EXCEPT ![entry] = l.next[ListHead], ![ListHead] = entry]]

alt_llist_remove(l, entry) ==
  [previous |-> [l.previous EXCEPT ![l.next[entry]] = l.previous[entry], ![entry] = entry],
   next     |-> [l.next EXCEPT ![l.previous[entry]] = l.next[entry], ![entry] = entry]]

Listed(l, a) == l.next[a] # a

\* The ticks still due are kept as d says, until a walk is stranded.
Counts(d) == due' = IF stranded' THEN [a \in Alarm |-> 0] ELSE d

\* Mutant of At: no flag.
At_NoFlag(now, delay) == [time |-> (now + delay) % WORD, rollover |-> FALSE]
\* A time delay ticks from now, and whether the counter rolls over before.
At(now, delay) ==
  LET time == (now + delay) % WORD IN [time |-> time, rollover |-> time < now]

\* The roll-over itself clears the flag.
Seen(a, now) == IF now = 0 THEN [a EXCEPT !.rollover = FALSE] ELSE a
Expired(a, now) == a.time <= now /\ ~a.rollover

-----------------------------------------------------------------------------
AlarmInit ==
  /\ alt_nticks = 0
  /\ links = [previous |-> [x \in Link |-> x], next |-> [x \in Link |-> x]]
  /\ alarm = [a \in Alarm |-> [time |-> 0, rollover |-> FALSE]]
  /\ walk = Outside
  /\ due = [a \in Alarm |-> 0]
  /\ stranded = FALSE

\* The calls, on the alarms a caller may name: one that is started is not on the list.
Start(a, n, now) ==
  /\ ~Listed(links, a)
  /\ alarm' = [alarm EXCEPT ![a] = At(now, n + 1)]
  /\ links' = alt_llist_insert(links, a)
  /\ UNCHANGED <<alt_nticks, walk, stranded>>
  /\ Counts([due EXCEPT ![a] = n + 1])

alt_alarm_start(a, n) == Start(a, n, alt_nticks)
alt_alarm_stop(a) == /\ links' = alt_llist_remove(links, a)
                     /\ UNCHANGED <<alt_nticks, alarm, walk, stranded>>
                     /\ Counts([due EXCEPT ![a] = 0])
Call == \E a \in Alarm : alt_alarm_stop(a) \/ \E n \in Delays : alt_alarm_start(a, n)

-----------------------------------------------------------------------------
(* alt_tick. *)

TickBegin ==
  /\ walk = Outside
  /\ alt_nticks' = (alt_nticks + 1) % WORD
  /\ walk' = links.next[ListHead]
  /\ UNCHANGED <<links, alarm, stranded>>
  /\ Counts([a \in Alarm |-> due[a] - (IF Listed(links, a) THEN 1 ELSE 0)])

Visiting == walk \in Alarm
\* The walk is at an alarm that is off the list: what follows it is itself.
Stray == Visiting /\ ~Listed(links, walk)

\* Mutant of TickPasses: an alarm that has not expired is skipped with a continue, past
\* the step to the next one.
TickPasses_Stays ==
  /\ Visiting /\ ~Expired(Seen(alarm[walk], alt_nticks), alt_nticks)
  /\ alarm' = [alarm EXCEPT ![walk] = Seen(@, alt_nticks)]
  /\ UNCHANGED <<walk, alt_nticks, links, due, stranded>>

TickPasses ==
  /\ Visiting /\ ~Expired(Seen(alarm[walk], alt_nticks), alt_nticks)
  /\ alarm' = [alarm EXCEPT ![walk] = Seen(@, alt_nticks)]
  /\ walk' = links.next[walk]
  /\ UNCHANGED <<alt_nticks, links, due, stranded>>

\* alt_tick has looked at the roll-over flag before it calls back.
Undisturbed ==
  [links |-> links, alarm |-> [alarm EXCEPT ![walk] = Seen(@, alt_nticks)], due |-> due]
\* What a callback does before it answers: nothing, start an alarm that is off the
\* list, or stop one, its own and the one that is next on the list included.
Stopping(a) == [Undisturbed EXCEPT !.links = alt_llist_remove(links, a), !.due[a] = 0]
Starting(a, n) == [Undisturbed EXCEPT !.links = alt_llist_insert(links, a),
                                      !.alarm[a] = At(alt_nticks, n + 1),
                                      !.due[a] = n + 1]
Effects == {Undisturbed} \union {Stopping(a) : a \in Alarm}
             \union {Starting(a, n) : a \in {b \in Alarm : ~Listed(links, b)}, n \in Delays}

\* The next call, period ticks after the last was due.  The flag is set, never reset.
Renewed(a, period) ==
  LET time == (a.time + period) % WORD
  IN  [time |-> time, rollover |-> a.rollover \/ time < alt_nticks]

Strands(e) == links.next[walk] \in Alarm /\ ~Listed(e.links, links.next[walk])
\* After the callback e: leave the list, or wait on from the time that has expired.
Answered(e) ==
  /\ stranded' = (stranded \/ Strands(e))
  /\ \/ /\ links' = alt_llist_remove(e.links, walk)
        /\ alarm' = e.alarm
        /\ Counts([e.due EXCEPT ![walk] = 0])
     \/ \E period \in Periods :
          /\ links' = e.links
          /\ alarm' = [e.alarm EXCEPT ![walk] = Renewed(@, period)]
          /\ Counts([e.due EXCEPT ![walk] = IF Listed(e.links, walk) THEN period ELSE 0])

\* The alarm has expired.  The next to visit was noted before the callback, which may
\* have taken it off the list: it then points to itself.
TickFires ==
  /\ Visiting /\ Expired(Seen(alarm[walk], alt_nticks), alt_nticks)
  /\ walk' = links.next[walk]
  /\ \E e \in Effects : Answered(e)
  /\ UNCHANGED alt_nticks

TickEnd == /\ walk = ListHead /\ walk' = Outside
           /\ UNCHANGED <<alt_nticks, links, alarm, due, stranded>>

Walk == TickPasses \/ TickFires \/ TickEnd

\* The calls of a thread come between ticks.
AlarmNext == TickBegin \/ Walk \/ (walk = Outside /\ Call)
AlarmSpec == AlarmInit /\ [][AlarmNext]_alarmVars
-----------------------------------------------------------------------------
\* The list is a circle of distinct elements, and an alarm off it points to itself.
AlarmTypeOK ==
  /\ alt_nticks \in 0..(WORD - 1)
  /\ links \in [previous : [Link -> Link], next : [Link -> Link]]
  /\ alarm \in [Alarm -> [time : 0..(WORD - 1), rollover : BOOLEAN]]
  /\ walk \in Link \union {Outside} /\ stranded \in BOOLEAN
  /\ due \in [Alarm -> (-1)..WORD]
  /\ \A x \in Link : links.previous[links.next[x]] = x /\ links.next[links.previous[x]] = x

\* An alarm is called in the tick it has waited for and in no other, across any
\* number of roll-overs, whatever is started, stopped and renewed before, and
\* during the walk: the comparison of wrapped times agrees with the ticks that
\* are still due, the walk never leaves the list, and no tick ends with a due alarm
\* passed over.  All this as long as no callback has stopped the alarm that the walk
\* had noted as the next (alt_tick.c:102).
OnTime ==
  ~stranded =>
    /\ Visiting => /\ Listed(links, walk)
                   /\ Expired(Seen(alarm[walk], alt_nticks), alt_nticks) <=> due[walk] = 0
    /\ walk = Outside => \A a \in Alarm : Listed(links, a) => due[a] > 0
=============================================================================
