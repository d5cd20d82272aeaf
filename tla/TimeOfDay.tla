------------------------------ MODULE TimeOfDay ------------------------------
(***************************************************************************)
(* The time functions of the library: gettimeofday, settimeofday, times    *)
(* (alt_gettod.c, alt_settod.c, alt_times.c) on the tick counter, and the  *)
(* busy loop of usleep (alt_busy_sleep.c).  A machine word holds WORD      *)
(* values and a second US microseconds; TLC uses small numbers for both.   *)
(***************************************************************************)
EXTENDS Integers

CONSTANTS WORD, US,
          Rates,           \* ticks per second of a system clock
          Settings,        \* times given to settimeofday
          CpuFreq,         \* processor cycles in a microsecond, 50 on the board
          CyclesPerLoop    \* 9 for its processor, "tiny", 3 for the others
ASSUME TimeAssumption ==
  /\ WORD \in Nat /\ WORD % 2 = 0 /\ US \in Nat \ {0}
  /\ Rates \subseteq 1..US /\ Settings \subseteq [sec : Nat, usec : 0..(US - 1)]
  /\ CpuFreq \in Nat /\ CyclesPerLoop \in Nat \ {0}
  /\ CpuFreq \div CyclesPerLoop \in 1..(WORD \div 2 - 1)

VARIABLES nticks, tick_rate, resettime,
          set, elapsed    \* history: the last setting, the ticks since

timeVars == <<nticks, tick_rate, resettime, set, elapsed>>

Zero == [sec |-> 0, usec |-> 0]
TimeInit ==
  /\ nticks = 0 /\ tick_rate = 0 /\ resettime = Zero
  /\ set = Zero /\ elapsed = 0

alt_sysclk_init(rate) ==
  /\ tick_rate = 0 /\ tick_rate' = rate
  /\ UNCHANGED <<nticks, resettime, set, elapsed>>

TimeTick ==
  /\ tick_rate # 0
  /\ nticks' = (nticks + 1) % WORD /\ elapsed' = elapsed + 1
  /\ UNCHANGED <<tick_rate, resettime, set>>

-----------------------------------------------------------------------------
Seconds(n) == n \div tick_rate
\* In a 64-bit product; settimeofday has one of 32 bits.
Micros(n) == (n * (US \div tick_rate)) % US
Micros32(n) == ((n * (US \div tick_rate)) % WORD) % US

\* Mutant of Normal: negative microseconds are not borrowed from the seconds.
Normal_NoBorrow(t) ==
  IF t.usec < 0 THEN Zero
  ELSE IF t.usec >= US THEN [sec |-> t.sec + 1, usec |-> t.usec - US] ELSE t
\* A time whose microseconds are off by less than a second either way.
Normal(t) ==
  IF t.usec < 0
  THEN IF t.sec <= 0 THEN Zero ELSE [sec |-> t.sec - 1, usec |-> t.usec + US]
  ELSE IF t.usec >= US THEN [sec |-> t.sec + 1, usec |-> t.usec - US] ELSE t

\* What gettimeofday fills in when there is a clock; without one it answers -ENOTSUP.
ALT_GETTIMEOFDAY ==
  Normal([sec |-> resettime.sec + Seconds(nticks), usec |-> resettime.usec + Micros(nticks)])

ALT_SETTIMEOFDAY(t) ==
  /\ tick_rate # 0
  /\ resettime' = [sec |-> t.sec - Seconds(nticks), usec |-> t.usec - Micros32(nticks)]
  /\ set' = t /\ elapsed' = 0
  /\ UNCHANGED <<nticks, tick_rate>>

\* The ticks since reset; all the processor's time is the system's.
ALT_TIMES == IF tick_rate = 0 THEN 0 ELSE nticks

TimeNext ==
  \/ TimeTick
  \/ \E rate \in Rates : alt_sysclk_init(rate)
  \/ \E t \in Settings : ALT_SETTIMEOFDAY(t)
-----------------------------------------------------------------------------
(* The iterations of the loops of alt_busy_sleep.  A loop that tests after it
   has counted down runs once if it starts at zero and stops below, and WORD
   times if it stops at zero only. *)
INT_MAX == WORD \div 2 - 1
PerMicrosecond == CpuFreq \div CyclesPerLoop
BigLoop == INT_MAX \div PerMicrosecond      \* microseconds of a loop from INT_MAX

LoopBelow(count) == IF count = 0 THEN 1 ELSE count
LoopToZero(count) == IF count = 0 THEN WORD ELSE count

alt_busy_sleep(us) ==
  LET big == us \div BigLoop IN
  IF big = 0 THEN LoopBelow(us * PerMicrosecond)
  ELSE big * INT_MAX + LoopToZero((us - big * BigLoop) * PerMicrosecond)

-----------------------------------------------------------------------------
InMicros(t) == t.sec * US + t.usec

\* The counter when the time was set, and how often it has rolled over since.
SetAt == (nticks - elapsed) % WORD
Rolled == (SetAt + elapsed) \div WORD

\* After settimeofday(t), k ticks of a clock whose rate divides a second are k ticks
\* later than t, also across seconds, but for two things.  Each roll-over of the
\* counter takes the clock back by the ticks of a word.  And if the product of
\* alt_settod.c:84 has left 32 bits by then, the clock is off, from the first call on,
\* by the difference of the two remainders, less than a second either way; the comment
\* there wants that call to give the time set (alt_settod.c:61-63).  A time that would
\* lie before zero may be told as zero.
ClockAgrees ==
  tick_rate # 0 /\ US % tick_rate = 0 =>
    LET cut == Micros(SetAt) - Micros32(SetAt)
        told == InMicros(set) + (elapsed - Rolled * WORD) * (US \div tick_rate) + cut
    IN  InMicros(ALT_GETTIMEOFDAY) = told \/ (told < 0 /\ ALT_GETTIMEOFDAY = Zero)

\* A sleep, in processor cycles of its loops: shorter than asked for by what is cut
\* when the cycles of a microsecond are made whole loops (on the board 50 cycles are 5
\* loops of 9, so that every sleep is a tenth short; alt_busy_sleep.c:75 and 129), and
\* longer than that only by a fraction of a microsecond for every loop of INT_MAX.  But
\* a sleep of a whole number of those counts a word down once more (lines 77-112).
SleepsNearly(us) ==
  LET asked == us * CpuFreq
      cut == us * (CpuFreq % CyclesPerLoop)
      big == us \div BigLoop
      again == IF big > 0 /\ us % BigLoop = 0 THEN WORD ELSE 0
      over == big * (PerMicrosecond - 1) + again + 1
  IN  CyclesPerLoop * alt_busy_sleep(us) \in (asked - cut)..(asked - cut + CyclesPerLoop * over)
=============================================================================
