---------------------------- MODULE ServicesProofs ----------------------------
(***************************************************************************)
(* What the parts of the library in MCServices promise, for every value of *)
(* their constants: a program runs only in an environment that is          *)
(* complete, whoever ends it and when; the log loses little; the time told *)
(* is the time set and the ticks since, and sleeps are long enough; the    *)
(* profiler's memory is handed out once and its counts are the calls made; *)
(* numbers are read back from what is printed of them; and the             *)
(* interpreter's arithmetic computes what its comments say, but for the    *)
(* carry of ADD.                                                           *)
(***************************************************************************)
EXTENDS MCServices, SequenceTheorems, FiniteSetTheorems, WellFoundedInduction, TLAPS

-----------------------------------------------------------------------------
(* Sequences. *)

LEMMA Appended ==
  ASSUME NEW S, NEW s \in Seq(S), NEW x \in S
  PROVE  /\ Append(s, x) \in Seq(S) /\ Len(Append(s, x)) = Len(s) + 1
         /\ \A i \in 1..Len(s) : Append(s, x)[i] = s[i]
         /\ Append(s, x)[Len(s) + 1] = x
  BY AppendProperties

LEMMA WithoutLast ==
  ASSUME NEW S, NEW s \in Seq(S), s # <<>>
  PROVE  /\ Len(s) \in Nat \ {0} /\ Last(s) = s[Len(s)] /\ Last(s) \in S
         /\ Front(s) \in Seq(S) /\ Len(Front(s)) = Len(s) - 1
         /\ \A i \in 1..(Len(s) - 1) : Front(s)[i] = s[i]
  <1>1. Len(s) \in Nat \ {0}
    BY EmptySeq, LenProperties
  <1>2. Front(s) = SubSeq(s, 1, Len(s) - 1) /\ Last(s) = s[Len(s)]
    BY DEF Front, Last
  <1>3. \A i \in 1..Len(s) : s[i] \in S
    BY ElementOfSeq
  <1>4. /\ SubSeq(s, 1, Len(s) - 1) \in Seq(S) /\ Len(SubSeq(s, 1, Len(s) - 1)) = Len(s) - 1
        /\ \A i \in 1..(Len(s) - 1) : SubSeq(s, 1, Len(s) - 1)[i] = s[i]
    <2>1. 1 \in Int /\ Len(s) - 1 \in Int /\ \A i \in 1..(Len(s) - 1) : s[i] \in S
      BY <1>1, <1>3
    <2>2. /\ SubSeq(s, 1, Len(s) - 1) \in Seq(S)
          /\ Len(SubSeq(s, 1, Len(s) - 1))
               = IF 1 <= Len(s) - 1 THEN (Len(s) - 1) - 1 + 1 ELSE 0
          /\ \A i \in 1..((Len(s) - 1) - 1 + 1) :
               SubSeq(s, 1, Len(s) - 1)[i] = s[1 + i - 1]
      BY ONLY <2>1, SubSeqProperties
    <2> DEFINE t == SubSeq(s, 1, Len(s) - 1)
    <2>3. Len(t) = Len(s) - 1 /\ \A i \in 1..(Len(s) - 1) : t[i] = s[i]
      <3>1. Len(t) = IF 1 <= Len(s) - 1 THEN (Len(s) - 1) - 1 + 1 ELSE 0
        BY <2>2
      <3>2. \A i \in 1..((Len(s) - 1) - 1 + 1) : t[i] = s[1 + i - 1]
        BY <2>2
      <3> HIDE DEF t
      <3>3. Len(t) = Len(s) - 1
        <4>1. \A k \in Nat \ {0} : (IF 1 <= k - 1 THEN (k - 1) - 1 + 1 ELSE 0) = k - 1
          OBVIOUS
        <4>2. (IF 1 <= Len(s) - 1 THEN (Len(s) - 1) - 1 + 1 ELSE 0) = Len(s) - 1
          BY ONLY <1>1, <4>1
        <4> QED BY ONLY <3>1, <4>2
      <3>4. ASSUME NEW i \in 1..(Len(s) - 1) PROVE t[i] = s[i]
        <4>1. i \in 1..((Len(s) - 1) - 1 + 1) /\ 1 + i - 1 = i
          BY ONLY <1>1
        <4> QED BY ONLY <3>2, <4>1
      <3> QED BY <3>3, <3>4
    <2> QED BY <2>2, <2>3
  <1> QED BY <1>1, <1>2, <1>3, <1>4

LEMMA LastReplaced ==
  ASSUME NEW S, NEW s \in Seq(S), s # <<>>, NEW x \in S
  PROVE  /\ Append(Front(s), x) \in Seq(S) /\ Len(Append(Front(s), x)) = Len(s)
         /\ \A i \in 1..(Len(s) - 1) : Append(Front(s), x)[i] = s[i]
         /\ Append(Front(s), x)[Len(s)] = x
  BY WithoutLast, Appended

-----------------------------------------------------------------------------
(* Division. *)

LEMMA Division ==
  ASSUME NEW a \in Int, NEW b \in Nat \ {0}
  PROVE  /\ a \div b \in Int /\ a % b \in Int
         /\ a = b * (a \div b) + (a % b)
         /\ 0 <= a % b /\ a % b < b
  BY Z3

\* Quotient and remainder are the only ones.
LEMMA DivisionIs ==
  ASSUME NEW a \in Int, NEW b \in Nat \ {0}, NEW q \in Int, NEW s \in Int,
         a = b * q + s, 0 <= s, s < b
  PROVE  a \div b = q /\ a % b = s
  BY Z3

\* Whole seconds and the rest are the time.
LEMMA SecondsAndMicros ==
  ASSUME NEW rate \in Nat \ {0}, NEW us \in Nat \ {0}, us % rate = 0, NEW n \in Nat
  PROVE  /\ us * (n \div rate) + ((n * (us \div rate)) % us) = n * (us \div rate)
         /\ n * (us \div rate) \in Nat
  <1> DEFINE u == us \div rate
             q == n \div rate
             s == n % rate
  <1>1. u \in Int /\ us = rate * u
    BY Division
  <1>2. q \in Int /\ s \in Int /\ n = rate * q + s /\ 0 <= s /\ s < rate
    BY Division
  <1> HIDE DEF u, q, s
  <1>3. u \in Nat \ {0}
    <2>1. CASE u <= 0
      <3>1. rate * u <= 0
        BY <1>1, <2>1, Z3
      <3> QED BY <1>1, <3>1
    <2> QED BY <1>1, <2>1
  <1>4. n * u = us * q + s * u
    BY <1>1, <1>2, Z3
  <1>5. s * u \in Int /\ 0 <= s * u /\ s * u < rate * u
    BY <1>2, <1>3, Z3
  <1>6. n * u \in Nat
    BY <1>3, Z3
  <1>7. (n * u) % us = s * u
    <2>1. n * u \in Int /\ s * u \in Int /\ s * u < us
      BY <1>1, <1>5, <1>6
    <2> QED BY <1>2, <1>4, <1>5, <2>1, DivisionIs
  <1>8. us * q + ((n * u) % us) = n * u
    BY <1>4, <1>7, Zenon
  <1> QED BY <1>6, <1>8 DEF u, q

-----------------------------------------------------------------------------
(* Start and end of a program. *)

BeforeDevices == {"load", "irq", "os", "semaphore", "devices"}
BeforeProgram == BeforeDevices \union {"redirect"}

BootInv ==
  /\ build \in Builds
  /\ stage # "load" => ram = Sections
  /\ stage \notin {"load", "irq"} => "interrupts" \in up
  /\ stage \notin BeforeDevices \ {"devices"} => "file lock" \in up
  /\ stage \notin BeforeDevices => "devices" \in up
  /\ stage \notin BeforeProgram => build.direct \/ "stdio" \in up
  \* What destructs has constructed.
  /\ atexit => Len(built) = Objects /\ stage \notin BeforeProgram \union {"constructors"}
  /\ stage = "destructors" => atexit
  /\ torn # <<>> => Len(built) = Objects /\ stage \notin BeforeProgram \union {"constructors"}

LEMMA BootStarts == BootInit => BootInv
  BY DEF BootInit, BootInv, BeforeDevices, BeforeProgram

LEMMA BootGoesOn == BootInv /\ (BootNext \/ UNCHANGED bootVars) => BootInv'
  <1> SUFFICES ASSUME BootInv, BootNext \/ UNCHANGED bootVars PROVE BootInv'
    OBVIOUS
  <1> USE DEF BootInv, BeforeDevices, BeforeProgram
  <1>1. CASE UNCHANGED bootVars
    BY <1>1 DEF bootVars
  <1>2. CASE \E section \in Sections : CopySection(section)
    BY <1>2 DEF CopySection
  <1>3. CASE Loaded
    BY <1>3 DEF Loaded
  <1>4. CASE Initialise
    <2>1. build.direct \in BOOLEAN /\ build.cplusplus \in BOOLEAN
      BY BootAssumption
    <2>2. CASE Part("irq", "interrupts", "os")
      BY <2>2 DEF Part
    <2>3. CASE Part("os", "os", "semaphore")
      BY <2>3 DEF Part
    <2>4. CASE Part("semaphore", "file lock", "devices")
      BY <2>4 DEF Part
    <2>5. CASE Part("devices", "devices", AfterDevices)
      <3>1. AfterDevices \in {"redirect", "constructors", "main"}
            /\ (AfterDevices # "redirect" => build.direct)
        BY DEF AfterDevices
      <3> QED BY <2>5, <3>1 DEF Part
    <2>6. CASE Part("redirect", "stdio", IF build.cplusplus THEN "constructors" ELSE "main")
      <3>1. stage = "redirect" /\ stage' \in {"constructors", "main"} /\ up' = up \union {"stdio"}
            /\ UNCHANGED <<build, ram, built, torn, atexit>>
        BY <2>6 DEF Part
      <3> QED BY <3>1
    <2> QED BY <1>4, <2>2, <2>3, <2>4, <2>5, <2>6 DEF Initialise
  <1>5. CASE Construct
    <2>1. torn = <<>> /\ ~atexit
      BY <1>5 DEF Construct
    <2> QED BY <1>5, <2>1 DEF Construct
  <1>6. CASE Constructed
    BY <1>6 DEF Constructed
  <1>7. CASE MainReturns \/ Exits
    <2>1. stage \in {"constructors", "main"} /\ up' \in {up, up \ {"stdout"}}
          /\ UNCHANGED <<build, ram, built, torn, atexit>>
      BY <1>7 DEF MainReturns, Exits
    <2>2. stage' \in {exit, "returned"}
      BY <1>7 DEF MainReturns, Exits
    <2>3. (exit = "destructors" /\ atexit) \/ exit = "spinning"
      BY DEF exit
    <2> QED BY <2>1, <2>2, <2>3
  <1>8. CASE Destruct
    BY <1>8 DEF Destruct
  <1>9. CASE ALT_EXIT
    BY <1>9 DEF ALT_EXIT
  <1>10. CASE \E own \in BOOLEAN, sig \in Signals : ALT_KILL(own, sig)
    <2>1. RunsProgram /\ stage' \in {stage, "spinning"}
          /\ UNCHANGED <<build, ram, up, built, torn, atexit>>
      BY <1>10, Zenon DEF ALT_KILL
    <2> QED BY <2>1 DEF RunsProgram
  <1>11. CASE \E h \in BOOLEAN : alt_instruction_exception_register(h)
    <2>1. UNCHANGED <<build, stage, ram, up, built, torn, atexit>>
      BY <1>11, Zenon DEF alt_instruction_exception_register
    <2> QED BY <2>1
  <1>12. CASE alt_instruction_exception_entry
    BY <1>12 DEF alt_instruction_exception_entry, RunsProgram
  <1> QED BY <1>1, <1>2, <1>3, <1>4, <1>5, <1>6, <1>7, <1>8, <1>9, <1>10, <1>11, <1>12
          DEF BootNext

LEMMA BootInvUse == BootInv => ProgramFindsItsWorld
  BY DEF BootInv, ProgramFindsItsWorld, RunsProgram, BeforeDevices, BeforeProgram

\* In every build, whatever calls exit or kill and whenever: constructors and main run
\* with every section in place, the devices initialised and the standard streams on
\* them, and a destructor only when all objects were constructed (alt_main.c,
\* alt_do_ctors.c, alt_exit.c).
THEOREM ProgramsAreAtHome == Spec => []ProgramFindsItsWorld
  <1>1. Init => BootInv
    BY BootStarts DEF Init
  <1>2. BootInv /\ [Next]_vars => BootInv'
    <2> SUFFICES ASSUME BootInv, [Next]_vars PROVE BootNext \/ UNCHANGED bootVars
      BY BootGoesOn
    <2> QED BY DEF Next, vars, Profiling, Timing, Logging, Booting, Counting
  <1> QED BY <1>1, <1>2, BootInvUse, PTL DEF Spec

-----------------------------------------------------------------------------
(* The log. *)

Call_proc == [message : Nat, length : Nat, next : Nat, ready : BOOLEAN]

\* The calls in progress are in the order of their messages.  A message that another
\* has broken into has lost fewer characters than messages broke in, and so has one
\* that is about to write and finds the room gone.  What is still to come of a
\* message comes after what was sent of it.
LogInv ==
  /\ messages \in Nat /\ taken \in Nat
  /\ printers \in Seq(Call_proc)
  /\ \A i \in 1..Len(printers) : printers[i].message \in 1..messages
  /\ sent \in Seq((1..messages) \X Nat)
  /\ lost \in [1..MessageBound -> Nat] /\ broken \in [1..MessageBound -> Nat]
  /\ messages <= MessageBound
  /\ \A i, j \in 1..Len(printers) : i < j => printers[i].message < printers[j].message
  /\ \A i \in 1..Len(printers) :
       i < Len(printers) \/ (printers[i].ready = TRUE /\ ~(Space > 0))
       => lost[printers[i].message] < broken[printers[i].message]
  /\ \A i \in 1..Len(printers), k \in 1..Len(sent) :
       sent[k][1] = printers[i].message => sent[k][2] < printers[i].next
  /\ \A m \in (messages + 1)..MessageBound : lost[m] = 0
  /\ LogLosesLittle

LEMMA LogStarts == LogInit => LogInv
  <1> SUFFICES ASSUME LogInit PROVE LogInv
    OBVIOUS
  <1>1. MessageBound \in Nat
    BY LogAssumption
  <1> QED BY <1>1 DEF LogInit, LogInv, LogLosesLittle

\* A message that breaks in is the latest, and gives every message it breaks into the
\* right to lose one more.
LEMMA BeginKeeps ==
  ASSUME LogInv, NEW length \in Nat, Begin(length), UNCHANGED <<sent, taken, lost>>
  PROVE  LogInv'
  <1> DEFINE new == [message |-> messages + 1, length |-> length, next |-> 1, ready |-> FALSE]
             n == Len(printers)
  <1>1. messages \in Nat /\ messages' = messages + 1 /\ messages' <= MessageBound
        /\ messages' \in Nat /\ MessageBound \in Nat
    BY LogAssumption DEF LogInv, Begin
  <1>2. printers \in Seq(Call_proc) /\ n \in Nat
    BY DEF LogInv
  <1>3. /\ printers' \in Seq(Call_proc) /\ Len(printers') = n + 1
        /\ \A i \in 1..n : printers'[i] = printers[i]
        /\ printers'[n + 1] = new
    <2>1. printers' = Append(printers, new)
      BY DEF Begin
    <2>2. new \in Call_proc
      BY <1>1 DEF Call_proc
    <2> HIDE DEF new
    <2> QED BY <1>2, <2>1, <2>2, Appended
  <1>n. new.message = messages + 1 /\ new.next = 1 /\ ~(new.ready = TRUE)
    OBVIOUS
  <1> HIDE DEF new
  <1>4. \A i \in 1..n : printers[i].message \in 1..messages
    BY DEF LogInv
  <1>5. \A k \in 1..Len(sent) : sent[k][1] \in 1..messages
    BY DEF LogInv
  <1>6. /\ broken' \in [1..MessageBound -> Nat]
        /\ \A m \in 1..MessageBound : broken'[m] >= broken[m]
        /\ \A i \in 1..n : broken'[printers[i].message] = broken[printers[i].message] + 1
    <2>1. broken \in [1..MessageBound -> Nat]
      BY DEF LogInv
    <2>2. broken' = [m \in 1..MessageBound |->
                       IF \E i \in 1..n : printers[i].message = m
                       THEN broken[m] + 1 ELSE broken[m]]
      BY DEF Begin
    <2>3. \A i \in 1..n : printers[i].message \in 1..MessageBound
      BY <1>1, <1>4
    <2> QED BY ONLY <2>1, <2>2, <2>3
  <1>7. \A i, j \in 1..(n + 1) : i < j => printers'[i].message < printers'[j].message
    <2> SUFFICES ASSUME NEW i \in 1..(n + 1), NEW j \in 1..(n + 1), i < j
                 PROVE  printers'[i].message < printers'[j].message
      OBVIOUS
    <2>1. CASE j = n + 1
      BY <1>1, <1>2, <1>3, <1>n, <1>4, <2>1
    <2>2. CASE j \in 1..n
      <3>1. i \in 1..n /\ printers[i].message < printers[j].message
        BY <1>2, <2>2 DEF LogInv
      <3> QED BY <1>3, <2>2, <3>1
    <2> QED BY <1>2, <2>1, <2>2
  <1>8. ASSUME NEW i \in 1..(n + 1),
               i < n + 1 \/ (printers'[i].ready = TRUE /\ ~(Space > 0)')
        PROVE  lost'[printers'[i].message] < broken'[printers'[i].message]
    <2>1. i \in 1..n
      BY <1>2, <1>3, <1>n, <1>8
    <2>2. lost[printers[i].message] <= broken[printers[i].message]
      BY <1>4, <2>1 DEF LogInv, LogLosesLittle
    <2>3. lost[printers[i].message] \in Nat /\ broken[printers[i].message] \in Nat
      BY <1>1, <1>4, <2>1 DEF LogInv
    <2> QED BY <1>3, <1>6, <2>1, <2>2, <2>3
  <1>9. \A i \in 1..(n + 1), k \in 1..Len(sent) :
          sent[k][1] = printers'[i].message => sent[k][2] < printers'[i].next
    <2> SUFFICES ASSUME NEW i \in 1..(n + 1), NEW k \in 1..Len(sent),
                        sent[k][1] = printers'[i].message
                 PROVE  sent[k][2] < printers'[i].next
      OBVIOUS
    <2>1. i \in 1..n
      BY <1>1, <1>2, <1>3, <1>n, <1>5
    <2> QED BY <1>3, <2>1 DEF LogInv
  <1>10. LogLosesLittle'
    <2> SUFFICES ASSUME NEW m \in 1..(messages + 1)
                 PROVE  /\ \A i, j \in PlacesOf(m) : i < j => sent[i][2] < sent[j][2]
                        /\ lost[m] <= broken'[m]
      BY <1>1 DEF LogLosesLittle, PlacesOf
    <2>1. CASE m = messages + 1
      <3>1. PlacesOf(m) = {}
        BY <1>1, <1>5, <2>1 DEF PlacesOf
      <3>2. m \in (messages + 1)..MessageBound /\ m \in 1..MessageBound
        BY <1>1, <2>1
      <3>3. lost[m] = 0
        BY <3>2 DEF LogInv
      <3> QED BY <1>6, <3>1, <3>2, <3>3
    <2>2. CASE m \in 1..messages
      <3>1. m \in 1..MessageBound
        BY <1>1, <2>2
      <3>2. lost[m] \in Nat /\ broken[m] \in Nat /\ broken'[m] \in Nat
        BY <1>6, <3>1 DEF LogInv
      <3> QED BY <1>6, <2>2, <3>1, <3>2 DEF LogInv, LogLosesLittle
    <2> QED BY <1>1, <2>1, <2>2
  <1>11. sent' \in Seq((1..messages') \X Nat)
    <2>1. (1..messages) \X Nat \subseteq (1..messages') \X Nat
      BY <1>1
    <2> QED BY <2>1 DEF LogInv
  <1>12. \A m \in (messages' + 1)..MessageBound : lost'[m] = 0
    BY <1>1 DEF LogInv
  <1>13. \A i \in 1..Len(printers') : printers'[i].message \in 1..messages'
    BY <1>1, <1>2, <1>3, <1>n, <1>4
  <1>14. taken' \in Nat /\ lost' \in [1..MessageBound -> Nat]
    BY DEF LogInv
  <1>15. \A i \in 1..Len(printers') :
           i < Len(printers') \/ (printers'[i].ready = TRUE /\ ~(Space > 0)')
           => lost'[printers'[i].message] < broken'[printers'[i].message]
    BY <1>3, <1>8
  <1> QED BY <1>1, <1>3, <1>6, <1>7, <1>9, <1>10, <1>11, <1>12, <1>13, <1>14, <1>15 DEF LogInv

\* Waiting ends only when there is room.
LEMMA TxWaitKeeps == LogInv /\ TxWait => LogInv'
  <1> SUFFICES ASSUME LogInv, TxWait PROVE LogInv'
    OBVIOUS
  <1> DEFINE n == Len(printers)
             last == [Printer EXCEPT !.ready = TRUE]
  <1>1. /\ printers \in Seq(Call_proc) /\ printers # <<>> /\ Space > 0
        /\ UNCHANGED <<sent, taken, messages, lost, broken>>
        /\ printers' = Append(Front(printers), last)
    BY DEF LogInv, TxWait, SeesRoom, Waiting
  <1>2. Printer = printers[n] /\ Printer \in Call_proc /\ n \in Nat \ {0}
    BY <1>1, WithoutLast DEF Printer
  <1>3. last \in Call_proc /\ last.message = Printer.message /\ last.next = Printer.next
    BY <1>2 DEF Call_proc
  <1> HIDE DEF last
  <1>4. /\ printers' \in Seq(Call_proc) /\ Len(printers') = n
        /\ \A i \in 1..(n - 1) : printers'[i] = printers[i]
        /\ printers'[n] = last
    BY <1>1, <1>3, LastReplaced
  <1>5. \A i \in 1..n : /\ printers'[i].message = printers[i].message
                        /\ printers'[i].next = printers[i].next
    BY <1>2, <1>3, <1>4
  <1>6. (Space > 0)'
    BY <1>1 DEF Space
  <1>7. \A i \in 1..n :
          i < n \/ (printers'[i].ready = TRUE /\ ~(Space > 0)')
          => lost'[printers'[i].message] < broken'[printers'[i].message]
    BY <1>1, <1>5, <1>6 DEF LogInv
  <1>8. \A i \in 1..n : printers'[i].message \in 1..messages
    BY <1>5 DEF LogInv
  <1>9. \A i, j \in 1..n : i < j => printers'[i].message < printers'[j].message
    BY <1>5 DEF LogInv
  <1>10. \A i \in 1..n, k \in 1..Len(sent) :
           sent[k][1] = printers'[i].message => sent[k][2] < printers'[i].next
    BY <1>5 DEF LogInv
  <1>11. LogLosesLittle'
    BY <1>1 DEF LogInv, LogLosesLittle, PlacesOf
  <1> QED BY <1>1, <1>4, <1>7, <1>8, <1>9, <1>10, <1>11 DEF LogInv

LEMMA NextCharacter ==
  ASSUME NEW p \in Call_proc
  PROVE  LET q == [p EXCEPT !.next = @ + 1]
         IN  q \in Call_proc /\ q.message = p.message /\ q.next = p.next + 1
  BY DEF Call_proc

LEMMA NotReady ==
  ASSUME NEW p \in Call_proc
  PROVE  LET q == [p EXCEPT !.ready = FALSE]
         IN  /\ q \in Call_proc /\ q.message = p.message /\ q.next = p.next
             /\ ~(q.ready = TRUE)
  BY DEF Call_proc

\* A character is written after those of its message before it, or lost against a
\* message that broke in.
LEMMA TxWriteKeeps == LogInv /\ TxWrite => LogInv'
  <1> SUFFICES ASSUME LogInv, TxWrite PROVE LogInv'
    OBVIOUS
  <1> DEFINE n == Len(printers)
             last == [Printer EXCEPT !.next = @ + 1, !.ready = FALSE]
             m == Printer.message
             char == <<Printer.message, Printer.next>>
  <1>1. /\ printers \in Seq(Call_proc) /\ printers # <<>> /\ Printer.ready = TRUE
        /\ UNCHANGED <<taken, messages, broken>>
        /\ printers' = (IF Printer.next = Printer.length THEN Front(printers)
                        ELSE Append(Front(printers), last))
    BY DEF LogInv, TxWrite, Ready
  <1>2. Printer = printers[n] /\ Printer \in Call_proc /\ n \in Nat \ {0}
    BY <1>1, WithoutLast DEF Printer
  <1>3. /\ last \in Call_proc /\ last.message = Printer.message
        /\ last.next = Printer.next + 1 /\ ~(last.ready = TRUE)
        /\ Printer.next \in Nat /\ m \in Nat
    <2>1. Printer.next \in Nat /\ m \in Nat /\ Printer.length \in Nat
      BY <1>2 DEF Call_proc
    <2> DEFINE q == [Printer EXCEPT !.next = @ + 1]
    <2>2. last = [q EXCEPT !.ready = FALSE]
      OBVIOUS
    <2>3. q \in Call_proc /\ q.message = Printer.message /\ q.next = Printer.next + 1
      BY <1>2, NextCharacter
    <2> HIDE DEF q, last
    <2>4. /\ last \in Call_proc /\ last.message = q.message /\ last.next = q.next
          /\ ~(last.ready = TRUE)
      BY <2>2, <2>3, NotReady
    <2> QED BY <2>1, <2>3, <2>4
  <1>4. messages \in Nat /\ messages <= MessageBound /\ MessageBound \in Nat
    BY LogAssumption DEF LogInv
  <1>5. m \in 1..messages /\ m \in 1..MessageBound
    BY <1>2, <1>4 DEF LogInv
  <1> HIDE DEF last
  <1>6. /\ printers' \in Seq(Call_proc) /\ Len(printers') \in {n - 1, n}
        /\ \A i \in 1..(n - 1) : printers'[i] = printers[i]
        /\ Len(printers') = n => printers'[n] = last
    BY <1>1, <1>2, <1>3, LastReplaced, WithoutLast
  <1>7. \A i \in 1..Len(printers') :
          \/ i \in 1..(n - 1) /\ printers'[i] = printers[i]
          \/ i = n /\ Len(printers') = n /\ printers'[i] = last
    BY <1>2, <1>6
  <1>8. \A i \in 1..(n - 1) : printers[i].message \in 1..messages /\ printers[i].message < m
    BY <1>2 DEF LogInv
  <1>10. \A i \in 1..Len(printers') : printers'[i].message \in 1..messages
    BY <1>3, <1>5, <1>7, <1>8
  <1>11. ASSUME NEW i \in 1..Len(printers'), NEW j \in 1..Len(printers'), i < j
         PROVE  printers'[i].message < printers'[j].message
    <2>1. i \in 1..(n - 1) /\ printers'[i] = printers[i]
      BY <1>2, <1>7, <1>11
    <2>2. CASE j \in 1..(n - 1) /\ printers'[j] = printers[j]
      <3>1. i \in 1..n /\ j \in 1..n
        BY <1>2, <2>1, <2>2
      <3> QED BY <1>11, <2>1, <2>2, <3>1 DEF LogInv
    <2>3. CASE j = n /\ printers'[j] = last
      BY <1>3, <1>8, <2>1, <2>3
    <2> QED BY <1>7, <2>2, <2>3
  <1>9. CASE Space > 0
    <2>1. sent' = Append(sent, char) /\ UNCHANGED lost
      BY <1>9 DEF TxWrite
    <2>2. char \in (1..messages) \X Nat /\ char[1] = m /\ char[2] = Printer.next
      BY <1>3, <1>5
    <2>3. sent \in Seq((1..messages) \X Nat)
      BY DEF LogInv
    <2> DEFINE l == Len(sent)
    <2>4. /\ sent' \in Seq((1..messages) \X Nat) /\ Len(sent') = l + 1 /\ l \in Nat
          /\ \A k \in 1..l : sent'[k] = sent[k]
          /\ sent'[l + 1] = char
      <3> HIDE DEF char
      <3> QED BY <2>1, <2>2, <2>3, Appended
    <2> HIDE DEF char
    <2>5. \A k \in 1..l : sent[k][1] = m => sent[k][2] < Printer.next
      <3>1. n \in 1..n
        BY <1>2
      <3> QED BY <1>2, <3>1 DEF LogInv
    <2>6. \A k \in 1..l : sent[k][2] \in Nat
      BY <2>3
    <2>7. ASSUME NEW i \in 1..Len(printers'), NEW k \in 1..Len(sent'),
                 sent'[k][1] = printers'[i].message
          PROVE  sent'[k][2] < printers'[i].next
      <3>1. CASE i \in 1..(n - 1) /\ printers'[i] = printers[i]
        <4>1. k \in 1..l
          BY <1>3, <1>8, <2>2, <2>4, <2>7, <3>1
        <4>2. i \in 1..n
          BY <1>2, <3>1
        <4> QED BY <2>4, <2>7, <3>1, <4>1, <4>2 DEF LogInv
      <3>2. CASE i = n /\ printers'[i] = last
        <4>1. CASE k = l + 1
          BY <1>3, <2>2, <2>4, <3>2, <4>1
        <4>2. CASE k \in 1..l
          <5>1. sent[k][2] < Printer.next /\ sent[k][2] \in Nat /\ sent'[k] = sent[k]
            BY <1>3, <2>4, <2>5, <2>6, <2>7, <3>2, <4>2
          <5> QED BY <1>3, <3>2, <5>1
        <4> QED BY <2>4, <4>1, <4>2
      <3> QED BY <1>7, <3>1, <3>2
    <2>8. LogLosesLittle'
      <3> SUFFICES ASSUME NEW q \in 1..messages
                   PROVE  /\ \A i, j \in PlacesOf(q)' : i < j => sent'[i][2] < sent'[j][2]
                          /\ lost[q] <= broken[q]
        BY <1>1, <2>1 DEF LogLosesLittle
      <3>1. lost[q] <= broken[q]
        BY DEF LogInv, LogLosesLittle
      <3>2. ASSUME NEW i \in PlacesOf(q)', NEW j \in PlacesOf(q)', i < j
            PROVE  sent'[i][2] < sent'[j][2]
        <4>1. i \in 1..l /\ j \in 1..(l + 1) /\ sent'[i][1] = q /\ sent'[j][1] = q
          BY <2>4, <3>2 DEF PlacesOf
        <4>2. CASE j = l + 1
          BY <2>2, <2>4, <2>5, <4>1, <4>2
        <4>3. CASE j \in 1..l
          <5>1. i \in PlacesOf(q) /\ j \in PlacesOf(q)
            BY <2>4, <4>1, <4>3 DEF PlacesOf
          <5> QED BY <2>4, <3>2, <4>1, <4>3, <5>1 DEF LogInv, LogLosesLittle
        <4>4. j = l + 1 \/ j \in 1..l
          <5>1. l \in Nat /\ j \in 1..(l + 1)
            BY <2>4, <4>1
          <5> HIDE DEF l
          <5> QED BY ONLY <5>1
        <4> QED BY <4>2, <4>3, <4>4
      <3> QED BY <3>1, <3>2
    <2>9. ASSUME NEW i \in 1..Len(printers'),
                 i < Len(printers') \/ (printers'[i].ready = TRUE /\ ~(Space > 0)')
          PROVE  lost'[printers'[i].message] < broken'[printers'[i].message]
      <3>1. i \in 1..(n - 1) /\ printers'[i] = printers[i]
        BY <1>2, <1>3, <1>6, <1>7, <2>9
      <3>2. i \in 1..n /\ i < n
        BY <1>2, <3>1
      <3> QED BY <1>1, <2>1, <3>1, <3>2 DEF LogInv
    <2>10. lost' \in [1..MessageBound -> Nat] /\ broken' \in [1..MessageBound -> Nat]
           /\ \A q \in (messages + 1)..MessageBound : lost'[q] = 0
      BY <1>1, <2>1 DEF LogInv
    <2>11. taken' \in Nat
      BY <1>1 DEF LogInv
    <2> QED BY <1>1, <1>4, <1>6, <1>10, <1>11, <2>4, <2>7, <2>8, <2>9, <2>10, <2>11 DEF LogInv
  <1>12. CASE ~(Space > 0)
    <2>1. lost' = [lost EXCEPT ![m] = @ + 1] /\ UNCHANGED sent
      BY <1>12 DEF TxWrite
    <2>2. lost \in [1..MessageBound -> Nat] /\ broken \in [1..MessageBound -> Nat]
      BY DEF LogInv
    <2>3. lost' \in [1..MessageBound -> Nat] /\ lost'[m] = lost[m] + 1
          /\ \A q \in 1..MessageBound : q # m => lost'[q] = lost[q]
      BY <1>5, <2>1, <2>2
    <2>4. lost[m] < broken[m]
      <3>1. n \in 1..n
        BY <1>2
      <3> QED BY <1>1, <1>2, <1>12, <3>1 DEF LogInv
    <2>5. ASSUME NEW i \in 1..Len(printers'),
                 i < Len(printers') \/ (printers'[i].ready = TRUE /\ ~(Space > 0)')
          PROVE  lost'[printers'[i].message] < broken'[printers'[i].message]
      <3>1. i \in 1..(n - 1) /\ printers'[i] = printers[i]
        BY <1>2, <1>3, <1>6, <1>7, <2>5
      <3>2. i \in 1..n /\ i < n
        BY <1>2, <3>1
      <3>3. lost[printers[i].message] < broken[printers[i].message]
        BY <3>2 DEF LogInv
      <3>4. printers[i].message # m /\ printers[i].message \in 1..MessageBound
        BY <1>3, <1>4, <1>8, <3>1
      <3> QED BY <1>1, <2>3, <3>1, <3>3, <3>4
    <2>6. LogLosesLittle'
      <3> SUFFICES ASSUME NEW q \in 1..messages
                   PROVE  /\ \A i, j \in PlacesOf(q) : i < j => sent[i][2] < sent[j][2]
                          /\ lost'[q] <= broken[q]
        BY <1>1, <2>1 DEF LogLosesLittle, PlacesOf
      <3>1. /\ \A i, j \in PlacesOf(q) : i < j => sent[i][2] < sent[j][2]
            /\ lost[q] <= broken[q]
        BY DEF LogInv, LogLosesLittle
      <3>2. q \in 1..MessageBound /\ lost[m] \in Nat /\ broken[m] \in Nat
        BY <1>4, <1>5, <2>2
      <3> QED BY <2>3, <2>4, <3>1, <3>2
    <2>7. \A q \in (messages + 1)..MessageBound : lost'[q] = 0
      <3>1. \A q \in (messages + 1)..MessageBound : q # m /\ q \in 1..MessageBound /\ lost[q] = 0
        BY <1>4, <1>5 DEF LogInv
      <3> QED BY <2>3, <3>1
    <2>8. ASSUME NEW i \in 1..Len(printers'), NEW k \in 1..Len(sent),
                 sent[k][1] = printers'[i].message
          PROVE  sent[k][2] < printers'[i].next
      <3>0. sent[k][2] \in Nat
        BY DEF LogInv
      <3>1. CASE i \in 1..(n - 1) /\ printers'[i] = printers[i]
        <4>1. i \in 1..n
          BY <1>2, <3>1
        <4> QED BY <2>8, <3>1, <4>1 DEF LogInv
      <3>2. CASE i = n /\ printers'[i] = last
        <4>1. sent[k][1] = printers[n].message /\ n \in 1..n
          BY <1>2, <1>3, <2>8, <3>2
        <4>2. sent[k][2] < Printer.next
          BY <1>2, <4>1 DEF LogInv
        <4> QED BY <1>3, <3>0, <3>2, <4>2
      <3> QED BY <1>7, <3>1, <3>2
    <2>9. taken' \in Nat /\ sent' \in Seq((1..messages) \X Nat)
      BY <1>1, <2>1 DEF LogInv
    <2>10. UNCHANGED <<sent, messages, broken>>
      BY <1>1, <2>1
    <2> QED BY <1>4, <1>6, <1>10, <1>11, <2>2, <2>3, <2>5, <2>6, <2>7, <2>8, <2>9, <2>10
            DEF LogInv
  <1> QED BY <1>9, <1>12

LEMMA LogGoesOn == LogInv /\ (LogNext \/ UNCHANGED logVars) => LogInv'
  <1> SUFFICES ASSUME LogInv, LogNext \/ UNCHANGED logVars PROVE LogInv'
    OBVIOUS
  <1>1. ASSUME UNCHANGED <<printers, sent, taken, messages, lost, broken>> PROVE LogInv'
    BY <1>1 DEF LogInv, LogLosesLittle, PlacesOf, Space
  <1>2. CASE TxWait \/ TxWrite
    BY <1>2, TxWaitKeeps, TxWriteKeeps
  <1>3. CASE HostReads
    <2>1. taken' = taken + 1 /\ UNCHANGED <<printers, sent, messages, lost, broken>>
      BY <1>3 DEF HostReads
    <2>2. (Space > 0) => (Space > 0)'
      BY <2>1, LogAssumption DEF LogInv, Space
    <2>3. taken' \in Nat
      BY <2>1 DEF LogInv
    <2> QED BY <2>1, <2>2, <2>3 DEF LogInv, LogLosesLittle, PlacesOf
  <1>4. CASE ThreadPrints \/ IsrPrints \/ altera_avalon_jtag_uart_report_log
    <2>1. (\E length \in Lengths : Begin(length)) /\ UNCHANGED <<sent, taken, lost>>
      BY <1>4 DEF ThreadPrints, IsrPrints, altera_avalon_jtag_uart_report_log
    <2> QED BY <2>1, BeginKeeps, LogAssumption
  <1>5. CASE AlarmRegister
    BY <1>1, <1>5 DEF AlarmRegister
  <1>6. CASE alt_log_system_clock
    <2>1. UNCHANGED <<sent, taken, lost>>
      BY <1>6 DEF alt_log_system_clock
    <2>2. (\E length \in Lengths : Begin(length)) \/ UNCHANGED <<printers, messages, broken>>
      BY <1>6 DEF alt_log_system_clock
    <2> QED BY <1>1, <2>1, <2>2, BeginKeeps, LogAssumption
  <1>7. CASE UNCHANGED logVars
    BY <1>1, <1>7 DEF logVars
  <1> QED BY <1>2, <1>3, <1>4, <1>5, <1>6, <1>7 DEF LogNext

\* At every level of the log, with any room in the UART and any messages breaking into
\* each other: the characters of a message come in its order, and no more of them are
\* lost than messages broke in (alt_log_printf.c 96-140).
THEOREM LogIsNearlyComplete == Spec => []LogLosesLittle
  <1>1. Init => LogInv
    BY LogStarts DEF Init
  <1>2. LogInv /\ [Next]_vars => LogInv'
    <2> SUFFICES ASSUME LogInv, [Next]_vars PROVE LogNext \/ UNCHANGED logVars
      BY LogGoesOn
    <2> QED BY DEF Next, vars, Profiling, Timing, Logging, Booting, Counting
  <1>3. LogInv => LogLosesLittle
    BY DEF LogInv
  <1> QED BY <1>1, <1>2, <1>3, PTL DEF Spec

-----------------------------------------------------------------------------
(* Time of day and sleep. *)

LEMMA TimeConstants ==
  /\ WORD \in Nat /\ US \in Nat \ {0} /\ INT_MAX \in Nat /\ WORD = 2 * INT_MAX + 2
  /\ PerMicrosecond \in Nat \ {0} /\ PerMicrosecond <= INT_MAX
  /\ \A rate \in Rates : rate \in Nat \ {0}
  /\ \A t \in Settings : t.sec \in Nat /\ t.usec \in 0..(US - 1)
  <1>1. WORD \in Nat /\ WORD % 2 = 0 /\ PerMicrosecond \in 1..(WORD \div 2 - 1)
    BY TimeAssumption DEF PerMicrosecond
  <1> DEFINE half == WORD \div 2
  <1>2. half \in Int /\ WORD = 2 * half
    BY <1>1, Z3
  <1> HIDE DEF half
  <1>3. INT_MAX = half - 1 /\ PerMicrosecond \in 1..(half - 1)
    BY <1>1 DEF INT_MAX, half
  <1>4. US \in Nat \ {0} /\ Rates \subseteq 1..US
    BY TimeAssumption
  <1>5. \A t \in Settings : t.sec \in Nat /\ t.usec \in 0..(US - 1)
    BY TimeAssumption
  <1> QED BY <1>1, <1>2, <1>3, <1>4, <1>5

\* What settimeofday subtracts from the time that is set.
Offset(t, n) == [sec |-> t.sec - Seconds(n), usec |-> t.usec - Micros32(n)]

TimeInv ==
  /\ nticks \in 0..(WORD - 1) /\ elapsed \in Nat
  /\ tick_rate \in Rates \union {0}
  /\ set \in [sec : Nat, usec : 0..(US - 1)]
  /\ tick_rate = 0 => nticks = 0 /\ elapsed = 0 /\ set = Zero /\ resettime = Zero
  /\ tick_rate # 0 => resettime = Offset(set, SetAt)

LEMMA TimeStarts == TimeInit => TimeInv
  BY TimeConstants DEF TimeInit, TimeInv, Zero

\* A tick does not change when the time was set, nor does the counter's roll-over.
LEMMA SetAtStays ==
  ASSUME NEW w \in Nat \ {0}, NEW n \in 0..(w - 1), NEW e \in Nat, NEW m,
         m = IF n + 1 < w THEN n + 1 ELSE 0
  PROVE  (m - (e + 1)) % w = (n - e) % w
  <1>1. CASE n + 1 < w
    <2>1. m - (e + 1) = n - e
      BY <1>1
    <2> QED BY <2>1
  <1>2. CASE ~(n + 1 < w)
    <2> DEFINE q == (n - e) \div w
               s == (n - e) % w
    <2>1. q \in Int /\ s \in Int /\ n - e = w * q + s /\ 0 <= s /\ s < w
      BY Division
    <2> HIDE DEF q, s
    <2>2. m - (e + 1) = (n - e) - w /\ m - (e + 1) \in Int
      BY <1>2
    <2> DEFINE x == m - (e + 1)
               p == q - 1
    <2>3. x \in Int /\ p \in Int /\ x = w * p + s
      BY <2>1, <2>2, Z3
    <2> HIDE DEF x, p
    <2>4. x % w = s
      BY <2>1, <2>3, DivisionIs
    <2> QED BY <2>4 DEF s, x
  <1> QED BY <1>1, <1>2

LEMMA NoTicks ==
  ASSUME NEW rate \in Nat \ {0}, NEW us \in Nat \ {0}, NEW w \in Nat \ {0}
  PROVE  0 \div rate = 0 /\ ((0 * (us \div rate)) % w) % us = 0
  <1>1. us \div rate \in Int
    BY Z3
  <1>2. 0 * (us \div rate) = 0 
    BY <1>1, Z3
  <1>3. 0 \div rate = 0 /\ 0 % w = 0 /\ 0 % us = 0
    BY Z3
  <1> QED BY <1>2, <1>3

LEMMA TimeGoesOn == TimeInv /\ (TimeNext \/ UNCHANGED timeVars) => TimeInv'
  <1> SUFFICES ASSUME TimeInv, TimeNext \/ UNCHANGED timeVars PROVE TimeInv'
    OBVIOUS
  <1>0. WORD \in Nat \ {0} /\ US \in Nat \ {0} /\ nticks \in Nat /\ elapsed \in Nat
    BY TimeConstants DEF TimeInv
  <1>1. CASE UNCHANGED timeVars
    BY <1>1 DEF timeVars, TimeInv, Offset, Seconds, Micros32, SetAt
  <1>2. CASE TimeTick
    <2>1. /\ tick_rate # 0 /\ nticks' = (nticks + 1) % WORD /\ elapsed' = elapsed + 1
          /\ UNCHANGED <<tick_rate, resettime, set>>
      BY <1>2 DEF TimeTick
    <2>2. nticks' = IF nticks + 1 < WORD THEN nticks + 1 ELSE 0
      <3>1. nticks \in 0..(WORD - 1)
        BY DEF TimeInv
      <3> QED BY <1>0, <2>1, <3>1
    <2>3. nticks' \in 0..(WORD - 1) /\ elapsed' \in Nat
      BY <1>0, <2>1, <2>2
    <2>4. resettime' = Offset(set, SetAt)'
      <3>1. SetAt' = SetAt
        <4>1. nticks \in 0..(WORD - 1)
          BY DEF TimeInv
        <4>2. (nticks' - (elapsed + 1)) % WORD = (nticks - elapsed) % WORD
          BY <1>0, <2>2, <4>1, SetAtStays
        <4> QED BY <2>1, <4>2 DEF SetAt
      <3>2. resettime = Offset(set, SetAt)
        BY <2>1 DEF TimeInv
      <3> QED BY <2>1, <3>1, <3>2 DEF Offset, Seconds, Micros32
    <2> QED BY <2>1, <2>3, <2>4 DEF TimeInv
  <1>3. CASE \E rate \in Rates : alt_sysclk_init(rate)
    <2> PICK rate \in Rates : alt_sysclk_init(rate)
      BY <1>3
    <2>1. /\ tick_rate = 0 /\ tick_rate' = rate /\ rate \in Nat \ {0}
          /\ UNCHANGED <<nticks, resettime, set, elapsed>>
      BY TimeConstants DEF alt_sysclk_init
    <2>2. nticks = 0 /\ elapsed = 0 /\ set = Zero /\ resettime = Zero
      BY <2>1 DEF TimeInv
    <2>3. Seconds(0)' = 0 /\ Micros32(0)' = 0
      BY <1>0, <2>1, NoTicks DEF Seconds, Micros32
    <2>4. Offset(Zero, 0)' = Zero
      BY <2>3 DEF Offset, Zero
    <2>5. SetAt' = 0
      <3>1. (0 - 0) % WORD = 0
        BY <1>0, DivisionIs
      <3> QED BY <2>1, <2>2, <3>1 DEF SetAt
    <2> QED BY <2>1, <2>2, <2>4, <2>5 DEF TimeInv, Offset
  <1>4. CASE \E t \in Settings : ALT_SETTIMEOFDAY(t)
    <2> PICK t \in Settings : ALT_SETTIMEOFDAY(t)
      BY <1>4
    <2>1. /\ tick_rate # 0 /\ set' = t /\ elapsed' = 0 /\ UNCHANGED <<nticks, tick_rate>>
          /\ resettime' = [sec |-> t.sec - Seconds(nticks), usec |-> t.usec - Micros32(nticks)]
      BY DEF ALT_SETTIMEOFDAY
    <2>2. resettime' = Offset(set, SetAt)'
      <3>1. nticks \in 0..(WORD - 1) /\ WORD * 0 = 0
        BY <1>0, Z3 DEF TimeInv
      <3>2. (nticks - 0) % WORD = nticks
        BY <1>0, <3>1, DivisionIs
      <3>3. SetAt' = nticks
        BY <2>1, <3>2 DEF SetAt
      <3> QED BY <1>0, <2>1, <3>3 DEF Offset, Seconds, Micros32
    <2>3. t \in [sec : Nat, usec : 0..(US - 1)]
      BY TimeAssumption
    <2> QED BY <2>1, <2>2, <2>3 DEF TimeInv
  <1> QED BY <1>1, <1>2, <1>3, <1>4 DEF TimeNext

\* The microseconds that are carried to or borrowed from the seconds are the same time.
LEMMA NormalKeepsTime ==
  ASSUME NEW sec \in Int, NEW usec \in Int, -US <= usec, US \in Nat \ {0}
  PROVE  LET told == sec * US + usec
             normal == Normal([sec |-> sec, usec |-> usec])
         IN  InMicros(normal) = told \/ (told < 0 /\ normal = Zero)
  <1>1. sec <= 0 => sec * US <= 0
    BY Z3
  <1>2. (sec - 1) * US + (usec + US) = sec * US + usec
        /\ (sec + 1) * US + (usec - US) = sec * US + usec
    BY Z3
  <1>3. CASE usec < 0 /\ sec <= 0
    <2>1. sec * US \in Int
      BY Z3
    <2> QED BY <1>1, <1>3, <2>1 DEF Normal
  <1>4. CASE usec < 0 /\ ~(sec <= 0)
    BY <1>2, <1>4 DEF InMicros, Normal
  <1>5. CASE usec >= US
    BY <1>2, <1>5 DEF InMicros, Normal
  <1>6. CASE ~(usec < 0) /\ ~(usec >= US)
    BY <1>6 DEF InMicros, Normal
  <1> QED BY <1>3, <1>4, <1>5, <1>6

\* The time set, less the ticks until then, plus the ticks until now.
LEMMA TimesAdd ==
  ASSUME NEW us \in Nat \ {0}, NEW s \in Nat, NEW f \in Nat,
         NEW a \in Int, NEW b \in Int, NEW ra \in Int, NEW rb \in Int, NEW rc \in Int,
         NEW u \in Int, NEW m \in Int, NEW n \in Int, NEW k \in Int,
         us * a + ra = m * u, us * b + rb = n * u, n = m + k
  PROVE  (s - a + b) * us + (f - rc + rb) = (s * us + f + k * u) + (ra - rc)
  <1>1. n * u = m * u + k * u
    BY Z3
  <1>2. (s - a + b) * us = (s * us - us * a) + us * b
    BY Z3
  <1> DEFINE A == us * a
             B == us * b
             S == s * us
             M == m * u
             K == k * u
             N == n * u
  <1>3. A \in Int /\ B \in Int /\ S \in Int /\ M \in Int /\ K \in Int /\ N \in Int
    BY Z3
  <1>4. A + ra = M /\ B + rb = N /\ N = M + K /\ (s - a + b) * us = (S - A) + B
    BY <1>1, <1>2
  <1> HIDE DEF A, B, S, M, K, N
  <1>5. (s - a + b) * us + (f - rc + rb) = (S + f + K) + (ra - rc)
    BY <1>3, <1>4
  <1> QED BY <1>5 DEF S, K

\* The ticks since the time was set are those on the counter, and a word's for every
\* roll-over.
LEMMA TicksSince ==
  ASSUME TimeInv
  PROVE  SetAt \in Nat /\ Rolled \in Int /\ nticks = SetAt + (elapsed - Rolled * WORD)
  <1> DEFINE q == (nticks - elapsed) \div WORD
  <1>1. WORD \in Nat \ {0} /\ nticks \in 0..(WORD - 1) /\ nticks \in Nat /\ elapsed \in Nat
    BY TimeConstants DEF TimeInv
  <1>2. q \in Int /\ SetAt \in Int /\ nticks - elapsed = WORD * q + SetAt /\ 0 <= SetAt
    BY <1>1, Division DEF SetAt
  <1> HIDE DEF q
  <1>3. SetAt + elapsed = WORD * (-q) + nticks /\ SetAt + elapsed \in Int
    BY <1>1, <1>2, Z3
  <1>4. Rolled = -q
    BY <1>1, <1>2, <1>3, DivisionIs DEF Rolled
  <1>5. Rolled \in Int /\ nticks = SetAt + (elapsed - Rolled * WORD)
    <2>1. nticks = SetAt + (elapsed - (-q) * WORD)
      BY <1>1, <1>2, Z3
    <2> QED BY <1>2, <1>4, <2>1
  <1> QED BY <1>2, <1>5

LEMMA ClockInv == TimeInv => ClockAgrees
  <1> DEFINE u == US \div tick_rate
             m == SetAt
             k == elapsed - Rolled * WORD
             cut == Micros(m) - Micros32(m)
             told == (set.sec * US + set.usec + k * u) + cut
             sec == set.sec - Seconds(m) + Seconds(nticks)
             usec == set.usec - Micros32(m) + Micros(nticks)
  <1> SUFFICES ASSUME TimeInv, tick_rate # 0, US % tick_rate = 0
               PROVE  InMicros(ALT_GETTIMEOFDAY) = told \/ (told < 0 /\ ALT_GETTIMEOFDAY = Zero)
    BY DEF ClockAgrees, InMicros
  <1>1. /\ tick_rate \in Nat \ {0} /\ US \in Nat \ {0} /\ WORD \in Nat \ {0}
        /\ nticks \in Nat /\ elapsed \in Nat
    BY TimeConstants DEF TimeInv
  <1>2. m \in Nat /\ k \in Int /\ nticks = m + k
    <2>1. SetAt \in Nat /\ Rolled \in Int /\ nticks = SetAt + (elapsed - Rolled * WORD)
      BY TicksSince
    <2>2. Rolled * WORD \in Int
      BY <1>1, <2>1, Z3
    <2> QED BY <1>1, <2>1, <2>2
  <1>3. set.sec \in Nat /\ set.usec \in Nat
    BY <1>1 DEF TimeInv
  <1>4. /\ US * Seconds(nticks) + Micros(nticks) = nticks * u /\ nticks * u \in Nat
        /\ US * Seconds(m) + Micros(m) = m * u /\ m * u \in Nat /\ u \in Int
    <2>1. u \in Int
      BY <1>1, Division
    <2> HIDE DEF m
    <2>2. \A n \in Nat : US * Seconds(n) + Micros(n) = n * u /\ n * u \in Nat
      BY <1>1, SecondsAndMicros DEF Seconds, Micros
    <2> HIDE DEF u
    <2> QED BY <1>1, <1>2, <2>1, <2>2
  <1>5. /\ Seconds(nticks) \in Int /\ Seconds(m) \in Int
        /\ Micros(nticks) \in Nat /\ Micros(m) \in Nat
        /\ Micros32(m) \in Nat /\ Micros32(m) < US
    <2> HIDE DEF m
    <2>1. nticks * u \in Int /\ m * u \in Int
      BY <1>4
    <2> HIDE DEF u
    <2>2. (m * u) % WORD \in Int
      BY <1>1, <2>1, Division
    <2>3. Micros32(m) \in Nat /\ Micros32(m) < US
      BY <1>1, <2>2, Division DEF Micros32, u
    <2> QED BY <1>1, <1>2, <2>1, <2>3, Division DEF Seconds, Micros, u
  <1>6. resettime = [sec |-> set.sec - Seconds(m), usec |-> set.usec - Micros32(m)]
    BY DEF TimeInv, Offset
  <1>7. ALT_GETTIMEOFDAY = Normal([sec |-> sec, usec |-> usec])
    BY <1>6 DEF ALT_GETTIMEOFDAY
  <1> HIDE DEF m, k, u
  <1>8. sec * US + usec = told
    <2> DEFINE a == Seconds(m)
               b == Seconds(nticks)
               ra == Micros(m)
               rb == Micros(nticks)
               rc == Micros32(m)
               s == set.sec
               f == set.usec
    <2>1. /\ s \in Nat /\ f \in Nat /\ a \in Int /\ b \in Int /\ ra \in Int /\ rb \in Int /\ rc \in Int
          /\ US * a + ra = m * u /\ US * b + rb = nticks * u /\ nticks \in Int /\ m \in Int
      BY <1>1, <1>2, <1>3, <1>4, <1>5
    <2> HIDE DEF a, b, ra, rb, rc, s, f
    <2>2. (s - a + b) * US + (f - rc + rb) = (s * US + f + k * u) + (ra - rc)
      BY <1>1, <1>2, <1>4, <2>1, TimesAdd
    <2> QED BY <2>2 DEF a, b, ra, rb, rc, s, f
  <1>9. sec \in Int /\ usec \in Int /\ -US <= usec
    BY <1>1, <1>3, <1>5
  <1> HIDE DEF sec, usec, told
  <1> QED BY <1>1, <1>7, <1>8, <1>9, NormalKeepsTime

\* How the loops split a time: big whole loops and a rest.
LEMMA LoopsSplit ==
  ASSUME NEW us \in Nat
  PROVE  \E B \in Nat \ {0}, e \in 0..(PerMicrosecond - 1), big \in Nat, rest \in Nat :
           /\ BigLoop = B /\ us \div BigLoop = big /\ us % BigLoop = rest
           /\ us - big * BigLoop = rest
           /\ big * INT_MAX + rest * PerMicrosecond = us * PerMicrosecond + big * e
  <1> DEFINE P == PerMicrosecond
             B == INT_MAX \div P
             e == INT_MAX % P
             big == us \div B
             rest == us % B
  <1>1. P \in Nat \ {0} /\ INT_MAX \in Nat /\ P <= INT_MAX
    BY TimeConstants
  <1>2. B \in Int /\ e \in Int /\ INT_MAX = P * B + e /\ 0 <= e /\ e < P
    BY <1>1, Division
  <1>3. BigLoop = B
    BY DEF BigLoop
  <1> HIDE DEF P, B, e
  <1>4. B \in Nat \ {0}
    <2>1. CASE B <= 0
      <3>1. P * B <= 0
        BY <1>1, <1>2, <2>1, Z3
      <3> QED BY <1>1, <1>2, <3>1
    <2> QED BY <1>2, <2>1
  <1>5. big \in Int /\ rest \in Int /\ us = B * big + rest /\ 0 <= rest
    BY <1>4, Division
  <1>6. big >= 0
    BY <1>4, Z3
  <1>7. us \div BigLoop = big /\ us % BigLoop = rest
    BY <1>3
  <1> HIDE DEF big, rest
  <1>8. us - big * B = rest
    BY <1>4, <1>5, Z3
  <1>9. big * INT_MAX + rest * P = us * P + big * e
    BY <1>1, <1>2, <1>4, <1>5, Z3
  <1>10. e \in 0..(P - 1) /\ big \in Nat /\ rest \in Nat
    BY <1>1, <1>2, <1>5, <1>6
  <1>11. us - big * BigLoop = rest
    BY <1>3, <1>8
  <1>12. e \in 0..(PerMicrosecond - 1)
    BY <1>10 DEF P
  <1> USE <1>4, <1>10, <1>12
  <1> WITNESS B \in Nat \ {0}, e \in 0..(PerMicrosecond - 1), big \in Nat, rest \in Nat
  <1> QED BY <1>3, <1>7, <1>9, <1>11 DEF P

\* Every loop counts as many times as it should, or a fraction of a microsecond more.
LEMMA LoopsEnough ==
  ASSUME NEW us \in Nat
  PROVE  LET big == us \div BigLoop
             again == IF big > 0 /\ us % BigLoop = 0 THEN WORD ELSE 0
             over == big * (PerMicrosecond - 1) + again + 1
         IN  /\ alt_busy_sleep(us) \in (us * PerMicrosecond)..(us * PerMicrosecond + over)
             /\ over \in Nat
  <1> DEFINE P == PerMicrosecond
  <1>1. P \in Nat \ {0} /\ INT_MAX \in Nat /\ WORD \in Nat
    BY TimeConstants
  <1>2. PICK B \in Nat \ {0}, e \in 0..(P - 1), big \in Nat, rest \in Nat :
           /\ BigLoop = B /\ us \div BigLoop = big /\ us % BigLoop = rest
           /\ us - big * BigLoop = rest
           /\ big * INT_MAX + rest * P = us * P + big * e
    BY LoopsSplit
  <1> DEFINE again == IF big > 0 /\ rest = 0 THEN WORD ELSE 0
             slept == IF big = 0 THEN LoopBelow(us * P)
                      ELSE big * INT_MAX + LoopToZero(rest * P)
             over == big * (P - 1) + again + 1
  <1>3. alt_busy_sleep(us) = slept
    BY <1>2 DEF alt_busy_sleep
  <1> HIDE DEF P
  <1>4. us * P \in Nat /\ rest * P \in Nat /\ (rest * P = 0 <=> rest = 0)
    BY <1>1, Z3
  <1>5. big * e \in Nat /\ big * e <= big * (P - 1) /\ big * (P - 1) \in Nat
        /\ big * INT_MAX \in Nat
    BY <1>1, Z3
  <1>6. slept \in (us * P)..(us * P + over) /\ over \in Nat
    <2>1. CASE big = 0
      <3>1. slept \in {us * P, us * P + 1} /\ again = 0
        BY <1>4, <2>1 DEF LoopBelow
      <3> HIDE DEF slept, again
      <3> QED BY <1>4, <1>5, <3>1
    <2>2. CASE big # 0 /\ rest = 0
      <3>1. slept = big * INT_MAX + WORD /\ again = WORD
        BY <1>4, <2>2 DEF LoopToZero
      <3>2. rest * P = 0 /\ big * INT_MAX + rest * P = us * P + big * e
        BY <1>2, <1>4, <2>2
      <3>3. big * INT_MAX = us * P + big * e
        BY <1>4, <1>5, <3>2
      <3> HIDE DEF slept, again
      <3> QED BY <1>1, <1>4, <1>5, <3>1, <3>3
    <2>3. CASE big # 0 /\ rest # 0
      <3>1. slept = big * INT_MAX + rest * P /\ again = 0
        BY <1>4, <2>3 DEF LoopToZero
      <3>2. big * INT_MAX + rest * P = us * P + big * e
        BY <1>2
      <3> HIDE DEF slept, again
      <3> QED BY <1>1, <1>4, <1>5, <3>1, <3>2
    <2> QED BY <2>1, <2>2, <2>3
  <1> HIDE DEF slept
  <1> QED BY <1>2, <1>3, <1>6 DEF P

\* The cycles of the loops, and what is lost of those asked for.
LEMMA SleepsAlways == ASSUME NEW us \in Nat PROVE SleepsNearly(us)
  <1> DEFINE P == PerMicrosecond
             c == CyclesPerLoop
             r == CpuFreq % CyclesPerLoop
             big == us \div BigLoop
             again == IF big > 0 /\ us % BigLoop = 0 THEN WORD ELSE 0
             over == big * (P - 1) + again + 1
             loops == alt_busy_sleep(us)
  <1>1. /\ c \in Nat \ {0} /\ CpuFreq \in Nat /\ P \in Int /\ r \in Int
        /\ CpuFreq = c * P + r
    BY TimeAssumption, Division DEF PerMicrosecond
  <1>2. loops \in (us * P)..(us * P + over) /\ over \in Nat
    BY LoopsEnough
  <1> HIDE DEF P, c, r, over, loops
  <1>3. us * CpuFreq - us * r = c * (us * P)
    BY <1>1, Z3
  <1>4. us * P \in Int
    BY <1>1, Z3
  <1>5. loops \in Int /\ us * P <= loops /\ loops <= us * P + over
    BY <1>2, <1>4
  <1>6. /\ c * (us * P) <= c * loops /\ c * loops <= c * (us * P) + c * over
        /\ c * loops \in Int /\ c * (us * P) \in Int /\ c * over \in Int
    <2> DEFINE x == us * P
    <2>1. x \in Int /\ x <= loops /\ loops <= x + over
      BY <1>4, <1>5
    <2> HIDE DEF x
    <2>2. c * x <= c * loops /\ c * loops <= c * x + c * over
      BY <1>1, <1>2, <1>5, <2>1, Z3
    <2>3. c * loops \in Int /\ c * x \in Int /\ c * over \in Int
      BY <1>1, <1>2, <1>5, <2>1, Z3
    <2> QED BY <2>2, <2>3 DEF x
  <1>7. c * loops \in (us * CpuFreq - us * r)..((us * CpuFreq - us * r) + c * over)
    BY <1>3, <1>6
  <1> QED BY <1>7, Zenon DEF SleepsNearly, P, c, r, over, loops

\* At every rate that divides a second the time told is the time set and the ticks
\* since, less a word of ticks for every roll-over of the counter, and off by the
\* difference of two remainders if the time was set when settimeofday's product had left
\* its word.  Every sleep lasts the cycles asked for, less those that whole loops in a
\* microsecond cannot count (alt_gettod.c, alt_settod.c, alt_busy_sleep.c).
THEOREM TimeIsKept == Spec => []TimeKept
  <1> DEFINE I == TimeInv /\ arg \in Nat
  <1>1. Init => I
    BY TimeStarts DEF Init
  <1>2. I /\ [Next]_vars => I'
    <2> SUFFICES ASSUME I, [Next]_vars PROVE I'
      OBVIOUS
    <2>1. (TimeNext \/ UNCHANGED timeVars) /\ (arg' = arg + 1 \/ arg' = arg)
      BY DEF Next, vars, Profiling, Timing, Logging, Booting, Counting
    <2> QED BY <2>1, TimeGoesOn
  <1>3. I => TimeKept
    BY ClockInv, SleepsAlways DEF TimeKept
  <1> QED BY <1>1, <1>2, <1>3, PTL DEF Spec

-----------------------------------------------------------------------------
(* Memory. *)

\* The memory of the profiler and of sbrk.
HeapState == [end : Nat, stack_limit : Nat, overflow : BOOLEAN]
MemoryState == [heap : HeapState, slab : [ptr : Int, size : Nat],
                blocks : SUBSET (Nat \X Nat), records : SUBSET Int, wild : BOOLEAN]

\* What the assumptions say of the sizes.
LEMMA ProfileConstants ==
  /\ Record \in Nat \ {0} /\ Slab \in Nat \ {0} /\ 2 * Record <= Slab
  /\ BucketBytes \in Nat \ {0} /\ TextSize \in Nat \ {0} /\ Increments \subseteq Nat
  /\ HeapLimit \in Nat /\ StackPointer \in Nat /\ StackCheck \in BOOLEAN
  /\ Buckets \in Nat
  <1>1. /\ Record \in Nat \ {0} /\ Slab \in Nat \ {0} /\ 2 * Record <= Slab
        /\ BucketBytes \in Nat \ {0} /\ TextSize \in Nat \ {0} /\ Increments \subseteq Nat
    BY ProfileAssumption
  <1>2. TextSize \div BucketBytes \in Nat
    BY <1>1, Z3
  <1> QED BY <1>1, <1>2, HeapAssumption DEF Buckets

\* The next multiple of four.
LEMMA AlignedUp ==
  ASSUME NEW a \in Nat
  PROVE  \E k \in Nat : Aligned(a) = 4 * k /\ a <= 4 * k /\ 4 * k <= a + 3
  <1> DEFINE k == (a + 3) \div 4
  <1>1. k \in Nat /\ a <= 4 * k /\ 4 * k <= a + 3
    BY Z3
  <1>2. Aligned(a) = 4 * k
    BY DEF Aligned
  <1> HIDE DEF k
  <1> QED BY <1>1, <1>2

\* sbrk answers the next aligned address and the heap that ends after the block, or
\* that nothing is left.
LEMMA SbrkAnswers ==
  ASSUME NEW h \in HeapState, NEW incr \in Nat
  PROVE  LET r == ALT_SBRK(h, incr) IN
         /\ r.heap \in HeapState
         /\ \E k \in Nat :
              /\ h.end <= 4 * k
              /\ \/ 4 * k + incr > HeapLimit /\ r.result = Failed /\ r.heap.end = 4 * k
                 \/ 4 * k + incr <= HeapLimit /\ r.result = 4 * k /\ r.heap.end = 4 * k + incr
  <1> DEFINE r == ALT_SBRK(h, incr)
  <1>0. h.end \in Nat
    BY DEF HeapState
  <1>1. PICK k \in Nat : Aligned(h.end) = 4 * k /\ h.end <= 4 * k
    BY <1>0, AlignedUp
  <1>2. HeapLimit \in Nat
    BY ProfileConstants
  <1> DEFINE Answers ==
        /\ r.heap \in HeapState
        /\ \/ 4 * k + incr > HeapLimit /\ r.result = Failed /\ r.heap.end = 4 * k
           \/ 4 * k + incr <= HeapLimit /\ r.result = 4 * k /\ r.heap.end = 4 * k + incr
  <1>3. ASSUME 4 * k + incr > HeapLimit PROVE Answers
    <2>1. r = [result |-> Failed, heap |-> [h EXCEPT !.end = 4 * k]]
      BY <1>1, <1>3 DEF ALT_SBRK
    <2>2. [h EXCEPT !.end = 4 * k] \in HeapState /\ [h EXCEPT !.end = 4 * k].end = 4 * k
      BY <1>1 DEF HeapState
    <2> HIDE DEF r
    <2> QED BY <1>1, <1>3, <2>1, <2>2
  <1>4. ASSUME ~(4 * k + incr > HeapLimit) PROVE Answers
    <2> DEFINE g == [h EXCEPT !.end = 4 * k + incr]
               c == Checked(g, 4 * k)
    <2>1. r = [result |-> 4 * k, heap |-> c]
      BY <1>1, <1>4 DEF ALT_SBRK
    <2>2. g \in HeapState /\ g.end = 4 * k + incr /\ 4 * k + incr \in Nat
      BY <1>1 DEF HeapState
    <2> HIDE DEF g
    <2>3. c \in HeapState /\ c.end = 4 * k + incr
      <3>1. CASE ~(StackCheck /\ g.stack_limit = 4 * k)
        BY <2>2, <3>1 DEF Checked
      <3>2. CASE StackCheck /\ g.stack_limit = 4 * k
        <4> DEFINE o == g.overflow \/ StackPointer <= g.end
        <4>1. c = [g EXCEPT !.overflow = o, !.stack_limit = g.end] /\ o \in BOOLEAN
          BY <3>2 DEF Checked
        <4> HIDE DEF o
        <4> QED BY <2>2, <4>1 DEF HeapState
      <3> QED BY <3>1, <3>2
    <2> HIDE DEF r, c
    <2>4. r.heap = c /\ r.result = 4 * k
      BY <2>1
    <2> QED BY <1>1, <1>2, <1>4, <2>3, <2>4
  <1>5. Answers
    BY <1>3, <1>4
  <1> QED BY <1>1, <1>5

\* A record in a block; a heap that cannot give a slab or the buffer of the sampler.
Inside(r, b) == b[1] <= r /\ r + Record <= b[2]
Exhausted(h) == h.end + Slab > HeapLimit \/ h.end + 2 * Buckets > HeapLimit

\* Blocks lie apart below the end of the heap, records apart in blocks, and the rest of
\* the slab apart from both if it is of use.
Good(m) ==
  /\ \A b \in m.blocks : b[1] <= b[2] /\ b[2] <= m.heap.end
  /\ \A b, c \in m.blocks : b # c => Apart(b, c)
  /\ \A r \in m.records : \E b \in m.blocks : Inside(r, b)
  /\ \A r, q \in m.records : r # q => r + Record <= q \/ q + Record <= r
  /\ m.slab.size >= Record =>
       /\ \E b \in m.blocks : b[1] <= m.slab.ptr /\ m.slab.ptr + m.slab.size <= b[2]
       /\ \A r \in m.records : r + Record <= m.slab.ptr \/ m.slab.ptr + m.slab.size <= r

\* Memory is wild only after the heap was exhausted, and good until then.
Sound(m) == \/ m.wild = TRUE /\ Exhausted(m.heap)
            \/ m.wild = FALSE /\ Good(m)

\* Every block is taken after the end of those before.
LEMMA TakeApart ==
  ASSUME NEW m \in MemoryState, Good(m), NEW size \in Nat
  PROVE  LET r == ALT_SBRK(m.heap, size)
             n == Take(m, size) IN
         /\ n \in MemoryState /\ n.heap = r.heap
         /\ n.slab = m.slab /\ n.records = m.records /\ n.wild = m.wild
         /\ Good(n)
         /\ r.result = Failed => n.heap.end + size > HeapLimit
         /\ r.result # Failed => /\ \E k \in Nat : r.result = 4 * k
                                /\ m.heap.end <= r.result
                                /\ <<r.result, r.result + size>> \in n.blocks
  <1> DEFINE r == ALT_SBRK(m.heap, size)
             n == Take(m, size)
             e == m.heap.end
  <1>1. /\ m.heap \in HeapState /\ e \in Nat /\ HeapLimit \in Nat /\ Record \in Nat
        /\ m.blocks \subseteq Nat \X Nat
    BY ProfileConstants DEF MemoryState, HeapState
  <1>2. r.heap \in HeapState /\ r.heap.end \in Nat
    BY <1>1, SbrkAnswers DEF HeapState
  <1>3. PICK k \in Nat :
          /\ e <= 4 * k
          /\ \/ 4 * k + size > HeapLimit /\ r.result = Failed /\ r.heap.end = 4 * k
             \/ 4 * k + size <= HeapLimit /\ r.result = 4 * k /\ r.heap.end = 4 * k + size
    BY <1>1, SbrkAnswers
  <1>4. n = [[m EXCEPT !.heap = r.heap] EXCEPT
               !.blocks = IF r.result = Failed THEN @ ELSE @ \union {<<r.result, r.result + size>>}]
    BY DEF Take
  <1>n. r.result = Failed \/ r.result \in Nat
    BY <1>3
  <1> HIDE DEF r, n
  <1> DEFINE new == <<r.result, r.result + size>>
  <1>5. /\ n.heap = r.heap /\ n.slab = m.slab /\ n.records = m.records /\ n.wild = m.wild
        /\ n.blocks = IF r.result = Failed THEN m.blocks ELSE m.blocks \union {new}
    BY <1>4 DEF MemoryState
  <1>6. n \in MemoryState
    <2>1. (IF r.result = Failed THEN m.blocks ELSE m.blocks \union {new}) \subseteq Nat \X Nat
      BY <1>1, <1>n
    <2> HIDE DEF new
    <2> QED BY <1>2, <1>4, <2>1 DEF MemoryState, new
  <1>7. Good(n)
    <2>1. CASE r.result = Failed
      <3>1. n.blocks = m.blocks /\ e <= n.heap.end
        BY <1>1, <1>3, <1>5, <2>1 DEF Failed
      <3>2. \A b \in m.blocks : b[2] \in Nat /\ b[2] <= e
        BY <1>1 DEF Good
      <3>3. \A b \in m.blocks : b[2] <= n.heap.end
        BY <1>1, <1>2, <1>5, <3>1, <3>2
      <3> QED BY <1>5, <3>1, <3>3 DEF Good
    <2>2. CASE r.result # Failed
      <3>1. /\ n.blocks = m.blocks \union {new} /\ r.result \in Nat /\ e <= r.result
            /\ n.heap.end = r.result + size
        BY <1>3, <1>5, <1>n, <2>2
      <3>2. \A b \in m.blocks : b[1] \in Nat /\ b[2] \in Nat /\ b[1] <= b[2] /\ b[2] <= e
        BY <1>1 DEF Good
      <3>3. new[1] = r.result /\ new[2] = r.result + size
        OBVIOUS
      <3> HIDE DEF new
      <3>4. \A b \in n.blocks : b[1] <= b[2] /\ b[2] <= n.heap.end
        BY <1>1, <3>1, <3>2, <3>3
      <3>5. \A b \in m.blocks : Apart(b, new) /\ Apart(new, b)
        BY <1>1, <3>1, <3>2, <3>3 DEF Apart
      <3>6. \A b, c \in n.blocks : b # c => Apart(b, c)
        BY <3>1, <3>5 DEF Good
      <3>7. m.blocks \subseteq n.blocks
        BY <3>1
      <3> QED BY <1>5, <3>4, <3>6, <3>7 DEF Good
    <2> QED BY <2>1, <2>2
  <1>8. r.result = Failed => n.heap.end + size > HeapLimit
    BY <1>3, <1>5 DEF Failed
  <1>9. r.result # Failed => /\ \E j \in Nat : r.result = 4 * j
                             /\ e <= r.result /\ new \in n.blocks
    BY <1>3, <1>5
  <1> QED BY <1>5, <1>6, <1>7, <1>8, <1>9 DEF r, n

\* A new slab lies after all records.
LEMMA RefillApart ==
  ASSUME NEW m \in MemoryState, Good(m), m.wild = FALSE
  PROVE  Refill(m) \in MemoryState /\ Sound(Refill(m)) /\ Refill(m).slab.size = Slab
  <1> DEFINE r == ALT_SBRK(m.heap, Slab)
             t == Take(m, Slab)
             f == Refill(m)
             w == r.result = Failed
             s == [ptr |-> r.result, size |-> Slab]
  <1>1. Slab \in Nat /\ Record \in Nat /\ Slab >= Record /\ HeapLimit \in Nat /\ Failed \in Int
    BY ProfileConstants DEF Failed
  <1>2. /\ t \in MemoryState /\ Good(t) /\ t.records = m.records /\ t.wild = FALSE
        /\ r.result = Failed => t.heap.end + Slab > HeapLimit
        /\ r.result # Failed => /\ \E k \in Nat : r.result = 4 * k
                               /\ m.heap.end <= r.result
                               /\ <<r.result, r.result + Slab>> \in t.blocks
    BY <1>1, TakeApart
  <1>3. f = [[t EXCEPT !.slab = s] EXCEPT !.wild = t.wild \/ w]
    BY DEF Refill
  <1>4. r.result \in Int /\ s \in [ptr : Int, size : Nat]
    BY <1>1, <1>2
  <1>5. m.heap.end \in Nat /\ m.records \subseteq Int /\ m.blocks \subseteq Nat \X Nat
    BY DEF MemoryState, HeapState
  <1> HIDE DEF r, t, f
  <1>6. s.ptr = r.result /\ s.size = Slab
    OBVIOUS
  <1> HIDE DEF s
  <1>7. (t.wild \/ w) \in BOOLEAN
    BY <1>2
  <1>8. /\ f \in MemoryState /\ f.slab = s /\ f.heap = t.heap /\ f.blocks = t.blocks
        /\ f.records = t.records
    BY <1>2, <1>3, <1>4, <1>7 DEF MemoryState
  <1>9. CASE w
    <2>1. f.wild = TRUE
      BY <1>2, <1>3, <1>7, <1>9 DEF MemoryState
    <2>2. Exhausted(f.heap)
      BY <1>2, <1>8, <1>9 DEF Exhausted
    <2> QED BY <1>6, <1>8, <2>1, <2>2 DEF Sound, f
  <1>10. CASE ~w
    <2>1. f.wild = FALSE
      BY <1>2, <1>3, <1>7, <1>10 DEF MemoryState
    <2>2. \E b \in f.blocks : b[1] <= f.slab.ptr /\ f.slab.ptr + f.slab.size <= b[2]
      <3> DEFINE b == <<r.result, r.result + Slab>>
      <3>1. b \in f.blocks /\ b[1] = r.result /\ b[2] = r.result + Slab
        BY <1>2, <1>8, <1>10
      <3> HIDE DEF b
      <3> QED BY <1>1, <1>4, <1>6, <1>8, <3>1
    <2>3. ASSUME NEW q \in f.records PROVE q + Record <= f.slab.ptr
      <3>1. q \in m.records
        BY <1>2, <1>8
      <3>2. PICK b \in m.blocks : b[1] <= q /\ q + Record <= b[2]
        BY <3>1 DEF Good, Inside
      <3>3. b[2] <= m.heap.end /\ b[2] \in Nat /\ q \in Int
        BY <1>5, <3>1 DEF Good
      <3> QED BY <1>1, <1>2, <1>4, <1>5, <1>6, <1>8, <1>10, <3>2, <3>3
    <2>4. Good(f)
      BY <1>2, <1>8, <2>2, <2>3 DEF Good, Inside
    <2> QED BY <1>6, <1>8, <2>1, <2>4 DEF Sound, f
  <1> QED BY <1>9, <1>10

\* What mcount_allocate takes off the slab.
Cut(m) == [m EXCEPT !.slab = [ptr |-> @.ptr + Record, size |-> @.size - Record],
                    !.records = @ \union {m.slab.ptr}]

\* A record cut off a slab that has room for it.
LEMMA CutApart ==
  ASSUME NEW m \in MemoryState, Sound(m), m.slab.size >= Record
  PROVE  /\ Cut(m) \in MemoryState /\ Sound(Cut(m)) /\ Cut(m).wild = m.wild
         /\ Cut(m).slab.size = m.slab.size - Record /\ Cut(m).heap = m.heap
  <1> DEFINE n == Cut(m)
             s == [ptr |-> m.slab.ptr + Record, size |-> m.slab.size - Record]
  <1>1. Record \in Nat \ {0} /\ m.slab.ptr \in Int /\ m.slab.size \in Nat /\ m.records \subseteq Int
    BY ProfileConstants DEF MemoryState
  <1>2. n = [[m EXCEPT !.slab = s] EXCEPT !.records = m.records \union {m.slab.ptr}]
    BY DEF Cut, MemoryState
  <1>3. s \in [ptr : Int, size : Nat]
    BY <1>1
  <1>4. s.ptr = m.slab.ptr + Record /\ s.size = m.slab.size - Record
    OBVIOUS
  <1> HIDE DEF n, s
  <1>5. /\ n \in MemoryState /\ n.slab = s /\ n.records = m.records \union {m.slab.ptr}
        /\ n.heap = m.heap /\ n.blocks = m.blocks /\ n.wild = m.wild
    BY <1>1, <1>2, <1>3 DEF MemoryState
  <1>6. ASSUME Good(m) PROVE Good(n)
    <2>1. PICK b \in m.blocks : b[1] <= m.slab.ptr /\ m.slab.ptr + m.slab.size <= b[2]
      BY <1>6 DEF Good
    <2>0. b[1] \in Nat /\ b[2] \in Nat
      BY DEF MemoryState
    <2>2. \A r \in m.records : r + Record <= m.slab.ptr \/ m.slab.ptr + m.slab.size <= r
      BY <1>6 DEF Good
    <2>3. Inside(m.slab.ptr, b) /\ b[1] <= s.ptr /\ s.ptr + s.size <= b[2]
      BY <1>1, <1>4, <2>0, <2>1 DEF Inside
    <2>4. \A r \in n.records : \E c \in n.blocks : Inside(r, c)
      BY <1>5, <1>6, <2>3 DEF Good
    <2>5. ASSUME NEW r \in m.records
          PROVE  r + Record <= m.slab.ptr \/ m.slab.ptr + Record <= r
      BY <1>1, <2>2
    <2>6. \A r, q \in n.records : r # q => r + Record <= q \/ q + Record <= r
      BY <1>5, <1>6, <2>5 DEF Good
    <2>7. ASSUME NEW r \in n.records
          PROVE  r + Record <= s.ptr \/ s.ptr + s.size <= r
      BY <1>1, <1>4, <1>5, <2>2
    <2> QED BY <1>5, <1>6, <2>3, <2>4, <2>6, <2>7 DEF Good
  <1>7. Sound(n)
    BY <1>5, <1>6 DEF Sound
  <1> QED BY <1>4, <1>5, <1>7 DEF n

\* A record comes off the rest of the slab or off a new one.
LEMMA AllocateApart ==
  ASSUME NEW m \in MemoryState, Sound(m), m.wild = FALSE \/ m.slab.size >= Record
  PROVE  LET n == mcount_allocate(m) IN
         /\ n \in MemoryState /\ Sound(n)
         /\ m.wild = FALSE => n.wild = FALSE \/ n.slab.size >= Record
  <1> DEFINE f == IF Record > m.slab.size THEN Refill(m) ELSE m
  <1>1. Record \in Nat /\ Slab \in Nat /\ 2 * Record <= Slab /\ m.slab.size \in Nat
    BY ProfileConstants DEF MemoryState
  <1>2. /\ f \in MemoryState /\ Sound(f) /\ f.slab.size >= Record
        /\ m.wild = FALSE => f.wild = FALSE \/ f.slab.size = Slab
    <2>1. CASE Record > m.slab.size
      <3>1. m.wild = FALSE /\ Good(m) /\ f = Refill(m)
        BY <1>1, <2>1 DEF Sound
      <3> HIDE DEF f
      <3>2. f \in MemoryState /\ Sound(f) /\ f.slab.size = Slab
        BY <3>1, RefillApart
      <3> QED BY <1>1, <3>2
    <2>2. CASE ~(Record > m.slab.size)
      BY <1>1, <2>2
    <2> QED BY <2>1, <2>2
  <1>3. mcount_allocate(m) = Cut(f)
    BY DEF mcount_allocate, Cut
  <1> HIDE DEF f
  <1>4. Cut(f) \in MemoryState /\ Sound(Cut(f)) /\ Cut(f).wild = f.wild
        /\ Cut(f).slab.size = f.slab.size - Record
    BY <1>2, CutApart
  <1>5. m.wild = FALSE => Cut(f).wild = FALSE \/ Cut(f).slab.size >= Record
    BY <1>1, <1>2, <1>4
  <1> QED BY <1>3, <1>4, <1>5

\* The sampler's last bucket lies inside its buffer, or in the padding after it.
SamplesFit == TextSize % BucketBytes = 0 \/ Buckets % 2 = 1

\* Where the bucket of any program counter lies.
LEMMA BucketsFit ==
  ASSUME SamplesFit, NEW k \in Nat, NEW pc \in 0..(TextSize - 1)
  PROVE  4 * k + 2 * Bucket(pc) < Aligned(4 * k + 2 * Buckets)
  <1> DEFINE B == Buckets
             j == Bucket(pc)
             over == TextSize % BucketBytes
  <1>1. BucketBytes \in Nat \ {0} /\ TextSize \in Nat \ {0} /\ B \in Nat
    BY ProfileConstants
  <1>2. /\ over \in Int /\ TextSize = BucketBytes * B + over /\ 0 <= over /\ over < BucketBytes
        /\ j \in Int /\ BucketBytes * j <= pc
    <2>1. j \in Int /\ pc = BucketBytes * j + (pc % BucketBytes) /\ 0 <= pc % BucketBytes
          /\ pc % BucketBytes \in Int
      BY <1>1, Division DEF Bucket
    <2>2. BucketBytes * j \in Int
      BY <1>1, <2>1, Z3
    <2> HIDE DEF j
    <2>3. BucketBytes * j <= pc
      BY <1>1, <2>1, <2>2
    <2> QED BY <1>1, <2>1, <2>3, Division DEF Buckets
  <1>3. SamplesFit <=> over = 0 \/ B % 2 = 1
    BY DEF SamplesFit
  <1> HIDE DEF B, j, over
  <1>4. BucketBytes * j < BucketBytes * B + over
    BY <1>1, <1>2, Z3
  <1>5. j <= B
    BY <1>1, <1>2, <1>4, Z3
  <1>6. over = 0 => j < B
    BY <1>1, <1>2, <1>4, Z3
  <1>7. 4 * k + 2 * B \in Nat
    BY <1>1
  <1>8. PICK a \in Nat : Aligned(4 * k + 2 * B) = 4 * a /\ 4 * k + 2 * B <= 4 * a
    BY <1>7, AlignedUp
  <1>9. B % 2 = 1 => 4 * k + 2 * B < 4 * a
    BY <1>1, <1>8, Z3
  <1>10. 4 * k + 2 * j < Aligned(4 * k + 2 * B)
    BY <1>1, <1>2, <1>3, <1>5, <1>6, <1>8, <1>9
  <1> QED BY <1>10 DEF B, j

\* The memory is sound, and the buffer of the sampler aligned unless sbrk failed.
ProfileInv ==
  /\ Memory \in MemoryState /\ Sound(Memory)
  /\ sampler \in [buffer : Int, started : Nat]
  /\ ~wild => \E k \in Nat : sampler.buffer = 4 * k

LEMMA ProfileStarts == ProfileInit => ProfileInv
  <1> SUFFICES ASSUME ProfileInit PROVE ProfileInv
    OBVIOUS
  <1>1. EmptyHeap \in HeapState /\ [ptr |-> 0, size |-> 0] \in [ptr : Int, size : Nat]
    BY DEF EmptyHeap, HeapState
  <1>2. Memory = [heap |-> EmptyHeap, slab |-> [ptr |-> 0, size |-> 0], blocks |-> {},
                  records |-> {}, wild |-> FALSE]
    BY DEF ProfileInit, Memory
  <1>3. Memory \in MemoryState
    BY <1>1, <1>2 DEF MemoryState
  <1>4. Good(Memory) /\ Memory.wild = FALSE
    BY <1>2, ProfileConstants DEF Good
  <1>5. sampler \in [buffer : Int, started : Nat] /\ sampler.buffer = 4 * 0
    BY DEF ProfileInit, Idle
  <1> QED BY <1>3, <1>4, <1>5 DEF ProfileInv, Sound

\* Steps on the memory: one that replaces it, one that leaves it, and its state before
\* and after when nothing has gone wild yet.
LEMMA MemoryIsWhole ==
  ASSUME NEW m \in MemoryState, MemoryIs(m)
  PROVE  Memory' = m
  BY DEF MemoryIs, Memory, MemoryState

LEMMA MemoryStays ==
  ASSUME ProfileInv, UNCHANGED <<heap, slab, blocks, records, wild>>,
         sampler' \in [buffer : Int, started : Nat], sampler'.buffer = sampler.buffer
  PROVE  ProfileInv'
  <1>1. Memory' = Memory
    BY DEF Memory
  <1> QED BY <1>1 DEF ProfileInv, MemoryState, HeapState, Sound, Good, Exhausted, Inside, Apart

LEMMA NotWild ==
  ASSUME ProfileInv, ~wild
  PROVE  Memory \in MemoryState /\ Good(Memory) /\ Memory.wild = FALSE /\ Memory.heap = heap
  <1>1. Memory.wild = wild /\ Memory.heap = heap
    BY DEF Memory
  <1> QED BY <1>1 DEF ProfileInv, Sound

LEMMA NowWild ==
  ASSUME NEW m \in MemoryState, Sound(m), MemoryIs(m),
         sampler' \in [buffer : Int, started : Nat],
         m.wild = FALSE => \E k \in Nat : sampler'.buffer = 4 * k
  PROVE  ProfileInv'
  <1>1. Memory' = m
    BY MemoryIsWhole
  <1>2. wild' = m.wild
    BY DEF MemoryIs
  <1>3. (Memory \in MemoryState)' /\ Sound(Memory)'
    BY <1>1 DEF MemoryState, HeapState, Sound, Good, Exhausted, Inside, Apart
  <1>4. m.wild \in BOOLEAN
    BY DEF MemoryState
  <1> QED BY <1>2, <1>3, <1>4 DEF ProfileInv

\* The three ways to take memory.
LEMMA SbrkKeeps ==
  ASSUME ProfileInv, NEW incr \in Increments, Sbrk(incr)
  PROVE  ProfileInv'
  <1>1. ~wild /\ MemoryIs(Take(Memory, incr)) /\ sampler' = sampler /\ incr \in Nat
    BY ProfileConstants DEF Sbrk
  <1>2. Memory \in MemoryState /\ Good(Memory) /\ Memory.wild = FALSE
    BY <1>1, NotWild
  <1> DEFINE t == Take(Memory, incr)
  <1>3. t \in MemoryState /\ Good(t) /\ t.wild = FALSE
    BY <1>1, <1>2, TakeApart
  <1>4. Sound(t) /\ MemoryIs(t)
    BY <1>1, <1>3 DEF Sound
  <1>5. sampler' \in [buffer : Int, started : Nat] /\ \E k \in Nat : sampler'.buffer = 4 * k
    BY <1>1 DEF ProfileInv
  <1> HIDE DEF t
  <1> QED BY <1>3, <1>4, <1>5, NowWild

LEMMA InsertKeeps ==
  ASSUME ProfileInv, Insert
  PROVE  ProfileInv'
  <1>1. ~wild /\ sampler' = sampler
    BY DEF Insert, Runs
  <1>2. Memory \in MemoryState /\ Sound(Memory) /\ Memory.wild = FALSE
    BY <1>1, NotWild DEF Sound
  <1> DEFINE n == mcount_allocate(Memory)
             o == mcount_allocate(n)
  <1>3. MemoryIs(n) \/ MemoryIs(o)
    BY DEF Insert
  <1>4. n \in MemoryState /\ Sound(n) /\ (n.wild = FALSE \/ n.slab.size >= Record)
    BY <1>2, AllocateApart
  <1> HIDE DEF n
  <1>5. o \in MemoryState /\ Sound(o)
    BY <1>4, AllocateApart
  <1> HIDE DEF o
  <1>6. sampler' \in [buffer : Int, started : Nat] /\ \E k \in Nat : sampler'.buffer = 4 * k
    BY <1>1 DEF ProfileInv
  <1> QED BY <1>3, <1>4, <1>5, <1>6, NowWild

LEMMA TakeBufferKeeps ==
  ASSUME ProfileInv, TakeBuffer
  PROVE  ProfileInv'
  <1> DEFINE r == ALT_SBRK(heap, 2 * Buckets)
             t == Take(Memory, 2 * Buckets)
             w == r.result = Failed
             n == [t EXCEPT !.wild = w]
  <1>1. ~wild /\ MemoryIs(n) /\ sampler' = [sampler EXCEPT !.buffer = r.result]
    BY DEF TakeBuffer, Runs
  <1>2. Memory \in MemoryState /\ Good(Memory) /\ Memory.wild = FALSE /\ Memory.heap = heap
    BY <1>1, NotWild
  <1>3. 2 * Buckets \in Nat
    BY ProfileConstants
  <1>4. /\ t \in MemoryState /\ Good(t)
        /\ r.result = Failed => t.heap.end + 2 * Buckets > HeapLimit
        /\ r.result # Failed => \E k \in Nat : r.result = 4 * k
    BY <1>2, <1>3, TakeApart
  <1>5. r.result \in Int
    BY <1>4 DEF Failed
  <1>6. w \in BOOLEAN
    OBVIOUS
  <1>7. sampler \in [buffer : Int, started : Nat]
    BY DEF ProfileInv
  <1> HIDE DEF r, t
  <1>8. sampler' \in [buffer : Int, started : Nat] /\ sampler'.buffer = r.result
    BY <1>1, <1>5, <1>7
  <1>9. /\ n \in MemoryState /\ n.heap = t.heap /\ n.slab = t.slab /\ n.blocks = t.blocks
        /\ n.records = t.records /\ n.wild = w
    BY <1>4, <1>6 DEF MemoryState
  <1> HIDE DEF n
  <1>10. Sound(n)
    <2>1. Good(n)
      BY <1>4, <1>9 DEF Good
    <2>2. w => Exhausted(n.heap)
      BY <1>4, <1>9 DEF Exhausted
    <2> QED BY <1>9, <2>1, <2>2 DEF Sound
  <1>11. n.wild = FALSE => \E k \in Nat : sampler'.buffer = 4 * k
    BY <1>4, <1>8, <1>9
  <1> QED BY <1>1, <1>8, <1>9, <1>10, <1>11, NowWild

\* Every step of the unit "profile", one case for each.
LEMMA ProfileGoesOn ==
  ASSUME SamplesFit, ProfileInv, ProfileNext \/ UNCHANGED profileVars
  PROVE  ProfileInv'
  <1>1. ASSUME ProfileKept, UNCHANGED sampler PROVE ProfileInv'
    BY <1>1, MemoryStays DEF ProfileKept, ProfileInv
  <1>2. CASE FindEntry \/ FindArc \/ LoadCount \/ StoreCount
    BY <1>1, <1>2 DEF FindEntry, FindArc, LoadCount, StoreCount
  <1>3. CASE Check \/ Clear \/ NoClock
    BY <1>1, <1>3 DEF Check, Clear, NoClock
  <1>4. CASE TakeBuffer
    BY <1>4, TakeBufferKeeps
  <1>5. CASE Arm
    <2>1. sampler' = [sampler EXCEPT !.started = @ + 1] /\ ProfileKept
      BY <1>5 DEF Arm
    <2>2. sampler' \in [buffer : Int, started : Nat] /\ sampler'.buffer = sampler.buffer
      BY <2>1 DEF ProfileInv
    <2> QED BY <2>1, <2>2, MemoryStays DEF ProfileKept
  <1>6. CASE Insert
    BY <1>6, InsertKeeps
  <1>7. CASE SysclkInit
    BY <1>7, MemoryStays DEF SysclkInit, ProfileInv
  <1>8. CASE \E f \in Fn, s \in Site : Call(f, s)
    BY <1>1, <1>8 DEF Call
  <1>9. CASE \E incr \in Increments : Sbrk(incr)
    BY <1>9, SbrkKeeps
  <1>10. CASE \E pc \in {0, BucketBytes, TextSize - 1} : nios2_pcsample(pc)
    <2>1. PICK pc \in 0..(TextSize - 1) : nios2_pcsample(pc)
      BY <1>10 DEF nios2_pcsample
    <2> DEFINE high == sampler.buffer + 2 * Bucket(pc) >= Aligned(sampler.buffer + 2 * Buckets)
    <2>2. wild' = (wild \/ high) /\ UNCHANGED <<heap, slab, blocks, records, sampler>>
      BY <2>1 DEF nios2_pcsample
    <2>3. ~wild => ~high
      <3>1. ASSUME ~wild PROVE ~high
        <4>1. PICK k \in Nat : sampler.buffer = 4 * k
          BY <3>1 DEF ProfileInv
        <4>2. 4 * k + 2 * Bucket(pc) < Aligned(4 * k + 2 * Buckets)
          BY BucketsFit
        <4>3. Bucket(pc) \in Int /\ Aligned(4 * k + 2 * Buckets) \in Int
          <5>1. pc \in Int /\ BucketBytes \in Nat \ {0} /\ Buckets \in Nat
            BY ProfileConstants
          <5>2. 4 * k + 2 * Buckets \in Nat
            BY <5>1
          <5> QED BY <5>1, <5>2, Division, AlignedUp DEF Bucket
        <4> QED BY <4>1, <4>2, <4>3
      <3> QED BY <3>1
    <2> HIDE DEF high
    <2>4. wild \in BOOLEAN
      BY DEF ProfileInv, MemoryState, Memory
    <2>5. wild' = wild
      BY <2>2, <2>3, <2>4
    <2> QED BY <2>2, <2>5, MemoryStays DEF ProfileInv
  <1>11. CASE UNCHANGED profileVars
    BY <1>11, MemoryStays DEF profileVars, ProfileInv
  <1> QED BY <1>2, <1>3, <1>4, <1>5, <1>6, <1>7, <1>8, <1>9, <1>10, <1>11
          DEF ProfileNext, mcount, __mcount_record

LEMMA ProfileInvUse == ProfileInv => MemoryApart
  <1> SUFFICES ASSUME ProfileInv PROVE MemoryApart
    OBVIOUS
  <1>1. /\ Memory.heap = heap /\ Memory.blocks = blocks /\ Memory.records = records
        /\ Memory.wild = wild
    BY DEF Memory
  <1>2. CASE wild
    BY <1>1, <1>2 DEF ProfileInv, Sound, Exhausted, MemoryApart
  <1>3. CASE ~wild
    <2>1. Good(Memory) /\ Memory \in MemoryState
      BY <1>1, <1>3 DEF ProfileInv, Sound
    <2>2. ASSUME NEW r \in records, NEW q \in records, q # r
          PROVE  Apart(<<r, r + Record>>, <<q, q + Record>>)
      BY <1>1, <2>1, <2>2 DEF Good, Apart
    <2> QED BY <1>1, <1>3, <2>1, <2>2 DEF Good, Inside, MemoryApart
  <1> QED BY <1>2, <1>3

\* If the text is whole buckets or their number is odd: whatever the application asks
\* for, wherever calls interrupt each other, and until the heap runs out, the blocks of
\* sbrk and the records of mcount are apart, and samples count in the sampler's buffer
\* or its padding (alt_sbrk.c, alt_mcount.S, alt_gmon.c).
THEOREM MemoryIsApart == ASSUME SamplesFit PROVE Spec => []MemoryApart
  <1>1. Init => ProfileInv
    BY ProfileStarts DEF Init
  <1>2. ProfileInv /\ [Next]_vars => ProfileInv'
    <2> SUFFICES ASSUME ProfileInv, [Next]_vars PROVE ProfileInv'
      OBVIOUS
    <2>1. ProfileNext \/ UNCHANGED profileVars
      BY DEF Next, vars, Profiling, Timing, Logging, Booting, Counting
    <2> QED BY <2>1, SamplesFit, ProfileGoesOn
  <1> QED BY <1>1, <1>2, ProfileInvUse, PTL DEF Spec

-----------------------------------------------------------------------------
(* Sums.  A sum over a finite set is defined by recursion on the elements chosen; here *)
(* it is taken apart by any element, from the equations it solves and the least number *)
(* of a set. *)

\* A set of numbers that is not empty has a least one.
LEMMA Least ==
  ASSUME NEW S \in SUBSET Nat, S # {}
  PROVE  \E z \in S : \A y \in S : z <= y
  <1> DEFINE Below == {p \in Nat \X Nat : p[1] < p[2]}
  <1>1. IsWellFoundedOn(Below, Nat)
    BY NatLessThanWellFounded DEF OpToRel
  <1>2. PICK x \in S : \A y \in S : ~ (<<y, x>> \in Below)
    <2> HIDE DEF Below
    <2> QED BY <1>1, WFMin
  <1>3. ASSUME NEW y \in S, y < x PROVE FALSE
    <2>1. <<y, x>> \in Nat \X Nat /\ <<y, x>>[1] < <<y, x>>[2]
      BY <1>3
    <2>2. <<y, x>> \in Below
      BY ONLY <2>1
    <2> QED BY <1>2, <2>2
  <1> QED BY <1>3

\* The equation of a sum over all subsets, taken apart by their chosen elements.
Pick(s) == CHOOSE x \in s : TRUE
Equation(g, w, s) == g[s] = IF s = {} THEN 0 ELSE w[Pick(s)] + g[s \ {Pick(s)}]
Sums(g, w, S) == \A s \in SUBSET S : Equation(g, w, s)

LEMMA Picked == \A s : s # {} => Pick(s) \in s
  BY DEF Pick

LEMMA Smaller ==
  ASSUME NEW S, IsFiniteSet(S), NEW s \in SUBSET S, NEW x \in s
  PROVE  /\ s \ {x} \in SUBSET S /\ Cardinality(s) \in Nat /\ Cardinality(s \ {x}) \in Nat
         /\ Cardinality(s \ {x}) < Cardinality(s)
  <1>1. IsFiniteSet(s)
    BY FS_Subset
  <1>2. Cardinality(s) \in Nat /\ Cardinality(s \ {x}) = Cardinality(s) - 1
    BY <1>1, FS_RemoveElement, FS_CardinalityType
  <1>3. Cardinality(s \ {x}) \in Nat
    BY <1>1, FS_RemoveElement, FS_CardinalityType
  <1> QED BY <1>2, <1>3

\* Of the subsets with some property, one is smallest.
LEMMA SmallestSubset ==
  ASSUME NEW S, IsFiniteSet(S), NEW T \in SUBSET (SUBSET S), T # {}
  PROVE  \E t \in T : \A x \in t : t \ {x} \notin T
  <1> DEFINE C == {Cardinality(s) : s \in T}
  <1>1. \A s \in T : Cardinality(s) \in Nat
    BY FS_Subset, FS_CardinalityType
  <1>2. C \in SUBSET Nat /\ C # {}
    BY <1>1
  <1>3. PICK n \in C : \A m \in C : n <= m
    BY <1>2, Least
  <1>4. PICK t \in T : Cardinality(t) = n
    BY <1>3
  <1>5. ASSUME NEW x \in t, t \ {x} \in T PROVE FALSE
    <2>1. Cardinality(t \ {x}) \in C
      BY <1>5
    <2>2. t \in SUBSET S
      BY <1>4
    <2>3. Cardinality(t \ {x}) < Cardinality(t) /\ Cardinality(t) \in Nat /\ Cardinality(t \ {x}) \in Nat
      BY <2>2, Smaller
    <2> QED BY <1>3, <1>4, <2>1, <2>3
  <1> QED BY <1>5

\* The equation has one solution at most, and it looks at the elements only.
LEMMA SumsAgree ==
  ASSUME NEW S, NEW R, NEW T, IsFiniteSet(T), T \subseteq S, T \subseteq R,
         NEW w, NEW v, \A x \in T : w[x] = v[x],
         NEW g, NEW h, Sums(g, w, S), Sums(h, v, R)
  PROVE  \A s \in SUBSET T : g[s] = h[s]
  <1> DEFINE Bad == {s \in SUBSET T : g[s] # h[s]}
  <1> SUFFICES ASSUME Bad # {} PROVE FALSE
    OBVIOUS
  <1>1. PICK s \in Bad : \A x \in s : s \ {x} \notin Bad
    <2>1. Bad \in SUBSET (SUBSET T)
      OBVIOUS
    <2> HIDE DEF Bad
    <2> QED BY <2>1, SmallestSubset
  <1>2. s \in SUBSET T /\ s \in SUBSET S /\ s \in SUBSET R /\ g[s] # h[s]
    BY <1>1
  <1>3. Equation(g, w, s) /\ Equation(h, v, s)
    BY <1>2 DEF Sums
  <1>4. s # {}
    BY <1>2, <1>3 DEF Equation
  <1>5. Pick(s) \in s
    BY <1>4, Picked
  <1>6. g[s \ {Pick(s)}] = h[s \ {Pick(s)}]
    BY <1>1, <1>2, <1>5
  <1> QED BY <1>2, <1>3, <1>4, <1>5, <1>6 DEF Equation

\* And it has one.
LEMMA SumsExist ==
  ASSUME NEW S, IsFiniteSet(S), NEW w \in [S -> Nat]
  PROVE  \E g \in [SUBSET S -> Nat] : Sums(g, w, S)
  <1> DEFINE Upto(n) == {s \in SUBSET S : Cardinality(s) <= n}
             Has(n) == \E g \in [Upto(n) -> Nat] : \A s \in Upto(n) : Equation(g, w, s)
             Bad == {n \in Nat : ~Has(n)}
  <1>1. \A s \in SUBSET S : IsFiniteSet(s) /\ Cardinality(s) \in Nat
    BY FS_Subset, FS_CardinalityType
  <1>2. Has(0)
    <2> DEFINE g == [s \in Upto(0) |-> 0]
    <2>1. \A s \in Upto(0) : s = {}
      BY <1>1, FS_EmptySet
    <2>2. g \in [Upto(0) -> Nat] /\ \A s \in Upto(0) : Equation(g, w, s)
      BY <2>1 DEF Equation
    <2> QED BY <2>2
  <1>3. ASSUME NEW n \in Nat, Has(n) PROVE Has(n + 1)
    <2>1. PICK g \in [Upto(n) -> Nat] : \A s \in Upto(n) : Equation(g, w, s)
      BY <1>3
    <2> DEFINE h == [s \in Upto(n + 1) |-> IF s = {} THEN 0 ELSE w[Pick(s)] + g[s \ {Pick(s)}]]
    <2>2. ASSUME NEW s \in Upto(n + 1), s # {}
          PROVE  s \ {Pick(s)} \in Upto(n) /\ Pick(s) \in S
      <3>1. Pick(s) \in s
        BY <2>2, Picked
      <3>2. /\ s \ {Pick(s)} \in SUBSET S /\ Cardinality(s) \in Nat
            /\ Cardinality(s \ {Pick(s)}) \in Nat /\ Cardinality(s \ {Pick(s)}) < Cardinality(s)
        BY <3>1, Smaller
      <3> QED BY <3>1, <3>2
    <2>3. h \in [Upto(n + 1) -> Nat]
      BY <2>2
    <2>4. \A s \in Upto(n) : s \in Upto(n + 1) /\ h[s] = g[s]
      BY <1>1, <2>1 DEF Equation
    <2>5. \A s \in Upto(n + 1) : Equation(h, w, s)
      BY <2>2, <2>4 DEF Equation
    <2> QED BY <2>3, <2>5
  <1> HIDE DEF Has
  <1>4. Bad = {}
    <2> SUFFICES ASSUME Bad # {} PROVE FALSE
      OBVIOUS
    <2>1. PICK n \in Bad : \A m \in Bad : n <= m
      <3>1. Bad \in SUBSET Nat
        OBVIOUS
      <3> HIDE DEF Bad
      <3> QED BY <3>1, Least
    <2>2. n \in Nat /\ ~Has(n) /\ n # 0
      BY <1>2, <2>1
    <2>3. n - 1 \in Nat /\ (n - 1) + 1 = n /\ n - 1 \notin Bad
      BY <2>1, <2>2
    <2>4. Has(n - 1)
      BY <2>3
    <2> QED BY <1>3, <2>2, <2>3, <2>4
  <1>5. Has(Cardinality(S)) /\ Cardinality(S) \in Nat
    BY <1>1, <1>4
  <1>6. Upto(Cardinality(S)) = SUBSET S
    <2>1. \A s \in SUBSET S : Cardinality(s) <= Cardinality(S)
      BY FS_Subset
    <2> QED BY <2>1
  <1> QED BY <1>5, <1>6 DEF Has, Sums

\* The sum of a function is the solution.
LEMMA SumSolves ==
  ASSUME NEW S, IsFiniteSet(S), NEW w \in [S -> Nat]
  PROVE  \E g \in [SUBSET S -> Nat] : Sums(g, w, S) /\ SumFunction(w) = g[S]
  <1> DEFINE Adds(g) == g = [s \in SUBSET S |-> IF s = {} THEN 0
                               ELSE w[CHOOSE x \in s : TRUE] + g[s \ {CHOOSE x \in s : TRUE}]]
             sum == CHOOSE g : Adds(g)
  <1>1. SumFunction(w) = sum[S]
    BY DEF SumFunction, SumFunctionOnSet, FoldFunctionOnSet, MapThenFoldSet
  <1>2. PICK g \in [SUBSET S -> Nat] : Sums(g, w, S)
    BY SumsExist
  <1>3. Adds(g)
    BY <1>2 DEF Sums, Equation, Pick
  <1> HIDE DEF Adds
  <1>4. Adds(sum)
    BY <1>3
  <1> USE DEF Adds
  <1> HIDE DEF sum
  <1>5. Sums(sum, w, S)
    BY <1>4 DEF Sums, Equation, Pick
  <1>6. sum[S] = g[S]
    BY <1>2, <1>5, SumsAgree
  <1> QED BY <1>1, <1>2, <1>6

\* Any element may be taken out first.
AnyOf(g, w, S) == \A s \in SUBSET S : \A y \in s : g[s] = w[y] + g[s \ {y}]

LEMMA AnyFirst ==
  ASSUME NEW S, IsFiniteSet(S), NEW w \in [S -> Nat], NEW g \in [SUBSET S -> Nat], Sums(g, w, S)
  PROVE  AnyOf(g, w, S)
  <1> SUFFICES \A s \in SUBSET S : \A y \in s : g[s] = w[y] + g[s \ {y}]
    BY DEF AnyOf
  <1> DEFINE Bad == {s \in SUBSET S : \E y \in s : g[s] # w[y] + g[s \ {y}]}
  <1> SUFFICES ASSUME Bad # {} PROVE FALSE
    OBVIOUS
  <1>1. PICK s \in Bad : \A x \in s : s \ {x} \notin Bad
    <2>1. Bad \in SUBSET (SUBSET S)
      OBVIOUS
    <2> HIDE DEF Bad
    <2> QED BY <2>1, SmallestSubset
  <1>2. PICK y \in s : g[s] # w[y] + g[s \ {y}]
    BY <1>1
  <1> DEFINE x == Pick(s)
  <1>3. s \in SUBSET S /\ s # {} /\ x \in s /\ g[s] = w[x] + g[s \ {x}]
    BY <1>1, <1>2, Picked DEF Sums, Equation
  <1> HIDE DEF x
  <1>4. x # y /\ y \in s \ {x} /\ x \in s \ {y}
    BY <1>2, <1>3
  <1>5. g[s \ {x}] = w[y] + g[(s \ {x}) \ {y}] /\ g[s \ {y}] = w[x] + g[(s \ {y}) \ {x}]
    BY <1>1, <1>2, <1>3, <1>4
  <1> DEFINE r == (s \ {x}) \ {y}
  <1>6. r = (s \ {y}) \ {x} /\ r \in SUBSET S
    BY <1>3
  <1>7. g[s \ {x}] = w[y] + g[r] /\ g[s \ {y}] = w[x] + g[r]
    BY <1>5, <1>6
  <1>8. w[x] \in Nat /\ w[y] \in Nat /\ g[r] \in Nat
    BY <1>2, <1>3, <1>6
  <1> HIDE DEF r
  <1>9. g[s] = w[y] + g[s \ {y}]
    BY ONLY <1>3, <1>7, <1>8
  <1> QED BY <1>2, <1>9

\* What a sum is, without and with one more element.
LEMMA SumOfNone ==
  ASSUME NEW w \in [{} -> Nat]
  PROVE  SumFunction(w) = 0
  <1>1. PICK g \in [SUBSET {} -> Nat] : Sums(g, w, {}) /\ SumFunction(w) = g[{}]
    BY SumSolves, FS_EmptySet
  <1> QED BY <1>1 DEF Sums, Equation

LEMMA SumWithout ==
  ASSUME NEW S, IsFiniteSet(S), NEW w \in [S -> Nat], NEW y \in S
  PROVE  /\ SumFunction(w) = w[y] + SumFunction([x \in S \ {y} |-> w[x]])
         /\ SumFunction(w) \in Nat /\ SumFunction([x \in S \ {y} |-> w[x]]) \in Nat
  <1> DEFINE R == S \ {y}
             v == [x \in R |-> w[x]]
  <1>1. IsFiniteSet(R) /\ v \in [R -> Nat] /\ R \subseteq S /\ \A x \in R : w[x] = v[x]
    BY FS_RemoveElement
  <1>2. PICK g \in [SUBSET S -> Nat] : Sums(g, w, S) /\ SumFunction(w) = g[S]
    BY SumSolves
  <1>3. PICK h \in [SUBSET R -> Nat] : Sums(h, v, R) /\ SumFunction(v) = h[R]
    <2> HIDE DEF R, v
    <2> QED BY <1>1, SumSolves
  <1>4. g[S] = w[y] + g[R]
    <2> HIDE DEF R, v
    <2>1. AnyOf(g, w, S)
      BY <1>2, AnyFirst
    <2> QED BY <2>1 DEF AnyOf, R
  <1>5. g[R] = h[R]
    <2> HIDE DEF R, v
    <2> QED BY <1>1, <1>2, <1>3, SumsAgree
  <1>6. g[S] \in Nat /\ h[R] \in Nat
    BY <1>2, <1>3
  <1>7. SumFunction(w) = w[y] + SumFunction(v) /\ SumFunction(w) \in Nat /\ SumFunction(v) \in Nat
    BY <1>2, <1>3, <1>4, <1>5, <1>6
  <1> QED BY <1>7

\* One more element, and another value for one.
OneMore(S, w, R, v, y) ==
  /\ IsFiniteSet(S) /\ w \in [S -> Nat] /\ y \notin S
  /\ R = S \union {y} /\ v \in [R -> Nat] /\ \A x \in S : v[x] = w[x]

LEMMA SumWith ==
  ASSUME NEW S, NEW w, NEW R, NEW v, NEW y, OneMore(S, w, R, v, y)
  PROVE  IsFiniteSet(R) /\ SumFunction(v) = SumFunction(w) + v[y]
  <1>1. IsFiniteSet(R) /\ y \in R /\ R \ {y} = S /\ v[y] \in Nat
    BY FS_AddElement DEF OneMore
  <1>2. [x \in R \ {y} |-> v[x]] = w
    BY <1>1 DEF OneMore
  <1>3. SumFunction(v) = v[y] + SumFunction([x \in R \ {y} |-> v[x]])
        /\ SumFunction([x \in R \ {y} |-> v[x]]) \in Nat
    BY <1>1, SumWithout DEF OneMore
  <1> QED BY <1>1, <1>2, <1>3

LEMMA SumChanged ==
  ASSUME NEW S, IsFiniteSet(S), NEW w \in [S -> Nat], NEW v \in [S -> Nat],
         NEW y \in S, \A x \in S : x # y => v[x] = w[x]
  PROVE  SumFunction(v) - v[y] = SumFunction(w) - w[y]
  <1>1. [x \in S \ {y} |-> v[x]] = [x \in S \ {y} |-> w[x]]
    OBVIOUS
  <1>2. /\ SumFunction(v) = v[y] + SumFunction([x \in S \ {y} |-> v[x]])
        /\ SumFunction([x \in S \ {y} |-> v[x]]) \in Nat
    BY SumWithout
  <1>3. SumFunction(w) = w[y] + SumFunction([x \in S \ {y} |-> w[x]])
    BY SumWithout
  <1>4. v[y] \in Nat /\ w[y] \in Nat
    OBVIOUS
  <1> QED BY <1>1, <1>2, <1>3, <1>4

-----------------------------------------------------------------------------
(* Counts. *)

\* Calls of mcount in progress and the lists of what was recorded.
Steps == {"entry", "arc", "load", "store", "check", "clear", "init", "arm", "insert"}
Arcs == [from_pc : Site, count : Nat]
Entries == [self_pc : Fn, arcs : Seq(Arcs)]
CallsOfMcount == [step : Steps, fn : Fn, site : Site, entry : Nat, arc : Nat, count : Nat]

\* What a call knows of the lists es: the entry it found is the function's, the arc it
\* found is the caller's, and the count it loaded was not more than the present one.
Claims(c, es) ==
  /\ c.entry # 0 => c.entry \in DOMAIN es /\ es[c.entry].self_pc = c.fn
  /\ c.step \in {"arc", "load", "store"} => c.entry # 0
  /\ c.step \in {"load", "store"} =>
       c.arc \in DOMAIN es[c.entry].arcs /\ es[c.entry].arcs[c.arc].from_pc = c.site
  /\ c.step = "store" => c.count <= es[c.entry].arcs[c.arc].count

\* A call that interrupted another one is not interrupted itself: its count is present.
CountPresent(c, es) == c.step = "store" => c.count = es[c.entry].arcs[c.arc].count

StackGood(st, es) ==
  /\ st \in Seq(CallsOfMcount) /\ Len(st) <= 2
  /\ \A i \in 1..Len(st) : Claims(st[i], es)
  /\ Len(st) = 2 => CountPresent(st[2], es)

CountsGood(es, cs, rc) ==
  /\ es \in Seq(Entries) /\ cs \in [Fn \X Site -> Nat] /\ rc \in BOOLEAN
  /\ \A f \in Fn, s \in Site :
       /\ IsFiniteSet(CopiesOf(es, f, s))
       /\ Total(es, f, s) <= cs[<<f, s>>]
       /\ rc = FALSE => Total(es, f, s) = cs[<<f, s>>]

CountInv == StackGood(stack, entries) /\ CountsGood(entries, calls, raced)

\* The last of some places of a list is one of them.
LEMMA LastPlace ==
  ASSUME NEW n \in Nat, NEW I \in SUBSET (1..n), I # {}
  PROVE  Max(I) \in I
  <1> DEFINE D == {n - i : i \in I}
  <1>1. \A i \in I : i \in Int /\ n - i \in Nat /\ n - i \in D
    <2>1. \A i \in 1..n : i \in Int /\ n - i \in Nat
      OBVIOUS
    <2> QED BY <2>1
  <1>2. D \in SUBSET Nat /\ D # {}
    BY <1>1
  <1>3. PICK z \in D : \A y \in D : z <= y
    <2> HIDE DEF D
    <2> QED BY <1>2, Least
  <1>4. PICK m \in I : z = n - m
    BY <1>3
  <1>5. \A i \in I : m >= i
    <2> HIDE DEF D
    <2> QED BY <1>1, <1>3, <1>4
  <1> QED BY <1>4, <1>5 DEF Max

\* Stacks: a call begins, goes on and ends.
LEMMA Pushed ==
  ASSUME NEW es, NEW st, StackGood(st, es), Len(st) < 2,
         NEW c \in CallsOfMcount, Claims(c, es), CountPresent(c, es)
  PROVE  StackGood(Append(st, c), es)
  <1> DEFINE t == Append(st, c)
  <1>1. st \in Seq(CallsOfMcount) /\ Len(st) \in Nat /\ Len(st) <= 1
    BY LenProperties DEF StackGood
  <1>2. /\ t \in Seq(CallsOfMcount) /\ Len(t) = Len(st) + 1
        /\ \A i \in 1..Len(st) : t[i] = st[i]
        /\ t[Len(st) + 1] = c
    BY <1>1, Appended
  <1> HIDE DEF t
  <1>3. ASSUME NEW i \in 1..Len(t) PROVE Claims(t[i], es)
    <2>1. CASE i = Len(st) + 1
      BY <1>2, <2>1
    <2>2. CASE i # Len(st) + 1
      <3>1. i \in 1..Len(st)
        BY <1>1, <1>2, <2>2
      <3> QED BY <1>2, <3>1 DEF StackGood
    <2> QED BY <2>1, <2>2
  <1>4. Len(t) = 2 => t[2] = c
    BY <1>1, <1>2
  <1>5. Len(t) <= 2
    BY <1>1, <1>2
  <1> QED BY <1>2, <1>3, <1>4, <1>5 DEF StackGood, t

LEMMA GoesOn ==
  ASSUME NEW es, NEW st, StackGood(st, es), st # <<>>,
         NEW c \in CallsOfMcount, Claims(c, es), CountPresent(c, es)
  PROVE  StackGood(Append(Front(st), c), es)
  <1> DEFINE t == Append(Front(st), c)
  <1>1. st \in Seq(CallsOfMcount) /\ Len(st) <= 2
    BY DEF StackGood
  <1>2. Len(st) \in Nat \ {0}
    BY <1>1, WithoutLast
  <1>3. /\ t \in Seq(CallsOfMcount) /\ Len(t) = Len(st)
        /\ \A i \in 1..(Len(st) - 1) : t[i] = st[i]
        /\ t[Len(st)] = c
    BY <1>1, LastReplaced
  <1> HIDE DEF t
  <1>4. ASSUME NEW i \in 1..Len(t) PROVE Claims(t[i], es)
    <2>1. CASE i = Len(st)
      BY <1>3, <2>1
    <2>2. CASE i # Len(st)
      <3>1. i \in 1..(Len(st) - 1) /\ i \in 1..Len(st)
        BY <1>2, <1>3, <2>2
      <3> QED BY <1>3, <3>1 DEF StackGood
    <2> QED BY <2>1, <2>2
  <1> QED BY <1>1, <1>3, <1>4 DEF StackGood, t

LEMMA Popped ==
  ASSUME NEW es, NEW gs, NEW st, StackGood(st, es), st # <<>>,
         Len(st) = 2 => Claims(st[1], gs)
  PROVE  StackGood(Front(st), gs)
  <1> DEFINE t == Front(st)
  <1>1. st \in Seq(CallsOfMcount) /\ Len(st) <= 2
    BY DEF StackGood
  <1>2. /\ Len(st) \in Nat \ {0} /\ t \in Seq(CallsOfMcount) /\ Len(t) = Len(st) - 1
        /\ \A i \in 1..(Len(st) - 1) : t[i] = st[i]
    BY <1>1, WithoutLast
  <1> HIDE DEF t
  <1>3. ASSUME NEW i \in 1..Len(t) PROVE Claims(t[i], gs)
    <2>1. i = 1 /\ Len(st) = 2
      BY <1>1, <1>2
    <2>2. t[1] = st[1]
      BY <1>2, <2>1
    <2> QED BY <2>1, <2>2
  <1>4. Len(t) <= 2 /\ Len(t) # 2
    BY <1>1, <1>2
  <1> QED BY <1>2, <1>3, <1>4 DEF StackGood, t

\* The places of the lists es, and the counts there.
LEMMA PlaceIs ==
  ASSUME NEW es, NEW i \in Places(es)
  PROVE  /\ i = <<i[1], i[2]>> /\ i[1] \in DOMAIN es /\ i[2] \in DOMAIN es[i[1]].arcs
  BY DEF Places

LEMMA IsPlace ==
  ASSUME NEW es, NEW e \in DOMAIN es, NEW a \in DOMAIN es[e].arcs
  PROVE  <<e, a>> \in Places(es)
  BY DEF Places

LEMMA ListsAre ==
  ASSUME NEW es \in Seq(Entries), NEW e \in DOMAIN es
  PROVE  /\ es[e] \in Entries /\ es[e].self_pc \in Fn /\ es[e].arcs \in Seq(Arcs)
         /\ \A a \in DOMAIN es[e].arcs :
              /\ es[e].arcs[a] \in Arcs /\ es[e].arcs[a].from_pc \in Site
              /\ es[e].arcs[a].count \in Nat
  <1>1. es[e] \in Entries
    BY ElementOfSeq, LenProperties
  <1>2. es[e].self_pc \in Fn /\ es[e].arcs \in Seq(Arcs)
    BY <1>1 DEF Entries
  <1>3. \A a \in DOMAIN es[e].arcs : es[e].arcs[a] \in Arcs
    BY <1>2, ElementOfSeq, LenProperties
  <1> QED BY <1>1, <1>2, <1>3 DEF Arcs

Counts(es, f, s) == [i \in CopiesOf(es, f, s) |-> ArcAt(es, i).count]

LEMMA CountsAre ==
  ASSUME NEW es \in Seq(Entries), NEW f, NEW s
  PROVE  Counts(es, f, s) \in [CopiesOf(es, f, s) -> Nat]
  <1>1. ASSUME NEW i \in CopiesOf(es, f, s) PROVE ArcAt(es, i).count \in Nat
    <2>1. i[1] \in DOMAIN es /\ i[2] \in DOMAIN es[i[1]].arcs
      BY PlaceIs DEF CopiesOf
    <2> QED BY <2>1, ListsAre DEF ArcAt
  <1> QED BY <1>1 DEF Counts

LEMMA TotalIs ==
  ASSUME NEW es \in Seq(Entries), NEW f, NEW s, IsFiniteSet(CopiesOf(es, f, s))
  PROVE  Total(es, f, s) = SumFunction(Counts(es, f, s)) /\ Total(es, f, s) \in Nat
  <1> DEFINE C == CopiesOf(es, f, s)
             w == Counts(es, f, s)
  <1>1. w \in [C -> Nat]
    BY CountsAre
  <1>2. Total(es, f, s) = SumFunction(w)
    BY DEF Total, Counts
  <1> HIDE DEF C, w
  <1>3. PICK g \in [SUBSET C -> Nat] : SumFunction(w) = g[C]
    BY <1>1, SumSolves DEF C
  <1>4. SumFunction(w) \in Nat
    BY <1>3
  <1> QED BY <1>2, <1>4 DEF w

\* One more place, whose arc is counted once.
Gains(es, gs, at, f, s) ==
  /\ Places(gs) = Places(es) \union {at} /\ at \notin Places(es)
  /\ \A i \in Places(es) : gs[i[1]].self_pc = es[i[1]].self_pc /\ ArcAt(gs, i) = ArcAt(es, i)
  /\ gs[at[1]].self_pc = f /\ ArcAt(gs, at).from_pc = s /\ ArcAt(gs, at).count = 1

LEMMA TotalGains ==
  ASSUME NEW es \in Seq(Entries), NEW gs \in Seq(Entries), NEW at, NEW f, NEW s,
         Gains(es, gs, at, f, s), NEW e, NEW t, IsFiniteSet(CopiesOf(es, e, t))
  PROVE  /\ IsFiniteSet(CopiesOf(gs, e, t))
         /\ Total(gs, e, t) = Total(es, e, t) + IF <<e, t>> = <<f, s>> THEN 1 ELSE 0
  <1> DEFINE C == CopiesOf(es, e, t)
             D == CopiesOf(gs, e, t)
             w == Counts(es, e, t)
             v == Counts(gs, e, t)
  <1>1. \A i \in Places(es) : i \in C <=> i \in D
    BY DEF CopiesOf, Gains
  <1>2. at \in D <=> <<e, t>> = <<f, s>>
    BY DEF CopiesOf, Gains
  <1>3. C \subseteq Places(es) /\ D \subseteq Places(es) \union {at} /\ at \notin C
    BY DEF CopiesOf, Gains
  <1>4. w \in [C -> Nat] /\ v \in [D -> Nat]
    BY CountsAre
  <1>5. \A i \in C : i \in D => v[i] = w[i]
    BY <1>3 DEF Gains, Counts
  <1>6. at \in D => v[at] = 1
    BY DEF Gains, Counts
  <1>7. Total(es, e, t) = SumFunction(w)
    BY TotalIs
  <1>8. Total(gs, e, t) = SumFunction(v)
    BY DEF Total, Counts
  <1>9. IsFiniteSet(C)
    OBVIOUS
  <1>10. SumFunction(w) \in Nat
    BY <1>7, <1>9, TotalIs
  <1> HIDE DEF C, D, w, v
  <1>11. CASE <<e, t>> = <<f, s>>
    <2>1. D = C \union {at}
      BY <1>1, <1>2, <1>3, <1>11
    <2>2. OneMore(C, w, D, v, at)
      BY <1>3, <1>4, <1>5, <1>9, <2>1 DEF OneMore
    <2>3. IsFiniteSet(D) /\ SumFunction(v) = SumFunction(w) + v[at]
      BY <2>2, SumWith
    <2>4. v[at] = 1
      BY <1>6, <2>1
    <2> QED BY <1>7, <1>8, <1>11, <2>3, <2>4 DEF D
  <1>12. CASE <<e, t>> # <<f, s>>
    <2>1. D = C
      BY <1>1, <1>2, <1>3, <1>12
    <2>2. v = w
      BY <1>4, <1>5, <2>1
    <2>3. SumFunction(v) = SumFunction(w) + 0
      BY <1>10, <2>2
    <2> QED BY <1>7, <1>8, <1>9, <1>12, <2>1, <2>3 DEF D
  <1> QED BY <1>11, <1>12

\* Another count at one place.
Recounts(es, gs, at, f, s, n) ==
  /\ Places(gs) = Places(es) /\ at \in Places(es)
  /\ \A i \in Places(es) :
       /\ gs[i[1]].self_pc = es[i[1]].self_pc /\ ArcAt(gs, i).from_pc = ArcAt(es, i).from_pc
       /\ i # at => ArcAt(gs, i).count = ArcAt(es, i).count
  /\ es[at[1]].self_pc = f /\ ArcAt(es, at).from_pc = s /\ ArcAt(gs, at).count = n

LEMMA TotalRecounts ==
  ASSUME NEW es \in Seq(Entries), NEW gs \in Seq(Entries), NEW at, NEW f, NEW s, NEW n,
         Recounts(es, gs, at, f, s, n), NEW e, NEW t, IsFiniteSet(CopiesOf(es, e, t))
  PROVE  /\ IsFiniteSet(CopiesOf(gs, e, t))
         /\ <<e, t>> = <<f, s>> =>
              Total(gs, e, t) - n = Total(es, e, t) - ArcAt(es, at).count
         /\ <<e, t>> # <<f, s>> => Total(gs, e, t) = Total(es, e, t)
  <1> DEFINE C == CopiesOf(es, e, t)
             D == CopiesOf(gs, e, t)
             w == Counts(es, e, t)
             v == Counts(gs, e, t)
  <1>1. D = C
    BY DEF CopiesOf, Recounts
  <1>2. at \in C <=> <<e, t>> = <<f, s>>
    BY DEF CopiesOf, Recounts
  <1>3. w \in [C -> Nat] /\ v \in [D -> Nat]
    BY CountsAre
  <1>4. C \subseteq Places(es)
    BY DEF CopiesOf
  <1>5. \A i \in C : i # at => v[i] = w[i]
    BY <1>1, <1>4 DEF Recounts, Counts
  <1>6. at \in C => v[at] = n /\ w[at] = ArcAt(es, at).count
    BY <1>1 DEF Recounts, Counts
  <1>7. Total(es, e, t) = SumFunction(w) /\ Total(gs, e, t) = SumFunction(v)
    BY DEF Total, Counts
  <1>8. IsFiniteSet(C)
    OBVIOUS
  <1> HIDE DEF C, D, w, v
  <1>9. CASE <<e, t>> = <<f, s>>
    <2>1. SumFunction(v) - v[at] = SumFunction(w) - w[at]
      <3>1. v \in [C -> Nat] /\ at \in C
        BY <1>1, <1>2, <1>3, <1>9
      <3> QED BY ONLY <1>3, <1>5, <1>8, <3>1, SumChanged
    <2> QED BY <1>1, <1>2, <1>6, <1>7, <1>8, <1>9, <2>1 DEF D
  <1>10. CASE <<e, t>> # <<f, s>>
    <2>1. v = w
      BY <1>1, <1>2, <1>3, <1>5, <1>10
    <2> QED BY <1>1, <1>7, <1>8, <1>10, <2>1 DEF D
  <1> QED BY <1>9, <1>10

\* Lists that grow, and in which counts grow.
Extends(es, gs) ==
  \A e \in DOMAIN es :
    /\ e \in DOMAIN gs /\ gs[e].self_pc = es[e].self_pc
    /\ \A a \in DOMAIN es[e].arcs :
         /\ a \in DOMAIN gs[e].arcs /\ gs[e].arcs[a].from_pc = es[e].arcs[a].from_pc
         /\ es[e].arcs[a].count <= gs[e].arcs[a].count

LEMMA ClaimsHold ==
  ASSUME NEW es \in Seq(Entries), NEW gs \in Seq(Entries), Extends(es, gs),
         NEW c \in CallsOfMcount, Claims(c, es)
  PROVE  Claims(c, gs)
  <1>1. ASSUME c.entry # 0 PROVE c.entry \in DOMAIN gs /\ gs[c.entry].self_pc = c.fn
    BY <1>1 DEF Claims, Extends
  <1>2. c.step \in {"arc", "load", "store"} => c.entry # 0
    BY DEF Claims
  <1>3. ASSUME c.step \in {"load", "store"}
        PROVE  /\ c.arc \in DOMAIN gs[c.entry].arcs
               /\ gs[c.entry].arcs[c.arc].from_pc = c.site
               /\ es[c.entry].arcs[c.arc].count <= gs[c.entry].arcs[c.arc].count
    BY <1>3 DEF Claims, Extends
  <1>4. ASSUME c.step = "store" PROVE c.count <= gs[c.entry].arcs[c.arc].count
    <2>1. c.entry \in DOMAIN es /\ c.arc \in DOMAIN es[c.entry].arcs
      BY <1>4 DEF Claims
    <2>2. c.entry \in DOMAIN gs /\ c.arc \in DOMAIN gs[c.entry].arcs
      BY <1>1, <1>2, <1>3, <1>4
    <2>3. es[c.entry].arcs[c.arc].count \in Nat /\ gs[c.entry].arcs[c.arc].count \in Nat
      BY <2>1, <2>2, ListsAre
    <2>4. c.count \in Nat /\ c.count <= es[c.entry].arcs[c.arc].count
      BY <1>4 DEF Claims, CallsOfMcount
    <2>5. es[c.entry].arcs[c.arc].count <= gs[c.entry].arcs[c.arc].count
      BY <1>3, <1>4
    <2> QED BY <2>3, <2>4, <2>5
  <1> QED BY <1>1, <1>2, <1>3, <1>4 DEF Claims

LEMMA Replaced ==
  ASSUME NEW S, NEW q \in Seq(S), NEW k \in DOMAIN q, NEW x \in S, NEW r,
         r = [q EXCEPT ![k] = x]
  PROVE  /\ r \in Seq(S) /\ DOMAIN r = DOMAIN q /\ Len(r) = Len(q) /\ r[k] = x
         /\ \A i \in DOMAIN q : i # k => r[i] = q[i]
  <1>1. k \in 1..Len(q) /\ DOMAIN q = 1..Len(q)
    BY LenProperties
  <1>2. r \in Seq(S) /\ Len(r) = Len(q) /\ \A i \in 1..Len(q) : r[i] = IF i = k THEN x ELSE q[i]
    BY <1>1, ExceptSeq
  <1> QED BY <1>1, <1>2

\* A count is stored.
LEMMA Stored ==
  ASSUME NEW es \in Seq(Entries), NEW e \in DOMAIN es, NEW a \in DOMAIN es[e].arcs,
         NEW n \in Nat, NEW gs, gs = [es EXCEPT ![e].arcs[a].count = n]
  PROVE  /\ gs \in Seq(Entries)
         /\ Recounts(es, gs, <<e, a>>, es[e].self_pc, es[e].arcs[a].from_pc, n)
         /\ es[e].arcs[a].count <= n => Extends(es, gs)
  <1> DEFINE b == [es[e].arcs[a] EXCEPT !.count = n]
             as == [es[e].arcs EXCEPT ![a] = b]
             l == [es[e] EXCEPT !.arcs = as]
  <1>1. gs = [es EXCEPT ![e] = l]
    OBVIOUS
  <1>2. es[e] \in Entries /\ es[e].arcs \in Seq(Arcs) /\ es[e].arcs[a] \in Arcs
    BY ListsAre
  <1>3. b \in Arcs /\ b.from_pc = es[e].arcs[a].from_pc /\ b.count = n
    BY <1>2 DEF Arcs
  <1> HIDE DEF b
  <1>4. /\ as \in Seq(Arcs) /\ DOMAIN as = DOMAIN es[e].arcs /\ as[a] = b
        /\ \A i \in DOMAIN es[e].arcs : i # a => as[i] = es[e].arcs[i]
    BY <1>2, <1>3, Replaced
  <1> HIDE DEF as
  <1>5. l \in Entries /\ l.self_pc = es[e].self_pc /\ l.arcs = as
    BY <1>2, <1>4 DEF Entries
  <1> HIDE DEF l
  <1>6. /\ gs \in Seq(Entries) /\ DOMAIN gs = DOMAIN es /\ gs[e] = l
        /\ \A i \in DOMAIN es : i # e => gs[i] = es[i]
    <2>1. es \in Seq(Entries) /\ e \in DOMAIN es
      OBVIOUS
    <2> QED BY ONLY <1>1, <1>5, <2>1, Replaced
  <1>7. \A i \in DOMAIN es : gs[i].self_pc = es[i].self_pc /\ DOMAIN gs[i].arcs = DOMAIN es[i].arcs
    BY <1>4, <1>5, <1>6
  <1>8. Places(gs) = Places(es)
    BY <1>6, <1>7 DEF Places
  <1>9. \A i \in DOMAIN es : \A k \in DOMAIN es[i].arcs :
          /\ gs[i].arcs[k].from_pc = es[i].arcs[k].from_pc
          /\ <<i, k>> # <<e, a>> => gs[i].arcs[k].count = es[i].arcs[k].count
    BY <1>3, <1>4, <1>5, <1>6
  <1>10. gs[e].arcs[a].count = n
    BY <1>3, <1>4, <1>5, <1>6
  <1>11. Recounts(es, gs, <<e, a>>, es[e].self_pc, es[e].arcs[a].from_pc, n)
    <2>1. <<e, a>> \in Places(es) /\ <<e, a>>[1] = e /\ <<e, a>>[2] = a
      BY IsPlace
    <2>2. ASSUME NEW i \in Places(es)
          PROVE  /\ gs[i[1]].self_pc = es[i[1]].self_pc
                 /\ ArcAt(gs, i).from_pc = ArcAt(es, i).from_pc
                 /\ i # <<e, a>> => ArcAt(gs, i).count = ArcAt(es, i).count
      <3>1. i = <<i[1], i[2]>> /\ i[1] \in DOMAIN es /\ i[2] \in DOMAIN es[i[1]].arcs
        BY PlaceIs
      <3> QED BY <1>7, <1>9, <3>1 DEF ArcAt
    <2>3. ArcAt(es, <<e, a>>).from_pc = es[e].arcs[a].from_pc /\ ArcAt(gs, <<e, a>>).count = n
      BY <1>10 DEF ArcAt
    <2> QED BY <1>8, <2>1, <2>2, <2>3 DEF Recounts
  <1>12. ASSUME es[e].arcs[a].count <= n PROVE Extends(es, gs)
    <2>1. ASSUME NEW i \in DOMAIN es, NEW k \in DOMAIN es[i].arcs
          PROVE  es[i].arcs[k].count <= gs[i].arcs[k].count
      <3>1. es[i].arcs[k].count \in Nat
        BY ListsAre
      <3>2. CASE <<i, k>> = <<e, a>>
        BY <1>10, <1>12, <3>2
      <3>3. CASE <<i, k>> # <<e, a>>
        BY <1>9, <3>1, <3>3
      <3> QED BY <3>2, <3>3
    <2> QED BY <1>6, <1>7, <1>9, <2>1 DEF Extends
  <1> QED BY <1>6, <1>11, <1>12

\* A new arc in the list of an entry.
LEMMA Inserted ==
  ASSUME NEW es \in Seq(Entries), NEW e \in DOMAIN es, NEW s \in Site,
         NEW gs, gs = [es EXCEPT ![e].arcs = Linked(@, s)]
  PROVE  /\ gs \in Seq(Entries) /\ Extends(es, gs)
         /\ \E at : Gains(es, gs, at, es[e].self_pc, s)
  <1> DEFINE as == Append(es[e].arcs, NewArc(s))
             l == [es[e] EXCEPT !.arcs = as]
             n == Len(es[e].arcs) + 1
  <1>1. gs = [es EXCEPT ![e] = l]
    BY DEF Linked
  <1>2. es[e] \in Entries /\ es[e].arcs \in Seq(Arcs)
    BY ListsAre
  <1>3. NewArc(s) \in Arcs /\ NewArc(s).from_pc = s /\ NewArc(s).count = 1
    BY DEF NewArc, Arcs
  <1>4. /\ as \in Seq(Arcs) /\ Len(as) = n /\ as[n] = NewArc(s)
        /\ \A i \in 1..Len(es[e].arcs) : as[i] = es[e].arcs[i]
    BY <1>2, <1>3, Appended
  <1>5. /\ Len(es[e].arcs) \in Nat /\ DOMAIN es[e].arcs = 1..Len(es[e].arcs)
        /\ DOMAIN as = 1..Len(as)
    BY <1>2, <1>4, LenProperties
  <1> HIDE DEF as
  <1>6. DOMAIN as = DOMAIN es[e].arcs \union {n} /\ n \notin DOMAIN es[e].arcs
    BY <1>4, <1>5
  <1>7. l \in Entries /\ l.self_pc = es[e].self_pc /\ l.arcs = as
    BY <1>2, <1>4 DEF Entries
  <1> HIDE DEF l, n
  <1>8. /\ gs \in Seq(Entries) /\ DOMAIN gs = DOMAIN es /\ gs[e] = l
        /\ \A i \in DOMAIN es : i # e => gs[i] = es[i]
    <2>1. es \in Seq(Entries) /\ e \in DOMAIN es
      OBVIOUS
    <2> QED BY ONLY <1>1, <1>7, <2>1, Replaced
  <1>9. \A i \in DOMAIN es : gs[i].self_pc = es[i].self_pc
    BY <1>7, <1>8
  <1>10. \A i \in DOMAIN es : \A k \in DOMAIN es[i].arcs :
           k \in DOMAIN gs[i].arcs /\ gs[i].arcs[k] = es[i].arcs[k]
    BY <1>4, <1>5, <1>6, <1>7, <1>8
  <1>11. \A i \in DOMAIN gs : \A k \in DOMAIN gs[i].arcs :
           k \in DOMAIN es[i].arcs \/ (i = e /\ k = n)
    <2> TAKE i \in DOMAIN gs
    <2> TAKE k \in DOMAIN gs[i].arcs
    <2>1. i = e => k \in DOMAIN es[e].arcs \union {n}
      BY <1>6, <1>7, <1>8
    <2>2. i # e => gs[i] = es[i]
      BY <1>8
    <2> QED BY <2>1, <2>2
  <1>12. e \in DOMAIN gs /\ n \in DOMAIN gs[e].arcs /\ gs[e].arcs[n] = NewArc(s)
    BY <1>4, <1>6, <1>7, <1>8
  <1>13. Extends(es, gs)
    <2>1. ASSUME NEW i \in DOMAIN es, NEW k \in DOMAIN es[i].arcs
          PROVE  es[i].arcs[k].count <= gs[i].arcs[k].count
      <3>1. es[i].arcs[k].count \in Nat /\ gs[i].arcs[k] = es[i].arcs[k]
        BY <1>10, ListsAre
      <3> QED BY <3>1
    <2> QED BY <1>8, <1>9, <1>10, <2>1 DEF Extends
  <1>14. Gains(es, gs, <<e, n>>, es[e].self_pc, s)
    <2>1. <<e, n>> \in Places(gs) /\ <<e, n>> \notin Places(es)
      <3>1. ASSUME <<e, n>> \in Places(es) PROVE n \in DOMAIN es[e].arcs
        <4> DEFINE i == <<e, n>>
        <4>1. i[1] = e /\ i[2] = n
          OBVIOUS
        <4> HIDE DEF i
        <4>2. i[2] \in DOMAIN es[i[1]].arcs
          BY <3>1, PlaceIs DEF i
        <4> QED BY <4>1, <4>2
      <3> QED BY <1>6, <1>12, <3>1, IsPlace
    <2>2. Places(gs) = Places(es) \union {<<e, n>>}
      <3>1. ASSUME NEW i \in Places(es) PROVE i \in Places(gs)
        <4>1. i = <<i[1], i[2]>> /\ i[1] \in DOMAIN es /\ i[2] \in DOMAIN es[i[1]].arcs
          BY PlaceIs
        <4>2. i[1] \in DOMAIN gs /\ i[2] \in DOMAIN gs[i[1]].arcs
          BY <1>8, <1>10, <4>1
        <4> QED BY <4>1, <4>2, IsPlace
      <3>2. ASSUME NEW i \in Places(gs) PROVE i \in Places(es) \/ i = <<e, n>>
        <4>1. i = <<i[1], i[2]>> /\ i[1] \in DOMAIN gs /\ i[2] \in DOMAIN gs[i[1]].arcs
          BY PlaceIs
        <4>2. i[1] \in DOMAIN es /\ (i[2] \in DOMAIN es[i[1]].arcs \/ (i[1] = e /\ i[2] = n))
          BY <1>8, <1>11, <4>1
        <4> QED BY <4>1, <4>2, IsPlace
      <3> QED BY <2>1, <3>1, <3>2
    <2>3. ASSUME NEW i \in Places(es)
          PROVE  gs[i[1]].self_pc = es[i[1]].self_pc /\ ArcAt(gs, i) = ArcAt(es, i)
      <3>1. i[1] \in DOMAIN es /\ i[2] \in DOMAIN es[i[1]].arcs
        BY PlaceIs
      <3> QED BY <1>9, <1>10, <3>1 DEF ArcAt
    <2>4. ArcAt(gs, <<e, n>>) = NewArc(s) /\ gs[<<e, n>>[1]].self_pc = es[e].self_pc
      BY <1>9, <1>12 DEF ArcAt
    <2> QED BY <1>3, <2>1, <2>2, <2>3, <2>4 DEF Gains
  <1> QED BY <1>8, <1>13, <1>14

\* A new entry with its first arc.
LEMMA Recorded ==
  ASSUME NEW es \in Seq(Entries), NEW f \in Fn, NEW s \in Site,
         NEW gs, gs = Append(es, [self_pc |-> f, arcs |-> Linked(<<>>, s)])
  PROVE  /\ gs \in Seq(Entries) /\ Extends(es, gs)
         /\ \E at : Gains(es, gs, at, f, s)
  <1> DEFINE as == Append(<<>>, NewArc(s))
             l == [self_pc |-> f, arcs |-> as]
             n == Len(es) + 1
  <1>1. gs = Append(es, l)
    BY DEF Linked
  <1>2. NewArc(s) \in Arcs /\ NewArc(s).from_pc = s /\ NewArc(s).count = 1
    BY DEF NewArc, Arcs
  <1>3. as \in Seq(Arcs) /\ Len(as) = 1 /\ as[1] = NewArc(s)
    <2>1. <<>> \in Seq(Arcs) /\ Len(<<>>) = 0
      BY EmptySeq
    <2> QED BY <1>2, <2>1, Appended
  <1>4. DOMAIN as = {1}
    BY <1>3, LenProperties
  <1> HIDE DEF as
  <1>5. l \in Entries /\ l.self_pc = f /\ l.arcs = as
    BY <1>3 DEF Entries
  <1> HIDE DEF l
  <1>6. /\ gs \in Seq(Entries) /\ Len(gs) = n /\ gs[n] = l
        /\ \A i \in 1..Len(es) : gs[i] = es[i]
    BY <1>1, <1>5, Appended
  <1>7. Len(es) \in Nat /\ DOMAIN es = 1..Len(es) /\ DOMAIN gs = 1..Len(gs)
    BY <1>6, LenProperties
  <1>8. DOMAIN gs = DOMAIN es \union {n} /\ n \notin DOMAIN es
    BY <1>6, <1>7
  <1> HIDE DEF n
  <1>9. \A i \in DOMAIN es : gs[i] = es[i]
    BY <1>6, <1>7
  <1>10. Extends(es, gs)
    <2>1. ASSUME NEW i \in DOMAIN es, NEW k \in DOMAIN es[i].arcs
          PROVE  es[i].arcs[k].count <= gs[i].arcs[k].count
      <3>1. es[i].arcs[k].count \in Nat /\ gs[i] = es[i]
        BY <1>9, ListsAre
      <3> QED BY <3>1
    <2> QED BY <1>8, <1>9, <2>1 DEF Extends
  <1>11. Gains(es, gs, <<n, 1>>, f, s)
    <2>1. <<n, 1>> \in Places(gs) /\ <<n, 1>> \notin Places(es)
      <3>1. 1 \in DOMAIN gs[n].arcs
        BY <1>4, <1>5, <1>6
      <3>2. ASSUME <<n, 1>> \in Places(es) PROVE n \in DOMAIN es
        <4> DEFINE i == <<n, 1>>
        <4>1. i[1] = n
          OBVIOUS
        <4> HIDE DEF i
        <4>2. i[1] \in DOMAIN es
          BY <3>2, PlaceIs DEF i
        <4> QED BY <4>1, <4>2
      <3> QED BY <1>8, <3>1, <3>2, IsPlace
    <2>2. Places(gs) = Places(es) \union {<<n, 1>>}
      <3>1. ASSUME NEW i \in Places(es) PROVE i \in Places(gs)
        <4>1. i = <<i[1], i[2]>> /\ i[1] \in DOMAIN es /\ i[2] \in DOMAIN es[i[1]].arcs
          BY PlaceIs
        <4>2. i[1] \in DOMAIN gs /\ i[2] \in DOMAIN gs[i[1]].arcs
          BY <1>8, <1>9, <4>1
        <4> QED BY <4>1, <4>2, IsPlace
      <3>2. ASSUME NEW i \in Places(gs) PROVE i \in Places(es) \/ i = <<n, 1>>
        <4>1. i = <<i[1], i[2]>> /\ i[1] \in DOMAIN gs /\ i[2] \in DOMAIN gs[i[1]].arcs
          BY PlaceIs
        <4>2. CASE i[1] = n
          BY <1>4, <1>5, <1>6, <4>1, <4>2
        <4>3. CASE i[1] # n
          <5>1. i[1] \in DOMAIN es /\ i[2] \in DOMAIN es[i[1]].arcs
            BY <1>8, <1>9, <4>1, <4>3
          <5> QED BY <4>1, <5>1, IsPlace
        <4> QED BY <4>2, <4>3
      <3> QED BY <2>1, <3>1, <3>2
    <2>3. ASSUME NEW i \in Places(es)
          PROVE  gs[i[1]].self_pc = es[i[1]].self_pc /\ ArcAt(gs, i) = ArcAt(es, i)
      <3>1. i[1] \in DOMAIN es
        BY PlaceIs
      <3> QED BY <1>9, <3>1 DEF ArcAt
    <2>4. ArcAt(gs, <<n, 1>>) = NewArc(s) /\ gs[<<n, 1>>[1]].self_pc = f
      BY <1>3, <1>5, <1>6 DEF ArcAt
    <2> QED BY <1>2, <2>1, <2>2, <2>3, <2>4 DEF Gains
  <1> QED BY <1>6, <1>10, <1>11

\* A call that is counted: by a new arc, or by a count stored.
OneMoreCall(cs, ds, f, s) ==
  \A e \in Fn, t \in Site :
    /\ cs[<<e, t>>] \in Nat
    /\ ds[<<e, t>>] = cs[<<e, t>>] + IF <<e, t>> = <<f, s>> THEN 1 ELSE 0

LEMMA CallAdded ==
  ASSUME NEW cs \in [Fn \X Site -> Nat], NEW f \in Fn, NEW s \in Site, NEW ds,
         ds = [cs EXCEPT ![<<f, s>>] = @ + 1]
  PROVE  ds \in [Fn \X Site -> Nat] /\ OneMoreCall(cs, ds, f, s)
  <1>1. <<f, s>> \in Fn \X Site /\ cs[<<f, s>>] \in Nat
    OBVIOUS
  <1>2. ds \in [Fn \X Site -> Nat]
    BY <1>1
  <1>3. ASSUME NEW e \in Fn, NEW t \in Site
        PROVE  /\ cs[<<e, t>>] \in Nat
               /\ ds[<<e, t>>] = cs[<<e, t>>] + IF <<e, t>> = <<f, s>> THEN 1 ELSE 0
    <2> DEFINE k == <<e, t>>
    <2>1. k \in Fn \X Site /\ cs[k] \in Nat
      OBVIOUS
    <2> HIDE DEF k
    <2>2. ds[k] = cs[k] + IF k = <<f, s>> THEN 1 ELSE 0
      BY <1>1, <2>1
    <2> QED BY <2>1, <2>2 DEF k
  <1> QED BY <1>2, <1>3 DEF OneMoreCall

LEMMA CountsGain ==
  ASSUME NEW es, NEW cs, NEW rc, CountsGood(es, cs, rc), NEW gs \in Seq(Entries),
         NEW f \in Fn, NEW s \in Site, NEW at, Gains(es, gs, at, f, s),
         NEW ds, ds = [cs EXCEPT ![<<f, s>>] = @ + 1]
  PROVE  CountsGood(gs, ds, rc)
  <1>1. es \in Seq(Entries) /\ cs \in [Fn \X Site -> Nat] /\ rc \in BOOLEAN
    BY DEF CountsGood
  <1>2. ds \in [Fn \X Site -> Nat] /\ OneMoreCall(cs, ds, f, s)
    <2>1. f \in Fn /\ s \in Site /\ ds = [cs EXCEPT ![<<f, s>>] = @ + 1]
      OBVIOUS
    <2> QED BY ONLY <1>1, <2>1, CallAdded
  <1>3. ASSUME NEW e \in Fn, NEW t \in Site
        PROVE  /\ IsFiniteSet(CopiesOf(gs, e, t))
               /\ Total(gs, e, t) <= ds[<<e, t>>]
               /\ rc = FALSE => Total(gs, e, t) = ds[<<e, t>>]
    <2> DEFINE d == IF <<e, t>> = <<f, s>> THEN 1 ELSE 0
    <2>1. /\ IsFiniteSet(CopiesOf(es, e, t))
          /\ Total(es, e, t) <= cs[<<e, t>>]
          /\ rc = FALSE => Total(es, e, t) = cs[<<e, t>>]
      BY DEF CountsGood
    <2>2. Total(es, e, t) \in Nat
      BY <1>1, <2>1, TotalIs
    <2>3. IsFiniteSet(CopiesOf(gs, e, t)) /\ Total(gs, e, t) = Total(es, e, t) + d
      BY <1>1, <2>1, TotalGains
    <2>4. cs[<<e, t>>] \in Nat /\ ds[<<e, t>>] = cs[<<e, t>>] + d
      BY <1>2 DEF OneMoreCall
    <2>5. d \in Nat
      OBVIOUS
    <2> HIDE DEF d
    <2> QED BY ONLY <2>1, <2>2, <2>3, <2>4, <2>5
  <1> QED BY <1>1, <1>3, <1>2 DEF CountsGood

\* The count k was loaded from the arc at its place; k + 1 is stored.
Storing(es, gs, cs, ds, rc, qc, at, f, s, k) ==
  /\ CountsGood(es, cs, rc) /\ gs \in Seq(Entries) /\ f \in Fn /\ s \in Site /\ k \in Nat
  /\ Recounts(es, gs, at, f, s, k + 1)
  /\ ArcAt(es, at).count \in Nat /\ k <= ArcAt(es, at).count
  /\ qc \in BOOLEAN /\ (qc = FALSE => rc = FALSE /\ ArcAt(es, at).count = k)
  /\ ds = [cs EXCEPT ![<<f, s>>] = @ + 1]

LEMMA CountsStore ==
  ASSUME NEW es, NEW gs, NEW cs, NEW ds, NEW rc, NEW qc, NEW at, NEW f, NEW s, NEW k,
         Storing(es, gs, cs, ds, rc, qc, at, f, s, k)
  PROVE  CountsGood(gs, ds, qc)
  <1>1. es \in Seq(Entries) /\ cs \in [Fn \X Site -> Nat] /\ rc \in BOOLEAN
    BY DEF CountsGood, Storing
  <1>2. ds \in [Fn \X Site -> Nat] /\ OneMoreCall(cs, ds, f, s)
    <2>1. f \in Fn /\ s \in Site /\ ds = [cs EXCEPT ![<<f, s>>] = @ + 1]
      BY DEF Storing
    <2> QED BY ONLY <1>1, <2>1, CallAdded
  <1> DEFINE n == ArcAt(es, at).count
  <1>3. /\ n \in Nat /\ k <= n /\ (qc = FALSE => rc = FALSE /\ n = k)
        /\ k \in Nat /\ gs \in Seq(Entries) /\ qc \in BOOLEAN
    BY DEF Storing
  <1>4. CountsGood(es, cs, rc) /\ Recounts(es, gs, at, f, s, k + 1)
    BY DEF Storing
  <1>5. ASSUME NEW e \in Fn, NEW t \in Site
        PROVE  /\ IsFiniteSet(CopiesOf(gs, e, t))
               /\ Total(gs, e, t) <= ds[<<e, t>>]
               /\ qc = FALSE => Total(gs, e, t) = ds[<<e, t>>]
    <2>1. /\ IsFiniteSet(CopiesOf(es, e, t))
          /\ Total(es, e, t) <= cs[<<e, t>>]
          /\ rc = FALSE => Total(es, e, t) = cs[<<e, t>>]
      BY <1>4 DEF CountsGood
    <2>2. Total(es, e, t) \in Nat
      BY <1>1, <2>1, TotalIs
    <2>3. /\ IsFiniteSet(CopiesOf(gs, e, t))
          /\ <<e, t>> = <<f, s>> => Total(gs, e, t) - (k + 1) = Total(es, e, t) - n
          /\ <<e, t>> # <<f, s>> => Total(gs, e, t) = Total(es, e, t)
      BY <1>3, <1>1, <1>4, <2>1, TotalRecounts
    <2>4. Total(gs, e, t) \in Nat
      BY <1>3, <2>3, TotalIs
    <2> DEFINE d == IF <<e, t>> = <<f, s>> THEN 1 ELSE 0
    <2>5. cs[<<e, t>>] \in Nat /\ ds[<<e, t>>] = cs[<<e, t>>] + d
      BY <1>2 DEF OneMoreCall
    <2>6. k \in Nat
      BY <1>3
    <2> HIDE DEF n
    <2>7. CASE <<e, t>> = <<f, s>>
      <3>1. Total(gs, e, t) - (k + 1) = Total(es, e, t) - n /\ ds[<<e, t>>] = cs[<<e, t>>] + 1
        BY <2>3, <2>5, <2>7
      <3>2. cs[<<e, t>>] \in Nat
        BY <2>5
      <3> QED BY ONLY <1>3, <2>1, <2>2, <2>3, <2>4, <2>6, <3>1, <3>2
    <2>8. CASE <<e, t>> # <<f, s>>
      <3>1. Total(gs, e, t) = Total(es, e, t) /\ ds[<<e, t>>] = cs[<<e, t>>] + 0
        BY <2>3, <2>5, <2>8
      <3>2. cs[<<e, t>>] \in Nat
        BY <2>5
      <3> QED BY ONLY <1>3, <2>1, <2>2, <2>3, <2>4, <3>1, <3>2
    <2> QED BY <2>7, <2>8
  <1> QED BY <1>3, <1>5, <1>2 DEF CountsGood

\* The call that moves.
LEMMA TopIs ==
  ASSUME CountInv, NEW step, Runs(step)
  PROVE  /\ stack # <<>> /\ Top \in CallsOfMcount /\ Top.step = step
         /\ Claims(Top, entries)
         /\ Len(stack) \in {1, 2} /\ Top = stack[Len(stack)]
         /\ Len(stack) = 2 => CountPresent(Top, entries)
  <1>1. stack \in Seq(CallsOfMcount) /\ stack # <<>> /\ Len(stack) <= 2 /\ Top.step = step
    BY DEF CountInv, StackGood, Runs
  <1>2. Len(stack) \in Nat \ {0} /\ Top = stack[Len(stack)] /\ Top \in CallsOfMcount
    BY <1>1, WithoutLast DEF Top
  <1>3. Len(stack) \in {1, 2} /\ Len(stack) \in 1..Len(stack)
    <2>1. \A k \in Nat \ {0} : k <= 2 => k \in {1, 2} /\ k \in 1..k
      OBVIOUS
    <2> QED BY <1>1, <1>2, <2>1
  <1> QED BY <1>1, <1>2, <1>3 DEF CountInv, StackGood

\* Steps that leave the lists and the calls counted as they are.
LEMMA CountsStay ==
  ASSUME CountInv, UNCHANGED <<entries, calls, raced>>, StackGood(stack', entries)
  PROVE  CountInv'
  <1>1. CountsGood(entries', calls', raced')
    BY DEF CountInv
  <1>2. StackGood(stack', entries')
    OBVIOUS
  <1> QED BY <1>1, <1>2 DEF CountInv

LEMMA StepsOn ==
  ASSUME CountInv, NEW step, Runs(step), UNCHANGED <<entries, calls, raced>>,
         NEW c \in CallsOfMcount, Up(c), Claims(c, entries), CountPresent(c, entries)
  PROVE  CountInv'
  <1>1. StackGood(stack, entries) /\ stack # <<>>
    BY TopIs DEF CountInv
  <1>2. StackGood(stack', entries)
    BY <1>1, GoesOn DEF Up
  <1> QED BY <1>2, CountsStay

LEMMA CallKeeps ==
  ASSUME CountInv, NEW f \in Fn, NEW s \in Site, Call(f, s)
  PROVE  CountInv'
  <1> DEFINE c == [step |-> "entry", fn |-> f, site |-> s, entry |-> 0, arc |-> 0, count |-> 0]
  <1>1. stack' = Append(stack, c) /\ Len(stack) < 2 /\ UNCHANGED <<entries, calls, raced>>
    BY DEF Call
  <1>2. c \in CallsOfMcount /\ c.step = "entry" /\ c.entry = 0
    BY DEF CallsOfMcount, Steps
  <1> HIDE DEF c
  <1>3. Claims(c, entries) /\ CountPresent(c, entries)
    BY <1>2 DEF Claims, CountPresent
  <1>4. StackGood(stack', entries)
    BY <1>1, <1>2, <1>3, Pushed DEF CountInv
  <1> QED BY <1>1, <1>4, CountsStay

LEMMA FindEntryKeeps ==
  ASSUME CountInv, FindEntry
  PROVE  CountInv'
  <1> DEFINE I == {i \in 1..Len(entries) : entries[i].self_pc = Top.fn}
             found == IF I # {} THEN Max(I) ELSE 0
             next == IF found = 0 THEN "check" ELSE "arc"
             c == [Top EXCEPT !.entry = found, !.step = next]
  <1>1. Runs("entry") /\ Up(c) /\ UNCHANGED <<entries, calls, raced>>
    BY DEF FindEntry, SelectLastInSeq
  <1>2. Top \in CallsOfMcount
    BY <1>1, TopIs
  <1>3. entries \in Seq(Entries) /\ Len(entries) \in Nat /\ DOMAIN entries = 1..Len(entries)
    BY LenProperties DEF CountInv, CountsGood
  <1>4. found # 0 => found \in I
    BY <1>3, LastPlace
  <1>5. found \in Nat /\ (found # 0 => found \in DOMAIN entries /\ entries[found].self_pc = Top.fn)
    BY <1>3, <1>4
  <1> HIDE DEF found
  <1>6. next \in {"check", "arc"} /\ (next = "arc" => found # 0)
    OBVIOUS
  <1> HIDE DEF next
  <1>7. /\ c \in CallsOfMcount /\ c.step = next /\ c.entry = found /\ c.fn = Top.fn
    BY <1>2, <1>5, <1>6 DEF CallsOfMcount, Steps
  <1> HIDE DEF c
  <1>8. Claims(c, entries) /\ CountPresent(c, entries)
    BY <1>5, <1>6, <1>7 DEF Claims, CountPresent
  <1> QED BY <1>1, <1>7, <1>8, StepsOn

LEMMA FindArcKeeps ==
  ASSUME CountInv, FindArc
  PROVE  CountInv'
  <1> DEFINE as == entries[Top.entry].arcs
             I == {i \in 1..Len(as) : as[i].from_pc = Top.site}
             found == IF I # {} THEN Max(I) ELSE 0
             next == IF found = 0 THEN "check" ELSE "load"
             c == [Top EXCEPT !.arc = found, !.step = next]
  <1>1. Runs("arc") /\ Up(c) /\ UNCHANGED <<entries, calls, raced>>
    BY DEF FindArc, SelectLastInSeq
  <1>2. Top \in CallsOfMcount /\ Top.step = "arc" /\ Claims(Top, entries)
    BY <1>1, TopIs
  <1>3. /\ Top.entry # 0 /\ Top.entry \in DOMAIN entries
        /\ entries[Top.entry].self_pc = Top.fn
    BY <1>2 DEF Claims
  <1>4. as \in Seq(Arcs)
    BY <1>3, ListsAre DEF CountInv, CountsGood
  <1> HIDE DEF as
  <1>5. Len(as) \in Nat /\ DOMAIN as = 1..Len(as)
    BY <1>4, LenProperties
  <1>6. found # 0 => found \in I
    BY <1>5, LastPlace
  <1>7. found \in Nat /\ (found # 0 => found \in DOMAIN as /\ as[found].from_pc = Top.site)
    <2> HIDE DEF found
    <2>1. found # 0 => found \in 1..Len(as) /\ as[found].from_pc = Top.site
      BY <1>6
    <2>2. CASE found = 0
      BY <2>2
    <2>3. CASE found # 0
      <3>1. found \in 1..Len(as) /\ as[found].from_pc = Top.site
        BY <2>1, <2>3
      <3>2. found \in Nat
        BY ONLY <1>5, <3>1
      <3>3. found \in DOMAIN as
        BY ONLY <1>5, <3>1
      <3> QED BY <3>1, <3>2, <3>3
    <2> QED BY <2>2, <2>3
  <1> HIDE DEF found
  <1>8. next \in {"check", "load"} /\ (next = "load" => found # 0)
    OBVIOUS
  <1> HIDE DEF next
  <1>9. /\ c \in CallsOfMcount /\ c.step = next /\ c.arc = found
        /\ c.entry = Top.entry /\ c.fn = Top.fn /\ c.site = Top.site
    BY <1>2, <1>7, <1>8 DEF CallsOfMcount, Steps
  <1> HIDE DEF c
  <1>10. Claims(c, entries) /\ CountPresent(c, entries)
    BY <1>3, <1>7, <1>8, <1>9 DEF Claims, CountPresent, as
  <1> QED BY <1>1, <1>9, <1>10, StepsOn

LEMMA LoadCountKeeps ==
  ASSUME CountInv, LoadCount
  PROVE  CountInv'
  <1> DEFINE c == [Top EXCEPT !.count = Count, !.step = "store"]
  <1>1. Runs("load") /\ Up(c) /\ UNCHANGED <<entries, calls, raced>>
    BY DEF LoadCount
  <1>2. Top \in CallsOfMcount /\ Top.step = "load" /\ Claims(Top, entries)
    BY <1>1, TopIs
  <1>3. /\ Top.entry # 0 /\ Top.entry \in DOMAIN entries
        /\ entries[Top.entry].self_pc = Top.fn
        /\ Top.arc \in DOMAIN entries[Top.entry].arcs
        /\ entries[Top.entry].arcs[Top.arc].from_pc = Top.site
    BY <1>2 DEF Claims
  <1>4. Count \in Nat
    BY <1>3, ListsAre DEF Count, CountInv, CountsGood
  <1>5. /\ c \in CallsOfMcount /\ c.step = "store" /\ c.count = Count
        /\ c.entry = Top.entry /\ c.arc = Top.arc /\ c.fn = Top.fn /\ c.site = Top.site
    BY <1>2, <1>4 DEF CallsOfMcount, Steps
  <1> HIDE DEF c
  <1>6. Count <= Count
    BY <1>4
  <1>7. Claims(c, entries) /\ CountPresent(c, entries)
    BY <1>3, <1>5, <1>6 DEF Claims, CountPresent, Count
  <1> QED BY <1>1, <1>5, <1>7, StepsOn

\* The sampler's steps go on to the record of the arc.
LEMMA SamplerKeeps ==
  ASSUME CountInv, Check \/ Clear \/ NoClock \/ TakeBuffer \/ Arm
  PROVE  CountInv'
  <1> DEFINE To(step, next) == Runs(step) /\ Up([Top EXCEPT !.step = next])
             Later == {"insert", "clear", "init", "arm"}
  <1>1. \E step \in Steps, next \in Later : To(step, next)
    <2>1. Check => To("check", "clear") \/ To("check", "insert")
      BY DEF Check
    <2>2. Clear => To("clear", "init")
      BY DEF Clear
    <2>3. NoClock => To("init", "insert")
      BY DEF NoClock
    <2>4. TakeBuffer => To("init", "arm")
      BY DEF TakeBuffer
    <2>5. Arm => To("arm", "insert")
      BY DEF Arm
    <2> HIDE DEF To
    <2> QED BY <2>1, <2>2, <2>3, <2>4, <2>5 DEF Steps
  <1>2. PICK step \in Steps, next \in Later : Runs(step) /\ Up([Top EXCEPT !.step = next])
    BY <1>1
  <1>3. UNCHANGED <<entries, calls, raced>>
    BY DEF Check, Clear, NoClock, TakeBuffer, Arm
  <1> DEFINE c == [Top EXCEPT !.step = next]
  <1>4. Top \in CallsOfMcount /\ Claims(Top, entries)
    BY <1>2, TopIs
  <1>5. c \in CallsOfMcount /\ c.step = next /\ c.entry = Top.entry /\ c.fn = Top.fn
    BY <1>4 DEF CallsOfMcount, Steps
  <1>6. Up(c)
    BY <1>2
  <1> HIDE DEF c
  <1>7. Claims(c, entries) /\ CountPresent(c, entries)
    BY <1>4, <1>5 DEF Claims, CountPresent
  <1> QED BY <1>2, <1>5, <1>6, <1>7, <1>3, StepsOn

\* A count is stored: the interrupted call, if there is one, finds its arc as it was
\* with a count that is not less; a call that is alone leaves no one behind.
LEMMA StoreCountKeeps ==
  ASSUME CountInv, StoreCount
  PROVE  CountInv'
  <1> DEFINE e == Top.entry
             a == Top.arc
             k == Top.count
             qc == raced \/ Count # k
  <1>1. /\ Runs("store") /\ entries' = [entries EXCEPT ![e].arcs[a].count = k + 1]
        /\ raced' = qc /\ stack' = Front(stack)
        /\ calls' = [calls EXCEPT ![<<Top.fn, Top.site>>] = @ + 1]
    BY DEF StoreCount, Done
  <1>2. /\ stack # <<>> /\ Top \in CallsOfMcount /\ Top.step = "store" /\ Claims(Top, entries)
        /\ Len(stack) \in {1, 2} /\ (Len(stack) = 2 => CountPresent(Top, entries))
    BY <1>1, TopIs
  <1>3. /\ entries \in Seq(Entries) /\ raced \in BOOLEAN /\ CountsGood(entries, calls, raced)
        /\ StackGood(stack, entries)
    BY DEF CountInv, CountsGood
  <1>4. /\ e \in DOMAIN entries /\ entries[e].self_pc = Top.fn
        /\ a \in DOMAIN entries[e].arcs /\ entries[e].arcs[a].from_pc = Top.site
        /\ k <= entries[e].arcs[a].count
    BY <1>2 DEF Claims
  <1>5. k \in Nat /\ Top.fn \in Fn /\ Top.site \in Site
    BY <1>2 DEF CallsOfMcount
  <1>6. ArcAt(entries, <<e, a>>).count = entries[e].arcs[a].count /\ Count = entries[e].arcs[a].count
    BY DEF ArcAt, Count
  <1>7. Count \in Nat
    BY <1>3, <1>4, <1>6, ListsAre
  <1>8. Len(stack) = 2 => Count = k
    BY <1>2, <1>6 DEF CountPresent
  <1>9. qc \in BOOLEAN /\ (qc = FALSE => raced = FALSE /\ Count = k)
    BY <1>3
  <1> HIDE DEF e, a, k, qc
  <1>10. k + 1 \in Nat
    BY <1>5
  <1>11. /\ entries' \in Seq(Entries)
         /\ Recounts(entries, entries', <<e, a>>, entries[e].self_pc,
                     entries[e].arcs[a].from_pc, k + 1)
         /\ entries[e].arcs[a].count <= k + 1 => Extends(entries, entries')
    BY <1>1, <1>3, <1>4, <1>10, Stored
  <1>12. CountsGood(entries', calls', raced')
    <2>1. Recounts(entries, entries', <<e, a>>, Top.fn, Top.site, k + 1)
      BY <1>4, <1>11
    <2> DEFINE at == <<e, a>>
    <2>2. /\ ArcAt(entries, at).count \in Nat /\ k <= ArcAt(entries, at).count
          /\ raced' = FALSE => raced = FALSE /\ ArcAt(entries, at).count = k
          /\ raced' \in BOOLEAN
      BY <1>1, <1>4, <1>6, <1>7, <1>9
    <2>3. entries' \in Seq(Entries) /\ calls' = [calls EXCEPT ![<<Top.fn, Top.site>>] = @ + 1]
      BY <1>1, <1>11
    <2>4. CountsGood(entries, calls, raced) /\ Recounts(entries, entries', at, Top.fn, Top.site, k + 1)
      BY <1>3, <2>1
    <2> HIDE DEF at
    <2>5. Storing(entries, entries', calls, calls', raced, raced', at, Top.fn, Top.site, k)
      BY ONLY <1>5, <2>2, <2>3, <2>4 DEF Storing
    <2> QED BY <2>5, CountsStore
  <1>13. ASSUME Len(stack) = 2 PROVE Claims(stack[1], entries')
    <2>1. entries[e].arcs[a].count <= k + 1
      BY <1>5, <1>6, <1>8, <1>13
    <2>2. Extends(entries, entries')
      BY <1>11, <2>1
    <2>3. 1 \in 1..Len(stack) /\ stack \in Seq(CallsOfMcount)
      BY <1>3, <1>13 DEF StackGood
    <2>4. stack[1] \in CallsOfMcount /\ Claims(stack[1], entries)
      BY <1>3, <2>3, ElementOfSeq DEF StackGood
    <2> QED BY <1>3, <1>11, <2>2, <2>4, ClaimsHold
  <1>14. StackGood(stack', entries')
    BY <1>1, <1>2, <1>3, <1>13, Popped
  <1> QED BY <1>12, <1>14 DEF CountInv

\* A new arc is recorded, at the head of the entry that was found or of a new one.
LEMMA ArcKeeps ==
  ASSUME CountInv, Insert
  PROVE  CountInv'
  <1>1. /\ Runs("insert") /\ raced' = raced /\ stack' = Front(stack)
        /\ calls' = [calls EXCEPT ![<<Top.fn, Top.site>>] = @ + 1]
    BY DEF Insert, Done
  <1>2. /\ stack # <<>> /\ Top \in CallsOfMcount /\ Claims(Top, entries)
        /\ Len(stack) \in {1, 2}
    BY <1>1, TopIs
  <1>3. /\ entries \in Seq(Entries) /\ CountsGood(entries, calls, raced)
        /\ StackGood(stack, entries)
    BY DEF CountInv, CountsGood
  <1>4. Top.fn \in Fn /\ Top.site \in Site
    BY <1>2 DEF CallsOfMcount
  <1>5. /\ entries' \in Seq(Entries) /\ Extends(entries, entries')
        /\ \E at : Gains(entries, entries', at, Top.fn, Top.site)
    <2>1. CASE Top.entry = 0
      <3>1. entries' = Append(entries, [self_pc |-> Top.fn, arcs |-> Linked(<<>>, Top.site)])
        BY <2>1 DEF Insert
      <3> QED BY <1>3, <1>4, <3>1, Recorded
    <2>2. CASE Top.entry # 0
      <3>1. entries' = [entries EXCEPT ![Top.entry].arcs = Linked(@, Top.site)]
        BY <2>2 DEF Insert
      <3>2. Top.entry \in DOMAIN entries /\ entries[Top.entry].self_pc = Top.fn
        BY <1>2, <2>2 DEF Claims
      <3> QED BY <1>3, <1>4, <3>1, <3>2, Inserted
    <2> QED BY <2>1, <2>2
  <1>6. PICK at : Gains(entries, entries', at, Top.fn, Top.site)
    BY <1>5
  <1>7. CountsGood(entries', calls', raced')
    BY <1>1, <1>3, <1>4, <1>5, <1>6, CountsGain
  <1>8. ASSUME Len(stack) = 2 PROVE Claims(stack[1], entries')
    <2>1. 1 \in 1..Len(stack) /\ stack \in Seq(CallsOfMcount)
      BY <1>3, <1>8 DEF StackGood
    <2>2. stack[1] \in CallsOfMcount /\ Claims(stack[1], entries)
      BY <1>3, <2>1, ElementOfSeq DEF StackGood
    <2> QED BY <1>3, <1>5, <2>2, ClaimsHold
  <1>9. StackGood(stack', entries')
    BY <1>1, <1>2, <1>3, <1>8, Popped
  <1> QED BY <1>7, <1>9 DEF CountInv

\* Every step of the unit "profile", one case for each.
LEMMA CountsGoOn ==
  ASSUME CountInv, ProfileNext \/ UNCHANGED profileVars
  PROVE  CountInv'
  <1>1. ASSUME UNCHANGED <<stack, entries, calls, raced>> PROVE CountInv'
    <2>1. StackGood(stack', entries)
      BY <1>1 DEF CountInv
    <2> QED BY <1>1, <2>1, CountsStay
  <1>2. CASE FindEntry
    BY <1>2, FindEntryKeeps
  <1>3. CASE FindArc
    BY <1>3, FindArcKeeps
  <1>4. CASE LoadCount
    BY <1>4, LoadCountKeeps
  <1>5. CASE StoreCount
    BY <1>5, StoreCountKeeps
  <1>6. CASE Check \/ Clear \/ NoClock \/ TakeBuffer \/ Arm
    BY <1>6, SamplerKeeps
  <1>7. CASE Insert
    BY <1>7, ArcKeeps
  <1>8. CASE \E f \in Fn, s \in Site : Call(f, s)
    BY <1>8, CallKeeps
  <1>9. CASE \E incr \in Increments : Sbrk(incr)
    BY <1>1, <1>9 DEF Sbrk
  <1>10. CASE \E pc \in {0, BucketBytes, TextSize - 1} : nios2_pcsample(pc)
    BY <1>1, <1>10 DEF nios2_pcsample
  <1>11. CASE SysclkInit \/ UNCHANGED profileVars
    BY <1>1, <1>11 DEF SysclkInit, profileVars
  <1> QED BY <1>2, <1>3, <1>4, <1>5, <1>6, <1>7, <1>8, <1>9, <1>10, <1>11
          DEF ProfileNext, mcount, __mcount_record

LEMMA CountsStart == ProfileInit => CountInv
  <1> SUFFICES ASSUME ProfileInit PROVE CountInv
    OBVIOUS
  <1>1. entries = <<>> /\ stack = <<>> /\ raced = FALSE /\ calls = [arc \in Fn \X Site |-> 0]
    BY DEF ProfileInit
  <1>2. StackGood(stack, entries)
    <2>1. <<>> \in Seq(CallsOfMcount) /\ Len(<<>>) = 0
      BY EmptySeq
    <2> QED BY <1>1, <2>1 DEF StackGood
  <1>3. <<>> \in Seq(Entries) /\ Len(<<>>) = 0
    BY EmptySeq
  <1>4. ASSUME NEW f \in Fn, NEW s \in Site
        PROVE  IsFiniteSet(CopiesOf(<<>>, f, s)) /\ Total(<<>>, f, s) = 0
    <2>1. DOMAIN <<>> = {}
      BY <1>3, LenProperties
    <2>2. CopiesOf(<<>>, f, s) = {}
      BY <2>1 DEF CopiesOf, Places
    <2>3. Counts(<<>>, f, s) \in [{} -> Nat]
      BY <1>3, <2>2, CountsAre
    <2>4. IsFiniteSet(CopiesOf(<<>>, f, s))
      BY <2>2, FS_EmptySet
    <2> QED BY <1>3, <2>3, <2>4, SumOfNone, TotalIs
  <1>5. \A f \in Fn, s \in Site : calls[<<f, s>>] = 0
    BY <1>1
  <1>6. calls \in [Fn \X Site -> Nat]
    BY <1>1
  <1>7. CountsGood(entries, calls, raced)
    <2>1. entries \in Seq(Entries) /\ raced \in BOOLEAN
      BY <1>1, <1>3
    <2>2. ASSUME NEW f \in Fn, NEW s \in Site
          PROVE  /\ IsFiniteSet(CopiesOf(entries, f, s))
                 /\ Total(entries, f, s) <= calls[<<f, s>>]
                 /\ Total(entries, f, s) = calls[<<f, s>>]
      <3>1. Total(entries, f, s) = 0 /\ calls[<<f, s>>] = 0
        BY <1>1, <1>4, <1>5
      <3> QED BY <1>1, <1>4, <3>1
    <2> QED BY <1>6, <2>1, <2>2 DEF CountsGood
  <1> QED BY <1>2, <1>7 DEF CountInv

\* However calls of mcount interrupt each other, the counts of an arc's copies add up to
\* the calls that were made, or to fewer once an increment was itself interrupted by
\* another of its arc (alt_mcount.S, alt_gmon.c).
THEOREM CallsAreCounted == Spec => []CallsCounted
  <1>1. Init => CountInv
    BY CountsStart DEF Init
  <1>2. CountInv /\ [Next]_vars => CountInv'
    <2> SUFFICES ASSUME CountInv, [Next]_vars PROVE CountInv'
      OBVIOUS
    <2>1. ProfileNext \/ UNCHANGED profileVars
      BY DEF Next, vars, Profiling, Timing, Logging, Booting, Counting
    <2> QED BY <2>1, CountsGoOn
  <1>3. CountInv => CallsCounted
    <2> SUFFICES ASSUME CountInv PROVE CallsCounted
      OBVIOUS
    <2>1. CountsGood(entries, calls, raced) /\ raced \in BOOLEAN
      BY DEF CountInv, CountsGood
    <2>2. CASE raced = TRUE
      BY <2>1, <2>2 DEF CountsGood, CallsCounted
    <2>3. CASE raced = FALSE
      BY <2>1, <2>3 DEF CountsGood, CallsCounted
    <2> QED BY <2>1, <2>2, <2>3
  <1> QED BY <1>1, <1>2, <1>3, PTL DEF Spec

-----------------------------------------------------------------------------
(* The interpreter's arithmetic. *)

\* A bit of a byte.
LEMMA BitIs01 ==
  ASSUME NEW b \in Cpu!Byte, NEW i \in Cpu!BitIndex
  PROVE  Cpu!Bit(b, i) \in {0, 1}
  <1>1. Cpu!Place[i] \in {1, 2, 4, 8, 16, 32, 64, 128}
    BY DEF Cpu!Place, Cpu!BitIndex
  <1>2. b \div Cpu!Place[i] \in Int
    BY <1>1 DEF Cpu!Byte
  <1> QED BY <1>2 DEF Cpu!Bit

\* A byte is the sum of its bits.
LEMMA BitsMakeByte ==
  ASSUME NEW b \in Cpu!Byte
  PROVE  Cpu!FromBits([i \in Cpu!BitIndex |-> Cpu!Bit(b, i)]) = b
  <1> DEFINE f == [i \in Cpu!BitIndex |-> Cpu!Bit(b, i)]
  <1>0. b \in Int /\ 0 <= b /\ b <= 255
    BY DEF Cpu!Byte
  <1>1. /\ f[0] = (b \div 1) % 2  /\ f[1] = (b \div 2) % 2
        /\ f[2] = (b \div 4) % 2  /\ f[3] = (b \div 8) % 2
        /\ f[4] = (b \div 16) % 2 /\ f[5] = (b \div 32) % 2
        /\ f[6] = (b \div 64) % 2 /\ f[7] = (b \div 128) % 2
    BY DEF Cpu!Bit, Cpu!Place, Cpu!BitIndex
  <1>2. /\ b \div 1 = b /\ b = 2 * (b \div 2) + (b % 2)
        /\ b \div 2 = 2 * (b \div 4) + ((b \div 2) % 2)
        /\ b \div 4 = 2 * (b \div 8) + ((b \div 4) % 2)
        /\ b \div 8 = 2 * (b \div 16) + ((b \div 8) % 2)
    BY <1>0, Z3
  <1>3. /\ b \div 16 = 2 * (b \div 32) + ((b \div 16) % 2)
        /\ b \div 32 = 2 * (b \div 64) + ((b \div 32) % 2)
        /\ b \div 64 = 2 * (b \div 128) + ((b \div 64) % 2)
        /\ b \div 128 = (b \div 128) % 2
    BY <1>0, Z3
  <1> HIDE DEF f
  <1>4. Cpu!FromBits(f) = b
    BY <1>0, <1>1, <1>2, <1>3, Z3 DEF Cpu!FromBits
  <1> QED BY <1>4 DEF f

\* Eight bits with their weights add bit by bit.
LEMMA WeightsAdd ==
  ASSUME NEW f0 \in Int, NEW f1 \in Int, NEW f2 \in Int, NEW f3 \in Int,
         NEW f4 \in Int, NEW f5 \in Int, NEW f6 \in Int, NEW f7 \in Int,
         NEW g0 \in Int, NEW g1 \in Int, NEW g2 \in Int, NEW g3 \in Int,
         NEW g4 \in Int, NEW g5 \in Int, NEW g6 \in Int, NEW g7 \in Int
  PROVE    (f0 + 2 * f1 + 4 * f2 + 8 * f3 + 16 * f4 + 32 * f5 + 64 * f6 + 128 * f7)
         + (g0 + 2 * g1 + 4 * g2 + 8 * g3 + 16 * g4 + 32 * g5 + 64 * g6 + 128 * g7)
         = (f0 + g0) + 2 * (f1 + g1) + 4 * (f2 + g2) + 8 * (f3 + g3)
           + 16 * (f4 + g4) + 32 * (f5 + g5) + 64 * (f6 + g6) + 128 * (f7 + g7)
  BY Z3

\* A byte of sums is the sum of the bytes.
LEMMA FromBitsSum ==
  ASSUME NEW f \in [Cpu!BitIndex -> Int], NEW g \in [Cpu!BitIndex -> Int]
  PROVE  /\ Cpu!FromBits(f) + Cpu!FromBits(g)
            = Cpu!FromBits([i \in Cpu!BitIndex |-> f[i] + g[i]])
         /\ Cpu!FromBits(f) \in Int
  <1>1. /\ f[0] \in Int /\ f[1] \in Int /\ f[2] \in Int /\ f[3] \in Int
        /\ f[4] \in Int /\ f[5] \in Int /\ f[6] \in Int /\ f[7] \in Int
    BY DEF Cpu!BitIndex
  <1>2. /\ g[0] \in Int /\ g[1] \in Int /\ g[2] \in Int /\ g[3] \in Int
        /\ g[4] \in Int /\ g[5] \in Int /\ g[6] \in Int /\ g[7] \in Int
    BY DEF Cpu!BitIndex
  <1> DEFINE s == [i \in Cpu!BitIndex |-> f[i] + g[i]]
  <1>3. /\ s[0] = f[0] + g[0] /\ s[1] = f[1] + g[1] /\ s[2] = f[2] + g[2]
        /\ s[3] = f[3] + g[3] /\ s[4] = f[4] + g[4] /\ s[5] = f[5] + g[5]
        /\ s[6] = f[6] + g[6] /\ s[7] = f[7] + g[7]
    BY DEF Cpu!BitIndex
  <1> HIDE DEF s
  <1>4. Cpu!FromBits(f) + Cpu!FromBits(g) = Cpu!FromBits(s)
    BY <1>1, <1>2, <1>3, WeightsAdd DEF Cpu!FromBits
  <1>5. Cpu!FromBits(f) \in Int
    BY ONLY <1>1 DEF Cpu!FromBits
  <1> QED BY <1>4, <1>5 DEF s

\* Sums of eight bits.
LEMMA FromBitsAdds ==
  ASSUME NEW f \in [Cpu!BitIndex -> {0, 1}], NEW g \in [Cpu!BitIndex -> {0, 1}],
         NEW p \in [Cpu!BitIndex -> {0, 1}], NEW q \in [Cpu!BitIndex -> {0, 1}],
         \A i \in Cpu!BitIndex : f[i] + g[i] = p[i] + q[i]
  PROVE  /\ Cpu!FromBits(f) + Cpu!FromBits(g) = Cpu!FromBits(p) + Cpu!FromBits(q)
         /\ Cpu!FromBits(f) \in Int
  <1>1. [i \in Cpu!BitIndex |-> f[i] + g[i]] = [i \in Cpu!BitIndex |-> p[i] + q[i]]
    OBVIOUS
  <1>2. /\ f \in [Cpu!BitIndex -> Int] /\ g \in [Cpu!BitIndex -> Int]
        /\ p \in [Cpu!BitIndex -> Int] /\ q \in [Cpu!BitIndex -> Int]
    OBVIOUS
  <1>3. /\ Cpu!FromBits(f) + Cpu!FromBits(g)
           = Cpu!FromBits([i \in Cpu!BitIndex |-> f[i] + g[i]])
        /\ Cpu!FromBits(p) + Cpu!FromBits(q)
           = Cpu!FromBits([i \in Cpu!BitIndex |-> p[i] + q[i]])
        /\ Cpu!FromBits(f) \in Int
    BY ONLY <1>2, FromBitsSum
  <1> QED BY ONLY <1>1, <1>3

\* OR, AND and XOR agree with each other and with addition, for all bytes.
THEOREM BitwiseCorrect ==
  \A V \in Cpu!RegisterFile : \A x, y \in Cpu!Reg : Cpu!BitwiseAgree(V, x, y)
  <1> SUFFICES ASSUME NEW V \in Cpu!RegisterFile, NEW x \in Cpu!Reg, NEW y \in Cpu!Reg
               PROVE  Cpu!BitwiseAgree(V, x, y)
    OBVIOUS
  <1> DEFINE a == V[x]
             b == V[y]
             p == [i \in Cpu!BitIndex |-> Cpu!Bit(a, i)]
             q == [i \in Cpu!BitIndex |-> Cpu!Bit(b, i)]
             and == [i \in Cpu!BitIndex |-> Cpu!Bit(a, i) * Cpu!Bit(b, i)]
             or == [i \in Cpu!BitIndex |-> Cpu!Flag(Cpu!Bit(a, i) + Cpu!Bit(b, i) > 0)]
             xor == [i \in Cpu!BitIndex |-> (Cpu!Bit(a, i) + Cpu!Bit(b, i)) % 2]
             none == [i \in Cpu!BitIndex |-> 0]
  <1>1. a \in Cpu!Byte /\ b \in Cpu!Byte
    BY DEF Cpu!RegisterFile
  <1>2. /\ Cpu!OR(V, x, y)[x] = Cpu!FromBits(or) /\ Cpu!AND(V, x, y)[x] = Cpu!FromBits(and)
        /\ Cpu!XOR(V, x, y)[x] = Cpu!FromBits(xor)
    BY DEF Cpu!OR, Cpu!AND, Cpu!XOR, Cpu!OrByte, Cpu!AndByte, Cpu!XorByte, Cpu!RegisterFile
  <1>3. Cpu!FromBits(p) = a /\ Cpu!FromBits(q) = b
    BY <1>1, BitsMakeByte
  <1> HIDE DEF a, b
  <1>4. ASSUME NEW i \in Cpu!BitIndex
        PROVE  /\ p[i] \in {0, 1} /\ q[i] \in {0, 1} /\ or[i] \in {0, 1}
               /\ and[i] \in {0, 1} /\ xor[i] \in {0, 1} /\ none[i] = 0
               /\ or[i] + and[i] = p[i] + q[i] /\ xor[i] + and[i] = or[i] + none[i]
    <2>1. Cpu!Bit(a, i) \in {0, 1} /\ Cpu!Bit(b, i) \in {0, 1}
      BY <1>1, BitIs01
    <2> QED BY <2>1 DEF Cpu!Flag
  <1>5. /\ p \in [Cpu!BitIndex -> {0, 1}] /\ q \in [Cpu!BitIndex -> {0, 1}]
        /\ or \in [Cpu!BitIndex -> {0, 1}] /\ and \in [Cpu!BitIndex -> {0, 1}]
        /\ xor \in [Cpu!BitIndex -> {0, 1}] /\ none \in [Cpu!BitIndex -> {0, 1}]
    BY <1>4
  <1>6. Cpu!FromBits(none) = 0
    BY DEF Cpu!FromBits, Cpu!BitIndex
  <1> HIDE DEF p, q, or, and, xor, none
  <1>7. Cpu!FromBits(or) + Cpu!FromBits(and) = Cpu!FromBits(p) + Cpu!FromBits(q)
    BY <1>4, <1>5, FromBitsAdds
  <1>8. Cpu!FromBits(xor) + Cpu!FromBits(and) = Cpu!FromBits(or) + Cpu!FromBits(none)
    BY <1>4, <1>5, FromBitsAdds
  <1>9. Cpu!FromBits(xor) \in Int /\ Cpu!FromBits(and) \in Int /\ Cpu!FromBits(or) \in Int
    BY <1>4, <1>5, FromBitsAdds
  <1>10. Cpu!FromBits(xor) = Cpu!FromBits(or) - Cpu!FromBits(and)
    BY <1>6, <1>8, <1>9
  <1> QED BY <1>2, <1>3, <1>7, <1>10 DEF Cpu!BitwiseAgree, a, b

\* Storing into a uint8_t keeps a byte (Chip8Types.h).
LEMMA U8Type == \A n \in Int : Cpu!U8(n) \in Cpu!Byte
  BY DEF Cpu!U8, Cpu!Byte

\* SUBN looks for the borrow after it has overwritten *dst, and finds it: the
\* comparison with the difference is the comparison with the old value.
LEMMA BorrowAfterwards ==
  ASSUME NEW a \in Cpu!Byte, NEW b \in Cpu!Byte
  PROVE  b >= Cpu!U8(b - a) <=> b >= a
  BY DEF Cpu!Byte, Cpu!U8

\* SUB and SUBN subtract and flag the borrow as CPU.c 399 and 415 say, for any
\* register file and any two registers other than VF, the same one included.
THEOREM SubtractionsCorrect ==
  \A V \in Cpu!RegisterFile : \A x, y \in Cpu!Reg \ {Cpu!VF} : Cpu!SubtractsWithBorrow(V, x, y)
  <1> SUFFICES ASSUME NEW V \in Cpu!RegisterFile,
                      NEW x \in Cpu!Reg \ {Cpu!VF}, NEW y \in Cpu!Reg \ {Cpu!VF}
               PROVE  Cpu!SubtractsWithBorrow(V, x, y)
    OBVIOUS
  <1> DEFINE a == V[x]
             b == V[y]
  <1>1. a \in Cpu!Byte /\ b \in Cpu!Byte /\ Cpu!VF \in Cpu!Reg
    BY DEF Cpu!RegisterFile, Cpu!Reg, Cpu!VF
  <1>2. Cpu!SUB(V, x, y)[x] = Cpu!U8(a - b) /\ Cpu!SUB(V, x, y)[Cpu!VF] = Cpu!Flag(a >= b)
    BY <1>1 DEF Cpu!SUB, Cpu!RegisterFile
  <1>3. Cpu!SUBN(V, x, y)[x] = Cpu!U8(b - a)
    BY <1>1 DEF Cpu!SUBN, Cpu!RegisterFile
  <1>4. Cpu!SUBN(V, x, y)[Cpu!VF] = Cpu!Flag(b >= a)
    <2>1. CASE x = y
      <3>1. Cpu!SUBN(V, x, y)[Cpu!VF] = Cpu!Flag(Cpu!U8(b - a) >= Cpu!U8(b - a))
        BY <1>1, <2>1 DEF Cpu!SUBN, Cpu!RegisterFile
      <3> QED BY <1>1, <2>1, <3>1, U8Type DEF Cpu!Byte, Cpu!Flag
    <2>2. CASE x # y
      <3>1. Cpu!SUBN(V, x, y)[Cpu!VF] = Cpu!Flag(b >= Cpu!U8(b - a))
        BY <1>1, <2>2 DEF Cpu!SUBN, Cpu!RegisterFile
      <3> QED BY <1>1, <3>1, BorrowAfterwards
    <2> QED BY <2>1, <2>2
  <1> QED BY <1>2, <1>3, <1>4 DEF Cpu!SubtractsWithBorrow

\* The lowest and the highest bit of a byte complete its halves and its double.
LEMMA LostBits ==
  ASSUME NEW b \in Cpu!Byte
  PROVE  /\ 2 * (b \div 2) + Cpu!Bit(b, 0) = b
         /\ Cpu!U8(2 * b) + 256 * Cpu!Bit(b, 7) = 2 * b
  <1>1. Cpu!Bit(b, 0) = (b \div 1) % 2 /\ Cpu!Bit(b, 7) = (b \div 128) % 2
    BY DEF Cpu!Bit, Cpu!Place, Cpu!BitIndex
  <1>2. b \in Int /\ 0 <= b /\ b <= 255
    BY DEF Cpu!Byte
  <1>3. 2 * (b \div 2) + ((b \div 1) % 2) = b
    BY <1>2, Z3
  <1>4. ((2 * b) % 256) + 256 * ((b \div 128) % 2) = 2 * b
    BY <1>2, Z3
  <1> QED BY <1>1, <1>3, <1>4 DEF Cpu!U8

\* SHR and SHL keep the bit they shift out as CPU.c 407 and 423 say, for any
\* register file and any register other than VF.
THEOREM ShiftsCorrect ==
  \A V \in Cpu!RegisterFile : \A x \in Cpu!Reg \ {Cpu!VF} : Cpu!ShiftsIntoVF(V, x)
  <1> SUFFICES ASSUME NEW V \in Cpu!RegisterFile, NEW x \in Cpu!Reg \ {Cpu!VF}
               PROVE  Cpu!ShiftsIntoVF(V, x)
    OBVIOUS
  <1>1. V[x] \in Cpu!Byte /\ Cpu!VF \in Cpu!Reg /\ x # Cpu!VF
    BY DEF Cpu!RegisterFile, Cpu!Reg, Cpu!VF
  <1>2. Cpu!SHR(V, x)[x] = V[x] \div 2 /\ Cpu!SHR(V, x)[Cpu!VF] = Cpu!Bit(V[x], 0)
    BY <1>1 DEF Cpu!SHR, Cpu!RegisterFile
  <1>3. Cpu!SHL(V, x)[x] = Cpu!U8(2 * V[x]) /\ Cpu!SHL(V, x)[Cpu!VF] = Cpu!Bit(V[x], 7)
    BY <1>1 DEF Cpu!SHL, Cpu!RegisterFile
  <1> QED BY <1>1, <1>2, <1>3, LostBits DEF Cpu!ShiftsIntoVF

\* ADD looks for the carry in the sum it has stored, to which it adds the source once
\* more (CPU.c 356-365).  For any register file and two registers other than VF the sum
\* is right; the carry is right exactly if taking the source twice does not come out
\* otherwise, which for one register added to itself is the case in the first and in
\* the last quarter of the values.  This is how far the finding of the run "carry" goes.
THEOREM CarryLooksTwice ==
  \A V \in Cpu!RegisterFile : \A x, y \in Cpu!Reg \ {Cpu!VF} :
    /\ Cpu!ADD(V, x, y)[x] = Cpu!U8(V[x] + V[y])
    /\ x # y => (Cpu!AddsWithCarry(V, x, y)
                   <=> \/ V[x] + 2 * V[y] <= 255
                       \/ V[x] + V[y] >= 256 /\ V[x] + 2 * V[y] >= 512)
    /\ x = y => (Cpu!AddsWithCarry(V, x, y) <=> V[x] < 64 \/ V[x] >= 192)
  <1> SUFFICES ASSUME NEW V \in Cpu!RegisterFile,
                      NEW x \in Cpu!Reg \ {Cpu!VF}, NEW y \in Cpu!Reg \ {Cpu!VF}
               PROVE  /\ Cpu!ADD(V, x, y)[x] = Cpu!U8(V[x] + V[y])
                      /\ x # y => (Cpu!AddsWithCarry(V, x, y)
                                     <=> \/ V[x] + 2 * V[y] <= 255
                                         \/ V[x] + V[y] >= 256 /\ V[x] + 2 * V[y] >= 512)
                      /\ x = y => (Cpu!AddsWithCarry(V, x, y) <=> V[x] < 64 \/ V[x] >= 192)
    OBVIOUS
  <1> DEFINE a == V[x]
             b == V[y]
             sum == Cpu!U8(a + b)
  <1>1. a \in Cpu!Byte /\ b \in Cpu!Byte /\ Cpu!VF \in Cpu!Reg
    BY DEF Cpu!RegisterFile, Cpu!Reg, Cpu!VF
  <1>2. Cpu!ADD(V, x, y)[x] = sum
    BY <1>1 DEF Cpu!ADD, Cpu!RegisterFile
  <1>3. ASSUME x # y
        PROVE  Cpu!AddsWithCarry(V, x, y)
                 <=> \/ a + 2 * b <= 255
                     \/ a + b >= 256 /\ a + 2 * b >= 512
    <2>1. Cpu!ADD(V, x, y)[Cpu!VF] = Cpu!Flag(sum + b > 255)
      BY <1>1, <1>3 DEF Cpu!ADD, Cpu!RegisterFile
    <2>2. Cpu!AddsWithCarry(V, x, y) <=> (sum + b > 255 <=> a + b > 255)
      BY <1>2, <2>1 DEF Cpu!AddsWithCarry, Cpu!Flag
    <2> HIDE DEF a, b
    <2>3. \/ a + b <= 255 /\ sum = a + b
          \/ a + b >= 256 /\ sum = a + b - 256
      BY <1>1 DEF Cpu!U8, Cpu!Byte
    <2>4. a \in Int /\ b \in Int /\ 0 <= b
      BY <1>1 DEF Cpu!Byte
    <2> HIDE DEF sum
    <2> QED BY <2>2, <2>3, <2>4
  <1>4. ASSUME x = y
        PROVE  Cpu!AddsWithCarry(V, x, y) <=> a < 64 \/ a >= 192
    <2>1. b = a /\ Cpu!ADD(V, x, y)[Cpu!VF] = Cpu!Flag(sum + sum > 255)
      BY <1>1, <1>4 DEF Cpu!ADD, Cpu!RegisterFile
    <2>2. Cpu!AddsWithCarry(V, x, y) <=> (sum + sum > 255 <=> a + b > 255)
      BY <1>2, <2>1 DEF Cpu!AddsWithCarry, Cpu!Flag
    <2> HIDE DEF a, b
    <2>3. \/ a + b <= 255 /\ sum = a + b
          \/ a + b >= 256 /\ sum = a + b - 256
      BY <1>1 DEF Cpu!U8, Cpu!Byte
    <2>4. a \in Int
      BY <1>1 DEF Cpu!Byte
    <2> HIDE DEF sum
    <2> QED BY <2>1, <2>2, <2>3, <2>4
  <1> QED BY <1>2, <1>3, <1>4

\* The argument stays in its range.
ArithInv == unit = "numbers" => arg \in 0..Arguments

LEMMA ArgumentStays == (Init => ArithInv) /\ (ArithInv /\ [Next]_vars => ArithInv')
  <1>1. Init => ArithInv
    BY ArgumentsAssumption DEF Init, ArithInv
  <1>2. ArithInv /\ [Next]_vars => ArithInv'
    <2> SUFFICES ASSUME ArithInv, [Next]_vars PROVE ArithInv'
      OBVIOUS
    <2>1. CASE Counting
      BY <2>1, ArgumentsAssumption DEF Counting, ArithInv
    <2>2. CASE Profiling \/ Timing \/ Logging \/ Booting \/ UNCHANGED vars
      BY <2>2 DEF Profiling, Timing, Logging, Booting, vars, ArithInv
    <2> QED BY <2>1, <2>2 DEF Next
  <1> QED BY <1>1, <1>2

\* For operands other than VF the interpreter's subtractions, shifts and bitwise
\* operations are right (CPU.c 379-436), whatever the run's operands are.
THEOREM ArithmeticIsRight == Spec => []ArithmeticAgrees
  <1>1. Init => ArithInv
    BY ArgumentStays
  <1>2. ArithInv /\ [Next]_vars => ArithInv'
    BY ArgumentStays
  <1>3. ArithInv => ArithmeticAgrees
    <2> SUFFICES ASSUME ArithInv, unit = "numbers",
                        NEW b \in Operands, NEW x \in Both, NEW y \in Both
                 PROVE  /\ Cpu!SubtractsWithBorrow(RegisterV(b), x, y)
                        /\ Cpu!ShiftsIntoVF(RegisterV(b), x)
                        /\ Cpu!BitwiseAgree(RegisterV(b), x, y)
      BY DEF ArithmeticAgrees
    <2>1. RegisterV(b) \in Cpu!RegisterFile
      BY ArgumentsAssumption DEF ArithInv, RegisterV, Cpu!RegisterFile, Cpu!Byte, Cpu!Reg
    <2>2. x \in Cpu!Reg \ {Cpu!VF} /\ y \in Cpu!Reg \ {Cpu!VF}
      BY DEF Both, Cpu!Reg, Cpu!VF
    <2> QED BY <2>1, <2>2, SubtractionsCorrect, ShiftsCorrect, BitwiseCorrect
  <1> QED BY <1>1, <1>2, <1>3, PTL DEF Spec
-----------------------------------------------------------------------------
(* Recursion.  A function that is defined by recursion on its argument solves its own *)
(* equations, since they have a solution; what is said of all numbers below is shown *)
(* for a set of numbers that has 0 and with every number the next. *)

LEMMA AllNumbers ==
  ASSUME NEW P, 0 \in P, \A n \in Nat : n \in P => n + 1 \in P
  PROVE  \A n \in Nat : n \in P
  <1> DEFINE Bad == {n \in Nat : n \notin P}
  <1> SUFFICES ASSUME Bad # {} PROVE FALSE
    OBVIOUS
  <1>1. PICK n \in Bad : \A m \in Bad : n <= m
    <2>1. Bad \in SUBSET Nat
      OBVIOUS
    <2> HIDE DEF Bad
    <2> QED BY <2>1, Least
  <1>2. n \in Nat /\ n \notin P /\ n # 0
    BY <1>1
  <1>3. n - 1 \in Nat /\ (n - 1) + 1 = n /\ n - 1 \notin Bad
    BY <1>1, <1>2
  <1> QED BY <1>2, <1>3

\* g starts with a and follows the functions f[1], f[2], ... up to f[N].
Follows(g, a, f, N) == g[0] = a /\ \A n \in 1..N : g[n] = f[n][g[n - 1]]

LEMMA IteratesTo ==
  ASSUME NEW S, NEW a \in S, NEW N \in Nat, NEW f \in [1..N -> [S -> S]]
  PROVE  \E g \in [0..N -> S] : Follows(g, a, f, N)
  <1> DEFINE P == {n \in Nat : n <= N => \E g \in [0..n -> S] : Follows(g, a, f, n)}
  <1>1. 0 \in P
    <2> DEFINE g == [i \in 0..0 |-> a]
    <2>1. g \in [0..0 -> S] /\ Follows(g, a, f, 0)
      BY DEF Follows
    <2> QED BY <2>1
  <1>2. ASSUME NEW n \in Nat, n \in P, n + 1 <= N PROVE n + 1 \in P
    <2>1. PICK g \in [0..n -> S] : Follows(g, a, f, n)
      BY <1>2
    <2> DEFINE h == [i \in 0..(n + 1) |-> IF i = n + 1 THEN f[n + 1][g[n]] ELSE g[i]]
    <2>2. n + 1 \in 1..N /\ n \in 0..n /\ f[n + 1] \in [S -> S] /\ g[n] \in S
      BY <1>2
    <2>3. f[n + 1][g[n]] \in S
      BY <2>2
    <2>4. h \in [0..(n + 1) -> S]
      BY <2>3
    <2>5. /\ h[0] = g[0] /\ \A i \in 1..n : h[i] = g[i] /\ h[i - 1] = g[i - 1]
          /\ h[n + 1] = f[n + 1][g[n]] /\ h[n] = g[n]
      OBVIOUS
    <2>6. Follows(h, a, f, n + 1)
      <3>1. \A i \in 1..(n + 1) : i \in 1..n \/ i = n + 1
        OBVIOUS
      <3>2. (n + 1) - 1 = n
        OBVIOUS
      <3> HIDE DEF h
      <3> QED BY <2>1, <2>5, <3>1, <3>2 DEF Follows
    <2> QED BY <2>4, <2>6
  <1>3. \A n \in Nat : n \in P => n + 1 \in P
    <2> SUFFICES ASSUME NEW n \in Nat, n \in P, ~(n + 1 <= N) PROVE n + 1 \in P
      BY <1>2
    <2> QED OBVIOUS
  <1>4. N \in P
    <2> HIDE DEF P
    <2> QED BY <1>1, <1>3, AllNumbers
  <1> QED BY <1>4

LEMMA Iterates ==
  ASSUME NEW S, NEW a \in S, NEW f \in [Nat \ {0} -> [S -> S]]
  PROVE  \E g \in [Nat -> S] : \A N \in Nat : Follows(g, a, f, N)
  <1> DEFINE Upto(n) == CHOOSE g \in [0..n -> S] : Follows(g, a, f, n)
             h == [n \in Nat |-> Upto(n)[n]]
  <1>1. ASSUME NEW n \in Nat PROVE Upto(n) \in [0..n -> S] /\ Follows(Upto(n), a, f, n)
    <2> DEFINE e == [i \in 1..n |-> f[i]]
    <2>1. e \in [1..n -> [S -> S]]
      OBVIOUS
    <2>2. PICK g \in [0..n -> S] : Follows(g, a, e, n)
      <3> HIDE DEF e
      <3> QED BY <2>1, IteratesTo
    <2>3. Follows(g, a, f, n)
      BY <2>2 DEF Follows
    <2> QED BY <2>3
  <1> HIDE DEF Upto
  <1>2. h \in [Nat -> S] /\ h[0] = a
    BY <1>1 DEF Follows
  <1>3. ASSUME NEW n \in Nat PROVE Upto(n + 1)[n] = Upto(n)[n]
    <2> DEFINE P == {i \in Nat : i <= n => Upto(n + 1)[i] = Upto(n)[i]}
    <2>1. 0 \in P
      BY <1>1 DEF Follows
    <2>2. \A i \in Nat : i \in P => i + 1 \in P
      <3> SUFFICES ASSUME NEW i \in Nat, i + 1 <= n, Upto(n + 1)[i] = Upto(n)[i]
                   PROVE  Upto(n + 1)[i + 1] = Upto(n)[i + 1]
        OBVIOUS
      <3>1. i + 1 \in 1..n /\ i + 1 \in 1..(n + 1) /\ (i + 1) - 1 = i
        OBVIOUS
      <3>2. Follows(Upto(n), a, f, n) /\ Follows(Upto(n + 1), a, f, n + 1)
        BY <1>1
      <3> QED BY <3>1, <3>2 DEF Follows
    <2>3. n \in P
      <3> HIDE DEF P
      <3> QED BY <2>1, <2>2, AllNumbers
    <2> QED BY <2>3
  <1>4. ASSUME NEW n \in Nat \ {0} PROVE h[n] = f[n][h[n - 1]]
    <2>1. n - 1 \in Nat /\ (n - 1) + 1 = n /\ n \in 1..n
      OBVIOUS
    <2>2. Upto(n)[n - 1] = Upto(n - 1)[n - 1]
      BY <1>3, <2>1
    <2>3. Upto(n)[n] = f[n][Upto(n)[n - 1]]
      BY <1>1, <2>1 DEF Follows
    <2> QED BY <2>1, <2>2, <2>3
  <1> HIDE DEF h
  <1>5. \A N \in Nat : Follows(h, a, f, N)
    BY <1>2, <1>4 DEF Follows
  <1> QED BY <1>2, <1>5

-----------------------------------------------------------------------------
(* Digits. *)

LEMMA Quotients ==
  ASSUME NEW m \in Nat, NEW b \in Nat \ {0}
  PROVE  /\ Quotient(m, b) \in [Nat -> Nat] /\ Quotient(m, b)[0] = m
         /\ \A n \in Nat : Quotient(m, b)[n + 1] = Quotient(m, b)[n] \div b
  <1> DEFINE f == [n \in Nat \ {0} |-> [x \in Nat |-> x \div b]]
             Solves(g) == g = [n \in Nat |-> IF n = 0 THEN m ELSE g[n - 1] \div b]
  <1>1. \A x \in Nat : x \div b \in Nat
    BY Z3
  <1>2. f \in [Nat \ {0} -> [Nat -> Nat]]
    BY <1>1
  <1>3. PICK g \in [Nat -> Nat] : \A N \in Nat : Follows(g, m, f, N)
    <2> HIDE DEF f
    <2> QED BY <1>2, Iterates
  <1>4. g[0] = m /\ \A n \in Nat \ {0} : g[n] = g[n - 1] \div b
    <2>1. \A n \in Nat \ {0} : n \in 1..n /\ g[n - 1] \in Nat
      OBVIOUS
    <2> QED BY <1>3, <2>1 DEF Follows
  <1>5. Solves(g)
    BY <1>4
  <1>6. Quotient(m, b) = CHOOSE q : Solves(q)
    BY DEF Quotient
  <1> HIDE DEF Solves
  <1>7. Solves(Quotient(m, b))
    BY <1>5, <1>6
  <1> USE DEF Solves
  <1> DEFINE q == Quotient(m, b)
  <1> HIDE DEF q
  <1>8. q = [n \in Nat |-> IF n = 0 THEN m ELSE q[n - 1] \div b]
    BY <1>7 DEF q
  <1>9. q[0] = m /\ \A n \in Nat : q[n + 1] = q[n] \div b
    <2>1. \A n \in Nat : n + 1 \in Nat /\ n + 1 # 0 /\ (n + 1) - 1 = n
      OBVIOUS
    <2> QED BY <1>8, <2>1
  <1>10. \A n \in Nat : q[n] \in Nat
    <2> DEFINE P == {n \in Nat : q[n] \in Nat}
    <2>1. 0 \in P /\ \A n \in Nat : n \in P => n + 1 \in P
      BY <1>1, <1>9
    <2> HIDE DEF P
    <2>2. \A n \in Nat : n \in P
      BY <2>1, AllNumbers
    <2> QED BY <2>2 DEF P
  <1>11. q \in [Nat -> Nat]
    BY <1>8, <1>10
  <1> QED BY <1>9, <1>11 DEF q

\* Value is what Horner's scheme gives.
LEMMA Horner ==
  ASSUME NEW b \in Nat, NEW digits \in Seq(Int)
  PROVE  \E g \in [0..Len(digits) -> Int] :
           /\ g[0] = 0 /\ \A n \in 1..Len(digits) : g[n] = b * g[n - 1] + digits[n]
           /\ Value(digits, b) = g[Len(digits)]
  <1> DEFINE N == Len(digits)
             f == [n \in 1..N |-> [x \in Int |-> b * x + digits[n]]]
             Solves(g) == g = [n \in 0..N |-> IF n = 0 THEN 0 ELSE b * g[n - 1] + digits[n]]
             value == CHOOSE g : Solves(g)
  <1>1. N \in Nat /\ \A n \in 1..N : digits[n] \in Int
    BY LenProperties, ElementOfSeq
  <1>2. f \in [1..N -> [Int -> Int]] /\ 0 \in Int
    BY <1>1
  <1>3. PICK g \in [0..N -> Int] : Follows(g, 0, f, N)
    <2> HIDE DEF f, N
    <2> QED BY <1>1, <1>2, IteratesTo
  <1>4. g[0] = 0 /\ \A n \in 1..N : g[n] = b * g[n - 1] + digits[n]
    <2>1. \A n \in 1..N : g[n - 1] \in Int
      BY <1>1
    <2> QED BY <1>3, <2>1 DEF Follows
  <1>5. Solves(g)
    <2>1. \A n \in 0..N : n = 0 \/ n \in 1..N
      BY <1>1
    <2> QED BY <1>4, <2>1
  <1>6. Value(digits, b) = value[N]
    BY DEF Value
  <1> HIDE DEF Solves
  <1>7. Solves(value)
    BY <1>5
  <1> USE DEF Solves
  <1> HIDE DEF value
  <1>8. value[0] = 0 /\ \A n \in 1..N : value[n] = b * value[n - 1] + digits[n]
    <2>1. value = [n \in 0..N |-> IF n = 0 THEN 0 ELSE b * value[n - 1] + digits[n]]
      BY <1>7
    <2>2. 0 \in 0..N /\ \A n \in 1..N : n \in 0..N /\ n # 0
      BY <1>1
    <2> HIDE DEF Solves, N
    <2> QED BY <2>1, <2>2
  <1>9. \A n \in Nat : n \in {i \in Nat : i <= N => value[i] = g[i]}
    <2> DEFINE P == {i \in Nat : i <= N => value[i] = g[i]}
    <2>1. 0 \in P
      BY <1>4, <1>8
    <2>2. \A i \in Nat : i \in P => i + 1 \in P
      <3> SUFFICES ASSUME NEW i \in Nat, i + 1 <= N, value[i] = g[i]
                   PROVE  value[i + 1] = g[i + 1]
        BY <1>1
      <3>1. i + 1 \in 1..N /\ (i + 1) - 1 = i
        BY <1>1
      <3> QED BY <1>4, <1>8, <3>1
    <2> HIDE DEF P
    <2>3. \A n \in Nat : n \in P
      BY <2>1, <2>2, AllNumbers
    <2> QED BY <2>3 DEF P
  <1>10. value[N] = g[N]
    BY <1>1, <1>9
  <1> QED BY <1>4, <1>6, <1>10

\* text is the end of m in digits: as many of its last digits as text has.
Ends(text, m, b) == \A i \in 1..Len(text) : text[i] = Digit(m, b, Len(text) - i)

LEMMA Spells ==
  ASSUME NEW m \in Nat, NEW b \in Nat \ {0}, NEW digits \in Seq(Int),
         Ends(digits, m, b), Quotient(m, b)[Len(digits)] = 0
  PROVE  Value(digits, b) = m
  <1> DEFINE n == Len(digits)
             q == Quotient(m, b)
  <1>1. n \in Nat
    BY LenProperties
  <1>2. q \in [Nat -> Nat] /\ q[0] = m /\ \A i \in Nat : q[i + 1] = q[i] \div b
    BY Quotients
  <1>3. PICK g \in [0..n -> Int] :
           /\ g[0] = 0 /\ \A i \in 1..n : g[i] = b * g[i - 1] + digits[i]
           /\ Value(digits, b) = g[n]
    BY Horner
  <1>4. \A i \in 1..n : digits[i] = q[n - i] % b
    BY DEF Ends, Digit
  <1> HIDE DEF n, q
  <1> DEFINE P == {i \in Nat : i <= n => g[i] = q[n - i]}
  <1>5. 0 \in P
    BY <1>1, <1>3 DEF n, q
  <1>6. \A i \in Nat : i \in P => i + 1 \in P
    <2> SUFFICES ASSUME NEW i \in Nat, i + 1 <= n, g[i] = q[n - i]
                 PROVE  g[i + 1] = q[n - (i + 1)]
      BY <1>1
    <2> DEFINE x == q[n - (i + 1)]
    <2>1. /\ n - (i + 1) \in Nat /\ (n - (i + 1)) + 1 = n - i
          /\ i + 1 \in 1..n /\ (i + 1) - 1 = i
      BY <1>1
    <2>2. x \in Nat /\ q[n - i] = x \div b
      BY <1>2, <2>1
    <2>3. g[i + 1] = b * g[i] + digits[i + 1] /\ digits[i + 1] = x % b
      BY <1>3, <1>4, <2>1
    <2> HIDE DEF x
    <2>4. x = b * (x \div b) + (x % b)
      BY <2>2, Division
    <2>5. g[i + 1] = x
      BY <2>2, <2>3, <2>4
    <2> QED BY <2>5 DEF x
  <1>7. n \in P
    <2> HIDE DEF P
    <2> QED BY <1>1, <1>5, <1>6, AllNumbers
  <1> QED BY <1>1, <1>2, <1>3, <1>7

\* The digits stop, and beyond them there are zeros.
LEMMA DigitsStop ==
  ASSUME NEW m \in Nat, NEW b \in Nat, b >= 2
  PROVE  /\ \A n \in Nat : Digit(m, b, n) \in 0..(b - 1)
         /\ \A n \in Nat : Quotient(m, b)[n] = 0 =>
              Quotient(m, b)[n + 1] = 0 /\ Digit(m, b, n) = 0
         /\ Quotient(m, b)[m + 1] = 0
  <1> DEFINE q == Quotient(m, b)
  <1>1. q \in [Nat -> Nat] /\ q[0] = m /\ \A i \in Nat : q[i + 1] = q[i] \div b
    BY Quotients
  <1>2. \A n \in Nat : Digit(m, b, n) = q[n] % b
    BY DEF Digit
  <1>3. ASSUME NEW x \in Nat
        PROVE  x % b \in 0..(b - 1) /\ 0 \div b = 0 /\ 0 % b = 0 /\ x \div b \in Nat
               /\ (x # 0 => x \div b < x)
    BY Z3
  <1> HIDE DEF q
  <1> DEFINE P == {n \in Nat : q[n] = 0 \/ q[n] + n <= m}
  <1>4. 0 \in P
    BY <1>1
  <1>5. \A n \in Nat : n \in P => n + 1 \in P
    <2> SUFFICES ASSUME NEW n \in Nat, q[n] = 0 \/ q[n] + n <= m
                 PROVE  q[n + 1] = 0 \/ q[n + 1] + (n + 1) <= m
      OBVIOUS
    <2>1. q[n] \in Nat /\ q[n + 1] = q[n] \div b /\ q[n] \div b \in Nat
      BY <1>1, <1>3
    <2>2. q[n] # 0 => q[n] \div b < q[n]
      BY <1>3, <2>1
    <2>3. q[n] = 0 => q[n + 1] = 0
      BY <1>3, <2>1
    <2> DEFINE y == q[n] \div b
    <2> HIDE DEF y
    <2> QED BY <2>1, <2>2, <2>3 DEF y
  <1>6. m + 1 \in P
    <2> HIDE DEF P
    <2> QED BY <1>4, <1>5, AllNumbers
  <1>7. q[m + 1] = 0
    BY <1>1, <1>6
  <1>8. \A n \in Nat : Digit(m, b, n) \in 0..(b - 1) /\ (q[n] = 0 => q[n + 1] = 0 /\ Digit(m, b, n) = 0)
    BY <1>1, <1>2, <1>3
  <1> QED BY <1>7, <1>8 DEF q

LEMMA ZerosOn ==
  ASSUME NEW m \in Nat, NEW b \in Nat, b >= 2, NEW k \in Nat, Quotient(m, b)[k] = 0
  PROVE  \A j \in Nat : Quotient(m, b)[k + j] = 0 /\ Digit(m, b, k + j) = 0
  <1> DEFINE q == Quotient(m, b)
             P == {j \in Nat : q[k + j] = 0}
  <1>1. \A n \in Nat : q[n] = 0 => q[n + 1] = 0 /\ Digit(m, b, n) = 0
    BY DigitsStop
  <1>2. 0 \in P
    OBVIOUS
  <1> HIDE DEF q
  <1>3. \A j \in Nat : j \in P => j + 1 \in P
    <2> SUFFICES ASSUME NEW j \in Nat, q[k + j] = 0 PROVE q[k + (j + 1)] = 0
      OBVIOUS
    <2>1. k + j \in Nat /\ (k + j) + 1 = k + (j + 1)
      OBVIOUS
    <2> QED BY <1>1, <2>1
  <1> HIDE DEF P
  <1>4. \A j \in Nat : j \in P
    BY <1>2, <1>3, AllNumbers
  <1>5. \A j \in Nat : k + j \in Nat /\ q[k + j] = 0
    BY <1>4 DEF P
  <1> QED BY <1>1, <1>5 DEF q

LEMMA DigitsCounted ==
  ASSUME NEW m \in Nat, NEW b \in Nat, b >= 2
  PROVE  /\ DigitCount(m, b) \in Nat \ {0} /\ Quotient(m, b)[DigitCount(m, b)] = 0
         /\ m # 0 => Digit(m, b, DigitCount(m, b) - 1) # 0
  <1> DEFINE q == Quotient(m, b)
             K == {k \in Nat \ {0} : q[k] = 0}
             IsCount(k) == q[k] = 0 /\ (k > 1 => q[k - 1] # 0)
             c == DigitCount(m, b)
  <1>1. q \in [Nat -> Nat] /\ q[0] = m /\ \A i \in Nat : q[i + 1] = q[i] \div b
    BY Quotients
  <1>2. m + 1 \in K
    BY DigitsStop
  <1>3. PICK k \in K : \A j \in K : k <= j
    <2>1. K \in SUBSET Nat /\ K # {}
      BY <1>2
    <2> HIDE DEF K
    <2> QED BY <2>1, Least
  <1>4. k \in 1..(m + 1) /\ IsCount(k)
    <2>1. k <= m + 1
      BY <1>2, <1>3
    <2>2. ASSUME k > 1 PROVE q[k - 1] # 0
      <3>1. k - 1 \in Nat \ {0} /\ ~(k <= k - 1)
        BY <2>2
      <3> QED BY <1>3, <3>1
    <2> QED BY <1>3, <2>1, <2>2
  <1>5. c = CHOOSE x \in 1..(m + 1) : IsCount(x)
    BY DEF DigitCount
  <1> HIDE DEF IsCount
  <1>6. c \in 1..(m + 1) /\ IsCount(c)
    BY <1>4, <1>5
  <1> HIDE DEF c, q
  <1>7. c \in Nat \ {0} /\ q[c] = 0 /\ (c > 1 => q[c - 1] # 0)
    BY <1>6 DEF IsCount
  <1>8. ASSUME m # 0 PROVE q[c - 1] % b # 0
    <2>1. c - 1 \in Nat /\ (c - 1) + 1 = c /\ q[c - 1] # 0
      BY <1>1, <1>7, <1>8
    <2> DEFINE x == q[c - 1]
    <2>2. x \in Nat /\ x # 0 /\ x \div b = 0
      BY <1>1, <1>7, <2>1
    <2> HIDE DEF x
    <2>3. x = b * (x \div b) + (x % b) /\ x % b \in Int
      BY <2>2, Division
    <2>4. x % b # 0
      BY <2>2, <2>3
    <2> QED BY <2>4 DEF x
  <1> QED BY <1>7, <1>8 DEF Digit, c, q

\* The digits of a number, as a text.
LEMMA DigitsOfNumber ==
  ASSUME NEW m \in Nat, NEW b \in 2..16
  PROVE  /\ DigitsOf(m, b) \in Seq(Int) /\ Len(DigitsOf(m, b)) \in Nat \ {0}
         /\ Ends(DigitsOf(m, b), m, b) /\ Quotient(m, b)[Len(DigitsOf(m, b))] = 0
         /\ \A i \in 1..Len(DigitsOf(m, b)) : DigitsOf(m, b)[i] \in 0..15
         /\ DigitsOf(m, b)[1] = 0 => m = 0
  <1> DEFINE k == DigitCount(m, b)
             d == DigitsOf(m, b)
  <1>1. k \in Nat \ {0} /\ Quotient(m, b)[k] = 0 /\ (m # 0 => Digit(m, b, k - 1) # 0)
    BY DigitsCounted
  <1>2. \A n \in Nat : Digit(m, b, n) \in 0..15
    <2>1. b \in Nat /\ b >= 2 /\ \A x \in 0..(b - 1) : x \in 0..15
      OBVIOUS
    <2>2. \A n \in Nat : Digit(m, b, n) \in 0..(b - 1)
      BY <2>1, DigitsStop
    <2> QED BY <2>1, <2>2
  <1>3. d = [i \in 1..k |-> Digit(m, b, k - i)]
    BY DEF DigitsOf
  <1> HIDE DEF k, d
  <1>4. \A i \in 1..k : k - i \in Nat /\ d[i] = Digit(m, b, k - i) /\ d[i] \in 0..15
    BY <1>1, <1>2, <1>3
  <1>5. d \in Seq(Int) /\ Len(d) = k
    <2>1. d \in [1..k -> Int] /\ k \in Nat
      BY <1>1, <1>3, <1>4
    <2>2. d \in Seq(Int)
      BY <2>1, IsASeq
    <2>3. DOMAIN d = 1..k
      BY <1>3
    <2> QED BY <2>1, <2>2, <2>3, LenProperties
  <1>6. Ends(d, m, b)
    BY <1>4, <1>5 DEF Ends
  <1>7. d[1] = 0 => m = 0
    BY <1>1, <1>4
  <1> QED BY <1>1, <1>4, <1>5, <1>6, <1>7 DEF d

\* The same with zeros before it.
Padded(t, z, d, m, b) ==
  /\ t \in Seq(Int) /\ Len(t) = Len(z) + Len(d)
  /\ Ends(t, m, b) /\ Quotient(m, b)[Len(t)] = 0

LEMMA ZerosBefore ==
  ASSUME NEW m \in Nat, NEW b \in Nat, b >= 2,
         NEW d \in Seq(Int), Ends(d, m, b), Quotient(m, b)[Len(d)] = 0,
         NEW z \in Seq(Int), \A i \in 1..Len(z) : z[i] = 0
  PROVE  Padded(z \o d, z, d, m, b)
  <1> DEFINE t == z \o d
             q == Quotient(m, b)
  <1>1. /\ t \in Seq(Int) /\ Len(t) = Len(z) + Len(d)
        /\ \A i \in 1..(Len(z) + Len(d)) : t[i] = IF i <= Len(z) THEN z[i] ELSE d[i - Len(z)]
    BY ConcatProperties
  <1>2. Len(z) \in Nat /\ Len(d) \in Nat
    BY LenProperties
  <1>3. \A j \in Nat : q[Len(d) + j] = 0 /\ Digit(m, b, Len(d) + j) = 0
    BY <1>2, ZerosOn
  <1> HIDE DEF t, q
  <1>4. ASSUME NEW i \in 1..Len(t) PROVE t[i] = Digit(m, b, Len(t) - i)
    <2>1. CASE i <= Len(z)
      <3>1. t[i] = 0
        BY <1>1, <1>2, <1>4, <2>1
      <3>2. Len(z) - i \in Nat /\ Len(t) - i = Len(d) + (Len(z) - i) /\ Len(t) - i \in Nat
        BY <1>1, <1>2, <2>1
      <3>3. Digit(m, b, Len(d) + (Len(z) - i)) = 0
        BY <1>3, <3>2
      <3> QED BY <3>1, <3>2, <3>3
    <2>2. CASE ~(i <= Len(z))
      <3>1. i - Len(z) \in 1..Len(d) /\ Len(d) - (i - Len(z)) = Len(t) - i
        BY <1>1, <1>2, <1>4, <2>2
      <3>2. t[i] = d[i - Len(z)]
        BY <1>1, <1>2, <1>4, <2>2
      <3> QED BY <3>1, <3>2 DEF Ends
    <2> QED BY <2>1, <2>2
  <1>5. q[Len(t)] = 0
    <2>1. Len(t) = Len(d) + Len(z)
      BY <1>1, <1>2
    <2>2. q[Len(d) + Len(z)] = 0
      BY <1>2, <1>3
    <2> QED BY <2>1, <2>2
  <1> QED BY <1>1, <1>4, <1>5 DEF Padded, Ends, t, q

\* Where the digits at the end of a text begin.
LEMMA DigitsAfter ==
  ASSUME NEW p \in Seq(Int), NEW d \in Seq(Int), Len(d) > 0,
         Len(p) > 0 => p[Len(p)] \notin 0..15,
         \A i \in 1..Len(d) : d[i] \in 0..15
  PROVE  Digits(p \o d) = d
  <1> DEFINE t == p \o d
             n == Len(p)
             Starts(i) == DigitsFrom(t, i) /\ \A h \in 1..(i - 1) : ~DigitsFrom(t, h)
             start == CHOOSE i \in 1..(Len(t) + 1) : Starts(i)
  <1>1. /\ t \in Seq(Int) /\ Len(t) = n + Len(d)
        /\ \A i \in 1..(n + Len(d)) : t[i] = IF i <= n THEN p[i] ELSE d[i - n]
    BY ConcatProperties
  <1>2. n \in Nat /\ Len(d) \in Nat
    BY LenProperties
  <1>3. Digits(t) = SubSeq(t, start, Len(t))
    BY DEF Digits
  <1> HIDE DEF t, n
  <1>4. DigitsFrom(t, n + 1)
    <2> SUFFICES ASSUME NEW j \in (n + 1)..Len(t) PROVE t[j] \in 0..15
      BY DEF DigitsFrom
    <2>1. j \in 1..(n + Len(d)) /\ ~(j <= n) /\ j - n \in 1..Len(d)
      BY <1>1, <1>2
    <2>2. t[j] = d[j - n]
      BY <1>1, <2>1
    <2> QED BY <2>1, <2>2
  <1>5. ASSUME NEW h \in Int, h <= n, n > 0 PROVE ~DigitsFrom(t, h)
    <2>0. n \in 1..(n + Len(d)) /\ n <= n
      BY <1>2, <1>5
    <2>1. n \in h..Len(t) /\ t[n] = p[n]
      <3>1. t[n] = p[n]
        BY <1>1, <2>0
      <3>2. n \in Int /\ h <= n /\ n <= Len(t) /\ Len(t) \in Int
        BY <1>1, <1>2, <1>5
      <3> QED BY <3>1, <3>2
    <2>2. t[n] \notin 0..15
      BY <1>5, <2>1 DEF n
    <2> QED BY <2>1, <2>2 DEF DigitsFrom
  <1>6. n + 1 \in 1..(Len(t) + 1) /\ Starts(n + 1)
    <2>1. \A h \in 1..((n + 1) - 1) : h \in Int /\ h <= n /\ n > 0
      BY <1>2
    <2>2. n + 1 \in 1..(Len(t) + 1)
      <3>1. Len(t) = n + Len(d)
        BY <1>1
      <3> QED BY <1>2, <3>1
    <2>3. \A h \in 1..((n + 1) - 1) : ~DigitsFrom(t, h)
      BY <1>5, <2>1
    <2> QED BY <1>4, <2>2, <2>3
  <1>7. ASSUME NEW i \in 1..(Len(t) + 1), Starts(i) PROVE i = n + 1
    <2>1. ~(i <= n)
      <3> SUFFICES ASSUME i <= n PROVE FALSE
        OBVIOUS
      <3>1. i \in Int /\ n > 0
        BY <1>2
      <3> QED BY <1>5, <1>7, <3>1
    <2>2. ~(n + 1 < i)
      <3> SUFFICES ASSUME n + 1 < i PROVE FALSE
        OBVIOUS
      <3>1. n + 1 \in 1..(i - 1)
        BY <1>2
      <3> QED BY <1>4, <1>7, <3>1
    <2> QED BY <1>2, <2>1, <2>2
  <1> HIDE DEF Starts
  <1>8. start = n + 1
    BY <1>6, <1>7
  <1>9. SubSeq(t, n + 1, Len(t)) = d
    <2>1. /\ n + 1 \in (n + 1)..(n + Len(d)) /\ Len(t) \in (n + 1)..(n + Len(d))
          /\ (n + 1) - n = 1 /\ Len(t) - n = Len(d)
      BY <1>1, <1>2
    <2>2. SubSeq(t, n + 1, Len(t)) = SubSeq(d, (n + 1) - n, Len(t) - n)
      BY <2>1, SubSeqOfConcat2 DEF t, n
    <2> QED BY <2>1, <2>2, SubSeqFull
  <1> QED BY <1>3, <1>8, <1>9 DEF t

\* A text of one character repeated.
LEMMA Fillings ==
  ASSUME NEW c \in Int, NEW count \in Int
  PROVE  /\ Repeated(c, count) \in Seq(Int)
         /\ Len(Repeated(c, count)) = IF count > 0 THEN count ELSE 0
         /\ \A i \in 1..Len(Repeated(c, count)) : Repeated(c, count)[i] = c
  <1> DEFINE n == IF count > 0 THEN count ELSE 0
             r == Repeated(c, count)
  <1>1. n \in Nat /\ r = [i \in 1..n |-> c]
    BY DEF Repeated
  <1> HIDE DEF n, r
  <1>2. r \in [1..n -> Int] /\ DOMAIN r = 1..n
    BY <1>1
  <1>3. r \in Seq(Int)
    BY <1>1, <1>2, IsASeq
  <1>4. Len(r) = n
    BY <1>1, <1>2, <1>3, LenProperties
  <1> QED BY <1>1, <1>3, <1>4 DEF n, r

\* A text of three parts, of which the last are digits.
Joins(t, p, r, d) ==
  /\ t \in Seq(Int) /\ Len(t) = (Len(p) + Len(r)) + Len(d)
  /\ t = p \o (r \o d)
  /\ \A c : Contains(t, c) <=> Contains(p, c) \/ Contains(r, c) \/ Contains(d, c)

LEMMA ThreeParts ==
  ASSUME NEW p \in Seq(Int), NEW r \in Seq(Int), NEW d \in Seq(Int)
  PROVE  Joins((p \o r) \o d, p, r, d)
  <1>0. Len(p) \in Nat /\ Len(r) \in Nat /\ Len(d) \in Nat
    BY LenProperties
  <1>1. /\ p \o r \in Seq(Int) /\ Len(p \o r) = Len(p) + Len(r)
        /\ \A i \in 1..(Len(p) + Len(r)) : (p \o r)[i] = IF i <= Len(p) THEN p[i] ELSE r[i - Len(p)]
    BY ConcatProperties
  <1> DEFINE s == p \o r
             t == s \o d
  <1> HIDE DEF s
  <1>2. /\ t \in Seq(Int) /\ Len(t) = Len(s) + Len(d)
        /\ \A i \in 1..(Len(s) + Len(d)) : t[i] = IF i <= Len(s) THEN s[i] ELSE d[i - Len(s)]
    BY <1>1, ConcatProperties DEF s
  <1>3. t = p \o (r \o d)
    BY ConcatAssociative DEF s
  <1>4. ASSUME NEW x \in Seq(Int), NEW y \in Seq(Int), NEW z, NEW c, Len(x) \in Nat, Len(y) \in Nat,
               Len(z) = Len(x) + Len(y),
               \A i \in 1..(Len(x) + Len(y)) : z[i] = IF i <= Len(x) THEN x[i] ELSE y[i - Len(x)]
        PROVE  Contains(z, c) <=> Contains(x, c) \/ Contains(y, c)
    <2>1. ASSUME NEW i \in 1..Len(z), z[i] = c PROVE Contains(x, c) \/ Contains(y, c)
      <3>1. i \in 1..(Len(x) + Len(y)) /\ z[i] = IF i <= Len(x) THEN x[i] ELSE y[i - Len(x)]
        BY <1>4
      <3>2. CASE i <= Len(x)
        <4>1. i \in 1..Len(x) /\ x[i] = c
          BY <1>4, <2>1, <3>1, <3>2
        <4> QED BY <4>1 DEF Contains
      <3>3. CASE ~(i <= Len(x))
        <4>1. i - Len(x) \in 1..Len(y) /\ y[i - Len(x)] = c
          BY <1>4, <2>1, <3>1, <3>3
        <4> QED BY <4>1 DEF Contains
      <3> QED BY <3>2, <3>3
    <2>2. ASSUME NEW i \in 1..Len(x), x[i] = c PROVE Contains(z, c)
      <3>1. i \in 1..Len(z) /\ i <= Len(x) /\ z[i] = x[i]
        BY <1>4
      <3> QED BY <2>2, <3>1 DEF Contains
    <2>3. ASSUME NEW i \in 1..Len(y), y[i] = c PROVE Contains(z, c)
      <3>1. Len(x) + i \in 1..Len(z) /\ ~(Len(x) + i <= Len(x)) /\ (Len(x) + i) - Len(x) = i
        BY <1>4
      <3>2. z[Len(x) + i] = y[i]
        BY <1>4, <3>1
      <3> QED BY <2>3, <3>1, <3>2 DEF Contains
    <2> QED BY <2>1, <2>2, <2>3 DEF Contains
  <1>5. \A c : Contains(s, c) <=> Contains(p, c) \/ Contains(r, c)
    BY <1>0, <1>1, <1>4 DEF s
  <1>6. s \in Seq(Int) /\ Len(s) \in Nat
    BY <1>1, LenProperties DEF s
  <1> HIDE DEF t
  <1>7. \A c : Contains(t, c) <=> Contains(s, c) \/ Contains(d, c)
    BY <1>0, <1>2, <1>4, <1>6
  <1> QED BY <1>1, <1>2, <1>3, <1>5, <1>7 DEF s, t, Joins

\* The words, and how many there are.
LEMMA Words ==
  /\ PowerOf16 \in [Nat -> Nat] /\ PowerOf16[0] = 1
  /\ \A n \in Nat : PowerOf16[n + 1] = 16 * PowerOf16[n] /\ PowerOf16[n] > 0
  /\ WordSize \in Nat /\ WordSize \div 2 \in Nat \ {0} /\ WordSize = 2 * (WordSize \div 2)
  <1> DEFINE f == [n \in Nat \ {0} |-> [x \in Nat |-> 16 * x]]
             Solves(g) == g = [n \in Nat |-> IF n = 0 THEN 1 ELSE 16 * g[n - 1]]
             w == PowerOf16
  <1>1. f \in [Nat \ {0} -> [Nat -> Nat]] /\ 1 \in Nat
    OBVIOUS
  <1>2. PICK g \in [Nat -> Nat] : \A N \in Nat : Follows(g, 1, f, N)
    <2> HIDE DEF f
    <2> QED BY <1>1, Iterates
  <1>3. g[0] = 1 /\ \A n \in Nat \ {0} : g[n] = 16 * g[n - 1]
    <2>1. \A n \in Nat \ {0} : n \in 1..n /\ g[n - 1] \in Nat
      OBVIOUS
    <2> QED BY <1>2, <2>1 DEF Follows
  <1>4. Solves(g)
    BY <1>3
  <1>5. w = CHOOSE q : Solves(q)
    BY DEF PowerOf16
  <1> HIDE DEF Solves
  <1>6. Solves(w)
    BY <1>4, <1>5
  <1> USE DEF Solves
  <1> HIDE DEF w
  <1>7. w = [n \in Nat |-> IF n = 0 THEN 1 ELSE 16 * w[n - 1]]
    BY <1>6
  <1>8. w[0] = 1 /\ \A n \in Nat : w[n + 1] = 16 * w[n]
    <2>1. \A n \in Nat : n + 1 \in Nat /\ n + 1 # 0 /\ (n + 1) - 1 = n
      OBVIOUS
    <2> QED BY <1>7, <2>1
  <1>9. \A n \in Nat : w[n] \in Nat \ {0}
    <2> DEFINE P == {n \in Nat : w[n] \in Nat \ {0}}
    <2>1. 0 \in P /\ \A n \in Nat : n \in P => n + 1 \in P
      BY <1>8
    <2> HIDE DEF P
    <2>2. \A n \in Nat : n \in P
      BY <2>1, AllNumbers
    <2> QED BY <2>2 DEF P
  <1>10. w \in [Nat -> Nat]
    BY <1>7, <1>9
  <1>11. WordSize \in Nat /\ WordSize \div 2 \in Nat \ {0} /\ WordSize = 2 * (WordSize \div 2)
    <2>1. HexDigits \in Nat \ {0} /\ WordSize = w[HexDigits]
      BY PrintingAssumption DEF w
    <2>2. HexDigits - 1 \in Nat /\ (HexDigits - 1) + 1 = HexDigits
      BY <2>1
    <2> DEFINE x == w[HexDigits - 1]
    <2>3. x \in Nat \ {0} /\ WordSize = 16 * x
      BY <1>8, <1>9, <2>1, <2>2
    <2> HIDE DEF x
    <2> QED BY <2>3
  <1> QED BY <1>8, <1>9, <1>10, <1>11 DEF w

\* What alt_log_private_printf prints of a number, and what is read back from it.
LogsNumber(letter, zero, width, v) ==
  LET text == alt_log_private_printf(letter, zero, width, v)
      m == Value(Digits(text), NumberBase(letter))
  IN  /\ v = (IF Contains(text, Minus) THEN WordSize - m ELSE m) % WordSize
      /\ Contains(text, Minus) => IsSigned(letter) /\ m <= WordSize \div 2
      /\ Len(text) >= width
      /\ Len(text) > width =>
           /\ ~Contains(text, Blank)
           /\ Digits(text)[1] = 0 => v = 0

LEMMA Magnitudes ==
  ASSUME NEW letter, NEW v \in 0..(WordSize - 1)
  PROVE  /\ Magnitude(letter, v) \in Nat
         /\ Negative(letter, v) => /\ IsSigned(letter) /\ Magnitude(letter, v) = WordSize - v
                                   /\ Magnitude(letter, v) <= WordSize \div 2
                                   /\ v = (WordSize - Magnitude(letter, v)) % WordSize
                                   /\ Magnitude(letter, v) # 0
         /\ ~Negative(letter, v) => Magnitude(letter, v) = v
                                    /\ v = Magnitude(letter, v) % WordSize
  <1> DEFINE h == WordSize \div 2
  <1>1. WordSize \in Nat /\ h \in Nat \ {0} /\ WordSize = 2 * h
    BY Words
  <1>2. \A x \in 0..(WordSize - 1) : x % WordSize = x
    <2> SUFFICES ASSUME NEW x \in 0..(WordSize - 1) PROVE x % WordSize = x
      OBVIOUS
    <2>1. x \in Int /\ WordSize \in Nat \ {0} /\ x = WordSize * 0 + x /\ 0 <= x /\ x < WordSize /\ 0 \in Int
      BY <1>1
    <2> QED BY <2>1, DivisionIs
  <1>3. CASE Negative(letter, v)
    <2>1. IsSigned(letter) /\ v >= h
      BY <1>3 DEF Negative
    <2> HIDE DEF h
    <2>2. WordSize - v \in 0..(WordSize - 1) /\ WordSize - v # 0 /\ WordSize - v <= h
      BY <1>1, <2>1
    <2>3. Magnitude(letter, v) = WordSize - v
      BY <1>2, <1>3, <2>2 DEF Magnitude
    <2>4. WordSize - (WordSize - v) = v
      BY <1>1
    <2> QED BY <1>2, <1>3, <2>1, <2>2, <2>3, <2>4 DEF h
  <1>4. CASE ~Negative(letter, v)
    BY <1>2, <1>4 DEF Magnitude
  <1> QED BY <1>3, <1>4

\* A text of fillings, a sign and digits, in the order of zero.
LEMMA LogsAnyNumber ==
  ASSUME NEW letter \in {"d", "u", "o", "x"}, NEW zero \in BOOLEAN, NEW width \in Int,
         NEW v \in 0..(WordSize - 1)
  PROVE  LogsNumber(letter, zero, width, v)
  <1> DEFINE b == NumberBase(letter)
             m == Magnitude(letter, v)
             neg == Negative(letter, v)
             d == DigitsOf(m, b)
             sign == IF neg THEN <<Minus>> ELSE <<>>
             c == IF zero THEN 0 ELSE Blank
             count == (width - Len(d)) - Len(sign)
             fill == Repeated(c, count)
             text == IF zero THEN (sign \o fill) \o d ELSE (fill \o sign) \o d
  <1>1. alt_log_private_printf(letter, zero, width, v) = text
    BY DEF alt_log_private_printf, Number
  <1>2. b \in 2..16 /\ b \in Nat /\ b >= 2
    BY DEF NumberBase
  <1>3. /\ m \in Nat /\ neg \in BOOLEAN
        /\ neg => /\ IsSigned(letter) /\ m <= WordSize \div 2 /\ m # 0
                  /\ v = (WordSize - m) % WordSize
        /\ ~neg => m = v /\ v = m % WordSize
    BY Magnitudes DEF Negative
  <1> HIDE DEF b, m, neg
  <1>4. /\ d \in Seq(Int) /\ Len(d) \in Nat \ {0} /\ Ends(d, m, b) /\ Quotient(m, b)[Len(d)] = 0
        /\ \A i \in 1..Len(d) : d[i] \in 0..15
        /\ d[1] = 0 => m = 0
    BY <1>2, <1>3, DigitsOfNumber
  <1> HIDE DEF d
  <1>5. /\ sign \in Seq(Int) /\ Len(sign) = (IF neg THEN 1 ELSE 0)
        /\ \A i \in 1..Len(sign) : sign[i] = Minus
        /\ Contains(sign, Minus) <=> neg
        /\ ~Contains(sign, Blank)
    <2>1. CASE neg
      <3>1. sign = <<Minus>> /\ Minus \in Int /\ Minus # Blank
        BY <2>1 DEF Minus, Blank
      <3> HIDE DEF sign
      <3>2. sign \in Seq(Int) /\ Len(sign) = 1 /\ sign[1] = Minus
        BY <3>1
      <3> QED BY <2>1, <3>1, <3>2 DEF Contains
    <2>2. CASE ~neg
      <3>1. sign = <<>>
        BY <2>2
      <3> HIDE DEF sign
      <3>2. sign \in Seq(Int) /\ Len(sign) = 0
        BY <3>1
      <3> QED BY <2>2, <3>2 DEF Contains
    <2> QED BY <1>3, <2>1, <2>2
  <1> HIDE DEF sign
  <1>6. count \in Int /\ c \in {0, Blank} /\ c \in Int /\ Minus \in Int /\ Minus \notin 0..15
        /\ Blank \notin 0..15 /\ Minus # Blank /\ Minus # 0 /\ Blank # 0
    BY <1>3, <1>4, <1>5 DEF Blank, Minus
  <1> HIDE DEF c, count
  <1>7. /\ fill \in Seq(Int) /\ Len(fill) = (IF count > 0 THEN count ELSE 0)
        /\ \A i \in 1..Len(fill) : fill[i] = c
    BY <1>6, Fillings
  <1> HIDE DEF fill
  <1>8. ~Contains(fill, Minus) /\ ~Contains(d, Minus) /\ ~Contains(d, Blank)
        /\ (Len(fill) = 0 => ~Contains(fill, Blank))
    <2>1. ~Contains(fill, Minus)
      BY <1>6, <1>7 DEF Contains
    <2>2. ~Contains(d, Minus) /\ ~Contains(d, Blank)
      BY <1>4, <1>6 DEF Contains
    <2>3. Len(fill) = 0 => ~Contains(fill, Blank)
      BY DEF Contains
    <2> QED BY <2>1, <2>2, <2>3
  <1>9. /\ Contains(text, Minus) <=> neg
        /\ Len(text) = (Len(sign) + Len(fill)) + Len(d)
        /\ Len(fill) = 0 => ~Contains(text, Blank)
    <2>0. sign \in Seq(Int) /\ fill \in Seq(Int) /\ d \in Seq(Int)
      BY <1>4, <1>5, <1>7
    <2>1. CASE zero
      <3>1. text = (sign \o fill) \o d
        BY <2>1
      <3> HIDE DEF text
      <3>2. Joins(text, sign, fill, d)
        BY <2>0, <3>1, ThreeParts
      <3> QED BY <1>5, <1>8, <3>2 DEF Joins
    <2>2. CASE ~zero
      <3>1. text = (fill \o sign) \o d
        BY <2>2
      <3> HIDE DEF text
      <3>2. Joins(text, fill, sign, d)
        BY <2>0, <3>1, ThreeParts
      <3>3. Len(text) = (Len(sign) + Len(fill)) + Len(d)
        BY <1>4, <1>5, <1>7, <3>2 DEF Joins
      <3> QED BY <1>5, <1>8, <3>2, <3>3 DEF Joins
    <2> QED BY <2>1, <2>2
  <1>10. /\ Digits(text) \in Seq(Int) /\ Ends(Digits(text), m, b)
         /\ Quotient(m, b)[Len(Digits(text))] = 0
         /\ Len(fill) = 0 => Digits(text) = d
    <2>1. CASE zero
      <3>1. c = 0 /\ text = (sign \o fill) \o d
        BY <2>1 DEF c
      <3> HIDE DEF text
      <3>2. text = sign \o (fill \o d)
        <4>1. sign \in Seq(Int) /\ fill \in Seq(Int) /\ d \in Seq(Int)
          BY <1>4, <1>5, <1>7
        <4> QED BY <3>1, <4>1, ThreeParts DEF Joins
      <3>3. /\ fill \o d \in Seq(Int) /\ Len(fill \o d) = Len(fill) + Len(d)
            /\ Ends(fill \o d, m, b) /\ Quotient(m, b)[Len(fill \o d)] = 0
        <4>1. fill \in Seq(Int) /\ \A i \in 1..Len(fill) : fill[i] = 0
          BY <1>7, <3>1
        <4>2. Padded(fill \o d, fill, d, m, b)
          BY <1>2, <1>3, <1>4, <4>1, ZerosBefore
        <4> QED BY <4>2 DEF Padded
      <3>4. \A i \in 1..Len(fill \o d) : (fill \o d)[i] \in 0..15
        <4>0. fill \in Seq(Int) /\ d \in Seq(Int)
          BY <1>4, <1>7
        <4>1. \A i \in 1..(Len(fill) + Len(d)) :
                (fill \o d)[i] = IF i <= Len(fill) THEN fill[i] ELSE d[i - Len(fill)]
          BY <4>0, ConcatProperties
        <4> SUFFICES ASSUME NEW i \in 1..(Len(fill) + Len(d)) PROVE (fill \o d)[i] \in 0..15
          BY <3>3
        <4>2. CASE i <= Len(fill)
          <5>1. i \in 1..Len(fill) /\ Len(fill) \in Nat
            BY <1>6, <1>7, <4>2
          <5> QED BY <1>7, <3>1, <4>1, <4>2, <5>1
        <4>3. CASE ~(i <= Len(fill))
          <5>0. Len(fill) \in Nat /\ Len(d) \in Nat
            BY <4>0, LenProperties
          <5>1. i - Len(fill) \in 1..Len(d)
            BY <4>3, <5>0
          <5> QED BY <1>4, <4>1, <4>3, <5>1
        <4> QED BY <4>2, <4>3
      <3>5. Len(sign) > 0 => sign[Len(sign)] \notin 0..15
        BY <1>5, <1>6
      <3>6. Len(fill \o d) > 0
        <4>1. Len(fill \o d) = Len(fill) + Len(d)
          BY <3>3
        <4>2. Len(d) \in Nat \ {0}
          BY <1>4
        <4>3. Len(fill) \in Nat
          BY <1>7, LenProperties
        <4> QED BY <4>1, <4>2, <4>3
      <3>7. Digits(text) = fill \o d
        BY <1>5, <3>2, <3>3, <3>4, <3>5, <3>6, DigitsAfter
      <3>8. Len(fill) = 0 => fill \o d = d
        BY <1>4, <1>7, EmptySeq, ConcatEmptySeq
      <3> QED BY <3>3, <3>7, <3>8
    <2>2. CASE ~zero
      <3>1. c = Blank /\ text = (fill \o sign) \o d
        BY <2>2 DEF c
      <3> HIDE DEF text
      <3>2. /\ fill \o sign \in Seq(Int) /\ Len(fill \o sign) = Len(fill) + Len(sign)
            /\ \A i \in 1..(Len(fill) + Len(sign)) :
                 (fill \o sign)[i] = IF i <= Len(fill) THEN fill[i] ELSE sign[i - Len(fill)]
        BY <1>5, <1>7, ConcatProperties
      <3>3. Len(fill \o sign) > 0 => (fill \o sign)[Len(fill \o sign)] \notin 0..15
        <4> SUFFICES ASSUME Len(fill) + Len(sign) > 0
                     PROVE  (fill \o sign)[Len(fill) + Len(sign)] \notin 0..15
          BY <3>2
        <4>1. Len(fill) \in Nat /\ Len(sign) \in {0, 1}
          BY <1>5, <1>6, <1>7
        <4>2. CASE Len(sign) = 1
          <5>1. Len(fill) + 1 \in 1..(Len(fill) + Len(sign)) /\ ~(Len(fill) + 1 <= Len(fill))
                /\ (Len(fill) + 1) - Len(fill) = 1
            BY <4>1, <4>2
          <5>2. (fill \o sign)[Len(fill) + 1] = sign[1]
            BY <3>2, <5>1
          <5>3. sign[1] = Minus
            <6>1. 1 \in 1..Len(sign)
              BY <4>2
            <6> QED BY <1>5, <6>1
          <5>4. Len(fill) + Len(sign) = Len(fill) + 1
            BY <4>2
          <5> QED BY <1>6, <5>2, <5>3, <5>4
        <4>3. CASE Len(sign) = 0
          <5>1. Len(fill) + Len(sign) = Len(fill) /\ Len(fill) \in 1..Len(fill)
                /\ Len(fill) \in 1..(Len(fill) + Len(sign))
            BY <4>1, <4>3
          <5>2. (fill \o sign)[Len(fill)] = fill[Len(fill)]
            BY <3>2, <5>1
          <5> QED BY <1>6, <1>7, <3>1, <5>1, <5>2
        <4> QED BY <4>1, <4>2, <4>3
      <3>4. Digits(text) = d
        <4> DEFINE p == fill \o sign
        <4>1. p \in Seq(Int)
          BY <3>2
        <4>2. Len(p) > 0 => p[Len(p)] \notin 0..15
          BY <3>3
        <4>3. text = p \o d
          BY <3>1
        <4>4. d \in Seq(Int) /\ Len(d) > 0 /\ \A i \in 1..Len(d) : d[i] \in 0..15
          BY <1>4
        <4> HIDE DEF p
        <4> QED BY <4>1, <4>2, <4>3, <4>4, DigitsAfter
      <3> QED BY <1>4, <3>4
    <2> QED BY <2>1, <2>2
  <1>11. Value(Digits(text), b) = m
    BY <1>2, <1>3, <1>10, Spells
  <1>12. Len(text) >= width /\ (Len(text) > width => Len(fill) = 0)
    <2>1. count = (width - Len(d)) - Len(sign) /\ Len(fill) = (IF count > 0 THEN count ELSE 0)
      BY <1>7 DEF count
    <2>2. Len(text) = (Len(sign) + Len(fill)) + Len(d)
      BY <1>9
    <2>3. Len(d) \in Nat /\ Len(sign) \in {0, 1}
      BY <1>4, <1>5
    <2> DEFINE s == Len(sign)
               k == Len(d)
               f == Len(fill)
               l == Len(text)
    <2> HIDE DEF s, k, f, l
    <2>4. count = (width - k) - s /\ f = (IF count > 0 THEN count ELSE 0) /\ l = (s + f) + k
          /\ k \in Nat /\ s \in {0, 1}
      BY <2>1, <2>2, <2>3 DEF s, k, f, l
    <2>5. l >= width /\ (l > width => f = 0)
      BY <2>4
    <2> QED BY <2>5 DEF f, l
  <1> HIDE DEF text
  <1>13. Len(text) > width /\ Digits(text)[1] = 0 => v = 0
    BY <1>3, <1>4, <1>10, <1>12
  <1>14. v = (IF Contains(text, Minus) THEN WordSize - m ELSE m) % WordSize
    <2>1. CASE neg
      BY <1>3, <1>9, <2>1
    <2>2. CASE ~neg
      BY <1>3, <1>9, <2>2
    <2> QED BY <2>1, <2>2
  <1> QED BY <1>1, <1>3, <1>9, <1>11, <1>12, <1>13, <1>14 DEF LogsNumber, b

-----------------------------------------------------------------------------
(* What alt_printf prints. *)

\* A word has no more than HexDigits digits.
LEMMA WordsEnd ==
  ASSUME NEW v \in 0..(WordSize - 1), NEW b \in Nat, b = 16
  PROVE  Quotient(v, b)[HexDigits] = 0
  <1> DEFINE q == Quotient(v, b)
             w == PowerOf16
             P == {n \in Nat : n <= HexDigits => q[n] < w[HexDigits - n]}
  <1>1. HexDigits \in Nat \ {0} /\ WordSize = w[HexDigits] /\ WordSize \in Nat
    BY PrintingAssumption, Words
  <1>2. v \in Nat /\ b \in Nat \ {0}
    BY <1>1
  <1>3. q \in [Nat -> Nat] /\ q[0] = v /\ \A n \in Nat : q[n + 1] = q[n] \div b
    BY ONLY <1>2, Quotients
  <1>4. w \in [Nat -> Nat] /\ w[0] = 1 /\ \A n \in Nat : w[n + 1] = 16 * w[n]
    BY Words
  <1> HIDE DEF q, w
  <1>5. 0 \in P
    BY <1>1, <1>3
  <1>6. \A n \in Nat : n \in P => n + 1 \in P
    <2> SUFFICES ASSUME NEW n \in Nat, n + 1 <= HexDigits, q[n] < w[HexDigits - n]
                 PROVE  q[n + 1] < w[HexDigits - (n + 1)]
      BY <1>1
    <2> DEFINE r == HexDigits - (n + 1)
    <2>1. r \in Nat /\ HexDigits - n = r + 1
      BY <1>1
    <2> HIDE DEF r
    <2>2. w[r] \in Nat /\ w[HexDigits - n] = 16 * w[r]
      BY <1>4, <2>1
    <2>3. q[n] \in Nat /\ q[n + 1] = q[n] \div b
      BY <1>3
    <2>4. q[n] < 16 * w[r]
      BY <2>2
    <2> DEFINE x == q[n]
               y == w[r]
    <2> HIDE DEF x, y
    <2>5. x \in Nat /\ y \in Nat /\ x < 16 * y
      BY <2>2, <2>3, <2>4 DEF x, y
    <2>6. x \div b < y
      BY <2>5
    <2> QED BY <2>3, <2>6 DEF x, y, r
  <1>7. HexDigits \in P
    <2> HIDE DEF P
    <2> QED BY <1>1, <1>5, <1>6, AllNumbers
  <1>8. HexDigits - HexDigits = 0 /\ q[HexDigits] \in Nat
    BY <1>1, <1>3
  <1>9. q[HexDigits] < w[0]
    BY <1>1, <1>7, <1>8
  <1> QED BY <1>4, <1>8, <1>9 DEF q

\* The digits of Hex are those of the number.
LEMMA HexDigitsOf ==
  ASSUME NEW v \in 0..(WordSize - 1), NEW b \in Nat, b = 16
  PROVE  /\ Hex(v) \in Seq(Int) /\ Len(Hex(v)) \in Nat \ {0}
         /\ Ends(Hex(v), v, b) /\ Quotient(v, b)[Len(Hex(v))] = 0
         /\ Hex(v)[1] = 0 => v = 0
  <1>1. v \in Nat /\ HexDigits \in Nat \ {0} /\ b \in Nat \ {0} /\ b >= 2 /\ b \in 2..16
    BY Words, PrintingAssumption
  <1>2. CASE v = 0
    <2>1. Hex(v) = <<0>>
      BY <1>2 DEF Hex
    <2> DEFINE h == Hex(v)
    <2> HIDE DEF h
    <2>2. h \in Seq(Int) /\ Len(h) = 1 /\ h[1] = 0
      BY <2>1 DEF h
    <2>3. /\ Quotient(0, b) \in [Nat -> Nat] /\ Quotient(0, b)[0] = 0
          /\ \A n \in Nat : Quotient(0, b)[n + 1] = Quotient(0, b)[n] \div b
      BY <1>1, Quotients
    <2>4. \A j \in Nat : Quotient(0, b)[0 + j] = 0 /\ Digit(0, b, 0 + j) = 0
      <3>1. Quotient(0, b)[0] = 0 /\ 0 \in Nat
        BY <2>3
      <3> QED BY <1>1, <3>1, ZerosOn
    <2>5. Digit(0, b, 0) = 0 /\ Quotient(0, b)[1] = 0
      <3>1. 0 + 0 = 0 /\ 0 + 1 = 1 /\ 0 \in Nat /\ 1 \in Nat
        OBVIOUS
      <3> QED BY <2>4, <3>1
    <2>6. \A i \in 1..Len(h) : i = 1 /\ Len(h) - i = 0
      BY <2>2
    <2>7. Ends(h, 0, b)
      BY <2>2, <2>5, <2>6 DEF Ends
    <2>8. Ends(h, v, b) /\ Quotient(v, b)[Len(h)] = 0
      <3>1. Len(h) = 1
        BY <2>2
      <3>2. Quotient(0, b)[Len(h)] = 0
        BY ONLY <2>5, <3>1
      <3> QED BY ONLY <1>2, <2>7, <3>2
    <2>9. Len(h) \in Nat \ {0}
      BY <2>2
    <2> QED BY <1>2, <2>2, <2>8, <2>9 DEF h
  <1>3. CASE v # 0
    <2> DEFINE k == DigitCount(v, 16)
               First(p) == Digit(v, 16, p) # 0
                           /\ \A q \in (p + 1)..(HexDigits - 1) : Digit(v, 16, q) = 0
               first == CHOOSE p \in 0..(HexDigits - 1) : First(p)
    <2>1. k \in Nat \ {0} /\ Quotient(v, b)[k] = 0 /\ Digit(v, b, k - 1) # 0
      BY <1>1, <1>3, DigitsCounted
    <2>2. DigitsOf(v, 16) = [i \in 1..k |-> Digit(v, 16, k - i)]
      BY DEF DigitsOf
    <2>3. Hex(v) = [i \in 1..(first + 1) |-> Digit(v, 16, (first + 1) - i)]
      BY <1>3 DEF Hex
    <2> HIDE DEF k
    <2>4. \A j \in Nat : Digit(v, b, k + j) = 0
      <3>1. v \in Nat /\ b \in Nat /\ b >= 2 /\ k \in Nat /\ Quotient(v, b)[k] = 0
        BY <1>1, <2>1
      <3> QED BY ONLY <3>1, ZerosOn
    <2>5. \A j \in Nat : Digit(v, b, HexDigits + j) = 0
      <3>1. Quotient(v, b)[HexDigits] = 0
        BY WordsEnd
      <3> QED BY ONLY <1>1, <3>1, ZerosOn
    <2>6. k - 1 \in 0..(HexDigits - 1)
      <3> SUFFICES ASSUME k - 1 >= HexDigits PROVE FALSE
        BY <1>1, <2>1
      <3>1. (k - 1) - HexDigits \in Nat /\ HexDigits + ((k - 1) - HexDigits) = k - 1
        BY <1>1, <2>1
      <3>2. Digit(v, b, HexDigits + ((k - 1) - HexDigits)) = 0
        BY <2>5, <3>1
      <3> QED BY <2>1, <3>1, <3>2
    <2>7. ASSUME NEW q \in Int, q >= k PROVE Digit(v, b, q) = 0
      <3>1. q - k \in Nat /\ k + (q - k) = q
        BY <2>1, <2>7
      <3>2. Digit(v, b, k + (q - k)) = 0
        BY <2>4, <3>1
      <3> QED BY <3>1, <3>2
    <2>8. First(k - 1)
      <3>1. \A q \in ((k - 1) + 1)..(HexDigits - 1) : q \in Int /\ q >= k
        BY <2>1
      <3> QED BY <2>1, <2>7, <3>1
    <2>9. ASSUME NEW p \in 0..(HexDigits - 1), First(p) PROVE p = k - 1
      <3>1. ~(p >= k)
        BY <2>7, <2>9
      <3>2. ~(p < k - 1)
        <4> SUFFICES ASSUME p < k - 1 PROVE FALSE
          OBVIOUS
        <4>1. k - 1 \in (p + 1)..(HexDigits - 1)
          BY <2>6
        <4> QED BY <2>1, <2>9, <4>1
      <3> QED BY <2>1, <3>1, <3>2
    <2> HIDE DEF First
    <2>10. first = k - 1
      BY <2>6, <2>8, <2>9
    <2> HIDE DEF first
    <2>11. first + 1 = k
      BY <2>1, <2>10
    <2> DEFINE n == first + 1
    <2>14. Hex(v) = [i \in 1..n |-> Digit(v, 16, n - i)]
      BY <2>3
    <2>15. n = k
      BY <2>11
    <2> HIDE DEF n
    <2>12. Hex(v) = DigitsOf(v, 16)
      BY <2>2, <2>14, <2>15
    <2>13. Hex(v) = DigitsOf(v, b)
      BY <2>12
    <2> QED BY <1>1, <2>13, DigitsOfNumber
  <1> QED BY <1>2, <1>3

\* What is flattened is appended piece by piece.
LEMMA Flattened ==
  ASSUME NEW s \in Seq(Seq(Int))
  PROVE  \E g \in [0..Len(s) -> Seq(Int)] :
           /\ g[0] = <<>> /\ \A n \in 1..Len(s) : g[n] = g[n - 1] \o s[n]
           /\ FlattenSeq(s) = g[Len(s)]
  <1> DEFINE N == Len(s)
             f == [n \in 1..N |-> [x \in Seq(Int) |-> x \o s[n]]]
             Solves(g) == g = [n \in 1..N |-> IF n = 1 THEN s[n] ELSE g[n - 1] \o s[n]]
             flat == CHOOSE g : Solves(g)
  <1>1. N \in Nat /\ \A n \in 1..N : s[n] \in Seq(Int)
    BY LenProperties, ElementOfSeq
  <1>2. f \in [1..N -> [Seq(Int) -> Seq(Int)]] /\ <<>> \in Seq(Int)
    <2>1. \A n \in 1..N, x \in Seq(Int) : x \o s[n] \in Seq(Int)
      BY <1>1, ConcatProperties
    <2>2. <<>> \in Seq(Int)
      BY EmptySeq
    <2> QED BY <2>1, <2>2
  <1>3. PICK g \in [0..N -> Seq(Int)] : Follows(g, <<>>, f, N)
    <2> HIDE DEF f, N
    <2> QED BY <1>1, <1>2, IteratesTo
  <1>4. g[0] = <<>> /\ \A n \in 1..N : g[n] = g[n - 1] \o s[n]
    <2> HIDE DEF N
    <2>1. \A n \in 1..N : n - 1 \in 0..N
      BY <1>1
    <2>2. \A n \in 1..N : g[n - 1] \in Seq(Int)
      BY <2>1
    <2>3. \A n \in 1..N : f[n][g[n - 1]] = g[n - 1] \o s[n]
      BY <2>2
    <2> HIDE DEF f
    <2> QED BY <1>3, <2>3 DEF Follows
  <1>5. CASE N = 0
    <2>1. s = <<>>
      BY <1>5, EmptySeq
    <2>2. FlattenSeq(s) = <<>>
      BY <1>5, <2>1 DEF FlattenSeq
    <2> QED BY <1>4, <1>5, <2>2
  <1>6. CASE N # 0
    <2> DEFINE h == [n \in 1..N |-> g[n]]
    <2>1. Solves(h)
      <3>1. 1 \in 1..N => g[1] = s[1]
        <4>1. 1 \in 1..N => g[1] = <<>> \o s[1] /\ s[1] \in Seq(Int)
          <5>1. 1 - 1 = 0
            OBVIOUS
          <5> HIDE DEF N
          <5> QED BY <1>1, <1>4, <5>1
        <4> QED BY <4>1, ConcatEmptySeq
      <3>2. \A n \in 1..N : n # 1 => n - 1 \in 1..N /\ h[n - 1] = g[n - 1]
        BY <1>1
      <3>3. \A n \in 1..N : g[n] = IF n = 1 THEN s[n] ELSE h[n - 1] \o s[n]
        BY <1>4, <3>1, <3>2
      <3> QED BY <3>3
    <2>2. FlattenSeq(s) = flat[N]
      BY <1>6 DEF FlattenSeq
    <2> HIDE DEF Solves, h
    <2>3. Solves(flat)
      BY <2>1
    <2> USE DEF Solves
    <2> HIDE DEF flat
    <2>4. flat = [n \in 1..N |-> IF n = 1 THEN s[n] ELSE flat[n - 1] \o s[n]]
      BY <2>3
    <2> HIDE DEF Solves
    <2> DEFINE P == {i \in Nat : i + 1 <= N => flat[i + 1] = g[i + 1]}
    <2>5. 0 \in P
      <3>1. 1 \in 1..N
        BY <1>1, <1>6
      <3>2. flat[1] = s[1]
        BY <2>4, <3>1
      <3>3. g[1] = <<>> \o s[1] /\ s[1] \in Seq(Int)
        <4>1. 1 - 1 = 0
          OBVIOUS
        <4> HIDE DEF N
        <4> QED BY <1>1, <1>4, <3>1, <4>1
      <3> QED BY <3>2, <3>3, ConcatEmptySeq
    <2>6. \A i \in Nat : i \in P => i + 1 \in P
      <3> SUFFICES ASSUME NEW i \in Nat, (i + 1) + 1 <= N, flat[i + 1] = g[i + 1]
                   PROVE  flat[(i + 1) + 1] = g[(i + 1) + 1]
        BY <1>1
      <3> DEFINE n == (i + 1) + 1
      <3>1. n \in 1..N /\ n # 1 /\ n - 1 = i + 1
        BY <1>1
      <3> HIDE DEF n
      <3>2. flat[n] = flat[n - 1] \o s[n]
        BY <2>4, <3>1
      <3>3. flat[n] = g[n]
        BY <1>4, <3>1, <3>2
      <3> QED BY <3>3 DEF n
    <2>7. N - 1 \in Nat /\ (N - 1) + 1 = N
      BY <1>1, <1>6
    <2>8. N - 1 \in P
      <3> HIDE DEF P
      <3> QED BY <2>5, <2>6, <2>7, AllNumbers
    <2>9. flat[N] = g[N]
      BY <2>7, <2>8
    <2> QED BY <1>4, <2>2, <2>9
  <1> QED BY <1>5, <1>6

LEMMA FlattenedIn ==
  ASSUME NEW s \in Seq(Seq(Int)), NEW x \in Seq(Int)
  PROVE  /\ FlattenSeq(s) \in Seq(Int)
         /\ Append(s, x) \in Seq(Seq(Int)) /\ FlattenSeq(Append(s, x)) = FlattenSeq(s) \o x
  <1> DEFINE t == Append(s, x)
             N == Len(s)
  <1>1. /\ t \in Seq(Seq(Int)) /\ Len(t) = N + 1 /\ t[N + 1] = x
        /\ \A i \in 1..N : t[i] = s[i]
    BY AppendProperties
  <1>2. N \in Nat
    BY LenProperties
  <1>3. PICK g \in [0..N -> Seq(Int)] :
           /\ g[0] = <<>> /\ \A n \in 1..N : g[n] = g[n - 1] \o s[n]
           /\ FlattenSeq(s) = g[N]
    BY Flattened
  <1> HIDE DEF t
  <1>4. PICK h \in [0..Len(t) -> Seq(Int)] :
           /\ h[0] = <<>> /\ \A n \in 1..Len(t) : h[n] = h[n - 1] \o t[n]
           /\ FlattenSeq(t) = h[Len(t)]
    BY <1>1, Flattened
  <1> HIDE DEF N
  <1> DEFINE P == {n \in Nat : n <= N => h[n] = g[n]}
  <1>5. 0 \in P
    BY <1>3, <1>4
  <1>6. \A n \in Nat : n \in P => n + 1 \in P
    <2> SUFFICES ASSUME NEW n \in Nat, n + 1 <= N, h[n] = g[n] PROVE h[n + 1] = g[n + 1]
      BY <1>2
    <2>1. n + 1 \in 1..N /\ n + 1 \in 1..Len(t) /\ (n + 1) - 1 = n
      BY <1>1, <1>2
    <2> QED BY <1>1, <1>3, <1>4, <2>1
  <1>7. N \in P
    <2> HIDE DEF P
    <2> QED BY <1>2, <1>5, <1>6, AllNumbers
  <1>8. h[N] = g[N]
    BY <1>2, <1>7
  <1>9. Len(t) = N + 1 /\ N + 1 \in 1..Len(t) /\ (N + 1) - 1 = N /\ N \in 0..N
    BY <1>1, <1>2
  <1>10. h[N + 1] = h[N] \o x
    BY <1>1, <1>4, <1>9
  <1>11. FlattenSeq(t) = FlattenSeq(s) \o x
    BY <1>3, <1>4, <1>8, <1>9, <1>10
  <1>12. FlattenSeq(s) \in Seq(Int)
    BY <1>3, <1>9
  <1> QED BY <1>1, <1>11, <1>12 DEF t

\* The pieces of semihosting are the text.
LEMMA PiecesAreAll ==
  ASSUME NEW text \in Seq(Int)
  PROVE  FlattenSeq(Pieces(text)) = text
  <1> DEFINE N == Len(text)
             S == [buf : Seq(Int), pieces : Seq(Seq(Int))]
             a == [buf |-> <<>>, pieces |-> <<>>]
             f == [n \in 1..N |-> [b \in S |-> alt_putcharbuf(b, text[n])]]
             Solves(g) == g = [n \in 0..N |-> IF n = 0 THEN a ELSE alt_putcharbuf(g[n - 1], text[n])]
             after == CHOOSE g : Solves(g)
             All(b) == FlattenSeq(b.pieces) \o b.buf
  <1>1. N \in Nat /\ \A n \in 1..N : text[n] \in Int
    BY LenProperties, ElementOfSeq
  <1>2. ASSUME NEW b \in S
        PROVE  /\ alt_putbufflush(b) \in S /\ FlattenSeq(b.pieces) \in Seq(Int)
               /\ All(alt_putbufflush(b)) = All(b) /\ All(b) \in Seq(Int)
               /\ FlattenSeq(alt_putbufflush(b).pieces) = All(b)
    <2>1. b.buf \in Seq(Int) /\ b.pieces \in Seq(Seq(Int))
      OBVIOUS
    <2> DEFINE p == b.pieces
               q == b.buf
    <2>2. alt_putbufflush(b) = [buf |-> <<>>, pieces |-> Append(p, q)]
      BY DEF alt_putbufflush
    <2> HIDE DEF p, q
    <2>3. p \in Seq(Seq(Int)) /\ q \in Seq(Int) /\ <<>> \in Seq(Int)
      BY <2>1, EmptySeq DEF p, q
    <2>4. /\ FlattenSeq(p) \in Seq(Int) /\ Append(p, q) \in Seq(Seq(Int))
          /\ FlattenSeq(Append(p, q)) = FlattenSeq(p) \o q
      BY <2>3, FlattenedIn
    <2>5. FlattenSeq(p) \o q \in Seq(Int)
      BY <2>3, <2>4, ConcatProperties
    <2>6. (FlattenSeq(p) \o q) \o <<>> = FlattenSeq(p) \o q
      BY <2>5, ConcatEmptySeq
    <2> DEFINE c == alt_putbufflush(b)
    <2>7. c \in S /\ c.buf = <<>> /\ c.pieces = Append(p, q)
      BY <2>2, <2>3, <2>4
    <2> HIDE DEF c
    <2>8. All(c) = FlattenSeq(p) \o q /\ All(b) = FlattenSeq(p) \o q
      BY <2>4, <2>6, <2>7 DEF p, q
    <2> QED BY <2>4, <2>5, <2>7, <2>8 DEF c, p
  <1>3. ASSUME NEW b \in S, NEW c \in Int
        PROVE  alt_putcharbuf(b, c) \in S /\ All(alt_putcharbuf(b, c)) = All(b) \o <<c>>
    <2> DEFINE more == [b EXCEPT !.buf = Append(@, c)]
    <2>1. b.buf \in Seq(Int) /\ b.pieces \in Seq(Seq(Int))
      OBVIOUS
    <2>2. Append(b.buf, c) \in Seq(Int) /\ Append(b.buf, c) = b.buf \o <<c>>
      BY <2>1, AppendProperties, AppendIsConcat
    <2>3. more \in S /\ more.pieces = b.pieces /\ more.buf = b.buf \o <<c>>
      BY <2>1, <2>2
    <2>4. alt_putcharbuf(b, c) = more \/ alt_putcharbuf(b, c) = alt_putbufflush(more)
      BY DEF alt_putcharbuf
    <2> HIDE DEF more
    <2>5. All(more) = All(b) \o <<c>>
      <3>1. FlattenSeq(b.pieces) \in Seq(Int) /\ <<c>> \in Seq(Int)
        <4>1. FlattenSeq(b.pieces) \in Seq(Int)
          BY <2>1, FlattenedIn
        <4>2. <<c>> \in Seq(Int)
          OBVIOUS
        <4> QED BY <4>1, <4>2
      <3>2. FlattenSeq(b.pieces) \o (b.buf \o <<c>>) = (FlattenSeq(b.pieces) \o b.buf) \o <<c>>
        BY <2>1, <3>1, ConcatAssociative
      <3> QED BY <2>3, <3>2
    <2> HIDE DEF All
    <2>6. alt_putbufflush(more) \in S /\ All(alt_putbufflush(more)) = All(more)
      BY <1>2, <2>3
    <2> QED BY <2>3, <2>4, <2>5, <2>6
  <1>4. a \in S /\ All(a) = <<>>
    <2>1. <<>> \in Seq(Int) /\ <<>> \in Seq(Seq(Int))
      BY EmptySeq
    <2>2. FlattenSeq(<<>>) = <<>>
      BY DEF FlattenSeq
    <2>3. <<>> \o <<>> = <<>>
      BY <2>1, ConcatEmptySeq
    <2> QED BY <2>1, <2>2, <2>3
  <1> HIDE DEF S, a, All
  <1>5. f \in [1..N -> [S -> S]]
    BY <1>1, <1>3
  <1>6. PICK g \in [0..N -> S] : Follows(g, a, f, N)
    <2> HIDE DEF f, N
    <2> QED BY <1>1, <1>4, <1>5, IteratesTo
  <1>7. g[0] = a /\ \A n \in 1..N : n - 1 \in 0..N /\ g[n - 1] \in S
                                    /\ g[n] = alt_putcharbuf(g[n - 1], text[n])
    <2>1. \A n \in 1..N : n - 1 \in 0..N /\ g[n - 1] \in S
      BY <1>1
    <2> QED BY <1>6, <2>1 DEF Follows
  <1>8. Solves(g)
    <2>1. \A n \in 0..N : n = 0 \/ n \in 1..N
      BY <1>1
    <2> QED BY <1>7, <2>1
  <1>9. Pieces(text) = alt_putbufflush(after[N]).pieces
    BY DEF Pieces, a
  <1> HIDE DEF Solves
  <1>10. Solves(after)
    BY <1>8
  <1> HIDE DEF after
  <1>11. after = [n \in 0..N |-> IF n = 0 THEN a ELSE alt_putcharbuf(after[n - 1], text[n])]
    BY <1>10 DEF Solves
  <1> HIDE DEF N
  <1> DEFINE P == {n \in Nat : n <= N => after[n] \in S /\ All(after[n]) = SubSeq(text, 1, n)}
  <1>12. 0 \in P
    <2>1. after[0] = a
      BY <1>1, <1>11
    <2>2. SubSeq(text, 1, 0) = <<>>
      BY SubSeqEmpty
    <2> QED BY <1>4, <2>1, <2>2
  <1>13. \A n \in Nat : n \in P => n + 1 \in P
    <2> SUFFICES ASSUME NEW n \in Nat, n + 1 <= N, after[n] \in S, All(after[n]) = SubSeq(text, 1, n)
                 PROVE  after[n + 1] \in S /\ All(after[n + 1]) = SubSeq(text, 1, n + 1)
      BY <1>1
    <2>1. n + 1 \in 1..N /\ n + 1 \in 0..N /\ (n + 1) - 1 = n /\ n + 1 # 0 /\ 1 \in 1..N
      BY <1>1
    <2>2. after[n + 1] = alt_putcharbuf(after[n], text[n + 1])
      BY <1>11, <2>1
    <2>3. after[n + 1] \in S /\ All(after[n + 1]) = SubSeq(text, 1, n) \o <<text[n + 1]>>
      BY <1>1, <1>3, <2>1, <2>2
    <2>4. SubSeq(text, 1, n + 1) = SubSeq(text, 1, n) \o <<text[n + 1]>>
      <3>1. 1 \in 1..Len(text) /\ n + 1 \in 1..Len(text)
        BY <2>1 DEF N
      <3>2. SubSeq(text, 1, n + 1) = SubSeq(text, 1, (n + 1) - 1) \o <<text[n + 1]>>
        BY <3>1, SubSeqRecursiveSecond
      <3> QED BY <2>1, <3>2
    <2> QED BY <2>3, <2>4
  <1>14. N \in P
    <2> HIDE DEF P
    <2> QED BY <1>1, <1>12, <1>13, AllNumbers
  <1>15. after[N] \in S /\ All(after[N]) = SubSeq(text, 1, N)
    BY <1>1, <1>14
  <1>16. FlattenSeq(alt_putbufflush(after[N]).pieces) = SubSeq(text, 1, N)
    BY <1>2, <1>15
  <1>17. SubSeq(text, 1, N) = text
    BY SubSeqFull DEF N
  <1> QED BY <1>9, <1>16, <1>17

\* What alt_printf makes of the format of Framed.
LEMMA Framing ==
  ASSUME NEW v \in Int, Hex(v) \in Seq(Int)
  PROVE  Framed(v) = (<<Minus>> \o Hex(v)) \o (<<Percent>> \o <<Blank>>)
  <1> DEFINE F == <<Literal(Minus), Conversion("x", FALSE, 0), Conversion("%", FALSE, 0),
                    Conversion("q", FALSE, 0), Literal(Blank)>>
             t1 == <<>> \o <<Minus>>
             t2 == t1 \o Hex(v)
             t3 == t2 \o <<Percent>>
             t4 == t3 \o <<>>
             t5 == t4 \o <<Blank>>
             a0 == [text |-> <<>>, args |-> <<v>>]
             g == [n \in 0..5 |->
                     CASE n = 0 -> a0
                       [] n = 1 -> [text |-> t1, args |-> <<v>>]
                       [] n = 2 -> [text |-> t2, args |-> <<>>]
                       [] n = 3 -> [text |-> t3, args |-> <<>>]
                       [] n = 4 -> [text |-> t4, args |-> <<>>]
                       [] n = 5 -> [text |-> t5, args |-> <<>>]]
             Next1(d, item) == [text |-> d.text \o Printed(item, d.args), args |-> Left(item, d.args)]
             Solves(h) == h = [n \in 0..5 |-> IF n = 0 THEN a0 ELSE Next1(h[n - 1], F[n])]
             done == CHOOSE h : Solves(h)
  <1>1. /\ Len(F) = 5
        /\ F[1] = Literal(Minus) /\ F[2] = Conversion("x", FALSE, 0) /\ F[3] = Conversion("%", FALSE, 0)
        /\ F[4] = Conversion("q", FALSE, 0) /\ F[5] = Literal(Blank)
    OBVIOUS
  <1>2. Framed(v) = done[5].text
    <2>1. Framed(v) = alt_printf(F, <<v>>)
      BY DEF Framed
    <2>2. alt_printf(F, <<v>>) = done[5].text
      <3>1. \A h : h = [n \in 0..Len(F) |-> IF n = 0 THEN [text |-> <<>>, args |-> <<v>>]
                         ELSE [text |-> h[n - 1].text \o Printed(F[n], h[n - 1].args),
                               args |-> Left(F[n], h[n - 1].args)]] <=> Solves(h)
        BY <1>1
      <3> HIDE DEF F
      <3> QED BY <1>1, <3>1 DEF alt_printf
    <2> QED BY <2>1, <2>2
  <1> HIDE DEF F
  <1>3. \A args : /\ Printed(F[1], args) = <<Minus>> /\ Left(F[1], args) = args
                  /\ Printed(F[3], args) = <<Percent>> /\ Left(F[3], args) = args
                  /\ Printed(F[4], args) = <<>> /\ Left(F[4], args) = args
                  /\ Printed(F[5], args) = <<Blank>> /\ Left(F[5], args) = args
    BY <1>1 DEF Printed, Left, Literal, Conversion
  <1>4. Printed(F[2], <<v>>) = Hex(v) /\ Left(F[2], <<v>>) = <<>>
    <2>1. Head(<<v>>) = v /\ Tail(<<v>>) = <<>>
      OBVIOUS
    <2> QED BY <1>1, <2>1 DEF Printed, Left, Conversion, Converted
  <1> HIDE DEF t1, t2, t3, t4, t5
  <1>5. /\ g[0] = a0 /\ g[1] = [text |-> t1, args |-> <<v>>]
        /\ g[2] = [text |-> t2, args |-> <<>>] /\ g[3] = [text |-> t3, args |-> <<>>]
        /\ g[4] = [text |-> t4, args |-> <<>>] /\ g[5] = [text |-> t5, args |-> <<>>]
    OBVIOUS
  <1> HIDE DEF g
  <1>6. /\ Next1(g[0], F[1]) = g[1] /\ Next1(g[1], F[2]) = g[2] /\ Next1(g[2], F[3]) = g[3]
        /\ Next1(g[3], F[4]) = g[4] /\ Next1(g[4], F[5]) = g[5]
    <2>1. Next1(g[0], F[1]) = g[1]
      BY <1>3, <1>5 DEF t1
    <2>2. Next1(g[1], F[2]) = g[2]
      <3>1. g[1].text = t1 /\ g[1].args = <<v>>
        BY <1>5
      <3>2. Printed(F[2], <<v>>) = Hex(v) /\ Left(F[2], <<v>>) = <<>>
        BY <1>4
      <3>3. Next1(g[1], F[2]) = [text |-> t1 \o Hex(v), args |-> <<>>]
        BY <3>1, <3>2
      <3>4. t2 = t1 \o Hex(v)
        BY DEF t2
      <3> QED BY <1>5, <3>3, <3>4
    <2>3. Next1(g[2], F[3]) = g[3]
      <3>1. g[2].text = t2 /\ g[2].args = <<>>
        BY <1>5
      <3>2. Printed(F[3], <<>>) = <<Percent>> /\ Left(F[3], <<>>) = <<>>
        BY <1>3
      <3>3. Next1(g[2], F[3]) = [text |-> t2 \o <<Percent>>, args |-> <<>>]
        BY <3>1, <3>2
      <3>4. t3 = t2 \o <<Percent>>
        BY DEF t3
      <3> QED BY <1>5, <3>3, <3>4
    <2>4. Next1(g[3], F[4]) = g[4]
      <3>1. g[3].text = t3 /\ g[3].args = <<>>
        BY <1>5
      <3>2. Printed(F[4], <<>>) = <<>> /\ Left(F[4], <<>>) = <<>>
        BY <1>3
      <3>3. Next1(g[3], F[4]) = [text |-> t3 \o <<>>, args |-> <<>>]
        BY <3>1, <3>2
      <3>4. t4 = t3 \o <<>>
        BY DEF t4
      <3> QED BY <1>5, <3>3, <3>4
    <2>5. Next1(g[4], F[5]) = g[5]
      <3>1. g[4].text = t4 /\ g[4].args = <<>>
        BY <1>5
      <3>2. Printed(F[5], <<>>) = <<Blank>> /\ Left(F[5], <<>>) = <<>>
        BY <1>3
      <3>3. Next1(g[4], F[5]) = [text |-> t4 \o <<Blank>>, args |-> <<>>]
        BY <3>1, <3>2
      <3>4. t5 = t4 \o <<Blank>>
        BY DEF t5
      <3> QED BY <1>5, <3>3, <3>4
    <2> QED BY <2>1, <2>2, <2>3, <2>4, <2>5
  <1> HIDE DEF Next1
  <1>7. Solves(g)
    <2>1. \A n \in 0..5 : n = 0 \/ n = 1 \/ n = 2 \/ n = 3 \/ n = 4 \/ n = 5
      OBVIOUS
    <2>2. \A n \in 0..5 : g[n] = IF n = 0 THEN a0 ELSE Next1(g[n - 1], F[n])
      <3>1. 1 - 1 = 0 /\ 2 - 1 = 1 /\ 3 - 1 = 2 /\ 4 - 1 = 3 /\ 5 - 1 = 4
        OBVIOUS
      <3> HIDE DEF a0
      <3> QED BY <1>5, <1>6, <2>1, <3>1
    <2>3. g = [n \in 0..5 |-> g[n]]
      BY DEF g
    <2> QED BY <2>2, <2>3
  <1> HIDE DEF Solves, a0
  <1>8. Solves(done)
    BY <1>7
  <1> HIDE DEF done
  <1>9. done[0] = a0 /\ \A n \in 1..5 : done[n] = Next1(done[n - 1], F[n])
    <2>1. done = [n \in 0..5 |-> IF n = 0 THEN a0 ELSE Next1(done[n - 1], F[n])]
      BY <1>8 DEF Solves
    <2>2. \A n \in 1..5 : n \in 0..5 /\ n # 0
      OBVIOUS
    <2> QED BY <2>1, <2>2
  <1>10. done[5] = g[5]
    <2>1. /\ 1 \in 1..5 /\ 2 \in 1..5 /\ 3 \in 1..5 /\ 4 \in 1..5 /\ 5 \in 1..5
          /\ 1 - 1 = 0 /\ 2 - 1 = 1 /\ 3 - 1 = 2 /\ 4 - 1 = 3 /\ 5 - 1 = 4
      OBVIOUS
    <2> QED BY <1>5, <1>6, <1>9, <2>1
  <1>11. Framed(v) = t5
    BY <1>2, <1>5, <1>10
  <1>12. t5 = (<<Minus>> \o Hex(v)) \o (<<Percent>> \o <<Blank>>)
    <2>1. <<Minus>> \in Seq(Int) /\ <<Percent>> \in Seq(Int) /\ <<Blank>> \in Seq(Int)
      BY DEF Minus, Percent, Blank
    <2>2. t1 = <<Minus>>
      BY <2>1, ConcatEmptySeq DEF t1
    <2>3. t2 = <<Minus>> \o Hex(v) /\ t2 \in Seq(Int)
      BY <2>1, <2>2, ConcatProperties DEF t2
    <2>4. t3 = t2 \o <<Percent>> /\ t3 \in Seq(Int)
      BY <2>1, <2>3, ConcatProperties DEF t3
    <2>5. t4 = t3
      BY <2>4, ConcatEmptySeq DEF t4
    <2>6. (t2 \o <<Percent>>) \o <<Blank>> = t2 \o (<<Percent>> \o <<Blank>>)
      BY <2>1, <2>3, ConcatAssociative
    <2> QED BY <2>3, <2>4, <2>5, <2>6 DEF t5
  <1> QED BY <1>11, <1>12

\* Numbers are read back from what either function prints.
LEMMA ReadsBackAlways ==
  ASSUME NEW v \in 0..(WordSize - 1), NEW width \in Int
  PROVE  ReadsBack(v, width)
  <1> DEFINE h == Hex(v)
             text == Framed(v)
             l == <<Minus>>
             r == <<Percent>> \o <<Blank>>
  <1>1. v \in Nat
    BY Words
  <1>2. /\ h \in Seq(Int) /\ Len(h) \in Nat \ {0} /\ Value(h, 16) = v
        /\ h[1] = 0 => v = 0
    <2> SUFFICES ASSUME NEW b \in Nat, b = 16
                 PROVE  /\ h \in Seq(Int) /\ Len(h) \in Nat \ {0} /\ Value(h, b) = v
                        /\ h[1] = 0 => v = 0
      OBVIOUS
    <2>1. /\ h \in Seq(Int) /\ Len(h) \in Nat \ {0}
          /\ Ends(h, v, b) /\ Quotient(v, b)[Len(h)] = 0
          /\ h[1] = 0 => v = 0
      BY HexDigitsOf
    <2>2. b \in Nat \ {0}
      OBVIOUS
    <2> HIDE DEF h
    <2> QED BY <1>1, <2>1, <2>2, Spells
  <1>3. text = (l \o h) \o r
    <2>1. v \in Int /\ Hex(v) \in Seq(Int)
      BY <1>1, <1>2
    <2> QED BY <2>1, Framing
  <1>4. l \in Seq(Int) /\ Len(l) = 1 /\ r \in Seq(Int) /\ Len(r) = 2
    <2>1. <<Percent>> \in Seq(Int) /\ <<Blank>> \in Seq(Int) /\ <<Minus>> \in Seq(Int)
          /\ Len(<<Percent>>) = 1 /\ Len(<<Blank>>) = 1 /\ Len(<<Minus>>) = 1
      BY DEF Percent, Blank, Minus
    <2> QED BY <2>1, ConcatProperties
  <1> HIDE DEF h, text, l, r
  <1>5. Joins(text, l, h, r)
    BY <1>2, <1>3, <1>4, ThreeParts
  <1>6. text \in Seq(Int) /\ Len(text) = (1 + Len(h)) + 2 /\ text = l \o (h \o r)
    BY <1>4, <1>5 DEF Joins
  <1>7. SubSeq(text, 2, Len(text) - 2) = h
    <2> DEFINE t == h \o r
    <2>1. t \in Seq(Int) /\ Len(t) = Len(h) + 2
      <3>1. h \in Seq(Int) /\ r \in Seq(Int)
        BY <1>2, <1>4
      <3>2. t \in Seq(Int) /\ Len(t) = Len(h) + Len(r)
        BY <3>1, ConcatProperties
      <3> QED BY <1>4, <3>2
    <2>2. SubSeq(t, 1, Len(h)) = h
      <3>1. 1 \in 1..Len(h) /\ Len(h) \in 1..Len(h)
        BY <1>2
      <3>2. SubSeq(h \o r, 1, Len(h)) = SubSeq(h, 1, Len(h))
        BY <1>2, <1>4, <3>1, SubSeqOfConcat1
      <3> QED BY <1>2, <3>2, SubSeqFull
    <2> HIDE DEF t
    <2>3. text = l \o t
      BY <1>6 DEF t
    <2>4. /\ 2 \in (Len(l) + 1)..(Len(l) + Len(t)) /\ Len(h) + 1 \in (Len(l) + 1)..(Len(l) + Len(t))
          /\ 2 - Len(l) = 1 /\ (Len(h) + 1) - Len(l) = Len(h) /\ Len(text) - 2 = Len(h) + 1
      BY <1>2, <1>4, <1>6, <2>1
    <2>5. SubSeq(l \o t, 2, Len(h) + 1) = SubSeq(t, 2 - Len(l), (Len(h) + 1) - Len(l))
      <3>1. l \in Seq(Int) /\ t \in Seq(Int)
        BY <1>4, <2>1
      <3>2. /\ 2 \in (Len(l) + 1)..(Len(l) + Len(t))
            /\ Len(h) + 1 \in (Len(l) + 1)..(Len(l) + Len(t))
        BY <2>4
      <3> QED BY ONLY <3>1, <3>2, SubSeqOfConcat2
    <2> QED BY <2>2, <2>3, <2>4, <2>5
  <1>8. FlattenSeq(Pieces(text)) = text
    BY <1>6, PiecesAreAll
  <1>9. \A letter \in {"d", "u", "o", "x"}, zero \in BOOLEAN : LogsNumber(letter, zero, width, v)
    BY LogsAnyNumber
  <1> QED BY <1>2, <1>7, <1>8, <1>9 DEF ReadsBack, LogsNumber, text

\* A number of the run is read back from what alt_printf and alt_log_private_printf
\* print of it, with any fillings, and the buffer of semihosting passes all of it on
\* (alt_printf.c 84-113, alt_log_printf.c 208-297, alt_putcharbuf.c 42-79).
THEOREM NumbersAreReadBack == Spec => []NumbersReadBack
  <1>1. Init => ArithInv
    BY ArgumentStays
  <1>2. ArithInv /\ [Next]_vars => ArithInv'
    BY ArgumentStays
  <1>3. ArithInv => NumbersReadBack
    <2> SUFFICES ASSUME ArithInv, unit = "numbers", NEW width \in 0..4
                 PROVE  ReadsBack(arg, width)
      BY DEF NumbersReadBack
    <2>1. arg \in 0..(WordSize - 1) /\ width \in Int
      <3>1. arg \in 0..Arguments /\ Arguments \in Nat /\ Arguments < WordSize /\ WordSize \in Nat
        BY ArgumentsAssumption, Words DEF ArithInv
      <3> QED BY <3>1
    <2> QED BY <2>1, ReadsBackAlways
  <1> QED BY <1>1, <1>2, <1>3, PTL DEF Spec
=============================================================================
