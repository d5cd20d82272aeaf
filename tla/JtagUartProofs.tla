--------------------------- MODULE JtagUartProofs ---------------------------
(***************************************************************************)
(* For every build, every size of the buffers and every host: no byte of   *)
(* the JTAG UART is lost, doubled or reordered between the thread, the     *)
(* interrupt handler and the device, and nobody waits for an interrupt     *)
(* that is turned off.                                                     *)
(***************************************************************************)
EXTENDS JtagUart, SequenceTheorems, TLAPS

-----------------------------------------------------------------------------
(* Indices of a ring buffer. *)

Wrapped(i) == IF i < BUF_LEN THEN i ELSE i - BUF_LEN
Used(out, in) == IF in >= out THEN in - out ELSE in - out + BUF_LEN

LEMMA Sizes == BUF_LEN \in Nat /\ BUF_LEN > 1
  BY SizesAssumption

LEMMA WrappedIndex == \A i \in 0..(2 * BUF_LEN - 1) : Wrapped(i) \in Index
  BY Sizes DEF Wrapped, Index

LEMMA WrappedModulo == ASSUME NEW i \in 0..(2 * BUF_LEN - 1) PROVE i % BUF_LEN = Wrapped(i)
  BY Sizes DEF Wrapped

LEMMA ModuloIndex == ASSUME NEW i \in Nat PROVE i % BUF_LEN \in Index
  BY Sizes DEF Index

LEMMA SuccIndex ==
  \A i \in Index : Succ(i) = Wrapped(i + 1) /\ Succ(i) \in Index /\ Succ(i) # i
  BY Sizes DEF Succ, Wrapped, Index

LEMMA UsedIndex == \A out, in \in Index : Used(out, in) \in Index
  BY Sizes DEF Used, Index

LEMMA UsedSucc ==
  \A out, in \in Index : Succ(in) # out => Used(out, Succ(in)) = Used(out, in) + 1
  <1>1. \A in \in Index : Succ(in) = Wrapped(in + 1)
    BY SuccIndex
  <1> QED BY <1>1, Sizes DEF Used, Wrapped, Index

LEMMA UsedTaken ==
  \A out, in \in Index : out # in => /\ Used(out, in) \in Nat \ {0}
                                    /\ Used(Succ(out), in) = Used(out, in) - 1
  <1>1. \A out \in Index : Succ(out) = Wrapped(out + 1)
    BY SuccIndex
  <1> QED BY <1>1, Sizes DEF Used, Wrapped, Index

LEMMA UsedLess ==
  \A out, in \in Index : \A n \in 1..Used(out, in) :
    /\ out + n \in 0..(2 * BUF_LEN - 1) /\ Wrapped(out + n) \in Index
    /\ Used(Wrapped(out + n), in) = Used(out, in) - n
  BY Sizes DEF Used, Wrapped, Index

LEMMA UsedMore ==
  \A out, in \in Index : \A n \in Nat :
    in + n <= BUF_LEN /\ n + Used(out, in) < BUF_LEN
    => /\ in + n \in 0..(2 * BUF_LEN - 1) /\ Wrapped(in + n) \in Index
       /\ Used(out, Wrapped(in + n)) = Used(out, in) + n
  BY Sizes DEF Used, Wrapped, Index

\* What lies in the buffer, by places.
LEMMA SlotsProperties ==
  ASSUME NEW S, NEW buf \in [Index -> S], NEW out \in Index, NEW in \in Index
  PROVE  /\ Slots(buf, out, in) \in Seq(S)
         /\ Len(Slots(buf, out, in)) = Used(out, in)
         /\ \A k \in 1..Used(out, in) : Slots(buf, out, in)[k] = buf[Wrapped(out + k - 1)]
  <1>1. Used(out, in) \in Index /\ Used(out, in) \in Nat
    BY Sizes, UsedIndex DEF Index
  <1>2. (in - out) % BUF_LEN = Used(out, in)
    BY SizesAssumption DEF Used, Index
  <1>3. ASSUME NEW k \in 1..Used(out, in)
        PROVE  /\ (out + k - 1) % BUF_LEN = Wrapped(out + k - 1)
               /\ buf[Wrapped(out + k - 1)] \in S
    BY <1>1, SizesAssumption DEF Wrapped, Index
  <1>4. [k \in 1..Used(out, in) |-> buf[(out + k - 1) % BUF_LEN]]
          = [k \in 1..Used(out, in) |-> buf[Wrapped(out + k - 1)]]
    BY <1>3
  <1>5. Slots(buf, out, in) = [k \in 1..Used(out, in) |-> buf[Wrapped(out + k - 1)]]
    BY <1>2, <1>4, Zenon DEF Slots
  <1>6. Slots(buf, out, in) \in [1..Used(out, in) -> S]
    BY <1>3, <1>5
  <1>7. Slots(buf, out, in) \in Seq(S)
    BY <1>1, <1>6, SeqDef
  <1>8. Len(Slots(buf, out, in)) = Used(out, in)
    BY <1>1, <1>6, <1>7, LenProperties
  <1> QED BY <1>5, <1>7, <1>8

\* A byte is stored where the next one belongs.
LEMMA SlotsAppend ==
  ASSUME NEW S, NEW buf \in [Index -> S], NEW out \in Index, NEW in \in Index,
         NEW b \in S, Succ(in) # out
  PROVE  Slots([buf EXCEPT ![in] = b], out, Succ(in)) = Append(Slots(buf, out, in), b)
  <1> DEFINE new == [buf EXCEPT ![in] = b]
             s == Slots(buf, out, in)
             t == Slots(new, out, Succ(in))
  <1>1. new \in [Index -> S] /\ Succ(in) \in Index /\ Succ(in) = Wrapped(in + 1)
    BY SuccIndex
  <1>2. Used(out, Succ(in)) = Used(out, in) + 1
    BY UsedSucc
  <1>3. /\ t \in Seq(S) /\ Len(t) = Used(out, in) + 1
        /\ \A k \in 1..(Used(out, in) + 1) : t[k] = new[Wrapped(out + k - 1)]
    <2> HIDE DEF new
    <2>1. /\ t \in Seq(S) /\ Len(t) = Used(out, Succ(in))
          /\ \A k \in 1..Used(out, Succ(in)) : t[k] = new[Wrapped(out + k - 1)]
      BY <1>1, SlotsProperties
    <2> QED BY <1>2, <2>1, Zenon
  <1>4. /\ s \in Seq(S) /\ Len(s) = Used(out, in)
        /\ \A k \in 1..Used(out, in) : s[k] = buf[Wrapped(out + k - 1)]
    BY SlotsProperties
  <1>5. /\ Append(s, b) \in Seq(S) /\ Len(Append(s, b)) = Used(out, in) + 1
        /\ \A k \in 1..Used(out, in) : Append(s, b)[k] = s[k]
        /\ Append(s, b)[Used(out, in) + 1] = b
    BY <1>4, AppendProperties
  <1>6. ASSUME NEW k \in 1..(Used(out, in) + 1)
        PROVE  t[k] = Append(s, b)[k]
    <2>1. Used(out, in) \in Nat
      BY UsedIndex, Sizes DEF Index
    <2>2. CASE k = Used(out, in) + 1
      <3>1. Wrapped(out + k - 1) = in
        BY <2>2, Sizes DEF Used, Wrapped, Index
      <3> QED BY <1>3, <1>5, <2>2, <3>1
    <2>3. CASE k \in 1..Used(out, in)
      <3>1. Wrapped(out + k - 1) # in /\ Wrapped(out + k - 1) \in Index
        BY <2>3, Sizes DEF Used, Wrapped, Index
      <3> QED BY <1>3, <1>4, <1>5, <2>3, <3>1
    <2>4. k = Used(out, in) + 1 \/ k \in 1..Used(out, in)
      BY <2>1
    <2> QED BY <2>2, <2>3, <2>4, Zenon
  <1> HIDE DEF s, t
  <1>7. t = Append(s, b)
    BY <1>3, <1>5, <1>6, SeqEqual
  <1> QED BY <1>7 DEF s, t

\* The oldest byte is taken.
LEMMA SlotsTail ==
  ASSUME NEW S, NEW buf \in [Index -> S], NEW out \in Index, NEW in \in Index, out # in
  PROVE  /\ Slots(buf, out, in) # << >>
         /\ Head(Slots(buf, out, in)) = buf[out]
         /\ Slots(buf, Succ(out), in) = Tail(Slots(buf, out, in))
  <1> DEFINE s == Slots(buf, out, in)
             t == Slots(buf, Succ(out), in)
  <1>1. /\ Succ(out) \in Index /\ Succ(out) = Wrapped(out + 1)
        /\ Used(out, in) \in Nat \ {0}
    BY SuccIndex, UsedTaken
  <1>2. Used(Succ(out), in) = Used(out, in) - 1
    BY UsedTaken
  <1>3. /\ t \in Seq(S) /\ Len(t) = Used(out, in) - 1
        /\ \A k \in 1..(Used(out, in) - 1) : t[k] = buf[Wrapped(Succ(out) + k - 1)]
    <2>1. Succ(out) \in Index
      BY <1>1
    <2>2. /\ t \in Seq(S) /\ Len(t) = Used(Succ(out), in)
          /\ \A k \in 1..Used(Succ(out), in) : t[k] = buf[Wrapped(Succ(out) + k - 1)]
      BY <2>1, SlotsProperties, Zenon
    <2> QED BY <1>2, <2>2, Zenon
  <1>4. /\ s \in Seq(S) /\ Len(s) = Used(out, in)
        /\ \A k \in 1..Used(out, in) : s[k] = buf[Wrapped(out + k - 1)]
    BY SlotsProperties
  <1>5. s # << >>
    BY <1>1, <1>4, EmptySeq
  <1>6. /\ Tail(s) \in Seq(S) /\ Len(Tail(s)) = Used(out, in) - 1
        /\ \A k \in 1..(Used(out, in) - 1) : Tail(s)[k] = s[k + 1]
    BY <1>4, <1>5, HeadTailProperties
  <1>7. ASSUME NEW k \in 1..(Used(out, in) - 1)
        PROVE  t[k] = Tail(s)[k]
    <2>1. Wrapped(Succ(out) + k - 1) = Wrapped(out + (k + 1) - 1)
      BY <1>1, Sizes DEF Used, Wrapped, Index
    <2>2. k + 1 \in 1..Used(out, in)
      BY <1>1
    <2>3. s[k + 1] = buf[Wrapped(out + (k + 1) - 1)]
      BY <1>4, <2>2, Zenon
    <2>4. t[k] = buf[Wrapped(Succ(out) + k - 1)] /\ Tail(s)[k] = s[k + 1]
      BY <1>3, <1>6, Zenon
    <2> QED BY <2>1, <2>3, <2>4, Zenon
  <1>8. s[1] = buf[out]
    <2>1. Wrapped(out + 1 - 1) = out
      BY Sizes DEF Wrapped, Index
    <2> QED BY <1>1, <1>4, <2>1
  <1>9. Head(s) = s[1]
    BY <1>4, <1>5
  <1> HIDE DEF s, t
  <1>10. t = Tail(s)
    BY <1>1, <1>3, <1>6, <1>7, SeqEqual
  <1> QED BY <1>5, <1>8, <1>9, <1>10 DEF s, t

\* The oldest n bytes are released.
LEMMA SlotsDrop ==
  ASSUME NEW S, NEW buf \in [Index -> S], NEW out \in Index, NEW in \in Index,
         NEW n \in 1..Used(out, in)
  PROVE  Slots(buf, Wrapped(out + n), in) = SubSeq(Slots(buf, out, in), n + 1, Used(out, in))
  <1> DEFINE s == Slots(buf, out, in)
             m == Wrapped(out + n)
             t == Slots(buf, m, in)
  <1>1. m \in Index /\ Used(out, in) \in Index /\ Used(out, in) \in Nat
    BY UsedLess, UsedIndex, Sizes DEF Index
  <1>2. Used(m, in) = Used(out, in) - n
    BY UsedLess
  <1>3. /\ t \in Seq(S) /\ Len(t) = Used(out, in) - n
        /\ \A k \in 1..(Used(out, in) - n) : t[k] = buf[Wrapped(m + k - 1)]
    <2> HIDE DEF m
    <2>1. m \in Index
      BY <1>1
    <2>2. /\ t \in Seq(S) /\ Len(t) = Used(m, in)
          /\ \A k \in 1..Used(m, in) : t[k] = buf[Wrapped(m + k - 1)]
      BY <2>1, SlotsProperties, Zenon
    <2> QED BY <1>2, <2>2, Zenon
  <1>4. /\ s \in Seq(S) /\ Len(s) = Used(out, in)
        /\ \A k \in 1..Used(out, in) : s[k] = buf[Wrapped(out + k - 1)]
    BY SlotsProperties
  <1> DEFINE u == SubSeq(s, n + 1, Used(out, in))
  <1>5. /\ u \in Seq(S) /\ Len(u) = Used(out, in) - n
        /\ \A k \in 1..(Used(out, in) - n) : u[k] = s[n + k]
    <2>0. Used(out, in) \in Nat
      BY <1>1
    <2>1. n + 1 \in Int /\ Used(out, in) \in Int /\ \A i \in (n + 1)..Used(out, in) : s[i] \in S
      BY <2>0, <1>4, ElementOfSeq
    <2> HIDE DEF s
    <2>2. /\ u \in Seq(S) /\ Len(u) = IF n + 1 <= Used(out, in) THEN Used(out, in) - (n + 1) + 1 ELSE 0
          /\ \A k \in 1..(Used(out, in) - (n + 1) + 1) : u[k] = s[(n + 1) + k - 1]
      BY <2>1, SubSeqProperties
    <2>3. /\ Used(out, in) - (n + 1) + 1 = Used(out, in) - n
          /\ (IF n + 1 <= Used(out, in) THEN Used(out, in) - n ELSE 0) = Used(out, in) - n
          /\ \A k \in 1..(Used(out, in) - n) : (n + 1) + k - 1 = n + k
      BY <2>0
    <2> QED BY <2>2, <2>3
  <1>6. ASSUME NEW k \in 1..(Used(out, in) - n)
        PROVE  t[k] = u[k]
    <2>1. Wrapped(m + k - 1) = Wrapped(out + (n + k) - 1)
      BY <1>1, Sizes DEF Used, Wrapped, Index
    <2>2. n + k \in 1..Used(out, in)
      BY <1>1 DEF Index
    <2>3. s[n + k] = buf[Wrapped(out + (n + k) - 1)]
      BY <1>4, <2>2
    <2> QED BY <1>3, <1>5, <2>1, <2>3
  <1> HIDE DEF s, t, u
  <1>7. t = u
    BY <1>3, <1>5, <1>6, SeqEqual
  <1> QED BY <1>1, <1>7 DEF s, t, u

\* The places from "in" on hold data.
Holds(buf, in, data) == \A k \in 1..Len(data) : buf[in + k - 1] = data[k]

\* The oldest n bytes, if they lie in one piece.
LEMMA SlotsFirst ==
  ASSUME NEW S, NEW buf \in [Index -> S], NEW out \in Index, NEW in \in Index,
         NEW n \in 1..Used(out, in), out + n <= BUF_LEN,
         NEW t \in Seq(S), Len(t) = n, Holds(buf, out, t)
  PROVE  t = SubSeq(Slots(buf, out, in), 1, n)
  <1> DEFINE s == Slots(buf, out, in)
             u == SubSeq(s, 1, n)
  <1>1. n \in Nat /\ n <= Used(out, in) /\ Used(out, in) \in Index
    BY Sizes, UsedIndex DEF Index
  <1>2. /\ s \in Seq(S) /\ Len(s) = Used(out, in)
        /\ \A k \in 1..Used(out, in) : s[k] = buf[Wrapped(out + k - 1)]
    BY SlotsProperties
  <1>3. \A k \in 1..n : s[k] = buf[out + k - 1] /\ s[k] \in S
    <2> TAKE k \in 1..n
    <2>1. Wrapped(out + k - 1) = out + k - 1 /\ out + k - 1 \in Index
      BY <1>1, Sizes DEF Wrapped, Index
    <2> QED BY <1>1, <1>2, <2>1
  <1>4. \A k \in 1..n : t[k] = buf[out + k - 1]
    BY Zenon DEF Holds
  <1>5. u \in Seq(S) /\ Len(u) = n /\ \A k \in 1..n : u[k] = s[k]
    <2> HIDE DEF s
    <2>1. 1 \in Int /\ n \in Int /\ \A k \in 1..n : s[k] \in S
      BY <1>1, <1>3
    <2>2. /\ u \in Seq(S) /\ Len(u) = IF 1 <= n THEN n - 1 + 1 ELSE 0
          /\ \A k \in 1..(n - 1 + 1) : u[k] = s[1 + k - 1]
      BY <2>1, SubSeqProperties
    <2> QED BY <1>1, <2>2
  <1>6. \A k \in 1..n : t[k] = u[k]
    BY <1>3, <1>4, <1>5
  <1> HIDE DEF s, u
  <1>7. t = u
    BY <1>1, <1>5, <1>6, SeqEqual
  <1> QED BY <1>7 DEF s, u

\* Nothing changes but the n places from "in" on.
Keeps(buf, new, in, n) == \A i \in Index : i \notin in..(in + n - 1) => new[i] = buf[i]

\* What is written behind the bytes does not disturb them.
LEMMA SlotsUndisturbed ==
  ASSUME NEW S, NEW buf \in [Index -> S], NEW new \in [Index -> S],
         NEW out \in Index, NEW in \in Index, NEW n \in Nat,
         in + n <= BUF_LEN, n + Used(out, in) < BUF_LEN,
         Keeps(buf, new, in, n)
  PROVE  Slots(new, out, in) = Slots(buf, out, in)
  <1> DEFINE s == Slots(buf, out, in)
             t == Slots(new, out, in)
  <1>1. /\ t \in Seq(S) /\ Len(t) = Used(out, in)
        /\ \A k \in 1..Used(out, in) : t[k] = new[Wrapped(out + k - 1)]
    BY SlotsProperties
  <1>2. /\ s \in Seq(S) /\ Len(s) = Used(out, in)
        /\ \A k \in 1..Used(out, in) : s[k] = buf[Wrapped(out + k - 1)]
    BY SlotsProperties
  <1>3. ASSUME NEW k \in 1..Used(out, in)
        PROVE  t[k] = s[k]
    <2>1. Wrapped(out + k - 1) \in Index /\ Wrapped(out + k - 1) \notin in..(in + n - 1)
      BY Sizes DEF Used, Wrapped, Index
    <2>2. new[Wrapped(out + k - 1)] = buf[Wrapped(out + k - 1)]
      BY <2>1, Zenon DEF Keeps
    <2> QED BY <1>1, <1>2, <2>2, Zenon
  <1> HIDE DEF s, t
  <1>4. t = s
    BY <1>1, <1>2, <1>3, SeqEqual
  <1> QED BY <1>4 DEF s, t

\* The bytes written behind the others join them when the index moves.
LEMMA SlotsConcat ==
  ASSUME NEW S, NEW buf \in [Index -> S], NEW out \in Index, NEW in \in Index,
         NEW n \in Nat, in + n <= BUF_LEN, n + Used(out, in) < BUF_LEN,
         NEW data \in Seq(S), Len(data) = n,
         Holds(buf, in, data)
  PROVE  Slots(buf, out, Wrapped(in + n)) = Slots(buf, out, in) \o data
  <1> DEFINE s == Slots(buf, out, in)
             m == Wrapped(in + n)
             t == Slots(buf, out, m)
             u == s \o data
  <1>1. m \in Index /\ Used(out, in) \in Index
    BY UsedIndex, UsedMore
  <1>2. Used(out, m) = Used(out, in) + n
    BY UsedMore
  <1>3. /\ t \in Seq(S) /\ Len(t) = Used(out, in) + n
        /\ \A k \in 1..(Used(out, in) + n) : t[k] = buf[Wrapped(out + k - 1)]
    <2> HIDE DEF m
    <2>1. m \in Index
      BY <1>1
    <2>2. /\ t \in Seq(S) /\ Len(t) = Used(out, m)
          /\ \A k \in 1..Used(out, m) : t[k] = buf[Wrapped(out + k - 1)]
      BY <2>1, SlotsProperties, Zenon
    <2> QED BY <1>2, <2>2, Zenon
  <1>4. /\ s \in Seq(S) /\ Len(s) = Used(out, in)
        /\ \A k \in 1..Used(out, in) : s[k] = buf[Wrapped(out + k - 1)]
    BY SlotsProperties
  <1>5. /\ u \in Seq(S) /\ Len(u) = Used(out, in) + n
        /\ \A k \in 1..(Used(out, in) + n) :
             u[k] = IF k <= Used(out, in) THEN s[k] ELSE data[k - Used(out, in)]
    <2> HIDE DEF s
    <2>1. /\ u \in Seq(S) /\ Len(u) = Len(s) + Len(data)
          /\ \A k \in 1..(Len(s) + Len(data)) :
               u[k] = IF k <= Len(s) THEN s[k] ELSE data[k - Len(s)]
      BY <1>4, ConcatProperties
    <2> QED BY <1>4, <2>1, Zenon
  <1> HIDE DEF s, t, u
  <1>6. ASSUME NEW k \in 1..(Used(out, in) + n)
        PROVE  t[k] = u[k]
    <2>0. Used(out, in) \in Nat
      BY <1>1, Sizes DEF Index
    <2>1. CASE k <= Used(out, in)
      <3>1. k \in 1..Used(out, in)
        BY <2>0, <2>1
      <3> QED BY <1>3, <1>4, <1>5, <2>1, <3>1
    <2>2. CASE k > Used(out, in)
      <3>1. k - Used(out, in) \in 1..n
        BY <2>0, <2>2
      <3>2. Wrapped(out + k - 1) = in + (k - Used(out, in)) - 1
        BY <1>1, <2>2, Sizes DEF Used, Wrapped, Index
      <3>3. t[k] = buf[in + (k - Used(out, in)) - 1]
        BY <1>3, <3>2
      <3>4. u[k] = data[k - Used(out, in)]
        <4>1. ~(k <= Used(out, in))
          BY <2>0, <2>2
        <4> QED BY <1>5, <4>1
      <3>5. buf[in + (k - Used(out, in)) - 1] = data[k - Used(out, in)]
        BY <3>1, Zenon DEF Holds
      <3> QED BY <3>3, <3>4, <3>5
    <2> QED BY <2>0, <2>1, <2>2
  <1> HIDE DEF s, t, u
  <1>7. t = u
    BY <1>3, <1>5, <1>6, SeqEqual
  <1> QED BY <1>1, <1>7 DEF s, t, u

-----------------------------------------------------------------------------
(* Sequences: what moves from the head of one to the end of another. *)

LEMMA Single ==
  ASSUME NEW S, NEW e \in S
  PROVE  << e >> \in Seq(S) /\ << e >> \in [1..1 -> S] /\ Len(<< e >>) = 1
  <1>1. << e >> \in Seq(S)
    OBVIOUS
  <1>2. Len(<< e >>) = 1
    OBVIOUS
  <1>3. << e >> \in [1..Len(<< e >>) -> S]
    BY <1>1, LenProperties
  <1> QED BY <1>1, <1>2, <1>3

\* The result of an append behind another sequence.
LEMMA AppendBehind ==
  ASSUME NEW S, NEW s \in Seq(S), NEW t \in Seq(S), NEW e \in S
  PROVE  s \o Append(t, e) = Append(s \o t, e)
  <1>1. << e >> \in Seq(S)
    OBVIOUS
  <1>2. Append(t, e) = t \o << e >>
    BY AppendIsConcat
  <1>3. s \o (t \o << e >>) = (s \o t) \o << e >>
    BY <1>1, ConcatAssociative
  <1>4. s \o t \in Seq(S)
    BY ConcatProperties
  <1>5. Append(s \o t, e) = (s \o t) \o << e >>
    BY <1>4, AppendIsConcat
  <1> QED BY <1>2, <1>3, <1>5

\* A sequence is its head and its tail.
LEMMA HeadAndTail ==
  ASSUME NEW S, NEW t \in Seq(S), t # << >>
  PROVE  Head(t) \in S /\ Tail(t) \in Seq(S) /\ t = << Head(t) >> \o Tail(t)
  <1>1. Len(t) \in Nat \ {0}
    BY EmptySeq
  <1>2. 1 \in 1..Len(t) /\ Len(t) \in 1..Len(t)
    BY <1>1
  <1>3. SubSeq(t, 1, Len(t)) = << t[1] >> \o SubSeq(t, 1 + 1, Len(t))
    BY <1>2, SubSeqRecursiveFirst
  <1>4. SubSeq(t, 1, Len(t)) = t
    BY SubSeqFull
  <1>5. Tail(t) = SubSeq(t, 2, Len(t)) /\ Head(t) = t[1] /\ 1 + 1 = 2
    BY TailIsSubSeq
  <1> QED BY <1>3, <1>4, <1>5, HeadTailProperties

\* The head of one becomes the last of the other: together they hold the same.
LEMMA HeadMoves ==
  ASSUME NEW S, NEW s \in Seq(S), NEW t \in Seq(S), t # << >>
  PROVE  Append(s, Head(t)) \o Tail(t) = s \o t
  <1>1. Head(t) \in S /\ Tail(t) \in Seq(S) /\ t = << Head(t) >> \o Tail(t)
    BY HeadAndTail
  <1>2. << Head(t) >> \in Seq(S)
    BY <1>1
  <1>3. (s \o << Head(t) >>) \o Tail(t) = s \o (<< Head(t) >> \o Tail(t))
    BY <1>1, <1>2, ConcatAssociative
  <1>4. Append(s, Head(t)) = s \o << Head(t) >>
    BY <1>1, AppendIsConcat
  <1> QED BY <1>1, <1>3, <1>4

\* What is left of a sequence behind its first n elements.
Rest(s, n) == SubSeq(s, n + 1, Len(s))

LEMMA RestProperties ==
  ASSUME NEW S, NEW s \in Seq(S), NEW n \in 0..Len(s)
  PROVE  /\ Rest(s, n) \in Seq(S) /\ Len(Rest(s, n)) = Len(s) - n
         /\ \A i \in 1..(Len(s) - n) : Rest(s, n)[i] = s[n + i]
  <1>1. Len(s) \in Nat /\ n + 1 \in Int /\ Len(s) \in Int
    BY LenProperties
  <1>2. \A i \in (n + 1)..Len(s) : s[i] \in S
    BY <1>1, ElementOfSeq
  <1>3. /\ Rest(s, n) \in Seq(S)
        /\ Len(Rest(s, n)) = IF n + 1 <= Len(s) THEN Len(s) - (n + 1) + 1 ELSE 0
        /\ \A i \in 1..(Len(s) - (n + 1) + 1) : Rest(s, n)[i] = s[(n + 1) + i - 1]
    BY <1>1, <1>2, SubSeqProperties DEF Rest
  <1> QED BY <1>1, <1>3

LEMMA RestOfNone == ASSUME NEW S, NEW s \in Seq(S) PROVE Rest(s, 0) = s
  BY SubSeqFull DEF Rest

LEMMA RestOfOne ==
  ASSUME NEW S, NEW s \in Seq(S), s # << >> PROVE Rest(s, 1) = Tail(s)
  BY TailIsSubSeq DEF Rest

LEMMA RestOfConcat ==
  ASSUME NEW S, NEW s \in Seq(S), NEW t \in Seq(S), NEW n \in 0..Len(s)
  PROVE  Rest(s \o t, n) = Rest(s, n) \o t
  <1> DEFINE x == Rest(s \o t, n)
             r == Rest(s, n)
             y == r \o t
  <1>1. Len(s) \in Nat /\ Len(t) \in Nat
    BY LenProperties
  <1>2. /\ s \o t \in Seq(S) /\ Len(s \o t) = Len(s) + Len(t)
        /\ \A i \in 1..(Len(s) + Len(t)) :
             (s \o t)[i] = IF i <= Len(s) THEN s[i] ELSE t[i - Len(s)]
    BY ConcatProperties
  <1>3. n \in 0..Len(s \o t)
    BY <1>1, <1>2
  <1>4. /\ x \in Seq(S) /\ Len(x) = Len(s \o t) - n
        /\ \A i \in 1..(Len(s \o t) - n) : x[i] = (s \o t)[n + i]
    BY <1>2, <1>3, RestProperties
  <1>5. /\ r \in Seq(S) /\ Len(r) = Len(s) - n
        /\ \A i \in 1..(Len(s) - n) : r[i] = s[n + i]
    BY RestProperties
  <1> HIDE DEF r, x
  <1>6. /\ y \in Seq(S) /\ Len(y) = Len(r) + Len(t)
        /\ \A i \in 1..(Len(r) + Len(t)) : y[i] = IF i <= Len(r) THEN r[i] ELSE t[i - Len(r)]
    BY <1>5, ConcatProperties
  <1> HIDE DEF y
  <1>7. ASSUME NEW i \in 1..Len(x)
        PROVE  x[i] = y[i]
    <2>1. n + i \in 1..(Len(s) + Len(t)) /\ i \in 1..(Len(r) + Len(t)) /\ i \in 1..(Len(s \o t) - n)
      BY <1>1, <1>2, <1>4, <1>5
    <2>2. x[i] = IF n + i <= Len(s) THEN s[n + i] ELSE t[n + i - Len(s)]
      BY <1>2, <1>4, <2>1
    <2>3. CASE n + i <= Len(s)
      <3>1. i \in 1..(Len(s) - n) /\ i <= Len(r)
        BY <1>1, <1>5, <2>1, <2>3
      <3> QED BY <1>5, <1>6, <2>1, <2>2, <2>3, <3>1
    <2>4. CASE ~(n + i <= Len(s))
      <3>1. ~(i <= Len(r)) /\ n + i - Len(s) = i - Len(r)
        BY <1>1, <1>5, <2>1, <2>4
      <3> QED BY <1>6, <2>1, <2>2, <2>4, <3>1
    <2> QED BY <2>3, <2>4
  <1>8. Len(x) = Len(y)
    BY <1>1, <1>2, <1>4, <1>5, <1>6
  <1>9. x = y
    BY <1>4, <1>6, <1>7, <1>8, SeqEqual
  <1> QED BY <1>9 DEF x, y, r

LEMMA RestOfAppend ==
  ASSUME NEW S, NEW s \in Seq(S), NEW e \in S, NEW n \in 0..Len(s)
  PROVE  Rest(Append(s, e), n) = Append(Rest(s, n), e)
  <1>1. << e >> \in Seq(S)
    OBVIOUS
  <1>2. Append(s, e) = s \o << e >>
    BY AppendIsConcat
  <1>3. Rest(s \o << e >>, n) = Rest(s, n) \o << e >>
    BY <1>1, RestOfConcat
  <1>4. Rest(s, n) \in Seq(S)
    BY RestProperties
  <1>5. Append(Rest(s, n), e) = Rest(s, n) \o << e >>
    BY <1>4, AppendIsConcat
  <1> QED BY <1>2, <1>3, <1>5

\* The oldest element leaves the first of two sequences.
LEMMA TailOfConcat ==
  ASSUME NEW S, NEW s \in Seq(S), NEW t \in Seq(S), s # << >>
  PROVE  s \o t # << >> /\ Tail(s \o t) = Tail(s) \o t
  <1>1. Len(s) \in Nat \ {0}
    BY EmptySeq
  <1>2. s \o t \in Seq(S) /\ s \o t # << >>
    BY ConcatProperties, ConcatEqualIffEmpty
  <1>3. Rest(s \o t, 1) = Rest(s, 1) \o t
    BY <1>1, RestOfConcat
  <1> QED BY <1>2, <1>3, RestOfOne

-----------------------------------------------------------------------------
(* The inductive invariant. *)

IsrType == [at : {"out", "loop", "rx", "tx"}, wi : BOOLEAN, space : 0..FIFO_DEPTH,
            ravail : BOOLEAN]
ThreadType == [at : Threads, nonblock : BOOLEAN, left : Nat, done : BOOLEAN, in : Index,
               out : Index, n : 0..BUF_LEN, data : Seq(config.tx), patient : BOOLEAN,
               ret : {"some", "EWOULDBLOCK", "EIO"}]
SmallPlaces == {"sRead", "sFetch", "sPut"}

DeviceTyped ==
  /\ wfifo \in Seq(config.tx) /\ Len(wfifo) <= FIFO_DEPTH
  /\ rfifo \in Seq(config.rx) /\ Len(rfifo) <= FIFO_DEPTH
  /\ pause_irq \in BOOLEAN /\ ac \in BOOLEAN
  /\ irq_enable \subseteq {"RE", "WE"} /\ ien \subseteq {"RE", "WE"}

BuffersTyped ==
  /\ rx_in \in Index /\ rx_out \in Index /\ tx_in \in Index /\ tx_out \in Index
  /\ rx_buf \in [Index -> Byte \union {0}] /\ tx_buf \in [Index -> Byte \union {0}]
  /\ Received \in Seq(config.rx) /\ Written \in Seq(config.tx)

\* Everything has its type, and only bytes the host sent wait for the reader,
\* only bytes of the caller for the host.
Typed ==
  /\ config \in Configs
  /\ DeviceTyped
  /\ BuffersTyped
  /\ host_inactive \in 0..(INT_MAX - 2) /\ timeout \in 2..INT_MAX
  /\ isr \in IsrType
  /\ thread \in ThreadType

\* The small driver leaves the ring buffers and the interrupt alone, and only it polls.
SmallOnly ==
  /\ config.small => /\ isr = Outside /\ rx_in = 0 /\ rx_out = 0 /\ tx_in = 0 /\ tx_out = 0
                     /\ thread.at \in SmallPlaces \union {"idle"}
  /\ thread.at \in SmallPlaces => config.small

\* What the thread copied from the shared state into locals still holds when it
\* uses it, and so does the space the handler counted.
ThreadClaims ==
  /\ thread.at = "rAdvance" =>
       /\ thread.out = rx_out /\ thread.n \in 1..Used(rx_out, rx_in)
       /\ rx_out + thread.n <= BUF_LEN /\ thread.n <= thread.left
  /\ thread.at \in {"wCopy", "wPublish"} =>
       /\ thread.in = tx_in /\ thread.n \in 1..thread.left
       /\ tx_in + thread.n <= BUF_LEN /\ thread.n + Used(tx_out, tx_in) < BUF_LEN
       /\ thread.data \in [1..thread.n -> config.tx]
  /\ thread.at = "wPublish" => \A k \in 1..thread.n : tx_buf[tx_in + k - 1] = thread.data[k]
  /\ thread.at = "sPut" => thread.left >= 1 /\ Len(thread.data) = 1
  /\ thread.at \notin {"wCopy", "wPublish", "sPut"} => thread.data = <<>>

\* A reason for a receive interrupt is a byte that waits.
Reasons == /\ pause_irq => rfifo # <<>>
           /\ isr.at = "rx" => rfifo # <<>> \/ rx_in # rx_out

HandlerClaims == isr.space <= FIFO_DEPTH - Len(wfifo)

IInv == Typed /\ SmallOnly /\ ThreadClaims /\ HandlerClaims /\ Reasons /\ WakeupsArmed

Returns == {"some", "EWOULDBLOCK", "EIO"}

\* A thread that returns keeps nothing of its call.
LEMMA Returned ==
  ASSUME NEW r \in Returns
  PROVE  /\ [Idle EXCEPT !.ret = r] \in ThreadType
         /\ [Idle EXCEPT !.ret = r].at = "idle" /\ [Idle EXCEPT !.ret = r].data = << >>
  <1>1. << >> \in Seq(config.tx)
    BY EmptySeq
  <1>2. 0 \in Index /\ 0 \in 0..BUF_LEN /\ "idle" \in Threads
    BY Sizes DEF Index, Threads
  <1> QED BY <1>1, <1>2 DEF Idle, ThreadType, Returns

LEMMA Results == \A t : Result(t) \in Returns
  BY DEF Result, Returns

\* The bytes of a build are bytes.
LEMMA Bytes == ASSUME IInv PROVE config.rx \subseteq 0..255 /\ config.tx \subseteq 0..255
  BY ConfigsAssumption DEF IInv, Typed

LEMMA ReceivedFrame == UNCHANGED receive => Received' = Received
  BY DEF receive, Received, Slots

LEMMA WrittenFrame == UNCHANGED transmit => Written' = Written
  BY DEF transmit, Written, Slots

\* A step of the thread that leaves the shared state alone.
LEMMA ThreadStep ==
  ASSUME IInv, UNCHANGED <<config, device, irq_enable, receive, transmit, clock, isr>>,
         thread' \in ThreadType, SmallOnly', ThreadClaims', WakeupsArmed'
  PROVE  IInv'
  <1>1. Received' = Received /\ Written' = Written
    BY ReceivedFrame, WrittenFrame
  <1>2. Typed'
    BY <1>1 DEF IInv, Typed, DeviceTyped, BuffersTyped, IsrType, ThreadType, device, receive,
                transmit, clock, Byte
  <1>3. HandlerClaims' /\ Reasons'
    BY DEF IInv, HandlerClaims, Reasons, device, receive
  <1> QED BY <1>2, <1>3 DEF IInv

\* A return leaves the shared state alone and needs the wake-ups only.
LEMMA ReturnStep ==
  ASSUME IInv, UNCHANGED <<config, receive, transmit, isr>>,
         NEW r \in Returns, Return(r)
  PROVE  thread' \in ThreadType /\ SmallOnly' /\ ThreadClaims'
  <1>1. thread' \in ThreadType /\ thread'.at = "idle" /\ thread'.data = << >>
    BY Returned DEF Return
  <1>2. SmallOnly'
    BY <1>1 DEF IInv, SmallOnly, SmallPlaces, receive, transmit
  <1>3. ThreadClaims'
    BY <1>1 DEF ThreadClaims
  <1> QED BY <1>1, <1>2, <1>3
-----------------------------------------------------------------------------
(* Steps of the thread. *)

LEMMA CallStep ==
  ASSUME IInv, NEW place, NEW length \in Nat, NEW nonblock \in BOOLEAN,
         Call(place, length, nonblock),
         \/ config.small /\ place \in SmallPlaces \ {"sPut"}
         \/ ~config.small /\ place \in {"rTake", "wFill", "cDrain"}
  PROVE  IInv'
  <1>1. /\ thread' = [Idle EXCEPT !.at = place, !.left = length, !.nonblock = nonblock,
                                  !.patient = HostSeen]
        /\ UNCHANGED <<config, device, irq_enable, receive, transmit, clock, isr>>
        /\ thread.at = "idle"
    BY DEF Call, At
  <1>2. thread' \in ThreadType /\ thread'.at = place /\ thread'.data = << >>
    <2>1. << >> \in Seq(config.tx) /\ 0 \in Index /\ 0 \in 0..BUF_LEN
      BY EmptySeq, Sizes DEF Index
    <2>2. HostSeen \in BOOLEAN /\ place \in Threads
      BY DEF HostSeen, SmallPlaces, Threads
    <2> QED BY <1>1, <2>1, <2>2 DEF ThreadType, Idle
  <1>3. SmallOnly' /\ ThreadClaims'
    BY <1>1, <1>2 DEF IInv, SmallOnly, ThreadClaims, SmallPlaces, receive, transmit
  <1>4. WakeupsArmed'
    BY <1>1, <1>2 DEF IInv, WakeupsArmed, SmallPlaces, device, receive, transmit
  <1> QED BY <1>1, <1>2, <1>3, <1>4, ThreadStep

LEMMA Called ==
  ASSUME IInv, \/ altera_avalon_jtag_uart_read_fd \/ altera_avalon_jtag_uart_write_fd
               \/ altera_avalon_jtag_uart_close_fd
  PROVE  IInv'
  <1>1. /\ config.small \in BOOLEAN
        /\ \A c \in config.calls : c.length \in Nat /\ c.nonblock \in BOOLEAN
    BY ConfigsAssumption DEF IInv, Typed
  <1>2. CASE altera_avalon_jtag_uart_read_fd
    <2>1. PICK c \in config.calls :
            Call(IF config.small THEN "sRead" ELSE "rTake", c.length, c.nonblock)
      BY <1>2 DEF altera_avalon_jtag_uart_read_fd
    <2> QED BY <1>1, <2>1, CallStep DEF SmallPlaces
  <1>3. CASE altera_avalon_jtag_uart_write_fd
    <2>1. PICK c \in config.calls :
            Call(IF config.small THEN "sFetch" ELSE "wFill", c.length, c.nonblock)
      BY <1>3 DEF altera_avalon_jtag_uart_write_fd
    <2> QED BY <1>1, <2>1, CallStep DEF SmallPlaces
  <1>4. CASE altera_avalon_jtag_uart_close_fd
    <2>1. PICK c \in config.calls : ~config.small /\ Call("cDrain", 0, c.nonblock)
      BY <1>4 DEF altera_avalon_jtag_uart_close_fd
    <2> QED BY <1>1, <2>1, CallStep
  <1> QED BY <1>2, <1>3, <1>4

\* The piece a read copies.
LEMMA TakesAPiece ==
  ASSUME IInv, NEW piece, piece = IF rx_in >= rx_out THEN rx_in - rx_out ELSE BUF_LEN - rx_out,
         NEW n, n = IF piece > thread.left THEN thread.left ELSE piece, n # 0
  PROVE  n \in 1..Used(rx_out, rx_in) /\ rx_out + n <= BUF_LEN /\ n <= thread.left
         /\ n \in 0..BUF_LEN
  <1>1. rx_in \in Index /\ rx_out \in Index /\ thread.left \in Nat
    BY DEF IInv, Typed, BuffersTyped, ThreadType
  <1> QED BY <1>1, Sizes DEF Index, Used

LEMMA ReadTakeStep == ASSUME IInv, ReadTake PROVE IInv'
  <1> DEFINE piece == IF rx_in >= rx_out THEN rx_in - rx_out ELSE BUF_LEN - rx_out
             n == IF piece > thread.left THEN thread.left ELSE piece
  <1>1. /\ UNCHANGED <<config, device, irq_enable, receive, transmit, clock, isr>>
        /\ thread.at = "rTake" /\ thread \in ThreadType /\ rx_in \in Index /\ rx_out \in Index
        /\ thread.data = << >>
    BY DEF ReadTake, At, IInv, Typed, BuffersTyped, ThreadClaims
  <1>2. CASE n = 0
    <2>1. thread' = AfterTaking(thread, rx_in)
      BY <1>2 DEF ReadTake
    <2>2. CASE thread.done
      <3>1. thread' = [thread EXCEPT !.at = "rEnable"]
        BY <2>1, <2>2 DEF AfterTaking
      <3>2. thread' \in ThreadType /\ thread'.at = "rEnable" /\ thread'.data = << >>
            /\ thread'.done
        BY <1>1, <2>2, <3>1 DEF ThreadType, Threads
      <3>3. SmallOnly' /\ ThreadClaims'
        BY <1>1, <3>2 DEF IInv, SmallOnly, ThreadClaims, SmallPlaces, receive, transmit
      <3>4. WakeupsArmed'
        BY <1>1, <2>2, <3>2 DEF IInv, WakeupsArmed, device, receive, transmit
      <3> QED BY <1>1, <3>2, <3>3, <3>4, ThreadStep
    <2>3. CASE ~thread.done /\ thread.nonblock
      <3>1. thread' = [Idle EXCEPT !.ret = "EWOULDBLOCK"] /\ userGot' = << >>
        BY <1>2, <2>1, <2>3 DEF AfterTaking, ReadTake
      <3>2. Return("EWOULDBLOCK") /\ "EWOULDBLOCK" \in Returns
        BY <3>1 DEF Return, Returns
      <3>3. thread' \in ThreadType /\ SmallOnly' /\ ThreadClaims'
        BY <1>1, <3>2, ReturnStep
      <3>4. WakeupsArmed'
        BY <1>1, <2>3 DEF IInv, WakeupsArmed, device, receive, transmit
      <3> QED BY <1>1, <3>3, <3>4, ThreadStep
    <2>4. CASE ~thread.done /\ ~thread.nonblock
      <3>1. thread' = [thread EXCEPT !.at = "rSpin", !.in = rx_in, !.patient = HostSeen]
        BY <2>1, <2>4 DEF AfterTaking
      <3>2. HostSeen \in BOOLEAN
        BY DEF HostSeen
      <3>3. thread' \in ThreadType /\ thread'.at = "rSpin" /\ thread'.data = << >>
        BY <1>1, <3>1, <3>2 DEF ThreadType, Threads
      <3>4. SmallOnly' /\ ThreadClaims'
        BY <1>1, <3>3 DEF IInv, SmallOnly, ThreadClaims, SmallPlaces, receive, transmit
      <3>5. WakeupsArmed'
        BY <1>1, <2>4, <3>3 DEF IInv, WakeupsArmed, device, receive, transmit
      <3> QED BY <1>1, <3>3, <3>4, <3>5, ThreadStep
    <2> QED BY <2>2, <2>3, <2>4
  <1>3. CASE n # 0
    <2>1. /\ n \in 1..Used(rx_out, rx_in) /\ rx_out + n <= BUF_LEN /\ n <= thread.left
          /\ n \in 0..BUF_LEN
      BY <1>3, TakesAPiece
    <2>2. thread' = [thread EXCEPT !.at = "rAdvance", !.out = rx_out, !.n = n]
      BY <1>3 DEF ReadTake
    <2> HIDE DEF n
    <2>3. /\ thread' \in ThreadType /\ thread'.at = "rAdvance" /\ thread'.data = << >>
          /\ thread'.out = rx_out /\ thread'.n = n /\ thread'.left = thread.left
          /\ thread'.done = thread.done
      BY <1>1, <2>1, <2>2 DEF ThreadType, Threads
    <2>4. SmallOnly'
      BY <1>1, <2>3 DEF IInv, SmallOnly, SmallPlaces, receive, transmit
    <2>5. ThreadClaims'
      BY <1>1, <2>1, <2>3 DEF ThreadClaims, receive, transmit, Used
    <2>6. WakeupsArmed'
      BY <1>1, <2>3 DEF IInv, WakeupsArmed, device, receive, transmit
    <2> QED BY <1>1, <2>3, <2>4, <2>5, <2>6, ThreadStep
  <1> QED BY <1>2, <1>3

LEMMA ReadSpinStep == ASSUME IInv, ReadSpin PROVE IInv'
  <1>1. /\ UNCHANGED <<config, device, irq_enable, receive, transmit, clock, isr>>
        /\ thread.at = "rSpin" /\ thread \in ThreadType /\ thread.data = << >>
    BY DEF ReadSpin, At, IInv, Typed, ThreadClaims
  <1>2. CASE thread' = [thread EXCEPT !.at = "rTake", !.in = 0, !.patient = TRUE]
    <2>0. 0 \in Index
      BY Sizes DEF Index
    <2>1. thread' \in ThreadType /\ thread'.at = "rTake" /\ thread'.data = << >>
      BY <1>1, <1>2, <2>0 DEF ThreadType, Threads
    <2>2. SmallOnly' /\ ThreadClaims'
      BY <1>1, <2>1 DEF IInv, SmallOnly, ThreadClaims, SmallPlaces, receive, transmit
    <2>3. WakeupsArmed'
      BY <1>1, <2>1 DEF IInv, WakeupsArmed, device, receive, transmit
    <2> QED BY <1>1, <2>1, <2>2, <2>3, ThreadStep
  <1>3. CASE Return("EIO")
    <2>1. thread' \in ThreadType /\ SmallOnly' /\ ThreadClaims'
      BY <1>1, <1>3, ReturnStep DEF Returns
    <2>2. WakeupsArmed'
      BY <1>1 DEF IInv, WakeupsArmed, device, receive, transmit
    <2> QED BY <1>1, <2>1, <2>2, ThreadStep
  <1> QED BY <1>2, <1>3 DEF ReadSpin

LEMMA ReadEnableStep == ASSUME IInv, ReadEnable PROVE IInv'
  <1>1. /\ UNCHANGED <<config, wfifo, rfifo, pause_irq, ac, receive, transmit, clock, isr>>
        /\ irq_enable' = irq_enable \union {"RE"} /\ ien' = irq_enable \union {"RE"}
        /\ thread.at = "rEnable" /\ Return("some")
    BY DEF ReadEnable, At, EnableOnly
  <1>2. thread' \in ThreadType /\ SmallOnly' /\ ThreadClaims'
    BY <1>1, ReturnStep DEF Returns
  <1>3. Received' = Received /\ Written' = Written
    BY <1>1, ReceivedFrame, WrittenFrame
  <1>4. Typed'
    BY <1>1, <1>2, <1>3 DEF IInv, Typed, DeviceTyped, BuffersTyped, IsrType, ThreadType, receive,
                            transmit, clock, Byte
  <1>5. HandlerClaims' /\ Reasons'
    BY <1>1 DEF IInv, HandlerClaims, Reasons, receive
  <1>6. WakeupsArmed'
    BY <1>1 DEF IInv, WakeupsArmed, receive, transmit
  <1> QED BY <1>2, <1>4, <1>5, <1>6 DEF IInv

\* The room a write finds in one piece.
LEMMA FillsAPiece ==
  ASSUME IInv, NEW piece,
         piece = IF tx_in < tx_out THEN tx_out - 1 - tx_in
                 ELSE IF tx_out > 0 THEN BUF_LEN - tx_in ELSE BUF_LEN - 1 - tx_in,
         NEW n, n = IF piece > thread.left THEN thread.left ELSE piece, n # 0
  PROVE  /\ n \in 1..thread.left /\ n \in 0..BUF_LEN /\ tx_in + n <= BUF_LEN
         /\ n + Used(tx_out, tx_in) < BUF_LEN
  <1>1. tx_in \in Index /\ tx_out \in Index /\ thread.left \in Nat
    BY DEF IInv, Typed, BuffersTyped, ThreadType
  <1> QED BY <1>1, Sizes DEF Index, Used

LEMMA WriteFillStep == ASSUME IInv, WriteFill PROVE IInv'
  <1> DEFINE piece == IF tx_in < tx_out THEN tx_out - 1 - tx_in
                      ELSE IF tx_out > 0 THEN BUF_LEN - tx_in ELSE BUF_LEN - 1 - tx_in
             n == IF piece > thread.left THEN thread.left ELSE piece
  <1>1. /\ UNCHANGED <<config, device, irq_enable, receive, transmit, clock, isr>>
        /\ thread.at = "wFill" /\ thread \in ThreadType /\ tx_in \in Index /\ tx_out \in Index
        /\ thread.data = << >>
    BY DEF WriteFill, At, IInv, Typed, BuffersTyped, ThreadClaims
  <1>2. CASE n = 0
    <2>1. thread' = [thread EXCEPT !.at = "wKick", !.out = tx_out]
      BY <1>2 DEF WriteFill
    <2>2. thread' \in ThreadType /\ thread'.at = "wKick" /\ thread'.data = << >>
      BY <1>1, <2>1 DEF ThreadType, Threads
    <2>3. SmallOnly' /\ ThreadClaims'
      BY <1>1, <2>2 DEF IInv, SmallOnly, ThreadClaims, SmallPlaces, receive, transmit
    <2>4. WakeupsArmed'
      BY <1>1, <2>2 DEF IInv, WakeupsArmed, device, receive, transmit
    <2> QED BY <1>1, <2>2, <2>3, <2>4, ThreadStep
  <1>3. CASE n # 0
    <2>1. /\ n \in 1..thread.left /\ n \in 0..BUF_LEN /\ tx_in + n <= BUF_LEN
          /\ n + Used(tx_out, tx_in) < BUF_LEN
      BY <1>3, FillsAPiece
    <2>2. PICK bytes \in [1..n -> config.tx] :
            thread' = [thread EXCEPT !.at = "wCopy", !.in = tx_in, !.n = n, !.data = bytes]
      BY <1>3 DEF WriteFill
    <2> HIDE DEF n
    <2>3. bytes \in Seq(config.tx)
      BY <2>1, SeqDef
    <2>4. /\ thread' \in ThreadType /\ thread'.at = "wCopy" /\ thread'.data = bytes
          /\ thread'.in = tx_in /\ thread'.n = n /\ thread'.left = thread.left
      BY <1>1, <2>1, <2>2, <2>3 DEF ThreadType, Threads
    <2>5. SmallOnly'
      BY <1>1, <2>4 DEF IInv, SmallOnly, SmallPlaces, receive, transmit
    <2>6. ThreadClaims'
      BY <1>1, <2>1, <2>4 DEF ThreadClaims, transmit, Used
    <2>7. WakeupsArmed'
      BY <1>1, <2>4 DEF IInv, WakeupsArmed, device, receive, transmit
    <2> QED BY <1>1, <2>4, <2>5, <2>6, <2>7, ThreadStep
  <1> QED BY <1>2, <1>3

LEMMA WriteKickStep == ASSUME IInv, WriteKick PROVE IInv'
  <1>1. /\ UNCHANGED <<config, wfifo, rfifo, pause_irq, ac, receive, transmit, clock, isr>>
        /\ irq_enable' = irq_enable \union {"WE"} /\ ien' = irq_enable \union {"WE"}
        /\ thread.at = "wKick" /\ thread \in ThreadType /\ thread.data = << >>
    BY DEF WriteKick, At, EnableOnly, IInv, Typed, ThreadClaims
  <1>2. thread' \in ThreadType /\ SmallOnly' /\ ThreadClaims'
    <2>1. CASE Return(Result(thread))
      BY <1>1, <2>1, Results, ReturnStep
    <2>2. CASE thread' = [thread EXCEPT !.at = "wSpin", !.patient = HostSeen]
      <3>1. HostSeen \in BOOLEAN
        BY DEF HostSeen
      <3>2. thread' \in ThreadType /\ thread'.at = "wSpin" /\ thread'.data = << >>
        BY <1>1, <2>2, <3>1 DEF ThreadType, Threads
      <3> QED BY <1>1, <3>2 DEF IInv, SmallOnly, ThreadClaims, SmallPlaces, receive, transmit
    <2> QED BY <2>1, <2>2 DEF WriteKick
  <1>3. Received' = Received /\ Written' = Written
    BY <1>1, ReceivedFrame, WrittenFrame
  <1>4. Typed'
    BY <1>1, <1>2, <1>3 DEF IInv, Typed, DeviceTyped, BuffersTyped, IsrType, ThreadType, receive,
                            transmit, clock, Byte
  <1>5. HandlerClaims' /\ Reasons'
    BY <1>1 DEF IInv, HandlerClaims, Reasons, receive
  <1>6. WakeupsArmed'
    BY <1>1 DEF IInv, WakeupsArmed, receive, transmit
  <1> QED BY <1>2, <1>4, <1>5, <1>6 DEF IInv

LEMMA WriteSpinStep == ASSUME IInv, WriteSpin PROVE IInv'
  <1>1. /\ UNCHANGED <<config, device, irq_enable, receive, transmit, clock, isr>>
        /\ thread.at = "wSpin" /\ thread \in ThreadType /\ thread.data = << >>
    BY DEF WriteSpin, At, IInv, Typed, ThreadClaims
  <1>2. CASE thread' = [thread EXCEPT !.at = "wFill", !.out = 0, !.patient = TRUE]
    <2>1. 0 \in Index
      BY Sizes DEF Index
    <2>2. thread' \in ThreadType /\ thread'.at = "wFill" /\ thread'.data = << >>
      BY <1>1, <1>2, <2>1 DEF ThreadType, Threads
    <2>3. SmallOnly' /\ ThreadClaims'
      BY <1>1, <2>2 DEF IInv, SmallOnly, ThreadClaims, SmallPlaces, receive, transmit
    <2>4. WakeupsArmed'
      BY <1>1, <2>2 DEF IInv, WakeupsArmed, device, receive, transmit
    <2> QED BY <1>1, <2>2, <2>3, <2>4, ThreadStep
  <1>3. CASE Return(Result(thread))
    <2>1. thread' \in ThreadType /\ SmallOnly' /\ ThreadClaims'
      BY <1>1, <1>3, Results, ReturnStep
    <2>2. WakeupsArmed'
      BY <1>1 DEF IInv, WakeupsArmed, device, receive, transmit
    <2> QED BY <1>1, <2>1, <2>2, ThreadStep
  <1> QED BY <1>2, <1>3 DEF WriteSpin

LEMMA CloseStep == ASSUME IInv, altera_avalon_jtag_uart_close PROVE IInv'
  <1>1. /\ UNCHANGED <<config, device, irq_enable, receive, transmit, clock, isr>>
        /\ thread.at = "cDrain"
    BY DEF altera_avalon_jtag_uart_close, At
  <1>2. PICK r \in Returns : Return(r)
    BY DEF altera_avalon_jtag_uart_close, Returns
  <1>3. thread' \in ThreadType /\ SmallOnly' /\ ThreadClaims'
    BY <1>1, <1>2, ReturnStep
  <1>4. WakeupsArmed'
    BY <1>1 DEF IInv, WakeupsArmed, device, receive, transmit
  <1> QED BY <1>1, <1>3, <1>4, ThreadStep

LEMMA IoctlStep == ASSUME IInv, altera_avalon_jtag_uart_ioctl PROVE IInv'
  <1>1. UNCHANGED <<config, device, irq_enable, receive, transmit, host_inactive, isr, thread>>
    BY DEF altera_avalon_jtag_uart_ioctl
  <1>2. timeout' \in 2..INT_MAX
    BY TimeoutAssumption DEF altera_avalon_jtag_uart_ioctl
  <1>3. Received' = Received /\ Written' = Written
    BY <1>1, ReceivedFrame, WrittenFrame
  <1>4. Typed'
    BY <1>1, <1>2, <1>3 DEF IInv, Typed, DeviceTyped, BuffersTyped, IsrType, ThreadType, device,
                            receive, transmit, Byte
  <1>5. SmallOnly' /\ ThreadClaims' /\ HandlerClaims' /\ Reasons' /\ WakeupsArmed'
    BY <1>1 DEF IInv, SmallOnly, ThreadClaims, HandlerClaims, Reasons, WakeupsArmed, device,
                receive, transmit, Used
  <1> QED BY <1>4, <1>5 DEF IInv

LEMMA SmallFetchStep == ASSUME IInv, SmallFetch PROVE IInv'
  <1>1. /\ UNCHANGED <<config, device, irq_enable, receive, transmit, clock, isr>>
        /\ thread.at = "sFetch" /\ thread \in ThreadType /\ config.small
        /\ tx_in = 0 /\ tx_out = 0
    BY DEF SmallFetch, At, IInv, Typed, SmallOnly, SmallPlaces
  <1>2. WakeupsArmed'
    BY <1>1 DEF IInv, WakeupsArmed, device, receive, transmit
  <1>3. CASE Return("some")
    <2>1. thread' \in ThreadType /\ SmallOnly' /\ ThreadClaims'
      BY <1>1, <1>3, ReturnStep DEF Returns
    <2> QED BY <1>1, <1>2, <2>1, ThreadStep
  <1>4. CASE ~Return("some")
    <2>1. thread.left # 0
      BY <1>4 DEF SmallFetch
    <2>2. PICK b \in config.tx : thread' = [thread EXCEPT !.at = "sPut", !.data = << b >>]
      BY <2>1 DEF SmallFetch
    <2>3. << b >> \in Seq(config.tx) /\ Len(<< b >>) = 1
      BY Single
    <2>4. /\ thread' \in ThreadType /\ thread'.at = "sPut" /\ thread'.data = << b >>
          /\ thread'.left = thread.left
      BY <1>1, <2>2, <2>3 DEF ThreadType, Threads
    <2>5. thread.left >= 1
      BY <1>1, <2>1 DEF ThreadType
    <2>6. SmallOnly'
      BY <1>1, <2>4 DEF IInv, SmallOnly, SmallPlaces, receive, transmit
    <2>7. ThreadClaims'
      BY <1>1, <2>3, <2>4, <2>5 DEF ThreadClaims
    <2> QED BY <1>1, <1>2, <2>4, <2>6, <2>7, ThreadStep
  <1> QED BY <1>3, <1>4
-----------------------------------------------------------------------------
(* Steps that move bytes. *)

Data == Byte \union {0}

LEMMA Moved ==
  ASSUME IInv
  PROVE  /\ Received \in Seq(Data) /\ Len(Received) = Used(rx_out, rx_in)
         /\ Written \in Seq(Data) /\ Len(Written) = Used(tx_out, tx_in)
         /\ Used(rx_out, rx_in) \in Nat /\ Used(tx_out, tx_in) \in Nat
         /\ rfifo \in Seq(Data) /\ wfifo \in Seq(Data)
  <1>1. /\ rx_buf \in [Index -> Data] /\ tx_buf \in [Index -> Data]
        /\ rx_in \in Index /\ rx_out \in Index /\ tx_in \in Index /\ tx_out \in Index
    BY DEF IInv, Typed, BuffersTyped, Data
  <1>2. config.rx \subseteq Data /\ config.tx \subseteq Data
    BY DEF Data, Byte
  <1>3. rfifo \in Seq(config.rx) /\ wfifo \in Seq(config.tx)
    BY DEF IInv, Typed, DeviceTyped
  <1>4. rfifo \in Seq(Data) /\ wfifo \in Seq(Data)
    BY <1>2, <1>3, SeqMonotonic
  <1>5. Received \in Seq(Data) /\ Len(Received) = Used(rx_out, rx_in)
    BY <1>1, SlotsProperties DEF Received
  <1>6. Written \in Seq(Data) /\ Len(Written) = Used(tx_out, tx_in)
    BY <1>1, SlotsProperties DEF Written
  <1>7. Used(rx_out, rx_in) \in Nat /\ Used(tx_out, tx_in) \in Nat
    BY <1>5, <1>6, LenProperties
  <1> QED BY <1>4, <1>5, <1>6, <1>7

\* A read releases the bytes it copied.
LEMMA Releases ==
  ASSUME IInv, ReadAdvance
  PROVE  /\ rx_out' \in Index /\ thread.n \in 0..Len(Received)
         /\ Received' = Rest(Received, thread.n)
  <1>1. /\ rx_buf \in [Index -> Data] /\ rx_in \in Index /\ rx_out \in Index
        /\ thread.n \in 1..Used(rx_out, rx_in) /\ thread.out = rx_out
        /\ rx_out' = (rx_out + thread.n) % BUF_LEN /\ rx_in' = rx_in /\ rx_buf' = rx_buf
    BY DEF IInv, Typed, BuffersTyped, ThreadClaims, ReadAdvance, At, Data
  <1>2. Len(Received) = Used(rx_out, rx_in)
    BY Moved
  <1>3. Slots(rx_buf, Wrapped(rx_out + thread.n), rx_in)
          = SubSeq(Slots(rx_buf, rx_out, rx_in), thread.n + 1, Used(rx_out, rx_in))
    BY <1>1, SlotsDrop, Zenon
  <1>4. Received' = Slots(rx_buf, Wrapped(rx_out + thread.n), rx_in)
    <2>1. (rx_out + thread.n) % BUF_LEN = Wrapped(rx_out + thread.n)
      BY <1>1, UsedLess, WrappedModulo, Zenon
    <2> QED BY <1>1, <2>1, Zenon DEF Received, Slots, Index
  <1>5. Received' = Rest(Received, thread.n)
    BY <1>2, <1>3, <1>4, Zenon DEF Rest, Received
  <1>6. thread.n \in 0..Len(Received)
    BY <1>1, <1>2
  <1>7. rx_out' \in Index
    BY <1>1, Sizes DEF Index, Used
  <1> QED BY <1>5, <1>6, <1>7

LEMMA ReadAdvanceStep == ASSUME IInv, ReadAdvance PROVE IInv'
  <1>1. /\ UNCHANGED <<config, device, irq_enable, rx_in, rx_buf, transmit, clock, isr>>
        /\ thread.at = "rAdvance" /\ thread \in ThreadType /\ thread.data = << >>
        /\ thread.n \in 1..thread.left /\ thread.left \in Nat /\ ~config.small
    BY DEF ReadAdvance, At, IInv, Typed, ThreadClaims, ThreadType, SmallOnly, SmallPlaces
  <1>2. PICK place \in {"rEnable", "rTake"} :
          thread' = [thread EXCEPT !.at = place, !.left = @ - thread.n, !.done = TRUE,
                                   !.out = 0, !.n = 0]
    BY DEF ReadAdvance
  <1>3. /\ thread' \in ThreadType /\ thread'.at = place /\ thread'.data = << >> /\ thread'.done
    <2>1. 0 \in Index /\ 0 \in 0..BUF_LEN /\ thread.left - thread.n \in Nat /\ place \in Threads
      BY <1>1, Sizes DEF Index, Threads
    <2> QED BY <1>1, <1>2, <2>1 DEF ThreadType
  <1>4. Written' = Written
    BY <1>1, WrittenFrame
  <1>5. rx_out' \in Index /\ Received' \in Seq(config.rx)
    <2>1. Received \in Seq(config.rx)
      BY DEF IInv, Typed, BuffersTyped
    <2> QED BY <2>1, Releases, RestProperties
  <1>6. Typed'
    BY <1>1, <1>3, <1>4, <1>5 DEF IInv, Typed, DeviceTyped, BuffersTyped, IsrType, ThreadType,
                                  device, transmit, clock, Byte
  <1>7. SmallOnly' /\ ThreadClaims'
    BY <1>1, <1>2, <1>3 DEF IInv, SmallOnly, SmallPlaces, ThreadClaims
  <1>8. HandlerClaims' /\ Reasons'
    BY <1>1 DEF IInv, HandlerClaims, Reasons, device, ReadAdvance, At
  <1>9. WakeupsArmed'
    BY <1>1, <1>2, <1>3 DEF IInv, WakeupsArmed, device, transmit
  <1> QED BY <1>6, <1>7, <1>8, <1>9 DEF IInv

\* Copying behind the bytes to send leaves them alone.
LEMMA Copies ==
  ASSUME IInv, WriteCopy
  PROVE  /\ tx_buf' \in [Index -> Data] /\ Written' = Written
         /\ \A k \in 1..thread.n : tx_buf'[tx_in + k - 1] = thread.data[k]
  <1>1. /\ tx_buf \in [Index -> Data] /\ tx_in \in Index /\ tx_out \in Index
        /\ thread.in = tx_in /\ thread.n \in 1..thread.left /\ thread.left \in Nat
        /\ tx_in + thread.n <= BUF_LEN /\ thread.n + Used(tx_out, tx_in) < BUF_LEN
        /\ thread.data \in [1..thread.n -> config.tx]
        /\ tx_in' = tx_in /\ tx_out' = tx_out
    BY DEF IInv, Typed, BuffersTyped, ThreadClaims, ThreadType, WriteCopy, At, Data
  <1>2. tx_buf' = [i \in Index |-> IF i \in tx_in..(tx_in + thread.n - 1)
                                   THEN thread.data[i - tx_in + 1] ELSE tx_buf[i]]
    BY <1>1 DEF WriteCopy
  <1>3. tx_buf' \in [Index -> Data]
    <2>1. config.tx \subseteq Data
      BY DEF Data, Byte
    <2>2. \A i \in tx_in..(tx_in + thread.n - 1) : thread.data[i - tx_in + 1] \in config.tx
      <3> TAKE i \in tx_in..(tx_in + thread.n - 1)
      <3>1. i - tx_in + 1 \in 1..thread.n
        BY <1>1 DEF Index
      <3> QED BY <1>1, <3>1
    <2> QED BY <1>1, <1>2, <2>1, <2>2
  <1>4. \A k \in 1..thread.n : tx_buf'[tx_in + k - 1] = thread.data[k]
    <2> TAKE k \in 1..thread.n
    <2>1. /\ tx_in + k - 1 \in Index /\ tx_in + k - 1 \in tx_in..(tx_in + thread.n - 1)
          /\ (tx_in + k - 1) - tx_in + 1 = k
      BY <1>1, Sizes DEF Index
    <2> QED BY <1>2, <2>1
  <1>5. thread.n \in Nat /\ Keeps(tx_buf, tx_buf', tx_in, thread.n)
    BY <1>1, <1>2 DEF Keeps
  <1>6. Slots(tx_buf', tx_out, tx_in) = Slots(tx_buf, tx_out, tx_in)
    BY <1>1, <1>3, <1>5, SlotsUndisturbed, ZenonT(30)
  <1>7. Written' = Written
    BY <1>1, <1>6, Zenon DEF Written, Slots, Index
  <1> QED BY <1>3, <1>4, <1>7

LEMMA WriteCopyStep == ASSUME IInv, WriteCopy PROVE IInv'
  <1>1. /\ UNCHANGED <<config, device, irq_enable, receive, tx_in, tx_out, clock, isr>>
        /\ thread.at = "wCopy" /\ thread \in ThreadType
        /\ thread' = [thread EXCEPT !.at = "wPublish"]
    BY DEF WriteCopy, At, IInv, Typed
  <1>2. /\ thread' \in ThreadType /\ thread'.at = "wPublish" /\ thread'.data = thread.data
        /\ thread'.in = thread.in /\ thread'.n = thread.n /\ thread'.left = thread.left
    BY <1>1 DEF ThreadType, Threads
  <1>3. /\ tx_buf' \in [Index -> Data] /\ Written' = Written
        /\ \A k \in 1..thread.n : tx_buf'[tx_in + k - 1] = thread.data[k]
    BY Copies
  <1>4. Received' = Received
    BY <1>1, ReceivedFrame
  <1>5. Typed'
    BY <1>1, <1>2, <1>3, <1>4 DEF IInv, Typed, DeviceTyped, BuffersTyped, IsrType, ThreadType,
                                  device, receive, clock, Byte, Data
  <1>6. SmallOnly'
    BY <1>1, <1>2 DEF IInv, SmallOnly, SmallPlaces, receive
  <1>7. ThreadClaims'
    BY <1>1, <1>2, <1>3 DEF IInv, ThreadClaims, Used
  <1>8. HandlerClaims' /\ Reasons'
    BY <1>1 DEF IInv, HandlerClaims, Reasons, device, receive
  <1>9. WakeupsArmed'
    BY <1>1, <1>2 DEF IInv, WakeupsArmed, device, receive
  <1> QED BY <1>5, <1>6, <1>7, <1>8, <1>9 DEF IInv

\* The index moves: the bytes the caller gave join those to send.
LEMMA Publishes ==
  ASSUME IInv, WritePublish
  PROVE  /\ tx_in' \in Index /\ thread.data \in Seq(config.tx)
         /\ Written' = Written \o thread.data
  <1>1. /\ tx_buf \in [Index -> Data] /\ tx_in \in Index /\ tx_out \in Index
        /\ thread.in = tx_in /\ thread.n \in 1..thread.left /\ thread.left \in Nat
        /\ tx_in + thread.n <= BUF_LEN /\ thread.n + Used(tx_out, tx_in) < BUF_LEN
        /\ thread.data \in [1..thread.n -> config.tx]
        /\ tx_in' = (tx_in + thread.n) % BUF_LEN /\ tx_out' = tx_out /\ tx_buf' = tx_buf
    BY DEF IInv, Typed, BuffersTyped, ThreadClaims, ThreadType, WritePublish, At, Data
  <1>2. tx_in' \in Index
    <2>1. thread.n \in Nat /\ tx_in \in Index
      BY <1>1
    <2>2. tx_in + thread.n \in Nat
      BY <2>1, Sizes DEF Index
    <2> QED BY <1>1, <2>2, ModuloIndex, Zenon
  <1>3. thread.n \in Nat /\ thread.data \in Seq(config.tx) /\ Len(thread.data) = thread.n
    <2>1. thread.n \in Nat
      BY <1>1
    <2>2. thread.data \in Seq(config.tx)
      BY <1>1, <2>1, SeqDef
    <2>3. DOMAIN thread.data = 1..Len(thread.data) /\ Len(thread.data) \in Nat
      BY <2>2, LenProperties
    <2> QED BY <1>1, <2>1, <2>2, <2>3
  <1>4. thread.data \in Seq(Data)
    <2>1. config.tx \subseteq Data
      BY DEF Data, Byte
    <2> QED BY <1>3, <2>1, SeqMonotonic
  <1>5. Holds(tx_buf, tx_in, thread.data)
    BY <1>3 DEF Holds, IInv, ThreadClaims, WritePublish, At
  <1>6. Slots(tx_buf, tx_out, Wrapped(tx_in + thread.n))
          = Slots(tx_buf, tx_out, tx_in) \o thread.data
    BY <1>1, <1>3, <1>4, <1>5, SlotsConcat
  <1>7. Written' = Slots(tx_buf, tx_out, Wrapped(tx_in + thread.n))
    <2>1. (tx_in + thread.n) % BUF_LEN = Wrapped(tx_in + thread.n)
      BY <1>1, <1>3, UsedMore, WrappedModulo, Zenon
    <2> QED BY <1>1, <2>1, Zenon DEF Written, Slots, Index
  <1> QED BY <1>2, <1>3, <1>6, <1>7, Zenon DEF Written

LEMMA WritePublishStep == ASSUME IInv, WritePublish PROVE IInv'
  <1>1. /\ UNCHANGED <<config, device, irq_enable, receive, tx_out, tx_buf, clock, isr>>
        /\ thread.at = "wPublish" /\ thread \in ThreadType
        /\ thread.n \in 1..thread.left /\ thread.left \in Nat
        /\ thread' = [thread EXCEPT !.at = "wFill", !.left = @ - thread.n, !.done = TRUE,
                                    !.in = 0, !.n = 0, !.data = << >>]
    BY DEF WritePublish, At, IInv, Typed, ThreadType, ThreadClaims
  <1>2. thread' \in ThreadType /\ thread'.at = "wFill" /\ thread'.data = << >>
    <2>1. /\ 0 \in Index /\ 0 \in 0..BUF_LEN /\ thread.left - thread.n \in Nat
          /\ << >> \in Seq(config.tx)
      BY <1>1, Sizes, EmptySeq DEF Index
    <2> QED BY <1>1, <2>1 DEF ThreadType, Threads
  <1>3. tx_in' \in Index /\ Written' \in Seq(config.tx)
    <2>1. Written \in Seq(config.tx)
      BY DEF IInv, Typed, BuffersTyped
    <2> QED BY <2>1, Publishes, ConcatProperties
  <1>4. Received' = Received
    BY <1>1, ReceivedFrame
  <1>5. Typed'
    BY <1>1, <1>2, <1>3, <1>4 DEF IInv, Typed, DeviceTyped, BuffersTyped, IsrType, ThreadType,
                                  device, receive, clock, Byte
  <1>6. SmallOnly' /\ ThreadClaims'
    BY <1>1, <1>2 DEF IInv, SmallOnly, SmallPlaces, ThreadClaims, receive
  <1>7. HandlerClaims' /\ Reasons'
    BY <1>1 DEF IInv, HandlerClaims, Reasons, device, receive
  <1>8. WakeupsArmed'
    BY <1>1, <1>2 DEF IInv, WakeupsArmed, device, receive
  <1> QED BY <1>5, <1>6, <1>7, <1>8 DEF IInv

LEMMA SmallReadStep == ASSUME IInv, SmallRead PROVE IInv'
  <1>1. /\ UNCHANGED <<config, wfifo, ien, ac, irq_enable, receive, transmit, clock, isr>>
        /\ thread.at = "sRead" /\ thread \in ThreadType /\ thread.data = << >> /\ config.small
        /\ tx_in = 0 /\ tx_out = 0 /\ rfifo \in Seq(config.rx) /\ Len(rfifo) <= FIFO_DEPTH
        /\ isr = Outside
    BY DEF SmallRead, At, IInv, Typed, DeviceTyped, ThreadClaims, SmallOnly, SmallPlaces
  <1>2. /\ thread' \in ThreadType /\ SmallOnly' /\ ThreadClaims'
        /\ rfifo' \in Seq(config.rx) /\ Len(rfifo') <= FIFO_DEPTH
        /\ pause_irq' \in BOOLEAN /\ (pause_irq' => rfifo' # << >>)
    <2>1. CASE rfifo # << >> /\ thread.left > 0
      <3>1. /\ rfifo' = Tail(rfifo) /\ pause_irq' = FALSE
            /\ thread' = [thread EXCEPT !.left = @ - 1, !.done = TRUE]
        BY <2>1 DEF SmallRead
      <3>2. thread.left - 1 \in Nat
        BY <1>1, <2>1 DEF ThreadType
      <3>3. thread' \in ThreadType /\ thread'.at = "sRead" /\ thread'.data = << >>
        BY <1>1, <3>1, <3>2 DEF ThreadType
      <3>4. SmallOnly' /\ ThreadClaims'
        BY <1>1, <3>3 DEF IInv, SmallOnly, SmallPlaces, ThreadClaims, receive, transmit
      <3>5. Len(rfifo) \in Nat /\ Len(Tail(rfifo)) = Len(rfifo) - 1 /\ Tail(rfifo) \in Seq(config.rx)
        BY <1>1, <2>1, HeadTailProperties, LenProperties
      <3>6. Len(rfifo') <= FIFO_DEPTH
        BY <1>1, <3>1, <3>5, SizesAssumption
      <3> QED BY <3>1, <3>3, <3>4, <3>5, <3>6
    <2>2. CASE ~(rfifo # << >> /\ thread.left > 0)
      <3>1. /\ Return(Result(thread)) /\ rfifo' = rfifo
            /\ pause_irq' = (pause_irq /\ thread.left = 0)
        BY <2>2 DEF SmallRead
      <3>2. thread' \in ThreadType /\ SmallOnly' /\ ThreadClaims'
        BY <1>1, <3>1, Results, ReturnStep
      <3>3. (pause_irq' => rfifo' # << >>) /\ pause_irq' \in BOOLEAN
        BY <3>1 DEF IInv, Reasons
      <3> QED BY <1>1, <3>1, <3>2, <3>3
    <2> QED BY <2>1, <2>2
  <1>3. Received' = Received /\ Written' = Written
    BY <1>1, ReceivedFrame, WrittenFrame
  <1>4. Typed'
    BY <1>1, <1>2, <1>3 DEF IInv, Typed, DeviceTyped, BuffersTyped, IsrType, ThreadType, receive,
                            transmit, clock, Byte
  <1>5. HandlerClaims' /\ Reasons'
    BY <1>1, <1>2 DEF IInv, HandlerClaims, Reasons, Outside
  <1>6. WakeupsArmed'
    BY <1>1 DEF IInv, WakeupsArmed, receive, transmit
  <1> QED BY <1>2, <1>4, <1>5, <1>6 DEF IInv

LEMMA SmallPutStep == ASSUME IInv, SmallPut PROVE IInv'
  <1>1. /\ UNCHANGED <<config, rfifo, ien, pause_irq, ac, irq_enable, receive, transmit, clock, isr>>
        /\ thread.at = "sPut" /\ thread \in ThreadType /\ config.small /\ thread.left >= 1
        /\ tx_in = 0 /\ tx_out = 0 /\ wfifo \in Seq(config.tx) /\ Len(wfifo) < FIFO_DEPTH
        /\ isr = Outside /\ Len(thread.data) = 1 /\ wfifo' = wfifo \o thread.data
        /\ thread' = [thread EXCEPT !.at = "sFetch", !.left = @ - 1, !.data = << >>]
    BY DEF SmallPut, At, IInv, Typed, DeviceTyped, ThreadClaims, SmallOnly, SmallPlaces
  <1>2. thread' \in ThreadType /\ thread'.at = "sFetch" /\ thread'.data = << >>
    <2>1. thread.left - 1 \in Nat /\ << >> \in Seq(config.tx)
      BY <1>1, EmptySeq DEF ThreadType
    <2> QED BY <1>1, <2>1 DEF ThreadType, Threads
  <1>3. wfifo' \in Seq(config.tx) /\ Len(wfifo') <= FIFO_DEPTH
    <2>1. thread.data \in Seq(config.tx)
      BY <1>1 DEF ThreadType
    <2>2. /\ wfifo \o thread.data \in Seq(config.tx)
          /\ Len(wfifo \o thread.data) = Len(wfifo) + Len(thread.data)
      <3>1. wfifo \in Seq(config.tx)
        BY <1>1
      <3> QED BY <2>1, <3>1, ConcatProperties
    <2>3. Len(wfifo) \in Nat
      BY <1>1, LenProperties
    <2> QED BY <1>1, <2>2, <2>3, SizesAssumption
  <1>4. Received' = Received /\ Written' = Written
    BY <1>1, ReceivedFrame, WrittenFrame
  <1>5. Typed'
    BY <1>1, <1>2, <1>3, <1>4 DEF IInv, Typed, DeviceTyped, BuffersTyped, IsrType, ThreadType,
                                  receive, transmit, clock, Byte
  <1>6. SmallOnly' /\ ThreadClaims'
    BY <1>1, <1>2 DEF IInv, SmallOnly, SmallPlaces, ThreadClaims, receive, transmit
  <1>7. HandlerClaims' /\ Reasons'
    <2>1. Len(wfifo') \in Nat
      BY <1>3, LenProperties
    <2> QED BY <1>1, <1>3, <2>1, SizesAssumption DEF IInv, HandlerClaims, Reasons, receive, Outside
  <1>8. WakeupsArmed'
    BY <1>1 DEF IInv, WakeupsArmed, receive, transmit
  <1> QED BY <1>5, <1>6, <1>7, <1>8 DEF IInv

-----------------------------------------------------------------------------
(* Steps of the host, of the handler and of the alarm. *)

\* What they leave to the thread.
LEMMA ThreadWaits ==
  ASSUME IInv, UNCHANGED <<config, thread, tx_in, tx_buf, rx_out>>,
         Used(tx_out, tx_in)' <= Used(tx_out, tx_in), Used(tx_out, tx_in)' \in Nat,
         Used(rx_out, rx_in)' >= Used(rx_out, rx_in), Used(rx_out, rx_in)' \in Nat
  PROVE  thread' \in ThreadType' /\ ThreadClaims'
  <1>1. /\ Used(tx_out, tx_in) \in Nat /\ Used(rx_out, rx_in) \in Nat
        /\ thread.n \in Nat
    BY Moved, Sizes DEF IInv, Typed, ThreadType
  <1>2. thread' \in ThreadType'
    BY DEF IInv, Typed, ThreadType
  <1>3. thread.at = "rAdvance" => thread.n \in 1..Used(rx_out, rx_in)'
    BY <1>1 DEF IInv, ThreadClaims
  <1>4. thread.at \in {"wCopy", "wPublish"} => thread.n + Used(tx_out, tx_in)' < BUF_LEN
    BY <1>1, Sizes DEF IInv, ThreadClaims
  <1> QED BY <1>2, <1>3, <1>4 DEF IInv, ThreadClaims
\* No place of the ring buffers changes and no index.
LEMMA BuffersFrame ==
  ASSUME IInv, UNCHANGED <<config, receive, transmit, thread>>
  PROVE  /\ Received' = Received /\ Written' = Written /\ BuffersTyped'
         /\ thread' \in ThreadType' /\ ThreadClaims'
  <1>1. Received' = Received /\ Written' = Written
    BY ReceivedFrame, WrittenFrame
  <1>2. BuffersTyped'
    BY <1>1 DEF IInv, Typed, BuffersTyped, receive, transmit, Byte
  <1>3. thread' \in ThreadType' /\ ThreadClaims'
    BY DEF IInv, Typed, ThreadType, ThreadClaims, receive, transmit, Used
  <1> QED BY <1>1, <1>2, <1>3

LEMMA HostSendStep ==
  ASSUME IInv, NEW b \in config.rx, HostSend(b) PROVE IInv'
  <1>1. /\ UNCHANGED <<config, wfifo, ien, pause_irq, irq_enable, receive, transmit, clock, isr, thread>>
        /\ rfifo' = Append(rfifo, b) /\ Len(rfifo) < FIFO_DEPTH /\ ac' = TRUE
        /\ rfifo \in Seq(config.rx)
    BY DEF HostSend, IInv, Typed, DeviceTyped
  <1>2. BuffersTyped' /\ thread' \in ThreadType' /\ ThreadClaims'
    BY <1>1, BuffersFrame
  <1>3. rfifo' \in Seq(config.rx) /\ Len(rfifo') <= FIFO_DEPTH /\ rfifo' # << >>
    <2>1. Append(rfifo, b) \in Seq(config.rx) /\ Append(rfifo, b) # << >>
          /\ Len(Append(rfifo, b)) = Len(rfifo) + 1 /\ Len(rfifo) \in Nat
      BY <1>1, AppendProperties, LenProperties
    <2> QED BY <1>1, <2>1, SizesAssumption
  <1>4. Typed'
    BY <1>1, <1>2, <1>3 DEF IInv, Typed, DeviceTyped, IsrType, clock
  <1>5. SmallOnly' /\ HandlerClaims' /\ Reasons' /\ WakeupsArmed'
    BY <1>1, <1>3 DEF IInv, SmallOnly, HandlerClaims, Reasons, WakeupsArmed, receive, transmit
  <1> QED BY <1>2, <1>4, <1>5 DEF IInv

LEMMA HostPauseStep == ASSUME IInv, HostPause PROVE IInv'
  <1>1. /\ UNCHANGED <<config, wfifo, rfifo, ien, irq_enable, receive, transmit, clock, isr, thread>>
        /\ pause_irq' = (pause_irq \/ rfifo # << >>) /\ ac' = TRUE
    BY DEF HostPause
  <1>2. BuffersTyped' /\ thread' \in ThreadType' /\ ThreadClaims'
    BY <1>1, BuffersFrame
  <1>3. Typed'
    BY <1>1, <1>2 DEF IInv, Typed, DeviceTyped, IsrType, clock
  <1>4. SmallOnly' /\ HandlerClaims' /\ Reasons' /\ WakeupsArmed'
    BY <1>1 DEF IInv, SmallOnly, HandlerClaims, Reasons, WakeupsArmed, receive, transmit
  <1> QED BY <1>2, <1>3, <1>4 DEF IInv

LEMMA HostTakeStep == ASSUME IInv, HostTake PROVE IInv'
  <1>1. /\ UNCHANGED <<config, rfifo, ien, pause_irq, ac, irq_enable, receive, transmit, clock, isr, thread>>
        /\ wfifo' = Tail(wfifo) /\ wfifo # << >> /\ wfifo \in Seq(config.tx)
        /\ Len(wfifo) <= FIFO_DEPTH /\ isr.space \in Nat /\ isr.space <= FIFO_DEPTH - Len(wfifo)
    BY DEF HostTake, IInv, Typed, DeviceTyped, IsrType, HandlerClaims
  <1>2. BuffersTyped' /\ thread' \in ThreadType' /\ ThreadClaims'
    BY <1>1, BuffersFrame
  <1>3. wfifo' \in Seq(config.tx) /\ Len(wfifo') = Len(wfifo) - 1 /\ Len(wfifo) \in Nat
    BY <1>1, HeadTailProperties, LenProperties
  <1>4. Len(wfifo') <= FIFO_DEPTH /\ HandlerClaims'
    BY <1>1, <1>3, SizesAssumption DEF HandlerClaims
  <1>5. Typed'
    BY <1>1, <1>2, <1>3, <1>4 DEF IInv, Typed, DeviceTyped, IsrType, clock
  <1>6. SmallOnly' /\ Reasons' /\ WakeupsArmed'
    BY <1>1 DEF IInv, SmallOnly, Reasons, WakeupsArmed, receive, transmit
  <1> QED BY <1>2, <1>4, <1>5, <1>6 DEF IInv

LEMMA TimeoutStep == ASSUME IInv, altera_avalon_jtag_uart_timeout PROVE IInv'
  <1>1. /\ UNCHANGED <<config, wfifo, rfifo, pause_irq, irq_enable, receive, transmit, timeout, isr, thread>>
        /\ ac' \in BOOLEAN /\ ien' = ien
    BY DEF altera_avalon_jtag_uart_timeout, IInv, Typed, DeviceTyped, WakeupsArmed
  <1>2. host_inactive' \in 0..(INT_MAX - 2)
    BY TimeoutAssumption DEF altera_avalon_jtag_uart_timeout, IInv, Typed
  <1>3. BuffersTyped' /\ thread' \in ThreadType' /\ ThreadClaims'
    BY <1>1, BuffersFrame
  <1>4. Typed'
    BY <1>1, <1>2, <1>3 DEF IInv, Typed, DeviceTyped, IsrType
  <1>5. SmallOnly' /\ HandlerClaims' /\ Reasons' /\ WakeupsArmed'
    BY <1>1 DEF IInv, SmallOnly, HandlerClaims, Reasons, WakeupsArmed, receive, transmit
  <1> QED BY <1>3, <1>4, <1>5 DEF IInv

LEMMA IsrControlStep == ASSUME IInv, IsrControl PROVE IInv'
  <1>1. /\ UNCHANGED <<config, device, irq_enable, receive, transmit, clock, thread>>
        /\ ~config.small /\ wfifo \in Seq(config.tx) /\ Len(wfifo) <= FIFO_DEPTH
        /\ rfifo \in Seq(config.rx)
    BY DEF IsrControl, IInv, Typed, DeviceTyped
  <1>2. BuffersTyped' /\ thread' \in ThreadType' /\ ThreadClaims'
    BY <1>1, BuffersFrame
  <1>3. Len(wfifo) \in Nat /\ Len(rfifo) \in Nat
    BY <1>1, LenProperties
  <1>4. isr' \in IsrType /\ isr'.space <= FIFO_DEPTH - Len(wfifo)
        /\ (isr'.at = "rx" => rfifo # << >>)
    <2>1. CASE ~ipen_AE /\ ~ipen_AF
      <3>1. isr' = Outside
        BY <2>1 DEF IsrControl
      <3> QED BY <1>1, <1>3, <3>1, SizesAssumption DEF Outside, IsrType
    <2>2. CASE ipen_AE \/ ipen_AF
      <3>1. isr' = [at |-> IF ipen_AF THEN "rx" ELSE "tx", wi |-> ipen_AE,
                    space |-> FIFO_DEPTH - Len(wfifo), ravail |-> ipen_AF]
        BY <2>2 DEF IsrControl
      <3>2. ipen_AE \in BOOLEAN /\ ipen_AF \in BOOLEAN
        BY DEF ipen_AE, ipen_AF, IInv, Typed, DeviceTyped
      <3>3. FIFO_DEPTH - Len(wfifo) \in 0..FIFO_DEPTH
        BY <1>1, <1>3, SizesAssumption
      <3>4. ipen_AF => rfifo # << >>
        <4>1. ASSUME rfifo = << >> PROVE ~(FIFO_DEPTH - Len(rfifo) <= THRESHOLD)
          <5>1. Len(rfifo) = 0
            BY <4>1, EmptySeq
          <5> QED BY <5>1, SizesAssumption
        <4> QED BY <4>1 DEF ipen_AF, IInv, Reasons
      <3> QED BY <1>1, <1>3, <3>1, <3>2, <3>3, <3>4, SizesAssumption DEF IsrType
    <2> QED BY <2>1, <2>2
  <1>5. Typed'
    BY <1>1, <1>2, <1>4 DEF IInv, Typed, DeviceTyped, IsrType, device, clock
  <1>6. SmallOnly' /\ HandlerClaims' /\ Reasons' /\ WakeupsArmed'
    BY <1>1, <1>4 DEF IInv, SmallOnly, SmallPlaces, HandlerClaims, Reasons, WakeupsArmed,
                      device, receive, transmit
  <1> QED BY <1>2, <1>5, <1>6 DEF IInv

\* The handler moves a byte from the device to the end of the receive buffer.
LEMMA Receives ==
  ASSUME IInv, IsrReceive
  PROVE  /\ rx_in' \in Index /\ rx_buf' \in [Index -> Data] /\ rx_in' # rx_out
         /\ Used(rx_out, rx_in)' = Used(rx_out, rx_in) + 1
         /\ Head(rfifo) \in config.rx /\ Received' = Append(Received, Head(rfifo))
  <1>1. /\ rx_buf \in [Index -> Data] /\ rx_in \in Index /\ rx_out \in Index
        /\ Succ(rx_in) # rx_out /\ rfifo # << >> /\ rfifo \in Seq(config.rx)
        /\ rx_in' = Succ(rx_in) /\ rx_out' = rx_out
        /\ rx_buf' = [rx_buf EXCEPT ![rx_in] = Head(rfifo)]
    BY DEF IsrReceive, IInv, Typed, DeviceTyped, BuffersTyped, Data
  <1>2. Head(rfifo) \in config.rx /\ Head(rfifo) \in Data
    BY <1>1, HeadTailProperties DEF Data, Byte
  <1> DEFINE new == [rx_buf EXCEPT ![rx_in] = Head(rfifo)]
  <1>3. Slots(new, rx_out, Succ(rx_in)) = Append(Slots(rx_buf, rx_out, rx_in), Head(rfifo))
    BY <1>1, <1>2, SlotsAppend
  <1>4. Received' = Slots(new, rx_out, Succ(rx_in))
    <2>1. rx_buf' = new
      BY <1>1
    <2> HIDE DEF new
    <2> QED BY <1>1, <2>1, Zenon DEF Received, Slots, Index
  <1>5. rx_in' \in Index /\ rx_in' # rx_out
    BY <1>1, SuccIndex, Zenon
  <1>6. Used(rx_out, rx_in)' = Used(rx_out, rx_in) + 1
    <2>1. Used(rx_out, rx_in)' = Used(rx_out, Succ(rx_in))
      BY <1>1, Zenon DEF Used
    <2> QED BY <1>1, <2>1, UsedSucc, Zenon
  <1>7. rx_buf' \in [Index -> Data]
    BY <1>1, <1>2
  <1> QED BY <1>2, <1>3, <1>4, <1>5, <1>6, <1>7, Zenon DEF Received

LEMMA IsrReceiveStep == ASSUME IInv, IsrReceive PROVE IInv'
  <1>1. /\ UNCHANGED <<config, wfifo, ien, ac, irq_enable, rx_out, transmit, clock, thread>>
        /\ isr \in IsrType /\ isr.at = "rx" /\ ~config.small
        /\ isr' = [isr EXCEPT !.ravail = Tail(rfifo) # << >>]
        /\ rfifo' = Tail(rfifo) /\ pause_irq' = FALSE /\ rfifo \in Seq(config.rx)
        /\ Len(rfifo) <= FIFO_DEPTH /\ rfifo # << >>
    BY DEF IsrReceive, IInv, Typed, DeviceTyped, SmallOnly, Outside
  <1>2. /\ rx_in' \in Index /\ rx_buf' \in [Index -> Data] /\ rx_in' # rx_out
        /\ Used(rx_out, rx_in)' = Used(rx_out, rx_in) + 1
        /\ Head(rfifo) \in config.rx /\ Received' = Append(Received, Head(rfifo))
    BY Receives
  <1>3. /\ isr' \in IsrType /\ isr'.at = "rx" /\ isr'.space = isr.space
    BY <1>1 DEF IsrType
  <1>4. rfifo' \in Seq(config.rx) /\ Len(rfifo') <= FIFO_DEPTH
    <2>1. Len(rfifo) \in Nat /\ Len(Tail(rfifo)) = Len(rfifo) - 1 /\ Tail(rfifo) \in Seq(config.rx)
      BY <1>1, HeadTailProperties, LenProperties
    <2> QED BY <1>1, <2>1, SizesAssumption
  <1>5. Written' = Written
    BY <1>1, WrittenFrame
  <1>6. BuffersTyped'
    <2>1. Received' \in Seq(config.rx)
      BY <1>2, AppendProperties DEF IInv, Typed, BuffersTyped
    <2> QED BY <1>1, <1>2, <1>5, <2>1 DEF IInv, Typed, BuffersTyped, transmit, Data, Byte
  <1>7. thread' \in ThreadType' /\ ThreadClaims'
    <2>1. Used(rx_out, rx_in) \in Nat /\ Used(tx_out, tx_in) \in Nat
      BY Moved
    <2>2. Used(tx_out, tx_in)' = Used(tx_out, tx_in)
      BY <1>1 DEF Used, transmit
    <2>3. Used(rx_out, rx_in)' >= Used(rx_out, rx_in) /\ Used(rx_out, rx_in)' \in Nat
      BY <1>2, <2>1
    <2>4. Used(tx_out, tx_in)' <= Used(tx_out, tx_in) /\ Used(tx_out, tx_in)' \in Nat
      BY <2>1, <2>2
    <2> QED BY <1>1, <2>3, <2>4, ThreadWaits DEF transmit
  <1>8. Typed'
    BY <1>1, <1>3, <1>4, <1>6, <1>7 DEF IInv, Typed, DeviceTyped, IsrType, clock
  <1>9. SmallOnly' /\ HandlerClaims' /\ Reasons'
    BY <1>1, <1>2, <1>3 DEF IInv, SmallOnly, HandlerClaims, Reasons
  <1>10. WakeupsArmed'
    BY <1>1, <1>2 DEF IInv, WakeupsArmed, transmit
  <1> QED BY <1>7, <1>8, <1>9, <1>10 DEF IInv

\* The receiving loop ends, with or without a byte that came too late for it.
LEMMA IsrReceivedStep == ASSUME IInv, IsrReceived \/ IsrReceivedLate PROVE IInv'
  <1>1. PICK more \in BOOLEAN :
          /\ StopReceiving(more)
          /\ more => rx_in # rx_out
          /\ pause_irq' \in BOOLEAN /\ ac' \in BOOLEAN
          /\ \/ rfifo' = rfifo /\ pause_irq' = pause_irq
             \/ rfifo' = rfifo /\ pause_irq' = FALSE
             \/ \E b \in config.rx : rfifo' = << b >>
    <2>1. rx_in \in Index /\ pause_irq \in BOOLEAN /\ ac \in BOOLEAN /\ isr.ravail \in BOOLEAN
      BY DEF IInv, Typed, DeviceTyped, BuffersTyped, IsrType
    <2>2. Succ(rx_in) # rx_in
      BY <2>1, SuccIndex, Zenon
    <2>3. CASE Succ(rx_in) = rx_out /\ StopReceiving(isr.ravail) /\ UNCHANGED <<rfifo, pause_irq, ac>>
      BY <2>1, <2>2, <2>3
    <2>4. CASE StopReceiving(FALSE) /\ pause_irq' = FALSE /\ UNCHANGED <<rfifo, ac>>
      BY <2>1, <2>4
    <2>5. CASE IsrReceivedLate
      <3>1. rfifo = << >> /\ isr.at = "rx" /\ StopReceiving(TRUE) /\ pause_irq' = FALSE /\ ac' = TRUE
            /\ \E b \in config.rx : rfifo' = << b >>
        BY <2>5 DEF IsrReceivedLate, StopReceiving
      <3>2. rx_in # rx_out
        BY <3>1 DEF IInv, Reasons
      <3> QED BY <3>1, <3>2
    <2> QED BY <2>3, <2>4, <2>5 DEF IsrReceived
  <1>2. /\ UNCHANGED <<config, wfifo, receive, transmit, clock, thread>>
        /\ irq_enable' = irq_enable \ (IF more THEN {"RE"} ELSE {}) /\ ien' = irq_enable'
        /\ isr' = [isr EXCEPT !.at = IF isr.wi THEN "tx" ELSE "loop", !.ravail = FALSE]
        /\ isr.at = "rx" /\ isr \in IsrType /\ ~config.small
    BY <1>1 DEF StopReceiving, EnableOnly, IInv, Typed, SmallOnly, Outside
  <1>3. isr' \in IsrType /\ isr'.at # "rx" /\ isr'.space = isr.space
    BY <1>2 DEF IsrType
  <1>4. /\ rfifo' \in Seq(config.rx) /\ Len(rfifo') <= FIFO_DEPTH
        /\ pause_irq' => rfifo' # << >>
    <2>1. CASE rfifo' = rfifo
      BY <1>1, <2>1 DEF IInv, Typed, DeviceTyped, Reasons
    <2>2. CASE \E b \in config.rx : rfifo' = << b >>
      <3>1. PICK b \in config.rx : rfifo' = << b >>
        BY <2>2
      <3>2. << b >> \in Seq(config.rx) /\ Len(<< b >>) = 1 /\ << b >> # << >>
        BY Single, EmptySeq
      <3> QED BY <3>1, <3>2, SizesAssumption
    <2> QED BY <1>1, <2>1, <2>2
  <1>5. BuffersTyped' /\ thread' \in ThreadType' /\ ThreadClaims'
    BY <1>2, BuffersFrame
  <1>6. Typed'
    BY <1>1, <1>2, <1>3, <1>4, <1>5 DEF IInv, Typed, DeviceTyped, IsrType, clock
  <1>7. SmallOnly' /\ HandlerClaims' /\ Reasons'
    BY <1>2, <1>3, <1>4 DEF IInv, SmallOnly, HandlerClaims, Reasons, receive, transmit
  <1>8. WakeupsArmed'
    BY <1>1, <1>2 DEF IInv, WakeupsArmed, receive, transmit
  <1> QED BY <1>5, <1>6, <1>7, <1>8 DEF IInv

\* The handler moves the oldest byte to send to the device, which has room for it.
LEMMA Transmits ==
  ASSUME IInv, IsrTransmit
  PROVE  /\ tx_out' \in Index /\ Used(tx_out, tx_in) \in Nat \ {0}
         /\ Used(tx_out, tx_in)' = Used(tx_out, tx_in) - 1
         /\ Written # << >> /\ Written' = Tail(Written)
         /\ wfifo' = Append(wfifo, Head(Written)) /\ Len(wfifo) < FIFO_DEPTH
  <1>1. /\ tx_buf \in [Index -> Data] /\ tx_in \in Index /\ tx_out \in Index /\ tx_out # tx_in
        /\ tx_out' = Succ(tx_out) /\ tx_in' = tx_in /\ tx_buf' = tx_buf
        /\ isr.space > 0 /\ isr.space \in Nat /\ wfifo \in Seq(config.tx)
        /\ isr.space <= FIFO_DEPTH - Len(wfifo)
        /\ wfifo' = IF Len(wfifo) < FIFO_DEPTH THEN Append(wfifo, tx_buf[tx_out]) ELSE wfifo
    BY DEF IsrTransmit, IInv, Typed, DeviceTyped, BuffersTyped, IsrType, HandlerClaims, Data
  <1>2. /\ Slots(tx_buf, tx_out, tx_in) # << >>
        /\ Head(Slots(tx_buf, tx_out, tx_in)) = tx_buf[tx_out]
        /\ Slots(tx_buf, Succ(tx_out), tx_in) = Tail(Slots(tx_buf, tx_out, tx_in))
    BY <1>1, SlotsTail
  <1>3. Written' = Slots(tx_buf, Succ(tx_out), tx_in)
    BY <1>1, Zenon DEF Written, Slots, Index
  <1>4. Len(wfifo) < FIFO_DEPTH
    <2>1. Len(wfifo) \in Nat
      BY <1>1, LenProperties
    <2> QED BY <1>1, <2>1, SizesAssumption
  <1>5. tx_out' \in Index
    BY <1>1, SuccIndex, Zenon
  <1>6. Used(tx_out, tx_in) \in Nat \ {0} /\ Used(tx_out, tx_in)' = Used(tx_out, tx_in) - 1
    <2>1. Used(tx_out, tx_in)' = Used(Succ(tx_out), tx_in)
      BY <1>1, Zenon DEF Used
    <2> QED BY <1>1, <2>1, UsedTaken, Zenon
  <1> QED BY <1>1, <1>2, <1>3, <1>4, <1>5, <1>6, Zenon DEF Written

LEMMA IsrTransmitStep == ASSUME IInv, IsrTransmit PROVE IInv'
  <1>1. /\ UNCHANGED <<config, rfifo, ien, pause_irq, ac, irq_enable, receive, tx_in, tx_buf, clock, thread>>
        /\ isr \in IsrType /\ isr.at = "tx" /\ isr.space > 0 /\ ~config.small /\ tx_out # tx_in
        /\ isr' = [isr EXCEPT !.space = @ - 1] /\ wfifo \in Seq(config.tx)
        /\ Written \in Seq(config.tx) /\ isr.space <= FIFO_DEPTH - Len(wfifo)
    BY DEF IsrTransmit, IInv, Typed, DeviceTyped, BuffersTyped, SmallOnly, Outside, HandlerClaims
  <1>2. /\ tx_out' \in Index /\ Used(tx_out, tx_in) \in Nat \ {0}
        /\ Used(tx_out, tx_in)' = Used(tx_out, tx_in) - 1
        /\ Written # << >> /\ Written' = Tail(Written)
        /\ wfifo' = Append(wfifo, Head(Written)) /\ Len(wfifo) < FIFO_DEPTH
    BY Transmits
  <1>3. isr' \in IsrType /\ isr'.at = "tx" /\ isr'.space = isr.space - 1
    <2>1. isr.space - 1 \in 0..FIFO_DEPTH
      BY <1>1, SizesAssumption DEF IsrType
    <2> QED BY <1>1, <2>1 DEF IsrType
  <1>4. /\ wfifo' \in Seq(config.tx) /\ Len(wfifo') = Len(wfifo) + 1 /\ Len(wfifo) \in Nat
        /\ Written' \in Seq(config.tx)
    <2>1. Head(Written) \in config.tx /\ Tail(Written) \in Seq(config.tx)
      BY <1>1, <1>2, HeadTailProperties
    <2> QED BY <1>1, <1>2, <2>1, AppendProperties, LenProperties
  <1>5. Len(wfifo') <= FIFO_DEPTH /\ HandlerClaims'
    <2>1. isr.space \in Nat
      BY <1>1 DEF IsrType
    <2> QED BY <1>1, <1>2, <1>3, <1>4, <2>1, SizesAssumption DEF HandlerClaims
  <1>6. Received' = Received
    BY <1>1, ReceivedFrame
  <1>7. BuffersTyped'
    BY <1>1, <1>2, <1>4, <1>6 DEF IInv, Typed, BuffersTyped, receive, Byte
  <1>8. thread' \in ThreadType' /\ ThreadClaims'
    <2>1. Used(rx_out, rx_in)' = Used(rx_out, rx_in)
      BY <1>1 DEF Used, receive
    <2>2. /\ Used(rx_out, rx_in)' >= Used(rx_out, rx_in) /\ Used(rx_out, rx_in)' \in Nat
          /\ Used(tx_out, tx_in)' <= Used(tx_out, tx_in) /\ Used(tx_out, tx_in)' \in Nat
      BY <1>2, <2>1, Moved
    <2> QED BY <1>1, <2>2, ThreadWaits DEF receive
  <1>9. Typed'
    BY <1>1, <1>3, <1>4, <1>5, <1>7, <1>8 DEF IInv, Typed, DeviceTyped, IsrType, clock
  <1>10. SmallOnly' /\ Reasons' /\ WakeupsArmed'
    BY <1>1, <1>3 DEF IInv, SmallOnly, Reasons, WakeupsArmed, receive
  <1> QED BY <1>5, <1>8, <1>9, <1>10 DEF IInv

LEMMA IsrTransmittedStep == ASSUME IInv, IsrTransmitted PROVE IInv'
  <1>1. /\ UNCHANGED <<config, wfifo, rfifo, pause_irq, ac, receive, transmit, clock, thread>>
        /\ irq_enable' = irq_enable \ (IF isr.space > 0 THEN {"WE"} ELSE {}) /\ ien' = irq_enable'
        /\ isr.at = "tx" /\ ~config.small /\ (isr.space = 0 \/ tx_out = tx_in)
        /\ isr' = [Outside EXCEPT !.at = "loop"]
        /\ wfifo \in Seq(config.tx) /\ Len(wfifo) <= FIFO_DEPTH
    BY DEF IsrTransmitted, EnableOnly, IInv, Typed, DeviceTyped, SmallOnly, Outside
  <1>2. isr' \in IsrType /\ isr'.at = "loop" /\ isr'.space = 0
    <2>1. 0 \in 0..FIFO_DEPTH /\ isr' = [Outside EXCEPT !.at = "loop"]
      BY <1>1, SizesAssumption
    <2> QED BY <2>1 DEF IsrType, Outside
  <1>3. BuffersTyped' /\ thread' \in ThreadType' /\ ThreadClaims'
    BY <1>1, BuffersFrame
  <1>4. Typed'
    BY <1>1, <1>2, <1>3 DEF IInv, Typed, DeviceTyped, IsrType, clock
  <1>5. HandlerClaims'
    <2>1. Len(wfifo) \in Nat
      BY <1>1, LenProperties
    <2> QED BY <1>1, <1>2, <2>1, SizesAssumption DEF HandlerClaims
  <1>6. SmallOnly' /\ Reasons'
    BY <1>1, <1>2 DEF IInv, SmallOnly, Reasons, receive, transmit
  <1>7. WakeupsArmed'
    <2>1. isr.space = 0 => ~(isr.space > 0)
      OBVIOUS
    <2> QED BY <1>1, <2>1 DEF IInv, WakeupsArmed, receive, transmit
  <1> QED BY <1>3, <1>4, <1>5, <1>6, <1>7 DEF IInv
-----------------------------------------------------------------------------
(* The invariant, and nobody waits in vain. *)

LEMMA IInvInit == Init => IInv
  <1> SUFFICES ASSUME NEW c \in Configs, InitFor(c) PROVE IInv
    BY DEF Init
  <1> USE DEF InitFor
  <1>1. 0 \in Index /\ 0 \in 0..BUF_LEN
    BY Sizes DEF Index
  <1>2. config \in Configs /\ config.small \in BOOLEAN /\ config.clock \in BOOLEAN
    BY ConfigsAssumption
  <1>3. rx_buf \in [Index -> Byte \union {0}] /\ tx_buf \in [Index -> Byte \union {0}]
    OBVIOUS
  <1>4. Received = << >> /\ Written = << >>
    <2>1. Used(0, 0) = 0
      BY Sizes DEF Used
    <2>2. /\ Slots(rx_buf, 0, 0) \in Seq(Byte \union {0}) /\ Len(Slots(rx_buf, 0, 0)) = 0
          /\ Slots(tx_buf, 0, 0) \in Seq(Byte \union {0}) /\ Len(Slots(tx_buf, 0, 0)) = 0
      BY <1>1, <1>3, <2>1, SlotsProperties
    <2> QED BY <2>2, EmptySeq DEF Received, Written
  <1>5. << >> \in Seq(config.rx) /\ << >> \in Seq(config.tx) /\ Len(<< >>) = 0
    BY EmptySeq
  <1>6. DeviceTyped
    <2>1. /\ wfifo = << >> /\ rfifo = << >> /\ pause_irq = FALSE /\ ac = FALSE
          /\ irq_enable \subseteq {"RE", "WE"} /\ ien = irq_enable
      OBVIOUS
    <2>2. 0 <= FIFO_DEPTH
      BY SizesAssumption
    <2> QED BY <1>5, <2>1, <2>2 DEF DeviceTyped
  <1>7. BuffersTyped
    BY <1>1, <1>3, <1>4, <1>5 DEF BuffersTyped
  <1>8. host_inactive \in 0..(INT_MAX - 2) /\ timeout \in 2..INT_MAX
    BY TimeoutAssumption
  <1>9. isr \in IsrType /\ thread \in ThreadType
    BY <1>1, <1>5, SizesAssumption DEF IsrType, Outside, ThreadType, Threads, Idle
  <1>10. Typed
    BY <1>2, <1>6, <1>7, <1>8, <1>9 DEF Typed
  <1>11. SmallOnly /\ ThreadClaims /\ Reasons /\ WakeupsArmed
    BY DEF SmallOnly, SmallPlaces, ThreadClaims, Reasons, WakeupsArmed, Idle, Outside
  <1>12. HandlerClaims
    BY <1>5, SizesAssumption DEF HandlerClaims, Outside
  <1> QED BY <1>10, <1>11, <1>12 DEF IInv

LEMMA IInvStutter == ASSUME IInv, UNCHANGED vars PROVE IInv'
  <1>1. UNCHANGED <<config, device, irq_enable, receive, transmit, clock, isr, thread>>
    BY DEF vars
  <1>2. thread' \in ThreadType /\ ThreadClaims' /\ SmallOnly' /\ WakeupsArmed'
    BY <1>1 DEF IInv, Typed, SmallOnly, WakeupsArmed, device, receive, transmit, ThreadClaims, Used
  <1> QED BY <1>1, <1>2, ThreadStep

LEMMA IInvNext == IInv /\ [Next]_vars => IInv'
  <1> SUFFICES ASSUME IInv, [Next]_vars PROVE IInv'
    OBVIOUS
  <1>1. CASE Host
    BY <1>1, HostSendStep, HostPauseStep, HostTakeStep DEF Host
  <1>2. CASE altera_avalon_jtag_uart_irq
    BY <1>2, IsrControlStep, IsrReceiveStep, IsrReceivedStep, IsrTransmitStep, IsrTransmittedStep
       DEF altera_avalon_jtag_uart_irq
  <1>3. CASE altera_avalon_jtag_uart_timeout
    BY <1>3, TimeoutStep
  <1>4. CASE Calls
    BY <1>4, Called, IoctlStep DEF Calls
  <1>5. CASE altera_avalon_jtag_uart_read
    BY <1>5, ReadTakeStep, ReadAdvanceStep, ReadSpinStep, ReadEnableStep, SmallReadStep
       DEF altera_avalon_jtag_uart_read
  <1>6. CASE altera_avalon_jtag_uart_write
    BY <1>6, WriteFillStep, WriteCopyStep, WritePublishStep, WriteKickStep, WriteSpinStep,
       SmallFetchStep, SmallPutStep DEF altera_avalon_jtag_uart_write
  <1>7. CASE altera_avalon_jtag_uart_close
    BY <1>7, CloseStep
  <1>8. CASE UNCHANGED vars
    BY <1>8, IInvStutter
  <1> QED BY <1>1, <1>2, <1>3, <1>4, <1>5, <1>6, <1>7, <1>8 DEF Next, Continue

\* In every behaviour of the driver, the device and the host the invariant holds.
THEOREM UartInvariant == Spec => []IInv
  BY IInvInit, IInvNext, PTL DEF Spec

\* Nobody waits for an interrupt that is turned off: with bytes to send the
\* transmit interrupt is on or the writer is about to turn it on, and the receive
\* interrupt is off only while a reader has bytes to come for.
THEOREM WakeupsStayArmed == Spec => []WakeupsArmed
  <1>1. IInv => WakeupsArmed
    BY DEF IInv
  <1> QED BY <1>1, UartInvariant, PTL

\* Indices stay within the buffers, the FIFOs within their depth, only what the
\* host sent waits for the reader and only what callers gave waits for the host.
THEOREM UartTypes == Spec => []TypeOK
  <1>1. IInv => TypeOK
    <2> SUFFICES ASSUME IInv PROVE TypeOK
      OBVIOUS
    <2>1. wfifo \in Seq(Byte) /\ rfifo \in Seq(Byte)
      <3>1. config.rx \subseteq Byte /\ config.tx \subseteq Byte
        BY DEF Byte
      <3> QED BY <3>1, SeqMonotonic DEF IInv, Typed, DeviceTyped
    <2>2. isr.at \in {"out", "loop", "rx", "tx"} /\ isr.space \in 0..FIFO_DEPTH
      BY DEF IInv, Typed, IsrType
    <2>3. thread.at \in Threads /\ thread.left \in Nat /\ thread.n \in 0..BUF_LEN
      BY DEF IInv, Typed, ThreadType
    <2> QED BY <2>1, <2>2, <2>3 DEF IInv, Typed, DeviceTyped, BuffersTyped, SmallOnly, TypeOK
  <1> QED BY <1>1, UartInvariant, PTL
-----------------------------------------------------------------------------
(* The driver and the device implement a pair of queues. *)

AllBytes == UNION {c.rx \union c.tx : c \in Configs}

\* The two queues of the mapping: what waits for the reader, what waits for the host.
ToUser == SubSeq(Received, thread.n * (IF thread.at = "rAdvance" THEN 1 ELSE 0) + 1, Len(Received)) \o rfifo
ToHost == wfifo \o Written

\* How many of the received bytes a reader has copied but not released.
Taken == IF thread.at = "rAdvance" THEN thread.n ELSE 0

LEMMA ByteOfAll == ASSUME IInv PROVE config.rx \subseteq AllBytes /\ config.tx \subseteq AllBytes
  BY DEF IInv, Typed, AllBytes

LEMMA TakenRange == IInv => Taken \in 0..Len(Received)
  <1> SUFFICES ASSUME IInv PROVE Taken \in 0..Len(Received)
    OBVIOUS
  <1>1. Len(Received) = Used(rx_out, rx_in) /\ Used(rx_out, rx_in) \in Nat
    BY Moved
  <1> QED BY <1>1 DEF Taken, IInv, ThreadClaims

LEMMA ToUserRest == IInv => ToUser = Rest(Received, Taken) \o rfifo
  <1> SUFFICES ASSUME IInv PROVE ToUser = Rest(Received, Taken) \o rfifo
    OBVIOUS
  <1>1. thread.n \in Nat
    BY Sizes DEF IInv, Typed, ThreadType
  <1>2. thread.n * (IF thread.at = "rAdvance" THEN 1 ELSE 0) + 1 = Taken + 1
    BY <1>1 DEF Taken
  <1> QED BY <1>2, Zenon DEF ToUser, Rest

\* The pieces of the queues.
LEMMA Pieces ==
  ASSUME IInv
  PROVE  /\ Received \in Seq(AllBytes) /\ rfifo \in Seq(AllBytes)
         /\ Written \in Seq(AllBytes) /\ wfifo \in Seq(AllBytes)
         /\ Rest(Received, Taken) \in Seq(AllBytes) /\ thread.data \in Seq(AllBytes)
  <1>1. /\ Received \in Seq(config.rx) /\ rfifo \in Seq(config.rx)
        /\ Written \in Seq(config.tx) /\ wfifo \in Seq(config.tx) /\ thread.data \in Seq(config.tx)
    BY DEF IInv, Typed, DeviceTyped, BuffersTyped, ThreadType
  <1>2. config.rx \subseteq AllBytes /\ config.tx \subseteq AllBytes
    BY ByteOfAll
  <1>3. Received \in Seq(AllBytes) /\ rfifo \in Seq(AllBytes)
    BY <1>1, <1>2, SeqMonotonic
  <1>4. Written \in Seq(AllBytes) /\ wfifo \in Seq(AllBytes) /\ thread.data \in Seq(AllBytes)
    BY <1>1, <1>2, SeqMonotonic
  <1>5. Rest(Received, Taken) \in Seq(AllBytes)
    BY <1>3, TakenRange, RestProperties
  <1> QED BY <1>3, <1>4, <1>5

StreamStep == [Channel!Next]_<<ToUser, userGot, thread.data, ToHost>>

LEMMA StreamSpec ==
  /\ ImplementsStream <=> Channel!Init /\ [][Channel!Next]_<<ToUser, userGot, thread.data, ToHost>>
  BY DEF ImplementsStream, Channel!Spec, ToUser, ToHost

LEMMA StreamInit == Init => Channel!Init
  <1> SUFFICES ASSUME NEW c \in Configs, InitFor(c) PROVE Channel!Init
    BY DEF Init
  <1>1. IInv
    BY IInvInit DEF Init
  <1>2. Received = << >> /\ Written = << >> /\ rfifo = << >> /\ wfifo = << >> /\ Taken = 0
    <2>1. rx_in = 0 /\ rx_out = 0 /\ tx_in = 0 /\ tx_out = 0 /\ thread = Idle
          /\ rfifo = << >> /\ wfifo = << >>
      BY DEF InitFor
    <2>2. Used(0, 0) = 0
      BY Sizes DEF Used
    <2>3. Len(Received) = 0 /\ Len(Written) = 0 /\ Received \in Seq(Data) /\ Written \in Seq(Data)
      BY <1>1, <2>1, <2>2, Moved
    <2> QED BY <2>1, <2>3, EmptySeq DEF Taken, Idle
  <1>3. ToUser = << >> /\ ToHost = << >>
    <2>1. Rest(Received, Taken) = << >> /\ << >> \in Seq(Data)
      BY <1>2, RestOfNone, EmptySeq
    <2>2. << >> \o << >> = << >>
      BY <2>1, ConcatEmptySeq
    <2> QED BY <1>1, <1>2, <2>1, <2>2, ToUserRest DEF ToHost
  <1> QED BY <1>3 DEF Channel!Init, ToUser, ToHost, InitFor, Idle

\* A step that moves no byte: at most a reader is done with what it got.
LEMMA Quiet ==
  ASSUME ToUser' = ToUser, ToHost' = ToHost, thread'.data = thread.data,
         userGot' = userGot \/ userGot' = << >>
  PROVE  StreamStep
  BY DEF StreamStep, Channel!Next, Channel!UserTook, ToUser, ToHost

\* The mapping after a step.
LEMMA ToUserNext == ASSUME IInv' PROVE ToUser' = Rest(Received', Taken') \o rfifo'
  <1>1. (IInv => ToUser = Rest(Received, Taken) \o rfifo)'
    BY ToUserRest, PTL
  <1> QED BY <1>1 DEF Rest

LEMMA ToUserFrame ==
  ASSUME IInv, IInv', UNCHANGED <<receive, rfifo>>, Taken' = Taken
  PROVE  ToUser' = ToUser
  BY ReceivedFrame, ToUserRest, ToUserNext

LEMMA ToHostFrame == UNCHANGED <<transmit, wfifo>> => ToHost' = ToHost
  BY WrittenFrame DEF ToHost

\* Calls, waiting, enabling interrupts, the alarm, the handler between its loops.
QuietSteps ==
  \/ HostPause \/ IsrControl \/ IsrReceived \/ IsrTransmitted \/ altera_avalon_jtag_uart_timeout
  \/ Calls \/ ReadSpin \/ ReadEnable \/ WriteKick \/ WriteSpin \/ altera_avalon_jtag_uart_close

LEMMA QuietStream == ASSUME IInv, IInv', QuietSteps PROVE StreamStep
  <1>1. /\ UNCHANGED <<receive, transmit, wfifo, rfifo>>
        /\ userGot' = userGot \/ userGot' = << >>
        /\ \/ thread' = thread
           \/ /\ thread.at \notin {"rAdvance", "wCopy", "wPublish", "sPut"}
              /\ thread'.at \notin {"rAdvance", "wCopy", "wPublish", "sPut"}
    <2>0. thread \in ThreadType /\ thread' \in ThreadType'
      BY DEF IInv, Typed
    <2>1. CASE HostPause
      BY <2>1 DEF HostPause
    <2>2. CASE IsrControl
      BY <2>2 DEF IsrControl, device
    <2>3. CASE IsrReceived
      BY <2>3 DEF IsrReceived, StopReceiving
    <2>4. CASE IsrTransmitted
      BY <2>4 DEF IsrTransmitted
    <2>5. CASE altera_avalon_jtag_uart_timeout
      BY <2>5 DEF altera_avalon_jtag_uart_timeout
    <2>6. CASE Calls
      <3>1. CASE altera_avalon_jtag_uart_ioctl
        BY <3>1 DEF altera_avalon_jtag_uart_ioctl, device
      <3>2. ASSUME NEW place \in {"rTake", "wFill", "cDrain", "sRead", "sFetch"}, NEW length,
                   NEW nonblock, Call(place, length, nonblock)
            PROVE  /\ UNCHANGED <<receive, transmit, wfifo, rfifo, userGot>>
                   /\ thread.at = "idle" /\ thread'.at = place
        BY <3>2 DEF Call, At, device, Idle
      <3>3. CASE altera_avalon_jtag_uart_read_fd
        BY <3>2, <3>3 DEF altera_avalon_jtag_uart_read_fd
      <3>4. CASE altera_avalon_jtag_uart_write_fd
        BY <3>2, <3>4 DEF altera_avalon_jtag_uart_write_fd
      <3>5. CASE altera_avalon_jtag_uart_close_fd
        BY <3>2, <3>5 DEF altera_avalon_jtag_uart_close_fd
      <3> QED BY <2>6, <3>1, <3>3, <3>4, <3>5 DEF Calls
    <2>7. CASE ReadSpin
      BY <2>0, <2>7 DEF ReadSpin, At, Return, Idle, device, ThreadType
    <2>8. CASE ReadEnable
      BY <2>8 DEF ReadEnable, At, Return, Idle
    <2>9. CASE WriteKick
      BY <2>0, <2>9 DEF WriteKick, At, Return, Idle, ThreadType
    <2>10. CASE WriteSpin
      BY <2>0, <2>10 DEF WriteSpin, At, Return, Idle, device, ThreadType
    <2>11. CASE altera_avalon_jtag_uart_close
      BY <2>11 DEF altera_avalon_jtag_uart_close, At, Return, Idle, device
    <2> QED BY <2>1, <2>2, <2>3, <2>4, <2>5, <2>6, <2>7, <2>8, <2>9, <2>10, <2>11 DEF QuietSteps
  <1>2. Taken' = Taken /\ thread'.data = thread.data
    BY <1>1 DEF Taken, IInv, ThreadClaims
  <1> QED BY <1>1, <1>2, ToUserFrame, ToHostFrame, Quiet

\* The host sends a byte: to a device that is looked at or, too late, to the handler.
LEMMA HostSendsStream ==
  ASSUME IInv, IInv', \/ \E b \in config.rx : HostSend(b)
                      \/ IsrReceivedLate
  PROVE  StreamStep
  <1>1. PICK b \in config.rx :
          /\ rfifo' = Append(rfifo, b)
          /\ UNCHANGED <<receive, transmit, wfifo, thread, userGot>>
    <2>1. CASE \E b \in config.rx : HostSend(b)
      BY <2>1 DEF HostSend
    <2>2. CASE IsrReceivedLate
      <3>1. PICK b \in config.rx : /\ rfifo = << >> /\ rfifo' = << b >>
                                   /\ UNCHANGED <<receive, transmit, wfifo, thread, userGot>>
        BY <2>2 DEF IsrReceivedLate, StopReceiving
      <3>2. Append(<< >>, b) = << b >>
        <4>1. << >> \in Seq(config.rx) /\ << b >> \in Seq(config.rx)
          BY EmptySeq, Single
        <4> QED BY <4>1, AppendIsConcat, ConcatEmptySeq
      <3> QED BY <3>1, <3>2
    <2> QED BY <2>1, <2>2
  <1>2. b \in AllBytes
    BY ByteOfAll
  <1>3. Received' = Received /\ Taken' = Taken
    BY <1>1, ReceivedFrame DEF Taken
  <1>4. ToUser' = Append(ToUser, b)
    <2>1. Rest(Received, Taken) \o Append(rfifo, b) = Append(Rest(Received, Taken) \o rfifo, b)
      BY <1>2, Pieces, AppendBehind
    <2> QED BY <1>1, <1>3, <2>1, ToUserRest, ToUserNext, Zenon
  <1>5. ToHost' = ToHost
    BY <1>1, ToHostFrame
  <1>6. Channel!HostSends
    BY <1>1, <1>2, <1>4, <1>5 DEF Channel!HostSends, ToUser, ToHost, AllBytes
  <1> QED BY <1>6 DEF StreamStep, Channel!Next

LEMMA HostTakesStream == ASSUME IInv, IInv', HostTake PROVE StreamStep
  <1>1. /\ UNCHANGED <<receive, rfifo, transmit, thread, userGot>>
        /\ wfifo # << >> /\ wfifo' = Tail(wfifo)
    BY DEF HostTake
  <1>2. Written' = Written
    BY <1>1, WrittenFrame
  <1>3. ToHost # << >> /\ ToHost' = Tail(ToHost)
    BY <1>1, <1>2, Pieces, TailOfConcat DEF ToHost
  <1>4. ToUser' = ToUser
    BY <1>1, ToUserFrame DEF Taken
  <1>5. Channel!HostTakes
    BY <1>1, <1>3, <1>4 DEF Channel!HostTakes, ToUser, ToHost
  <1> QED BY <1>5 DEF StreamStep, Channel!Next

\* From the device to the buffer, from the buffer to the device: the queues stay.
LEMMA ReceiveStream == ASSUME IInv, IInv', IsrReceive PROVE StreamStep
  <1>1. /\ UNCHANGED <<transmit, wfifo, thread, userGot>> /\ rfifo # << >> /\ rfifo' = Tail(rfifo)
    BY DEF IsrReceive
  <1>2. Received' = Append(Received, Head(rfifo)) /\ Head(rfifo) \in AllBytes
    BY Receives, ByteOfAll
  <1>3. Taken' = Taken /\ Taken \in 0..Len(Received)
    BY <1>1, TakenRange DEF Taken
  <1>4. Rest(Received', Taken') = Append(Rest(Received, Taken), Head(rfifo))
    BY <1>2, <1>3, Pieces, RestOfAppend
  <1>5. ToUser' = ToUser
    BY <1>1, <1>4, Pieces, HeadMoves, ToUserRest, ToUserNext
  <1> QED BY <1>1, <1>5, ToHostFrame, Quiet

LEMMA TransmitStream == ASSUME IInv, IInv', IsrTransmit PROVE StreamStep
  <1>1. UNCHANGED <<receive, rfifo, thread, userGot>>
    BY DEF IsrTransmit
  <1>2. /\ Written # << >> /\ Written' = Tail(Written)
        /\ wfifo' = Append(wfifo, Head(Written))
    BY Transmits
  <1>3. ToHost' = ToHost
    BY <1>2, Pieces, HeadMoves DEF ToHost
  <1>4. ToUser' = ToUser
    BY <1>1, ToUserFrame DEF Taken
  <1> QED BY <1>1, <1>3, <1>4, Quiet

\* A reader copies what lies in one piece: these are the oldest bytes.
LEMMA TakesStream ==
  ASSUME NEW n \in 1..Len(Received), IInv, IInv',
         Received' = Received, Taken = 0, Taken' = n, rfifo' = rfifo,
         userGot' = SubSeq(Received, 1, n), thread'.data = thread.data, ToHost' = ToHost
  PROVE  StreamStep
  <1>1. n \in 0..Len(Received) /\ 1 \in 1..Len(Received)
    BY Pieces, LenProperties
  <1>2. ToUser = Received \o rfifo
    BY Pieces, RestOfNone, ToUserRest
  <1>3. ToUser' = Rest(ToUser, n)
    BY <1>1, <1>2, Pieces, RestOfConcat, ToUserNext
  <1>4. userGot' = SubSeq(ToUser, 1, n)
    BY <1>1, <1>2, Pieces, SubSeqOfConcat1
  <1>5. n \in 1..Len(ToUser)
    <2>1. Len(Received \o rfifo) = Len(Received) + Len(rfifo) /\ Len(Received) \in Nat /\ Len(rfifo) \in Nat
      BY Pieces, ConcatProperties, LenProperties
    <2> QED BY <1>2, <2>1
  <1>6. Channel!UserTakes
    BY <1>3, <1>4, <1>5 DEF Channel!UserTakes, ToUser, ToHost, Rest
  <1> QED BY <1>6 DEF StreamStep, Channel!Next

LEMMA ReadTakeStream == ASSUME IInv, IInv', ReadTake PROVE StreamStep
  <1> DEFINE piece == IF rx_in >= rx_out THEN rx_in - rx_out ELSE BUF_LEN - rx_out
             n == IF piece > thread.left THEN thread.left ELSE piece
  <1>1. /\ UNCHANGED <<receive, transmit, wfifo, rfifo>> /\ thread.at = "rTake"
        /\ thread \in ThreadType /\ thread.data = << >>
        /\ rx_buf \in [Index -> Data] /\ rx_in \in Index /\ rx_out \in Index
    BY DEF ReadTake, At, device, IInv, Typed, BuffersTyped, ThreadClaims, Data
  <1>2. Received' = Received /\ ToHost' = ToHost /\ Taken = 0
    BY <1>1, ReceivedFrame, ToHostFrame DEF Taken
  <1>3. CASE n = 0
    <2>1. userGot' = << >> /\ thread' = AfterTaking(thread, rx_in)
      BY <1>3 DEF ReadTake
    <2>2. thread'.at \in {"rEnable", "idle", "rSpin"}
      BY <1>1, <2>1 DEF AfterTaking, Idle, ThreadType
    <2>3. Taken' = 0 /\ thread'.data = << >>
      BY <2>2 DEF Taken, IInv, ThreadClaims
    <2> QED BY <1>1, <1>2, <2>1, <2>3, ToUserFrame, Quiet
  <1>4. CASE n # 0
    <2>1. n \in 1..Used(rx_out, rx_in) /\ rx_out + n <= BUF_LEN
      BY <1>4, TakesAPiece
    <2>2. /\ userGot' = [k \in 1..n |-> rx_buf[rx_out + k - 1]]
          /\ thread' = [thread EXCEPT !.at = "rAdvance", !.out = rx_out, !.n = n]
      BY <1>4 DEF ReadTake
    <2> HIDE DEF n
    <2>3. userGot' = SubSeq(Received, 1, n)
      <3>1. rx_buf \in [Index -> Data] /\ rx_in \in Index /\ rx_out \in Index
        BY <1>1
      <3>2. n \in Nat /\ \A k \in 1..n : rx_out + k - 1 \in Index
        BY <2>1, <3>1, Sizes DEF Index
      <3>3. userGot' \in [1..n -> Data]
        BY <2>2, <3>1, <3>2
      <3>4. userGot' \in Seq(Data) /\ Len(userGot') = n
        BY <3>2, <3>3, SeqDef
      <3>5. Holds(rx_buf, rx_out, userGot')
        BY <2>2, <3>4 DEF Holds
      <3>6. userGot' = SubSeq(Slots(rx_buf, rx_out, rx_in), 1, n)
        BY <2>1, <3>1, <3>4, <3>5, SlotsFirst
      <3> QED BY <3>6, Zenon DEF Received
    <2>4. Taken' = n /\ thread'.data = thread.data
      BY <1>1, <2>2 DEF Taken, ThreadType
    <2>5. n \in 1..Len(Received)
      BY <2>1, Moved
    <2> QED BY <1>1, <1>2, <2>3, <2>4, <2>5, TakesStream
  <1> QED BY <1>3, <1>4

\* What was copied is released: it had left the queue when it was copied.
LEMMA AdvanceStream == ASSUME IInv, IInv', ReadAdvance PROVE StreamStep
  <1>1. /\ UNCHANGED <<rfifo, wfifo, transmit>> /\ userGot' = << >> /\ thread.at = "rAdvance"
        /\ thread'.at # "rAdvance" /\ thread'.data = thread.data
    BY DEF ReadAdvance, At, device, IInv, Typed, ThreadType
  <1>2. Received' = Rest(Received, Taken) /\ Taken' = 0
    BY <1>1, Releases DEF Taken
  <1>3. Rest(Received', Taken') = Rest(Received, Taken)
    BY <1>2, Pieces, RestOfNone
  <1>4. ToUser' = ToUser
    BY <1>1, <1>3, ToUserRest, ToUserNext
  <1> QED BY <1>1, <1>4, ToHostFrame, Quiet

LEMMA SmallReadStream == ASSUME IInv, IInv', SmallRead PROVE StreamStep
  <1>1. /\ UNCHANGED <<receive, transmit, wfifo>> /\ thread.at = "sRead" /\ thread \in ThreadType
        /\ thread.data = << >> /\ rx_in = 0 /\ rx_out = 0
    BY DEF SmallRead, At, IInv, Typed, SmallOnly, SmallPlaces, ThreadClaims
  <1>2. Received' = Received /\ ToHost' = ToHost /\ Taken = 0
    BY <1>1, ReceivedFrame, ToHostFrame DEF Taken
  <1>3. Received = << >>
    <2>1. Len(Received) = Used(0, 0) /\ Used(0, 0) = 0
      BY <1>1, Moved, Sizes DEF Used
    <2> QED BY <2>1, Pieces, EmptySeq
  <1>4. CASE rfifo # << >> /\ thread.left > 0
    <2>1. /\ userGot' = << Head(rfifo) >> /\ rfifo' = Tail(rfifo)
          /\ thread' = [thread EXCEPT !.left = @ - 1, !.done = TRUE]
      BY <1>4 DEF SmallRead
    <2>2. thread'.at = "sRead" /\ thread'.data = thread.data /\ Taken' = 0
      BY <1>1, <2>1 DEF ThreadType, Taken
    <2>3. ToUser = rfifo /\ ToUser' = Tail(rfifo)
      <3>1. Tail(rfifo) \in Seq(AllBytes) /\ Rest(Received, 0) = << >>
        BY <1>3, <1>4, Pieces, HeadTailProperties, RestOfNone
      <3> QED BY <1>2, <1>3, <2>1, <2>2, <3>1, Pieces, ConcatEmptySeq, ToUserRest, ToUserNext
    <2>4. /\ Len(ToUser) \in Nat \ {0} /\ userGot' = SubSeq(ToUser, 1, 1)
          /\ ToUser' = SubSeq(ToUser, 1 + 1, Len(ToUser))
      <3>1. Len(rfifo) \in Nat \ {0} /\ Tail(rfifo) = SubSeq(rfifo, 2, Len(rfifo))
        BY <1>4, Pieces, EmptySeq, TailIsSubSeq
      <3>2. Head(rfifo) = rfifo[1] /\ Head(rfifo) \in AllBytes
        BY <1>4, Pieces, HeadTailProperties
      <3>3. << Head(rfifo) >> = SubSeq(rfifo, 1, 1)
        <4>1. 1 \in 1..Len(rfifo)
          BY <3>1
        <4>2. SubSeq(rfifo, 1, 1) = << rfifo[1] >> \o SubSeq(rfifo, 1 + 1, 1)
          BY <4>1, Pieces, SubSeqRecursiveFirst
        <4>3. SubSeq(rfifo, 1 + 1, 1) = << >>
          BY SubSeqEmpty
        <4>4. << rfifo[1] >> \in Seq(AllBytes)
          BY <3>2, Single
        <4> QED BY <3>2, <4>2, <4>3, <4>4, ConcatEmptySeq
      <3> QED BY <2>1, <2>3, <3>1, <3>3
    <2>5. 1 \in 1..Len(ToUser)
      BY <2>4
    <2>6. Channel!UserTakes
      BY <1>2, <2>2, <2>4, <2>5 DEF Channel!UserTakes, ToUser, ToHost
    <2> QED BY <2>6 DEF StreamStep, Channel!Next
  <1>5. CASE ~(rfifo # << >> /\ thread.left > 0)
    <2>1. rfifo' = rfifo /\ userGot' = << >> /\ thread'.at = "idle" /\ thread'.data = << >>
      BY <1>5 DEF SmallRead, Return, Idle
    <2>2. Taken' = 0
      BY <2>1 DEF Taken
    <2> QED BY <1>1, <1>2, <2>1, <2>2, ToUserFrame, Quiet
  <1> QED BY <1>4, <1>5

\* A writer takes its caller's next bytes.
LEMMA OffersStream ==
  ASSUME IInv, IInv', WriteFill \/ SmallFetch PROVE StreamStep
  <1>1. /\ UNCHANGED <<receive, transmit, rfifo, wfifo>> /\ thread.data = << >>
        /\ thread \in ThreadType /\ thread.at \in {"wFill", "sFetch"}
        /\ userGot' = userGot \/ userGot' = << >>
    BY DEF WriteFill, SmallFetch, At, device, IInv, Typed, ThreadClaims, Return
  <1>2. thread'.at \in {"wKick", "wCopy", "idle", "sPut"}
    <2>1. CASE WriteFill
      BY <1>1, <2>1 DEF WriteFill, ThreadType
    <2>2. CASE SmallFetch
      BY <1>1, <2>2 DEF SmallFetch, Return, Idle, ThreadType
    <2> QED BY <2>1, <2>2
  <1>3. Taken = 0 /\ Taken' = 0
    BY <1>1, <1>2 DEF Taken
  <1>4. ToUser' = ToUser /\ ToHost' = ToHost
    BY <1>1, <1>3, ToUserFrame, ToHostFrame
  <1>5. thread'.data \in Seq(AllBytes)
    <2>1. thread'.data \in Seq(config.tx) /\ config.tx \subseteq AllBytes
      BY ByteOfAll DEF WriteFill, SmallFetch, IInv, Typed, ThreadType
    <2> QED BY <2>1, SeqMonotonic
  <1>6. CASE thread'.at = "idle"
    <2>1. thread'.data = << >>
      BY <1>6 DEF IInv, ThreadClaims
    <2> QED BY <1>1, <1>4, <2>1, Quiet
  <1>7. CASE thread'.at # "idle"
    <2>1. userGot' = userGot
      BY <1>7 DEF WriteFill, SmallFetch, Return, Idle
    <2>2. Channel!UserOffers
      BY <1>1, <1>4, <1>5, <2>1 DEF Channel!UserOffers, ToUser, ToHost, AllBytes
    <2> QED BY <2>2 DEF StreamStep, Channel!Next
  <1> QED BY <1>6, <1>7

LEMMA CopyStream == ASSUME IInv, IInv', WriteCopy PROVE StreamStep
  <1>1. /\ UNCHANGED <<receive, rfifo, wfifo, userGot>> /\ thread.at = "wCopy"
        /\ thread'.at = "wPublish" /\ thread'.data = thread.data
    BY DEF WriteCopy, At, device, IInv, Typed, ThreadType
  <1>2. ToHost' = ToHost
    BY <1>1, Copies DEF ToHost
  <1>3. ToUser' = ToUser
    BY <1>1, ToUserFrame DEF Taken
  <1> QED BY <1>1, <1>2, <1>3, Quiet

\* The bytes a writer took join the queue to the host.
LEMMA GivesStream ==
  ASSUME IInv, IInv', WritePublish \/ SmallPut PROVE StreamStep
  <1>1. /\ UNCHANGED <<receive, rfifo, userGot>> /\ thread.at \in {"wPublish", "sPut"}
        /\ thread'.at \in {"wFill", "sFetch"} /\ thread'.data = << >>
    BY DEF WritePublish, SmallPut, At, device, IInv, Typed, ThreadType
  <1>2. ToUser' = ToUser
    BY <1>1, ToUserFrame DEF Taken
  <1>3. ToHost' = ToHost \o thread.data
    <2>1. CASE WritePublish
      <3>1. wfifo' = wfifo /\ Written' = Written \o thread.data
        BY <2>1, Publishes DEF WritePublish, device
      <3>2. (wfifo \o Written) \o thread.data = wfifo \o (Written \o thread.data)
        <4> DEFINE data == thread.data
        <4>1. wfifo \in Seq(AllBytes) /\ Written \in Seq(AllBytes) /\ data \in Seq(AllBytes)
          BY Pieces
        <4> HIDE DEF data
        <4>2. (wfifo \o Written) \o data = wfifo \o (Written \o data)
          BY <4>1, ConcatAssociative
        <4> QED BY <4>2 DEF data
      <3> QED BY <3>1, <3>2, Zenon DEF ToHost
    <2>2. CASE SmallPut
      <3>1. wfifo' = wfifo \o thread.data /\ UNCHANGED transmit /\ tx_in = 0 /\ tx_out = 0
        BY <2>2 DEF SmallPut, At, IInv, SmallOnly, SmallPlaces
      <3>2. Written = << >> /\ Written' = << >>
        <4>1. Len(Written) = Used(0, 0) /\ Used(0, 0) = 0
          BY <3>1, Moved, Sizes DEF Used
        <4> QED BY <3>1, <4>1, Pieces, EmptySeq, WrittenFrame
      <3>3. wfifo \o thread.data \in Seq(AllBytes)
        BY Pieces, ConcatProperties
      <3> QED BY <3>1, <3>2, <3>3, Pieces, ConcatEmptySeq DEF ToHost
    <2> QED BY <2>1, <2>2
  <1>4. Channel!UserGives
    BY <1>1, <1>2, <1>3 DEF Channel!UserGives, ToUser, ToHost
  <1> QED BY <1>4 DEF StreamStep, Channel!Next

LEMMA StreamNext == IInv /\ IInv' /\ [Next]_vars => StreamStep
  <1> SUFFICES ASSUME IInv, IInv', [Next]_vars PROVE StreamStep
    OBVIOUS
  <1>1. CASE Next
    BY <1>1, QuietStream, HostSendsStream, HostTakesStream, ReceiveStream, TransmitStream,
       ReadTakeStream, AdvanceStream, SmallReadStream, OffersStream, CopyStream, GivesStream
       DEF Next, QuietSteps, Host, altera_avalon_jtag_uart_irq, Continue,
           altera_avalon_jtag_uart_read, altera_avalon_jtag_uart_write
  <1>2. CASE UNCHANGED vars
    <2>1. UNCHANGED <<receive, transmit, rfifo, wfifo, thread, userGot>>
      BY <1>2 DEF vars, device
    <2>2. Taken' = Taken
      BY <2>1 DEF Taken
    <2> QED BY <2>1, <2>2, ToUserFrame, ToHostFrame, Quiet
  <1> QED BY <1>1, <1>2

\* Whatever buffers and FIFOs lie between, whoever runs when: what the host sends
\* reaches the callers, and what they write reaches the host, in order, each byte
\* once, unless it is still on its way.
THEOREM UartImplementsStream == Spec => ImplementsStream
  <1>1. IInv /\ IInv' /\ [Next]_vars => [Channel!Next]_<<ToUser, userGot, thread.data, ToHost>>
    BY StreamNext DEF StreamStep
  <1>2. Spec => [][Channel!Next]_<<ToUser, userGot, thread.data, ToHost>>
    BY <1>1, UartInvariant, PTL DEF Spec
  <1> QED BY <1>2, StreamInit, StreamSpec, PTL DEF Spec

=============================================================================
