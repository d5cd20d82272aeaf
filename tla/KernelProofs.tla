---------------------------- MODULE KernelProofs ----------------------------
(***************************************************************************)
(* Handlers nest by urgency and stay out of critical sections, for every   *)
(* number of interrupts and every sequence of calls; and for every set of  *)
(* alarms the calls that are made of steps, inside those sections, are the *)
(* calls between ticks that Alarms describes; and for every width of the   *)
(* tick counter each alarm is called in the tick it has waited for.        *)
(***************************************************************************)
EXTENDS Kernel, SequenceTheorems, WellFoundedInduction, TLAPS

\* What the first n activations let in: everything, or what is more
\* urgent than the last of them.
Allowed(n) == IF n = 0 THEN Id ELSE MoreUrgent(frames[n].id)

\* A handler that is open remembers what was allowed below it, and the mask in
\* force is that of the innermost open one.
MasksOK ==
  /\ \A k \in DOMAIN frames : frames[k].at = "open" => frames[k].mask = Allowed(k - 1)
  /\ frames # <<>> /\ Top.at # "open" => alt_priority_mask = Allowed(Len(frames) - 1)
  /\ frames = <<>> \/ Top.at = "open" => alt_priority_mask = Allowed(Len(frames))
  /\ alt_irq_active \subseteq alt_irq

\* Interrupts are on in the thread outside its sections and in open handlers, and
\* only the outermost section found them on.
ProcessorOK ==
  /\ frames = <<>> => (pie <=> held = <<>>)
  /\ frames # <<>> => (pie <=> Top.at = "open")
  /\ \A k \in DOMAIN held : held[k] <=> k = 1

IrqInv == IrqTypeOK /\ SectionsHold /\ NestedByUrgency /\ MasksOK /\ ProcessorOK

\* A tick is under way only in a handler of the clock that is not done, and a call
\* that has read the counter is in a section and still finds what it has read.
TickInHandler ==
  walk # Outside => \E k \in DOMAIN frames : /\ frames[k].id = Clock /\ ~frames[k].served
                                             /\ frames[k].at \in {"isr", "open"}
StartingOK ==
  starting # None => /\ held # <<>> /\ starting.now = alt_nticks
                     /\ starting.alarm \in Alarm /\ starting.nticks \in Delays
                     /\ ~Listed(links, starting.alarm)

IInv == IrqInv /\ TickInHandler /\ StartingOK

-----------------------------------------------------------------------------
(* The stack of the dispatcher's activations. *)

LEMMA StackNonEmpty ==
  ASSUME frames \in Seq(Frame), frames # <<>>
  PROVE  /\ Len(frames) \in Nat /\ Len(frames) > 0 /\ DOMAIN frames = 1..Len(frames)
         /\ Top \in Frame
  BY DEF Top

LEMMA TopReplaced ==
  ASSUME frames \in Seq(Frame), frames # <<>>, NEW f \in Frame, frames' = WithTop(f)
  PROVE  /\ frames' \in Seq(Frame) /\ frames' # <<>> /\ Len(frames') = Len(frames)
         /\ DOMAIN frames' = 1..Len(frames)
         /\ Top' = f
         /\ \A k \in 1..(Len(frames) - 1) : frames'[k] = frames[k]
  <1>1. Len(frames) \in 1..Len(frames) /\ Len(frames) \in Nat
    BY StackNonEmpty
  <1>2. /\ frames' \in Seq(Frame) /\ Len(frames') = Len(frames)
        /\ \A j \in 1..Len(frames) : frames'[j] = IF j = Len(frames) THEN f ELSE frames[j]
    BY ONLY frames \in Seq(Frame), f \in Frame, <1>1, ExceptSeq, frames' = WithTop(f) DEF WithTop
  <1>3. DOMAIN frames' = 1..Len(frames) /\ frames' # <<>>
    BY ONLY <1>1, <1>2, LenProperties, EmptySeq
  <1>4. frames'[Len(frames')] = f /\ \A k \in 1..(Len(frames) - 1) : frames'[k] = frames[k]
    BY ONLY <1>1, <1>2
  <1> QED BY <1>2, <1>3, <1>4 DEF Top

LEMMA Pushed ==
  ASSUME frames \in Seq(Frame), NEW f \in Frame, frames' = Append(frames, f)
  PROVE  /\ frames' \in Seq(Frame) /\ frames' # <<>> /\ Len(frames') = Len(frames) + 1
         /\ DOMAIN frames' = 1..(Len(frames) + 1)
         /\ Top' = f
         /\ \A k \in 1..Len(frames) : frames'[k] = frames[k]
  BY AppendProperties DEF Top

LEMMA Popped ==
  ASSUME frames \in Seq(Frame), frames # <<>>, frames' = Front(frames)
  PROVE  /\ frames' \in Seq(Frame) /\ Len(frames') = Len(frames) - 1
         /\ DOMAIN frames' = 1..(Len(frames) - 1)
         /\ \A k \in 1..(Len(frames) - 1) : frames'[k] = frames[k]
         /\ frames' # <<>> => Len(frames) > 1 /\ Top' = frames[Len(frames) - 1]
  BY StackNonEmpty, SubSeqProperties DEF Front, Top

\* The lowest bit that is set exists.
LEMMA LowestBit ==
  ASSUME NEW S \in SUBSET Nat, S # {}
  PROVE  Min(S) \in S /\ \A i \in S : Min(S) <= i
  <1> DEFINE Below == {p \in Nat \X Nat : p[1] < p[2]}
  <1>1. IsWellFoundedOn(Below, Nat)
    BY NatLessThanWellFounded DEF OpToRel
  <1>2. PICK x \in S : \A y \in S : ~ (<<y, x>> \in Below)
    <2> HIDE DEF Below
    <2> QED BY <1>1, WFMin
  <1>3. ASSUME NEW y \in S, y < x PROVE FALSE
    <2>1. <<y, x>> \in Nat \X Nat /\ <<y, x>>[1] < <<y, x>>[2] BY <1>3
    <2>2. <<y, x>> \in Below BY ONLY <2>1
    <2> QED BY <2>2, <1>2
  <1>4. x \in S /\ \A y \in S : x <= y
    BY <1>3
  <1> HIDE DEF Below
  <1>5. \E z \in S : \A y \in S : z <= y
    BY ONLY <1>4
  <1> QED BY ONLY <1>5 DEF Min
-----------------------------------------------------------------------------
(* Steps of the processor and the dispatcher. *)

LEMMA IrqStarts == IrqInit => IrqInv
  <1> SUFFICES ASSUME IrqInit PROVE IrqInv
    OBVIOUS
  <1>1. frames = <<>> /\ held = <<>> /\ frames \in Seq(Frame) /\ held \in Seq(BOOLEAN)
        /\ DOMAIN frames = {} /\ DOMAIN held = {} /\ Len(frames) = 0
    BY EmptySeq DEF IrqInit
  <1> QED BY <1>1 DEF IrqInit, IrqInv, IrqTypeOK, SectionsHold, NestedByUrgency, MasksOK,
            ProcessorOK, Allowed

\* What each step finds, in the parts it needs.
LEMMA IrqFacts ==
  ASSUME IrqInv
  PROVE  /\ frames \in Seq(Frame) /\ Len(frames) \in Nat /\ DOMAIN frames = 1..Len(frames)
         /\ pie \in BOOLEAN /\ held \in Seq(BOOLEAN)
         /\ ienable \subseteq Id /\ line \subseteq Id /\ alt_irq_active \subseteq Id
         /\ alt_priority_mask \subseteq Id /\ alt_irq \subseteq Id
         /\ Id \subseteq Nat /\ NIRQ \in Nat
  BY IrqAssumption DEF IrqInv, IrqTypeOK, Id

LEMMA RaiseKeeps == ASSUME IrqInv, NEW i \in Id, Raise(i) PROVE IrqInv'
  <1> USE DEF Raise, masks
  <1>1. IrqTypeOK' BY DEF IrqInv, IrqTypeOK, Frame
  <1>2. SectionsHold' BY DEF IrqInv, SectionsHold
  <1>3. NestedByUrgency'
    BY DEF IrqInv, NestedByUrgency, Top, alt_irq_pending
  <1>4. MasksOK' BY DEF IrqInv, MasksOK, Top, Allowed
  <1>5. ProcessorOK' BY DEF IrqInv, ProcessorOK, Top
  <1> QED BY <1>1, <1>2, <1>3, <1>4, <1>5 DEF IrqInv

LEMMA ExceptionKeeps == ASSUME IrqInv, Exception PROVE IrqInv'
  <1> DEFINE f == [at |-> "enter", id |-> NIRQ, served |-> FALSE, mask |-> {}]
  <1> USE IrqFacts
  <1>0. f \in Frame /\ frames' = Append(frames, f) /\ f.at = "enter" /\ f.id = NIRQ
    BY DEF Exception, Frame
  <1> HIDE DEF f
  <1>1. /\ frames' \in Seq(Frame) /\ frames' # <<>> /\ Len(frames') = Len(frames) + 1
        /\ DOMAIN frames' = 1..(Len(frames) + 1) /\ Top' = f
        /\ \A k \in 1..Len(frames) : frames'[k] = frames[k]
    BY <1>0, Pushed
  <1>2. /\ held = <<>> /\ held' = held /\ pie = TRUE /\ pie' = FALSE
        /\ frames # <<>> => Top.at = "open"
        /\ alt_irq_pending' # {}
    BY DEF Exception, Taken, masks, alt_irq_pending, IrqInv, SectionsHold, ProcessorOK
  <1>3. UNCHANGED <<line, ienable, alt_irq_active, alt_priority_mask, alt_irq>>
    BY DEF Exception, masks
  <1>4. frames'[Len(frames) + 1] = f
    BY <1>1 DEF Top
  <1>5. IrqTypeOK'
    <2>1. \A k \in DOMAIN frames' : frames'[k].at # "enter" => frames'[k].id \in Id
      BY <1>0, <1>1, <1>4 DEF IrqInv, IrqTypeOK
    <2>2. pie' \in BOOLEAN /\ held' \in Seq(BOOLEAN)
      BY <1>2
    <2> QED BY <2>1, <2>2, <1>1, <1>3 DEF IrqTypeOK
  <1>6. SectionsHold' BY <1>2 DEF SectionsHold
  <1>7. NestedByUrgency'
    BY <1>0, <1>1, <1>2, <1>3, <1>4 DEF IrqInv, NestedByUrgency, Top
  <1>8. MasksOK'
    BY <1>0, <1>1, <1>2, <1>3, <1>4 DEF IrqInv, MasksOK, Top, Allowed, MoreUrgent
  <1>9. ProcessorOK'
    BY <1>0, <1>1, <1>2 DEF IrqInv, ProcessorOK
  <1> QED BY <1>5, <1>6, <1>7, <1>8, <1>9 DEF IrqInv

\* A step of the running dispatcher or handler that leaves the ones below alone.
LEMMA TopStep ==
  ASSUME IrqInv, frames # <<>>, NEW f \in Frame, frames' = WithTop(f),
         UNCHANGED <<held, alt_irq_active, alt_irq>>, line' \subseteq Id,
         f.at # "enter", f.id \in Id,
         f.at \in {"isr", "open"} /\ Len(frames) > 1 => f.id < frames[Len(frames) - 1].id,
         f.at = "open" => f.mask = Allowed(Len(frames) - 1) /\ alt_priority_mask' = MoreUrgent(f.id),
         f.at # "open" => alt_priority_mask' = Allowed(Len(frames) - 1),
         ienable' = alt_irq_active \intersect alt_priority_mask', alt_priority_mask' \subseteq Id,
         pie' \in BOOLEAN, pie' <=> f.at = "open"
  PROVE  IrqInv'
  <1> USE IrqFacts
  <1>1. /\ frames' \in Seq(Frame) /\ frames' # <<>> /\ Len(frames') = Len(frames)
        /\ DOMAIN frames' = 1..Len(frames) /\ Top' = f
        /\ \A k \in 1..(Len(frames) - 1) : frames'[k] = frames[k]
    BY TopReplaced
  <1>2. frames'[Len(frames)] = f /\ Len(frames) > 0
    BY <1>1, StackNonEmpty DEF Top
  <1>3. IrqTypeOK'
    <2>1. \A k \in DOMAIN frames' : frames'[k].at # "enter" => frames'[k].id \in Id
      BY <1>1, <1>2 DEF IrqInv, IrqTypeOK
    <2> QED BY <2>1, <1>1 DEF IrqTypeOK
  <1>4. SectionsHold'
    BY DEF IrqInv, SectionsHold
  <1>5. NestedByUrgency'
    <2>1. \A k \in 1..(Len(frames) - 1) : frames[k].at = "open" /\ frames[k].id \in Id
      BY DEF IrqInv, NestedByUrgency, IrqTypeOK
    <2>2. \A k, l \in 1..(Len(frames) - 1) : k < l => frames[l].id < frames[k].id
      BY <2>1 DEF IrqInv, NestedByUrgency
    <2>3. ASSUME f.at \in {"isr", "open"}, NEW k \in 1..(Len(frames) - 1)
          PROVE  f.id < frames[k].id
      <3>1. Len(frames) - 1 \in 1..(Len(frames) - 1)
        BY <1>2
      <3>2. CASE k = Len(frames) - 1 BY <3>1, <3>2, <2>3
      <3>3. CASE k < Len(frames) - 1
        BY <3>1, <3>3, <2>1, <2>2, <2>3
      <3>4. k = Len(frames) - 1 \/ k < Len(frames) - 1
        BY ONLY k \in 1..(Len(frames) - 1), Len(frames) \in Nat
      <3> QED BY <3>2, <3>3, <3>4
    <2>4. \A k, l \in DOMAIN frames' : k < l /\ frames'[l].at \in {"isr", "open"}
                                         => frames'[l].id < frames'[k].id
      <3> TAKE k, l \in DOMAIN frames'
      <3> HAVE k < l /\ frames'[l].at \in {"isr", "open"}
      <3>1. k \in 1..(Len(frames) - 1) /\ frames'[k] = frames[k]
        BY <1>1
      <3>2. CASE l = Len(frames) BY <3>1, <3>2, <1>2, <2>3
      <3>3. CASE l < Len(frames) BY <3>1, <3>3, <1>1, <2>2
      <3> QED BY <3>2, <3>3, <1>1
    <2>5. f.at = "open" => \A i \in ienable' : i < f.id
      BY DEF MoreUrgent
    <2>6. ienable' \subseteq alt_irq' /\ ienable' = alt_irq_active' \intersect alt_priority_mask'
      BY DEF IrqInv, MasksOK
    <2> QED BY <1>1, <2>1, <2>4, <2>5, <2>6 DEF NestedByUrgency
  <1>6. MasksOK'
    <2>1. \A n \in 0..(Len(frames) - 1) : Allowed(n)' = Allowed(n)
      BY <1>1 DEF Allowed, MoreUrgent
    <2>2. f.at = "open" => Allowed(Len(frames))' = MoreUrgent(f.id)
      BY <1>1, <1>2 DEF Allowed, MoreUrgent
    <2>3. \A k \in DOMAIN frames' : frames'[k].at = "open" => frames'[k].mask = Allowed(k - 1)'
      BY <1>1, <1>2, <2>1 DEF IrqInv, MasksOK
    <2>4. Allowed(Len(frames) - 1)' = Allowed(Len(frames) - 1)
      <3>1. Len(frames) - 1 \in 0..(Len(frames) - 1) BY <1>2
      <3> QED BY <1>1, <3>1 DEF Allowed, MoreUrgent
    <2> QED BY <1>1, <2>2, <2>3, <2>4 DEF IrqInv, MasksOK
  <1>7. ProcessorOK'
    BY <1>1 DEF IrqInv, ProcessorOK
  <1> QED BY <1>3, <1>4, <1>5, <1>6, <1>7 DEF IrqInv

LEMMA TopFacts ==
  ASSUME IrqInv, frames # <<>>
  PROVE  /\ Top \in Frame /\ Len(frames) > 0 /\ Top = frames[Len(frames)] /\ held = <<>>
         /\ Top.at # "enter" => Top.id \in Id
         /\ Top.at \in {"isr", "open"} /\ Len(frames) > 1 => Top.id < frames[Len(frames) - 1].id
         /\ Top.at = "open" => Top.mask = Allowed(Len(frames) - 1)
         /\ Top.at = "open" => alt_priority_mask = MoreUrgent(Top.id)
         /\ Top.at # "open" => alt_priority_mask = Allowed(Len(frames) - 1)
         /\ ienable = alt_irq_active \intersect alt_priority_mask
         /\ pie <=> Top.at = "open"
         /\ Allowed(Len(frames) - 1) \subseteq Id
         /\ Len(frames) > 1 => frames[Len(frames) - 1].id \in Id
  <1> USE IrqFacts, StackNonEmpty
  <1>1. Top = frames[Len(frames)] /\ Len(frames) \in DOMAIN frames
    BY DEF Top
  <1>2. Top.at # "enter" => Top.id \in Id
    BY <1>1 DEF IrqInv, IrqTypeOK
  <1>3. ASSUME Len(frames) > 1 PROVE /\ Len(frames) - 1 \in DOMAIN frames
                                     /\ frames[Len(frames) - 1].id \in Id
    BY <1>3 DEF IrqInv, NestedByUrgency, IrqTypeOK
  <1>4. Top.at \in {"isr", "open"} /\ Len(frames) > 1 => Top.id < frames[Len(frames) - 1].id
    BY <1>1, <1>3 DEF IrqInv, NestedByUrgency
  <1>5. Top.at = "open" => Top.mask = Allowed(Len(frames) - 1) /\ alt_priority_mask = MoreUrgent(Top.id)
    <2>1. Len(frames) > 0 /\ Allowed(Len(frames)) = MoreUrgent(Top.id)
      BY <1>1 DEF Allowed
    <2>2. Top.at = "open" => Top.mask = Allowed(Len(frames) - 1)
      BY <1>1 DEF IrqInv, MasksOK
    <2>3. Top.at = "open" => alt_priority_mask = Allowed(Len(frames))
      BY DEF IrqInv, MasksOK
    <2> QED BY <2>1, <2>2, <2>3
  <1>6. Allowed(Len(frames) - 1) \subseteq Id
    BY <1>3 DEF Allowed, MoreUrgent, Id
  <1>7. held = <<>>
    BY DEF IrqInv, SectionsHold
  <1> QED BY <1>1, <1>2, <1>3, <1>4, <1>5, <1>6, <1>7 DEF IrqInv, MasksOK, NestedByUrgency, ProcessorOK

LEMMA DispatchKeeps == ASSUME IrqInv, Dispatch PROVE IrqInv'
  <1> DEFINE f == [Top EXCEPT !.at = "isr", !.id = Min(alt_irq_pending), !.served = FALSE]
  <1> USE IrqFacts
  <1>1. frames # <<>> /\ Top.at \in {"enter", "again"} /\ alt_irq_pending # {}
    BY DEF Dispatch, Running
  <1>2. Min(alt_irq_pending) \in alt_irq_pending
    BY <1>1, LowestBit DEF alt_irq_pending
  <1>3. /\ ienable = alt_irq_active \intersect Allowed(Len(frames) - 1)
        /\ alt_priority_mask = Allowed(Len(frames) - 1) /\ pie = FALSE
    BY <1>1, TopFacts
  <1>4. Min(alt_irq_pending) \in Allowed(Len(frames) - 1) /\ Min(alt_irq_pending) \in Id
    BY <1>2, <1>3 DEF alt_irq_pending
  <1>5. Len(frames) > 1 => Min(alt_irq_pending) < frames[Len(frames) - 1].id
    BY <1>4, TopFacts, <1>1 DEF Allowed, MoreUrgent, Id
  <1>6. f \in Frame /\ f.at = "isr" /\ f.id = Min(alt_irq_pending)
    <2>1. Min(alt_irq_pending) \in 0..NIRQ
      BY <1>4 DEF Id
    <2>2. Top \in Frame
      BY <1>1, TopFacts
    <2> QED BY ONLY <2>1, <2>2 DEF Frame
  <1>7. frames' = WithTop(f) /\ UNCHANGED <<pie, line, masks, held>>
    BY DEF Dispatch
  <1> HIDE DEF f
  <1> QED BY <1>1, <1>3, <1>4, <1>5, <1>6, <1>7, TopStep DEF masks

LEMMA LeaveKeeps == ASSUME IrqInv, Leave PROVE IrqInv'
  <1> USE IrqFacts
  <1>1. frames # <<>> /\ Top.at = "again" /\ frames' = Front(frames) /\ pie' = TRUE
        /\ UNCHANGED <<line, masks, held>>
    BY DEF Leave, Running
  <1>2. /\ frames' \in Seq(Frame) /\ Len(frames') = Len(frames) - 1
        /\ DOMAIN frames' = 1..(Len(frames) - 1)
        /\ \A k \in 1..(Len(frames) - 1) : frames'[k] = frames[k]
        /\ frames' # <<>> => Len(frames) > 1 /\ Top' = frames[Len(frames) - 1]
    BY <1>1, Popped
  <1>3. \A k \in 1..(Len(frames) - 1) : frames[k].at = "open"
    BY DEF IrqInv, NestedByUrgency
  <1>4. frames' # <<>> => Top' = frames'[Len(frames')] /\ Top'.at = "open"
    BY <1>2, <1>3
  <1>5. /\ held = <<>> /\ alt_priority_mask = Allowed(Len(frames) - 1) /\ Len(frames) > 0
        /\ ienable = alt_irq_active \intersect alt_priority_mask
        /\ Len(frames) > 1 => frames[Len(frames) - 1].id \in Id
    BY <1>1, TopFacts
  <1>6. IrqTypeOK'
    BY <1>1, <1>2 DEF IrqInv, IrqTypeOK, masks
  <1>7. SectionsHold'
    BY <1>1, <1>5 DEF SectionsHold
  <1>8. NestedByUrgency'
    <2>1. frames' # <<>> => \A i \in ienable' : i < Top'.id
      BY <1>1, <1>2, <1>5 DEF Allowed, MoreUrgent, masks, Id
    <2> QED BY <2>1, <1>1, <1>2, <1>3, <1>4 DEF IrqInv, NestedByUrgency, masks
  <1>9. MasksOK'
    <2>1. \A n \in 0..(Len(frames) - 1) : Allowed(n)' = Allowed(n)
      BY <1>2 DEF Allowed, MoreUrgent
    <2>2. \A k \in DOMAIN frames' : frames'[k].at = "open" => frames'[k].mask = Allowed(k - 1)'
      BY <1>2, <2>1 DEF IrqInv, MasksOK
    <2>3. Allowed(Len(frames))' = Allowed(Len(frames) - 1)
      BY <1>2, <1>5 DEF Allowed, MoreUrgent
    <2> QED BY <2>2, <2>3, <1>1, <1>2, <1>4, <1>5 DEF IrqInv, MasksOK, masks
  <1>10. ProcessorOK'
    BY <1>1, <1>4, <1>5 DEF IrqInv, ProcessorOK
  <1> QED BY <1>6, <1>7, <1>8, <1>9, <1>10 DEF IrqInv

-----------------------------------------------------------------------------
(* Steps of a handler. *)

LEMMA ServeKeeps == ASSUME IrqInv, Serve PROVE IrqInv'
  <1> DEFINE f == [Top EXCEPT !.served = TRUE]
  <1> USE IrqFacts, TopFacts
  <1>1. frames # <<>> /\ Top.at \in {"isr", "open"}
    BY DEF Serve, Running
  <1>2. f \in Frame /\ f.at = Top.at /\ f.id = Top.id /\ f.mask = Top.mask
    BY <1>1 DEF Frame
  <1>3. frames' = WithTop(f) /\ UNCHANGED <<pie, masks, held>> /\ line' \subseteq Id
    BY DEF Serve
  <1> HIDE DEF f
  <1> QED BY <1>1, <1>2, <1>3, TopStep DEF masks

LEMMA ReturnKeeps == ASSUME IrqInv, Return PROVE IrqInv'
  <1> DEFINE f == [Top EXCEPT !.at = "again"]
  <1> USE IrqFacts, TopFacts
  <1>1. frames # <<>> /\ Top.at = "isr"
    BY DEF Return, Running
  <1>2. f \in Frame /\ f.at = "again" /\ f.id = Top.id
    BY <1>1 DEF Frame
  <1>3. frames' = WithTop(f) /\ UNCHANGED <<pie, line, masks, held>>
    BY DEF Return
  <1> HIDE DEF f
  <1> QED BY <1>1, <1>2, <1>3, TopStep DEF masks

LEMMA InterruptibleKeeps == ASSUME IrqInv, alt_irq_interruptible PROVE IrqInv'
  <1> DEFINE f == [Top EXCEPT !.at = "open", !.mask = alt_priority_mask]
  <1> USE IrqFacts, TopFacts
  <1>1. frames # <<>> /\ Top.at = "isr" /\ Top.id \in Id
    BY DEF alt_irq_interruptible, Running
  <1>2. f \in Frame /\ f.at = "open" /\ f.id = Top.id /\ f.mask = alt_priority_mask
    BY <1>1 DEF Frame
  <1>3. /\ frames' = WithTop(f) /\ UNCHANGED <<line, alt_irq_active, alt_irq, held>>
        /\ alt_priority_mask' = MoreUrgent(Top.id) /\ pie' = TRUE
        /\ ienable' = alt_irq_active \intersect MoreUrgent(Top.id)
    BY DEF alt_irq_interruptible
  <1>4. MoreUrgent(Top.id) \subseteq Id
    BY <1>1 DEF MoreUrgent, Id
  <1> HIDE DEF f
  <1> QED BY <1>1, <1>2, <1>3, <1>4, TopStep

LEMMA NonInterruptibleKeeps == ASSUME IrqInv, alt_irq_non_interruptible PROVE IrqInv'
  <1> DEFINE f == [Top EXCEPT !.at = "isr", !.mask = {}]
  <1> USE IrqFacts, TopFacts
  <1>1. frames # <<>> /\ Top.at = "open" /\ Top.id \in Id /\ Top.mask = Allowed(Len(frames) - 1)
    BY DEF alt_irq_non_interruptible, Running
  <1>2. f \in Frame /\ f.at = "isr" /\ f.id = Top.id
    BY <1>1 DEF Frame
  <1>3. /\ frames' = WithTop(f) /\ UNCHANGED <<line, alt_irq_active, alt_irq, held>>
        /\ alt_priority_mask' = Top.mask /\ pie' = FALSE
        /\ ienable' = Top.mask \intersect alt_irq_active
    BY DEF alt_irq_non_interruptible
  <1> HIDE DEF f
  <1> QED BY <1>1, <1>2, <1>3, TopStep

-----------------------------------------------------------------------------
(* Calls of the thread, or of a handler while none is open. *)

\* Then the mask allows everything, so that writing IENABLE without it does no harm.
LEMMA CallerSeesAll == ASSUME IrqInv, Caller PROVE alt_priority_mask = Id
  <1> USE IrqFacts
  <1>1. CASE frames = <<>>
    <2>1. Len(frames) = 0 BY <1>1
    <2> QED BY <1>1, <2>1 DEF IrqInv, MasksOK, Allowed
  <1>2. CASE frames # <<>>
    <2>1. Top.at = "isr" /\ \A k \in DOMAIN frames : frames[k].at # "open"
      BY <1>2 DEF Caller, ThreadRuns, Running
    <2>2. Len(frames) = 1
      <3>1. \A k \in 1..(Len(frames) - 1) : frames[k].at = "open"
        BY DEF IrqInv, NestedByUrgency
      <3>2. Len(frames) > 1 => 1 \in 1..(Len(frames) - 1) /\ 1 \in DOMAIN frames
        OBVIOUS
      <3>3. ~(Len(frames) > 1)
        BY <2>1, <3>1, <3>2
      <3> QED BY <1>2, <3>3, StackNonEmpty
    <2> QED BY <1>2, <2>1, <2>2, TopFacts DEF Allowed
  <1> QED BY <1>1, <1>2

LEMMA CallKeeps ==
  ASSUME IrqInv, Caller, NEW active \in SUBSET Id, SetActive(active),
         alt_irq' \in SUBSET Id, active \subseteq alt_irq',
         UNCHANGED <<pie, line, alt_priority_mask, frames, held>>
  PROVE  IrqInv'
  <1> USE IrqFacts DEF SetActive
  <1>1. IrqTypeOK' BY DEF IrqInv, IrqTypeOK
  <1>2. SectionsHold' BY DEF IrqInv, SectionsHold
  <1>3. NestedByUrgency'
    <2>1. frames = <<>> \/ Top.at = "isr"
      BY DEF Caller, ThreadRuns, Running
    <2>2. ienable' = alt_irq_active' \intersect alt_priority_mask'
      BY CallerSeesAll
    <2> QED BY <2>1, <2>2 DEF IrqInv, NestedByUrgency, Top
  <1>4. MasksOK' BY DEF IrqInv, MasksOK, Top, Allowed
  <1>5. ProcessorOK' BY DEF IrqInv, ProcessorOK, Top
  <1> QED BY <1>1, <1>2, <1>3, <1>4, <1>5 DEF IrqInv

LEMMA RegistrationKeeps == ASSUME IrqInv, Registration PROVE IrqInv'
  <1> USE IrqFacts
  <1>0. alt_irq_active \subseteq alt_irq
    BY DEF IrqInv, MasksOK
  <1>1. ASSUME NEW i \in Id, alt_irq_enable(i) PROVE IrqInv'
    <2>1. alt_irq_active \union {i} \in SUBSET Id /\ alt_irq_active \union {i} \subseteq alt_irq
      BY <1>0, <1>1 DEF alt_irq_enable
    <2> QED BY <1>1, <2>1, CallKeeps DEF alt_irq_enable
  <1>2. ASSUME NEW i \in Id, alt_irq_disable(i) PROVE IrqInv'
    <2>1. alt_irq_active \ {i} \in SUBSET Id /\ alt_irq_active \ {i} \subseteq alt_irq
      BY <1>0
    <2> QED BY <1>2, <2>1, CallKeeps DEF alt_irq_disable
  <1>3. ASSUME NEW i \in Id, NEW isr \in BOOLEAN, alt_iic_isr_register(i, isr) PROVE IrqInv'
    <2>1. CASE isr
      <3>1. /\ alt_irq_active \union {i} \in SUBSET Id /\ alt_irq' = alt_irq \union {i}
            /\ SetActive(alt_irq_active \union {i})
        BY <1>3, <2>1 DEF alt_iic_isr_register
      <3> QED BY <1>0, <1>3, <3>1, CallKeeps DEF alt_iic_isr_register
    <2>2. CASE ~isr
      <3>1. /\ alt_irq_active \ {i} \in SUBSET Id /\ alt_irq' = alt_irq \ {i}
            /\ SetActive(alt_irq_active \ {i})
        BY <1>3, <2>2 DEF alt_iic_isr_register
      <3> QED BY <1>0, <1>3, <3>1, CallKeeps DEF alt_iic_isr_register
    <2> QED BY <2>1, <2>2
  <1> QED BY <1>1, <1>2, <1>3 DEF Registration

\* A section that opens finds interrupts on if it is the outermost, off otherwise;
\* the one that closes puts back what it found.
LEMMA SectionKeeps == ASSUME IrqInv, Sections PROVE IrqInv'
  <1> USE IrqFacts
  <1>1. frames = <<>> /\ UNCHANGED <<line, masks, frames>> /\ (pie <=> held = <<>>)
    BY DEF Sections, alt_irq_disable_all, alt_irq_enable_all, ThreadRuns, IrqInv, ProcessorOK
  <1>2. CASE alt_irq_disable_all
    <2>1. held' = Append(held, pie) /\ ~pie' /\ pie' \in BOOLEAN
      BY <1>2 DEF alt_irq_disable_all
    <2>2. /\ held' \in Seq(BOOLEAN) /\ held' # <<>> /\ Len(held') = Len(held) + 1
          /\ \A k \in 1..Len(held) : held'[k] = held[k]
          /\ held'[Len(held) + 1] = pie
      BY <2>1, AppendProperties
    <2>3. \A k \in DOMAIN held' : held'[k] <=> k = 1
      <3>1. Len(held) \in Nat /\ DOMAIN held = 1..Len(held) /\ DOMAIN held' = 1..(Len(held) + 1)
        BY <2>2, LenProperties
      <3>2. held = <<>> <=> Len(held) = 0
        BY EmptySeq
      <3>3. \A k \in DOMAIN held : held[k] <=> k = 1
        BY DEF IrqInv, ProcessorOK
      <3> QED BY <1>1, <2>2, <3>1, <3>2, <3>3
    <2> QED BY <1>1, <2>1, <2>2, <2>3
          DEF IrqInv, IrqTypeOK, SectionsHold, NestedByUrgency, MasksOK, ProcessorOK, masks, Allowed
  <1>3. CASE alt_irq_enable_all
    <2>1. held # <<>> /\ pie' = held[Len(held)] /\ held' = Front(held)
      BY <1>3 DEF alt_irq_enable_all
    <2>2. Len(held) \in Nat /\ Len(held) > 0 /\ DOMAIN held = 1..Len(held)
      BY <2>1, EmptySeq, LenProperties
    <2>3. /\ held' \in Seq(BOOLEAN) /\ Len(held') = Len(held) - 1
          /\ \A k \in 1..(Len(held) - 1) : held'[k] = held[k]
      BY <2>1, <2>2, SubSeqProperties DEF Front
    <2>4. DOMAIN held' = 1..(Len(held) - 1) /\ (held' = <<>> <=> Len(held) = 1)
      BY <2>2, <2>3, EmptySeq, LenProperties
    <2>5. \A k \in DOMAIN held : held[k] <=> k = 1
      BY DEF IrqInv, ProcessorOK
    <2>6. pie' \in BOOLEAN /\ (pie' <=> held' = <<>>)
      BY <2>1, <2>2, <2>4, <2>5
    <2>7. \A k \in DOMAIN held' : held'[k] <=> k = 1
      BY <2>2, <2>3, <2>4, <2>5
    <2> QED BY <1>1, <2>3, <2>6, <2>7
          DEF IrqInv, IrqTypeOK, SectionsHold, NestedByUrgency, MasksOK, ProcessorOK, masks, Allowed
  <1> QED BY <1>2, <1>3 DEF Sections

-----------------------------------------------------------------------------
(* The clock's handler, and the invariant of the whole. *)

LEMMA ClockKeepsIrq ==
  ASSUME IrqInv, ClockBegin \/ ClockVisit \/ ClockEnd
  PROVE  IrqInv'
  <1> USE IrqFacts, TopFacts
  <1>1. frames # <<>> /\ Top.at \in {"isr", "open"}
    BY DEF ClockBegin, ClockVisit, ClockEnd, ClockRuns, Running
  <1>2. CASE ClockBegin
    <2>1. UNCHANGED <<pie, masks, frames, held>> /\ line' \subseteq Id
      BY <1>2 DEF ClockBegin
    <2> QED BY <1>1, <2>1 DEF IrqInv, IrqTypeOK, SectionsHold, NestedByUrgency, MasksOK,
                             ProcessorOK, Top, Allowed, masks
  <1>3. CASE ClockVisit
    BY <1>3 DEF ClockVisit, irqVars, masks, IrqInv, IrqTypeOK, SectionsHold, NestedByUrgency, MasksOK,
                ProcessorOK, Top, Allowed, alt_irq_pending
  <1>4. CASE ClockEnd
    <2> DEFINE f == [Top EXCEPT !.served = TRUE]
    <2>1. f \in Frame /\ f.at = Top.at /\ f.id = Top.id /\ f.mask = Top.mask
      BY <1>1 DEF Frame
    <2>2. frames' = WithTop(f) /\ UNCHANGED <<pie, line, masks, held>>
      BY <1>4 DEF ClockEnd
    <2> HIDE DEF f
    <2> QED BY <1>1, <2>1, <2>2, TopStep DEF masks
  <1> QED BY <1>2, <1>3, <1>4

LEMMA IrqInvariant == IrqInv /\ [Next]_vars => IrqInv'
  <1> SUFFICES ASSUME IrqInv, [Next]_vars PROVE IrqInv'
    OBVIOUS
  <1>1. CASE UNCHANGED irqVars
    BY <1>1 DEF irqVars, masks, IrqInv, IrqTypeOK, SectionsHold, NestedByUrgency, MasksOK,
                ProcessorOK, Top, Allowed, alt_irq_pending
  <1>2. CASE Interrupts
    BY <1>2, ExceptionKeeps, DispatchKeeps, LeaveKeeps, ServeKeeps, ReturnKeeps,
       InterruptibleKeeps, NonInterruptibleKeeps DEF Interrupts, Dispatcher, ServeOther
  <1>3. CASE ClockBegin \/ ClockVisit \/ ClockEnd
    BY <1>3, ClockKeepsIrq
  <1>4. CASE AlarmCalls
    <2>1. UNCHANGED irqVars
      BY <1>4 DEF AlarmCalls, AlarmInsert, AlarmStop, AlarmNote
    <2> QED BY <2>1, <1>1
  <1>5. CASE Others
    BY <1>5, RegistrationKeeps, SectionKeeps DEF Others
  <1>6. CASE Raised
    BY <1>6, RaiseKeeps DEF Raised
  <1> QED BY <1>1, <1>2, <1>3, <1>4, <1>5, <1>6 DEF Next, Cpu, vars

\* A tick goes on in the handler that began it, whatever interrupts it.
LEMMA TickStaysInHandler == IrqInv /\ TickInHandler /\ [Next]_vars => TickInHandler'
  <1> DEFINE Ticks(k) == /\ frames[k].id = Clock /\ ~frames[k].served
                         /\ frames[k].at \in {"isr", "open"}
             Goal == \E j \in DOMAIN frames' : Ticks(j)'
  <1> SUFFICES ASSUME IrqInv, TickInHandler, [Next]_vars, walk' # Outside
               PROVE  Goal
    BY DEF TickInHandler
  <1> USE IrqFacts
  <1>1. ASSUME walk # Outside, UNCHANGED frames PROVE Goal
    BY <1>1 DEF TickInHandler
  <1>2. CASE ClockBegin \/ ClockVisit
    <2>1. frames # <<>> /\ UNCHANGED frames /\ Ticks(Len(frames))
      BY <1>2 DEF ClockBegin, ClockVisit, ClockRuns, Running, Top, irqVars
    <2> QED BY <2>1, StackNonEmpty
  <1>3. CASE ClockEnd
    BY <1>3, AlarmAssumption DEF ClockEnd, TickEnd
  <1>4. CASE UNCHANGED vars \/ AlarmCalls \/ Others \/ Raised
    <2>1. UNCHANGED <<frames, walk>>
      <3>1. CASE UNCHANGED vars \/ Raised
        BY <3>1 DEF vars, irqVars, alarmVars, Raised, Raise
      <3>2. CASE AlarmCalls
        BY <3>2 DEF AlarmCalls, AlarmInsert, AlarmStop, AlarmNote, Start, alt_alarm_stop, irqVars, alarmVars
      <3>3. CASE Others
        BY <3>3 DEF Others, alarmVars, Registration, Sections, alt_irq_enable, alt_irq_disable,
                    alt_iic_isr_register, alt_irq_disable_all, alt_irq_enable_all
      <3> QED BY <1>4, <3>1, <3>2, <3>3
    <2> QED BY <2>1, <1>1
  <1>5. CASE Interrupts
    <2>1. PICK k \in 1..Len(frames) : Ticks(k)
      BY <1>5 DEF TickInHandler, Interrupts, alarmVars
    <2>2. frames # <<>> /\ Top = frames[Len(frames)] /\ Len(frames) > 0
      BY <2>1, StackNonEmpty DEF Top
    <2>3. CASE Exception
      <3>1. frames' = Append(frames, [at |-> "enter", id |-> NIRQ, served |-> FALSE, mask |-> {}])
        BY <2>3 DEF Exception
      <3>2. [at |-> "enter", id |-> NIRQ, served |-> FALSE, mask |-> {}] \in Frame
        BY DEF Frame
      <3>3. k \in DOMAIN frames' /\ frames'[k] = frames[k]
        BY <3>1, <3>2, Pushed
      <3> QED BY <3>3, <2>1
    <2>4. CASE Leave
      <3>1. k # Len(frames) /\ frames' = Front(frames)
        BY <2>1, <2>2, <2>4 DEF Leave, Running
      <3>2. k \in 1..(Len(frames) - 1)
        BY ONLY <3>1, <2>2, k \in 1..Len(frames), Len(frames) \in Nat
      <3>3. k \in DOMAIN frames' /\ frames'[k] = frames[k]
        BY ONLY <3>1, <3>2, <2>2, frames \in Seq(Frame), Popped
      <3> QED BY <3>3, <2>1
    <2>5. ASSUME NEW f, frames' = [frames EXCEPT ![Len(frames)] = f], k # Len(frames) PROVE Goal
      <3>1. k \in DOMAIN frames' /\ frames'[k] = frames[k]
        BY <2>5
      <3> QED BY <3>1, <2>1
    <2>6. CASE Dispatch \/ ServeOther \/ Return \/ alt_irq_non_interruptible
      <3>1. k # Len(frames)
        <4>1. \/ Top.at \notin {"isr", "open"} \/ Top.served \/ Top.id # Clock
          BY <2>6 DEF Dispatch, ServeOther, Return, alt_irq_non_interruptible, Running
        <4> QED BY <4>1, <2>1, <2>2
      <3>2. \E f : frames' = [frames EXCEPT ![Len(frames)] = f]
        BY <2>6 DEF Dispatch, ServeOther, Serve, Return, alt_irq_non_interruptible, WithTop
      <3> QED BY <3>1, <3>2, <2>5
    <2>7. CASE alt_irq_interruptible
      <3>1. frames' = [frames EXCEPT ![Len(frames)] = [Top EXCEPT !.at = "open", !.mask = alt_priority_mask]]
        BY <2>7 DEF alt_irq_interruptible, WithTop
      <3>2. CASE k = Len(frames)
        <4>1. frames'[k] = [Top EXCEPT !.at = "open", !.mask = alt_priority_mask] /\ k \in DOMAIN frames'
          BY <3>1, <3>2
        <4>2. Top \in Frame
          BY <2>2, StackNonEmpty
        <4>3. frames'[k].id = Top.id /\ frames'[k].served = Top.served /\ frames'[k].at = "open"
          BY <4>1, <4>2 DEF Frame
        <4> QED BY <4>1, <4>3, <2>1, <2>2, <3>2
      <3> QED BY <3>1, <3>2, <2>5
    <2> QED BY <1>5, <2>3, <2>4, <2>6, <2>7 DEF Interrupts, Dispatcher
  <1> QED BY <1>2, <1>3, <1>4, <1>5 DEF Next, Cpu

\* The thread runs, with interrupts off, while one of its calls is under way.
LEMMA ThreadRunsAlone ==
  ASSUME IrqInv, held # <<>> PROVE frames = <<>> /\ ~Taken
  BY DEF IrqInv, SectionsHold, Taken

LEMMA NoTickInSection ==
  ASSUME IrqInv, TickInHandler, InSection PROVE walk = Outside
  <1>1. frames = <<>>
    BY DEF InSection, ThreadRuns
  <1>2. DOMAIN frames = {}
    BY <1>1
  <1> QED BY <1>2 DEF TickInHandler

\* Between the two steps of alt_alarm_start nothing moves the counter or the list.
LEMMA StartingUndisturbed == IrqInv /\ StartingOK /\ [Next]_vars => StartingOK'
  <1> SUFFICES ASSUME IrqInv, StartingOK, [Next]_vars, starting' # None
               PROVE  /\ held' # <<>> /\ starting'.now = alt_nticks'
                      /\ starting'.alarm \in Alarm /\ starting'.nticks \in Delays
                      /\ ~Listed(links', starting'.alarm)
    BY DEF StartingOK, Listed
  <1>1. CASE starting # None
    <2>1. frames = <<>> /\ ~Taken
      BY <1>1, ThreadRunsAlone DEF StartingOK
    <2>2. ~Cpu
      BY <2>1 DEF Cpu, Interrupts, ClockBegin, ClockVisit, ClockEnd, ClockRuns, Running, Dispatcher,
                  Exception, Dispatch, Leave, ServeOther, Serve, Return, alt_irq_interruptible,
                  alt_irq_non_interruptible
    <2>3. CASE UNCHANGED vars \/ Raised
      BY <1>1, <2>3 DEF vars, irqVars, alarmVars, Raised, Raise, StartingOK
    <2>4. CASE Others
      BY <1>1, <2>4 DEF Others, alarmVars, StartingOK
    <2>5. CASE AlarmCalls
      BY <1>1, <2>5 DEF AlarmCalls, AlarmInsert, AlarmStop, AlarmNote
    <2> QED BY <2>2, <2>3, <2>4, <2>5 DEF Next
  <1>2. CASE starting = None
    <2>1. PICK a \in Alarm, n \in Delays : AlarmNote(a, n)
      BY <1>2 DEF Next, Cpu, Interrupts, ClockBegin, ClockVisit, ClockEnd, AlarmCalls, AlarmInsert,
                  AlarmStop, Others, Raised, vars
    <2> QED BY <2>1 DEF AlarmNote, InSection, irqVars, alarmVars
  <1> QED BY <1>1, <1>2

-----------------------------------------------------------------------------
(* The theorems. *)

LEMMA Invariance == Spec => []IInv
  <1>1. Init => IInv
    BY IrqStarts DEF Init, IInv, TickInHandler, StartingOK, AlarmInit
  <1>2. IInv /\ [Next]_vars => IInv'
    BY IrqInvariant, TickStaysInHandler, StartingUndisturbed DEF IInv
  <1> QED BY <1>1, <1>2, PTL DEF Spec

\* While the thread is in a critical section no handler runs and none starts, for any
\* depth of sections and any number of interrupts (alt_irq.h: alt_irq_disable_all).
THEOREM SectionsAreHeld == Spec => []SectionsHold
  <1>1. IInv => SectionsHold
    BY DEF IInv, IrqInv
  <1> QED BY <1>1, Invariance, PTL

\* Handlers nest strictly by urgency and only in those that asked for it, and the
\* dispatcher never looks for a pending interrupt in vain (alt_irq_handler.c).
THEOREM HandlersNest == Spec => []NestedByUrgency
  <1>1. IInv => NestedByUrgency
    BY DEF IInv, IrqInv
  <1> QED BY <1>1, Invariance, PTL

\* The interrupted and interrupting steps of the clock's handler and of the thread's
\* calls amount to whole ticks and whole calls (alt_tick.c, alt_alarm_start.c).
THEOREM AlarmsAreAtomic == Spec => ImplementsAlarms
  <1>1. Init => AlarmInit
    BY DEF Init
  <1>2. ASSUME IInv, [Next]_vars PROVE [AlarmNext]_alarmVars
    <2>1. CASE ClockBegin \/ ClockVisit \/ ClockEnd
      BY <2>1 DEF ClockBegin, ClockVisit, ClockEnd, AlarmNext, Walk
    <2>2. CASE AlarmInsert
      <3>1. walk = Outside /\ starting # None
        BY <1>2, <2>2, NoTickInSection DEF IInv, AlarmInsert
      <3>2. starting.alarm \in Alarm /\ starting.nticks \in Delays /\ starting.now = alt_nticks
        BY <1>2, <3>1 DEF IInv, StartingOK
      <3>3. alt_alarm_start(starting.alarm, starting.nticks)
        BY <2>2, <3>2 DEF AlarmInsert, alt_alarm_start
      <3> QED BY <3>1, <3>2, <3>3 DEF AlarmNext, Call
    <2>3. ASSUME NEW a \in Alarm, AlarmStop(a) PROVE AlarmNext
      <3>1. walk = Outside
        BY <1>2, <2>3, NoTickInSection DEF IInv, AlarmStop
      <3> QED BY <2>3, <3>1 DEF AlarmStop, AlarmNext, Call
    <2>4. ASSUME NEW a \in Alarm, NEW n \in Delays, AlarmNote(a, n) PROVE UNCHANGED alarmVars
      BY <2>4 DEF AlarmNote
    <2>5. CASE UNCHANGED vars \/ Interrupts \/ Others \/ Raised
      BY <2>5 DEF vars, Interrupts, Others, Raised
    <2> QED BY <1>2, <2>1, <2>2, <2>3, <2>4, <2>5 DEF Next, Cpu, AlarmCalls
  <1> QED BY <1>1, <1>2, Invariance, PTL DEF Spec, AlarmSpec, ImplementsAlarms

-----------------------------------------------------------------------------
(* The list of alarms. *)

Circle(l) ==
  /\ l \in [previous : [Link -> Link], next : [Link -> Link]]
  /\ \A x \in Link : l.previous[l.next[x]] = x /\ l.next[l.previous[x]] = x

LEMMA CircleFacts ==
  ASSUME NEW l, Circle(l)
  PROVE  /\ l.previous \in [Link -> Link] /\ l.next \in [Link -> Link]
         /\ \A x \in Link : l.previous[l.next[x]] = x /\ l.next[l.previous[x]] = x
         /\ ListHead \in Link /\ Alarm \subseteq Link /\ ListHead \notin Alarm
  BY AlarmAssumption DEF Circle, Link

\* The two operations, link by link.
LEMMA Inserted ==
  ASSUME NEW l, Circle(l), NEW a \in Alarm, ~Listed(l, a), NEW m, m = alt_llist_insert(l, a)
  PROVE  /\ m.previous \in [Link -> Link] /\ m.next \in [Link -> Link]
         /\ m = [previous |-> m.previous, next |-> m.next]
         /\ l.next[ListHead] # a /\ l.next[a] = a /\ l.previous[a] = a
         /\ \A x \in Link :
              /\ m.previous[x] = IF x = l.next[ListHead] THEN a ELSE IF x = a THEN ListHead ELSE l.previous[x]
              /\ m.next[x] = IF x = ListHead THEN a ELSE IF x = a THEN l.next[ListHead] ELSE l.next[x]
  <1> DEFINE p == l.previous
             n == l.next
  <1>1. /\ p \in [Link -> Link] /\ n \in [Link -> Link] /\ a \in Link /\ ListHead \in Link /\ a # ListHead
        /\ \A x \in Link : p[n[x]] = x /\ n[p[x]] = x
    BY CircleFacts
  <1>2. n[a] = a /\ p[a] = a
    BY <1>1 DEF Listed
  <1>3. n[ListHead] # a /\ n[ListHead] \in Link
    BY <1>1, <1>2
  <1>4. /\ m.previous = [p EXCEPT ![a] = ListHead, ![n[ListHead]] = a]
        /\ m.next = [n EXCEPT ![a] = n[ListHead], ![ListHead] = a]
        /\ m = [previous |-> m.previous, next |-> m.next]
    BY DEF alt_llist_insert
  <1> HIDE DEF p, n
  <1>5. m.previous \in [Link -> Link] /\ m.next \in [Link -> Link]
    BY <1>1, <1>3, <1>4
  <1>6. \A x \in Link : /\ m.previous[x] = IF x = n[ListHead] THEN a ELSE IF x = a THEN ListHead ELSE p[x]
                        /\ m.next[x] = IF x = ListHead THEN a ELSE IF x = a THEN n[ListHead] ELSE n[x]
    BY <1>1, <1>3, <1>4
  <1> QED BY <1>2, <1>3, <1>4, <1>5, <1>6 DEF p, n

LEMMA Removed ==
  ASSUME NEW l, Circle(l), NEW a \in Alarm, NEW m, m = alt_llist_remove(l, a)
  PROVE  /\ m.previous \in [Link -> Link] /\ m.next \in [Link -> Link]
         /\ m = [previous |-> m.previous, next |-> m.next]
         /\ \A x \in Link :
              /\ m.previous[x] = IF x = a THEN a ELSE IF x = l.next[a] THEN l.previous[a] ELSE l.previous[x]
              /\ m.next[x] = IF x = a THEN a ELSE IF x = l.previous[a] THEN l.next[a] ELSE l.next[x]
  <1> DEFINE p == l.previous
             n == l.next
  <1>1. p \in [Link -> Link] /\ n \in [Link -> Link] /\ a \in Link
    BY CircleFacts
  <1>2. /\ m.previous = [p EXCEPT ![n[a]] = p[a], ![a] = a]
        /\ m.next = [n EXCEPT ![p[a]] = n[a], ![a] = a]
        /\ m = [previous |-> m.previous, next |-> m.next]
    BY DEF alt_llist_remove
  <1> HIDE DEF p, n
  <1>3. m.previous \in [Link -> Link] /\ m.next \in [Link -> Link]
    BY <1>1, <1>2
  <1>4. \A x \in Link : /\ m.previous[x] = IF x = a THEN a ELSE IF x = n[a] THEN p[a] ELSE p[x]
                        /\ m.next[x] = IF x = a THEN a ELSE IF x = p[a] THEN n[a] ELSE n[x]
    BY <1>1, <1>2
  <1> QED BY <1>2, <1>3, <1>4 DEF p, n

LEMMA InsertKeepsCircle ==
  ASSUME NEW l, Circle(l), NEW a \in Alarm, ~Listed(l, a)
  PROVE  Circle(alt_llist_insert(l, a))
  <1> DEFINE m == alt_llist_insert(l, a)
  <1> HIDE DEF m
  <1>1. /\ m.previous \in [Link -> Link] /\ m.next \in [Link -> Link]
        /\ m = [previous |-> m.previous, next |-> m.next]
        /\ l.next[ListHead] # a /\ l.next[a] = a /\ l.previous[a] = a
        /\ \A x \in Link :
             /\ m.previous[x] = IF x = l.next[ListHead] THEN a ELSE IF x = a THEN ListHead ELSE l.previous[x]
             /\ m.next[x] = IF x = ListHead THEN a ELSE IF x = a THEN l.next[ListHead] ELSE l.next[x]
    BY Inserted DEF m
  <1>2. /\ a \in Link /\ ListHead \in Link /\ a # ListHead
        /\ l.previous \in [Link -> Link] /\ l.next \in [Link -> Link]
        /\ \A x \in Link : l.previous[l.next[x]] = x /\ l.next[l.previous[x]] = x
    BY CircleFacts
  <1> DEFINE p == l.previous
             n == l.next
  <1>3. p \in [Link -> Link] /\ n \in [Link -> Link] /\ \A x \in Link : p[n[x]] = x /\ n[p[x]] = x
    BY <1>2
  <1>4. ASSUME NEW x \in Link PROVE m.previous[m.next[x]] = x /\ m.next[m.previous[x]] = x
    <2> HIDE DEF p, n
    <2>1. /\ n[ListHead] # a /\ n[a] = a /\ p[a] = a
          /\ \A y \in Link :
               /\ m.previous[y] = IF y = n[ListHead] THEN a ELSE IF y = a THEN ListHead ELSE p[y]
               /\ m.next[y] = IF y = ListHead THEN a ELSE IF y = a THEN n[ListHead] ELSE n[y]
      BY <1>1 DEF p, n
    <2>2. a \in Link /\ ListHead \in Link /\ a # ListHead /\ n[ListHead] \in Link /\ x \in Link
      BY <1>2, <1>3
    <2> QED BY ONLY <1>3, <2>1, <2>2
  <1>5. m \in [previous : [Link -> Link], next : [Link -> Link]]
    BY <1>1
  <1> QED BY <1>4, <1>5 DEF Circle, m

LEMMA RemoveKeepsCircle ==
  ASSUME NEW l, Circle(l), NEW a \in Alarm
  PROVE  Circle(alt_llist_remove(l, a)) /\ ~Listed(alt_llist_remove(l, a), a)
  <1> DEFINE m == alt_llist_remove(l, a)
  <1> HIDE DEF m
  <1>1. /\ m.previous \in [Link -> Link] /\ m.next \in [Link -> Link]
        /\ m = [previous |-> m.previous, next |-> m.next]
        /\ \A x \in Link :
             /\ m.previous[x] = IF x = a THEN a ELSE IF x = l.next[a] THEN l.previous[a] ELSE l.previous[x]
             /\ m.next[x] = IF x = a THEN a ELSE IF x = l.previous[a] THEN l.next[a] ELSE l.next[x]
    BY Removed DEF m
  <1>2. /\ a \in Link /\ ListHead \in Link /\ a # ListHead
        /\ l.previous \in [Link -> Link] /\ l.next \in [Link -> Link]
        /\ \A x \in Link : l.previous[l.next[x]] = x /\ l.next[l.previous[x]] = x
    BY CircleFacts
  <1> DEFINE p == l.previous
             n == l.next
  <1>3. p \in [Link -> Link] /\ n \in [Link -> Link] /\ \A x \in Link : p[n[x]] = x /\ n[p[x]] = x
    BY <1>2
  <1>4. ASSUME NEW x \in Link PROVE m.previous[m.next[x]] = x /\ m.next[m.previous[x]] = x
    <2> HIDE DEF p, n
    <2>1. \A y \in Link :
            /\ m.previous[y] = IF y = a THEN a ELSE IF y = n[a] THEN p[a] ELSE p[y]
            /\ m.next[y] = IF y = a THEN a ELSE IF y = p[a] THEN n[a] ELSE n[y]
      BY <1>1 DEF p, n
    <2> QED BY <1>2, <1>3, <2>1
  <1>5. m \in [previous : [Link -> Link], next : [Link -> Link]]
    BY <1>1
  <1>6. m.next[a] = a
    BY <1>1, CircleFacts
  <1> QED BY <1>4, <1>5, <1>6 DEF Circle, Listed, m

\* What a callback may have done, field by field.
LEMMA EffectIs ==
  ASSUME NEW e \in Effects
  PROVE  \/ e.links = links /\ e.alarm = Undisturbed.alarm /\ e.due = due
         \/ \E b \in Alarm : /\ e.links = alt_llist_remove(links, b)
                             /\ e.alarm = Undisturbed.alarm
                             /\ e.due = [due EXCEPT ![b] = 0]
         \/ \E b \in Alarm, n \in Delays :
              /\ ~Listed(links, b) /\ e.links = alt_llist_insert(links, b)
              /\ e.alarm = [Undisturbed.alarm EXCEPT ![b] = At(alt_nticks, n + 1)]
              /\ e.due = [due EXCEPT ![b] = n + 1]
  <1> DEFINE seen == [alarm EXCEPT ![walk] = Seen(@, alt_nticks)]
  <1>1. Undisturbed.alarm = seen
    BY DEF Undisturbed
  <1>2. CASE e = Undisturbed
    BY <1>2 DEF Undisturbed
  <1>3. ASSUME NEW b \in Alarm,
               e = Stopping(b)
        PROVE  /\ e.links = alt_llist_remove(links, b) /\ e.alarm = Undisturbed.alarm
               /\ e.due = [due EXCEPT ![b] = 0]
    <2> HIDE DEF seen
    <2>1. Undisturbed = [links |-> links, alarm |-> seen, due |-> due]
      BY DEF Undisturbed, seen
    <2> QED BY <1>3, <2>1 DEF Stopping
  <1>4. ASSUME NEW b \in Alarm, NEW n \in Delays,
               e = Starting(b, n)
        PROVE  /\ e.links = alt_llist_insert(links, b)
               /\ e.alarm = [Undisturbed.alarm EXCEPT ![b] = At(alt_nticks, n + 1)]
               /\ e.due = [due EXCEPT ![b] = n + 1]
    <2> HIDE DEF seen
    <2>1. Undisturbed = [links |-> links, alarm |-> seen, due |-> due]
      BY DEF Undisturbed, seen
    <2> QED BY <1>4, <2>1 DEF Starting
  <1>5. \/ e = Undisturbed
        \/ \E b \in Alarm : e = Stopping(b)
        \/ \E b \in Alarm, n \in Delays : ~Listed(links, b) /\ e = Starting(b, n)
    BY DEF Effects
  <1> HIDE DEF seen
  <1> QED BY <1>2, <1>3, <1>4, <1>5

\* Whatever callbacks start and stop, a tick always walks over a closed list: its two
\* directions agree, and an alarm that leaves it points to itself (alt_llist.h).
THEOREM ListIsACircle == AlarmSpec => []Circle(links)
  <1>1. AlarmInit => Circle(links)
    BY DEF AlarmInit, Circle
  <1>2. ASSUME Circle(links), [AlarmNext]_alarmVars PROVE Circle(links)'
    <2>1. CASE UNCHANGED links
      BY <1>2, <2>1 DEF Circle
    <2>2. CASE TickBegin \/ TickPasses \/ TickEnd
      BY <2>1, <2>2 DEF TickBegin, TickPasses, TickEnd
    <2>3. CASE TickFires
      <3>1. PICK e \in Effects : links' = e.links \/ links' = alt_llist_remove(e.links, walk)
        BY <2>3 DEF TickFires, Answered
      <3>2. Circle(e.links)
        <4>1. CASE e.links = links
          BY <1>2, <4>1
        <4>2. ASSUME NEW a \in Alarm, e.links = alt_llist_remove(links, a) PROVE Circle(e.links)
          BY <1>2, <4>2, RemoveKeepsCircle
        <4>3. ASSUME NEW a \in Alarm, ~Listed(links, a), e.links = alt_llist_insert(links, a)
              PROVE  Circle(e.links)
          BY <1>2, <4>3, InsertKeepsCircle
        <4> QED BY <4>1, <4>2, <4>3, EffectIs
      <3>3. walk \in Alarm
        BY <2>3 DEF TickFires, Visiting
      <3>4. links' = e.links => Circle(links')
        BY <3>2
      <3>5. links' = alt_llist_remove(e.links, walk) => Circle(links')
        BY <3>2, <3>3, RemoveKeepsCircle
      <3> QED BY <3>1, <3>4, <3>5 DEF Circle
    <2>4. ASSUME NEW a \in Alarm, alt_alarm_stop(a) PROVE Circle(links)'
      <3>1. Circle(links')
        BY <1>2, <2>4, RemoveKeepsCircle DEF alt_alarm_stop
      <3> QED BY <3>1 DEF Circle
    <2>5. ASSUME NEW a \in Alarm, NEW n \in Delays, alt_alarm_start(a, n) PROVE Circle(links)'
      <3>1. Circle(links')
        BY <1>2, <2>5, InsertKeepsCircle DEF alt_alarm_start, Start
      <3> QED BY <3>1 DEF Circle
    <2> QED BY <1>2, <2>1, <2>2, <2>3, <2>4, <2>5 DEF AlarmNext, Walk, Call, alarmVars
  <1> QED BY <1>1, <1>2, PTL DEF AlarmSpec

\* The same for the list as interrupts and threads share it.
THEOREM SharedListIsACircle == Spec => []Circle(links)
  <1>1. ImplementsAlarms => []Circle(links)
    BY ListIsACircle DEF ImplementsAlarms
  <1> QED BY <1>1, AlarmsAreAtomic, PTL

-----------------------------------------------------------------------------
(* One circle only: alarms on the list come before one another up to the     *)
(* list's head, so none is on a circle of its own.                           *)

Ordered(l, r) ==
  \A x \in Alarm : Listed(l, x) => /\ r[x] < r[ListHead]
                                   /\ l.next[x] # ListHead => r[l.next[x]] < r[x]

LEMMA InsertKeepsOrder ==
  ASSUME NEW l, Circle(l), NEW r \in [Link -> Nat], Ordered(l, r), NEW a \in Alarm, ~Listed(l, a)
  PROVE  \E q \in [Link -> Nat] : Ordered(alt_llist_insert(l, a), q)
  <1> DEFINE m == alt_llist_insert(l, a)
             q == [x \in Link |-> IF x = ListHead THEN r[x] + 1 ELSE IF x = a THEN r[ListHead] ELSE r[x]]
  <1> HIDE DEF m
  <1>1. /\ l.next[ListHead] # a /\ l.next[a] = a /\ l.previous[a] = a
        /\ \A x \in Link : m.next[x] = IF x = ListHead THEN a ELSE IF x = a THEN l.next[ListHead] ELSE l.next[x]
    BY Inserted DEF m
  <1>2. /\ q \in [Link -> Nat]
        /\ \A x \in Link : q[x] = IF x = ListHead THEN r[x] + 1 ELSE IF x = a THEN r[ListHead] ELSE r[x]
    BY CircleFacts
  <1> HIDE DEF q
  <1>3. ASSUME NEW x \in Alarm, Listed(m, x)
        PROVE  q[x] < q[ListHead] /\ (m.next[x] # ListHead => q[m.next[x]] < q[x])
    <2>1. x \in Link /\ x # ListHead /\ a \in Link /\ a # ListHead /\ l.next[x] \in Link
          /\ l.next[ListHead] \in Link
      BY CircleFacts
    <2>2. CASE x = a
      <3> DEFINE y == l.next[ListHead]
      <3>1. m.next[x] = y /\ q[x] = r[ListHead] /\ q[ListHead] = r[ListHead] + 1
        BY <1>1, <1>2, <2>1, <2>2, CircleFacts
      <3>2. ASSUME y # ListHead PROVE q[y] < q[x]
        <4>1. y \in Alarm /\ q[y] = r[y]
          BY <1>1, <1>2, <2>1, <3>2 DEF Link
        <4>2. Listed(l, y)
          BY <2>1, <3>2, CircleFacts DEF Listed
        <4> QED BY <3>1, <4>1, <4>2 DEF Ordered
      <3>3. r[ListHead] \in Nat
        BY CircleFacts
      <3> QED BY <3>1, <3>2, <3>3
    <2>3. CASE x # a
      <3>1. m.next[x] = l.next[x] /\ Listed(l, x)
        BY <1>1, <1>3, <2>1, <2>3 DEF Listed
      <3>2. l.next[x] # a
        BY <1>1, <2>1, <2>3, CircleFacts
      <3>3. r[x] < r[ListHead] /\ (l.next[x] # ListHead => r[l.next[x]] < r[x])
        BY <3>1 DEF Ordered
      <3>4. /\ q[x] = r[x] /\ q[ListHead] = r[ListHead] + 1
            /\ l.next[x] # ListHead => q[l.next[x]] = r[l.next[x]]
        BY <1>2, <2>1, <2>3, <3>2, CircleFacts
      <3>5. r[x] \in Nat /\ r[ListHead] \in Nat
        BY <2>1, CircleFacts
      <3> QED BY <3>1, <3>3, <3>4, <3>5
    <2> QED BY <2>2, <2>3
  <1> QED BY <1>2, <1>3 DEF Ordered, m

LEMMA RemoveKeepsOrder ==
  ASSUME NEW l, Circle(l), NEW r \in [Link -> Nat], Ordered(l, r), NEW a \in Alarm
  PROVE  Ordered(alt_llist_remove(l, a), r)
  <1> DEFINE m == alt_llist_remove(l, a)
  <1> HIDE DEF m
  <1>1. \A x \in Link : m.next[x] = IF x = a THEN a ELSE IF x = l.previous[a] THEN l.next[a] ELSE l.next[x]
    BY Removed DEF m
  <1>2. ASSUME NEW x \in Alarm, Listed(m, x)
        PROVE  r[x] < r[ListHead] /\ (m.next[x] # ListHead => r[m.next[x]] < r[x])
    <2>1. x \in Link /\ x # a /\ a \in Link /\ x # ListHead
      BY <1>1, <1>2, CircleFacts DEF Listed
    <2>2. CASE x = l.previous[a]
      <3>1. m.next[x] = l.next[a] /\ l.next[x] = a /\ a # ListHead /\ l.next[a] \in Link
        BY <1>1, <2>1, <2>2, CircleFacts
      <3>2. Listed(l, x) /\ Listed(l, a)
        BY <2>1, <2>2, <3>1, CircleFacts DEF Listed
      <3> QED BY <2>1, <3>1, <3>2 DEF Ordered
    <2>3. CASE x # l.previous[a]
      BY <1>1, <1>2, <2>1, <2>3 DEF Ordered, Listed
    <2> QED BY <2>2, <2>3
  <1> QED BY <1>2 DEF Ordered, m

-----------------------------------------------------------------------------
(* What a walk has still to visit, when w is the next.                       *)

Unvisited(l, U, w) ==
  /\ U \subseteq Alarm
  /\ \A x \in U : /\ Listed(l, x) /\ l.next[x] \in U \union {ListHead}
                  /\ x = w \/ l.previous[x] \in U
  /\ w \in Alarm => w \in U /\ l.previous[w] \notin U

\* At first, everything.
LEMMA WalkStarts ==
  ASSUME NEW l, Circle(l)
  PROVE  Unvisited(l, {a \in Alarm : Listed(l, a)}, l.next[ListHead])
  <1> DEFINE U == {a \in Alarm : Listed(l, a)}
             w == l.next[ListHead]
  <1>1. ASSUME NEW x \in U
        PROVE  /\ l.next[x] \in U \union {ListHead}
               /\ x = w \/ l.previous[x] \in U
    <2>1. /\ x \in Alarm /\ x \in Link /\ l.next[x] # x /\ l.next[x] \in Link /\ l.previous[x] \in Link
          /\ l.previous[l.next[x]] = x /\ l.next[l.previous[x]] = x
      BY CircleFacts DEF Listed
    <2>2. l.next[x] \in U \union {ListHead}
      BY <2>1, CircleFacts DEF Listed, Link
    <2>3. x = w \/ l.previous[x] \in U
      BY <2>1, CircleFacts DEF Listed, Link
    <2> QED BY <2>2, <2>3
  <1>2. w \in Alarm => w \in U /\ l.previous[w] \notin U
    BY CircleFacts DEF Listed
  <1> QED BY <1>1, <1>2 DEF Unvisited

\* The walk goes on.
LEMMA WalkMoves ==
  ASSUME NEW l, Circle(l), NEW U, NEW w \in Alarm, Unvisited(l, U, w)
  PROVE  /\ Unvisited(l, U \ {w}, l.next[w])
         /\ Listed(l, w) /\ w # l.next[w] /\ l.next[w] \in Link
         /\ l.previous[l.next[w]] = w
  <1>1. w \in U /\ Listed(l, w) /\ w \in Link /\ w # l.next[w] /\ l.previous[l.next[w]] = w /\ l.next[w] \in Link
    BY CircleFacts DEF Unvisited, Listed
  <1>2. ASSUME NEW x \in U \ {w}
        PROVE  /\ l.next[x] \in (U \ {w}) \union {ListHead}
               /\ x = l.next[w] \/ l.previous[x] \in U \ {w}
    <2>1. x \in Link /\ l.previous[l.next[x]] = x /\ l.next[l.previous[x]] = x
      BY CircleFacts DEF Unvisited
    <2>2. l.next[x] # w
      BY <2>1 DEF Unvisited
    <2> QED BY <2>1, <2>2 DEF Unvisited
  <1>3. l.next[w] \in Alarm => l.next[w] \in U \ {w}
    BY <1>1, CircleFacts DEF Unvisited
  <1> QED BY <1>1, <1>2, <1>3 DEF Unvisited

\* An alarm that is started meanwhile stands behind.
LEMMA WalkInsert ==
  ASSUME NEW l, Circle(l), NEW U, NEW w \in Link, Unvisited(l, U, w),
         w \in Alarm => l.previous[w] # ListHead, NEW a \in Alarm, ~Listed(l, a)
  PROVE  Unvisited(alt_llist_insert(l, a), U, w) /\ a \notin U
  <1> DEFINE m == alt_llist_insert(l, a)
             first == l.next[ListHead]
  <1> HIDE DEF m
  <1>1. /\ first # a /\ l.next[a] = a /\ l.previous[a] = a
        /\ \A x \in Link :
             /\ m.previous[x] = IF x = first THEN a ELSE IF x = a THEN ListHead ELSE l.previous[x]
             /\ m.next[x] = IF x = ListHead THEN a ELSE IF x = a THEN first ELSE l.next[x]
    BY Inserted DEF m
  <1>2. a \notin U /\ ListHead \notin U /\ U \subseteq Link
    BY CircleFacts DEF Unvisited
  <1>3. first \notin U
    BY <1>2, CircleFacts DEF Unvisited
  <1>4. ASSUME NEW x \in U
        PROVE  /\ Listed(m, x) /\ m.next[x] \in U \union {ListHead}
               /\ x = w \/ m.previous[x] \in U
    BY <1>1, <1>2, <1>3 DEF Unvisited, Listed
  <1>5. w \in Alarm => w \in U /\ m.previous[w] \notin U
    BY <1>1, <1>2, <1>3 DEF Unvisited
  <1> QED BY <1>2, <1>4, <1>5 DEF Unvisited, m

\* One that is stopped is not visited any more, unless it was the next.
LEMMA WalkRemove ==
  ASSUME NEW l, Circle(l), NEW r \in [Link -> Nat], Ordered(l, r),
         NEW U, NEW w \in Link, Unvisited(l, U, w), NEW a \in Alarm, a # w
  PROVE  Unvisited(alt_llist_remove(l, a), U \ {a}, w)
  <1> DEFINE m == alt_llist_remove(l, a)
             p == l.previous[a]
             n == l.next[a]
  <1> HIDE DEF m
  <1>1. \A x \in Link :
          /\ m.previous[x] = IF x = a THEN a ELSE IF x = n THEN p ELSE l.previous[x]
          /\ m.next[x] = IF x = a THEN a ELSE IF x = p THEN n ELSE l.next[x]
    BY Removed DEF m
  <1>2. /\ ListHead \notin U /\ U \subseteq Link /\ a \in Link /\ a # ListHead /\ p \in Link /\ n \in Link
        /\ l.next[p] = a /\ l.previous[n] = a
    BY CircleFacts DEF Unvisited
  <1>3. ASSUME NEW x \in U \ {a}
        PROVE  /\ Listed(m, x) /\ m.next[x] \in (U \ {a}) \union {ListHead}
               /\ x = w \/ m.previous[x] \in U \ {a}
    <2>1. /\ x \in Link /\ x \in Alarm /\ Listed(l, x) /\ l.next[x] \in U \union {ListHead}
          /\ x = w \/ l.previous[x] \in U
          /\ l.next[l.previous[x]] = x /\ l.previous[l.next[x]] = x
      BY <1>2, CircleFacts DEF Unvisited
    <2>2. CASE x = p
      <3>1. a \in U /\ Listed(l, a) /\ n \in U \union {ListHead} /\ n # a
        BY <1>2, <2>1, <2>2 DEF Unvisited, Listed
      <3>2. n # x
        <4>1. r[a] < r[x] /\ r[a] \in Nat /\ r[x] \in Nat
          BY <1>2, <2>1, <2>2 DEF Ordered
        <4>2. n # ListHead => r[n] < r[a] /\ r[n] \in Nat
          BY <1>2, <3>1 DEF Ordered
        <4> QED BY <1>2, <2>1, <4>1, <4>2
      <3>3. m.next[x] = n /\ Listed(m, x)
        BY <1>1, <2>1, <2>2, <3>2 DEF Listed
      <3>4. x = w \/ m.previous[x] \in U \ {a}
        BY <1>1, <1>2, <2>1, <2>2, <3>2
      <3> QED BY <3>1, <3>3, <3>4
    <2>3. CASE x # p
      <3>1. m.next[x] = l.next[x] /\ l.next[x] # a /\ Listed(m, x)
        BY <1>1, <1>2, <2>1, <2>3 DEF Listed
      <3>2. x = w \/ m.previous[x] \in U \ {a}
        <4>1. CASE x = n
          <5>1. x = w \/ (a \in U /\ p \in U)
            BY <1>2, <2>1, <4>1 DEF Unvisited
          <5>2. a \in U => p # a
            BY <1>2 DEF Unvisited, Listed
          <5> QED BY <1>1, <2>1, <4>1, <5>1, <5>2
        <4>2. CASE x # n
          BY <1>1, <1>2, <2>1, <4>2
        <4> QED BY <4>1, <4>2
      <3> QED BY <2>1, <3>1, <3>2
    <2> QED BY <2>2, <2>3
  <1>4. w \in Alarm => w \in U \ {a} /\ m.previous[w] \notin U \ {a}
    <2> SUFFICES ASSUME w \in Alarm PROVE w \in U /\ m.previous[w] \notin U
      OBVIOUS
    <2>1. w \in U /\ l.previous[w] \notin U
      BY DEF Unvisited
    <2>2. CASE w = n
      <3>1. a \notin U /\ m.previous[w] = p
        BY <1>1, <1>2, <2>1, <2>2
      <3>2. p \notin U
        BY <1>2, <3>1 DEF Unvisited
      <3> QED BY <2>1, <3>1, <3>2
    <2>3. CASE w # n
      BY <1>1, <2>1, <2>3
    <2> QED BY <2>2, <2>3
  <1> QED BY <1>3, <1>4 DEF Unvisited, m

\* When the walk is back at the head it has visited everything.
LEMMA WalkEnds ==
  ASSUME NEW l, Circle(l), NEW r \in [Link -> Nat], Ordered(l, r),
         NEW U, Unvisited(l, U, ListHead)
  PROVE  U = {}
  <1> SUFFICES ASSUME U # {} PROVE FALSE
    OBVIOUS
  <1> DEFINE rank(x) == r[ListHead] - r[x]
             S == {rank(x) : x \in U}
  <1>1. \A x \in U : /\ x \in Alarm /\ x \in Link /\ x # ListHead /\ Listed(l, x)
                     /\ l.previous[x] \in U
    BY CircleFacts DEF Unvisited
  <1>2. \A x \in U : rank(x) \in Nat
    <2> TAKE x \in U
    <2>1. r[x] < r[ListHead] /\ r[x] \in Nat /\ r[ListHead] \in Nat
      BY <1>1, CircleFacts DEF Ordered
    <2> QED BY <2>1
  <1>3. \A x \in U : rank(l.previous[x]) < rank(x)
    <2> TAKE x \in U
    <2> DEFINE y == l.previous[x]
    <2>1. y \in U /\ y \in Alarm /\ Listed(l, y) /\ l.next[y] = x /\ x # ListHead /\ x \in Link /\ y \in Link
      BY <1>1, CircleFacts
    <2> HIDE DEF y
    <2>2. r[x] < r[y] /\ r[x] \in Nat /\ r[y] \in Nat /\ r[ListHead] \in Nat
      BY <2>1, CircleFacts DEF Ordered
    <2> QED BY <2>2 DEF y
  <1> HIDE DEF rank
  <1>4. S \in SUBSET Nat /\ S # {}
    BY <1>2
  <1>5. Min(S) \in S /\ \A i \in S : Min(S) <= i
    <2> HIDE DEF S
    <2> QED BY <1>4, LowestBit
  <1>6. PICK x \in U : Min(S) = rank(x)
    BY <1>5
  <1>7. rank(l.previous[x]) \in S
    BY <1>1
  <1>8. rank(x) <= rank(l.previous[x])
    BY <1>5, <1>6, <1>7
  <1> QED BY <1>1, <1>2, <1>3, <1>8

-----------------------------------------------------------------------------
(* Times modulo WORD.                                                        *)

Time == [time : 0..(WORD - 1), rollover : BOOLEAN]
Wrap(i) == IF i < WORD THEN i ELSE i - WORD

\* The alarm's record tells that d ticks are still to come.
Tells(a, now, d) == a.time = Wrap(now + d) /\ (a.rollover <=> now + d >= WORD)

\* So it does while no tick is under way, and once the tick has passed it; before,
\* the flag may still be that of the counter's last round, and it may be due.
Waits(a, now, d) == d \in 1..(WORD - 1) /\ Tells(a, now, d)
Reached(a, now, d) == d \in 0..(WORD - 2) /\ Tells(Seen(a, now), now, d)

LEMMA Word == WORD \in Nat /\ WORD > 1
  BY AlarmAssumption

LEMMA Modulo == ASSUME NEW i \in 0..(2 * WORD - 1) PROVE i % WORD = Wrap(i)
  BY Word DEF Wrap

LEMMA SeenTyped ==
  ASSUME NEW a \in Time, NEW now \in 0..(WORD - 1)
  PROVE  /\ Seen(a, now) \in Time /\ Seen(a, now).time = a.time
         /\ Seen(a, now).rollover = IF now = 0 THEN FALSE ELSE a.rollover
  BY DEF Seen, Time

\* A time that is set from now on.
LEMMA SetWaits ==
  ASSUME NEW now \in 0..(WORD - 1), NEW d \in 1..(WORD - 1)
  PROVE  LET time == (now + d) % WORD
         IN  /\ [time |-> time, rollover |-> time < now] \in Time
             /\ Waits([time |-> time, rollover |-> time < now], now, d)
  <1> DEFINE time == (now + d) % WORD
             a == [time |-> time, rollover |-> time < now]
  <1>1. now + d \in 0..(2 * WORD - 1)
    BY Word
  <1>2. time = Wrap(now + d)
    BY <1>1, Modulo
  <1> HIDE DEF time
  <1>3. time \in 0..(WORD - 1)
    BY <1>2, Word DEF Wrap
  <1>4. a.time = time /\ a.rollover = (time < now) /\ a \in Time
    BY <1>3 DEF Time
  <1>5. (time < now) <=> now + d >= WORD
    BY <1>2, Word DEF Wrap
  <1> HIDE DEF a
  <1>6. Waits(a, now, d)
    BY <1>2, <1>4, <1>5 DEF Waits, Tells
  <1> QED BY <1>4, <1>6 DEF a, time

LEMMA TickReaches ==
  ASSUME NEW a \in Time, NEW now \in 0..(WORD - 1), NEW d, Waits(a, now, d)
  PROVE  (now + 1) % WORD \in 0..(WORD - 1) /\ Reached(a, (now + 1) % WORD, d - 1)
  <1> DEFINE then == (now + 1) % WORD
  <1>1. now + 1 \in 0..(2 * WORD - 1)
    BY Word
  <1>2. then = Wrap(now + 1)
    BY <1>1, Modulo
  <1> HIDE DEF then
  <1>3. then \in 0..(WORD - 1) /\ d \in 1..(WORD - 1)
    BY <1>2, Word DEF Wrap, Waits
  <1>4. Seen(a, then).time = a.time /\ Seen(a, then).rollover = IF then = 0 THEN FALSE ELSE a.rollover
    BY <1>3, SeenTyped
  <1>5. a.time = Wrap(now + d) /\ (a.rollover <=> now + d >= WORD) /\ a.rollover \in BOOLEAN
    BY DEF Waits, Tells, Time
  <1>6. Wrap(then + (d - 1)) = Wrap(now + d)
    BY <1>2, <1>3, Word DEF Wrap
  <1>7. then + (d - 1) >= WORD <=> then # 0 /\ now + d >= WORD
    BY <1>2, <1>3, Word DEF Wrap
  <1>8. Tells(Seen(a, then), then, d - 1)
    BY <1>4, <1>5, <1>6, <1>7 DEF Tells
  <1>9. d - 1 \in 0..(WORD - 2)
    BY <1>3, Word
  <1> QED BY <1>3, <1>8, <1>9 DEF Reached, then

\* The comparison of wrapped times is right.
LEMMA ExpiredWhenDue ==
  ASSUME NEW a \in Time, NEW now \in 0..(WORD - 1), NEW d, Reached(a, now, d)
  PROVE  /\ Expired(Seen(a, now), now) <=> d = 0
         /\ d = 0 => a.time = now
         /\ d # 0 => Waits(Seen(a, now), now, d)
  <1>1. /\ Seen(a, now).time = a.time /\ Seen(a, now).rollover \in BOOLEAN
        /\ d \in 0..(WORD - 2)
        /\ Seen(a, now).time = Wrap(now + d) /\ (Seen(a, now).rollover <=> now + d >= WORD)
    BY SeenTyped DEF Reached, Tells, Time
  <1>2. Expired(Seen(a, now), now) <=> d = 0
    BY <1>1, Word DEF Expired, Wrap
  <1>3. d = 0 => a.time = now
    BY <1>1, Word DEF Wrap
  <1>4. d # 0 => d \in 1..(WORD - 1)
    BY <1>1, Word
  <1>5. d # 0 => Waits(Seen(a, now), now, d)
    BY <1>1, <1>4 DEF Waits, Tells
  <1> QED BY <1>2, <1>3, <1>5

-----------------------------------------------------------------------------
(* The inductive invariant: every alarm on the list tells the ticks it has    *)
(* still to wait, the ones a walk has still to visit in the counter's last     *)
(* round, the others in this one; between ticks nothing is left to visit.      *)
(* When a callback has stopped the alarm next on the list only the list itself *)
(* and the types remain.                                                       *)

Timely(l, times, waits, U, a) ==
  Listed(l, a) => IF a \in U THEN Reached(times[a], alt_nticks, waits[a])
                             ELSE Waits(times[a], alt_nticks, waits[a])

Typed ==
  /\ alt_nticks \in 0..(WORD - 1) /\ walk \in Link \union {Outside}
  /\ alarm \in [Alarm -> Time] /\ due \in [Alarm -> 0..(WORD - 1)]
  /\ stranded \in BOOLEAN

OneCircle(l) == Circle(l) /\ \E r \in [Link -> Nat] : Ordered(l, r)

Walked(U) == IF walk = Outside THEN U = {} ELSE Unvisited(links, U, walk)

AlarmInv ==
  /\ Typed /\ OneCircle(links)
  /\ ~stranded =>
       \E U \in SUBSET Alarm : Walked(U) /\ \A a \in Alarm : Timely(links, alarm, due, U, a)

LEMMA InsertKeepsOneCircle ==
  ASSUME NEW l, OneCircle(l), NEW a \in Alarm, ~Listed(l, a)
  PROVE  OneCircle(alt_llist_insert(l, a))
  BY InsertKeepsCircle, InsertKeepsOrder DEF OneCircle

LEMMA RemoveKeepsOneCircle ==
  ASSUME NEW l, OneCircle(l), NEW a \in Alarm
  PROVE  OneCircle(alt_llist_remove(l, a))
  BY RemoveKeepsCircle, RemoveKeepsOrder DEF OneCircle

\* Who else is on the list after a change of it.
LEMMA ListedAfter ==
  ASSUME NEW l, OneCircle(l), NEW a \in Alarm
  PROVE  /\ ~Listed(l, a) => \A x \in Alarm : x # a /\ Listed(alt_llist_insert(l, a), x) => Listed(l, x)
         /\ \A x \in Alarm : Listed(alt_llist_remove(l, a), x) => Listed(l, x) /\ x # a
  <1>1. ASSUME ~Listed(l, a), NEW x \in Alarm, x # a, Listed(alt_llist_insert(l, a), x)
        PROVE  Listed(l, x)
    BY <1>1, Inserted, CircleFacts DEF OneCircle, Listed
  <1>2. ASSUME NEW x \in Alarm, Listed(alt_llist_remove(l, a), x)
        PROVE  Listed(l, x) /\ x # a
    <2> DEFINE m == alt_llist_remove(l, a)
    <2> HIDE DEF m
    <2>1. m.next[x] = IF x = a THEN a ELSE IF x = l.previous[a] THEN l.next[a] ELSE l.next[x]
      BY Removed, CircleFacts DEF OneCircle, m
    <2>2. /\ x \in Link /\ a \in Link /\ l.next[l.previous[a]] = a
      BY CircleFacts DEF OneCircle
    <2>3. Listed(m, x)
      BY <1>2 DEF m
    <2> QED BY <2>1, <2>2, <2>3 DEF Listed
  <1> QED BY <1>1, <1>2

LEMMA AlarmsStart == AlarmInit => AlarmInv
  <1> SUFFICES ASSUME AlarmInit PROVE AlarmInv
    OBVIOUS
  <1>1. Typed
    <2>1. stranded \in BOOLEAN
      BY DEF AlarmInit
    <2> QED BY <2>1, Word DEF AlarmInit, Typed, Time
  <1>2. Circle(links) /\ \A a \in Alarm : ~Listed(links, a)
    BY DEF AlarmInit, Circle, Listed, Link
  <1>3. [x \in Link |-> 0] \in [Link -> Nat] /\ Ordered(links, [x \in Link |-> 0])
    BY <1>2 DEF Ordered
  <1>4. Walked({}) /\ \A a \in Alarm : Timely(links, alarm, due, {}, a)
    BY <1>2 DEF Walked, Timely, AlarmInit
  <1> QED BY <1>1, <1>2, <1>3, <1>4 DEF AlarmInv, OneCircle

LEMMA BeginKeepsTimes == ASSUME AlarmInv, ~stranded, TickBegin PROVE AlarmInv'
  <1> DEFINE U == {a \in Alarm : Listed(links, a)}
  <1>1. /\ walk = Outside /\ walk' = links.next[ListHead] /\ links' = links /\ alarm' = alarm
        /\ alt_nticks' = (alt_nticks + 1) % WORD
        /\ due' = [a \in Alarm |-> due[a] - (IF Listed(links, a) THEN 1 ELSE 0)]
        /\ stranded' = stranded
    BY DEF TickBegin, Counts
  <1>2. Typed /\ OneCircle(links) /\ Circle(links)
    BY DEF AlarmInv, OneCircle
  <1>3. \A a \in Alarm : Listed(links, a) => Waits(alarm[a], alt_nticks, due[a])
    BY <1>1 DEF AlarmInv, Walked, Timely
  <1>4. walk' \in Link /\ walk' # Outside
    <2>1. Outside \notin Link
      BY AlarmAssumption DEF Link
    <2> QED BY <1>1, <1>2, <2>1, CircleFacts
  <1>5. \A a \in Alarm : Listed(links, a) => Reached(alarm[a], alt_nticks', due'[a])
    <2> SUFFICES ASSUME NEW a \in Alarm, Listed(links, a) PROVE Reached(alarm[a], alt_nticks', due'[a])
      OBVIOUS
    <2>1. due'[a] = due[a] - 1
      BY <1>1
    <2>2. alarm[a] \in Time /\ alt_nticks \in 0..(WORD - 1) /\ Waits(alarm[a], alt_nticks, due[a])
      BY <1>2, <1>3 DEF Typed
    <2>3. Reached(alarm[a], (alt_nticks + 1) % WORD, due[a] - 1)
      BY <2>2, TickReaches
    <2> QED BY <1>1, <2>1, <2>3
  <1>6. Typed'
    <2>1. alt_nticks' \in 0..(WORD - 1)
      <3>1. alt_nticks \in 0..(WORD - 1)
        BY <1>2 DEF Typed
      <3> QED BY <1>1, <3>1, Word
    <2>2. \A a \in Alarm : due'[a] \in 0..(WORD - 1)
      <3> TAKE a \in Alarm
      <3>1. due[a] \in 0..(WORD - 1) /\ due'[a] = due[a] - (IF Listed(links, a) THEN 1 ELSE 0)
        BY <1>1, <1>2 DEF Typed
      <3>2. CASE Listed(links, a)
        BY <1>3, <3>1, <3>2, Word DEF Waits
      <3>3. CASE ~Listed(links, a)
        BY <3>1, <3>3
      <3> QED BY <3>2, <3>3
    <2>3. due' \in [Alarm -> 0..(WORD - 1)]
      BY <1>1, <2>2
    <2> QED BY <1>1, <1>2, <1>4, <2>1, <2>3 DEF Typed
  <1>7. Walked(U)'
    <2>1. Unvisited(links, U, walk')
      BY <1>1, <1>2, WalkStarts
    <2> QED BY <1>1, <1>4, <2>1 DEF Walked, Unvisited, Listed
  <1>8. \A a \in Alarm : Timely(links, alarm, due, U, a)'
    BY <1>1, <1>5 DEF Timely, Listed
  <1>9. OneCircle(links)'
    BY <1>1, <1>2 DEF OneCircle, Circle, Ordered, Listed
  <1>10. U' \in SUBSET Alarm
    OBVIOUS
  <1> HIDE DEF U
  <1> QED BY <1>6, <1>7, <1>8, <1>9, <1>10 DEF AlarmInv

\* What the walk finds at the alarm it visits.
LEMMA AtVisit ==
  ASSUME AlarmInv, ~stranded, Visiting
  PROVE  /\ Typed /\ OneCircle(links) /\ walk \in Alarm
         /\ \E U \in SUBSET Alarm :
              /\ Unvisited(links, U, walk) /\ walk \in U /\ Listed(links, walk)
              /\ \A a \in Alarm : Timely(links, alarm, due, U, a)
         /\ alarm[walk] \in Time /\ Reached(alarm[walk], alt_nticks, due[walk])
         /\ Expired(Seen(alarm[walk], alt_nticks), alt_nticks) <=> due[walk] = 0
  <1>1. Typed /\ OneCircle(links) /\ walk \in Alarm /\ walk # Outside
    BY AlarmAssumption DEF AlarmInv, Visiting
  <1>2. PICK U \in SUBSET Alarm : Unvisited(links, U, walk) /\ \A a \in Alarm : Timely(links, alarm, due, U, a)
    BY <1>1 DEF AlarmInv, Walked
  <1>3. walk \in U /\ Listed(links, walk)
    BY <1>1, <1>2 DEF Unvisited
  <1>4. alarm[walk] \in Time /\ Reached(alarm[walk], alt_nticks, due[walk]) /\ alt_nticks \in 0..(WORD - 1)
    BY <1>1, <1>2, <1>3 DEF Typed, Timely
  <1>5. Expired(Seen(alarm[walk], alt_nticks), alt_nticks) <=> due[walk] = 0
    BY <1>4, ExpiredWhenDue
  <1> QED BY <1>1, <1>2, <1>3, <1>4, <1>5

\* How a step shows the invariant, from the set V it leaves to visit.
LEMMA Shown ==
  ASSUME NEW V \in SUBSET Alarm, Typed', OneCircle(links'),
         IF walk' = Outside THEN V = {} ELSE Unvisited(links', V, walk'),
         \A a \in Alarm : Listed(links', a) => IF a \in V THEN Reached(alarm'[a], alt_nticks', due'[a])
                                                          ELSE Waits(alarm'[a], alt_nticks', due'[a])
  PROVE  AlarmInv'
  <1>1. OneCircle(links)'
    BY DEF OneCircle, Circle, Ordered, Listed
  <1>2. Walked(V)'
    BY DEF Walked, Unvisited, Listed
  <1>3. \A a \in Alarm : Timely(links, alarm, due, V, a)'
    BY DEF Timely, Listed
  <1> QED BY <1>1, <1>2, <1>3 DEF AlarmInv

LEMMA PassesKeepsTimes == ASSUME AlarmInv, ~stranded, TickPasses PROVE AlarmInv'
  <1> DEFINE next == links.next[walk]
  <1>1. /\ Visiting /\ ~Expired(Seen(alarm[walk], alt_nticks), alt_nticks)
        /\ alarm' = [alarm EXCEPT ![walk] = Seen(@, alt_nticks)]
        /\ walk' = next /\ UNCHANGED <<alt_nticks, links, due, stranded>>
    BY DEF TickPasses
  <1>2. /\ Typed /\ OneCircle(links) /\ Circle(links) /\ walk \in Alarm
        /\ alarm[walk] \in Time /\ Reached(alarm[walk], alt_nticks, due[walk])
        /\ alt_nticks \in 0..(WORD - 1) /\ due[walk] # 0
    BY <1>1, AtVisit DEF OneCircle, Typed
  <1>3. PICK U \in SUBSET Alarm : /\ Unvisited(links, U, walk)
                                  /\ \A a \in Alarm : Timely(links, alarm, due, U, a)
    BY <1>1, AtVisit
  <1>4. PICK V \in SUBSET Alarm : V = U \ {walk}
    OBVIOUS
  <1>5. Unvisited(links, V, next) /\ next \in Link
    BY <1>2, <1>3, <1>4, WalkMoves
  <1>6. Seen(alarm[walk], alt_nticks) \in Time /\ Waits(Seen(alarm[walk], alt_nticks), alt_nticks, due[walk])
    BY <1>2, SeenTyped, ExpiredWhenDue
  <1>7. /\ alarm' \in [Alarm -> Time] /\ alarm'[walk] = Seen(alarm[walk], alt_nticks)
        /\ \A a \in Alarm : a # walk => alarm'[a] = alarm[a]
    BY <1>1, <1>2, <1>6 DEF Typed
  <1>8. \A a \in Alarm : Listed(links', a) => IF a \in V THEN Reached(alarm'[a], alt_nticks', due'[a])
                                                          ELSE Waits(alarm'[a], alt_nticks', due'[a])
    BY <1>1, <1>3, <1>4, <1>6, <1>7 DEF Timely
  <1> HIDE DEF next
  <1>9. walk' # Outside
    BY <1>1, <1>5, AlarmAssumption DEF Link
  <1>10. Typed'
    BY <1>1, <1>2, <1>5, <1>7 DEF Typed
  <1>11. OneCircle(links') /\ Unvisited(links', V, walk')
    BY <1>1, <1>2, <1>5
  <1> QED BY <1>8, <1>9, <1>10, <1>11, Shown

\* What the walk and its callbacks write is typed.
LEMMA EffectTyped ==
  ASSUME Typed, OneCircle(links), walk \in Alarm
  PROVE  /\ Undisturbed.alarm \in [Alarm -> Time]
         /\ Undisturbed.alarm[walk] = Seen(alarm[walk], alt_nticks)
         /\ \A a \in Alarm \ {walk} : Undisturbed.alarm[a] = alarm[a]
         /\ \A e \in Effects : /\ OneCircle(e.links) /\ e.alarm \in [Alarm -> Time]
                               /\ e.due \in [Alarm -> 0..(WORD - 1)]
  <1>1. /\ alarm \in [Alarm -> Time] /\ due \in [Alarm -> 0..(WORD - 1)] /\ alt_nticks \in 0..(WORD - 1)
        /\ Seen(alarm[walk], alt_nticks) \in Time
    BY SeenTyped DEF Typed
  <1>2. Undisturbed.alarm = [alarm EXCEPT ![walk] = Seen(@, alt_nticks)]
    BY DEF Undisturbed
  <1>3. /\ Undisturbed.alarm \in [Alarm -> Time]
        /\ Undisturbed.alarm[walk] = Seen(alarm[walk], alt_nticks)
        /\ \A a \in Alarm \ {walk} : Undisturbed.alarm[a] = alarm[a]
    BY <1>1, <1>2
  <1>4. ASSUME NEW e \in Effects
        PROVE  /\ OneCircle(e.links) /\ e.alarm \in [Alarm -> Time]
               /\ e.due \in [Alarm -> 0..(WORD - 1)]
    <2>1. CASE e.links = links /\ e.alarm = Undisturbed.alarm /\ e.due = due
      BY <1>1, <1>3, <2>1
    <2>2. ASSUME NEW b \in Alarm, e.links = alt_llist_remove(links, b), e.alarm = Undisturbed.alarm,
                 e.due = [due EXCEPT ![b] = 0]
          PROVE  /\ OneCircle(e.links) /\ e.alarm \in [Alarm -> Time] /\ e.due \in [Alarm -> 0..(WORD - 1)]
      <3>1. OneCircle(e.links)
        BY <2>2, RemoveKeepsOneCircle
      <3> QED BY <1>1, <1>3, <2>2, <3>1, Word
    <2>3. ASSUME NEW b \in Alarm, NEW n \in Delays, ~Listed(links, b), e.links = alt_llist_insert(links, b),
                 e.alarm = [Undisturbed.alarm EXCEPT ![b] = At(alt_nticks, n + 1)],
                 e.due = [due EXCEPT ![b] = n + 1]
          PROVE  /\ OneCircle(e.links) /\ e.alarm \in [Alarm -> Time] /\ e.due \in [Alarm -> 0..(WORD - 1)]
      <3>1. OneCircle(e.links)
        BY <2>3, InsertKeepsOneCircle
      <3>2. n + 1 \in 1..(WORD - 1)
        BY AlarmAssumption
      <3>3. At(alt_nticks, n + 1) \in Time
        BY <1>1, <3>2, SetWaits DEF At
      <3> QED BY <1>1, <1>3, <2>3, <3>1, <3>2, <3>3
    <2> QED BY <2>1, <2>2, <2>3, EffectIs
  <1> QED BY <1>3, <1>4

\* What a callback starts stands behind the walk, and what it stops, unless it is the
\* alarm that the walk has noted as the next, is no more ahead of it.
LEMMA EffectKeepsTimes ==
  ASSUME Typed, OneCircle(links), walk \in Alarm, NEW U \in SUBSET Alarm, Unvisited(links, U, walk),
         \A a \in Alarm : Timely(links, alarm, due, U, a), NEW e \in Effects, ~Strands(e)
  PROVE  /\ OneCircle(e.links) /\ e.alarm \in [Alarm -> Time] /\ e.due \in [Alarm -> 0..(WORD - 1)]
         /\ e.alarm[walk] = Seen(alarm[walk], alt_nticks)
         /\ \E V \in SUBSET Alarm :
              /\ Unvisited(e.links, V, links.next[walk]) /\ V \subseteq U \ {walk}
              /\ \A a \in Alarm \ {walk} : Timely(e.links, e.alarm, e.due, V, a)
  <1> DEFINE next == links.next[walk]
             W == U \ {walk}
  <1>1. Circle(links) /\ \E r \in [Link -> Nat] : Ordered(links, r)
    BY DEF OneCircle
  <1>2. /\ Unvisited(links, W, next) /\ Listed(links, walk) /\ walk # next /\ next \in Link
        /\ links.previous[next] = walk /\ W \in SUBSET Alarm
    BY <1>1, WalkMoves
  <1>3. /\ alarm \in [Alarm -> Time] /\ due \in [Alarm -> 0..(WORD - 1)] /\ alt_nticks \in 0..(WORD - 1)
    BY DEF Typed
  <1>4. \A a \in Alarm \ {walk} : Timely(links, alarm, due, W, a)
    BY DEF Timely
  <1> HIDE DEF next, W
  <1>5. /\ Undisturbed.alarm[walk] = Seen(alarm[walk], alt_nticks)
        /\ \A a \in Alarm \ {walk} : Undisturbed.alarm[a] = alarm[a]
        /\ Undisturbed.alarm \in [Alarm -> Time]
        /\ OneCircle(e.links) /\ e.alarm \in [Alarm -> Time] /\ e.due \in [Alarm -> 0..(WORD - 1)]
    BY EffectTyped
  <1> DEFINE Kept(V) == /\ e.alarm[walk] = Seen(alarm[walk], alt_nticks)
                        /\ Unvisited(e.links, V, next) /\ V \in SUBSET Alarm /\ V \subseteq W
                        /\ \A a \in Alarm \ {walk} : Timely(e.links, e.alarm, e.due, V, a)
  <1>6. ASSUME e.links = links, e.alarm = Undisturbed.alarm, e.due = due PROVE Kept(W)
    <2>1. \A a \in Alarm \ {walk} : Timely(e.links, e.alarm, e.due, W, a)
      BY <1>4, <1>5, <1>6 DEF Timely
    <2> QED BY <1>2, <1>5, <1>6, <2>1
  <1>7. ASSUME NEW b \in Alarm, e.links = alt_llist_remove(links, b), e.alarm = Undisturbed.alarm,
               e.due = [due EXCEPT ![b] = 0]
        PROVE  Kept(W \ {b})
    <2>1. \A x \in Alarm : Listed(e.links, x) => Listed(links, x) /\ x # b
      BY <1>7, ListedAfter
    <2>2. b # next
      BY <2>1 DEF Strands, next
    <2>3. Unvisited(e.links, W \ {b}, next)
      BY <1>1, <1>2, <1>7, <2>2, WalkRemove
    <2>4. \A x \in Alarm : x # b => e.due[x] = due[x]
      BY <1>3, <1>7
    <2>5. \A a \in Alarm \ {walk} : Timely(e.links, e.alarm, e.due, W \ {b}, a)
      BY <1>4, <1>5, <1>7, <2>1, <2>4 DEF Timely
    <2> QED BY <1>2, <1>5, <1>7, <2>3, <2>5
  <1>8. ASSUME NEW b \in Alarm, NEW n \in Delays, ~Listed(links, b), e.links = alt_llist_insert(links, b),
               e.alarm = [Undisturbed.alarm EXCEPT ![b] = At(alt_nticks, n + 1)],
               e.due = [due EXCEPT ![b] = n + 1]
        PROVE  Kept(W)
    <2>1. b # walk /\ n + 1 \in 1..(WORD - 1)
      BY <1>2, <1>8, AlarmAssumption
    <2>2. Waits(At(alt_nticks, n + 1), alt_nticks, n + 1)
      BY <1>3, <2>1, SetWaits DEF At
    <2>3. \A x \in Alarm : x # b /\ Listed(e.links, x) => Listed(links, x)
      BY <1>8, ListedAfter
    <2>4. Unvisited(e.links, W, next) /\ b \notin W
      <3>1. links.previous[next] # ListHead
        BY <1>2, AlarmAssumption
      <3> QED BY <1>1, <1>2, <1>8, <3>1, WalkInsert
    <2>5. e.due[b] = n + 1 /\ \A x \in Alarm : x # b => e.due[x] = due[x]
      BY <1>3, <1>8
    <2>6. /\ e.alarm[b] = At(alt_nticks, n + 1)
          /\ \A x \in Alarm : x # b => e.alarm[x] = Undisturbed.alarm[x]
      BY <1>5, <1>8
    <2>7. \A a \in Alarm \ {walk} : Timely(e.links, e.alarm, e.due, W, a)
      BY <1>4, <1>5, <2>2, <2>3, <2>4, <2>5, <2>6 DEF Timely
    <2> QED BY <1>2, <1>5, <2>1, <2>4, <2>6, <2>7
  <1>9. \E V : Kept(V)
    <2> HIDE DEF Kept
    <2> QED BY <1>6, <1>7, <1>8, EffectIs, Zenon
  <1> QED BY <1>5, <1>9 DEF next, W

LEMMA FiresKeepsTimes == ASSUME AlarmInv, ~stranded, TickFires, ~stranded' PROVE AlarmInv'
  <1> DEFINE next == links.next[walk]
  <1>1. /\ Visiting /\ Expired(Seen(alarm[walk], alt_nticks), alt_nticks)
        /\ walk' = next /\ alt_nticks' = alt_nticks
    BY DEF TickFires
  <1>2. /\ Typed /\ OneCircle(links) /\ Circle(links) /\ walk \in Alarm
        /\ alarm[walk] \in Time /\ Reached(alarm[walk], alt_nticks, due[walk])
        /\ alt_nticks \in 0..(WORD - 1) /\ due[walk] = 0
    BY <1>1, AtVisit DEF OneCircle, Typed
  <1>3. PICK U \in SUBSET Alarm : /\ Unvisited(links, U, walk)
                                  /\ \A a \in Alarm : Timely(links, alarm, due, U, a)
    BY <1>1, AtVisit
  <1>4. walk # next /\ next \in Link /\ next # Outside /\ alarm[walk].time = alt_nticks
    <2>1. walk # next /\ next \in Link
      BY <1>2, <1>3, WalkMoves
    <2>2. Outside \notin Link
      BY AlarmAssumption DEF Link
    <2>3. alarm[walk].time = alt_nticks
      BY <1>2, ExpiredWhenDue
    <2> QED BY <2>1, <2>2, <2>3
  <1>5. PICK e \in Effects : Answered(e)
    BY DEF TickFires
  <1>6. /\ OneCircle(e.links) /\ e.alarm \in [Alarm -> Time] /\ e.due \in [Alarm -> 0..(WORD - 1)]
        /\ e.alarm[walk] = Seen(alarm[walk], alt_nticks)
        /\ \E V \in SUBSET Alarm :
             /\ Unvisited(e.links, V, next) /\ V \subseteq U \ {walk}
             /\ \A a \in Alarm \ {walk} : Timely(e.links, e.alarm, e.due, V, a)
    <2>1. ~Strands(e)
      BY <1>5 DEF Answered
    <2> QED BY <1>2, <1>3, <2>1, EffectKeepsTimes
  <1>7. PICK V \in SUBSET Alarm :
          /\ Unvisited(e.links, V, next) /\ V \subseteq U \ {walk}
          /\ \A a \in Alarm \ {walk} : Timely(e.links, e.alarm, e.due, V, a)
    BY <1>6
  <1> HIDE DEF next
  <1>11. stranded' \in BOOLEAN
    BY <1>5 DEF Answered
  <1>8. CASE /\ links' = alt_llist_remove(e.links, walk)
             /\ alarm' = e.alarm
             /\ due' = [e.due EXCEPT ![walk] = 0]
    <2>1. OneCircle(links') /\ \A x \in Alarm : Listed(links', x) => Listed(e.links, x) /\ x # walk
      BY <1>2, <1>6, <1>8, RemoveKeepsOneCircle, ListedAfter
    <2>2. Unvisited(links', V, next)
      <3>1. V \ {walk} = V
        BY <1>7
      <3>2. Circle(e.links) /\ \E r \in [Link -> Nat] : Ordered(e.links, r)
        BY <1>6 DEF OneCircle
      <3>3. Unvisited(links', V \ {walk}, next)
        BY <1>2, <1>4, <1>7, <1>8, <3>2, WalkRemove
      <3> QED BY <3>1, <3>3
    <2>3. /\ alarm' \in [Alarm -> Time] /\ due' \in [Alarm -> 0..(WORD - 1)]
          /\ \A a \in Alarm \ {walk} : alarm'[a] = e.alarm[a] /\ due'[a] = e.due[a]
      BY <1>2, <1>6, <1>8, Word
    <2>4. \A a \in Alarm : Listed(links', a) => IF a \in V THEN Reached(alarm'[a], alt_nticks', due'[a])
                                                            ELSE Waits(alarm'[a], alt_nticks', due'[a])
      BY <1>1, <1>7, <2>1, <2>3 DEF Timely
    <2>5. Typed'
      BY <1>1, <1>2, <1>4, <1>11, <2>3 DEF Typed
    <2> QED BY <1>1, <1>4, <2>1, <2>2, <2>4, <2>5, Shown
  <1>9. ASSUME NEW period \in Periods,
               links' = e.links,
               alarm' = [e.alarm EXCEPT ![walk] = Renewed(@, period)],
               due' = [e.due EXCEPT ![walk] = IF Listed(e.links, walk) THEN period ELSE 0]
        PROVE  AlarmInv'
    <2> DEFINE time == (alt_nticks + period) % WORD
               new == [time |-> time, rollover |-> time < alt_nticks]
    <2>1. period \in 1..(WORD - 1)
      BY AlarmAssumption
    <2>2. new \in Time /\ Waits(new, alt_nticks, period)
      BY <1>2, <2>1, SetWaits
    <2>3. alarm' = [e.alarm EXCEPT ![walk] = new]
      <3>1. Renewed(e.alarm[walk], period) = new
        <4>1. e.alarm[walk].time = alt_nticks
          <5>1. Seen(alarm[walk], alt_nticks).time = alarm[walk].time
            BY <1>2, SeenTyped
          <5> QED BY <1>4, <1>6, <5>1
        <4>2. ~e.alarm[walk].rollover
          BY <1>1, <1>6 DEF Expired
        <4> QED BY <4>1, <4>2 DEF Renewed
      <3> QED BY <1>9, <3>1
    <2> HIDE DEF new
    <2>4. /\ alarm' \in [Alarm -> Time] /\ alarm'[walk] = new
          /\ \A a \in Alarm \ {walk} : alarm'[a] = e.alarm[a]
      BY <1>2, <1>6, <2>2, <2>3
    <2>5. /\ due' \in [Alarm -> 0..(WORD - 1)]
          /\ Listed(e.links, walk) => due'[walk] = period
          /\ \A a \in Alarm \ {walk} : due'[a] = e.due[a]
      BY <1>2, <1>6, <1>9, <2>1, Word
    <2>6. \A a \in Alarm : Listed(links', a) => IF a \in V THEN Reached(alarm'[a], alt_nticks', due'[a])
                                                            ELSE Waits(alarm'[a], alt_nticks', due'[a])
      BY <1>1, <1>7, <1>9, <2>2, <2>4, <2>5 DEF Timely
    <2>7. Typed'
      BY <1>1, <1>2, <1>4, <1>11, <2>4, <2>5 DEF Typed
    <2> QED BY <1>1, <1>4, <1>6, <1>7, <1>9, <2>6, <2>7, Shown
  <1> QED BY <1>5, <1>8, <1>9 DEF Answered, Counts

LEMMA RenewedTyped ==
  ASSUME NEW a \in Time, NEW period \in Periods, alt_nticks \in 0..(WORD - 1)
  PROVE  Renewed(a, period) \in Time
  <1>1. a.time \in 0..(WORD - 1) /\ a.rollover \in BOOLEAN /\ period \in 1..(WORD - 1)
    BY AlarmAssumption DEF Time
  <1>2. (a.time + period) % WORD \in 0..(WORD - 1)
    BY <1>1, Word
  <1> QED BY <1>1, <1>2 DEF Renewed, Time

\* A step by which or after which the walk is stranded.
LEMMA StrandedStaysTyped ==
  ASSUME Typed, OneCircle(links), AlarmNext, stranded'
  PROVE  AlarmInv'
  <1>1. [a \in Alarm |-> 0] \in [Alarm -> 0..(WORD - 1)]
    BY Word
  <1>2. /\ alt_nticks \in 0..(WORD - 1) /\ walk \in Link \union {Outside} /\ stranded \in BOOLEAN
        /\ alarm \in [Alarm -> Time] /\ due \in [Alarm -> 0..(WORD - 1)] /\ Circle(links)
    BY DEF Typed, OneCircle
  <1>3. SUFFICES Typed' /\ OneCircle(links')
    BY DEF AlarmInv, OneCircle, Circle, Ordered, Listed
  <1>4. CASE TickBegin
    <2>1. alt_nticks' \in 0..(WORD - 1)
      BY <1>2, <1>4, Word DEF TickBegin
    <2>2. links' = links /\ alarm' = alarm /\ stranded' = stranded /\ due' = [a \in Alarm |-> 0]
      BY <1>4 DEF TickBegin, Counts
    <2>3. walk' \in Link \union {Outside}
      BY <1>2, <1>4, CircleFacts DEF TickBegin
    <2> QED BY <1>1, <1>2, <2>1, <2>2, <2>3 DEF Typed
  <1>5. CASE TickPasses
    <2>1. walk \in Alarm /\ Seen(alarm[walk], alt_nticks) \in Time
      BY <1>2, <1>5, SeenTyped DEF TickPasses, Visiting
    <2>2. alarm' \in [Alarm -> Time] /\ walk' \in Link \union {Outside}
      BY <1>2, <1>5, <2>1, CircleFacts DEF TickPasses
    <2> QED BY <1>2, <1>5, <2>2 DEF TickPasses, Typed
  <1>6. CASE TickFires
    <2>1. walk \in Alarm /\ walk' \in Link \union {Outside} /\ alt_nticks' = alt_nticks
      BY <1>2, <1>6, CircleFacts DEF TickFires, Visiting
    <2>2. PICK e \in Effects : Answered(e)
      BY <1>6 DEF TickFires
    <2>3. OneCircle(e.links) /\ e.alarm \in [Alarm -> Time]
      BY <2>1, EffectTyped
    <2>4. stranded' \in BOOLEAN /\ due' = [a \in Alarm |-> 0]
      BY <2>2 DEF Answered, Counts
    <2>5. OneCircle(links')
      BY <2>1, <2>2, <2>3, RemoveKeepsOneCircle DEF Answered
    <2>6. alarm' \in [Alarm -> Time]
      <3>1. CASE alarm' = e.alarm
        BY <2>3, <3>1
      <3>2. ASSUME NEW period \in Periods, alarm' = [e.alarm EXCEPT ![walk] = Renewed(@, period)]
            PROVE  alarm' \in [Alarm -> Time]
        <4>1. Renewed(e.alarm[walk], period) \in Time
          BY <1>2, <2>1, <2>3, RenewedTyped
        <4> QED BY <2>3, <3>2, <4>1
      <3> QED BY <2>2, <3>1, <3>2 DEF Answered
    <2> QED BY <1>1, <1>2, <2>1, <2>4, <2>5, <2>6 DEF Typed
  <1>7. CASE TickEnd
    BY <1>2, <1>7 DEF TickEnd, Typed
  <1>8. ASSUME NEW b \in Alarm, alt_alarm_stop(b) PROVE Typed' /\ OneCircle(links')
    <2>1. OneCircle(links') /\ due' = [a \in Alarm |-> 0]
      BY <1>8, RemoveKeepsOneCircle DEF alt_alarm_stop, Counts
    <2> QED BY <1>1, <1>2, <1>8, <2>1 DEF alt_alarm_stop, Typed
  <1>9. ASSUME NEW b \in Alarm, NEW n \in Delays, alt_alarm_start(b, n) PROVE Typed' /\ OneCircle(links')
    <2>1. OneCircle(links') /\ due' = [a \in Alarm |-> 0]
      BY <1>9, InsertKeepsOneCircle DEF alt_alarm_start, Start, Counts
    <2>2. n + 1 \in 1..(WORD - 1)
      BY AlarmAssumption
    <2>3. At(alt_nticks, n + 1) \in Time
      BY <1>2, <2>2, SetWaits DEF At
    <2>4. alarm' \in [Alarm -> Time]
      BY <1>2, <1>9, <2>3 DEF alt_alarm_start, Start
    <2> QED BY <1>1, <1>2, <1>9, <2>1, <2>4 DEF alt_alarm_start, Start, Typed
  <1> QED BY <1>4, <1>5, <1>6, <1>7, <1>8, <1>9 DEF AlarmNext, Walk, Call

LEMMA EndKeepsTimes == ASSUME AlarmInv, ~stranded, TickEnd PROVE AlarmInv'
  <1>1. walk = ListHead /\ walk' = Outside /\ UNCHANGED <<alt_nticks, links, alarm, due, stranded>>
    BY DEF TickEnd
  <1>2. Typed /\ OneCircle(links) /\ walk # Outside
    BY <1>1, AlarmAssumption DEF AlarmInv
  <1>3. PICK U \in SUBSET Alarm : Unvisited(links, U, ListHead) /\ \A a \in Alarm : Timely(links, alarm, due, U, a)
    BY <1>1, <1>2 DEF AlarmInv, Walked
  <1>4. U = {}
    BY <1>2, <1>3, WalkEnds DEF OneCircle
  <1>5. Typed'
    BY <1>1, <1>2 DEF Typed
  <1> QED BY <1>1, <1>2, <1>3, <1>4, <1>5, Shown DEF Timely

LEMMA CallsKeepTimes == ASSUME AlarmInv, ~stranded, walk = Outside, Call PROVE AlarmInv'
  <1>1. Typed /\ OneCircle(links) /\ \A a \in Alarm : Timely(links, alarm, due, {}, a)
    BY DEF AlarmInv, Walked
  <1>2. alarm \in [Alarm -> Time] /\ due \in [Alarm -> 0..(WORD - 1)] /\ alt_nticks \in 0..(WORD - 1)
    BY <1>1 DEF Typed
  <1>3. ASSUME NEW b \in Alarm, alt_alarm_stop(b) PROVE AlarmInv'
    <2>1. /\ links' = alt_llist_remove(links, b) /\ due' = [due EXCEPT ![b] = 0]
          /\ UNCHANGED <<alt_nticks, alarm, walk, stranded>>
      BY <1>3 DEF alt_alarm_stop, Counts
    <2>2. OneCircle(links') /\ \A x \in Alarm : Listed(links', x) => Listed(links, x) /\ x # b
      BY <1>1, <2>1, RemoveKeepsOneCircle, ListedAfter
    <2>3. due' \in [Alarm -> 0..(WORD - 1)] /\ \A x \in Alarm : x # b => due'[x] = due[x]
      BY <1>2, <2>1, Word
    <2>4. Typed'
      BY <1>1, <2>1, <2>3 DEF Typed
    <2>5. \A a \in Alarm : Listed(links', a) => IF a \in {} THEN Reached(alarm'[a], alt_nticks', due'[a])
                                                            ELSE Waits(alarm'[a], alt_nticks', due'[a])
      BY <1>1, <2>1, <2>2, <2>3 DEF Timely
    <2>6. {} \in SUBSET Alarm /\ walk' = Outside
      BY <2>1
    <2>7. OneCircle(links')
      BY <2>2
    <2> QED BY <2>4, <2>5, <2>6, <2>7, Shown
  <1>4. ASSUME NEW b \in Alarm, NEW n \in Delays, alt_alarm_start(b, n) PROVE AlarmInv'
    <2>1. /\ ~Listed(links, b)
          /\ alarm' = [alarm EXCEPT ![b] = At(alt_nticks, n + 1)]
          /\ links' = alt_llist_insert(links, b)
          /\ due' = [due EXCEPT ![b] = n + 1]
          /\ UNCHANGED <<alt_nticks, walk, stranded>>
      BY <1>4 DEF alt_alarm_start, Start, Counts
    <2>2. n + 1 \in 1..(WORD - 1)
      BY AlarmAssumption
    <2>3. At(alt_nticks, n + 1) \in Time /\ Waits(At(alt_nticks, n + 1), alt_nticks, n + 1)
      BY <1>2, <2>2, SetWaits DEF At
    <2>4. OneCircle(links') /\ \A x \in Alarm : x # b /\ Listed(links', x) => Listed(links, x)
      BY <1>1, <2>1, InsertKeepsOneCircle, ListedAfter
    <2>5. /\ due' \in [Alarm -> 0..(WORD - 1)] /\ due'[b] = n + 1
          /\ \A x \in Alarm : x # b => due'[x] = due[x]
      BY <1>2, <2>1, <2>2
    <2>6. /\ alarm' \in [Alarm -> Time] /\ alarm'[b] = At(alt_nticks, n + 1)
          /\ \A x \in Alarm : x # b => alarm'[x] = alarm[x]
      BY <1>2, <2>1, <2>3
    <2>7. Typed'
      BY <1>1, <2>1, <2>5, <2>6 DEF Typed
    <2>8. \A a \in Alarm : Listed(links', a) => IF a \in {} THEN Reached(alarm'[a], alt_nticks', due'[a])
                                                            ELSE Waits(alarm'[a], alt_nticks', due'[a])
      BY <1>1, <2>1, <2>3, <2>4, <2>5, <2>6 DEF Timely
    <2>9. {} \in SUBSET Alarm /\ walk' = Outside
      BY <2>1
    <2>10. OneCircle(links')
      BY <2>4
    <2> QED BY <2>7, <2>8, <2>9, <2>10, Shown
  <1> QED BY <1>3, <1>4 DEF Call

LEMMA AlarmsInvariant == AlarmSpec => []AlarmInv
  <1>1. ASSUME AlarmInv, [AlarmNext]_alarmVars PROVE AlarmInv'
    <2>1. CASE UNCHANGED alarmVars
      BY <1>1, <2>1 DEF alarmVars, AlarmInv, Typed, OneCircle, Circle, Ordered, Listed, Walked,
                        Unvisited, Timely
    <2>2. CASE AlarmNext /\ stranded'
      BY <1>1, <2>2, StrandedStaysTyped DEF AlarmInv
    <2>3. CASE AlarmNext /\ ~stranded'
      <3>1. ~stranded
        BY <2>3 DEF AlarmNext, TickBegin, Walk, TickPasses, TickFires, Answered, TickEnd, Call,
                    alt_alarm_stop, alt_alarm_start, Start
      <3> QED BY <1>1, <2>3, <3>1, BeginKeepsTimes, PassesKeepsTimes, FiresKeepsTimes, EndKeepsTimes,
                 CallsKeepTimes DEF AlarmNext, Walk
    <2> QED BY <1>1, <2>1, <2>2, <2>3
  <1> QED BY <1>1, AlarmsStart, PTL DEF AlarmSpec

\* The counter, the list, the alarms and the walk are always such as the types say,
\* the two directions of the list included.
THEOREM AlarmTypes == AlarmSpec => []AlarmTypeOK
  <1>1. AlarmInv => AlarmTypeOK
    <2> SUFFICES ASSUME AlarmInv PROVE AlarmTypeOK
      OBVIOUS
    <2>1. Typed /\ Circle(links)
      BY DEF AlarmInv, OneCircle
    <2>2. 0..(WORD - 1) \subseteq (-1)..WORD
      BY Word
    <2>3. due \in [Alarm -> (-1)..WORD]
      BY <2>1, <2>2 DEF Typed
    <2> QED BY <2>1, <2>3 DEF AlarmTypeOK, Typed, Circle, Time
  <1> QED BY <1>1, AlarmsInvariant, PTL

\* An alarm is called in the tick it has waited for and in no other, for every width
\* of the counter, every number of alarms and whatever callbacks start and stop
\* during the walk, except the alarm next on the list (alt_tick.c): the wrapped
\* comparison is right at every visit, and no tick ends with a due alarm passed over.
THEOREM AlarmsOnTime == AlarmSpec => []OnTime
  <1>1. AlarmInv => OnTime
    <2> SUFFICES ASSUME AlarmInv, ~stranded
                 PROVE  /\ Visiting => /\ Listed(links, walk)
                                       /\ Expired(Seen(alarm[walk], alt_nticks), alt_nticks) <=> due[walk] = 0
                        /\ walk = Outside => \A a \in Alarm : Listed(links, a) => due[a] > 0
      BY DEF OnTime
    <2>1. Visiting => /\ Listed(links, walk)
                      /\ Expired(Seen(alarm[walk], alt_nticks), alt_nticks) <=> due[walk] = 0
      BY AtVisit
    <2>2. walk = Outside => \A a \in Alarm : Listed(links, a) => due[a] > 0
      <3> SUFFICES ASSUME walk = Outside, NEW a \in Alarm, Listed(links, a) PROVE due[a] > 0
        OBVIOUS
      <3>1. Waits(alarm[a], alt_nticks, due[a])
        BY DEF AlarmInv, Walked, Timely
      <3> QED BY <3>1, Word DEF Waits
    <2> QED BY <2>1, <2>2
  <1> QED BY <1>1, AlarmsInvariant, PTL

\* The same with interrupts nested around the tick and a thread that starts and stops
\* alarms.
THEOREM OnTimeUnderInterrupts == Spec => []OnTime
  <1>1. ImplementsAlarms => []OnTime
    BY AlarmsOnTime DEF ImplementsAlarms
  <1> QED BY <1>1, AlarmsAreAtomic, PTL

-----------------------------------------------------------------------------
(* A walk ends: what it has still to visit is determined, and shrinks.         *)

Ahead(l, w) == UNION {U \in SUBSET Alarm : Unvisited(l, U, w)}

LEMMA OneWayAhead ==
  ASSUME NEW l, Circle(l), NEW r \in [Link -> Nat], Ordered(l, r), NEW w,
         NEW U, Unvisited(l, U, w), NEW V, Unvisited(l, V, w)
  PROVE  U \subseteq V
  <1> SUFFICES ASSUME U \ V # {} PROVE FALSE
    OBVIOUS
  <1> DEFINE rank(x) == r[ListHead] - r[x]
             S == {rank(x) : x \in U \ V}
  <1>1. ASSUME NEW x \in U \ V
        PROVE  /\ x \in Link /\ x # ListHead /\ l.previous[x] \in U \ V
               /\ l.next[l.previous[x]] = x
    <2>1. x \in Link /\ x # ListHead /\ Listed(l, x) /\ l.next[l.previous[x]] = x
      BY CircleFacts DEF Unvisited
    <2>2. x # w
      BY <2>1, CircleFacts DEF Unvisited, Link
    <2>3. l.previous[x] \in U
      BY <2>2 DEF Unvisited
    <2>4. l.previous[x] \notin V
      BY <2>1 DEF Unvisited
    <2> QED BY <2>1, <2>3, <2>4
  <1>2. \A x \in U \ V : x \in Alarm /\ x \in Link /\ Listed(l, x) /\ r[x] \in Nat /\ r[ListHead] \in Nat
    BY CircleFacts DEF Unvisited
  <1>3. \A x \in U \ V : rank(x) \in Nat
    <2> TAKE x \in U \ V
    <2>1. r[x] < r[ListHead] /\ r[x] \in Nat /\ r[ListHead] \in Nat
      BY <1>2 DEF Ordered
    <2> QED BY <2>1
  <1>4. \A x \in U \ V : rank(l.previous[x]) < rank(x)
    <2> TAKE x \in U \ V
    <2> DEFINE y == l.previous[x]
    <2>1. y \in U \ V /\ l.next[y] = x /\ x # ListHead
      BY <1>1
    <2> HIDE DEF y
    <2>2. r[x] < r[y] /\ r[x] \in Nat /\ r[y] \in Nat /\ r[ListHead] \in Nat
      BY <1>2, <2>1 DEF Ordered
    <2> QED BY <2>2 DEF y
  <1> HIDE DEF rank
  <1>5. S \in SUBSET Nat /\ S # {}
    BY <1>3
  <1>6. Min(S) \in S /\ \A i \in S : Min(S) <= i
    <2> HIDE DEF S
    <2> QED BY <1>5, LowestBit
  <1>7. PICK x \in U \ V : Min(S) = rank(x)
    BY <1>6
  <1>8. l.previous[x] \in U \ V
    BY <1>1
  <1>9. rank(x) <= rank(l.previous[x])
    BY <1>6, <1>7, <1>8
  <1> QED BY <1>3, <1>4, <1>7, <1>8, <1>9

LEMMA AheadIs ==
  ASSUME NEW l, OneCircle(l), NEW w, NEW U \in SUBSET Alarm, Unvisited(l, U, w)
  PROVE  Ahead(l, w) = U
  <1>1. \A V \in SUBSET Alarm : Unvisited(l, V, w) => V \subseteq U
    BY OneWayAhead DEF OneCircle
  <1> QED BY <1>1 DEF Ahead

\* A callback leaves no more ahead than there was.
LEMMA FiresGoesOn ==
  ASSUME AlarmInv, TickFires, ~stranded', NEW U \in SUBSET Alarm, Unvisited(links, U, walk),
         \A a \in Alarm : Timely(links, alarm, due, U, a)
  PROVE  \E V \in SUBSET Alarm : Unvisited(links', V, walk') /\ V \subseteq U \ {walk}
  <1> DEFINE next == links.next[walk]
  <1>1. /\ Typed /\ OneCircle(links) /\ walk \in Alarm /\ walk' = next
        /\ walk # next /\ next \in Link
    BY WalkMoves DEF AlarmInv, OneCircle, TickFires, Visiting
  <1>2. PICK e \in Effects : /\ links' = alt_llist_remove(e.links, walk) \/ links' = e.links
                            /\ ~Strands(e)
    BY DEF TickFires, Answered
  <1>3. /\ OneCircle(e.links)
        /\ \E V \in SUBSET Alarm : Unvisited(e.links, V, next) /\ V \subseteq U \ {walk}
    BY <1>1, <1>2, EffectKeepsTimes
  <1>4. PICK V \in SUBSET Alarm : Unvisited(e.links, V, next) /\ V \subseteq U \ {walk}
    BY <1>3
  <1> HIDE DEF next
  <1>5. CASE links' = e.links
    BY <1>1, <1>4, <1>5
  <1>6. CASE links' = alt_llist_remove(e.links, walk)
    <2>1. Circle(e.links) /\ \E r \in [Link -> Nat] : Ordered(e.links, r)
      BY <1>3 DEF OneCircle
    <2>2. Unvisited(links', V \ {walk}, next)
      BY <1>1, <1>4, <1>6, <2>1, WalkRemove
    <2>3. V \ {walk} = V
      BY <1>4
    <2> QED BY <1>1, <1>4, <2>2, <2>3
  <1> QED BY <1>2, <1>5, <1>6

\* As long as no callback stops the alarm that is next on the list, every visit takes
\* the alarm it visits from what is ahead of the walk and puts nothing there, whatever
\* else the callback starts and stops.  When one has done so, the walk stays at an
\* alarm that is off the list: every visit from then on is to this alarm again.
VisitsRunOut ==
  /\ Visiting /\ ~stranded' => /\ walk \in Ahead(links, walk)
                               /\ Ahead(links', walk') \subseteq Ahead(links, walk) \ {walk}
  /\ Stray => walk' = walk

LEMMA VisitsShrink == AlarmInv /\ AlarmInv' /\ AlarmNext => VisitsRunOut
  <1>0. AlarmNext /\ Stray => walk' = walk
    BY AlarmAssumption DEF Stray, Visiting, Listed, AlarmNext, Walk, TickBegin, TickPasses, TickFires,
                           TickEnd
  <1> SUFFICES ASSUME AlarmInv, AlarmInv', AlarmNext, Visiting, ~stranded'
               PROVE  /\ walk \in Ahead(links, walk)
                      /\ Ahead(links', walk') \subseteq Ahead(links, walk) \ {walk}
    BY <1>0 DEF VisitsRunOut
  <1>1. walk \in Alarm /\ walk # Outside /\ walk # ListHead
    BY AlarmAssumption DEF Visiting
  <1>2. PICK U \in SUBSET Alarm : /\ Unvisited(links, U, walk)
                                  /\ \A a \in Alarm : Timely(links, alarm, due, U, a)
    <2>1. ~stranded
      BY <1>1, AlarmAssumption DEF AlarmNext, TickBegin, Walk, TickPasses, TickFires, Answered, TickEnd
    <2> QED BY <2>1, AtVisit
  <1>3. OneCircle(links) /\ OneCircle(links')
    BY DEF AlarmInv, OneCircle, Circle, Ordered, Listed
  <1>4. Ahead(links, walk) = U /\ walk \in U
    BY <1>1, <1>2, <1>3, AheadIs DEF Unvisited
  <1>5. PICK V \in SUBSET Alarm : Unvisited(links', V, walk') /\ V \subseteq U \ {walk}
    <2>1. CASE TickPasses
      <3>1. links' = links /\ walk' = links.next[walk]
        BY <2>1 DEF TickPasses
      <3>2. Unvisited(links, U \ {walk}, links.next[walk])
        BY <1>1, <1>2, <1>3, WalkMoves DEF OneCircle
      <3> QED BY <3>1, <3>2
    <2>2. CASE TickFires
      BY <1>2, <2>2, FiresGoesOn
    <2> QED BY <1>1, <2>1, <2>2 DEF AlarmNext, Walk, TickBegin, TickEnd
  <1>6. Ahead(links', walk') = V
    BY <1>3, <1>5, AheadIs
  <1> QED BY <1>4, <1>5, <1>6

\* A tick visits no alarm twice, and no more alarms than there are when it begins, as
\* long as no callback stops the alarm that is next on the list; after that it visits
\* nothing but this alarm: the part of TickReturns that is about safety (alt_tick.c
\* 84-141, alt_llist.h 104-117).
THEOREM TicksVisitOnce == AlarmSpec => [][VisitsRunOut]_alarmVars
  <1>1. AlarmInv /\ AlarmInv' /\ [AlarmNext]_alarmVars => [VisitsRunOut]_alarmVars
    BY VisitsShrink
  <1> QED BY <1>1, AlarmsInvariant, PTL DEF AlarmSpec

\* The same with interrupts nested around the tick and a thread that starts and stops
\* alarms.
THEOREM TicksVisitOnceUnderInterrupts == Spec => [][VisitsRunOut]_alarmVars
  <1>1. ImplementsAlarms => [][VisitsRunOut]_alarmVars
    BY TicksVisitOnce DEF ImplementsAlarms
  <1> QED BY <1>1, AlarmsAreAtomic, PTL

\* Every variable of the interrupts and of the alarms is such as its type says.
THEOREM KernelTypes == Spec => []TypeOK
  <1>1. IInv => IrqTypeOK
    BY DEF IInv, IrqInv
  <1>2. ImplementsAlarms => []AlarmTypeOK
    BY AlarmTypes DEF ImplementsAlarms
  <1> QED BY <1>1, <1>2, Invariance, AlarmsAreAtomic, PTL DEF TypeOK
=============================================================================
