---------------------------------- MODULE Irq ----------------------------------
(***************************************************************************)
(* Interrupts of the board support package: the processor's status bit PIE *)
(* and its register IENABLE, the dispatcher alt_irq_handler, the calls     *)
(* that register, enable and disable a handler, critical sections, and     *)
(* handlers that let more urgent ones interrupt them.  A bit mask of       *)
(* interrupts is a set of their numbers; 0 is the most urgent.             *)
(***************************************************************************)
EXTENDS Integers, SequencesExt

CONSTANTS NIRQ, NESTING
ASSUME IrqAssumption == NIRQ \in Nat \ {0} /\ NESTING \in Nat

Id == 0..(NIRQ - 1)

VARIABLES pie, ienable, line,                        \* the processor's, the devices'
          alt_irq_active, alt_priority_mask, alt_irq,  \* alt_irq: who has a handler
          frames,    \* the dispatcher's activations, the running one last
          held       \* what alt_irq_disable_all returned to the thread, inner last

irqVars == <<pie, ienable, line, alt_irq_active, alt_priority_mask, alt_irq, frames, held>>
masks == <<ienable, alt_irq_active, alt_priority_mask, alt_irq>>

alt_irq_pending == ienable \intersect line

\* The processor takes an interrupt before its next instruction.
Taken == pie /\ alt_irq_pending # {}
ThreadRuns == frames = <<>> /\ ~Taken

Top == frames[Len(frames)]
Running(place) == frames # <<>> /\ Top.at = place /\ ~Taken
WithTop(f) == [frames EXCEPT ![Len(frames)] = f]
MoreUrgent(i) == 0..(i - 1)

\* As alt_irq_init leaves it: nothing enabled, interrupts on.
IrqInit ==
  /\ pie = TRUE /\ ienable = {} /\ line = {}
  /\ alt_irq_active = {} /\ alt_priority_mask = Id /\ alt_irq = {}
  /\ frames = <<>> /\ held = <<>>

-----------------------------------------------------------------------------
(* The devices and the processor. *)

Raise(i) == line' = line \union {i} /\ UNCHANGED <<pie, masks, frames, held>>

Exception ==
  /\ Taken
  /\ pie' = FALSE
  /\ frames' = Append(frames, [at |-> "enter", id |-> NIRQ, served |-> FALSE, mask |-> {}])
  /\ UNCHANGED <<line, masks, held>>

-----------------------------------------------------------------------------
(* The dispatcher.  On entry it takes for granted that something is pending: *)
(* else its search for the lowest bit would not end.                         *)

Dispatch ==
  /\ Running("enter") \/ Running("again")
  /\ alt_irq_pending # {}
  /\ frames' = WithTop([Top EXCEPT !.at = "isr", !.id = Min(alt_irq_pending), !.served = FALSE])
  /\ UNCHANGED <<pie, line, masks, held>>

Leave ==
  /\ Running("again") /\ alt_irq_pending = {}
  /\ frames' = Front(frames) /\ pie' = TRUE
  /\ UNCHANGED <<line, masks, held>>

-----------------------------------------------------------------------------
(* What a handler does: quiet its device, return; in between it may let     *)
(* more urgent handlers in.                                                 *)

Serve ==
  /\ Running("isr") \/ Running("open")
  /\ ~Top.served
  /\ line' = line \ {Top.id}
  /\ frames' = WithTop([Top EXCEPT !.served = TRUE])
  /\ UNCHANGED <<pie, masks, held>>

Return ==
  /\ Running("isr") /\ Top.served
  /\ frames' = WithTop([Top EXCEPT !.at = "again"])
  /\ UNCHANGED <<pie, line, masks, held>>

alt_irq_interruptible ==
  /\ Running("isr") /\ ~Top.served
  /\ frames' = WithTop([Top EXCEPT !.at = "open", !.mask = alt_priority_mask])
  /\ alt_priority_mask' = MoreUrgent(Top.id)
  /\ ienable' = alt_irq_active \intersect MoreUrgent(Top.id)
  /\ pie' = TRUE
  /\ UNCHANGED <<line, alt_irq_active, alt_irq, held>>

\* Mutant of alt_irq_non_interruptible: IENABLE stays as the open handler had it.
alt_irq_non_interruptible_KeepsMask ==
  /\ Running("open") /\ Top.served
  /\ frames' = WithTop([Top EXCEPT !.at = "isr", !.mask = {}])
  /\ alt_priority_mask' = Top.mask
  /\ pie' = FALSE
  /\ UNCHANGED <<line, ienable, alt_irq_active, alt_irq, held>>
alt_irq_non_interruptible ==
  /\ Running("open") /\ Top.served
  /\ frames' = WithTop([Top EXCEPT !.at = "isr", !.mask = {}])
  /\ alt_priority_mask' = Top.mask
  /\ ienable' = Top.mask \intersect alt_irq_active
  /\ pie' = FALSE
  /\ UNCHANGED <<line, alt_irq_active, alt_irq, held>>

-----------------------------------------------------------------------------
(* Calls of the thread, or of a handler while none is open to interruption: *)
(* they write IENABLE without regard to alt_priority_mask.                  *)

Caller == ThreadRuns \/ (Running("isr") /\ \A k \in DOMAIN frames : frames[k].at # "open")

SetActive(active) == alt_irq_active' = active /\ ienable' = active

\* Only an interrupt that has a handler may be enabled.
alt_irq_enable(i) ==
  /\ Caller /\ i \in alt_irq
  /\ SetActive(alt_irq_active \union {i})
  /\ UNCHANGED <<pie, line, alt_priority_mask, alt_irq, frames, held>>

alt_irq_disable(i) ==
  /\ Caller
  /\ SetActive(alt_irq_active \ {i})
  /\ UNCHANGED <<pie, line, alt_priority_mask, alt_irq, frames, held>>

\* Registering enables, registering nothing disables.
alt_iic_isr_register(i, isr) ==
  /\ Caller
  /\ alt_irq' = IF isr THEN alt_irq \union {i} ELSE alt_irq \ {i}
  /\ SetActive(IF isr THEN alt_irq_active \union {i} ELSE alt_irq_active \ {i})
  /\ UNCHANGED <<pie, line, alt_priority_mask, frames, held>>

-----------------------------------------------------------------------------
(* Critical sections of the thread. *)

\* Mutant of alt_irq_disable_all: the state is read after the change.
alt_irq_disable_all_SavesLate ==
  /\ ThreadRuns /\ Len(held) < NESTING
  /\ held' = Append(held, FALSE) /\ pie' = FALSE
  /\ UNCHANGED <<line, masks, frames>>
alt_irq_disable_all ==
  /\ ThreadRuns /\ Len(held) < NESTING
  /\ held' = Append(held, pie) /\ pie' = FALSE
  /\ UNCHANGED <<line, masks, frames>>

\* Mutant of alt_irq_enable_all: interrupts come on whatever was found.
alt_irq_enable_all_Always ==
  /\ ThreadRuns /\ held # <<>>
  /\ pie' = TRUE /\ held' = Front(held)
  /\ UNCHANGED <<line, masks, frames>>
alt_irq_enable_all ==
  /\ ThreadRuns /\ held # <<>>
  /\ pie' = held[Len(held)] /\ held' = Front(held)
  /\ UNCHANGED <<line, masks, frames>>

-----------------------------------------------------------------------------
Handler == Serve \/ Return \/ alt_irq_interruptible \/ alt_irq_non_interruptible
Dispatcher == Exception \/ Dispatch \/ Leave
Registration == \E i \in Id : \/ alt_irq_enable(i) \/ alt_irq_disable(i)
                              \/ \E isr \in BOOLEAN : alt_iic_isr_register(i, isr)
Sections == alt_irq_disable_all \/ alt_irq_enable_all

IrqNext == Dispatcher \/ Handler \/ Registration \/ Sections \/ \E i \in Id : Raise(i)
IrqSpec == IrqInit /\ [][IrqNext]_irqVars
-----------------------------------------------------------------------------
\* A frame is dispatching, or serves a numbered interrupt.
Frame == [at : {"enter", "isr", "open", "again"}, id : 0..NIRQ, served : BOOLEAN, mask : SUBSET Id]
IrqTypeOK ==
  /\ pie \in BOOLEAN /\ held \in Seq(BOOLEAN) /\ frames \in Seq(Frame)
  /\ ienable \subseteq Id /\ line \subseteq Id /\ alt_irq \subseteq Id
  /\ alt_irq_active \subseteq Id /\ alt_priority_mask \subseteq Id
  /\ \A k \in DOMAIN frames : frames[k].at # "enter" => frames[k].id \in Id

\* While the thread is in a critical section, however deeply nested and whatever
\* calls it makes there, no handler runs and none can start.
SectionsHold == held # <<>> => frames = <<>> /\ ~pie

\* Handlers nest strictly by urgency: one that is interrupted has asked for it,
\* and is interrupted only by more urgent ones, so the stack of handlers is at
\* most as deep as there are interrupts.  What may be taken has a handler, is
\* enabled, and is more urgent than what is running; and a dispatcher that was
\* just entered finds something pending.
NestedByUrgency ==
  /\ \A k \in 1..(Len(frames) - 1) : frames[k].at = "open"
  /\ \A k, l \in DOMAIN frames : k < l /\ frames[l].at \in {"isr", "open"} => frames[l].id < frames[k].id
  /\ ienable \subseteq alt_irq /\ ienable = alt_irq_active \intersect alt_priority_mask
  /\ frames # <<>> /\ Top.at = "open" => \A i \in ienable : i < Top.id
  /\ frames # <<>> /\ Top.at = "enter" => alt_irq_pending # {}

=============================================================================
