-------------------------------- MODULE Profile --------------------------------
(***************************************************************************)
(* The profiler of alt_gmon.c and alt_mcount.S.  Every instrumented call   *)
(* looks for the arc from its caller and counts it; a new arc is recorded  *)
(* with interrupts disabled, from memory taken in slabs off the heap, and  *)
(* the first records try to start the sampler of the program counter.      *)
(* Handlers are instrumented too: a call may be interrupted between any    *)
(* two steps and the handler's call runs to its end in between.            *)
(***************************************************************************)
EXTENDS Heap, FiniteSets, Sequences, SequencesExt, FiniteSetsExt

CONSTANTS Fn,                 \* instrumented functions
          Site,               \* where they are called from
          Record,             \* sizeof(struct mcount_fn_entry) = sizeof(struct mcount_fn_arc)
          Slab,               \* MCOUNT_SLAB_INCREMENT
          BucketBytes,        \* PCSAMPLE_BYTES_PER_BUCKET
          TextSize,           \* etext - stext
          Increments,         \* what the application asks sbrk for
          CallBound, HeapBound \* bounds: calls of an arc, blocks taken off the heap
ASSUME ProfileAssumption ==
  /\ {Record, Slab, BucketBytes, TextSize, CallBound, HeapBound} \subseteq Nat \ {0}
  /\ 2 * Record <= Slab /\ Increments \subseteq Nat

VARIABLES heap, slab, entries, need_init, sampler, clock,
          stack,              \* the calls of mcount in progress, the innermost last
          blocks, records,    \* history: memory handed out by sbrk and by slabs
          calls, raced,       \* history: calls by arc; an increment overwrote another
          wild                \* a write went to memory that is not the writer's

profileVars == <<heap, slab, entries, need_init, sampler, clock,
                 stack, blocks, records, calls, raced, wild>>

Buckets == TextSize \div BucketBytes
Idle == [buffer |-> 0, started |-> 0]

ProfileInit ==
  /\ heap = EmptyHeap /\ slab = [ptr |-> 0, size |-> 0]
  /\ entries = <<>> /\ need_init = TRUE /\ sampler = Idle /\ clock = FALSE
  /\ stack = <<>> /\ blocks = {} /\ records = {}
  /\ calls = [arc \in Fn \X Site |-> 0] /\ raced = FALSE /\ wild = FALSE

-----------------------------------------------------------------------------
(* Memory.  m holds the heap, the slab and the two histories. *)

Memory == [heap |-> heap, slab |-> slab, blocks |-> blocks, records |-> records, wild |-> wild]
MemoryIs(m) ==
  /\ heap' = m.heap /\ slab' = m.slab /\ blocks' = m.blocks /\ records' = m.records
  /\ wild' = m.wild

Take(m, size) ==
  LET r == ALT_SBRK(m.heap, size) IN
  [m EXCEPT !.heap = r.heap,
            !.blocks = IF r.result = Failed THEN @ ELSE @ \union {<<r.result, r.result + size>>}]

\* Nobody looks whether sbrk failed: what is written then goes to address -1.
Refill(m) ==
  LET r == ALT_SBRK(m.heap, Slab) IN
  [Take(m, Slab) EXCEPT !.slab = [ptr |-> r.result, size |-> Slab],
                        !.wild = @ \/ r.result = Failed]

\* Mutant of mcount_allocate: the slab keeps the size it had.
mcount_allocate_KeepsSize(m) ==
  LET n == IF Record > m.slab.size THEN Refill(m) ELSE m IN
  [n EXCEPT !.slab.ptr = @ + Record, !.records = @ \union {n.slab.ptr}]
mcount_allocate(m) ==
  LET n == IF Record > m.slab.size THEN Refill(m) ELSE m IN
  [n EXCEPT !.slab = [ptr |-> @.ptr + Record, size |-> @.size - Record],
            !.records = @ \union {n.slab.ptr}]

\* The application's own requests, through malloc.
Sbrk(incr) ==
  /\ stack = <<>> /\ ~wild /\ Cardinality(blocks) < HeapBound
  /\ MemoryIs(Take(Memory, incr))
  /\ UNCHANGED <<entries, need_init, sampler, clock, stack, calls, raced>>

-----------------------------------------------------------------------------
(* mcount: the search of the fast path.  An entry or an arc once inserted stays,
   and the newest of its list is found first. *)

Top == Last(stack)
Up(call) == stack' = Append(Front(stack), call)
Runs(step) == stack # <<>> /\ Top.step = step /\ ~wild

ProfileKept == UNCHANGED <<heap, slab, blocks, records, wild, clock>>

Call(f, s) ==
  /\ Len(stack) < 2 /\ ~wild
  /\ calls[<<f, s>>] + Len(stack) < CallBound
  /\ stack' = Append(stack, [step |-> "entry", fn |-> f, site |-> s,
                             entry |-> 0, arc |-> 0, count |-> 0])
  /\ UNCHANGED <<entries, need_init, sampler, calls, raced>> /\ ProfileKept

FindEntry ==
  /\ Runs("entry")
  /\ LET found == SelectLastInSeq(entries, LAMBDA e : e.self_pc = Top.fn)
     IN  Up([Top EXCEPT !.entry = found, !.step = IF found = 0 THEN "check" ELSE "arc"])
  /\ UNCHANGED <<entries, need_init, sampler, calls, raced>> /\ ProfileKept

FindArc ==
  /\ Runs("arc")
  /\ LET found == SelectLastInSeq(entries[Top.entry].arcs, LAMBDA a : a.from_pc = Top.site)
     IN  Up([Top EXCEPT !.arc = found, !.step = IF found = 0 THEN "check" ELSE "load"])
  /\ UNCHANGED <<entries, need_init, sampler, calls, raced>> /\ ProfileKept

Count == entries[Top.entry].arcs[Top.arc].count
Done == /\ stack' = Front(stack)
        /\ calls' = [calls EXCEPT ![<<Top.fn, Top.site>>] = @ + 1]

LoadCount ==
  /\ Runs("load")
  /\ Up([Top EXCEPT !.count = Count, !.step = "store"])
  /\ UNCHANGED <<entries, need_init, sampler, calls, raced>> /\ ProfileKept
StoreCount ==
  /\ Runs("store")
  /\ entries' = [entries EXCEPT ![Top.entry].arcs[Top.arc].count = Top.count + 1]
  /\ raced' = (raced \/ Count # Top.count)
  /\ Done
  /\ UNCHANGED <<need_init, sampler>> /\ ProfileKept

-----------------------------------------------------------------------------
(* __mcount_record: the sampler first, then the arc. *)

Check ==
  /\ Runs("check")
  /\ Up([Top EXCEPT !.step = IF need_init THEN "clear" ELSE "insert"])
  /\ UNCHANGED <<entries, need_init, sampler, calls, raced>> /\ ProfileKept
Clear ==
  /\ Runs("clear")
  /\ need_init' = FALSE /\ Up([Top EXCEPT !.step = "init"])
  /\ UNCHANGED <<entries, sampler, calls, raced>> /\ ProfileKept

\* nios2_pcsample_init without a system clock, and with one: the buffer and then the alarm.
NoClock ==
  /\ Runs("init") /\ ~clock
  /\ need_init' = TRUE /\ Up([Top EXCEPT !.step = "insert"])
  /\ UNCHANGED <<entries, sampler, calls, raced>> /\ ProfileKept
TakeBuffer ==
  /\ Runs("init") /\ clock
  /\ LET r == ALT_SBRK(heap, 2 * Buckets) IN
     /\ MemoryIs([Take(Memory, 2 * Buckets) EXCEPT !.wild = r.result = Failed])
     /\ sampler' = [sampler EXCEPT !.buffer = r.result]
  /\ Up([Top EXCEPT !.step = "arm"])
  /\ UNCHANGED <<entries, need_init, clock, calls, raced>>
Arm ==
  /\ Runs("arm")
  /\ sampler' = [sampler EXCEPT !.started = @ + 1]
  /\ need_init' = FALSE /\ Up([Top EXCEPT !.step = "insert"])
  /\ UNCHANGED <<entries, calls, raced>> /\ ProfileKept

NewArc(s) == [from_pc |-> s, count |-> 1]
\* Mutant of Linked: a new arc replaces those of its bucket.
Linked_Forgets(arcs, s) == <<NewArc(s)>>
Linked(arcs, s) == Append(arcs, NewArc(s))

\* With interrupts disabled.  Whether there is an entry was found out before.
Insert ==
  /\ Runs("insert")
  /\ IF Top.entry = 0
     THEN /\ MemoryIs(mcount_allocate(mcount_allocate(Memory)))
          /\ entries' = Append(entries, [self_pc |-> Top.fn, arcs |-> Linked(<<>>, Top.site)])
     ELSE /\ MemoryIs(mcount_allocate(Memory))
          /\ entries' = [entries EXCEPT ![Top.entry].arcs = Linked(@, Top.site)]
  /\ Done
  /\ UNCHANGED <<need_init, sampler, clock, raced>>

-----------------------------------------------------------------------------
\* A tick finds the program at pc.  The bucket of the last, incomplete range is
\* one beyond the buffer, and counts in whatever lies there.
Bucket(pc) == pc \div BucketBytes
nios2_pcsample(pc) ==
  /\ sampler.started > 0 /\ pc \in 0..(TextSize - 1)
  /\ LET at == sampler.buffer + 2 * Bucket(pc)
     IN  wild' = (wild \/ at >= Aligned(sampler.buffer + 2 * Buckets))
  /\ UNCHANGED <<heap, slab, entries, need_init, sampler, clock,
                 stack, blocks, records, calls, raced>>

\* alt_sysclk_init, while the program runs.
SysclkInit ==
  /\ ~clock /\ clock' = TRUE
  /\ UNCHANGED <<heap, slab, entries, need_init, sampler,
                 stack, blocks, records, calls, raced, wild>>

__mcount_record == Check \/ Clear \/ NoClock \/ TakeBuffer \/ Arm \/ Insert
mcount == FindEntry \/ FindArc \/ LoadCount \/ StoreCount \/ __mcount_record
ProfileNext ==
  \/ mcount \/ SysclkInit
  \/ \E f \in Fn, s \in Site : Call(f, s)
  \/ \E incr \in Increments : Sbrk(incr)
  \/ \E pc \in {0, BucketBytes, TextSize - 1} : nios2_pcsample(pc)
-----------------------------------------------------------------------------
Apart(b, c) == b[2] <= c[1] \/ c[2] <= b[1]

\* Memory is handed out once: no two blocks of sbrk overlap, every record of an arc
\* lies in a block and apart from the other records, whoever asked and whatever
\* interrupted it; and a sample counts inside the buffer or in the padding after
\* it, where the incomplete bucket of an odd number of whole ones falls.  What goes
\* wild has run out of heap.
MemoryApart ==
  IF wild THEN heap.end + Slab > HeapLimit \/ heap.end + 2 * Buckets > HeapLimit
  ELSE /\ \A b, c \in blocks : b # c => Apart(b, c)
       /\ \A r \in records :
            /\ \E b \in blocks : b[1] <= r /\ r + Record <= b[2]
            /\ \A q \in records : q # r => Apart(<<r, r + Record>>, <<q, q + Record>>)

\* The copies of an arc in the lists es, and what they count together.
Places(es) == UNION {{e} \X DOMAIN es[e].arcs : e \in DOMAIN es}
ArcAt(es, i) == es[i[1]].arcs[i[2]]
CopiesOf(es, f, s) == {i \in Places(es) : es[i[1]].self_pc = f /\ ArcAt(es, i).from_pc = s}
Total(es, f, s) == SumFunction([i \in CopiesOf(es, f, s) |-> ArcAt(es, i).count])

\* However calls interrupt each other while they search and record, the copies of an
\* arc add up to the calls made; only an increment that is itself interrupted by one
\* of the same arc loses calls (alt_mcount.S 118-123, alt_gmon.c 177-180).
CallsCounted ==
  ~wild => \A f \in Fn, s \in Site :
             IF raced THEN Total(entries, f, s) <= calls[<<f, s>>]
             ELSE Total(entries, f, s) = calls[<<f, s>>]
=============================================================================
