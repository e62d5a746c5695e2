------------------------------- MODULE LamaGC -------------------------------
(***************************************************************************)
(* The mark-and-compact collector of the Lama runtime (gc.c), a step per   *)
(* object, and per field while marking: the roots are marked one after the *)
(* other, each with a breadth-first search whose queue lives in the        *)
(* forward words of the objects from the start of the heap; then addresses *)
(* are computed, the chunk is grown, references are updated and objects    *)
(* are moved down.                                                         *)
(*                                                                         *)
(* `stack' is the stack of Lama values between __gc_stack_top and          *)
(* __gc_stack_bottom, the top first; `native' are the variables of the     *)
(* runtime function that allocates, `extra_roots' the names of those it    *)
(* has registered.  `request' is the number of words it asked for.         *)
(*                                                                         *)
(* `born' and `at' are history: how many objects were ever allocated, and  *)
(* where (in words from the start of the heap) each of them is.            *)
(***************************************************************************)
EXTENDS HeapLayout, SequencesExt, FiniteSets, TLC

CONSTANTS
    MinimumCapacity,    \* MINIMUM_HEAP_CAPACITY
    Bases               \* the addresses mmap and mremap may give the heap

ExtraRoom == 2          \* EXTRA_ROOM_HEAP_COEFFICIENT

Outside == WordBytes    \* an address that is not in the heap

ASSUME HeapAssumption ==
    /\ MinimumCapacity \in Nat
    /\ Bases # {} /\ \A b \in Bases : b \in Nat /\ b > Outside /\ b % WordBytes = 0

VARIABLES
    heap,
    stack,
    native,
    extra_roots,
    phase,      \* "run", "alloc", the phases of a collection, or "undefined"
    request,
    root,       \* the root whose turn it is
    head,       \* q_head_iter
    tail,       \* q_tail_iter
    field,      \* ptr_field_it: the field of the marked object whose turn it is ...
    field_end,  \* ... and the end of that object
    scan,       \* the heap iterator of a compaction pass
    free_ptr,
    old_heap,   \* [begin, current] before mremap
    born,
    at

search == << head, tail, field, field_end >>
gcvars == << root, search, scan, free_ptr, old_heap >>
mutator == << native, extra_roots, request, born >>

NoHeap == [begin |-> 0, current |-> 0]

Marking == {"roots", "mark"}
Compacting == {"compute", "update", "relocate"}
Collecting == Marking \cup Compacting

Larger(a, b) == IF a > b THEN a ELSE b

-----------------------------------------------------------------------------
\* The content of an object.
Begins(id) == get_object_content_ptr(Address(heap, at[id]))

\* A bug: one word too many.
FitsOneOver == Current(heap) + WordBytes * request <= End(heap) + WordBytes

\* gc_alloc_on_existing_heap.
Fits == Current(heap) + WordBytes * request <= End(heap)

\* alloc falls back to gc_alloc.
Collect ==
    /\ phase = "alloc" /\ ~Fits
    /\ phase' = "roots"
    /\ root' = 1
    /\ UNCHANGED << heap, stack, mutator, search, scan, free_ptr, old_heap, at >>

-----------------------------------------------------------------------------
(* Marking *)

\* gc_root_scan_stack, then scan_extra_roots.
Roots == stack \o [i \in DOMAIN extra_roots |-> native[extra_roots[i]]]

\* What a root that points into the heap has to point to.
PointsToObject(w) == \E id \in DOMAIN at : w = Begins(id)

\* The place for p is that of the object at the tail.
queue_enqueue(h, q_tail, p) ==
    make_enqueued(set_forward_address(h, get_object_content_ptr(q_tail), p), p)

\* One root.  A root that is no object's content, but an address inside one,
\* makes the collector take other words for a header.
MarkRoot ==
    /\ phase = "roots" /\ root \in DOMAIN Roots
    /\ LET p == Roots[root]
       IN  \/ /\ ~is_valid_heap_pointer(heap, p)
              /\ root' = root + 1
              /\ UNCHANGED << heap, phase, head, tail >>
           \/ /\ is_valid_heap_pointer(heap, p) /\ ~PointsToObject(p)
              /\ phase' = "undefined"
              /\ UNCHANGED << heap, root, head, tail >>
           \/ /\ is_valid_heap_pointer(heap, p) /\ PointsToObject(p) /\ is_marked(heap, p)
              /\ root' = root + 1
              /\ UNCHANGED << heap, phase, head, tail >>
           \/ /\ is_valid_heap_pointer(heap, p) /\ PointsToObject(p) /\ ~is_marked(heap, p)
              /\ heap' = queue_enqueue(heap, heap.begin, p)
              /\ head' = heap.begin
              /\ tail' = NextObject(heap, heap.begin)
              /\ phase' = "mark"
              /\ UNCHANGED root
    /\ UNCHANGED << stack, mutator, field, field_end, scan, free_ptr, old_heap, at >>

\* A bug: what has a place in the queue is never looked at again, not even
\* what an earlier search left there.
SettledOrForwarded(h, w) == is_valid_heap_pointer(h, w) => get_forward_address(h, w) # 0

\* What mark does not enqueue.
Settled(h, w) == is_valid_heap_pointer(h, w) => is_marked(h, w) \/ is_enqueued(h, w)

\* The object at the head is marked, and its fields come next ...
Mark ==
    /\ phase = "mark" /\ field >= field_end /\ head # tail
    /\ LET p == get_forward_address(heap, get_object_content_ptr(head))
       IN  /\ heap' = mark_object(make_dequeued(heap, p), p)
           /\ field' = field_begin_iterator(heap, p)
           /\ field_end' = EndOf(heap, p)
    /\ head' = NextObject(heap, head)
    /\ UNCHANGED << stack, mutator, phase, root, tail, scan, free_ptr, old_heap, at >>

\* ... one after the other: what is neither marked nor in the queue is enqueued.
\* The fields that hold integers, which the iterator skips, are settled.
VisitField ==
    /\ phase = "mark" /\ field < field_end
    /\ LET w == WordAt(heap, field)
       IN  \/ /\ Settled(heap, w)
              /\ UNCHANGED << heap, tail >>
           \/ /\ ~Settled(heap, w)
              /\ heap' = queue_enqueue(heap, tail, w)
              /\ tail' = NextObject(heap, tail)
    /\ field' = field + WordBytes
    /\ UNCHANGED << stack, mutator, phase, root, head, field_end, scan, free_ptr, old_heap, at >>

MarkEnd ==
    /\ phase = "mark" /\ field >= field_end /\ head = tail
    /\ phase' = "roots"
    /\ root' = root + 1
    /\ UNCHANGED << heap, stack, mutator, search, scan, free_ptr, old_heap, at >>

-----------------------------------------------------------------------------
(* Compaction *)

\* compact_phase begins.
CompactPhase ==
    /\ phase = "roots" /\ root \notin DOMAIN Roots
    /\ phase' = "compute"
    /\ scan' = heap.begin
    /\ free_ptr' = heap.begin
    /\ UNCHANGED << heap, stack, mutator, root, search, old_heap, at >>

Occupied(header) == NextObject(heap, header) - header

\* A bug: the free pointer moves on first.
BehindItself(header) == free_ptr + Occupied(header)

NewPlace(header) == free_ptr

\* compute_locations, one object.
ComputeLocation ==
    /\ phase = "compute" /\ scan < Current(heap)
    /\ LET p == get_object_content_ptr(scan)
       IN  IF is_marked(heap, p)
           THEN /\ heap' = set_forward_address(heap, p, NewPlace(scan))
                /\ free_ptr' = free_ptr + Occupied(scan)
           ELSE UNCHANGED << heap, free_ptr >>
    /\ scan' = NextObject(heap, scan)
    /\ UNCHANGED << stack, mutator, phase, root, search, old_heap, at >>

live_size == (free_ptr - old_heap.begin) \div WordBytes

LiveWords == (free_ptr - heap.begin) \div WordBytes

\* A bug: room for what is there, not for what is asked for.
NextHeapSizeForLive == Larger(Larger(LiveWords, MinimumCapacity), heap.size)

NextHeapSize ==
    Larger(Larger(LiveWords * ExtraRoom + request, MinimumCapacity), heap.size)

\* mremap: a chunk that grows may move.
Remap ==
    /\ phase = "compute" /\ scan >= Current(heap)
    /\ \E b \in Bases :
          /\ NextHeapSize = heap.size => b = heap.begin
          /\ heap' = [heap EXCEPT !.begin = b, !.size = NextHeapSize]
          /\ scan' = b
    /\ old_heap' = [begin |-> heap.begin, current |-> Current(heap)]
    /\ phase' = "update"
    /\ UNCHANGED << stack, mutator, root, search, free_ptr, at >>

InOldHeap(w) == ~UNBOXED(w) /\ old_heap.begin <= w /\ w <= old_heap.current
\* The new address of the object that w pointed to before mremap.
Relative(a) == heap.begin + (a - old_heap.begin)
Forwarded(w) == Relative(get_forward_address(heap, Relative(w))) + HeaderBytes
Fixed(w) == IF InOldHeap(w) THEN Forwarded(w) ELSE w

\* update_references, one object.  The new address depends on forward words only,
\* and no field is one.
UpdateReferences ==
    /\ phase = "update" /\ scan < Current(heap)
    /\ LET p == get_object_content_ptr(scan)
       IN  heap' = IF is_marked(heap, p)
                   THEN [heap EXCEPT !.words = [i \in DOMAIN heap.words |->
                            IF Address(heap, i) \in Fields(heap, p)
                            THEN Fixed(heap.words[i])
                            ELSE heap.words[i]]]
                   ELSE heap
    /\ scan' = NextObject(heap, scan)
    /\ UNCHANGED << stack, mutator, phase, root, search, free_ptr, old_heap, at >>

\* scan_and_fix_region of the stack, then scan_and_fix_region_roots.
FixRoots ==
    /\ phase = "update" /\ scan >= Current(heap)
    /\ stack' = [i \in DOMAIN stack |-> Fixed(stack[i])]
    /\ native' = [v \in DOMAIN native |->
                    IF v \in ToSet(extra_roots) THEN Fixed(native[v]) ELSE native[v]]
    /\ phase' = "relocate"
    /\ scan' = heap.begin
    /\ UNCHANGED << heap, extra_roots, request, born, root, search, free_ptr, old_heap, at >>

\* memmove of n words; the words may overlap.
Moved(h, to, from, n) ==
    LET distance == Slot(h, from) - Slot(h, to)
    IN  [h EXCEPT !.words = [i \in DOMAIN h.words |->
            IF i \in Slot(h, to) .. Slot(h, to) + n - 1
            THEN h.words[i + distance]
            ELSE h.words[i]]]

\* physically_relocate, one object.
Relocate ==
    /\ phase = "relocate" /\ scan < Current(heap)
    /\ LET p == get_object_content_ptr(scan)
           to == Relative(get_forward_address(heap, p))
           n == ObjectWords(WordAt(heap, scan))
       IN  IF is_marked(heap, p)
           THEN /\ heap' = unmark_object(Moved(heap, to, scan, n), get_object_content_ptr(to))
                /\ at' = [id \in DOMAIN at |->
                            IF at[id] = Slot(heap, scan) THEN Slot(heap, to) ELSE at[id]]
           ELSE /\ heap' = heap
                /\ at' = [id \in {i \in DOMAIN at : at[i] # Slot(heap, scan)} |-> at[id]]
    /\ scan' = NextObject(heap, scan)
    /\ UNCHANGED << stack, mutator, phase, root, search, free_ptr, old_heap >>

\* compact_phase ends; gc_alloc tries again.
CompactEnd ==
    /\ phase = "relocate" /\ scan >= Current(heap)
    /\ heap' = [heap EXCEPT !.words = SubSeq(heap.words, 1, live_size)]
    /\ phase' = "alloc"
    /\ root' = 0 /\ scan' = 0 /\ free_ptr' = 0 /\ old_heap' = NoHeap
    /\ head' = 0 /\ tail' = 0 /\ field' = 0 /\ field_end' = 0
    /\ UNCHANGED << stack, mutator, at >>

CollectorStep ==
    \/ Collect \/ MarkRoot \/ Mark \/ VisitField \/ MarkEnd
    \/ CompactPhase \/ ComputeLocation \/ Remap
    \/ UpdateReferences \/ FixRoots \/ Relocate \/ CompactEnd

-----------------------------------------------------------------------------
(* Writing a new object *)

\* memset of the words, and the header that alloc_string, alloc_array,
\* alloc_sexp or alloc_closure writes.
Allocated(h, header) ==
    LET zeros == [i \in 1 .. ObjectWords(header) |-> 0]
    IN  [h EXCEPT !.words = @ \o [zeros EXCEPT ![1] = header]]

\* The same with the object's words, from the first behind the header.
AllocatedWith(h, header, body) ==
    LET object == Allocated(h, header)
        first == Len(h.words) + HeaderWords
    IN  [object EXCEPT !.words = [i \in DOMAIN @ |->
            IF i - first \in DOMAIN body THEN body[i - first] ELSE @[i]]]

=============================================================================
