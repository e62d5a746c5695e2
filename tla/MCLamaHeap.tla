----------------------------- MODULE MCLamaHeap -----------------------------
(***************************************************************************)
(* What the collected heap promises, and instances of it for TLC: the text *)
(* and the tags are words that look like addresses of objects.             *)
(***************************************************************************)
EXTENDS LamaHeap

ObjectEnd(id) == at[id] + ObjectWords(heap.words[at[id]])

\* While a program runs the heap iterator meets the objects that were allocated
\* and not collected, and nothing else: they lie one behind the other from the
\* start of the heap to its end.
IteratorMeetsObjects ==
    phase \in {"run", "alloc"} =>
        LET starts == {at[id] : id \in DOMAIN at} \cup {Len(heap.words) + 1}
        IN  /\ 1 \in starts
            /\ \A id \in DOMAIN at : ObjectEnd(id) \in starts
            /\ \A i, j \in DOMAIN at : i # j => ObjectEnd(i) <= at[j] \/ ObjectEnd(j) <= at[i]

\* Ids, addresses and words stay in range, and the heap is one of objects.
TypeOK ==
    /\ phase \in {"run", "alloc", "undefined"} \cup Collecting
    /\ heap.begin \in Bases /\ heap.size >= MinimumCapacity
    /\ Len(heap.words) <= heap.size /\ Range(heap.words) \subseteq Int
    /\ DOMAIN at \subseteq 1 .. born /\ born <= MaxObjects
    /\ \A id \in DOMAIN at : at[id] \in 1 .. Len(heap.words)
    /\ ToSet(extra_roots) \subseteq DOMAIN native
    /\ IteratorMeetsObjects

\* The objects that a collection must keep: those that its roots reach, the
\* least set that has what the roots point to and what its own fields point to.
Pointees(words) == {id \in DOMAIN at : Begins(id) \in words}
Closed(ids) ==
    /\ Pointees(Range(Roots)) \subseteq ids
    /\ \A id \in ids : Pointees({WordAt(heap, a) : a \in Fields(heap, Begins(id))}) \subseteq ids
Reachable == {id \in DOMAIN at : \A ids \in SUBSET DOMAIN at : Closed(ids) => id \in ids}

\* gc.c:513: "queue contains only objects that are valid heap pointers (each
\* corresponding to content of unmarked object) also each object is in queue
\* only once".  The places of the queue are objects as well; an object is flagged
\* as enqueued exactly while it is in it.
QueuePlaces == {id \in DOMAIN at : head + HeaderBytes <= Begins(id) /\ Begins(id) < tail + HeaderBytes}
Queued(id) == get_forward_address(heap, Begins(id))

QueueInvariant ==
    phase = "mark" =>
        /\ \A i, j \in QueuePlaces : Queued(i) = Queued(j) => i = j
        /\ {Queued(id) : id \in QueuePlaces} =
               {Begins(id) : id \in {i \in DOMAIN at : is_enqueued(heap, Begins(i))}}
        /\ \A id \in QueuePlaces : ~is_marked(heap, Queued(id))

\* Between collections no object keeps a mark, or the next collection would
\* take it for one it has seen.
NoMarksLeft ==
    phase \in {"run", "alloc"} =>
        \A id \in DOMAIN at : ~is_marked(heap, Begins(id)) /\ ~is_enqueued(heap, Begins(id))

\* The flags in the forward words mean what the collector takes them for.
FlagsKept == QueueInvariant /\ NoMarksLeft

\* When compaction begins, exactly what the roots reach is marked.
MarksWhatIsReachable ==
    phase = "compute" /\ scan = heap.begin =>
        Reachable = {id \in DOMAIN at : is_marked(heap, Begins(id))}

\* Objects slide down: the new places of those that are still to be moved are
\* in order, apart, and not above the old ones, so that no move destroys an
\* object that has not been moved yet.
SlidesDown ==
    phase = "relocate" /\ scan < Current(heap) =>
        LET waits == {id \in DOMAIN at : /\ at[id] >= Slot(heap, scan)
                                         /\ is_marked(heap, Begins(id))}
            to(id) == Slot(heap, Relative(get_forward_address(heap, Begins(id))))
        IN  \A i, j \in waits :
                /\ to(i) <= at[i]
                /\ at[i] < at[j] => to(i) + ObjectEnd(i) - at[i] <= to(j)

\* A collection makes the room it was asked for: gc_alloc never returns NULL,
\* which its callers do not test.
CollectionMakesRoom == [][phase = "relocate" /\ phase' = "alloc" => Fits']_vars

\* The collected heap implements values that are never moved.
LamaValues == INSTANCE LamaStore WITH operands <- view.operands, objects <- view.objects,
                                      count <- view.count
ImplementsStore == LamaValues!Spec

=============================================================================
