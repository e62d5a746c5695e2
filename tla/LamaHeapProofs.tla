--------------------------- MODULE LamaHeapProofs ---------------------------
(***************************************************************************)
(* The collected heap, for programs of any size in heaps of any size:      *)
(* objects lie one behind the other, every reference is to one of them,    *)
(* and a collection marks what is reachable, slides it down without        *)
(* overwriting anything, leaves no mark behind and makes the room it was   *)
(* asked for.                                                              *)
(***************************************************************************)
EXTENDS MCLamaHeap, FiniteSetTheorems, TLAPS

-----------------------------------------------------------------------------
(* The inductive invariant: objects                                        *)

\* Slots, rather than addresses: an object with its header in slot s has its
\* forward word in s + 1 and its content from s + 2.
Size(w, s) == ObjectWords(w[s])
Sizes(w, a) == [id \in DOMAIN a |-> Size(w, a[id])]
Content(b, s) == b + WordBytes * (s + 1)
FieldSlots(w, s) ==
    IF TAG(w[s]) = STRING_TAG THEN {}
    ELSE (IF TAG(w[s]) \in {SEXP_TAG, CLOSURE_TAG} THEN s + 3 ELSE s + 2) .. s + Size(w, s) - 1

\* Places p of objects of sizes z fill the slots from lo up to hi.
Tiled(p, z, lo, hi) ==
    LET starts == {p[i] : i \in DOMAIN p} \cup {hi}
    IN  /\ lo \in starts /\ lo <= hi
        /\ \A i \in DOMAIN p : /\ lo <= p[i] /\ p[i] + z[i] <= hi
                               /\ p[i] + z[i] \in starts
        /\ \A i, j \in DOMAIN p : i # j => p[i] + z[i] <= p[j] \/ p[j] + z[j] <= p[i]

Objects(w, a) ==
    /\ w \in Seq(Int)
    /\ a \in [DOMAIN a -> Nat \ {0}]
    /\ \A id \in DOMAIN a : a[id] < Len(w) /\ w[a[id]] \in Nat

Starts == {at[id] : id \in DOMAIN at} \cup {Len(heap.words) + 1}
Marked(w, s) == MARKED(w[s + 1])
Enqueued(w, s) == ENQUEUED(w[s + 1])
Forward(w, s) == GET_FORWARD_ADDRESS(w[s + 1])
AllMarked == {id \in DOMAIN at : Marked(heap.words, at[id])}

\* The slot of an address of the heap, and that of the object a pass is at.
Aligned(x) == x = Address(heap, Slot(heap, x))
ScanSlot == Slot(heap, scan)
Passed == {id \in DOMAIN at : at[id] < ScanSlot}
Unmoved == [id \in DOMAIN at \ Passed |-> at[id]]

\* The slot that an object's forward address stands for, in the heap it was
\* computed in, and where an object is at the end of a collection.
Origin == IF phase = "compute" THEN heap.begin ELSE old_heap.begin
ForwardSlot(id) == (Forward(heap.words, at[id]) - Origin) \div WordBytes + 1
Place(id) == IF phase = "relocate" /\ id \in Passed THEN at[id] ELSE ForwardSlot(id)
Placed ==
    IF phase = "compute" THEN AllMarked \cap Passed
    ELSE IF phase = "update" THEN AllMarked
    ELSE IF phase = "relocate" THEN Passed \cup AllMarked
    ELSE {}
Places == [id \in Placed |-> Place(id)]
FreeSlot == (free_ptr - Origin) \div WordBytes + 1

\* What a collection keeps, and the word that refers to an object of it.
Kept ==
    IF phase \in {"compute", "update"} THEN AllMarked
    ELSE IF phase = "relocate" THEN Passed \cup AllMarked
    ELSE DOMAIN at
RootWord(id) ==
    IF phase = "update" THEN Content(old_heap.begin, at[id])
    ELSE IF phase = "relocate" THEN Content(heap.begin, Place(id))
    ELSE Content(heap.begin, at[id])
FieldWord(id, owner) ==
    IF phase = "update" /\ owner \in Passed THEN Content(heap.begin, Place(id)) ELSE RootWord(id)

-----------------------------------------------------------------------------
(* The inductive invariant: its parts                                      *)

Typed ==
    /\ phase \in {"run", "alloc", "undefined"} \cup Collecting
    /\ heap \in [begin : Bases, size : Nat, words : Seq(Int)]
    /\ heap.size >= MinimumCapacity /\ Len(heap.words) <= heap.size
    /\ born \in Nat /\ born <= MaxObjects /\ DOMAIN at \subseteq 1 .. born
    /\ Objects(heap.words, at)
    /\ stack \in Seq(Int) /\ native \in Seq(Int) /\ extra_roots \in Seq(DOMAIN native)

Running == phase \notin {"undefined"}

ObjectsTile ==
    phase \in {"run", "alloc", "roots", "mark", "compute", "update"} =>
        Tiled(at, Sizes(heap.words, at), 1, Len(heap.words) + 1)

FieldsSound ==
    Running => \A id \in Kept : \A k \in FieldSlots(heap.words, at[id]) :
        UNBOXED(heap.words[k]) \/ \E j \in Kept : heap.words[k] = FieldWord(j, id)

\* The address of a word of an object, which LDA pushes.
Inside(x) == \E id \in DOMAIN at : \E k \in at[id] + 3 .. at[id] + Size(heap.words, at[id]) - 1 :
                x = Address(heap, k)

Sound(x) == UNBOXED(x) \/ \E id \in Kept : x = RootWord(id)

StackSound ==
    Running => \A i \in DOMAIN stack :
        \/ Sound(stack[i])
        \/ phase \in {"run", "alloc", "roots", "mark"} /\ i > Popped /\ Inside(stack[i])

\* What the function that allocates knows of the object its variable v refers to.
Argument(v, header) ==
    /\ call.op = "clone" => header = call.header
    /\ call.op \in {"string copy", "concat", "substring"} => TAG(header) = STRING_TAG
    /\ call.op = "substring" => WordBytes * (call.body[1] + call.body[2]) <= LEN(header)
NeedsObjects == {"clone", "string copy", "concat", "substring"}

NativesSound ==
    Running => \A v \in Range(extra_roots) :
        \/ /\ call.op \notin NeedsObjects
           /\ UNBOXED(native[v]) \/ (call.op = "string" /\ native[v] = Outside)
        \/ \E id \in Kept : native[v] = RootWord(id) /\ Argument(v, heap.words[at[id]])

\* The calls there are.
CallSound ==
    /\ phase = "run" => call = NoCall /\ extra_roots = << >>
    /\ phase \in {"alloc"} \cup Collecting =>
        /\ born < MaxObjects
        /\ call.header \in Nat /\ request = ObjectWords(call.header)
        /\ call.body \in Seq(Int) /\ Popped \in 0 .. Len(stack)
        /\ call.op \in {"array", "sexp", "closure", "cons", "string"} \cup NeedsObjects
        /\ call.op = "array" => call.header = DataHeader(ARRAY_TAG, Popped) /\ call.body = << >>
        /\ call.op \in {"sexp", "closure", "cons"} => Len(call.body) = 1
        /\ call.op = "sexp" => call.header = DataHeader(SEXP_TAG, Popped)
        /\ call.op = "closure" => call.header = DataHeader(CLOSURE_TAG, Popped + 1)
        /\ call.op = "cons" => /\ call.header = DataHeader(SEXP_TAG, 2)
                               /\ Len(native) = 4 /\ Range(extra_roots) = {1, 2}
        /\ call.op \in {"string", "string copy", "concat", "substring"} =>
               TAG(call.header) = STRING_TAG
        /\ call.op \in {"string copy", "concat"} => Len(native) = 2 /\ Range(extra_roots) = {1, 2}
        /\ call.op \in {"clone", "substring"} => Len(native) = 1 /\ Range(extra_roots) = {1}
        /\ call.op = "substring" => /\ Len(call.body) = 2
                                    /\ call.body[1] \in Nat /\ call.body[2] \in Nat

FlagsSound ==
    /\ phase \in {"run", "alloc"} => \A id \in DOMAIN at : heap.words[at[id] + 1] % 4 = 0
    /\ phase \in {"roots", "compute", "update", "relocate"} =>
           \A id \in DOMAIN at : ~Enqueued(heap.words, at[id])
    /\ phase = "relocate" => \A id \in Passed : ~Marked(heap.words, at[id])

-----------------------------------------------------------------------------
(* The inductive invariant: marking                                        *)

Active == {id \in DOMAIN at : Marked(heap.words, at[id]) \/ Enqueued(heap.words, at[id])}

\* A root that is done with.
Seen(x) == UNBOXED(x) \/ x = Outside \/ \E id \in AllMarked : x = Content(heap.begin, at[id])

\* A slot whose turn has not come.
Pending(k) == phase = "mark" /\ field <= Address(heap, k) /\ Address(heap, k) < field_end

MarkSound ==
    phase \in Marking =>
        /\ root \in 1 .. Len(Roots) + 1
        /\ \A r \in 1 .. root - 1 : Seen(Roots[r])
        /\ phase = "mark" => /\ root <= Len(Roots)
                             /\ \E id \in Active : Roots[root] = Content(heap.begin, at[id])
        /\ Active \subseteq Reachable
        /\ \A i \in AllMarked : \A k \in FieldSlots(heap.words, at[i]) : \A j \in DOMAIN at :
               heap.words[k] = Content(heap.begin, at[j]) => j \in Active \/ Pending(k)

HeadSlot == Slot(heap, head)
TailSlot == Slot(heap, tail)
Holds(i, j) == Forward(heap.words, at[i]) = Content(heap.begin, at[j])

QueueSound ==
    phase = "mark" =>
        /\ Aligned(head) /\ Aligned(tail) /\ HeadSlot <= TailSlot
        /\ HeadSlot \in Starts /\ TailSlot \in Starts
        /\ \A i \in DOMAIN at : at[i] < TailSlot =>
               \E j \in DOMAIN at : /\ Holds(i, j)
                                    /\ Marked(heap.words, at[j]) <=> at[i] < HeadSlot
                                    /\ Enqueued(heap.words, at[j]) <=> at[i] >= HeadSlot
        /\ \A i, j \in DOMAIN at :
               at[i] < TailSlot /\ at[j] < TailSlot /\ Forward(heap.words, at[i]) = Forward(heap.words, at[j])
                   => i = j
        /\ \A j \in DOMAIN at : Enqueued(heap.words, at[j]) =>
               \E i \in DOMAIN at : HeadSlot <= at[i] /\ at[i] < TailSlot /\ Holds(i, j)

FieldSound ==
    /\ field \in Int /\ field_end \in Int
    /\ \/ field >= field_end
       \/ /\ phase = "mark" /\ Aligned(field) /\ field < field_end
          /\ \E i \in AllMarked : /\ Slot(heap, field) \in FieldSlots(heap.words, at[i])
                                  /\ field_end = Address(heap, at[i] + Size(heap.words, at[i]))

-----------------------------------------------------------------------------
(* The inductive invariant: compaction                                     *)

ScanSound ==
    phase \in Compacting =>
        /\ Aligned(scan) /\ ScanSlot \in Starts
        /\ phase = "relocate" => /\ Tiled(Unmoved, Sizes(heap.words, at), ScanSlot, Len(heap.words) + 1)
                                 /\ \A id \in Passed : at[id] + Size(heap.words, at[id]) <= ScanSlot

\* The places of what a collection keeps: one behind the other from the start of
\* the heap, in the order of the objects and not above them.
PlacesSound ==
    phase \in Compacting =>
        /\ Origin \in Bases /\ FreeSlot \in Nat
        /\ free_ptr = Origin + WordBytes * (FreeSlot - 1)
        /\ Tiled(Places, Sizes(heap.words, at), 1, FreeSlot)
        /\ \A id \in Placed : /\ Place(id) \in Nat /\ Place(id) <= at[id]
                              /\ id \notin Passed \/ phase # "relocate" =>
                                    Forward(heap.words, at[id]) = Origin + WordBytes * (Place(id) - 1)
        /\ \A i, j \in Placed : at[i] < at[j] => Place(i) < Place(j)
        /\ phase = "compute" => FreeSlot <= ScanSlot
        /\ FreeSlot <= Len(heap.words) + 1

RoomSound ==
    phase \in {"update", "relocate"} =>
        /\ heap.size >= 2 * (FreeSlot - 1) + request
        /\ old_heap.current = old_heap.begin + WordBytes * Len(heap.words)

IInv ==
    /\ Typed /\ ObjectsTile /\ FieldsSound /\ StackSound /\ NativesSound /\ CallSound /\ FlagsSound
    /\ MarkSound /\ QueueSound /\ FieldSound
    /\ ScanSound /\ PlacesSound /\ RoomSound /\ MarksWhatIsReachable

-----------------------------------------------------------------------------
(* Words, headers and slots                                                *)

\* The size of an object, and what its header says.
LEMMA HeaderFacts ==
    ASSUME NEW x \in Nat
    PROVE  /\ TAG(x) \in 0 .. 7 /\ LEN(x) \in Nat
           /\ ObjectWords(x) \in Nat /\ ObjectWords(x) >= 2
           /\ TAG(x) = STRING_TAG => ObjectWords(x) = LEN(x) \div 4 + 3 /\ LEN(x) \div 4 \in Nat
           /\ TAG(x) = SEXP_TAG => ObjectWords(x) = LEN(x) + 3
           /\ TAG(x) \notin {STRING_TAG, SEXP_TAG} => ObjectWords(x) = LEN(x) + 2
<1>1. TAG(x) \in 0 .. 7 /\ LEN(x) \in Nat /\ LEN(x) \div 4 \in Nat
    BY DEF TAG, LEN
<1> QED
    BY <1>1 DEF ObjectWords, HeaderWords, WordBytes, STRING_TAG, SEXP_TAG

\* A header that is written has the tag and the length it was made from.
LEMMA DataHeaderFacts ==
    ASSUME NEW n \in Nat, NEW tag \in {STRING_TAG, ARRAY_TAG, SEXP_TAG, CLOSURE_TAG}
    PROVE  DataHeader(tag, n) \in Nat /\ TAG(DataHeader(tag, n)) = tag /\ LEN(DataHeader(tag, n)) = n
BY DEF DataHeader, TAG, LEN, STRING_TAG, ARRAY_TAG, SEXP_TAG, CLOSURE_TAG

\* The three parts of a forward word are independent.
LEMMA ForwardFacts ==
    ASSUME NEW x \in Int
    PROVE  /\ GET_FORWARD_ADDRESS(x) \in Int /\ GET_FORWARD_ADDRESS(x) % 4 = 0
           /\ x % 4 = 0 <=> ~MARKED(x) /\ ~ENQUEUED(x)
           /\ \A a \in Int : a % 4 = 0 =>
                  /\ SET_FORWARD_ADDRESS(x, a) \in Int
                  /\ GET_FORWARD_ADDRESS(SET_FORWARD_ADDRESS(x, a)) = a
                  /\ MARKED(SET_FORWARD_ADDRESS(x, a)) = MARKED(x)
                  /\ ENQUEUED(SET_FORWARD_ADDRESS(x, a)) = ENQUEUED(x)
BY DEF GET_FORWARD_ADDRESS, SET_FORWARD_ADDRESS, MARKED, ENQUEUED

\* Setting or clearing a flag leaves the other flag and the address alone.
LEMMA FlagFacts ==
    ASSUME NEW x \in Int
    PROVE  /\ SET_MARK_BIT(x) \in Int /\ MARKED(SET_MARK_BIT(x))
           /\ ENQUEUED(SET_MARK_BIT(x)) = ENQUEUED(x)
           /\ GET_FORWARD_ADDRESS(SET_MARK_BIT(x)) = GET_FORWARD_ADDRESS(x)
           /\ RESET_MARK_BIT(x) \in Int /\ ~MARKED(RESET_MARK_BIT(x))
           /\ ENQUEUED(RESET_MARK_BIT(x)) = ENQUEUED(x)
           /\ MAKE_ENQUEUED(x) \in Int /\ ENQUEUED(MAKE_ENQUEUED(x))
           /\ MARKED(MAKE_ENQUEUED(x)) = MARKED(x)
           /\ GET_FORWARD_ADDRESS(MAKE_ENQUEUED(x)) = GET_FORWARD_ADDRESS(x)
           /\ MAKE_DEQUEUED(x) \in Int /\ ~ENQUEUED(MAKE_DEQUEUED(x))
           /\ MARKED(MAKE_DEQUEUED(x)) = MARKED(x)
           /\ GET_FORWARD_ADDRESS(MAKE_DEQUEUED(x)) = GET_FORWARD_ADDRESS(x)
BY DEF GET_FORWARD_ADDRESS, MARKED, ENQUEUED, SET_MARK_BIT, RESET_MARK_BIT, MAKE_ENQUEUED,
       MAKE_DEQUEUED

\* An object that has its header in slot s, by its address.
LEMMA SlotFacts ==
    ASSUME NEW h, h.begin \in Int, NEW s \in Int
    PROVE  /\ Address(h, s) \in Int /\ Slot(h, Address(h, s)) = s
           /\ get_object_content_ptr(Address(h, s)) = Content(h.begin, s)
           /\ Content(h.begin, s) = Address(h, s + 2) /\ Slot(h, Content(h.begin, s)) = s + 2
           /\ Content(h.begin, s) - WordBytes = Address(h, s + 1)
           /\ get_obj_header_ptr(Content(h.begin, s)) = Address(h, s)
BY DEF Address, Slot, Content, get_object_content_ptr, get_obj_header_ptr, HeaderBytes,
       HeaderWords, WordBytes

\* The same slot in a heap that begins at the same address.
LEMMA SameBegin ==
    ASSUME NEW h, NEW g, h.begin \in Int, g.begin = h.begin, NEW s \in Int
    PROVE  Slot(g, Address(h, s)) = s /\ Address(g, s) = Address(h, s)
BY DEF Address, Slot, WordBytes

\* Reading and writing the word in a slot.
LEMMA WordFacts ==
    ASSUME NEW h, h.begin \in Int, NEW s \in Int
    PROVE  /\ WordAt(h, Address(h, s)) = h.words[s]
           /\ \A x : Store(h, Address(h, s), x) = [h EXCEPT !.words[s] = x]
BY SlotFacts DEF WordAt, Store

\* The accessors of gc.c at the object that has its header in slot s.
LEMMA ObjectFacts ==
    ASSUME NEW h, h.begin \in Int, NEW s \in Int, Size(h.words, s) \in Int
    PROVE  LET p == Content(h.begin, s)
           IN  /\ TypeOf(h, p) = TAG(h.words[s]) /\ LengthOf(h, p) = LEN(h.words[s])
               /\ WordAt(h, get_obj_header_ptr(p)) = h.words[s]
               /\ is_marked(h, p) = Marked(h.words, s)
               /\ is_enqueued(h, p) = Enqueued(h.words, s)
               /\ get_forward_address(h, p) = Forward(h.words, s)
               /\ \A x : SetForwardWord(h, p, x) = [h EXCEPT !.words[s + 1] = x]
               /\ NextObject(h, Address(h, s)) = Address(h, s + Size(h.words, s))
               /\ EndOf(h, p) = Address(h, s + Size(h.words, s))
               /\ Fields(h, p) = {Address(h, k) : k \in FieldSlots(h.words, s)}
               /\ \E f \in Int : /\ field_begin_iterator(h, p) = Address(h, f)
                                 /\ Size(h.words, s) >= 2 =>
                                        /\ f >= s + 2
                                        /\ FieldSlots(h.words, s) = f .. s + Size(h.words, s) - 1
<1> DEFINE p == Content(h.begin, s)
           n == Size(h.words, s)
<1>1. WordAt(h, get_obj_header_ptr(p)) = h.words[s]
    BY SlotFacts, WordFacts
<1>2. ForwardWord(h, p) = h.words[s + 1]
    BY SlotFacts, WordFacts DEF ForwardWord
<1>3. \A x : SetForwardWord(h, p, x) = [h EXCEPT !.words[s + 1] = x]
    BY SlotFacts, WordFacts DEF SetForwardWord
<1>4. NextObject(h, Address(h, s)) = Address(h, s + n)
    BY WordFacts DEF NextObject, Size, Address, WordBytes
<1>5. EndOf(h, p) = Address(h, s + n)
    BY <1>4, SlotFacts DEF EndOf
<1>6. Fields(h, p) = {Address(h, k) : k \in FieldSlots(h.words, s)}
    <2>1. Slot(h, EndOf(h, p)) = s + n
        BY <1>5, SlotFacts
    <2>2. TypeOf(h, p) = TAG(h.words[s])
        BY <1>1 DEF TypeOf
    <2>3. CASE TAG(h.words[s]) = STRING_TAG
        <3>1. field_begin_iterator(h, p) = EndOf(h, p)
            BY <2>2, <2>3 DEF field_begin_iterator, STRING_TAG, SEXP_TAG, CLOSURE_TAG
        <3>2. Slot(h, field_begin_iterator(h, p)) .. Slot(h, EndOf(h, p)) - 1 = {}
            BY <2>1, <3>1
        <3> QED
            BY <2>3, <3>2, Zenon DEF Fields, FieldSlots
    <2>4. CASE TAG(h.words[s]) \in {SEXP_TAG, CLOSURE_TAG}
        <3>1. field_begin_iterator(h, p) = p + WordBytes
            BY <2>2, <2>4 DEF field_begin_iterator, STRING_TAG, SEXP_TAG, CLOSURE_TAG
        <3>2. Slot(h, p + WordBytes) = s + 3
            BY DEF Slot, Content, WordBytes
        <3> QED
            BY <2>1, <2>4, <3>1, <3>2 DEF Fields, FieldSlots, STRING_TAG, SEXP_TAG, CLOSURE_TAG
    <2>5. CASE TAG(h.words[s]) \notin {STRING_TAG, SEXP_TAG, CLOSURE_TAG}
        <3>1. field_begin_iterator(h, p) = p
            BY <2>2, <2>5 DEF field_begin_iterator
        <3>2. Slot(h, p) = s + 2
            BY SlotFacts
        <3> QED
            BY <2>1, <2>5, <3>1, <3>2 DEF Fields, FieldSlots
    <2> QED
        BY <2>3, <2>4, <2>5
<1>7. \E f \in Int : /\ field_begin_iterator(h, p) = Address(h, f)
                     /\ n >= 2 => f >= s + 2 /\ FieldSlots(h.words, s) = f .. s + n - 1
    <2>2. TypeOf(h, p) = TAG(h.words[s])
        BY <1>1 DEF TypeOf
    <2>3. CASE TAG(h.words[s]) = STRING_TAG
        <3>1. field_begin_iterator(h, p) = Address(h, s + n)
            BY <1>5, <2>2, <2>3 DEF field_begin_iterator, STRING_TAG, SEXP_TAG, CLOSURE_TAG
        <3>2. FieldSlots(h.words, s) = {} /\ s + n .. s + n - 1 = {}
            BY <2>3 DEF FieldSlots
        <3> QED
            BY <3>1, <3>2
    <2>4. CASE TAG(h.words[s]) \in {SEXP_TAG, CLOSURE_TAG}
        <3>1. field_begin_iterator(h, p) = p + WordBytes
            BY <2>2, <2>4 DEF field_begin_iterator, STRING_TAG, SEXP_TAG, CLOSURE_TAG
        <3>2. p + WordBytes = Address(h, s + 3)
            BY DEF Address, Content, WordBytes
        <3> QED
            BY <2>4, <3>1, <3>2 DEF FieldSlots, STRING_TAG, SEXP_TAG, CLOSURE_TAG
    <2>5. CASE TAG(h.words[s]) \notin {STRING_TAG, SEXP_TAG, CLOSURE_TAG}
        <3>1. field_begin_iterator(h, p) = p
            BY <2>2, <2>5 DEF field_begin_iterator
        <3> QED
            BY <2>5, <3>1, SlotFacts DEF FieldSlots
    <2> QED
        BY <2>3, <2>4, <2>5
<1> QED
    BY <1>1, <1>2, <1>3, <1>4, <1>5, <1>6, <1>7
       DEF TypeOf, LengthOf, is_marked, is_enqueued, get_forward_address, Marked, Enqueued, Forward

-----------------------------------------------------------------------------
(* Objects one behind the other                                            *)

\* An object's numbers, from what makes the words a heap of objects.
LEMMA SizeFacts ==
    ASSUME NEW w, NEW a, Objects(w, a), NEW id \in DOMAIN a
    PROVE  /\ a[id] \in Nat /\ a[id] >= 1 /\ a[id] < Len(w) /\ Len(w) \in Nat
           /\ w[a[id]] \in Nat /\ w[a[id] + 1] \in Int
           /\ Size(w, a[id]) \in Nat /\ Size(w, a[id]) >= 2
           /\ Sizes(w, a)[id] = Size(w, a[id])
           /\ FieldSlots(w, a[id]) \subseteq a[id] + 2 .. a[id] + Size(w, a[id]) - 1
<1>1. a[id] \in Nat /\ a[id] >= 1 /\ w[a[id]] \in Nat /\ a[id] < Len(w) /\ Len(w) \in Nat
    BY DEF Objects
<1>2. w[a[id] + 1] \in Int
    BY <1>1 DEF Objects
<1>3. Size(w, a[id]) \in Nat /\ Size(w, a[id]) >= 2
    BY <1>1, HeaderFacts DEF Size
<1>4. FieldSlots(w, a[id]) \subseteq a[id] + 2 .. a[id] + Size(w, a[id]) - 1
    BY <1>1, <1>3 DEF FieldSlots
<1> QED
    BY <1>1, <1>2, <1>3, <1>4 DEF Sizes

\* No slot of an object is one of another's.
LEMMA ObjectsApart ==
    ASSUME NEW w, NEW a, Objects(w, a), Tiled(a, Sizes(w, a), 1, Len(w) + 1),
           NEW i \in DOMAIN a
    PROVE  /\ a[i] + Size(w, a[i]) <= Len(w) + 1
           /\ a[i] + Size(w, a[i]) \in {a[id] : id \in DOMAIN a} \cup {Len(w) + 1}
           /\ \A j \in DOMAIN a : i # j => \/ a[i] + Size(w, a[i]) <= a[j]
                                           \/ a[j] + Size(w, a[j]) <= a[i]
           /\ \A j \in DOMAIN a : a[i] = a[j] => i = j
<1>1. \A j \in DOMAIN a : /\ a[j] \in Nat /\ Size(w, a[j]) \in Nat /\ Size(w, a[j]) >= 2
                          /\ Sizes(w, a)[j] = Size(w, a[j])
    BY SizeFacts
<1>2. /\ a[i] + Size(w, a[i]) <= Len(w) + 1
      /\ a[i] + Size(w, a[i]) \in {a[id] : id \in DOMAIN a} \cup {Len(w) + 1}
      /\ \A j \in DOMAIN a : i # j => \/ a[i] + Size(w, a[i]) <= a[j]
                                      \/ a[j] + Size(w, a[j]) <= a[i]
    BY <1>1 DEF Tiled
<1> QED
    BY <1>1, <1>2

\* The words of the objects but for their forward words.
SameObjects(w, v, a) ==
    /\ v \in Seq(Int) /\ Len(v) = Len(w)
    /\ \A id \in DOMAIN a :
           /\ v[a[id]] = w[a[id]]
           /\ \A k \in a[id] + 2 .. a[id] + Size(w, a[id]) - 1 : v[k] = w[k]

\* Words that differ in forward words only lay out the same objects.
LEMMA SameLayout ==
    ASSUME NEW w, NEW v, NEW a, Objects(w, a), SameObjects(w, v, a)
    PROVE  /\ Objects(v, a) /\ Sizes(v, a) = Sizes(w, a)
           /\ \A id \in DOMAIN a :
                 /\ v[a[id]] = w[a[id]] /\ Size(v, a[id]) = Size(w, a[id])
                 /\ FieldSlots(v, a[id]) = FieldSlots(w, a[id])
                 /\ \A k \in FieldSlots(w, a[id]) : v[k] = w[k]
<1>1. \A id \in DOMAIN a : v[a[id]] = w[a[id]] /\ Size(v, a[id]) = Size(w, a[id])
    BY DEF SameObjects, Size
<1>2. \A id \in DOMAIN a : FieldSlots(v, a[id]) = FieldSlots(w, a[id])
    BY <1>1 DEF FieldSlots
<1>3. \A id \in DOMAIN a : \A k \in FieldSlots(w, a[id]) : v[k] = w[k]
    BY SizeFacts DEF SameObjects
<1>4. Sizes(v, a) = Sizes(w, a)
    BY <1>1 DEF Sizes
<1>5. Objects(v, a)
    BY DEF Objects, SameObjects
<1> QED
    BY <1>1, <1>2, <1>3, <1>4, <1>5

\* A write to the forward word of one object.
LEMMA ForwardWrite ==
    ASSUME NEW w, NEW a, Objects(w, a), Tiled(a, Sizes(w, a), 1, Len(w) + 1),
           NEW x \in DOMAIN a, NEW word \in Int
    PROVE  LET v == [w EXCEPT ![a[x] + 1] = word]
           IN  /\ SameObjects(w, v, a)
               /\ v[a[x] + 1] = word
               /\ \A id \in DOMAIN a : id # x => v[a[id] + 1] = w[a[id] + 1]
<1> DEFINE v == [w EXCEPT ![a[x] + 1] = word]
<1>1. v \in Seq(Int) /\ Len(v) = Len(w)
    BY DEF Objects
<1>2. \A k \in Int : k # a[x] + 1 => v[k] = w[k]
    OBVIOUS
<1>3. ASSUME NEW id \in DOMAIN a
      PROVE  /\ v[a[id]] = w[a[id]]
             /\ \A k \in a[id] + 2 .. a[id] + Size(w, a[id]) - 1 : v[k] = w[k]
             /\ id # x => v[a[id] + 1] = w[a[id] + 1]
    <2> DEFINE n == Size(w, a[id])
               m == Size(w, a[x])
    <2>0. /\ a[id] \in Nat /\ a[x] \in Nat /\ n \in Nat /\ m \in Nat /\ n >= 2 /\ m >= 2
          /\ id # x => a[id] + n <= a[x] \/ a[x] + m <= a[id]
        BY SizeFacts, ObjectsApart
    <2> HIDE DEF n, m
    <2>1. a[id] # a[x] + 1
        BY <2>0
    <2>2. \A k \in a[id] + 2 .. a[id] + n - 1 : k # a[x] + 1
        BY <2>0
    <2>3. id # x => a[id] + 1 # a[x] + 1
        BY <2>0
    <2>4. \A k \in a[id] + 2 .. a[id] + n - 1 : v[k] = w[k]
        BY <1>2, <2>0, <2>2
    <2> QED
        BY <1>2, <2>0, <2>1, <2>3, <2>4 DEF n
<1>4. v[a[x] + 1] = word
    BY SizeFacts DEF Objects
<1> QED
    BY <1>1, <1>3, <1>4 DEF SameObjects

\* Two such changes are one.
LEMMA SameObjectsTwice ==
    ASSUME NEW w, NEW v, NEW u, NEW a, Objects(w, a), SameObjects(w, v, a), SameObjects(v, u, a)
    PROVE  SameObjects(w, u, a)
<1>1. \A id \in DOMAIN a : v[a[id]] = w[a[id]] /\ Size(v, a[id]) = Size(w, a[id])
    BY SameLayout
<1> QED
    BY <1>1 DEF SameObjects

Heaps == [begin : Nat, size : Nat, words : Seq(Int)]

\* A write to the forward word of object x of a heap.
LEMMA HeapWrite ==
    ASSUME NEW h \in Heaps, NEW b, h.begin = b, NEW a, Objects(h.words, a),
           Tiled(a, Sizes(h.words, a), 1, Len(h.words) + 1),
           NEW x \in DOMAIN a, NEW word \in Int
    PROVE  LET p == Content(b, a[x])
               g == SetForwardWord(h, p, word)
           IN  /\ g \in Heaps /\ g.begin = h.begin /\ g.size = h.size
               /\ SameObjects(h.words, g.words, a) /\ Objects(g.words, a)
               /\ Tiled(a, Sizes(g.words, a), 1, Len(g.words) + 1)
               /\ ForwardWord(h, p) = h.words[a[x] + 1]
               /\ g.words[a[x] + 1] = word
               /\ \A id \in DOMAIN a : id # x => g.words[a[id] + 1] = h.words[a[id] + 1]
<1> DEFINE p == Content(b, a[x])
           g == SetForwardWord(h, p, word)
           v == [h.words EXCEPT ![a[x] + 1] = word]
<1>1. /\ a[x] \in Int /\ h.begin \in Int /\ Size(h.words, a[x]) \in Int
    BY SizeFacts DEF Heaps
<1>2. g = [h EXCEPT !.words[a[x] + 1] = word]
    <2>1. \A y : SetForwardWord(h, Content(h.begin, a[x]), y) = [h EXCEPT !.words[a[x] + 1] = y]
        BY <1>1, ObjectFacts
    <2> QED
        BY <2>1
<1>3. g.words = v /\ g.begin = h.begin /\ g.size = h.size /\ g = [begin |-> h.begin, size |-> h.size, words |-> v]
    BY <1>2 DEF Heaps
<1>4. /\ SameObjects(h.words, v, a) /\ v[a[x] + 1] = word
      /\ \A id \in DOMAIN a : id # x => v[a[id] + 1] = h.words[a[id] + 1]
    BY ForwardWrite
<1>5. Objects(v, a) /\ Sizes(v, a) = Sizes(h.words, a) /\ Len(v) = Len(h.words) /\ v \in Seq(Int)
    <2>1. Objects(v, a) /\ Sizes(v, a) = Sizes(h.words, a)
        BY <1>4, SameLayout
    <2>2. Len(v) = Len(h.words) /\ v \in Seq(Int)
        BY <1>4 DEF SameObjects
    <2> QED
        BY <2>1, <2>2
<1>6. ForwardWord(h, p) = h.words[a[x] + 1]
    BY <1>1, SlotFacts, WordFacts DEF ForwardWord
<1> HIDE DEF p, g, v
<1>7. g \in Heaps
    BY <1>3, <1>5 DEF Heaps
<1> QED
    BY <1>3, <1>4, <1>5, <1>6, <1>7 DEF p, g

\* What queue_enqueue writes: the place of the one object, the flag of the other.
LEMMA EnqueueWrites ==
    ASSUME NEW h \in Heaps, h.begin % 4 = 0, NEW a, Objects(h.words, a),
           Tiled(a, Sizes(h.words, a), 1, Len(h.words) + 1),
           NEW t \in DOMAIN a, NEW x \in DOMAIN a
    PROVE  LET g == queue_enqueue(h, Address(h, a[t]), Content(h.begin, a[x]))
           IN  /\ g \in Heaps /\ g.begin = h.begin /\ g.size = h.size
               /\ SameObjects(h.words, g.words, a)
               /\ Forward(g.words, a[t]) = Content(h.begin, a[x])
               /\ \A id \in DOMAIN a : id # t => Forward(g.words, a[id]) = Forward(h.words, a[id])
               /\ \A id \in DOMAIN a : Marked(g.words, a[id]) = Marked(h.words, a[id])
               /\ Enqueued(g.words, a[x])
               /\ \A id \in DOMAIN a : id # x => Enqueued(g.words, a[id]) = Enqueued(h.words, a[id])
<1> DEFINE q == Content(h.begin, a[t])
           p == Content(h.begin, a[x])
           old == h.words[a[t] + 1]
           h1 == SetForwardWord(h, q, SET_FORWARD_ADDRESS(old, p))
           g == SetForwardWord(h1, p, MAKE_ENQUEUED(h1.words[a[x] + 1]))
<1>1. a[t] \in Nat /\ a[x] \in Nat /\ h.begin \in Int /\ \A id \in DOMAIN a : h.words[a[id] + 1] \in Int
    BY SizeFacts DEF Heaps
<1>2. p \in Int /\ p % 4 = 0
    BY <1>1 DEF Content, WordBytes
<1>3. /\ SET_FORWARD_ADDRESS(old, p) \in Int
      /\ GET_FORWARD_ADDRESS(SET_FORWARD_ADDRESS(old, p)) = p
      /\ MARKED(SET_FORWARD_ADDRESS(old, p)) = MARKED(old)
      /\ ENQUEUED(SET_FORWARD_ADDRESS(old, p)) = ENQUEUED(old)
    BY <1>1, <1>2, ForwardFacts
<1>4. /\ h1 \in Heaps /\ h1.begin = h.begin /\ h1.size = h.size
      /\ SameObjects(h.words, h1.words, a) /\ Objects(h1.words, a)
      /\ Tiled(a, Sizes(h1.words, a), 1, Len(h1.words) + 1)
      /\ ForwardWord(h, q) = old
      /\ h1.words[a[t] + 1] = SET_FORWARD_ADDRESS(old, p)
      /\ \A id \in DOMAIN a : id # t => h1.words[a[id] + 1] = h.words[a[id] + 1]
    BY <1>3, HeapWrite
<1> HIDE DEF h1
<1>5. \A id \in DOMAIN a : h1.words[a[id] + 1] \in Int
    BY <1>4, SizeFacts
<1> DEFINE new == MAKE_ENQUEUED(h1.words[a[x] + 1])
<1>6. /\ new \in Int /\ ENQUEUED(new) /\ MARKED(new) = MARKED(h1.words[a[x] + 1])
      /\ GET_FORWARD_ADDRESS(new) = GET_FORWARD_ADDRESS(h1.words[a[x] + 1])
    BY <1>5, FlagFacts
<1> HIDE DEF new
<1>7. /\ g \in Heaps /\ g.begin = h1.begin /\ g.size = h1.size
      /\ SameObjects(h1.words, g.words, a)
      /\ ForwardWord(h1, p) = h1.words[a[x] + 1]
      /\ g.words[a[x] + 1] = new
      /\ \A id \in DOMAIN a : id # x => g.words[a[id] + 1] = h1.words[a[id] + 1]
    BY <1>4, <1>6, HeapWrite DEF new
<1>8. g = queue_enqueue(h, Address(h, a[t]), p)
    <2>1. get_object_content_ptr(Address(h, a[t])) = q
        BY <1>1, SlotFacts
    <2>2. set_forward_address(h, q, p) = h1
        BY <1>4 DEF set_forward_address, h1
    <2>3. make_enqueued(h1, p) = g
        BY <1>7 DEF make_enqueued
    <2> QED
        BY <2>1, <2>2, <2>3 DEF queue_enqueue
<1>9. SameObjects(h.words, g.words, a)
    BY <1>4, <1>7, SameObjectsTwice
<1> HIDE DEF g, p, q, old
<1>10. \A id \in DOMAIN a :
          /\ GET_FORWARD_ADDRESS(g.words[a[id] + 1]) = IF id = t THEN p ELSE GET_FORWARD_ADDRESS(h.words[a[id] + 1])
          /\ MARKED(g.words[a[id] + 1]) = MARKED(h.words[a[id] + 1])
          /\ ENQUEUED(g.words[a[id] + 1]) = IF id = x THEN TRUE ELSE ENQUEUED(h.words[a[id] + 1])
    BY <1>3, <1>4, <1>6, <1>7 DEF old
<1> QED
    BY <1>4, <1>7, <1>8, <1>9, <1>10 DEF Forward, Marked, Enqueued, p

\* What taking an object from the queue and marking it writes: its two flags.
LEMMA MarkWrites ==
    ASSUME NEW h \in Heaps, NEW a, Objects(h.words, a),
           Tiled(a, Sizes(h.words, a), 1, Len(h.words) + 1), NEW x \in DOMAIN a
    PROVE  LET p == Content(h.begin, a[x])
               g == mark_object(make_dequeued(h, p), p)
           IN  /\ g \in Heaps /\ g.begin = h.begin /\ g.size = h.size
               /\ SameObjects(h.words, g.words, a)
               /\ \A id \in DOMAIN a : Forward(g.words, a[id]) = Forward(h.words, a[id])
               /\ Marked(g.words, a[x]) /\ ~Enqueued(g.words, a[x])
               /\ \A id \in DOMAIN a : id # x =>
                      /\ Marked(g.words, a[id]) = Marked(h.words, a[id])
                      /\ Enqueued(g.words, a[id]) = Enqueued(h.words, a[id])
<1> DEFINE p == Content(h.begin, a[x])
           old == h.words[a[x] + 1]
           h1 == SetForwardWord(h, p, MAKE_DEQUEUED(old))
           g == SetForwardWord(h1, p, SET_MARK_BIT(MAKE_DEQUEUED(old)))
<1>1. old \in Int
    BY SizeFacts
<1>2. /\ MAKE_DEQUEUED(old) \in Int /\ ~ENQUEUED(MAKE_DEQUEUED(old))
      /\ GET_FORWARD_ADDRESS(MAKE_DEQUEUED(old)) = GET_FORWARD_ADDRESS(old)
    BY <1>1, FlagFacts
<1>3. /\ SET_MARK_BIT(MAKE_DEQUEUED(old)) \in Int
      /\ MARKED(SET_MARK_BIT(MAKE_DEQUEUED(old)))
      /\ ~ENQUEUED(SET_MARK_BIT(MAKE_DEQUEUED(old)))
      /\ GET_FORWARD_ADDRESS(SET_MARK_BIT(MAKE_DEQUEUED(old))) = GET_FORWARD_ADDRESS(old)
    BY <1>2, FlagFacts
<1>4. /\ h1 \in Heaps /\ h1.begin = h.begin /\ h1.size = h.size
      /\ SameObjects(h.words, h1.words, a) /\ Objects(h1.words, a)
      /\ Tiled(a, Sizes(h1.words, a), 1, Len(h1.words) + 1)
      /\ ForwardWord(h, p) = old
      /\ h1.words[a[x] + 1] = MAKE_DEQUEUED(old)
      /\ \A id \in DOMAIN a : id # x => h1.words[a[id] + 1] = h.words[a[id] + 1]
    BY <1>2, HeapWrite
<1>5. make_dequeued(h, p) = h1
    BY <1>4 DEF make_dequeued
<1> HIDE DEF h1
<1>6. /\ g \in Heaps /\ g.begin = h1.begin /\ g.size = h1.size
      /\ SameObjects(h1.words, g.words, a)
      /\ ForwardWord(h1, p) = h1.words[a[x] + 1]
      /\ g.words[a[x] + 1] = SET_MARK_BIT(MAKE_DEQUEUED(old))
      /\ \A id \in DOMAIN a : id # x => g.words[a[id] + 1] = h1.words[a[id] + 1]
    BY <1>3, <1>4, HeapWrite
<1>7. mark_object(h1, p) = g
    BY <1>4, <1>6 DEF mark_object
<1>8. SameObjects(h.words, g.words, a)
    BY <1>4, <1>6, SameObjectsTwice
<1> HIDE DEF g, p, old
<1> QED
    BY <1>3, <1>4, <1>5, <1>6, <1>7, <1>8 DEF Forward, Marked, Enqueued, p, old

-----------------------------------------------------------------------------
(* What the roots reach                                                    *)

\* What the types say of the heap and of its objects.
LEMMA TypedFacts ==
    ASSUME Typed
    PROVE  /\ heap \in Heaps /\ heap.begin \in Bases /\ heap.begin \in Nat
           /\ heap.begin % 4 = 0 /\ heap.begin > Outside
           /\ Objects(heap.words, at) /\ heap.words \in Seq(Int) /\ Len(heap.words) \in Nat
           /\ \A id \in DOMAIN at : Begins(id) = Content(heap.begin, at[id]) /\ Begins(id) \in Int
<1>1. heap \in Heaps /\ heap.begin \in Bases /\ heap.begin \in Nat /\ heap.begin % 4 = 0 /\ heap.begin > Outside
    BY HeapAssumption DEF Typed, Heaps, WordBytes
<1>2. Objects(heap.words, at) /\ heap.words \in Seq(Int) /\ Len(heap.words) \in Nat
    BY DEF Typed, Objects
<1>3. \A id \in DOMAIN at : at[id] \in Int
    BY <1>2, SizeFacts
<1>4. \A id \in DOMAIN at : Begins(id) = Content(heap.begin, at[id]) /\ Begins(id) \in Int
    BY <1>1, <1>3, SlotFacts DEF Begins, Content, WordBytes
<1> QED
    BY <1>1, <1>2, <1>4

\* The collector's accessors at an object.
LEMMA AtObject ==
    ASSUME Typed, NEW id \in DOMAIN at
    PROVE  /\ is_marked(heap, Begins(id)) = Marked(heap.words, at[id])
           /\ is_enqueued(heap, Begins(id)) = Enqueued(heap.words, at[id])
           /\ get_forward_address(heap, Begins(id)) = Forward(heap.words, at[id])
           /\ Fields(heap, Begins(id)) = {Address(heap, k) : k \in FieldSlots(heap.words, at[id])}
           /\ {WordAt(heap, x) : x \in Fields(heap, Begins(id))} =
                  {heap.words[k] : k \in FieldSlots(heap.words, at[id])}
<1>1. /\ at[id] \in Int /\ heap.begin \in Int /\ Size(heap.words, at[id]) \in Int
      /\ Begins(id) = Content(heap.begin, at[id])
      /\ FieldSlots(heap.words, at[id]) \subseteq Int
    BY TypedFacts, SizeFacts
<1>2. /\ is_marked(heap, Begins(id)) = Marked(heap.words, at[id])
      /\ is_enqueued(heap, Begins(id)) = Enqueued(heap.words, at[id])
      /\ get_forward_address(heap, Begins(id)) = Forward(heap.words, at[id])
      /\ Fields(heap, Begins(id)) = {Address(heap, k) : k \in FieldSlots(heap.words, at[id])}
    <2> DEFINE p == Content(heap.begin, at[id])
    <2>1. /\ is_marked(heap, p) = Marked(heap.words, at[id])
          /\ is_enqueued(heap, p) = Enqueued(heap.words, at[id])
          /\ get_forward_address(heap, p) = Forward(heap.words, at[id])
          /\ Fields(heap, p) = {Address(heap, k) : k \in FieldSlots(heap.words, at[id])}
        BY <1>1, ObjectFacts
    <2> HIDE DEF p
    <2>2. Begins(id) = p
        BY <1>1 DEF p
    <2> QED
        BY <2>1, <2>2
<1>3. \A k \in FieldSlots(heap.words, at[id]) : WordAt(heap, Address(heap, k)) = heap.words[k]
    BY <1>1, WordFacts
<1>4. {WordAt(heap, x) : x \in Fields(heap, Begins(id))} =
          {heap.words[k] : k \in FieldSlots(heap.words, at[id])}
    BY <1>2, <1>3
<1> QED
    BY <1>2, <1>4

ClosedUnderRoots(ids) ==
    \A id \in DOMAIN at : \A r \in DOMAIN Roots :
        Roots[r] = Content(heap.begin, at[id]) => id \in ids
ClosedUnderFields(ids) ==
    \A i \in ids : \A k \in FieldSlots(heap.words, at[i]) : \A j \in DOMAIN at :
        heap.words[k] = Content(heap.begin, at[j]) => j \in ids

\* Closed, in terms of slots.
LEMMA ClosedFacts ==
    ASSUME Typed, NEW ids \in SUBSET DOMAIN at
    PROVE  Closed(ids) <=> ClosedUnderRoots(ids) /\ ClosedUnderFields(ids)
<1>1. \A id \in DOMAIN at : Begins(id) = Content(heap.begin, at[id])
    BY TypedFacts
<1>2. Pointees(Range(Roots)) \subseteq ids <=> ClosedUnderRoots(ids)
    BY <1>1 DEF Pointees, ClosedUnderRoots, Range
<1>3. ASSUME NEW i \in ids
      PROVE  Pointees({WordAt(heap, x) : x \in Fields(heap, Begins(i))}) \subseteq ids
                 <=> \A k \in FieldSlots(heap.words, at[i]) : \A j \in DOMAIN at :
                        heap.words[k] = Content(heap.begin, at[j]) => j \in ids
    <2>1. {WordAt(heap, x) : x \in Fields(heap, Begins(i))} =
              {heap.words[k] : k \in FieldSlots(heap.words, at[i])}
        BY AtObject
    <2> QED
        BY <1>1, <2>1 DEF Pointees
<1> QED
    BY <1>2, <1>3 DEF Closed, ClosedUnderFields

LeastClosed ==
    /\ Reachable \subseteq DOMAIN at
    /\ ClosedUnderRoots(Reachable) /\ ClosedUnderFields(Reachable)
    /\ \A ids \in SUBSET DOMAIN at :
           ClosedUnderRoots(ids) /\ ClosedUnderFields(ids) => Reachable \subseteq ids

\* What is reachable is the least closed set, and it exists.
LEMMA ReachableFacts == Typed => LeastClosed
<1> SUFFICES ASSUME Typed PROVE LeastClosed
    OBVIOUS
<1>1. Reachable \subseteq DOMAIN at
    BY DEF Reachable
<1>2. \A ids \in SUBSET DOMAIN at :
          ClosedUnderRoots(ids) /\ ClosedUnderFields(ids) => Reachable \subseteq ids
    BY ClosedFacts DEF Reachable
<1>3. ClosedUnderRoots(Reachable)
    <2> SUFFICES ASSUME NEW id \in DOMAIN at, NEW r \in DOMAIN Roots,
                        Roots[r] = Content(heap.begin, at[id]),
                        NEW ids \in SUBSET DOMAIN at, Closed(ids)
                 PROVE  id \in ids
        BY DEF ClosedUnderRoots, Reachable
    <2> QED
        BY ClosedFacts DEF ClosedUnderRoots
<1>4. ClosedUnderFields(Reachable)
    <2> SUFFICES ASSUME NEW i \in Reachable, NEW k \in FieldSlots(heap.words, at[i]),
                        NEW j \in DOMAIN at, heap.words[k] = Content(heap.begin, at[j]),
                        NEW ids \in SUBSET DOMAIN at, Closed(ids)
                 PROVE  j \in ids
        BY DEF ClosedUnderFields, Reachable
    <2>1. i \in ids
        BY DEF Reachable
    <2> QED
        BY <2>1, ClosedFacts DEF ClosedUnderFields
<1> QED
    BY <1>1, <1>2, <1>3, <1>4 DEF LeastClosed

-----------------------------------------------------------------------------
(* Steps that touch forward words only                                     *)

ObjectsUntouched ==
    /\ SameObjects(heap.words, heap.words', at)
    /\ heap' \in Heaps /\ heap.begin' = heap.begin /\ heap.size' = heap.size
    /\ UNCHANGED << at, stack, mutator, call >>

\* A step that leaves all but forward words alone: the layout,
LEMMA LayoutUntouched ==
    ASSUME Typed, ObjectsUntouched
    PROVE  /\ Objects(heap.words', at) /\ Len(heap.words') = Len(heap.words)
           /\ Sizes(heap.words, at)' = Sizes(heap.words, at)
           /\ \A id \in DOMAIN at :
                 /\ heap.words'[at[id]] = heap.words[at[id]]
                 /\ Size(heap.words', at[id]) = Size(heap.words, at[id])
                 /\ FieldSlots(heap.words', at[id]) = FieldSlots(heap.words, at[id])
                 /\ \A k \in FieldSlots(heap.words, at[id]) : heap.words'[k] = heap.words[k]
<1>1. Objects(heap.words, at) /\ SameObjects(heap.words, heap.words', at) /\ at' = at
    BY TypedFacts DEF ObjectsUntouched
<1>2. Len(heap.words') = Len(heap.words)
    BY <1>1 DEF SameObjects
<1>3. Sizes(heap.words, at)' = Sizes(heap.words', at)
    BY <1>1 DEF Sizes, Size
<1> QED
    BY <1>1, <1>2, <1>3, SameLayout

\* the types,
LEMMA TypedUntouched ==
    ASSUME Typed, ObjectsUntouched, phase' \in {"run", "alloc", "undefined"} \cup Collecting
    PROVE  Typed'
<1>1. heap \in [begin : Bases, size : Nat, words : Seq(Int)] /\ heap.size >= MinimumCapacity
      /\ Len(heap.words) <= heap.size
    BY DEF Typed
<1>2. heap' \in Heaps /\ heap.begin' = heap.begin /\ heap.size' = heap.size
    BY DEF ObjectsUntouched
<1>3. heap' \in [begin : Bases, size : Nat, words : Seq(Int)]
    BY <1>1, <1>2 DEF Heaps
<1>4. Objects(heap.words', at) /\ Len(heap.words') = Len(heap.words)
    BY LayoutUntouched
<1>5. Objects(heap.words, at)'
    BY <1>4 DEF Objects, ObjectsUntouched
<1> QED
    BY <1>1, <1>2, <1>3, <1>4, <1>5 DEF Typed, ObjectsUntouched, mutator

\* what is reachable,
LEMMA ReachableUntouched ==
    ASSUME Typed, ObjectsUntouched, Typed'
    PROVE  Roots' = Roots /\ Reachable' = Reachable
<1>1. Roots' = Roots
    BY DEF Roots, ObjectsUntouched, mutator
<1>2. at' = at /\ heap.begin' = heap.begin
    BY DEF ObjectsUntouched
<1>3. LeastClosed /\ LeastClosed'
    <2>1. Typed' => LeastClosed'
        BY ReachableFacts, PTL
    <2> QED
        BY <2>1, ReachableFacts
<1>4. \A ids \in SUBSET DOMAIN at :
          /\ ClosedUnderRoots(ids)' <=> ClosedUnderRoots(ids)
          /\ ClosedUnderFields(ids)' <=> ClosedUnderFields(ids)
    <2> SUFFICES ASSUME NEW ids \in SUBSET DOMAIN at
                 PROVE  /\ ClosedUnderRoots(ids)' <=> ClosedUnderRoots(ids)
                        /\ ClosedUnderFields(ids)' <=> ClosedUnderFields(ids)
        OBVIOUS
    <2>1. \A i \in ids : /\ FieldSlots(heap.words', at[i]) = FieldSlots(heap.words, at[i])
                         /\ \A k \in FieldSlots(heap.words, at[i]) : heap.words'[k] = heap.words[k]
        BY LayoutUntouched
    <2>2. ClosedUnderRoots(ids)' <=> ClosedUnderRoots(ids)
        BY <1>1, <1>2 DEF ClosedUnderRoots, Content
    <2>3. ClosedUnderFields(ids)' <=> ClosedUnderFields(ids)
        BY <1>2, <2>1 DEF ClosedUnderFields, Content
    <2> QED
        BY <2>2, <2>3
<1>5. Reachable \subseteq Reachable'
    <2>1. Reachable' \in SUBSET DOMAIN at
        BY <1>2, <1>3 DEF LeastClosed
    <2>2. ClosedUnderRoots(Reachable)' /\ ClosedUnderFields(Reachable)'
        BY <1>3 DEF LeastClosed
    <2>3. ClosedUnderRoots(Reachable') /\ ClosedUnderFields(Reachable')
        BY <1>4, <2>1, <2>2
    <2> QED
        BY <1>3, <2>1, <2>3 DEF LeastClosed
<1>6. Reachable' \subseteq Reachable
    <2>1. Reachable \in SUBSET DOMAIN at' /\ ClosedUnderRoots(Reachable) /\ ClosedUnderFields(Reachable)
        BY <1>2, <1>3 DEF LeastClosed
    <2>3. ASSUME NEW ids \in SUBSET DOMAIN at', ClosedUnderRoots(ids), ClosedUnderFields(ids)
          PROVE  Reachable' \subseteq ids
        BY <1>2, <1>3, <1>4, <2>3 DEF LeastClosed
    <2> QED
        BY <2>1, <2>3
<1> QED
    BY <1>1, <1>5, <1>6

\* and what the words refer to stay as they are.
LEMMA ValuesUntouched ==
    ASSUME IInv, ObjectsUntouched, Typed',
           \/ phase \in {"alloc", "roots", "mark"} /\ phase' \in {"alloc", "roots", "mark"}
           \/ phase = "compute" /\ phase' = "compute" /\ AllMarked' = AllMarked
    PROVE  ObjectsTile' /\ FieldsSound' /\ StackSound' /\ NativesSound' /\ CallSound'
<1>1. /\ at' = at /\ heap.begin' = heap.begin /\ stack' = stack /\ native' = native
      /\ extra_roots' = extra_roots /\ call' = call /\ request' = request /\ born' = born
    BY DEF ObjectsUntouched, mutator
<1>2. Typed /\ phase \in {"alloc", "roots", "mark", "compute"}
    BY DEF IInv
<1>3. /\ Len(heap.words') = Len(heap.words)
      /\ Sizes(heap.words, at)' = Sizes(heap.words, at)
      /\ \A id \in DOMAIN at :
            /\ heap.words'[at[id]] = heap.words[at[id]]
            /\ Size(heap.words', at[id]) = Size(heap.words, at[id])
            /\ FieldSlots(heap.words', at[id]) = FieldSlots(heap.words, at[id])
            /\ \A k \in FieldSlots(heap.words, at[id]) : heap.words'[k] = heap.words[k]
    BY <1>2, LayoutUntouched
<1>4. Kept' = Kept /\ Kept \subseteq DOMAIN at
    BY <1>1 DEF Kept, AllMarked
<1>5. \A id : RootWord(id) = Content(heap.begin, at[id]) /\ RootWord(id)' = Content(heap.begin, at[id])
    BY <1>1, <1>2 DEF RootWord
<1>6. \A id, owner : /\ FieldWord(id, owner) = Content(heap.begin, at[id])
                     /\ FieldWord(id, owner)' = Content(heap.begin, at[id])
    BY <1>1, <1>2, <1>5 DEF FieldWord
<1>7. ObjectsTile'
    <2>1. Tiled(at, Sizes(heap.words, at), 1, Len(heap.words) + 1)
        BY <1>2 DEF IInv, ObjectsTile
    <2>2. Tiled(at, Sizes(heap.words, at)', 1, Len(heap.words') + 1)
        BY <2>1, <1>3
    <2> QED
        BY <2>2, <1>1 DEF ObjectsTile
<1>8. FieldsSound'
    <2>1. \A id \in Kept : \A k \in FieldSlots(heap.words, at[id]) :
              UNBOXED(heap.words[k]) \/ \E j \in Kept : heap.words[k] = Content(heap.begin, at[j])
        BY <1>2, <1>4, <1>6 DEF IInv, FieldsSound, Running
    <2>2. \A id \in Kept : \A k \in FieldSlots(heap.words', at[id]) :
              UNBOXED(heap.words'[k]) \/ \E j \in Kept : heap.words'[k] = Content(heap.begin, at[j])
        BY <2>1, <1>3, <1>4
    <2> QED
        BY <2>2, <1>1, <1>4, <1>6 DEF FieldsSound
<1>9. StackSound'
    <2>1. Popped' = Popped
        BY <1>1 DEF Popped, FieldCount
    <2>2. \A x : Sound(x)' <=> Sound(x)
        BY <1>4, <1>5 DEF Sound
    <2>3. \A x : Inside(x)' <=> Inside(x)
        <3> SUFFICES ASSUME NEW x PROVE Inside(x)' <=> Inside(x)
            OBVIOUS
        <3>1. \A id \in DOMAIN at : Size(heap.words, at[id])' = Size(heap.words, at[id])
            BY <1>1, <1>3
        <3>2. \A k : Address(heap, k)' = Address(heap, k)
            BY <1>1 DEF Address
        <3> QED
            BY <3>1, <3>2, <1>1 DEF Inside
    <2>4. \A i \in DOMAIN stack :
              Sound(stack[i]) \/ (phase \in {"alloc", "roots", "mark"} /\ i > Popped /\ Inside(stack[i]))
        <3>1. \A i \in DOMAIN stack :
                  Sound(stack[i]) \/ (phase \in {"run", "alloc", "roots", "mark"} /\ i > Popped /\ Inside(stack[i]))
            BY <1>2 DEF IInv, StackSound, Running
        <3>2. phase # "run"
            BY <1>2
        <3> QED
            BY <3>1, <3>2, Zenon
    <2> QED
        BY <2>1, <2>2, <2>3, <2>4, <1>1 DEF StackSound
<1>10. NativesSound'
    <2>1. \A v, header : Argument(v, header)' <=> Argument(v, header)
        BY <1>1 DEF Argument
    <2>2. \A v \in Range(extra_roots) :
              \/ call.op \notin NeedsObjects /\ (UNBOXED(native[v]) \/ (call.op = "string" /\ native[v] = Outside))
              \/ \E id \in Kept : native[v] = Content(heap.begin, at[id]) /\ Argument(v, heap.words[at[id]])
        BY <1>2, <1>4, <1>5 DEF IInv, NativesSound, Running
    <2>3. \A v \in Range(extra_roots) :
              \/ call.op \notin NeedsObjects /\ (UNBOXED(native[v]) \/ (call.op = "string" /\ native[v] = Outside))
              \/ \E id \in Kept : native[v] = Content(heap.begin, at[id]) /\ Argument(v, heap.words'[at[id]])
        BY <2>2, <1>3, <1>4
    <2> QED
        BY <2>1, <2>3, <1>1, <1>4, <1>5 DEF NativesSound
<1>11. CallSound'
    <2>1. Popped' = Popped
        BY <1>1 DEF Popped, FieldCount
    <2> QED
        BY <2>1, <1>1 DEF CallSound, IInv, Collecting, Marking, Compacting
<1> QED
    BY <1>7, <1>8, <1>9, <1>10, <1>11

\* Outside a compaction its invariants say nothing.
LEMMA NotCompacting ==
    ASSUME phase' \in Marking \cup {"undefined"}
    PROVE  ScanSound' /\ PlacesSound' /\ RoomSound' /\ MarksWhatIsReachable'
BY DEF Marking, Compacting, ScanSound, PlacesSound, RoomSound, MarksWhatIsReachable

\* What the program does with an address that is not an object's is beyond us.
LEMMA UndefinedKeeps ==
    ASSUME IInv, phase # "mark", phase' = "undefined",
           UNCHANGED << heap, stack, mutator, at, field, field_end, call >>
    PROVE  IInv'
<1>1. Typed'
    BY DEF IInv, Typed, mutator
<1>2. ObjectsTile' /\ FieldsSound' /\ StackSound' /\ NativesSound'
    BY DEF ObjectsTile, FieldsSound, StackSound, NativesSound, Running
<1>3. CallSound' /\ FlagsSound' /\ MarkSound' /\ QueueSound'
    BY DEF CallSound, FlagsSound, MarkSound, QueueSound, Marking, Compacting, Collecting
<1>4. FieldSound'
    BY DEF IInv, FieldSound
<1> QED
    BY <1>1, <1>2, <1>3, <1>4, NotCompacting DEF IInv

-----------------------------------------------------------------------------
(* Marking keeps the invariant                                             *)

\* Steps of the marking phase that write nothing.
LEMMA NothingWritten ==
    ASSUME Typed, UNCHANGED << heap, stack, mutator, call, at >>
    PROVE  ObjectsUntouched
BY TypedFacts DEF ObjectsUntouched, SameObjects

\* A collection begins.
LEMMA CollectKeeps ==
    ASSUME IInv, Collect, UNCHANGED call
    PROVE  IInv'
<1>1. /\ phase = "alloc" /\ phase' = "roots" /\ root' = 1 /\ Typed
      /\ UNCHANGED << heap, stack, mutator, search, at, call >>
    BY DEF Collect, IInv
<1>2. ObjectsUntouched
    BY <1>1, NothingWritten
<1>3. Typed'
    BY <1>1, <1>2, TypedUntouched DEF Collecting, Marking
<1>4. ObjectsTile' /\ FieldsSound' /\ StackSound' /\ NativesSound' /\ CallSound'
    BY <1>1, <1>2, <1>3, ValuesUntouched
<1>5. \A id \in DOMAIN at : ~Marked(heap.words, at[id]) /\ ~Enqueued(heap.words, at[id])
    <2> SUFFICES ASSUME NEW id \in DOMAIN at
                 PROVE  ~Marked(heap.words, at[id]) /\ ~Enqueued(heap.words, at[id])
        OBVIOUS
    <2>1. heap.words[at[id] + 1] \in Int
        BY <1>1, TypedFacts, SizeFacts
    <2>2. heap.words[at[id] + 1] % 4 = 0
        BY <1>1 DEF IInv, FlagsSound
    <2> QED
        BY <2>1, <2>2, ForwardFacts DEF Marked, Enqueued
<1>6. FlagsSound'
    BY <1>1, <1>5 DEF FlagsSound
<1>7. MarkSound'
    <2>1. Active' = {} /\ AllMarked' = {}
        BY <1>1, <1>5 DEF Active, AllMarked
    <2>2. Len(Roots') \in Nat
        BY <1>3 DEF Typed, Roots
    <2> QED
        BY <1>1, <2>1, <2>2 DEF MarkSound
<1>8. QueueSound' /\ FieldSound'
    BY <1>1 DEF IInv, QueueSound, FieldSound, search
<1> QED
    BY <1>1, <1>3, <1>4, <1>6, <1>7, <1>8, NotCompacting DEF IInv, Marking

\* The roots are words, and one that is no integer refers to an object, or into one,
\* or is outside the heap.
LEMMA RootFacts ==
    ASSUME IInv, phase \in {"alloc", "roots", "mark"}
    PROVE  /\ Roots \in Seq(Int) /\ Len(Roots) = Len(stack) + Len(extra_roots)
           /\ DOMAIN Roots = 1 .. Len(Roots)
           /\ \A r \in DOMAIN Roots :
                 \/ UNBOXED(Roots[r]) \/ Roots[r] = Outside \/ Inside(Roots[r])
                 \/ \E id \in DOMAIN at : Roots[r] = Content(heap.begin, at[id])
           /\ \A i \in DOMAIN stack : i \in DOMAIN Roots /\ Roots[i] = stack[i]
           /\ \A i \in DOMAIN extra_roots :
                 Len(stack) + i \in DOMAIN Roots /\ Roots[Len(stack) + i] = native[extra_roots[i]]
<1> DEFINE extra == [i \in DOMAIN extra_roots |-> native[extra_roots[i]]]
<1>1. stack \in Seq(Int) /\ native \in Seq(Int) /\ extra_roots \in Seq(DOMAIN native)
    BY DEF IInv, Typed
<1>2. extra \in Seq(Int) /\ Len(extra) = Len(extra_roots) /\ DOMAIN extra = DOMAIN extra_roots
    BY <1>1
<1>3. Roots = stack \o extra
    BY DEF Roots
<1> HIDE DEF extra
<1>4. /\ Roots \in Seq(Int) /\ Len(Roots) = Len(stack) + Len(extra_roots)
      /\ DOMAIN Roots = 1 .. Len(Roots)
      /\ \A i \in DOMAIN stack : i \in DOMAIN Roots /\ Roots[i] = stack[i]
      /\ \A i \in DOMAIN extra : Len(stack) + i \in DOMAIN Roots /\ Roots[Len(stack) + i] = extra[i]
      /\ \A r \in DOMAIN Roots : r \in DOMAIN stack \/ \E i \in DOMAIN extra : r = Len(stack) + i
    <2>1. /\ Roots \in Seq(Int) /\ Len(Roots) = Len(stack) + Len(extra)
          /\ DOMAIN Roots = 1 .. Len(Roots) /\ DOMAIN stack = 1 .. Len(stack)
          /\ DOMAIN extra = 1 .. Len(extra) /\ Len(stack) \in Nat /\ Len(extra) \in Nat
          /\ \A r \in 1 .. Len(stack) + Len(extra) :
                Roots[r] = IF r <= Len(stack) THEN stack[r] ELSE extra[r - Len(stack)]
        <3>1. \A f, g \in Seq(Int) :
                 /\ f \o g \in Seq(Int) /\ Len(f \o g) = Len(f) + Len(g)
                 /\ DOMAIN (f \o g) = 1 .. Len(f \o g) /\ DOMAIN f = 1 .. Len(f) /\ Len(f) \in Nat
                 /\ \A r \in 1 .. Len(f) + Len(g) :
                       (f \o g)[r] = IF r <= Len(f) THEN f[r] ELSE g[r - Len(f)]
            OBVIOUS
        <3> QED
            BY <1>1, <1>2, <1>3, <3>1
    <2>2. \A r \in DOMAIN Roots : r \in DOMAIN stack \/ \E i \in DOMAIN extra : r = Len(stack) + i
        <3>1. \A r \in 1 .. Len(stack) + Len(extra) :
                  \/ r \in 1 .. Len(stack)
                  \/ r - Len(stack) \in 1 .. Len(extra) /\ r = Len(stack) + (r - Len(stack))
            BY <2>1
        <3> QED
            BY <2>1, <3>1
    <2>3. \A i \in DOMAIN stack : i \in DOMAIN Roots /\ Roots[i] = stack[i]
        BY <2>1
    <2>4. \A i \in DOMAIN extra : Len(stack) + i \in DOMAIN Roots /\ Roots[Len(stack) + i] = extra[i]
        BY <2>1
    <2> QED
        BY <1>2, <2>1, <2>2, <2>3, <2>4
<1>5. Kept = DOMAIN at /\ \A id : RootWord(id) = Content(heap.begin, at[id])
    BY DEF Kept, RootWord
<1>6. \A i \in DOMAIN stack :
          \/ UNBOXED(stack[i]) \/ Inside(stack[i])
          \/ \E id \in DOMAIN at : stack[i] = Content(heap.begin, at[id])
    BY <1>5 DEF IInv, StackSound, Running, Sound
<1>7. \A i \in DOMAIN extra :
          \/ UNBOXED(extra[i]) \/ extra[i] = Outside
          \/ \E id \in DOMAIN at : extra[i] = Content(heap.begin, at[id])
    <2>1. \A i \in DOMAIN extra : extra_roots[i] \in Range(extra_roots) /\ extra[i] = native[extra_roots[i]]
        BY <1>2 DEF Range, extra
    <2> QED
        BY <1>5, <2>1 DEF IInv, NativesSound, Running
<1>8. \A r \in DOMAIN Roots :
          \/ UNBOXED(Roots[r]) \/ Roots[r] = Outside \/ Inside(Roots[r])
          \/ \E id \in DOMAIN at : Roots[r] = Content(heap.begin, at[id])
    <2> SUFFICES ASSUME NEW r \in DOMAIN Roots
                 PROVE  \/ UNBOXED(Roots[r]) \/ Roots[r] = Outside \/ Inside(Roots[r])
                        \/ \E id \in DOMAIN at : Roots[r] = Content(heap.begin, at[id])
        OBVIOUS
    <2>1. CASE r \in DOMAIN stack
        BY <1>4, <1>6, <2>1
    <2>2. CASE \E i \in DOMAIN extra : r = Len(stack) + i
        BY <1>4, <1>7, <2>2
    <2> QED
        BY <1>4, <2>1, <2>2
<1>9. \A i \in DOMAIN extra_roots :
          Len(stack) + i \in DOMAIN Roots /\ Roots[Len(stack) + i] = native[extra_roots[i]]
    BY <1>2, <1>4 DEF extra
<1> QED
    BY <1>4, <1>8, <1>9

\* What refers to an object is in the heap, an odd word or Outside is not.
LEMMA InHeap ==
    ASSUME Typed, ObjectsTile, phase \in {"run", "alloc", "roots", "mark", "compute", "update"}
    PROVE  /\ \A id \in DOMAIN at : /\ is_valid_heap_pointer(heap, Content(heap.begin, at[id]))
                                    /\ Content(heap.begin, at[id]) > heap.begin
                                    /\ Content(heap.begin, at[id]) <= Current(heap)
                                    /\ ~UNBOXED(Content(heap.begin, at[id]))
           /\ \A i, j \in DOMAIN at : Content(heap.begin, at[i]) = Content(heap.begin, at[j]) => i = j
           /\ \A x : Inside(x) => /\ is_valid_heap_pointer(heap, x) /\ x # Outside
                                  /\ \A id \in DOMAIN at : x # Content(heap.begin, at[id])
           /\ ~is_valid_heap_pointer(heap, Outside) /\ ~UNBOXED(Outside)
           /\ \A x : UNBOXED(x) => ~is_valid_heap_pointer(heap, x)
<1> DEFINE b == heap.begin
           w == heap.words
<1>1. /\ b \in Nat /\ b % 4 = 0 /\ b > 4 /\ Len(w) \in Nat /\ Objects(w, at)
    BY TypedFacts DEF Outside, WordBytes
<1>2. Tiled(at, Sizes(w, at), 1, Len(w) + 1)
    BY DEF ObjectsTile
<1>3. \A id \in DOMAIN at : /\ at[id] \in Nat /\ at[id] >= 1 /\ at[id] < Len(w)
                            /\ Size(w, at[id]) \in Nat /\ at[id] + Size(w, at[id]) <= Len(w) + 1
                            /\ Size(w, at[id]) >= 2
    BY <1>1, <1>2, SizeFacts, ObjectsApart
<1>4. Current(heap) = b + 4 * Len(w)
    BY DEF Current, WordBytes
<1> HIDE DEF b, w
<1>5. \A k \in 1 .. Len(w) + 1 : /\ b + 4 * (k - 1) \in Int /\ b + 4 * (k - 1) >= b
                                 /\ b + 4 * (k - 1) <= b + 4 * Len(w)
                                 /\ (b + 4 * (k - 1)) % 2 # 1
    BY <1>1
<1>6. \A k \in 1 .. Len(w) + 1 : ~UNBOXED(Address(heap, k)) /\ is_valid_heap_pointer(heap, Address(heap, k))
    BY <1>4, <1>5 DEF UNBOXED, is_valid_heap_pointer, Address, WordBytes, b
<1>7. \A id \in DOMAIN at : /\ Content(b, at[id]) = Address(heap, at[id] + 2)
                            /\ at[id] + 2 \in 1 .. Len(w) + 1
                            /\ Content(b, at[id]) > b
                            /\ Content(b, at[id]) <= Current(heap)
    <2>1. \A s \in Nat : s >= 1 /\ s < Len(w) => /\ b + 4 * (s + 1) = b + 4 * ((s + 2) - 1)
                                                 /\ s + 2 \in 1 .. Len(w) + 1
                                                 /\ b + 4 * (s + 1) > b
                                                 /\ b + 4 * (s + 1) <= b + 4 * Len(w)
        BY <1>1
    <2> QED
        BY <1>3, <1>4, <2>1 DEF Content, Address, WordBytes, b
<1>8. \A i, j \in DOMAIN at : Content(b, at[i]) = Content(b, at[j]) => i = j
    <2>1. \A i, j \in DOMAIN at : at[i] = at[j] => i = j
        BY <1>1, <1>2, ObjectsApart DEF w
    <2> QED
        BY <1>1, <1>3, <2>1 DEF Content, WordBytes
<1>9. ASSUME NEW x, Inside(x)
      PROVE  /\ is_valid_heap_pointer(heap, x) /\ x # Outside
             /\ \A id \in DOMAIN at : x # Content(b, at[id])
    <2>1. PICK i \in DOMAIN at : \E k \in at[i] + 3 .. at[i] + Size(w, at[i]) - 1 : x = Address(heap, k)
        BY <1>9 DEF Inside, w
    <2>2. PICK k \in at[i] + 3 .. at[i] + Size(w, at[i]) - 1 : x = Address(heap, k)
        BY <2>1
    <2>3. k \in 1 .. Len(w) + 1 /\ k \in Int
        BY <1>1, <1>3, <2>2
    <2>4. x > 4
        BY <1>1, <2>2, <2>3 DEF Address, WordBytes, b
    <2>5. ASSUME NEW id \in DOMAIN at PROVE x # Content(b, at[id])
        <3>1. id # i => at[id] + Size(w, at[id]) <= at[i] \/ at[i] + Size(w, at[i]) <= at[id]
            BY <1>1, <1>2, ObjectsApart DEF w
        <3>2. k # at[id] + 2
            BY <1>3, <2>2, <3>1
        <3>3. at[id] \in Int
            BY <1>3
        <3>4. \A s \in Int : k # s + 2 => b + 4 * (k - 1) # b + 4 * (s + 1)
            BY <1>1, <2>3
        <3> QED
            BY <2>2, <3>2, <3>3, <3>4 DEF Content, Address, WordBytes, b
    <2> QED
        BY <1>6, <2>2, <2>3, <2>4, <2>5 DEF Outside, WordBytes
<1>10. ~is_valid_heap_pointer(heap, Outside) /\ ~UNBOXED(Outside)
    BY <1>1 DEF is_valid_heap_pointer, Outside, UNBOXED, WordBytes, b
<1>11. \A x : UNBOXED(x) => ~is_valid_heap_pointer(heap, x)
    BY DEF is_valid_heap_pointer
<1>12. \A id \in DOMAIN at : /\ is_valid_heap_pointer(heap, Content(b, at[id]))
                             /\ ~UNBOXED(Content(b, at[id]))
    BY <1>6, <1>7
<1> QED
    BY <1>7, <1>8, <1>9, <1>10, <1>11, <1>12 DEF b

\* What no step of the marking phase has to prove again.
LEMMA MarkingFrame ==
    ASSUME IInv, ObjectsUntouched, phase \in {"alloc", "roots", "mark"}, phase' \in Marking
    PROVE  /\ Typed' /\ ObjectsTile' /\ FieldsSound' /\ StackSound' /\ NativesSound' /\ CallSound'
           /\ ScanSound' /\ PlacesSound' /\ RoomSound' /\ MarksWhatIsReachable'
           /\ Roots' = Roots /\ Reachable' = Reachable
<1>1. Typed
    BY DEF IInv
<1>2. Typed'
    BY <1>1, TypedUntouched DEF Collecting
<1>3. ObjectsTile' /\ FieldsSound' /\ StackSound' /\ NativesSound' /\ CallSound'
    <2>1. phase' \in {"alloc", "roots", "mark"}
        BY DEF Marking
    <2> QED
        BY <1>2, <2>1, ValuesUntouched
<1> QED
    BY <1>1, <1>2, <1>3, ReachableUntouched, NotCompacting

\* The next root, with nothing to do for this one.
LEMMA RootSeen ==
    ASSUME IInv, phase = "roots", root \in DOMAIN Roots, Seen(Roots[root]),
           root' = root + 1, UNCHANGED << phase, heap, stack, mutator, search, call, at >>
    PROVE  IInv'
<1>1. ObjectsUntouched
    BY NothingWritten DEF IInv
<1>2. FlagsSound' /\ QueueSound' /\ FieldSound'
    BY DEF IInv, FlagsSound, QueueSound, FieldSound, search
<1>3. Roots' = Roots /\ Reachable' = Reachable
    BY <1>1, MarkingFrame DEF Marking
<1>4. MarkSound'
    <2>1. MarkSound
        BY DEF IInv
    <2>2. root \in 1 .. Len(Roots) /\ Len(Roots) \in Nat
        BY RootFacts
    <2>3. root' \in 1 .. Len(Roots') + 1
        BY <1>3, <2>2
    <2>4. \A x : Seen(x)' <=> Seen(x)
        BY DEF Seen, AllMarked
    <2>5. \A r \in 1 .. root' - 1 : Seen(Roots[r])
        <3>1. \A r \in 1 .. root' - 1 : r = root \/ r \in 1 .. root - 1
            BY <2>2
        <3>2. \A r \in 1 .. root - 1 : Seen(Roots[r])
            BY <2>1 DEF MarkSound, Marking
        <3> QED
            BY <3>1, <3>2
    <2>6. Active' = Active /\ AllMarked' = AllMarked /\ \A k : Pending(k)' <=> Pending(k)
        BY DEF Active, AllMarked, Pending, Address, search
    <2> QED
        BY <1>3, <2>1, <2>3, <2>4, <2>5, <2>6 DEF MarkSound, Marking
<1> QED
    BY <1>1, <1>2, <1>4, MarkingFrame DEF IInv, Marking

\* The layout, in one place.
LEMMA LayoutFacts ==
    ASSUME Typed, ObjectsTile, phase \in {"run", "alloc", "roots", "mark", "compute", "update"}
    PROVE  /\ heap \in Heaps /\ heap.begin \in Nat /\ heap.begin % 4 = 0 /\ Len(heap.words) \in Nat
           /\ Objects(heap.words, at)
           /\ Tiled(at, Sizes(heap.words, at), 1, Len(heap.words) + 1)
           /\ 1 \in Starts /\ Len(heap.words) + 1 \in Starts
           /\ \A id \in DOMAIN at :
                 /\ at[id] \in Nat /\ at[id] >= 1 /\ at[id] < Len(heap.words) /\ at[id] \in Starts
                 /\ Size(heap.words, at[id]) \in Nat /\ Size(heap.words, at[id]) >= 2
                 /\ at[id] + Size(heap.words, at[id]) <= Len(heap.words) + 1
                 /\ at[id] + Size(heap.words, at[id]) \in Starts
                 /\ FieldSlots(heap.words, at[id]) \subseteq
                        at[id] + 2 .. at[id] + Size(heap.words, at[id]) - 1
           /\ \A i, j \in DOMAIN at : i # j =>
                 \/ at[i] + Size(heap.words, at[i]) <= at[j]
                 \/ at[j] + Size(heap.words, at[j]) <= at[i]
           /\ \A i, j \in DOMAIN at : at[i] = at[j] => i = j
           /\ \A s \in Starts : s \in Nat /\ s >= 1 /\ s <= Len(heap.words) + 1
           /\ \A s \in Starts : s = Len(heap.words) + 1 \/ \E id \in DOMAIN at : at[id] = s
<1>1. /\ heap \in Heaps /\ heap.begin \in Nat /\ heap.begin % 4 = 0 /\ Len(heap.words) \in Nat
      /\ Objects(heap.words, at)
    BY TypedFacts
<1>2. Tiled(at, Sizes(heap.words, at), 1, Len(heap.words) + 1)
    BY DEF ObjectsTile
<1>3. 1 \in Starts /\ Len(heap.words) + 1 \in Starts
    BY <1>2 DEF Tiled, Starts
<1>4. \A id \in DOMAIN at :
         /\ at[id] \in Nat /\ at[id] >= 1 /\ at[id] < Len(heap.words) /\ at[id] \in Starts
         /\ Size(heap.words, at[id]) \in Nat /\ Size(heap.words, at[id]) >= 2
         /\ FieldSlots(heap.words, at[id]) \subseteq
                at[id] + 2 .. at[id] + Size(heap.words, at[id]) - 1
    BY <1>1, SizeFacts DEF Starts
<1>5. \A id \in DOMAIN at :
         /\ at[id] + Size(heap.words, at[id]) <= Len(heap.words) + 1
         /\ at[id] + Size(heap.words, at[id]) \in Starts
    BY <1>1, <1>2, ObjectsApart DEF Starts
<1>6. /\ \A i, j \in DOMAIN at : i # j =>
            \/ at[i] + Size(heap.words, at[i]) <= at[j]
            \/ at[j] + Size(heap.words, at[j]) <= at[i]
      /\ \A i, j \in DOMAIN at : at[i] = at[j] => i = j
    BY <1>1, <1>2, ObjectsApart
<1>7. \A s \in Starts : s = Len(heap.words) + 1 \/ \E id \in DOMAIN at : at[id] = s
    BY DEF Starts
<1>8. \A s \in Starts : s \in Nat /\ s >= 1 /\ s <= Len(heap.words) + 1
    BY <1>1, <1>4, <1>7
<1> QED
    BY <1>1, <1>2, <1>3, <1>4, <1>5, <1>6, <1>7, <1>8

\* The search from a root that is not marked.
LEMMA SearchBegins ==
    ASSUME IInv, phase = "roots", root \in DOMAIN Roots, NEW x \in DOMAIN at,
           Roots[root] = Content(heap.begin, at[x]), ~Marked(heap.words, at[x]),
           heap' = queue_enqueue(heap, heap.begin, Content(heap.begin, at[x])),
           head' = heap.begin, tail' = NextObject(heap, heap.begin), phase' = "mark",
           UNCHANGED << root, stack, mutator, field, field_end, call, at >>
    PROVE  IInv'
<1> DEFINE w == heap.words
           v == heap.words'
<1>1. Typed /\ ObjectsTile
    BY DEF IInv
<1>2. /\ heap \in Heaps /\ heap.begin \in Nat /\ heap.begin % 4 = 0 /\ Len(w) \in Nat
      /\ Objects(w, at) /\ Tiled(at, Sizes(w, at), 1, Len(w) + 1)
      /\ \A id \in DOMAIN at :
            /\ at[id] \in Nat /\ at[id] >= 1 /\ at[id] < Len(w)
            /\ Size(w, at[id]) \in Nat /\ Size(w, at[id]) >= 2
            /\ at[id] + Size(w, at[id]) <= Len(w) + 1
            /\ at[id] + Size(w, at[id]) \in Starts
      /\ \A i, j \in DOMAIN at : i # j => \/ at[i] + Size(w, at[i]) <= at[j]
                                          \/ at[j] + Size(w, at[j]) <= at[i]
    BY <1>1, LayoutFacts
<1>3. PICK t \in DOMAIN at : at[t] = 1
    <2>1. 1 = Len(w) + 1 \/ \E id \in DOMAIN at : at[id] = 1
        BY <1>1, LayoutFacts
    <2>2. at[x] \in Nat /\ at[x] >= 1 /\ at[x] < Len(w)
        BY <1>2
    <2> QED
        BY <1>2, <2>1, <2>2
<1>4. heap.begin = Address(heap, at[t]) /\ NextObject(heap, heap.begin) = Address(heap, at[t] + Size(w, at[t]))
    <2>1. heap.begin = Address(heap, 1)
        BY <1>2 DEF Address, WordBytes
    <2>2. NextObject(heap, Address(heap, at[t])) = Address(heap, at[t] + Size(w, at[t]))
        BY <1>2, ObjectFacts
    <2> QED
        BY <1>3, <2>1, <2>2
<1>5. /\ heap' \in Heaps /\ heap.begin' = heap.begin /\ heap.size' = heap.size
      /\ SameObjects(w, v, at)
      /\ Forward(v, at[t]) = Content(heap.begin, at[x])
      /\ \A id \in DOMAIN at : Marked(v, at[id]) = Marked(w, at[id])
      /\ Enqueued(v, at[x])
      /\ \A id \in DOMAIN at : id # x => Enqueued(v, at[id]) = Enqueued(w, at[id])
    <2>1. heap' = queue_enqueue(heap, Address(heap, at[t]), Content(heap.begin, at[x]))
        BY <1>4
    <2> QED
        BY <1>2, <2>1, EnqueueWrites
<1>6. ObjectsUntouched
    BY <1>5 DEF ObjectsUntouched
<1>7. /\ Typed' /\ ObjectsTile' /\ FieldsSound' /\ StackSound' /\ NativesSound' /\ CallSound'
      /\ ScanSound' /\ PlacesSound' /\ RoomSound' /\ MarksWhatIsReachable'
      /\ Roots' = Roots /\ Reachable' = Reachable
    BY <1>6, MarkingFrame DEF Marking
<1>8. \A id \in DOMAIN at : ~Enqueued(w, at[id])
    BY DEF IInv, FlagsSound
<1>9. FlagsSound'
    BY DEF FlagsSound
<1>10. \A id \in DOMAIN at : /\ FieldSlots(v, at[id]) = FieldSlots(w, at[id])
                             /\ \A k \in FieldSlots(w, at[id]) : v[k] = w[k]
    BY <1>1, <1>6, LayoutUntouched
<1>11. AllMarked' = AllMarked /\ Active' = Active \cup {x} /\ x \in Reachable
    <2>1. AllMarked' = AllMarked
        BY <1>5 DEF AllMarked
    <2>2. Active' = Active \cup {x}
        BY <1>5 DEF Active
    <2>3. x \in Reachable
        BY <1>1, ReachableFacts DEF LeastClosed, ClosedUnderRoots
    <2> QED
        BY <2>1, <2>2, <2>3
<1>12. MarkSound'
    <2>1. /\ root \in 1 .. Len(Roots) + 1
          /\ \A r \in 1 .. root - 1 : Seen(Roots[r])
          /\ Active \subseteq Reachable
          /\ \A i \in AllMarked : \A k \in FieldSlots(w, at[i]) : \A j \in DOMAIN at :
                 w[k] = Content(heap.begin, at[j]) => j \in Active
        BY DEF IInv, MarkSound, Marking, Pending
    <2>2. root <= Len(Roots)
        BY RootFacts
    <2>3. \A r \in 1 .. root - 1 : Seen(Roots[r])'
        BY <1>5, <1>7, <1>11, <2>1 DEF Seen
    <2>4. \E id \in Active' : Roots[root] = Content(heap.begin, at[id])
        BY <1>11
    <2>5. \A i \in AllMarked : \A k \in FieldSlots(v, at[i]) : \A j \in DOMAIN at :
              v[k] = Content(heap.begin, at[j]) => j \in Active'
        BY <1>10, <1>11, <2>1 DEF AllMarked
    <2> QED
        BY <1>5, <1>7, <1>11, <2>1, <2>2, <2>3, <2>4, <2>5 DEF MarkSound, Marking
<1>13. FieldSound'
    BY DEF IInv, FieldSound
<1>14. HeadSlot' = 1 /\ TailSlot' = 1 + Size(w, at[t]) /\ Aligned(head)' /\ Aligned(tail)'
    <2>1. \A s \in Int : Slot(heap', Address(heap, s)) = s /\ Address(heap', s) = Address(heap, s)
        BY <1>2, <1>5, SameBegin
    <2>2. head' = Address(heap, 1) /\ tail' = Address(heap, 1 + Size(w, at[t])) /\ 1 + Size(w, at[t]) \in Int
        BY <1>2, <1>3, <1>4
    <2> QED
        BY <2>1, <2>2 DEF HeadSlot, TailSlot, Aligned
<1>15. \A i \in DOMAIN at : at[i] < 1 + Size(w, at[t]) <=> i = t
    BY <1>2, <1>3
<1>16. Starts' = Starts
    BY <1>5 DEF Starts, SameObjects
<1>17. QueueSound'
    <2>1. HeadSlot' \in Starts' /\ TailSlot' \in Starts' /\ HeadSlot' <= TailSlot'
        <3>1. 1 \in Starts
            BY <1>1, LayoutFacts
        <3> QED
            BY <1>2, <1>3, <1>14, <1>16, <3>1
    <2>2. Holds(t, x)'
        BY <1>5 DEF Holds
    <2>3. ASSUME NEW i \in DOMAIN at, at[i] < TailSlot'
          PROVE  \E j \in DOMAIN at : /\ Holds(i, j)'
                                      /\ Marked(v, at[j]) <=> at[i] < HeadSlot'
                                      /\ Enqueued(v, at[j]) <=> at[i] >= HeadSlot'
        <3>1. i = t
            BY <1>14, <1>15, <2>3
        <3> WITNESS x \in DOMAIN at
        <3> QED
            BY <1>2, <1>3, <1>5, <1>14, <2>2, <3>1
    <2>4. \A i, j \in DOMAIN at : at[i] < TailSlot' /\ at[j] < TailSlot' => i = j
        BY <1>14, <1>15
    <2>5. \A j \in DOMAIN at : Enqueued(v, at[j]) => j = x
        BY <1>5, <1>8
    <2>6. \A j \in DOMAIN at : Enqueued(v, at[j]) =>
              \E i \in DOMAIN at : HeadSlot' <= at[i] /\ at[i] < TailSlot' /\ Holds(i, j)'
        BY <1>2, <1>3, <1>14, <1>15, <2>2, <2>5
    <2> HIDE DEF v
    <2> QED
        BY <1>14, <2>1, <2>3, <2>4, <2>6 DEF QueueSound, v
<1> QED
    BY <1>7, <1>9, <1>12, <1>13, <1>17 DEF IInv

\* mark is called with the next root.
LEMMA MarkRootKeeps ==
    ASSUME IInv, MarkRoot, UNCHANGED call
    PROVE  IInv'
<1> DEFINE p == Roots[root]
<1>1. /\ Typed /\ ObjectsTile /\ phase = "roots" /\ root \in DOMAIN Roots
      /\ UNCHANGED << stack, mutator, field, field_end, call, at >>
    BY DEF IInv, MarkRoot
<1>2. \/ UNBOXED(p) \/ p = Outside \/ Inside(p)
      \/ \E id \in DOMAIN at : p = Content(heap.begin, at[id])
    BY <1>1, RootFacts
<1>3. PointsToObject(p) <=> \E id \in DOMAIN at : p = Content(heap.begin, at[id])
    BY <1>1, TypedFacts DEF PointsToObject
<1>4. CASE ~is_valid_heap_pointer(heap, p) /\ root' = root + 1 /\ UNCHANGED << heap, phase, head, tail >>
    <2>1. UNBOXED(p) \/ p = Outside
        BY <1>1, <1>2, <1>4, InHeap
    <2> QED
        BY <1>1, <1>4, <2>1, RootSeen DEF Seen, search
<1>5. CASE phase' = "undefined" /\ UNCHANGED << heap, root, head, tail >>
    BY <1>1, <1>5, UndefinedKeeps
<1>6. CASE PointsToObject(p) /\ is_marked(heap, p) /\ root' = root + 1 /\ UNCHANGED << heap, phase, head, tail >>
    <2>1. PICK id \in DOMAIN at : p = Begins(id)
        BY <1>6 DEF PointsToObject
    <2>2. Marked(heap.words, at[id]) /\ p = Content(heap.begin, at[id])
        BY <1>1, <1>6, <2>1, AtObject, TypedFacts
    <2>3. Seen(p)
        BY <2>2 DEF Seen, AllMarked
    <2> QED
        BY <1>1, <1>6, <2>3, RootSeen DEF search
<1>7. CASE /\ PointsToObject(p) /\ ~is_marked(heap, p)
           /\ heap' = queue_enqueue(heap, heap.begin, p) /\ head' = heap.begin
           /\ tail' = NextObject(heap, heap.begin) /\ phase' = "mark" /\ UNCHANGED root
    <2>1. PICK id \in DOMAIN at : p = Begins(id)
        BY <1>7 DEF PointsToObject
    <2>2. ~Marked(heap.words, at[id]) /\ p = Content(heap.begin, at[id])
        BY <1>1, <1>7, <2>1, AtObject, TypedFacts
    <2> QED
        BY <1>1, <1>7, <2>2, SearchBegins
<1> QED
    BY <1>4, <1>5, <1>6, <1>7 DEF MarkRoot

\* The object at the head of the queue is marked.
LEMMA MarkKeeps ==
    ASSUME IInv, Mark, UNCHANGED call
    PROVE  IInv'
<1> DEFINE w == heap.words
           v == heap.words'
<1>1. /\ Typed /\ ObjectsTile /\ QueueSound /\ phase = "mark" /\ phase' = "mark"
      /\ field >= field_end /\ head # tail
      /\ UNCHANGED << stack, mutator, root, tail, at, call >>
    BY DEF IInv, Mark
<1>2. /\ heap \in Heaps /\ heap.begin \in Nat /\ heap.begin % 4 = 0 /\ Len(w) \in Nat
      /\ Objects(w, at) /\ Tiled(at, Sizes(w, at), 1, Len(w) + 1)
      /\ \A id \in DOMAIN at :
            /\ at[id] \in Nat /\ at[id] >= 1 /\ at[id] < Len(w)
            /\ Size(w, at[id]) \in Nat /\ Size(w, at[id]) >= 2
            /\ at[id] + Size(w, at[id]) <= Len(w) + 1
            /\ at[id] + Size(w, at[id]) \in Starts
      /\ \A i, j \in DOMAIN at : i # j => \/ at[i] + Size(w, at[i]) <= at[j]
                                          \/ at[j] + Size(w, at[j]) <= at[i]
      /\ \A s \in Starts : s \in Nat /\ s >= 1 /\ s <= Len(w) + 1
      /\ \A s \in Starts : s = Len(w) + 1 \/ \E id \in DOMAIN at : at[id] = s
    BY <1>1, LayoutFacts
<1>3. /\ head = Address(heap, HeadSlot) /\ tail = Address(heap, TailSlot)
      /\ HeadSlot \in Nat /\ TailSlot \in Nat /\ HeadSlot < TailSlot /\ TailSlot <= Len(w) + 1
      /\ TailSlot \in Starts
    <2>1. /\ head = Address(heap, HeadSlot) /\ tail = Address(heap, TailSlot)
          /\ HeadSlot \in Starts /\ TailSlot \in Starts /\ HeadSlot <= TailSlot
        BY <1>1 DEF QueueSound, Aligned, HeadSlot, TailSlot
    <2>2. HeadSlot # TailSlot
        BY <1>1, <2>1
    <2> QED
        BY <1>2, <2>1, <2>2
<1>4. PICK i0 \in DOMAIN at : at[i0] = HeadSlot
    <2>1. HeadSlot \in Starts /\ HeadSlot # Len(w) + 1
        BY <1>1, <1>2, <1>3 DEF QueueSound
    <2> QED
        BY <1>2, <2>1
<1>5. PICK x \in DOMAIN at : Holds(i0, x) /\ ~Marked(w, at[x]) /\ Enqueued(w, at[x])
    BY <1>1, <1>2, <1>3, <1>4 DEF QueueSound
<1>6. /\ get_forward_address(heap, get_object_content_ptr(head)) = Content(heap.begin, at[x])
      /\ NextObject(heap, head) = Address(heap, at[i0] + Size(w, at[i0]))
    <2>1. /\ head = Address(heap, at[i0]) /\ at[i0] \in Int /\ heap.begin \in Int
          /\ Size(w, at[i0]) \in Int
        BY <1>2, <1>3, <1>4
    <2>2. get_object_content_ptr(Address(heap, at[i0])) = Content(heap.begin, at[i0])
        BY <2>1, SlotFacts
    <2>3. /\ get_forward_address(heap, Content(heap.begin, at[i0])) = Forward(w, at[i0])
          /\ NextObject(heap, Address(heap, at[i0])) = Address(heap, at[i0] + Size(w, at[i0]))
        BY <2>1, ObjectFacts
    <2> QED
        BY <1>5, <2>1, <2>2, <2>3 DEF Holds
<1>7. /\ heap' = mark_object(make_dequeued(heap, Content(heap.begin, at[x])), Content(heap.begin, at[x]))
      /\ field' = field_begin_iterator(heap, Content(heap.begin, at[x]))
      /\ field_end' = EndOf(heap, Content(heap.begin, at[x]))
      /\ head' = Address(heap, at[i0] + Size(w, at[i0]))
    BY <1>6 DEF Mark
<1>8. /\ heap' \in Heaps /\ heap.begin' = heap.begin /\ heap.size' = heap.size
      /\ SameObjects(w, v, at)
      /\ \A id \in DOMAIN at : Forward(v, at[id]) = Forward(w, at[id])
      /\ Marked(v, at[x]) /\ ~Enqueued(v, at[x])
      /\ \A id \in DOMAIN at : id # x => /\ Marked(v, at[id]) = Marked(w, at[id])
                                         /\ Enqueued(v, at[id]) = Enqueued(w, at[id])
    <2> DEFINE g == mark_object(make_dequeued(heap, Content(heap.begin, at[x])), Content(heap.begin, at[x]))
    <2>1. /\ g \in Heaps /\ g.begin = heap.begin /\ g.size = heap.size
          /\ SameObjects(w, g.words, at)
          /\ \A id \in DOMAIN at : Forward(g.words, at[id]) = Forward(w, at[id])
          /\ Marked(g.words, at[x]) /\ ~Enqueued(g.words, at[x])
          /\ \A id \in DOMAIN at : id # x => /\ Marked(g.words, at[id]) = Marked(w, at[id])
                                             /\ Enqueued(g.words, at[id]) = Enqueued(w, at[id])
        BY <1>2, MarkWrites
    <2> HIDE DEF g
    <2>2. heap' = g
        BY <1>7 DEF g
    <2> QED
        BY <2>1, <2>2
<1>9. ObjectsUntouched
    BY <1>1, <1>8 DEF ObjectsUntouched
<1>10. /\ Typed' /\ ObjectsTile' /\ FieldsSound' /\ StackSound' /\ NativesSound' /\ CallSound'
       /\ ScanSound' /\ PlacesSound' /\ RoomSound' /\ MarksWhatIsReachable'
       /\ Roots' = Roots /\ Reachable' = Reachable
    BY <1>1, <1>9, MarkingFrame DEF Marking
<1>11. FlagsSound'
    BY <1>1 DEF FlagsSound
<1>12. \A id \in DOMAIN at : /\ FieldSlots(v, at[id]) = FieldSlots(w, at[id])
                             /\ Size(v, at[id]) = Size(w, at[id])
                             /\ \A k \in FieldSlots(w, at[id]) : v[k] = w[k]
    BY <1>1, <1>9, LayoutUntouched
<1>13. AllMarked' = AllMarked \cup {x} /\ Active' = Active
    <2>1. AllMarked' = AllMarked \cup {x}
        BY <1>1, <1>8 DEF AllMarked
    <2>2. Active' = Active
        BY <1>1, <1>5, <1>8 DEF Active
    <2> QED
        BY <2>1, <2>2
<1>14. PICK f \in Int : /\ field' = Address(heap, f) /\ f >= at[x] + 2
                        /\ FieldSlots(w, at[x]) = f .. at[x] + Size(w, at[x]) - 1
                        /\ field_end' = Address(heap, at[x] + Size(w, at[x]))
    <2>1. at[x] \in Int /\ heap.begin \in Int /\ Size(w, at[x]) \in Int /\ Size(w, at[x]) >= 2
        BY <1>2
    <2>2. PICK f \in Int :
             /\ field_begin_iterator(heap, Content(heap.begin, at[x])) = Address(heap, f)
             /\ f >= at[x] + 2 /\ FieldSlots(w, at[x]) = f .. at[x] + Size(w, at[x]) - 1
        BY <2>1, ObjectFacts
    <2>3. EndOf(heap, Content(heap.begin, at[x])) = Address(heap, at[x] + Size(w, at[x]))
        BY <2>1, ObjectFacts
    <2> QED
        BY <1>7, <2>2, <2>3
<1>15. \A s \in Int : /\ Address(heap', s) = Address(heap, s) /\ Slot(heap', Address(heap, s)) = s
                      /\ Address(heap, s) \in Int
    <2>1. heap.begin \in Int /\ heap'.begin = heap.begin
        BY <1>2, <1>8
    <2>2. \A s \in Int : Address(heap, s) \in Int
        BY <2>1, SlotFacts
    <2> QED
        BY <2>1, <2>2, SameBegin
<1>16. \A s, r \in Int : Address(heap, s) <= Address(heap, r) <=> s <= r
    BY <1>2 DEF Address, WordBytes
<1>17. FieldSound'
    <2> DEFINE n == at[x] + Size(w, at[x])
    <2>1. n \in Int /\ field' = Address(heap, f) /\ field_end' = Address(heap, n)
        BY <1>2, <1>14
    <2>2. x \in AllMarked' /\ FieldSlots(v, at[x]) = f .. n - 1 /\ n = at[x] + Size(v, at[x])
        <3>1. FieldSlots(v, at[x]) = FieldSlots(w, at[x]) /\ Size(v, at[x]) = Size(w, at[x])
            BY <1>12
        <3>2. x \in AllMarked'
            BY <1>13
        <3>3. at[x] + (Size(w, at[x]) - 1) = n - 1
            BY <1>2
        <3>4. FieldSlots(v, at[x]) = f .. n - 1
            BY <1>14, <3>1, <3>3
        <3> QED
            BY <3>1, <3>2, <3>4
    <2> HIDE DEF n
    <2>3. CASE f >= n
        BY <1>15, <1>16, <2>1, <2>3 DEF FieldSound
    <2>4. CASE f < n
        <3>1. Slot(heap', field') = f /\ f \in FieldSlots(v, at[x]) /\ field' < field_end'
            BY <1>15, <1>16, <2>1, <2>2, <2>4
        <3>2. Aligned(field)'
            BY <1>15, <2>1, <3>1 DEF Aligned
        <3>3. field_end' = Address(heap', at[x] + Size(v, at[x]))
            BY <1>15, <2>1, <2>2
        <3>4. field' \in Int /\ field_end' \in Int
            BY <1>15, <2>1
        <3> HIDE DEF v, w
        <3> QED
            BY <1>1, <2>2, <3>1, <3>2, <3>3, <3>4 DEF FieldSound, v
    <2> QED
        BY <2>1, <2>3, <2>4
<1>18. MarkSound'
    <2>1. /\ root \in 1 .. Len(Roots) + 1 /\ root <= Len(Roots)
          /\ \A r \in 1 .. root - 1 : Seen(Roots[r])
          /\ \E id \in Active : Roots[root] = Content(heap.begin, at[id])
          /\ Active \subseteq Reachable
          /\ \A i \in AllMarked : \A k \in FieldSlots(w, at[i]) : \A j \in DOMAIN at :
                 w[k] = Content(heap.begin, at[j]) => j \in Active \/ Pending(k)
        BY <1>1 DEF IInv, MarkSound, Marking
    <2>2. field \in Int /\ field_end \in Int
        BY DEF IInv, FieldSound
    <2>3. \A k \in Int : ~Pending(k)
        BY <1>1, <1>15, <2>2 DEF Pending
    <2>4. \A r \in 1 .. root - 1 : Seen(Roots[r])'
        BY <1>1, <1>8, <1>10, <1>13, <2>1 DEF Seen
    <2>5. \A k \in FieldSlots(w, at[x]) : Pending(k)'
        <3>1. \A k \in FieldSlots(w, at[x]) :
                 /\ k \in Int /\ f <= k /\ k <= at[x] + Size(w, at[x])
                 /\ ~(at[x] + Size(w, at[x]) <= k)
            <4> DEFINE e == at[x] + Size(w, at[x])
            <4>1. e \in Int /\ f \in Int /\ FieldSlots(w, at[x]) = f .. e - 1
                BY <1>2, <1>14
            <4> HIDE DEF e
            <4>2. \A k \in f .. e - 1 : k \in Int /\ f <= k /\ k <= e /\ ~(e <= k)
                BY <4>1
            <4> QED
                BY <4>1, <4>2 DEF e
        <3>2. at[x] + Size(w, at[x]) \in Int
            BY <1>2
        <3>3. \A k \in Int : f <= k /\ ~(at[x] + Size(w, at[x]) <= k) =>
                  field' <= Address(heap', k) /\ Address(heap', k) < field_end'
            BY <1>14, <1>15, <1>16, <3>2
        <3> QED
            BY <1>1, <3>1, <3>3 DEF Pending
    <2>6. \A i \in AllMarked' : \A k \in FieldSlots(v, at[i]) : \A j \in DOMAIN at :
              v[k] = Content(heap.begin, at[j]) => j \in Active' \/ Pending(k)'
        <3> SUFFICES ASSUME NEW i \in AllMarked', NEW k \in FieldSlots(v, at[i]), NEW j \in DOMAIN at,
                            v[k] = Content(heap.begin, at[j])
                     PROVE  j \in Active' \/ Pending(k)'
            OBVIOUS
        <3>1. i \in DOMAIN at /\ k \in FieldSlots(w, at[i]) /\ v[k] = w[k] /\ k \in Int
            BY <1>1, <1>2, <1>12, LayoutFacts DEF AllMarked
        <3>2. CASE i = x
            BY <2>5, <3>1, <3>2
        <3>3. CASE i # x
            BY <1>13, <2>1, <2>3, <3>1, <3>3
        <3> QED
            BY <3>2, <3>3
    <2> HIDE DEF v, w
    <2>7. \E id \in Active' : Roots'[root'] = Content(heap.begin', at'[id])
        BY <1>1, <1>8, <1>10, <1>13, <2>1
    <2> QED
        BY <1>1, <1>8, <1>10, <1>13, <2>1, <2>4, <2>6, <2>7 DEF MarkSound, Marking, v
<1>19. HeadSlot' = at[i0] + Size(w, at[i0]) /\ TailSlot' = TailSlot /\ Aligned(head)' /\ Aligned(tail)'
    <2>1. at[i0] + Size(w, at[i0]) \in Int /\ TailSlot \in Int /\ tail' = Address(heap, TailSlot)
        BY <1>1, <1>2, <1>3
    <2>2. HeadSlot' = at[i0] + Size(w, at[i0]) /\ TailSlot' = TailSlot
        BY <1>7, <1>15, <2>1 DEF HeadSlot, TailSlot
    <2> QED
        BY <1>7, <1>15, <2>1, <2>2 DEF Aligned, HeadSlot, TailSlot
<1>20. Starts' = Starts
    BY <1>1, <1>8 DEF Starts, SameObjects
<1>21. QueueSound'
    <2>1. HeadSlot' \in Starts' /\ TailSlot' \in Starts' /\ HeadSlot' <= TailSlot'
        <3>1. \A s \in Starts : s > at[i0] => s >= at[i0] + Size(w, at[i0])
            <4> SUFFICES ASSUME NEW s \in Starts, s > at[i0] PROVE s >= at[i0] + Size(w, at[i0])
                OBVIOUS
            <4>1. CASE s = Len(w) + 1
                BY <1>2, <4>1
            <4>2. CASE \E id \in DOMAIN at : at[id] = s
                <5>1. PICK id \in DOMAIN at : at[id] = s
                    BY <4>2
                <5>2. at[id] + Size(w, at[id]) <= at[i0] \/ at[i0] + Size(w, at[i0]) <= at[id]
                    BY <1>2, <5>1
                <5>3. at[id] \in Nat /\ at[i0] \in Nat /\ Size(w, at[id]) \in Nat /\ Size(w, at[i0]) \in Nat
                    BY <1>2
                <5> QED
                    BY <5>1, <5>2, <5>3
            <4> QED
                BY <1>2, <4>1, <4>2
        <3> QED
            BY <1>2, <1>3, <1>4, <1>19, <1>20, <3>1
    <2>2. \A i, j \in DOMAIN at : Holds(i, j)' <=> Holds(i, j)
        BY <1>1, <1>8 DEF Holds
    <2>3. \A i, j, k \in DOMAIN at : Holds(i, j) /\ Holds(i, k) => j = k
        BY <1>1, InHeap DEF Holds
    <2>4. \A i, k \in DOMAIN at : at[i] < TailSlot /\ at[k] < TailSlot /\ Forward(w, at[i]) = Forward(w, at[k]) => i = k
        BY <1>1 DEF QueueSound
    <2>5. \A i \in DOMAIN at : i # i0 => (at[i] < HeadSlot' <=> at[i] < HeadSlot)
        <3> SUFFICES ASSUME NEW i \in DOMAIN at, i # i0
                     PROVE  at[i] < HeadSlot' <=> at[i] < HeadSlot
            OBVIOUS
        <3>1. at[i] + Size(w, at[i]) <= at[i0] \/ at[i0] + Size(w, at[i0]) <= at[i]
            BY <1>2
        <3>2. /\ at[i] \in Nat /\ at[i0] \in Nat
              /\ Size(w, at[i]) \in Nat /\ Size(w, at[i]) >= 2
              /\ Size(w, at[i0]) \in Nat /\ Size(w, at[i0]) >= 2
            BY <1>2
        <3> QED
            BY <1>4, <1>19, <3>1, <3>2
    <2>6. at[i0] < HeadSlot' /\ \A i \in DOMAIN at : at[i] >= HeadSlot' <=> ~(at[i] < HeadSlot')
        BY <1>2, <1>19
    <2>7. ASSUME NEW i \in DOMAIN at, at[i] < TailSlot'
          PROVE  \E j \in DOMAIN at : /\ Holds(i, j)'
                                      /\ Marked(v, at[j]) <=> at[i] < HeadSlot'
                                      /\ Enqueued(v, at[j]) <=> at[i] >= HeadSlot'
        <3>1. CASE i = i0
            BY <1>5, <1>8, <2>2, <2>6, <3>1
        <3>2. CASE i # i0
            <4>1. PICK j \in DOMAIN at : /\ Holds(i, j)
                                         /\ Marked(w, at[j]) <=> at[i] < HeadSlot
                                         /\ Enqueued(w, at[j]) <=> at[i] >= HeadSlot
                BY <1>1, <1>19, <2>7 DEF QueueSound
            <4>2. j # x
                BY <1>3, <1>4, <1>5, <1>19, <2>4, <2>7, <3>2, <4>1 DEF Holds
            <4>3. at[i] >= HeadSlot <=> ~(at[i] < HeadSlot)
                <5>1. at[i] \in Nat /\ HeadSlot \in Int
                    BY <1>2, <1>4
                <5> QED
                    BY <5>1
            <4> QED
                BY <1>8, <2>2, <2>5, <2>6, <3>2, <4>1, <4>2, <4>3
        <3> QED
            BY <3>1, <3>2
    <2>8. ASSUME NEW j \in DOMAIN at, Enqueued(v, at[j])
          PROVE  \E i \in DOMAIN at : HeadSlot' <= at[i] /\ at[i] < TailSlot' /\ Holds(i, j)'
        <3>1. j # x /\ Enqueued(w, at[j])
            BY <1>8, <2>8
        <3>2. PICK i \in DOMAIN at : HeadSlot <= at[i] /\ at[i] < TailSlot /\ Holds(i, j)
            BY <1>1, <3>1 DEF QueueSound
        <3>3. i # i0
            BY <1>5, <2>3, <3>1, <3>2
        <3>4. HeadSlot' <= at[i]
            BY <1>2, <1>3, <2>5, <2>6, <3>2, <3>3
        <3> QED
            BY <1>19, <2>2, <3>2, <3>4
    <2>9. \A i, k \in DOMAIN at : at[i] < TailSlot' /\ at[k] < TailSlot' /\ Forward(v, at[i]) = Forward(v, at[k]) => i = k
        BY <1>8, <1>19, <2>4
    <2> HIDE DEF v, w
    <2> QED
        BY <1>1, <1>19, <2>1, <2>7, <2>8, <2>9 DEF QueueSound, v
<1> QED
    BY <1>10, <1>11, <1>17, <1>18, <1>21 DEF IInv

\* The field whose turn it is.
LEMMA FieldFacts ==
    ASSUME IInv, phase = "mark", field < field_end
    PROVE  \E i \in AllMarked : \E k \in FieldSlots(heap.words, at[i]) :
              /\ k \in Int /\ field = Address(heap, k)
              /\ WordAt(heap, field) = heap.words[k]
              /\ field_end = Address(heap, at[i] + Size(heap.words, at[i]))
              /\ \/ UNBOXED(heap.words[k])
                 \/ \E j \in DOMAIN at : heap.words[k] = Content(heap.begin, at[j])
<1>1. Typed /\ ObjectsTile /\ FieldSound
    BY DEF IInv
<1>2. heap.begin \in Nat /\ \A id \in DOMAIN at : FieldSlots(heap.words, at[id]) \subseteq Int
    <2>1. \A id \in DOMAIN at : /\ at[id] \in Nat /\ Size(heap.words, at[id]) \in Nat
                                /\ FieldSlots(heap.words, at[id]) \subseteq
                                       at[id] + 2 .. at[id] + Size(heap.words, at[id]) - 1
        BY <1>1, LayoutFacts
    <2> QED
        BY <1>1, <2>1, TypedFacts
<1>3. ~(field >= field_end)
    BY <1>1 DEF FieldSound
<1>4. PICK i \in AllMarked : /\ Slot(heap, field) \in FieldSlots(heap.words, at[i])
                             /\ field_end = Address(heap, at[i] + Size(heap.words, at[i]))
    BY <1>1, <1>3 DEF FieldSound
<1>5. Aligned(field)
    BY <1>1, <1>3 DEF FieldSound
<1> DEFINE k == Slot(heap, field)
<1>6. i \in DOMAIN at /\ k \in FieldSlots(heap.words, at[i]) /\ k \in Int
    BY <1>2, <1>4 DEF AllMarked
<1>7. field = Address(heap, k)
    BY <1>5 DEF Aligned
<1> HIDE DEF k
<1>8. WordAt(heap, field) = heap.words[k]
    BY <1>2, <1>6, <1>7, WordFacts
<1>9. \/ UNBOXED(heap.words[k])
      \/ \E j \in DOMAIN at : heap.words[k] = Content(heap.begin, at[j])
    <2>1. Kept = DOMAIN at /\ \A id, owner : FieldWord(id, owner) = Content(heap.begin, at[id])
        BY DEF Kept, FieldWord, RootWord
    <2> QED
        BY <1>6, <2>1 DEF IInv, FieldsSound, Running
<1> QED
    BY <1>4, <1>6, <1>7, <1>8, <1>9

\* The iterator moves on: only the slot that it was at stops being pending, and
\* what it leaves behind is sound if that slot is.
LEMMA FieldMovesOn ==
    ASSUME IInv, phase = "mark", field < field_end, ObjectsUntouched, phase' = "mark",
           field' = field + WordBytes, UNCHANGED << root, field_end >>, AllMarked' = AllMarked,
           Active \subseteq Active', Active' \subseteq Reachable,
           NEW i \in AllMarked, NEW k \in FieldSlots(heap.words, at[i]),
           k \in Int, field = Address(heap, k),
           field_end = Address(heap, at[i] + Size(heap.words, at[i])),
           \A j \in DOMAIN at : heap.words[k] = Content(heap.begin, at[j]) => j \in Active'
    PROVE  MarkSound' /\ FieldSound'
<1> DEFINE w == heap.words
           v == heap.words'
           n == at[i] + Size(w, at[i])
<1>1. Typed /\ ObjectsTile /\ MarkSound
    BY DEF IInv
<1>2. /\ heap.begin \in Nat /\ heap.begin' = heap.begin /\ at' = at /\ i \in DOMAIN at /\ n \in Int
      /\ \A id \in DOMAIN at : FieldSlots(w, at[id]) \subseteq Int
      /\ FieldSlots(w, at[i]) \subseteq at[i] + 2 .. n - 1
      /\ Size(w, at[i]) \in Nat /\ at[i] \in Nat
    <2>1. \A id \in DOMAIN at : /\ at[id] \in Nat /\ Size(w, at[id]) \in Nat
                                /\ FieldSlots(w, at[id]) \subseteq at[id] + 2 .. at[id] + Size(w, at[id]) - 1
        BY <1>1, LayoutFacts
    <2>2. \A id \in DOMAIN at : FieldSlots(w, at[id]) \subseteq Int
        BY <2>1
    <2>3. i \in DOMAIN at
        BY DEF AllMarked
    <2>4. FieldSlots(w, at[i]) \subseteq at[i] + 2 .. n - 1
        BY <2>1, <2>3
    <2> QED
        BY <1>1, <2>1, <2>2, <2>3, <2>4, TypedFacts DEF ObjectsUntouched
<1>3. /\ Roots' = Roots /\ Reachable' = Reachable
    BY MarkingFrame DEF Marking
<1>4. \A id \in DOMAIN at : /\ FieldSlots(v, at[id]) = FieldSlots(w, at[id])
                            /\ Size(v, at[id]) = Size(w, at[id])
                            /\ \A s \in FieldSlots(w, at[id]) : v[s] = w[s]
    BY <1>1, LayoutUntouched
<1>5. \A s \in Int : /\ Address(heap', s) = Address(heap, s) /\ Slot(heap', Address(heap, s)) = s
                     /\ Address(heap, s) \in Int
    BY <1>2, SameBegin, SlotFacts
<1>6. field' = Address(heap, k + 1) /\ k + 1 \in Int
    BY <1>2 DEF Address, WordBytes
<1>7. \A s, r \in Int : Address(heap, s) <= Address(heap, r) <=> s <= r
    BY <1>2 DEF Address, WordBytes
<1>8. \A s \in Int : Pending(s) => Pending(s)' \/ s = k
    <2> SUFFICES ASSUME NEW s \in Int, Pending(s), s # k PROVE Pending(s)'
        OBVIOUS
    <2>1. Address(heap, k) <= Address(heap, s) /\ Address(heap, s) < field_end
        BY DEF Pending
    <2>2. k + 1 <= s
        BY <1>7, <2>1
    <2>3. Address(heap, k + 1) <= Address(heap, s)
        BY <1>6, <1>7, <2>2
    <2> QED
        BY <1>5, <1>6, <2>1, <2>3 DEF Pending
<1>9. MarkSound'
    <2>1. /\ root \in 1 .. Len(Roots) + 1 /\ root <= Len(Roots)
          /\ \A r \in 1 .. root - 1 : Seen(Roots[r])
          /\ \E id \in Active : Roots[root] = Content(heap.begin, at[id])
          /\ \A id \in AllMarked : \A s \in FieldSlots(w, at[id]) : \A j \in DOMAIN at :
                 w[s] = Content(heap.begin, at[j]) => j \in Active \/ Pending(s)
        BY <1>1 DEF MarkSound, Marking
    <2>2. \A r \in 1 .. root - 1 : Seen(Roots[r])'
        BY <1>2, <1>3, <2>1 DEF Seen
    <2>3. \A id \in AllMarked' : \A s \in FieldSlots(v, at[id]) : \A j \in DOMAIN at :
              v[s] = Content(heap.begin, at[j]) => j \in Active' \/ Pending(s)'
        <3> SUFFICES ASSUME NEW id \in AllMarked', NEW s \in FieldSlots(v, at[id]), NEW j \in DOMAIN at,
                            v[s] = Content(heap.begin, at[j])
                     PROVE  j \in Active' \/ Pending(s)'
            OBVIOUS
        <3>1. id \in AllMarked /\ id \in DOMAIN at
            BY DEF AllMarked
        <3>2. s \in FieldSlots(w, at[id]) /\ w[s] = Content(heap.begin, at[j]) /\ s \in Int
            BY <1>2, <1>4, <3>1
        <3>3. j \in Active \/ Pending(s)
            BY <2>1, <3>1, <3>2
        <3> QED
            BY <1>8, <3>2, <3>3
    <2>4. \E id \in Active' : Roots[root] = Content(heap.begin, at[id])
        BY <2>1
    <2> HIDE DEF v, w, n
    <2> QED
        BY <1>2, <1>3, <2>1, <2>2, <2>3, <2>4 DEF MarkSound, Marking, v
<1>10. FieldSound'
    <2>1. field_end' = Address(heap, n) /\ k + 1 <= n
        BY <1>2
    <2>2. field' \in Int /\ field_end' \in Int
        BY <1>2, <1>5, <1>6, <2>1
    <2> HIDE DEF n
    <2>3. CASE k + 1 = n
        BY <1>6, <2>1, <2>2, <2>3 DEF FieldSound
    <2>4. CASE k + 1 < n
        <3>1. Slot(heap', field') = k + 1 /\ field' < field_end' /\ Aligned(field)'
            <4>1. Slot(heap', field') = k + 1 /\ field' = Address(heap', k + 1)
                BY <1>5, <1>6
            <4>2. field' < field_end'
                BY <1>2, <1>5, <1>6, <1>7, <2>1, <2>4
            <4> QED
                BY <4>1, <4>2 DEF Aligned
        <3>2. k + 1 \in FieldSlots(v, at[i])
            <4>1. k + 1 \in FieldSlots(w, at[i])
                BY <1>2, <2>4 DEF FieldSlots, n
            <4> QED
                BY <1>2, <1>4, <4>1
        <3>3. field_end' = Address(heap', at[i] + Size(v, at[i]))
            BY <1>2, <1>4, <1>5, <2>1 DEF n
        <3> HIDE DEF v, w
        <3> QED
            BY <1>2, <2>2, <3>1, <3>2, <3>3 DEF FieldSound, v
    <2> QED
        BY <1>2, <2>1, <2>3, <2>4
<1> QED
    BY <1>9, <1>10

\* The queue has a place for whatever is not in it yet: each object below the
\* tail holds another one, and none holds this one.
LEMMA QueueHasRoom ==
    ASSUME IInv, phase = "mark", NEW x \in DOMAIN at, x \notin Active
    PROVE  /\ \E t \in DOMAIN at : at[t] = TailSlot
           /\ \A i, j \in DOMAIN at : at[i] < TailSlot /\ Holds(i, j) => j # x
<1>1. Typed /\ ObjectsTile /\ QueueSound
    BY DEF IInv
<1>2. \A i, j \in DOMAIN at : Forward(heap.words, at[i]) = Content(heap.begin, at[j]) <=> Holds(i, j)
    BY DEF Holds
<1>3. \A i, j, k \in DOMAIN at : Holds(i, j) /\ Holds(i, k) => j = k
    BY <1>1, InHeap DEF Holds
<1>4. \A i \in DOMAIN at : at[i] < TailSlot => \E j \in DOMAIN at : Holds(i, j) /\ j \in Active
    <2>1. HeadSlot \in Nat /\ \A id \in DOMAIN at : at[id] \in Nat
        BY <1>1, LayoutFacts DEF QueueSound
    <2> SUFFICES ASSUME NEW i \in DOMAIN at, at[i] < TailSlot
                 PROVE  \E j \in DOMAIN at : Holds(i, j) /\ j \in Active
        OBVIOUS
    <2>2. PICK j \in DOMAIN at : /\ Holds(i, j)
                                 /\ Marked(heap.words, at[j]) <=> at[i] < HeadSlot
                                 /\ Enqueued(heap.words, at[j]) <=> at[i] >= HeadSlot
        BY <1>1 DEF QueueSound
    <2>3. at[i] < HeadSlot \/ at[i] >= HeadSlot
        BY <2>1
    <2> QED
        BY <2>2, <2>3 DEF Active
<1>5. \A i, j \in DOMAIN at : at[i] < TailSlot /\ Holds(i, j) => j # x
    BY <1>3, <1>4
<1>6. ASSUME TailSlot = Len(heap.words) + 1 PROVE FALSE
    <2> DEFINE others == DOMAIN at \ {x}
               held == [i \in DOMAIN at |-> CHOOSE j \in DOMAIN at : Holds(i, j)]
    <2>1. IsFiniteSet(DOMAIN at)
        <3>1. DOMAIN at \subseteq 1 .. born /\ born \in Nat
            BY <1>1 DEF Typed
        <3> QED
            BY <3>1, FS_Interval, FS_Subset
    <2>2. /\ IsFiniteSet(others) /\ Cardinality(others) = Cardinality(DOMAIN at) - 1
          /\ Cardinality(DOMAIN at) \in Nat /\ Cardinality(others) \in Nat
        BY <2>1, FS_RemoveElement, FS_CardinalityType
    <2>3. \A i \in DOMAIN at : at[i] < TailSlot
        BY <1>1, <1>6, LayoutFacts
    <2>4. \A i \in DOMAIN at : held[i] \in DOMAIN at /\ Holds(i, held[i])
        BY <1>4, <2>3
    <2>5. held \in [DOMAIN at -> others]
        BY <1>5, <2>3, <2>4
    <2> HIDE DEF held, others
    <2>6. PICK i, k \in DOMAIN at : i # k /\ held[i] = held[k]
        BY <2>1, <2>2, <2>5, FS_PigeonHole
    <2>7. Forward(heap.words, at[i]) = Forward(heap.words, at[k])
        BY <2>4, <2>6 DEF Holds
    <2> QED
        BY <1>1, <2>3, <2>6, <2>7 DEF QueueSound
<1>7. \E t \in DOMAIN at : at[t] = TailSlot
    BY <1>1, <1>6, LayoutFacts DEF QueueSound
<1> QED
    BY <1>5, <1>7

\* A field that needs nothing done.
LEMMA FieldSettled ==
    ASSUME IInv, phase = "mark", field < field_end, phase' = "mark",
           Settled(heap, WordAt(heap, field)), field' = field + WordBytes,
           UNCHANGED << heap, stack, mutator, root, head, tail, field_end, at, call >>
    PROVE  IInv'
<1>1. Typed /\ ObjectsTile
    BY DEF IInv
<1>2. ObjectsUntouched
    BY <1>1, NothingWritten
<1>3. PICK i \in AllMarked : \E k \in FieldSlots(heap.words, at[i]) :
              /\ k \in Int /\ field = Address(heap, k)
              /\ WordAt(heap, field) = heap.words[k]
              /\ field_end = Address(heap, at[i] + Size(heap.words, at[i]))
    BY FieldFacts
<1>4. PICK k \in FieldSlots(heap.words, at[i]) :
              /\ k \in Int /\ field = Address(heap, k)
              /\ WordAt(heap, field) = heap.words[k]
              /\ field_end = Address(heap, at[i] + Size(heap.words, at[i]))
    BY <1>3
<1>5. \A j \in DOMAIN at : heap.words[k] = Content(heap.begin, at[j]) => j \in Active
    <2> SUFFICES ASSUME NEW j \in DOMAIN at, heap.words[k] = Content(heap.begin, at[j])
                 PROVE  j \in Active
        OBVIOUS
    <2> DEFINE p == Content(heap.begin, at[j])
    <2>1. Begins(j) = p /\ is_valid_heap_pointer(heap, p)
        BY <1>1, TypedFacts, InHeap
    <2> HIDE DEF p
    <2>2. is_marked(heap, p) \/ is_enqueued(heap, p)
        BY <1>4, <2>1 DEF Settled, p
    <2> QED
        BY <1>1, <2>1, <2>2, AtObject DEF Active
<1>6. Active' = Active /\ AllMarked' = AllMarked /\ Active \subseteq Reachable
    BY DEF Active, AllMarked, IInv, MarkSound, Marking
<1>7. MarkSound' /\ FieldSound'
    BY <1>2, <1>4, <1>5, <1>6, FieldMovesOn
<1>8. FlagsSound' /\ QueueSound'
    BY DEF IInv, FlagsSound, QueueSound, Aligned, Starts, HeadSlot, TailSlot, Holds, Slot, Address
<1> QED
    BY <1>2, <1>7, <1>8, MarkingFrame DEF IInv, Marking

\* A field whose object is neither marked nor in the queue.
LEMMA FieldEnqueued ==
    ASSUME IInv, phase = "mark", field < field_end, phase' = "mark",
           ~Settled(heap, WordAt(heap, field)),
           heap' = queue_enqueue(heap, tail, WordAt(heap, field)),
           tail' = NextObject(heap, tail), field' = field + WordBytes,
           UNCHANGED << stack, mutator, root, head, field_end, at, call >>
    PROVE  IInv'
<1> DEFINE w == heap.words
           v == heap.words'
<1>1. Typed /\ ObjectsTile /\ QueueSound
    BY DEF IInv
<1>2. /\ heap \in Heaps /\ heap.begin \in Nat /\ heap.begin % 4 = 0 /\ Len(w) \in Nat
      /\ Objects(w, at) /\ Tiled(at, Sizes(w, at), 1, Len(w) + 1)
      /\ \A id \in DOMAIN at :
            /\ at[id] \in Nat /\ Size(w, at[id]) \in Nat /\ Size(w, at[id]) >= 2
            /\ at[id] + Size(w, at[id]) \in Starts
      /\ \A i, j \in DOMAIN at : i # j => \/ at[i] + Size(w, at[i]) <= at[j]
                                          \/ at[j] + Size(w, at[j]) <= at[i]
    BY <1>1, LayoutFacts
<1>3. PICK i0 \in AllMarked : \E k \in FieldSlots(w, at[i0]) :
              /\ k \in Int /\ field = Address(heap, k)
              /\ WordAt(heap, field) = w[k]
              /\ field_end = Address(heap, at[i0] + Size(w, at[i0]))
              /\ UNBOXED(w[k]) \/ \E j \in DOMAIN at : w[k] = Content(heap.begin, at[j])
    BY FieldFacts
<1>4. PICK k0 \in FieldSlots(w, at[i0]) :
              /\ k0 \in Int /\ field = Address(heap, k0)
              /\ WordAt(heap, field) = w[k0]
              /\ field_end = Address(heap, at[i0] + Size(w, at[i0]))
              /\ UNBOXED(w[k0]) \/ \E j \in DOMAIN at : w[k0] = Content(heap.begin, at[j])
    BY <1>3
<1>5. PICK x \in DOMAIN at : w[k0] = Content(heap.begin, at[x])
    <2>1. ~UNBOXED(w[k0])
        BY <1>4 DEF Settled, is_valid_heap_pointer
    <2> QED
        BY <1>4, <2>1
<1>6. ~Marked(w, at[x]) /\ ~Enqueued(w, at[x]) /\ x \notin Active
    <2> DEFINE p == Content(heap.begin, at[x])
    <2>1. Begins(x) = p
        BY <1>1, TypedFacts
    <2>2. WordAt(heap, field) = p
        BY <1>4, <1>5
    <2> HIDE DEF p
    <2>3. ~is_marked(heap, p) /\ ~is_enqueued(heap, p)
        BY <2>2 DEF Settled
    <2> QED
        BY <1>1, <2>1, <2>3, AtObject DEF Active
<1>7. PICK t \in DOMAIN at : at[t] = TailSlot
    BY <1>6, QueueHasRoom
<1>8. \A i, j \in DOMAIN at : at[i] < TailSlot /\ Holds(i, j) => j # x
    BY <1>6, QueueHasRoom
<1>9. tail = Address(heap, at[t]) /\ tail' = Address(heap, at[t] + Size(w, at[t]))
    <2>1. tail = Address(heap, at[t])
        BY <1>1, <1>7 DEF QueueSound, Aligned, TailSlot
    <2>2. at[t] \in Int /\ heap.begin \in Int /\ Size(w, at[t]) \in Int
        BY <1>2
    <2>3. NextObject(heap, Address(heap, at[t])) = Address(heap, at[t] + Size(w, at[t]))
        BY <2>2, ObjectFacts
    <2> QED
        BY <2>1, <2>3
<1>10. /\ heap' \in Heaps /\ heap.begin' = heap.begin /\ heap.size' = heap.size
       /\ SameObjects(w, v, at)
       /\ Forward(v, at[t]) = Content(heap.begin, at[x])
       /\ \A id \in DOMAIN at : id # t => Forward(v, at[id]) = Forward(w, at[id])
       /\ \A id \in DOMAIN at : Marked(v, at[id]) = Marked(w, at[id])
       /\ Enqueued(v, at[x])
       /\ \A id \in DOMAIN at : id # x => Enqueued(v, at[id]) = Enqueued(w, at[id])
    <2> DEFINE g == queue_enqueue(heap, Address(heap, at[t]), Content(heap.begin, at[x]))
    <2>1. /\ g \in Heaps /\ g.begin = heap.begin /\ g.size = heap.size
          /\ SameObjects(w, g.words, at)
          /\ Forward(g.words, at[t]) = Content(heap.begin, at[x])
          /\ \A id \in DOMAIN at : id # t => Forward(g.words, at[id]) = Forward(w, at[id])
          /\ \A id \in DOMAIN at : Marked(g.words, at[id]) = Marked(w, at[id])
          /\ Enqueued(g.words, at[x])
          /\ \A id \in DOMAIN at : id # x => Enqueued(g.words, at[id]) = Enqueued(w, at[id])
        BY <1>2, EnqueueWrites
    <2> HIDE DEF g
    <2>2. heap' = g
        BY <1>4, <1>5, <1>9 DEF g
    <2> QED
        BY <2>1, <2>2
<1>11. ObjectsUntouched
    BY <1>10 DEF ObjectsUntouched
<1>12. AllMarked' = AllMarked /\ Active' = Active \cup {x}
    <2>1. AllMarked' = AllMarked
        BY <1>10 DEF AllMarked
    <2>2. Active' = Active \cup {x}
        BY <1>10 DEF Active
    <2> QED
        BY <2>1, <2>2
<1>13. Active' \subseteq Reachable
    <2>1. Active \subseteq Reachable /\ i0 \in Active
        BY DEF IInv, MarkSound, Marking, Active, AllMarked
    <2>2. x \in Reachable
        BY <1>1, <1>4, <1>5, <2>1, ReachableFacts DEF LeastClosed, ClosedUnderFields
    <2> QED
        BY <1>12, <2>1, <2>2
<1>14. MarkSound' /\ FieldSound'
    <2>1. \A j \in DOMAIN at : w[k0] = Content(heap.begin, at[j]) => j \in Active'
        BY <1>1, <1>5, <1>12, InHeap
    <2> QED
        BY <1>4, <1>11, <1>12, <1>13, <2>1, FieldMovesOn
<1>15. FlagsSound'
    BY DEF FlagsSound
<1>16. \A s \in Int : /\ Address(heap', s) = Address(heap, s) /\ Slot(heap', Address(heap, s)) = s
    BY <1>2, <1>10, SameBegin
<1>17. /\ HeadSlot' = HeadSlot /\ TailSlot' = at[t] + Size(w, at[t])
       /\ Aligned(head)' /\ Aligned(tail)' /\ HeadSlot \in Int
    <2>1. head = Address(heap, HeadSlot) /\ HeadSlot \in Int
        BY <1>1, LayoutFacts DEF QueueSound, Aligned, HeadSlot
    <2>2. at[t] + Size(w, at[t]) \in Int
        BY <1>2
    <2>3. HeadSlot' = HeadSlot /\ head' = Address(heap', HeadSlot)
        BY <1>16, <2>1 DEF HeadSlot
    <2>4. TailSlot' = at[t] + Size(w, at[t]) /\ tail' = Address(heap', at[t] + Size(w, at[t]))
        BY <1>9, <1>16, <2>2 DEF TailSlot
    <2> QED
        BY <2>1, <2>3, <2>4 DEF Aligned, HeadSlot, TailSlot
<1>18. \A i \in DOMAIN at : at[i] < TailSlot' <=> at[i] < TailSlot \/ i = t
    <2> SUFFICES ASSUME NEW i \in DOMAIN at
                 PROVE  at[i] < at[t] + Size(w, at[t]) <=> at[i] < at[t] \/ i = t
        BY <1>7, <1>17
    <2>1. i # t => at[i] + Size(w, at[i]) <= at[t] \/ at[t] + Size(w, at[t]) <= at[i]
        BY <1>2
    <2>2. /\ at[i] \in Nat /\ at[t] \in Nat
          /\ Size(w, at[i]) \in Nat /\ Size(w, at[i]) >= 2
          /\ Size(w, at[t]) \in Nat /\ Size(w, at[t]) >= 2
        BY <1>2
    <2> QED
        BY <2>1, <2>2
<1>19. Starts' = Starts
    BY <1>10 DEF Starts, SameObjects
<1>20. QueueSound'
    <2>1. HeadSlot' \in Starts' /\ TailSlot' \in Starts' /\ HeadSlot' <= TailSlot'
        <3>1. HeadSlot \in Starts /\ HeadSlot <= TailSlot
            BY <1>1 DEF QueueSound
        <3> QED
            BY <1>2, <1>7, <1>17, <1>19, <3>1
    <2>2. /\ \A i, j \in DOMAIN at : i # t => (Holds(i, j)' <=> Holds(i, j))
          /\ Holds(t, x)'
        BY <1>10 DEF Holds
    <2>3. ASSUME NEW i \in DOMAIN at, at[i] < TailSlot'
          PROVE  \E j \in DOMAIN at : /\ Holds(i, j)'
                                      /\ Marked(v, at[j]) <=> at[i] < HeadSlot'
                                      /\ Enqueued(v, at[j]) <=> at[i] >= HeadSlot'
        <3>1. CASE i = t
            <4>1. ~(at[t] < HeadSlot) /\ at[t] >= HeadSlot
                BY <1>1, <1>2, <1>7, <1>17 DEF QueueSound
            <4> QED
                BY <1>6, <1>10, <1>17, <2>2, <3>1, <4>1
        <3>2. CASE i # t
            <4>1. at[i] < TailSlot
                BY <1>18, <2>3, <3>2
            <4>2. PICK j \in DOMAIN at : /\ Holds(i, j)
                                         /\ Marked(w, at[j]) <=> at[i] < HeadSlot
                                         /\ Enqueued(w, at[j]) <=> at[i] >= HeadSlot
                BY <1>1, <4>1 DEF QueueSound
            <4>3. j # x
                BY <1>8, <4>1, <4>2
            <4> QED
                BY <1>10, <1>17, <2>2, <3>2, <4>2, <4>3
        <3> QED
            BY <3>1, <3>2
    <2>4. ASSUME NEW j \in DOMAIN at, Enqueued(v, at[j])
          PROVE  \E i \in DOMAIN at : HeadSlot' <= at[i] /\ at[i] < TailSlot' /\ Holds(i, j)'
        <3>1. CASE j = x
            <4>1. HeadSlot <= at[t]
                BY <1>1, <1>7 DEF QueueSound
            <4> QED
                BY <1>17, <1>18, <2>2, <3>1, <4>1
        <3>2. CASE j # x
            <4>1. PICK i \in DOMAIN at : HeadSlot <= at[i] /\ at[i] < TailSlot /\ Holds(i, j)
                BY <1>1, <1>10, <2>4, <3>2 DEF QueueSound
            <4>2. i # t
                BY <1>2, <1>7, <4>1
            <4> QED
                BY <1>17, <1>18, <2>2, <4>1, <4>2
        <3> QED
            BY <3>1, <3>2
    <2>5. ASSUME NEW i \in DOMAIN at, NEW k \in DOMAIN at, at[i] < TailSlot', at[k] < TailSlot',
                 Forward(v, at[i]) = Forward(v, at[k])
          PROVE  i = k
        <3>1. \A j \in DOMAIN at : j # t /\ at[j] < TailSlot' => Forward(v, at[j]) # Content(heap.begin, at[x])
            BY <1>8, <1>10, <1>18 DEF Holds
        <3>2. CASE i # t /\ k # t
            BY <1>1, <1>10, <1>18, <2>5, <3>2 DEF QueueSound
        <3>3. CASE i = t \/ k = t
            BY <1>10, <2>5, <3>1, <3>3
        <3> QED
            BY <3>2, <3>3
    <2> HIDE DEF v, w
    <2> QED
        BY <1>17, <2>1, <2>3, <2>4, <2>5 DEF QueueSound, v
<1> QED
    BY <1>11, <1>14, <1>15, <1>20, MarkingFrame DEF IInv, Marking

\* The next field of the object that was marked.
LEMMA VisitFieldKeeps ==
    ASSUME IInv, VisitField, UNCHANGED call
    PROVE  IInv'
BY FieldSettled, FieldEnqueued DEF VisitField

\* The queue is empty: the next root.
LEMMA MarkEndKeeps ==
    ASSUME IInv, MarkEnd, UNCHANGED call
    PROVE  IInv'
<1>1. /\ Typed /\ ObjectsTile /\ QueueSound /\ MarkSound /\ phase = "mark" /\ phase' = "roots"
      /\ field >= field_end /\ head = tail /\ root' = root + 1
      /\ UNCHANGED << heap, stack, mutator, search, call, at >>
    BY DEF IInv, MarkEnd
<1>2. ObjectsUntouched
    BY <1>1, NothingWritten
<1>3. Roots' = Roots /\ Reachable' = Reachable
    BY <1>1, <1>2, MarkingFrame DEF Marking
<1>4. \A j \in DOMAIN at : ~Enqueued(heap.words, at[j])
    <2>1. HeadSlot = TailSlot /\ HeadSlot \in Nat /\ \A i \in DOMAIN at : at[i] \in Nat
        BY <1>1, LayoutFacts DEF QueueSound, HeadSlot, TailSlot
    <2>2. \A i \in DOMAIN at : ~(HeadSlot <= at[i] /\ at[i] < TailSlot)
        BY <2>1
    <2> QED
        BY <1>1, <2>2 DEF QueueSound
<1>5. FlagsSound'
    BY <1>1, <1>4 DEF FlagsSound
<1>6. QueueSound' /\ FieldSound'
    BY <1>1 DEF IInv, QueueSound, FieldSound, search
<1>7. MarkSound'
    <2>1. Active = AllMarked /\ AllMarked' = AllMarked /\ Active' = Active
        BY <1>1, <1>4 DEF Active, AllMarked
    <2>2. /\ root \in 1 .. Len(Roots) /\ Len(Roots) \in Nat
          /\ \A r \in 1 .. root - 1 : Seen(Roots[r])
          /\ Seen(Roots[root])
          /\ Active \subseteq Reachable
          /\ \A i \in AllMarked : \A k \in FieldSlots(heap.words, at[i]) : \A j \in DOMAIN at :
                 heap.words[k] = Content(heap.begin, at[j]) => j \in Active \/ Pending(k)
        <3>1. Len(Roots) \in Nat
            BY <1>1, RootFacts
        <3> QED
            BY <1>1, <2>1, <3>1 DEF MarkSound, Marking, Seen
    <2>3. field \in Int /\ field_end \in Int /\ heap.begin \in Nat
        BY <1>1, TypedFacts DEF IInv, FieldSound
    <2>4. \A k \in Int : ~Pending(k)
        BY <1>1, <2>3 DEF Pending, Address, WordBytes
    <2>5. \A i \in AllMarked : FieldSlots(heap.words, at[i]) \subseteq Int
        <3>1. \A id \in DOMAIN at : /\ at[id] \in Nat /\ Size(heap.words, at[id]) \in Nat
                                    /\ FieldSlots(heap.words, at[id]) \subseteq
                                           at[id] + 2 .. at[id] + Size(heap.words, at[id]) - 1
            BY <1>1, LayoutFacts
        <3> QED
            BY <3>1 DEF AllMarked
    <2>6. \A r \in 1 .. root' - 1 : Seen(Roots[r])
        <3>1. \A r \in 1 .. root' - 1 : r = root \/ r \in 1 .. root - 1
            BY <1>1, <2>2
        <3> QED
            BY <2>2, <3>1
    <2>7. \A x : Seen(x)' <=> Seen(x)
        BY <1>1, <2>1 DEF Seen
    <2>8. root' \in 1 .. Len(Roots) + 1
        BY <1>1, <2>2
    <2>9. \A i \in AllMarked : \A k \in FieldSlots(heap.words, at[i]) : \A j \in DOMAIN at :
              heap.words[k] = Content(heap.begin, at[j]) => j \in Active
        BY <2>2, <2>4, <2>5
    <2> QED
        BY <1>1, <1>3, <2>1, <2>2, <2>6, <2>7, <2>8, <2>9 DEF MarkSound, Marking
<1> QED
    BY <1>1, <1>2, <1>5, <1>6, <1>7, MarkingFrame DEF IInv, Marking

\* When all roots are done with, what is marked is what they reach.
LEMMA AllReached ==
    ASSUME IInv, phase = "roots", root \notin DOMAIN Roots
    PROVE  /\ AllMarked = Reachable
           /\ \A r \in DOMAIN Roots : Seen(Roots[r])
           /\ \A i \in AllMarked : \A k \in FieldSlots(heap.words, at[i]) : \A j \in DOMAIN at :
                  heap.words[k] = Content(heap.begin, at[j]) => j \in AllMarked
<1>1. Typed /\ ObjectsTile /\ MarkSound
    BY DEF IInv
<1>2. Active = AllMarked
    BY DEF IInv, FlagsSound, Active, AllMarked
<1>3. \A r \in DOMAIN Roots : Seen(Roots[r])
    <2>1. DOMAIN Roots = 1 .. Len(Roots) /\ Len(Roots) \in Nat
        BY RootFacts
    <2>2. root = Len(Roots) + 1
        BY <1>1, <2>1 DEF MarkSound, Marking
    <2> QED
        BY <1>1, <2>1, <2>2 DEF MarkSound, Marking
<1>4. \A i \in AllMarked : \A k \in FieldSlots(heap.words, at[i]) : \A j \in DOMAIN at :
          heap.words[k] = Content(heap.begin, at[j]) => j \in AllMarked
    BY <1>1, <1>2 DEF MarkSound, Marking, Pending
<1>5. Reachable \subseteq AllMarked
    <2>1. ClosedUnderRoots(AllMarked)
        <3> SUFFICES ASSUME NEW id \in DOMAIN at, NEW r \in DOMAIN Roots,
                            Roots[r] = Content(heap.begin, at[id])
                     PROVE  id \in AllMarked
            BY DEF ClosedUnderRoots
        <3>1. Seen(Content(heap.begin, at[id]))
            BY <1>3
        <3>2. /\ ~UNBOXED(Content(heap.begin, at[id])) /\ Content(heap.begin, at[id]) # Outside
              /\ \A j \in DOMAIN at : Content(heap.begin, at[id]) = Content(heap.begin, at[j]) => id = j
            BY <1>1, InHeap
        <3> QED
            BY <3>1, <3>2 DEF Seen, AllMarked
    <2>2. ClosedUnderFields(AllMarked)
        BY <1>4 DEF ClosedUnderFields
    <2> QED
        BY <1>1, <2>1, <2>2, ReachableFacts DEF LeastClosed, AllMarked
<1>6. AllMarked \subseteq Reachable
    BY <1>1, <1>2 DEF MarkSound, Marking
<1> QED
    BY <1>3, <1>4, <1>5, <1>6

\* All roots are done with: what is reachable is marked.
LEMMA CompactPhaseKeeps ==
    ASSUME IInv, CompactPhase, UNCHANGED call
    PROVE  IInv'
<1>1. /\ Typed /\ ObjectsTile /\ phase = "roots" /\ phase' = "compute" /\ root \notin DOMAIN Roots
      /\ scan' = heap.begin /\ free_ptr' = heap.begin
      /\ UNCHANGED << heap, stack, mutator, root, search, call, at >>
    BY DEF IInv, CompactPhase
<1>2. /\ AllMarked = Reachable /\ AllMarked' = AllMarked
      /\ \A r \in DOMAIN Roots : Seen(Roots[r])
      /\ \A i \in AllMarked : \A k \in FieldSlots(heap.words, at[i]) : \A j \in DOMAIN at :
             heap.words[k] = Content(heap.begin, at[j]) => j \in AllMarked
    BY <1>1, AllReached DEF AllMarked
<1>3. ObjectsUntouched
    BY <1>1, NothingWritten
<1>4. Typed'
    BY <1>1, <1>3, TypedUntouched DEF Collecting, Compacting
<1>5. Kept = DOMAIN at /\ \A id, owner : /\ RootWord(id) = Content(heap.begin, at[id])
                                         /\ FieldWord(id, owner) = Content(heap.begin, at[id])
    BY <1>1 DEF Kept, RootWord, FieldWord
<1>6. Kept' = AllMarked /\ \A id, owner : /\ RootWord(id)' = Content(heap.begin, at[id])
                                          /\ FieldWord(id, owner)' = Content(heap.begin, at[id])
    BY <1>1, <1>2 DEF Kept, RootWord, FieldWord
<1>7. ObjectsTile'
    BY <1>1 DEF ObjectsTile
<1>8. FieldsSound'
    <2>1. \A id \in DOMAIN at : \A k \in FieldSlots(heap.words, at[id]) :
              UNBOXED(heap.words[k]) \/ \E j \in DOMAIN at : heap.words[k] = Content(heap.begin, at[j])
        BY <1>1, <1>5 DEF IInv, FieldsSound, Running
    <2>2. \A id \in AllMarked : id \in DOMAIN at
        BY DEF AllMarked
    <2>3. \A id \in AllMarked : \A k \in FieldSlots(heap.words, at[id]) :
              UNBOXED(heap.words[k]) \/ \E j \in AllMarked : heap.words[k] = Content(heap.begin, at[j])
        BY <1>2, <2>1, <2>2
    <2> QED
        BY <1>1, <1>6, <2>3 DEF FieldsSound
<1>9. /\ ~UNBOXED(Outside) /\ \A id \in DOMAIN at : ~UNBOXED(Content(heap.begin, at[id]))
      /\ \A id \in DOMAIN at : Content(heap.begin, at[id]) # Outside
      /\ \A i, j \in DOMAIN at : Content(heap.begin, at[i]) = Content(heap.begin, at[j]) => i = j
      /\ \A x : Inside(x) => x # Outside
    BY <1>1, InHeap
<1>10. StackSound'
    <2>1. \A i \in DOMAIN stack : Seen(stack[i])
        BY <1>1, <1>2, RootFacts
    <2>2. \A i \in DOMAIN stack :
              \/ UNBOXED(stack[i]) \/ Inside(stack[i])
              \/ \E id \in DOMAIN at : stack[i] = Content(heap.begin, at[id])
        BY <1>1, <1>5 DEF IInv, StackSound, Running, Sound
    <2>3. \A i \in DOMAIN stack : stack[i] # Outside
        BY <1>9, <2>2
    <2>4. \A i \in DOMAIN stack : UNBOXED(stack[i]) \/ \E id \in AllMarked : stack[i] = Content(heap.begin, at[id])
        BY <2>1, <2>3 DEF Seen
    <2> QED
        BY <1>1, <1>6, <2>4 DEF StackSound, Sound
<1>11. NativesSound'
    <2>1. \A v, header : Argument(v, header)' <=> Argument(v, header)
        BY <1>1 DEF Argument
    <2>2. \A v \in Range(extra_roots) : Seen(native[v])
        BY <1>1, <1>2, RootFacts DEF Range
    <2>3. \A v \in Range(extra_roots) :
              \/ call.op \notin NeedsObjects /\ (UNBOXED(native[v]) \/ (call.op = "string" /\ native[v] = Outside))
              \/ \E id \in DOMAIN at : native[v] = Content(heap.begin, at[id]) /\ Argument(v, heap.words[at[id]])
        BY <1>1, <1>5 DEF IInv, NativesSound, Running
    <2>4. \A v \in Range(extra_roots) :
              \/ call.op \notin NeedsObjects /\ (UNBOXED(native[v]) \/ (call.op = "string" /\ native[v] = Outside))
              \/ \E id \in AllMarked : native[v] = Content(heap.begin, at[id]) /\ Argument(v, heap.words[at[id]])
        <3> SUFFICES ASSUME NEW v \in Range(extra_roots), NEW id \in DOMAIN at,
                            native[v] = Content(heap.begin, at[id])
                     PROVE  id \in AllMarked
            BY <2>3
        <3> QED
            BY <1>9, <2>2 DEF Seen, AllMarked
    <2> QED
        BY <1>1, <1>6, <2>1, <2>4 DEF NativesSound, mutator
<1>12. CallSound'
    <2>1. Popped' = Popped
        BY <1>1 DEF Popped, FieldCount
    <2> QED
        BY <2>1, <1>1 DEF CallSound, IInv, Collecting, Marking, Compacting, mutator
<1>13. FlagsSound' /\ MarkSound' /\ QueueSound' /\ FieldSound' /\ RoomSound'
    BY <1>1 DEF IInv, FlagsSound, MarkSound, QueueSound, FieldSound, RoomSound, Marking, search
<1>14. heap.begin \in Bases /\ heap.begin \in Nat /\ 1 \in Starts /\ Len(heap.words) \in Nat
       /\ \A id \in DOMAIN at : at[id] \in Nat /\ at[id] >= 1
    BY <1>1, LayoutFacts, TypedFacts
<1>15. ScanSlot' = 1 /\ FreeSlot' = 1 /\ Origin' = heap.begin /\ Passed' = {} /\ Placed' = {}
    <2>1. ScanSlot' = 1 /\ Origin' = heap.begin /\ FreeSlot' = 1
        BY <1>1, <1>14 DEF ScanSlot, Slot, Origin, FreeSlot, WordBytes
    <2>2. Passed' = {}
        BY <1>1, <1>14, <2>1 DEF Passed
    <2> QED
        BY <1>1, <2>1, <2>2 DEF Placed
<1>16. ScanSound'
    <2>1. Aligned(scan)'
        BY <1>1, <1>14, <1>15 DEF Aligned, Address, ScanSlot, WordBytes
    <2>2. Starts' = Starts
        BY <1>1 DEF Starts
    <2> QED
        BY <1>1, <1>14, <1>15, <2>1, <2>2 DEF ScanSound
<1>17. PlacesSound'
    <2>1. DOMAIN Places' = {}
        BY <1>15 DEF Places
    <2>2. Tiled(Places, Sizes(heap.words, at), 1, FreeSlot)'
        BY <1>15, <2>1 DEF Tiled
    <2> QED
        BY <1>1, <1>14, <1>15, <2>2 DEF PlacesSound, WordBytes
<1>18. MarksWhatIsReachable'
    <2>1. \A id \in DOMAIN at : is_marked(heap, Begins(id)) = Marked(heap.words, at[id])
        BY <1>1, AtObject
    <2>2. AllMarked = {id \in DOMAIN at : is_marked(heap, Begins(id))}
        BY <2>1 DEF AllMarked
    <2>3. \A id \in DOMAIN at : is_marked(heap, Begins(id))' <=> is_marked(heap, Begins(id))
        BY <1>1 DEF Begins
    <2>4. Reachable' = Reachable
        BY <1>1, <1>3, <1>4, ReachableUntouched
    <2> QED
        BY <1>1, <1>2, <2>2, <2>3, <2>4 DEF MarksWhatIsReachable
<1> QED
    BY <1>4, <1>7, <1>8, <1>10, <1>11, <1>12, <1>13, <1>16, <1>17, <1>18 DEF IInv

-----------------------------------------------------------------------------
(* Places one behind the other                                             *)

\* Tiled asks for the places and the sizes only.
LEMMA TiledSame ==
    ASSUME NEW p, NEW z, NEW q, NEW y, NEW lo, NEW hi, Tiled(p, z, lo, hi), DOMAIN q = DOMAIN p,
           \A i \in DOMAIN p : q[i] = p[i] /\ y[i] = z[i]
    PROVE  Tiled(q, y, lo, hi)
<1>1. {q[i] : i \in DOMAIN q} = {p[i] : i \in DOMAIN p}
    OBVIOUS
<1> QED
    BY <1>1 DEF Tiled

\* One more place at the end.
LEMMA TiledAppend ==
    ASSUME NEW p, NEW z, NEW q, NEW y, NEW lo \in Int, NEW hi \in Int, Tiled(p, z, lo, hi),
           NEW x, x \notin DOMAIN p, DOMAIN q = DOMAIN p \cup {x}, q[x] = hi, y[x] \in Nat,
           \A i \in DOMAIN p : q[i] = p[i] /\ y[i] = z[i] /\ p[i] \in Int /\ z[i] \in Nat,
           NEW top, top = hi + y[x]
    PROVE  Tiled(q, y, lo, top)
<1> DEFINE new == {q[i] : i \in DOMAIN q} \cup {hi + y[x]}
           old == {p[i] : i \in DOMAIN p} \cup {hi}
<1>1. \A s \in old : s \in new
    OBVIOUS
<1>2. /\ lo \in old /\ lo <= hi
      /\ \A i \in DOMAIN p : lo <= p[i] /\ p[i] + z[i] <= hi /\ p[i] + z[i] \in old
      /\ \A i, j \in DOMAIN p : i # j => p[i] + z[i] <= p[j] \/ p[j] + z[j] <= p[i]
    BY DEF Tiled
<1>3. hi + y[x] \in new /\ hi + y[x] \in Int
    OBVIOUS
<1> HIDE DEF new, old
<1>4. \A i \in DOMAIN q : lo <= q[i] /\ q[i] + y[i] <= hi + y[x] /\ q[i] + y[i] \in new
    <2> SUFFICES ASSUME NEW i \in DOMAIN q
                 PROVE  lo <= q[i] /\ q[i] + y[i] <= hi + y[x] /\ q[i] + y[i] \in new
        OBVIOUS
    <2>1. CASE i = x
        BY <1>2, <1>3, <2>1
    <2>2. CASE i \in DOMAIN p
        BY <1>1, <1>2, <2>2
    <2> QED
        BY <2>1, <2>2
<1>5. \A i, j \in DOMAIN q : i # j => q[i] + y[i] <= q[j] \/ q[j] + y[j] <= q[i]
    <2> SUFFICES ASSUME NEW i \in DOMAIN q, NEW j \in DOMAIN q, i # j
                 PROVE  q[i] + y[i] <= q[j] \/ q[j] + y[j] <= q[i]
        OBVIOUS
    <2>1. CASE i \in DOMAIN p /\ j \in DOMAIN p
        BY <1>2, <2>1
    <2>2. CASE i = x /\ j \in DOMAIN p
        BY <1>2, <2>2
    <2>3. CASE i \in DOMAIN p /\ j = x
        BY <1>2, <2>3
    <2> QED
        BY <2>1, <2>2, <2>3
<1>6. lo \in new /\ lo <= hi + y[x]
    BY <1>1, <1>2
<1> QED
    BY <1>4, <1>5, <1>6 DEF Tiled, new

\* All but the first.
LEMMA TiledRest ==
    ASSUME NEW p, NEW z, NEW q, NEW y, NEW lo \in Int, NEW hi \in Int, Tiled(p, z, lo, hi),
           NEW x \in DOMAIN p, p[x] = lo, DOMAIN q = DOMAIN p \ {x},
           \A i \in DOMAIN p : p[i] \in Int /\ z[i] \in Nat /\ z[i] >= 1,
           \A i \in DOMAIN q : q[i] = p[i] /\ y[i] = z[i],
           NEW low, low = lo + z[x]
    PROVE  Tiled(q, y, low, hi)
<1> DEFINE new == {q[i] : i \in DOMAIN q} \cup {hi}
           old == {p[i] : i \in DOMAIN p} \cup {hi}
<1>1. \A s \in old : s # lo => s \in new
    OBVIOUS
<1>2. /\ lo <= hi
      /\ \A i \in DOMAIN p : lo <= p[i] /\ p[i] + z[i] <= hi /\ p[i] + z[i] \in old
      /\ \A i, j \in DOMAIN p : i # j => p[i] + z[i] <= p[j] \/ p[j] + z[j] <= p[i]
    BY DEF Tiled
<1> HIDE DEF new, old
<1>3. lo + z[x] \in new /\ lo + z[x] <= hi
    <2>1. lo + z[x] \in old /\ lo + z[x] # lo
        BY <1>2
    <2> QED
        BY <1>1, <1>2, <2>1
<1>4. ASSUME NEW i \in DOMAIN q
      PROVE  lo + z[x] <= q[i] /\ q[i] + y[i] <= hi /\ q[i] + y[i] \in new
    <2>1. i \in DOMAIN p /\ i # x /\ q[i] = p[i] /\ y[i] = z[i]
        OBVIOUS
    <2>2. p[x] + z[x] <= p[i] \/ p[i] + z[i] <= p[x]
        BY <1>2, <2>1
    <2>3. p[i] + z[i] # lo /\ p[i] + z[i] \in old /\ lo + z[x] <= p[i] /\ p[i] + z[i] <= hi
        BY <1>2, <2>1, <2>2
    <2> QED
        BY <1>1, <2>1, <2>3
<1>5. \A i, j \in DOMAIN q : i # j => q[i] + y[i] <= q[j] \/ q[j] + y[j] <= q[i]
    BY <1>2
<1> QED
    BY <1>3, <1>4, <1>5 DEF Tiled, new

-----------------------------------------------------------------------------
(* Compaction keeps the invariant                                          *)

\* The object that a pass is at.
LEMMA ScanObject ==
    ASSUME Typed, Aligned(scan), ScanSlot \in Starts, scan < Current(heap)
    PROVE  \E x \in DOMAIN at :
              /\ at[x] = ScanSlot /\ scan = Address(heap, at[x])
              /\ get_object_content_ptr(scan) = Content(heap.begin, at[x])
              /\ NextObject(heap, scan) = Address(heap, at[x] + Size(heap.words, at[x]))
              /\ is_marked(heap, get_object_content_ptr(scan)) = Marked(heap.words, at[x])
              /\ get_forward_address(heap, get_object_content_ptr(scan)) = Forward(heap.words, at[x])
              /\ WordAt(heap, scan) = heap.words[at[x]]
<1>1. heap.begin \in Nat /\ Len(heap.words) \in Nat
    BY TypedFacts
<1>2. ScanSlot # Len(heap.words) + 1
    <2>1. Address(heap, Len(heap.words) + 1) = Current(heap)
        BY <1>1 DEF Address, Current, WordBytes
    <2>2. Current(heap) \in Int
        BY <1>1 DEF Current, WordBytes
    <2> QED
        BY <2>1, <2>2 DEF Aligned, ScanSlot
<1>3. PICK x \in DOMAIN at : at[x] = ScanSlot
    BY <1>2 DEF Starts
<1>4. scan = Address(heap, at[x])
    BY <1>3 DEF Aligned, ScanSlot
<1>5. at[x] \in Int /\ Size(heap.words, at[x]) \in Int
    BY TypedFacts, SizeFacts
<1> DEFINE p == Content(heap.begin, at[x])
<1>6. get_object_content_ptr(Address(heap, at[x])) = p
    BY <1>1, <1>5, SlotFacts
<1>7. /\ NextObject(heap, Address(heap, at[x])) = Address(heap, at[x] + Size(heap.words, at[x]))
      /\ is_marked(heap, p) = Marked(heap.words, at[x])
      /\ get_forward_address(heap, p) = Forward(heap.words, at[x])
    BY <1>1, <1>5, ObjectFacts
<1>8. WordAt(heap, Address(heap, at[x])) = heap.words[at[x]]
    BY <1>1, <1>5, WordFacts
<1> HIDE DEF p
<1> QED
    BY <1>3, <1>4, <1>6, <1>7, <1>8 DEF p

\* The end of a pass.
LEMMA ScanEnds ==
    ASSUME Typed, Aligned(scan), ScanSlot \in Starts, scan >= Current(heap)
    PROVE  ScanSlot = Len(heap.words) + 1 /\ Passed = DOMAIN at
<1>1. heap.begin \in Nat /\ Len(heap.words) \in Nat
    BY TypedFacts
<1>2. \A id \in DOMAIN at : at[id] \in Nat /\ at[id] < Len(heap.words)
    BY TypedFacts, SizeFacts
<1>3. \A id \in DOMAIN at : Address(heap, at[id]) < Current(heap) /\ Address(heap, at[id]) \in Int
    <2>1. \A s \in Nat : s < Len(heap.words) =>
              heap.begin + 4 * (s - 1) < heap.begin + 4 * Len(heap.words) /\ heap.begin + 4 * (s - 1) \in Int
        BY <1>1
    <2> QED
        BY <1>2, <2>1 DEF Address, Current, WordBytes
<1>4. Current(heap) \in Int
    BY <1>1 DEF Current, WordBytes
<1>5. \A id \in DOMAIN at : at[id] # ScanSlot
    BY <1>3, <1>4 DEF Aligned, ScanSlot
<1>6. ScanSlot = Len(heap.words) + 1
    BY <1>5 DEF Starts
<1>7. \A id \in DOMAIN at : at[id] < ScanSlot
    BY <1>1, <1>2, <1>6
<1> QED
    BY <1>6, <1>7 DEF Passed

\* The pass goes on to the next object.
LEMMA ScanMoves ==
    ASSUME Typed, ObjectsTile, phase \in {"compute", "update"}, NEW x \in DOMAIN at, at[x] = ScanSlot
    PROVE  /\ x \notin Passed
           /\ at[x] + Size(heap.words, at[x]) \in Starts
           /\ \A id \in DOMAIN at :
                  at[id] < at[x] + Size(heap.words, at[x]) <=> id \in Passed \/ id = x
<1>1. \A id \in DOMAIN at : /\ at[id] \in Nat /\ Size(heap.words, at[id]) \in Nat
                            /\ Size(heap.words, at[id]) >= 2
                            /\ at[id] + Size(heap.words, at[id]) \in Starts
    BY LayoutFacts
<1>2. \A i, j \in DOMAIN at : i # j => \/ at[i] + Size(heap.words, at[i]) <= at[j]
                                       \/ at[j] + Size(heap.words, at[j]) <= at[i]
    BY LayoutFacts
<1>3. ASSUME NEW id \in DOMAIN at
      PROVE  at[id] < at[x] + Size(heap.words, at[x]) <=> id \in Passed \/ id = x
    <2>1. id # x => \/ at[id] + Size(heap.words, at[id]) <= at[x]
                    \/ at[x] + Size(heap.words, at[x]) <= at[id]
        BY <1>2
    <2>2. /\ at[id] \in Nat /\ at[x] \in Nat
          /\ Size(heap.words, at[id]) \in Nat /\ Size(heap.words, at[id]) >= 2
          /\ Size(heap.words, at[x]) \in Nat /\ Size(heap.words, at[x]) >= 2
        BY <1>1
    <2>3. id \in Passed <=> at[id] < at[x]
        BY DEF Passed
    <2> QED
        BY <2>1, <2>2, <2>3
<1>4. x \notin Passed
    BY <1>1 DEF Passed
<1> QED
    BY <1>1, <1>3, <1>4

\* What the invariant says of places, unfolded.
LEMMA PlaceFacts ==
    ASSUME IInv, phase \in Compacting
    PROVE  /\ Origin \in Bases /\ Origin \in Nat /\ Origin % 4 = 0 /\ FreeSlot \in Int
           /\ free_ptr = Origin + WordBytes * (FreeSlot - 1)
           /\ FreeSlot >= 1 /\ FreeSlot <= Len(heap.words) + 1
           /\ Placed \subseteq DOMAIN at
           /\ \A id \in Placed :
                 /\ Place(id) \in Nat /\ Place(id) >= 1 /\ Place(id) <= at[id]
                 /\ Place(id) + Size(heap.words, at[id]) <= FreeSlot
                 /\ id \notin Passed \/ phase # "relocate" =>
                       Forward(heap.words, at[id]) = Origin + WordBytes * (Place(id) - 1)
           /\ \A i, j \in Placed : at[i] < at[j] => /\ Place(i) < Place(j)
                                                    /\ Place(i) + Size(heap.words, at[i]) <= Place(j)
<1>1. Typed /\ PlacesSound
    BY DEF IInv
<1>2. Placed \subseteq DOMAIN at
    BY DEF Placed, AllMarked, Passed, Compacting
<1>3. /\ Origin \in Bases /\ free_ptr = Origin + WordBytes * (FreeSlot - 1)
      /\ FreeSlot \in Nat /\ FreeSlot <= Len(heap.words) + 1
      /\ Tiled(Places, Sizes(heap.words, at), 1, FreeSlot)
      /\ \A id \in Placed : /\ Place(id) \in Nat /\ Place(id) <= at[id]
                            /\ id \notin Passed \/ phase # "relocate" =>
                                  Forward(heap.words, at[id]) = Origin + WordBytes * (Place(id) - 1)
      /\ \A i, j \in Placed : at[i] < at[j] => Place(i) < Place(j)
    BY <1>1 DEF PlacesSound
<1>4. Origin \in Nat /\ Origin % 4 = 0
    BY <1>3, HeapAssumption DEF WordBytes
<1>5. DOMAIN Places = Placed /\ \A id \in Placed : Places[id] = Place(id)
    BY DEF Places
<1>6. \A id \in Placed : /\ Size(heap.words, at[id]) \in Nat /\ Size(heap.words, at[id]) >= 2
                         /\ Sizes(heap.words, at)[id] = Size(heap.words, at[id])
    BY <1>1, <1>2, TypedFacts, SizeFacts
<1>7. /\ 1 <= FreeSlot
      /\ \A id \in Placed : 1 <= Place(id) /\ Place(id) + Size(heap.words, at[id]) <= FreeSlot
      /\ \A i, j \in Placed : i # j => \/ Place(i) + Size(heap.words, at[i]) <= Place(j)
                                       \/ Place(j) + Size(heap.words, at[j]) <= Place(i)
    <2> DEFINE z == Sizes(heap.words, at)
    <2>1. /\ 1 <= FreeSlot
          /\ \A id \in Placed : 1 <= Places[id] /\ Places[id] + z[id] <= FreeSlot
          /\ \A i, j \in Placed : i # j => Places[i] + z[i] <= Places[j] \/ Places[j] + z[j] <= Places[i]
        <3>1. Tiled(Places, z, 1, FreeSlot)
            BY <1>3
        <3> HIDE DEF z
        <3> QED
            BY <1>5, <3>1 DEF Tiled
    <2> QED
        BY <1>5, <1>6, <2>1
<1>8. FreeSlot \in Int
    BY <1>3
<1>9. ASSUME NEW i \in Placed, NEW j \in Placed, at[i] < at[j]
      PROVE  Place(i) < Place(j) /\ Place(i) + Size(heap.words, at[i]) <= Place(j)
    <2>1. Place(i) < Place(j) /\ i # j
        BY <1>1, <1>2, <1>3, <1>9, TypedFacts, SizeFacts
    <2>2. \/ Place(i) + Size(heap.words, at[i]) <= Place(j)
          \/ Place(j) + Size(heap.words, at[j]) <= Place(i)
        BY <1>7, <2>1
    <2> QED
        BY <1>3, <1>6, <2>1, <2>2
<1> QED
    BY <1>2, <1>3, <1>4, <1>6, <1>7, <1>8, <1>9

\* What set_forward_address writes: the address, and no flag.
LEMMA ForwardSet ==
    ASSUME NEW h \in Heaps, NEW a, Objects(h.words, a),
           Tiled(a, Sizes(h.words, a), 1, Len(h.words) + 1), NEW x \in DOMAIN a,
           NEW place \in Int, place % 4 = 0
    PROVE  LET g == set_forward_address(h, Content(h.begin, a[x]), place)
           IN  /\ g \in Heaps /\ g.begin = h.begin /\ g.size = h.size
               /\ SameObjects(h.words, g.words, a)
               /\ Forward(g.words, a[x]) = place
               /\ \A id \in DOMAIN a : id # x => Forward(g.words, a[id]) = Forward(h.words, a[id])
               /\ \A id \in DOMAIN a : /\ Marked(g.words, a[id]) = Marked(h.words, a[id])
                                       /\ Enqueued(g.words, a[id]) = Enqueued(h.words, a[id])
<1> DEFINE p == Content(h.begin, a[x])
           old == h.words[a[x] + 1]
           g == SetForwardWord(h, p, SET_FORWARD_ADDRESS(old, place))
<1>1. old \in Int
    BY SizeFacts
<1>2. /\ SET_FORWARD_ADDRESS(old, place) \in Int
      /\ GET_FORWARD_ADDRESS(SET_FORWARD_ADDRESS(old, place)) = place
      /\ MARKED(SET_FORWARD_ADDRESS(old, place)) = MARKED(old)
      /\ ENQUEUED(SET_FORWARD_ADDRESS(old, place)) = ENQUEUED(old)
    BY <1>1, ForwardFacts
<1>3. /\ g \in Heaps /\ g.begin = h.begin /\ g.size = h.size
      /\ SameObjects(h.words, g.words, a)
      /\ ForwardWord(h, p) = old
      /\ g.words[a[x] + 1] = SET_FORWARD_ADDRESS(old, place)
      /\ \A id \in DOMAIN a : id # x => g.words[a[id] + 1] = h.words[a[id] + 1]
    BY <1>2, HeapWrite
<1>4. set_forward_address(h, p, place) = g
    BY <1>3 DEF set_forward_address
<1> HIDE DEF g, p, old
<1> QED
    BY <1>2, <1>3, <1>4 DEF Forward, Marked, Enqueued, p, old

\* What the pass that computes addresses leaves alone.
LEMMA ComputeFrame ==
    ASSUME IInv, phase = "compute", phase' = "compute", NEW x \in DOMAIN at,
           at[x] = ScanSlot, scan' = Address(heap, at[x] + Size(heap.words, at[x])),
           ObjectsUntouched, UNCHANGED << search, root, old_heap >>,
           \A id \in DOMAIN at : /\ Marked(heap.words', at[id]) = Marked(heap.words, at[id])
                                 /\ Enqueued(heap.words', at[id]) = Enqueued(heap.words, at[id])
    PROVE  /\ Typed' /\ ObjectsTile' /\ FieldsSound' /\ StackSound' /\ NativesSound' /\ CallSound'
           /\ FlagsSound' /\ MarkSound' /\ QueueSound' /\ FieldSound'
           /\ ScanSound' /\ RoomSound' /\ MarksWhatIsReachable'
           /\ ScanSlot' = at[x] + Size(heap.words, at[x]) /\ Passed' = Passed \cup {x}
           /\ AllMarked' = AllMarked /\ Sizes(heap.words, at)' = Sizes(heap.words, at)
           /\ Len(heap.words') = Len(heap.words)
<1> DEFINE n == at[x] + Size(heap.words, at[x])
<1>1. Typed /\ ObjectsTile
    BY DEF IInv
<1>2. /\ at' = at /\ heap.begin' = heap.begin /\ heap.begin \in Nat /\ n \in Int /\ n \in Starts
      /\ n > 1
    <2>1. at[x] \in Nat /\ Size(heap.words, at[x]) \in Nat /\ at[x] >= 1 /\ Size(heap.words, at[x]) >= 2
        BY <1>1, LayoutFacts
    <2> QED
        BY <1>1, <2>1, LayoutFacts, TypedFacts DEF ObjectsUntouched
<1>3. AllMarked' = AllMarked
    BY <1>2 DEF AllMarked
<1>4. Typed'
    BY <1>1, TypedUntouched DEF Collecting, Compacting
<1>5. ObjectsTile' /\ FieldsSound' /\ StackSound' /\ NativesSound' /\ CallSound'
    BY <1>3, <1>4, ValuesUntouched
<1>6. FlagsSound'
    <2>1. \A id \in DOMAIN at : ~Enqueued(heap.words, at[id])
        BY DEF IInv, FlagsSound
    <2> QED
        BY <1>2, <2>1 DEF FlagsSound
<1>7. MarkSound' /\ QueueSound' /\ FieldSound' /\ RoomSound'
    BY DEF IInv, MarkSound, QueueSound, FieldSound, RoomSound, Marking, search
<1>8. Len(heap.words') = Len(heap.words) /\ Sizes(heap.words, at)' = Sizes(heap.words, at)
    BY <1>1, LayoutUntouched
<1>9. ScanSlot' = n /\ Aligned(scan)' /\ scan' # heap.begin
    <2>1. Slot(heap', Address(heap, n)) = n /\ Address(heap', n) = Address(heap, n)
        BY <1>2, SameBegin
    <2>2. Address(heap, n) # heap.begin
        <3> HIDE DEF n
        <3> QED
            BY <1>2 DEF Address, WordBytes
    <2> QED
        BY <2>1, <2>2 DEF ScanSlot, Aligned
<1>10. ScanSound'
    <2>1. Starts' = Starts
        BY <1>2, <1>8 DEF Starts
    <2> QED
        BY <1>2, <1>9, <2>1 DEF ScanSound
<1>11. Passed' = Passed \cup {x}
    <2>1. \A id \in DOMAIN at : at[id] < n <=> id \in Passed \/ id = x
        BY <1>1, ScanMoves
    <2> QED
        BY <1>2, <1>9, <2>1 DEF Passed
<1>12. MarksWhatIsReachable'
    BY <1>2, <1>9 DEF MarksWhatIsReachable
<1> QED
    BY <1>3, <1>4, <1>5, <1>6, <1>7, <1>8, <1>9, <1>10, <1>11, <1>12

\* compute_locations, one object.
LEMMA ComputeLocationKeeps ==
    ASSUME IInv, ComputeLocation, UNCHANGED call
    PROVE  IInv'
<1> DEFINE w == heap.words
           v == heap.words'
<1>1. /\ Typed /\ ObjectsTile /\ phase = "compute" /\ phase' = "compute" /\ scan < Current(heap)
      /\ UNCHANGED << stack, mutator, root, search, old_heap, call, at >>
      /\ Aligned(scan) /\ ScanSlot \in Starts
    BY DEF IInv, ComputeLocation, ScanSound, Compacting
<1>2. PICK x \in DOMAIN at :
              /\ at[x] = ScanSlot /\ scan = Address(heap, at[x])
              /\ get_object_content_ptr(scan) = Content(heap.begin, at[x])
              /\ NextObject(heap, scan) = Address(heap, at[x] + Size(w, at[x]))
              /\ is_marked(heap, get_object_content_ptr(scan)) = Marked(w, at[x])
    BY <1>1, ScanObject
<1>3. scan' = Address(heap, at[x] + Size(w, at[x]))
    BY <1>2 DEF ComputeLocation
<1>4. /\ heap \in Heaps /\ heap.begin \in Nat /\ Objects(w, at) /\ Tiled(at, Sizes(w, at), 1, Len(w) + 1)
      /\ \A id \in DOMAIN at : /\ at[id] \in Nat /\ at[id] >= 1
                               /\ Size(w, at[id]) \in Nat /\ Size(w, at[id]) >= 2
                               /\ Sizes(w, at)[id] = Size(w, at[id])
      /\ at[x] + Size(w, at[x]) <= Len(w) + 1 /\ Len(w) \in Nat
    BY <1>1, LayoutFacts, SizeFacts
<1>5. /\ Origin = heap.begin /\ Placed = AllMarked \cap Passed
      /\ \A id : Place(id) = (Forward(w, at[id]) - heap.begin) \div WordBytes + 1
    BY <1>1 DEF Origin, Placed, Place, ForwardSlot
<1>6. /\ Origin \in Bases /\ Origin \in Nat /\ Origin % 4 = 0 /\ FreeSlot \in Nat
      /\ free_ptr = Origin + WordBytes * (FreeSlot - 1)
      /\ FreeSlot >= 1 /\ FreeSlot <= Len(w) + 1 /\ FreeSlot <= ScanSlot
      /\ \A id \in Placed :
                 /\ Place(id) \in Nat /\ Place(id) >= 1 /\ Place(id) <= at[id]
                 /\ Place(id) + Size(w, at[id]) <= FreeSlot
                 /\ Forward(w, at[id]) = Origin + WordBytes * (Place(id) - 1)
      /\ \A i, j \in Placed : at[i] < at[j] => Place(i) < Place(j)
      /\ Tiled(Places, Sizes(w, at), 1, FreeSlot)
    <2>1. PlacesSound /\ phase \in Compacting
        BY <1>1 DEF IInv, Compacting
    <2>2. FreeSlot <= ScanSlot /\ FreeSlot \in Nat /\ Tiled(Places, Sizes(w, at), 1, FreeSlot)
        BY <1>1, <2>1 DEF PlacesSound
    <2> QED
        BY <1>1, <2>1, <2>2, PlaceFacts
<1>7. CASE ~Marked(w, at[x])
    <2>1. UNCHANGED << heap, free_ptr >>
        BY <1>2, <1>7 DEF ComputeLocation
    <2>2. ObjectsUntouched
        BY <1>1, <2>1, NothingWritten
    <2>3. /\ Typed' /\ ObjectsTile' /\ FieldsSound' /\ StackSound' /\ NativesSound' /\ CallSound'
          /\ FlagsSound' /\ MarkSound' /\ QueueSound' /\ FieldSound'
          /\ ScanSound' /\ RoomSound' /\ MarksWhatIsReachable'
          /\ ScanSlot' = at[x] + Size(w, at[x]) /\ Passed' = Passed \cup {x}
          /\ AllMarked' = AllMarked
        BY <1>1, <1>2, <1>3, <2>1, <2>2, ComputeFrame
    <2>4. x \notin AllMarked
        BY <1>7 DEF AllMarked
    <2>5. Placed' = Placed /\ Origin' = Origin /\ FreeSlot' = FreeSlot
        BY <1>1, <1>5, <2>1, <2>3, <2>4 DEF Placed, Origin, FreeSlot
    <2>6. \A id : Place(id)' = Place(id)
        BY <1>1, <1>5, <2>1, <2>5 DEF Place, ForwardSlot
    <2>7. Places' = Places
        BY <2>5, <2>6 DEF Places
    <2>8. FreeSlot <= ScanSlot'
        BY <1>2, <1>4, <1>6, <2>3
    <2>9. Tiled(Places, Sizes(w, at), 1, FreeSlot)'
        BY <1>1, <1>6, <2>1, <2>5, <2>7
    <2>10. PlacesSound'
        BY <1>1, <1>6, <2>1, <2>5, <2>6, <2>8, <2>9 DEF PlacesSound
    <2> QED
        BY <2>3, <2>10 DEF IInv
<1>8. CASE Marked(w, at[x])
    <2>1. /\ heap' = set_forward_address(heap, Content(heap.begin, at[x]), free_ptr)
          /\ free_ptr' = free_ptr + WordBytes * Size(w, at[x])
        <3>1. Occupied(scan) = WordBytes * Size(w, at[x])
            BY <1>2, <1>4 DEF Occupied, Address, WordBytes
        <3> QED
            BY <1>2, <1>8, <3>1 DEF ComputeLocation, NewPlace
    <2>2. free_ptr \in Int /\ free_ptr % 4 = 0
        BY <1>6 DEF WordBytes
    <2>3. /\ heap' \in Heaps /\ heap.begin' = heap.begin /\ heap.size' = heap.size
          /\ SameObjects(w, v, at) /\ Forward(v, at[x]) = free_ptr
          /\ \A id \in DOMAIN at : id # x => Forward(v, at[id]) = Forward(w, at[id])
          /\ \A id \in DOMAIN at : /\ Marked(v, at[id]) = Marked(w, at[id])
                                   /\ Enqueued(v, at[id]) = Enqueued(w, at[id])
        <3> DEFINE g == set_forward_address(heap, Content(heap.begin, at[x]), free_ptr)
        <3>1. /\ g \in Heaps /\ g.begin = heap.begin /\ g.size = heap.size
              /\ SameObjects(w, g.words, at) /\ Forward(g.words, at[x]) = free_ptr
              /\ \A id \in DOMAIN at : id # x => Forward(g.words, at[id]) = Forward(w, at[id])
              /\ \A id \in DOMAIN at : /\ Marked(g.words, at[id]) = Marked(w, at[id])
                                       /\ Enqueued(g.words, at[id]) = Enqueued(w, at[id])
            BY <1>4, <2>2, ForwardSet
        <3> HIDE DEF g
        <3>2. heap' = g
            BY <2>1 DEF g
        <3> QED
            BY <3>1, <3>2
    <2>4. ObjectsUntouched
        BY <1>1, <2>3 DEF ObjectsUntouched
    <2>5. /\ Typed' /\ ObjectsTile' /\ FieldsSound' /\ StackSound' /\ NativesSound' /\ CallSound'
          /\ FlagsSound' /\ MarkSound' /\ QueueSound' /\ FieldSound'
          /\ ScanSound' /\ RoomSound' /\ MarksWhatIsReachable'
          /\ ScanSlot' = at[x] + Size(w, at[x]) /\ Passed' = Passed \cup {x}
          /\ AllMarked' = AllMarked /\ Sizes(w, at)' = Sizes(w, at) /\ Len(v) = Len(w)
        BY <1>1, <1>2, <1>3, <2>3, <2>4, ComputeFrame
    <2>6. x \in AllMarked /\ x \notin Passed /\ x \notin Placed
        BY <1>1, <1>2, <1>5, <1>8, ScanMoves DEF AllMarked
    <2>7. Placed' = Placed \cup {x} /\ Origin' = Origin
        BY <1>1, <1>5, <2>3, <2>5, <2>6 DEF Placed, Origin
    <2>8. FreeSlot' = FreeSlot + Size(w, at[x])
        <3> DEFINE f == FreeSlot
                   n == Size(w, at[x])
                   o == Origin
        <3>1. FreeSlot' = (free_ptr' - o) \div 4 + 1
            BY <2>7 DEF FreeSlot, WordBytes
        <3>2. free_ptr' = (o + 4 * (f - 1)) + 4 * n /\ o \in Int /\ f \in Int /\ n \in Int
            BY <1>4, <1>6, <2>1 DEF WordBytes
        <3> HIDE DEF f, n, o
        <3>3. FreeSlot' = f + n
            BY <3>1, <3>2
        <3> QED
            BY <3>3 DEF f, n
    <2>9. /\ Place(x)' = FreeSlot
          /\ \A id \in DOMAIN at : id # x => Place(id)' = Place(id)
        <3>1. \A id : Place(id)' = (Forward(v, at[id]) - heap.begin) \div WordBytes + 1
            BY <1>1, <1>5, <2>3, <2>7 DEF Place, ForwardSlot
        <3>2. Place(x)' = FreeSlot
            BY <1>5, <2>3, <3>1 DEF FreeSlot
        <3> QED
            BY <1>5, <2>3, <3>1, <3>2
    <2>10. \A id \in Placed : id \in DOMAIN at /\ id # x /\ Place(id)' = Place(id) /\ at[id] < at[x]
        BY <1>2, <1>5, <2>6, <2>9 DEF Passed
    <2>11. Tiled(Places', Sizes(w, at), 1, FreeSlot + Size(w, at[x]))
        <3>1. /\ DOMAIN Places = Placed /\ DOMAIN Places' = Placed \cup {x}
              /\ Places'[x] = FreeSlot
              /\ \A id \in Placed : Places'[id] = Places[id] /\ Places[id] = Place(id)
            BY <2>7, <2>9, <2>10 DEF Places
        <3>2. /\ Sizes(w, at)[x] = Size(w, at[x]) /\ Sizes(w, at)[x] \in Nat
              /\ \A id \in Placed : Places[id] \in Int /\ Sizes(w, at)[id] \in Nat
            BY <1>4, <1>6, <2>10, <3>1
        <3> DEFINE z == Sizes(w, at)
                   p == Places
                   q == Places'
                   f == FreeSlot
        <3>3. /\ Tiled(p, z, 1, f) /\ x \notin DOMAIN p /\ DOMAIN q = DOMAIN p \cup {x}
              /\ q[x] = f /\ z[x] \in Nat /\ f \in Int
              /\ \A i \in DOMAIN p : q[i] = p[i] /\ p[i] \in Int /\ z[i] \in Nat
            BY <1>6, <2>6, <3>1, <3>2
        <3> HIDE DEF z, p, q, f
        <3> DEFINE top == f + z[x]
        <3>4. top = f + z[x]
            OBVIOUS
        <3> HIDE DEF top
        <3>5. Tiled(q, z, 1, top)
            BY <3>3, <3>4, TiledAppend
        <3> QED
            BY <3>2, <3>5 DEF z, q, f, top
    <2>12. FreeSlot' <= ScanSlot' /\ FreeSlot' <= Len(w) + 1 /\ FreeSlot' \in Nat
        BY <1>2, <1>4, <1>6, <2>5, <2>8
    <2>13. free_ptr' = Origin' + WordBytes * (FreeSlot' - 1)
        <3> DEFINE f == FreeSlot
                   n == Size(w, at[x])
                   o == Origin
        <3>1. FreeSlot' = f + n /\ Origin' = o
            BY <2>7, <2>8
        <3>2. free_ptr' = (o + 4 * (f - 1)) + 4 * n /\ o \in Int /\ f \in Int /\ n \in Int
            BY <1>4, <1>6, <2>1 DEF WordBytes
        <3> HIDE DEF f, n, o
        <3> QED
            BY <3>1, <3>2 DEF WordBytes
    <2>14. \A id \in Placed' : /\ Place(id)' \in Nat /\ Place(id)' <= at[id]
                               /\ Forward(v, at[id]) = Origin' + WordBytes * (Place(id)' - 1)
        BY <1>2, <1>6, <2>3, <2>7, <2>9, <2>10
    <2>15. \A i, j \in Placed' : at[i] < at[j] => Place(i)' < Place(j)'
        <3>1. \A i \in Placed : Place(i) < FreeSlot
            BY <1>4, <1>6, <2>10
        <3>2. \A i \in Placed : at[i] < at[x] /\ ~(at[x] < at[i])
            BY <1>4, <2>10
        <3> QED
            BY <1>4, <1>6, <2>7, <2>9, <2>10, <3>1, <3>2
    <2>16. Tiled(Places, Sizes(w, at), 1, FreeSlot)'
        BY <2>5, <2>8, <2>11
    <2>17. PlacesSound'
        <3> HIDE DEF v, w
        <3> QED
            BY <1>1, <1>6, <2>5, <2>7, <2>12, <2>13, <2>14, <2>15, <2>16 DEF PlacesSound, v, w
    <2> QED
        BY <2>5, <2>17 DEF IInv
<1> QED
    BY <1>7, <1>8

\* The chunk never shrinks and has room for twice what is kept and the request.
LEMMA NextHeapSizeFacts ==
    ASSUME IInv, phase = "compute"
    PROVE  /\ NextHeapSize \in Nat /\ NextHeapSize >= MinimumCapacity /\ NextHeapSize >= heap.size
           /\ NextHeapSize >= 2 * (FreeSlot - 1) + request
<1>1. Typed /\ phase \in Compacting
    BY DEF IInv, Compacting
<1>2. heap.size \in Nat /\ MinimumCapacity \in Nat
    BY <1>1, HeapAssumption DEF Typed
<1>3. request \in Nat
    <2>1. call.header \in Nat /\ request = ObjectWords(call.header)
        BY <1>1 DEF IInv, CallSound, Collecting
    <2> QED
        BY <2>1, HeaderFacts
<1>4. LiveWords = FreeSlot - 1 /\ FreeSlot \in Int
    <2>1. Origin = heap.begin
        BY DEF Origin
    <2>2. Origin \in Nat /\ FreeSlot \in Int /\ free_ptr = Origin + WordBytes * (FreeSlot - 1)
        BY <1>1, PlaceFacts
    <2> DEFINE f == FreeSlot
               o == Origin
    <2>3. o \in Int /\ f \in Int /\ free_ptr = o + 4 * (f - 1) /\ LiveWords = (free_ptr - o) \div 4
        BY <2>1, <2>2 DEF LiveWords, WordBytes
    <2> HIDE DEF f, o
    <2>4. LiveWords = f - 1
        BY <2>3
    <2> QED
        BY <2>2, <2>4 DEF f
<1>5. FreeSlot >= 1
    BY <1>1, PlaceFacts
<1> QED
    BY <1>2, <1>3, <1>4, <1>5 DEF NextHeapSize, Larger, ExtraRoom

\* The chunk grows, and may move: old references stay what they were.
LEMMA RemapKeeps ==
    ASSUME IInv, Remap, UNCHANGED call
    PROVE  IInv'
<1> DEFINE w == heap.words
<1>1. /\ Typed /\ ObjectsTile /\ phase = "compute" /\ phase' = "update" /\ scan >= Current(heap)
      /\ UNCHANGED << stack, mutator, root, search, free_ptr, call, at >>
      /\ Aligned(scan) /\ ScanSlot \in Starts /\ phase \in Compacting
    BY DEF IInv, Remap, ScanSound, Compacting
<1>2. PICK b \in Bases : heap' = [heap EXCEPT !.begin = b, !.size = NextHeapSize] /\ scan' = b
    BY DEF Remap
<1>3. /\ heap \in [begin : Bases, size : Nat, words : Seq(Int)] /\ Len(w) <= heap.size
      /\ heap.size \in Nat
    BY <1>1 DEF Typed
<1>4. /\ heap.begin' = b /\ heap.size' = NextHeapSize /\ heap.words' = w
      /\ old_heap' = [begin |-> heap.begin, current |-> Current(heap)]
      /\ b \in Nat /\ heap.begin \in Nat /\ Len(w) \in Nat
    BY <1>1, <1>2, <1>3, HeapAssumption, TypedFacts DEF Remap
<1>5. ScanSlot = Len(w) + 1 /\ Passed = DOMAIN at
    BY <1>1, ScanEnds
<1>6. /\ NextHeapSize \in Nat /\ NextHeapSize >= MinimumCapacity /\ NextHeapSize >= heap.size
      /\ NextHeapSize >= 2 * (FreeSlot - 1) + request
    BY <1>1, NextHeapSizeFacts
<1>7. Typed'
    <2>1. heap' \in [begin : Bases, size : Nat, words : Seq(Int)]
        BY <1>2, <1>3, <1>6
    <2>2. Objects(heap.words, at)'
        BY <1>1, <1>4 DEF Typed, Objects
    <2>3. Len(w) <= NextHeapSize
        BY <1>3, <1>4, <1>6
    <2> QED
        BY <1>1, <1>4, <1>6, <2>1, <2>2, <2>3 DEF Typed, mutator, Collecting, Compacting
<1>8. AllMarked' = AllMarked /\ Sizes(w, at)' = Sizes(w, at) /\ Starts' = Starts
      /\ \A id \in DOMAIN at : FieldSlots(heap.words', at'[id]) = FieldSlots(w, at[id])
    BY <1>1, <1>4 DEF AllMarked, Sizes, Size, Starts
<1>9. ObjectsTile'
    <2>1. Tiled(at, Sizes(w, at), 1, Len(w) + 1)
        BY <1>1 DEF ObjectsTile
    <2> QED
        BY <1>1, <1>4, <1>8, <2>1 DEF ObjectsTile
<1>10. Origin = heap.begin /\ Origin' = heap.begin /\ FreeSlot' = FreeSlot
    BY <1>1, <1>4 DEF Origin, FreeSlot
<1>11. ScanSlot' = 1 /\ Aligned(scan)' /\ Passed' = {}
    <2>1. scan' = b /\ ScanSlot' = 1
        BY <1>2, <1>4 DEF ScanSlot, Slot, WordBytes
    <2>2. Aligned(scan)'
        BY <1>4, <2>1 DEF Aligned, ScanSlot, Address, WordBytes
    <2>3. \A id \in DOMAIN at : ~(at[id] < 1)
        BY <1>1, LayoutFacts
    <2> QED
        BY <1>1, <2>1, <2>2, <2>3 DEF Passed
<1>12. Kept = AllMarked /\ Kept' = AllMarked /\ AllMarked \subseteq DOMAIN at
    BY <1>1, <1>8 DEF Kept, AllMarked
<1>13. \A id, owner : /\ RootWord(id)' = RootWord(id) /\ FieldWord(id, owner)' = RootWord(id)
                      /\ FieldWord(id, owner) = RootWord(id)
    BY <1>1, <1>4, <1>11 DEF RootWord, FieldWord
<1>14. FieldsSound'
    <2>1. \A id \in AllMarked : \A k \in FieldSlots(w, at[id]) :
              UNBOXED(w[k]) \/ \E j \in AllMarked : w[k] = RootWord(j)
        BY <1>1, <1>12, <1>13 DEF IInv, FieldsSound, Running
    <2> QED
        BY <1>4, <1>8, <1>12, <1>13, <2>1 DEF FieldsSound
<1>15. StackSound' /\ NativesSound'
    <2>1. \A x : Sound(x)' <=> Sound(x)
        BY <1>12, <1>13 DEF Sound
    <2>2. \A v, header : Argument(v, header)' <=> Argument(v, header)
        BY <1>1 DEF Argument
    <2>3. \A i \in DOMAIN stack : Sound(stack[i])
        BY <1>1 DEF IInv, StackSound, Running
    <2>4. StackSound'
        BY <1>1, <2>1, <2>3 DEF StackSound
    <2>5. \A v \in Range(extra_roots) :
              \/ call.op \notin NeedsObjects /\ (UNBOXED(native[v]) \/ (call.op = "string" /\ native[v] = Outside))
              \/ \E id \in AllMarked : native[v] = RootWord(id) /\ Argument(v, w[at[id]])
        BY <1>1, <1>12 DEF IInv, NativesSound, Running
    <2>6. NativesSound'
        BY <1>1, <1>4, <1>12, <1>13, <2>2, <2>5 DEF NativesSound, mutator
    <2> QED
        BY <2>4, <2>6
<1>16. CallSound'
    <2>1. Popped' = Popped
        BY <1>1 DEF Popped, FieldCount
    <2> QED
        BY <2>1, <1>1 DEF CallSound, IInv, Collecting, Marking, Compacting, mutator
<1>17. FlagsSound' /\ MarkSound' /\ QueueSound' /\ FieldSound' /\ MarksWhatIsReachable'
    BY <1>1, <1>4 DEF IInv, FlagsSound, MarkSound, QueueSound, FieldSound, MarksWhatIsReachable, Marking, search
<1>18. ScanSound'
    <2>1. 1 \in Starts
        BY <1>1, LayoutFacts
    <2> QED
        BY <1>1, <1>8, <1>11, <2>1 DEF ScanSound
<1>19. /\ Placed = AllMarked /\ Placed' = AllMarked
       /\ \A id : Place(id)' = Place(id)
    <2>1. Placed = AllMarked /\ Placed' = AllMarked
        BY <1>1, <1>5, <1>8, <1>12 DEF Placed
    <2> QED
        BY <1>1, <1>4, <1>10, <2>1 DEF Place, ForwardSlot
<1>20. PlacesSound'
    <2>1. PlacesSound
        BY DEF IInv
    <2>2. Places' = Places
        BY <1>19 DEF Places
    <2>3. Tiled(Places, Sizes(w, at), 1, FreeSlot)'
        BY <1>1, <1>8, <1>10, <2>1, <2>2 DEF PlacesSound
    <2>4. \A id \in AllMarked : Forward(heap.words, at[id])' = Forward(w, at[id])
        BY <1>1, <1>4
    <2>5. /\ Origin \in Bases /\ FreeSlot \in Nat
          /\ free_ptr = Origin + WordBytes * (FreeSlot - 1)
          /\ \A id \in AllMarked : /\ Place(id) \in Nat /\ Place(id) <= at[id]
                                   /\ Forward(w, at[id]) = Origin + WordBytes * (Place(id) - 1)
          /\ \A i, j \in AllMarked : at[i] < at[j] => Place(i) < Place(j)
          /\ FreeSlot <= Len(w) + 1
        BY <1>1, <1>19, <2>1 DEF PlacesSound
    <2>6. Origin' = Origin /\ at' = at /\ free_ptr' = free_ptr /\ phase' # "compute"
        BY <1>1, <1>10
    <2> HIDE DEF w
    <2> QED
        BY <1>4, <1>10, <1>19, <2>3, <2>4, <2>5, <2>6 DEF PlacesSound, w
<1>21. RoomSound'
    <2>1. request' = request
        BY <1>1 DEF mutator
    <2> QED
        BY <1>1, <1>4, <1>6, <1>10, <2>1 DEF RoomSound, Current
<1> QED
    BY <1>7, <1>9, <1>14, <1>15, <1>16, <1>17, <1>18, <1>20, <1>21 DEF IInv

-----------------------------------------------------------------------------
(* References are updated                                                  *)

\* update_references on what a word of the program can be.
LEMMA FixedFacts ==
    ASSUME IInv, phase = "update"
    PROVE  /\ \A w \in Int : UNBOXED(w) => Fixed(w) = w
           /\ Fixed(Outside) = Outside
           /\ \A j \in AllMarked : Fixed(RootWord(j)) = Content(heap.begin, Place(j))
           /\ \A j \in AllMarked : Content(heap.begin, Place(j)) \in Int
<1>1. Typed /\ RoomSound /\ phase \in Compacting /\ Placed = AllMarked
    BY DEF IInv, Compacting, Placed
<1>2. Origin = old_heap.begin /\ old_heap.begin \in Nat /\ old_heap.begin % 4 = 0
      /\ old_heap.begin > Outside
      /\ old_heap.current = old_heap.begin + WordBytes * Len(heap.words)
    <2>1. Origin = old_heap.begin
        BY DEF Origin
    <2>2. Origin \in Bases
        BY <1>1, PlaceFacts
    <2> QED
        BY <1>1, <2>1, <2>2, HeapAssumption DEF RoomSound, WordBytes
<1>3. heap.begin \in Nat /\ Len(heap.words) \in Nat
    BY <1>1, TypedFacts
<1>4. \A w \in Int : UNBOXED(w) => Fixed(w) = w
    BY DEF Fixed, InOldHeap
<1>5. Fixed(Outside) = Outside
    BY <1>2 DEF Fixed, InOldHeap, Outside, WordBytes
<1>6. ASSUME NEW j \in AllMarked
      PROVE  /\ Fixed(RootWord(j)) = Content(heap.begin, Place(j))
             /\ Content(heap.begin, Place(j)) \in Int
    <2> DEFINE o == old_heap.begin
               b == heap.begin
               s == at[j]
               t == Place(j)
               n == Len(heap.words)
    <2>1. /\ s \in Nat /\ s >= 1 /\ s < n /\ t \in Nat
          /\ Forward(heap.words, s) = o + 4 * (t - 1)
        <3>1. j \in DOMAIN at
            BY DEF AllMarked
        <3>2. Place(j) \in Nat /\ Forward(heap.words, at[j]) = Origin + WordBytes * (Place(j) - 1)
            BY <1>1, PlaceFacts
        <3> QED
            BY <1>1, <1>2, <3>1, <3>2, TypedFacts, SizeFacts DEF WordBytes
    <2>2. RootWord(j) = Content(o, s)
        BY DEF RootWord
    <2>3. get_forward_address(heap, Content(b, s)) = Forward(heap.words, s)
        <3>1. j \in DOMAIN at
            BY DEF AllMarked
        <3>2. Begins(j) = Content(b, s) /\ get_forward_address(heap, Begins(j)) = Forward(heap.words, s)
            BY <1>1, <3>1, TypedFacts, AtObject
        <3> HIDE DEF b, s
        <3> QED
            BY <3>2
    <2> HIDE DEF s, t
    <2>4. InOldHeap(Content(o, s))
        <3> HIDE DEF o, n
        <3>1. o \in Nat /\ o % 4 = 0 /\ n \in Nat /\ old_heap.begin = o /\ old_heap.current = o + 4 * n
            BY <1>2, <1>3 DEF o, n, WordBytes
        <3>2. (o + 4 * (s + 1)) % 2 # 1 /\ o <= o + 4 * (s + 1) /\ o + 4 * (s + 1) <= o + 4 * n
            BY <2>1, <3>1
        <3> QED
            BY <3>1, <3>2 DEF InOldHeap, Content, UNBOXED, WordBytes
    <2>5. Relative(Content(o, s)) = Content(b, s)
        BY <1>2, <1>3, <2>1 DEF Relative, Content, WordBytes
    <2>6. Relative(o + 4 * (t - 1)) + HeaderBytes = Content(b, t)
        BY <1>2, <1>3, <2>1 DEF Relative, Content, HeaderBytes, HeaderWords, WordBytes
    <2>7. Content(b, t) \in Int
        BY <1>3, <2>1 DEF Content, WordBytes
    <2> HIDE DEF o, b
    <2>8. Fixed(Content(o, s)) = Content(b, t)
        BY <2>1, <2>3, <2>4, <2>5, <2>6 DEF Fixed, Forwarded
    <2> QED
        BY <2>2, <2>7, <2>8 DEF b, t
<1> QED
    BY <1>4, <1>5, <1>6

\* A write to words of object x, neither its header nor its forward word.
LEMMA ContentWrite ==
    ASSUME NEW w, NEW v \in Seq(Int), NEW a, Objects(w, a), Tiled(a, Sizes(w, a), 1, Len(w) + 1),
           NEW x \in DOMAIN a, Len(v) = Len(w),
           \A k \in 1 .. Len(w) : k \notin a[x] + 2 .. a[x] + Size(w, a[x]) - 1 => v[k] = w[k]
    PROVE  /\ Objects(v, a) /\ Sizes(v, a) = Sizes(w, a)
           /\ \A id \in DOMAIN a :
                 /\ v[a[id]] = w[a[id]] /\ v[a[id] + 1] = w[a[id] + 1]
                 /\ Size(v, a[id]) = Size(w, a[id])
                 /\ FieldSlots(v, a[id]) = FieldSlots(w, a[id])
                 /\ id # x => \A k \in FieldSlots(w, a[id]) : v[k] = w[k]
<1>1. ASSUME NEW id \in DOMAIN a
      PROVE  /\ v[a[id]] = w[a[id]] /\ v[a[id] + 1] = w[a[id] + 1]
             /\ id # x => \A k \in FieldSlots(w, a[id]) : v[k] = w[k]
    <2> DEFINE n == Size(w, a[id])
               m == Size(w, a[x])
               l == Len(w)
    <2>1. /\ a[id] \in Nat /\ a[id] >= 1 /\ a[id] < l /\ n \in Nat /\ n >= 2 /\ a[id] + n <= l + 1
          /\ a[x] \in Nat /\ m \in Nat /\ m >= 2 /\ l \in Nat
          /\ id # x => a[id] + n <= a[x] \/ a[x] + m <= a[id]
          /\ FieldSlots(w, a[id]) \subseteq a[id] + 2 .. a[id] + n - 1
        BY SizeFacts, ObjectsApart
    <2>2. \A k \in 1 .. l : k \notin a[x] + 2 .. a[x] + m - 1 => v[k] = w[k]
        OBVIOUS
    <2> HIDE DEF n, m, l
    <2>3. a[id] \in 1 .. l /\ a[id] + 1 \in 1 .. l
        BY <2>1
    <2>4. a[id] \notin a[x] + 2 .. a[x] + m - 1 /\ a[id] + 1 \notin a[x] + 2 .. a[x] + m - 1
        <3>1. CASE id = x
            BY <2>1, <3>1
        <3>2. CASE id # x /\ a[id] + n <= a[x]
            BY <2>1, <3>2
        <3>3. CASE id # x /\ a[x] + m <= a[id]
            BY <2>1, <3>3
        <3> QED
            BY <2>1, <3>1, <3>2, <3>3
    <2>5. ASSUME id # x, NEW k \in a[id] + 2 .. a[id] + n - 1
          PROVE  k \in 1 .. l /\ k \notin a[x] + 2 .. a[x] + m - 1
        BY <2>1, <2>5
    <2> QED
        BY <2>1, <2>2, <2>3, <2>4, <2>5
<1>2. \A id \in DOMAIN a : Size(v, a[id]) = Size(w, a[id]) /\ FieldSlots(v, a[id]) = FieldSlots(w, a[id])
    BY <1>1 DEF Size, FieldSlots
<1>3. Objects(v, a) /\ Sizes(v, a) = Sizes(w, a)
    BY <1>1, <1>2 DEF Objects, Sizes
<1> QED
    BY <1>1, <1>2, <1>3

\* update_references, one object: from here on its fields hold new addresses.
LEMMA UpdateReferencesKeeps ==
    ASSUME IInv, UpdateReferences, UNCHANGED call
    PROVE  IInv'
<1> DEFINE w == heap.words
           v == heap.words'
<1>1. /\ Typed /\ ObjectsTile /\ phase = "update" /\ phase' = "update" /\ scan < Current(heap)
      /\ UNCHANGED << stack, mutator, root, search, free_ptr, old_heap, call, at >>
      /\ Aligned(scan) /\ ScanSlot \in Starts /\ phase \in Compacting
    BY DEF IInv, UpdateReferences, ScanSound, Compacting
<1>2. PICK x \in DOMAIN at :
              /\ at[x] = ScanSlot /\ scan = Address(heap, at[x])
              /\ get_object_content_ptr(scan) = Content(heap.begin, at[x])
              /\ NextObject(heap, scan) = Address(heap, at[x] + Size(w, at[x]))
              /\ is_marked(heap, get_object_content_ptr(scan)) = Marked(w, at[x])
    BY <1>1, ScanObject
<1>3. /\ heap \in Heaps /\ heap.begin \in Nat /\ Objects(w, at) /\ Tiled(at, Sizes(w, at), 1, Len(w) + 1)
      /\ \A id \in DOMAIN at : /\ at[id] \in Nat /\ at[id] >= 1 /\ at[id] < Len(w)
                               /\ Size(w, at[id]) \in Nat /\ Size(w, at[id]) >= 2
                               /\ at[id] + Size(w, at[id]) <= Len(w) + 1
                               /\ FieldSlots(w, at[id]) \subseteq at[id] + 2 .. at[id] + Size(w, at[id]) - 1
      /\ Len(w) \in Nat /\ at[x] + Size(w, at[x]) \in Starts
      /\ w \in Seq(Int)
    BY <1>1, LayoutFacts, TypedFacts
<1>4. /\ x \notin Passed
      /\ \A id \in DOMAIN at : at[id] < at[x] + Size(w, at[x]) <=> id \in Passed \/ id = x
    BY <1>1, <1>2, ScanMoves
<1>5. /\ Kept = AllMarked /\ AllMarked \subseteq DOMAIN at /\ Placed = AllMarked
      /\ Origin = old_heap.begin
      /\ \A id : Place(id) = (Forward(w, at[id]) - old_heap.begin) \div WordBytes + 1
    BY <1>1 DEF Kept, AllMarked, Placed, Origin, Place, ForwardSlot
<1>6. \A id \in AllMarked : \A k \in FieldSlots(w, at[id]) :
          UNBOXED(w[k]) \/ \E j \in AllMarked : w[k] = FieldWord(j, id)
    BY <1>1, <1>5 DEF IInv, FieldsSound, Running
<1>7. /\ heap' \in [begin : Bases, size : Nat, words : Seq(Int)]
      /\ heap.begin' = heap.begin /\ heap.size' = heap.size
      /\ Objects(v, at) /\ Sizes(v, at) = Sizes(w, at) /\ Len(v) = Len(w)
      /\ \A id \in DOMAIN at : /\ v[at[id]] = w[at[id]] /\ v[at[id] + 1] = w[at[id] + 1]
                               /\ Size(v, at[id]) = Size(w, at[id])
                               /\ FieldSlots(v, at[id]) = FieldSlots(w, at[id])
                               /\ id # x => \A k \in FieldSlots(w, at[id]) : v[k] = w[k]
      /\ x \in AllMarked => \A k \in FieldSlots(w, at[x]) : v[k] = Fixed(w[k])
    <2>0. heap \in [begin : Bases, size : Nat, words : Seq(Int)]
        BY <1>1 DEF Typed
    <2>1. CASE ~Marked(w, at[x])
        <3>1. heap' = heap
            BY <1>2, <2>1 DEF UpdateReferences
        <3>2. x \notin AllMarked
            BY <2>1 DEF AllMarked
        <3> QED
            BY <1>3, <2>0, <3>1, <3>2
    <2>2. CASE Marked(w, at[x])
        <3> DEFINE fixed == [i \in DOMAIN w |-> IF i \in FieldSlots(w, at[x]) THEN Fixed(w[i]) ELSE w[i]]
        <3>1. Fields(heap, Content(heap.begin, at[x])) = {Address(heap, k) : k \in FieldSlots(w, at[x])}
            <4>1. Fields(heap, Begins(x)) = {Address(heap, k) : k \in FieldSlots(w, at[x])}
                BY <1>1, AtObject
            <4>2. Begins(x) = Content(heap.begin, at[x])
                BY <1>1, TypedFacts
            <4> QED
                BY <4>1, <4>2
        <3>2. \A i \in DOMAIN w : Address(heap, i) \in Fields(heap, Content(heap.begin, at[x]))
                                      <=> i \in FieldSlots(w, at[x])
            <4>1. \A i \in Int : Slot(heap, Address(heap, i)) = i
                BY <1>3, SlotFacts
            <4>2. DOMAIN w \subseteq Int /\ FieldSlots(w, at[x]) \subseteq Int
                BY <1>3
            <4> QED
                BY <3>1, <4>1, <4>2
        <3>3. heap' = [heap EXCEPT !.words = fixed]
            <4> DEFINE g == [i \in DOMAIN w |->
                                IF Address(heap, i) \in Fields(heap, Content(heap.begin, at[x]))
                                THEN Fixed(w[i]) ELSE w[i]]
            <4>1. heap' = [heap EXCEPT !.words = g]
                BY <1>2, <2>2 DEF UpdateReferences
            <4>2. g = fixed
                BY <3>2
            <4> HIDE DEF g, fixed
            <4> QED
                BY <4>1, <4>2
        <3>4. x \in AllMarked
            BY <2>2 DEF AllMarked
        <3>5. \A k \in FieldSlots(w, at[x]) : k \in 1 .. Len(w) /\ Fixed(w[k]) \in Int
            <4> SUFFICES ASSUME NEW k \in FieldSlots(w, at[x])
                         PROVE  k \in 1 .. Len(w) /\ Fixed(w[k]) \in Int
                OBVIOUS
            <4>1. k \in 1 .. Len(w)
                <5>1. k \in at[x] + 2 .. at[x] + Size(w, at[x]) - 1
                    BY <1>3
                <5>2. at[x] \in Nat /\ Size(w, at[x]) \in Nat /\ at[x] + Size(w, at[x]) <= Len(w) + 1 /\ Len(w) \in Nat
                    BY <1>3
                <5> QED
                    BY <5>1, <5>2
            <4>2. w[k] \in Int
                BY <1>3, <4>1
            <4>3. CASE UNBOXED(w[k])
                BY <1>1, <4>1, <4>2, <4>3, FixedFacts
            <4>4. CASE \E j \in AllMarked : w[k] = FieldWord(j, x)
                <5>1. PICK j \in AllMarked : w[k] = RootWord(j)
                    BY <1>4, <4>4 DEF FieldWord
                <5> QED
                    BY <1>1, <4>1, <5>1, FixedFacts
            <4> QED
                BY <1>6, <3>4, <4>3, <4>4
        <3>6. fixed \in Seq(Int) /\ Len(fixed) = Len(w)
            <4>1. DOMAIN w = 1 .. Len(w) /\ \A i \in 1 .. Len(w) : w[i] \in Int
                BY <1>3
            <4>2. \A i \in 1 .. Len(w) : fixed[i] \in Int
                BY <3>5, <4>1
            <4>3. fixed \in [1 .. Len(w) -> Int]
                BY <4>1, <4>2
            <4>4. Len(w) \in Nat
                BY <1>3
            <4> DEFINE n == Len(w)
            <4> HIDE DEF fixed, n
            <4>5. fixed \in Seq(Int) /\ Len(fixed) = n
                BY <4>3, <4>4 DEF n
            <4> QED
                BY <4>5 DEF n
        <3>7. /\ \A k \in 1 .. Len(w) : k \notin at[x] + 2 .. at[x] + Size(w, at[x]) - 1 => fixed[k] = w[k]
              /\ \A k \in FieldSlots(w, at[x]) : fixed[k] = Fixed(w[k])
            <4>1. DOMAIN w = 1 .. Len(w) /\ FieldSlots(w, at[x]) \subseteq at[x] + 2 .. at[x] + Size(w, at[x]) - 1
                BY <1>3
            <4> QED
                BY <3>5, <4>1
        <3>8. v = fixed /\ heap.begin' = heap.begin /\ heap.size' = heap.size
              /\ heap' \in [begin : Bases, size : Nat, words : Seq(Int)]
            <4> HIDE DEF fixed
            <4> QED
                BY <2>0, <3>3, <3>6
        <3> HIDE DEF fixed, v, w
        <3>9. /\ Objects(fixed, at) /\ Sizes(fixed, at) = Sizes(w, at)
              /\ \A id \in DOMAIN at :
                     /\ fixed[at[id]] = w[at[id]] /\ fixed[at[id] + 1] = w[at[id] + 1]
                     /\ Size(fixed, at[id]) = Size(w, at[id])
                     /\ FieldSlots(fixed, at[id]) = FieldSlots(w, at[id])
                     /\ id # x => \A k \in FieldSlots(w, at[id]) : fixed[k] = w[k]
            <4>1. Objects(w, at) /\ Tiled(at, Sizes(w, at), 1, Len(w) + 1) /\ x \in DOMAIN at
                BY <1>3
            <4> QED
                BY <4>1, <3>6, <3>7, ContentWrite
        <3> QED
            BY <3>6, <3>7, <3>8, <3>9
    <2> QED
        BY <2>1, <2>2
<1>8. at' = at /\ AllMarked' = AllMarked /\ Kept' = AllMarked /\ Placed' = AllMarked /\ Starts' = Starts
      /\ Origin' = Origin /\ FreeSlot' = FreeSlot /\ Sizes(w, at)' = Sizes(w, at)
    <2>1. at' = at /\ AllMarked' = AllMarked
        BY <1>1, <1>7 DEF AllMarked, Marked
    <2>2. Sizes(w, at)' = Sizes(v, at)
        BY <2>1 DEF Sizes, Size
    <2> QED
        BY <1>1, <1>7, <2>1, <2>2 DEF Kept, Placed, Starts, Origin, FreeSlot
<1>9. \A id \in DOMAIN at : /\ Forward(w, at[id])' = Forward(w, at[id])
                            /\ Enqueued(w, at[id])' = Enqueued(w, at[id])
    BY <1>7, <1>8 DEF Forward, Enqueued
<1>10. \A id \in AllMarked : Place(id)' = Place(id) /\ RootWord(id)' = RootWord(id)
    BY <1>1, <1>5, <1>8, <1>9 DEF Place, ForwardSlot, RootWord
<1>11. scan' = Address(heap, at[x] + Size(w, at[x]))
    BY <1>2 DEF UpdateReferences
<1>12. ScanSlot' = at[x] + Size(w, at[x]) /\ Aligned(scan)'
    <2> DEFINE n == at[x] + Size(w, at[x])
    <2>1. n \in Int /\ heap.begin \in Int /\ heap.begin' = heap.begin
        <3>1. at[x] \in Nat /\ Size(w, at[x]) \in Nat /\ heap.begin \in Nat
            BY <1>3
        <3>2. heap.begin' = heap.begin
            BY <1>7
        <3> QED
            BY <3>1, <3>2
    <2> HIDE DEF n
    <2>2. Slot(heap', Address(heap, n)) = n /\ Address(heap', n) = Address(heap, n)
        BY <2>1, SameBegin
    <2> QED
        BY <1>11, <2>2 DEF ScanSlot, Aligned, n
<1>13. Passed' = Passed \cup {x}
    BY <1>4, <1>8, <1>12 DEF Passed
<1>14. Typed'
    <2>1. Objects(heap.words, at)'
        BY <1>7, <1>8 DEF Objects
    <2>2. /\ heap.size >= MinimumCapacity /\ Len(w) <= heap.size
          /\ born \in Nat /\ born <= MaxObjects /\ DOMAIN at \subseteq 1 .. born
          /\ stack \in Seq(Int) /\ native \in Seq(Int) /\ extra_roots \in Seq(DOMAIN native)
        BY <1>1 DEF Typed
    <2>3. UNCHANGED << born, stack, native, extra_roots >> /\ phase' \in Collecting
        BY <1>1 DEF mutator, Collecting
    <2> HIDE DEF w, v
    <2> QED
        BY <1>7, <1>8, <2>1, <2>2, <2>3 DEF Typed, w, v
<1>15. ObjectsTile'
    BY <1>3, <1>7, <1>8 DEF ObjectsTile
<1>16. FieldsSound'
    <2> SUFFICES ASSUME NEW id \in AllMarked, NEW k \in FieldSlots(w, at[id])
                 PROVE  UNBOXED(v[k]) \/ \E j \in AllMarked : v[k] = FieldWord(j, id)'
        BY <1>5, <1>7, <1>8 DEF FieldsSound
    <2>1. UNBOXED(w[k]) \/ \E j \in AllMarked : w[k] = FieldWord(j, id)
        BY <1>6
    <2>2. CASE id = x
        <3>1. v[k] = Fixed(w[k]) /\ w[k] \in Int
            <4>1. k \in 1 .. Len(w)
                <5>1. k \in at[x] + 2 .. at[x] + Size(w, at[x]) - 1
                    BY <1>3, <2>2
                <5>2. at[x] \in Nat /\ Size(w, at[x]) \in Nat /\ at[x] + Size(w, at[x]) <= Len(w) + 1 /\ Len(w) \in Nat
                    BY <1>3
                <5> QED
                    BY <5>1, <5>2
            <4>2. w[k] \in Int
                <5>1. w \in Seq(Int)
                    BY <1>3
                <5> HIDE DEF w
                <5> QED
                    BY <5>1, <4>1
            <4>3. v[k] = Fixed(w[k])
                BY <1>7, <2>2
            <4> QED
                BY <4>2, <4>3
        <3>2. CASE UNBOXED(w[k])
            BY <1>1, <3>1, <3>2, FixedFacts
        <3>3. CASE \E j \in AllMarked : w[k] = FieldWord(j, id)
            <4>1. PICK j \in AllMarked : w[k] = RootWord(j)
                BY <1>4, <2>2, <3>3 DEF FieldWord
            <4>2. v[k] = Content(heap.begin, Place(j))
                BY <1>1, <3>1, <4>1, FixedFacts
            <4>3. FieldWord(j, id)' = Content(heap.begin, Place(j))
                BY <1>1, <1>7, <1>10, <1>13, <2>2 DEF FieldWord
            <4> QED
                BY <4>2, <4>3
        <3> QED
            BY <2>1, <3>2, <3>3
    <2>3. CASE id # x
        <3>1. v[k] = w[k]
            BY <1>5, <1>7, <2>3
        <3>2. \A j \in AllMarked : FieldWord(j, id)' = FieldWord(j, id)
            BY <1>1, <1>7, <1>10, <1>13, <2>3 DEF FieldWord
        <3> QED
            BY <2>1, <3>1, <3>2
    <2> QED
        BY <2>2, <2>3
<1>17. StackSound' /\ NativesSound'
    <2>1. \A y : Sound(y)' <=> Sound(y)
        BY <1>5, <1>8, <1>10 DEF Sound
    <2>2. \A u, header : Argument(u, header)' <=> Argument(u, header)
        BY <1>1 DEF Argument
    <2>3. \A i \in DOMAIN stack : Sound(stack[i])
        BY <1>1 DEF IInv, StackSound, Running
    <2>4. StackSound'
        BY <1>1, <2>1, <2>3 DEF StackSound
    <2>5. \A u \in Range(extra_roots) :
              \/ call.op \notin NeedsObjects /\ (UNBOXED(native[u]) \/ (call.op = "string" /\ native[u] = Outside))
              \/ \E id \in AllMarked : native[u] = RootWord(id) /\ Argument(u, w[at[id]])
        BY <1>1, <1>5 DEF IInv, NativesSound, Running
    <2>6. \A u \in Range(extra_roots) :
              \/ call.op \notin NeedsObjects /\ (UNBOXED(native[u]) \/ (call.op = "string" /\ native[u] = Outside))
              \/ \E id \in AllMarked : native[u] = RootWord(id)' /\ Argument(u, w[at[id]])'
        <3> DEFINE r == Range(extra_roots)
        <3>1. \A id \in AllMarked : v[at[id]] = w[at[id]] /\ RootWord(id)' = RootWord(id)
            BY <1>5, <1>7, <1>10
        <3>2. \A u : \A id \in AllMarked : Argument(u, w[at[id]]) => Argument(u, w[at[id]])'
            <4> SUFFICES ASSUME NEW u, NEW id \in AllMarked, Argument(u, w[at[id]])
                         PROVE  Argument(u, w[at[id]])'
                OBVIOUS
            <4>1. (w[at[id]])' = w[at[id]] /\ call' = call
                BY <1>1, <1>8, <3>1
            <4> QED
                BY <4>1 DEF Argument
        <3> HIDE DEF r
        <3> QED
            BY <2>5, <3>1, <3>2 DEF r
    <2>7. NativesSound'
        <3>1. native' = native /\ extra_roots' = extra_roots /\ call' = call /\ Kept' = AllMarked
            BY <1>1, <1>8 DEF mutator
        <3> QED
            BY <3>1, <1>8, <2>6 DEF NativesSound
    <2> QED
        BY <2>4, <2>7
<1>18. CallSound'
    <2>1. Popped' = Popped
        BY <1>1 DEF Popped, FieldCount
    <2> QED
        BY <2>1, <1>1 DEF CallSound, IInv, Collecting, Marking, Compacting, mutator
<1>19. FlagsSound' /\ MarkSound' /\ QueueSound' /\ FieldSound' /\ MarksWhatIsReachable'
    <2>1. FlagsSound'
        BY <1>1, <1>8, <1>9 DEF IInv, FlagsSound
    <2> QED
        BY <1>1, <2>1 DEF IInv, MarkSound, QueueSound, FieldSound, MarksWhatIsReachable, Marking, search
<1>20. ScanSound'
    BY <1>1, <1>3, <1>8, <1>12 DEF ScanSound
<1>21. PlacesSound'
    <2>1. PlacesSound
        BY DEF IInv
    <2>2. Places' = Places
        BY <1>5, <1>8, <1>10 DEF Places
    <2>3. Tiled(Places, Sizes(w, at), 1, FreeSlot)'
        BY <1>1, <1>8, <2>1, <2>2 DEF PlacesSound
    <2>4. \A id \in AllMarked : Forward(w, at[id])' = Forward(w, at[id])
        BY <1>5, <1>9
    <2>5. /\ Origin \in Bases /\ FreeSlot \in Nat
          /\ free_ptr = Origin + WordBytes * (FreeSlot - 1)
          /\ \A id \in AllMarked : /\ Place(id) \in Nat /\ Place(id) <= at[id]
                                   /\ Forward(w, at[id]) = Origin + WordBytes * (Place(id) - 1)
          /\ \A i, j \in AllMarked : at[i] < at[j] => Place(i) < Place(j)
          /\ FreeSlot <= Len(w) + 1
        BY <1>1, <1>5, <2>1 DEF PlacesSound
    <2>6. free_ptr' = free_ptr /\ phase' # "compute" /\ Len(v) = Len(w)
        BY <1>1, <1>7
    <2> HIDE DEF w, v
    <2> QED
        BY <1>8, <1>10, <2>3, <2>4, <2>5, <2>6 DEF PlacesSound, w, v
<1>22. RoomSound'
    <2>1. request' = request
        BY <1>1 DEF mutator
    <2> QED
        BY <1>1, <1>7, <1>8, <2>1 DEF IInv, RoomSound
<1> QED
    BY <1>14, <1>15, <1>16, <1>17, <1>18, <1>19, <1>20, <1>21, <1>22 DEF IInv

\* The roots hold new addresses too.
LEMMA FixRootsKeeps ==
    ASSUME IInv, FixRoots, UNCHANGED call
    PROVE  IInv'
<1> DEFINE w == heap.words
           fixed(s) == [i \in DOMAIN s |-> Fixed(s[i])]
<1>1. /\ Typed /\ ObjectsTile /\ phase = "update" /\ phase' = "relocate" /\ scan >= Current(heap)
      /\ UNCHANGED << heap, extra_roots, request, born, root, search, free_ptr, old_heap, call, at >>
      /\ Aligned(scan) /\ ScanSlot \in Starts /\ phase \in Compacting /\ scan' = heap.begin
    BY DEF IInv, FixRoots, ScanSound, Compacting
<1>2. ScanSlot = Len(w) + 1 /\ Passed = DOMAIN at
    BY <1>1, ScanEnds
<1>3. /\ Kept = AllMarked /\ AllMarked \subseteq DOMAIN at /\ Placed = AllMarked
      /\ Origin = old_heap.begin
      /\ \A id : Place(id) = (Forward(w, at[id]) - old_heap.begin) \div WordBytes + 1
    BY <1>1 DEF Kept, AllMarked, Placed, Origin, Place, ForwardSlot
<1>4. /\ heap.begin \in Nat /\ Len(w) \in Nat /\ Tiled(at, Sizes(w, at), 1, Len(w) + 1)
      /\ \A id \in DOMAIN at : at[id] \in Nat /\ at[id] >= 1
      /\ at \in [DOMAIN at -> Nat \ {0}] /\ 1 \in Starts
    BY <1>1, LayoutFacts DEF Objects
<1>5. ScanSlot' = 1 /\ Aligned(scan)' /\ Passed' = {}
    <2>1. ScanSlot' = 1
        BY <1>1, <1>4 DEF ScanSlot, Slot, WordBytes
    <2>2. Aligned(scan)'
        BY <1>1, <1>4, <2>1 DEF Aligned, ScanSlot, Address, WordBytes
    <2>3. \A id \in DOMAIN at : ~(at[id] < 1)
        BY <1>4
    <2> QED
        BY <1>1, <2>1, <2>2, <2>3 DEF Passed
<1>6. /\ AllMarked' = AllMarked /\ Kept' = AllMarked /\ Placed' = AllMarked /\ Starts' = Starts
      /\ Origin' = Origin /\ FreeSlot' = FreeSlot /\ Sizes(w, at)' = Sizes(w, at)
      /\ \A id : Place(id)' = Place(id)
    <2>1. AllMarked' = AllMarked
        BY <1>1 DEF AllMarked
    <2>2. Origin' = Origin
        BY <1>1 DEF Origin
    <2> QED
        BY <1>1, <1>3, <1>5, <2>1, <2>2 DEF Kept, Placed, Starts, FreeSlot, Sizes, Place, ForwardSlot
<1>7. \A id, owner : /\ RootWord(id)' = Content(heap.begin, Place(id))
                     /\ FieldWord(id, owner)' = Content(heap.begin, Place(id))
    BY <1>1, <1>6 DEF RootWord, FieldWord
<1>8. \A y \in Int : \A z : Sound(y) /\ z = Fixed(y) => z \in Int /\ Sound(z)'
    <2>a. \A z : (UNBOXED(z) \/ \E id \in AllMarked : z = RootWord(id)') => Sound(z)'
        BY <1>6 DEF Sound
    <2> SUFFICES ASSUME NEW y \in Int, Sound(y)
                 PROVE  Fixed(y) \in Int /\ (UNBOXED(Fixed(y)) \/ \E id \in AllMarked : Fixed(y) = RootWord(id)')
        BY <2>a
    <2>1. CASE UNBOXED(y)
        BY <1>1, <2>1, FixedFacts
    <2>2. CASE \E id \in AllMarked : y = RootWord(id)
        <3>1. PICK id \in AllMarked : y = RootWord(id)
            BY <2>2
        <3>2. Fixed(y) = Content(heap.begin, Place(id)) /\ Content(heap.begin, Place(id)) \in Int
            BY <1>1, <3>1, FixedFacts
        <3> QED
            BY <1>7, <3>2
    <2> QED
        BY <1>3, <2>1, <2>2 DEF Sound
<1>9. \A i \in DOMAIN stack : Sound(stack[i]) /\ stack[i] \in Int
    BY <1>1 DEF IInv, StackSound, Running, Typed
<1>10. stack' \in Seq(Int) /\ Len(stack') = Len(stack) /\ StackSound'
    <2>1. stack' = fixed(stack) /\ stack \in Seq(Int)
        BY <1>1 DEF FixRoots, Typed
    <2>2. \A i \in DOMAIN stack : fixed(stack)[i] \in Int
        BY <1>8, <1>9
    <2>a. \A i \in DOMAIN stack : \A z : z = fixed(stack)[i] => Sound(z)'
        BY <1>8, <1>9
    <2>3. fixed(stack) \in [1 .. Len(stack) -> Int] /\ Len(stack) \in Nat /\ DOMAIN stack = 1 .. Len(stack)
        BY <2>1, <2>2
    <2> DEFINE s == fixed(stack)
    <2> HIDE DEF fixed, s
    <2>4. s \in Seq(Int) /\ Len(s) = Len(stack)
        BY <2>3 DEF s
    <2>5. \A i \in DOMAIN stack' : Sound(stack[i])'
        <3>1. \A i \in DOMAIN stack' : i \in DOMAIN stack /\ stack'[i] = fixed(stack)[i]
            BY <2>1, <2>3
        <3> SUFFICES ASSUME NEW i \in DOMAIN stack' PROVE Sound(stack[i])'
            OBVIOUS
        <3>2. \A z : z = stack'[i] => Sound(z)'
            BY <2>a, <3>1
        <3> QED
            BY <3>2 DEF Sound
    <2>6. StackSound'
        BY <2>5 DEF StackSound
    <2> QED
        BY <2>1, <2>4, <2>6 DEF s
<1>11. \A v \in Range(extra_roots) :
          \/ call.op \notin NeedsObjects /\ (UNBOXED(native[v]) \/ (call.op = "string" /\ native[v] = Outside))
          \/ \E id \in AllMarked : native[v] = RootWord(id) /\ Argument(v, w[at[id]])
    BY <1>1, <1>3 DEF IInv, NativesSound, Running
<1>12. native \in Seq(Int) /\ extra_roots \in Seq(DOMAIN native) /\ Range(extra_roots) \subseteq DOMAIN native
    <2>1. native \in Seq(Int) /\ extra_roots \in Seq(DOMAIN native)
        BY <1>1 DEF Typed
    <2> QED
        BY <2>1 DEF Range
<1>13. ASSUME NEW v \in Range(extra_roots)
       PROVE  /\ Fixed(native[v]) \in Int
              /\ \/ call.op \notin NeedsObjects /\ (UNBOXED(Fixed(native[v])) \/ (call.op = "string" /\ Fixed(native[v]) = Outside))
                 \/ \E id \in AllMarked : /\ Fixed(native[v]) = Content(heap.begin, Place(id))
                                          /\ Argument(v, w[at[id]])
    <2>1. native[v] \in Int
        BY <1>12
    <2>2. CASE call.op \notin NeedsObjects /\ UNBOXED(native[v])
        BY <1>1, <2>1, <2>2, FixedFacts
    <2>3. CASE call.op \notin NeedsObjects /\ call.op = "string" /\ native[v] = Outside
        BY <1>1, <2>1, <2>3, FixedFacts
    <2>4. CASE \E id \in AllMarked : native[v] = RootWord(id) /\ Argument(v, w[at[id]])
        <3>1. PICK id \in AllMarked : native[v] = RootWord(id) /\ Argument(v, w[at[id]])
            BY <2>4
        <3>2. Fixed(native[v]) = Content(heap.begin, Place(id)) /\ Content(heap.begin, Place(id)) \in Int
            BY <1>1, <3>1, FixedFacts
        <3> QED
            BY <3>1, <3>2
    <2> QED
        BY <1>11, <2>2, <2>3, <2>4
<1>14. /\ native' \in Seq(Int) /\ Len(native') = Len(native)
       /\ \A v \in Range(extra_roots) : native'[v] = Fixed(native[v])
    <2>1. native' = [v \in DOMAIN native |-> IF v \in Range(extra_roots) THEN Fixed(native[v]) ELSE native[v]]
        BY DEF FixRoots, ToSet, Range
    <2>2. native' \in [1 .. Len(native) -> Int] /\ Len(native) \in Nat
        BY <1>12, <1>13, <2>1
    <2>3. \A v \in Range(extra_roots) : native'[v] = Fixed(native[v])
        BY <1>12, <2>1
    <2>4. native' \in Seq(Int) /\ Len(native') = Len(native)
        BY <2>2
    <2> QED
        BY <2>3, <2>4
<1>15. NativesSound'
    <2>1. \A v, header : Argument(v, header)' <=> Argument(v, header)
        BY <1>1 DEF Argument
    <2>2. extra_roots' = extra_roots /\ call' = call /\ (heap.words)' = w /\ at' = at
        BY <1>1
    <2> HIDE DEF w
    <2>3. \A v \in Range(extra_roots) :
          \/ call.op \notin NeedsObjects /\ (UNBOXED(native'[v]) \/ (call.op = "string" /\ native'[v] = Outside))
          \/ \E id \in AllMarked : native'[v] = RootWord(id)' /\ Argument(v, w[at[id]])
        BY <1>7, <1>13, <1>14
    <2>4. \A v \in Range(extra_roots) :
          \/ call.op \notin NeedsObjects /\ (UNBOXED(native'[v]) \/ (call.op = "string" /\ native'[v] = Outside))
          \/ \E id \in AllMarked : native'[v] = RootWord(id)' /\ Argument(v, heap.words[at[id]])'
        <3>1. \A v : \A id \in AllMarked : Argument(v, w[at[id]]) => Argument(v, heap.words[at[id]])'
            BY <2>2 DEF Argument, w
        <3> QED
            BY <2>3, <3>1
    <2> QED
        BY <1>6, <2>2, <2>4 DEF NativesSound
<1>16. FieldsSound'
    <2>1. \A id \in AllMarked : \A k \in FieldSlots(w, at[id]) :
              UNBOXED(w[k]) \/ \E j \in AllMarked : w[k] = FieldWord(j, id)
        BY <1>1, <1>3 DEF IInv, FieldsSound, Running
    <2>2. \A j, id \in AllMarked : FieldWord(j, id) = Content(heap.begin, Place(j))
        BY <1>1, <1>2, <1>3 DEF FieldWord
    <2>3. \A id \in AllMarked : \A k \in FieldSlots(w, at[id]) :
              UNBOXED(w[k]) \/ \E j \in AllMarked : w[k] = FieldWord(j, id)'
        BY <1>7, <2>1, <2>2
    <2> QED
        BY <1>1, <1>6, <2>3 DEF FieldsSound
<1>17. Typed'
    <2>1. extra_roots' \in Seq(DOMAIN native')
        <3>1. DOMAIN native' = DOMAIN native
            BY <1>12, <1>14
        <3> QED
            BY <1>1, <1>12, <3>1
    <2>2. phase' \in Collecting
        BY <1>1 DEF Collecting, Compacting
    <2> QED
        BY <1>1, <1>10, <1>14, <2>1, <2>2 DEF Typed
<1>18. ObjectsTile' /\ MarkSound' /\ QueueSound' /\ FieldSound' /\ MarksWhatIsReachable' /\ RoomSound'
    BY <1>1, <1>6 DEF IInv, ObjectsTile, MarkSound, QueueSound, FieldSound, MarksWhatIsReachable, RoomSound,
          Marking, search
<1>19. FlagsSound'
    BY <1>1, <1>5 DEF IInv, FlagsSound
<1>20. CallSound'
    <2>1. Popped' = Popped
        BY <1>1 DEF Popped, FieldCount
    <2> QED
        BY <2>1, <1>1, <1>10, <1>14 DEF CallSound, IInv, Collecting, Marking, Compacting
<1>21. ScanSound'
    <2>1. Unmoved' = at
        BY <1>1, <1>4, <1>5 DEF Unmoved
    <2>2. Tiled(Unmoved', Sizes(w, at), 1, Len(w) + 1)
        BY <1>4, <2>1
    <2>3. Tiled(Unmoved, Sizes(w, at), ScanSlot, Len(w) + 1)'
        BY <1>1, <1>5, <1>6, <2>2
    <2> QED
        BY <1>4, <1>5, <1>6, <2>3 DEF ScanSound
<1>22. PlacesSound'
    <2>1. PlacesSound
        BY DEF IInv
    <2>2. Places' = Places
        BY <1>3, <1>6 DEF Places
    <2>3. Tiled(Places, Sizes(w, at), 1, FreeSlot)'
        BY <1>1, <1>6, <2>1, <2>2 DEF PlacesSound
    <2>5. /\ Origin \in Bases /\ FreeSlot \in Nat
          /\ free_ptr = Origin + WordBytes * (FreeSlot - 1)
          /\ \A id \in AllMarked : /\ Place(id) \in Nat /\ Place(id) <= at[id]
                                   /\ Forward(w, at[id]) = Origin + WordBytes * (Place(id) - 1)
          /\ \A i, j \in AllMarked : at[i] < at[j] => Place(i) < Place(j)
          /\ FreeSlot <= Len(w) + 1
        BY <1>1, <1>3, <2>1 DEF PlacesSound
    <2>6. free_ptr' = free_ptr /\ phase' # "compute" /\ (heap.words)' = w /\ at' = at
        BY <1>1
    <2> HIDE DEF w
    <2> QED
        BY <1>6, <2>3, <2>5, <2>6 DEF PlacesSound
<1> QED
    BY <1>10, <1>15, <1>16, <1>17, <1>18, <1>19, <1>20, <1>21, <1>22 DEF IInv

-----------------------------------------------------------------------------
(* Objects move                                                            *)

\* Around the object that is to be moved: what has been moved is below it, the
\* rest above.
LEMMA RelocateFacts ==
    ASSUME IInv, phase = "relocate", NEW x \in DOMAIN at, at[x] = ScanSlot
    PROVE  LET w == heap.words
               n == Size(w, at[x])
           IN  /\ x \notin Passed /\ at[x] + n <= Len(w) + 1
               /\ \A id \in Passed : at[id] + Size(w, at[id]) <= at[x]
               /\ \A id \in DOMAIN at : id \notin Passed /\ id # x => at[id] >= at[x] + n
               /\ at[x] + n = Len(w) + 1 \/ \E id \in DOMAIN at : id # x /\ at[id] = at[x] + n
               /\ Tiled(Unmoved, Sizes(w, at), at[x], Len(w) + 1)
               /\ \A id \in DOMAIN at :
                     /\ at[id] \in Nat /\ at[id] >= 1 /\ at[id] < Len(w) /\ w[at[id]] \in Nat
                     /\ w[at[id] + 1] \in Int
                     /\ Size(w, at[id]) \in Nat /\ Size(w, at[id]) >= 2
                     /\ Sizes(w, at)[id] = Size(w, at[id])
               /\ Len(w) \in Nat /\ w \in Seq(Int) /\ heap \in Heaps /\ heap.begin \in Nat
<1> DEFINE w == heap.words
           n == Size(w, at[x])
           z == Sizes(w, at)
<1>1. Typed /\ ScanSound
    BY DEF IInv
<1>2. /\ Tiled(Unmoved, z, at[x], Len(w) + 1)
      /\ \A id \in Passed : at[id] + Size(w, at[id]) <= at[x]
    BY <1>1 DEF ScanSound, Compacting
<1>3. /\ Len(w) \in Nat /\ w \in Seq(Int) /\ heap \in Heaps /\ heap.begin \in Nat
      /\ \A id \in DOMAIN at :
            /\ at[id] \in Nat /\ at[id] >= 1 /\ at[id] < Len(w) /\ w[at[id]] \in Nat
            /\ w[at[id] + 1] \in Int
            /\ Size(w, at[id]) \in Nat /\ Size(w, at[id]) >= 2
            /\ z[id] = Size(w, at[id])
    BY <1>1, TypedFacts, SizeFacts
<1>4. x \notin Passed
    BY <1>3 DEF Passed
<1>5. DOMAIN Unmoved = DOMAIN at \ Passed /\ \A id \in DOMAIN at \ Passed : Unmoved[id] = at[id]
    BY DEF Unmoved
<1> DEFINE u == Unmoved
           l == Len(w) + 1
<1>6. /\ \A i \in DOMAIN u : /\ at[x] <= u[i] /\ u[i] + z[i] <= l
                             /\ u[i] + z[i] \in {u[j] : j \in DOMAIN u} \cup {l}
      /\ \A i, j \in DOMAIN u : i # j => u[i] + z[i] <= u[j] \/ u[j] + z[j] <= u[i]
    <2> HIDE DEF u, l, z
    <2> QED
        BY <1>2 DEF Tiled, u, l, z
<1>7. \A id \in DOMAIN at : id \notin Passed /\ id # x => at[id] >= at[x] + n
    <2> SUFFICES ASSUME NEW id \in DOMAIN at, id \notin Passed, id # x
                 PROVE  at[id] >= at[x] + n
        OBVIOUS
    <2>1. at[x] <= at[id]
        BY <1>5, <1>6
    <2>2. at[id] + Size(w, at[id]) <= at[x] \/ at[x] + n <= at[id]
        BY <1>3, <1>4, <1>5, <1>6
    <2> QED
        BY <1>3, <2>1, <2>2
<1>8. at[x] + n <= l /\ (at[x] + n = l \/ \E id \in DOMAIN at : id # x /\ at[id] = at[x] + n)
    <2>1. at[x] + n <= l /\ at[x] + n \in {u[j] : j \in DOMAIN u} \cup {l}
        BY <1>3, <1>4, <1>5, <1>6
    <2>2. at[x] + n # at[x]
        BY <1>3
    <2> HIDE DEF l, n
    <2> QED
        BY <1>5, <2>1, <2>2
<1> QED
    BY <1>2, <1>3, <1>4, <1>7, <1>8

\* memmove of an object and the mark that is taken from it.
LEMMA MovedWords ==
    ASSUME NEW h \in Heaps, NEW s \in Nat, NEW t \in Nat, NEW n \in Nat, t >= 1, t <= s, n >= 2,
           s + n <= Len(h.words) + 1
    PROVE  LET w == h.words
               to == Address(h, t)
               g == unmark_object(Moved(h, to, Address(h, s), n), get_object_content_ptr(to))
           IN  /\ g \in Heaps /\ g.begin = h.begin /\ g.size = h.size /\ Len(g.words) = Len(w)
               /\ g.words[t] = w[s] /\ g.words[t + 1] = RESET_MARK_BIT(w[s + 1])
               /\ \A k \in t + 2 .. t + n - 1 : g.words[k] = w[k + (s - t)]
               /\ \A k \in 1 .. Len(w) : k \notin t .. t + n - 1 => g.words[k] = w[k]
<1> DEFINE w == h.words
           l == Len(w)
           moved == [i \in DOMAIN w |-> IF i \in t .. t + n - 1 THEN w[i + (s - t)] ELSE w[i]]
           f == [h EXCEPT !.words = moved]
           new == [moved EXCEPT ![t + 1] = RESET_MARK_BIT(w[s + 1])]
           g == [f EXCEPT !.words = new]
<1>1. h.begin \in Int /\ w \in Seq(Int) /\ l \in Nat /\ DOMAIN w = 1 .. l /\ h = [begin |-> h.begin, size |-> h.size, words |-> w]
      /\ h.begin \in Nat /\ h.size \in Nat
    BY DEF Heaps
<1>2. /\ t + 1 \in 1 .. l /\ s + 1 \in 1 .. l /\ t \in 1 .. l /\ t + 1 \in t .. t + n - 1 /\ t + 1 + (s - t) = s + 1
      /\ t \in t .. t + n - 1 /\ t + (s - t) = s /\ t # t + 1
      /\ \A k \in t .. t + n - 1 : k \in 1 .. l /\ k + (s - t) \in 1 .. l
      /\ \A k \in t + 2 .. t + n - 1 : k # t + 1 /\ k \in t .. t + n - 1
      /\ s + n <= l + 1
    <2> HIDE DEF l
    <2>1. s + n <= l + 1 /\ l \in Nat
        BY <1>1 DEF l
    <2>2. /\ t + 1 \in 1 .. l /\ s + 1 \in 1 .. l /\ t \in 1 .. l /\ t + 1 \in t .. t + n - 1
          /\ t + 1 + (s - t) = s + 1 /\ t \in t .. t + n - 1 /\ t + (s - t) = s /\ t # t + 1
        BY <2>1
    <2>3. ASSUME NEW k \in t .. t + n - 1 PROVE k \in 1 .. l /\ k + (s - t) \in 1 .. l
        BY <2>1
    <2>4. ASSUME NEW k \in t + 2 .. t + n - 1 PROVE k # t + 1 /\ k \in t .. t + n - 1
        OBVIOUS
    <2> QED
        BY <2>1, <2>2, <2>3, <2>4
<1>3. Moved(h, Address(h, t), Address(h, s), n) = f
    <2>1. Slot(h, Address(h, t)) = t /\ Slot(h, Address(h, s)) = s
        BY <1>1, SlotFacts
    <2> QED
        BY <2>1 DEF Moved
<1>4. moved \in [1 .. l -> Int] /\ moved[t + 1] = w[s + 1] /\ moved[t] = w[s]
    <2>1. \A i \in 1 .. l : w[i] \in Int
        BY <1>1
    <2> HIDE DEF w, l
    <2> QED
        BY <1>1, <1>2, <2>1
<1>5. f.begin = h.begin /\ f.words = moved /\ f.size = h.size /\ f = [begin |-> h.begin, size |-> h.size, words |-> moved]
    <2>1. h = [begin |-> h.begin, size |-> h.size, words |-> h.words]
        BY <1>1
    <2> HIDE DEF moved
    <2> QED
        BY <2>1
<1>6. unmark_object(f, get_object_content_ptr(Address(h, t))) = g
    <2> DEFINE p == Content(f.begin, t)
    <2>0. f.begin = h.begin /\ h.begin \in Int /\ t \in Int
        BY <1>1, <1>5
    <2>1. get_object_content_ptr(Address(h, t)) = p
        <3> HIDE DEF f
        <3> QED
            BY <2>0, SlotFacts
    <2>2. f.begin \in Int /\ p - WordBytes = Address(f, t + 1)
        <3> HIDE DEF f
        <3> QED
            BY <2>0, SlotFacts
    <2>3. ForwardWord(f, p) = moved[t + 1]
        <3> HIDE DEF f, p, moved
        <3> QED
            BY <1>5, <2>2, WordFacts DEF ForwardWord
    <2>4. \A y : SetForwardWord(f, p, y) = [f EXCEPT !.words[t + 1] = y]
        <3> HIDE DEF f, p
        <3> QED
            BY <2>2, WordFacts DEF SetForwardWord
    <2>5. [f EXCEPT !.words[t + 1] = RESET_MARK_BIT(w[s + 1])] = g
        <3> HIDE DEF moved, w
        <3> QED
            BY <1>5
    <2> HIDE DEF f, p, moved, g
    <2>6. unmark_object(f, p) = SetForwardWord(f, p, RESET_MARK_BIT(w[s + 1]))
        BY <1>4, <2>3 DEF unmark_object
    <2> QED
        BY <2>1, <2>4, <2>5, <2>6
<1>7. RESET_MARK_BIT(w[s + 1]) \in Int
    <2>1. w[s + 1] \in Int
        <3> HIDE DEF w
        <3> QED
            BY <1>1, <1>2
    <2> QED
        BY <2>1, FlagFacts
<1>8. /\ new \in [1 .. l -> Int] /\ new[t + 1] = RESET_MARK_BIT(w[s + 1])
      /\ \A k \in 1 .. l : k # t + 1 => new[k] = moved[k]
    <2> HIDE DEF moved
    <2> QED
        BY <1>2, <1>4, <1>7
<1>9. g = [begin |-> h.begin, size |-> h.size, words |-> new]
    <2> HIDE DEF new, f
    <2> QED
        BY <1>5
<1>10. new \in Seq(Int) /\ Len(new) = l
    <2>1. new \in [1 .. l -> Int] /\ l \in Nat
        BY <1>1, <1>8
    <2> HIDE DEF new, l
    <2> QED
        BY <2>1
<1>11. /\ \A k \in t .. t + n - 1 : moved[k] = w[k + (s - t)]
       /\ \A k \in 1 .. l : k \notin t .. t + n - 1 => moved[k] = w[k]
    BY <1>1, <1>2
<1>12. /\ new[t] = w[s]
       /\ \A k \in t + 2 .. t + n - 1 : new[k] = w[k + (s - t)]
       /\ \A k \in 1 .. l : k \notin t .. t + n - 1 => new[k] = w[k]
    <2> HIDE DEF new, moved, w, l
    <2> QED
        BY <1>2, <1>4, <1>8, <1>11
<1>13. g \in Heaps
    <2> HIDE DEF new, g
    <2> QED
        BY <1>1, <1>9, <1>10 DEF Heaps
<1> HIDE DEF new, moved, l, f
<1>14. g.words = new /\ g.begin = h.begin /\ g.size = h.size
    BY <1>9
<1> HIDE DEF g
<1> QED
    BY <1>3, <1>6, <1>8, <1>10, <1>12, <1>13, <1>14 DEF l

\* The objects that are left for later.
LEMMA UnmovedRest ==
    ASSUME NEW x \in DOMAIN Unmoved, Len(heap.words) \in Nat,
           Tiled(Unmoved, Sizes(heap.words, at), Unmoved[x], Len(heap.words) + 1),
           \A id \in DOMAIN Unmoved : /\ Unmoved[id] \in Int /\ Sizes(heap.words, at)[id] \in Nat
                                      /\ Sizes(heap.words, at)[id] >= 1,
           DOMAIN Unmoved' = DOMAIN Unmoved \ {x},
           \A id \in DOMAIN Unmoved' : /\ Unmoved'[id] = Unmoved[id]
                                       /\ Sizes(heap.words, at)'[id] = Sizes(heap.words, at)[id]
    PROVE  Tiled(Unmoved', Sizes(heap.words, at)', Unmoved[x] + Sizes(heap.words, at)[x], Len(heap.words) + 1)
<1> DEFINE p == Unmoved
           z == Sizes(heap.words, at)
           q == Unmoved'
           y == Sizes(heap.words, at)'
           lo == Unmoved[x]
           hi == Len(heap.words) + 1
           low == lo + z[x]
<1>1. /\ x \in DOMAIN p /\ p[x] = lo /\ lo \in Int /\ hi \in Int /\ low = lo + z[x] /\ Tiled(p, z, lo, hi)
      /\ DOMAIN q = DOMAIN p \ {x}
      /\ \A id \in DOMAIN p : p[id] \in Int /\ z[id] \in Nat /\ z[id] >= 1
      /\ \A id \in DOMAIN q : q[id] = p[id] /\ y[id] = z[id]
    OBVIOUS
<1> HIDE DEF p, z, q, y, lo, hi, low
<1>2. Tiled(q, y, low, hi)
    BY <1>1, TiledRest
<1> QED
    BY <1>2 DEF p, z, q, y, lo, hi, low

\* One object moves to its place, or is forgotten.
LEMMA RelocateFrame ==
    ASSUME IInv, phase = "relocate", phase' = "relocate", NEW x \in DOMAIN at, at[x] = ScanSlot,
           scan' = Address(heap, at[x] + Size(heap.words, at[x])),
           UNCHANGED << stack, mutator, root, search, free_ptr, old_heap, call >>,
           heap' \in Heaps, heap.begin' = heap.begin, heap.size' = heap.size,
           Len(heap.words') = Len(heap.words),
           at' = [id \in DOMAIN at' |-> at'[id]], DOMAIN at' \subseteq DOMAIN at,
           DOMAIN at \ {x} \subseteq DOMAIN at', x \in DOMAIN at' <=> x \in AllMarked,
           \A id \in DOMAIN at \ {x} :
               /\ at'[id] = at[id]
               /\ heap.words'[at[id]] = heap.words[at[id]]
               /\ heap.words'[at[id] + 1] = heap.words[at[id] + 1]
               /\ \A k \in FieldSlots(heap.words, at[id]) : heap.words'[k] = heap.words[k],
           x \in AllMarked =>
               /\ at'[x] = Place(x)
               /\ heap.words'[at'[x]] = heap.words[at[x]]
               /\ heap.words'[at'[x] + 1] = RESET_MARK_BIT(heap.words[at[x] + 1])
               /\ \A k \in FieldSlots(heap.words', at'[x]) :
                      \E m \in FieldSlots(heap.words, at[x]) : heap.words'[k] = heap.words[m]
    PROVE  IInv'
<1> DEFINE w == heap.words
           v == heap.words'
           s == at[x]
           n == Size(w, at[x])
<1>1. Typed /\ phase \in Compacting /\ ScanSound
    BY DEF IInv, Compacting
<1>2. /\ x \notin Passed /\ s + n <= Len(w) + 1
      /\ \A id \in Passed : at[id] + Size(w, at[id]) <= s
      /\ \A id \in DOMAIN at : id \notin Passed /\ id # x => at[id] >= s + n
      /\ s + n = Len(w) + 1 \/ \E id \in DOMAIN at : id # x /\ at[id] = s + n
      /\ Tiled(Unmoved, Sizes(w, at), s, Len(w) + 1)
      /\ \A id \in DOMAIN at :
            /\ at[id] \in Nat /\ at[id] >= 1 /\ at[id] < Len(w) /\ w[at[id]] \in Nat
            /\ w[at[id] + 1] \in Int
            /\ Size(w, at[id]) \in Nat /\ Size(w, at[id]) >= 2
            /\ Sizes(w, at)[id] = Size(w, at[id])
      /\ Len(w) \in Nat /\ w \in Seq(Int) /\ heap \in Heaps /\ heap.begin \in Nat
    BY RelocateFacts
<1>3. /\ Kept = Passed \cup AllMarked /\ Placed = Passed \cup AllMarked /\ Kept \subseteq DOMAIN at
      /\ Passed \subseteq DOMAIN at /\ AllMarked \subseteq DOMAIN at
      /\ Origin = old_heap.begin /\ Kept \subseteq DOMAIN at'
    <2>1. /\ Kept = Passed \cup AllMarked /\ Placed = Passed \cup AllMarked
          /\ Passed \subseteq DOMAIN at /\ AllMarked \subseteq DOMAIN at /\ Origin = old_heap.begin
        BY DEF Kept, Placed, Passed, AllMarked, Origin
    <2> QED
        BY <1>2, <2>1
<1>4. \A id \in Placed : Place(id) \in Nat /\ Place(id) >= 1 /\ Place(id) <= at[id]
    BY <1>1, PlaceFacts
<1>5. /\ \A id \in DOMAIN at' : at'[id] \in Nat /\ at'[id] >= 1 /\ at'[id] <= at[id]
      /\ \A id \in DOMAIN at' : v[at'[id]] = w[at[id]] /\ Size(v, at'[id]) = Size(w, at[id])
    <2>1. ASSUME NEW id \in DOMAIN at'
          PROVE  /\ at'[id] \in Nat /\ at'[id] >= 1 /\ at'[id] <= at[id]
                 /\ v[at'[id]] = w[at[id]]
        <3>1. CASE id = x
            <4>1. x \in AllMarked /\ x \in Placed
                BY <1>3, <3>1
            <4>2. at'[x] = Place(x) /\ v[at'[x]] = w[at[x]]
                BY <4>1
            <4> QED
                BY <1>4, <3>1, <4>1, <4>2
        <3>2. CASE id # x
            <4>1. id \in DOMAIN at \ {x}
                BY <3>2
            <4>2. at'[id] = at[id] /\ v[at[id]] = w[at[id]]
                BY <4>1
            <4>3. at[id] \in Nat /\ at[id] >= 1
                BY <1>2, <4>1
            <4> HIDE DEF v, w
            <4> QED
                BY <4>2, <4>3
        <3> QED
            BY <3>1, <3>2
    <2> QED
        BY <2>1 DEF Size
<1>6. ScanSlot' = s + n /\ Aligned(scan)'
    <2>1. s + n \in Int /\ heap.begin \in Int /\ heap.begin' = heap.begin
        BY <1>2
    <2> DEFINE m == s + n
    <2> HIDE DEF m
    <2>2. Slot(heap', Address(heap, m)) = m /\ Address(heap', m) = Address(heap, m)
        BY <2>1, SameBegin DEF m
    <2> QED
        BY <2>2 DEF ScanSlot, Aligned, m
<1>7. \A id \in DOMAIN at' : id \in Passed' <=> id \in Passed \/ id = x
    <2> SUFFICES ASSUME NEW id \in DOMAIN at'
                 PROVE  at'[id] < s + n <=> id \in Passed \/ id = x
        BY <1>6 DEF Passed
    <2>1. CASE id = x
        <3>1. at'[x] <= s /\ n >= 2 /\ at'[x] \in Nat /\ s \in Nat /\ n \in Nat
            BY <1>2, <1>5, <2>1
        <3> QED
            BY <2>1, <3>1
    <2>2. CASE id # x
        <3>1. at'[id] = at[id] /\ id \in DOMAIN at
            BY <2>2
        <3>2. CASE id \in Passed
            <4>1. at[id] + Size(w, at[id]) <= s /\ at[id] \in Nat /\ Size(w, at[id]) \in Nat
                BY <1>2, <3>1, <3>2
            <4>2. s \in Nat /\ n \in Nat /\ n >= 2
                BY <1>2
            <4> HIDE DEF s, n
            <4>3. at[id] < s + n
                BY <4>1, <4>2
            <4> QED
                BY <3>1, <3>2, <4>3
        <3>3. CASE id \notin Passed
            <4>1. at[id] >= s + n /\ at[id] \in Nat
                BY <1>2, <2>2, <3>1, <3>3
            <4>2. s + n \in Nat
                <5>1. s \in Nat /\ n \in Nat
                    BY <1>2
                <5> HIDE DEF s, n
                <5> QED
                    BY <5>1
            <4> QED
                BY <2>2, <3>1, <3>3, <4>1, <4>2
        <3> QED
            BY <3>2, <3>3
    <2> QED
        BY <2>1, <2>2
<1>8. \A id \in DOMAIN at' : id # x => v[at'[id] + 1] = w[at[id] + 1]
    BY DEF Passed
<1>9. x \in AllMarked => /\ ~MARKED(v[at'[x] + 1])
                         /\ ENQUEUED(v[at'[x] + 1]) = ENQUEUED(w[at[x] + 1])
    <2>1. w[at[x] + 1] \in Int
        BY <1>2
    <2> QED
        BY <2>1, FlagFacts
<1>10. \A id \in DOMAIN at' : id \in AllMarked' <=> id \in AllMarked /\ id # x
    <2>1. \A id \in DOMAIN at' : id \in AllMarked' <=> MARKED(v[at'[id] + 1])
        BY DEF AllMarked, Marked
    <2>2. \A id \in DOMAIN at : id \in AllMarked <=> MARKED(w[at[id] + 1])
        BY DEF AllMarked, Marked
    <2> QED
        BY <1>8, <1>9, <2>1, <2>2
<1>11. Kept' = Kept /\ Placed' = Placed /\ Origin' = Origin /\ FreeSlot' = FreeSlot
    <2>1. Kept' = Passed' \cup AllMarked' /\ Placed' = Passed' \cup AllMarked'
          /\ Passed' \subseteq DOMAIN at' /\ AllMarked' \subseteq DOMAIN at'
        BY DEF Kept, Placed, Passed, AllMarked
    <2>2. Passed' \cup AllMarked' = Passed \cup AllMarked
        BY <1>3, <1>7, <1>10, <2>1
    <2>3. Origin' = Origin
        BY DEF Origin
    <2> QED
        BY <1>3, <2>1, <2>2, <2>3 DEF FreeSlot
<1>12. \A id \in Kept : Place(id)' = Place(id)
    <2> SUFFICES ASSUME NEW id \in Kept PROVE Place(id)' = Place(id)
        OBVIOUS
    <2>1. CASE id = x
        <3>1. x \in AllMarked /\ x \in Passed'
            BY <1>2, <1>3, <1>7, <2>1
        <3>2. Place(x)' = at'[x]
            BY <3>1 DEF Place
        <3> QED
            BY <2>1, <3>1, <3>2
    <2>2. CASE id # x /\ id \in Passed
        <3>1. id \in Passed'
            BY <1>3, <1>7, <2>2
        <3>2. at'[id] = at[id]
            BY <1>3, <2>2
        <3> QED
            BY <2>2, <3>1, <3>2 DEF Place
    <2>3. CASE id # x /\ id \notin Passed
        <3>1. id \notin Passed'
            BY <1>3, <1>7, <2>3
        <3>2. v[at'[id] + 1] = w[at[id] + 1]
            BY <1>3, <1>8, <2>3
        <3> QED
            BY <1>11, <2>3, <3>1, <3>2 DEF Place, ForwardSlot, Forward
    <2> QED
        BY <2>1, <2>2, <2>3
<1>13. \A id \in Kept : RootWord(id)' = RootWord(id) /\ RootWord(id) = Content(heap.begin, Place(id))
    BY <1>12 DEF RootWord
<1>14. \A id \in Kept : \A owner : /\ FieldWord(id, owner)' = RootWord(id)
                                   /\ FieldWord(id, owner) = RootWord(id)
    BY <1>13 DEF FieldWord
<1>15. Objects(heap.words, at)'
    <2>1. v \in Seq(Int)
        BY DEF Heaps
    <2>2. at' \in [DOMAIN at' -> Nat \ {0}]
        <3>1. \A id \in DOMAIN at' : at'[id] \in Nat \ {0}
            BY <1>5
        <3> DEFINE d == DOMAIN at'
        <3>2. at' = [id \in d |-> at'[id]]
            OBVIOUS
        <3> QED
            BY <3>1, <3>2
    <2>3. \A id \in DOMAIN at' : at'[id] < Len(v) /\ v[at'[id]] \in Nat
        <3> SUFFICES ASSUME NEW id \in DOMAIN at' PROVE at'[id] < Len(v) /\ v[at'[id]] \in Nat
            OBVIOUS
        <3>1. id \in DOMAIN at
            OBVIOUS
        <3>2. at[id] < Len(w) /\ at[id] \in Nat /\ w[at[id]] \in Nat /\ Len(w) \in Nat /\ Len(v) = Len(w)
            BY <1>2, <3>1
        <3>3. at'[id] \in Nat /\ at'[id] <= at[id] /\ v[at'[id]] = w[at[id]]
            BY <1>5
        <3> HIDE DEF v, w
        <3> QED
            BY <3>2, <3>3
    <2> QED
        BY <2>1, <2>2, <2>3 DEF Objects
<1>16. Typed'
    <2>1. /\ heap \in [begin : Bases, size : Nat, words : Seq(Int)]
          /\ heap.size >= MinimumCapacity /\ Len(w) <= heap.size
          /\ born \in Nat /\ born <= MaxObjects /\ DOMAIN at \subseteq 1 .. born
          /\ stack \in Seq(Int) /\ native \in Seq(Int) /\ extra_roots \in Seq(DOMAIN native)
        BY <1>1 DEF Typed
    <2>2. heap' \in [begin : Bases, size : Nat, words : Seq(Int)]
        BY <2>1 DEF Heaps
    <2>3. UNCHANGED << born, stack, native, extra_roots >> /\ phase' \in Collecting /\ DOMAIN at' \subseteq DOMAIN at
        BY DEF mutator, Collecting, Compacting
    <2> HIDE DEF v, w
    <2> QED
        BY <1>15, <2>1, <2>2, <2>3 DEF Typed, w
<1>17. FieldsSound'
    <2>1. \A id \in Kept : \A k \in FieldSlots(w, at[id]) :
              UNBOXED(w[k]) \/ \E j \in Kept : w[k] = RootWord(j)
        BY <1>14 DEF IInv, FieldsSound, Running
    <2>2. ASSUME NEW id \in Kept, NEW k \in FieldSlots(v, at'[id])
          PROVE  UNBOXED(v[k]) \/ \E j \in Kept : v[k] = RootWord(j)
        <3>1. CASE id = x
            <4>1. x \in AllMarked
                BY <1>2, <1>3, <3>1
            <4>2. PICK m \in FieldSlots(w, at[x]) : v[k] = w[m]
                BY <3>1, <4>1
            <4> QED
                BY <2>1, <3>1, <4>2
        <3>2. CASE id # x
            <4>1. id \in DOMAIN at \ {x}
                BY <1>3, <3>2
            <4>2. /\ at'[id] = at[id] /\ v[at[id]] = w[at[id]]
                  /\ \A j \in FieldSlots(w, at[id]) : v[j] = w[j]
                BY <4>1
            <4>3. FieldSlots(v, at[id]) = FieldSlots(w, at[id])
                BY <4>2 DEF FieldSlots, Size
            <4> HIDE DEF v, w
            <4> QED
                BY <2>1, <4>2, <4>3
        <3> QED
            BY <3>1, <3>2
    <2> QED
        BY <1>11, <1>14, <2>2 DEF FieldsSound
<1>18. StackSound' /\ NativesSound'
    <2>1. \A y : Sound(y)' <=> Sound(y)
        BY <1>11, <1>13 DEF Sound
    <2>2. \A i \in DOMAIN stack : Sound(stack[i])
        BY DEF IInv, StackSound, Running
    <2>3. StackSound'
        BY <2>1, <2>2 DEF StackSound
    <2>4. \A u \in Range(extra_roots) :
              \/ call.op \notin NeedsObjects /\ (UNBOXED(native[u]) \/ (call.op = "string" /\ native[u] = Outside))
              \/ \E id \in Kept : native[u] = RootWord(id) /\ Argument(u, w[at[id]])
        BY DEF IInv, NativesSound, Running
    <2>5. \A u : \A id \in Kept : Argument(u, w[at[id]]) => Argument(u, heap.words[at[id]])'
        <3>1. \A id \in Kept : (heap.words[at[id]])' = w[at[id]]
            BY <1>3, <1>5
        <3> HIDE DEF w
        <3> QED
            BY <3>1 DEF Argument
    <2>6. \A u \in Range(extra_roots) :
              \/ call.op \notin NeedsObjects /\ (UNBOXED(native[u]) \/ (call.op = "string" /\ native[u] = Outside))
              \/ \E id \in Kept : native[u] = RootWord(id)' /\ Argument(u, heap.words[at[id]])'
        <3>1. \A id \in Kept : RootWord(id)' = RootWord(id)
            BY <1>13
        <3> SUFFICES ASSUME NEW u \in Range(extra_roots),
                            NEW id \in Kept, native[u] = RootWord(id), Argument(u, w[at[id]])
                     PROVE  \E j \in Kept : native[u] = RootWord(j)' /\ Argument(u, heap.words[at[j]])'
            BY <2>4
        <3>2. Argument(u, heap.words[at[id]])'
            BY <2>5
        <3> QED
            BY <3>1, <3>2
    <2>7. native' = native /\ extra_roots' = extra_roots /\ call' = call
        BY DEF mutator
    <2>8. NativesSound'
        BY <1>11, <2>6, <2>7 DEF NativesSound
    <2> QED
        BY <2>3, <2>8
<1>19. CallSound'
    <2>1. Popped' = Popped
        BY DEF Popped, FieldCount
    <2> QED
        BY <2>1 DEF CallSound, IInv, Collecting, Marking, Compacting, mutator
<1>20. FlagsSound'
    <2>1. \A id \in DOMAIN at : ~ENQUEUED(w[at[id] + 1])
        BY DEF IInv, FlagsSound, Enqueued
    <2>2. \A id \in DOMAIN at' : ~ENQUEUED(v[at'[id] + 1])
        BY <1>8, <1>9, <2>1
    <2>3. \A id \in Passed : ~MARKED(w[at[id] + 1])
        BY DEF IInv, FlagsSound, Marked
    <2>4. \A id \in Passed' : ~MARKED(v[at'[id] + 1])
        <3>1. Passed' \subseteq DOMAIN at'
            BY DEF Passed
        <3> QED
            BY <1>7, <1>8, <1>9, <2>3, <3>1
    <2> QED
        BY <2>2, <2>4 DEF FlagsSound, Enqueued, Marked
<1>21. ObjectsTile' /\ MarkSound' /\ QueueSound' /\ FieldSound' /\ MarksWhatIsReachable' /\ RoomSound'
    <2>1. request' = request
        BY DEF mutator
    <2> QED
        BY <1>11, <2>1 DEF IInv, ObjectsTile, MarkSound, QueueSound, FieldSound, MarksWhatIsReachable, RoomSound,
           Marking, search
<1>22. Sizes(w, at)' = [id \in DOMAIN at' |-> Size(w, at[id])]
    BY <1>5 DEF Sizes
<1>23. ScanSound'
    <2>1. ScanSlot' \in Starts'
        <3>1. CASE s + n = Len(w) + 1
            BY <1>6, <3>1 DEF Starts
        <3>2. CASE \E id \in DOMAIN at : id # x /\ at[id] = s + n
            <4>1. PICK id \in DOMAIN at : id # x /\ at[id] = s + n
                BY <3>2
            <4>2. id \in DOMAIN at' /\ at'[id] = s + n
                BY <4>1
            <4> HIDE DEF s, n
            <4> QED
                BY <1>6, <4>2 DEF Starts
        <3> QED
            BY <1>2, <3>1, <3>2
    <2>2. ASSUME NEW id \in Passed'
          PROVE  at'[id] + Size(w, at[id]) <= s + n
        <3>1. id \in DOMAIN at' /\ (id \in Passed \/ id = x)
            BY <1>7 DEF Passed
        <3>2. at'[id] <= at[id] /\ at'[id] \in Nat /\ at[id] \in Nat /\ Size(w, at[id]) \in Nat /\ s \in Nat /\ n \in Nat
            BY <1>2, <1>5, <3>1
        <3>3. CASE id = x
            BY <3>2, <3>3
        <3>4. CASE id \in Passed
            <4>1. at[id] + Size(w, at[id]) <= s
                BY <1>2, <3>4
            <4> DEFINE y == Size(w, at[id])
            <4> HIDE DEF y, s, n
            <4>2. at'[id] + y <= s + n
                BY <3>2, <4>1 DEF y
            <4> QED
                BY <4>2 DEF y
        <3> QED
            BY <3>1, <3>3, <3>4
    <2>3. Tiled(Unmoved', Sizes(w, at)', s + n, Len(w) + 1)
        <3> DEFINE p == Unmoved
                   z == Sizes(w, at)
                   q == Unmoved'
                   y == Sizes(w, at)'
        <3>1. DOMAIN p = DOMAIN at \ Passed /\ \A id \in DOMAIN p : p[id] = at[id]
            BY DEF Unmoved
        <3>2. DOMAIN q = DOMAIN at' \ Passed' /\ \A id \in DOMAIN q : q[id] = at'[id]
            BY DEF Unmoved
        <3>3. DOMAIN q = DOMAIN p \ {x}
            BY <1>7, <3>1, <3>2
        <3>4. x \in DOMAIN p /\ p[x] = s
            BY <1>2, <3>1
        <3>5. \A id \in DOMAIN q : q[id] = p[id] /\ y[id] = z[id]
            <4>1. \A id \in DOMAIN q : id \in DOMAIN at' /\ id \in DOMAIN p /\ id # x
                BY <3>2, <3>3
            <4>2. \A id \in DOMAIN q : q[id] = p[id]
                BY <3>1, <3>2, <4>1
            <4>3. \A id \in DOMAIN at' : y[id] = Size(w, at[id])
                BY <1>22
            <4>4. \A id \in DOMAIN at : z[id] = Size(w, at[id])
                BY <1>2
            <4> HIDE DEF p, q, y, z
            <4> QED
                BY <3>1, <4>1, <4>2, <4>3, <4>4
        <3>6. \A id \in DOMAIN p : p[id] \in Int /\ z[id] \in Nat /\ z[id] >= 1
            <4>1. \A id \in DOMAIN at : at[id] \in Nat /\ z[id] = Size(w, at[id])
                                        /\ Size(w, at[id]) \in Nat /\ Size(w, at[id]) >= 2
                BY <1>2
            <4> HIDE DEF p, z, w
            <4> QED
                BY <3>1, <4>1
        <3>7. Len(w) \in Nat /\ z[x] = n /\ Tiled(p, z, s, Len(w) + 1)
            BY <1>2
        <3> HIDE DEF s, n
        <3> QED
            BY <3>3, <3>4, <3>5, <3>6, <3>7, UnmovedRest
    <2>4. Tiled(Unmoved, Sizes(w, at), ScanSlot, Len(w) + 1)'
        BY <1>6, <2>3
    <2>5. \A id \in Passed' : at'[id] + Size(v, at'[id]) <= ScanSlot'
        <3>1. Passed' \subseteq DOMAIN at'
            BY DEF Passed
        <3> QED
            BY <1>5, <1>6, <2>2, <3>1
    <2> QED
        BY <1>6, <2>1, <2>4, <2>5 DEF ScanSound
<1>24. PlacesSound'
    <2>1. /\ Origin \in Bases /\ FreeSlot \in Nat
          /\ free_ptr = Origin + WordBytes * (FreeSlot - 1)
          /\ Tiled(Places, Sizes(w, at), 1, FreeSlot)
          /\ FreeSlot <= Len(w) + 1
          /\ \A id \in Placed : /\ Place(id) \in Nat /\ Place(id) <= at[id]
                                /\ id \notin Passed =>
                                      Forward(w, at[id]) = Origin + WordBytes * (Place(id) - 1)
          /\ \A i, j \in Placed : at[i] < at[j] => Place(i) < Place(j)
        BY <1>1 DEF IInv, PlacesSound
    <2>2. Places' = Places /\ DOMAIN Places = Placed
        BY <1>3, <1>11, <1>12 DEF Places
    <2>3. Tiled(Places, [id \in DOMAIN at' |-> Size(w, at[id])], 1, FreeSlot)
        <3> DEFINE z == Sizes(w, at)
                   y == [id \in DOMAIN at' |-> Size(w, at[id])]
        <3>1. \A id \in DOMAIN Places : y[id] = z[id]
            BY <1>2, <1>3, <2>2
        <3>2. Tiled(Places, z, 1, FreeSlot)
            BY <2>1
        <3> HIDE DEF z, y
        <3>3. Tiled(Places, y, 1, FreeSlot)
            BY <3>1, <3>2, TiledSame
        <3> QED
            BY <3>3 DEF y
    <2>4. Tiled(Places, Sizes(w, at), 1, FreeSlot)'
        BY <1>11, <1>22, <2>2, <2>3
    <2>5. ASSUME NEW id \in Kept
          PROVE  /\ Place(id) <= at'[id]
                 /\ id \notin Passed' => Forward(v, at'[id]) = Origin + WordBytes * (Place(id) - 1)
        <3>1. CASE id = x
            <4>1. x \in AllMarked /\ x \in Passed'
                BY <1>2, <1>3, <1>7, <3>1
            <4>2. at'[x] = Place(x) /\ Place(x) \in Nat
                BY <1>3, <2>1, <4>1
            <4> QED
                BY <3>1, <4>1, <4>2
        <3>2. CASE id # x
            <4>1. at'[id] = at[id] /\ id \in DOMAIN at' /\ id \in Placed
                BY <1>3, <3>2
            <4>2. v[at'[id] + 1] = w[at[id] + 1]
                BY <1>8, <3>2, <4>1
            <4>3. id \notin Passed' => id \notin Passed
                BY <1>7, <4>1
            <4> QED
                BY <2>1, <4>1, <4>2, <4>3 DEF Forward
        <3> QED
            BY <3>1, <3>2
    <2>6. ASSUME NEW i \in Kept, NEW j \in Kept, at'[i] < at'[j]
          PROVE  Place(i) < Place(j)
        <3>1. \A id \in Kept : /\ id \in DOMAIN at' /\ id \in DOMAIN at /\ id \in Placed
                               /\ id # x => at'[id] = at[id]
                               /\ at'[id] \in Nat /\ at[id] \in Nat /\ at'[id] <= at[id]
                               /\ id = x => at'[x] = Place(x)
            BY <1>2, <1>3, <1>5
        <3>2. \A id \in Passed : Place(id) = at[id]
            BY DEF Place
        <3>3. \A id \in Kept : id \notin Passed /\ id # x => at[id] > s
            <4>1. s \in Nat /\ n \in Nat /\ n >= 2
                BY <1>2
            <4>2. \A id \in Kept : id \notin Passed /\ id # x => at[id] >= s + n /\ at[id] \in Nat
                BY <1>2, <3>1
            <4> HIDE DEF s, n
            <4> QED
                BY <4>1, <4>2
        <3>4. CASE i # x /\ j # x
            BY <2>1, <2>6, <3>1, <3>4
        <3>5. CASE i = x /\ j # x
            <4>1. CASE j \in Passed
                BY <2>6, <3>1, <3>2, <3>5, <4>1
            <4>2. CASE j \notin Passed
                BY <2>1, <3>1, <3>3, <3>5, <4>2
            <4> QED
                BY <4>1, <4>2
        <3>6. CASE i # x /\ j = x
            <4>1. at[i] < Place(x) /\ Place(x) <= s
                BY <2>1, <2>6, <3>1, <3>6
            <4>2. i \in Passed
                BY <2>1, <3>1, <3>3, <3>6, <4>1
            <4> QED
                BY <3>2, <3>6, <4>1, <4>2
        <3>7. CASE i = x /\ j = x
            <4>1. at'[x] < at'[x] /\ at'[x] \in Nat
                BY <2>6, <3>1, <3>7
            <4> QED
                BY <4>1
        <3> QED
            BY <3>4, <3>5, <3>6, <3>7
    <2>7. free_ptr' = free_ptr /\ phase' # "compute" /\ phase' = "relocate" /\ Len(v) = Len(w)
        OBVIOUS
    <2> HIDE DEF v, w
    <2>8. /\ Origin' \in Bases /\ FreeSlot' \in Nat
          /\ free_ptr' = Origin' + WordBytes * (FreeSlot' - 1)
          /\ FreeSlot' <= Len(v) + 1
        BY <1>11, <2>1, <2>7
    <2>9. \A id \in Placed' : /\ Place(id)' \in Nat /\ Place(id)' <= at'[id]
                              /\ id \notin Passed' =>
                                      Forward(v, at'[id]) = Origin' + WordBytes * (Place(id)' - 1)
        BY <1>3, <1>11, <1>12, <2>1, <2>5
    <2>10. \A i, j \in Placed' : at'[i] < at'[j] => Place(i)' < Place(j)'
        BY <1>3, <1>11, <1>12, <2>6
    <2> QED
        BY <2>4, <2>7, <2>8, <2>9, <2>10 DEF PlacesSound, v, w
<1> QED
    BY <1>16, <1>17, <1>18, <1>19, <1>20, <1>21, <1>23, <1>24 DEF IInv

\* physically_relocate, one object.
LEMMA RelocateKeeps ==
    ASSUME IInv, Relocate, UNCHANGED call
    PROVE  IInv'
<1> DEFINE w == heap.words
           v == heap.words'
<1>1. /\ Typed /\ phase = "relocate" /\ phase' = "relocate" /\ scan < Current(heap)
      /\ UNCHANGED << stack, mutator, root, search, free_ptr, old_heap, call >>
      /\ Aligned(scan) /\ ScanSlot \in Starts /\ phase \in Compacting
    BY DEF IInv, Relocate, ScanSound, Compacting
<1>2. PICK x \in DOMAIN at :
              /\ at[x] = ScanSlot /\ scan = Address(heap, at[x])
              /\ get_object_content_ptr(scan) = Content(heap.begin, at[x])
              /\ NextObject(heap, scan) = Address(heap, at[x] + Size(w, at[x]))
              /\ is_marked(heap, get_object_content_ptr(scan)) = Marked(w, at[x])
              /\ get_forward_address(heap, get_object_content_ptr(scan)) = Forward(w, at[x])
              /\ WordAt(heap, scan) = w[at[x]]
    BY <1>1, ScanObject
<1> DEFINE s == at[x]
           n == Size(w, at[x])
<1>3. /\ x \notin Passed /\ s + n <= Len(w) + 1
      /\ \A id \in Passed : at[id] + Size(w, at[id]) <= s
      /\ \A id \in DOMAIN at : id \notin Passed /\ id # x => at[id] >= s + n
      /\ \A id \in DOMAIN at :
            /\ at[id] \in Nat /\ at[id] >= 1 /\ at[id] < Len(w) /\ w[at[id]] \in Nat
            /\ w[at[id] + 1] \in Int
            /\ Size(w, at[id]) \in Nat /\ Size(w, at[id]) >= 2
            /\ Sizes(w, at)[id] = Size(w, at[id])
      /\ Len(w) \in Nat /\ w \in Seq(Int) /\ heap \in Heaps /\ heap.begin \in Nat
    BY <1>1, <1>2, RelocateFacts
<1>4. scan' = Address(heap, at[x] + Size(w, at[x]))
    BY <1>2 DEF Relocate
<1>5. Slot(heap, scan) = at[x]
    BY <1>2 DEF ScanSlot
<1>6. \A id \in DOMAIN at : at[id] = at[x] <=> id = x
    <2> SUFFICES ASSUME NEW id \in DOMAIN at, id # x PROVE at[id] # at[x]
        OBVIOUS
    <2>1. s \in Nat /\ n \in Nat /\ n >= 2 /\ at[id] \in Nat /\ Size(w, at[id]) >= 2 /\ Size(w, at[id]) \in Nat
        BY <1>3
    <2>2. at[id] + Size(w, at[id]) <= s \/ at[id] >= s + n
        BY <1>3
    <2> QED
        BY <2>1, <2>2
<1>7. CASE ~Marked(w, at[x])
    <2>1. heap' = heap /\ at' = [id \in {i \in DOMAIN at : at[i] # at[x]} |-> at[id]]
        BY <1>2, <1>5, <1>7 DEF Relocate
    <2>2. DOMAIN at' = DOMAIN at \ {x} /\ \A id \in DOMAIN at \ {x} : at'[id] = at[id]
        BY <1>6, <2>1
    <2>3. at' = [id \in DOMAIN at' |-> at'[id]]
        BY <2>1
    <2>4. x \notin AllMarked
        BY <1>7 DEF AllMarked
    <2>5. heap' \in Heaps /\ heap.begin' = heap.begin /\ heap.size' = heap.size /\ v = w
        BY <1>3, <2>1
    <2> HIDE DEF v, w
    <2> QED
        BY <1>1, <1>2, <1>4, <2>2, <2>3, <2>4, <2>5, RelocateFrame DEF v, w
<1>8. CASE Marked(w, at[x])
    <2> DEFINE t == Place(x)
    <2>1. x \in AllMarked /\ x \in Placed
        BY <1>1, <1>8 DEF AllMarked, Placed
    <2>2. t \in Nat /\ t >= 1 /\ t <= s /\ Forward(w, at[x]) = old_heap.begin + WordBytes * (t - 1)
          /\ old_heap.begin \in Nat
        <3>1. Origin = old_heap.begin
            BY <1>1 DEF Origin
        <3> QED
            BY <1>1, <1>3, <2>1, <3>1, PlaceFacts
    <2>3. Relative(Forward(w, at[x])) = Address(heap, t)
        <3> HIDE DEF t
        <3> QED
            BY <1>3, <2>2 DEF Relative, Address, WordBytes
    <2>4. Slot(heap, Address(heap, t)) = t
        <3>1. heap.begin \in Int /\ t \in Int
            BY <1>3, <2>2
        <3> HIDE DEF t
        <3> QED
            BY <3>1, SlotFacts
    <2> DEFINE g == unmark_object(Moved(heap, Address(heap, t), Address(heap, s), n),
                                  get_object_content_ptr(Address(heap, t)))
    <2>5. heap' = g /\ at' = [id \in DOMAIN at |-> IF at[id] = at[x] THEN t ELSE at[id]]
        <3>1. ObjectWords(WordAt(heap, scan)) = n
            BY <1>2 DEF Size
        <3> HIDE DEF t, n
        <3> QED
            BY <1>2, <1>5, <1>8, <2>3, <2>4, <3>1 DEF Relocate
    <2>6. DOMAIN at' = DOMAIN at /\ at'[x] = t /\ \A id \in DOMAIN at \ {x} : at'[id] = at[id]
        <3> HIDE DEF t
        <3> QED
            BY <1>6, <2>5
    <2>7. at' = [id \in DOMAIN at' |-> at'[id]]
        <3> HIDE DEF t
        <3> QED
            BY <2>5
    <2>8. /\ g \in Heaps /\ g.begin = heap.begin /\ g.size = heap.size /\ Len(g.words) = Len(w)
          /\ g.words[t] = w[s] /\ g.words[t + 1] = RESET_MARK_BIT(w[s + 1])
          /\ \A k \in t + 2 .. t + n - 1 : g.words[k] = w[k + (s - t)]
          /\ \A k \in 1 .. Len(w) : k \notin t .. t + n - 1 => g.words[k] = w[k]
        <3>1. s \in Nat /\ n \in Nat /\ n >= 2 /\ s + n <= Len(w) + 1
            BY <1>3
        <3>2. t \in Nat /\ t >= 1 /\ t <= s /\ heap \in Heaps
            BY <1>3, <2>2
        <3> HIDE DEF t, n, s
        <3> QED
            BY <3>1, <3>2, MovedWords
    <2> HIDE DEF g
    <2>9. /\ heap' \in Heaps /\ heap.begin' = heap.begin /\ heap.size' = heap.size /\ Len(v) = Len(w)
          /\ v[t] = w[s] /\ v[t + 1] = RESET_MARK_BIT(w[s + 1])
          /\ \A k \in t + 2 .. t + n - 1 : v[k] = w[k + (s - t)]
          /\ \A k \in 1 .. Len(w) : k \notin t .. t + n - 1 => v[k] = w[k]
        BY <2>5, <2>8
    <2>10. ASSUME NEW id \in DOMAIN at \ {x}
           PROVE  /\ v[at[id]] = w[at[id]] /\ v[at[id] + 1] = w[at[id] + 1]
                  /\ \A k \in FieldSlots(w, at[id]) : v[k] = w[k]
        <3> DEFINE a == at[id]
                   m == Size(w, at[id])
                   l == Len(w)
        <3>1. a + m <= t \/ t + n <= a
            <4>1. a \in Nat /\ m \in Nat /\ s \in Nat /\ n \in Nat /\ t \in Nat /\ t <= s
                BY <1>3, <2>2
            <4>2. CASE id \in Passed
                <5>1. id \in Placed /\ Place(id) = a /\ a < s
                    BY <1>1, <1>2, <4>2 DEF Placed, Place, Passed
                <5>2. PICK i \in Placed : i = id
                    BY <5>1
                <5>3. \/ Place(i) + Size(w, at[i]) <= t
                      \/ t + n <= Place(i)
                    <6>1. Tiled(Places, Sizes(w, at), 1, FreeSlot)
                        BY <1>1 DEF IInv, PlacesSound
                    <6>2. DOMAIN Places = Placed /\ Places[i] = Place(i) /\ Places[x] = t
                        BY <2>1 DEF Places
                    <6>3. Sizes(w, at)[i] = Size(w, at[i]) /\ Sizes(w, at)[x] = n
                        BY <1>3, <5>2
                    <6> DEFINE z == Sizes(w, at)
                    <6>4. Places[i] + z[i] <= Places[x] \/ Places[x] + z[x] <= Places[i]
                        <7> HIDE DEF z
                        <7> QED
                            BY <2>1, <5>2, <6>1, <6>2 DEF Tiled, z
                    <6> QED
                        BY <6>2, <6>3, <6>4
                <5> QED
                    BY <5>1, <5>2, <5>3
            <4>3. CASE id \notin Passed
                <5>1. a >= s + n
                    BY <1>3, <4>3
                <5> HIDE DEF a, s, n, t
                <5> QED
                    BY <4>1, <5>1
            <4> QED
                BY <4>2, <4>3
        <3>2. /\ a \in Nat /\ a >= 1 /\ m \in Nat /\ m >= 2 /\ a < l /\ l \in Nat /\ n \in Nat /\ t \in Nat
              /\ a + m <= l + 1
            <4>1. a + m <= l + 1
                <5>1. CASE id \in Passed
                    <6>1. a + m <= s /\ s + n <= l + 1 /\ a \in Nat /\ m \in Nat /\ s \in Nat /\ n \in Nat /\ l \in Nat
                        BY <1>3, <5>1
                    <6> HIDE DEF a, m, s, n, l
                    <6> QED
                        BY <6>1
                <5>2. CASE id \notin Passed
                    <6>1. Tiled(Unmoved, Sizes(w, at), at[x], Len(w) + 1)
                        BY <1>1, <1>2, RelocateFacts
                    <6>2. id \in DOMAIN Unmoved /\ Unmoved[id] = at[id]
                        BY <5>2 DEF Unmoved
                    <6>3. Sizes(w, at)[id] = m
                        BY <1>3
                    <6> HIDE DEF m
                    <6> QED
                        BY <6>1, <6>2, <6>3 DEF Tiled
                <5> QED
                    BY <5>1, <5>2
            <4> QED
                BY <1>3, <2>2, <4>1
        <3>3. FieldSlots(w, at[id]) \subseteq a + 2 .. a + m - 1
            BY <1>1, TypedFacts, SizeFacts
        <3> HIDE DEF a, m, l, n, t
        <3>4. \A k \in a .. a + m - 1 : k \in 1 .. l /\ k \notin t .. t + n - 1
            BY <3>1, <3>2
        <3>5. \A k \in a .. a + m - 1 : v[k] = w[k]
            BY <2>9, <3>4 DEF l
        <3>6. a \in a .. a + m - 1 /\ a + 1 \in a .. a + m - 1 /\ a + 2 .. a + m - 1 \subseteq a .. a + m - 1
            BY <3>2
        <3> QED
            BY <3>3, <3>5, <3>6 DEF a
    <2>11. \A k \in FieldSlots(v, t) : \E m \in FieldSlots(w, s) : v[k] = w[m]
        <3>1. v[t] = w[s] /\ Size(v, t) = n
            BY <2>9 DEF Size
        <3>2. s \in Nat /\ n \in Nat /\ t \in Nat
            BY <1>3, <2>2
        <3> SUFFICES ASSUME NEW k \in FieldSlots(v, t)
                     PROVE  k + (s - t) \in FieldSlots(w, s) /\ k \in t + 2 .. t + n - 1
            BY <2>9
        <3>3. FieldSlots(v, t) = IF TAG(w[s]) = STRING_TAG THEN {}
                                 ELSE (IF TAG(w[s]) \in {SEXP_TAG, CLOSURE_TAG} THEN t + 3 ELSE t + 2) .. t + n - 1
            BY <3>1 DEF FieldSlots
        <3>4. FieldSlots(w, s) = IF TAG(w[s]) = STRING_TAG THEN {}
                                 ELSE (IF TAG(w[s]) \in {SEXP_TAG, CLOSURE_TAG} THEN s + 3 ELSE s + 2) .. s + n - 1
            BY DEF FieldSlots
        <3> HIDE DEF s, n, t, v, w
        <3> QED
            BY <3>2, <3>3, <3>4
    <2>12. DOMAIN at' \subseteq DOMAIN at /\ DOMAIN at \ {x} \subseteq DOMAIN at' /\ (x \in DOMAIN at' <=> x \in AllMarked)
        BY <2>1, <2>6
    <2>13. /\ at'[x] = Place(x) /\ v[at'[x]] = w[at[x]] /\ v[at'[x] + 1] = RESET_MARK_BIT(w[at[x] + 1])
           /\ \A k \in FieldSlots(v, at'[x]) : \E m \in FieldSlots(w, at[x]) : v[k] = w[m]
        BY <2>6, <2>9, <2>11
    <2>14. \A id \in DOMAIN at \ {x} :
                 /\ at'[id] = at[id] /\ v[at[id]] = w[at[id]] /\ v[at[id] + 1] = w[at[id] + 1]
                 /\ \A k \in FieldSlots(w, at[id]) : v[k] = w[k]
        BY <2>6, <2>10
    <2> HIDE DEF v, w, t, s, n
    <2> QED
        BY <1>1, <1>2, <1>4, <2>7, <2>9, <2>12, <2>13, <2>14, RelocateFrame DEF v, w
<1> QED
    BY <1>7, <1>8

\* The words behind the last object go, and there is room.
LEMMA CompactEndKeeps ==
    ASSUME IInv, CompactEnd, UNCHANGED call
    PROVE  IInv' /\ Fits'
<1> DEFINE w == heap.words
           v == heap.words'
           f == FreeSlot - 1
<1>1. /\ Typed /\ phase = "relocate" /\ phase' = "alloc" /\ scan >= Current(heap)
      /\ UNCHANGED << stack, mutator, call, at >> /\ field' = 0 /\ field_end' = 0
      /\ Aligned(scan) /\ ScanSlot \in Starts /\ phase \in Compacting
      /\ heap' = [heap EXCEPT !.words = SubSeq(w, 1, live_size)]
    BY DEF IInv, CompactEnd, ScanSound, Compacting
<1>2. Passed = DOMAIN at
    BY <1>1, ScanEnds
<1>3. /\ Kept = DOMAIN at /\ Placed = DOMAIN at /\ Origin = old_heap.begin
      /\ \A id \in DOMAIN at : Place(id) = at[id] /\ RootWord(id) = Content(heap.begin, at[id])
      /\ \A id \in DOMAIN at : \A owner : FieldWord(id, owner) = Content(heap.begin, at[id])
    <2>1. Kept = DOMAIN at /\ Placed = DOMAIN at /\ Origin = old_heap.begin
        BY <1>1, <1>2 DEF Kept, Placed, Origin, AllMarked
    <2>2. \A id \in DOMAIN at : Place(id) = at[id] /\ RootWord(id) = Content(heap.begin, at[id])
        BY <1>1, <1>2 DEF Place, RootWord
    <2> QED
        BY <1>1, <2>1, <2>2 DEF FieldWord
<1>4. /\ Objects(w, at) /\ w \in Seq(Int) /\ Len(w) \in Nat /\ heap.begin \in Nat
      /\ \A id \in DOMAIN at :
            /\ at[id] \in Nat /\ at[id] >= 1 /\ w[at[id]] \in Nat /\ w[at[id] + 1] \in Int
            /\ Size(w, at[id]) \in Nat /\ Size(w, at[id]) >= 2
            /\ FieldSlots(w, at[id]) \subseteq at[id] + 2 .. at[id] + Size(w, at[id]) - 1
    BY <1>1, TypedFacts, SizeFacts
<1>5. /\ FreeSlot \in Nat /\ FreeSlot >= 1 /\ FreeSlot <= Len(w) + 1 /\ old_heap.begin \in Nat
      /\ free_ptr = old_heap.begin + WordBytes * f
      /\ \A id \in DOMAIN at : at[id] + Size(w, at[id]) <= FreeSlot
    <2>1. PlacesSound
        BY DEF IInv
    <2> QED
        BY <1>1, <1>3, <2>1, PlaceFacts DEF PlacesSound
<1>6. f \in Nat /\ f <= Len(w) /\ live_size = f
    <2>1. f \in Nat /\ f <= Len(w)
        BY <1>4, <1>5
    <2>2. live_size = (free_ptr - old_heap.begin) \div 4 /\ free_ptr = old_heap.begin + 4 * f
        BY <1>5 DEF live_size, WordBytes
    <2> HIDE DEF f
    <2> QED
        BY <1>5, <2>1, <2>2
<1>7. Tiled(at, Sizes(w, at), 1, f + 1)
    <2>1. Tiled(Places, Sizes(w, at), 1, FreeSlot)
        BY <1>1 DEF IInv, PlacesSound
    <2>2. DOMAIN at = DOMAIN Places /\ \A id \in DOMAIN Places : at[id] = Places[id]
        BY <1>3 DEF Places
    <2> DEFINE z == Sizes(w, at)
    <2>3. Tiled(Places, z, 1, FreeSlot)
        BY <2>1
    <2> HIDE DEF z
    <2>4. Tiled(at, z, 1, FreeSlot)
        BY <2>2, <2>3, TiledSame
    <2>5. f + 1 = FreeSlot
        BY <1>5
    <2> HIDE DEF f
    <2> QED
        BY <2>4, <2>5 DEF z
<1> HIDE DEF f
<1>8. /\ heap' = [heap EXCEPT !.words = SubSeq(w, 1, f)]
      /\ heap.begin' = heap.begin /\ heap.size' = heap.size /\ v = SubSeq(w, 1, f)
    <2>1. heap \in [begin : Bases, size : Nat, words : Seq(Int)]
        BY <1>1 DEF Typed
    <2>2. heap' = [heap EXCEPT !.words = SubSeq(w, 1, f)]
        BY <1>1, <1>6
    <2> HIDE DEF w
    <2> QED
        BY <2>1, <2>2
<1>9. v \in Seq(Int) /\ Len(v) = f /\ \A k \in 1 .. f : v[k] = w[k]
    <2> HIDE DEF w
    <2>1. SubSeq(w, 1, f) \in Seq(Int) /\ Len(SubSeq(w, 1, f)) = f /\ \A k \in 1 .. f : SubSeq(w, 1, f)[k] = w[k]
        BY <1>4, <1>6
    <2> QED
        BY <1>8, <2>1
<1>10. \A id \in DOMAIN at :
          /\ at[id] < f /\ v[at[id]] = w[at[id]] /\ v[at[id] + 1] = w[at[id] + 1]
          /\ Size(v, at[id]) = Size(w, at[id]) /\ FieldSlots(v, at[id]) = FieldSlots(w, at[id])
          /\ \A k \in FieldSlots(w, at[id]) : v[k] = w[k]
    <2> SUFFICES ASSUME NEW id \in DOMAIN at
                 PROVE  /\ at[id] < f /\ v[at[id]] = w[at[id]] /\ v[at[id] + 1] = w[at[id] + 1]
                        /\ Size(v, at[id]) = Size(w, at[id]) /\ FieldSlots(v, at[id]) = FieldSlots(w, at[id])
                        /\ \A k \in FieldSlots(w, at[id]) : v[k] = w[k]
        OBVIOUS
    <2> DEFINE a == at[id]
               n == Size(w, at[id])
    <2>1. /\ a \in Nat /\ a >= 1 /\ n \in Nat /\ n >= 2 /\ a + n <= f + 1
          /\ FieldSlots(w, a) \subseteq a + 2 .. a + n - 1
        BY <1>4, <1>5 DEF f
    <2> HIDE DEF a, n
    <2>2. a < f /\ a \in 1 .. f /\ a + 1 \in 1 .. f /\ a + 2 .. a + n - 1 \subseteq 1 .. f
        BY <1>6, <2>1
    <2> HIDE DEF v, w
    <2>3. v[a] = w[a] /\ v[a + 1] = w[a + 1] /\ \A k \in FieldSlots(w, a) : v[k] = w[k]
        BY <1>9, <2>1, <2>2
    <2>4. Size(v, a) = Size(w, a) /\ FieldSlots(v, a) = FieldSlots(w, a)
        BY <2>3 DEF Size, FieldSlots
    <2> QED
        BY <2>2, <2>3, <2>4 DEF a
<1>11. Typed'
    <2>1. /\ heap \in [begin : Bases, size : Nat, words : Seq(Int)]
          /\ heap.size >= MinimumCapacity /\ Len(w) <= heap.size
          /\ born \in Nat /\ born <= MaxObjects /\ DOMAIN at \subseteq 1 .. born
          /\ stack \in Seq(Int) /\ native \in Seq(Int) /\ extra_roots \in Seq(DOMAIN native)
        BY <1>1 DEF Typed
    <2>2. heap' \in [begin : Bases, size : Nat, words : Seq(Int)]
        <3> DEFINE u == SubSeq(w, 1, f)
        <3>1. u \in Seq(Int)
            BY <1>8, <1>9
        <3>2. heap' = [heap EXCEPT !.words = u]
            BY <1>8
        <3> HIDE DEF u
        <3> QED
            BY <2>1, <3>1, <3>2
    <2>3. UNCHANGED << born, stack, native, extra_roots, at >>
        BY <1>1 DEF mutator
    <2>4. Objects(heap.words, at)'
        <3>1. at \in [DOMAIN at -> Nat \ {0}] /\ \A id \in DOMAIN at : w[at[id]] \in Nat
            BY <1>4 DEF Objects
        <3> QED
            BY <1>9, <1>10, <2>3, <3>1 DEF Objects
    <2>5. Len(v) <= heap.size'
        <3>1. f <= Len(w) /\ Len(w) <= heap.size /\ heap.size \in Nat /\ f \in Nat /\ Len(w) \in Nat
            BY <1>4, <1>6, <2>1
        <3> HIDE DEF v, w
        <3> QED
            BY <1>8, <1>9, <3>1
    <2> HIDE DEF v, w
    <2> QED
        BY <1>1, <1>8, <2>1, <2>2, <2>3, <2>4, <2>5 DEF Typed, v
<1>12. Kept' = DOMAIN at /\ \A id : /\ RootWord(id)' = Content(heap.begin, at[id])
                                    /\ \A owner : FieldWord(id, owner)' = Content(heap.begin, at[id])
    BY <1>1, <1>8 DEF Kept, RootWord, FieldWord
<1>13. ObjectsTile'
    <2>1. Sizes(v, at) = Sizes(w, at)
        BY <1>10 DEF Sizes
    <2> QED
        BY <1>1, <1>7, <1>9, <2>1 DEF ObjectsTile
<1>14. FieldsSound'
    <2>1. \A id \in DOMAIN at : \A k \in FieldSlots(w, at[id]) :
              UNBOXED(w[k]) \/ \E j \in DOMAIN at : w[k] = Content(heap.begin, at[j])
        BY <1>1, <1>3 DEF IInv, FieldsSound, Running
    <2>2. \A id \in DOMAIN at : \A k \in FieldSlots(v, at[id]) :
              UNBOXED(v[k]) \/ \E j \in DOMAIN at : v[k] = Content(heap.begin, at[j])
        BY <1>10, <2>1
    <2> QED
        BY <1>1, <1>12, <2>2 DEF FieldsSound
<1>15. StackSound' /\ NativesSound'
    <2>1. \A y : Sound(y)' <=> Sound(y)
        BY <1>3, <1>12 DEF Sound
    <2>2. \A i \in DOMAIN stack : Sound(stack[i])
        BY <1>1 DEF IInv, StackSound, Running
    <2>3. StackSound'
        BY <1>1, <2>1, <2>2 DEF StackSound
    <2>4. \A u \in Range(extra_roots) :
              \/ call.op \notin NeedsObjects /\ (UNBOXED(native[u]) \/ (call.op = "string" /\ native[u] = Outside))
              \/ \E id \in DOMAIN at : native[u] = Content(heap.begin, at[id]) /\ Argument(u, w[at[id]])
        BY <1>1, <1>3 DEF IInv, NativesSound, Running
    <2>5. \A u : \A id \in DOMAIN at : Argument(u, w[at[id]]) => Argument(u, heap.words[at[id]])'
        <3>1. \A id \in DOMAIN at : (heap.words[at[id]])' = w[at[id]]
            BY <1>1, <1>10
        <3> HIDE DEF w
        <3> QED
            BY <1>1, <3>1 DEF Argument
    <2>6. native' = native /\ extra_roots' = extra_roots /\ call' = call
        BY <1>1 DEF mutator
    <2>7. ASSUME NEW u \in Range(extra_roots)
          PROVE  \/ call.op \notin NeedsObjects /\ (UNBOXED(native[u]) \/ (call.op = "string" /\ native[u] = Outside))
                 \/ \E id \in DOMAIN at : native[u] = RootWord(id)' /\ Argument(u, heap.words[at[id]])'
        <3>1. CASE \E id \in DOMAIN at : native[u] = Content(heap.begin, at[id]) /\ Argument(u, w[at[id]])
            BY <1>12, <2>5, <3>1
        <3> QED
            BY <2>4, <3>1
    <2>8. NativesSound'
        BY <1>12, <2>6, <2>7 DEF NativesSound
    <2> QED
        BY <2>3, <2>8
<1>16. CallSound'
    <2>1. Popped' = Popped
        BY <1>1 DEF Popped, FieldCount
    <2> QED
        BY <2>1, <1>1 DEF CallSound, IInv, Collecting, Marking, Compacting, mutator
<1>17. FlagsSound'
    <2>1. ASSUME NEW id \in DOMAIN at
          PROVE  v[at[id] + 1] % 4 = 0
        <3>1. ~ENQUEUED(w[at[id] + 1]) /\ ~MARKED(w[at[id] + 1])
            BY <1>1, <1>2 DEF IInv, FlagsSound, Enqueued, Marked
        <3>2. v[at[id] + 1] = w[at[id] + 1] /\ w[at[id] + 1] \in Int
            BY <1>4, <1>10
        <3> DEFINE y == w[at[id] + 1]
        <3> HIDE DEF y
        <3>3. y \in Int /\ ~ENQUEUED(y) /\ ~MARKED(y)
            BY <3>1, <3>2 DEF y
        <3>4. y % 4 = 0
            BY <3>3, ForwardFacts
        <3> QED
            BY <3>2, <3>4 DEF y
    <2> QED
        BY <1>1, <2>1 DEF FlagsSound, Passed
<1>18. /\ MarkSound' /\ QueueSound' /\ FieldSound' /\ ScanSound' /\ PlacesSound' /\ RoomSound'
       /\ MarksWhatIsReachable'
    BY <1>1 DEF MarkSound, QueueSound, FieldSound, ScanSound, PlacesSound, RoomSound, MarksWhatIsReachable,
                Marking, Compacting
<1>19. Fits'
    <2>1. heap.size >= 2 * (FreeSlot - 1) + request
        BY <1>1 DEF IInv, RoomSound
    <2>2. request \in Nat
        <3>1. call.header \in Nat /\ request = ObjectWords(call.header)
            BY <1>1 DEF IInv, CallSound, Collecting
        <3> QED
            BY <3>1, HeaderFacts
    <2>3. heap.size >= 2 * f + request /\ heap.size \in Nat
        BY <1>1, <2>1 DEF f, Typed
    <2>4. f + request <= heap.size
        BY <1>6, <2>2, <2>3
    <2>5. request' = request
        BY <1>1 DEF mutator
    <2>6. Current(heap)' = heap.begin + 4 * f /\ End(heap)' = heap.begin + 4 * heap.size
        BY <1>8, <1>9 DEF Current, End, WordBytes
    <2>7. heap.begin + 4 * f + 4 * request <= heap.begin + 4 * heap.size
        BY <1>4, <1>6, <2>2, <2>3, <2>4
    <2> QED
        BY <2>5, <2>6, <2>7 DEF Fits, WordBytes
<1> QED
    BY <1>11, <1>13, <1>14, <1>15, <1>16, <1>17, <1>18, <1>19 DEF IInv

-----------------------------------------------------------------------------
(* Programs                                                                *)

\* Of the words on the stack those are places that point inside an object.
LEMMA PlaceWords ==
    ASSUME Typed, ObjectsTile, phase \in {"run", "alloc"}
    PROVE  /\ \A x : UNBOXED(x) => ~IsPlace(x)
           /\ \A id \in DOMAIN at : ~IsPlace(Content(heap.begin, at[id]))
           /\ \A x : Inside(x) => IsPlace(x)
<1> DEFINE first(id) == get_object_content_ptr(Address(heap, at[id]))
           end(id) == NextObject(heap, get_obj_header_ptr(first(id)))
           whole(x) == {id \in DOMAIN at : first(id) = x}
           within(x) == {id \in DOMAIN at : first(id) < x /\ x < end(id)}
<1>1. \A id \in DOMAIN at : /\ first(id) = Content(heap.begin, at[id])
                            /\ end(id) = Address(heap, at[id] + Size(heap.words, at[id]))
                            /\ at[id] \in Nat /\ Size(heap.words, at[id]) \in Nat
                            /\ Size(heap.words, at[id]) >= 2
                            /\ id \in Nat /\ id >= 1 /\ heap.begin \in Nat
    <2> SUFFICES ASSUME NEW id \in DOMAIN at
                 PROVE  /\ first(id) = Content(heap.begin, at[id])
                        /\ end(id) = Address(heap, at[id] + Size(heap.words, at[id]))
                        /\ at[id] \in Nat /\ Size(heap.words, at[id]) \in Nat
                        /\ Size(heap.words, at[id]) >= 2
                        /\ id \in Nat /\ id >= 1 /\ heap.begin \in Nat
        OBVIOUS
    <2>1. /\ at[id] \in Nat /\ Size(heap.words, at[id]) \in Nat /\ heap.begin \in Nat
          /\ Size(heap.words, at[id]) >= 2
        BY LayoutFacts
    <2>2. id \in Nat /\ id >= 1
        BY DEF Typed
    <2>3. first(id) = Content(heap.begin, at[id])
        BY <2>1, SlotFacts
    <2>4. end(id) = Address(heap, at[id] + Size(heap.words, at[id]))
        BY <2>1, <2>3, SlotFacts, ObjectFacts
    <2> QED
        BY <2>1, <2>2, <2>3, <2>4
<1>2. \A x : Value(heap, at, x) =
          IF UNBOXED(x) THEN x
          ELSE IF whole(x) # {} THEN Values!Reference(CHOOSE id \in whole(x) : TRUE)
          ELSE IF within(x) # {} THEN LET id == CHOOSE i \in within(x) : TRUE
                                      IN  Values!Place(id, (x - first(id)) \div WordBytes)
          ELSE 0
    BY DEF Value
<1>3. ASSUME NEW x, UNBOXED(x) PROVE ~IsPlace(x)
    BY <1>2, <1>3 DEF IsPlace, Values!IsPlace, UNBOXED, Values!UNBOXED
<1>4. ASSUME NEW id \in DOMAIN at PROVE ~IsPlace(Content(heap.begin, at[id]))
    <2> DEFINE x == Content(heap.begin, at[id])
    <2>1. id \in whole(x) /\ ~UNBOXED(x)
        BY <1>1, InHeap
    <2>2. PICK j \in DOMAIN at : Value(heap, at, x) = Values!Reference(j)
        BY <1>2, <2>1
    <2>3. j \in Nat /\ j >= 1
        BY <1>1
    <2>4. 2 * j >= 0
        BY <2>3
    <2> QED
        BY <2>2, <2>4, <2>3 DEF IsPlace, Values!IsPlace, Values!Reference
<1>5. ASSUME NEW x, Inside(x) PROVE IsPlace(x)
    <2>1. PICK i \in DOMAIN at : \E k \in at[i] + 3 .. at[i] + Size(heap.words, at[i]) - 1 : x = Address(heap, k)
        BY <1>5 DEF Inside
    <2>2. PICK k \in at[i] + 3 .. at[i] + Size(heap.words, at[i]) - 1 : x = Address(heap, k)
        BY <2>1
    <2>3. k \in Int /\ x \in Int
        BY <1>1, <2>2 DEF Address, WordBytes
    <2>4. ~UNBOXED(x) /\ whole(x) = {}
        BY <1>1, <1>5, InHeap DEF is_valid_heap_pointer
    <2>5. i \in within(x)
        <3> DEFINE a == at[i]
                   n == Size(heap.words, at[i])
                   b == heap.begin
        <3>1. a \in Nat /\ n \in Nat /\ b \in Nat /\ k \in a + 3 .. a + n - 1
            BY <1>1, <2>2
        <3> HIDE DEF a, n, b
        <3>2. b + 4 * (a + 1) < b + 4 * (k - 1) /\ b + 4 * (k - 1) < b + 4 * (a + n - 1)
            BY <3>1
        <3> QED
            BY <1>1, <2>2, <3>2 DEF Content, Address, WordBytes, a, n, b
    <2>6. PICK j \in within(x) : Value(heap, at, x) = Values!Place(j, (x - first(j)) \div WordBytes)
        BY <1>2, <2>4, <2>5
    <2>7. first(j) \in Int /\ first(j) < x /\ j \in Nat /\ j >= 1
        BY <1>1, <2>6 DEF Content, WordBytes
    <2> DEFINE m == (x - first(j)) \div WordBytes
               d == x - first(j)
    <2>8. m \in Int /\ m >= 0
        <3>1. d \in Int /\ d > 0
            BY <2>3, <2>7
        <3> HIDE DEF d
        <3>2. d \div 4 \in Int /\ d \div 4 >= 0
            BY <3>1
        <3> QED
            BY <3>2 DEF d, WordBytes
    <2> HIDE DEF m
    <2>9. -2 * (8 * j + m) < 0 /\ (-2 * (8 * j + m)) % 2 # 1
        BY <2>7, <2>8
    <2> QED
        BY <2>6, <2>9 DEF IsPlace, Values!IsPlace, Values!UNBOXED, Values!Place, m
<1> QED
    BY <1>3, <1>4, <1>5

\* What a program finds on its stack.
LEMMA StackWords ==
    ASSUME IInv, phase = "run"
    PROVE  /\ stack \in Seq(Int)
           /\ \A i \in DOMAIN stack : ~IsPlace(stack[i]) => Sound(stack[i])
           /\ \A i \in DOMAIN stack : IsPlace(stack[i]) => Inside(stack[i])
           /\ \A id : RootWord(id) = Content(heap.begin, at[id])
           /\ Kept = DOMAIN at
<1>1. Typed /\ ObjectsTile /\ StackSound
    BY DEF IInv
<1>2. Kept = DOMAIN at /\ \A id : RootWord(id) = Content(heap.begin, at[id])
    BY DEF Kept, RootWord
<1>3. \A x : Sound(x) => ~IsPlace(x)
    BY <1>1, <1>2, PlaceWords DEF Sound
<1> QED
    BY <1>1, <1>2, <1>3, PlaceWords DEF StackSound, Running, Typed

\* The words a function takes from the stack, and those it leaves there.
LEMMA TakenFacts ==
    ASSUME NEW s \in Seq(Int), NEW n \in Nat, n <= Len(s), NEW others \in Seq(Int)
    PROVE  LET taken == SubSeq(s, 1, n) \o others
               left == SubSeq(s, n + 1, Len(s))
           IN  /\ taken \in Seq(Int) /\ Len(taken) = n + Len(others)
               /\ \A i \in 1 .. n : taken[i] = s[i] /\ i \in DOMAIN s
               /\ \A i \in 1 .. Len(others) : taken[n + i] = others[i]
               /\ left \in Seq(Int) /\ Len(left) = Len(s) - n
               /\ \A i \in 1 .. Len(s) - n : left[i] = s[n + i] /\ n + i \in DOMAIN s
<1> DEFINE first == SubSeq(s, 1, n)
           left == SubSeq(s, n + 1, Len(s))
<1>1. first \in Seq(Int) /\ Len(first) = n /\ \A i \in 1 .. n : first[i] = s[i] /\ i \in DOMAIN s
    OBVIOUS
<1>2. left \in Seq(Int) /\ Len(left) = Len(s) - n
    OBVIOUS
<1>3. \A i \in 1 .. Len(s) - n : left[i] = s[n + i] /\ n + i \in DOMAIN s
    OBVIOUS
<1>4. Len(others) \in Nat
    OBVIOUS
<1> HIDE DEF first, left
<1>5. /\ first \o others \in Seq(Int) /\ Len(first \o others) = n + Len(others)
      /\ \A i \in 1 .. n : (first \o others)[i] = s[i]
    BY <1>1, <1>4
<1>6. ASSUME NEW i \in 1 .. Len(others) PROVE (first \o others)[n + i] = others[i]
    <2>1. /\ n + i \in 1 .. Len(first) + Len(others) /\ ~(n + i <= Len(first))
          /\ (n + i) - Len(first) = i
        BY <1>1, <1>4
    <2> QED
        BY <1>1, <2>1
<1> QED
    BY <1>1, <1>2, <1>3, <1>5, <1>6 DEF first, left

\* A program writes nothing of the collector's.
LEMMA NoCollection ==
    ASSUME phase' \in {"run", "alloc"}, IInv, phase \in {"run", "alloc"}, UNCHANGED gcvars
    PROVE  /\ MarkSound' /\ QueueSound' /\ FieldSound' /\ ScanSound' /\ PlacesSound' /\ RoomSound'
           /\ MarksWhatIsReachable'
BY DEF IInv, MarkSound, QueueSound, FieldSound, ScanSound, PlacesSound, RoomSound, MarksWhatIsReachable,
       Marking, Compacting, gcvars, search

\* A call keeps the invariant if what it registers is a value, or text that is
\* outside the heap, and what it is going to pop are no places.
LEMMA CallKeeps ==
    ASSUME IInv, NEW op, NEW header, NEW body, NEW n \in Nat, NEW others \in Seq(Int),
           NEW roots \in Seq(1 .. n + Len(others)), Call(op, header, body, n, others, roots),
           Popped' = 0 \/ (n = 0 /\ \A i \in 1 .. Popped' : ~IsPlace(stack[i])),
           CallSound', NativesSound'
    PROVE  IInv'
<1>1. /\ phase = "run" /\ phase' = "alloc" /\ n <= Len(stack) /\ Typed /\ stack \in Seq(Int)
      /\ native' = SubSeq(stack, 1, n) \o others /\ stack' = SubSeq(stack, n + 1, Len(stack))
      /\ extra_roots' = roots /\ UNCHANGED << heap, gcvars, born, at >>
    BY DEF Call, Plain, Below, IInv, Typed
<1>2. /\ native' \in Seq(Int) /\ Len(native') = n + Len(others)
      /\ stack' \in Seq(Int) /\ Len(stack') = Len(stack) - n
      /\ \A i \in 1 .. Len(stack) - n : stack'[i] = stack[n + i] /\ n + i \in DOMAIN stack
    <2> DEFINE s == stack
    <2>1. s \in Seq(Int) /\ n <= Len(s)
        BY <1>1
    <2> HIDE DEF s
    <2>2. LET taken == SubSeq(s, 1, n) \o others
              left == SubSeq(s, n + 1, Len(s))
          IN  /\ taken \in Seq(Int) /\ Len(taken) = n + Len(others)
              /\ left \in Seq(Int) /\ Len(left) = Len(s) - n
              /\ \A i \in 1 .. Len(s) - n : left[i] = s[n + i] /\ n + i \in DOMAIN s
        BY <2>1, TakenFacts
    <2> QED
        BY <1>1, <2>2 DEF s
<1>3. Typed'
    <2>1. DOMAIN native' = 1 .. n + Len(others)
        BY <1>2
    <2> QED
        BY <1>1, <1>2, <2>1 DEF Typed
<1>4. /\ Kept' = Kept /\ Kept = DOMAIN at
      /\ \A id, owner : /\ RootWord(id)' = RootWord(id)
                        /\ FieldWord(id, owner) = RootWord(id) /\ FieldWord(id, owner)' = RootWord(id)
    BY <1>1 DEF Kept, RootWord, FieldWord
<1>5. ObjectsTile'
    BY <1>1 DEF IInv, ObjectsTile
<1>6. FieldsSound'
    <2>1. \A id \in Kept : \A k \in FieldSlots(heap.words, at[id]) :
              UNBOXED(heap.words[k]) \/ \E j \in Kept : heap.words[k] = RootWord(j)
        BY <1>1, <1>4 DEF IInv, FieldsSound, Running
    <2>2. \A id \in Kept : \A k \in FieldSlots(heap.words, at[id])' :
              UNBOXED(heap.words'[k]) \/ \E j \in Kept : heap.words'[k] = FieldWord(j, id)'
        BY <1>1, <1>4, <2>1
    <2> QED
        BY <1>1, <1>4, <2>2 DEF FieldsSound
<1>7. StackSound'
    <2>1. /\ \A y : Sound(y)' <=> Sound(y)
          /\ \A y : Inside(y)' <=> Inside(y)
        BY <1>1, <1>4 DEF Sound, Inside
    <2>2. \A i \in DOMAIN stack : /\ ~IsPlace(stack[i]) => Sound(stack[i])
                                  /\ IsPlace(stack[i]) => Inside(stack[i])
        BY <1>1, StackWords
    <2>3. ASSUME NEW i \in DOMAIN stack'
          PROVE  Sound(stack'[i]) \/ (i > Popped' /\ Inside(stack'[i]))
        <3>1. i \in 1 .. Len(stack) - n
            BY <1>2
        <3>2. stack'[i] = stack[n + i] /\ n + i \in DOMAIN stack
            BY <1>2, <3>1
        <3>3. CASE ~IsPlace(stack[n + i])
            BY <2>2, <3>2, <3>3
        <3>4. CASE IsPlace(stack[n + i])
            <4>1. Inside(stack'[i])
                BY <2>2, <3>2, <3>4
            <4>2. CASE Popped' = 0
                BY <3>1, <4>1, <4>2
            <4>3. CASE n = 0 /\ \A j \in 1 .. Popped' : ~IsPlace(stack[j])
                <5>1. i \notin 1 .. Popped' /\ i >= 1 /\ i \in Int
                    BY <3>1, <3>4, <4>3
                <5>2. Popped' \in Nat
                    <6>1. (Popped \in 0 .. Len(stack))'
                        BY <1>1 DEF CallSound
                    <6>2. Popped' \in 0 .. Len(stack') /\ Len(stack') \in Nat
                        BY <1>2, <6>1
                    <6> QED
                        BY <6>2
                <5> QED
                    BY <4>1, <5>1, <5>2
            <4> QED
                BY <4>2, <4>3
        <3> QED
            BY <3>3, <3>4
    <2> QED
        BY <1>1, <2>1, <2>3 DEF StackSound
<1>8. FlagsSound'
    BY <1>1 DEF IInv, FlagsSound
<1> QED
    BY <1>1, <1>3, <1>5, <1>6, <1>7, <1>8, NoCollection DEF IInv

\* What a word refers to that is the address of an object.
LEMMA ObjectWord ==
    ASSUME Typed, NEW x, NEW tags, IsObject(x, tags)
    PROVE  \E id \in DOMAIN at :
              /\ x = Content(heap.begin, at[id]) /\ TAG(heap.words[at[id]]) \in tags
              /\ TypeOf(heap, x) = TAG(heap.words[at[id]])
              /\ LengthOf(heap, x) = LEN(heap.words[at[id]])
              /\ WordAt(heap, get_obj_header_ptr(x)) = heap.words[at[id]]
              /\ Fields(heap, x) = {Address(heap, k) : k \in FieldSlots(heap.words, at[id])}
<1>1. PICK id \in DOMAIN at : x = Begins(id)
    BY DEF IsObject, PointsToObject
<1>2. /\ x = Content(heap.begin, at[id]) /\ heap.begin \in Int /\ Objects(heap.words, at)
      /\ TypeOf(heap, x) \in tags
    BY <1>1, TypedFacts DEF IsObject
<1>3. at[id] \in Int /\ heap.begin \in Int /\ Size(heap.words, at[id]) \in Int
    BY <1>2, SizeFacts
<1> DEFINE p == Content(heap.begin, at[id])
<1>4. /\ TypeOf(heap, p) = TAG(heap.words[at[id]])
      /\ LengthOf(heap, p) = LEN(heap.words[at[id]])
      /\ WordAt(heap, get_obj_header_ptr(p)) = heap.words[at[id]]
      /\ Fields(heap, p) = {Address(heap, k) : k \in FieldSlots(heap.words, at[id])}
    <2>1. WordAt(heap, get_obj_header_ptr(p)) = heap.words[at[id]]
        BY <1>3, SlotFacts, WordFacts
    <2> HIDE DEF p
    <2>2. TypeOf(heap, p) = TAG(heap.words[at[id]]) /\ LengthOf(heap, p) = LEN(heap.words[at[id]])
        BY <2>1 DEF TypeOf, LengthOf
    <2>3. p = x
        BY <1>2 DEF p
    <2> QED
        BY <1>1, <2>1, <2>2, <2>3, AtObject
<1> QED
    BY <1>2, <1>4

\* What the variables of a function are when it is called.
LEMMA TakenWords ==
    ASSUME IInv, NEW n \in Nat, NEW others \in Seq(Int), phase = "run", Plain(n),
           native' = SubSeq(stack, 1, n) \o others, phase' = "alloc", UNCHANGED << heap, at >>
    PROVE  /\ Len(native') = n + Len(others)
           /\ \A i \in 1 .. n :
                 /\ native'[i] = stack[i] /\ i \in DOMAIN stack
                 /\ \/ UNBOXED(native'[i])
                    \/ \E id \in Kept' : native'[i] = RootWord(id)'
           /\ \A i \in 1 .. Len(others) : native'[n + i] = others[i]
           /\ Kept' = DOMAIN at /\ \A id : RootWord(id)' = Content(heap.begin, at[id])
<1>1. n <= Len(stack) /\ \A i \in 1 .. n : ~IsPlace(stack[i])
    BY DEF Plain
<1>2. /\ stack \in Seq(Int)
      /\ \A i \in DOMAIN stack : ~IsPlace(stack[i]) => Sound(stack[i])
      /\ \A id : RootWord(id) = Content(heap.begin, at[id])
      /\ Kept = DOMAIN at
    BY StackWords
<1>3. Kept' = DOMAIN at /\ \A id : RootWord(id)' = Content(heap.begin, at[id])
    BY DEF Kept, RootWord
<1> DEFINE s == stack
<1>4. /\ Len(native') = n + Len(others)
      /\ \A i \in 1 .. n : native'[i] = s[i] /\ i \in DOMAIN s
      /\ \A i \in 1 .. Len(others) : native'[n + i] = others[i]
    <2>1. s \in Seq(Int) /\ n <= Len(s) /\ native' = SubSeq(s, 1, n) \o others
        BY <1>1, <1>2
    <2> HIDE DEF s
    <2>2. LET taken == SubSeq(s, 1, n) \o others
          IN  /\ Len(taken) = n + Len(others)
              /\ \A i \in 1 .. n : taken[i] = s[i] /\ i \in DOMAIN s
              /\ \A i \in 1 .. Len(others) : taken[n + i] = others[i]
        BY <2>1, TakenFacts
    <2> QED
        BY <2>1, <2>2
<1>5. \A i \in 1 .. n : UNBOXED(s[i]) \/ \E id \in DOMAIN at : s[i] = Content(heap.begin, at[id])
    BY <1>1, <1>2, <1>4 DEF Sound
<1> QED
    BY <1>3, <1>4, <1>5

\* The fields of a new array, S-expression or closure stay on the stack.
LEMMA FieldsCallKeeps ==
    ASSUME IInv, NEW op \in {"array", "sexp", "closure"}, NEW n \in Nat,
           NEW tag \in {ARRAY_TAG, SEXP_TAG, CLOSURE_TAG},
           NEW length \in Nat, NEW body \in Seq(Int), Plain(n),
           op = "array" => tag = ARRAY_TAG /\ length = n /\ body = << >>,
           op = "sexp" => tag = SEXP_TAG /\ length = n /\ Len(body) = 1,
           op = "closure" => tag = CLOSURE_TAG /\ length = n + 1 /\ Len(body) = 1,
           Call(op, DataHeader(tag, length), body, 0, << >>, << >>)
    PROVE  IInv'
<1>1. /\ phase = "run" /\ phase' = "alloc" /\ born < MaxObjects /\ born' = born
      /\ call' = [op |-> op, header |-> DataHeader(tag, length), body |-> body]
      /\ request' = ObjectWords(DataHeader(tag, length))
      /\ stack' = Below(0) /\ extra_roots' = << >>
    BY DEF Call
<1>2. DataHeader(tag, length) \in Nat /\ LEN(DataHeader(tag, length)) = length
    BY DataHeaderFacts
<1>3. Popped' = n
    BY <1>1, <1>2 DEF Popped, FieldCount
<1>4. Len(stack') = Len(stack) /\ n <= Len(stack) /\ \A i \in 1 .. n : ~IsPlace(stack[i])
    <2> DEFINE s == stack
    <2>1. s \in Seq(Int) /\ stack' = SubSeq(s, 0 + 1, Len(s))
        BY <1>1, StackWords DEF Below
    <2> HIDE DEF s
    <2>2. Len(SubSeq(s, 0 + 1, Len(s))) = Len(s) /\ Len(s) \in Nat
        BY <2>1
    <2> QED
        BY <2>1, <2>2 DEF s, Plain
<1>5. Range(extra_roots') = {} /\ << >> \in Seq(Int) /\ << >> \in Seq(1 .. 0 + Len(<< >>))
    BY <1>1 DEF Range
<1>6. NativesSound'
    BY <1>5 DEF NativesSound
<1>7. CallSound'
    <2>1. Popped' \in 0 .. Len(stack')
        <3>1. Len(stack) \in Nat
            BY <1>1, StackWords
        <3> QED
            BY <1>3, <1>4, <3>1
    <2> QED
        BY <1>1, <1>2, <1>3, <2>1 DEF CallSound
<1> QED
    BY <1>3, <1>4, <1>5, <1>6, <1>7, CallKeeps

\* The calls that leave their arguments on the stack.
LEMMA BarrayKeeps ==
    ASSUME IInv, NEW n \in Nat, Plain(n), Barray(n)
    PROVE  IInv'
<1>1. Call("array", DataHeader(ARRAY_TAG, n), << >>, 0, << >>, << >>) /\ << >> \in Seq(Int)
    BY DEF Barray
<1> QED
    BY <1>1, FieldsCallKeeps

\* Barray's reasoning, with the tag in the body ...
LEMMA BsexpKeeps ==
    ASSUME IInv, NEW n \in Nat, NEW x \in Int, Plain(n), Bsexp(n, x)
    PROVE  IInv'
<1>1. /\ Call("sexp", DataHeader(SEXP_TAG, n), << x >>, 0, << >>, << >>)
      /\ << x >> \in Seq(Int) /\ Len(<< x >>) = 1
    BY DEF Bsexp
<1> QED
    BY <1>1, FieldsCallKeeps

\* ... and with the entry.
LEMMA BclosureKeeps ==
    ASSUME IInv, NEW n \in Nat, NEW x \in Int, Plain(n), Bclosure(n, x)
    PROVE  IInv'
<1>1. /\ Call("closure", DataHeader(CLOSURE_TAG, n + 1), << x >>, 0, << >>, << >>)
      /\ << x >> \in Seq(Int) /\ Len(<< x >>) = 1 /\ n + 1 \in Nat
    BY DEF Bclosure
<1> QED
    BY <1>1, FieldsCallKeeps

\* What a call that pops its arguments leaves of the stack and of the counts.
LEMMA CalledFacts ==
    ASSUME IInv, NEW op \in {"cons", "string"} \cup NeedsObjects, NEW header \in Nat, NEW body,
           NEW n \in Nat, NEW others \in Seq(Int), NEW roots, Call(op, header, body, n, others, roots)
    PROVE  /\ phase = "run" /\ phase' = "alloc" /\ born < MaxObjects /\ born' = born
           /\ call' = [op |-> op, header |-> header, body |-> body]
           /\ request' = ObjectWords(header) /\ extra_roots' = roots
           /\ Popped' = 0 /\ Popped' \in 0 .. Len(stack') /\ Plain(n)
           /\ native' = SubSeq(stack, 1, n) \o others /\ UNCHANGED << heap, at >>
<1>1. /\ phase = "run" /\ phase' = "alloc" /\ born < MaxObjects /\ born' = born
      /\ call' = [op |-> op, header |-> header, body |-> body]
      /\ request' = ObjectWords(header) /\ extra_roots' = roots /\ Plain(n)
      /\ native' = SubSeq(stack, 1, n) \o others /\ UNCHANGED << heap, at >>
      /\ stack' = SubSeq(stack, n + 1, Len(stack))
    BY DEF Call, Below
<1>2. Popped' = 0
    BY <1>1 DEF Popped, NeedsObjects
<1>3. Len(stack') \in Nat
    <2>1. stack \in Seq(Int) /\ n <= Len(stack)
        BY <1>1, StackWords DEF Plain
    <2> DEFINE s == stack
    <2>2. s \in Seq(Int) /\ n <= Len(s)
        BY <2>1
    <2> HIDE DEF s
    <2>3. Len(SubSeq(s, n + 1, Len(s))) \in Nat
        BY <2>2
    <2> QED
        BY <1>1, <2>3 DEF s
<1> QED
    BY <1>1, <1>2, <1>3

\* The text is outside the heap, and its address registered.
LEMMA BstringKeeps ==
    ASSUME IInv, NEW c \in Int, Bstring(c)
    PROVE  IInv'
<1> DEFINE header == StringHeader(<< c >>)
<1>1. /\ Call("string", header, << c >>, 0, << Outside >>, << 1 >>) /\ << Outside >> \in Seq(Int)
      /\ << c >> \in Seq(Int) /\ << 1 >> \in Seq(1 .. 0 + Len(<< Outside >>))
    BY DEF Bstring, Outside, WordBytes
<1>2. header \in Nat /\ TAG(header) = STRING_TAG
    <2>1. WordBytes * Len(<< c >>) \in Nat
        BY DEF WordBytes
    <2> QED
        BY <2>1, DataHeaderFacts DEF StringHeader
<1> HIDE DEF header
<1>3. /\ phase = "run" /\ phase' = "alloc" /\ born < MaxObjects /\ born' = born
      /\ call' = [op |-> "string", header |-> header, body |-> << c >>]
      /\ request' = ObjectWords(header) /\ extra_roots' = << 1 >>
      /\ Popped' = 0 /\ Popped' \in 0 .. Len(stack') /\ Plain(0)
      /\ native' = SubSeq(stack, 1, 0) \o << Outside >> /\ UNCHANGED << heap, at >>
    BY <1>1, <1>2, CalledFacts
<1>4. native'[1] = Outside /\ Range(extra_roots') = {1}
    <2>1. 1 \in 1 .. Len(<< Outside >>) /\ native'[0 + 1] = << Outside >>[1]
        BY <1>1, <1>3, TakenWords
    <2> QED
        BY <1>3, <2>1 DEF Range
<1>5. NativesSound'
    BY <1>3, <1>4 DEF NativesSound, NeedsObjects
<1>6. CallSound'
    BY <1>1, <1>2, <1>3 DEF CallSound, NeedsObjects
<1>7. Popped' = 0
    BY <1>3
<1> DEFINE others == << Outside >>
           roots == << 1 >>
           body == << c >>
<1>8. /\ Call("string", header, body, 0, others, roots) /\ others \in Seq(Int) /\ body \in Seq(Int)
      /\ roots \in Seq(1 .. 0 + Len(others)) /\ 0 \in Nat
    BY <1>1
<1> HIDE DEF others, roots, body
<1> QED
    BY <1>5, <1>6, <1>7, <1>8, CallKeeps

\* The text that is returned is outside the heap; the argument is registered.
LEMMA LstringKeeps ==
    ASSUME IInv, NEW c \in Int, Lstring(c)
    PROVE  IInv'
<1> DEFINE header == StringHeader(<< c >>)
<1>1. /\ Call("string", header, << c >>, 1, << Outside >>, << 1, 2 >>) /\ << Outside >> \in Seq(Int)
      /\ << c >> \in Seq(Int) /\ << 1, 2 >> \in Seq(1 .. 1 + Len(<< Outside >>))
    BY DEF Lstring, Outside, WordBytes
<1>2. header \in Nat /\ TAG(header) = STRING_TAG
    <2>1. WordBytes * Len(<< c >>) \in Nat
        BY DEF WordBytes
    <2> QED
        BY <2>1, DataHeaderFacts DEF StringHeader
<1> HIDE DEF header
<1>3. /\ phase = "run" /\ phase' = "alloc" /\ born < MaxObjects /\ born' = born
      /\ call' = [op |-> "string", header |-> header, body |-> << c >>]
      /\ request' = ObjectWords(header) /\ extra_roots' = << 1, 2 >>
      /\ Popped' = 0 /\ Popped' \in 0 .. Len(stack') /\ Plain(1)
      /\ native' = SubSeq(stack, 1, 1) \o << Outside >> /\ UNCHANGED << heap, at >>
    BY <1>1, <1>2, CalledFacts
<1>4. /\ native'[2] = Outside /\ Range(extra_roots') = {1, 2}
      /\ UNBOXED(native'[1]) \/ \E id \in Kept' : native'[1] = RootWord(id)'
    <2>1. 1 \in 1 .. Len(<< Outside >>) /\ native'[1 + 1] = << Outside >>[1]
        BY <1>1, <1>3, TakenWords
    <2>2. \A v \in 1 .. 1 : UNBOXED(native'[v]) \/ \E id \in Kept' : native'[v] = RootWord(id)'
        BY <1>1, <1>3, TakenWords
    <2> QED
        BY <1>3, <2>1, <2>2 DEF Range
<1>5. NativesSound'
    <2> QED
        BY <1>3, <1>4 DEF NativesSound, NeedsObjects, Argument
<1>6. CallSound'
    BY <1>1, <1>2, <1>3 DEF CallSound, NeedsObjects
<1>7. Popped' = 0
    BY <1>3
<1> DEFINE others == << Outside >>
           roots == << 1, 2 >>
           body == << c >>
<1>8. /\ Call("string", header, body, 1, others, roots) /\ others \in Seq(Int) /\ body \in Seq(Int)
      /\ roots \in Seq(1 .. 1 + Len(others)) /\ 1 \in Nat
    BY <1>1
<1> HIDE DEF others, roots, body
<1> QED
    BY <1>5, <1>6, <1>7, <1>8, CallKeeps

\* The parameters are registered, the copies that are passed on are not.
LEMMA Cons58Keeps ==
    ASSUME IInv, NEW tag \in Int, Cons58(tag)
    PROVE  IInv'
<1> DEFINE header == DataHeader(SEXP_TAG, 2)
           others == << stack[1], stack[2] >>
<1>1. /\ Call("cons", header, << tag >>, 2, others, << 2, 1 >>) /\ Len(stack) > 1
      /\ << tag >> \in Seq(Int) /\ Len(<< tag >>) = 1
    BY DEF Cons58
<1>2. header \in Nat
    BY DataHeaderFacts
<1>3. others \in Seq(Int) /\ Len(others) = 2 /\ << 2, 1 >> \in Seq(1 .. 2 + Len(others))
    <2>1. stack \in Seq(Int)
        BY DEF IInv, Typed
    <2>2. stack[1] \in Int /\ stack[2] \in Int
        BY <1>1, <2>1
    <2> QED
        BY <2>2
<1> HIDE DEF others, header
<1>4. /\ phase = "run" /\ phase' = "alloc" /\ born < MaxObjects /\ born' = born
      /\ call' = [op |-> "cons", header |-> header, body |-> << tag >>]
      /\ request' = ObjectWords(header) /\ extra_roots' = << 2, 1 >>
      /\ Popped' = 0 /\ Popped' \in 0 .. Len(stack') /\ Plain(2)
      /\ native' = SubSeq(stack, 1, 2) \o others /\ UNCHANGED << heap, at >>
    BY <1>1, <1>2, <1>3, CalledFacts DEF NeedsObjects
<1>5. /\ Len(native') = 4 /\ Range(extra_roots') = {1, 2}
      /\ \A v \in 1 .. 2 : UNBOXED(native'[v]) \/ \E id \in Kept' : native'[v] = RootWord(id)'
    <2>1. Len(native') = 2 + Len(others)
        BY <1>3, <1>4, TakenWords
    <2>2. \A v \in 1 .. 2 : UNBOXED(native'[v]) \/ \E id \in Kept' : native'[v] = RootWord(id)'
        BY <1>3, <1>4, TakenWords
    <2>3. Range(extra_roots') = {1, 2}
        BY <1>4 DEF Range
    <2> QED
        BY <1>3, <2>1, <2>2, <2>3
<1>6. NativesSound'
    BY <1>4, <1>5 DEF NativesSound, NeedsObjects, Argument
<1>7. CallSound'
    BY <1>1, <1>2, <1>4, <1>5 DEF CallSound, NeedsObjects, header
<1>8. Popped' = 0
    BY <1>4
<1> DEFINE roots == << 2, 1 >>
           body == << tag >>
<1>9. /\ Call("cons", header, body, 2, others, roots) /\ others \in Seq(Int) /\ body \in Seq(Int)
      /\ roots \in Seq(1 .. 2 + Len(others)) /\ 2 \in Nat
    BY <1>1, <1>3
<1> HIDE DEF roots, body
<1> QED
    BY <1>6, <1>7, <1>8, <1>9, CallKeeps

\* A variable that is an object keeps to be one.
LEMMA TakenObject ==
    ASSUME IInv, phase = "run", phase' = "alloc", UNCHANGED << heap, at >>,
           NEW x, NEW tags, IsObject(x, tags)
    PROVE  \E id \in Kept' :
              /\ x = RootWord(id)' /\ (heap.words[at[id]])' = heap.words[at[id]]
              /\ heap.words[at[id]] \in Nat
              /\ WordAt(heap, get_obj_header_ptr(x)) = heap.words[at[id]]
              /\ TAG(heap.words[at[id]]) \in tags
              /\ TypeOf(heap, x) = TAG(heap.words[at[id]])
              /\ LengthOf(heap, x) = LEN(heap.words[at[id]])
<1>1. Typed
    BY DEF IInv
<1>2. PICK id \in DOMAIN at :
              /\ x = Content(heap.begin, at[id]) /\ TAG(heap.words[at[id]]) \in tags
              /\ TypeOf(heap, x) = TAG(heap.words[at[id]])
              /\ LengthOf(heap, x) = LEN(heap.words[at[id]])
              /\ WordAt(heap, get_obj_header_ptr(x)) = heap.words[at[id]]
    BY <1>1, ObjectWord
<1>3. heap.words[at[id]] \in Nat
    BY <1>1, TypedFacts, SizeFacts
<1>4. Kept' = DOMAIN at /\ RootWord(id)' = Content(heap.begin, at[id])
    BY DEF Kept, RootWord
<1>5. (heap.words[at[id]])' = heap.words[at[id]]
    OBVIOUS
<1> QED
    BY <1>2, <1>3, <1>4, <1>5

\* The object to be cloned, or the string whose text is copied, is registered.
LEMMA LcloneKeeps ==
    ASSUME IInv, Lclone
    PROVE  IInv'
<1> DEFINE p == stack[1]
           header == WordAt(heap, get_obj_header_ptr(p))
<1>1. IsObject(p, AnyTag) /\ stack # << >>
    BY DEF Lclone
<1>2. \/ TypeOf(heap, p) = STRING_TAG /\ Call("string copy", header, << >>, 1, << p >>, << 1, 2 >>)
      \/ Call("clone", header, << >>, 1, << >>, << 1 >>)
    BY DEF Lclone
<1>3. phase = "run" /\ phase' = "alloc" /\ UNCHANGED << heap, at >>
    BY <1>2 DEF Call
<1>4. PICK id \in Kept' :
              /\ p = RootWord(id)' /\ (heap.words[at[id]])' = header /\ header \in Nat
              /\ TypeOf(heap, p) = TAG(header)
    BY <1>1, <1>3, TakenObject
<1>5. p \in Int
    <2>1. stack \in Seq(Int)
        BY DEF IInv, Typed
    <2> QED
        BY <1>1, <2>1
<1> HIDE DEF p, header
<1> DEFINE body == << >>
<1>6. body \in Seq(Int)
    OBVIOUS
<1>7. CASE TypeOf(heap, p) = STRING_TAG /\ Call("string copy", header, << >>, 1, << p >>, << 1, 2 >>)
    <2> DEFINE others == << p >>
               roots == << 1, 2 >>
    <2>1. /\ Call("string copy", header, body, 1, others, roots)
          /\ others \in Seq(Int) /\ Len(others) = 1 /\ others[1] = p
          /\ roots \in Seq(1 .. 1 + Len(others)) /\ Range(roots) = {1, 2} /\ 1 \in Nat
        <3>1. Call("string copy", header, body, 1, others, roots)
            BY <1>7
        <3>2. others \in Seq(Int) /\ Len(others) = 1 /\ others[1] = p
            BY <1>5
        <3>3. roots \in Seq(1 .. 2) /\ Range(roots) = {1, 2}
            BY DEF Range
        <3> HIDE DEF others, roots
        <3>4. 1 + Len(others) = 2
            BY <3>2
        <3> QED
            BY <3>1, <3>2, <3>3, <3>4
    <2> HIDE DEF others, roots, body
    <2>2. /\ born < MaxObjects /\ born' = born
          /\ call' = [op |-> "string copy", header |-> header, body |-> body]
          /\ request' = ObjectWords(header) /\ extra_roots' = roots
          /\ Popped' = 0 /\ Popped' \in 0 .. Len(stack') /\ Plain(1)
          /\ native' = SubSeq(stack, 1, 1) \o others
        BY <1>4, <2>1, CalledFacts DEF NeedsObjects
    <2>3. Len(native') = 2 /\ native'[1] = p /\ native'[2] = p
        <3>1. Len(native') = 1 + Len(others) /\ \A i \in 1 .. 1 : native'[i] = stack[i]
            BY <1>3, <2>1, <2>2, TakenWords
        <3>2. \A i \in 1 .. Len(others) : native'[1 + i] = others[i]
            BY <1>3, <2>1, <2>2, TakenWords
        <3>3. Len(others) = 1 /\ others[1] = p
            BY <2>1
        <3>4. native'[1 + 1] = others[1]
            BY <3>2, <3>3
        <3>5. native'[2] = p /\ Len(native') = 2
            BY <3>1, <3>3, <3>4
        <3>6. native'[1] = stack[1]
            BY <3>1
        <3> QED
            BY <3>5, <3>6 DEF p
    <2>4. NativesSound'
        <3>1. \A v : Argument(v, heap.words[at[id]])'
            BY <1>4, <1>7, <2>2 DEF Argument
        <3> QED
            BY <1>4, <2>1, <2>2, <2>3, <3>1 DEF NativesSound
    <2>5. CallSound'
        BY <1>3, <1>4, <1>6, <1>7, <2>1, <2>2, <2>3 DEF CallSound, NeedsObjects
    <2> QED
        <3>1. Popped' = 0
            BY <2>2
        <3> DEFINE op == "string copy"
        <3>2. /\ Call(op, header, body, 1, others, roots)
              /\ others \in Seq(Int) /\ body \in Seq(Int) /\ roots \in Seq(1 .. 1 + Len(others)) /\ 1 \in Nat
            BY <1>6, <2>1
        <3> HIDE DEF op
        <3> QED
            BY <2>4, <2>5, <3>1, <3>2, CallKeeps
<1>8. CASE Call("clone", header, << >>, 1, << >>, << 1 >>)
    <2> DEFINE others == << >>
               roots == << 1 >>
    <2>1. /\ Call("clone", header, body, 1, others, roots)
          /\ others \in Seq(Int) /\ Len(others) = 0
          /\ roots \in Seq(1 .. 1 + Len(others)) /\ Range(roots) = {1} /\ 1 \in Nat
        BY <1>8 DEF Range
    <2> HIDE DEF others, roots, body
    <2>2. /\ born < MaxObjects /\ born' = born
          /\ call' = [op |-> "clone", header |-> header, body |-> body]
          /\ request' = ObjectWords(header) /\ extra_roots' = roots
          /\ Popped' = 0 /\ Popped' \in 0 .. Len(stack') /\ Plain(1)
          /\ native' = SubSeq(stack, 1, 1) \o others
        <3> DEFINE op == "clone"
        <3>1. /\ Call(op, header, body, 1, others, roots)
              /\ op \in {"cons", "string"} \cup NeedsObjects
              /\ others \in Seq(Int) /\ 1 \in Nat
            BY <2>1 DEF NeedsObjects
        <3> HIDE DEF op
        <3>2. header \in Nat
            BY <1>4
        <3>3. /\ born < MaxObjects /\ born' = born
              /\ call' = [op |-> op, header |-> header, body |-> body]
              /\ request' = ObjectWords(header) /\ extra_roots' = roots
              /\ Popped' = 0 /\ Popped' \in 0 .. Len(stack') /\ Plain(1)
              /\ native' = SubSeq(stack, 1, 1) \o others
            BY <3>1, <3>2, CalledFacts
        <3> QED
            BY <3>3 DEF op
    <2>3. Len(native') = 1 /\ native'[1] = p
        <3>1. Len(native') = 1 + Len(others) /\ \A i \in 1 .. 1 : native'[i] = stack[i]
            BY <1>3, <2>1, <2>2, TakenWords
        <3> QED
            BY <2>1, <3>1 DEF p
    <2>4. NativesSound'
        <3>1. \A v : Argument(v, heap.words[at[id]])'
            BY <1>4, <2>2 DEF Argument
        <3> QED
            BY <1>4, <2>1, <2>2, <2>3, <3>1 DEF NativesSound
    <2>5. CallSound'
        BY <1>3, <1>4, <1>6, <2>1, <2>2, <2>3 DEF CallSound, NeedsObjects
    <2> QED
        <3>1. Popped' = 0
            BY <2>2
        <3>2. /\ Call("clone", header, body, 1, others, roots)
              /\ others \in Seq(Int) /\ body \in Seq(Int) /\ roots \in Seq(1 .. 1 + Len(others)) /\ 1 \in Nat
            BY <1>6, <2>1
        <3> QED
            BY <2>4, <2>5, <3>1, <3>2, CallKeeps
<1> QED
    BY <1>2, <1>7, <1>8

\* Both strings are registered.
LEMMA ConcatKeeps ==
    ASSUME IInv, Concat
    PROVE  IInv'
<1> DEFINE length == LengthOf(heap, stack[1]) + LengthOf(heap, stack[2])
           header == DataHeader(STRING_TAG, length)
           body == << >>
           others == << >>
           roots == << 2, 1 >>
<1>1. /\ \A i \in 1 .. 2 : IsObject(stack[i], {STRING_TAG})
      /\ Call("concat", header, body, 2, others, roots)
    BY DEF Concat
<1>2. phase = "run" /\ phase' = "alloc" /\ UNCHANGED << heap, at >>
    BY <1>1 DEF Call
<1>3. \A i \in 1 .. 2 : \E id \in Kept' :
              /\ stack[i] = RootWord(id)' /\ heap.words[at[id]] \in Nat
              /\ TAG((heap.words[at[id]])') = STRING_TAG
              /\ LengthOf(heap, stack[i]) = LEN(heap.words[at[id]])
    BY <1>1, <1>2, TakenObject
<1>4. length \in Nat
    <2>1. \A i \in 1 .. 2 : LengthOf(heap, stack[i]) \in Nat
        BY <1>3, HeaderFacts
    <2>2. LengthOf(heap, stack[1]) \in Nat /\ LengthOf(heap, stack[2]) \in Nat
        BY <2>1
    <2> QED
        BY <2>2
<1> HIDE DEF length
<1>5. header \in Nat /\ TAG(header) = STRING_TAG
    BY <1>4, DataHeaderFacts
<1>6. /\ body \in Seq(Int) /\ others \in Seq(Int) /\ Len(others) = 0 /\ 2 \in Nat
      /\ roots \in Seq(1 .. 2 + Len(others)) /\ Range(roots) = {1, 2}
    BY DEF Range
<1> HIDE DEF header, body, others, roots
<1>7. /\ born < MaxObjects /\ born' = born
      /\ call' = [op |-> "concat", header |-> header, body |-> body]
      /\ request' = ObjectWords(header) /\ extra_roots' = roots
      /\ Popped' = 0 /\ Popped' \in 0 .. Len(stack') /\ Plain(2)
      /\ native' = SubSeq(stack, 1, 2) \o others
    BY <1>1, <1>5, <1>6, CalledFacts DEF NeedsObjects
<1>8. Len(native') = 2 /\ \A i \in 1 .. 2 : native'[i] = stack[i]
    <2>1. Len(native') = 2 + Len(others) /\ \A i \in 1 .. 2 : native'[i] = stack[i]
        BY <1>2, <1>6, <1>7, TakenWords
    <2> QED
        BY <1>6, <2>1
<1>9. NativesSound'
    <2>1. \A v : \A id \in Kept' : TAG((heap.words[at[id]])') = STRING_TAG
              => Argument(v, heap.words[at[id]])'
        BY <1>7 DEF Argument
    <2> QED
        <3>1. \A v \in {1, 2} : \E id \in Kept' : native'[v] = RootWord(id)' /\ Argument(v, heap.words[at[id]])'
            BY <1>3, <1>8, <2>1
        <3> QED
            BY <1>6, <1>7, <3>1 DEF NativesSound
<1>10. CallSound'
    BY <1>2, <1>5, <1>6, <1>7, <1>8 DEF CallSound, NeedsObjects
<1>11. Popped' = 0
    BY <1>7
<1>12. /\ Call("concat", header, body, 2, others, roots)
       /\ others \in Seq(Int) /\ body \in Seq(Int) /\ roots \in Seq(1 .. 2 + Len(others)) /\ 2 \in Nat
    BY <1>1, <1>6
<1> QED
    BY <1>9, <1>10, <1>11, <1>12, CallKeeps

\* The subject is registered.
LEMMA LsubstringKeeps ==
    ASSUME IInv, NEW pos \in Nat, NEW length \in Nat, Lsubstring(pos, length)
    PROVE  IInv'
<1> DEFINE header == DataHeader(STRING_TAG, WordBytes * length)
           body == << pos, length >>
           others == << >>
           roots == << 1 >>
<1>1. /\ IsObject(stack[1], {STRING_TAG})
      /\ WordBytes * (pos + length) <= LengthOf(heap, stack[1])
      /\ Call("substring", header, body, 1, others, roots)
    BY DEF Lsubstring
<1>2. phase = "run" /\ phase' = "alloc" /\ UNCHANGED << heap, at >>
    BY <1>1 DEF Call
<1>3. PICK id \in Kept' :
              /\ stack[1] = RootWord(id)' /\ heap.words[at[id]] \in Nat
              /\ TAG((heap.words[at[id]])') = STRING_TAG
              /\ LengthOf(heap, stack[1]) = LEN((heap.words[at[id]])')
    BY <1>1, <1>2, TakenObject
<1>4. header \in Nat /\ TAG(header) = STRING_TAG
    <2>1. WordBytes * length \in Nat
        BY DEF WordBytes
    <2> QED
        BY <2>1, DataHeaderFacts
<1>5. /\ body \in Seq(Int) /\ Len(body) = 2 /\ body[1] = pos /\ body[2] = length
      /\ others \in Seq(Int) /\ Len(others) = 0 /\ 1 \in Nat
      /\ roots \in Seq(1 .. 1 + Len(others)) /\ Range(roots) = {1}
    BY DEF Range
<1> HIDE DEF header, body, others, roots
<1>6. /\ born < MaxObjects /\ born' = born
      /\ call' = [op |-> "substring", header |-> header, body |-> body]
      /\ request' = ObjectWords(header) /\ extra_roots' = roots
      /\ Popped' = 0 /\ Popped' \in 0 .. Len(stack') /\ Plain(1)
      /\ native' = SubSeq(stack, 1, 1) \o others
    <2>1. /\ Call("substring", header, body, 1, others, roots) /\ others \in Seq(Int) /\ header \in Nat
          /\ 1 \in Nat /\ "substring" \in {"cons", "string"} \cup NeedsObjects
        BY <1>1, <1>4, <1>5 DEF NeedsObjects
    <2> QED
        BY <2>1, CalledFacts
<1>7. Len(native') = 1 /\ native'[1] = stack[1]
    <2>1. Len(native') = 1 + Len(others) /\ \A i \in 1 .. 1 : native'[i] = stack[i]
        BY <1>2, <1>5, <1>6, TakenWords
    <2> QED
        BY <1>5, <2>1
<1>8. NativesSound'
    <2>1. \A v : Argument(v, heap.words[at[id]])'
        BY <1>1, <1>3, <1>5, <1>6 DEF Argument
    <2> QED
        BY <1>3, <1>5, <1>6, <1>7, <2>1 DEF NativesSound
<1>9. CallSound'
    BY <1>2, <1>4, <1>5, <1>6, <1>7 DEF CallSound, NeedsObjects
<1>10. Popped' = 0
    BY <1>6
<1>11. /\ Call("substring", header, body, 1, others, roots)
       /\ others \in Seq(Int) /\ body \in Seq(Int) /\ roots \in Seq(1 .. 1 + Len(others)) /\ 1 \in Nat
    BY <1>1, <1>5
<1> QED
    BY <1>8, <1>9, <1>10, <1>11, CallKeeps

\* A call of a function that allocates.
LEMMA AllocatesKeeps ==
    ASSUME IInv, Allocates
    PROVE  IInv'
<1>1. /\ ArraySizes \subseteq Nat /\ SexpSizes \subseteq Nat /\ Captures \subseteq Nat
      /\ Heads \subseteq Int /\ Chunks \subseteq Int /\ 0 .. 1 \subseteq Nat /\ 0 .. 2 \subseteq Nat
    BY WordsAssumption
<1>2. CASE \E n \in ArraySizes : Plain(n) /\ Barray(n)
    BY <1>1, <1>2, BarrayKeeps
<1>3. CASE \E n \in SexpSizes, x \in Heads : Plain(n) /\ Bsexp(n, x)
    BY <1>1, <1>3, BsexpKeeps
<1>4. CASE \E n \in Captures, x \in Heads : Plain(n) /\ Bclosure(n, x)
    BY <1>1, <1>4, BclosureKeeps
<1>5. CASE \E c \in Chunks : Bstring(c) \/ Lstring(c)
    BY <1>1, <1>5, BstringKeeps, LstringKeeps
<1>6. CASE Lclone
    BY <1>6, LcloneKeeps
<1>7. CASE Concat
    BY <1>7, ConcatKeeps
<1>8. CASE \E pos \in 0 .. 1, length \in 0 .. 2 : Lsubstring(pos, length)
    BY <1>1, <1>8, LsubstringKeeps
<1>9. CASE \E x \in Heads : Cons58(x)
    BY <1>1, <1>9, Cons58Keeps
<1> QED
    BY <1>2, <1>3, <1>4, <1>5, <1>6, <1>7, <1>8, <1>9 DEF Allocates

\* The words v: those of the heap, and behind them an object whose fields are
\* values.  A program gets it in place of what it popped.
Adds(v) ==
    /\ v \in Seq(Int) /\ Len(v) = Len(heap.words) + ObjectWords(call.header)
    /\ \A k \in 1 .. Len(heap.words) : v[k] = heap.words[k]
    /\ v[Len(heap.words) + 1] = call.header /\ v[Len(heap.words) + 2] % 4 = 0
    /\ \A k \in FieldSlots(v, Len(heap.words) + 1) :
           UNBOXED(v[k]) \/ \E j \in DOMAIN at : v[k] = Content(heap.begin, at[j])
ObjectReturned(v) ==
    /\ phase = "alloc" /\ phase' = "run" /\ Fits
    /\ heap' = [heap EXCEPT !.words = v]
    /\ stack' = << Content(heap.begin, Len(heap.words) + 1) >> \o Below(Popped)
    /\ at' = [id \in DOMAIN at \cup {born + 1} |->
                IF id = born + 1 THEN Len(heap.words) + 1 ELSE at[id]]
    /\ born' = born + 1
    /\ native' = << >> /\ extra_roots' = << >> /\ call' = NoCall /\ UNCHANGED gcvars

\* A new object behind the others, with its reference on top of the stack.
LEMMA ReturnedKeeps ==
    ASSUME IInv, NEW v, Adds(v), ObjectReturned(v)
    PROVE  IInv'
<1> DEFINE w == heap.words
           L == Len(heap.words)
           n == ObjectWords(call.header)
           x == born + 1
<1>1. /\ Typed /\ ObjectsTile
      /\ born < MaxObjects /\ call.header \in Nat /\ request = n /\ Popped \in 0 .. Len(stack)
      /\ stack \in Seq(Int) /\ born \in Nat /\ MaxObjects \in Nat
      /\ heap \in [begin : Bases, size : Nat, words : Seq(Int)] /\ heap.size >= MinimumCapacity
      /\ DOMAIN at \subseteq 1 .. born
    BY WordsAssumption DEF IInv, Typed, CallSound, ObjectReturned
<1>2. /\ heap.begin \in Nat /\ L \in Nat /\ w \in Seq(Int) /\ Objects(w, at)
      /\ Tiled(at, Sizes(w, at), 1, L + 1)
      /\ \A id \in DOMAIN at :
            /\ at[id] \in Nat /\ at[id] >= 1 /\ at[id] < L
            /\ Size(w, at[id]) \in Nat /\ Size(w, at[id]) >= 2
            /\ at[id] + Size(w, at[id]) <= L + 1
            /\ FieldSlots(w, at[id]) \subseteq at[id] + 2 .. at[id] + Size(w, at[id]) - 1
    BY <1>1, LayoutFacts DEF ObjectReturned
<1>3. n \in Nat /\ n >= 2
    BY <1>1, HeaderFacts
<1>4. /\ heap'.begin = heap.begin /\ heap'.size = heap.size /\ heap'.words = v
      /\ heap' \in [begin : Bases, size : Nat, words : Seq(Int)]
      /\ phase = "alloc" /\ phase' = "run" /\ v \in Seq(Int) /\ born' = x
      /\ native' = << >> /\ extra_roots' = << >> /\ call' = NoCall
    BY <1>1 DEF Adds, ObjectReturned
<1>5. /\ DOMAIN at' = DOMAIN at \cup {x} /\ x \notin DOMAIN at /\ at'[x] = L + 1
      /\ \A id \in DOMAIN at : at'[id] = at[id]
    <2>1. x \notin DOMAIN at
        BY <1>1
    <2> HIDE DEF x, L
    <2>2. at' = [id \in DOMAIN at \cup {x} |-> IF id = x THEN L + 1 ELSE at[id]]
        BY DEF x, L, ObjectReturned
    <2> QED
        BY <2>1, <2>2
<1> HIDE DEF w, L, n, x
<1>6. /\ Len(v) = L + n /\ v[L + 1] = call.header /\ v[L + 2] % 4 = 0
      /\ \A k \in 1 .. L : v[k] = w[k]
    BY DEF w, L, n, Adds
<1>7. \A id \in DOMAIN at :
            /\ v[at[id]] = w[at[id]] /\ v[at[id] + 1] = w[at[id] + 1]
            /\ Size(v, at[id]) = Size(w, at[id]) /\ FieldSlots(v, at[id]) = FieldSlots(w, at[id])
            /\ \A k \in FieldSlots(w, at[id]) : v[k] = w[k]
    <2> SUFFICES ASSUME NEW id \in DOMAIN at
                 PROVE  /\ v[at[id]] = w[at[id]] /\ v[at[id] + 1] = w[at[id] + 1]
                        /\ Size(v, at[id]) = Size(w, at[id]) /\ FieldSlots(v, at[id]) = FieldSlots(w, at[id])
                        /\ \A k \in FieldSlots(w, at[id]) : v[k] = w[k]
        OBVIOUS
    <2> DEFINE a == at[id]
               m == Size(w, a)
    <2>1. /\ a \in Nat /\ a >= 1 /\ a < L /\ m \in Nat /\ a + m <= L + 1
          /\ FieldSlots(w, a) \subseteq a + 2 .. a + m - 1
        BY <1>2
    <2> HIDE DEF a, m
    <2>2. a \in 1 .. L /\ a + 1 \in 1 .. L /\ a + 2 .. a + m - 1 \subseteq 1 .. L
        BY <1>2, <2>1
    <2>3. v[a] = w[a] /\ v[a + 1] = w[a + 1] /\ \A k \in FieldSlots(w, a) : v[k] = w[k]
        BY <1>6, <2>1, <2>2
    <2>4. Size(v, a) = Size(w, a) /\ FieldSlots(v, a) = FieldSlots(w, a)
        BY <2>3 DEF Size, FieldSlots
    <2> QED
        BY <2>3, <2>4 DEF a
<1>8. Size(v, L + 1) = n
    BY <1>6 DEF Size, n
<1>9. Typed'
    <2>1. L + n <= heap.size
        <3>1. heap.begin + 4 * L + 4 * n <= heap.begin + 4 * heap.size
            BY <1>1 DEF Fits, Current, End, WordBytes, L, n, ObjectReturned
        <3>2. heap.size \in Nat
            BY <1>1
        <3> QED
            BY <1>2, <1>3, <3>1, <3>2
    <2>2. /\ x \in Nat /\ x <= MaxObjects /\ DOMAIN at' \subseteq 1 .. x /\ x = born'
        BY <1>1, <1>4, <1>5 DEF x
    <2>3. Objects(v, at')
        <3>1. at' \in [DOMAIN at' -> Nat \ {0}]
            <4>1. at' = [id \in DOMAIN at' |-> at'[id]]
                BY DEF ObjectReturned
            <4>2. \A id \in DOMAIN at' : at'[id] \in Nat \ {0}
                BY <1>2, <1>5
            <4> QED
                BY <4>1, <4>2
        <3>2. \A id \in DOMAIN at' : at'[id] < Len(v)
            BY <1>2, <1>3, <1>5, <1>6
        <3>3. \A id \in DOMAIN at : w[at[id]] \in Nat
            BY <1>2 DEF Objects
        <3>4. \A id \in DOMAIN at' : v[at'[id]] \in Nat
            BY <1>1, <1>5, <1>6, <1>7, <3>3
        <3> QED
            BY <1>4, <3>1, <3>2, <3>4 DEF Objects
    <2>4. stack' \in Seq(Int)
        <3>1. Content(heap.begin, L + 1) \in Int
            BY <1>2 DEF Content, WordBytes
        <3> DEFINE s == stack
                   p == Popped
        <3>2. s \in Seq(Int) /\ p \in 0 .. Len(s)
            BY <1>1
        <3> HIDE DEF s, p
        <3>3. SubSeq(s, p + 1, Len(s)) \in Seq(Int)
            BY <3>2
        <3> QED
            BY <3>1, <3>3 DEF Below, s, p, L, ObjectReturned
    <2>5. native' \in Seq(Int) /\ extra_roots' \in Seq(DOMAIN native')
        BY <1>4
    <2>6. Len(v) <= heap.size
        BY <1>6, <2>1
    <2> QED
        BY <1>1, <1>4, <2>2, <2>3, <2>4, <2>5, <2>6 DEF Typed
<1>10. /\ Kept' = DOMAIN at'
       /\ \A id : /\ RootWord(id)' = Content(heap.begin, at'[id])
                  /\ \A owner : FieldWord(id, owner)' = Content(heap.begin, at'[id])
    BY <1>4 DEF Kept, RootWord, FieldWord
<1>11. ObjectsTile'
    <2> DEFINE z == Sizes(w, at)
               y == Sizes(v, at')
    <2>1. /\ \A i \in DOMAIN at : at'[i] = at[i] /\ y[i] = z[i] /\ at[i] \in Int /\ z[i] \in Nat
          /\ y[x] = n
        BY <1>2, <1>5, <1>7, <1>8 DEF Sizes
    <2> HIDE DEF z, y
    <2>2. Tiled(at, z, 1, L + 1) /\ 1 \in Int /\ L + 1 \in Int /\ y[x] \in Nat /\ Len(v) + 1 = L + 1 + y[x]
        BY <1>2, <1>3, <1>6, <2>1 DEF z
    <2>3. Tiled(at', y, 1, Len(v) + 1)
        <3> DEFINE hi == L + 1
                   top == Len(v) + 1
        <3>1. /\ Tiled(at, z, 1, hi) /\ hi \in Int /\ y[x] \in Nat /\ top = hi + y[x] /\ at'[x] = hi
              /\ x \notin DOMAIN at /\ DOMAIN at' = DOMAIN at \cup {x} /\ 1 \in Int
            BY <1>5, <2>2
        <3> HIDE DEF hi, top
        <3> QED
            BY <2>1, <3>1, TiledAppend DEF top
    <2> QED
        BY <1>4, <2>3 DEF ObjectsTile, y
<1>12. FieldsSound'
    <2>1. \A id \in DOMAIN at : \A k \in FieldSlots(w, at[id]) :
              UNBOXED(w[k]) \/ \E j \in DOMAIN at : w[k] = Content(heap.begin, at[j])
        BY <1>4 DEF IInv, FieldsSound, Running, Kept, FieldWord, RootWord, w
    <2>2. \A k \in FieldSlots(v, L + 1) :
              UNBOXED(v[k]) \/ \E j \in DOMAIN at : v[k] = Content(heap.begin, at[j])
        BY DEF L, Adds
    <2>3. \A id \in DOMAIN at' : \A k \in FieldSlots(v, at'[id]) :
              UNBOXED(v[k]) \/ \E j \in DOMAIN at : v[k] = Content(heap.begin, at[j])
        BY <1>5, <1>7, <2>1, <2>2
    <2>4. \A id \in DOMAIN at' : \A k \in FieldSlots(v, at'[id]) :
              UNBOXED(v[k]) \/ \E j \in DOMAIN at' : v[k] = Content(heap.begin, at'[j])
        BY <1>5, <2>3
    <2> QED
        BY <1>4, <1>10, <2>4 DEF FieldsSound
<1>13. StackSound'
    <2>1. Popped' = 0
        BY <1>4 DEF Popped, NoCall
    <2>2. \A y : Sound(y) => Sound(y)'
        <3>1. \A y : Sound(y) => UNBOXED(y) \/ \E id \in DOMAIN at : y = Content(heap.begin, at[id])
            BY <1>4 DEF Sound, Kept, RootWord
        <3>2. \A y : (UNBOXED(y) \/ \E id \in DOMAIN at' : y = Content(heap.begin, at'[id])) => Sound(y)'
            BY <1>10 DEF Sound
        <3> QED
            BY <1>5, <3>1, <3>2
    <2>3. \A y : Inside(y) => Inside(y)'
        <3> SUFFICES ASSUME NEW y, Inside(y) PROVE Inside(y)'
            OBVIOUS
        <3>1. PICK id \in DOMAIN at : \E k \in at[id] + 3 .. at[id] + Size(w, at[id]) - 1 : y = Address(heap, k)
            BY DEF Inside, w
        <3>2. \E k \in at'[id] + 3 .. at'[id] + Size(v, at'[id]) - 1 : y = Address(heap', k)
            BY <1>4, <1>5, <1>7, <3>1 DEF Address
        <3> QED
            BY <1>4, <1>5, <3>2 DEF Inside
    <2>4. \A i \in DOMAIN stack : i > Popped => Sound(stack[i]) \/ Inside(stack[i])
        BY <1>4 DEF IInv, StackSound, Running
    <2>5. \A y : y = Content(heap.begin, L + 1) => Sound(y)'
        <3>1. \A y : (\E id \in DOMAIN at' : y = Content(heap.begin, at'[id])) => Sound(y)'
            BY <1>10 DEF Sound
        <3> QED
            BY <1>5, <3>1
    <2> DEFINE s == stack
               p == Popped
               c == Content(heap.begin, L + 1)
    <2>6. s \in Seq(Int) /\ p \in Nat /\ p <= Len(s) /\ stack' = << c >> \o SubSeq(s, p + 1, Len(s))
        BY <1>1 DEF Below, L, ObjectReturned
    <2> HIDE DEF s, p, c
    <2>7. \A i \in DOMAIN stack' : stack'[i] = c \/ \E j \in DOMAIN s : j > p /\ stack'[i] = s[j]
        <3> DEFINE left == SubSeq(s, p + 1, Len(s))
        <3>1. left \in Seq(Int) /\ Len(left) = Len(s) - p
            BY <2>6
        <3>2. \A i \in 1 .. Len(s) - p : left[i] = s[p + i] /\ p + i \in DOMAIN s /\ p + i > p
            BY <2>6
        <3>3. stack' = << c >> \o left
            BY <2>6
        <3> HIDE DEF left
        <3>4. Len(s) - p \in Nat
            BY <2>6
        <3>5. ASSUME NEW i \in DOMAIN stack', i # 1
              PROVE  i - 1 \in 1 .. Len(s) - p /\ stack'[i] = left[i - 1]
            BY <3>1, <3>3, <3>4, <3>5
        <3>6. stack'[1] = c
            BY <3>1, <3>3
        <3> QED
            BY <3>2, <3>5, <3>6
    <2>8. ASSUME NEW i \in DOMAIN stack'
          PROVE  \A y : y = stack'[i] => Sound(y)' \/ Inside(y)'
        BY <2>2, <2>3, <2>4, <2>5, <2>7 DEF s, p, c
    <2>9. \A i \in DOMAIN stack' : i > 0
        BY <1>9 DEF Typed
    <2> QED
        BY <1>4, <2>1, <2>8, <2>9 DEF StackSound
<1>14. NativesSound' /\ CallSound'
    BY <1>4 DEF NativesSound, CallSound, Range, Collecting, Marking, Compacting
<1>15. FlagsSound'
    <2>1. \A id \in DOMAIN at : w[at[id] + 1] % 4 = 0
        BY <1>4 DEF IInv, FlagsSound, w
    <2>2. \A id \in DOMAIN at' : v[at'[id] + 1] % 4 = 0
        <3>1. \A id \in DOMAIN at : v[at'[id] + 1] % 4 = 0
            BY <1>5, <1>7, <2>1
        <3>2. at'[x] + 1 = L + 2
            BY <1>2, <1>5
        <3>3. v[at'[x] + 1] % 4 = 0
            BY <1>6, <3>2
        <3> QED
            BY <1>5, <3>1, <3>3
    <2> QED
        BY <1>4, <2>2 DEF FlagsSound
<1> QED
    BY <1>9, <1>11, <1>12, <1>13, <1>14, <1>15, NoCollection DEF IInv, ObjectReturned

\* A body that is long enough, with values for fields, makes such words.
LEMMA WrittenAdds ==
    ASSUME Typed, call.header \in Nat, NEW body \in Seq(Int),
           TAG(call.header) # STRING_TAG =>
               \A i \in (IF TAG(call.header) \in {SEXP_TAG, CLOSURE_TAG} THEN 2 ELSE 1)
                        .. ObjectWords(call.header) - 2 :
                   /\ i \in DOMAIN body
                   /\ UNBOXED(body[i]) \/ \E j \in DOMAIN at : body[i] = Content(heap.begin, at[j])
    PROVE  \E v : Adds(v) /\ AllocatedWith(heap, call.header, body) = [heap EXCEPT !.words = v]
<1> DEFINE w == heap.words
           L == Len(heap.words)
           header == call.header
           n == ObjectWords(call.header)
           zeros == [i \in 1 .. n |-> 0]
           object == [zeros EXCEPT ![1] = header]
           all == w \o object
           v == [i \in DOMAIN all |-> IF i - (L + 2) \in DOMAIN body THEN body[i - (L + 2)] ELSE all[i]]
           from == IF TAG(header) \in {SEXP_TAG, CLOSURE_TAG} THEN 2 ELSE 1
           IsValue(x) == UNBOXED(x) \/ \E j \in DOMAIN at : x = Content(heap.begin, at[j])
<1>1. /\ L \in Nat /\ w \in Seq(Int) /\ header \in Nat /\ n \in Nat /\ n >= 2
      /\ heap \in [begin : Bases, size : Nat, words : Seq(Int)]
    BY HeaderFacts, TypedFacts DEF Typed
<1>2. AllocatedWith(heap, header, body) = [heap EXCEPT !.words = v]
    <2>1. Allocated(heap, header) = [heap EXCEPT !.words = all]
        BY DEF Allocated
    <2>2. Allocated(heap, header).words = all
        BY <1>1, <2>1
    <2>3. AllocatedWith(heap, header, body) =
              [Allocated(heap, header) EXCEPT !.words = [i \in DOMAIN @ |->
                  IF i - (L + 2) \in DOMAIN body THEN body[i - (L + 2)] ELSE @[i]]]
        BY DEF AllocatedWith, HeaderWords
    <2> HIDE DEF all
    <2>4. AllocatedWith(heap, header, body) = [Allocated(heap, header) EXCEPT !.words = v]
        BY <2>2, <2>3
    <2> HIDE DEF v
    <2> QED
        BY <1>1, <2>1, <2>4
<1>3. \A i \in from .. n - 2 : TAG(header) # STRING_TAG => i \in DOMAIN body /\ IsValue(body[i])
    OBVIOUS
<1> HIDE DEF w, L, header, n, from, IsValue
<1>4. object \in Seq(Int) /\ Len(object) = n /\ object[1] = header /\ \A i \in 2 .. n : object[i] = 0
    <2>1. object = [i \in 1 .. n |-> IF i = 1 THEN header ELSE 0]
        BY <1>1
    <2> HIDE DEF object
    <2> QED
        BY <1>1, <2>1
<1> HIDE DEF object
<1>5. /\ all \in Seq(Int) /\ Len(all) = L + n
      /\ \A i \in 1 .. L : all[i] = w[i]
      /\ \A i \in 1 .. n : all[L + i] = object[i]
    <2>1. Len(w) = L
        BY DEF w, L
    <2>2. /\ all \in Seq(Int) /\ Len(all) = L + n
          /\ \A i \in 1 .. L : all[i] = w[i]
        <3>1. all \in Seq(Int) /\ Len(all) = Len(w) + Len(object)
            <4>1. w \in Seq(Int) /\ object \in Seq(Int)
                BY <1>1, <1>4
            <4> QED
                BY <4>1
        <3>2. ASSUME NEW i \in 1 .. Len(w) PROVE all[i] = w[i]
            <4>1. /\ w \in Seq(Int) /\ object \in Seq(Int) /\ Len(w) \in Nat /\ Len(object) \in Nat
                  /\ i \in 1 .. Len(w) + Len(object) /\ i <= Len(w)
                BY <1>1, <1>4
            <4> QED
                BY <4>1
        <3> HIDE DEF all
        <3> QED
            BY <1>4, <2>1, <3>1, <3>2
    <2>3. ASSUME NEW i \in 1 .. n PROVE all[L + i] = object[i]
        <3>1. L + i \in 1 .. Len(w) + Len(object) /\ ~(L + i <= Len(w)) /\ (L + i) - Len(w) = i
            BY <1>1, <1>4, <2>1
        <3> QED
            BY <1>1, <1>4, <3>1
    <2> QED
        BY <2>2, <2>3
<1> HIDE DEF all
<1>6. DOMAIN all = 1 .. L + n /\ DOMAIN body = 1 .. Len(body) /\ Len(body) \in Nat
    BY <1>1, <1>5
<1>7. /\ v \in Seq(Int) /\ Len(v) = L + n
      /\ \A i \in 1 .. L + n : v[i] = IF i - (L + 2) \in DOMAIN body THEN body[i - (L + 2)] ELSE all[i]
    <2>1. /\ v = [i \in 1 .. L + n |-> IF i - (L + 2) \in DOMAIN body THEN body[i - (L + 2)] ELSE all[i]]
          /\ \A i \in 1 .. L + n : all[i] \in Int
          /\ \A i \in DOMAIN body : body[i] \in Int
        BY <1>5, <1>6
    <2> HIDE DEF v
    <2>2. L + n \in Nat
        BY <1>1
    <2>3. v \in [1 .. L + n -> Int]
        BY <2>1
    <2> QED
        BY <2>1, <2>2, <2>3
<1> HIDE DEF v
<1>8. \A i \in 1 .. L : v[i] = w[i]
    BY <1>1, <1>5, <1>6, <1>7
<1>9. v[L + 1] = header /\ v[L + 2] = 0
    <2>1. v[L + 1] = all[L + 1] /\ v[L + 2] = all[L + 2]
        <3>1. /\ L + 1 \in 1 .. L + n /\ (L + 1) - (L + 2) \notin 1 .. Len(body)
              /\ L + 2 \in 1 .. L + n /\ (L + 2) - (L + 2) \notin 1 .. Len(body)
            BY <1>1, <1>6
        <3> QED
            BY <1>6, <1>7, <3>1
    <2>2. 1 \in 1 .. n /\ 2 \in 1 .. n /\ 2 \in 2 .. n
        BY <1>1
    <2>3. all[L + 1] = object[1] /\ all[L + 2] = object[2]
        BY <1>5, <2>2
    <2> QED
        BY <1>4, <2>1, <2>2, <2>3
<1>10. \A k \in FieldSlots(v, L + 1) : IsValue(v[k])
    <2>1. CASE TAG(header) = STRING_TAG
        BY <1>9, <2>1 DEF FieldSlots
    <2>2. CASE TAG(header) # STRING_TAG
        <3>1. FieldSlots(v, L + 1) = L + 2 + from .. L + n
            <4>1. Size(v, L + 1) = n
                BY <1>9 DEF Size, n, header
            <4>2. FieldSlots(v, L + 1) =
                      (IF TAG(header) \in {SEXP_TAG, CLOSURE_TAG} THEN L + 1 + 3 ELSE L + 1 + 2) .. L + 1 + n - 1
                BY <1>9, <2>2, <4>1 DEF FieldSlots
            <4> QED
                BY <1>1, <4>2 DEF from
        <3>2. ASSUME NEW k \in L + 2 + from .. L + n
              PROVE  IsValue(v[k])
            <4>1. from \in Nat /\ from >= 1
                BY DEF from
            <4>2. k \in 1 .. L + n /\ k - (L + 2) \in from .. n - 2
                BY <1>1, <4>1
            <4> QED
                BY <1>3, <1>7, <2>2, <4>2
        <3> QED
            BY <3>1, <3>2
    <2> QED
        BY <2>1, <2>2
<1>11. Adds(v)
    BY <1>7, <1>8, <1>9, <1>10 DEF Adds, L, w, n, header, IsValue
<1> QED
    BY <1>2, <1>11 DEF header

\* The text of a string.
LEMMA TextFacts ==
    ASSUME Typed, ObjectsTile, phase = "alloc", NEW id \in DOMAIN at,
           TAG(heap.words[at[id]]) = STRING_TAG
    PROVE  /\ TextAt(Content(heap.begin, at[id])) \in Seq(Int)
           /\ Len(TextAt(Content(heap.begin, at[id]))) = LEN(heap.words[at[id]]) \div WordBytes
           /\ LEN(heap.words[at[id]]) \div WordBytes \in Nat
<1> DEFINE w == heap.words
           a == at[id]
           m == LEN(heap.words[at[id]]) \div 4
           p == Content(heap.begin, at[id])
<1>1. /\ a \in Nat /\ a >= 1 /\ w \in Seq(Int) /\ Len(w) \in Nat /\ heap.begin \in Int
      /\ w[a] \in Nat /\ a + Size(w, a) <= Len(w) + 1 /\ Size(w, a) \in Int
    <2>1. heap.begin \in Int /\ Objects(w, at) /\ w \in Seq(Int) /\ Len(w) \in Nat
        BY TypedFacts
    <2>2. a \in Nat /\ a >= 1 /\ a + Size(w, a) <= Len(w) + 1 /\ Size(w, a) \in Int
        BY LayoutFacts
    <2> QED
        BY <2>1, <2>2 DEF Objects
<1>2. m \in Nat /\ Size(w, a) = m + 3
    BY <1>1, HeaderFacts DEF Size
<1>3. Slot(heap, p) = a + 2
    BY <1>1, SlotFacts
<1>4. LengthOf(heap, p) = LEN(w[a])
    <2>1. WordAt(heap, get_obj_header_ptr(p)) = w[a]
        BY <1>1, SlotFacts, WordFacts
    <2> QED
        BY <2>1 DEF LengthOf
<1>5. TextAt(p) = SubSeq(w, a + 2, a + 2 + m - 1)
    BY <1>3, <1>4 DEF TextAt, WordBytes
<1> HIDE DEF w, a, m, p
<1>6. a + 2 \in 1 .. Len(w) /\ a + 2 + m - 1 <= Len(w) /\ a + 2 + m - 1 >= a + 2 - 1
    BY <1>1, <1>2
<1>7. SubSeq(w, a + 2, a + 2 + m - 1) \in Seq(Int) /\ Len(SubSeq(w, a + 2, a + 2 + m - 1)) = m
    BY <1>1, <1>2, <1>6
<1> QED
    BY <1>2, <1>5, <1>7 DEF p, m, WordBytes

\* What each function writes.
LEMMA BodyFacts ==
    /\ call.op \in {"array", "sexp", "closure"} => Body = call.body \o PoppedFields(FieldCount)
    /\ call.op = "string" => Body = call.body
    /\ call.op = "string copy" => Body = TextAt(native[2])
    /\ call.op = "concat" => Body = TextAt(native[2]) \o TextAt(native[1])
    /\ call.op = "substring" =>
           Body = SubSeq(TextAt(native[1]), call.body[1] + 1, call.body[1] + call.body[2])
    /\ call.op = "cons" => Body = call.body \o << native[4], native[3] >>
<1>1. call.op \in {"array", "sexp", "closure"} => Body = call.body \o PoppedFields(FieldCount)
    BY Zenon DEF Body
<1>2. /\ "string" \notin {"array", "sexp", "closure"} /\ "string copy" \notin {"array", "sexp", "closure"}
      /\ "concat" \notin {"array", "sexp", "closure"} /\ "substring" \notin {"array", "sexp", "closure"}
      /\ "cons" \notin {"array", "sexp", "closure"}
      /\ "string copy" # "string" /\ "concat" # "string" /\ "substring" # "string" /\ "cons" # "string"
      /\ "concat" # "string copy" /\ "substring" # "string copy" /\ "cons" # "string copy"
      /\ "substring" # "concat" /\ "cons" # "concat" /\ "cons" # "substring"
    OBVIOUS
<1>3. call.op = "string" => Body = call.body
    BY <1>2, Zenon DEF Body
<1>4. call.op = "string copy" => Body = TextAt(native[2])
    BY <1>2, Zenon DEF Body
<1>5. call.op = "concat" => Body = TextAt(native[2]) \o TextAt(native[1])
    BY <1>2, Zenon DEF Body
<1>6. call.op = "substring" =>
           Body = SubSeq(TextAt(native[1]), call.body[1] + 1, call.body[1] + call.body[2])
    BY <1>2, Zenon DEF Body
<1>7. call.op = "cons" => Body = call.body \o << native[4], native[3] >>
    BY <1>2, Zenon DEF Body
<1> QED
    BY <1>1, <1>3, <1>4, <1>5, <1>6, <1>7

\* The elements of a sequence of integers.
LEMMA ElementFacts ==
    ASSUME NEW s \in Seq(Int), NEW i \in 1 .. Len(s)
    PROVE  s[i] \in Int
OBVIOUS

\* A sequence behind another.
LEMMA JoinFacts ==
    ASSUME NEW s \in Seq(Int), NEW t \in Seq(Int)
    PROVE  /\ s \o t \in Seq(Int) /\ Len(s \o t) = Len(s) + Len(t)
           /\ \A i \in 1 .. Len(t) : (s \o t)[Len(s) + i] = t[i]
<1>1. s \o t \in Seq(Int) /\ Len(s \o t) = Len(s) + Len(t) /\ Len(s) \in Nat /\ Len(t) \in Nat
    OBVIOUS
<1>2. ASSUME NEW i \in 1 .. Len(t) PROVE (s \o t)[Len(s) + i] = t[i]
    <2>1. Len(s) + i \in 1 .. Len(s) + Len(t) /\ ~(Len(s) + i <= Len(s)) /\ (Len(s) + i) - Len(s) = i
        BY <1>1
    <2> QED
        BY <2>1
<1> QED
    BY <1>1, <1>2

\* The fields that were on the stack.
LEMMA PoppedFacts ==
    ASSUME NEW s \in Seq(Int), NEW n \in 0 .. Len(s)
    PROVE  LET fields == Reverse(SubSeq(s, 1, n))
           IN  /\ fields \in Seq(Int) /\ Len(fields) = n
               /\ \A i \in 1 .. n : \E j \in 1 .. n : j \in DOMAIN s /\ fields[i] = s[j]
<1> DEFINE top == SubSeq(s, 1, n)
<1>1. top \in Seq(Int) /\ Len(top) = n /\ n \in Nat /\ \A j \in 1 .. n : top[j] = s[j] /\ j \in DOMAIN s
    OBVIOUS
<1> HIDE DEF top
<1>2. Reverse(top) = [i \in 1 .. n |-> top[(n - i) + 1]]
    BY <1>1 DEF Reverse
<1>3. \A i \in 1 .. n : (n - i) + 1 \in 1 .. n
    BY <1>1
<1>4. \A i \in 1 .. n : top[(n - i) + 1] \in Int
    BY <1>1, <1>3
<1>5. Reverse(top) \in Seq(Int) /\ Len(Reverse(top)) = n
    BY <1>1, <1>2, <1>4
<1> QED
    BY <1>1, <1>2, <1>3, <1>5 DEF top

\* Values, and what the arguments of a function are, when it has its memory.
LEMMA AtReturn ==
    ASSUME IInv, phase = "alloc"
    PROVE  /\ Typed /\ ObjectsTile /\ call.header \in Nat /\ call.body \in Seq(Int)
           /\ stack \in Seq(Int) /\ Popped \in 0 .. Len(stack)
           /\ \A i \in DOMAIN stack : i <= Popped =>
                 UNBOXED(stack[i]) \/ \E j \in DOMAIN at : stack[i] = Content(heap.begin, at[j])
           /\ \A v \in Range(extra_roots) :
                 call.op = "cons" => UNBOXED(native[v]) \/ \E j \in DOMAIN at : native[v] = Content(heap.begin, at[j])
           /\ call.op \in NeedsObjects => \A v \in Range(extra_roots) :
                 \E id \in DOMAIN at : /\ native[v] = Content(heap.begin, at[id])
                                       /\ Argument(v, heap.words[at[id]])
<1>1. Kept = DOMAIN at /\ \A id : RootWord(id) = Content(heap.begin, at[id])
    BY DEF Kept, RootWord
<1>2. Typed /\ ObjectsTile /\ CallSound /\ StackSound /\ NativesSound
    BY DEF IInv
<1>3. call.header \in Nat /\ call.body \in Seq(Int) /\ Popped \in 0 .. Len(stack) /\ stack \in Seq(Int)
    BY <1>2 DEF CallSound, Typed
<1>4. \A i \in DOMAIN stack : i <= Popped =>
          UNBOXED(stack[i]) \/ \E j \in DOMAIN at : stack[i] = Content(heap.begin, at[j])
    <2>1. \A i \in DOMAIN stack : Sound(stack[i]) \/ i > Popped
        BY <1>2 DEF StackSound, Running
    <2>2. \A i \in DOMAIN stack : i \in Int /\ Popped \in Int
        BY <1>3
    <2> QED
        BY <1>1, <2>1, <2>2 DEF Sound
<1>5. \A v \in Range(extra_roots) :
          \/ call.op \notin NeedsObjects /\ (UNBOXED(native[v]) \/ (call.op = "string" /\ native[v] = Outside))
          \/ \E id \in DOMAIN at : native[v] = Content(heap.begin, at[id]) /\ Argument(v, heap.words[at[id]])
    BY <1>1, <1>2 DEF NativesSound, Running
<1> QED
    BY <1>2, <1>3, <1>4, <1>5

\* The body of a new object is long enough and its fields are values.
LEMMA BodySound ==
    ASSUME IInv, phase = "alloc", call.op # "clone", ~Stale
    PROVE  /\ Body \in Seq(Int)
           /\ TAG(call.header) # STRING_TAG =>
                  \A i \in (IF TAG(call.header) \in {SEXP_TAG, CLOSURE_TAG} THEN 2 ELSE 1)
                           .. ObjectWords(call.header) - 2 :
                      /\ i \in DOMAIN Body
                      /\ UNBOXED(Body[i]) \/ \E j \in DOMAIN at : Body[i] = Content(heap.begin, at[j])
<1> DEFINE IsValue(y) == UNBOXED(y) \/ \E j \in DOMAIN at : y = Content(heap.begin, at[j])
           header == call.header
           b == call.body
           n == ObjectWords(header)
           from == IF TAG(header) \in {SEXP_TAG, CLOSURE_TAG} THEN 2 ELSE 1
<1>1. /\ Typed /\ ObjectsTile /\ header \in Nat /\ b \in Seq(Int) /\ CallSound
      /\ stack \in Seq(Int) /\ Popped \in 0 .. Len(stack)
      /\ \A i \in DOMAIN stack : i <= Popped => IsValue(stack[i])
      /\ \A v \in Range(extra_roots) : call.op = "cons" => IsValue(native[v])
    BY AtReturn DEF IInv
<1>2. call.op \in {"array", "sexp", "closure", "cons", "string", "string copy", "concat", "substring"}
    BY <1>1 DEF CallSound, NeedsObjects
<1>3. CASE call.op \in {"array", "sexp", "closure"}
    <2> DEFINE s == stack
               p == Popped
               fields == Reverse(SubSeq(s, 1, p))
    <2>1. Body = b \o fields
        <3>1. Popped = FieldCount
            BY <1>3 DEF Popped
        <3> QED
            BY <1>3, <3>1, BodyFacts DEF PoppedFields
    <2>2. s \in Seq(Int) /\ p \in 0 .. Len(s) /\ \A i \in DOMAIN s : i <= p => IsValue(s[i])
        BY <1>1
    <2>3. /\ \/ call.op = "array" /\ header = DataHeader(ARRAY_TAG, p) /\ Len(b) = 0
             \/ call.op = "sexp" /\ header = DataHeader(SEXP_TAG, p) /\ Len(b) = 1
             \/ call.op = "closure" /\ header = DataHeader(CLOSURE_TAG, p + 1) /\ Len(b) = 1
          /\ p \in Nat
        <3>1. p \in Nat
            BY <2>2
        <3>2. call.op = "array" => header = DataHeader(ARRAY_TAG, p) /\ b = << >>
            BY <1>1 DEF CallSound
        <3>3. call.op = "sexp" => header = DataHeader(SEXP_TAG, p) /\ Len(b) = 1
            BY <1>1 DEF CallSound
        <3>4. call.op = "closure" => header = DataHeader(CLOSURE_TAG, p + 1) /\ Len(b) = 1
            BY <1>1 DEF CallSound
        <3> HIDE DEF p, b, header
        <3>5. b = << >> => Len(b) = 0
            OBVIOUS
        <3> QED
            BY <1>3, <3>1, <3>2, <3>3, <3>4, <3>5
    <2>4. /\ \/ TAG(header) = ARRAY_TAG /\ LEN(header) = p /\ Len(b) = 0
             \/ TAG(header) = SEXP_TAG /\ LEN(header) = p /\ Len(b) = 1
             \/ TAG(header) = CLOSURE_TAG /\ LEN(header) = p + 1 /\ Len(b) = 1
        <3> HIDE DEF p, b, header
        <3>1. p + 1 \in Nat /\ p \in Nat
            BY <2>3
        <3>2. /\ TAG(DataHeader(ARRAY_TAG, p)) = ARRAY_TAG /\ LEN(DataHeader(ARRAY_TAG, p)) = p
              /\ TAG(DataHeader(SEXP_TAG, p)) = SEXP_TAG /\ LEN(DataHeader(SEXP_TAG, p)) = p
              /\ TAG(DataHeader(CLOSURE_TAG, p + 1)) = CLOSURE_TAG
              /\ LEN(DataHeader(CLOSURE_TAG, p + 1)) = p + 1
            BY <3>1, DataHeaderFacts
        <3> QED
            BY <2>3, <3>2
    <2> HIDE DEF s, p, b, header, IsValue
    <2>5. from = Len(b) + 1 /\ n - 2 = Len(b) + p
        <3>1. CASE TAG(header) = ARRAY_TAG /\ LEN(header) = p /\ Len(b) = 0
            <4>1. n = p + 2
                BY <1>1, <3>1, HeaderFacts DEF STRING_TAG, ARRAY_TAG, SEXP_TAG
            <4> HIDE DEF n
            <4> QED
                BY <2>3, <3>1, <4>1 DEF ARRAY_TAG, SEXP_TAG, CLOSURE_TAG
        <3>2. CASE TAG(header) = SEXP_TAG /\ LEN(header) = p /\ Len(b) = 1
            <4>1. n = p + 3
                BY <1>1, <3>2, HeaderFacts
            <4> HIDE DEF n
            <4> QED
                BY <2>3, <3>2, <4>1
        <3>3. CASE TAG(header) = CLOSURE_TAG /\ LEN(header) = p + 1 /\ Len(b) = 1
            <4>1. n = LEN(header) + 2
                <5>1. TAG(header) \notin {STRING_TAG, SEXP_TAG} /\ header \in Nat
                    BY <1>1, <3>3 DEF STRING_TAG, SEXP_TAG, CLOSURE_TAG
                <5> QED
                    BY <5>1, HeaderFacts
            <4> HIDE DEF n
            <4> QED
                BY <2>3, <3>3, <4>1
        <3> QED
            BY <2>4, <3>1, <3>2, <3>3
    <2> HIDE DEF n, from
    <2>6. /\ fields \in Seq(Int) /\ Len(fields) = p
          /\ \A i \in 1 .. p : \E j \in 1 .. p : j \in DOMAIN s /\ fields[i] = s[j]
        BY <2>2, PoppedFacts
    <2> HIDE DEF fields
    <2>7. /\ Body \in Seq(Int) /\ Len(Body) = Len(b) + p
          /\ \A i \in 1 .. p : Body[Len(b) + i] = fields[i]
        BY <1>1, <2>1, <2>6, JoinFacts
    <2>8. ASSUME NEW i \in from .. n - 2
          PROVE  i \in DOMAIN Body /\ IsValue(Body[i])
        <3>1. i - Len(b) \in 1 .. p /\ Len(b) + (i - Len(b)) = i /\ i \in 1 .. Len(Body) /\ Len(b) \in Nat
            <4>1. Len(b) \in Nat /\ p \in Nat
                BY <1>1, <2>3
            <4>2. i \in Int /\ i >= Len(b) + 1 /\ i <= Len(b) + p
                BY <2>5, <4>1
            <4> QED
                BY <2>7, <4>1, <4>2
        <3>2. PICK j \in 1 .. p : j \in DOMAIN s /\ fields[i - Len(b)] = s[j]
            BY <2>6, <3>1
        <3>3. Body[i] = s[j] /\ j <= p
            BY <2>3, <2>7, <3>1, <3>2
        <3> QED
            BY <2>2, <2>7, <3>1, <3>2, <3>3
    <2> QED
        BY <2>7, <2>8 DEF n, from, header, IsValue
<1>4. CASE call.op = "cons"
    <2>1. /\ header = DataHeader(SEXP_TAG, 2) /\ Len(b) = 1
          /\ Len(native) = 4 /\ Range(extra_roots) = {1, 2} /\ native \in Seq(Int)
        BY <1>1, <1>4 DEF CallSound, Typed
    <2>2. native[3] = native[1] /\ native[4] = native[2]
        <3>1. \A i \in 3 .. 4 : native[i] = native[i - 2]
            BY <1>4 DEF Stale
        <3>2. native[3] = native[3 - 2] /\ native[4] = native[4 - 2]
            BY <3>1
        <3> QED
            BY <3>2
    <2>3. IsValue(native[1]) /\ IsValue(native[2])
        BY <1>1, <1>4, <2>1
    <2> DEFINE x == native[4]
               y == native[3]
               fields == << x, y >>
    <2>4. Body = b \o fields
        BY <1>4, BodyFacts
    <2>5. x \in Int /\ y \in Int /\ IsValue(x) /\ IsValue(y)
        <3>1. x \in Int /\ y \in Int
            <4>1. native \in Seq(Int) /\ Len(native) = 4
                BY <2>1
            <4>2. 3 \in 1 .. Len(native) /\ 4 \in 1 .. Len(native)
                BY <4>1
            <4> QED
                BY <4>1, <4>2, ElementFacts
        <3> HIDE DEF IsValue
        <3>2. IsValue(x) /\ IsValue(y)
            BY <2>2, <2>3
        <3> QED
            BY <3>1, <3>2
    <2>6. TAG(header) = SEXP_TAG /\ LEN(header) = 2
        <3>1. 2 \in Nat /\ header = DataHeader(SEXP_TAG, 2)
            BY <2>1
        <3> HIDE DEF header
        <3>2. TAG(DataHeader(SEXP_TAG, 2)) = SEXP_TAG /\ LEN(DataHeader(SEXP_TAG, 2)) = 2
            BY <3>1, DataHeaderFacts
        <3> QED
            BY <3>1, <3>2
    <2>7. n = 5 /\ from = 2
        <3>1. header \in Nat
            BY <1>1
        <3> HIDE DEF header
        <3>2. n = LEN(header) + 3
            BY <2>6, <3>1, HeaderFacts
        <3> QED
            BY <2>6, <3>2
    <2> HIDE DEF x, y, b, header, n, from, IsValue
    <2>8. fields \in Seq(Int) /\ Len(fields) = 2 /\ fields[1] = x /\ fields[2] = y
        BY <2>5
    <2> HIDE DEF fields
    <2>9. /\ Body \in Seq(Int) /\ Len(Body) = 3
          /\ \A i \in 1 .. 2 : Body[1 + i] = fields[i]
        <3>1. /\ Body \in Seq(Int) /\ Len(Body) = Len(b) + Len(fields)
              /\ \A i \in 1 .. Len(fields) : Body[Len(b) + i] = fields[i]
            BY <1>1, <2>4, <2>8, JoinFacts
        <3> QED
            BY <2>1, <2>8, <3>1 DEF b
    <2>10. Body[2] = x /\ Body[3] = y
        <3>1. Body[1 + 1] = fields[1] /\ Body[1 + 2] = fields[2]
            BY <2>9
        <3> QED
            BY <2>8, <3>1
    <2>11. DOMAIN Body = 1 .. 3 /\ n - 2 = 3
        BY <2>7, <2>9
    <2>12. \A i \in from .. n - 2 : i \in DOMAIN Body /\ IsValue(Body[i])
        BY <2>5, <2>7, <2>10, <2>11
    <2> QED
        BY <2>9, <2>12 DEF n, from, header, IsValue
<1>5. CASE call.op \in {"string", "string copy", "concat", "substring"}
    <2>1. TAG(header) = STRING_TAG
        BY <1>1, <1>5 DEF CallSound
    <2>2. ASSUME NEW v \in Range(extra_roots), call.op # "string"
          PROVE  /\ TextAt(native[v]) \in Seq(Int)
                 /\ call.op = "substring" => b[1] + b[2] <= Len(TextAt(native[v]))
        <3>1. call.op \in {"string copy", "concat", "substring"} /\ call.op \in NeedsObjects
            BY <1>5, <2>2 DEF NeedsObjects
        <3>2. PICK id \in DOMAIN at : /\ native[v] = Content(heap.begin, at[id])
                                      /\ Argument(v, heap.words[at[id]])
            BY <3>1, AtReturn
        <3>3. /\ TAG(heap.words[at[id]]) = STRING_TAG
              /\ call.op = "substring" => WordBytes * (b[1] + b[2]) <= LEN(heap.words[at[id]])
            BY <3>1, <3>2 DEF Argument
        <3>4. /\ TextAt(native[v]) \in Seq(Int)
              /\ Len(TextAt(native[v])) = LEN(heap.words[at[id]]) \div 4
            BY <1>1, <3>2, <3>3, TextFacts DEF WordBytes
        <3>5. CASE call.op = "substring"
            <4> DEFINE q == b[1] + b[2]
                       r == LEN(heap.words[at[id]])
            <4>1. q \in Nat
                BY <1>1, <3>5 DEF CallSound
            <4>2. r \in Nat
                <5>1. heap.words[at[id]] \in Nat
                    BY <1>1, LayoutFacts, SizeFacts
                <5> QED
                    BY <5>1, HeaderFacts
            <4>3. 4 * q <= r
                BY <3>3, <3>5 DEF WordBytes
            <4> HIDE DEF q, r
            <4>4. q <= r \div 4
                BY <4>1, <4>2, <4>3
            <4> QED
                BY <3>4, <4>4 DEF q, r
        <3> QED
            BY <3>4, <3>5
    <2>3. Body \in Seq(Int)
        <3>1. CASE call.op = "string"
            BY <1>1, <3>1, BodyFacts
        <3>2. CASE call.op = "string copy"
            <4>1. 2 \in Range(extra_roots)
                BY <1>1, <3>2 DEF CallSound
            <4> QED
                BY <2>2, <3>2, <4>1, BodyFacts
        <3>3. CASE call.op = "concat"
            <4>1. 1 \in Range(extra_roots) /\ 2 \in Range(extra_roots)
                BY <1>1, <3>3 DEF CallSound
            <4>2. TextAt(native[1]) \in Seq(Int) /\ TextAt(native[2]) \in Seq(Int)
                BY <2>2, <3>3, <4>1
            <4> QED
                BY <3>3, <4>2, BodyFacts, JoinFacts
        <3>4. CASE call.op = "substring"
            <4>1. 1 \in Range(extra_roots) /\ b[1] \in Nat /\ b[2] \in Nat
                BY <1>1, <3>4 DEF CallSound
            <4> DEFINE text == TextAt(native[1])
                       i == b[1]
                       j == b[2]
            <4>2. text \in Seq(Int) /\ i + j <= Len(text) /\ i \in Nat /\ j \in Nat
                BY <2>2, <3>4, <4>1
            <4>3. Body = SubSeq(text, i + 1, i + j)
                BY <3>4, BodyFacts
            <4> HIDE DEF text, i, j
            <4> QED
                BY <4>2, <4>3
        <3> QED
            BY <1>5, <3>1, <3>2, <3>3, <3>4
    <2> QED
        BY <2>1, <2>3
<1> QED
    BY <1>2, <1>3, <1>4, <1>5

\* A clone has the words of what it is a clone of.
LEMMA ClonedAdds ==
    ASSUME IInv, phase = "alloc", call.op = "clone"
    PROVE  \E v : Adds(v) /\ Cloned(native[1]) = [heap EXCEPT !.words = v]
<1> DEFINE w == heap.words
           L == Len(heap.words)
           n == ObjectWords(call.header)
           IsValue(x) == UNBOXED(x) \/ \E j \in DOMAIN at : x = Content(heap.begin, at[j])
<1>1. Typed /\ ObjectsTile /\ call.header \in Nat
    BY AtReturn
<1>2. PICK id \in DOMAIN at : native[1] = Content(heap.begin, at[id]) /\ w[at[id]] = call.header
    <2>1. 1 \in Range(extra_roots)
        BY DEF IInv, CallSound
    <2>2. call.op \in NeedsObjects
        BY DEF NeedsObjects
    <2> QED
        BY <2>1, <2>2, AtReturn DEF Argument
<1> DEFINE a == at[id]
           copy == SubSeq(w, a, a + n - 1)
           v == w \o copy
<1>3. /\ a \in Nat /\ a >= 1 /\ w \in Seq(Int) /\ L \in Nat /\ heap.begin \in Int
      /\ Size(w, a) = n /\ n \in Nat /\ n >= 2 /\ a + n <= L + 1
    <2>1. heap.begin \in Int /\ w \in Seq(Int) /\ L \in Nat
        BY <1>1, TypedFacts
    <2>2. a \in Nat /\ a >= 1 /\ a + Size(w, a) <= L + 1 /\ Size(w, a) \in Nat /\ Size(w, a) >= 2
        BY <1>1, LayoutFacts
    <2>3. Size(w, a) = n
        BY <1>2 DEF Size
    <2> QED
        BY <2>1, <2>2, <2>3
<1>4. Cloned(native[1]) = [heap EXCEPT !.words = v]
    <2>1. get_obj_header_ptr(native[1]) = Address(heap, a)
        BY <1>2, <1>3, SlotFacts
    <2>2. Slot(heap, get_obj_header_ptr(native[1])) = a
        BY <1>3, <2>1, SlotFacts
    <2> HIDE DEF a
    <2>3. ObjectWords(w[a]) = n
        BY <1>2 DEF a
    <2> QED
        BY <2>2, <2>3 DEF Cloned
<1>5. w[a] = call.header /\ w[a + 1] % 4 = 0 /\ \A k \in FieldSlots(w, a) : IsValue(w[k])
    <2>1. w[a + 1] % 4 = 0
        BY DEF IInv, FlagsSound
    <2>2. Kept = DOMAIN at /\ \A j, owner : FieldWord(j, owner) = Content(heap.begin, at[j])
        BY DEF Kept, FieldWord, RootWord
    <2>3. FieldsSound
        BY DEF IInv
    <2>4. \A k \in FieldSlots(w, a) : IsValue(w[k])
        BY <2>2, <2>3 DEF FieldsSound, Running
    <2> QED
        BY <1>2, <2>1, <2>4
<1>6. L = Len(w)
    OBVIOUS
<1> HIDE DEF a, w, L, n, IsValue
<1>7. copy \in Seq(Int) /\ Len(copy) = n /\ \A i \in 1 .. n : copy[i] = w[a + i - 1]
    <2>1. a \in 1 .. Len(w) /\ a + n - 1 \in Nat /\ a + n - 1 <= Len(w) /\ a + n - 1 >= a
        BY <1>3, <1>6
    <2>2. copy \in Seq(Int) /\ Len(copy) = n
        BY <1>3, <2>1
    <2>3. ASSUME NEW i \in 1 .. n PROVE copy[i] = w[a + i - 1]
        BY <1>3, <2>1
    <2> QED
        BY <2>2, <2>3
<1> HIDE DEF copy
<1>8. /\ v \in Seq(Int) /\ Len(v) = L + n
      /\ \A i \in 1 .. n : v[L + i] = copy[i]
    BY <1>3, <1>6, <1>7, JoinFacts
<1>9. ASSUME NEW k \in 1 .. L PROVE v[k] = w[k]
    <2>1. w \in Seq(Int) /\ copy \in Seq(Int) /\ k \in 1 .. Len(w) + Len(copy) /\ k <= Len(w)
        BY <1>3, <1>6, <1>7
    <2> QED
        BY <2>1
<1> HIDE DEF v
<1>10. \A i \in 1 .. n : v[L + i] = w[a + i - 1]
    BY <1>7, <1>8
<1>11. v[L + 1] = w[a] /\ v[L + 2] = w[a + 1]
    <2>1. 1 \in 1 .. n /\ 2 \in 1 .. n /\ a + 1 - 1 = a /\ a + 2 - 1 = a + 1
        BY <1>3
    <2>2. v[L + 1] = w[a + 1 - 1] /\ v[L + 2] = w[a + 2 - 1]
        BY <1>10, <2>1
    <2> QED
        BY <2>1, <2>2
<1>12. \A k \in FieldSlots(v, L + 1) : IsValue(v[k])
    <2>1. Size(v, L + 1) = n
        BY <1>3, <1>11 DEF Size
    <2>2. ASSUME NEW k \in FieldSlots(v, L + 1)
          PROVE  \E m \in FieldSlots(w, a) : v[k] = w[m]
        <3>1. CASE TAG(w[a]) = STRING_TAG
            BY <1>11, <2>2, <3>1 DEF FieldSlots
        <3>2. CASE TAG(w[a]) # STRING_TAG
            <4> DEFINE d == IF TAG(w[a]) \in {SEXP_TAG, CLOSURE_TAG} THEN 3 ELSE 2
            <4>1. FieldSlots(v, L + 1) =
                     (IF TAG(w[a]) \in {SEXP_TAG, CLOSURE_TAG} THEN L + 1 + 3 ELSE L + 1 + 2) .. L + 1 + n - 1
                BY <1>11, <2>1, <3>2 DEF FieldSlots
            <4>2. FieldSlots(w, a) =
                     (IF TAG(w[a]) \in {SEXP_TAG, CLOSURE_TAG} THEN a + 3 ELSE a + 2) .. a + n - 1
                BY <1>3, <3>2 DEF FieldSlots
            <4>3. FieldSlots(v, L + 1) = L + 1 + d .. L + n /\ FieldSlots(w, a) = a + d .. a + n - 1
                <5>1. CASE TAG(w[a]) \in {SEXP_TAG, CLOSURE_TAG}
                    <6>1. d = 3 /\ FieldSlots(v, L + 1) = L + 1 + 3 .. L + 1 + n - 1 /\ FieldSlots(w, a) = a + 3 .. a + n - 1
                        BY <4>1, <4>2, <5>1, Zenon
                    <6>2. L + 1 + n - 1 = L + n
                        BY <1>3
                    <6> HIDE DEF d
                    <6> QED
                        BY <6>1, <6>2
                <5>2. CASE TAG(w[a]) \notin {SEXP_TAG, CLOSURE_TAG}
                    <6>1. d = 2 /\ FieldSlots(v, L + 1) = L + 1 + 2 .. L + 1 + n - 1 /\ FieldSlots(w, a) = a + 2 .. a + n - 1
                        BY <4>1, <4>2, <5>2, Zenon
                    <6>2. L + 1 + n - 1 = L + n
                        BY <1>3
                    <6> HIDE DEF d
                    <6> QED
                        BY <6>1, <6>2
                <5> QED
                    BY <5>1, <5>2
            <4>4. d \in Nat /\ d >= 2
                OBVIOUS
            <4> HIDE DEF d
            <4>5. /\ k \in Int /\ k - L \in 1 .. n /\ L + (k - L) = k
                  /\ a + (k - L) - 1 \in a + d .. a + n - 1
                <5>1. k \in L + 1 + d .. L + n
                    BY <2>2, <4>3
                <5> QED
                    BY <1>3, <4>4, <5>1
            <4>6. v[L + (k - L)] = w[a + (k - L) - 1]
                BY <1>10, <4>5
            <4> QED
                BY <4>3, <4>5, <4>6
        <3> QED
            BY <3>1, <3>2
    <2> QED
        BY <1>5, <2>2
<1>13. v[L + 1] = call.header /\ v[L + 2] % 4 = 0
    BY <1>5, <1>11
<1>14. Adds(v)
    BY <1>8, <1>9, <1>12, <1>13 DEF Adds, L, w, n, IsValue
<1> QED
    BY <1>4, <1>14

\* The new object is filled and returned.
LEMMA ReturnKeeps ==
    ASSUME IInv, Return
    PROVE  IInv'
<1>1. /\ phase = "alloc" /\ phase' = "run" /\ Fits /\ ~Stale
      /\ heap' = (IF call.op = "clone" THEN Cloned(native[1]) ELSE AllocatedWith(heap, call.header, Body))
      /\ stack' = << get_object_content_ptr(Current(heap)) >> \o Below(Popped)
      /\ at' = [id \in DOMAIN at \cup {born + 1} |->
                  IF id = born + 1 THEN Len(heap.words) + 1 ELSE at[id]]
      /\ born' = born + 1 /\ native' = << >> /\ extra_roots' = << >> /\ call' = NoCall
      /\ UNCHANGED gcvars
    BY DEF Return
<1>2. \E v : Adds(v) /\ heap' = [heap EXCEPT !.words = v]
    <2>1. CASE call.op = "clone"
        BY <1>1, <2>1, ClonedAdds
    <2>2. CASE call.op # "clone"
        <3>1. Typed /\ call.header \in Nat
            BY <1>1, AtReturn
        <3> QED
            BY <1>1, <2>2, <3>1, BodySound, WrittenAdds
    <2> QED
        BY <2>1, <2>2
<1>3. PICK v : Adds(v) /\ heap' = [heap EXCEPT !.words = v]
    BY <1>2
<1>4. get_object_content_ptr(Current(heap)) = Content(heap.begin, Len(heap.words) + 1)
    <2>1. heap.begin \in Int /\ Len(heap.words) \in Int
        BY TypedFacts DEF IInv
    <2> QED
        BY <2>1 DEF get_object_content_ptr, Current, Content, HeaderBytes, HeaderWords, WordBytes
<1>5. ObjectReturned(v)
    BY <1>1, <1>3, <1>4 DEF ObjectReturned
<1> QED
    BY <1>3, <1>5, ReturnedKeeps

\* Fields that a collection has left behind.
LEMMA ReturnStaleKeeps ==
    ASSUME IInv, ReturnStale
    PROVE  IInv'
BY UndefinedKeeps DEF ReturnStale, gcvars, search

\* A heap with the same objects, whose fields are values, and a stack of values
\* and places.
Rewritten(h) ==
    /\ h \in [begin : Bases, size : Nat, words : Seq(Int)]
    /\ h.begin = heap.begin /\ h.size = heap.size /\ Len(h.words) = Len(heap.words)
    /\ \A id \in DOMAIN at :
          /\ h.words[at[id]] = heap.words[at[id]] /\ h.words[at[id] + 1] = heap.words[at[id] + 1]
          /\ \A k \in FieldSlots(heap.words, at[id]) :
                UNBOXED(h.words[k]) \/ \E j \in DOMAIN at : h.words[k] = Content(heap.begin, at[j])
Restacked(s) == s \in Seq(Int) /\ \A i \in DOMAIN s : Sound(s[i]) \/ Inside(s[i])

\* An instruction that does not allocate.
LEMMA StepKeeps ==
    ASSUME IInv, NEW s, NEW h, Step(s, h), Rewritten(h), Restacked(s)
    PROVE  IInv'
<1> DEFINE w == heap.words
           v == h.words
<1>1. /\ phase = "run" /\ phase' = "run" /\ stack' = s /\ heap' = h
      /\ UNCHANGED << native, extra_roots, request, born, gcvars, at, call >>
      /\ Typed /\ ObjectsTile /\ CallSound
    BY DEF Step, mutator, IInv
<1>2. /\ h \in [begin : Bases, size : Nat, words : Seq(Int)]
      /\ h.begin = heap.begin /\ h.size = heap.size /\ Len(v) = Len(w) /\ v \in Seq(Int)
    BY DEF Rewritten
<1>3. \A id \in DOMAIN at : v[at[id]] = w[at[id]] /\ v[at[id] + 1] = w[at[id] + 1]
    BY DEF Rewritten
<1>4. \A id \in DOMAIN at : Size(v, at[id]) = Size(w, at[id]) /\ FieldSlots(v, at[id]) = FieldSlots(w, at[id])
    BY <1>3 DEF Size, FieldSlots
<1>5. \A id \in DOMAIN at : \A k \in FieldSlots(v, at[id]) :
          UNBOXED(v[k]) \/ \E j \in DOMAIN at : v[k] = Content(heap.begin, at[j])
    BY <1>4 DEF Rewritten
<1>6. Objects(v, at)
    BY <1>1, <1>2, <1>3 DEF Typed, Objects
<1> HIDE DEF w, v
<1>7. heap'.words = v
    BY <1>1 DEF v
<1>8. Typed'
    <2>1. s \in Seq(Int)
        BY DEF Restacked
    <2>2. h.size >= MinimumCapacity /\ Len(v) <= h.size
        BY <1>1, <1>2 DEF Typed, w
    <2> QED
        BY <1>1, <1>2, <1>6, <2>1, <2>2 DEF Typed, v
<1>9. ObjectsTile'
    <2>1. Tiled(at, Sizes(w, at), 1, Len(w) + 1)
        BY <1>1 DEF ObjectsTile, w
    <2>2. Sizes(v, at) = Sizes(w, at)
        BY <1>4 DEF Sizes
    <2> QED
        BY <1>1, <1>2, <1>7, <2>1, <2>2 DEF ObjectsTile
<1>10. /\ Kept = DOMAIN at /\ Kept' = DOMAIN at
       /\ \A id : /\ RootWord(id) = Content(heap.begin, at[id]) /\ RootWord(id)' = Content(heap.begin, at[id])
                  /\ \A owner : FieldWord(id, owner)' = Content(heap.begin, at[id])
    BY <1>1, <1>2 DEF Kept, RootWord, FieldWord
<1>11. FieldsSound'
    BY <1>1, <1>5, <1>7, <1>10 DEF FieldsSound
<1>12. StackSound'
    <2>1. Popped' = 0
        <3>1. call' = NoCall
            BY <1>1 DEF CallSound
        <3> QED
            BY <3>1 DEF Popped, NoCall
    <2>2. \A y : Sound(y) => Sound(y)'
        BY <1>10 DEF Sound
    <2>3. \A y : Inside(y) => Inside(y)'
        <3> SUFFICES ASSUME NEW y, Inside(y) PROVE Inside(y)'
            OBVIOUS
        <3>1. PICK id \in DOMAIN at : \E k \in at[id] + 3 .. at[id] + Size(w, at[id]) - 1 : y = Address(heap, k)
            BY DEF Inside, w
        <3>2. \E k \in at[id] + 3 .. at[id] + Size(v, at[id]) - 1 : y = Address(heap', k)
            BY <1>1, <1>2, <1>4, <3>1 DEF Address
        <3> QED
            BY <1>1, <1>7, <3>2 DEF Inside
    <2>4. s \in Seq(Int) /\ \A i \in DOMAIN s : Sound(s[i]) \/ Inside(s[i])
        BY DEF Restacked
    <2>5. \A i \in DOMAIN stack' : i > 0 /\ \A y : y = stack'[i] => Sound(y)' \/ Inside(y)'
        BY <1>1, <2>2, <2>3, <2>4
    <2> QED
        BY <1>1, <2>1, <2>5 DEF StackSound
<1>13. NativesSound' /\ CallSound'
    <2>1. CallSound'
        BY <1>1 DEF CallSound, Collecting, Marking, Compacting
    <2>2. Range(extra_roots') = {}
        <3>1. extra_roots' = << >>
            BY <1>1 DEF CallSound
        <3> QED
            BY <3>1 DEF Range
    <2> QED
        BY <2>1, <2>2 DEF NativesSound
<1>14. FlagsSound'
    <2>1. \A id \in DOMAIN at : w[at[id] + 1] % 4 = 0
        BY <1>1 DEF IInv, FlagsSound, w
    <2> QED
        BY <1>1, <1>3, <1>7, <2>1 DEF FlagsSound
<1> QED
    BY <1>1, <1>8, <1>9, <1>11, <1>12, <1>13, <1>14, NoCollection DEF IInv

\* The heap as it is is such a heap.
LEMMA HeapRewritten ==
    ASSUME IInv, phase = "run"
    PROVE  Rewritten(heap)
<1>1. Typed /\ FieldsSound
    BY DEF IInv
<1>2. Kept = DOMAIN at /\ \A id, owner : FieldWord(id, owner) = Content(heap.begin, at[id])
    BY DEF Kept, FieldWord, RootWord
<1> QED
    BY <1>1, <1>2 DEF Typed, FieldsSound, Running, Rewritten

\* A value is written to a word of an object's content.
LEMMA StoreRewritten ==
    ASSUME IInv, phase = "run", NEW x \in DOMAIN at,
           NEW k \in at[x] + 2 .. at[x] + Size(heap.words, at[x]) - 1, NEW y \in Int, Sound(y)
    PROVE  Rewritten(Store(heap, Address(heap, k), y))
<1> DEFINE w == heap.words
           v == [heap.words EXCEPT ![k] = y]
           h == Store(heap, Address(heap, k), y)
<1>1. Typed /\ ObjectsTile /\ heap \in [begin : Bases, size : Nat, words : Seq(Int)] /\ Rewritten(heap)
    BY HeapRewritten DEF IInv, Typed
<1>2. /\ Objects(w, at) /\ Tiled(at, Sizes(w, at), 1, Len(w) + 1) /\ w \in Seq(Int)
      /\ at[x] \in Nat /\ at[x] >= 1 /\ Size(w, at[x]) \in Nat /\ at[x] + Size(w, at[x]) <= Len(w) + 1
      /\ Len(w) \in Nat /\ heap.begin \in Int
    <2>1. /\ Objects(w, at) /\ Tiled(at, Sizes(w, at), 1, Len(w) + 1)
          /\ at[x] \in Nat /\ at[x] >= 1 /\ Size(w, at[x]) \in Nat /\ at[x] + Size(w, at[x]) <= Len(w) + 1
        BY <1>1, LayoutFacts
    <2> QED
        BY <1>1, <2>1, TypedFacts
<1>3. k \in Int /\ k \in 1 .. Len(w)
    BY <1>2
<1>4. h = [heap EXCEPT !.words[k] = y]
    <2>1. Slot(heap, Address(heap, k)) = k
        BY <1>2, <1>3, SlotFacts
    <2> QED
        BY <2>1 DEF Store
<1>5. h = [heap EXCEPT !.words = v] /\ h.begin = heap.begin /\ h.size = heap.size /\ h.words = v
    BY <1>1, <1>4
<1>6. /\ v \in Seq(Int) /\ Len(v) = Len(w) /\ v[k] = y
      /\ \A m \in 1 .. Len(w) : m # k => v[m] = w[m]
    <2> HIDE DEF w
    <2>1. v = [w EXCEPT ![k] = y]
        BY DEF w
    <2> HIDE DEF v
    <2> QED
        BY <1>2, <1>3, <2>1
<1> HIDE DEF v, h, w
<1>7. \A id \in DOMAIN at : v[at[id]] = w[at[id]] /\ v[at[id] + 1] = w[at[id] + 1]
    <2>1. \A m \in 1 .. Len(w) : m \notin at[x] + 2 .. at[x] + Size(w, at[x]) - 1 => v[m] = w[m]
        BY <1>6 DEF w
    <2>2. /\ Objects(w, at) /\ Tiled(at, Sizes(w, at), 1, Len(w) + 1)
          /\ v \in Seq(Int) /\ Len(v) = Len(w)
        BY <1>2, <1>6
    <2> QED
        BY <2>1, <2>2, ContentWrite
<1>8. \A id \in DOMAIN at : \A m \in FieldSlots(w, at[id]) :
          UNBOXED(v[m]) \/ \E j \in DOMAIN at : v[m] = Content(heap.begin, at[j])
    <2>1. \A id \in DOMAIN at : \A m \in FieldSlots(w, at[id]) :
              /\ UNBOXED(w[m]) \/ \E j \in DOMAIN at : w[m] = Content(heap.begin, at[j])
              /\ m \in 1 .. Len(w)
        <3>1. \A id \in DOMAIN at :
                  /\ at[id] \in Nat /\ at[id] >= 1 /\ at[id] + Size(w, at[id]) <= Len(w) + 1
                  /\ Size(w, at[id]) \in Nat
                  /\ FieldSlots(w, at[id]) \subseteq at[id] + 2 .. at[id] + Size(w, at[id]) - 1
            BY <1>1, LayoutFacts DEF w
        <3>2. ASSUME NEW id \in DOMAIN at PROVE FieldSlots(w, at[id]) \subseteq 1 .. Len(w)
            <4> DEFINE a == at[id]
                       n == Size(w, a)
            <4>1. /\ a \in Nat /\ a >= 1 /\ a + n <= Len(w) + 1 /\ n \in Nat
                  /\ FieldSlots(w, a) \subseteq a + 2 .. a + n - 1
                BY <3>1
            <4> HIDE DEF a, n
            <4>2. a + 2 .. a + n - 1 \subseteq 1 .. Len(w)
                BY <1>2, <4>1
            <4> QED
                BY <4>1, <4>2 DEF a
        <3> QED
            BY <1>1, <3>2 DEF Rewritten, w
    <2>2. UNBOXED(y) \/ \E j \in DOMAIN at : y = Content(heap.begin, at[j])
        BY DEF Sound, Kept, RootWord
    <2> QED
        BY <1>6, <2>1, <2>2
<1>9. h \in [begin : Bases, size : Nat, words : Seq(Int)]
    BY <1>1, <1>5, <1>6
<1> QED
    BY <1>5, <1>6, <1>7, <1>8, <1>9 DEF Rewritten, w, h

\* Stacks made of what was on the stack and of values and places.
LEMMA RestackedFacts ==
    ASSUME IInv, phase = "run"
    PROVE  /\ Restacked(stack)
           /\ \A n \in Nat : n <= Len(stack) => Restacked(Below(n))
           /\ \A s : \A y \in Int : Restacked(s) /\ (Sound(y) \/ Inside(y)) =>
                 Restacked(<< y >> \o s) /\ Restacked(<< y, y >> \o s)
<1>1. stack \in Seq(Int) /\ \A i \in DOMAIN stack : Sound(stack[i]) \/ Inside(stack[i])
    BY StackWords
<1>2. Restacked(stack)
    BY <1>1 DEF Restacked
<1>3. ASSUME NEW n \in Nat, n <= Len(stack) PROVE Restacked(Below(n))
    <2> DEFINE s == stack
               left == SubSeq(s, n + 1, Len(s))
    <2>1. s \in Seq(Int) /\ n <= Len(s) /\ \A i \in DOMAIN s : Sound(s[i]) \/ Inside(s[i])
        BY <1>1, <1>3
    <2>2. << >> \in Seq(Int)
        OBVIOUS
    <2> HIDE DEF s
    <2>3. /\ left \in Seq(Int) /\ Len(left) = Len(s) - n
          /\ \A i \in 1 .. Len(s) - n : left[i] = s[n + i] /\ n + i \in DOMAIN s
        BY <2>1, <2>2, TakenFacts
    <2> HIDE DEF left
    <2>4. ASSUME NEW i \in DOMAIN left PROVE Sound(left[i]) \/ Inside(left[i])
        <3>1. i \in 1 .. Len(s) - n
            BY <2>3
        <3>2. left[i] = s[n + i] /\ n + i \in DOMAIN s
            BY <2>3, <3>1
        <3> QED
            BY <2>1, <3>2
    <2>5. Below(n) = left
        BY DEF Below, s, left
    <2> QED
        BY <2>3, <2>4, <2>5 DEF Restacked
<1>4. ASSUME NEW s, NEW y \in Int, Restacked(s), Sound(y) \/ Inside(y)
      PROVE  Restacked(<< y >> \o s) /\ Restacked(<< y, y >> \o s)
    <2>1. s \in Seq(Int) /\ \A i \in DOMAIN s : Sound(s[i]) \/ Inside(s[i])
        BY <1>4 DEF Restacked
    <2>2. << y >> \o s \in Seq(Int) /\ \A i \in DOMAIN (<< y >> \o s) : (<< y >> \o s)[i] = y
              \/ \E j \in DOMAIN s : (<< y >> \o s)[i] = s[j]
        BY <2>1
    <2>3. << y, y >> \o s \in Seq(Int) /\ \A i \in DOMAIN (<< y, y >> \o s) : (<< y, y >> \o s)[i] = y
              \/ \E j \in DOMAIN s : (<< y, y >> \o s)[i] = s[j]
        BY <2>1
    <2> QED
        BY <1>4, <2>1, <2>2, <2>3 DEF Restacked
<1> QED
    BY <1>2, <1>3, <1>4

\* What an instruction reads from an object, and where it writes to.
LEMMA FieldFound ==
    ASSUME IInv, phase = "run", NEW x, NEW tags, IsObject(x, tags), NEW a \in Fields(heap, x)
    PROVE  /\ WordAt(heap, a) \in Int /\ Sound(WordAt(heap, a)) /\ a \in Int
           /\ \A y \in Int : Sound(y) => Rewritten(Store(heap, a, y))
           /\ tags = {CLOSURE_TAG} => Inside(a)
<1>1. Typed /\ ObjectsTile /\ Rewritten(heap)
    BY HeapRewritten DEF IInv
<1>2. PICK id \in DOMAIN at : /\ TAG(heap.words[at[id]]) \in tags
                              /\ Fields(heap, x) = {Address(heap, k) : k \in FieldSlots(heap.words, at[id])}
    BY <1>1, ObjectWord
<1>3. PICK k \in FieldSlots(heap.words, at[id]) : a = Address(heap, k)
    BY <1>2
<1>4. /\ k \in at[id] + 2 .. at[id] + Size(heap.words, at[id]) - 1 /\ k \in Int /\ heap.begin \in Int
      /\ heap.words \in Seq(Int) /\ k \in 1 .. Len(heap.words)
    <2> DEFINE p == at[id]
               n == Size(heap.words, p)
               L == Len(heap.words)
    <2>1. /\ p \in Nat /\ p >= 1 /\ n \in Nat /\ p + n <= L + 1
          /\ FieldSlots(heap.words, p) \subseteq p + 2 .. p + n - 1
        BY <1>1, LayoutFacts
    <2>2. heap.begin \in Int /\ heap.words \in Seq(Int) /\ L \in Nat
        BY <1>1, TypedFacts
    <2>3. k \in p + 2 .. p + n - 1
        BY <1>3, <2>1
    <2> HIDE DEF p, n, L
    <2>4. k \in Int /\ k \in 1 .. L
        BY <2>1, <2>2, <2>3
    <2> QED
        BY <2>2, <2>3, <2>4 DEF p, n, L
<1>5. WordAt(heap, a) = heap.words[k]
    BY <1>3, <1>4, WordFacts
<1>6. WordAt(heap, a) \in Int
    BY <1>4, <1>5, ElementFacts
<1>7. Sound(WordAt(heap, a))
    <2>1. UNBOXED(heap.words[k]) \/ \E j \in DOMAIN at : heap.words[k] = Content(heap.begin, at[j])
        BY <1>1 DEF Rewritten
    <2> QED
        BY <1>5, <2>1 DEF Sound, Kept, RootWord
<1>8. \A y \in Int : Sound(y) => Rewritten(Store(heap, a, y))
    BY <1>3, <1>4, StoreRewritten
<1>9. a \in Int
    BY <1>3, <1>4 DEF Address, WordBytes
<1>10. ASSUME tags = {CLOSURE_TAG} PROVE Inside(a)
    <2>1. TAG(heap.words[at[id]]) = CLOSURE_TAG
        BY <1>2, <1>10
    <2>2. k \in at[id] + 3 .. at[id] + Size(heap.words, at[id]) - 1
        BY <2>1 DEF FieldSlots, STRING_TAG, CLOSURE_TAG
    <2> QED
        BY <1>3, <2>2 DEF Inside
<1> QED
    BY <1>6, <1>7, <1>8, <1>9, <1>10

\* Every instruction that does not allocate.
LEMMA InstructionKeeps ==
    ASSUME IInv, Instruction
    PROVE  IInv'
<1>1. /\ phase = "run" /\ Typed /\ Rewritten(heap) /\ Restacked(stack) /\ stack \in Seq(Int)
      /\ \A n \in Nat : n <= Len(stack) => Restacked(Below(n))
      /\ \A s : \A y \in Int : Restacked(s) /\ (Sound(y) \/ Inside(y)) =>
            Restacked(<< y >> \o s) /\ Restacked(<< y, y >> \o s)
      /\ \A i \in DOMAIN stack : ~IsPlace(stack[i]) => Sound(stack[i])
      /\ \A i \in DOMAIN stack : IsPlace(stack[i]) => Inside(stack[i])
    BY HeapRewritten, RestackedFacts, StackWords DEF Instruction, IInv
<1>2. \A i \in DOMAIN stack : stack[i] \in Int
    BY <1>1, ElementFacts
<1>3. ASSUME Plain(1), stack # << >>
      PROVE  1 \in DOMAIN stack /\ stack[1] \in Int /\ Sound(stack[1]) /\ 1 <= Len(stack)
    <2>1. 1 \in DOMAIN stack /\ 1 <= Len(stack)
        BY <1>1, <1>3
    <2>2. ~IsPlace(stack[1])
        BY <1>3 DEF Plain
    <2> QED
        BY <1>1, <1>2, <2>1, <2>2
<1>4. ASSUME NEW x \in Words, CONST(x) PROVE IInv'
    <2>1. Step(<< x >> \o stack, heap)
        BY <1>4 DEF CONST
    <2>2. x \in Int /\ Sound(x)
        BY WordsAssumption DEF Sound
    <2>3. Restacked(<< x >> \o stack)
        BY <1>1, <2>2
    <2> QED
        BY <1>1, <2>1, <2>3, StepKeeps
<1>5. ASSUME NEW i \in 1 .. MaxStack, LD(i) PROVE IInv'
    <2>1. i \in DOMAIN stack /\ ~IsPlace(stack[i]) /\ Step(<< stack[i] >> \o stack, heap)
        BY <1>5 DEF LD
    <2>2. Restacked(<< stack[i] >> \o stack)
        BY <1>1, <1>2, <2>1
    <2> QED
        BY <1>1, <2>1, <2>2, StepKeeps
<1>6. ASSUME NEW i \in 1 .. MaxStack, ST(i) PROVE IInv'
    <2> DEFINE s == [stack EXCEPT ![i] = stack[1]]
    <2>1. i \in DOMAIN stack /\ Plain(1) /\ Step(s, heap)
        BY <1>6 DEF ST
    <2>2. stack # << >>
        BY <2>1
    <2>3. stack[1] \in Int /\ Sound(stack[1])
        BY <1>3, <2>1, <2>2
    <2>4. /\ s \in Seq(Int) /\ DOMAIN s = DOMAIN stack
          /\ \A j \in DOMAIN s : s[j] = stack[j] \/ s[j] = stack[1]
        BY <1>1, <2>1, <2>3
    <2> HIDE DEF s
    <2>5. Restacked(s)
        BY <1>1, <2>3, <2>4 DEF Restacked
    <2> QED
        BY <1>1, <2>1, <2>5, StepKeeps
<1>7. ASSUME NEW i \in 1 .. MaxStack, LDA(i) PROVE IInv'
    <2>1. PICK a \in Fields(heap, stack[i]) : IsObject(stack[i], {CLOSURE_TAG}) /\ Step(<< a, a >> \o stack, heap)
        BY <1>7 DEF LDA
    <2>2. a \in Int /\ Inside(a)
        BY <1>1, <2>1, FieldFound
    <2>3. Restacked(<< a, a >> \o stack)
        BY <1>1, <2>2
    <2> QED
        BY <1>1, <2>1, <2>3, StepKeeps
<1>8. ASSUME DROP PROVE IInv'
    <2>1. stack # << >> /\ Plain(1) /\ Step(Below(1), heap)
        BY <1>8 DEF DROP
    <2>2. Restacked(Below(1))
        BY <1>1, <1>3, <2>1
    <2> QED
        BY <1>1, <2>1, <2>2, StepKeeps
<1>9. ASSUME Belem PROVE IInv'
    <2>1. PICK a \in Fields(heap, stack[1]) :
              /\ stack # << >> /\ IsObject(stack[1], {ARRAY_TAG, SEXP_TAG, CLOSURE_TAG})
              /\ Step(<< WordAt(heap, a) >> \o Below(1), heap)
        BY <1>9 DEF Belem
    <2>2. WordAt(heap, a) \in Int /\ Sound(WordAt(heap, a))
        BY <1>1, <2>1, FieldFound
    <2>3. Restacked(Below(1))
        <3>1. 1 <= Len(stack) /\ 1 \in Nat
            BY <1>1, <2>1
        <3> QED
            BY <1>1, <3>1
    <2>4. Restacked(<< WordAt(heap, a) >> \o Below(1))
        BY <1>1, <2>2, <2>3
    <2> QED
        BY <1>1, <2>1, <2>4, StepKeeps
<1>10. ASSUME Bsta PROVE IInv'
    <2>1. PICK a \in Fields(heap, stack[2]) :
              /\ Len(stack) > 1 /\ Plain(1) /\ IsObject(stack[2], {ARRAY_TAG, SEXP_TAG, CLOSURE_TAG})
              /\ Step(<< stack[1] >> \o Below(2), Store(heap, a, stack[1]))
        BY <1>10 DEF Bsta
    <2>2. stack # << >> /\ 2 <= Len(stack) /\ 2 \in Nat
        BY <1>1, <2>1
    <2>3. stack[1] \in Int /\ Sound(stack[1])
        BY <1>3, <2>1, <2>2
    <2>4. Rewritten(Store(heap, a, stack[1]))
        BY <1>1, <2>1, <2>3, FieldFound
    <2>5. Restacked(Below(2))
        BY <1>1, <2>2
    <2>6. Restacked(<< stack[1] >> \o Below(2))
        BY <1>1, <2>3, <2>5
    <2> QED
        BY <2>1, <2>4, <2>6, StepKeeps
<1>11. ASSUME StaPlace PROVE IInv'
    <2>1. /\ Len(stack) > 2 /\ Plain(1) /\ IsPlace(stack[2]) /\ stack[2] = stack[3]
          /\ Step(<< stack[1] >> \o Below(3), Store(heap, stack[3], stack[1]))
        BY <1>11 DEF StaPlace
    <2>2. stack # << >> /\ 3 <= Len(stack) /\ 3 \in Nat /\ 3 \in DOMAIN stack
        BY <1>1, <2>1
    <2>3. stack[1] \in Int /\ Sound(stack[1])
        BY <1>3, <2>1, <2>2
    <2>4. Inside(stack[3])
        BY <1>1, <2>1, <2>2
    <2>5. PICK id \in DOMAIN at : \E k \in at[id] + 3 .. at[id] + Size(heap.words, at[id]) - 1 :
              stack[3] = Address(heap, k)
        BY <2>4 DEF Inside
    <2>6. PICK k \in at[id] + 3 .. at[id] + Size(heap.words, at[id]) - 1 : stack[3] = Address(heap, k)
        BY <2>5
    <2>7. k \in at[id] + 2 .. at[id] + Size(heap.words, at[id]) - 1
        <3>1. at[id] \in Int /\ Size(heap.words, at[id]) \in Int
            BY <1>1, TypedFacts, SizeFacts
        <3> QED
            BY <2>6, <3>1
    <2>8. Rewritten(Store(heap, stack[3], stack[1]))
        BY <1>1, <2>3, <2>6, <2>7, StoreRewritten
    <2>9. Restacked(Below(3))
        BY <1>1, <2>2
    <2>10. Restacked(<< stack[1] >> \o Below(3))
        BY <1>1, <2>3, <2>9
    <2> QED
        BY <2>1, <2>8, <2>10, StepKeeps
<1> QED
    BY <1>4, <1>5, <1>6, <1>7, <1>8, <1>9, <1>10, <1>11 DEF Instruction

-----------------------------------------------------------------------------
(* The invariant holds                                                     *)

\* The empty heap of __init.
LEMMA InitSound == Init => IInv
<1> SUFFICES ASSUME Init PROVE IInv
    OBVIOUS
<1>1. PICK b \in Bases : heap = [begin |-> b, size |-> MinimumCapacity, words |-> << >>]
    BY DEF Init
<1>2. /\ stack = << >> /\ native = << >> /\ extra_roots = << >> /\ phase = "run" /\ call = NoCall
      /\ field = 0 /\ field_end = 0 /\ born = 0 /\ at = << >> /\ DOMAIN at = {}
    BY DEF Init
<1>3. Len(heap.words) = 0 /\ heap.words = << >> /\ heap.begin = b /\ heap.size = MinimumCapacity
    BY <1>1
<1>4. Typed
    <2>1. heap \in [begin : Bases, size : Nat, words : Seq(Int)]
        BY <1>1, HeapAssumption
    <2>2. born \in Nat /\ born <= MaxObjects /\ DOMAIN at \subseteq 1 .. born
        BY <1>2, WordsAssumption
    <2>3. Objects(heap.words, at)
        BY <1>2, <1>3 DEF Objects
    <2>4. stack \in Seq(Int) /\ native \in Seq(Int) /\ extra_roots \in Seq(DOMAIN native)
        BY <1>2
    <2>5. heap.size >= MinimumCapacity /\ Len(heap.words) <= heap.size
        BY <1>3, HeapAssumption
    <2> QED
        BY <1>2, <2>1, <2>2, <2>3, <2>4, <2>5 DEF Typed
<1>5. ObjectsTile
    BY <1>2, <1>3 DEF ObjectsTile, Tiled
<1>6. FieldsSound /\ StackSound /\ NativesSound
    <2>1. Kept = {}
        BY <1>2 DEF Kept, Compacting
    <2>2. Range(extra_roots) = {}
        BY <1>2 DEF Range
    <2> QED
        BY <1>2, <2>1, <2>2 DEF FieldsSound, StackSound, NativesSound
<1>7. CallSound /\ FlagsSound
    BY <1>2 DEF CallSound, FlagsSound, Collecting, Marking, Compacting
<1>8. MarkSound /\ QueueSound /\ FieldSound /\ ScanSound /\ PlacesSound /\ RoomSound /\ MarksWhatIsReachable
    BY <1>2 DEF MarkSound, QueueSound, FieldSound, ScanSound, PlacesSound, RoomSound,
                MarksWhatIsReachable, Marking, Compacting
<1> QED
    BY <1>4, <1>5, <1>6, <1>7, <1>8 DEF IInv

\* A step of the collector.
LEMMA CollectorKeeps ==
    ASSUME IInv, Collector
    PROVE  IInv'
<1>1. CollectorStep /\ UNCHANGED call
    BY DEF Collector
<1>2. ASSUME Collect \/ MarkRoot \/ Mark \/ VisitField \/ MarkEnd PROVE IInv'
    BY <1>1, <1>2, CollectKeeps, MarkRootKeeps, MarkKeeps, VisitFieldKeeps, MarkEndKeeps
<1>3. ASSUME CompactPhase \/ ComputeLocation \/ Remap PROVE IInv'
    BY <1>1, <1>3, CompactPhaseKeeps, ComputeLocationKeeps, RemapKeeps
<1>4. ASSUME UpdateReferences \/ FixRoots \/ Relocate \/ CompactEnd PROVE IInv'
    BY <1>1, <1>4, UpdateReferencesKeeps, FixRootsKeeps, RelocateKeeps, CompactEndKeeps
<1> QED
    BY <1>1, <1>2, <1>3, <1>4 DEF CollectorStep

\* A step of nobody.
LEMMA StutterKeeps ==
    ASSUME IInv, UNCHANGED vars
    PROVE  IInv'
<1>1. /\ UNCHANGED << heap, stack, native, extra_roots, request, born, phase, at, call >>
      /\ UNCHANGED << root, head, tail, field, field_end, scan, free_ptr, old_heap >>
    BY DEF vars, mutator, gcvars, search
<1>2. Typed'
    BY <1>1 DEF IInv, Typed, Objects
<1>3. ObjectsTile'
    BY <1>1 DEF IInv, ObjectsTile, Tiled, Sizes, Size
<1>4. FlagsSound'
    BY <1>1 DEF IInv, FlagsSound, Enqueued, Marked, Passed, ScanSlot, Slot
<1>5. /\ AllMarked' = AllMarked /\ Active' = Active /\ Passed' = Passed /\ Starts' = Starts
      /\ Unmoved' = Unmoved /\ ScanSlot' = ScanSlot /\ HeadSlot' = HeadSlot /\ TailSlot' = TailSlot
      /\ Origin' = Origin /\ FreeSlot' = FreeSlot /\ Sizes(heap.words, at)' = Sizes(heap.words, at)
      /\ \A k : Address(heap, k)' = Address(heap, k)
      /\ \A s : /\ Size(heap.words, s)' = Size(heap.words, s)
                /\ FieldSlots(heap.words, s)' = FieldSlots(heap.words, s)
                /\ Forward(heap.words, s)' = Forward(heap.words, s)
                /\ Marked(heap.words, s)' = Marked(heap.words, s)
                /\ Enqueued(heap.words, s)' = Enqueued(heap.words, s)
    BY <1>1 DEF AllMarked, Active, Passed, Starts, Unmoved, ScanSlot, HeadSlot, TailSlot, Origin,
                FreeSlot, Sizes, Size, Address, Slot, FieldSlots, Forward, Marked, Enqueued
<1>6. /\ Placed' = Placed /\ Kept' = Kept
      /\ \A id : Place(id)' = Place(id) /\ RootWord(id)' = RootWord(id)
      /\ \A id, owner : FieldWord(id, owner)' = FieldWord(id, owner)
      /\ Places' = Places
    <2>1. Placed' = Placed /\ Kept' = Kept
        BY <1>1, <1>5 DEF Placed, Kept
    <2>2. \A id : Place(id)' = Place(id)
        BY <1>1, <1>5 DEF Place, ForwardSlot
    <2>3. \A id : RootWord(id)' = RootWord(id)
        BY <1>1, <2>2 DEF RootWord, Content
    <2>4. \A id, owner : FieldWord(id, owner)' = FieldWord(id, owner)
        BY <1>1, <1>5, <2>2, <2>3 DEF FieldWord, Content
    <2> QED
        BY <2>1, <2>2, <2>3, <2>4 DEF Places
<1>7. FieldSound' /\ RoomSound'
    <2>1. FieldSound'
        <3>1. Aligned(field)' <=> Aligned(field)
            BY <1>1 DEF Aligned, Address, Slot
        <3>2. Slot(heap, field)' = Slot(heap, field)
            BY <1>1 DEF Slot
        <3> QED
            BY <1>1, <1>5, <3>1, <3>2 DEF IInv, FieldSound
    <2> QED
        BY <2>1, <1>1, <1>5 DEF IInv, RoomSound
<1>8. Popped' = Popped /\ CallSound'
    <2>1. Popped' = Popped
        BY <1>1 DEF Popped, FieldCount
    <2> QED
        BY <2>1, <1>1 DEF IInv, CallSound
<1>9. FieldsSound'
    BY <1>1, <1>5, <1>6 DEF IInv, FieldsSound, Running
<1>10. StackSound'
    <2>1. \A x : Inside(x)' <=> Inside(x)
        BY <1>1, <1>5 DEF Inside
    <2>2. \A x : Sound(x)' <=> Sound(x)
        BY <1>6 DEF Sound
    <2> QED
        BY <1>1, <1>8, <2>1, <2>2 DEF IInv, StackSound, Running
<1>11. NativesSound'
    <2>1. \A v, header : Argument(v, header)' <=> Argument(v, header)
        BY <1>1 DEF Argument
    <2> QED
        BY <1>1, <1>6, <2>1 DEF IInv, NativesSound, Running
<1>12. Roots' = Roots /\ Reachable' = Reachable
    <2>1. ObjectsUntouched
        <3>1. UNCHANGED << heap, stack, mutator, call, at >>
            BY <1>1 DEF mutator
        <3> QED
            BY <3>1, NothingWritten DEF IInv
    <2> QED
        BY <1>2, <2>1, ReachableUntouched DEF IInv
<1>13. MarkSound'
    <2>1. \A x : Seen(x)' <=> Seen(x)
        BY <1>1, <1>5 DEF Seen, Content
    <2>2. \A k : Pending(k)' <=> Pending(k)
        BY <1>1, <1>5 DEF Pending
    <2> QED
        BY <1>1, <1>5, <1>12, <2>1, <2>2 DEF IInv, MarkSound, Content
<1>14. QueueSound'
    <2>1. \A i, j : Holds(i, j)' <=> Holds(i, j)
        BY <1>1, <1>5 DEF Holds, Content
    <2>2. (Aligned(head)' <=> Aligned(head)) /\ (Aligned(tail)' <=> Aligned(tail))
        BY <1>1 DEF Aligned, Address, Slot
    <2> QED
        BY <1>1, <1>5, <2>1, <2>2 DEF IInv, QueueSound
<1>15. ScanSound'
    <2>1. Aligned(scan)' <=> Aligned(scan)
        BY <1>1 DEF Aligned, Address, Slot
    <2> QED
        BY <1>1, <1>5, <2>1 DEF IInv, ScanSound, Tiled
<1>16. PlacesSound'
    BY <1>1, <1>5, <1>6 DEF IInv, PlacesSound, Tiled
<1>17. MarksWhatIsReachable'
    <2>1. \A id \in DOMAIN at : is_marked(heap, Begins(id))' = is_marked(heap, Begins(id))
        BY <1>1 DEF is_marked, ForwardWord, WordAt, Slot, Begins, Address
    <2> QED
        BY <1>1, <1>12, <2>1 DEF IInv, MarksWhatIsReachable
<1> QED
    BY <1>2, <1>3, <1>4, <1>7, <1>8, <1>9, <1>10, <1>11, <1>13, <1>14, <1>15, <1>16, <1>17 DEF IInv

\* Every step keeps the invariant.
LEMMA NextKeeps == IInv /\ [Next]_vars => IInv'
<1> SUFFICES ASSUME IInv, [Next]_vars PROVE IInv'
    OBVIOUS
<1> QED
    BY AllocatesKeeps, ReturnKeeps, ReturnStaleKeeps, InstructionKeeps, CollectorKeeps, StutterKeeps
       DEF Next

\* The inductive invariant holds in every state.
LEMMA InvariantHolds == Spec => []IInv
<1>1. Init => IInv
    BY InitSound
<1>2. IInv /\ [Next]_vars => IInv'
    BY NextKeeps
<1> QED
    BY <1>1, <1>2, PTL DEF Spec

-----------------------------------------------------------------------------
(* What a run checks follows from the invariant                            *)

\* The walk of the heap iterator, from how objects tile the heap.
LEMMA InvariantTypes == IInv => TypeOK
<1> SUFFICES ASSUME IInv PROVE TypeOK
    OBVIOUS
<1>1. Typed
    BY DEF IInv
<1>2. heap.begin \in Bases /\ heap.words \in Seq(Int)
    BY <1>1 DEF Typed
<1>3. Range(heap.words) \subseteq Int
    BY <1>2 DEF Range
<1>4. \A id \in DOMAIN at : at[id] \in 1 .. Len(heap.words)
    BY <1>1, TypedFacts, SizeFacts
<1>5. ToSet(extra_roots) \subseteq DOMAIN native
    BY <1>1 DEF Typed, ToSet
<1>6. IteratorMeetsObjects
    <2> SUFFICES ASSUME phase \in {"run", "alloc"} PROVE
            /\ 1 \in Starts
            /\ \A id \in DOMAIN at : ObjectEnd(id) \in Starts
            /\ \A i, j \in DOMAIN at : i # j => ObjectEnd(i) <= at[j] \/ ObjectEnd(j) <= at[i]
        BY DEF IteratorMeetsObjects, Starts
    <2>1. \A id \in DOMAIN at : ObjectEnd(id) = at[id] + Size(heap.words, at[id])
        BY DEF ObjectEnd, Size
    <2>2. /\ 1 \in Starts
          /\ \A id \in DOMAIN at : at[id] + Size(heap.words, at[id]) \in Starts
          /\ \A i, j \in DOMAIN at : i # j => \/ at[i] + Size(heap.words, at[i]) <= at[j]
                                              \/ at[j] + Size(heap.words, at[j]) <= at[i]
        BY <1>1, LayoutFacts DEF IInv
    <2> QED
        BY <2>1, <2>2
<1> QED
    BY <1>1, <1>2, <1>3, <1>4, <1>5, <1>6 DEF Typed, TypeOK

\* The places of the queue, as slots.
LEMMA QueuePlacesFacts ==
    ASSUME IInv, phase = "mark"
    PROVE  /\ \A id : id \in QueuePlaces <=>
                  id \in DOMAIN at /\ HeadSlot <= at[id] /\ at[id] < TailSlot
           /\ \A id \in DOMAIN at : Queued(id) = Forward(heap.words, at[id])
<1>1. Typed /\ QueueSound
    BY DEF IInv
<1>2. Aligned(head) /\ Aligned(tail) /\ HeadSlot \in Starts /\ TailSlot \in Starts
    BY <1>1 DEF QueueSound
<1>3. /\ heap.begin \in Int
      /\ \A s \in Starts : s \in Int
      /\ \A id \in DOMAIN at : at[id] \in Int /\ Begins(id) = Content(heap.begin, at[id])
    BY <1>1, TypedFacts, LayoutFacts DEF IInv
<1>4. /\ head = heap.begin + 4 * (HeadSlot - 1) /\ tail = heap.begin + 4 * (TailSlot - 1)
      /\ HeadSlot \in Int /\ TailSlot \in Int
    BY <1>2, <1>3 DEF Aligned, HeadSlot, TailSlot, Address, WordBytes
<1>5. ASSUME NEW id \in DOMAIN at
      PROVE  head + HeaderBytes <= Begins(id) /\ Begins(id) < tail + HeaderBytes
                 <=> HeadSlot <= at[id] /\ at[id] < TailSlot
    <2>1. Begins(id) = heap.begin + 4 * (at[id] + 1) /\ at[id] \in Int
        BY <1>3 DEF Content, WordBytes
    <2>2. HeaderBytes = 8
        BY DEF HeaderBytes, HeaderWords, WordBytes
    <2> QED
        BY <1>3, <1>4, <2>1, <2>2
<1>6. \A id \in DOMAIN at : Queued(id) = Forward(heap.words, at[id])
    BY <1>1, AtObject DEF Queued
<1> QED
    BY <1>5, <1>6 DEF QueuePlaces

\* The queue as its comment describes it, from its places.
LEMMA InvariantKeepsFlags == IInv => FlagsKept
<1> SUFFICES ASSUME IInv PROVE FlagsKept
    OBVIOUS
<1>1. Typed /\ FlagsSound /\ QueueSound
    BY DEF IInv
<1>2. NoMarksLeft
    <2> SUFFICES ASSUME phase \in {"run", "alloc"}, NEW id \in DOMAIN at
                 PROVE  ~is_marked(heap, Begins(id)) /\ ~is_enqueued(heap, Begins(id))
        BY DEF NoMarksLeft
    <2>1. heap.words[at[id] + 1] % 4 = 0 /\ heap.words[at[id] + 1] \in Int
        BY <1>1, TypedFacts, SizeFacts DEF FlagsSound
    <2> QED
        BY <1>1, <2>1, ForwardFacts, AtObject DEF Marked, Enqueued
<1>3. ASSUME phase = "mark"
      PROVE  /\ \A i, j \in QueuePlaces : Queued(i) = Queued(j) => i = j
             /\ {Queued(id) : id \in QueuePlaces} =
                    {Begins(id) : id \in {i \in DOMAIN at : is_enqueued(heap, Begins(i))}}
             /\ \A id \in QueuePlaces : ~is_marked(heap, Queued(id))
    <2>1. /\ \A id : id \in QueuePlaces <=> id \in DOMAIN at /\ HeadSlot <= at[id] /\ at[id] < TailSlot
          /\ \A id \in DOMAIN at : Queued(id) = Forward(heap.words, at[id])
        BY <1>3, QueuePlacesFacts
    <2>2. \A j \in DOMAIN at : /\ is_marked(heap, Begins(j)) = Marked(heap.words, at[j])
                               /\ is_enqueued(heap, Begins(j)) = Enqueued(heap.words, at[j])
                               /\ Begins(j) = Content(heap.begin, at[j])
        BY <1>1, TypedFacts, AtObject
    <2>3. \A i \in QueuePlaces : \E j \in DOMAIN at :
              Queued(i) = Begins(j) /\ ~Marked(heap.words, at[j]) /\ Enqueued(heap.words, at[j])
        <3> SUFFICES ASSUME NEW i \in QueuePlaces
                     PROVE  \E j \in DOMAIN at : /\ Queued(i) = Begins(j)
                                                 /\ ~Marked(heap.words, at[j])
                                                 /\ Enqueued(heap.words, at[j])
            OBVIOUS
        <3>1. i \in DOMAIN at /\ HeadSlot <= at[i] /\ at[i] < TailSlot
            BY <2>1
        <3>2. PICK j \in DOMAIN at : /\ Holds(i, j)
                                     /\ Marked(heap.words, at[j]) <=> at[i] < HeadSlot
                                     /\ Enqueued(heap.words, at[j]) <=> at[i] >= HeadSlot
            BY <1>1, <1>3, <3>1 DEF QueueSound
        <3>3. ~(at[i] < HeadSlot) /\ at[i] >= HeadSlot
            <4>1. at[i] \in Int /\ HeadSlot \in Int
                BY <1>1, <1>3, <3>1, LayoutFacts DEF IInv, QueueSound
            <4> QED
                BY <3>1, <4>1
        <3> QED
            BY <2>1, <2>2, <3>1, <3>2, <3>3 DEF Holds
    <2>4. \A j \in DOMAIN at : Enqueued(heap.words, at[j]) => \E i \in QueuePlaces : Queued(i) = Begins(j)
        <3>1. \A j \in DOMAIN at : Enqueued(heap.words, at[j]) =>
                  \E i \in DOMAIN at : HeadSlot <= at[i] /\ at[i] < TailSlot /\ Holds(i, j)
            BY <1>1, <1>3 DEF QueueSound
        <3> QED
            BY <2>1, <2>2, <3>1 DEF Holds
    <2>5. \A i, j \in QueuePlaces : Queued(i) = Queued(j) => i = j
        BY <1>1, <1>3, <2>1 DEF QueueSound
    <2>6. {Queued(id) : id \in QueuePlaces} =
              {Begins(id) : id \in {i \in DOMAIN at : is_enqueued(heap, Begins(i))}}
        BY <2>2, <2>3, <2>4
    <2>7. \A id \in QueuePlaces : ~is_marked(heap, Queued(id))
        BY <2>2, <2>3
    <2> QED
        BY <2>5, <2>6, <2>7
<1> QED
    BY <1>2, <1>3 DEF FlagsKept, QueueInvariant

\* The order of the moves, from that of the places.
LEMMA InvariantSlides == IInv => SlidesDown
<1> SUFFICES ASSUME IInv, phase = "relocate" PROVE SlidesDown
    BY DEF SlidesDown
<1> DEFINE waits == {id \in DOMAIN at : at[id] >= Slot(heap, scan) /\ is_marked(heap, Begins(id))}
           to(id) == Slot(heap, Relative(get_forward_address(heap, Begins(id))))
<1>1. Typed /\ phase \in Compacting /\ heap.begin \in Int /\ Origin = old_heap.begin /\ ScanSlot \in Int
    <2>1. Typed /\ phase \in Compacting
        BY DEF IInv, Compacting
    <2>2. ScanSlot \in Starts /\ Typed
        BY <2>1 DEF IInv, ScanSound
    <2>3. \A s \in Starts : s \in Int
        BY <2>2, TypedFacts, SizeFacts DEF Starts
    <2> QED
        BY <2>1, <2>2, <2>3, TypedFacts DEF Origin
<1>2. ASSUME NEW id \in waits
      PROVE  /\ id \in DOMAIN at /\ at[id] \in Int /\ id \in Placed
             /\ to(id) = Place(id)
    <2>1. id \in DOMAIN at /\ at[id] >= ScanSlot /\ Marked(heap.words, at[id])
        BY <1>1, AtObject DEF ScanSlot
    <2>2. at[id] \in Int
        BY <1>1, <2>1, TypedFacts, SizeFacts
    <2>3. id \in Placed /\ id \notin Passed
        BY <1>1, <2>1, <2>2 DEF Placed, AllMarked, Passed
    <2>4. /\ Forward(heap.words, at[id]) = Origin + WordBytes * (Place(id) - 1)
          /\ Place(id) \in Nat /\ Origin \in Nat
        BY <1>1, <2>3, PlaceFacts
    <2>5. get_forward_address(heap, Begins(id)) = Origin + WordBytes * (Place(id) - 1)
        BY <1>1, <2>1, <2>4, AtObject
    <2>6. Relative(Origin + WordBytes * (Place(id) - 1)) = Address(heap, Place(id))
        BY <1>1, <2>4 DEF Relative, Address, WordBytes
    <2>7. Slot(heap, Address(heap, Place(id))) = Place(id)
        BY <1>1, <2>4, SlotFacts
    <2> QED
        BY <2>1, <2>2, <2>3, <2>5, <2>6, <2>7
<1>3. ASSUME NEW i \in waits, NEW j \in waits
      PROVE  /\ to(i) <= at[i]
             /\ at[i] < at[j] => to(i) + ObjectEnd(i) - at[i] <= to(j)
    <2>1. /\ i \in DOMAIN at /\ at[i] \in Int /\ i \in Placed /\ to(i) = Place(i)
          /\ j \in DOMAIN at /\ at[j] \in Int /\ j \in Placed /\ to(j) = Place(j)
        BY <1>2
    <2>2. /\ Place(i) \in Nat /\ Place(j) \in Nat /\ Place(i) <= at[i]
          /\ at[i] < at[j] => Place(i) + Size(heap.words, at[i]) <= Place(j)
        BY <1>1, <2>1, PlaceFacts
    <2>3. ObjectEnd(i) = at[i] + Size(heap.words, at[i]) /\ Size(heap.words, at[i]) \in Nat
        BY <1>1, <2>1, TypedFacts, SizeFacts DEF ObjectEnd, Size
    <2> HIDE DEF to
    <2> QED
        BY <2>1, <2>2, <2>3
<1> QED
    BY <1>3 DEF SlidesDown

\* Only the end of a compaction leads back to alloc, with room for the request.
LEMMA StepMakesRoom ==
    ASSUME IInv, [Next]_vars, phase = "relocate", phase' = "alloc"
    PROVE  Fits'
<1>1. CASE Collector
    <2>1. CollectorStep /\ UNCHANGED call
        BY <1>1 DEF Collector
    <2>2. CompactEnd
        BY <2>1 DEF CollectorStep, Collect, MarkRoot, Mark, VisitField, MarkEnd, CompactPhase,
                    ComputeLocation, Remap, UpdateReferences, FixRoots, Relocate
    <2> QED
        BY <2>1, <2>2, CompactEndKeeps
<1>2. CASE Allocates \/ Return \/ ReturnStale \/ Instruction
    BY <1>2 DEF Allocates, Return, ReturnStale, Instruction
<1>3. CASE UNCHANGED vars
    BY <1>3 DEF vars
<1> QED
    BY <1>1, <1>2, <1>3 DEF Next

-----------------------------------------------------------------------------
(* Theorems                                                                *)

\* Whatever a program does, and wherever a collection is interrupted, the heap
\* is one of objects: while a program runs the heap iterator (gc.c:
\* heap_next_obj_iterator) meets the objects that were allocated and not
\* collected, each of them once, and nothing else.
THEOREM HeapTypes == Spec => []TypeOK
BY InvariantHolds, InvariantTypes, PTL

\* The comment at gc.c:513 is right: the queue of mark holds every object that is
\* flagged as enqueued, once, and none that is marked; and a collection leaves
\* neither flag behind.
THEOREM FlagsAreKept == Spec => []FlagsKept
BY InvariantHolds, InvariantKeepsFlags, PTL

\* mark, searching from the stack and the registered variables with a queue in
\* the objects' own forward words, marks what they reach, nothing less and
\* nothing more, before compact_phase begins.
THEOREM ReachableIsMarked == Spec => []MarksWhatIsReachable
<1>1. IInv => MarksWhatIsReachable
    BY DEF IInv
<1> QED
    BY <1>1, InvariantHolds, PTL

\* physically_relocate never moves an object up or over one that it has still to
\* move: compute_locations packs them in order, wherever mremap puts the chunk.
THEOREM ObjectsSlideDown == Spec => []SlidesDown
BY InvariantHolds, InvariantSlides, PTL

\* gc_alloc returns room for what alloc asked for, at once: what compact_phase
\* keeps and the request fit into the chunk it has grown.
THEOREM RoomIsMade == Spec => CollectionMakesRoom
<1>1. IInv /\ [Next]_vars => (phase = "relocate" /\ phase' = "alloc" => Fits')
    BY StepMakesRoom
<1>2. IInv /\ [Next]_vars => [phase = "relocate" /\ phase' = "alloc" => Fits']_vars
    BY <1>1
<1> QED
    BY <1>2, InvariantHolds, PTL DEF Spec, CollectionMakesRoom

=============================================================================
