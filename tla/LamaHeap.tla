------------------------------ MODULE LamaHeap ------------------------------
(***************************************************************************)
(* Lama values on the collected heap: what the interpreter's instructions  *)
(* (lamai.c, runtime_externs.h) and the functions of the runtime library   *)
(* (runtime.c) do to the stack and to objects while LamaGC moves them.     *)
(*                                                                         *)
(* A function that allocates is two actions: the call, up to alloc, with   *)
(* its arguments taken from the stack and registered as extra roots or     *)
(* not, and its Return, which fills the new object.  Between them there    *)
(* may be a collection.  A string is a number of whole words, each of      *)
(* them four characters; the library's text is any of Chunks.              *)
(***************************************************************************)
EXTENDS LamaGC

CONSTANTS
    Words,      \* the integers, boxed, that programs use
    Chunks,     \* words of text; some look like addresses of the heap
    Heads,      \* tags of S-expressions and entries of closures
    ArraySizes, SexpSizes, Captures,    \* numbers of fields
    MaxStack, MaxObjects                \* bounds

ASSUME WordsAssumption ==
    /\ \A w \in Words : w \in Int /\ UNBOXED(w)
    /\ Chunks \subseteq Int /\ Heads \subseteq Int
    /\ ArraySizes \subseteq Nat /\ SexpSizes \subseteq Nat /\ Captures \subseteq Nat
    /\ MaxObjects \in Nat

VARIABLES
    call,       \* the function that allocates: its name, header and body
    view        \* history: what the words stood for when a program last ran

vars == << heap, stack, mutator, phase, gcvars, at, call, view >>

NoCall == [op |-> "none", header |-> 0, body |-> << >>]

-----------------------------------------------------------------------------
(* What the words stand for *)

Values == INSTANCE LamaStore WITH operands <- << >>, objects <- << >>, count <- 0

\* A word as a value of LamaStore, in the heap h with its objects at `places';
\* 0 if it is the address of nothing.
Value(h, places, w) ==
    LET first(id) == get_object_content_ptr(Address(h, places[id]))
        whole == {id \in DOMAIN places : first(id) = w}
        within == {id \in DOMAIN places :
                      /\ first(id) < w
                      /\ w < NextObject(h, get_obj_header_ptr(first(id)))}
    IN  IF UNBOXED(w) THEN w
        ELSE IF whole # {} THEN Values!Reference(CHOOSE id \in whole : TRUE)
        ELSE IF within # {} THEN LET id == CHOOSE i \in within : TRUE
                                 IN  Values!Place(id, (w - first(id)) \div WordBytes)
        ELSE 0

ObjectAt(h, places, p) ==
    LET header == WordAt(h, get_obj_header_ptr(p))
        fields == Fields(h, p)
        Entry(a) == IF a \in fields THEN Value(h, places, WordAt(h, a)) ELSE WordAt(h, a)
    IN  [header |-> header,
         body |-> [k \in 1 .. ObjectWords(header) - HeaderWords |->
                     Entry(p + WordBytes * (k - 1))]]

\* The stack s and what it reaches.
Snapshot(h, s, places, n) ==
    LET values == [i \in DOMAIN s |-> Value(h, places, s[i])]
        objects == [id \in DOMAIN places |->
                      ObjectAt(h, places, get_object_content_ptr(Address(h, places[id])))]
    IN  [operands |-> values, objects |-> Values!Live(values, objects), count |-> n]

-----------------------------------------------------------------------------
(* Functions that allocate *)

Below(n) == SubSeq(stack, n + 1, Len(stack))

\* The compiler uses the address of a captured variable for the assignment it
\* was pushed for and for nothing else.
IsPlace(w) == Values!IsPlace(Value(heap, at, w))
Plain(n) == n <= Len(stack) /\ \A i \in 1 .. n : ~IsPlace(stack[i])
Room == Len(SelectSeq(stack, LAMBDA w : ~IsPlace(w))) < MaxStack
RoomFor(n) == n > 0 \/ Room

\* A call takes the top n words as its variables, followed by others, and
\* registers those numbered in roots.
Call(op, header, body, n, others, roots) ==
    /\ phase = "run" /\ born < MaxObjects
    /\ Plain(n)
    /\ call' = [op |-> op, header |-> header, body |-> body]
    /\ request' = ObjectWords(header)
    /\ native' = SubSeq(stack, 1, n) \o others
    /\ stack' = Below(n)
    /\ extra_roots' = roots
    /\ phase' = "alloc"
    /\ UNCHANGED << heap, gcvars, born, at, view >>

\* Barray, Bsexp and Bclosure of the interpreter allocate first and pop the
\* fields afterwards.
Barray(n) == RoomFor(n) /\ Call("array", DataHeader(ARRAY_TAG, n), << >>, 0, << >>, << >>)
Bsexp(n, tag) == RoomFor(n) /\ Call("sexp", DataHeader(SEXP_TAG, n), << tag >>, 0, << >>, << >>)
Bclosure(n, entry) ==
    RoomFor(n) /\ Call("closure", DataHeader(CLOSURE_TAG, n + 1), << entry >>, 0, << >>, << >>)

\* Bstring registers the address of its text, which need not be in the heap.
StringHeader(chunks) == DataHeader(STRING_TAG, WordBytes * Len(chunks))
Bstring(c) ==
    Room /\ Call("string", StringHeader(<< c >>), << c >>, 0, << Outside >>, << 1 >>)

\* Lstring prints its argument to a buffer and makes a string of that.
Lstring(c) ==
    /\ stack # << >>
    /\ Call("string", StringHeader(<< c >>), << c >>, 1, << Outside >>, << 1, 2 >>)

IsObject(w, tags) == ~UNBOXED(w) /\ PointsToObject(w) /\ TypeOf(heap, w) \in tags
AnyTag == {STRING_TAG, ARRAY_TAG, SEXP_TAG, CLOSURE_TAG}

\* Lclone of a string calls Bstring with the text of the argument.
Lclone ==
    /\ stack # << >> /\ IsObject(stack[1], AnyTag)
    /\ LET p == stack[1]
           header == WordAt(heap, get_obj_header_ptr(p))
       IN  IF TypeOf(heap, p) = STRING_TAG
           THEN Call("string copy", header, << >>, 1, << p >>, << 1, 2 >>)
           ELSE Call("clone", header, << >>, 1, << >>, << 1 >>)

\* Li__Infix_4343, the ++ of strings: b is on the top, a below it.
Concat ==
    /\ Len(stack) > 1 /\ \A i \in 1 .. 2 : IsObject(stack[i], {STRING_TAG})
    /\ Call("concat",
            DataHeader(STRING_TAG, LengthOf(heap, stack[1]) + LengthOf(heap, stack[2])),
            << >>, 2, << >>, << 2, 1 >>)

\* pos and length in whole words.
Lsubstring(pos, length) ==
    /\ stack # << >> /\ IsObject(stack[1], {STRING_TAG})
    /\ WordBytes * (pos + length) <= LengthOf(heap, stack[1])
    /\ Call("substring", DataHeader(STRING_TAG, WordBytes * length), << pos, length >>,
            1, << >>, << 1 >>)

\* Ls__Infix_58, the constructor of lists, registers p and q, and passes copies
\* of them to Bsexp, which does not register its arguments.
Cons58(tag) ==
    /\ Len(stack) > 1
    /\ Call("cons", DataHeader(SEXP_TAG, 2), << tag >>,
            2, << stack[1], stack[2] >>, << 2, 1 >>)

\* The words a function writes, given those of the object it read from.
TextAt(p) == SubSeq(heap.words, Slot(heap, p), Slot(heap, p) + LengthOf(heap, p) \div WordBytes - 1)
\* A bug: the field popped first becomes the first.
InPopOrder(n) == SubSeq(stack, 1, n)

PoppedFields(n) == Reverse(SubSeq(stack, 1, n))
FieldCount == LEN(call.header) - (IF call.op = "closure" THEN 1 ELSE 0)

Body ==
    CASE call.op \in {"array", "sexp", "closure"} -> call.body \o PoppedFields(FieldCount)
      [] call.op = "string"      -> call.body
      [] call.op = "string copy" -> TextAt(native[2])
      [] call.op = "concat"      -> TextAt(native[2]) \o TextAt(native[1])
      [] call.op = "substring"   -> SubSeq(TextAt(native[1]), call.body[1] + 1,
                                           call.body[1] + call.body[2])
      [] call.op = "cons"        -> call.body \o << native[4], native[3] >>

\* memcpy of a clone copies the header and the forward word with the fields.
Cloned(p) ==
    LET first == Slot(heap, get_obj_header_ptr(p))
    IN  [heap EXCEPT !.words =
            @ \o SubSeq(@, first, first + ObjectWords(heap.words[first]) - 1)]

\* The words that Bsexp's arguments were before a collection are not updated.
Stale == call.op = "cons" /\ \E i \in 3 .. 4 : native[i] # native[i - 2]

Popped == IF call.op \in {"array", "sexp", "closure"} THEN FieldCount ELSE 0

Return ==
    /\ phase = "alloc" /\ Fits /\ ~Stale
    /\ LET h == IF call.op = "clone" THEN Cloned(native[1])
                                    ELSE AllocatedWith(heap, call.header, Body)
           s == << get_object_content_ptr(Current(heap)) >> \o Below(Popped)
           new == born + 1
           places == [id \in DOMAIN at \cup {new} |->
                        IF id = new THEN Len(heap.words) + 1 ELSE at[id]]
       IN  /\ heap' = h
           /\ stack' = s
           /\ at' = places
           /\ view' = Snapshot(h, s, places, new)
    /\ born' = born + 1
    /\ native' = << >> /\ extra_roots' = << >> /\ request' = 0 /\ call' = NoCall
    /\ phase' = "run"
    /\ UNCHANGED gcvars

\* The new object refers to wherever its fields were.
ReturnStale ==
    /\ phase = "alloc" /\ Fits /\ Stale
    /\ phase' = "undefined"
    /\ UNCHANGED << heap, stack, mutator, gcvars, at, call, view >>

-----------------------------------------------------------------------------
(* Instructions that do not allocate *)

Step(s, h) ==
    /\ phase = "run"
    /\ stack' = s
    /\ heap' = h
    /\ UNCHANGED << mutator, phase, gcvars, at, call >>
    /\ view' = Snapshot(h, s, at, born)

CONST(w) == Room /\ Step(<< w >> \o stack, heap)
LD(i) == Room /\ i \in DOMAIN stack /\ ~IsPlace(stack[i]) /\ Step(<< stack[i] >> \o stack, heap)
ST(i) ==
    /\ i \in DOMAIN stack /\ ~IsPlace(stack[i]) /\ Plain(1)
    /\ Step([stack EXCEPT ![i] = stack[1]], heap)
DROP == stack # << >> /\ Plain(1) /\ Step(Below(1), heap)

Belem ==
    /\ stack # << >> /\ IsObject(stack[1], {ARRAY_TAG, SEXP_TAG, CLOSURE_TAG})
    /\ \E a \in Fields(heap, stack[1]) :
          Step(<< WordAt(heap, a) >> \o Below(1), heap)

Bsta ==
    /\ Len(stack) > 1 /\ Plain(1) /\ IsObject(stack[2], {ARRAY_TAG, SEXP_TAG, CLOSURE_TAG})
    /\ \E a \in Fields(heap, stack[2]) :
          Step(<< stack[1] >> \o Below(2), Store(heap, a, stack[1]))

\* LDA of a captured variable pushes the address of a word of the closure twice.
LDA(i) ==
    /\ Room
    /\ i \in DOMAIN stack /\ IsObject(stack[i], {CLOSURE_TAG})
    /\ \E a \in Fields(heap, stack[i]) : Step(<< a, a >> \o stack, heap)

\* The other branch of Bsta: the index is an address as well.
StaPlace ==
    /\ Len(stack) > 2 /\ Plain(1) /\ IsPlace(stack[2]) /\ stack[2] = stack[3]
    /\ Step(<< stack[1] >> \o Below(3), Store(heap, stack[3], stack[1]))

-----------------------------------------------------------------------------
\* __init, with lamai's empty operand stack.
Init ==
    /\ \E b \in Bases : heap = [begin |-> b, size |-> MinimumCapacity, words |-> << >>]
    /\ stack = << >> /\ native = << >> /\ extra_roots = << >>
    /\ phase = "run" /\ request = 0 /\ call = NoCall
    /\ root = 0 /\ head = 0 /\ tail = 0 /\ field = 0 /\ field_end = 0
    /\ scan = 0 /\ free_ptr = 0 /\ old_heap = NoHeap
    /\ born = 0 /\ at = << >> /\ view = Snapshot(heap, stack, at, born)

Collector == CollectorStep /\ UNCHANGED << call, view >>

Allocates ==
    /\ phase = "run"
    /\ \/ \E n \in ArraySizes : Plain(n) /\ Barray(n)
       \/ \E n \in SexpSizes, x \in Heads : Plain(n) /\ Bsexp(n, x)
       \/ \E n \in Captures, x \in Heads : Plain(n) /\ Bclosure(n, x)
       \/ \E c \in Chunks : Bstring(c) \/ Lstring(c)
       \/ Lclone \/ Concat
       \/ \E pos \in 0 .. 1, length \in 0 .. 2 : Lsubstring(pos, length)
       \/ \E x \in Heads : Cons58(x)

\* Instructions after the last allocation meet no collection.
Instruction ==
    /\ phase = "run" /\ born < MaxObjects
    /\ \/ \E w \in Words : CONST(w)
       \/ \E i \in 1 .. MaxStack : LD(i) \/ ST(i) \/ LDA(i)
       \/ DROP \/ Belem \/ Bsta \/ StaPlace

Next == Allocates \/ Return \/ ReturnStale \/ Instruction \/ Collector

Spec == Init /\ [][Next]_vars

=============================================================================
