----------------------------- MODULE HeapLayout -----------------------------
(***************************************************************************)
(* The words of the Lama runtime (runtime_common.h, gc.h and the accessors *)
(* of gc.c): how a value, an object's header and its forward word are      *)
(* encoded, where an object's fields are, and how one object follows       *)
(* another.  A word is four bytes and an address is a multiple of four.    *)
(*                                                                         *)
(* A heap h is [begin, size, words]: the words in use, from begin up to    *)
(* heap.current, in a chunk of `size' words.                               *)
(***************************************************************************)
EXTENDS Integers, Sequences

WordBytes == 4
HeaderWords == 2
HeaderBytes == WordBytes * HeaderWords

\* Values: an integer is odd, everything even is taken for a pointer.
BOX(n) == 2 * n + 1
UNBOX(w) == w \div 2
UNBOXED(w) == w % 2 = 1

\* Headers: a tag in the low three bits, a length above them.
STRING_TAG == 1
ARRAY_TAG == 3
SEXP_TAG == 5
CLOSURE_TAG == 7

TAG(header) == header % 8
LEN(header) == header \div 8
DataHeader(tag, len) == 8 * len + tag

\* string_size, array_size, sexp_size and closure_size, in words.  A string has
\* a byte more than its length, an S-expression a word for its tag.
ObjectWords(header) ==
    HeaderWords + (CASE TAG(header) = STRING_TAG -> LEN(header) \div WordBytes + 1
                     [] TAG(header) = SEXP_TAG   -> LEN(header) + 1
                     [] OTHER                    -> LEN(header))

\* The forward word: an address whose two low bits are free for marks.
GET_FORWARD_ADDRESS(x) == x - (x % 4)
SET_FORWARD_ADDRESS(x, address) == address + (x % 4)
MARKED(x) == x % 2 = 1
SET_MARK_BIT(x) == IF MARKED(x) THEN x ELSE x + 1
RESET_MARK_BIT(x) == IF MARKED(x) THEN x - 1 ELSE x
ENQUEUED(x) == (x \div 2) % 2 = 1
MAKE_ENQUEUED(x) == IF ENQUEUED(x) THEN x ELSE x + 2
\* A bug: a dequeued object still says it is in the queue.
StaysEnqueued(x) == x
MAKE_DEQUEUED(x) == IF ENQUEUED(x) THEN x - 2 ELSE x

-----------------------------------------------------------------------------
Slot(h, a) == (a - h.begin) \div WordBytes + 1
Address(h, slot) == h.begin + WordBytes * (slot - 1)
WordAt(h, a) == h.words[Slot(h, a)]
Store(h, a, w) == [h EXCEPT !.words[Slot(h, a)] = w]

Current(h) == h.begin + WordBytes * Len(h.words)
End(h) == h.begin + WordBytes * h.size

is_valid_heap_pointer(h, w) == ~UNBOXED(w) /\ h.begin <= w /\ w <= Current(h)

\* A pointer to an object points behind its header.
get_object_content_ptr(header) == header + HeaderBytes
get_obj_header_ptr(p) == p - HeaderBytes
TypeOf(h, p) == TAG(WordAt(h, get_obj_header_ptr(p)))
LengthOf(h, p) == LEN(WordAt(h, get_obj_header_ptr(p)))
ForwardWord(h, p) == WordAt(h, p - WordBytes)
SetForwardWord(h, p, x) == Store(h, p - WordBytes, x)

is_marked(h, p) == MARKED(ForwardWord(h, p))
is_enqueued(h, p) == ENQUEUED(ForwardWord(h, p))
get_forward_address(h, p) == GET_FORWARD_ADDRESS(ForwardWord(h, p))
set_forward_address(h, p, a) ==
    SetForwardWord(h, p, SET_FORWARD_ADDRESS(ForwardWord(h, p), a))
mark_object(h, p) == SetForwardWord(h, p, SET_MARK_BIT(ForwardWord(h, p)))
unmark_object(h, p) == SetForwardWord(h, p, RESET_MARK_BIT(ForwardWord(h, p)))
make_enqueued(h, p) == SetForwardWord(h, p, MAKE_ENQUEUED(ForwardWord(h, p)))
make_dequeued(h, p) == SetForwardWord(h, p, MAKE_DEQUEUED(ForwardWord(h, p)))

\* heap_next_obj_iterator.
NextObject(h, header) == header + WordBytes * ObjectWords(WordAt(h, header))

\* get_end_of_obj.
EndOf(h, p) == NextObject(h, get_obj_header_ptr(p))

\* A string has no fields, the first word of an S-expression is its tag and that
\* of a closure its entry.
field_begin_iterator(h, p) ==
    CASE TypeOf(h, p) = STRING_TAG              -> EndOf(h, p)
      [] TypeOf(h, p) \in {SEXP_TAG, CLOSURE_TAG} -> p + WordBytes
      [] OTHER                                  -> p

\* The addresses of an object's fields.
Fields(h, p) ==
    {Address(h, i) : i \in Slot(h, field_begin_iterator(h, p)) .. Slot(h, EndOf(h, p)) - 1}

=============================================================================
