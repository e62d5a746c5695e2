------------------------------- MODULE StrRC -------------------------------
(***************************************************************************)
(* The string class of hw08_str_rc.  An object is one machine word: the    *)
(* address of a buffer, halved, and a bit that says the object is the only *)
(* one that refers to it and must free it.  Copying clears the bit on both *)
(* sides, so a buffer once shared is never freed; moving passes the bit on *)
(* and leaves the address behind.  An assignment builds a temporary, swaps *)
(* with it and destroys it, here within one action.                        *)
(*                                                                         *)
(* The client reads, copies and moves only objects it has not moved from.  *)
(***************************************************************************)
EXTENDS Integers

CONSTANTS
    Objects,
    Addresses,   \* what strdup may return; a freed address may come again
    Strings,
    Empty,       \* what an object without a buffer reads as
    Free,        \* the contents of memory that is not allocated
    Dead, Unspecified

\* malloc aligns, so the lowest bit of an address is spare.
ASSUME AddressesAreEven == \A a \in Addresses : a \in Nat \ {0} /\ a % 2 = 0
ASSUME ContentsAreDistinct ==
    /\ Free \notin Strings \cup {Empty, Dead, Unspecified}
    /\ {Dead, Unspecified} \cap (Strings \cup {Empty}) = {}
    /\ Dead # Unspecified

VARIABLES
    alive,       \* the constructed objects
    word,        \* each object's ptr and is_unique
    callback,    \* does the object have a free_callback
    heap,        \* the contents of each address
    announced,   \* the addresses whose last free was told to a callback
    stale,       \* history: objects moved from and not assigned since
    watched,     \* history: buffers whose owner registered a callback
    fate         \* history: buffers that were copied, or duplicated twice

vars == <<alive, word, callback, heap, announced, stale, watched, fate>>

get_ptr(w) == w.ptr * 2
WordNotHalved(address, unique) == [ptr |-> address, is_unique |-> unique]
Word(address, unique) == [ptr |-> address \div 2, is_unique |-> unique]
Shareable(w) == [w EXCEPT !.is_unique = FALSE]

\* strdup finds one of them.
FreeAddresses == {a \in Addresses : heap[a] = Free}

\* The destructor: of an object, or of the temporary that took its word.
Freed(o) == IF o \in alive /\ word[o].is_unique THEN {get_ptr(word[o])} ELSE {}
Announced(o) == IF callback[o] THEN Freed(o) ELSE {}

CallbackStays(o, cb) == callback[o]
SwappedCallback(o, cb) == cb

\* o has its new word and callback and what it held is destroyed; strdup has
\* put s at the fresh addresses.
Settle(o, cb, fresh, s) ==
    /\ alive' = alive \cup {o}
    /\ callback' = [callback EXCEPT ![o] = SwappedCallback(o, cb)]
    /\ heap' = [a \in Addresses |-> IF a \in fresh THEN s
                                    ELSE IF a \in Freed(o) THEN Free ELSE heap[a]]
    /\ announced' = (announced \ fresh) \cup Announced(o)
    /\ watched' = watched \ fresh

ConstructEmpty(o) ==
    /\ o \notin alive
    /\ word' = [word EXCEPT ![o] = Word(0, FALSE)]
    /\ Settle(o, FALSE, {}, Empty)
    /\ UNCHANGED <<stale, fate>>

ConstructFromStr(o, s) ==
    \E a \in FreeAddresses :
        /\ o \notin alive
        /\ word' = [word EXCEPT ![o] = Word(a, TRUE)]
        /\ Settle(o, FALSE, {a}, s)
        /\ fate' = [fate EXCEPT ![a] = "owned"]
        /\ UNCHANGED stale

\* operator=(const char*) duplicates the string, and so does its temporary.
AssignStr(o, s) ==
    \E a, b \in FreeAddresses :
        /\ a # b /\ o \in alive
        /\ word' = [word EXCEPT ![o] = Word(b, TRUE)]
        /\ Settle(o, FALSE, {a, b}, s)
        /\ fate' = [fate EXCEPT ![a] = "doubled", ![b] = "owned"]
        /\ stale' = stale \ {o}

SourceStaysUnique(w) == w
SourceEmptied(w) == Word(0, FALSE)
CopiedFrom(w) == Shareable(w)

\* StrRC(StrRC&), and operator=(StrRC&), which does nothing on itself.
Copy(o, src) ==
    /\ o # src /\ src \in alive \ stale
    /\ word' = [word EXCEPT ![o] = Shareable(word[src]),
                            ![src] = CopiedFrom(word[src])]
    /\ Settle(o, FALSE, {}, Empty)
    /\ fate' = [a \in Addresses |-> IF a = get_ptr(word[src]) THEN "shared" ELSE fate[a]]
    /\ stale' = stale \ {o}

MoveKeepsUnique(w) == w
MovedFrom(w) == Shareable(w)

\* StrRC(StrRC&&), and operator=(StrRC&&), which does nothing on itself.
Move(o, src) ==
    /\ o # src /\ src \in alive \ stale
    /\ word' = [word EXCEPT ![o] = word[src], ![src] = MovedFrom(word[src])]
    /\ Settle(o, callback[src], {}, Empty)
    /\ stale' = (stale \ {o}) \cup {src}
    /\ UNCHANGED fate

reg_free_callback(o) ==
    /\ o \in alive
    /\ callback' = [callback EXCEPT ![o] = TRUE]
    /\ watched' = watched \cup Freed(o)
    /\ UNCHANGED <<alive, word, heap, announced, stale, fate>>

\* The memory of a dead object reads as that of an empty one.
Destroy(o) ==
    /\ o \in alive
    /\ alive' = alive \ {o} /\ stale' = stale \ {o}
    /\ word' = [word EXCEPT ![o] = Word(0, FALSE)]
    /\ callback' = [callback EXCEPT ![o] = FALSE]
    /\ heap' = [a \in Addresses |-> IF a \in Freed(o) THEN Free ELSE heap[a]]
    /\ announced' = announced \cup Announced(o)
    /\ UNCHANGED <<watched, fate>>

Init ==
    /\ alive = {}
    /\ word = [o \in Objects |-> Word(0, FALSE)]
    /\ callback = [o \in Objects |-> FALSE]
    /\ heap = [a \in Addresses |-> Free]
    /\ announced = {} /\ stale = {} /\ watched = {}
    /\ fate = [a \in Addresses |-> "owned"]

Next ==
    \E o \in Objects :
        \/ ConstructEmpty(o) \/ reg_free_callback(o) \/ Destroy(o)
        \/ \E s \in Strings : ConstructFromStr(o, s) \/ AssignStr(o, s)
        \/ \E src \in Objects : Copy(o, src) \/ Move(o, src)

Spec == Init /\ [][Next]_vars

-----------------------------------------------------------------------------
(* Properties *)

\* operator*
Reads(o) == IF get_ptr(word[o]) = 0 THEN Empty ELSE heap[get_ptr(word[o])]

Owns(o, a) == word[o].is_unique /\ get_ptr(word[o]) = a

TypeOK ==
    /\ alive \in SUBSET Objects /\ stale \in SUBSET alive
    /\ word \in [Objects -> [ptr : {a \div 2 : a \in Addresses \cup {0}}, is_unique : BOOLEAN]]
    /\ callback \in [Objects -> BOOLEAN]
    /\ heap \in [Addresses -> Strings \cup {Free}]
    /\ announced \in SUBSET Addresses /\ watched \in SUBSET Addresses
    /\ fate \in [Addresses -> {"owned", "shared", "doubled"}]

\* A buffer is freed at most once: a unique object's buffer is allocated and
\* no other object would free it.
OwnersAreUnique ==
    \A o \in alive : word[o].is_unique =>
        /\ get_ptr(word[o]) \in Addresses /\ Reads(o) # Free
        /\ \A p \in alive \ {o} : ~Owns(p, get_ptr(word[o]))

\* No object that was not moved from refers to freed memory, whatever order
\* the objects that shared the buffer are assigned and destroyed in.
NothingDangles == \A o \in alive \ stale : Reads(o) # Free

\* When a string whose owner registered a callback is freed, the callback is
\* told, wherever moves and swaps have carried the ownership; and it is told
\* of no string that still exists.  A string no copy was made of dies with its
\* object: of the others only the second duplicate an assignment makes stays.
FreesAnnounced ==
    \A a \in Addresses :
        /\ heap[a] = Free /\ a \in watched => a \in announced
        /\ a \in announced => heap[a] = Free
        /\ heap[a] # Free /\ fate[a] = "owned" => \E o \in alive : Owns(o, a)

\* Each object reads as a value of its own: copies and moves carry the string
\* over, and no operation on one object changes what another reads.
Value == [o \in Objects |-> IF o \notin alive THEN Dead
                            ELSE IF o \in stale THEN Unspecified ELSE Reads(o)]

Values == INSTANCE StringValues WITH value <- Value

\* The class implements StringValues.
KeepsValues == Values!Spec

=============================================================================
