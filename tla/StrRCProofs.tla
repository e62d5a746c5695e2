---------------------------- MODULE StrRCProofs ----------------------------
(***************************************************************************)
(* The memory safety of StrRC for any number of objects, addresses and     *)
(* strings: no buffer is freed twice and no object that was not moved from *)
(* refers to a freed one.                                                  *)
(***************************************************************************)
EXTENDS StrRC, TLAPS

(* The inductive invariant *)

Address(o) == get_ptr(word[o])
Unique(o) == word[o].is_unique

Allocated(a) == a \in Addresses /\ heap[a] # Free

\* A moved-from or dead object owns nothing, and whoever owns a buffer is the
\* only object in use that refers to it.
OwnersAlone ==
    \A o \in Objects : Unique(o) =>
        /\ o \in alive \ stale /\ Allocated(Address(o))
        /\ \A p \in alive \ stale : p # o => Address(p) # Address(o)

\* What an object in use refers to is allocated.
ReferencesLive == \A o \in alive \ stale : Address(o) = 0 \/ Allocated(Address(o))

IInv == TypeOK /\ OwnersAlone /\ ReferencesLive

-----------------------------------------------------------------------------
(* Lemmas about the word *)

\* Halving and doubling gives an even address back, so the bit costs nothing.
LEMMA WordKeepsAddress ==
    ASSUME NEW a \in Addresses \cup {0}, NEW u \in BOOLEAN
    PROVE  /\ get_ptr(Word(a, u)) = a /\ Word(a, u).is_unique = u
           /\ Word(a, u) \in [ptr : {b \div 2 : b \in Addresses \cup {0}}, is_unique : BOOLEAN]
<1>1. a \in Nat /\ a % 2 = 0
    BY AddressesAreEven
<1>2. (a \div 2) * 2 = a
    BY <1>1
<1> QED
    BY <1>2 DEF get_ptr, Word

LEMMA ShareableKeepsAddress ==
    ASSUME NEW w \in [ptr : {b \div 2 : b \in Addresses \cup {0}}, is_unique : BOOLEAN]
    PROVE  /\ get_ptr(Shareable(w)) = get_ptr(w) /\ Shareable(w).is_unique = FALSE
           /\ Shareable(w) \in [ptr : {b \div 2 : b \in Addresses \cup {0}}, is_unique : BOOLEAN]
BY DEF get_ptr, Shareable

\* What is destroyed when o is assigned or dies is referred to by no other
\* object in use.
LEMMA FreedIsOwned ==
    ASSUME IInv, NEW o \in Objects
    PROVE  \A p \in alive \ stale : p # o => Address(p) \notin Freed(o)
BY DEF IInv, OwnersAlone, Freed, Address, Unique

\* Zero is no address.
LEMMA ZeroIsNoAddress == 0 \notin Addresses
BY AddressesAreEven

-----------------------------------------------------------------------------
(* One lemma per operation *)

LEMMA Initially == Init => IInv
<1> SUFFICES ASSUME Init PROVE IInv
    OBVIOUS
<1>1. \A o \in Objects : ~Unique(o)
    BY WordKeepsAddress DEF Init, Unique
<1>2. TypeOK
    BY WordKeepsAddress DEF Init, TypeOK
<1> QED
    BY <1>1, <1>2 DEF Init, IInv, OwnersAlone, ReferencesLive

LEMMA ConstructEmptyKeeps ==
    ASSUME IInv, NEW o \in Objects, ConstructEmpty(o)
    PROVE  IInv'
<1> USE DEF ConstructEmpty, Settle, SwappedCallback
<1>1. Freed(o) = {}
    BY DEF Freed
<1>2. heap' = heap
    BY <1>1 DEF IInv, TypeOK
<1>3. TypeOK'
    BY <1>1, <1>2, WordKeepsAddress DEF IInv, TypeOK, Announced
<1>4. /\ Address(o)' = 0 /\ ~Unique(o)'
      /\ \A p \in Objects \ {o} : Address(p)' = Address(p) /\ Unique(p)' = Unique(p)
    BY WordKeepsAddress DEF IInv, TypeOK, Address, Unique
<1>5. OwnersAlone'
    BY <1>2, <1>4, ZeroIsNoAddress DEF IInv, TypeOK, OwnersAlone, Allocated
<1>6. ReferencesLive'
    BY <1>2, <1>4 DEF IInv, TypeOK, ReferencesLive, Allocated
<1> QED
    BY <1>3, <1>5, <1>6 DEF IInv

\* o gets a fresh buffer of its own; another one may be allocated beside it.
LEMMA FreshBufferKeeps ==
    ASSUME IInv, NEW o \in Objects, NEW s \in Strings, NEW fresh \in SUBSET FreeAddresses,
           NEW a \in fresh,
           word' = [word EXCEPT ![o] = Word(a, TRUE)],
           Settle(o, FALSE, fresh, s),
           stale' = stale \ {o},
           fate' \in [Addresses -> {"owned", "shared", "doubled"}]
    PROVE  IInv'
<1> USE DEF Settle, SwappedCallback
<1>1. fresh \subseteq Addresses /\ \A b \in fresh : heap[b] = Free
    BY DEF FreeAddresses
<1>2. Freed(o) \subseteq Addresses
    BY DEF IInv, OwnersAlone, Freed, Allocated, Address, Unique
<1>3. TypeOK'
    BY <1>1, <1>2, WordKeepsAddress DEF IInv, TypeOK, Announced
<1>4. /\ Address(o)' = a /\ Unique(o)'
      /\ \A p \in Objects \ {o} : Address(p)' = Address(p) /\ Unique(p)' = Unique(p)
    BY <1>1, WordKeepsAddress DEF IInv, TypeOK, Address, Unique
<1>5. Allocated(a)'
    BY <1>1, ContentsAreDistinct DEF Allocated
<1>6. \A p \in alive \ stale : Address(p) # a
    BY <1>1, ZeroIsNoAddress DEF IInv, ReferencesLive, Allocated
<1>7. \A p \in alive \ stale : p # o /\ Allocated(Address(p)) => Allocated(Address(p))'
    BY <1>1, <1>4, FreedIsOwned, ContentsAreDistinct DEF IInv, TypeOK, Allocated
<1>8. OwnersAlone'
    BY <1>4, <1>5, <1>6, <1>7 DEF IInv, TypeOK, OwnersAlone
<1>9. ReferencesLive'
    BY <1>4, <1>5, <1>7 DEF IInv, TypeOK, ReferencesLive
<1> QED
    BY <1>3, <1>8, <1>9 DEF IInv

LEMMA CopyKeeps ==
    ASSUME IInv, NEW o \in Objects, NEW src \in Objects, Copy(o, src)
    PROVE  IInv'
<1> USE DEF Copy, Settle, SwappedCallback
<1>1. Freed(o) \subseteq Addresses
    BY DEF IInv, OwnersAlone, Freed, Allocated, Address, Unique
<1>2. TypeOK'
    BY <1>1, ShareableKeepsAddress DEF IInv, TypeOK, Announced, CopiedFrom
<1>3. /\ Address(o)' = Address(src) /\ ~Unique(o)'
      /\ Address(src)' = Address(src) /\ ~Unique(src)'
      /\ \A p \in Objects \ {o, src} : Address(p)' = Address(p) /\ Unique(p)' = Unique(p)
    BY ShareableKeepsAddress DEF IInv, TypeOK, Address, Unique, CopiedFrom
<1>4. \A p \in alive \ stale : p # o /\ Allocated(Address(p)) => Allocated(Address(p))'
    BY <1>3, FreedIsOwned DEF IInv, TypeOK, Allocated
<1>5. OwnersAlone'
    BY <1>3, <1>4 DEF IInv, TypeOK, OwnersAlone
<1>6. ReferencesLive'
    BY <1>3, <1>4 DEF IInv, TypeOK, ReferencesLive
<1> QED
    BY <1>2, <1>5, <1>6 DEF IInv

LEMMA MoveKeeps ==
    ASSUME IInv, NEW o \in Objects, NEW src \in Objects, Move(o, src)
    PROVE  IInv'
<1> USE DEF Move, Settle, SwappedCallback
<1>1. Freed(o) \subseteq Addresses
    BY DEF IInv, OwnersAlone, Freed, Allocated, Address, Unique
<1>2. TypeOK'
    BY <1>1, ShareableKeepsAddress DEF IInv, TypeOK, Announced, MovedFrom
<1>3. /\ Address(o)' = Address(src) /\ Unique(o)' = Unique(src)
      /\ ~Unique(src)'
      /\ \A p \in Objects \ {o, src} : Address(p)' = Address(p) /\ Unique(p)' = Unique(p)
    BY ShareableKeepsAddress DEF IInv, TypeOK, Address, Unique, MovedFrom
<1>4. \A p \in alive \ stale : p # o /\ Allocated(Address(p)) =>
          (p # src => Allocated(Address(p))') /\ (p = src => Allocated(Address(o))')
    BY <1>3, FreedIsOwned DEF IInv, TypeOK, Allocated
<1>5. OwnersAlone'
    BY <1>3, <1>4 DEF IInv, TypeOK, OwnersAlone
<1>6. ReferencesLive'
    BY <1>3, <1>4 DEF IInv, TypeOK, ReferencesLive
<1> QED
    BY <1>2, <1>5, <1>6 DEF IInv

LEMMA DestroyKeeps ==
    ASSUME IInv, NEW o \in Objects, Destroy(o)
    PROVE  IInv'
<1> USE DEF Destroy
<1>1. Freed(o) \subseteq Addresses
    BY DEF IInv, OwnersAlone, Freed, Allocated, Address, Unique
<1>2. TypeOK'
    BY <1>1, WordKeepsAddress DEF IInv, TypeOK, Announced
<1>3. /\ ~Unique(o)'
      /\ \A p \in Objects \ {o} : Address(p)' = Address(p) /\ Unique(p)' = Unique(p)
    BY WordKeepsAddress DEF IInv, TypeOK, Address, Unique
<1>4. \A p \in alive \ stale : p # o /\ Allocated(Address(p)) => Allocated(Address(p))'
    BY <1>3, FreedIsOwned DEF IInv, TypeOK, Allocated
<1>5. OwnersAlone'
    BY <1>3, <1>4 DEF IInv, TypeOK, OwnersAlone
<1>6. ReferencesLive'
    BY <1>3, <1>4 DEF IInv, TypeOK, ReferencesLive
<1> QED
    BY <1>2, <1>5, <1>6 DEF IInv

\* Registering a callback changes no word and frees nothing.
LEMMA RegisterKeeps ==
    ASSUME IInv, NEW o \in Objects, reg_free_callback(o)
    PROVE  IInv'
<1>1. Freed(o) \subseteq Addresses
    BY DEF IInv, OwnersAlone, Freed, Allocated, Address, Unique
<1>2. TypeOK'
    BY <1>1 DEF IInv, TypeOK, reg_free_callback
<1>3. OwnersAlone' /\ ReferencesLive'
    BY DEF IInv, OwnersAlone, ReferencesLive, Allocated, Address, Unique, reg_free_callback
<1> QED
    BY <1>2, <1>3 DEF IInv

LEMMA ConstructFromStrKeeps ==
    ASSUME IInv, NEW o \in Objects, NEW s \in Strings, ConstructFromStr(o, s)
    PROVE  IInv'
<1>1. PICK a \in FreeAddresses :
          /\ o \notin alive
          /\ word' = [word EXCEPT ![o] = Word(a, TRUE)]
          /\ Settle(o, FALSE, {a}, s)
          /\ fate' = [fate EXCEPT ![a] = "owned"]
          /\ UNCHANGED stale
    BY DEF ConstructFromStr
<1>2. stale' = stale \ {o} /\ fate' \in [Addresses -> {"owned", "shared", "doubled"}]
    BY <1>1 DEF IInv, TypeOK
<1> QED
    BY <1>1, <1>2, FreshBufferKeeps

LEMMA AssignStrKeeps ==
    ASSUME IInv, NEW o \in Objects, NEW s \in Strings, AssignStr(o, s)
    PROVE  IInv'
<1>1. PICK a \in FreeAddresses, b \in FreeAddresses :
          /\ word' = [word EXCEPT ![o] = Word(b, TRUE)]
          /\ Settle(o, FALSE, {a, b}, s)
          /\ fate' = [fate EXCEPT ![a] = "doubled", ![b] = "owned"]
          /\ stale' = stale \ {o}
    BY DEF AssignStr
<1>2. fate' \in [Addresses -> {"owned", "shared", "doubled"}]
    BY <1>1 DEF IInv, TypeOK
<1>3. {a, b} \in SUBSET FreeAddresses /\ b \in {a, b}
    OBVIOUS
<1> QED
    BY <1>1, <1>2, <1>3, FreshBufferKeeps

LEMMA Stays == IInv /\ [Next]_vars => IInv'
<1> SUFFICES ASSUME IInv, [Next]_vars PROVE IInv'
    OBVIOUS
<1>1. CASE Next
    BY <1>1, ConstructEmptyKeeps, ConstructFromStrKeeps, AssignStrKeeps, CopyKeeps,
       MoveKeeps, RegisterKeeps, DestroyKeeps DEF Next
<1>2. CASE UNCHANGED vars
    BY <1>2 DEF vars, IInv, TypeOK, OwnersAlone, ReferencesLive, Allocated, Address, Unique
<1> QED
    BY <1>1, <1>2

\* IInv is an inductive invariant of the class.
THEOREM Invariance == Spec => []IInv
BY Initially, Stays, PTL DEF Spec

-----------------------------------------------------------------------------

\* The words, buffers and histories are well typed: every word holds the
\* address of a buffer or null.
THEOREM TypeCorrectness == Spec => []TypeOK
<1>1. IInv => TypeOK
    BY DEF IInv
<1> QED
    BY <1>1, Invariance, PTL

\* The destructors and assignments never free a buffer twice.
THEOREM NoDoubleFree == Spec => []OwnersAreUnique
<1>1. ASSUME IInv PROVE OwnersAreUnique
    <2> SUFFICES ASSUME NEW o \in alive, Unique(o)
                 PROVE  /\ Address(o) \in Addresses /\ Reads(o) # Free
                        /\ \A p \in alive \ {o} : ~Owns(p, Address(o))
        BY DEF OwnersAreUnique, Unique, Address
    <2>1. alive \subseteq Objects
        BY <1>1 DEF IInv, TypeOK
    <2> QED
        BY <1>1, <2>1, ZeroIsNoAddress
        DEF IInv, OwnersAlone, Allocated, Owns, Reads, Address, Unique
<1> QED
    BY <1>1, Invariance, PTL

\* operator* of an object that was not moved from reads no freed memory.
THEOREM NoDanglingRead == Spec => []NothingDangles
<1>1. ASSUME IInv PROVE NothingDangles
    BY <1>1, ContentsAreDistinct
    DEF IInv, ReferencesLive, Allocated, NothingDangles, Reads, Address
<1> QED
    BY <1>1, Invariance, PTL

-----------------------------------------------------------------------------
(* Who is told of a free                                                   *)

\* A callback goes with the ownership of the buffer it was registered for.
CallbacksFollow == \A o \in Objects : Unique(o) /\ Address(o) \in watched => callback[o]

Tracked == FreesAnnounced /\ CallbacksFollow

\* The shared part of the constructors and assignments keeps account of o's old
\* buffer, if o's new one is fresh or comes with its owner's callback, and if no
\* other owner is lost of a buffer still to be freed.
LEMMA SettleTracks ==
    ASSUME IInv, IInv', Tracked, NEW o \in Objects, NEW cb, NEW s,
           NEW fresh \in SUBSET FreeAddresses, fresh # {} => s # Free,
           Settle(o, cb, fresh, s),
           Unique(o)' => \/ Address(o)' \in fresh
                         \/ \E q \in Objects : /\ Unique(q) /\ Address(q) = Address(o)'
                                               /\ cb = callback[q],
           \A p \in Objects \ {o} : Unique(p)' => Unique(p) /\ Address(p)' = Address(p),
           \A a \in Addresses : fate'[a] = "owned" =>
               \/ a \in fresh /\ Unique(o)' /\ Address(o)' = a
               \/ /\ a \notin fresh /\ fate[a] = "owned"
                  /\ \A q \in Objects \ {o} : Unique(q) /\ Address(q) = a =>
                         \E p \in Objects : Unique(p)' /\ Address(p)' = a
    PROVE  Tracked'
<1> USE DEF Settle, SwappedCallback
<1>1. /\ fresh \subseteq Addresses /\ \A a \in fresh : heap[a] = Free
      /\ Freed(o) \subseteq Addresses /\ \A a \in Freed(o) : heap[a] # Free
    BY DEF FreeAddresses, IInv, OwnersAlone, Freed, Allocated, Address, Unique
<1>2. callback' = [callback EXCEPT ![o] = cb] /\ callback \in [Objects -> BOOLEAN]
    BY DEF IInv, TypeOK
<1>3. \A a \in Freed(o) : a \in watched => a \in Announced(o)
    BY DEF Tracked, CallbacksFollow, Announced, Freed, Address, Unique
<1>4. ASSUME NEW a \in Addresses, heap'[a] = Free, a \in watched' PROVE a \in announced'
    BY <1>1, <1>3, <1>4 DEF Tracked, FreesAnnounced
<1>5. ASSUME NEW a \in Addresses, a \in announced' PROVE heap'[a] = Free
    <2>1. Announced(o) \subseteq Freed(o)
        BY DEF Announced
    <2> QED
        BY <1>1, <1>5, <2>1 DEF Tracked, FreesAnnounced
<1>6. ASSUME NEW a \in Addresses, heap'[a] # Free, fate'[a] = "owned"
      PROVE  \E p \in alive' : Owns(p, a)'
    <2>1. \E p \in Objects : Unique(p)' /\ Address(p)' = a
        <3>1. CASE a \in fresh /\ Unique(o)' /\ Address(o)' = a
            BY <3>1
        <3>2. CASE ~(a \in fresh /\ Unique(o)' /\ Address(o)' = a)
            <4>1. a \notin fresh /\ a \notin Freed(o) /\ heap[a] # Free /\ fate[a] = "owned"
                BY <1>6, <3>2
            <4>2. PICK q \in alive : Owns(q, a)
                BY <4>1 DEF Tracked, FreesAnnounced
            <4>3. q \in Objects \ {o} /\ Unique(q) /\ Address(q) = a
                BY <4>1, <4>2 DEF IInv, TypeOK, Owns, Freed, Unique, Address
            <4> QED
                BY <1>6, <3>2, <4>3
        <3> QED
            BY <3>1, <3>2
    <2> QED
        BY <2>1 DEF IInv, OwnersAlone, Owns, Unique, Address
<1>7. CallbacksFollow'
    <2> SUFFICES ASSUME NEW p \in Objects, Unique(p)', Address(p)' \in watched'
                 PROVE  callback'[p]
        BY DEF CallbacksFollow, Unique, Address
    <2>1. CASE p # o
        BY <1>2, <2>1 DEF Tracked, CallbacksFollow
    <2>2. CASE p = o
        BY <1>2, <2>2 DEF Tracked, CallbacksFollow
    <2> QED
        BY <2>1, <2>2
<1>8. FreesAnnounced'
    BY <1>4, <1>5, <1>6 DEF FreesAnnounced, Owns
<1> QED
    BY <1>7, <1>8 DEF Tracked

LEMMA InitiallyTracked == Init => Tracked
<1> SUFFICES ASSUME Init PROVE Tracked
    OBVIOUS
<1>1. \A o \in Objects : ~Unique(o)
    BY WordKeepsAddress DEF Init, Unique
<1> QED
    BY <1>1 DEF Init, Tracked, FreesAnnounced, CallbacksFollow

LEMMA StaysTracked == IInv /\ IInv' /\ Tracked /\ [Next]_vars => Tracked'
<1> SUFFICES ASSUME IInv, IInv', Tracked, [Next]_vars PROVE Tracked'
    OBVIOUS
<1>0. fate \in [Addresses -> {"owned", "shared", "doubled"}]
    BY DEF IInv, TypeOK
<1>1. ASSUME NEW o \in Objects, ConstructEmpty(o) PROVE Tracked'
    <2> DEFINE cb == FALSE
    <2>1. /\ ~Unique(o)' /\ Settle(o, cb, {}, Empty) /\ fate' = fate
          /\ \A p \in Objects \ {o} : Address(p)' = Address(p) /\ Unique(p)' = Unique(p)
        BY <1>1, WordKeepsAddress DEF ConstructEmpty, IInv, TypeOK, Address, Unique
    <2>2. \A a \in Addresses : \A q \in Objects \ {o} :
              Unique(q) /\ Address(q) = a => Unique(q)' /\ Address(q)' = a
        BY <2>1
    <2> HIDE DEF cb
    <2> QED
        BY <2>1, <2>2, SettleTracks
<1>2. ASSUME NEW o \in Objects, NEW s \in Strings, NEW fresh \in SUBSET FreeAddresses,
             NEW a \in fresh,
             word' = [word EXCEPT ![o] = Word(a, TRUE)], Settle(o, FALSE, fresh, s),
             \A b \in Addresses : fate'[b] = "owned" =>
                 b = a \/ (b \notin fresh /\ fate[b] = "owned")
      PROVE  Tracked'
    <2>1. a \in Addresses /\ s # Free
        BY ContentsAreDistinct DEF FreeAddresses
    <2>2. /\ Unique(o)' /\ Address(o)' = a
          /\ \A p \in Objects \ {o} : Address(p)' = Address(p) /\ Unique(p)' = Unique(p)
        BY <1>2, <2>1, WordKeepsAddress DEF IInv, TypeOK, Address, Unique
    <2> QED
        BY <1>2, <2>1, <2>2, SettleTracks
<1>3. ASSUME NEW o \in Objects, NEW s \in Strings, ConstructFromStr(o, s) PROVE Tracked'
    <2>1. PICK a \in FreeAddresses :
              /\ word' = [word EXCEPT ![o] = Word(a, TRUE)] /\ Settle(o, FALSE, {a}, s)
              /\ fate' = [fate EXCEPT ![a] = "owned"]
        BY <1>3 DEF ConstructFromStr
    <2>2. \A b \in Addresses : fate'[b] = "owned" => b = a \/ (b \notin {a} /\ fate[b] = "owned")
        BY <2>1, <1>0
    <2> QED
        BY <1>2, <2>1, <2>2
<1>4. ASSUME NEW o \in Objects, NEW s \in Strings, AssignStr(o, s) PROVE Tracked'
    <2>1. PICK a \in FreeAddresses, b \in FreeAddresses :
              /\ a # b
              /\ word' = [word EXCEPT ![o] = Word(b, TRUE)] /\ Settle(o, FALSE, {a, b}, s)
              /\ fate' = [fate EXCEPT ![a] = "doubled", ![b] = "owned"]
        BY <1>4 DEF AssignStr
    <2>2. \A c \in Addresses : fate'[c] = "owned" => c = b \/ (c \notin {a, b} /\ fate[c] = "owned")
        BY <2>1, <1>0
    <2>3. {a, b} \in SUBSET FreeAddresses /\ b \in {a, b}
        OBVIOUS
    <2> QED
        BY <1>2, <2>1, <2>2, <2>3
<1>5. ASSUME NEW o \in Objects, NEW src \in Objects, Copy(o, src) PROVE Tracked'
    <2> DEFINE cb == FALSE
    <2>1. /\ ~Unique(o)' /\ ~Unique(src)' /\ Settle(o, cb, {}, Empty)
          /\ \A p \in Objects \ {o, src} : Address(p)' = Address(p) /\ Unique(p)' = Unique(p)
        BY <1>5, ShareableKeepsAddress DEF Copy, IInv, TypeOK, Address, Unique, CopiedFrom
    <2>2. \A a \in Addresses : fate'[a] = "owned" => fate[a] = "owned" /\ a # Address(src)
        BY <1>5 DEF Copy, Address
    <2>3. \A a \in Addresses : fate'[a] = "owned" =>
              /\ a \notin {} /\ fate[a] = "owned"
              /\ \A q \in Objects \ {o} : Unique(q) /\ Address(q) = a =>
                     \E p \in Objects : Unique(p)' /\ Address(p)' = a
        BY <2>1, <2>2
    <2>4. \A p \in Objects \ {o} : Unique(p)' => Unique(p) /\ Address(p)' = Address(p)
        BY <2>1
    <2> HIDE DEF cb
    <2> QED
        BY <2>1, <2>3, <2>4, SettleTracks
<1>6. ASSUME NEW o \in Objects, NEW src \in Objects, Move(o, src) PROVE Tracked'
    <2>1. /\ Address(o)' = Address(src) /\ Unique(o)' = Unique(src) /\ ~Unique(src)'
          /\ Settle(o, callback[src], {}, Empty) /\ fate' = fate
          /\ \A p \in Objects \ {o, src} : Address(p)' = Address(p) /\ Unique(p)' = Unique(p)
        BY <1>6, ShareableKeepsAddress DEF Move, IInv, TypeOK, Address, Unique, MovedFrom
    <2> QED
        BY <2>1, SettleTracks
<1>7. ASSUME NEW o \in Objects, reg_free_callback(o) PROVE Tracked'
    <2>1. /\ alive' = alive /\ word' = word /\ heap' = heap /\ announced' = announced
          /\ fate' = fate /\ watched' = watched \cup Freed(o)
          /\ callback' = [callback EXCEPT ![o] = TRUE] /\ callback \in [Objects -> BOOLEAN]
        BY <1>7 DEF reg_free_callback, IInv, TypeOK
    <2>2. \A a \in Freed(o) : heap[a] # Free
        BY DEF IInv, OwnersAlone, Freed, Allocated, Address, Unique
    <2>3. \A p \in Objects : Unique(p) /\ Address(p) \in Freed(o) => p = o
        BY DEF IInv, OwnersAlone, Freed, Address, Unique
    <2>4. FreesAnnounced'
        BY <2>1, <2>2 DEF Tracked, FreesAnnounced, Owns
    <2>5. CallbacksFollow'
        BY <2>1, <2>3 DEF Tracked, CallbacksFollow, Unique, Address
    <2> QED
        BY <2>4, <2>5 DEF Tracked
<1>8. ASSUME NEW o \in Objects, Destroy(o) PROVE Tracked'
    <2>1. /\ ~Unique(o)'
          /\ \A p \in Objects \ {o} : /\ Address(p)' = Address(p) /\ Unique(p)' = Unique(p)
                                      /\ callback'[p] = callback[p]
          /\ heap' = [a \in Addresses |-> IF a \in Freed(o) THEN Free ELSE heap[a]]
          /\ announced' = announced \cup Announced(o) /\ watched' = watched /\ fate' = fate
          /\ alive' = alive \ {o}
        BY <1>8, WordKeepsAddress DEF Destroy, IInv, TypeOK, Address, Unique
    <2>2. Announced(o) \subseteq Freed(o) /\ \A a \in Freed(o) : a \in watched => a \in Announced(o)
        BY DEF Tracked, CallbacksFollow, Announced, Freed, Address, Unique
    <2>3. ASSUME NEW a \in Addresses, heap'[a] # Free, fate'[a] = "owned"
          PROVE  \E p \in alive' : Owns(p, a)'
        <3>1. PICK p \in alive : Owns(p, a)
            BY <2>1, <2>3 DEF Tracked, FreesAnnounced
        <3>2. p # o
            BY <2>1, <2>3, <3>1 DEF Freed, Owns
        <3> QED
            BY <2>1, <3>1, <3>2 DEF IInv, TypeOK, Owns, Unique, Address
    <2>4. FreesAnnounced'
        BY <2>1, <2>2, <2>3 DEF Tracked, FreesAnnounced, Owns
    <2>5. CallbacksFollow'
        BY <2>1 DEF Tracked, CallbacksFollow
    <2> QED
        BY <2>4, <2>5 DEF Tracked
<1>9. CASE UNCHANGED vars
    BY <1>9 DEF vars, Tracked, FreesAnnounced, CallbacksFollow, Owns, Unique, Address
<1> QED
    BY <1>1, <1>3, <1>4, <1>5, <1>6, <1>7, <1>8, <1>9 DEF Next

\* A registered callback hears of the free of every string its owner, or whoever
\* the ownership moved on to, releases; and only a copy or the second duplicate
\* of an assignment outlives its objects.
THEOREM CallbacksHearOfFrees == Spec => []FreesAnnounced
<1>1. Tracked => FreesAnnounced
    BY DEF Tracked
<1> QED
    BY <1>1, Invariance, InitiallyTracked, StaysTracked, PTL DEF Spec

-----------------------------------------------------------------------------
(* The class implements StringValues: what one operation does to the value *)
(* of each object                                                          *)

\* An object in use reads as a string or as empty, never as freed memory.
LEMMA ValueOfLive ==
    ASSUME IInv, NEW o \in Objects
    PROVE  /\ o \notin alive => Value[o] = Dead
           /\ o \in stale => Value[o] = Unspecified
           /\ o \in alive \ stale => Value[o] = Reads(o) /\ Value[o] \in Strings \cup {Empty}
BY DEF IInv, TypeOK, ReferencesLive, Allocated, Value, Reads, Address

\* An object whose word stays reads the same as long as its buffer is kept.
LEMMA ReadsKept ==
    ASSUME IInv, NEW o \in Objects, NEW p \in alive \ stale, p # o,
           get_ptr(word'[p]) = Address(p), NEW fresh \in SUBSET FreeAddresses,
           \A a \in Addresses : a \notin fresh \cup Freed(o) => heap'[a] = heap[a]
    PROVE  Reads(p)' = Reads(p)
BY FreedIsOwned DEF IInv, TypeOK, ReferencesLive, Allocated, FreeAddresses, Reads, Address

\* Both ways to give o a fresh buffer put the string there and nowhere else.
LEMMA FreshBufferPuts ==
    ASSUME IInv, NEW o \in Objects, NEW s \in Strings, NEW fresh \in SUBSET FreeAddresses,
           NEW a \in fresh,
           word' = [word EXCEPT ![o] = Word(a, TRUE)],
           Settle(o, FALSE, fresh, s),
           stale' = stale \ {o}
    PROVE  Values!Put(o, s)
<1> USE DEF Settle
<1>1. a \in Addresses /\ a # 0
    BY ZeroIsNoAddress DEF FreeAddresses
<1>2. Reads(o)' = s
    <2>1. word'[o] = Word(a, TRUE) /\ heap'[a] = s
        BY <1>1 DEF IInv, TypeOK
    <2>2. get_ptr(Word(a, TRUE)) = a
        BY <1>1, WordKeepsAddress
    <2> QED
        BY <1>1, <2>1, <2>2 DEF Reads
<1>3. \A p \in alive \ stale : p # o => Reads(p)' = Reads(p)
    BY ReadsKept DEF IInv, TypeOK, Address
<1>4. Value' = [Value EXCEPT ![o] = s]
    BY <1>2, <1>3 DEF IInv, TypeOK, Value
<1> QED
    BY <1>4 DEF Values!Put, Value, Reads

LEMMA ConstructEmptyMakes ==
    ASSUME IInv, NEW o \in Objects, ConstructEmpty(o)
    PROVE  Values!Make(o)
<1> USE DEF ConstructEmpty, Settle
<1>1. Reads(o)' = Empty
    BY WordKeepsAddress DEF IInv, TypeOK, Reads
<1>2. \A p \in alive \ stale : p # o => Reads(p)' = Reads(p)
    BY ReadsKept DEF IInv, TypeOK, Address
<1>3. Value' = [Value EXCEPT ![o] = Empty]
    BY <1>1, <1>2 DEF IInv, TypeOK, Value
<1>4. Value[o] = Dead
    BY ValueOfLive
<1> QED
    BY <1>3, <1>4 DEF Values!Make, Value, Reads

LEMMA CopyCopies ==
    ASSUME IInv, NEW o \in Objects, NEW src \in Objects, Copy(o, src)
    PROVE  Values!Copy(o, src)
<1> USE DEF Copy, Settle
<1>1. /\ get_ptr(word'[o]) = Address(src) /\ get_ptr(word'[src]) = Address(src)
      /\ \A p \in Objects \ {o, src} : word'[p] = word[p]
    BY ShareableKeepsAddress DEF IInv, TypeOK, Address, CopiedFrom
<1>2. \A p \in alive \ stale : p # o => Reads(p)' = Reads(p)
    BY <1>1, ReadsKept DEF IInv, TypeOK, Address
<1>3. Reads(o)' = Reads(src)
    BY <1>1, <1>2 DEF Reads
<1>4. Value' = [Value EXCEPT ![o] = Value[src]]
    BY <1>2, <1>3, ValueOfLive DEF IInv, TypeOK, Value
<1>5. Values!Readable(src)
    BY ValueOfLive, ContentsAreDistinct DEF Values!Readable, Value, Reads
<1> QED
    BY <1>4, <1>5 DEF Values!Copy, Value, Reads

LEMMA MoveMoves ==
    ASSUME IInv, NEW o \in Objects, NEW src \in Objects, Move(o, src)
    PROVE  Values!Move(o, src)
<1> USE DEF Move, Settle
<1>1. /\ get_ptr(word'[o]) = Address(src) /\ get_ptr(word'[src]) = Address(src)
      /\ \A p \in Objects \ {o, src} : word'[p] = word[p]
    BY ShareableKeepsAddress DEF IInv, TypeOK, Address, MovedFrom
<1>2. \A p \in alive \ stale : p # o => Reads(p)' = Reads(p)
    BY <1>1, ReadsKept DEF IInv, TypeOK, Address
<1>3. Reads(o)' = Reads(src)
    BY <1>1, <1>2 DEF Reads
<1>4. Value' = [Value EXCEPT ![o] = Value[src], ![src] = Unspecified]
    BY <1>2, <1>3, ValueOfLive DEF IInv, TypeOK, Value
<1>5. Values!Readable(src)
    BY ValueOfLive, ContentsAreDistinct DEF Values!Readable, Value, Reads
<1> QED
    BY <1>4, <1>5 DEF Values!Move, Value, Reads

LEMMA DestroyDestroys ==
    ASSUME IInv, NEW o \in Objects, Destroy(o)
    PROVE  Values!Destroy(o)
<1> USE DEF Destroy
<1>1. \A p \in alive \ stale : p # o => Reads(p)' = Reads(p)
    BY ReadsKept DEF IInv, TypeOK, Address
<1>2. Value' = [Value EXCEPT ![o] = Dead]
    BY <1>1 DEF IInv, TypeOK, Value
<1>3. Value[o] # Dead
    BY ValueOfLive, ContentsAreDistinct DEF IInv, TypeOK
<1> QED
    BY <1>2, <1>3 DEF Values!Destroy, Value, Reads

LEMMA RegisterKeepsValues ==
    ASSUME IInv, NEW o \in Objects, reg_free_callback(o)
    PROVE  Value' = Value
BY DEF reg_free_callback, Value, Reads

\* The class implements the abstract library: whatever buffers objects share
\* and pass on, each keeps a value of its own.
THEOREM Implements == Spec => KeepsValues
<1>1. Init => Values!Init
    BY DEF Init, Values!Init, Value
<1>2. IInv /\ [Next]_vars => [Values!Next]_Value
    <2> SUFFICES ASSUME IInv, [Next]_vars PROVE Values!Next \/ Value' = Value
        BY DEF Value, Reads
    <2>1. ASSUME NEW o \in Objects, ConstructEmpty(o) PROVE Values!Next
        BY <2>1, ConstructEmptyMakes DEF Values!Next
    <2>2. ASSUME NEW o \in Objects, NEW s \in Strings, ConstructFromStr(o, s) PROVE Values!Next
        <3>1. PICK a \in FreeAddresses :
                  /\ o \notin alive /\ word' = [word EXCEPT ![o] = Word(a, TRUE)]
                  /\ Settle(o, FALSE, {a}, s) /\ UNCHANGED stale
            BY <2>2 DEF ConstructFromStr
        <3>2. stale' = stale \ {o} /\ {a} \in SUBSET FreeAddresses /\ a \in {a}
            BY <3>1 DEF IInv, TypeOK
        <3> QED
            BY <3>1, <3>2, FreshBufferPuts DEF Values!Next
    <2>3. ASSUME NEW o \in Objects, NEW s \in Strings, AssignStr(o, s) PROVE Values!Next
        <3>1. PICK a \in FreeAddresses, b \in FreeAddresses :
                  /\ word' = [word EXCEPT ![o] = Word(b, TRUE)]
                  /\ Settle(o, FALSE, {a, b}, s) /\ stale' = stale \ {o}
            BY <2>3 DEF AssignStr
        <3>2. {a, b} \in SUBSET FreeAddresses /\ b \in {a, b}
            OBVIOUS
        <3> QED
            BY <3>1, <3>2, FreshBufferPuts DEF Values!Next
    <2>4. ASSUME NEW o \in Objects, NEW src \in Objects, Copy(o, src) PROVE Values!Next
        BY <2>4, CopyCopies DEF Values!Next
    <2>5. ASSUME NEW o \in Objects, NEW src \in Objects, Move(o, src) PROVE Values!Next
        BY <2>5, MoveMoves DEF Values!Next
    <2>6. ASSUME NEW o \in Objects, Destroy(o) PROVE Values!Next
        BY <2>6, DestroyDestroys DEF Values!Next
    <2>7. CASE UNCHANGED vars
        BY <2>7 DEF vars, Value, Reads
    <2> QED
        BY <2>1, <2>2, <2>3, <2>4, <2>5, <2>6, <2>7, RegisterKeepsValues DEF Next
<1> QED
    BY <1>1, <1>2, Invariance, PTL DEF Spec, KeepsValues, Values!Spec

=============================================================================
