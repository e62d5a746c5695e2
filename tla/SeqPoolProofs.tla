--------------------------- MODULE SeqPoolProofs ---------------------------
(***************************************************************************)
(* What holds of both pool allocators for any number of threads, any page  *)
(* size and any pool: the objects are disjoint and fill the pool from its  *)
(* top, and the pointers are in order whenever every object was touched.   *)
(***************************************************************************)
EXTENDS SeqPool, FiniteSetTheorems, TLAPS

(* The inductive invariant *)

Typed ==
    /\ lockFree \in BOOLEAN
    /\ pc \in [Threads -> {"idle", "load", "store", "touch"}]
    /\ free_start \in Int
    /\ loaded \in [Threads -> Int]
    /\ object \in [Threads -> [start : Int, len : 0 .. MaxAlloc]]
    /\ objects \in SUBSET [owner : Threads, start : Int, len : 1 .. MaxAlloc]
    /\ mutex \in Threads \cup {NoThread}

\* Between the read and the write of a plain alloc its thread has the mutex,
\* and what it read is still what free_start holds.
AllocIsExclusive ==
    /\ \A t \in Threads : pc[t] \in {"load", "store"} => ~lockFree /\ mutex = t
    /\ \A t \in Threads : pc[t] = "store" => loaded[t] = free_start

ObjectsInPool ==
    /\ free_start <= AllocStart
    /\ \A o \in objects : free_start <= o.start

\* Only an object nobody touched yet keeps free_start out of the pool.
ExhaustionPending ==
    outcome = "running" /\ free_start < AllocEnd =>
        \E t \in Threads : pc[t] = "touch" /\ object[t].start < AllocEnd

IInv ==
    /\ Typed /\ AllocIsExclusive /\ ObjectsInPool
    /\ ObjectsDisjoint /\ ObjectsPacked /\ ExhaustionPending

-----------------------------------------------------------------------------
(* Lemmas about the addresses *)

\* The header's macro rounds a size up to whole pages.
LEMMA PagesCover ==
    ASSUME NEW bytes \in Nat
    PROVE  Pages(bytes) \in Nat /\ bytes <= Pages(bytes) * PageSize
<1> DEFINE q == (bytes + PageSize - 1) \div PageSize
<1> DEFINE r == (bytes + PageSize - 1) % PageSize
<1>1. PageSize \in Nat /\ PageSize > 0
    BY PageSizeIsPositive
<1>2. q \in Int /\ r \in 0 .. PageSize - 1 /\ bytes + PageSize - 1 = PageSize * q + r
    BY <1>1
<1>3. Pages(bytes) = q
    BY DEF Pages
<1> HIDE DEF q, r
<1>4. q >= 0
    BY <1>1, <1>2
<1> QED
    BY <1>1, <1>2, <1>3, <1>4

\* guard_end < alloc_end <= alloc_start, whatever the constructor is given.
LEMMA ZonesInOrder ==
    /\ AllocEnd \in Int /\ AllocStart \in Int
    /\ GuardEnd < AllocEnd /\ AllocEnd <= AllocStart
<1>1. Pages(MaxAlloc) \in Nat /\ MaxAlloc <= Pages(MaxAlloc) * PageSize
    BY PagesCover, ConstructorAssertion
<1>2. Pages(PoolSize) \in Nat /\ PoolSize <= Pages(PoolSize) * PageSize
    BY PagesCover, ConstructorAssertion
<1>3. Pages(MaxAlloc) * PageSize \in Nat /\ Pages(PoolSize) * PageSize \in Nat
    BY <1>1, <1>2, PageSizeIsPositive
<1> QED
    BY <1>1, <1>2, <1>3, ConstructorAssertion, AddressIsNatural DEF AllocEnd, AllocStart

\* Both allocs give out the bytes just below free_start and lower it by them.
LEMMA GiveKeepsObjects ==
    ASSUME IInv, NEW t \in Threads, NEW bytes \in 1 .. MaxAlloc,
           free_start' = free_start - bytes,
           Give(t, free_start - bytes, bytes)
    PROVE  ObjectsInPool' /\ ObjectsDisjoint' /\ ObjectsPacked' /\ ExhaustionPending'
<1> DEFINE new == [owner |-> t, start |-> free_start - bytes, len |-> bytes]
<1>1. /\ free_start \in Int /\ bytes \in Nat /\ bytes > 0
      /\ \A o \in objects : o.start \in Int /\ o.len \in Nat /\ free_start <= o.start
    BY ConstructorAssertion DEF IInv, Typed, ObjectsInPool
<1>2. objects' = objects \cup {new} /\ new.start = free_start - bytes /\ new.len = bytes
    BY DEF Give
<1>3. Extent(new) = free_start' .. free_start - 1
    BY <1>1, <1>2 DEF Extent
<1> HIDE DEF new
<1>4. ObjectsInPool'
    BY <1>1, <1>2, ZonesInOrder DEF IInv, ObjectsInPool, AllocStart, AllocEnd
<1>5. ASSUME NEW o \in objects PROVE Extent(o) \cap Extent(new) = {}
    <2> SUFFICES ASSUME NEW x \in Extent(o), x \in Extent(new) PROVE FALSE
        OBVIOUS
    <2>1. free_start <= o.start /\ o.start \in Int /\ o.len \in Nat
        BY <1>1
    <2>2. x \in Int /\ o.start <= x
        BY <2>1 DEF Extent
    <2>3. x <= free_start - 1
        BY <1>1, <1>3
    <2> QED
        BY <1>1, <2>1, <2>2, <2>3
<1>6. ObjectsDisjoint'
    BY <1>2, <1>5 DEF IInv, ObjectsDisjoint, Extent
<1>7. ObjectsPacked'
    <2>1. UNION {Extent(o) : o \in objects'}
              = (UNION {Extent(o) : o \in objects}) \cup Extent(new)
        BY <1>2
    <2>2. UNION {Extent(o) : o \in objects} = free_start .. AllocStart - 1
        BY DEF IInv, ObjectsPacked
    <2>3. (free_start .. AllocStart - 1) \cup (free_start' .. free_start - 1)
              = free_start' .. AllocStart - 1
        BY <1>1, ZonesInOrder DEF IInv, ObjectsInPool
    <2> QED
        BY <2>1, <2>2, <2>3, <1>3 DEF ObjectsPacked, Extent, AllocStart, AllocEnd
<1>8. ExhaustionPending'
    BY <1>1 DEF IInv, Typed, ExhaustionPending, Give, AllocEnd
<1> QED
    BY <1>4, <1>6, <1>7, <1>8

-----------------------------------------------------------------------------

LEMMA Initially == Init => IInv
<1> SUFFICES ASSUME Init PROVE IInv
    OBVIOUS
<1>1. MaxAlloc \in Nat /\ AllocStart \in Int /\ AllocEnd <= AllocStart /\ AllocEnd \in Int
    BY ZonesInOrder, ConstructorAssertion
<1>2. Typed
    BY <1>1 DEF Init, Typed
<1>3. AllocIsExclusive /\ ObjectsInPool /\ ObjectsDisjoint /\ ExhaustionPending
    BY <1>1 DEF Init, AllocIsExclusive, ObjectsInPool, ObjectsDisjoint, ExhaustionPending
<1>4. ObjectsPacked
    BY <1>1 DEF Init, ObjectsPacked
<1> QED
    BY <1>2, <1>3, <1>4 DEF IInv

\* A step that gives nothing out and leaves free_start alone.
LEMMA ObjectsUnchanged ==
    ASSUME IInv, UNCHANGED <<free_start, objects>>
    PROVE  ObjectsInPool' /\ ObjectsDisjoint' /\ ObjectsPacked'
BY DEF IInv, ObjectsInPool, ObjectsDisjoint, ObjectsPacked, Extent, AllocStart, AllocEnd

LEMMA Stays == IInv /\ [Next]_vars => IInv'
<1> SUFFICES ASSUME IInv, [Next]_vars PROVE IInv'
    OBVIOUS
<1>1. ASSUME NEW t \in Threads, NEW bytes \in 1 .. MaxAlloc, FetchSub(t, bytes) PROVE IInv'
    <2>1. free_start' = free_start - bytes /\ Give(t, free_start - bytes, bytes)
        BY <1>1 DEF FetchSub, NewValue
    <2>2. Typed'
        BY <1>1, <2>1, ConstructorAssertion DEF IInv, Typed, FetchSub, Give
    <2>3. AllocIsExclusive'
        BY <1>1, <2>1 DEF IInv, Typed, AllocIsExclusive, FetchSub, Give
    <2> QED
        BY <2>1, <2>2, <2>3, GiveKeepsObjects DEF IInv
<1>2. ASSUME NEW t \in Threads, NEW bytes \in 1 .. MaxAlloc, Store(t, bytes) PROVE IInv'
    <2>1. free_start' = free_start - bytes /\ Give(t, free_start - bytes, bytes)
        BY <1>2 DEF Store, IInv, AllocIsExclusive
    <2>2. Typed'
        BY <1>2, <2>1, ConstructorAssertion DEF IInv, Typed, Store, Give
    <2>3. AllocIsExclusive'
        BY <1>2, <2>1 DEF IInv, Typed, AllocIsExclusive, Store, Give
    <2> QED
        BY <2>1, <2>2, <2>3, GiveKeepsObjects DEF IInv
<1>3. ASSUME NEW t \in Threads, LockMutex(t) PROVE IInv'
    <2>1. Typed' /\ AllocIsExclusive'
        BY <1>3, ThreadsAreFinite DEF IInv, Typed, AllocIsExclusive, LockMutex, MutexFree
    <2>2. ExhaustionPending'
        BY <1>3 DEF IInv, Typed, ExhaustionPending, LockMutex, AllocEnd
    <2> QED
        BY <1>3, <2>1, <2>2, ObjectsUnchanged DEF IInv, LockMutex
<1>4. ASSUME NEW t \in Threads, Load(t) PROVE IInv'
    <2>1. Typed' /\ AllocIsExclusive'
        BY <1>4 DEF IInv, Typed, AllocIsExclusive, Load
    <2>2. ExhaustionPending'
        BY <1>4 DEF IInv, Typed, ExhaustionPending, Load, AllocEnd
    <2> QED
        BY <1>4, <2>1, <2>2, ObjectsUnchanged DEF IInv, Load
<1>5. ASSUME NEW t \in Threads, Touch(t), outcome = "running" PROVE IInv'
    <2>1. Typed' /\ AllocIsExclusive'
        BY <1>5 DEF IInv, Typed, AllocIsExclusive, Touch
    <2>2. object[t].start \in Int
        BY DEF IInv, Typed
    <2>3. outcome' = "running" => object[t].start >= AllocEnd
        BY <1>5, <2>2, ZonesInOrder, AddressIsNatural DEF Touch
    <2>4. ExhaustionPending'
        <3> SUFFICES ASSUME outcome' = "running", free_start' < AllocEnd
                     PROVE  \E u \in Threads : pc'[u] = "touch" /\ object'[u].start < AllocEnd
            BY DEF ExhaustionPending, AllocEnd
        <3>1. PICK u \in Threads : pc[u] = "touch" /\ object[u].start < AllocEnd
            BY <1>5 DEF IInv, ExhaustionPending, Touch
        <3>2. u # t
            BY <2>2, <2>3, <3>1, ZonesInOrder
        <3> QED
            BY <1>5, <3>1, <3>2 DEF IInv, Typed, Touch
    <2> QED
        BY <1>5, <2>1, <2>4, ObjectsUnchanged DEF IInv, Touch
<1>6. ASSUME UNCHANGED vars PROVE IInv'
    <2>1. Typed' /\ AllocIsExclusive' /\ ExhaustionPending'
        BY <1>6 DEF IInv, Typed, AllocIsExclusive, ExhaustionPending, vars, AllocEnd
    <2> QED
        BY <1>6, <2>1, ObjectsUnchanged DEF IInv, vars
<1> QED
    BY <1>1, <1>2, <1>3, <1>4, <1>5, <1>6 DEF Next, Step

\* IInv is an inductive invariant of the pool.
THEOREM Invariance == Spec => []IInv
BY Initially, Stays, PTL DEF Spec

-----------------------------------------------------------------------------

\* Two alloc calls, plain under the mutex or lock-free, never give out one
\* byte twice.
THEOREM NoByteGivenTwice == Spec => []ObjectsDisjoint
<1>1. IInv => ObjectsDisjoint
    BY DEF IInv
<1> QED
    BY <1>1, Invariance, PTL

\* alloc leaves no gap: the objects are exactly what free_start has passed.
THEOREM PoolIsPacked == Spec => []ObjectsPacked
<1>1. IInv => ObjectsPacked
    BY DEF IInv
<1> QED
    BY <1>1, Invariance, PTL

\* Together: every byte that free_start has passed was given out, and to one call.
THEOREM PoolIsTiled == Spec => []ObjectsTile
<1>1. IInv => ObjectsTile
    BY DEF IInv, ObjectsTile
<1> QED
    BY <1>1, Invariance, PTL

\* The order of the addresses the pools' headers state holds whenever every
\* object given out was touched.
THEOREM PointersKeepOrder == Spec => []PointersOrdered
<1>1. IInv => PointersOrdered
    BY ZonesInOrder DEF IInv, Typed, ObjectsInPool, ExhaustionPending, PointersOrdered
<1> QED
    BY <1>1, Invariance, PTL

-----------------------------------------------------------------------------
(* How far below the pool the objects reach                                *)

\* The threads about to touch an object that lies outside the pool.
Outside == {t \in Threads : pc[t] = "touch" /\ object[t].start < AllocEnd}

\* Each of them lowered free_start by an object; in a running process no other
\* object left the pool.
ReachBounded ==
    /\ \A t \in Threads : pc[t] = "touch" => free_start <= object[t].start
    /\ outcome = "running" => free_start >= AllocEnd - Cardinality(Outside) * MaxAlloc
    /\ free_start >= AllocEnd - Cardinality(Threads) * MaxAlloc

Reach == ReachBounded /\ outcome \in {"running", "fault", "overrun"} /\ ExhaustionFaults

LEMMA ProductsGrow ==
    ASSUME NEW a \in Nat, NEW b \in Nat, a <= b
    PROVE  /\ a * MaxAlloc \in Nat /\ a * MaxAlloc <= b * MaxAlloc
           /\ (a + 1) * MaxAlloc = a * MaxAlloc + MaxAlloc
<1>1. MaxAlloc \in Nat
    BY ConstructorAssertion
<1>2. \A m \in Nat : /\ a * m \in Nat /\ a * m <= b * m
                    /\ (a + 1) * m = a * m + m
    OBVIOUS
<1> QED
    BY <1>1, <1>2

LEMMA OutsideIsFinite ==
    /\ IsFiniteSet(Outside) /\ Cardinality(Outside) \in Nat /\ Cardinality(Threads) \in Nat
    /\ Cardinality(Outside) <= Cardinality(Threads)
BY ThreadsAreFinite, FS_Subset, FS_CardinalityType DEF Outside

\* The guard zone holds an object of the largest size, and at least a page.
LEMMA GuardZoneHolds == /\ MaxAlloc <= AllocEnd - GuardEnd /\ PageSize <= AllocEnd - GuardEnd
<1>1. /\ Pages(MaxAlloc) \in Nat /\ MaxAlloc <= Pages(MaxAlloc) * PageSize
      /\ MaxAlloc \in Nat \ {0} /\ PageSize \in Nat \ {0} /\ GuardEnd \in Nat
    BY PagesCover, ConstructorAssertion, PageSizeIsPositive, AddressIsNatural
<1>2. \A n \in Nat, size \in Nat : n * size > 0 => n * size >= size
    OBVIOUS
<1>3. Pages(MaxAlloc) * PageSize >= PageSize
    BY <1>1, <1>2
<1>4. Pages(MaxAlloc) * PageSize \in Nat
    BY <1>1
<1> QED
    BY <1>1, <1>3, <1>4 DEF AllocEnd

LEMMA GiveKeepsReach ==
    ASSUME IInv, IInv', Reach, NEW t \in Threads, NEW bytes \in 1 .. MaxAlloc,
           pc[t] # "touch", free_start' = free_start - bytes,
           Give(t, free_start - bytes, bytes), outcome' = outcome, outcome = "running"
    PROVE  Reach'
<1> DEFINE n == Cardinality(Outside)
<1>1. /\ free_start \in Int /\ bytes \in Nat /\ bytes <= MaxAlloc /\ MaxAlloc \in Nat
      /\ AllocEnd \in Int /\ AllocEnd' = AllocEnd
    BY ZonesInOrder, ConstructorAssertion DEF IInv, Typed, AllocEnd
<1>2. /\ pc' = [pc EXCEPT ![t] = "touch"] /\ object'[t].start = free_start'
      /\ \A u \in Threads \ {t} : object'[u] = object[u] /\ pc'[u] = pc[u]
      /\ pc'[t] = "touch"
    BY DEF Give, IInv, Typed
<1>3. \A u \in Threads : pc'[u] = "touch" => free_start' <= object'[u].start
    BY <1>1, <1>2 DEF Reach, ReachBounded, IInv, Typed
<1>4. n \in Nat /\ n <= Cardinality(Threads) /\ Cardinality(Threads) \in Nat
    BY OutsideIsFinite
<1>5. Cardinality(Outside') \in Nat /\ Cardinality(Outside') <= Cardinality(Threads)
    <2>1. Outside' \subseteq Threads
        BY DEF Outside
    <2> QED
        BY <2>1, ThreadsAreFinite, FS_Subset, FS_CardinalityType
<1>6. free_start' >= AllocEnd - Cardinality(Outside') * MaxAlloc
    <2>1. CASE free_start' < AllocEnd
        <3>1. Outside' = Outside \cup {t} /\ t \notin Outside
            BY <1>1, <1>2, <2>1 DEF Outside
        <3>2. Cardinality(Outside') = n + 1
            BY <3>1, OutsideIsFinite, FS_AddElement
        <3>3. (n + 1) * MaxAlloc = n * MaxAlloc + MaxAlloc /\ n * MaxAlloc \in Nat
            BY <1>4, ProductsGrow
        <3>4. free_start >= AllocEnd - n * MaxAlloc
            BY DEF Reach, ReachBounded
        <3> HIDE DEF n
        <3> QED
            BY <1>1, <1>4, <3>2, <3>3, <3>4
    <2>2. CASE free_start' >= AllocEnd
        <3>1. Cardinality(Outside') * MaxAlloc \in Nat
            BY <1>5, ProductsGrow
        <3> QED
            BY <1>1, <2>2, <3>1
    <2> QED
        BY <1>1, <2>1, <2>2
<1>7. free_start' >= AllocEnd - Cardinality(Threads) * MaxAlloc
    <2>1. /\ Cardinality(Outside') * MaxAlloc <= Cardinality(Threads) * MaxAlloc
          /\ Cardinality(Outside') * MaxAlloc \in Nat
          /\ Cardinality(Threads) * MaxAlloc \in Nat
        BY <1>4, <1>5, ProductsGrow
    <2> QED
        BY <1>1, <1>6, <2>1
<1> QED
    BY <1>1, <1>3, <1>6, <1>7 DEF Reach, ReachBounded, ExhaustionFaults

LEMMA InitiallyInReach == Init => Reach
<1> SUFFICES ASSUME Init PROVE Reach
    OBVIOUS
<1>1. Cardinality(Outside) * MaxAlloc \in Nat /\ Cardinality(Threads) * MaxAlloc \in Nat
    BY OutsideIsFinite, ProductsGrow
<1>2. AllocEnd \in Int /\ AllocStart \in Int /\ AllocStart >= AllocEnd
    BY ZonesInOrder
<1> QED
    BY <1>1, <1>2 DEF Init, Reach, ReachBounded, ExhaustionFaults

LEMMA StaysInReach == IInv /\ IInv' /\ Reach /\ [Next]_vars => Reach'
<1> SUFFICES ASSUME IInv, IInv', Reach, [Next]_vars PROVE Reach'
    OBVIOUS
<1>1. ASSUME NEW t \in Threads, NEW bytes \in 1 .. MaxAlloc, outcome = "running",
             FetchSub(t, bytes) \/ Store(t, bytes)
      PROVE  Reach'
    <2>1. free_start' = free_start - bytes /\ Give(t, free_start - bytes, bytes)
        BY <1>1 DEF FetchSub, NewValue, Store, IInv, AllocIsExclusive
    <2>2. pc[t] # "touch" /\ outcome' = outcome
        BY <1>1 DEF FetchSub, Store
    <2> QED
        BY <1>1, <2>1, <2>2, GiveKeepsReach
<1>2. ASSUME NEW t \in Threads, LockMutex(t) \/ Load(t) PROVE Reach'
    <2>1. /\ UNCHANGED << free_start, object, outcome >>
          /\ \A u \in Threads : pc'[u] = "touch" <=> pc[u] = "touch"
        BY <1>2 DEF LockMutex, Load, IInv, Typed
    <2>2. Outside' = Outside
        BY <2>1 DEF Outside, AllocEnd
    <2> QED
        BY <2>1, <2>2 DEF Reach, ReachBounded, ExhaustionFaults, AllocEnd
<1>3. ASSUME NEW t \in Threads, Touch(t), outcome = "running" PROVE Reach'
    <2>1. /\ free_start \in Int /\ AllocEnd \in Int /\ GuardEnd \in Int /\ GuardEnd < AllocEnd
          /\ object[t].start \in Int /\ free_start <= object[t].start
        BY <1>3, ZonesInOrder, AddressIsNatural DEF IInv, Typed, Touch, Reach, ReachBounded
    <2>2. /\ UNCHANGED << free_start, object >>
          /\ \A u \in Threads : pc'[u] = "touch" <=> pc[u] = "touch" /\ u # t
        BY <1>3 DEF Touch, IInv, Typed
    <2>3. /\ outcome' = "running" => object[t].start >= AllocEnd
          /\ outcome' = "overrun" => object[t].start < GuardEnd
          /\ outcome' \in {"running", "fault", "overrun"}
        BY <1>3, <2>1 DEF Touch
    <2>4. ReachBounded'
        <3>1. outcome' = "running" => Outside' = Outside
            BY <2>1, <2>2, <2>3 DEF Outside, AllocEnd
        <3> QED
            BY <1>3, <2>2, <3>1 DEF Reach, ReachBounded, AllocEnd
    <2>5. ExhaustionFaults'
        <3> SUFFICES ASSUME outcome' = "overrun",
                            \/ Cardinality(Threads) = 1
                            \/ Cardinality(Threads) * MaxAlloc <= PageSize
                     PROVE  FALSE
            BY DEF ExhaustionFaults
        <3>1. free_start < GuardEnd
            BY <2>1, <2>3
        <3>2. Cardinality(Threads) * MaxAlloc \in Nat /\ PageSize \in Nat /\ MaxAlloc \in Nat
            BY OutsideIsFinite, ProductsGrow, PageSizeIsPositive, ConstructorAssertion
        <3>3. Cardinality(Threads) * MaxAlloc <= AllocEnd - GuardEnd
            <4>1. CASE Cardinality(Threads) = 1
                BY <4>1, <3>2, GuardZoneHolds
            <4>2. CASE Cardinality(Threads) * MaxAlloc <= PageSize
                BY <4>2, <2>1, <3>2, GuardZoneHolds
            <4> QED
                BY <4>1, <4>2
        <3>4. free_start >= AllocEnd - Cardinality(Threads) * MaxAlloc
            BY DEF Reach, ReachBounded
        <3> QED
            BY <2>1, <3>1, <3>2, <3>3, <3>4
    <2> QED
        BY <2>3, <2>4, <2>5 DEF Reach
<1>4. CASE UNCHANGED vars
    <2>1. Outside' = Outside
        BY <1>4 DEF vars, Outside, AllocEnd
    <2> QED
        BY <1>4, <2>1 DEF vars, Reach, ReachBounded, ExhaustionFaults, AllocEnd
<1> QED
    BY <1>1, <1>2, <1>3, <1>4 DEF Next, Step

\* The first touch of an object outside the pool faults: with one thread, or when
\* one object of every thread fits into a page, none lies below the guard zone.
THEOREM ExhaustionIsNoticed == Spec => []ExhaustionFaults
<1>1. Reach => ExhaustionFaults
    BY DEF Reach
<1> QED
    BY <1>1, Invariance, InitiallyInReach, StaysInReach, PTL DEF Spec

=============================================================================
