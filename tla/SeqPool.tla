------------------------------ MODULE SeqPool ------------------------------
(***************************************************************************)
(* The bump-down pool allocators: SeqPool of hw06 and hw07, whose alloc    *)
(* reads and writes free_start in two steps and is shared under the        *)
(* caller's mutex, and LockFreeSeqPool of hw07, whose alloc is one         *)
(* fetch_sub.  No alloc checks for exhaustion: an object that reaches      *)
(* below alloc_end is caught when it is touched, if its start lies in the  *)
(* protected pages [guard_end, alloc_end).                                 *)
(***************************************************************************)
EXTENDS Integers, FiniteSets

CONSTANTS
    Threads,
    PageSize,
    PoolSize,       \* constructor argument pool_size, in bytes
    MaxAlloc,       \* constructor argument max_alloc_sz, in bytes
    GuardEnd,       \* guard_end: the address mmap returned
    NoThread        \* the mutex is free

ASSUME PageSizeIsPositive == PageSize \in Nat \ {0}
ASSUME ConstructorAssertion ==
    PoolSize \in Nat /\ MaxAlloc \in Nat \ {0} /\ PoolSize >= MaxAlloc
ASSUME AddressIsNatural == GuardEnd \in Nat
ASSUME ThreadsAreFinite == IsFiniteSet(Threads) /\ NoThread \notin Threads

PagesRoundedDown(bytes) == bytes \div PageSize
Pages(bytes) == (bytes + PageSize - 1) \div PageSize

AllocEnd == GuardEnd + Pages(MaxAlloc) * PageSize
AllocStart == AllocEnd + Pages(PoolSize) * PageSize

VARIABLES
    lockFree,    \* the threads share a LockFreeSeqPool, or a SeqPool and a mutex
    pc,          \* where each thread is
    free_start,
    loaded,      \* the value of free_start a thread's plain alloc read
    object,      \* the object a thread was given last: start and length
    objects,     \* history: every object given out, with its owner
    mutex,       \* the caller's mutex around a SeqPool
    outcome      \* "running", "fault" in the guard, "overrun" below it

vars == <<lockFree, pc, free_start, loaded, object, objects, mutex, outcome>>

Give(t, start, bytes) ==
    /\ object' = [object EXCEPT ![t] = [start |-> start, len |-> bytes]]
    /\ objects' = objects \cup {[owner |-> t, start |-> start, len |-> bytes]}
    /\ pc' = [pc EXCEPT ![t] = "touch"]

OldValue(bytes) == free_start
NewValue(bytes) == free_start - bytes

\* LockFreeSeqPool::alloc
FetchSub(t, bytes) ==
    /\ lockFree /\ pc[t] = "idle"
    /\ free_start' = free_start - bytes
    /\ Give(t, NewValue(bytes), bytes)
    /\ UNCHANGED <<lockFree, loaded, mutex, outcome>>

MutexIgnored == TRUE
MutexFree == mutex = NoThread

LockMutex(t) ==
    /\ ~lockFree /\ pc[t] = "idle"
    /\ MutexFree /\ mutex' = t
    /\ pc' = [pc EXCEPT ![t] = "load"]
    /\ UNCHANGED <<lockFree, free_start, loaded, object, objects, outcome>>

\* SeqPool::alloc reads free_start ...
Load(t) ==
    /\ pc[t] = "load"
    /\ loaded' = [loaded EXCEPT ![t] = free_start]
    /\ pc' = [pc EXCEPT ![t] = "store"]
    /\ UNCHANGED <<lockFree, free_start, object, objects, mutex, outcome>>

\* ... writes it back lowered, and the caller unlocks.
Store(t, bytes) ==
    /\ pc[t] = "store"
    /\ free_start' = loaded[t] - bytes
    /\ Give(t, loaded[t] - bytes, bytes)
    /\ mutex' = NoThread
    /\ UNCHANGED <<lockFree, loaded, outcome>>

\* The caller writes the object before it allocates again.
Touch(t) ==
    /\ pc[t] = "touch"
    /\ pc' = [pc EXCEPT ![t] = "idle"]
    /\ outcome' = CASE object[t].start >= AllocEnd -> "running"
                    [] GuardEnd <= object[t].start /\ object[t].start < AllocEnd -> "fault"
                    [] object[t].start < GuardEnd -> "overrun"
    /\ UNCHANGED <<lockFree, free_start, loaded, object, objects, mutex>>

Init ==
    /\ lockFree \in BOOLEAN
    /\ pc = [t \in Threads |-> "idle"]
    /\ free_start = AllocStart
    /\ loaded = [t \in Threads |-> AllocStart]
    /\ object = [t \in Threads |-> [start |-> AllocStart, len |-> 0]]
    /\ objects = {}
    /\ mutex = NoThread
    /\ outcome = "running"

Step(t) ==
    \/ \E bytes \in 1 .. MaxAlloc : FetchSub(t, bytes) \/ Store(t, bytes)
    \/ LockMutex(t) \/ Load(t) \/ Touch(t)

\* A fault ends the process; what happens after an overrun is not modelled.
Next == outcome = "running" /\ \E t \in Threads : Step(t)

Spec == Init /\ [][Next]_vars

-----------------------------------------------------------------------------
(* Properties *)

Extent(o) == o.start .. o.start + o.len - 1

\* free_start leaves the pool by at most one untouched object per thread.
TypeOK ==
    /\ lockFree \in BOOLEAN
    /\ pc \in [Threads -> {"idle", "load", "store", "touch"}]
    /\ free_start \in AllocEnd - Cardinality(Threads) * MaxAlloc .. AllocStart
    /\ loaded \in [Threads -> Int]
    /\ object \in [Threads -> [start : Int, len : 0 .. MaxAlloc]]
    /\ objects \in SUBSET [owner : Threads, start : Int, len : 1 .. MaxAlloc]
    /\ mutex \in Threads \cup {NoThread}
    /\ outcome \in {"running", "fault", "overrun"}

\* No byte belongs to two objects, whoever allocates and when.
ObjectsDisjoint ==
    \A o, p \in objects : o # p => Extent(o) \cap Extent(p) = {}

\* Nothing is lost either: the objects fill the pool from its top down.
ObjectsPacked == UNION {Extent(o) : o \in objects} = free_start .. AllocStart - 1

\* No byte of the pool is given out twice and none is lost, whichever way the
\* threads allocate.
ObjectsTile == ObjectsDisjoint /\ ObjectsPacked

\* An exhausted pool is noticed: the first touch of an object that left the
\* pool hits a protected page, and never memory below the guard zone, when one
\* thread allocates or an object of every thread fits into a page.
ExhaustionFaults ==
    Cardinality(Threads) = 1 \/ Cardinality(Threads) * MaxAlloc <= PageSize =>
        outcome # "overrun"

\* The headers' guard_end < alloc_end <= free_start <= alloc_start, which an
\* exhausted pool breaks, holds again whenever every object has been touched.
PointersOrdered ==
    (\A t \in Threads : pc[t] = "idle") /\ outcome = "running" =>
        GuardEnd < AllocEnd /\ AllocEnd <= free_start /\ free_start <= AllocStart

=============================================================================
