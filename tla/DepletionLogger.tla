-------------------------- MODULE DepletionLogger --------------------------
(***************************************************************************)
(* The pool depletion logger of hw07_concurrent_pools together with the    *)
(* pools that use it.  A thread maps a pool's memory, takes an id, and     *)
(* registers the guard zone; a touch of the guard raises SIGSEGV, whose    *)
(* handler scans the registered zones without the registration mutex,      *)
(* reports the pool it finds and chains to the disposition saved when the  *)
(* first pool was registered.  A destructor unmaps, then deregisters.      *)
(*                                                                         *)
(* A place stands for the address range of a pool with its guard zone; the *)
(* kernel may hand out a place again as soon as it is unmapped.            *)
(***************************************************************************)
EXTENDS Integers, FiniteSets

CONSTANTS
    Threads,
    ClassOf,    \* the pool class each thread uses
    Quota,      \* CNT_POOLS_QUOTA, at least 1
    Places,
    MaxId,      \* bound: pools constructed per class
    Originals,  \* the SIGSEGV dispositions the process may start with
    None

Classes == {"SeqPool", "LockFreeSeqPool"}
Dispositions == {"default", "ignore", "user", "logger"}

Slots == 1 .. Quota

VARIABLES
    pc,           \* where each thread is
    pool,         \* each thread's pool: its id and its place
    mapped,       \* the places mapped for a pool
    nextId,       \* poolFreeId of each class
    zones,        \* guard_zones: an id and a place, or None
    activeZones,
    mut,          \* the holder of reg_mut, or None
    original,     \* history: the disposition for SIGSEGV at the start
    installed,    \* the process's disposition for SIGSEGV
    prev,         \* prev_handler
    hit,          \* the place whose guard zone a thread's fault hit
    cursor,       \* the slot a thread's handler looks at
    reported,     \* the id a thread's handler printed last, or None
    process       \* "running", or how it ended

alloc == <<pool, mapped, nextId>>
reg == <<zones, activeZones>>
sig == <<original, installed, prev>>
fault == <<hit, cursor, reported>>
vars == <<pc, alloc, reg, mut, sig, fault, process>>

Go(t, from, to) == pc[t] = from /\ pc' = [pc EXCEPT ![t] = to]

Zone(t) == [id |-> pool[t].id, place |-> pool[t].place]

First(S) == CHOOSE i \in S : \A j \in S : i <= j

EmptySlots == {i \in Slots : zones[i] = None}

SlotsOf(t) == {i \in Slots : zones[i] # None /\ zones[i].id = pool[t].id}

-----------------------------------------------------------------------------
(* Constructor *)

\* mmap and mprotect.
Map(t, p) ==
    /\ Go(t, "idle", "mapped")
    /\ p \notin mapped
    /\ mapped' = mapped \cup {p}
    /\ pool' = [pool EXCEPT ![t].place = p]
    /\ UNCHANGED <<nextId, reg, mut, sig, fault, process>>

\* poolId = poolFreeId.fetch_add(1) + 1; the counter is the class's own.
TakeId(t) ==
    /\ Go(t, "mapped", "lockReg")
    /\ nextId[ClassOf[t]] < MaxId
    /\ nextId' = [nextId EXCEPT ![ClassOf[t]] = @ + 1]
    /\ pool' = [pool EXCEPT ![t].id = nextId[ClassOf[t]] + 1]
    /\ UNCHANGED <<mapped, reg, mut, sig, fault, process>>

Lock(t, from, to) ==
    /\ mut = None
    /\ mut' = t
    /\ Go(t, from, to)
    /\ UNCHANGED <<alloc, reg, sig, fault, process>>

FirstZone == activeZones = 0

QuotaReachedLate == activeZones > Quota
QuotaReached == activeZones = Quota

\* The quota test, the first empty slot, the count.
Register(t) ==
    /\ pc[t] = "register"
    /\ \/ /\ QuotaReached
          /\ process' = "quota exhausted"
          /\ UNCHANGED <<pc, reg, mut>>
       \/ /\ ~QuotaReached /\ EmptySlots = {}
          /\ process' = "assertion failed"
          /\ UNCHANGED <<pc, reg, mut>>
       \/ /\ ~QuotaReached /\ EmptySlots # {}
          /\ zones' = [zones EXCEPT ![First(EmptySlots)] = Zone(t)]
          /\ activeZones' = activeZones + 1
          /\ \/ FirstZone /\ Go(t, "register", "install") /\ mut' = mut
             \/ ~FirstZone /\ Go(t, "register", "live") /\ mut' = None
          /\ UNCHANGED process
    /\ UNCHANGED <<alloc, sig, fault>>

\* sigaction(SIGSEGV, &cur_handler, &prev_handler)
Install(t) ==
    /\ Go(t, "install", "live")
    /\ prev' = installed
    /\ installed' = "logger"
    /\ mut' = None
    /\ UNCHANGED <<alloc, reg, original, fault, process>>

-----------------------------------------------------------------------------
(* Destructor *)

Unmap(t) ==
    /\ Go(t, "live", "lockDereg")
    /\ mapped' = mapped \ {pool[t].place}
    /\ pool' = [pool EXCEPT ![t].place = None]
    /\ UNCHANGED <<nextId, reg, mut, sig, fault, process>>

LastZoneEarly == activeZones <= 2
LastZone == activeZones = 1

\* The first slot that holds the pool's id is cleared.
Deregister(t) ==
    /\ pc[t] = "deregister"
    /\ \/ /\ SlotsOf(t) = {}
          /\ process' = "assertion failed"
          /\ UNCHANGED <<pc, reg, mut>>
       \/ /\ SlotsOf(t) # {}
          /\ zones' = [zones EXCEPT ![First(SlotsOf(t))] = None]
          /\ activeZones' = activeZones - 1
          /\ \/ LastZone /\ Go(t, "deregister", "restore") /\ mut' = mut
             \/ ~LastZone /\ Go(t, "deregister", "idle") /\ mut' = None
          /\ UNCHANGED process
    /\ UNCHANGED <<alloc, sig, fault>>

DefaultDisposition == "default"
RestoredDisposition == prev

\* sigaction(SIGSEGV, &prev_handler, NULL)
Restore(t) ==
    /\ Go(t, "restore", "idle")
    /\ installed' = RestoredDisposition
    /\ mut' = None
    /\ UNCHANGED <<alloc, reg, original, prev, fault, process>>

-----------------------------------------------------------------------------
(* Faults and the handler *)

\* A fault outside the logger's reach: the process ends as the disposition says.
Deliver(t, p) ==
    /\ hit' = [hit EXCEPT ![t] = p]
    /\ reported' = [reported EXCEPT ![t] = None]
    /\ cursor' = [cursor EXCEPT ![t] = 1]
    /\ IF installed = "logger"
       THEN pc' = [pc EXCEPT ![t] = "scan"] /\ UNCHANGED process
       ELSE process' = installed /\ UNCHANGED pc
    /\ UNCHANGED <<alloc, reg, mut, sig>>

\* An object that reaches into the guard zone of the thread's own pool.
Deplete(t) == pc[t] = "live" /\ Deliver(t, pool[t].place)

\* A dangling pointer into memory that is no longer mapped.
StrayTouch(t, p) == pc[t] = "idle" /\ p \notin mapped /\ Deliver(t, p)

\* mhandler's loop looks at one slot per step, without the mutex.
Scan(t) ==
    LET zone == zones[cursor[t]]
        matches == zone # None /\ zone.place = hit[t] IN
    /\ Go(t, "scan", IF matches \/ cursor[t] = Quota THEN "chain" ELSE "scan")
    /\ reported' = [reported EXCEPT ![t] = IF matches THEN zone.id ELSE None]
    /\ cursor' = [cursor EXCEPT ![t] = IF @ = Quota THEN @ ELSE @ + 1]
    /\ UNCHANGED <<alloc, reg, mut, sig, hit, process>>

\* SIG_DFL is reinstalled and raised; an ignored signal returns to the faulting
\* instruction, which faults again; any other handler is called.
Chain(t) ==
    /\ pc[t] = "chain"
    /\ \/ /\ prev = "default"
          /\ installed' = prev /\ process' = "default"
          /\ UNCHANGED <<pc, fault>>
       \/ /\ prev = "ignore"
          /\ pc' = [pc EXCEPT ![t] = "scan"]
          /\ cursor' = [cursor EXCEPT ![t] = 1]
          /\ UNCHANGED <<installed, hit, reported, process>>
       \/ /\ prev \notin {"default", "ignore"}
          /\ process' = prev
          /\ UNCHANGED <<pc, installed, fault>>
    /\ UNCHANGED <<alloc, reg, mut, original, prev>>

-----------------------------------------------------------------------------

Init ==
    /\ pc = [t \in Threads |-> "idle"]
    /\ pool = [t \in Threads |-> [id |-> 0, place |-> None]]
    /\ mapped = {}
    /\ nextId = [c \in Classes |-> 0]
    /\ zones = [i \in Slots |-> None]
    /\ activeZones = 0
    /\ mut = None
    /\ original \in Originals
    /\ installed = original
    /\ prev = "default"
    /\ hit = [t \in Threads |-> None]
    /\ cursor = [t \in Threads |-> 1]
    /\ reported = [t \in Threads |-> None]
    /\ process = "running"

Step(t) ==
    \/ \E p \in Places : Map(t, p)
    \/ TakeId(t)
    \/ Lock(t, "lockReg", "register") \/ Register(t) \/ Install(t)
    \/ Unmap(t)
    \/ Lock(t, "lockDereg", "deregister") \/ Deregister(t) \/ Restore(t)
    \/ Deplete(t)
    \/ \E p \in Places : StrayTouch(t, p)
    \/ Scan(t) \/ Chain(t)

Next == process = "running" /\ \E t \in Threads : Step(t)

Spec == Init /\ [][Next]_vars
-----------------------------------------------------------------------------
(* Properties *)

\* What the theorems assume of the constants, and that all pools are of one class.
LoggerConstants ==
    /\ Quota \in Nat \ {0} /\ MaxId \in Nat
    /\ Originals \subseteq Dispositions \ {"logger"}
    /\ None \notin Threads \cup Places \cup Nat
    /\ None \notin [id : Nat, place : Places]
OneClass == \E c \in Classes : \A t \in Threads : ClassOf[t] = c

TypeOK ==
    /\ pc \in [Threads -> {"idle", "mapped", "lockReg", "register", "install",
                           "live", "lockDereg", "deregister", "restore",
                           "scan", "chain"}]
    /\ pool \in [Threads -> [id : 0 .. MaxId, place : Places \cup {None}]]
    /\ mapped \in SUBSET Places
    /\ nextId \in [Classes -> 0 .. MaxId]
    /\ zones \in [Slots -> [id : 1 .. MaxId, place : Places] \cup {None}]
    /\ activeZones \in 0 .. Quota
    /\ mut \in Threads \cup {None}
    /\ original \in Originals /\ installed \in Dispositions
    /\ prev \in Dispositions \ {"logger"}
    /\ hit \in [Threads -> Places \cup {None}]
    /\ cursor \in [Threads -> Slots]
    /\ reported \in [Threads -> 0 .. MaxId \cup {None}]
    /\ process \in {"running", "quota exhausted", "assertion failed"}
                       \cup Dispositions

\* The thread's fault hit the guard zone of its own live pool.
OwnFault(t) == pc[t] \in {"scan", "chain"} /\ pool[t].place = hit[t]

\* deregHandler always finds its pool, regHandler always finds an empty slot.
AssertionsHold == process # "assertion failed"

\* When no pool is registered, the process handles SIGSEGV as it did before.
DispositionRestored ==
    mut = None /\ activeZones = 0 /\ process = "running" =>
        installed = original

\* The depletion of a live pool reaches the logger, and a lock-free scan that
\* overlaps registrations and deregistrations of other pools finds the pool.
DepletionReported ==
    /\ \A t \in Threads :
           pc[t] = "live" /\ process = "running" => installed = "logger"
    /\ \A t \in Threads :
           pc[t] = "chain" /\ OwnFault(t) => reported[t] # None

=============================================================================
