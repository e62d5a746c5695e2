----------------------- MODULE DepletionLoggerProofs -----------------------
(***************************************************************************)
(* What the depletion logger of hw07 guarantees for any number of threads, *)
(* places and slots, as long as all pools are of one class: the classes    *)
(* count their ids apart, and only then is an id one pool's.               *)
(*                                                                         *)
(* The argument: every registered pool has exactly one slot, under an id   *)
(* no other thread has, so a deregistration finds its own zone and takes   *)
(* nobody else's, not even one a handler is still scanning for.            *)
(***************************************************************************)
EXTENDS DepletionLogger, FiniteSetTheorems, TLAPS

(* The inductive invariant *)

\* The pool is on its way to, in, or on its way out of the table.
Registered(t) ==
    \/ pc[t] \in {"install", "live", "lockDereg", "deregister"}
    \/ pc[t] \in {"scan", "chain"} /\ pool[t].place # None

HasMutex(t) == pc[t] \in {"register", "install", "deregister", "restore"}
MutexHeld == \A t \in Threads : HasMutex(t) <=> mut = t

\* A thread has a place from mmap to munmap; a handler runs for the depletion of
\* the thread's pool or, without one, for a stray touch.
PlacesHeld ==
    \A t \in Threads :
        /\ pc[t] \in {"mapped", "lockReg", "register", "install", "live"} => pool[t].place # None
        /\ pc[t] \in {"idle", "lockDereg", "deregister", "restore"} => pool[t].place = None
        /\ pc[t] \in {"scan", "chain"} => hit[t] # None /\ (pool[t].place # None => hit[t] = pool[t].place)

IdsTaken ==
    \A t \in Threads :
        /\ pool[t].id <= nextId[ClassOf[t]]
        /\ Registered(t) \/ pc[t] \in {"lockReg", "register"} => pool[t].id # 0
        /\ \A u \in Threads \ {t} : pool[t].id = pool[u].id => pool[t].id = 0

\* The slot that holds a pool's zone.
Holds(i, t) ==
    /\ zones[i] # None /\ zones[i].id = pool[t].id
    /\ pool[t].place # None => zones[i].place = pool[t].place

SlotsMatch ==
    /\ \A i \in Slots : zones[i] # None =>
           \E t \in Threads : Registered(t) /\ zones[i].id = pool[t].id
    /\ \A i, j \in Slots : zones[i] # None /\ zones[j] # None /\ zones[i].id = zones[j].id => i = j
    /\ \A t \in Threads : Registered(t) => \E i \in Slots : Holds(i, t)

UsedSlots == {i \in Slots : zones[i] # None}
Counted == activeZones = Cardinality(UsedSlots)

\* The handler is the process's between the first registration's sigaction and
\* the last deregistration's, and what it replaced is saved.
HandlerInPlace ==
    process = "running" =>
        /\ activeZones = 0 /\ (\A t \in Threads : pc[t] # "restore") => installed = original
        /\ (\A t \in Threads : pc[t] # "install")
               /\ (activeZones # 0 \/ \E t \in Threads : pc[t] = "restore") =>
                   installed = "logger" /\ prev = original
        /\ \A t \in Threads : pc[t] = "install" => activeZones = 1 /\ installed = original
        /\ \A t \in Threads : pc[t] = "restore" => activeZones = 0

\* A scan for a live pool has not passed the pool's slot.
ScanAhead ==
    \A t \in Threads : OwnFault(t) =>
        /\ pc[t] = "scan" => \E i \in Slots : cursor[t] <= i /\ Holds(i, t)
        /\ pc[t] = "chain" => reported[t] # None

IInv ==
    /\ TypeOK /\ MutexHeld /\ PlacesHeld /\ IdsTaken
    /\ SlotsMatch /\ Counted /\ HandlerInPlace /\ ScanAhead /\ AssertionsHold

-----------------------------------------------------------------------------
(* The slots *)

\* The search for a slot finds the first one if there is one.
LEMMA LeastElement ==
    ASSUME NEW S \in SUBSET Nat, S # {}
    PROVE  \E i \in S : \A j \in S : i <= j
<1> DEFINE R == {ss \in Nat \X Nat : ss[1] < ss[2]}
<1>1. IsWellFoundedOn(R, Nat)
    BY NatLessThanWellFounded DEF OpToRel
<1> HIDE DEF R
<1>2. \E x \in S : \A y \in S : ~ (<<y, x>> \in R)
    BY <1>1, WFMin
<1>3. PICK x \in S : \A y \in S : ~ (<<y, x>> \in R)
    BY <1>2
<1>4. \A y \in S : ~ (y < x)
    BY <1>3 DEF R
<1> QED
    BY <1>4

\* So regHandler's and deregHandler's loops end at one of the slots they look for.
LEMMA FirstIsIn ==
    ASSUME NEW S \in SUBSET Slots, S # {}
    PROVE  First(S) \in S
<1>1. S \in SUBSET Nat
    BY DEF Slots
<1>2. \E i \in S : \A j \in S : i <= j
    BY <1>1, LeastElement
<1> QED
    BY <1>2, Zenon DEF First

\* Counting the registered zones tells an empty table, a full one, and a single zone.
LEMMA SlotsAreFinite ==
    ASSUME LoggerConstants
    PROVE  /\ IsFiniteSet(Slots) /\ Cardinality(Slots) = Quota
           /\ IsFiniteSet(UsedSlots) /\ Cardinality(UsedSlots) \in 0 .. Quota
           /\ Cardinality(UsedSlots) = 0 <=> UsedSlots = {}
           /\ Cardinality(UsedSlots) = Quota <=> UsedSlots = Slots
           /\ Cardinality(UsedSlots) = 1 => \A i, j \in UsedSlots : i = j
<1>1. IsFiniteSet(Slots) /\ Cardinality(Slots) = Quota
    BY FS_Interval DEF LoggerConstants, Slots
<1>2. UsedSlots \in SUBSET Slots
    BY DEF UsedSlots
<1>3. /\ IsFiniteSet(UsedSlots) /\ Cardinality(UsedSlots) <= Quota
      /\ Cardinality(UsedSlots) = Quota => UsedSlots = Slots
    BY <1>1, <1>2, FS_Subset
<1>4. Cardinality(UsedSlots) \in Nat
    BY <1>3, FS_CardinalityType
<1>5. Cardinality(UsedSlots) = 0 <=> UsedSlots = {}
    BY <1>3, FS_EmptySet
<1>6. Cardinality(UsedSlots) = 1 => \E x : UsedSlots = {x}
    BY <1>3, FS_Singleton
<1> QED
    BY <1>1, <1>3, <1>4, <1>5, <1>6 DEF LoggerConstants

-----------------------------------------------------------------------------
(* Who runs where, and under which id                                      *)

Control == TypeOK /\ MutexHeld /\ PlacesHeld /\ IdsTaken

\* No thread has a pool or the mutex at the start.
LEMMA InitControl == LoggerConstants /\ OneClass /\ Init => Control
<1> SUFFICES ASSUME LoggerConstants, OneClass, Init PROVE Control
    OBVIOUS
<1>1. TypeOK
    BY DEF LoggerConstants, Init, TypeOK, Slots, Classes, Dispositions
<1> QED
    BY <1>1 DEF LoggerConstants, OneClass, Init, Control, MutexHeld, HasMutex, PlacesHeld,
                IdsTaken, Registered

\* A step that moves one thread only, from one location to another.
LEMMA MoveKeepsMutex ==
    ASSUME LoggerConstants, Control, NEW t \in Threads, NEW s,
           pc' = [pc EXCEPT ![t] = s],
           \/ mut' = mut /\ (HasMutex(t) <=> s \in {"register", "install", "deregister", "restore"})
           \/ mut = None /\ mut' = t /\ s \in {"register", "install", "deregister", "restore"}
           \/ HasMutex(t) /\ mut' = None /\ s \notin {"register", "install", "deregister", "restore"}
    PROVE  MutexHeld'
<1>1. /\ HasMutex(t)' <=> s \in {"register", "install", "deregister", "restore"}
      /\ \A u \in Threads \ {t} : HasMutex(u)' <=> HasMutex(u)
    BY DEF Control, TypeOK, HasMutex
<1>2. None \notin Threads /\ \A u \in Threads : HasMutex(u) <=> mut = u
    BY DEF LoggerConstants, Control, MutexHeld
<1> QED
    BY <1>1, <1>2 DEF MutexHeld

\* Each step leaves places, ids and the mutex with whom they belong to.
LEMMA ControlStep ==
    ASSUME LoggerConstants, OneClass, IInv, process = "running", NEW t \in Threads, Step(t)
    PROVE  Control'
<1> USE DEF IInv, Control, Go, alloc, reg, sig, fault
<1> DEFINE Locations == {"idle", "mapped", "lockReg", "register", "install",
                         "live", "lockDereg", "deregister", "restore", "scan", "chain"}
<1>0. PICK c \in Classes : \A u \in Threads : ClassOf[u] = c
    BY DEF OneClass
<1>1. ASSUME NEW p \in Places, Map(t, p) PROVE Control'
    <2>1. TypeOK'
        BY <1>1 DEF Map, TypeOK
    <2>2. MutexHeld'
        BY <1>1, MoveKeepsMutex DEF Map, HasMutex
    <2>3. PlacesHeld' /\ IdsTaken'
        BY <1>1 DEF Map, TypeOK, PlacesHeld, IdsTaken, Registered, LoggerConstants
    <2> QED
        BY <2>1, <2>2, <2>3
<1>2. CASE TakeId(t)
    <2>0. nextId[c] \in 0 .. MaxId /\ nextId[c] < MaxId /\ MaxId \in Nat
        BY <1>0, <1>2 DEF TakeId, TypeOK, LoggerConstants
    <2>1. TypeOK'
        BY <1>0, <1>2, <2>0 DEF TakeId, TypeOK
    <2>2. MutexHeld'
        BY <1>2, MoveKeepsMutex DEF TakeId, HasMutex
    <2>3. PlacesHeld'
        BY <1>2 DEF TakeId, TypeOK, PlacesHeld
    <2>4. IdsTaken'
        <3>1. /\ pool'[t].id = nextId[c] + 1 /\ nextId'[c] = nextId[c] + 1
              /\ \A u \in Threads \ {t} : pool'[u] = pool[u] /\ pc'[u] = pc[u]
              /\ pc'[t] = "lockReg"
            BY <1>0, <1>2 DEF TakeId, TypeOK
        <3>2. \A u \in Threads : pool[u].id \in Nat /\ pool[u].id <= nextId[c]
            BY <1>0 DEF TypeOK, IdsTaken
        <3>3. \A u \in Threads \ {t} : Registered(u)' <=> Registered(u)
            BY <3>1 DEF Registered
        <3> QED
            BY <1>0, <2>0, <3>1, <3>2, <3>3 DEF IdsTaken
    <2> QED
        BY <2>1, <2>2, <2>3, <2>4
<1>3. CASE Lock(t, "lockReg", "register") \/ Lock(t, "lockDereg", "deregister")
    <2>1. TypeOK'
        BY <1>3 DEF Lock, TypeOK
    <2>2. MutexHeld'
        BY <1>3, MoveKeepsMutex DEF Lock
    <2>3. PlacesHeld' /\ IdsTaken'
        BY <1>3 DEF Lock, TypeOK, PlacesHeld, IdsTaken, Registered
    <2> QED
        BY <2>1, <2>2, <2>3
<1>4. CASE Register(t)
    <2>1. CASE UNCHANGED << pc, reg, mut >>
        BY <1>4, <2>1 DEF Register, TypeOK, MutexHeld, HasMutex, PlacesHeld, IdsTaken, Registered
    <2>2. CASE ~QuotaReached /\ EmptySlots # {}
        <3>0. PICK s \in {"install", "live"} :
                  /\ pc[t] = "register" /\ pc' = [pc EXCEPT ![t] = s]
                  /\ IF s = "install" THEN mut' = mut ELSE mut' = None
                  /\ zones' = [zones EXCEPT ![First(EmptySlots)] = Zone(t)]
                  /\ activeZones' = activeZones + 1
                  /\ UNCHANGED << alloc, sig, fault, process >>
            BY <1>4, <2>2 DEF Register
        <3>1. First(EmptySlots) \in Slots
            BY <2>2, FirstIsIn DEF EmptySlots
        <3>2. Zone(t) \in [id : 1 .. MaxId, place : Places]
            <4>1. pool[t].id \in 0 .. MaxId /\ pool[t].place \in Places \cup {None} /\ MaxId \in Nat
                BY DEF TypeOK, LoggerConstants
            <4>2. pool[t].id # 0 /\ pool[t].place # None
                BY <3>0 DEF PlacesHeld, IdsTaken
            <4> QED
                BY <4>1, <4>2 DEF Zone
        <3>3. activeZones' \in 0 .. Quota
            <4>1. activeZones \in 0 .. Quota /\ Quota \in Nat /\ activeZones # Quota
                BY <2>2 DEF TypeOK, QuotaReached, LoggerConstants
            <4> QED
                BY <3>0, <4>1
        <3>4. TypeOK'
            BY <3>0, <3>1, <3>2, <3>3 DEF TypeOK
        <3>5. MutexHeld'
            BY <3>0, MoveKeepsMutex DEF HasMutex
        <3>6. PlacesHeld' /\ IdsTaken'
            BY <3>0 DEF TypeOK, PlacesHeld, IdsTaken, Registered
        <3> QED
            BY <3>4, <3>5, <3>6
    <2> QED
        BY <1>4, <2>1, <2>2 DEF Register
<1>5. CASE Install(t) \/ Restore(t)
    <2>0. process = "running" /\ prev \in Dispositions /\ installed \in Dispositions \cup {"logger"}
        BY DEF TypeOK
    <2>1. Install(t) => installed # "logger"
        BY <1>5 DEF Install, HandlerInPlace, LoggerConstants, TypeOK
    <2>2. TypeOK'
        BY <1>5, <2>0, <2>1 DEF Install, Restore, RestoredDisposition, TypeOK, Dispositions
    <2>3. MutexHeld'
        BY <1>5, MoveKeepsMutex DEF Install, Restore, HasMutex
    <2>4. PlacesHeld' /\ IdsTaken'
        BY <1>5 DEF Install, Restore, TypeOK, PlacesHeld, IdsTaken, Registered
    <2> QED
        BY <2>2, <2>3, <2>4
<1>6. CASE Unmap(t)
    <2>1. TypeOK'
        BY <1>6 DEF Unmap, TypeOK
    <2>2. MutexHeld'
        BY <1>6, MoveKeepsMutex DEF Unmap, HasMutex
    <2>3. PlacesHeld' /\ IdsTaken'
        BY <1>6 DEF Unmap, TypeOK, PlacesHeld, IdsTaken, Registered
    <2> QED
        BY <2>1, <2>2, <2>3
<1>7. CASE Deregister(t)
    <2>1. CASE UNCHANGED << pc, reg, mut >>
        BY <1>7, <2>1 DEF Deregister, TypeOK, MutexHeld, HasMutex, PlacesHeld, IdsTaken, Registered
    <2>2. CASE SlotsOf(t) # {}
        <3>0. PICK s \in {"restore", "idle"} :
                  /\ pc[t] = "deregister" /\ pc' = [pc EXCEPT ![t] = s]
                  /\ IF s = "restore" THEN mut' = mut ELSE mut' = None
                  /\ zones' = [zones EXCEPT ![First(SlotsOf(t))] = None]
                  /\ activeZones' = activeZones - 1
                  /\ UNCHANGED << alloc, sig, fault, process >>
            BY <1>7, <2>2 DEF Deregister
        <3>1. First(SlotsOf(t)) \in SlotsOf(t)
            BY <2>2, FirstIsIn DEF SlotsOf
        <3>2. activeZones - 1 \in 0 .. Quota
            <4>1. UsedSlots # {}
                BY <3>1 DEF SlotsOf, UsedSlots
            <4> QED
                BY <4>1, SlotsAreFinite DEF Counted, LoggerConstants
        <3>3. TypeOK'
            BY <3>0, <3>1, <3>2 DEF TypeOK, SlotsOf
        <3>4. MutexHeld'
            BY <3>0, MoveKeepsMutex DEF HasMutex
        <3>5. PlacesHeld' /\ IdsTaken'
            BY <3>0 DEF TypeOK, PlacesHeld, IdsTaken, Registered
        <3> QED
            BY <3>3, <3>4, <3>5
    <2> QED
        BY <1>7, <2>1, <2>2 DEF Deregister
<1>8. ASSUME NEW p \in Places, (Deplete(t) /\ p = pool[t].place) \/ StrayTouch(t, p)
      PROVE  Control'
    <2>0. Deliver(t, p) /\ (pc[t] = "live" \/ pc[t] = "idle") /\ p # None
        BY <1>8 DEF Deplete, StrayTouch, LoggerConstants
    <2>1. TypeOK'
        <3>1. 1 \in Slots
            BY DEF Slots, LoggerConstants
        <3>2. process' \in {"running"} \cup Dispositions
            BY <2>0 DEF Deliver, TypeOK
        <3>3. pc' \in [Threads -> Locations]
            BY <2>0 DEF Deliver, TypeOK
        <3> QED
            BY <2>0, <3>1, <3>2, <3>3 DEF Deliver, TypeOK
    <2>2. MutexHeld'
        BY <2>0, MoveKeepsMutex DEF Deliver, HasMutex, MutexHeld
    <2>3. PlacesHeld' /\ IdsTaken'
        BY <1>8, <2>0 DEF Deplete, StrayTouch, Deliver, TypeOK, PlacesHeld, IdsTaken, Registered
    <2> QED
        BY <2>1, <2>2, <2>3
<1>9. CASE Scan(t)
    <2>1. TypeOK'
        BY <1>9 DEF Scan, TypeOK, LoggerConstants, Slots
    <2>2. MutexHeld'
        BY <1>9, MoveKeepsMutex DEF Scan, HasMutex
    <2>3. PlacesHeld' /\ IdsTaken'
        BY <1>9 DEF Scan, TypeOK, PlacesHeld, IdsTaken, Registered
    <2> QED
        BY <2>1, <2>2, <2>3
<1>10. CASE Chain(t)
    <2>1. TypeOK'
        <3>1. 1 \in Slots
            BY DEF Slots, LoggerConstants
        <3>2. process' \in {"running"} \cup Dispositions
            BY <1>10 DEF Chain, TypeOK, Dispositions
        <3>3. installed' \in Dispositions /\ pc' \in [Threads -> Locations] /\ cursor' \in [Threads -> Slots]
            BY <1>10, <3>1 DEF Chain, TypeOK, Dispositions
        <3> QED
            BY <1>10, <3>2, <3>3 DEF Chain, TypeOK
    <2>2. MutexHeld'
        BY <1>10 DEF Chain, TypeOK, MutexHeld, HasMutex
    <2>3. PlacesHeld' /\ IdsTaken'
        BY <1>10 DEF Chain, TypeOK, PlacesHeld, IdsTaken, Registered
    <2> QED
        BY <2>1, <2>2, <2>3
<1>11. Deplete(t) => pool[t].place \in Places
    BY DEF Deplete, TypeOK, PlacesHeld
<1> QED
    BY <1>1, <1>2, <1>3, <1>4, <1>5, <1>6, <1>7, <1>8, <1>9, <1>10, <1>11 DEF Step

-----------------------------------------------------------------------------
(* The table *)

Table == SlotsMatch /\ Counted

\* The table is empty at the start.
LEMMA InitTable == LoggerConstants /\ Init => Table
<1> SUFFICES ASSUME LoggerConstants, Init PROVE Table
    OBVIOUS
<1>1. UsedSlots = {}
    BY DEF Init, UsedSlots
<1> QED
    BY <1>1, FS_EmptySet DEF Init, Table, SlotsMatch, Counted, Registered

\* The table stays, whoever of the registered threads moves on.
LEMMA TableUntouched ==
    ASSUME Table, UNCHANGED reg,
           \A t \in Threads : Registered(t)' <=> Registered(t),
           \A t \in Threads : Registered(t) =>
               /\ pool'[t].id = pool[t].id
               /\ pool'[t].place # None => pool'[t].place = pool[t].place
    PROVE  Table'
<1>1. zones' = zones /\ activeZones' = activeZones
    BY DEF reg
<1>2. UsedSlots' = UsedSlots
    BY <1>1 DEF UsedSlots
<1> QED
    BY <1>1, <1>2 DEF Table, SlotsMatch, Counted, Holds

\* One slot filled and one thread registered, or one cleared and one thread gone.
LEMMA SlotFilled ==
    ASSUME LoggerConstants, IInv, NEW t \in Threads, NEW i \in Slots, zones[i] = None,
           ~Registered(t), Registered(t)', pool[t].place # None, pool[t].id # 0, pool' = pool,
           \A u \in Threads \ {t} : Registered(u)' <=> Registered(u),
           zones' = [zones EXCEPT ![i] = Zone(t)], activeZones' = activeZones + 1
    PROVE  Table'
<1>1. /\ zones'[i] = Zone(t) /\ Zone(t) # None
      /\ Zone(t).id = pool[t].id /\ Zone(t).place = pool[t].place
      /\ \A j \in Slots \ {i} : zones'[j] = zones[j]
    <2>0. pool[t].id \in 0 .. MaxId /\ pool[t].place \in Places \cup {None} /\ MaxId \in Nat
        BY DEF IInv, TypeOK, LoggerConstants
    <2>1. Zone(t) \in [id : Nat, place : Places]
        BY <2>0 DEF Zone
    <2> QED
        BY <2>1 DEF IInv, TypeOK, LoggerConstants, Zone
<1>2. UsedSlots' = UsedSlots \cup {i} /\ i \notin UsedSlots
    BY <1>1 DEF UsedSlots
<1>3. Counted'
    BY <1>2, SlotsAreFinite, FS_AddElement DEF IInv, Counted
<1>4. ASSUME NEW j \in Slots, zones[j] # None PROVE zones[j].id # pool[t].id
    <2>1. PICK u \in Threads : Registered(u) /\ zones[j].id = pool[u].id
        BY <1>4 DEF IInv, SlotsMatch
    <2>2. u # t
        BY <2>1
    <2> QED
        BY <2>1, <2>2 DEF IInv, IdsTaken
<1>5. \A j \in Slots : zones'[j] # None =>
          \E u \in Threads : Registered(u)' /\ zones'[j].id = pool'[u].id
    BY <1>1 DEF IInv, SlotsMatch
<1>6. \A j, k \in Slots : zones'[j] # None /\ zones'[k] # None /\ zones'[j].id = zones'[k].id => j = k
    BY <1>1, <1>4 DEF IInv, SlotsMatch
<1>7. \A u \in Threads : Registered(u)' => \E j \in Slots : Holds(j, u)'
    <2> SUFFICES ASSUME NEW u \in Threads, Registered(u)'
                 PROVE  \E j \in Slots : Holds(j, u)'
        OBVIOUS
    <2>1. CASE u = t
        BY <1>1, <2>1 DEF Holds
    <2>2. CASE u # t
        <3>1. PICK j \in Slots : Holds(j, u)
            BY <2>2 DEF IInv, SlotsMatch
        <3>2. j # i
            BY <3>1 DEF Holds
        <3> QED
            BY <1>1, <3>1, <3>2 DEF Holds
    <2> QED
        BY <2>1, <2>2
<1> QED
    BY <1>3, <1>5, <1>6, <1>7 DEF Table, SlotsMatch

\* The other way round: the slot of the pool that goes, and no other's.
LEMMA SlotCleared ==
    ASSUME LoggerConstants, IInv, NEW t \in Threads, NEW i \in SlotsOf(t),
           Registered(t), ~Registered(t)', pool' = pool,
           \A u \in Threads \ {t} : Registered(u)' <=> Registered(u),
           zones' = [zones EXCEPT ![i] = None], activeZones' = activeZones - 1
    PROVE  Table'
<1>1. /\ i \in Slots /\ zones[i] # None /\ zones[i].id = pool[t].id /\ zones'[i] = None
      /\ \A j \in Slots \ {i} : zones'[j] = zones[j]
    BY DEF SlotsOf, IInv, TypeOK
<1>2. UsedSlots' = UsedSlots \ {i} /\ i \in UsedSlots
    BY <1>1 DEF UsedSlots
<1>3. Counted'
    BY <1>2, SlotsAreFinite, FS_RemoveElement DEF IInv, Counted
<1>4. \A u \in Threads \ {t} : pool[u].id # pool[t].id
    BY DEF IInv, IdsTaken
<1>5. \A j \in Slots : zones'[j] # None =>
          \E u \in Threads : Registered(u)' /\ zones'[j].id = pool'[u].id
    <2> SUFFICES ASSUME NEW j \in Slots, zones'[j] # None
                 PROVE  \E u \in Threads : Registered(u)' /\ zones'[j].id = pool'[u].id
        OBVIOUS
    <2>1. j # i /\ zones'[j] = zones[j]
        BY <1>1
    <2>2. PICK u \in Threads : Registered(u) /\ zones[j].id = pool[u].id
        BY <2>1 DEF IInv, SlotsMatch
    <2>3. u # t
        BY <1>1, <2>1, <2>2 DEF IInv, SlotsMatch
    <2> QED
        BY <2>1, <2>2, <2>3
<1>6. \A j, k \in Slots : zones'[j] # None /\ zones'[k] # None /\ zones'[j].id = zones'[k].id => j = k
    BY <1>1 DEF IInv, SlotsMatch
<1>7. \A u \in Threads : Registered(u)' => \E j \in Slots : Holds(j, u)'
    <2> SUFFICES ASSUME NEW u \in Threads, Registered(u)'
                 PROVE  \E j \in Slots : Holds(j, u)'
        OBVIOUS
    <2>1. u # t
        OBVIOUS
    <2>2. PICK j \in Slots : Holds(j, u)
        BY <2>1 DEF IInv, SlotsMatch
    <2>3. j # i
        BY <1>1, <1>4, <2>1, <2>2 DEF Holds
    <2> QED
        BY <1>1, <2>2, <2>3 DEF Holds
<1> QED
    BY <1>3, <1>5, <1>6, <1>7 DEF Table, SlotsMatch

\* What the two critical sections find: an empty slot below the quota, and the
\* slot of the pool that goes.
LEMMA TableAnswers ==
    ASSUME LoggerConstants, IInv
    PROVE  /\ ~QuotaReached => EmptySlots # {}
           /\ \A t \in Threads : Registered(t) => SlotsOf(t) # {}
<1>1. UsedSlots # Slots => EmptySlots # {}
    BY DEF UsedSlots, EmptySlots
<1>2. ~QuotaReached => UsedSlots # Slots
    BY SlotsAreFinite DEF QuotaReached, IInv, Counted
<1>3. \A t \in Threads : Registered(t) => SlotsOf(t) # {}
    BY DEF IInv, SlotsMatch, Holds, SlotsOf
<1> QED
    BY <1>1, <1>2, <1>3

\* Each step keeps one slot per registered pool, and no assertion fails.
LEMMA TableStep ==
    ASSUME LoggerConstants, IInv, process = "running", NEW t \in Threads, Step(t)
    PROVE  Table' /\ AssertionsHold'
<1> USE DEF Go, alloc, sig, fault
<1>0. Table /\ pc \in [Threads -> {"idle", "mapped", "lockReg", "register", "install",
                               "live", "lockDereg", "deregister", "restore", "scan", "chain"}]
      /\ pool \in [Threads -> [id : 0 .. MaxId, place : Places \cup {None}]]
    BY DEF IInv, Table, TypeOK
<1>1. ASSUME UNCHANGED reg, process' # "assertion failed",
             \A u \in Threads \ {t} : pc'[u] = pc[u] /\ pool'[u] = pool[u],
             Registered(t)' <=> Registered(t),
             Registered(t) => /\ pool'[t].id = pool[t].id
                              /\ pool'[t].place # None => pool'[t].place = pool[t].place
      PROVE  Table' /\ AssertionsHold'
    <2>1. \A u \in Threads \ {t} : Registered(u)' <=> Registered(u)
        BY <1>1 DEF Registered
    <2> QED
        BY <1>0, <1>1, <2>1, TableUntouched DEF AssertionsHold
<1>2. CASE \/ \E p \in Places : Map(t, p)
           \/ TakeId(t) \/ Unmap(t) \/ Scan(t)
           \/ Lock(t, "lockReg", "register") \/ Lock(t, "lockDereg", "deregister")
    BY <1>0, <1>1, <1>2 DEF Map, TakeId, Unmap, Scan, Lock, Registered, IInv, PlacesHeld
<1>3. CASE Install(t) \/ Restore(t)
    BY <1>0, <1>1, <1>3 DEF Install, Restore, Registered
<1>4. CASE Chain(t)
    <2>1. process' # "assertion failed"
        BY <1>4 DEF Chain, IInv, TypeOK, Dispositions
    <2>2. /\ pool' = pool /\ UNCHANGED reg /\ pc[t] = "chain"
          /\ pc' = pc \/ pc' = [pc EXCEPT ![t] = "scan"]
        BY <1>4 DEF Chain
    <2> QED
        BY <1>0, <1>1, <2>1, <2>2 DEF Registered
<1>5. CASE Deplete(t) \/ \E p \in Places : StrayTouch(t, p)
    <2>1. installed \in Dispositions
        BY DEF IInv, TypeOK
    <2> QED
        BY <1>0, <1>1, <1>5, <2>1
           DEF Deplete, StrayTouch, Deliver, Registered, IInv, PlacesHeld, Dispositions
<1>6. CASE Register(t)
    <2>1. EmptySlots # {} \/ QuotaReached
        BY TableAnswers
    <2>2. CASE QuotaReached
        BY <1>0, <1>1, <1>6, <2>2 DEF Register, Registered
    <2>3. CASE ~QuotaReached /\ EmptySlots # {}
        <3>1. PICK s \in {"install", "live"} :
                  /\ pc[t] = "register" /\ pc' = [pc EXCEPT ![t] = s]
                  /\ zones' = [zones EXCEPT ![First(EmptySlots)] = Zone(t)]
                  /\ activeZones' = activeZones + 1 /\ pool' = pool /\ process' = process
            BY <1>6, <2>3 DEF Register
        <3>2. First(EmptySlots) \in Slots /\ zones[First(EmptySlots)] = None
            BY <2>3, FirstIsIn DEF EmptySlots
        <3>3. /\ ~Registered(t) /\ Registered(t)'
              /\ \A u \in Threads \ {t} : Registered(u)' <=> Registered(u)
            BY <1>0, <3>1 DEF Registered
        <3>4. pool[t].place # None /\ pool[t].id # 0
            BY <3>1 DEF IInv, PlacesHeld, IdsTaken
        <3> QED
            BY <3>1, <3>2, <3>3, <3>4, SlotFilled DEF IInv, AssertionsHold
    <2> QED
        BY <2>1, <2>2, <2>3
<1>7. CASE Deregister(t)
    <2>1. Registered(t) /\ SlotsOf(t) # {}
        BY <1>7, TableAnswers DEF Deregister, Registered
    <2>2. PICK s \in {"restore", "idle"} :
              /\ pc[t] = "deregister" /\ pc' = [pc EXCEPT ![t] = s]
              /\ zones' = [zones EXCEPT ![First(SlotsOf(t))] = None]
              /\ activeZones' = activeZones - 1 /\ pool' = pool /\ process' = process
        BY <1>7, <2>1 DEF Deregister
    <2>3. First(SlotsOf(t)) \in SlotsOf(t)
        BY <2>1, FirstIsIn DEF SlotsOf
    <2>4. /\ ~Registered(t)'
          /\ \A u \in Threads \ {t} : Registered(u)' <=> Registered(u)
        BY <1>0, <2>2 DEF Registered
    <2> QED
        BY <2>1, <2>2, <2>3, <2>4, SlotCleared DEF IInv, AssertionsHold
<1> QED
    BY <1>2, <1>3, <1>4, <1>5, <1>6, <1>7 DEF Step

-----------------------------------------------------------------------------
(* The disposition of SIGSEGV *)

\* A step that neither counts nor calls sigaction keeps the disposition right.
LEMMA HandlerUntouched ==
    ASSUME HandlerInPlace, UNCHANGED <<activeZones, sig>>, process = "running",
           \A t \in Threads : pc'[t] = pc[t] \/ {pc'[t], pc[t]} \cap {"install", "restore"} = {}
    PROVE  HandlerInPlace'
BY DEF HandlerInPlace, sig

\* Each step keeps the disposition in line with the count.
LEMMA HandlerStep ==
    ASSUME LoggerConstants, IInv, process = "running", NEW t \in Threads, Step(t)
    PROVE  HandlerInPlace'
<1> USE DEF Go, alloc, reg, sig, fault
<1>0. /\ pc \in [Threads -> {"idle", "mapped", "lockReg", "register", "install",
                             "live", "lockDereg", "deregister", "restore", "scan", "chain"}]
      /\ activeZones \in Nat /\ installed \in Dispositions /\ prev \in Dispositions
    BY DEF IInv, TypeOK
<1>1. HasMutex(t) => \A u \in Threads \ {t} : pc[u] \notin {"install", "restore"}
    BY DEF IInv, MutexHeld, HasMutex
<1>2. CASE \/ \E p \in Places : Map(t, p)
           \/ TakeId(t) \/ Unmap(t) \/ Scan(t)
           \/ Lock(t, "lockReg", "register") \/ Lock(t, "lockDereg", "deregister")
    <2>1. PICK s, r \in {"idle", "mapped", "lockReg", "register", "live", "lockDereg",
                         "deregister", "scan", "chain"} :
              pc[t] = r /\ pc' = [pc EXCEPT ![t] = s]
        BY <1>2 DEF Map, TakeId, Unmap, Scan, Lock
    <2>2. UNCHANGED <<activeZones, sig>>
        BY <1>2 DEF Map, TakeId, Unmap, Scan, Lock
    <2> QED
        BY <1>0, <2>1, <2>2, HandlerUntouched DEF IInv
<1>3. CASE Deplete(t) \/ \E p \in Places : StrayTouch(t, p)
    <2>1. UNCHANGED <<activeZones, sig>>
        BY <1>3 DEF Deplete, StrayTouch, Deliver
    <2>2. /\ pc[t] \in {"live", "idle"}
          /\ process' = installed \/ pc' = [pc EXCEPT ![t] = "scan"]
        BY <1>3 DEF Deplete, StrayTouch, Deliver
    <2>3. CASE process' = installed
        BY <1>0, <2>3 DEF HandlerInPlace, Dispositions
    <2>4. CASE pc' = [pc EXCEPT ![t] = "scan"]
        BY <1>0, <2>1, <2>2, <2>4, HandlerUntouched DEF IInv
    <2> QED
        BY <2>2, <2>3, <2>4
<1>4. CASE Chain(t)
    <2>1. CASE process' \in Dispositions
        BY <2>1 DEF HandlerInPlace, Dispositions
    <2>2. CASE /\ pc[t] = "chain" /\ pc' = [pc EXCEPT ![t] = "scan"]
               /\ UNCHANGED <<activeZones, sig>>
        BY <1>0, <2>2, HandlerUntouched DEF IInv
    <2> QED
        BY <1>0, <1>4, <2>1, <2>2 DEF Chain
<1>5. CASE Register(t)
    <2>1. CASE process' # process
        <3>1. process' # "running"
            BY <2>1
        <3> QED
            BY <3>1 DEF HandlerInPlace
    <2>2. CASE activeZones = 0 /\ pc' = [pc EXCEPT ![t] = "install"]
               /\ activeZones' = activeZones + 1
        BY <1>0, <1>1, <1>5, <2>2 DEF Register, IInv, HandlerInPlace, HasMutex
    <2>3. CASE activeZones # 0 /\ pc' = [pc EXCEPT ![t] = "live"]
               /\ activeZones' = activeZones + 1
        BY <1>0, <1>1, <1>5, <2>3 DEF Register, IInv, HandlerInPlace, HasMutex
    <2> QED
        BY <1>5, <2>1, <2>2, <2>3 DEF Register, FirstZone
<1>6. CASE Install(t)
    BY <1>0, <1>1, <1>6 DEF Install, IInv, HandlerInPlace, HasMutex
<1>7. CASE Deregister(t)
    <2>1. CASE process' # process
        <3>1. process' # "running"
            BY <2>1
        <3> QED
            BY <3>1 DEF HandlerInPlace
    <2>2. SlotsOf(t) # {} => activeZones # 0
        <3>1. SlotsOf(t) \in SUBSET UsedSlots
            BY DEF SlotsOf, UsedSlots
        <3> QED
            BY <3>1, SlotsAreFinite DEF IInv, Counted
    <2>3. CASE activeZones = 1 /\ pc' = [pc EXCEPT ![t] = "restore"]
               /\ activeZones' = activeZones - 1
        BY <1>0, <1>1, <1>7, <2>3 DEF Deregister, IInv, HandlerInPlace, HasMutex
    <2>4. CASE activeZones # 1 /\ activeZones # 0 /\ pc' = [pc EXCEPT ![t] = "idle"]
               /\ activeZones' = activeZones - 1
        BY <1>0, <1>1, <1>7, <2>4 DEF Deregister, IInv, HandlerInPlace, HasMutex
    <2> QED
        BY <1>7, <2>1, <2>2, <2>3, <2>4 DEF Deregister, LastZone
<1>8. CASE Restore(t)
    BY <1>0, <1>1, <1>8 DEF Restore, RestoredDisposition, IInv, HandlerInPlace, HasMutex
<1> QED
    BY <1>2, <1>3, <1>4, <1>5, <1>6, <1>7, <1>8 DEF Step

-----------------------------------------------------------------------------
(* The scan *)

\* Whoever scans for its own pool is registered.
LEMMA OwnIsRegistered ==
    ASSUME IInv, NEW t \in Threads, OwnFault(t)
    PROVE  Registered(t) /\ pool[t].place # None /\ \E i \in Slots : Holds(i, t)
BY DEF IInv, PlacesHeld, OwnFault, Registered, SlotsMatch

\* The others' registrations and deregistrations leave the slot alone.
LEMMA SlotSurvives ==
    ASSUME LoggerConstants, IInv, NEW t \in Threads, Step(t),
           NEW u \in Threads \ {t}, Registered(u), NEW i \in Slots, Holds(i, u)
    PROVE  Holds(i, u)'
<1> USE DEF alloc, reg, sig, fault
<1>1. pool'[u] = pool[u]
    BY DEF Step, Map, TakeId, Lock, Register, Install, Unmap, Deregister, Restore,
           Deplete, StrayTouch, Deliver, Scan, Chain, IInv, TypeOK
<1>2. zones'[i] = zones[i]
    <2>1. CASE zones' = zones
        BY <2>1
    <2>2. CASE Register(t) /\ EmptySlots # {}
        <3>1. First(EmptySlots) # i
            BY <2>2, FirstIsIn DEF EmptySlots, Holds
        <3> QED
            BY <2>2, <3>1 DEF Register, IInv, TypeOK
    <2>3. CASE Deregister(t) /\ SlotsOf(t) # {}
        <3>1. First(SlotsOf(t)) \in SlotsOf(t)
            BY <2>3, FirstIsIn DEF SlotsOf
        <3>2. pool[u].id # pool[t].id
            BY DEF IInv, IdsTaken
        <3>3. First(SlotsOf(t)) # i
            BY <3>1, <3>2 DEF SlotsOf, Holds
        <3> QED
            BY <2>3, <3>3 DEF Deregister, IInv, TypeOK
    <2> QED
        BY <2>1, <2>2, <2>3
           DEF Step, Map, TakeId, Lock, Register, Install, Unmap, Deregister, Restore,
               Deplete, StrayTouch, Deliver, Scan, Chain
<1> QED
    BY <1>1, <1>2 DEF Holds

\* No step of its own or of another thread moves a scan past its pool's slot.
LEMMA ScanStep ==
    ASSUME LoggerConstants, IInv, process = "running", NEW t \in Threads, Step(t)
    PROVE  ScanAhead'
<1> USE DEF Go, alloc, reg, sig, fault
<1>0. /\ pc \in [Threads -> {"idle", "mapped", "lockReg", "register", "install",
                             "live", "lockDereg", "deregister", "restore", "scan", "chain"}]
      /\ pool \in [Threads -> [id : 0 .. MaxId, place : Places \cup {None}]]
      /\ hit \in [Threads -> Places \cup {None}] /\ cursor \in [Threads -> Slots]
      /\ reported \in [Threads -> 0 .. MaxId \cup {None}]
    BY DEF IInv, TypeOK
<1>1. ASSUME NEW u \in Threads \ {t}, OwnFault(u)'
      PROVE  /\ pc'[u] = "scan" => \E i \in Slots : cursor'[u] <= i /\ Holds(i, u)'
             /\ pc'[u] = "chain" => reported'[u] # None
    <2>1. /\ pc'[u] = pc[u] /\ pool'[u] = pool[u] /\ hit'[u] = hit[u]
          /\ cursor'[u] = cursor[u] /\ reported'[u] = reported[u]
        BY <1>0 DEF Step, Map, TakeId, Lock, Register, Install, Unmap, Deregister, Restore,
                    Deplete, StrayTouch, Deliver, Scan, Chain
    <2>2. OwnFault(u)
        BY <1>1, <2>1 DEF OwnFault
    <2>3. Registered(u)
        BY <2>2, OwnIsRegistered
    <2> QED
        BY <2>1, <2>2, <2>3, SlotSurvives DEF IInv, ScanAhead
<1>2. ASSUME OwnFault(t)'
      PROVE  /\ pc'[t] = "scan" => \E i \in Slots : cursor'[t] <= i /\ Holds(i, t)'
             /\ pc'[t] = "chain" => reported'[t] # None
    <2>0. pc'[t] \in {"scan", "chain"}
        BY <1>2 DEF OwnFault
    <2>1. ASSUME OwnFault(t) \/ pc[t] = "live", pc'[t] = "scan", cursor'[t] = 1,
                 zones' = zones, pool' = pool
          PROVE  \E i \in Slots : cursor'[t] <= i /\ Holds(i, t)'
        <3>1. PICK i \in Slots : Holds(i, t)
            BY <2>1, OwnIsRegistered DEF IInv, SlotsMatch, Registered
        <3>2. 1 <= i
            BY DEF Slots
        <3> QED
            BY <2>1, <3>1, <3>2 DEF Holds
    <2>2. CASE Deplete(t)
        <3>1. pc[t] = "live" /\ zones' = zones /\ pool' = pool
            BY <2>2 DEF Deplete, Deliver
        <3>2. pc'[t] = "scan" /\ cursor'[t] = 1
            BY <1>0, <2>0, <2>2 DEF Deplete, Deliver
        <3> QED
            BY <2>1, <3>1, <3>2
    <2>3. CASE \E p \in Places : StrayTouch(t, p)
        <3>1. PICK p \in Places : StrayTouch(t, p)
            BY <2>3
        <3>2. pool'[t].place = None /\ hit'[t] = p /\ p # None
            BY <1>0, <3>1 DEF StrayTouch, Deliver, IInv, PlacesHeld, LoggerConstants
        <3> QED
            BY <1>2, <3>2 DEF OwnFault
    <2>4. CASE Scan(t)
        <3>1. /\ pc[t] = "scan" /\ zones' = zones /\ pool' = pool /\ hit' = hit
              /\ OwnFault(t)
            BY <1>2, <2>4 DEF Scan, OwnFault
        <3>2. PICK i \in Slots : cursor[t] <= i /\ Holds(i, t)
            BY <3>1 DEF IInv, ScanAhead
        <3>3. pool[t].place # None /\ hit[t] = pool[t].place
            BY <3>1, OwnIsRegistered DEF OwnFault
        <3> DEFINE zone == zones[cursor[t]]
                   matches == zone # None /\ zone.place = hit[t]
        <3>4. CASE matches
            <4>1. zone \in [id : 1 .. MaxId, place : Places]
                BY <1>0, <3>4 DEF IInv, TypeOK
            <4>2. zone.id # None
                BY <4>1 DEF LoggerConstants
            <4>3. reported'[t] = zone.id /\ pc'[t] = "chain"
                BY <1>0, <2>4, <3>4 DEF Scan
            <4> QED
                BY <4>2, <4>3
        <3>5. CASE ~matches
            <4>1. cursor[t] # i
                BY <3>2, <3>3, <3>5 DEF Holds
            <4>2. i \in 1 .. Quota /\ cursor[t] \in 1 .. Quota /\ Quota \in Nat
                BY <1>0 DEF Slots, LoggerConstants
            <4>3. cursor[t] # Quota /\ cursor[t] + 1 <= i
                BY <3>2, <4>1, <4>2
            <4>4. pc'[t] = "scan" /\ cursor'[t] = cursor[t] + 1
                BY <1>0, <2>4, <3>5, <4>3 DEF Scan
            <4> QED
                BY <3>1, <3>2, <4>3, <4>4 DEF Holds
        <3> QED
            BY <3>4, <3>5
    <2>5. CASE Chain(t)
        <3>1. OwnFault(t) /\ zones' = zones /\ pool' = pool /\ pc[t] = "chain"
            BY <1>2, <2>5 DEF Chain, OwnFault
        <3>2. CASE pc' = pc /\ UNCHANGED fault
            BY <3>1, <3>2 DEF IInv, ScanAhead
        <3>3. CASE pc'[t] = "scan" /\ cursor'[t] = 1
            BY <2>1, <3>1, <3>3
        <3> QED
            BY <1>0, <2>5, <3>2, <3>3 DEF Chain
    <2> QED
        BY <1>0, <2>0, <2>2, <2>3, <2>4, <2>5
           DEF Step, Map, TakeId, Lock, Register, Install, Unmap, Deregister, Restore
<1> QED
    BY <1>1, <1>2 DEF ScanAhead

-----------------------------------------------------------------------------
(* The theorems *)

\* The invariant holds at the start.
LEMMA Initially == LoggerConstants /\ OneClass /\ Init => IInv
<1> SUFFICES ASSUME LoggerConstants, OneClass, Init PROVE IInv
    OBVIOUS
<1>1. Control /\ Table
    BY InitControl, InitTable
<1>2. HandlerInPlace /\ ScanAhead /\ AssertionsHold
    BY DEF Init, HandlerInPlace, ScanAhead, OwnFault, AssertionsHold
<1> QED
    BY <1>1, <1>2 DEF IInv, Control, Table

\* Every step of every thread keeps it.
LEMMA Inductive == LoggerConstants /\ OneClass /\ IInv /\ [Next]_vars => IInv'
<1> SUFFICES ASSUME LoggerConstants, OneClass, IInv, [Next]_vars PROVE IInv'
    OBVIOUS
<1>1. CASE Next
    <2>1. PICK t \in Threads : process = "running" /\ Step(t)
        BY <1>1 DEF Next
    <2>2. Control' /\ Table' /\ AssertionsHold' /\ HandlerInPlace' /\ ScanAhead'
        BY <2>1, ControlStep, TableStep, HandlerStep, ScanStep
    <2> QED
        BY <2>2 DEF IInv, Control, Table
<1>2. CASE UNCHANGED vars
    <2>1. UNCHANGED <<pc, pool, mapped, nextId, zones, activeZones, mut, original, installed,
                      prev, hit, cursor, reported, process>>
        BY <1>2 DEF vars, alloc, reg, sig, fault
    <2>2. TypeOK' /\ MutexHeld' /\ PlacesHeld' /\ AssertionsHold'
        BY <2>1 DEF IInv, TypeOK, MutexHeld, HasMutex, PlacesHeld, AssertionsHold
    <2>3. IdsTaken'
        BY <2>1 DEF IInv, IdsTaken, Registered
    <2>4. SlotsMatch' /\ Counted'
        BY <2>1 DEF IInv, SlotsMatch, Registered, Holds, Counted, UsedSlots
    <2>5. HandlerInPlace' /\ ScanAhead'
        BY <2>1 DEF IInv, HandlerInPlace, ScanAhead, OwnFault, Holds
    <2> QED
        BY <2>2, <2>3, <2>4, <2>5 DEF IInv
<1> QED
    BY <1>1, <1>2

\* What the invariant is for: nobody finds the table wrong, ...
LEMMA InvariantAsserts == IInv => AssertionsHold
BY DEF IInv

\* ... the handler is gone with the last zone, ...
LEMMA InvariantRestores == LoggerConstants /\ IInv => DispositionRestored
<1> SUFFICES ASSUME LoggerConstants, IInv, mut = None, activeZones = 0, process = "running"
             PROVE  installed = original
    BY DEF DispositionRestored
<1>1. \A t \in Threads : pc[t] # "restore"
    BY DEF IInv, MutexHeld, HasMutex, LoggerConstants
<1> QED
    BY <1>1 DEF IInv, HandlerInPlace

\* ... and as long as a pool lives the handler is there and finds it.
LEMMA InvariantReports == LoggerConstants /\ IInv => DepletionReported
<1> SUFFICES ASSUME LoggerConstants, IInv PROVE DepletionReported
    OBVIOUS
<1>1. ASSUME NEW t \in Threads, pc[t] = "live", process = "running"
      PROVE  installed = "logger"
    <2>1. PICK i \in Slots : Holds(i, t)
        BY <1>1 DEF IInv, SlotsMatch, Registered
    <2>2. i \in UsedSlots /\ activeZones # 0
        BY <2>1, SlotsAreFinite DEF Holds, UsedSlots, IInv, Counted
    <2>3. ASSUME NEW u \in Threads, pc[u] = "install" PROVE FALSE
        <3>1. PICK j \in Slots : Holds(j, u)
            BY <2>3 DEF IInv, SlotsMatch, Registered
        <3>2. activeZones = 1
            BY <1>1, <2>3 DEF IInv, HandlerInPlace
        <3>3. j \in UsedSlots /\ i = j
            BY <2>2, <3>1, <3>2, SlotsAreFinite DEF Holds, UsedSlots, IInv, Counted
        <3>4. pool[t].id = pool[u].id /\ pool[t].id # 0
            BY <1>1, <2>1, <3>1, <3>3 DEF Holds, IInv, IdsTaken, Registered
        <3> QED
            BY <1>1, <2>3, <3>4 DEF IInv, IdsTaken
    <2> QED
        BY <1>1, <2>2, <2>3 DEF IInv, HandlerInPlace
<1>2. \A t \in Threads : pc[t] = "chain" /\ OwnFault(t) => reported[t] # None
    BY DEF IInv, ScanAhead
<1> QED
    BY <1>1, <1>2 DEF DepletionReported

\* With one class of pools, the assertions of pool_depletion_logger.cpp:79 and :96
\* never fail: whoever deregisters finds its zone, and below the quota there is
\* an empty slot.
THEOREM ZonesAreFound ==
    ASSUME LoggerConstants, OneClass
    PROVE  Spec => []AssertionsHold
BY InvariantAsserts, Initially, Inductive, PTL DEF Spec

\* With one class of pools, SIGSEGV is handled as the process had arranged
\* whenever no pool is registered, however often the handler came and went.
THEOREM HandlerComesAndGoes ==
    ASSUME LoggerConstants, OneClass
    PROVE  Spec => []DispositionRestored
BY InvariantRestores, Initially, Inductive, PTL DEF Spec

\* With one class of pools, every depletion of a live pool enters the logger's
\* handler, and the scan without the mutex finds the pool's zone, whichever
\* zones come and go meanwhile.
THEOREM DepletionsAreReported ==
    ASSUME LoggerConstants, OneClass
    PROVE  Spec => []DepletionReported
BY InvariantReports, Initially, Inductive, PTL DEF Spec

=============================================================================
