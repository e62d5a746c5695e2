--------------------------- MODULE MCPoolsProofs ---------------------------
(***************************************************************************)
(* The pools, the fault handlers and the cache probe together, for any     *)
(* pools, threads, slots, places, tables and numbers of them.  The proofs  *)
(* of each component are cited for its instance; the handler of hw06 and   *)
(* the safe read of hw09, which have none of their own, are proved about   *)
(* here.                                                                   *)
(***************************************************************************)
EXTENDS MCPools, SeqPoolProofs, Sequences

LoggerProofs == INSTANCE DepletionLoggerProofs WITH
    Threads <- LoggerThreads, ClassOf <- OneClass,
    pc <- logger_pc, pool <- logger_pool, mapped <- logger_mapped,
    nextId <- logger_nextId, zones <- logger_zones,
    activeZones <- logger_activeZones, mut <- logger_mut,
    original <- logger_original, installed <- logger_installed,
    prev <- logger_prev, hit <- logger_hit, cursor <- logger_cursor,
    reported <- logger_reported, process <- logger_process

ProbeProofs == INSTANCE CacheProbeProofs WITH
    pc <- probe_pc, spots <- probe_spots, idx_bit <- probe_idx_bit,
    slow <- probe_slow, candidate <- probe_candidate,
    cache_line <- probe_cache_line, measured <- probe_measured, chased <- probe_chased

-----------------------------------------------------------------------------
(* The pools of hw06 and their handler                                     *)

\* Every live pool's zone is in the list the handler searches.
ZonesKept == \A p \in zones_pools : \E i \in 1 .. Len(zones_guard_zones) : zones_guard_zones[i] = p

ZonesInv == Zones!TypeOK /\ ZonesKept /\ Zones!ExhaustionReported

LEMMA ZonesInitially == Zones!Init => ZonesInv
<1> SUFFICES ASSUME Zones!Init PROVE ZonesInv
    OBVIOUS
<1>1. zones_guard_zones \in Seq(Places) /\ Len(zones_guard_zones) <= MaxPools
    BY PoolsAreBounded DEF Zones!Init
<1>2. Zones!TypeOK
    BY <1>1 DEF Zones!Init, Zones!TypeOK, Zones!Dispositions
<1> QED
    BY <1>2 DEF Zones!Init, ZonesInv, ZonesKept, Zones!ExhaustionReported

LEMMA ZonesStay == ZonesInv /\ [Zones!Next]_zones_vars => ZonesInv'
<1> SUFFICES ASSUME ZonesInv, [Zones!Next]_zones_vars PROVE ZonesInv'
    OBVIOUS
<1> USE DEF ZonesInv
<1>1. ASSUME NEW p \in Places, Zones!Construct(p), zones_process = "running"
      PROVE  ZonesInv'
    <2>1. /\ zones_guard_zones' = Append(zones_guard_zones, p)
          /\ zones_pools' = zones_pools \cup {p}
          /\ zones_prev_handler' = zones_installed /\ zones_installed' = "logger"
          /\ zones_pc = "client"
          /\ UNCHANGED << zones_original, zones_pc, zones_hit, zones_reported, zones_process >>
        BY <1>1 DEF Zones!Construct, Zones!WithZone, Zones!isHandlerRegistred
    <2>2. /\ Len(zones_guard_zones') = Len(zones_guard_zones) + 1
          /\ zones_guard_zones' \in Seq(Places)
          /\ \A i \in 1 .. Len(zones_guard_zones) : zones_guard_zones'[i] = zones_guard_zones[i]
          /\ zones_guard_zones'[Len(zones_guard_zones) + 1] = p
        BY <2>1 DEF Zones!TypeOK
    <2>3. Zones!TypeOK'
        BY <1>1, <2>1, <2>2, PoolsAreBounded DEF Zones!TypeOK, Zones!Construct, Zones!Dispositions
    <2>4. ZonesKept'
        <3>1. ASSUME NEW q \in zones_pools'
              PROVE  \E i \in 1 .. Len(zones_guard_zones') : zones_guard_zones'[i] = q
            <4>1. Len(zones_guard_zones) \in Nat
                BY DEF Zones!TypeOK
            <4>2. CASE q = p
                BY <2>2, <4>1, <4>2
            <4>3. CASE q # p
                <5>1. PICK i \in 1 .. Len(zones_guard_zones) : zones_guard_zones[i] = q
                    BY <2>1, <4>3 DEF ZonesKept
                <5> QED
                    BY <2>2, <4>1, <5>1
            <4> QED
                BY <4>2, <4>3
        <3> QED
            BY <3>1 DEF ZonesKept
    <2> QED
        BY <2>1, <2>3, <2>4 DEF Zones!ExhaustionReported
<1>2. ASSUME NEW p \in Places, Zones!Destroy(p) PROVE ZonesInv'
    BY <1>2 DEF Zones!Destroy, Zones!sig, Zones!TypeOK, ZonesKept, Zones!ExhaustionReported
<1>3. ASSUME NEW p \in Places, Zones!Touch(p) PROVE ZonesInv'
    BY <1>3 DEF Zones!Touch, Zones!sig, Zones!TypeOK, Zones!Dispositions, ZonesKept,
                Zones!ExhaustionReported
<1>4. CASE Zones!Scan
    <2>1. zones_hit \in zones_pools => zones_reported'
        BY <1>4 DEF Zones!Scan, Zones!Contains, ZonesKept
    <2> QED
        BY <1>4, <2>1 DEF Zones!Scan, Zones!sig, Zones!Contains, Zones!TypeOK, ZonesKept,
                          Zones!ExhaustionReported
<1>5. CASE Zones!Chain /\ zones_process = "running"
    BY <1>5 DEF Zones!Chain, Zones!TypeOK, Zones!Dispositions, ZonesKept,
                Zones!ExhaustionReported
<1>6. CASE UNCHANGED zones_vars
    BY <1>6 DEF zones_vars, Zones!TypeOK, ZonesKept, Zones!ExhaustionReported
<1> QED
    BY <1>1, <1>2, <1>3, <1>4, <1>5, <1>6 DEF Zones!Next

-----------------------------------------------------------------------------
(* The components proved elsewhere, as they are instantiated here.  What   *)
(* two instances of one module define under one name is the same.          *)

LEMMA LoggerAssumed == LoggerProofs!LoggerConstants /\ LoggerProofs!OneClass
BY LoggerInstance
   DEF Logger!LoggerConstants, LoggerProofs!LoggerConstants, Logger!OneClass,
       LoggerProofs!OneClass, Logger!Classes, LoggerProofs!Classes, Logger!Dispositions,
       LoggerProofs!Dispositions, Logger!Slots, LoggerProofs!Slots

LEMMA LoggerInitially == Logger!Init => LoggerProofs!IInv
<1>1. Logger!Init => LoggerProofs!Init
    BY DEF Logger!Init, LoggerProofs!Init, Logger!Classes, LoggerProofs!Classes,
           Logger!Slots, LoggerProofs!Slots
<1> QED
    BY LoggerAssumed, <1>1, LoggerProofs!Initially DEF LoggerProofs!Initially

LEMMA LoggerStays == LoggerProofs!IInv /\ [Logger!Next]_logger_vars => LoggerProofs!IInv'
<1>1. Logger!Next => LoggerProofs!Next
    BY DEF
        Logger!Classes, LoggerProofs!Classes, Logger!Dispositions,
        LoggerProofs!Dispositions, Logger!Slots, LoggerProofs!Slots, Logger!alloc,
        LoggerProofs!alloc, Logger!reg, LoggerProofs!reg, Logger!sig, LoggerProofs!sig,
        Logger!fault, LoggerProofs!fault, Logger!Go, LoggerProofs!Go, Logger!Zone,
        LoggerProofs!Zone, Logger!First, LoggerProofs!First, Logger!EmptySlots,
        LoggerProofs!EmptySlots, Logger!SlotsOf, LoggerProofs!SlotsOf, Logger!Map,
        LoggerProofs!Map, Logger!TakeId, LoggerProofs!TakeId, Logger!Lock,
        LoggerProofs!Lock, Logger!FirstZone, LoggerProofs!FirstZone,
        Logger!QuotaReached, LoggerProofs!QuotaReached, Logger!Register,
        LoggerProofs!Register, Logger!Install, LoggerProofs!Install, Logger!Unmap,
        LoggerProofs!Unmap, Logger!LastZone, LoggerProofs!LastZone, Logger!Deregister,
        LoggerProofs!Deregister, Logger!RestoredDisposition,
        LoggerProofs!RestoredDisposition, Logger!Restore, LoggerProofs!Restore,
        Logger!Deliver, LoggerProofs!Deliver, Logger!Deplete, LoggerProofs!Deplete,
        Logger!StrayTouch, LoggerProofs!StrayTouch, Logger!Scan, LoggerProofs!Scan,
        Logger!Chain, LoggerProofs!Chain, Logger!Step, LoggerProofs!Step, Logger!Next,
        LoggerProofs!Next
<1>2. UNCHANGED logger_vars => UNCHANGED LoggerProofs!vars
    BY DEF logger_vars, LoggerProofs!vars, LoggerProofs!alloc, LoggerProofs!reg,
           LoggerProofs!sig, LoggerProofs!fault
<1> QED
    BY LoggerAssumed, <1>1, <1>2, LoggerProofs!Inductive DEF LoggerProofs!Inductive

-----------------------------------------------------------------------------
(* The safe read of hw09                                                   *)

\* What deals with a fault is one of three.  The call's handler takes for the
\* read's what the target says; it is in place from the first registration on.
LEMMA FaultsDealtWith ==
    ASSUME Reads!TypeOK, Reads!SegvInPlace, Reads!BusInPlace,
           NEW sig \in Reads!Signals, NEW p \in Reads!Addresses \cup {Reads!Elsewhere}
    PROVE  /\ Reads!DealtWithBy(sig, p) \in {"user", "jump", "killed"}
           /\ Reads!Installed(sig) /\ Reads!Expected(p) => Reads!DealtWithBy(sig, p) = "jump"
           /\ Reads!DealtWithBy(sig, p) = "jump" => read_pc \notin {"client", "SIGSEGV"}
  <1>1. Reads!DealtWithBy(sig, p) \in {"user", "jump", "killed"}
    BY DEF Reads!DealtWithBy
  <1>2. Reads!Installed(sig) /\ Reads!Expected(p) => Reads!DealtWithBy(sig, p) = "jump"
    BY DEF Reads!DealtWithBy, Reads!Installed, Reads!Segv, Reads!Bus, Reads!Signals
  <1>3. ASSUME read_pc \in {"client", "SIGSEGV"}
        PROVE  Reads!DealtWithBy(sig, p) # "jump"
    <2>1. /\ read_disposition["SIGSEGV"] \in {"default", "ignore", "user"}
          /\ read_disposition["SIGBUS"] \in {"default", "ignore", "user"}
      BY <1>3 DEF Reads!TypeOK, Reads!SegvInPlace, Reads!BusInPlace, Reads!AsFound,
         Reads!Signals, Reads!ItsOwn, Reads!Dispositions
    <2>. QED BY <2>1 DEF Reads!DealtWithBy, Reads!Segv, Reads!Bus, Reads!Signals
  <1>. QED BY <1>1, <1>2, <1>3

\* During a call a fault at another address than the target reaches the process's
\* handler or is fatal; the handler that calls SIG_DFL or SIG_IGN for a SIGBUS
\* faults once more.
LEMMA OthersHandedOver ==
    ASSUME Reads!TypeOK, Reads!SegvInPlace, Reads!BusInPlace, read_pc # "client",
           NEW sig \in Reads!Signals, NEW p \in Reads!Addresses \cup {Reads!Elsewhere},
           p # read_target
    PROVE  IF read_found[sig] = "user" THEN Reads!DealtWithBy(sig, p) = "user"
           ELSE \/ Reads!DealtWithBy(sig, p) = "killed"
                \/ sig = "SIGBUS" /\ Reads!CalledAddress = read_target
                \/ /\ sig = "SIGBUS" /\ read_found["SIGSEGV"] = "user"
                   /\ Reads!DealtWithBy(sig, p) = "user"
  <1>1. /\ read_found["SIGSEGV"] \in {"default", "ignore", "user"}
        /\ read_found["SIGBUS"] \in {"default", "ignore", "user"}
    BY DEF Reads!TypeOK, Reads!Signals, Reads!ItsOwn
  <1>2. \A x : x # read_target => Reads!Segv(x) = read_found["SIGSEGV"]
    BY <1>1 DEF Reads!Segv, Reads!Expected, Reads!SegvInPlace, Reads!Installed,
       Reads!AsFound, Reads!TypeOK, Reads!Locations
  <1>3. CASE sig = "SIGSEGV"
    BY <1>1, <1>2, <1>3 DEF Reads!DealtWithBy
  <1>4. CASE sig = "SIGBUS"
    <2>1. Reads!Installed("SIGBUS") \/ Reads!AsFound("SIGBUS")
      BY DEF Reads!BusInPlace, Reads!TypeOK, Reads!Locations
    <2>2. CASE Reads!AsFound("SIGBUS")
      <3>1. Reads!Bus(p) = read_found["SIGBUS"]
        BY <1>1, <2>2 DEF Reads!Bus, Reads!AsFound
      <3>. QED BY <1>1, <1>4, <3>1 DEF Reads!DealtWithBy
    <2>3. CASE Reads!Installed("SIGBUS")
      <3>1. Reads!Bus(p) = IF read_found["SIGBUS"] = "user" THEN "user"
                           ELSE Reads!Segv(Reads!CalledAddress)
        BY <1>1, <2>3 DEF Reads!Bus, Reads!Installed, Reads!Expected, Reads!CalledAddress
      <3>2. CASE read_found["SIGBUS"] = "user"
        BY <1>4, <3>1, <3>2 DEF Reads!DealtWithBy
      <3>3. CASE read_found["SIGBUS"] # "user" /\ Reads!CalledAddress # read_target
        <4>1. Reads!Bus(p) = read_found["SIGSEGV"]
          BY <1>2, <3>1, <3>3
        <4>. QED BY <1>1, <1>4, <3>3, <4>1 DEF Reads!DealtWithBy
      <3>. QED BY <1>4, <3>2, <3>3
    <2>. QED BY <2>1, <2>2, <2>3
  <1>. QED BY <1>3, <1>4 DEF Reads!Signals

\* A process that has not read yet: nothing in place, nothing sought.
LEMMA ReadsInitially == Reads!Init => Reads!IInv
  BY DEF Reads!Init, Reads!IInv, Reads!TypeOK, Reads!Locations, Reads!SegvInPlace,
     Reads!BusInPlace, Reads!AsFound, Reads!TargetIsSought, Reads!ReadIsCanonical,
     Reads!JumpsEndReads,
     Reads!ResultStands, Reads!Signals, Reads!ItsOwn, Reads!Dispositions, Reads!Addresses,
     Reads!Readable, Reads!nullopt, Reads!NoTarget

\* No step of the process, of a call and of a fault disturbs the invariant.
LEMMA ReadsStay == Reads!IInv /\ [Reads!Next]_read_vars => Reads!IInv'
  <1>. SUFFICES ASSUME Reads!IInv, [Reads!Next]_read_vars PROVE Reads!IInv'
    OBVIOUS
  <1>. USE DEF Reads!IInv, Reads!Signals
  <1>1. CASE UNCHANGED read_vars
    BY <1>1 DEF read_vars, Reads!TypeOK, Reads!SegvInPlace, Reads!BusInPlace,
       Reads!Installed, Reads!AsFound, Reads!TargetIsSought, Reads!Sought,
       Reads!ReadIsCanonical, Reads!JumpsEndReads, Reads!ResultStands
  <1>2. ASSUME NEW sig \in Reads!Signals, NEW d \in Reads!ItsOwn, Reads!Arrange(sig, d)
        PROVE  Reads!IInv'
    <2>1. /\ read_pc = "client" /\ read_pc' = "client"
          /\ read_disposition' = [read_disposition EXCEPT ![sig] = d]
          /\ read_found' = read_disposition'
          /\ UNCHANGED << read_address, read_result, read_target, read_prev >>
          /\ UNCHANGED << read_former, read_mistaken, read_process >>
      BY <1>2 DEF Reads!Arrange, Reads!Go
    <2>2. read_disposition' \in [Reads!Signals -> Reads!ItsOwn]
      BY <1>2, <2>1 DEF Reads!TypeOK, Reads!SegvInPlace, Reads!BusInPlace,
         Reads!AsFound, Reads!Dispositions, Reads!ItsOwn
    <2>3. Reads!TypeOK'
      BY <2>1, <2>2 DEF Reads!TypeOK, Reads!Dispositions
    <2>. QED
      BY <2>1, <2>2, <2>3 DEF Reads!SegvInPlace, Reads!BusInPlace, Reads!AsFound,
         Reads!ItsOwn, Reads!TargetIsSought, Reads!ReadIsCanonical, Reads!JumpsEndReads, Reads!ResultStands
  <1>3. ASSUME NEW p \in Reads!Addresses, Reads!Call(p)
        PROVE  Reads!IInv'
    <2>1. /\ read_pc = "client"
          /\ read_pc' = IF Reads!BetweenSegments(p) THEN "client" ELSE "SIGSEGV"
          /\ read_address' = p /\ read_result' = Reads!nullopt
          /\ read_found' = read_disposition /\ read_former' = read_target
          /\ read_mistaken' = FALSE
          /\ UNCHANGED << read_target, read_prev, read_disposition, read_process >>
      BY <1>3 DEF Reads!Call, Reads!Go
    <2>2. read_disposition \in [Reads!Signals -> Reads!ItsOwn]
      BY <2>1 DEF Reads!TypeOK, Reads!SegvInPlace, Reads!BusInPlace, Reads!AsFound,
         Reads!Dispositions, Reads!ItsOwn
    <2>3. Reads!TypeOK'
      BY <1>3, <2>1, <2>2 DEF Reads!TypeOK, Reads!Locations
    <2>4. Reads!SegvInPlace' /\ Reads!BusInPlace'
      BY <2>1, <2>2 DEF Reads!SegvInPlace, Reads!BusInPlace, Reads!AsFound, Reads!ItsOwn
    <2>. QED
      BY <2>1, <2>3, <2>4 DEF Reads!BetweenSegments, Reads!TargetIsSought, Reads!Sought,
         Reads!ReadIsCanonical, Reads!JumpsEndReads, Reads!ResultStands, Reads!Readable
  <1>4. ASSUME NEW sig \in Reads!Signals, NEW next,
               \/ sig = "SIGSEGV" /\ next = "SIGBUS"
               \/ sig = "SIGBUS" /\ next = "target",
               Reads!Register(sig, next)
        PROVE  Reads!IInv'
    <2>1. /\ read_pc = sig /\ read_pc' = next
          /\ read_prev' = [read_prev EXCEPT ![sig] = read_disposition[sig]]
          /\ read_disposition' = [read_disposition EXCEPT ![sig] = "safe_read_handler"]
          /\ UNCHANGED << read_address, read_result, read_target >>
          /\ UNCHANGED << read_found, read_former, read_mistaken, read_process >>
      BY <1>4 DEF Reads!Register, Reads!Go, Reads!history
    <2>2. read_disposition[sig] = read_found[sig]
      BY <1>4, <2>1 DEF Reads!SegvInPlace, Reads!BusInPlace, Reads!AsFound
    <2>3. Reads!TypeOK'
      BY <1>4, <2>1, <2>2 DEF Reads!TypeOK, Reads!Locations, Reads!Dispositions
    <2>4. Reads!SegvInPlace' /\ Reads!BusInPlace'
      BY <1>4, <2>1, <2>2 DEF Reads!SegvInPlace, Reads!BusInPlace, Reads!Installed,
         Reads!AsFound, Reads!TypeOK
    <2>. QED
      BY <1>4, <2>1, <2>3, <2>4 DEF Reads!TargetIsSought, Reads!Sought,
         Reads!ReadIsCanonical, Reads!JumpsEndReads, Reads!ResultStands
  <1>5. CASE Reads!SetTarget
    BY <1>5 DEF Reads!SetTarget, Reads!NewTarget, Reads!Go, Reads!history, Reads!TypeOK,
       Reads!Locations, Reads!SegvInPlace, Reads!BusInPlace, Reads!Installed,
       Reads!AsFound, Reads!TargetIsSought, Reads!Sought, Reads!ReadIsCanonical,
       Reads!JumpsEndReads,
       Reads!ResultStands
  <1>6. CASE Reads!Read
    <2>. DEFINE at == Reads!si_addr(read_address)
    <2>1. read_pc = "read" /\ read_target = read_address /\ ~read_mistaken
          /\ Reads!Installed("SIGSEGV") /\ Reads!Installed("SIGBUS")
      BY <1>6 DEF Reads!Read, Reads!TargetIsSought, Reads!Sought, Reads!ReadIsCanonical,
         Reads!JumpsEndReads, Reads!SegvInPlace, Reads!BusInPlace
    <2>2. ~Reads!BetweenSegments(read_address)
      BY <2>1 DEF Reads!ReadIsCanonical
    <2>3. Reads!DealtWithBy(Reads!Raises(read_address), at) = "jump"
      BY <2>1, <2>2, FaultsDealtWith DEF Reads!si_addr, Reads!Raises, Reads!TypeOK,
         Reads!Expected
    <2>4. /\ read_pc' = "dereg SIGSEGV"
          /\ read_result' = IF Reads!Readable(read_address) THEN read_address ELSE Reads!nullopt
          /\ UNCHANGED << read_address, read_process, read_target, read_prev >>
          /\ UNCHANGED << read_disposition, read_found, read_former, read_mistaken >>
      BY <1>6, <2>3 DEF Reads!Read, Reads!Jump, Reads!history
    <2>5. Reads!TypeOK'
      BY <2>4 DEF Reads!TypeOK, Reads!Locations
    <2>6. Reads!SegvInPlace' /\ Reads!BusInPlace'
      BY <2>1, <2>4 DEF Reads!SegvInPlace, Reads!BusInPlace, Reads!Installed
    <2>. QED
      BY <2>1, <2>4, <2>5, <2>6 DEF Reads!TargetIsSought, Reads!Sought,
         Reads!ReadIsCanonical, Reads!JumpsEndReads, Reads!ResultStands, Reads!Readable
  <1>7. CASE Reads!DeregisterBoth
    <2>1. ASSUME NEW sig \in Reads!Signals, NEW from, NEW next,
                 \/ sig = "SIGSEGV" /\ from = "dereg SIGSEGV" /\ next = "dereg SIGBUS"
                 \/ sig = "SIGBUS" /\ from = "dereg SIGBUS" /\ next = "client",
                 Reads!Deregister(sig, from, next)
          PROVE  Reads!IInv'
      <3>1. /\ read_pc = from /\ read_pc' = next
            /\ read_disposition' = [read_disposition EXCEPT ![sig] = read_prev[sig]]
            /\ UNCHANGED << read_address, read_result, read_target, read_prev >>
            /\ UNCHANGED << read_found, read_former, read_mistaken, read_process >>
        BY <2>1 DEF Reads!Deregister, Reads!Go, Reads!history
      <3>2. Reads!TypeOK'
        BY <2>1, <3>1 DEF Reads!TypeOK, Reads!Locations, Reads!Dispositions
      <3>3. read_prev[sig] # "safe_read_handler"
        BY <2>1 DEF Reads!TypeOK, Reads!ItsOwn
      <3>4. Reads!SegvInPlace' /\ Reads!BusInPlace'
        BY <2>1, <3>1, <3>3 DEF Reads!SegvInPlace, Reads!BusInPlace, Reads!Installed,
           Reads!AsFound, Reads!TypeOK
      <3>. QED
        BY <2>1, <3>1, <3>2, <3>4 DEF Reads!TargetIsSought, Reads!Sought,
           Reads!ReadIsCanonical, Reads!JumpsEndReads, Reads!ResultStands
    <2>. QED BY <1>7, <2>1 DEF Reads!DeregisterBoth
  <1>8. ASSUME NEW sig \in Reads!Signals, NEW p \in Reads!Addresses \cup {Reads!Elsewhere},
               Reads!Fault(sig, p)
        PROVE  Reads!IInv'
    <2>. DEFINE by == Reads!DealtWithBy(sig, Reads!si_addr(p))
    <2>1. Reads!si_addr(p) \in Reads!Addresses \cup {Reads!Elsewhere}
      BY DEF Reads!si_addr, Reads!Addresses
    <2>2. UNCHANGED << read_target, read_prev, read_disposition, read_found, read_former >>
      BY <1>8 DEF Reads!Fault
    <2>3. CASE by = "jump" /\ Reads!Jump /\ read_mistaken' = TRUE
      <3>1. /\ read_pc' = "dereg SIGSEGV" /\ read_result' = Reads!nullopt
            /\ UNCHANGED << read_address, read_process >>
        BY <2>3 DEF Reads!Jump
      <3>2. read_pc \notin {"client", "SIGSEGV"}
        BY <2>1, <2>3, FaultsDealtWith
      <3>3. Reads!TypeOK'
        BY <2>2, <2>3, <3>1 DEF Reads!TypeOK, Reads!Locations
      <3>4. Reads!SegvInPlace' /\ Reads!BusInPlace'
        BY <2>2, <2>3, <3>1, <3>2 DEF Reads!SegvInPlace, Reads!BusInPlace,
           Reads!Installed, Reads!AsFound
      <3>5. Reads!TargetIsSought'
        BY <2>2, <3>1, <3>2 DEF Reads!TargetIsSought, Reads!Sought
      <3>. QED
        BY <2>3, <3>1, <3>2, <3>3, <3>4, <3>5
           DEF Reads!ReadIsCanonical, Reads!BetweenSegments, Reads!JumpsEndReads, Reads!ResultStands
    <2>4. CASE read_process' = "elsewhere" /\ UNCHANGED << Reads!call, read_mistaken >>
      BY <2>2, <2>4 DEF Reads!call, Reads!TypeOK, Reads!SegvInPlace, Reads!BusInPlace,
         Reads!Installed, Reads!AsFound, Reads!TargetIsSought, Reads!Sought,
         Reads!ReadIsCanonical, Reads!JumpsEndReads, Reads!ResultStands
    <2>. QED BY <1>8, <2>3, <2>4 DEF Reads!Fault
  <1>. QED BY <1>1, <1>2, <1>3, <1>4, <1>5, <1>6, <1>7, <1>8 DEF Reads!Next

\* Between calls nothing of the call is left, and its result stands.
LEMMA InvariantReads == Reads!IInv => Reads!ReadsSafely
  <1>1. ASSUME Reads!IInv, read_pc = "client", ~read_mistaken
        PROVE  read_disposition = read_found
    <2>1. \A sig \in Reads!Signals : read_disposition[sig] = read_found[sig]
      BY <1>1 DEF Reads!IInv, Reads!SegvInPlace, Reads!BusInPlace, Reads!AsFound, Reads!Signals
    <2>. QED BY <1>1, <2>1 DEF Reads!IInv, Reads!TypeOK
  <1>. QED
    BY <1>1 DEF Reads!IInv, Reads!ReadsSafely, Reads!ResultStands, Reads!SegvInPlace,
       Reads!AsFound

\* What is not sought is not the target, and is handed over.
LEMMA InvariantHandsOver == Reads!IInv => Reads!FaultsElsewhereHandedOver
  <1>. SUFFICES ASSUME Reads!IInv, read_pc # "client", NEW sig \in Reads!Signals,
                       NEW p \in Reads!Addresses \cup {Reads!Elsewhere},
                       Reads!si_addr(p) \notin Reads!Sought
                PROVE  IF read_found[sig] = "user"
                       THEN Reads!DealtWithBy(sig, Reads!si_addr(p)) = "user"
                       ELSE \/ Reads!DealtWithBy(sig, Reads!si_addr(p)) = "killed"
                            \/ sig = "SIGBUS" /\ Reads!CalledAddress \in Reads!Sought
                            \/ /\ sig = "SIGBUS" /\ read_found["SIGSEGV"] = "user"
                               /\ Reads!DealtWithBy(sig, Reads!si_addr(p)) = "user"
    BY DEF Reads!FaultsElsewhereHandedOver
  <1>1. read_target \in Reads!Sought
    BY DEF Reads!IInv, Reads!TargetIsSought
  <1>2. Reads!si_addr(p) \in Reads!Addresses \cup {Reads!Elsewhere}
    BY DEF Reads!si_addr, Reads!Addresses
  <1>3. /\ Reads!si_addr(p) # read_target
        /\ Reads!CalledAddress = read_target => Reads!CalledAddress \in Reads!Sought
    BY <1>1
  <1>. QED BY <1>2, <1>3, OthersHandedOver DEF Reads!IInv

-----------------------------------------------------------------------------
(* The cache probe of hw01                                                 *)

LEMMA ProbeAssumed == ProbeProofs!ProbeConstants
BY ProbeInstance DEF Probe!ProbeConstants, ProbeProofs!ProbeConstants

LEMMA ProbeInitially == Probe!Init => ProbeProofs!IInv
<1>1. Probe!Init => ProbeProofs!Init
    BY DEF Probe!Init, ProbeProofs!Init, Probe!Largest, ProbeProofs!Largest,
           Probe!MAX_STRIDE, ProbeProofs!MAX_STRIDE
<1> QED
    BY ProbeAssumed, <1>1, ProbeProofs!Initially DEF ProbeProofs!Initially

LEMMA ProbeStays == ProbeProofs!IInv /\ [Probe!Next]_probe_vars => ProbeProofs!IInv'
<1>1. Probe!Next => ProbeProofs!Next
    BY DEF
        Probe!MAX_STRIDE, ProbeProofs!MAX_STRIDE, Probe!n, ProbeProofs!n,
        Probe!Spots, ProbeProofs!Spots, Probe!Links, ProbeProofs!Links,
        Probe!LineLinks, ProbeProofs!LineLinks, Probe!Chased, ProbeProofs!Chased,
        Probe!Test, ProbeProofs!Test, Probe!Entries, ProbeProofs!Entries,
        Probe!Unwritten, ProbeProofs!Unwritten, Probe!Averaged,
        ProbeProofs!Averaged, Probe!Threshold, ProbeProofs!Threshold,
        Probe!Deviates, ProbeProofs!Deviates, Probe!Size, ProbeProofs!Size,
        Probe!Found, ProbeProofs!Found, Probe!IsSmaller, ProbeProofs!IsSmaller,
        Probe!NextRow, ProbeProofs!NextRow, Probe!Search, ProbeProofs!Search,
        Probe!Number, ProbeProofs!Number, Probe!test_line_size,
        ProbeProofs!test_line_size, Probe!BaseLine, ProbeProofs!BaseLine,
        Probe!Line, ProbeProofs!Line, Probe!NoLine, ProbeProofs!NoLine,
        Probe!Largest, ProbeProofs!Largest, Probe!Next, ProbeProofs!Next
<1>2. UNCHANGED probe_vars => UNCHANGED ProbeProofs!vars
    BY DEF probe_vars, ProbeProofs!vars
<1> QED
    BY ProbeAssumed, <1>1, <1>2, ProbeProofs!Inductive DEF ProbeProofs!Inductive

-----------------------------------------------------------------------------
(* All of them                                                             *)

AllInv ==
    /\ IInv /\ Reach
    /\ LoggerProofs!IInv
    /\ ZonesInv
    /\ Reads!IInv
    /\ ProbeProofs!IInv

LEMMA AllInitially == AllInit => AllInv
BY Initially, InitiallyInReach, LoggerInitially, ZonesInitially, ReadsInitially,
   ProbeInitially
   DEF AllInit, AllInv

\* One component takes a step and the others stutter, or all of them do.
LEMMA OneStepsAtATime ==
    [AllNext]_all =>
        [Next]_vars /\ [Logger!Next]_logger_vars /\ [Zones!Next]_zones_vars
            /\ [Reads!Next]_read_vars /\ [Probe!Next]_probe_vars
BY DEF AllNext, all

LEMMA AllStay == AllInv /\ [AllNext]_all => AllInv'
<1> SUFFICES ASSUME AllInv, [AllNext]_all PROVE AllInv'
    OBVIOUS
<1>1. IInv' /\ Reach'
    BY OneStepsAtATime, Stays, StaysInReach DEF AllInv
<1>2. LoggerProofs!IInv' /\ ZonesInv' /\ Reads!IInv' /\ ProbeProofs!IInv'
    BY OneStepsAtATime, LoggerStays, ZonesStay, ReadsStay, ProbeStays DEF AllInv
<1> QED
    BY <1>1, <1>2 DEF AllInv

\* The state of the pools, of both handlers, of the safe read and of the probe is well typed;
\* free_start leaves its pool by at most one untouched object of each thread.
THEOREM AllWellTyped == AllSpec => []AllTyped
<1>1. AllInv => AllTyped
    <2> SUFFICES ASSUME AllInv PROVE AllTyped
        OBVIOUS
    <2>1. TypeOK
        <3>1. AllocEnd - Cardinality(Threads) * MaxAlloc \in Int /\ AllocStart \in Int
            BY ZonesInOrder, OutsideIsFinite, ProductsGrow
        <3> QED
            BY <3>1 DEF AllInv, IInv, Typed, ObjectsInPool, Reach, ReachBounded, TypeOK
    <2>2. Logger!TypeOK
        BY DEF AllInv, LoggerProofs!IInv, Logger!TypeOK, LoggerProofs!TypeOK,
               Logger!Classes, LoggerProofs!Classes, Logger!Slots, LoggerProofs!Slots,
               Logger!Dispositions, LoggerProofs!Dispositions
    <2>3. Probe!TypeOK
        BY DEF AllInv, ProbeProofs!IInv, Probe!TypeOK, ProbeProofs!TypeOK,
               Probe!Entries, ProbeProofs!Entries, Probe!Unwritten, ProbeProofs!Unwritten
    <2> QED
        BY <2>1, <2>2, <2>3 DEF AllInv, ZonesInv, AllTyped
<1> QED
    BY <1>1, AllInitially, AllStay, PTL DEF AllSpec

\* hw07: no assertion of the logger fails, whatever pools come and go.
THEOREM AllAssertionsHold == AllSpec => []AssertionsHold
<1>1. AllInv => AssertionsHold
    BY LoggerProofs!InvariantAsserts
       DEF LoggerProofs!InvariantAsserts, AllInv, AssertionsHold, Logger!AssertionsHold,
           LoggerProofs!AssertionsHold
<1> QED
    BY <1>1, AllInitially, AllStay, PTL DEF AllSpec

\* hw07: once the last pool is gone SIGSEGV is handled as before the first.
THEOREM DispositionComesBack == AllSpec => []DispositionRestored
<1>1. AllInv => DispositionRestored
    BY LoggerAssumed, LoggerProofs!InvariantRestores
       DEF LoggerProofs!InvariantRestores, AllInv, DispositionRestored,
           Logger!DispositionRestored, LoggerProofs!DispositionRestored
<1> QED
    BY <1>1, AllInitially, AllStay, PTL DEF AllSpec

\* hw07 and hw06: the handler reports the depletion of every live pool; in hw06
\* the handlers before it take over only afterwards.
THEOREM EveryDepletionIsReported == AllSpec => []DepletionReported
<1>1. AllInv => DepletionReported
    BY LoggerAssumed, LoggerProofs!InvariantReports
       DEF LoggerProofs!InvariantReports, AllInv, ZonesInv, DepletionReported,
           Logger!DepletionReported, LoggerProofs!DepletionReported, Logger!OwnFault,
           LoggerProofs!OwnFault
<1> QED
    BY <1>1, AllInitially, AllStay, PTL DEF AllSpec

\* hw09: safe_read_uint8t answers with the byte or with nullopt, is never the end of
\* the process, and leaves the dispositions it found, for every pair of them and
\* every fault of the rest of the process between its steps, at the read's own
\* address too; only such a fault that was taken for the read's makes the answer
\* nullopt where there is a byte, or restores an older disposition of SIGBUS.
THEOREM AllReadsAreSafe == AllSpec => []ReadsSafely
<1>1. AllInv => ReadsSafely
    BY InvariantReads DEF AllInv, ReadsSafely
<1> QED
    BY <1>1, AllInitially, AllStay, PTL DEF AllSpec

\* hw09: at every step of a call safe_read_handler leaves every fault of the rest of
\* the process, at any address that neither the read nor, until the target is set,
\* the call before it asks for, to the handler that was there before the call; but
\* for a SIGBUS without one when the address that the handler calls instead is sought.
THEOREM AllOtherFaultsAreHandedOver == AllSpec => []FaultsElsewhereHandedOver
<1>1. AllInv => FaultsElsewhereHandedOver
    BY InvariantHandsOver DEF AllInv, FaultsElsewhereHandedOver
<1> QED
    BY <1>1, AllInitially, AllStay, PTL DEF AllSpec

\* hw01: the loads of a measurement go round the words it linked, the search ends
\* with the smallest array that deviates, and one that was found keeps the last
\* measurements in the array.
THEOREM TheProbeMeasures == AllSpec => []ProbeMeasures
<1>1. AllInv => ProbeMeasures
    <2>1. AllInv => ProbeProofs!ProbeMeasures
        BY ProbeProofs!InvariantMeasures DEF ProbeProofs!InvariantMeasures, AllInv
    <2>2. ProbeProofs!ProbeMeasures => ProbeMeasures
        BY DEF ProbeMeasures,
            Probe!ProbeMeasures, ProbeProofs!ProbeMeasures,
            Probe!MeasuresEverySpot, ProbeProofs!MeasuresEverySpot,
            Probe!SmallestDeviation, ProbeProofs!SmallestDeviation,
            Probe!StaysInArray, ProbeProofs!StaysInArray, Probe!Spots,
            ProbeProofs!Spots, Probe!DeviatingEntries,
            ProbeProofs!DeviatingEntries, Probe!Deviates, ProbeProofs!Deviates,
            Probe!Size, ProbeProofs!Size, Probe!Found, ProbeProofs!Found,
            Probe!Largest, ProbeProofs!Largest, Probe!MAX_STRIDE,
            ProbeProofs!MAX_STRIDE
    <2> QED
        BY <2>1, <2>2
<1> QED
    BY <1>1, AllInitially, AllStay, PTL DEF AllSpec

=============================================================================
