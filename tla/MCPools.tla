------------------------------- MODULE MCPools -------------------------------
(***************************************************************************)
(* Instances of the small components for TLC: SeqPool, the depletion       *)
(* logger of hw07 and the one of hw06, the safe read of hw09 and the cache *)
(* probe of hw01.  They share no state: one of them, chosen at the start,  *)
(* takes all the steps, and the others stay as they began.                 *)
(***************************************************************************)
EXTENDS SeqPool, TLC

CONSTANTS
    LoggerThreads, Quota, Places, MaxId, Originals, MaxPools, None,
    MAX_ASSOC, Bits, Stride

VARIABLES
    component,
    logger_pc, logger_pool, logger_mapped, logger_nextId, logger_zones,
    logger_activeZones, logger_mut, logger_original, logger_installed,
    logger_prev, logger_hit, logger_cursor, logger_reported, logger_process,
    zones_pools, zones_guard_zones, zones_original, zones_installed,
    zones_prev_handler, zones_pc, zones_hit, zones_reported, zones_process,
    read_pc, read_address, read_result, read_target, read_prev,
    read_disposition, read_found, read_former, read_mistaken, read_process,
    probe_pc, probe_spots, probe_idx_bit, probe_slow, probe_candidate,
    probe_cache_line, probe_measured, probe_chased

OneClass == [t \in LoggerThreads |-> "SeqPool"]

Logger == INSTANCE DepletionLogger WITH
    Threads <- LoggerThreads, ClassOf <- OneClass,
    pc <- logger_pc, pool <- logger_pool, mapped <- logger_mapped,
    nextId <- logger_nextId, zones <- logger_zones,
    activeZones <- logger_activeZones, mut <- logger_mut,
    original <- logger_original, installed <- logger_installed,
    prev <- logger_prev, hit <- logger_hit, cursor <- logger_cursor,
    reported <- logger_reported, process <- logger_process

Zones == INSTANCE SeqPoolLogger WITH
    pools <- zones_pools, guard_zones <- zones_guard_zones,
    original <- zones_original, installed <- zones_installed,
    prev_handler <- zones_prev_handler, pc <- zones_pc, hit <- zones_hit,
    reported <- zones_reported, process <- zones_process

Reads == INSTANCE SafeRead WITH
    pc <- read_pc, address <- read_address, result <- read_result,
    target <- read_target, prev <- read_prev, disposition <- read_disposition,
    found <- read_found, former <- read_former, mistaken <- read_mistaken,
    process <- read_process

Probe == INSTANCE CacheProbe WITH
    pc <- probe_pc, spots <- probe_spots, idx_bit <- probe_idx_bit,
    slow <- probe_slow, candidate <- probe_candidate,
    cache_line <- probe_cache_line, measured <- probe_measured, chased <- probe_chased

\* What the theorems about the logger assume holds of this instance.
ASSUME PoolsAreBounded == MaxPools \in Nat

ASSUME LoggerInstance == Logger!LoggerConstants /\ Logger!OneClass

ASSUME ProbeInstance == Probe!ProbeConstants

logger_vars == <<
    logger_pc, logger_pool, logger_mapped, logger_nextId, logger_zones,
    logger_activeZones, logger_mut, logger_original, logger_installed,
    logger_prev, logger_hit, logger_cursor, logger_reported, logger_process >>
zones_vars == <<
    zones_pools, zones_guard_zones, zones_original, zones_installed,
    zones_prev_handler, zones_pc, zones_hit, zones_reported, zones_process >>
read_vars == <<
    read_pc, read_address, read_result, read_target, read_prev,
    read_disposition, read_found, read_former, read_mistaken, read_process >>
probe_vars == <<
    probe_pc, probe_spots, probe_idx_bit, probe_slow, probe_candidate,
    probe_cache_line, probe_measured, probe_chased >>
all == << component, vars, logger_vars, zones_vars, read_vars, probe_vars >>

\* The components that stay as they began do so in one of their initial states.
AllInit ==
    /\ component \in {"pools", "logger", "zones", "reads", "probe"}
    /\ Init /\ (component # "pools" => lockFree)
    /\ Logger!Init /\ (component # "logger" => logger_original = "default")
    /\ Zones!Init /\ (component # "zones" => zones_original = "default")
    /\ Reads!Init
    /\ component # "reads" => read_found = [sig \in Reads!Signals |-> "default"]
    /\ Probe!Init

AllNext ==
    /\ UNCHANGED component
    /\ \/ /\ component = "pools" /\ Next
          /\ UNCHANGED << logger_vars, zones_vars, read_vars, probe_vars >>
       \/ /\ component = "logger" /\ Logger!Next
          /\ UNCHANGED << vars, zones_vars, read_vars, probe_vars >>
       \/ /\ component = "zones" /\ Zones!Next
          /\ UNCHANGED << vars, logger_vars, read_vars, probe_vars >>
       \/ /\ component = "reads" /\ Reads!Next
          /\ UNCHANGED << vars, logger_vars, zones_vars, probe_vars >>
       \/ /\ component = "probe" /\ Probe!Next
          /\ UNCHANGED << vars, logger_vars, zones_vars, read_vars >>

AllSpec == AllInit /\ [][AllNext]_all

\* 1 << idx_bit.
Shifts == << 2, 4, 8 >>

\* The logger's threads are of one class and interchangeable, as places are.
Interchangeable == Permutations(LoggerThreads) \cup Permutations(Places)

-----------------------------------------------------------------------------
(* The properties of the instances *)

\* The state of all five is well typed, and each step of a read finds the
\* dispositions that the steps before it left.
AllTyped == TypeOK /\ Logger!TypeOK /\ Zones!TypeOK /\ Reads!IInv /\ Probe!TypeOK

\* hw07: deregHandler finds its pool, regHandler finds an empty slot.
AssertionsHold == Logger!AssertionsHold

\* hw07: without a registered pool SIGSEGV is handled as before the first.
DispositionRestored == Logger!DispositionRestored

\* The depletion of a live pool is reported: in hw07 whatever other threads
\* register meanwhile, in hw06 before the old handler takes over.
DepletionReported == Logger!DepletionReported /\ Zones!ExhaustionReported

\* hw09: a call returns the byte that is there, or nullopt, and leaves the
\* process's handlers as it found them, when no fault of the rest of the process
\* was taken for the read's.
ReadsSafely == Reads!ReadsSafely

\* hw09: faults at other addresses than the read's, and the last one's until the
\* target is set anew, reach the handlers that were there before the call.
FaultsElsewhereHandedOver == Reads!FaultsElsewhereHandedOver

\* hw01: each measurement touches the words it is about and stays in the array if
\* anything was found, and the search finds the smallest array that deviates.
ProbeMeasures == Probe!ProbeMeasures

=============================================================================
