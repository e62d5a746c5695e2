--------------------------- MODULE SeqPoolLogger ---------------------------
(***************************************************************************)
(* The pools of hw06_seq_pool and their SIGSEGV handler, in one thread.    *)
(* Every pool adds its guard zone and installs the handler again, for      *)
(* isHandlerRegistred is never set; no zone is ever removed.  A place      *)
(* stands for a guard zone's addresses, which the kernel may hand out      *)
(* again once the pool is unmapped.                                        *)
(***************************************************************************)
EXTENDS Integers, Sequences, SequencesExt

CONSTANTS
    Places,
    MaxPools,    \* bound: pools constructed
    None

Dispositions == {"default", "ignore", "user", "logger"}

VARIABLES
    pools,         \* the places of the live pools
    guard_zones,
    original,      \* history: the disposition for SIGSEGV at the start
    installed,     \* the process's disposition for SIGSEGV
    prev_handler,
    pc,            \* "client", or where the handler is
    hit,           \* the place that was touched
    reported,      \* did the handler report an exhausted pool
    process        \* "running", or how it ended

sig == <<original, installed, prev_handler>>
vars == <<pools, guard_zones, sig, pc, hit, reported, process>>

isHandlerRegistred == FALSE

WithZone(p) == Append(guard_zones, p)

Construct(p) ==
    /\ pc = "client" /\ Len(guard_zones) < MaxPools
    /\ p \notin pools /\ pools' = pools \cup {p}
    /\ guard_zones' = WithZone(p)
    /\ IF isHandlerRegistred THEN UNCHANGED sig
       ELSE prev_handler' = installed /\ installed' = "logger" /\ UNCHANGED original
    /\ UNCHANGED <<pc, hit, reported, process>>

\* The destructor unmaps the pool and leaves its zone.
Destroy(p) ==
    /\ pc = "client"
    /\ p \in pools /\ pools' = pools \ {p}
    /\ UNCHANGED <<guard_zones, sig, pc, hit, reported, process>>

\* The guard of an exhausted pool, or memory that is not mapped.
Touch(p) ==
    /\ pc = "client"
    /\ hit' = p /\ reported' = FALSE
    /\ IF installed = "logger" THEN pc' = "scan" /\ UNCHANGED process
       ELSE process' = installed /\ UNCHANGED pc
    /\ UNCHANGED <<pools, guard_zones, sig>>

Scan ==
    /\ pc = "scan" /\ pc' = "chain"
    /\ reported' = Contains(guard_zones, hit)
    /\ UNCHANGED <<pools, guard_zones, sig, hit, process>>

\* SIG_DFL is reinstalled and raised; an ignored signal returns to the faulting
\* instruction; any other handler is called with the signal alone.  The logger's
\* own reads an info it was not given, and its calls of itself are a loop where
\* the compiler makes them jumps, or end in an overflow of the stack.
Chain ==
    /\ pc = "chain"
    /\ \/ /\ prev_handler = "default"
          /\ installed' = prev_handler /\ process' = "default"
          /\ UNCHANGED <<pc, hit>>
       \/ /\ prev_handler = "ignore"
          /\ pc' = "scan"
          /\ UNCHANGED <<installed, hit, process>>
       \/ /\ prev_handler = "logger"
          /\ \/ pc' = "scan" /\ hit' \in Places /\ UNCHANGED process
             \/ process' = "default" /\ UNCHANGED <<pc, hit>>
          /\ UNCHANGED installed
       \/ /\ prev_handler = "user"
          /\ process' = "user"
          /\ UNCHANGED <<pc, installed, hit>>
    /\ UNCHANGED <<pools, guard_zones, original, prev_handler, reported>>

Init ==
    /\ pools = {} /\ guard_zones = <<>>
    /\ original \in Dispositions \ {"logger"}
    /\ installed = original /\ prev_handler = "default"
    /\ pc = "client" /\ hit = None /\ reported = FALSE
    /\ process = "running"

Next ==
    /\ process = "running"
    /\ \/ \E p \in Places : Construct(p) \/ Destroy(p) \/ Touch(p)
       \/ Scan \/ Chain

Spec == Init /\ [][Next]_vars /\ WF_vars(process = "running" /\ (Scan \/ Chain))

-----------------------------------------------------------------------------
(* Properties *)

TypeOK ==
    /\ pools \in SUBSET Places
    /\ guard_zones \in Seq(Places) /\ Len(guard_zones) <= MaxPools
    /\ original \in Dispositions \ {"logger"}
    /\ installed \in Dispositions /\ prev_handler \in Dispositions
    /\ pc \in {"client", "scan", "chain"}
    /\ hit \in Places \cup {None} /\ reported \in BOOLEAN
    /\ process \in {"running"} \cup Dispositions

\* The exhaustion of a live pool is reported, whatever pools came and went,
\* before whatever handled SIGSEGV earlier takes over.
ExhaustionReported ==
    /\ pools # {} => installed = "logger" \/ process # "running"
    /\ pc = "chain" /\ hit \in pools => reported

\* The handler hands a fault over to the disposition found before the first
\* pool, unless that ignores it.
HandsOver == pc = "scan" /\ original # "ignore" ~> process = original

=============================================================================
