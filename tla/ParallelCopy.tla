---------------------------- MODULE ParallelCopy ----------------------------
(***************************************************************************)
(* What parallel_memcpy promises its caller, without threads: a call is    *)
(* open from its start to its return, destination bytes are written only   *)
(* while the call is open and only inside the buffer, and the call returns *)
(* when the whole buffer has been written.                                 *)
(***************************************************************************)
EXTENDS Integers

CONSTANTS Sizes, MaxCalls

VARIABLES
    open,   \* a call is in progress
    call,   \* number of calls made so far
    size,   \* the size argument of the last call
    dst     \* for each call, the offsets of its destination written so far

vars == <<open, call, size, dst>>

Buffer == 0 .. size - 1

Init ==
    /\ open = FALSE
    /\ call = 0
    /\ size = 0
    /\ dst = [c \in 1 .. MaxCalls |-> {}]

Begin(n) ==
    /\ ~open
    /\ call < MaxCalls
    /\ open' = TRUE
    /\ call' = call + 1
    /\ size' = n
    /\ UNCHANGED dst

Write ==
    /\ open
    /\ \E S \in SUBSET Buffer : dst' = [dst EXCEPT ![call] = @ \cup S]
    /\ UNCHANGED <<open, call, size>>

Return ==
    /\ open
    /\ dst[call] = Buffer
    /\ open' = FALSE
    /\ UNCHANGED <<call, size, dst>>

Next == (\E n \in Sizes : Begin(n)) \/ Write \/ Return

Spec == Init /\ [][Next]_vars

=============================================================================
