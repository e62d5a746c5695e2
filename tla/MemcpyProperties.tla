-------------------------- MODULE MemcpyProperties --------------------------
(***************************************************************************)
(* What the thread pool of MemcpyService guarantees, and what its tests    *)
(* and comments say it guarantees.                                         *)
(***************************************************************************)
EXTENDS MemcpyService

TypeOK ==
    /\ pc \in [Threads -> WorkerStates \cup ClientStates]
    /\ pc[Client] \in ClientStates /\ \A w \in Workers : pc[w] \in WorkerStates
    /\ mut \in Threads \cup {Free}
    /\ in_progress \in 0 .. N
    /\ stopped \in 0 .. N
    /\ job \in [dest : 0 .. MaxCalls, size : Nat]
    /\ task \in [Workers -> [dest : 0 .. MaxCalls, from : Nat, len : Nat]]
    /\ call \in 0 .. MaxCalls /\ size \in Nat
    /\ dst \in [1 .. MaxCalls -> SUBSET Nat]
    /\ served \in SUBSET Workers

\* The worker has taken a job and has not counted down for it yet.
Busy(w) == pc[w] \in {"task", "copy", "lockDone", "countDown"}

\* The client has announced a job and has not seen the counter's zero yet.
JobOpen == pc[Client] \in {"remainder", "testCall", "waitCall", "relockCall",
                           "trapped"}

StopBegun == pc[Client] \in {"dtor", "stopping", "storeStop", "notifyStop",
                             "join", "gone"}

\* No worker reads the shared job or touches a destination buffer unless the
\* client is inside parallel_memcpy with that job announced: not after the call
\* returned, not while the next job is written, not once the destructor runs.
QuietOutsideJob == \A w \in Workers : Busy(w) => JobOpen

\* in_progress is the number of workers that still owe the current job a
\* count-down, whatever mixture of jobs the workers themselves think they serve.
Accounting ==
    pc[Client] \notin {"notifyStop", "join", "gone"} =>
        in_progress = Cardinality(Workers \ served)

\* No worker takes two chunks of one job: the two waits on one condition
\* variable keep a fast worker from lapping a slow one.
OneChunkPerJob == \A w \in Workers : Busy(w) => w \notin served

\* A worker copies for the call the client is in, never for an older one.
CurrentTask ==
    \A w \in Workers :
        pc[w] \in {"copy", "lockDone", "countDown"} =>
            task[w] = TaskForWorker(w, [dest |-> call, size |-> size])

\* memcpy calls that may run at the same time are for the same call and write
\* disjoint ranges.
NoOverlap ==
    /\ CurrentTask
    /\ \A w \in Workers : pc[w] = "copy" =>
          LET mine == Bytes(task[w].from, task[w].len) IN
          /\ \A v \in Workers \ {w} :
                 pc[v] = "copy" => mine \cap Bytes(task[v].from, task[v].len) = {}
          /\ (pc[Client] = "remainder" /\ size \div N # 0) =>
                 mine \cap Remainder(size) = {}

\* When parallel_memcpy returns, every worker's chunk has been written.
ReturnedChunksCopied ==
    pc[Client] = "returning" =>
        \A w \in Workers : Bytes((size \div N) * w, size \div N) \subseteq dst[call]

\* task_for_worker's comment: each worker copies size / cnt_workers bytes, the
\* main thread copies the remaining part, so that a call that returns has
\* written the whole buffer.
WholeBufferCopied ==
    pc[Client] = "returning" => Bytes(0, size) \subseteq dst[call]

\* The first call after the construction returns, if there is a byte for each
\* worker.
FirstCallReturns ==
    (pc[Client] = "entry" /\ call = 1 /\ size >= N) ~> (pc[Client] = "returning")

\* Every call of parallel_memcpy returns.
EveryCallReturns == (pc[Client] = "entry") ~> (pc[Client] = "returning")

\* A worker asleep for its next job leaves when the destructor stops it.
IdleWorkersStop ==
    \A w \in Workers : (StopBegun /\ pc[w] = "waitIdle") ~> (pc[w] = "exited")

-----------------------------------------------------------------------------

InCall == pc[Client] \in {"entry", "publish", "announce", "remainder",
                          "testCall", "waitCall", "relockCall", "returning",
                          "trapped"}

Promise == INSTANCE ParallelCopy WITH open <- InCall

\* On sizes whose remainder fits a chunk, a call of parallel_memcpy behaves as
\* one copy of the whole buffer, confined to the time between call and return.
ImplementsCopy == Promise!Spec

-----------------------------------------------------------------------------
(* The parts of the inductive invariant that are not properties above.     *)

Chunk(w) == Bytes((size \div N) * w, size \div N)

AwaitsJob(w) == pc[w] \in {"unborn", "loop", "lockIdle", "testIdle",
                           "sleepIdle", "waitIdle"}

\* A worker comes back for its next job only when all workers served the last.
ServedTogether ==
    /\ ~JobOpen => served = Workers
    /\ \A w \in Workers : AwaitsJob(w) /\ w \in served => served = Workers

\* The destructor stores the counter after it has stopped every worker.
StoppedBeforeStore ==
    pc[Client] \in {"storeStop", "notifyStop", "join", "gone"} => stopped = N

\* The announced job is the current call's.
JobIsCurrent ==
    /\ InCall => call >= 1
    /\ InCall /\ pc[Client] \notin {"entry", "returning"} => N # 0
    /\ JobOpen \/ pc[Client] = "announce" => job = [dest |-> call, size |-> size]

\* Who counted down, or is about to, has written its chunk.
CountedChunksCopied ==
    JobOpen \/ pc[Client] = "returning" =>
        \A w \in Workers :
            w \in served \/ pc[w] \in {"lockDone", "countDown"} =>
                Chunk(w) \subseteq dst[call]

IInv ==
    /\ TypeOK
    /\ Accounting
    /\ QuietOutsideJob
    /\ OneChunkPerJob
    /\ ServedTogether
    /\ StoppedBeforeStore
    /\ JobIsCurrent
    /\ CurrentTask
    /\ CountedChunksCopied

=============================================================================
