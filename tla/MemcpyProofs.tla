---------------------------- MODULE MemcpyProofs ----------------------------
(***************************************************************************)
(* Proofs about the thread pool of MemcpyService for any number of         *)
(* workers, any sizes and any number of calls.                             *)
(*                                                                         *)
(* The argument: in_progress counts exactly the workers missing from       *)
(* served, and a worker is back at its first wait only when served is      *)
(* everybody.  So a non-zero counter seen at the first wait means this     *)
(* worker still owes the open job a chunk, and a zero counter seen by the  *)
(* caller means every worker has written its own.                          *)
(***************************************************************************)
EXTENDS MemcpyProperties, FiniteSetTheorems, TLAPS

LEMMA ThreadFacts ==
    /\ Client \in Threads
    /\ Client \notin Workers
    /\ Workers \subseteq Threads /\ Workers \subseteq Nat
    /\ IsFiniteSet(Workers) /\ Cardinality(Workers) = N
  BY WorkerCount, ThreadNames, FS_Interval DEF Workers, Threads

\* The division of a buffer yields natural offsets and lengths.
LEMMA ChunkTypes ==
    ASSUME NEW n \in Nat, NEW w \in Workers
    PROVE  n \div N \in Nat /\ (n \div N) * w \in Nat
  <1>1. N \in Nat \ {0} /\ w \in Nat
    BY WorkerCount DEF Workers
  <1>2. n \div N \in Nat
    BY <1>1
  <1>3. ASSUME NEW q \in Nat, NEW v \in Nat PROVE q * v \in Nat
    BY <1>3
  <1>4. QED
    BY <1>1, <1>2, <1>3

\* Written ranges are sets of offsets, and the caller's own part fits the buffer.
LEMMA BytesNat == ASSUME NEW f \in Nat, NEW l \in Nat PROVE Bytes(f, l) \subseteq Nat
  BY DEF Bytes

LEMMA RemainderTypes ==
    ASSUME NEW n \in Nat, N # 0, n \div N # 0
    PROVE  RemainderLength(n) \in 0 .. n
  <1> DEFINE q == n \div N
  <1>1. q \in Nat \ {0}
    BY WorkerCount
  <1>2. n % q \in 0 .. q - 1
    BY <1>1
  <1>3. q <= n
    BY <1>1, WorkerCount
  <1>4. QED
    BY <1>1, <1>2, <1>3 DEF RemainderLength
\* Counting down takes one worker off the counted set.
LEMMA CountOneDown ==
    ASSUME NEW S \in SUBSET Workers, NEW w \in Workers \ S
    PROVE  /\ Cardinality(Workers \ S) >= 1
           /\ Cardinality(Workers \ (S \cup {w})) = Cardinality(Workers \ S) - 1
           /\ Cardinality(Workers \ S) = 1 => S \cup {w} = Workers
  <1> DEFINE R == Workers \ S
  <1>1. IsFiniteSet(R) /\ w \in R
    BY ThreadFacts, FS_Subset
  <1>2. Workers \ (S \cup {w}) = R \ {w}
    OBVIOUS
  <1>3. Cardinality(R \ {w}) = Cardinality(R) - 1 /\ IsFiniteSet(R \ {w})
    BY <1>1, FS_RemoveElement
  <1>4. Cardinality(R) \in Nat /\ Cardinality(R \ {w}) \in Nat
    BY <1>1, <1>3, FS_CardinalityType
  <1>5. Cardinality(R) = 1 => R \ {w} = {}
    BY <1>3, FS_EmptySet
  <1>6. R \ {w} = {} => S \cup {w} = Workers
    OBVIOUS
  <1>7. QED
    BY <1>2, <1>3, <1>4, <1>5, <1>6

\* The counter is zero only when everybody counted down, N when nobody did.
LEMMA CountBounds ==
    ASSUME NEW S \in SUBSET Workers
    PROVE  /\ Cardinality(Workers \ S) \in 0 .. N
           /\ Cardinality(Workers \ S) = 0 => S = Workers
           /\ Cardinality(Workers \ {}) = N
           /\ Cardinality(Workers \ Workers) = 0
  <1>1. IsFiniteSet(Workers \ S) /\ Cardinality(Workers \ S) <= Cardinality(Workers)
    BY ThreadFacts, FS_Subset
  <1>2. Cardinality(Workers \ S) \in Nat
    BY <1>1, FS_CardinalityType
  <1>3. Cardinality(Workers \ S) \in 0 .. N
    BY <1>1, <1>2, ThreadFacts, WorkerCount
  <1>4. Cardinality(Workers \ S) = 0 => Workers \ S = {}
    BY <1>1, FS_EmptySet
  <1>5. Workers \ S = {} => S = Workers
    OBVIOUS
  <1>6. Workers \ {} = Workers /\ Workers \ Workers = {}
    OBVIOUS
  <1>7. Cardinality(Workers \ {}) = N /\ Cardinality(Workers \ Workers) = 0
    BY <1>6, ThreadFacts, FS_EmptySet
  <1>8. QED
    BY <1>3, <1>4, <1>5, <1>7

-----------------------------------------------------------------------------

LEMMA InitIInv == Init => IInv
  <1> SUFFICES ASSUME Init PROVE IInv
    OBVIOUS
  <1>1. pc \in [Threads -> WorkerStates \cup ClientStates]
    BY DEF Init, WorkerStates, ClientStates
  <1>2. pc[Client] = "ctor" /\ \A w \in Workers : pc[w] = "unborn"
    BY ThreadFacts DEF Init
  <1>3. TypeOK
    BY <1>1, <1>2, WorkerCount, CallBound
       DEF Init, TypeOK, WorkerStates, ClientStates
  <1>4. Accounting
    BY CountBounds DEF Init, Accounting
  <1>5. QED
    BY <1>2, <1>3, <1>4
       DEF Init, IInv, QuietOutsideJob, Busy, OneChunkPerJob, ServedTogether,
           StoppedBeforeStore, JobIsCurrent, JobOpen, InCall, CurrentTask,
           CountedChunksCopied

-----------------------------------------------------------------------------
(* Every step keeps the types. *)

LEMMA NotifyTypes ==
    ASSUME TypeOK, NEW t \in Threads, NEW s, NotifyAll(t, s),
           t = Client => s \in ClientStates, t \in Workers => s \in WorkerStates
    PROVE  /\ pc' \in [Threads -> WorkerStates \cup ClientStates]
           /\ pc'[Client] \in ClientStates
           /\ \A w \in Workers : pc'[w] \in WorkerStates
  <1>1. \A u \in Threads : Woken(pc[u]) \in WorkerStates \cup ClientStates
    BY DEF TypeOK, Woken, WorkerStates, ClientStates
  <1>2. Woken(pc[Client]) \in ClientStates
        /\ \A w \in Workers : Woken(pc[w]) \in WorkerStates
    BY ThreadFacts DEF TypeOK, Woken, WorkerStates, ClientStates
  <1>3. t = Client \/ t \in Workers
    BY DEF Threads
  <1>4. QED
    BY <1>1, <1>2, <1>3, ThreadFacts DEF NotifyAll

LEMMA TypeStep == IInv /\ Next => TypeOK'
  <1> SUFFICES ASSUME IInv, Next PROVE TypeOK'
    OBVIOUS
  <1> USE ThreadFacts, WorkerCount, CallBound
      DEF TypeOK, IInv, Go, data, args, WorkerStates, ClientStates
  <1>1. ASSUME NEW t \in Threads, Lock(t) PROVE TypeOK'
    BY <1>1 DEF Lock, AfterLock, Threads
  <1>2. ASSUME NEW t \in Threads, SpuriousWakeup(t) PROVE TypeOK'
    BY <1>2 DEF SpuriousWakeup, Woken, Threads
  <1>3. ASSUME NEW w \in Workers, LoopTest(w) PROVE TypeOK'
    BY <1>3 DEF LoopTest
  <1>4. ASSUME NEW w \in Workers, TestIdle(w) PROVE TypeOK'
    BY <1>4 DEF TestIdle
  <1>5. ASSUME NEW w \in Workers, SleepIdle(w) PROVE TypeOK'
    BY <1>5 DEF SleepIdle
  <1>6. ASSUME NEW w \in Workers, ReadJob(w) PROVE TypeOK'
    <2>1. job.size \div N \in Nat /\ (job.size \div N) * w \in Nat /\ job.dest \in 0 .. MaxCalls
      BY <1>6, ChunkTypes
    <2>2. TaskForWorker(w, job) \in [dest : 0 .. MaxCalls, from : Nat, len : Nat]
      BY <2>1 DEF TaskForWorker
    <2>3. QED
      BY <1>6, <2>2 DEF ReadJob
  <1>7. ASSUME NEW w \in Workers, CopyChunk(w) PROVE TypeOK'
    <2>1. Bytes(task[w].from, task[w].len) \subseteq Nat
      <3>1. task[w].from \in Nat /\ task[w].len \in Nat
        BY <1>7
      <3>2. QED
        BY <3>1, BytesNat
    <2>2. QED
      BY <1>7, <2>1 DEF CopyChunk
  <1>8. ASSUME NEW w \in Workers, CountDown(w) PROVE TypeOK'
    <2>1. pc[Client] \in {"remainder", "testCall", "waitCall", "relockCall", "trapped"}
          /\ w \notin served
      BY <1>8 DEF CountDown, QuietOutsideJob, OneChunkPerJob, Busy, JobOpen
    <2>2. in_progress >= 1
      <3>1. Cardinality(Workers \ served) >= 1
        BY <2>1, CountOneDown
      <3>2. QED
        BY <2>1, <3>1 DEF Accounting
    <2>3. in_progress' \in 0 .. N
      BY <1>8, <2>2 DEF CountDown
    <2>4. CASE LastWorker
      <3>1. NotifyAll(w, "loop")
        BY <1>8, <2>4 DEF CountDown
      <3>2. QED
        BY <1>8, <2>3, <2>4, <3>1, NotifyTypes DEF CountDown
    <2>5. CASE ~LastWorker
      BY <1>8, <2>3, <2>5 DEF CountDown
    <2>6. QED
      BY <2>4, <2>5
  <1>9. ASSUME NEW w \in Workers, TestDone(w) PROVE TypeOK'
    BY <1>9 DEF TestDone
  <1>10. ASSUME NEW w \in Workers, Spawn(w) PROVE TypeOK'
    BY <1>10 DEF Spawn
  <1>11. CASE Constructed
    BY <1>11 DEF Constructed
  <1>12. CASE PlainCopy
    <2>1. PlainBytes \subseteq Nat
      BY BytesNat DEF PlainBytes
    <2>2. QED
      BY <1>12, <2>1 DEF PlainCopy
  <1>13. CASE Publish
    BY <1>13 DEF Publish, NewJob
  <1>14. CASE Announce
    BY <1>14 DEF Announce, NotifyAll, Woken, AnnouncedCount
  <1>15. CASE Trap
    BY <1>15 DEF Trap
  <1>16. CASE CopyRemainder
    <2>1. pc[Client] = "remainder" /\ N # 0
      BY <1>16 DEF CopyRemainder, JobIsCurrent, InCall
    <2>2. RemainderLength(size) \in 0 .. size /\ size \in Nat
      BY <1>16, <2>1, RemainderTypes DEF CopyRemainder
    <2>3. Remainder(size) \subseteq Nat
      BY <2>2, BytesNat DEF Remainder
    <2>4. QED
      BY <1>16, <2>3 DEF CopyRemainder
  <1>17. CASE TestCall
    BY <1>17 DEF TestCall
  <1>18. CASE Return
    BY <1>18 DEF Return
  <1>19. CASE RequestStop
    BY <1>19 DEF RequestStop
  <1>20. CASE UnlockStop
    BY <1>20 DEF UnlockStop
  <1>21. CASE StoreStop
    BY <1>21 DEF StoreStop
  <1>22. CASE NotifyStop
    BY <1>22 DEF NotifyStop, NotifyAll, Woken, AnnouncedCount
  <1>23. CASE Join
    BY <1>23 DEF Join
  <1>24. CASE Destroy
    BY <1>24 DEF Destroy
  <1>25. ASSUME NEW n \in Sizes, Call(n) PROVE TypeOK'
    BY <1>25, SizesAreSizes DEF Call
  <1>26. QED
    BY <1>1, <1>2, <1>3, <1>4, <1>5, <1>6, <1>7, <1>8, <1>9, <1>10, <1>11, <1>12, <1>13, <1>14, <1>15, <1>16, <1>17, <1>18, <1>19, <1>20, <1>21, <1>22, <1>23, <1>24, <1>25 DEF Next, Worker, ClientRuns

-----------------------------------------------------------------------------
(* Every step keeps the counter exact and the workers in step. *)

Core ==
    /\ Accounting
    /\ QuietOutsideJob
    /\ OneChunkPerJob
    /\ ServedTogether
    /\ StoppedBeforeStore

LEMMA CoreStep == IInv /\ Next => Core'
  <1> SUFFICES ASSUME IInv, Next PROVE Core'
    OBVIOUS
  <1> USE ThreadFacts, WorkerCount
      DEF TypeOK, IInv, Go, data, args, Core, Accounting, QuietOutsideJob,
          OneChunkPerJob, ServedTogether, StoppedBeforeStore, Busy, AwaitsJob,
          JobOpen
  <1>1. ASSUME NEW t \in Threads, Lock(t) PROVE Core'
    BY <1>1 DEF Lock, AfterLock, Threads
  <1>2. ASSUME NEW t \in Threads, SpuriousWakeup(t) PROVE Core'
    BY <1>2 DEF SpuriousWakeup, Woken, Threads
  <1>3. ASSUME NEW w \in Workers, LoopTest(w) PROVE Core'
    BY <1>3 DEF LoopTest
  <1>4. ASSUME NEW w \in Workers, TestIdle(w) PROVE Core'
    <2>1. CASE ~JobAnnounced
      BY <1>4, <2>1 DEF TestIdle, JobAnnounced
    <2>2. CASE JobAnnounced /\ StopRequested(w)
      BY <1>4, <2>2 DEF TestIdle, JobAnnounced
    <2>3. CASE JobAnnounced /\ ~StopRequested(w)
      <3>1. pc[Client] \notin {"notifyStop", "join", "gone"}
        BY <1>4, <2>3 DEF StopRequested, Workers
      <3>2. served # Workers
        BY <2>3, <3>1, CountBounds DEF JobAnnounced
      <3>3. QED
        BY <1>4, <2>3, <3>1, <3>2 DEF TestIdle, JobAnnounced
    <2>4. QED
      BY <2>1, <2>2, <2>3
  <1>5. ASSUME NEW w \in Workers, SleepIdle(w) PROVE Core'
    BY <1>5 DEF SleepIdle
  <1>6. ASSUME NEW w \in Workers, ReadJob(w) PROVE Core'
    BY <1>6 DEF ReadJob
  <1>7. ASSUME NEW w \in Workers, CopyChunk(w) PROVE Core'
    BY <1>7 DEF CopyChunk
  <1>8. ASSUME NEW w \in Workers, CountDown(w) PROVE Core'
    <2>1. /\ JobOpen /\ w \notin served
          /\ served' = served \cup {w} /\ pc[w] = "countDown"
      BY <1>8 DEF CountDown
    <2>2. /\ in_progress' = Cardinality(Workers \ served')
          /\ in_progress = 1 => served' = Workers
      BY <1>8, <2>1, CountOneDown DEF CountDown
    <2>3. CASE LastWorker
      BY <1>8, <2>1, <2>2, <2>3 DEF CountDown, LastWorker, NotifyAll, Woken
    <2>4. CASE ~LastWorker
      BY <1>8, <2>1, <2>2, <2>4 DEF CountDown, LastWorker
    <2>5. QED
      BY <2>3, <2>4
  <1>9. ASSUME NEW w \in Workers, TestDone(w) PROVE Core'
    <2>1. CASE AllDone
      <3>1. pc[Client] \in {"notifyStop", "join", "gone"} \/ served = Workers
        BY <2>1, CountBounds DEF AllDone
      <3>2. QED
        BY <1>9, <2>1, <3>1 DEF TestDone
    <2>2. CASE ~AllDone
      BY <1>9, <2>2 DEF TestDone
    <2>3. QED
      BY <2>1, <2>2
  <1>10. ASSUME NEW w \in Workers, Spawn(w) PROVE Core'
    BY <1>10 DEF Spawn
  <1>11. CASE Constructed
    BY <1>11 DEF Constructed
  <1>12. CASE PlainCopy
    BY <1>12 DEF PlainCopy
  <1>13. CASE Publish
    BY <1>13 DEF Publish
  <1>14. CASE Announce
    BY <1>14, CountBounds DEF Announce, NotifyAll, Woken, AnnouncedCount
  <1>15. CASE Trap
    BY <1>15 DEF Trap
  <1>16. CASE CopyRemainder
    BY <1>16 DEF CopyRemainder
  <1>17. CASE TestCall
    BY <1>17, CountBounds DEF TestCall, AllDone
  <1>18. CASE Return
    BY <1>18 DEF Return
  <1>19. CASE RequestStop
    BY <1>19 DEF RequestStop
  <1>20. CASE UnlockStop
    BY <1>20 DEF UnlockStop
  <1>21. CASE StoreStop
    BY <1>21 DEF StoreStop
  <1>22. CASE NotifyStop
    BY <1>22 DEF NotifyStop, NotifyAll, Woken, AnnouncedCount
  <1>23. CASE Join
    BY <1>23 DEF Join
  <1>24. CASE Destroy
    BY <1>24 DEF Destroy
  <1>25. ASSUME NEW n \in Sizes, Call(n) PROVE Core'
    BY <1>25 DEF Call
  <1>26. QED
    BY <1>1, <1>2, <1>3, <1>4, <1>5, <1>6, <1>7, <1>8, <1>9, <1>10, <1>11, <1>12, <1>13, <1>14, <1>15, <1>16, <1>17, <1>18, <1>19, <1>20, <1>21, <1>22, <1>23, <1>24, <1>25 DEF Next, Worker, ClientRuns

-----------------------------------------------------------------------------
(* Every step keeps the workers on the current job, and what they counted  *)
(* down for written.                                                       *)

Data == JobIsCurrent /\ CurrentTask /\ CountedChunksCopied

LEMMA DataStep == IInv /\ Next => Data'
  <1> SUFFICES ASSUME IInv, Next PROVE Data'
    OBVIOUS
  <1> USE ThreadFacts, WorkerCount, CallBound
      DEF TypeOK, IInv, Go, data, args, Data, QuietOutsideJob, Busy, JobOpen,
          InCall, JobIsCurrent, CurrentTask, CountedChunksCopied
  <1>1. ASSUME NEW t \in Threads, Lock(t) PROVE Data'
    BY <1>1 DEF Lock, AfterLock, Threads, Chunk
  <1>2. ASSUME NEW t \in Threads, SpuriousWakeup(t) PROVE Data'
    BY <1>2 DEF SpuriousWakeup, Woken, Threads, Chunk
  <1>3. ASSUME NEW w \in Workers, LoopTest(w) PROVE Data'
    BY <1>3 DEF LoopTest, Chunk
  <1>4. ASSUME NEW w \in Workers, TestIdle(w) PROVE Data'
    BY <1>4 DEF TestIdle, Chunk
  <1>5. ASSUME NEW w \in Workers, SleepIdle(w) PROVE Data'
    BY <1>5 DEF SleepIdle, Chunk
  <1>6. ASSUME NEW w \in Workers, ReadJob(w) PROVE Data'
    BY <1>6 DEF ReadJob, Chunk
  <1>7. ASSUME NEW w \in Workers, CopyChunk(w) PROVE Data'
    <2>1. task[w].dest = call /\ call \in 1 .. MaxCalls
      BY <1>7 DEF CopyChunk, TaskForWorker
    <2>2. Bytes(task[w].from, task[w].len) = Chunk(w)
      BY <1>7 DEF CopyChunk, TaskForWorker, Chunk
    <2>3. dst'[call] = dst[call] \cup Chunk(w)
      BY <1>7, <2>1, <2>2 DEF CopyChunk
    <2>4. JobIsCurrent' /\ CurrentTask'
      BY <1>7 DEF CopyChunk
    <2>5. CountedChunksCopied'
      BY <1>7, <2>3 DEF CopyChunk, Chunk
    <2>6. QED
      BY <2>4, <2>5
  <1>8. ASSUME NEW w \in Workers, CountDown(w) PROVE Data'
    BY <1>8 DEF CountDown, Chunk, NotifyAll, Woken
  <1>9. ASSUME NEW w \in Workers, TestDone(w) PROVE Data'
    BY <1>9 DEF TestDone, Chunk
  <1>10. ASSUME NEW w \in Workers, Spawn(w) PROVE Data'
    BY <1>10 DEF Spawn, Chunk
  <1>11. CASE Constructed
    BY <1>11 DEF Constructed, Chunk
  <1>12. CASE PlainCopy
    BY <1>12 DEF PlainCopy, Chunk, Workers
  <1>13. CASE Publish
    BY <1>13 DEF Publish, Chunk, NewJob
  <1>14. CASE Announce
    BY <1>14 DEF Announce, Chunk, NotifyAll, Woken
  <1>15. CASE Trap
    BY <1>15 DEF Trap, Chunk
  <1>16. CASE CopyRemainder
    BY <1>16 DEF CopyRemainder, Chunk
  <1>17. CASE TestCall
    BY <1>17 DEF TestCall, Chunk
  <1>18. CASE Return
    BY <1>18 DEF Return, Chunk
  <1>19. CASE RequestStop
    BY <1>19 DEF RequestStop, Chunk
  <1>20. CASE UnlockStop
    BY <1>20 DEF UnlockStop, Chunk
  <1>21. CASE StoreStop
    BY <1>21 DEF StoreStop, Chunk
  <1>22. CASE NotifyStop
    BY <1>22 DEF NotifyStop, Chunk, NotifyAll, Woken
  <1>23. CASE Join
    BY <1>23 DEF Join, Chunk
  <1>24. CASE Destroy
    BY <1>24 DEF Destroy, Chunk
  <1>25. ASSUME NEW n \in Sizes, Call(n) PROVE Data'
    BY <1>25 DEF Call, Chunk
  <1>26. QED
    BY <1>1, <1>2, <1>3, <1>4, <1>5, <1>6, <1>7, <1>8, <1>9, <1>10, <1>11, <1>12, <1>13, <1>14, <1>15, <1>16, <1>17, <1>18, <1>19, <1>20, <1>21, <1>22, <1>23, <1>24, <1>25 DEF Next, Worker, ClientRuns

-----------------------------------------------------------------------------

\* IInv is an inductive invariant of the service.
THEOREM Invariance == Spec => []IInv
  <1>1. IInv /\ UNCHANGED vars => IInv'
    BY DEF vars, data, args, IInv, TypeOK, Accounting, QuietOutsideJob, Busy,
           JobOpen, OneChunkPerJob, ServedTogether, AwaitsJob,
           StoppedBeforeStore, JobIsCurrent, InCall, CurrentTask,
           CountedChunksCopied, Chunk
  <1>2. IInv /\ Next => IInv'
    BY TypeStep, CoreStep, DataStep DEF IInv, Core, Data
  <1>3. QED
    BY InitIInv, <1>1, <1>2, PTL DEF Spec

\* Types, and the counter's range: it never goes below zero nor above N.
THEOREM TypeCorrectness == Spec => []TypeOK
  BY Invariance, PTL DEF IInv

\* in_progress is exactly the number of workers that owe the job a count-down.
THEOREM CounterIsExact == Spec => []Accounting
  BY Invariance, PTL DEF IInv

\* Workers read the job and touch buffers only inside the call that announced
\* them: no data race on job, no write after the return or during destruction.
THEOREM NoWorkOutsideJob == Spec => []QuietOutsideJob
  BY Invariance, PTL DEF IInv

\* No worker serves one job twice, and none serves an older one.
THEOREM WorkersInStep == Spec => [](OneChunkPerJob /\ CurrentTask)
  BY Invariance, PTL DEF IInv

\* A call that returns has every worker's chunk in its destination.
THEOREM ChunksCopiedOnReturn == Spec => []ReturnedChunksCopied
  <1>1. IInv => ReturnedChunksCopied
    BY DEF IInv, ReturnedChunksCopied, ServedTogether, JobOpen,
           CountedChunksCopied, Chunk
  <1>2. QED
    BY Invariance, <1>1, PTL

-----------------------------------------------------------------------------
(* Where the chunks and the remainder lie                                  *)

\* Consecutive multiples of a chunk's length are at least that far apart.
LEMMA MultiplesApart ==
    ASSUME NEW c \in Nat, NEW a \in Nat, NEW b \in Nat, a < b
    PROVE  c * a \in Nat /\ c * b \in Nat /\ c * a + c <= c * b
  <1>1. b - a - 1 \in Nat
    OBVIOUS
  <1>2. c * (b - a - 1) \in Nat
    BY <1>1
  <1>3. c * b = c * a + c + c * (b - a - 1)
    OBVIOUS
  <1>4. c * a \in Nat /\ c * b \in Nat
    OBVIOUS
  <1> QED
    BY <1>2, <1>3, <1>4

\* The workers' chunks fill the buffer up to a multiple of their length.
LEMMA ChunksInBuffer ==
    ASSUME NEW n \in Nat, NEW w \in Workers
    PROVE  /\ n \div N \in Nat /\ (n \div N) * w \in Nat /\ (n \div N) * N \in Nat
           /\ (n \div N) * w + n \div N <= (n \div N) * N
           /\ (n \div N) * N <= n
  <1>1. N \in Nat \ {0} /\ w \in Nat /\ w < N
    BY WorkerCount DEF Workers
  <1>2. n \div N \in Nat /\ n = N * (n \div N) + (n % N) /\ n % N \in 0 .. N - 1
    BY <1>1
  <1> DEFINE c == n \div N
             r == n % N
  <1>3. c \in Nat /\ r \in Nat /\ n = N * c + r
    BY <1>1, <1>2
  <1>4. c * w \in Nat /\ c * N \in Nat /\ c * w + c <= c * N
    BY <1>1, <1>2, MultiplesApart
  <1> HIDE DEF c, r
  <1>5. c * N <= n
    BY <1>1, <1>3
  <1> QED
    BY <1>3, <1>4, <1>5 DEF c

\* No chunk reaches the caller's part.
LEMMA RemainderBehindChunks ==
    ASSUME NEW n \in Nat, N # 0, n \div N # 0
    PROVE  (n \div N) * N <= n - RemainderLength(n)
  <1> DEFINE c == n \div N
             d == n \div c
             m == n % c
  <1>1. N \in Nat \ {0} /\ c \in Nat \ {0} /\ N * c <= n
    BY WorkerCount
  <1>2. d \in Nat /\ m \in 0 .. c - 1 /\ n = c * d + m
    BY <1>1
  <1>3. RemainderLength(n) = m
    BY DEF RemainderLength
  <1> HIDE DEF c, d, m
  <1>4. CASE d < N
    <2>1. c * d + c <= c * N
      BY <1>1, <1>2, <1>4, MultiplesApart
    <2>2. c * d \in Int /\ c * N = N * c /\ c * N \in Int
      BY <1>1, <1>2
    <2> QED
      BY <1>1, <1>2, <2>1, <2>2
  <1>5. CASE d >= N
    <2>1. c * N <= c * d /\ c * N \in Int /\ c * d \in Int
      BY <1>1, <1>2, <1>5, MultiplesApart
    <2> QED
      BY <1>2, <1>3, <2>1 DEF c
  <1> QED
    BY <1>1, <1>2, <1>4, <1>5

\* task_for_worker gives no byte to two workers, nor one of the caller's to a worker.
LEMMA ChunksApart ==
    ASSUME NEW n \in Nat, NEW v \in Workers, NEW w \in Workers
    PROVE  /\ v # w => Bytes((n \div N) * v, n \div N) \cap Bytes((n \div N) * w, n \div N) = {}
           /\ n \div N # 0 => Bytes((n \div N) * w, n \div N) \cap Remainder(n) = {}
  <1> DEFINE c == n \div N
  <1>1. /\ c \in Nat /\ c * v \in Nat /\ c * w \in Nat /\ c * N \in Nat
        /\ c * w + c <= c * N /\ v \in Nat /\ w \in Nat /\ N # 0
    <2>1. c \in Nat /\ c * v \in Nat
      BY ChunksInBuffer
    <2>2. c * w \in Nat /\ c * N \in Nat /\ c * w + c <= c * N
      BY ChunksInBuffer
    <2>3. v \in Nat /\ w \in Nat /\ N # 0
      BY WorkerCount DEF Workers
    <2> QED
      BY <2>1, <2>2, <2>3
  <1>2. v < w => c * v + c <= c * w
    BY <1>1, MultiplesApart
  <1>3. w < v => c * w + c <= c * v
    BY <1>1, MultiplesApart
  <1>4. c # 0 => c * N <= n - RemainderLength(n) /\ RemainderLength(n) \in 0 .. n
    BY <1>1, RemainderBehindChunks, RemainderTypes
  <1> HIDE DEF c
  <1>5. v # w => Bytes(c * v, c) \cap Bytes(c * w, c) = {}
    BY <1>1, <1>2, <1>3 DEF Bytes
  <1>6. c # 0 => Bytes(c * w, c) \cap Remainder(n) = {}
    BY <1>1, <1>4 DEF Bytes, Remainder
  <1> QED
    BY <1>5, <1>6 DEF c

\* Copies that run at the same time never meet: the workers' among themselves and
\* with the caller's own, for any sizes and any number of workers.
THEOREM CopiesDisjoint == Spec => []NoOverlap
  <1>1. ASSUME IInv PROVE NoOverlap
    <2>1. size \in Nat
      BY <1>1 DEF IInv, TypeOK
    <2>2. \A w \in Workers : pc[w] = "copy" =>
              /\ task[w].from = (size \div N) * w
              /\ task[w].len = size \div N
      <3>1. ASSUME NEW w \in Workers, pc[w] = "copy"
            PROVE  task[w] = TaskForWorker(w, [dest |-> call, size |-> size])
        BY <1>1, <3>1 DEF IInv, CurrentTask
      <3>2. \A w \in Workers :
                LET t == TaskForWorker(w, [dest |-> call, size |-> size])
                IN  t.from = (size \div N) * w /\ t.len = size \div N
        BY DEF TaskForWorker
      <3> QED
        BY <3>1, <3>2
    <2> QED
      BY <1>1, <2>1, <2>2, ChunksApart DEF IInv, NoOverlap
  <1> QED
    BY Invariance, <1>1, PTL

-----------------------------------------------------------------------------
(* The service implements ParallelCopy                                     *)

\* What the chunks leave over is less than another chunk: only then does the
\* caller's formula copy all of it.
RemaindersFit == \A n \in Sizes : n \div N # 0 => n % N < n \div N

\* Destinations are written inside the buffer only, and not before their call; the
\* caller has its part written before it waits, or without workers everything.
OwnPartCopied ==
    /\ InCall => size \in Sizes /\ dst[call] \subseteq Bytes(0, size)
    /\ \A c \in 1 .. MaxCalls : c > call => dst[c] = {}
    /\ N = 0 /\ pc[Client] = "returning" => Bytes(0, size) \subseteq dst[call]
    /\ N # 0 /\ pc[Client] \in {"testCall", "waitCall", "relockCall", "returning"} =>
           size \div N # 0 /\ Remainder(size) \subseteq dst[call]

\* With a remainder that fits, the parts make up the buffer.
LEMMA PartsMakeBuffer ==
    ASSUME NEW n \in Nat, N # 0, n \div N # 0, n % N < n \div N,
           NEW D, \A w \in Workers : Bytes((n \div N) * w, n \div N) \subseteq D,
           Remainder(n) \subseteq D
    PROVE  Bytes(0, n) \subseteq D
  <1> DEFINE c == n \div N
             r == n % N
  <1>1. N \in Nat \ {0} /\ c \in Nat \ {0} /\ r \in Nat /\ n = N * c + r /\ r < c
    BY WorkerCount
  <1>2. RemainderLength(n) = n % c
    BY DEF RemainderLength
  <1> HIDE DEF c, r
  <1>3. n % c = r
    <2> DEFINE d == n \div c
               m == n % c
    <2>1. d \in Nat /\ m \in 0 .. c - 1 /\ n = c * d + m
      BY <1>1
    <2> HIDE DEF d, m
    <2>2. c * d \in Int /\ c * N \in Int /\ c * N = N * c
      BY <1>1, <2>1
    <2>3. CASE d < N
      BY <1>1, <2>1, <2>2, <2>3, MultiplesApart
    <2>4. CASE N < d
      BY <1>1, <2>1, <2>2, <2>4, MultiplesApart
    <2>5. CASE d = N
      BY <1>1, <2>1, <2>2, <2>5 DEF m
    <2> QED
      BY <1>1, <2>1, <2>3, <2>4, <2>5
  <1>4. ASSUME NEW b \in Bytes(0, n) PROVE b \in D
    <2>1. b \in Nat /\ b < n
      BY <1>4 DEF Bytes
    <2>2. CASE b < n - r
      <3> DEFINE w == b \div c
                 m == b % c
      <3>1. w \in Nat /\ m \in 0 .. c - 1 /\ b = c * w + m
        BY <1>1, <2>1
      <3> HIDE DEF w, m
      <3>2. c * w \in Nat /\ c * N \in Nat /\ c * N = N * c
        BY <1>1, <3>1
      <3>3. w < N
        <4>1. CASE w >= N
          <5>1. c * N <= c * w
            BY <1>1, <3>1, <3>2, <4>1, MultiplesApart
          <5> QED
            BY <1>1, <2>1, <2>2, <3>1, <3>2, <5>1
        <4> QED
          BY <1>1, <3>1, <4>1
      <3>4. w \in Workers /\ b \in Bytes(c * w, c)
        BY <1>1, <2>1, <3>1, <3>2, <3>3 DEF Workers, Bytes
      <3> QED
        BY <3>4 DEF c
    <2>3. CASE b >= n - r
      BY <1>1, <1>2, <1>3, <2>1, <2>3 DEF Remainder, Bytes
    <2> QED
      BY <1>1, <2>1, <2>2, <2>3
  <1> QED
    BY <1>4

\* A step of a worker or a lock writes no destination and leaves the client in the
\* part of the call it is in.
LEMMA QuietStep ==
    ASSUME OwnPartCopied, UNCHANGED << dst, call, size >>,
           InCall' => InCall,
           pc'[Client] = "returning" =>
               pc[Client] \in {"returning", "testCall"},
           pc'[Client] \in {"testCall", "waitCall", "relockCall"} =>
               pc[Client] \in {"testCall", "waitCall", "relockCall"},
           pc'[Client] = "returning" /\ pc[Client] # "returning" => N # 0
    PROVE  OwnPartCopied'
  BY DEF OwnPartCopied

LEMMA OwnPartStep == IInv /\ OwnPartCopied /\ Next => OwnPartCopied'
  <1> SUFFICES ASSUME IInv, OwnPartCopied, Next PROVE OwnPartCopied'
    OBVIOUS
  <1> USE ThreadFacts DEF Go, data, args
  <1>0. /\ pc \in [Threads -> WorkerStates \cup ClientStates]
        /\ pc[Client] \in ClientStates /\ \A w \in Workers : pc[w] \in WorkerStates
        /\ dst \in [1 .. MaxCalls -> SUBSET Nat] /\ call \in 0 .. MaxCalls
        /\ InCall => call \in 1 .. MaxCalls
        /\ MaxCalls \in Nat
    BY CallBound DEF IInv, TypeOK, JobIsCurrent
  <1>1. ASSUME NEW t \in Threads, Lock(t) PROVE OwnPartCopied'
    BY <1>0, <1>1, QuietStep DEF Lock, AfterLock, Threads, InCall, WorkerStates, ClientStates
  <1>2. ASSUME NEW t \in Threads, SpuriousWakeup(t) PROVE OwnPartCopied'
    BY <1>0, <1>2, QuietStep DEF SpuriousWakeup, Woken, Threads, InCall, WorkerStates, ClientStates
  <1>3. ASSUME NEW w \in Workers,
               LoopTest(w) \/ TestIdle(w) \/ SleepIdle(w) \/ ReadJob(w) \/ TestDone(w) \/ Spawn(w)
        PROVE  OwnPartCopied'
    <2>1. pc'[Client] = pc[Client] /\ UNCHANGED << dst, call, size >>
      BY <1>0, <1>3 DEF LoopTest, TestIdle, SleepIdle, ReadJob, TestDone, Spawn
    <2> QED
      BY <2>1, QuietStep DEF InCall
  <1>4. ASSUME NEW w \in Workers, CopyChunk(w) PROVE OwnPartCopied'
    <2>1. InCall /\ call \in 1 .. MaxCalls /\ size \in Nat
      BY <1>0, <1>4 DEF CopyChunk, IInv, TypeOK, QuietOutsideJob, Busy, JobOpen, InCall
    <2>2. task[w] = TaskForWorker(w, [dest |-> call, size |-> size])
      BY <1>4 DEF CopyChunk, IInv, CurrentTask
    <2>3. task[w].dest = call /\ Bytes(task[w].from, task[w].len) = Chunk(w)
      BY <2>2 DEF TaskForWorker, Chunk
    <2>4. Chunk(w) \subseteq Bytes(0, size)
      <3> DEFINE c == size \div N
      <3>1. /\ c \in Nat /\ c * w \in Nat /\ c * N \in Nat
            /\ c * w + c <= c * N /\ c * N <= size
        BY <2>1, ChunksInBuffer
      <3>2. Chunk(w) = Bytes(c * w, c)
        BY DEF Chunk
      <3> HIDE DEF c
      <3> QED
        BY <2>1, <3>1, <3>2 DEF Bytes
    <2>5. /\ dst' = [dst EXCEPT ![call] = @ \cup Chunk(w)] /\ pc'[Client] = pc[Client]
          /\ UNCHANGED << call, size >>
      BY <1>0, <1>4, <2>3 DEF CopyChunk
    <2> QED
      BY <1>0, <2>1, <2>4, <2>5 DEF OwnPartCopied, InCall
  <1>5. ASSUME NEW w \in Workers, CountDown(w) PROVE OwnPartCopied'
    BY <1>0, <1>5, QuietStep DEF CountDown, NotifyAll, Woken, InCall, ClientStates
  <1>6. CASE Constructed \/ UnlockStop \/ StoreStop \/ Join \/ Destroy \/ RequestStop
    BY <1>0, <1>6, QuietStep
       DEF Constructed, UnlockStop, StoreStop, Join, Destroy, RequestStop, InCall
  <1>7. CASE Announce \/ NotifyStop
    BY <1>0, <1>7, QuietStep DEF Announce, NotifyStop, NotifyAll, InCall
  <1>8. CASE Publish \/ Trap \/ Return
    BY <1>0, <1>8, QuietStep DEF Publish, Trap, Return, InCall
  <1>9. CASE TestCall
    <2>1. N # 0
      BY <1>9 DEF TestCall, IInv, JobIsCurrent, InCall
    <2> QED
      BY <1>0, <1>9, <2>1, QuietStep DEF TestCall, InCall
  <1>10. CASE PlainCopy
    <2>1. /\ N = 0 /\ InCall /\ pc'[Client] = "returning" /\ UNCHANGED << call, size >>
          /\ dst' = [dst EXCEPT ![call] = @ \cup Bytes(0, size)]
      BY <1>0, <1>10 DEF PlainCopy, PlainBytes, InCall
    <2> QED
      BY <1>0, <2>1 DEF OwnPartCopied, InCall
  <1>11. CASE CopyRemainder
    <2>1. /\ InCall /\ pc'[Client] = "testCall" /\ UNCHANGED << call, size >>
          /\ N # 0 /\ size \div N # 0 /\ size \in Nat
          /\ dst' = [dst EXCEPT ![call] = @ \cup Remainder(size)]
      BY <1>0, <1>11 DEF CopyRemainder, InCall, IInv, TypeOK, JobIsCurrent
    <2>2. Remainder(size) \subseteq Bytes(0, size)
      BY <2>1, RemainderTypes DEF Remainder, Bytes
    <2> QED
      BY <1>0, <2>1, <2>2 DEF OwnPartCopied, InCall
  <1>12. ASSUME NEW n \in Sizes, Call(n) PROVE OwnPartCopied'
    BY <1>0, <1>12 DEF Call, OwnPartCopied, InCall
  <1> QED
    BY <1>1, <1>2, <1>3, <1>4, <1>5, <1>6, <1>7, <1>8, <1>9, <1>10, <1>11, <1>12
       DEF Next, Worker, ClientRuns

\* What a call has written when it returns is its whole buffer.
LEMMA ReturnsWhole ==
    ASSUME RemaindersFit, IInv, OwnPartCopied, pc[Client] = "returning"
    PROVE  dst[call] = Bytes(0, size)
  <1>1. InCall /\ size \in Sizes /\ size \in Nat
    BY SizesAreSizes DEF InCall, OwnPartCopied
  <1>2. CASE N = 0
    BY <1>1, <1>2 DEF OwnPartCopied
  <1>3. CASE N # 0
    <2>1. size \div N # 0 /\ size % N < size \div N /\ Remainder(size) \subseteq dst[call]
      BY <1>1, <1>3 DEF OwnPartCopied, RemaindersFit
    <2>2. \A w \in Workers : Bytes((size \div N) * w, size \div N) \subseteq dst[call]
      BY DEF IInv, ServedTogether, JobOpen, CountedChunksCopied, Chunk
    <2> QED
      BY <1>1, <1>3, <2>1, <2>2, PartsMakeBuffer DEF OwnPartCopied
  <1> QED
    BY <1>2, <1>3

\* Whatever the interleaving, the service does what ParallelCopy promises, for
\* every number of workers, on sizes that leave less over than a chunk.
THEOREM Implements == ASSUME RemaindersFit PROVE Spec => ImplementsCopy
  <1>1. Init => OwnPartCopied /\ Promise!Init
    BY ThreadFacts DEF Init, OwnPartCopied, InCall, Promise!Init
  <1>2. IInv /\ OwnPartCopied /\ [Next]_vars => OwnPartCopied'
    BY OwnPartStep DEF vars, data, args, OwnPartCopied, InCall
  <1>3. IInv /\ OwnPartCopied /\ OwnPartCopied' /\ [Next]_vars => [Promise!Next]_(Promise!vars)
    <2> SUFFICES ASSUME IInv, OwnPartCopied, OwnPartCopied', [Next]_vars
                 PROVE  Promise!Next \/ UNCHANGED << InCall, call, size, dst >>
      BY DEF Promise!vars
    <2> USE ThreadFacts DEF Go, data, args
    <2>0. /\ pc \in [Threads -> WorkerStates \cup ClientStates]
          /\ pc[Client] \in ClientStates /\ \A w \in Workers : pc[w] \in WorkerStates
          /\ dst \in [1 .. MaxCalls -> SUBSET Nat] /\ call \in 0 .. MaxCalls
          /\ InCall => call \in 1 .. MaxCalls
          /\ MaxCalls \in Nat /\ size \in Nat
      BY CallBound DEF IInv, TypeOK, JobIsCurrent
    <2>1. ASSUME NEW S, InCall, InCall', S \subseteq dst'[call],
                 dst' = [dst EXCEPT ![call] = @ \cup S], UNCHANGED << call, size >>
          PROVE  Promise!Write
      <3>1. S \in SUBSET (0 .. size - 1)
        BY <2>0, <2>1 DEF OwnPartCopied, Bytes
      <3> QED
        BY <2>1, <3>1 DEF Promise!Write, Promise!Buffer
    <2>2. ASSUME NEW t \in Threads, Lock(t) \/ SpuriousWakeup(t)
          PROVE  UNCHANGED << InCall, call, size, dst >>
      BY <2>0, <2>2 DEF Lock, AfterLock, SpuriousWakeup, Woken, Threads, InCall,
                        WorkerStates, ClientStates
    <2>3. ASSUME NEW w \in Workers,
                 LoopTest(w) \/ TestIdle(w) \/ SleepIdle(w) \/ ReadJob(w) \/ TestDone(w) \/ Spawn(w)
          PROVE  UNCHANGED << InCall, call, size, dst >>
      BY <2>0, <2>3 DEF LoopTest, TestIdle, SleepIdle, ReadJob, TestDone, Spawn, InCall
    <2>4. ASSUME NEW w \in Workers, CopyChunk(w) PROVE Promise!Write
      <3>1. InCall /\ call \in 1 .. MaxCalls
        BY <2>0, <2>4 DEF CopyChunk, IInv, QuietOutsideJob, Busy, JobOpen, InCall
      <3>2. task[w] = TaskForWorker(w, [dest |-> call, size |-> size])
        BY <2>4 DEF CopyChunk, IInv, CurrentTask
      <3>3. task[w].dest = call
        BY <3>2 DEF TaskForWorker
      <3>4. /\ dst' = [dst EXCEPT ![call] = @ \cup Bytes(task[w].from, task[w].len)]
            /\ InCall' /\ UNCHANGED << call, size >>
        BY <2>0, <2>4, <3>1, <3>3 DEF CopyChunk, InCall
      <3>5. Bytes(task[w].from, task[w].len) \subseteq dst'[call]
        BY <2>0, <3>1, <3>4
      <3> QED
        BY <2>1, <3>1, <3>4, <3>5
    <2>5. ASSUME NEW w \in Workers, CountDown(w) PROVE UNCHANGED << InCall, call, size, dst >>
      BY <2>0, <2>5 DEF CountDown, NotifyAll, Woken, InCall, ClientStates
    <2>6. CASE Constructed \/ UnlockStop \/ StoreStop \/ Join \/ Destroy \/ RequestStop
      BY <2>0, <2>6 DEF Constructed, UnlockStop, StoreStop, Join, Destroy, RequestStop, InCall
    <2>7. CASE Announce \/ NotifyStop \/ Publish \/ Trap \/ TestCall
      BY <2>0, <2>7 DEF Announce, NotifyStop, NotifyAll, Publish, Trap, TestCall, InCall
    <2>8. CASE PlainCopy
      <3>1. /\ InCall /\ InCall' /\ call \in 1 .. MaxCalls /\ UNCHANGED << call, size >>
            /\ dst' = [dst EXCEPT ![call] = @ \cup PlainBytes]
        BY <2>0, <2>8 DEF PlainCopy, InCall
      <3>2. PlainBytes \subseteq dst'[call]
        BY <2>0, <3>1
      <3>3. Promise!Write
        BY <2>1, <3>1, <3>2
      <3> QED
        BY <3>3 DEF Promise!Next
    <2>9. CASE CopyRemainder
      <3>1. /\ InCall /\ InCall' /\ call \in 1 .. MaxCalls /\ UNCHANGED << call, size >>
            /\ dst' = [dst EXCEPT ![call] = @ \cup Remainder(size)]
        BY <2>0, <2>9 DEF CopyRemainder, InCall
      <3>2. Remainder(size) \subseteq dst'[call]
        BY <2>0, <3>1
      <3>3. Promise!Write
        BY <2>1, <3>1, <3>2
      <3> QED
        BY <3>3 DEF Promise!Next
    <2>10. CASE Return
      <3>1. InCall /\ (InCall' = FALSE) /\ UNCHANGED << call, size, dst >> /\ pc[Client] = "returning"
        BY <2>0, <2>10 DEF Return, InCall
      <3>2. dst[call] = Bytes(0, size)
        BY <3>1, ReturnsWhole
      <3>3. dst[call] = 0 .. size - 1
        BY <2>0, <3>2 DEF Bytes
      <3> QED
        BY <3>1, <3>3 DEF Promise!Next, Promise!Return, Promise!Buffer
    <2>11. ASSUME NEW n \in Sizes, Call(n) PROVE Promise!Begin(n)
      BY <2>0, <2>11 DEF Call, Promise!Begin, InCall
    <2>12. CASE UNCHANGED vars
      BY <2>12 DEF vars, InCall
    <2> QED
      BY <2>2, <2>3, <2>4, <2>5, <2>6, <2>7, <2>8, <2>9, <2>10, <2>11, <2>12
         DEF Next, Worker, ClientRuns, Promise!Next, InCall
  <1> QED
    BY Invariance, <1>1, <1>2, <1>3, PTL DEF Spec, ImplementsCopy, Promise!Spec

=============================================================================
