--------------------------- MODULE MemcpyService ---------------------------
(***************************************************************************)
(* The thread pool behind parallel_memcpy (hw10_parallel_memcpy/test.cpp): *)
(* N prelaunched workers and one client thread that constructs the         *)
(* service, calls parallel_memcpy any number of times and destroys it.     *)
(* They share one mutex, one condition variable used for three conditions, *)
(* the atomic counter in_progress and the stop flags of the jthreads.      *)
(*                                                                         *)
(* A step is one access to shared state.  What a thread does under the     *)
(* mutex is split where another thread accesses the same variable without  *)
(* it: the destructor stores in_progress, and workers read the job, so.    *)
(***************************************************************************)
EXTENDS Integers, FiniteSets

CONSTANTS
    N,          \* cnt_workers
    Sizes,      \* the sizes the client may ask for
    MaxCalls,   \* bound: number of calls of parallel_memcpy
    Client,     \* the thread that owns the service
    Free        \* no thread holds the mutex

ASSUME WorkerCount == N \in Nat
ASSUME SizesAreSizes == Sizes \subseteq Nat
ASSUME CallBound == MaxCalls \in Nat
ASSUME ThreadNames == Client \notin Nat /\ Free \notin Nat /\ Client # Free

Workers == 0 .. N - 1
Threads == Workers \cup {Client}

VARIABLES
    pc,          \* where each thread is
    mut,         \* the holder of mut, or Free
    in_progress, \* the atomic counter
    stopped,     \* request_stop() was called for the workers 0 .. stopped - 1
    job,         \* the shared Task: the call whose buffers it names, its size
    task,        \* each worker's own Task, computed from job
    call, size,  \* number of calls made so far, the last one's argument
    dst,         \* for each call, the offsets of its destination written so far
    served       \* history: the workers that counted down for the current job

data == <<job, task, dst, served>>
args == <<call, size>>
vars == <<pc, mut, in_progress, stopped, data, args>>

WorkerStates == {"unborn", "loop", "lockIdle", "testIdle", "sleepIdle",
                 "waitIdle", "task", "copy", "lockDone", "countDown",
                 "testDone", "waitDone", "relockDone", "exited"}

ClientStates == {"ctor", "ready", "entry", "publish", "announce", "remainder",
                 "testCall", "waitCall", "relockCall", "returning", "trapped",
                 "dtor", "stopping", "storeStop", "notifyStop", "join", "gone"}

-----------------------------------------------------------------------------
(* How a buffer of n bytes is divided. *)

Bytes(from, len) == from .. from + len - 1

TaskOverlapping(w, j) ==
    [dest |-> j.dest, from |-> (j.size \div N) * w, len |-> j.size \div N + 1]

TaskForWorker(w, j) ==
    [dest |-> j.dest, from |-> (j.size \div N) * w, len |-> j.size \div N]

RemainderLength(n) == n % (n \div N)
RemainderAtFront(n) == Bytes(0, RemainderLength(n))
Remainder(n) == Bytes(n - RemainderLength(n), RemainderLength(n))

-----------------------------------------------------------------------------
(* The mutex and the condition variable.  The waiters are the threads in a *)
(* wait state; a woken thread still has to reacquire the mutex.            *)

Go(t, from, to) == pc[t] = from /\ pc' = [pc EXCEPT ![t] = to]

AfterLock(s) == CASE s = "lockIdle" -> "testIdle"
                  [] s = "lockDone" -> "countDown"
                  [] s = "relockDone" -> "testDone"
                  [] s = "entry" -> "publish"
                  [] s = "relockCall" -> "testCall"
                  [] s = "dtor" -> "stopping"
                  [] OTHER -> s

Woken(s) == CASE s = "waitIdle" -> "lockIdle"
              [] s = "waitDone" -> "relockDone"
              [] s = "waitCall" -> "relockCall"
              [] OTHER -> s

\* Without workers parallel_memcpy never locks.
Lock(t) ==
    /\ AfterLock(pc[t]) # pc[t] /\ (pc[t] = "entry" => N # 0)
    /\ mut = Free /\ mut' = t
    /\ Go(t, pc[t], AfterLock(pc[t]))
    /\ UNCHANGED <<in_progress, stopped, data, args>>

\* cv.wait may return without a notification.
SpuriousWakeup(t) ==
    /\ Woken(pc[t]) # pc[t]
    /\ Go(t, pc[t], Woken(pc[t]))
    /\ UNCHANGED <<mut, in_progress, stopped, data, args>>

\* The predicates the threads wait for, and fetch_sub's test for the last one.
JobAnnouncedIgnored == TRUE
JobAnnounced == in_progress # 0

AllDoneTooEarly == in_progress <= 1
AllDone == in_progress = 0

LastWorkerMissed == in_progress = 0
LastWorker == in_progress = 1

\* Thread t moves to state s and notifies all waiters.
NotifyAll(t, s) ==
    pc' = [u \in Threads |-> IF u = t THEN s ELSE Woken(pc[u])]

-----------------------------------------------------------------------------
(* worker_job *)

StopIgnored(w) == FALSE
StopRequested(w) == w < stopped

LoopTest(w) ==
    /\ Go(w, "loop", IF StopRequested(w) THEN "exited" ELSE "lockIdle")
    /\ UNCHANGED <<mut, in_progress, stopped, data, args>>

\* The wait's predicate and, once it holds, the test of the stop flag.
TestIdle(w) ==
    /\ \/ /\ ~JobAnnounced
          /\ Go(w, "testIdle", "sleepIdle") /\ mut' = mut
       \/ /\ JobAnnounced
          /\ Go(w, "testIdle", IF StopRequested(w) THEN "exited" ELSE "task")
          /\ mut' = Free
    /\ UNCHANGED <<in_progress, stopped, data, args>>

\* Releasing the mutex and becoming a waiter is one step.
SleepIdle(w) ==
    /\ Go(w, "sleepIdle", "waitIdle")
    /\ mut' = Free
    /\ UNCHANGED <<in_progress, stopped, data, args>>

\* The mutex is not held.
ReadJob(w) ==
    /\ Go(w, "task", "copy")
    /\ task' = [task EXCEPT ![w] = TaskForWorker(w, job)]
    /\ UNCHANGED <<mut, in_progress, stopped, job, dst, served, args>>

CopyChunk(w) ==
    /\ Go(w, "copy", "lockDone")
    /\ dst' = [dst EXCEPT ![task[w].dest] =
                              @ \cup Bytes(task[w].from, task[w].len)]
    /\ UNCHANGED <<mut, in_progress, stopped, job, task, served, args>>

\* fetch_sub; the last worker wakes everyone, the others go on to wait.
CountDown(w) ==
    /\ pc[w] = "countDown"
    /\ in_progress' = in_progress - 1
    /\ served' = served \cup {w}
    /\ \/ LastWorker /\ NotifyAll(w, "loop") /\ mut' = Free
       \/ ~LastWorker /\ Go(w, "countDown", "testDone") /\ mut' = mut
    /\ UNCHANGED <<stopped, job, task, dst, args>>

\* Only the mutex's holder can make the predicate true: test and sleep at once.
TestDone(w) ==
    /\ Go(w, "testDone", IF AllDone THEN "loop" ELSE "waitDone")
    /\ mut' = Free
    /\ UNCHANGED <<in_progress, stopped, data, args>>

Worker(w) ==
    \/ Lock(w) \/ LoopTest(w) \/ TestIdle(w) \/ SleepIdle(w) \/ ReadJob(w)
    \/ CopyChunk(w) \/ CountDown(w) \/ TestDone(w)

-----------------------------------------------------------------------------
(* The constructor: a worker runs as soon as it is spawned. *)

Spawn(w) ==
    /\ pc[Client] = "ctor"
    /\ \A v \in Workers : v < w => pc[v] # "unborn"
    /\ Go(w, "unborn", "loop")
    /\ UNCHANGED <<mut, in_progress, stopped, data, args>>

Constructed ==
    /\ \A w \in Workers : pc[w] # "unborn"
    /\ Go(Client, "ctor", "ready")
    /\ UNCHANGED <<mut, in_progress, stopped, data, args>>

-----------------------------------------------------------------------------
(* parallel_memcpy *)

Call(n) ==
    /\ call < MaxCalls
    /\ Go(Client, "ready", "entry")
    /\ call' = call + 1 /\ size' = n
    /\ UNCHANGED <<mut, in_progress, stopped, data>>

PlainBytesShort == Bytes(0, size - 1)
PlainBytes == Bytes(0, size)

PlainCopy ==
    /\ N = 0
    /\ Go(Client, "entry", "returning")
    /\ dst' = [dst EXCEPT ![call] = @ \cup PlainBytes]
    /\ UNCHANGED <<mut, in_progress, stopped, job, task, served, args>>

NewJob == [dest |-> call, size |-> size]

Publish ==
    /\ Go(Client, "publish", "announce")
    /\ job' = NewJob
    /\ UNCHANGED <<mut, in_progress, stopped, task, dst, served, args>>

OneTooFew == N - 1
AnnouncedCount == N

Announce ==
    /\ pc[Client] = "announce" /\ NotifyAll(Client, "remainder")
    /\ in_progress' = AnnouncedCount /\ served' = {}
    /\ UNCHANGED <<mut, stopped, job, task, dst, args>>

\* size % (size / cnt_workers) divides by zero when size < cnt_workers.
Trap ==
    /\ Go(Client, "remainder", "trapped")
    /\ size \div N = 0
    /\ UNCHANGED <<mut, in_progress, stopped, data, args>>

CopyRemainder ==
    /\ Go(Client, "remainder", "testCall")
    /\ size \div N # 0
    /\ dst' = [dst EXCEPT ![call] = @ \cup Remainder(size)]
    /\ UNCHANGED <<mut, in_progress, stopped, job, task, served, args>>

TestCall ==
    /\ Go(Client, "testCall", IF AllDone THEN "returning" ELSE "waitCall")
    /\ mut' = Free
    /\ UNCHANGED <<in_progress, stopped, data, args>>

Return ==
    /\ Go(Client, "returning", "ready")
    /\ UNCHANGED <<mut, in_progress, stopped, data, args>>

-----------------------------------------------------------------------------
(* The destructor.  It stores the counter and notifies without the mutex,  *)
(* then the vector of jthreads joins the workers.                          *)

Destroy ==
    /\ Go(Client, "ready", "dtor")
    /\ UNCHANGED <<mut, in_progress, stopped, data, args>>

RequestStop ==
    /\ pc[Client] = "stopping" /\ stopped < N
    /\ stopped' = stopped + 1
    /\ UNCHANGED <<pc, mut, in_progress, data, args>>

UnlockStop ==
    /\ stopped = N
    /\ Go(Client, "stopping", "storeStop")
    /\ mut' = Free
    /\ UNCHANGED <<in_progress, stopped, data, args>>

StoreStop ==
    /\ Go(Client, "storeStop", "notifyStop")
    /\ in_progress' = N
    /\ UNCHANGED <<mut, stopped, data, args>>

NotifyStop ==
    /\ pc[Client] = "notifyStop" /\ NotifyAll(Client, "join")
    /\ UNCHANGED <<mut, in_progress, stopped, data, args>>

Join ==
    /\ \A w \in Workers : pc[w] = "exited"
    /\ Go(Client, "join", "gone")
    /\ UNCHANGED <<mut, in_progress, stopped, data, args>>

-----------------------------------------------------------------------------

\* job is uninitialised until the first call; no step reads it before that.
Init ==
    /\ pc = [t \in Threads |-> IF t = Client THEN "ctor" ELSE "unborn"]
    /\ mut = Free
    /\ in_progress = 0 /\ served = Workers
    /\ stopped = 0
    /\ job = [dest |-> 0, size |-> 0]
    /\ task = [w \in Workers |-> [dest |-> 0, from |-> 0, len |-> 0]]
    /\ call = 0 /\ size = 0
    /\ dst = [c \in 1 .. MaxCalls |-> {}]

\* The steps the client takes without deciding what to do next.
ClientRuns ==
    \/ (\E w \in Workers : Spawn(w)) \/ Constructed
    \/ Lock(Client) \/ PlainCopy \/ Publish \/ Announce \/ Trap \/ CopyRemainder
    \/ TestCall \/ Return
    \/ RequestStop \/ UnlockStop \/ StoreStop \/ NotifyStop \/ Join

\* A trap ends the process, workers included.
Running == pc[Client] # "trapped"

Next ==
    /\ Running
    /\ \/ \E w \in Workers : Worker(w)
       \/ ClientRuns
       \/ \E n \in Sizes : Call(n)
       \/ Destroy
       \/ \E t \in Threads : SpuriousWakeup(t)

Spec == Init /\ [][Next]_vars

\* The scheduler runs every thread that can run; spurious wakeups may happen
\* but do not go on for ever.
Fairness ==
    /\ \A w \in Workers : WF_vars(Running /\ Worker(w))
    /\ WF_vars(Running /\ ClientRuns)
    /\ <>[][~ \E t \in Threads : SpuriousWakeup(t)]_vars

FairSpec == Spec /\ Fairness

=============================================================================
