# Formal models of PLVM_homeworks

The repository holds ten homework projects on virtual machines, memory and
concurrency. They share no process: each directory is a program of its own.
This directory keeps TLA+ models of the ones with state worth checking, TLC
runs over small instances, and TLAPS proofs for every instance.

- `tlc -config X.cfg M` runs a configuration; the table of runs below names the
  module of each.
- `tlapm M.tla` checks the proofs of `MemcpyProofs`, `SeqPoolProofs`,
  `DepletionLoggerProofs`, `CacheProbeProofs`, `MCPoolsProofs`, `StrRCProofs`,
  `LamaMachineProofs` and `LamaHeapProofs`, the last in about twenty minutes.
- `PROJECT.json` lists components, runs, the lines of the source every
  definition stands for, mutations of the code that each property detects,
  hazards, findings and theorems.

## Inventory

| Part | State it keeps | Operations | What is hard | What makes it correct | Modelled in |
|---|---|---|---|---|---|
| parallel memcpy service, `src/hw10_parallel_memcpy/test.cpp` | a shared `job`, the atomic `in_progress`, one mutex, one condition variable, a stop flag per worker | constructor, `worker_job`, `parallel_memcpy`, destructor | three waits on one condition variable, unlocked reads of `job`, a destructor that stores the counter without the mutex | workers touch memory only for the job the caller waits for; a call returns with the whole buffer copied; calls and the destructor return | `MemcpyService` |
| concurrent pools, `src/hw07_concurrent_pools/*seq_pool*` | four addresses per pool, a free-running id per pool class | construct, `alloc` (plain or `fetch_sub`), destroy | concurrent allocation without an exhaustion test | objects are disjoint and packed; exhaustion hits the guard pages | `SeqPool` |
| depletion logger, `src/hw07_concurrent_pools/pool_depletion_logger.cpp` | `guard_zones`, `activeZones`, the saved and the installed SIGSEGV handler | `regHandler`, `deregHandler`, `mhandler` | lock-free scan against locked registration, two id spaces in one table, unmapping before deregistration, a handler that rewrites its own installation | a live pool is registered; the handler is installed while a pool is; the original disposition comes back | `DepletionLogger` |
| sequential pool with its handler, `src/hw06_seq_pool` | the same without threads; a zone vector that only grows | construct, `alloc`, destroy, `handler` | a registration flag that is never set | exhaustion is reported, the fault reaches the previous handler | `SeqPoolLogger`, `SeqPool` |
| string reference counting, `src/hw08_str_rc/str_rc.h` | a pointer with a one-bit count per object | constructors, assignments, destructor | aliases left by moves, copies that give up ownership | one owner per buffer, no double free, no read of a freed buffer | `StrRC`, `StringValues` |
| safe byte read, `src/hw09_read_byte/test.cpp` | two saved handlers, `target`, one jump buffer, all static | `safe_read_uint8t`, `safe_read_handler` | jumps out of a handler, other faults between the steps, a target that stays set | the byte or `nullopt`, dispositions restored, other faults reach their handler | `SafeRead` |
| bytecode verifier and its interpreter, `src/hw04_lama_bc_verificator/lamav` | stack depth per instruction, per-function bounds; virtual stack, frames | verify, patch BEGIN, interpret | the interpreter checks nothing: the verifier's depths must be the run's | verified code runs with the depths computed and inside its frame | `LamaVerifier`, `LamaMachine` (in part: no values) |
| bytecode interpreter, `src/hw02_lama_bc_interpeter/lamai` | virtual stack, frames, globals | one operation per bytecode | the ends of the stack, calls, closures, jump targets | no instruction leaves the stack; bad code ends the run with a message | `LamaInterpreter` |
| bytecode analyser, `src/hw03_lama_stat_analysis/lamas` | sizes and entry marks per offset, a histogram, tables of rare idioms | mark, count, sort, print | marks made before or after an instruction is reached, equal hashes, signs that carry meaning | exactly the reachable idioms are counted and printed | `LamaAnalyser` |
| garbage collector, `src/hw0{2,3,4}*/runtime/gc.c` | a heap of headers and forward words, extra roots | `alloc`, mark, compact in three passes, move the heap | a mark queue threaded through the heap, sliding compaction, references into the old mapping | values behave as if nothing were ever moved | `HeapLayout`, `LamaGC`, `LamaHeap`, `LamaStore` |
| Lama runtime library, `src/hw0{2,3,4}*/runtime/runtime.c` | none but the heap | compare, hash, print, tags, patterns, strings, operators, constructors | boxed arithmetic, NULs, hashes that read part of a value, collections inside a function | functions agree with one another; no function holds an unregistered object | `LamaRuntime` (functions), `LamaHeap` (allocation); in part: no C-library calls |
| Lama on Truffle, `src/hw05_lama_graalvm/language` | frames as stacks of scopes, call targets kept in the nodes | execute a tree: definitions, calls, references, `case` | one frame for all activations of a function, names looked up at run time | a name means the innermost declaration; patterns take values apart | `LamaTruffle` (in part) |
| cache probe, `src/hw01_cache_probe/main.c` | an array of links, a table of timings, the best candidate | `test`, `test_line_size`, the search, the loop over line sizes | links that must close, a column read and never written, a candidate nothing replaces | every measurement touches the words it is about and none outside the array; the search finds the smallest array of all that deviate | `CacheProbe` |
| upstream Lama compiler, standard library, tests | - | - | vendored from another repository | - | not modelled |

How the parts interact: in hw10 one client and its workers, through a mutex, a
condition variable and a counter; in hw07 pool threads, the logger they share
and the kernel's signal dispositions; hw06 and hw09 interact with the kernel's
signal delivery alone; hw04's interpreter relies on hw04's verifier; the
interpreters put values on a stack that is the collector's root set and call the
library, whose functions allocate; the analyser and Truffle stand alone.

## Modules and the code

### hw10: `MemcpyService`, `MemcpyProperties`, `ParallelCopy`, `MemcpyProofs`

A step is one access to shared state. `pc` says where each thread is; `mut` is
the holder of the mutex; `in_progress`, `stopped` and `job` are the code's
variables, `task` each worker's copy; `dst` records which bytes of each call's
destination are written; `served` is a history variable, the workers that
counted down for the job.

| Code | Actions |
|---|---|
| constructor | `Spawn`, `Constructed` |
| `worker_job`: loop test, wait for a job, `task_for_worker`, memcpy, count-down, wait for zero | `LoopTest`, `Lock`, `TestIdle`, `SleepIdle`, `ReadJob`, `CopyChunk`, `CountDown`, `TestDone` |
| `parallel_memcpy` | `Call`, `PlainCopy`, `Publish`, `Announce`, `Trap`, `CopyRemainder`, `TestCall`, `Return` |
| destructor | `Destroy`, `RequestStop`, `UnlockStop`, `StoreStop`, `NotifyStop`, `Join` |
| the condition variable | `NotifyAll` inside the notifying step, `SpuriousWakeup` |

What runs under the mutex is split only where another thread accesses the same
variable without it: the destructor stores the counter that way, so testing the
predicate and going to sleep are two steps of the idle wait. `Trap` is the
division by zero of `size % (size / cnt_workers)` when there are fewer bytes
than workers; it ends the process. `ParallelCopy` is the abstract promise: a
call copies all its bytes, in any order, only between call and return.
`MCSequential` has the instance with no workers, where a call is one memcpy.

### hw07 and hw06: `DepletionLogger`, `SeqPool`, `SeqPoolLogger`, `SeqPoolProofs`, `DepletionLoggerProofs`

`DepletionLogger` has threads that each map memory, take an id, register,
deplete the pool, unmap and deregister. A *place* stands for an address range
with its guard zone; the kernel may hand it out again after `munmap`. The
critical sections of `regHandler` and `deregHandler` are two steps each (the
slot, then the signal disposition) because `mhandler` runs without the mutex;
the handler looks at one slot per `Scan` step and hands over in `Chain`. Signal
delivery (`Deplete`, `StrayTouch`) is external.

`SeqPool` has the layout arithmetic and both `alloc`s: `FetchSub`, or `Load` and
`Store` under the benchmark's mutex. `Touch` is the caller's first write, where
exhaustion shows: as a fault when the object starts in the guard zone, as an
overrun below it.

`SeqPoolLogger` is hw06's constructor, destructor and handler in one thread:
`Construct`, `Destroy`, `Touch`, `Scan`, `Chain`. The flag `isHandlerRegistred`
is a constant, because no line sets it. A handler that calls itself without an
`info` argument reads an arbitrary address and loops or overflows the stack:
both are choices of `Chain`.

### hw01: `CacheProbe`, `CacheProbeProofs`

A measurement is one step: it writes the links (`Links`, `LineLinks`) and its
loads follow them (`Chased`, the words reached from `arr`), a million times in
the code and so all of them. `Test` fills the table, `Threshold` computes the
average, `Search` is one entry of the loop that looks for the smallest array,
`BaseLine`, `Line` and `NoLine` time the same array with a second word in each
spot. Times are left out but for one bit an entry: `slow` is any set of entries
that could lie above an average of some of them, the column behind the last one,
which is read and never written, included. Strides are a table, `Stride`, that
doubles. `measured` and `chased` are history variables.

### hw08: `StrRC`, `StringValues`, `StrRCProofs`

An object's word is its halved address and the bit `is_unique`. `Copy`, `Move`,
`AssignStr`, `ConstructEmpty`, `ConstructFromStr`, `reg_free_callback` and
`Destroy` each stand for a whole member function: an assignment's temporary,
swap and destruction are one action, `Settle` being the part they share. The
heap hands out any free address. The client does not use an object it has moved
from until it assigns to it or destroys it. `StringValues` promises a value of
its own to every object; `Value` is the refinement mapping.

### hw09: `SafeRead`

One call of `safe_read_uint8t` at a time: `Call`, `Register` for SIGSEGV and for
SIGBUS, `SetTarget`, `Read`, `Deregister` for each; `Jump`, the `siglongjmp` of
`safe_read_handler`, abandons the read. Between calls `Arrange` gives a signal
another disposition. There is one address of each kind the code tells apart: a
byte, null, 1, a page behind the end of its file, one that is not canonical (for
which the kernel reports null, `si_addr`).
Between any two steps `Fault` may raise either signal anywhere, as the handler of
an unrelated signal could: at the address of the read, of the read before, whose
address `target` keeps, or at another. `DealtWithBy` says what becomes of a fault
under the handlers installed then: the process's own handler, a jump, or the end
of the process. `found`, `former` and `mistaken` are history variables: the
dispositions and the target when the call began, and whether a fault of the rest
of the process was taken for the read's.

### The Lama machines: `LamaVerifier`, `LamaMachine`, `LamaInterpreter`, `LamaInterpreters`, `LamaMachineProofs`, `MCLamaMachine`

`LamaVerifier` makes the verifier's C++ recursion a sequence `pending` of
dispatches still to be made, the next first; `rel_st_size` is `bc_data`, `funs`
the `BcFunction` of each entry. One dispatch is `Visit` (an instruction seen for
the first time), `Skip` (seen, with the same depth) or `Reject`; `Judge` is the
loop of `main` over the functions. `Delta` and `Overflow` are the two tables of
`sm_encoding.h`.

`LamaMachine` adds hw04's interpreter: `ip`, the `height` of the virtual stack,
the frame stack, the closures made. Values are left out; a CALLC may find any
closure made so far that takes as many arguments. `resolve_loc` is the word a
location names, counted from the bottom of the stack. `Written` is the store of a
short at `begin + 2`, `stack_bloating` what BEGIN makes of it.

What is loaded has the shape the compiler gives code, `Compiled`: functions one
after the other, from BEGIN to END and without RET; jumps that stay in their
function; calls with as many arguments as the callee declares; closures of one
function that capture as many values; a main that names no argument. The depths
and the locations are not assumed to be right: to find that out is the verifier's
work. `ProgramsAreCompiled` states it of the constant `Programs`.

`LamaInterpreter` is hw02's interpreter, which trusts nobody: each instruction
is an action over the same state with the checks of `vstack.h` and `MAKE_JUMP`
in the order the code makes them, and a `status` for each way to end. `Pops` and
`Pushes` are what the instructions do to the stack. A CALLC may find any word;
one that is no closure is undefined.

`LamaInterpreters` puts the two machines beside each other: `interpreter` says
which of them runs the program. `Checked` maps hw04's state to hw02's, so that a
step of the one can be compared with the other's. `MCLamaMachine` enumerates
compiled programs; inside that shape the code is arbitrary, most of it wrong.

### The heap: `HeapLayout`, `LamaGC`, `LamaHeap`, `LamaStore`, `MCLamaHeap`, `LamaHeapProofs`

`HeapLayout` is the memory as words: headers with tag and length, forward words
whose low bits are the mark and the queue flag, fields, boxed integers.
`LamaGC` collects: `MarkRoot` enqueues the roots one by one, `Mark` takes an
object from the queue threaded through the forward words, `VisitField` looks at
one field of it and enqueues what that refers to; `ComputeLocation`,
`UpdateReferences`, `FixRoots` and `Relocate` are the passes of the compaction
with `Remap` between them, which may move the heap to any other base, up or down.
Marking advances by a field and every other pass by an object a step, so
the invariants see the heap half marked and half moved.

`LamaHeap` is the program on top of it. A function that allocates is two
actions, the call up to `alloc` and `Return`, because the collection happens
between them: what it keeps in C variables across the call is `native`, and
`extra_roots` is the part of it that is registered. `Barray`, `Bsexp`,
`Bclosure`, `Bstring`, `Lstring`, `Lclone`, `Concat`, `Lsubstring` and
`Cons58` differ in what they keep, register and pop. `CONST`, `LD`, `ST`,
`DROP`, `Belem`, `Bsta`, `LDA` and `StaPlace` read and write without allocating.

`LamaStore` is the specification: objects with an identity, changed by an
assignment only, never moved. `LamaHeap` takes a snapshot of the abstract values
when an operation completes (`view`), and is checked to implement it.

### The runtime library: `LamaRuntime`

The functions of `runtime.c` that compute with values, as operators on values of
finite depth: `Lcompare`, `Lhash`, `LtagHash` and `de_hash`, `stringcat` and
`printValue`, the buffer text is collected in (`createStringBuf`,
`vprintStringBuf`, which doubles it until the text fits), `sprintf` with the
unboxing of its arguments in place (`fix_unboxed`), the patterns, `Belem` and `Bsta`, `Lclone`, `Lsubstring`, and the
operators of the interpreter (`Binop`) and of the library (`Infix`). A word has
`WordSize` bits and every result is boxed and unboxed as the code does, so
integers wrap. Strings are sequences of bytes of `CharBits` bits, which are chars
when they are stored or read (`Char`, `Byte`): what is too large is cut down, and
the upper half comes back negative. NUL ends a string where the code calls `strcmp`,
`strlen` or prints. A printed value is the sequence of characters it is in the
code, quotes and brackets included and nothing escaped, so values that differ may
print alike.

### hw03: `LamaAnalyser`

`MarkPublic` and `Traverse` are `mark_labels` with its stack of offsets; the two
passes are `CountInstruction` and `CountPair`, followed by `BuildHist`, which
sorts and counts equal idioms by hash and bytes, and `PrintFrequent` and
`PrintRare`. The phases of `main` are `Marked`, `Counted`, `Built`, `Printed`.
The signs that tell pairs from single instructions are kept as the code has
them.

### hw05: `LamaTruffle`, `MCTruffle`

The tree of nodes is executed by recursive operators on a machine of cells,
frames, functions and call-node caches: Lama programs are deterministic and have
one thread, so a run is one step (`Run`). `NewFrame` makes a `LamaFrame`, two stacks of scopes shared by
all activations of the function; `dispatch` is the call node that keeps its first
target. Beside it runs what the text means by each name, and
`agrees` records whether the two ever differ.

### Hosts: `MCPools`, `MCPoolsProofs`, `MCSequential`

Components that share nothing are checked in one run when each is small: a
variable `component`, chosen at the start, says which one takes all the steps.
The others keep one initial state, so the state space is the sum of theirs and not the
product. `MCPools` hosts `SeqPool`, `DepletionLogger`, `SeqPoolLogger`,
`SafeRead` and `CacheProbe`, and `MCPoolsProofs` carries the theorems about each
over to it; `MCSequential` hosts the library, the analyser, Truffle and the
service without workers. `MCDepletionLogger` and `MCStrRC` give single
components their constants.

## Runs

Two workers of TLC finish each in under three minutes.

| Run (configuration) | Module | Result | What it shows |
|---|---|---|---|
| `memcpy_service` | `MemcpyProperties` | passes | three workers, two calls, every interleaving: workers read and write only inside the call that announced the job (`QuietOutsideJob`), the counter is exact (`Accounting`), nobody serves a job twice (`OneChunkPerJob`), concurrent copies are for one call and disjoint (`NoOverlap`), a return means all chunks are written (`ReturnedChunksCopied`), the service implements `ParallelCopy` (`ImplementsCopy`), the first call returns (`FirstCallReturns`) |
| `memcpy_remainder` | `MemcpyProperties` | violation | `WholeBufferCopied` fails: see findings |
| `memcpy_second_call` | `MemcpyProperties` | violation | `EveryCallReturns` fails under fairness |
| `memcpy_lost_stop` | `MemcpyProperties` | violation | `IdleWorkersStop` fails under fairness |
| `pools` | `MCPools` | passes | hw07's allocators, two threads past exhaustion: each byte `free_start` has passed was given to exactly one call (`ObjectsTile`), a first touch past the end faults (`ExhaustionFaults`), the four addresses keep their order (`PointersOrdered`); hw07's logger, three threads, quota two: no assertion fails in any order (`AssertionsHold`), the process's own disposition comes back (`DispositionRestored`), a scan that overlaps other registrations finds the live pool, as hw06's handler does (`DepletionReported`); hw09: a read returns what is there and restores the handlers (`ReadsSafely`), every fault at an address that is not sought then reaches the handler it would have reached without the call (`FaultsElsewhereHandedOver`); hw01: loads go round exactly the words they are meant for, the search ends with the smallest array, and the array is left only when no entry deviates (`ProbeMeasures`) |
| `logger_two_classes` | `MCDepletionLogger` | violation | `DepletionReported` fails with one pool of each class |
| `seqpool_logger_recursion` | `SeqPoolLogger` | violation | `HandsOver` fails with two pools |
| `strrc_values` | `MCStrRC` | passes | three objects, three addresses, two strings: one owner per buffer (`OwnersAreUnique`), no dangling read (`NothingDangles`), callbacks hear of every free they asked for and only shared strings and second duplicates stay (`FreesAnnounced`), the class implements `StringValues` (`KeepsValues`) |
| `lama_verified` | `MCLamaMachine` | passes | about 15000 programs. hw04, of which some 2000 are accepted and run: the depth at every instruction is the one verified (`RunsAsVerified`), no instruction takes its caller's words beyond the one or two the tables miss, and every location is a word of the running frame, of its closure or of the globals (`OperandsExist`), verification ends (`VerdictOnAll`), no check hw04 has dropped would have failed where calls leave their results and the stack has room (`ChecksSpared`: every step is a step of hw02's machine). hw02, all programs: the stack is never left by more than the one word its checks miss (`BothTyped`) |
| `heap` | `MCLamaHeap` | passes | programs of any instructions with a collection on nearly every allocation: queue and mark flags mean what the collector takes them for (`FlagsKept`), exactly the reachable objects are marked (`MarksWhatIsReachable`), no move destroys an object still to be moved (`SlidesDown`), a collection makes the room it was asked for (`CollectionMakesRoom`), values behave as if nothing were moved (`ImplementsStore`) |
| `sequential` | `MCSequential` | passes | any two integers compare as they should exactly if their difference is an integer, comparison orders all values whose integers are at most half the range apart, equal values print alike and values with the same strings hash alike (`ValuesOrdered`); tags, strings, stores, patterns and operators agree, a character comes back as a `char`, and texts and formats print the texts of their parts (`LibraryAgrees`); the analyser's report is the count over the whole code (`ReportExact`); names mean what the text says, in programs that declare once what functions use from outside (`NamesResolve`); patterns bind the parts they name (`PatternsTakeApart`); without workers each call copies everything and returns (`PlainCallsCopy`) |
| `lamas_pairs` | `MCSequential` | violation | `PairsBelowZero` fails: see findings |

`TypeOK`, `AllTyped` and `BothTyped` are the type invariants. `AllTyped` includes the
inductive invariant of the safe read, and `MCPools` assumes of the constants of the
logger and of the probe what their theorems assume.

`OperandsExist` has exceptions, `MayReachBelow`: the depth after a CALL or CALLC
is judged by the instruction that follows, which may be an array of nothing, so a
call may take two words more than its function has; S-expressions and arrays
are judged by the depth they leave, and DUP and ST read without popping, one word
each. `ChecksSpared` has conditions for the same reason. A call whose caller has
no words for it, its result included, is accepted by hw04 when the caller makes
good for them afterwards, and refused by hw02 near the bottom of the stack; main
declares two arguments that nobody pushes, which lie among the globals. And the
room on the stack, which hw02 asks for at every push, hw04 asks for in BEGIN
only, where it looks at the wrong bits: an accepted program can recurse past the
end of the stack.

### Bounds

- `memcpy_service`: with three workers a fast and a slow worker exist besides the
  one that notifies; two calls are what a worker left over from one job needs to
  meet the next; the sizes 2, 6 and 7 trap, divide evenly and leave a remainder
  that fits a chunk. `MaxCalls` bounds calls. The proofs have no such bounds.
- `pools`, the allocators: a pool that is no multiple of the page, objects of one
  and two bytes, and one object per thread past the end. The logger: a quota of
  two and three threads reach the full table, a third registration that is
  refused, and a slot that is freed and taken during a scan; `MaxId` 4 lets ids
  and slots part ways. Its threads and places are interchangeable and the
  invariants name none of them, so the symmetry is sound. hw06: three pools, one
  more than the recursion needs. hw09: every kind of address for reads
  and for other faults, every pair of dispositions and every change of them, calls
  one after the other without a bound. hw01: four numbers of
  spots and two strides, with every set of slow entries, the unwritten column
  included: rows with several deviations, with one, with none, and ties.
- `strrc_values`: three objects make an owner, a sharer and a moved-from alias of
  one buffer; three addresses leave an assignment two free ones, or one, or
  none, in which case it is not taken.
- `lama_verified`: two arbitrary instructions after five prefixes, four slots of
  branches, a second function of two arbitrary instructions; `MaxFrames` 3 allows
  recursion once. `MaxVstack` is the code's for hw04; hw02 runs on `SmallStack`
  of five words, so that its limit is met.
- `heap`: `MaxObjects` 3 are alive or garbage in every arrangement a collection
  can find, three being needed for one to slide past the gap of another;
  `MaxStack` 2 roots; `MinimumCapacity` 4 words as in the code, small enough that
  nearly every allocation collects; two bases, so that a collection moves the
  heap up, moves it down or does not. Strings and tags are words that look like addresses.
- `sequential`: a text buffer of 2 characters at first, where the code has 128, so that it
  doubles; words of 8 bits and characters of 6, so that there are integers no
  character holds; tags of two characters of a radix of 4, hashes of
  4 bits, where the code has 32, 8, five of 64, and 22 bits: every pair of integers and of
  names is tried, and every pair of some seventy values of every kind nested past
  `HASH_DEPTH`, with strings that hold a NUL or a negative character.
  Some thousand bytecodes of about ten instructions with a jump, a call, a
  closure or an opcode that does not decode; `rare_thresh` is 2 instead of 15, so that
  frequent idioms fit. 432 recursive programs two to three activations deep with
  nested functions and scopes, and some 18000 values against patterns.

### Stopping and fairness

`CHECK_DEADLOCK FALSE` stands in the configurations whose system may stop: the
process ends by a trap, a fault, a failed assertion or a halt, the client has
destroyed its service or has used up its bounds, a sequential program is done,
the heap has as many objects as its bound. Only the string class never stops,
and its run checks deadlock.

Fairness is assumed in `FairSpec` of `MemcpyService` (a worker, and the client
inside a call or a destructor, runs again if it can: threads of one process with
a blocking mutex; spurious wakeups may happen but not for ever), of the one
client in `MCSequential`, in `SeqPoolLogger` (a handler that was entered goes
on) and in `MCLamaMachine` (the verification goes on: it is one thread that never
waits). No fairness is assumed of the client's decisions to call or to destroy.
Invariants are checked without it.

## Findings

1. `parallel_memcpy` loses bytes: the remainder is `size % (size / cnt_workers)`,
   which is not the number of bytes left when that exceeds a chunk: 5 bytes with
   3 workers leave bytes 3 and 4 uncopied (`memcpy_remainder`).
2. A second call can hang: a worker that has not woken from the wait for zero
   when the next call stores the counter sleeps on and never serves the new job
   (`memcpy_second_call`).
3. The destructor can hang: its store and notification without the mutex fit
   between a worker's predicate and its sleep (`memcpy_lost_stop`).
4. In hw07 both pool classes count ids from 1 and share one table; destroying
   one pool can clear the zone of another (`logger_two_classes`).
5. In hw06 `isHandlerRegistred` is tested and never set; a second pool makes the
   handler its own predecessor (`seqpool_logger_recursion`).
6. In hw03 `build_hist` negates the offset instead of the count of a pair that
   occurs more than `rare_thresh` times, where the comment on the tables
   (`lamas.cpp:324`) says that pairs have values below zero; printing it then
   reads before the code and the program ends (`lamas_pairs`).

Met while modelling, and not the subject of a violation run:

- hw10: fewer bytes than workers divide by zero. A worker that still waits for
  the zero of the last job when the destructor stores the counter is the third
  form of the second finding.
- hw07: the destructor unmaps before it deregisters, so a report may name a pool
  that is being destroyed instead of the new one at its addresses. The header's
  order of the four addresses is broken while an exhausted pool's object is
  untouched. When the objects of all threads together exceed the guard zone, one
  of them may lie below it (the hypothesis of `ExhaustionFaults`).
- hw06: zones outlive their pools; a later fault there is reported as exhaustion.
- hw08: `operator=(const char*)` duplicates twice and loses one copy; a string
  that was ever shared is never freed, the price of a one-bit count.
- hw09: `target` stays set after a call and is set anew only after the handlers
  are installed, so a fault of the rest of the process at the address of the last
  read is taken for the read's own, as is one at the address being read: it does not
  reach the process's handler, and it abandons the read, which then answers
  `nullopt`. Where that happens before SIGBUS is saved, the disposition restored is
  one that an earlier call has saved. The handler calls a saved SIG_DFL or SIG_IGN as
  a function; for a SIGBUS elsewhere that faults at address 0 or 1, and when that
  is the address read the fault is taken for the read's. The static handlers and
  jump buffer allow one call at a time.
- hw02: the bottom of the stack is compared after the pop and the top before
  the push, one word late at the bottom; ALLOC refuses the last word PUSH takes.
  SWAP pops a, then b, and pushes b, then a: the stack stays as it was.
- hw04: the extra stack space is written at bits 8 to 23 of BEGIN's operand and
  read from bits 16 to 31 without a shift, so "Not enough stack size" is reported
  only for 256 words or more, or for a function that never holds as many words as
  it has arguments (a negative difference). S-expressions, arrays, DUP and
  ST may touch one word below the function's own, calls two. The captured values of a
  function are counted at the first CLOSURE only. A CALL's argument count is not
  compared with BEGIN's. RET falls through to the next instruction. `main`
  declares two arguments nobody pushes. The frame stack has no test.
- hw01: when nothing deviates the candidate stays the largest array, and the
  measurement of its line asks for two spots more than the array has. When
  `cache_line` reaches the stride, the second word of each spot is the first of the
  next and the loads stay on one word: the time falls although the comment
  (`main.c:130`) expects it to rise, so the line reported can be twice the
  stride, with 0 sets.
- The collector: `Ls__Infix_58` registers its parameters as roots and then passes
  copies of them to a function that allocates before it reads them (`ReturnStale`);
  the interpreters do not call it. LDA of a captured variable (`lamai.c:382`)
  leaves an address inside an object on the stack; a collection before its use
  takes other words for an object's header, although `gc.c:513` says that the
  queue holds content pointers only. Both end in the phase `undefined`, where
  the model stops and promises nothing.
- The library: `08.standard_library.tex:62` says that `compare` "determines a linear
  order relation for every pairs of values", but `Lcompare` boxes the difference of
  two integers, which loses its highest bit: two integers whose difference is no
  integer, more than half their range apart, compare with the wrong sign, and the
  relation is not transitive. `ValuesOrdered` says so: its first part is exact for
  every pair of integers. A string that holds a NUL is equal to a shorter one with another
  hash, and its clone is the shorter one. A string's element is a `char`: stored
  integers outside of -128 to 127 come back as others, and characters above 127 as
  negative ones. Printing escapes nothing, so an array of one string can print like
  an array of two. `flatCompare` of a boxed value and anything else compares addresses,
  an integer taken for one, so its result is not similar to that of `compare`, which
  the same document says it is (`08.standard_library.tex:66`); `LflatCompare` is
  modelled for integers on the left. Of a tag five characters
  count, and a name that begins with `_` is refused. `fix_unboxed` takes both
  characters of `%%` for arguments and unboxes, in place, words of the caller's stack
  that lie behind them.
- hw05: a name is looked up when it is used, so a scope that is active in the
  caller's frame and declares a name again hides what a function uses from
  outside; `NamesResolve` is checked on programs that declare such names once.
  A pattern of an array matches S-expressions and strings. The step of a `for`
  runs inside the scope of its body. Variables of a scope are defined
  before its functions. `&&` and `!!` evaluate both sides.

## Proofs

All proofs argue from an inductive invariant: it holds initially, every step
keeps it, and it implies the properties. TLC checks the same properties on the
instances above.

`MemcpyProofs`, for any number of workers, sizes and calls. The invariant `IInv`
(defined in `MemcpyProperties`) adds to the properties four facts they do not
contain: a worker that waits for a job has served the last one only if all have
(`ServedTogether`, which is why the client's store of a new count meets nobody
half way); all workers are stopped before the destructor's store
(`StoppedBeforeStore`, which is why the store cannot start a job); the announced
job is the current call's (`JobIsCurrent`); and who counted down has written its
chunk (`CountedChunksCopied`). The steps are proved in three layers, each using
the one before: types, the protocol (`Core`), the data. Established:
`TypeCorrectness`, `CounterIsExact`, `NoWorkOutsideJob`, `WorkersInStep`,
`ChunksCopiedOnReturn`; `CopiesDisjoint`, from arithmetic on the chunks
(`ChunksApart`, `RemainderBehindChunks`); and `Implements`, the refinement of
`ParallelCopy`, where `OwnPartCopied` says that the caller's own part is written
once it waits. `Implements` has the hypothesis `RemaindersFit`, that what is left
over fits in a chunk: without it finding 1 refutes it. Fairness plays no part.
The other assumptions are those of the module: a natural number of workers,
natural sizes, distinct names.

`SeqPoolProofs`, for any threads, page, pool and allocation sizes. A plain
`alloc` is safe because only the thread that holds the caller's mutex is between
its read and its write, and what it read is still `free_start`
(`AllocIsExclusive`); every object lies between `free_start` and the top
(`ObjectsInPool`), and a `free_start` below the pool belongs to an object not yet
touched (`ExhaustionPending`). Established: `NoByteGivenTwice`, `PoolIsPacked`,
`PointersKeepOrder`, `PoolIsTiled`. `ExhaustionIsNoticed` needs how far below the pool an object
can start: at most one largest object for each object past the end that is not
touched yet (`ReachBounded`, by the cardinality of `Outside`), of which each
thread has one. The only assumption about the client is the constructor's
assertion and that threads are finitely many.

`DepletionLoggerProofs`, for any threads, places and number of slots, under the
hypothesis `OneClass`, that all pools are of one class: with two, finding 4
refutes it. Then ids are unique (`IdsTaken`), so that each registered pool has
exactly one slot and each slot a registered pool (`SlotsMatch`); `activeZones` is
the number of slots in use (`Counted`), and with the mutex (`MutexHeld`) this
ties the disposition of SIGSEGV to the count (`HandlerInPlace`). `ScanAhead`
says that a scan for a live pool has not passed the pool's slot: others clear
only their own slots and fill only empty ones. Established: `ZonesAreFound` (no
assertion fails), `HandlerComesAndGoes` (the disposition is restored),
`DepletionsAreReported`. Why the count matters for the last: a pool is live only
with a slot, and a thread about to install the handler has the only slot, so
it is the pool's own thread.

`StrRCProofs`, for any objects, strings and non-zero even addresses. The
invariant says that a unique object is in use, its buffer is allocated and no
other object in use refers to it (`OwnersAlone`), so that a free reaches nobody
else; and that every object in use refers to nothing or to an allocated buffer
(`ReferencesLive`). Established: `TypeCorrectness`, `NoDoubleFree`,
`NoDanglingRead`; `CallbacksHearOfFrees`, by following the callback along with
the ownership (`CallbacksFollow`); and `Implements`: the class implements
`StringValues` under the mapping `Value`, operation by operation.

`CacheProbeProofs`, for any table of two rows and two columns or more; that
strides double is the hypothesis `ProbeConstants`. That following the links
touches every spot is an induction over the spots, put as a least counterexample
(`Least`): the lowest spot not reached would have a predecessor that is
(`ChasedSpots`, `ChasedPairs`). The strides grow with their numbers
(`StridesGrow`), so of each row the first deviation is the smallest, and the
candidate is the smallest of the rows passed (`BestOfPassed`); where an entry
deviates, the candidate has two spots fewer than the array can hold, which is why
the lines measured stay inside it. The invariant: `TypeOK`, `Loops`,
`BestOfPassed`, `MeasuresEverySpot`, `StaysInArray`. Established: `ProbeMeasures`.

`MCPoolsProofs` proves the properties of the run `pools` as they are
stated there, about all five components and any constants. What a component's
own module proves is cited for its instance; hw06's handler is proved about
here: every live pool is in the list it searches, whatever stale zones the list
holds besides (`ZonesKept`). So is the safe read, which has no parameters to
generalise: its model is finite but for the number of calls, and the proof records
why it is right. Its invariant says at each location which of the two handlers is
in place and what is saved (`SegvInPlace`, `BusInPlace`), at the locations a
mistaken jump leads to as well; that `target` is one of the addresses that are
sought (`TargetIsSought`), the last read's until it is set anew; that an abandoned
read is over (`JumpsEndReads`), and what the result is from then on
(`ResultStands`). Other faults go where they should by `FaultsDealtWith` and
`OthersHandedOver`. A component that does not run keeps its initial
state (`AllInv`). Established: `AllWellTyped`, `AllAssertionsHold`,
`DispositionComesBack`, `EveryDepletionIsReported`, `AllReadsAreSafe`,
`AllOtherFaultsAreHandedOver`, `TheProbeMeasures`. The assumptions are those on
the constants in `MCPools`: all pools of the logger are of one class
(`LoggerInstance`), a natural bound on hw06's pools (`PoolsAreBounded`), the
strides (`ProbeInstance`).

`LamaMachineProofs`, for any programs of the compiler's shape
(`ProgramsAreCompiled`), any number of globals and any sizes of the two stacks
that hold them (`GlobalsFit`): hw04's verifier is sound. The invariant has two
halves. `VerifierInv` is about the verification alone: what is still to be
dispatched goes on in a function that was entered, or enters one as the program
allows (`PendingOrderly`); every
successor of an instruction seen is seen with the right depth, or is still to be
dispatched (`Followed`); the record of every function bounds what its
instructions do (`Recorded`); at acceptance nothing is left and no record is
negative (`Judged`). `MachineInv` is about the run of an accepted program: nothing
runs before the verdict (`AtRest`), the bottom frame is main's (`MainFirst`), and
`Tracks`: the instruction to run was seen; every frame but the running one waits
behind a call the verifier has seen, with the words it computed for that call
(`FramesLinked`, what makes a return arrive with the right depth, at any depth of
recursion); every closure made is of a function that was seen
(`ClosuresKnown`); the running function has the words computed for where it is
(`RunsOn`). Established: `VerifierIsSound` (`RunsAsVerified`), `OperandsAreThere`
(`OperandsExist`), and, with hw02's machine and its own invariant (`LamaiInv`)
beside it, `BothWellTyped`: hw02's interpreter leaves its stack by at most one
word. `ChecksAreSpared` (`ChecksSpared`) puts the two together, action by action:
a step of hw04's is the step of hw02's in the same state. Its argument is that no
frame begins under the bottom of the stack: of those that did one would be the
lowest (`Least`), which is not main's, and would lie on a frame that does not
(`BasesStack`, `AllBased`). So the stack holds at least the words the verifier has
counted (`DepthIsThere`), and at an END exactly those the return drops
(`ReturnSpared`).

`LamaHeapProofs`, for any programs of the operations modelled, any heap, any
number of objects and any places mmap and mremap give the chunk, as long as they
are multiples of a word (`HeapAssumption`) and boxed integers are odd
(`WordsAssumption`). The proof speaks of slots, the numbers of words, and not of
addresses: `Tiled` says that objects lie one behind the other, and it is said of
the objects where they are (`ObjectsTile`), of those a pass has still to move
(`ScanSound`) and of the places that are computed for them (`PlacesSound`). The
invariant `IInv` has three groups of parts.

- The program's: every field, stack word and registered variable is an integer
  or refers to an object (`FieldsSound`, `StackSound`, `NativesSound`), in the
  words that the phase has for it: between `Remap` and the end of
  `update_references` fields behind the iterator hold new addresses and the others
  old ones (`FieldWord`, `RootWord`). An address inside an object may lie on the
  stack below the arguments of a call (`Inside`); a collection that meets it ends
  in `undefined`, of which nothing is claimed but that the heap is well formed.
  `CallSound` ties the header of the object to come to what was asked of `alloc`.
- Marking: what is marked or in the queue is reachable, and what a marked object
  refers to is marked, in the queue, or in a field whose turn has not come
  (`MarkSound`, `Pending`); the places of the queue are the objects from the start of the
  heap to the tail, one for each object enqueued, dequeued ones being marked
  (`QueueSound`). That the queue, which has no bound of its own, never runs into
  the end of the heap is a count: it has enqueued each object at most once
  and some object is not enqueued yet (`QueueHasRoom`). When the queue is empty the
  marked objects are closed under references, hence contain the least
  closed set, and are contained in it (`AllReached`).
- Compaction: the places are in the order of the objects, not above them, and end
  where `free_ptr` is (`PlacesSound`); after `Remap` the chunk holds them and the
  request (`RoomSound`). Moving an object down therefore writes below everything
  that has still to be moved (`MovedWords`).

There is one lemma for each action of the collector (`MarkRootKeeps` to
`CompactEndKeeps`), each function that allocates (`BarrayKeeps` to
`LsubstringKeeps`), `Return` and the instructions. Established: `HeapTypes`
(`TypeOK`, the heap iterator's walk included), `FlagsAreKept` (`FlagsKept`),
`ReachableIsMarked` (`MarksWhatIsReachable`), `ObjectsSlideDown` (`SlidesDown`) and
`RoomIsMade` (`CollectionMakesRoom`).

Model-checked only:

- liveness (`FirstCallReturns`, `EveryCallReturns`, `IdleWorkersStop`,
  `HandsOver`, `VerdictOnAll`, `PlainCallsCopy`): fairness and ENABLED are beyond
  the prover;
- that the heap implements `LamaStore` (`ImplementsStore`). The snapshots are
  sequences of values that are chosen by CHOOSE, and the step of each operation
  would have to be matched with the store's on top of the invariant proved here;
- the library, the analyser and Truffle, whose operators are recursive too.

## What is not modelled

- hw01: what the timings are; a time is above the threshold or not, at random.
- The vendored Lama compiler, its standard library and its tests: another
  repository's code, present as a tool.
- Timing and memory statistics of the benchmarks; the contents of copied buffers
  (only which bytes are written); object lifetimes inside `~MemcpyService` after
  its body; torn reads of the saved `sigaction` structure.
- The loading of bytecode files, the reading of operands byte by byte, offsets
  that fall inside an instruction (hw04), and the wording of messages.
- The library's calls of the C library: files, regular expressions, random
  numbers, the clock, scanning, and of the formatted printing everything but
  `sprintf` with its three plainest directives.
- That a collection ends: each pass advances by an object a step and the run has
  no cycle, but no property says so. `__shutdown` and the code under
  `DEBUG_VERSION`.
- hw05: the grammar, string patterns and input, the 32 bits of its integers, and
  what Truffle compiles.

## Plan

What was planned is done except for what is listed above. What would add most:

1. The refinement of `LamaStore` by the collected heap as a theorem: `IInv` of
   `LamaHeapProofs` has what it needs, that every word refers to what it should.
2. A second thread, or a handler, that calls `safe_read_uint8t` during a call.
3. The interpreters with values: `LamaInterpreter` on `LamaHeap`.
