# Halide-to-Hardware in TLA+

Halide-to-Hardware is a Halide compiler with back ends for hardware
accelerators.  Three kinds of behaviour in it are hard to test, and these are
what is modelled here:

* the **runtime** that the compiler links into every pipeline is concurrent:
  locks, condition variables, a task scheduler, a result cache, tracing;
* the **device buffers** move between host and devices by dirty bits that the
  compiler sets and reads ahead of time, without seeing the run;
* the **accelerator** that the hardware back end generates is a network of processes
  joined by bounded FIFOs, cut out of the pipeline by window arithmetic.

`PROJECT.json` maps every definition to the lines it stands for.  Paths below
are relative to `src/src/runtime/` unless they begin with `src/`.

## 1. The parts of the system

| part | state it keeps | operations | what makes it correct | here |
|---|---|---|---|---|
| **word_lock** (`synchronization_common.h:213-444`) | one word: lock bit, queue lock bit, pointer to a list of nodes on the stacks of waiting threads | `lock`, `unlock`, `lock_full`, `unlock_full` | exclusion; one thread processes the list; no node lost, listed twice, or used after its frame is gone; every waiter gets the lock | WordLock |
| **parking lot, fast_mutex, fast_cond** (`synchronization_common.h:446-1070`) | a hash table of buckets, each a word_lock and a chain of nodes of several addresses; a mutex word; a condition word that names a mutex | `park`, `unpark_one`, `unpark_requeue`, `lock`, `unlock`, `wait`, `signal`, `broadcast` | words agree with queues; no lost wakeup although a notifier need not hold the mutex; no deadlock of two-bucket operations; together a monitor | FastSync, Monitor |
| **thread pool** (`thread_pool_common.h`) | job stack, A and B team, counters of sleepers and reserved threads, work records in the callers' frames, semaphores | `do_par_for`, `do_parallel_tasks`, `semaphore_*`, `set_num_threads`, `shutdown_thread_pool`, the worker loop | every iteration of a successful call runs once; serial tasks in order; a call outlives the work on its record; every call returns | ThreadPool |
| **spawning, joining, thread_parker** (`posix_threads.cpp`) | a mutex, a condition and `should_park` per parker | `spawn`, `join`, `park`, `unpark_start/unpark/unpark_finish` | the unparker may use the parker until `unpark_finish` | WordLock, ThreadPool |
| **async producers, folding** (`src/src/AsyncProducers.cpp`, `StorageFolding.cpp`) | in the generated program: a data and a folding semaphore | lowering | the producer's lead is at most the fold | programs of MCThreadPool |
| **memoization cache** (`cache.cpp`, `src/src/Memoization.cpp`) | hash table and LRU list of entries with in-use counts, a size limit, headers of host blocks | lookup, store, release, set_size, cleanup, prune | table, list and size agree; what a pipeline holds is not freed; each key once; nothing leaks | MemoCache, Memo |
| **device interface** (`device_interface.cpp`, `device_buffer_utils.h`) and what CUDA and OpenCL do to a buffer | dirty bits, device handle and interface of each buffer, reference counts of modules | malloc, free, copy to host and device, `buffer_copy`, wrap, detach, crop | the newest content is where the bits say; no memory leaked; a module stays loaded while a buffer needs it | DeviceInterface, DeviceBuffer |
| **host/device copies** (`src/src/InjectHostDevBufferCopies.cpp`) | what is known of a buffer at compile time: two dirty flags, an allocation, its device | `do_copies` for each leaf, `union_with` after an if, allocation, free after the last use | every leaf finds the newest content; knowledge is true on every path; no injected call is refused | HostDevCopies |
| **tracing** (`tracing.cpp`) | a packet buffer with a cursor and an overage under a shared/exclusive spin lock, the file | `halide_trace`, acquire, release, flush, open, close | packets whole, once, parents first; an end of a pipeline is flushed; no thread stuck | Trace |
| **hardware extraction** (`src/src/ExtractHWKernelDAG.cpp`, `StreamOpt.cpp`) | a DAG of kernels with stencil windows, steps, store bounds; streams, line buffers, dispatchers | `BuildDAGForFunction`, `merge_consumer_stencils`, `transform_kernel`, ... | each kernel finds the pixels the algorithm reads at its local coordinates | HWKernelDAG, LineBuffer |
| **HLS back end** (`src/src/CodeGen_VHLS_Base.cpp`, `src/apps/hardware_benchmarks/hw_support/Linebuffer.h`) | a dataflow region: rings of lines, windows of registers, FIFOs | kernel loops, `Linebuffer1D/2D`, `dispatch_stream`, `subimage_to_stream`, `stream_to_subimage` | windows as the reference line buffer's; TLAST once; nothing deadlocks | LineBuffer |
| fake thread pool (`fake_thread_pool.cpp`) | none | runs tasks in place | - | - |
| other GPU runtimes, contexts and kernels (`metal.cpp`, ...) | driver objects | driver calls | - | only their effect on buffers |
| profiler (`profiler*.cpp`) | lock-free state sampled by a thread | start, sample, stop | samples attributed to live pipelines | - |
| Hexagon runtime (`hexagon_*.cpp`, `qurt_*.cpp`) | DMA and cache pools, remote sessions | allocate, release | an engine or a block is used once | - |
| `hashmap.h` | the cache's table for other values | like `cache.cpp` | like `cache.cpp` | - |
| parallel tasks in code generation (`src/src/CodeGen_LLVM.cpp`) | task arrays with `min_threads`, `serial`, semaphores | `get_parallel_tasks`, `do_parallel_tasks` | reserved threads suffice | shape of the programs of MCThreadPool |
| bounds, intervals, modulus-remainder, simplifier | none: functions on expressions | transfer functions | soundness | - |
| front end and other passes | schedule and IR | lowering | same program | - |
| CoreIR and Clockwork back ends, host code generators | - | printing | - | - |
| applications, tests, tools, bindings | - | - | - | - |

How they interact.  Generated code calls `halide_do_par_for` and
`halide_do_parallel_tasks`; the pool protects its state with one `halide_mutex`
and sleeps on three `halide_cond`s; these are `fast_mutex` and `fast_cond`, which
sleep in the parking lot; each bucket of the parking lot is guarded by a
`word_lock`; that one sleeps on a `thread_parker`.  The bodies of tasks call back
into the pool and release semaphores that other tasks wait for *without* the
pool's mutex.  The cache and the device interface have a mutex each, tracing a spin
lock of its own.  The copies pass emits calls of the device interface.  The
extraction passes hand the HLS generator the windows and offsets from which the
line buffers and dispatchers are instantiated.

What is hard in it: a lock-free word that several threads update with weak
compare-and-swaps; nodes and work records in the stack frame of a thread that may
leave; a wakeup decided on a value that is stale by the time it is used; a notifier
without the mutex; chains that hold nodes of several addresses; owners of jobs that
help with other jobs; failures that must reach the owner of a sibling; a cache
entry evicted between the header that names it and the lock; an upload that
fails after the bits were changed; compile-time knowledge merged over the
cases of an if; a cursor that has moved past the end for requests that failed;
reconvergent streams with FIFOs that are too short; index arithmetic at
the borders of a window.  `PROJECT.json` lists them under `hazards`, each at its line.

## 2. The modules

```
ThreadPool   uses mutexes and conditions as Monitor describes them; proofs: ThreadPoolProofs
   |
Monitor      abstract specification
   ^ implemented by (PROPERTY Implements)
FastSync     uses a bucket's lock as a lock; proofs: FastSyncProofs
   |
WordLock     the lock of a bucket; proofs: WordLockProofs

Memo         abstract specification          DeviceBuffer    HostDevCopies
   ^ implemented by (Implements)                     \          /
MemoCache    proofs: MemoCacheProofs               DeviceInterface

Trace        its lock and its packets:        HWKernelDAG <- LineBuffer
             TraceProofs                      its windows: PassProofs

DeviceBufferProofs -> DeviceBuffer      PassProofs -> HostDevCopies
        \                                    /
         \-> DeviceInterfaceProofs <--------/   -> DeviceInterface
```

The `MC` modules give the constants their values for TLC.

### WordLock (MCWordLock, WordLockProofs)

The word is a record of two bits and a pointer.  A node is named by the thread on
whose stack it lives and is re-created with each queueing.  Every atomic
operation on the word is an action: `Lock` (the fast path), `LockFull`,
`TryAcquire`, `Spin`, `Enqueue`, `Unparked`, `Unlock`, `UnlockFull`, `GrabQueue`,
`Walk` (one node per step), `Rewalk`, `LeaveToHolder`, `PopLast`, `PopTail`,
`UnparkStart`, `Unpark`, `UnparkFinish`.  A weak compare-and-swap fails
nondeterministically.  The parker's mutex is `holds`: the woken thread cannot
return from `park()` between `unpark_start` and `unpark_finish`.

### FastSync (MCFastSync, FastSyncProofs) and Monitor

Every access to a mutex or condition word and every acquisition of a bucket's
lock is an action; what is done under the bucket's lock belongs to the action that
releases it.  A bucket is what it is in the code: `head`, `tail`, the nodes' `next`
and their `sleep_address`; `TakeOne` (`unpark_one`) and `Requeue`
(`unpark_requeue`) walk the chain past the nodes of other addresses and unlink
with `prev`.  `Chain(b)` is the walk along the pointers, `Queued(a)` who waits for `a`
in it and `Queue(a)` the same in the order of the chain, `Walk` the loop of `unpark_requeue`.  `Hash` places the addresses in buckets.  `Calls` says which calls a
thread may make: `lock`, `wait`, `signal` and `broadcast`, the last two with or
without the mutex, as the pool uses them.  The callbacks (`validate`,
`before_sleep`, `unpark`, `requeue_callback`) keep the names of the code.  The parker's
three calls are one step here; WordLock takes them apart.

`Monitor` is what callers of `halide_mutex_*` and `halide_cond_*` rely on: one
holder; `wait` queues its caller before the mutex is given up; a wait ends only
after a notification; `signal` releases the one that has waited longest.  The
refinement mapping computes holder, waiters and status from program counters and
chains.

### ThreadPool (MCThreadPool, ThreadPoolProofs)

A program is data: groups of tasks as generated code passes them
to `halide_do_parallel_tasks`, and what each iteration does (release a
semaphore, call a nested group).  `MCThreadPool` writes the programs in the shape
in which `CodeGen_LLVM` and `AsyncProducers` emit them.

| code | actions |
|---|---|
| `halide_do_parallel_tasks`, `halide_do_par_for`, `enqueue_work_already_locked` | `CallGroup`, `CallEmpty`, `CallNested` (`Prepared` is the array of jobs, `Enqueue` the push and the waking) |
| head of `worker_thread_already_locked` | `WorkerStart`, `WorkerExit`, `Joined`, `AbandonJob`, `InheritFailure`, `StartScan` |
| the search, `make_runnable` | `PassOver`, `Claim` |
| sleeping and waking | `SleepOwner`, `SleepWorker`, `WakeOwner`, `WakeWorker` |
| the run without the mutex | `ClaimMore`, `RunBatch`, `EndIteration`, `Fail` |
| back under the mutex | `Finish` |
| `halide_semaphore_release` | `Release`, `ReleaseWake` |
| `halide_set_num_threads`, `halide_shutdown_thread_pool`, `reset` | `SetNumThreads`, `Shutdown`, `Reset` |

`stack[t]` is the thread's stack of scheduler frames: an owner that helps runs
other tasks on top of its own wait, and those may call the scheduler again.
`make_runnable` keeps what it acquired when a later semaphore fails
(`next_semaphore`), as the code does.  Critical sections are single steps except
for the scan, whose tries on semaphores interleave with releases.

### MemoCache (MCMemoCache, MemoCacheProofs) and Memo

Entries and host blocks are addresses, `malloc` returns the lowest free one, so
memory is reused at once.  The table's chains, both directions of the LRU list and
the blocks' headers are modelled as pointers.

| code | actions |
|---|---|
| `halide_memoization_cache_lookup` | `LookupHit`, `LookupMiss` (allocates the tuple, or fails part of the way) |
| `halide_memoization_cache_store`, `prune_cache` | `Store`, then `PruneSkip` / `PruneEvict` for each candidate, then `StoreEntry`, or `StoreFails` if the entry cannot be allocated |
| `halide_memoization_cache_release` | `ReadHeader` without the lock, `ReleaseShared` with it; `ReleaseOwn` for a block without an entry |
| `halide_memoization_cache_set_size`, `_cleanup` | `SetSize`, `SetSizeReturns`, `Cleanup` |
| the generated pipeline (`Memoization.cpp`) | its order of calls; `Computed`, `Fail` |

`Memo` is the promise: a set of cached keys; a lookup hits exactly when its key is
there; what somebody shares is not evicted; a key is inserted by one of those who
missed it.

### DeviceInterface, DeviceBuffer (MCDeviceBuffer, DeviceInterfaceProofs, DeviceBufferProofs)

Each function of the C API is an operator from a machine state to the set of its
outcomes: every driver call may fail, and calls are chained as the code chains them
(`Then`, `Finally`), so that what a failure half way leaves behind is what the code
leaves behind.  Content is abstracted to *freshness*: which of a buffer's
memories hold what was last written.  `DeviceBuffer` is a program that keeps to the
rules of `HalideRuntime.h` and makes any sequence of calls on two buffers and two
interfaces: `WriteHost`, `RunKernel`, and one action per API function.

### HostDevCopies (MCHostDevCopies, PassProofs)

The pass and the program it produces in one state machine.  A behaviour is one
execution of one program: `RunLeaf` chooses any leaf (what it touches, writes, and
passes to extern stages), computes the flags of `do_copies` (`needs_copy_to_device`,
`needs_device_flip`, `needs_host_dirty`, ... with the names of the code), runs the
injected prologue, the leaf and the epilogue on `DeviceInterface`, and updates
`state`, the pass's knowledge.  `EnterIf`, `WalkOther` and `LeaveIf` walk an
if: one case runs, the pass also walks the other, and `union_with` merges.
`AllocateBoth` and `End` are the kinds of allocation and their destructors.

### Trace (MCTrace, TraceProofs)

`Trace`, `GetTraceFile`, `PrintText` are `halide_default_trace` up to the
packet; `AcquireShared`, `ClaimSpace`, `AddOverage`, `BackOut`, `WritePacket`,
`ReleasePacket` are `acquire_packet` and `release_packet`, one action per atomic
operation; `RequestExclusive`, `TakeExclusive`, `WriteOut`, `Reset`,
`ReleaseExclusive` are `flush`; `ShutDown` is `halide_shutdown_trace` at exit.
Words of the buffer hold the id of their event, so that a torn or overwritten packet
shows.  `event[id].after` records which calls had returned when the call was made.

### HWKernelDAG (PassProofs), LineBuffer (MCLineBuffer)

`HWKernelDAG` is the window arithmetic of `BuildDAGForFunction` as recursive
functions: from the output to the inputs, the window, step and store bound of
every kernel and the offset and window of each consumer (`extract_stencil_specs`,
`merge_consumer_stencils`).  `LineBuffer` runs the design: kernels (`ReadInput`,
`WriteStencil`), the stages of a line buffer (`StageReads`, `StageWrites`: a shift
register, or a ring of lines in front of one), dispatchers (`DispatcherReads`,
`DispatcherWrites`), the host's `stream_to_subimage`.  Every FIFO blocks when it is
empty or full.  A kernel iterates in the dimensions that have a scan loop, but a dispatcher
counts windows in all of them; `Finishes` says that both come to their end.  A stencil carries the coordinates of its pixels in place of
values, so that a misplaced pixel shows at once.

## 3. The runs

| run | instance | distinct states | what it shows |
|---|---|---|---|
| `word_lock` | 3 threads, one of them three times, spin budget 2 | 118,092 | `TypeOK`, `MutualExclusion`, `QueueExclusion`, `WaitersConserved`, and `Termination` under fairness |
| `fast_sync_safety` | 3 threads, any 2 calls each, mutex and condition in one bucket | 430,099 | `Consistent`: one holder, the lock bit is set exactly while there is one, parked bit and condition word agree with the queues; `QueueServed`: whoever sleeps on a mutex has somebody who will wake a thread; `Implements`: the monitor |
| `fast_sync_live` | 4 threads, 2 mutexes, 2 conditions in crossed buckets, signals and broadcasts | 54,134 | `NodesConserved`: the surgery on shared chains loses nobody; `Settles`: broadcasts in opposite directions do not deadlock, who is notified comes back |
| `thread_pool_async` | 2 callers, up to 3 workers: a folded asynchronous stage, a parallel loop that may fail, shutdown and a new start | 266,120 | `Consistent`, `CallOutlivesJobs`, `SerialOrder`, `ExactlyOnce`, `FoldRespected`, `ReleaseWakes` |
| `thread_pool_nested` | a parallel loop of two iterations, each with an asynchronous stage, that may fail; `set_num_threads`; a loop over nothing | 26,615 | `AbandonedJobQueued`, `CallsReturn` |
| `memo_cache` | 2 pipelines, 3 keys of which two collide and one is larger, 3 entries, tuples of two, 6 operations | 588,413 | `CacheValid`, `HeldBuffers`, `NoBlockLost`, `Implements` |
| `device_buffer` | 2 buffers, 2 interfaces, 2 allocations, 1 native handle | 35,106 | `RefsExact`, `BitsTruthful`, `NoLeak`, `CopiesArrive` |
| `host_dev_copies` | every program of at most 3 leaves and one if on one buffer and 2 devices | 37,044 | `TouchesCurrent`, `NeverRefused`, `StateSound`, `NotBothDirty`, `Released` |
| `trace` | 3 threads, 3 events, packets of one and two words in a buffer of two | 182,419 | `LockExcludes`, `PacketsWhole`, `ParentsFirst`, `Durable`, `CallsReturn` |
| `line_buffer` | six pipelines: a chain of two stencils, a reconvergent pair, windows of different sizes and places, half resolution in two dimensions, one column, an input that is one window | 15,584 | `OperandsRight`, `AsReference`, `OutputRight`, `Finishes` |
| `memo_cache_lru` | as `memo_cache` | - | counterexample to `ValidFromLRU` (section 6) |
| `dispatch_phase` | one pipeline at half resolution | - | counterexample to `OperandsRight` (section 6) |

Bounds and why they are enough.  *Locks*: three threads are the least with which
one holds a lock, one queues and one unlocks or notifies; in the word lock the
third also makes the list long enough for the walk, a stale tail and a push during
the walk; a thread that comes back re-uses its node at the same address; a spin budget of 2 lets a
thread spin once, give up and queue, more repeats the same step.  Two calls per thread let a
condition change hands between two waits.  Four threads with two mutexes are the
least for two broadcasts that need the same buckets in opposite roles.  No run lets a
condition go to another mutex while a broadcast of it is on the way (an instance that does
takes TLC several minutes); `WordsTruthful` and `LotImplementsMonitor` cover it for any number of mutexes.
*Pool*: a fold of one element and two iterations make a producer wait for room; two
callers are needed for every race between pipelines; two iterations of the
outer loop reserve threads twice.  *Cache*: two pipelines can miss the same key
together, share an entry, and evict under each other; three keys in two buckets
give a chain of two and an entry that displaces two others; limits 0, 2 and 4 evict
all, some and none; six operations (`OPS`) are a race on one key followed by an
eviction and a lookup of it.  *Devices*: two interfaces are what a copy
between devices needs; buffers have no counters, so that every sequence of calls is
covered (the state space is finite without a bound except for `MAX_REFS`, the
references a failed crop leaks).  *Copies pass*: knowledge has 3 x 3 x 3 x 3
values and three leaves reach all that the walk can reach; the third leaf checks
what two others, one of them in an if, left behind.  *Tracing*: three threads let one
flush, one have claimed and one fail to claim; packets of one and two words
in two leave room for one, none, or too little.  *Hardware*: blocks of two to four
pixels are the least that scan more than one window in each dimension; loops of one
iteration give the line buffer that only collects.

`CHECK_DEADLOCK FALSE` is set where the system may stop: programs that end
(`memo_cache`, `device_buffer`, `host_dev_copies`, `trace`, `line_buffer`), and
`thread_pool_async`, where the put-back race of section 6 can leave an owner asleep
(the safety properties hold on the way there).  The word lock, FastSync and the
nested pool have a step for being done, and their deadlocks are checked.

Fairness.  The operating system suspends no thread for ever: weak fairness of each
thread's steps.  A weak compare-and-swap whose failure only repeats a loop does
not fail spuriously for ever: strong fairness of the *successful* outcome, only on
loops where no other thread need make progress.  In ThreadPool a thread that
waits for the pool's mutex is served (strong fairness), which is `Settles` of FastSync
under finitely many competing calls; nothing is assumed about failures of
iterations, about which worker is spawned, or about who finds a job.  In LineBuffer
weak fairness of the whole region is enough: the processes of a dataflow region run
always, and every step is progress.

Each property of a passing run is also tested against a plausible slip of the
code, written next to the operator it replaces ("Slip: ..."); `PROJECT.json`
names them under `mutants`.

## 4. What is proved

**`WordLockProofs`**, for every set of threads, spin budget and number of rounds:

* `TypeCorrect`: `Spec => []TypeOK`.  Not a formality: `node[tail]` and
  `node[current]` are followed by `unlock_full`, and the type of the
  stored value holds only if these pointers are never null.
* `Exclusive`: `Spec => []MutualExclusion`.
* `QueueExclusive`: `Spec => []QueueExclusion`.
* `WaitersKept`: `Spec => []WaitersConserved`.

Assumptions: the threads are finitely many and `NULL` is not one of them; the two numbers are naturals.

The properties are not inductive by themselves.  `IInv` adds
(`LockInv`) whoever is in the critical section has set the lock bit, so that
a successful compare-and-swap from a word without it excludes everybody;
(`QueueInv`) whoever walks has set the queue lock bit, the bit implies a non-empty
list, and whoever is about to set it expects it clear; (`WalkInv`) every node
that can be reached was pushed, hence has a successor or knows the tail, so
the walk never steps to null.  One lemma per part shows that every action keeps
it, with one step per action; `Inductive` puts them together.

`WaitersKept` needs a second invariant, `ListInv`.  Its nodes `q[a] .. q[b]` are numbered
in the order in which they were pushed, so that neither a push (`b` grows) nor a wakeup
(`a` grows) renumbers the others.  `Row` says that they are distinct and wait (`Shape`), that the first node from the
head that knows a tail, `q[d]`, is right about it (`Tails`), which nodes are linked
back (`Prevs`: those before `q[d]`, and those the walk from `q[h]` has passed until
`q[k]`), and that the one thread at work on the list has these nodes in its locals
(`Walker`).  From `q[h]` on no node is linked back.  So once the walk is done (`h = d`), the oldest
node has no `prev` exactly when the walk started at it; if the head is still the same
it is then the only one, which is what `PopLast` relies on, and `PopTail` finds in `prev` the node pushed
after it, whatever was pushed meanwhile.  A successful compare-and-swap compares
only the head: it stands for the whole list because the nodes are distinct and none of them can
leave while the queue is locked.  `Parkers` follows a node that was cut off to its `unpark_finish`:
the parker's mutex is what keeps the frame alive in the last step.  The lemmas `Row...` are
the surgery (push, walk, cut, empty), `ListKept` has a step per action, and `ListedIs`
shows that the walk `Path` along the pointers, a recursive function, visits exactly `q[b]` down to `q[a]`.

**`FastSyncProofs`**, for every finite set of threads, disjoint sets of mutexes and conditions,
hash function, spin budget and set of calls:

* `WordsTruthful`: `Spec => []Consistent`;
* `NoLostWakeup`: `Spec => []QueueServed`;
* `NoNodeLost`: `Spec => []NodesConserved`;
* `LotImplementsMonitor`: `Spec => Implements`, the refinement of `Monitor`;
* `Excludes` and `BitIsHolder`: the two conjuncts of `Consistent`, `MutualExclusion` and
  `LockBit`, that need nothing of the chains.

The argument has five layers, each an invariant on top of the one before.

1. `Inv`: exclusion.  The word has three kinds of writers: who wants the mutex, who holds it
   (and stores without comparing in `mutex_parking_control_unpark`), and broadcasts.
   A step stays, takes or frees (`Stays`, `Takes`, `Frees`); the parked bit may change in any of them.
   `LockBit` makes it inductive: without it a plain store could free somebody else's mutex.
2. `LotInv`: nodes.  Each bucket is a list (`AllLinked`) of exactly the threads whose node waits for
   one of its addresses; a queued node's owner sleeps; a node that was taken out belongs to one
   waker (`Sleepers`); between two steps under a bucket's lock its owner still has it (`Seated`).
   The first sections of the module have the operations on lists: `ParkLinks`,
   `UnlinkLinks`, and `RequeueLinks` for the loop of `unpark_requeue`, whose invariant
   (`Looped`) says what has been kept, cut out and strung together after any number of
   iterations, and which ends with two lists joined, in one bucket or in two.
   `Chain` and `Walk` are recursive functions; what they compute follows
   from a least counterexample (`Smallest`), as the induction theorems cannot be used.
3. `Words`: the words and those who sleep.  `ParkedBit` and `CondWord` are stated for unlocked buckets,
   but broadcast changes words while it holds two buckets, in three steps, and a mutex can
   be freed between them.  So `Words` says what holds then: the waiters of a cleared
   word are those that the broadcast is about to move (`Named`, `Emptied`), and a mutex that
   `make_parked_if_locked` found held stays held and marked until the queue has moved (`Marks`),
   because the parked bit sends its holder to the bucket that the broadcast has locked.
4. `Served`: no lost wakeup.  Whoever queues has seen the lock bit under the bucket's lock, so somebody
   holds the mutex (`ParkServes`); who frees it with a compare-and-swap leaves nobody
   (`UnlockServes`); who frees it with the store takes one thread along (`TakesServe`), which
   then wants the mutex, holds it, or is itself about to wake a thread that does (`UnparkServes`);
   a broadcast wakes one of those it moves, or relies on `Marks` (`RequeueServes`).
5. `Lined`: the order of waiting, for the refinement.  What the monitor sees of a condition is the
   sequence of its nodes in the order of their chain.  Removing a node or moving the nodes of an
   address keeps who is `Ahead` of whom among the rest (`Orderly`, in the lemmas on the lists), and `park()` comes
   behind all others.  So each condition has such a sequence (`InLine`) before and after a step, longer
   by one at the end, shorter by the first, or the same; two of them are equal
   (`LineOnce`), so it is the one that `Queue` chooses.  `TurnMaps` then maps the steps that change
   only who holds what and where a thread is; `WaitValidateMaps`, `SignalTakeMaps` and
   `BroadcastValidateMaps` are the three that write a condition's word: `StartWait`, `Notify` and
   `NotifyAll`, or nothing that the monitor sees.  A thread that comes back from `park()` is queued nowhere
   (`Sleepers`), so its wait ends only after a notification.

TLC checked each of the first four layers as an invariant of the runs `fast_sync_safety` and `fast_sync_live` before it
was proved, and the refinement itself on `fast_sync_safety`.  The proofs assume what the module does: `NULL` is neither a thread nor an address, the threads
are finitely many, mutexes and conditions have different addresses.

**`ThreadPoolProofs`**, for any callers, workers, tasks, groups, semaphores, bodies and extents of the
tasks and programs of the callers, and any number of threads asked for:

* `CallsOutliveJobs`: `Spec => []CallOutlivesJobs`;
* `SerialJobsInOrder`: `Spec => []SerialOrder`;
* `IterationsOnce`: `Spec => []ExactlyOnce`;
* `AbandonedJobsQueued`: `Spec => []AbandonedJobQueued`;
* `FoldsRespected`: `Spec => []FoldRespected`;
* `ReleasesWake`: `UnitAcquires` gives `Spec => ReleaseWakes`.

They assume what the module does: callers, workers and `NULL` differ, each body has its iterations
(`ProgramAssumption`), a semaphore starts with a natural number (`InitialAssumption`), a group is called at one place and a task is in one group
(`OnceAssumption`), which is how records get their names, and only the last task of a group may be empty
(`EmptyAssumption`; section 6, 6).  Iterations may fail, semaphores be short and jobs be put back
in any way.

The inductive invariant is `Right`, in four layers.

1. `Shape`: what the stacks of frames look like.  Below the run of a task is the loop of
   `worker_thread_already_locked` that took it, a run that is not on top is in its body, since it made
   a nested call, and a worker's lowest loop owns nothing.  A frame is named by its place, a thread and a height, and a step
   edits the top frame, pushes one or pops one (`Edits`, `Pushes`, `Pops`), so `RunsOf` and
   `LoopsOf` keep their places, or gain or lose the top one.  That leaves a few kinds of steps:
   `Idles` and `Proceeds` change no record, the others are `Claims`, `Finishes`, `Enqueues` and `Returns`.
2. `JobRight`: where a job is and who runs it.  `active_workers` is the number of runs (`Counted`); a job is on the stack of jobs exactly
   while it has iterations that nobody took, but a serial one leaves with the thread that runs it
   (`Placed`).  The runs of a parallel job have taken different iterations below `min`
   (`ParallelRight`); a serial one has one run at most, which goes on from `min` (`SerialRight`).  That is what makes a
   put-back safe: the job returns with `min` behind the iterations that have run.
3. `Joins`: the call of a group joins its tasks in order, and while a task is running the call has a
   frame.  Together with `Counted` this is `CallsOutliveJobs`: the owner's
   `while (running)` cannot end while a thread has the record in hands.
4. `Called` or `Fresh`: the one place that calls a group has been reached, or nothing of the group was
   written.  Without it a call could overwrite records in use.  The place is reached when the caller's
   program is past it, or, in a body, when its iteration is past it or will never be run (`Passed`): for
   a serial task that fails in the middle of a batch, the rest of the batch is never run, and for that
   one needs to know that nobody goes on behind it.

The semaphores have an invariant of their own, `Counts /\ Budget`, on top of `Right` (`BudgetAlways`).
For each task and each of its semaphores it bounds a sum by the initial value and what was ever
`released`, a history variable: what the claimed iterations took, plus, if `next_semaphore` is past this
one, what is kept for the next iteration, plus what the semaphore holds (`Covered`).  The last part
is what makes it inductive: an acquisition moves an amount from the third to the second, a claim from the
second to the first.  The iterations claimed are up to `min` and the ends of the runs (`Ends`), since a thread
claims past `min` while it runs a batch.  `StepIs` says that every step leaves the semaphores alone, is a call of
`make_runnable` for one job, which may get only some of them, or is a release; `Right` is needed for
a claim to be one iteration past an end, and for a put-back to lose none.  `FoldsRespected` is the first
part of the sum alone.  `ReleasesWake` follows from the same three kinds of steps: only a release can make
a job on the stack runnable, it must have been to the semaphore that was short, and if no
task takes more than one at a time (`UnitAcquires`) that one was at zero, which is when the code wakes.  The programs
of both runs take one at a time; for one that takes two the property is false (section 6, 5).

TLC checked `Right` and `Budget` as invariants of both of the pool's runs.  `Consistent` is not proved: its
range for `threads_reserved` does not hold for all programs (section 6, 7).

**`TraceProofs`**, for every finite set of threads, size of the buffer and events:

* `LockCorrect`: `Spec => []LockExcludes`, if the program does not set the trace file
  itself (`File \notin SetTo`; section 6, 10 says what happens if it does).

`LockExcludes` says nothing of the lock, so `IInv` adds what the compare-and-swaps
rely on: the count is the number of threads that share the buffer (`SharedCounted`);
the held bit is set for the one that has it alone, and then the count is zero
(`HeldAlone`); the buffer exists as long as the file does and somebody records
(`BufferThere`).  Actions that leave the held bit and the count alone are
treated together (`Moves`), each of the others by a lemma of its own.

Also in `TraceProofs`, under `Usage`: the program sets no trace file itself, and the memory of a new buffer is
zero, which nothing in the code sees to (section 6, 10):

* `PacketsCorrect`: `Spec => []PacketsWhole`;
* `OrderCorrect`: `Spec => []ParentsFirst`;
* `DurableCorrect`: `Spec => []Durable`.

None of the three is inductive: they look at the file and at what is in the buffer, and
say nothing of a packet whose space is claimed and not written.  `PInv` adds one sequence,
`log`: the event each word belongs to, those in the file, then those of the buffer up to
`Top`, written or not (`Logged`).  Only a request that finds room changes it, at its end
(`ClaimingKept`); writing fills in words that `log` has already (`WritingKept`), and
a flush moves the border between file and buffer (`FlushingKept`, `ResettingKept`).
In `log` an event's words are together, and each event comes after those that
had returned before, because these are in it then (`SentOccurs`).  `Space`
is what makes `cursor - overage` right: what failed requests added and have noted or not
(`Lost`) is what the cursor is past the claimed words, nothing fits once something is
lost, and each thread fails once per flush, which bounds the cursor.  `Unnoted`
counts words as pairs of a thread and a number, since a sum over a set
would need a fold.  The lock's invariant (`IInv`) gives that a flush
meets no thread between claiming and releasing (`Alone`).  Nine of the fourteen actions
leave the words alone and are treated together (`Quiet`).  TLC checked every part of `PInv`
as an invariant on 179,769 states before it was proved.

**`MemoCacheProofs`**, for any finite sets of pipelines and addresses of entries, and any keys, hash
function, sizes, limits, number of tuple elements and memory for blocks:

* `HeldBuffersHolds`, `CacheValidHolds`, `NoBlockLostHolds`: the three invariants of the run
  `memo_cache`;
* `CacheImplementsMemo`: `Spec => Implements`, the step simulation of `Memo`.

They assume what the module does: null is neither an address, a pipeline nor a key, and a result has a size.
Of the addresses of blocks nothing is assumed, so that `malloc` may run out at any call.

The inductive invariant `IInv` follows three pointers.  *The links of the table*: each bucket is a list
(`Chained`) of exactly the entries with its hash, so that the walk `Bucket`, a recursive function, gives back that
list (`BucketOfLinked`, with a least counterexample) and `Find` finds an entry exactly when
there is one (`FindRight`); a store puts an entry before it, an eviction leads around one (`Unlinked`).
*The headers*: a block names its entry and the entry the block (`Owned`), the buffers in a client's
hands are of one entry for its key or all its own (`Held`), so that `in_use_count` counts pairs of a client
and a block (`UsersOf`), a count of zero means that nobody holds a block of the entry, and the entry whose
address a release read before it took the lock is still there when it has it.
*The lock*: the two critical sections that prune hold it (`LockHeld`), hence no entry for a key appears between the
check for one and the store (`KeysDiffer`), and only one result is being stored (`OneStoring`), as
`SizeExact` has it.  Sums over sets are folds, whose operator argument the provers cannot instantiate;
`TotalMore` shows what a sum gains with an element from the definition, again with a least counterexample.
The order of the entries by use appears nowhere in `IInv`: it is not kept (section 6, 1), and nothing
that is proved depends on it.  A behaviour that runs into the freed entry it leaves behind ends
there, as the assumption in section 5 says.

For the refinement each action has a lemma that says which step of `Memo` it is: `LookupHitMaps`, `LookupMissMaps`,
`StoreEntryMaps` (`Insert`), `ReleaseOwnMaps` and `ReleaseSharedMaps` (`Finish`, with the last buffer of a tuple only),
`PruneEvictMaps` and `CleanupMaps` (`Evict`); the rest `Memo` does not see (`OtherStepsMap`).

**`PassProofs`** on HWKernelDAG, for any windows and any finite set of consumers:

* `EnlargedCovers`: a window that `merge_consumer_stencils` enlarges and shifts to the
  left covers the original one, as the comment there demands, and so does its region.
* `RegionsFit`: the stored region of a kernel holds the regions of all its
  consumers, whose windows have the kernel's size and cover what they read.

They rest on the existence of a greatest element of a finite set of integers (`Greatest`), which is
shown with a least counterexample.  What they do not give is that a consumer's windows
lie at the positions the dispatcher looks at; section 6, 2 is about that.

**`DeviceBufferProofs`**, for any finite set of buffers and any sets of interfaces,
handles and native handles:

* `RefsExactHolds`, `BitsTruthfulHolds`, `CopiesArriveHolds`, `NoLeakHolds`: the
  four invariants of the run `device_buffer`.

They assume `Usage`, which is what that run assumes too: a buffer is not
copied to itself, host memory with content is marked dirty before the buffer gets
device memory, and no interface has the default `wrap_native`.  Without any of
them TLC finds a counterexample (section 6, 9), so none can be dropped.
Nothing is assumed of which driver calls fail, or which interfaces have a crop that can fail.

The argument has two layers, as the code has.  `DeviceInterfaceProofs` states what each
API function may do to a machine state: which buffers it leaves alone
(`Frame`), that the references change as the buffer's interface does (`Counted`), that
device memory is kept, gained or lost (`Keeps`, `Gains`, `Loses`), and that a
buffer that was `Truthful` is so again.  The functions call each other, so do the
lemmas: `MallocEffect` serves `CopyToDeviceEffect`, that serves
`ViaDestinationEffect`, up to `BufferCopyEffect`; calls in a row are put together by
`Compose` and `CopiesCompose`, a module in use around a call by `Bracket`.
`DeviceBufferProofs` has one lemma per action on top of these.  The inductive
invariant `IInv` adds to the properties: each allocation belongs to one buffer of a fitting role, a
view has its source's device memory and no view of its own (`Owned`), memory is shared by views of
one buffer only (`Unshared`), references are counted by the buffers that name an
interface (`Referenced`), and clean memories hold the same (`Truthful`, which is more than
`BitsTruthful`: without it a skipped copy could not be shown to arrive).

**`PassProofs`** on HostDevCopies, for any finite set of devices, any set of handles that is not empty,
programs of any length (`LEAVES`) and any nesting of conditionals (`DEPTH`):

* `TouchesCurrentHolds`, `NeverRefusedHolds`, `StateSoundHolds`, `NotBothDirtyHolds`,
  `ReleasedHolds`: the five invariants of the run `host_dev_copies`.

They assume `Usage`, again what the run assumes: a program with several devices neither
branches nor calls extern stages, and a leaf that moves the buffer to another device only reads
it.  Section 6, 8 says what goes wrong otherwise.  `DevicesAssumption` says that the host and
`DeviceAPI::None` are no devices, that there are finitely many devices, and that a driver has
a handle to give, without which an allocation could not succeed.

What the pass knows (`Sound`) is true only because of what it does, and what it does is enough
only because what it knows is true, so the inductive invariant `Inv` holds both at once,
with what the machine is like between two leaves (`Settled`): the bits locate the newest
content and clean memories hold the same (`Truthful`), content without device memory is marked
dirty on the host (`Marking`), host memory is there unless one device alone touches the buffer,
references and live allocations are exactly the buffer's (`Exact`).
`NeverRefused` needs that last part: a call is refused when the buffer has memory of
another interface, or both bits, and `CopyToDeviceSucceeds` and its siblings show that nothing else stops it.
A leaf is followed through the calls before it (`FetchStep`, `FlipStep`, `ObtainStep`, joined in
`PrologueEffect` and, for the existence of a success, `PrologueSucceeds`), through its body and what an extern stage
does (`QuietLeaf`, `WritingLeaf`), to the bits set after it (`LeafStep`); `UnionSound` is the join
of a conditional.  When several devices are used, knowledge is never lost (the last conjunct of `Sound`),
which is why `Usage` keeps conditionals out of such programs.

Only model-checked: `Consistent` of ThreadPool, the properties of LineBuffer, and everything
about liveness.  Liveness under fairness and
`ENABLED` are out of the proof system's reach; so are statements about a
recursive definition for every input, that is, about `SpecsOf` over whole DAGs.

## 5. What is abstracted, and what is left out

* Memory is sequentially consistent; the code's orderings (acquire, release,
  acq_rel) are not modelled.  Writes to a node before it is published are part of
  the publishing step.
* `unpark_all` has no caller and is left out.  This version's `park_control` has no
  timeouts.
* ThreadPool takes the mutex and the conditions as Monitor describes them.
  `semaphore_try_acquire` and `release` are atomic additions.  `MAX_THREADS` is
  the number of `Worker`s.  User hooks (`halide_set_custom_do_task`, ...) have their
  default values.  Shutdown is called when no pipeline runs, as the code demands.
  A task's semaphores are distinct.  A work record is named by its task, so
  a program calls each group once.  Programs with empty tasks in front of others are left out (`EmptyAssumption`):
  what follows after the pool ran into a record that was never written is undefined.
* MemoCache: a key stands for the key's bytes, the bounds and the shapes an entry is
  compared by.  Sections under `memoization_lock` are one step, except pruning.  A
  use of a freed entry and a failing assertion end the behaviour.
* DeviceInterface: calls are atomic, since copies hold `device_copy_mutex` and a
  buffer has one user at a time; the comment at `device_interface.cpp:21` asks what
  becomes of two, and the code does not say.  The size and the shape of a copy are left out, and
  so is `halide_device_sync`.  Pointers to host memory are there or not.  Two constants
  choose what the program does: `MarksHost`, `SelfCopy` (section 6).
* HostDevCopies: one buffer; a loop is one leaf, as it is to the pass.  `FLIPS_ANYWHERE` and
  `FLIP_WRITES` choose programs the pass does not handle (section 6).  `needs_device_flip`
  is modelled for internal buffers, as the code has it.
* Trace: a packet's content is its id; custom trace functions are left out;
  `halide_shutdown_trace` is called at exit (`halide_trace_cleanup`).  A failed write ends the program.
* HWKernelDAG and LineBuffer: two dimensions; windows `a * q + lo .. hi` with the same `a`
  for the consumers of a kernel, as the pass asserts.  Inlined kernels, taps (constant
  arguments), update stages, and line buffers of three and four dimensions are left out, and
  values are not computed: coordinates take their place.
* Not modelled: the parts without an entry in the last column of section 1.
  The fake thread pool is sequential.  The profiler writes statistics that nothing
  reads back.  The Hexagon runtime and the other GPU runtimes are
  driver calls; `hashmap.h` is `cache.cpp` over again.  Code generation and the
  lowering passes are functions on unbounded syntax trees; bounds inference and the
  simplifier could be compared with their meaning over bounded integers, one
  transfer function at a time.

## 6. Where the code and its comments disagree

Two are runs that TLC ends with a counterexample:

1. **`memo_cache_lru`** (`cache.cpp:289-290`).  To unlink an entry that is not the
   oldest, `prune_cache` should make the older neighbour's `more_recent` skip it;
   line 290 assigns the evicted entry's own field instead.  The older neighbour
   then names freed memory, and the next pruning reads it.  `validate_cache` traps with "cache
   invalid case 4" (line 242) on such a chain.
2. **`dispatch_phase`** (`src/src/ExtractHWKernelDAG.cpp:351`,
   `src/src/StreamOpt.cpp:288`).  The offset of a consumer's windows need not be a
   multiple of the step in which the merged window moves, but the dispatcher looks only
   there; the consumer gets the windows between which its own lie, and computes
   from the wrong pixels.  Nothing asserts it.

The rest were met while modelling; each is left out of the runs by a constant or by
the choice of programs, as said.

3. **A job put back is seen by nobody** (`thread_pool_common.h:342-345`).  A serial
   job is off the stack while a thread runs it.  If it is put back because a
   semaphore is short, a release in between has already woken everybody, who
   found nothing; the thread that puts it back may be the owner of another finished
   job, and leave.  The comment at line 117 demands a wakeup.
4. **The failure of a sibling wakes nobody** (line 385): the condition asks whether the
   failing job has no active workers, but the failing thread counts itself
   until line 400.
5. **A release wakes only from zero** (lines 702-703): with an acquire of two the
   second release makes a job runnable and wakes nobody.  The code's own comment
   asks whether this is correct.  The programs of the runs acquire one at a time.
6. **"Skip extent zero jobs"** (lines 616-620): the loop does not advance past a
   skipped task; records that were never written are queued.
7. **"Logic error: thread over commit."** (line 497): nested parallel loops
   around asynchronous stages reach this assertion with five threads.
8. **Moving a buffer between devices** (`src/src/InjectHostDevBufferCopies.cpp:259-277`):
   `needs_device_dirty` is computed before the move resets what is known of the device;
   a leaf that moves the buffer and writes it is not marked (`FLIP_WRITES = TRUE`
   violates `TouchesCurrent`).  With branches or extern stages the pass may not know the
   device, and `copy_to_device` is refused (`FLIPS_ANYWHERE = TRUE` violates
   `NeverRefused`, lines 162-169, 235-239, 318-319).  Line 219 counts devices
   written, so that a leaf that reads on the host and writes on one device is not marked either.
9. **Device buffers**.  `halide_buffer_copy` reads `src->device_interface` again
   after the copy; if a buffer is copied to itself it has changed, and a module is released
   that was not used (`SelfCopy = TRUE` violates `RefsExact`, `device_interface.cpp:599-610`).  A crop that fails keeps
   its reference (650-651).  A device allocation for clean host memory counts as
   clean, so `copy_to_device` uploads nothing (156), and `buffer_copy` prefers it although
   `HalideRuntime.h:742` says the host is preferred; hence `MarksHost`.
   `halide_device_free` does not clear `device_dirty` when there is device memory (233-256,
   against the comment at 89-91).  A copy between interfaces can leave both bits set (552-555,
   against `HalideBuffer.h:1551`).  Interfaces with the default `wrap_native`
   (Hexagon, OpenGLCompute) always fail: it validates a buffer whose interface
   has been set and whose handle has not (74-76, 379-380, 407-411; `DefaultWrap = {opencl}` violates
   `RefsExact` in one step; `HalideRuntime.h:801-802` promises the handle is set).
10. **Tracing**.  `halide_set_trace_file` sets a file but never allocates the buffer the
    packets go to; a buffer from `malloc` has no constructor run (338-339, hence `FRESH`);
    `halide_shutdown_trace` frees the buffer and keeps the pointer; `HalideRuntime.h:658-659`
    says shutting down flushes the trace, which lines 352-365 do not.  Every call that ends
    a pipeline has flushed before (`Durable`).
11. **FIFO depths** (`src/src/ExtractHWKernelDAG.cpp:606-613`,
    `src/src/CodeGen_VHLS_Base.cpp:288`): the default of 0 becomes 1, with which
    reconvergent designs deadlock; `Func::fifo_depth` has to be scheduled, and nothing
    says how deep.  The C simulation has unbounded streams and does not show it.
12. **Dimensions without a loop** (`src/src/StreamOpt.cpp:564`,
    `src/src/CodeGen_VHLS_Base.cpp:298-306`).  A kernel gets a scan loop only for dimensions
    that a loop of the pipeline scans.  If its consumers read it at different places of another
    one (one reads channel 0, another channel 2) its extent there is larger than its window:
    it writes one stencil, and the dispatcher waits for one per window.  Nothing asserts that
    extent and window are the same.  Such a pipeline violates `Finishes`; those of
    `MCLineBuffer` have none.

## 7. Plan

Done: WordLock and its proofs; Monitor, FastSync with the chains of the buckets, its proofs
and that of the refinement; ThreadPool and the proofs of six of its properties; Memo and
MemoCache with the proofs of its invariants and of the refinement; DeviceInterface, DeviceBuffer,
HostDevCopies and their proofs; Trace and the proofs of its lock and its packets;
HWKernelDAG, its lemmas, and LineBuffer.

To come, models: line buffers of three dimensions and taps; the profiler's
pipeline list; the pools of the Hexagon runtime; transfer functions of intervals
and modulus-remainder against their meaning; a run of ThreadPool in which reserved
threads are returned to a sleeping owner (`thread_pool_common.h:392`).
