------------------------------ MODULE FastSync ------------------------------
(***************************************************************************)
(* fast_mutex, fast_cond and the parking lot under them (the second half   *)
(* of src/src/runtime/synchronization_common.h): what halide_mutex_lock,   *)
(* halide_cond_wait and their siblings do.                                 *)
(*                                                                         *)
(* A thread that must sleep queues a node, on its own stack, under the     *)
(* address of the mutex or the condition variable.  The nodes are chained  *)
(* in the buckets of a hash table, so nodes of several addresses may share *)
(* a chain and its word_lock, whose exclusion WordLock establishes.  The   *)
(* chains are the pointers of the code: a head and a tail per bucket and a *)
(* next pointer and a sleep_address per node.                              *)
(*                                                                         *)
(* Every access to a mutex word or a condition's word that another thread  *)
(* can observe, and every acquisition of a bucket lock, is one step.  What *)
(* is done to the queues under a bucket's lock belongs to the step that    *)
(* releases the lock.  The parker's calls are one step here: WordLock      *)
(* takes them apart.  A local variable whose value is not read again may   *)
(* be given its initial value back.                                        *)
(***************************************************************************)
EXTENDS Naturals, FiniteSets, SequencesExt

CONSTANTS Thread,      \* the threads of the program
          Mutex,       \* its halide_mutex objects
          Cond,        \* its halide_cond objects
          NULL,        \* the null pointer
          Hash,        \* addr_hash: the bucket of each address
          SPIN_COUNT,  \* spin_control's initial budget (40 in the code)
          Calls,       \* Calls[t]: the calls thread t may make
          OPS          \* bound: how many calls, unlocks aside, a thread makes

ASSUME ThreadAssumption == IsFiniteSet(Thread)
ASSUME NullAssumption == NULL \notin Thread \union Mutex \union Cond
ASSUME HashAssumption == Hash \in [Mutex \union Cond -> Nat]
ASSUME SpinAssumption == SPIN_COUNT \in Nat
ASSUME OpsAssumption  == OPS \in Nat
ASSUME KindAssumption == Mutex \intersect Cond = {}

VARIABLES state,     \* fast_mutex::state, the lock bit and the parked bit
          cond,      \* fast_cond::state, the mutex its waiters use or null
          head,      \* head[b]: the first node of bucket b
          tail,      \* tail[b]: the last one
          next,      \* next[t]: the node after t's in its bucket
          sleep_address, \* what t's node waits for
          owner,     \* owner[b]: who has the word_lock of bucket b
          asleep,    \* asleep[t]: should_park of the parker of t's node
          pc,        \* where each thread is
          mutex,     \* the mutex t is locking, holding or unlocking
          arg,       \* the condition variable t is calling
          val,       \* the mutex broadcast() read from the condition
          expected,  \* the local 'expected' of lock_full
          spin,      \* the local spin_control's spin_count
          wakeup,    \* the node t has dequeued and is about to unpark
          unpark_one,\* validate_action::unpark_one, in a broadcast
          ret,       \* where t goes on after unlock, signal or broadcast
          ops        \* how many calls each thread may still make

words  == <<state, cond>>
chains == <<head, tail, next, sleep_address>>
lot    == <<chains, owner, asleep>>
locals == <<mutex, arg, val, expected, spin, wakeup, unpark_one, ret, ops>>
vars   == <<words, lot, pc, locals>>

Address == Mutex \union Cond
Word    == [lock : BOOLEAN, parked : BOOLEAN]
Free    == [lock |-> FALSE, parked |-> FALSE]
Locked  == [lock |-> TRUE, parked |-> FALSE]
LockedParked == [lock |-> TRUE, parked |-> TRUE]

Idle     == "idle"          \* outside every call, holding nothing
LoadFull == "lf_load"       \* about to load the word in lock_full
Loop     == "lf_loop"       \* the loop of lock_full
Marked   == "lf_marked"     \* set the parked bit, about to park
LValid   == "lf_validate"   \* park() has the mutex's bucket
LParked  == "lf_parked"     \* asleep in lock_full
Crit     == "critical"      \* holding the mutex, outside every call
WCall    == "w_call"        \* in wait(), about to lock the bucket
WValid   == "w_validate"    \* park() has the condition's bucket
WUnlock  == "w_unlock"      \* queued; before_sleep unlocks the mutex
WParked  == "w_parked"      \* asleep in wait()
UFull    == "uf"            \* unlock_full
UCall    == "uf_call"       \* unpark_one of the mutex
UTake    == "uf_take"       \* ... with its bucket locked
SCall    == "s_call"        \* signal(): unpark_one of the condition
STake    == "s_take"        \* ... with its bucket locked
BCall    == "b_call"        \* broadcast(): locking the first bucket
BSecond  == "b_second"      \* ... the second bucket
BValid   == "b_validate"    \* both buckets locked
BMark    == "b_mark"        \* about to call make_parked_if_locked
BRequeue == "b_requeue"     \* about to move the queue
Wake     == "wake"          \* about to unpark the node in wakeup

Location == {Idle, LoadFull, Loop, Marked, LValid, LParked, Crit, WCall, WValid,
             WUnlock, WParked, UFull, UCall, UTake, SCall, STake, BCall,
             BSecond, BValid, BMark, BRequeue, Wake}

Bucket == {Hash[a] : a \in Address}

Init ==
  /\ state = [m \in Mutex |-> Free]
  /\ cond = [c \in Cond |-> NULL]
  /\ head = [b \in Bucket |-> NULL]
  /\ tail = [b \in Bucket |-> NULL]
  /\ next = [t \in Thread |-> NULL]
  /\ sleep_address = [t \in Thread |-> NULL]
  /\ owner = [b \in Bucket |-> NULL]
  /\ asleep = [t \in Thread |-> FALSE]
  /\ pc = [t \in Thread |-> Idle]
  /\ mutex = [t \in Thread |-> NULL]
  /\ arg = [t \in Thread |-> NULL]
  /\ val = [t \in Thread |-> NULL]
  /\ expected = [t \in Thread |-> Free]
  /\ spin = [t \in Thread |-> SPIN_COUNT]
  /\ wakeup = [t \in Thread |-> NULL]
  /\ unpark_one = [t \in Thread |-> FALSE]
  /\ ret = [t \in Thread |-> Idle]
  /\ ops = [t \in Thread |-> OPS]

Goto(t, l) == pc' = [pc EXCEPT ![t] = l]

\* The client makes one of its calls.
Call(t, op, a) ==
  /\ <<op, a>> \in Calls[t]
  /\ ops[t] > 0
  /\ ops' = [ops EXCEPT ![t] = @ - 1]

\* The bucket of address a is locked by t, which held no bucket of that hash.
LockBucket(t, a) ==
  /\ owner[Hash[a]] = NULL
  /\ owner' = [owner EXCEPT ![Hash[a]] = t]

UnlockBuckets(t) ==
  owner' = [b \in Bucket |-> IF owner[b] = t THEN NULL ELSE owner[b]]

(***************************************************************************)
(* fast_mutex::lock and lock_full.  A weak compare-and-swap may fail.      *)
(***************************************************************************)
FastLock(t, m) ==
  \/ /\ state[m] = Free
     /\ state' = [state EXCEPT ![m] = Locked]
     /\ Goto(t, Crit)
  \/ UNCHANGED state /\ Goto(t, LoadFull)

Lock(t, m) ==
  /\ pc[t] = Idle
  /\ Call(t, "lock", m)
  /\ FastLock(t, m)
  /\ mutex' = [mutex EXCEPT ![t] = m]
  /\ UNCHANGED <<cond, lot, arg, val, expected, spin, wakeup, unpark_one, ret>>

\* On entry, and again whenever park() has returned: a fresh spinner.
LockFull(t) ==
  /\ pc[t] = LoadFull
  /\ expected' = [expected EXCEPT ![t] = state[mutex[t]]]
  /\ spin' = [spin EXCEPT ![t] = SPIN_COUNT]
  /\ Goto(t, Loop)
  /\ UNCHANGED <<words, lot, mutex, arg, val, wakeup, unpark_one, ret, ops>>

CasFails(t) ==
  /\ expected' = [expected EXCEPT ![t] = state[mutex[t]]]
  /\ UNCHANGED state

CasSucceeds(t, desired) ==
  /\ state[mutex[t]] = expected[t]
  /\ state' = [state EXCEPT ![mutex[t]] = desired]
  /\ expected' = [expected EXCEPT ![t] = Free]

TryAcquire(t) ==
  /\ pc[t] = Loop
  /\ ~expected[t].lock
  /\ \/ CasSucceeds(t, [expected[t] EXCEPT !.lock = TRUE]) /\ Goto(t, Crit)
     \/ CasFails(t) /\ UNCHANGED pc
  /\ UNCHANGED <<cond, lot, mutex, arg, val, spin, wakeup, unpark_one, ret, ops>>

\* spin_control::should_spin, on the budget it is called with.
Spent(n) == IF n > 0 THEN n - 1 ELSE n
should_spin(n) == Spent(n) > 0

Spin(t) ==
  /\ pc[t] = Loop
  /\ expected[t] = Locked
  /\ should_spin(spin[t])
  /\ spin' = [spin EXCEPT ![t] = Spent(@)]
  /\ expected' = [expected EXCEPT ![t] = state[mutex[t]]]
  /\ UNCHANGED <<words, lot, pc, mutex, arg, val, wakeup, unpark_one, ret, ops>>

\* Nobody was parked and the spinning is over: announce a parked thread.
MarkParked(t) ==
  /\ pc[t] = Loop
  /\ expected[t] = Locked
  /\ ~should_spin(spin[t])
  /\ spin' = [spin EXCEPT ![t] = Spent(@)]
  /\ \/ CasSucceeds(t, LockedParked) /\ Goto(t, Marked)
     \/ CasFails(t) /\ UNCHANGED pc
  /\ UNCHANGED <<cond, lot, mutex, arg, val, wakeup, unpark_one, ret, ops>>

\* park(): lock the bucket, and queue only if the word still says that the
\* holder will look for a parked thread.
ParkOnMutex(t) ==
  /\ pc[t] = Marked \/ (pc[t] = Loop /\ expected[t] = LockedParked)
  /\ LockBucket(t, mutex[t])
  /\ Goto(t, LValid)
  /\ UNCHANGED <<words, chains, asleep, locals>>

\* park() puts its node behind the last one of the bucket.
Park(t, a) ==
  /\ head' = [head EXCEPT ![Hash[a]] = IF @ = NULL THEN t ELSE @]
  /\ next' = [u \in Thread |->
                IF u = t THEN NULL
                ELSE IF head[Hash[a]] # NULL /\ u = tail[Hash[a]] THEN t ELSE next[u]]
  /\ tail' = [tail EXCEPT ![Hash[a]] = t]
  /\ sleep_address' = [sleep_address EXCEPT ![t] = a]
  /\ asleep' = [asleep EXCEPT ![t] = TRUE]

\* Slip: the word is not looked at again under the bucket's lock.
ParkRegardless(t) == TRUE

StillParked(t) == state[mutex[t]] = LockedParked

mutex_parking_control_validate(t) ==
  /\ pc[t] = LValid
  /\ IF StillParked(t)
     THEN Park(t, mutex[t]) /\ Goto(t, LParked)
     ELSE UNCHANGED <<chains, asleep>> /\ Goto(t, LoadFull)
  /\ UnlockBuckets(t)
  /\ UNCHANGED <<words, locals>>

ParkReturns(t) == ~asleep[t]

\* park() returns to lock_full, which tries again.
LockUnparked(t) ==
  /\ pc[t] = LParked
  /\ ParkReturns(t)
  /\ Goto(t, LoadFull)
  /\ UNCHANGED <<words, lot, locals>>

(***************************************************************************)
(* fast_mutex::unlock and unlock_full.                                     *)
(***************************************************************************)
Unlock(t) ==
  /\ pc[t] \in {Crit, WUnlock}
  /\ LET then == IF pc[t] = Crit THEN Idle ELSE WParked IN
     \/ /\ state[mutex[t]] = Locked
        /\ state' = [state EXCEPT ![mutex[t]] = Free]
        /\ Goto(t, then)
        /\ UNCHANGED ret
     \/ /\ UNCHANGED state
        /\ Goto(t, UFull)
        /\ ret' = [ret EXCEPT ![t] = then]
  /\ UNCHANGED <<cond, lot, mutex, arg, val, expected, spin, wakeup, unpark_one, ops>>

\* The strong compare-and-swap fails only if the parked bit is set.
UnlockFull(t) ==
  /\ pc[t] = UFull
  /\ IF state[mutex[t]] = Locked
     THEN state' = [state EXCEPT ![mutex[t]] = Free] /\ Goto(t, ret[t])
     ELSE UNCHANGED state /\ Goto(t, UCall)
  /\ UNCHANGED <<cond, lot, locals>>

UnlockBucketLock(t) ==
  /\ pc[t] = UCall
  /\ LockBucket(t, mutex[t])
  /\ Goto(t, UTake)
  /\ UNCHANGED <<words, chains, asleep, locals>>

\* The nodes of bucket b, from its head along the next pointers.  A chain that is
\* no list, which is one with more nodes than there are, is cut off.
Chain(b) ==
  LET After(u) == IF u = NULL THEN NULL ELSE next[u]
      node[n \in 0 .. Cardinality(Thread)] ==
        IF n = 0 THEN head[b] ELSE After(node[n - 1])
  IN  [n \in {k \in 1 .. Cardinality(Thread) + 1 : node[k - 1] # NULL} |-> node[n - 1]]

\* Where in chain q the nodes are that wait for address a.
Found(q, a) == {i \in DOMAIN q : sleep_address[q[i]] = a}

\* Slip: the one that came last.
Newest(q, a) == Max(Found(q, a))

\* unpark_one's loop stops at the first of them.
Oldest(q, a) == Min(Found(q, a))

\* Slip: the tail stays when the last node of the chain is taken.
TailKept(b, data, prev) == tail[b]

TailWithout(b, data, prev) == IF tail[b] = data THEN prev ELSE tail[b]

\* Node data, after prev, is taken out of the chain of bucket b.
Unlink(b, data, prev) ==
  /\ IF prev = NULL
     THEN head' = [head EXCEPT ![b] = next[data]] /\ next' = [next EXCEPT ![data] = NULL]
     ELSE next' = [next EXCEPT ![prev] = next[data], ![data] = NULL] /\ UNCHANGED head
  /\ tail' = [tail EXCEPT ![b] = TailWithout(b, data, prev)]
  /\ sleep_address' = [sleep_address EXCEPT ![data] = NULL]

\* unpark_one: take the first node that waits for a out of the bucket, if there
\* is one, and unlock the bucket; what the callback does is the caller's.
TakeOne(t, a) ==
  LET q == Chain(Hash[a]) IN
  /\ IF Found(q, a) = {}
     THEN Goto(t, ret[t]) /\ UNCHANGED <<chains, wakeup>>
     ELSE LET i == Oldest(q, a) IN
          /\ wakeup' = [wakeup EXCEPT ![t] = q[i]]
          /\ Unlink(Hash[a], q[i], IF i = 1 THEN NULL ELSE q[i - 1])
          /\ Goto(t, Wake)
  /\ UnlockBuckets(t)

\* Slip: the nodes of other addresses count.
AnyMore(a) == Len(Chain(Hash[a])) > 1

\* more_waiters: whether others wait for a behind the node that is taken.
MoreWaiters(a) == Cardinality(Found(Chain(Hash[a]), a)) > 1

\* mutex_parking_control_unpark releases the mutex with a plain store.
UnlockTake(t) ==
  /\ pc[t] = UTake
  /\ TakeOne(t, mutex[t])
  /\ state' = [state EXCEPT ![mutex[t]] =
                 [lock |-> FALSE, parked |-> MoreWaiters(mutex[t])]]
  /\ UNCHANGED <<cond, asleep, mutex, arg, val, expected, spin, unpark_one, ret, ops>>

\* unpark_start, unpark and unpark_finish on the node that was taken.
Unpark(t) ==
  /\ pc[t] = Wake
  /\ asleep' = [asleep EXCEPT ![wakeup[t]] = FALSE]
  /\ wakeup' = [wakeup EXCEPT ![t] = NULL]
  /\ Goto(t, ret[t])
  /\ UNCHANGED <<words, chains, owner, mutex, arg, val, expected, spin, unpark_one, ret, ops>>

(***************************************************************************)
(* fast_cond::wait.  The caller holds the mutex.                           *)
(***************************************************************************)
Wait(t, c) ==
  /\ pc[t] = Crit
  /\ Call(t, "wait", c)
  /\ arg' = [arg EXCEPT ![t] = c]
  /\ Goto(t, WCall)
  /\ UNCHANGED <<words, lot, mutex, val, expected, spin, wakeup, unpark_one, ret>>

WaitBucketLock(t) ==
  /\ pc[t] = WCall
  /\ LockBucket(t, arg[t])
  /\ Goto(t, WValid)
  /\ UNCHANGED <<words, chains, asleep, locals>>

\* If others wait with another mutex, wait() returns at once, mutex held.
wait_parking_control_validate(t) ==
  /\ pc[t] = WValid
  /\ IF cond[arg[t]] \in {NULL, mutex[t]}
     THEN /\ cond' = [cond EXCEPT ![arg[t]] = mutex[t]]
          /\ Park(t, arg[t])
          /\ Goto(t, WUnlock)
     ELSE UNCHANGED <<cond, chains, asleep>> /\ Goto(t, Crit)
  /\ UnlockBuckets(t)
  /\ UNCHANGED <<state, locals>>

\* park() returns; wait() calls mutex->lock().
WaitUnparked(t) ==
  /\ pc[t] = WParked
  /\ ParkReturns(t)
  /\ FastLock(t, mutex[t])
  /\ UNCHANGED <<cond, lot, locals>>

(***************************************************************************)
(* fast_cond::signal, called with or without the mutex.                    *)
(***************************************************************************)
Signal(t, c) ==
  /\ pc[t] \in {Idle, Crit}
  /\ Call(t, "signal", c)
  /\ arg' = [arg EXCEPT ![t] = c]
  /\ ret' = [ret EXCEPT ![t] = pc[t]]
  /\ IF cond[c] = NULL THEN UNCHANGED pc ELSE Goto(t, SCall)
  /\ UNCHANGED <<words, lot, mutex, val, expected, spin, wakeup, unpark_one>>

SignalBucketLock(t) ==
  /\ pc[t] = SCall
  /\ LockBucket(t, arg[t])
  /\ Goto(t, STake)
  /\ UNCHANGED <<words, chains, asleep, locals>>

\* signal_parking_control_unpark forgets the mutex with the last waiter.
SignalTake(t) ==
  /\ pc[t] = STake
  /\ TakeOne(t, arg[t])
  /\ cond' = IF MoreWaiters(arg[t]) THEN cond ELSE [cond EXCEPT ![arg[t]] = NULL]
  /\ UNCHANGED <<state, asleep, mutex, arg, val, expected, spin, unpark_one, ret, ops>>

(***************************************************************************)
(* fast_cond::broadcast, called with or without the mutex: unpark_requeue. *)
(***************************************************************************)
Broadcast(t, c) ==
  /\ pc[t] \in {Idle, Crit}
  /\ Call(t, "broadcast", c)
  /\ arg' = [arg EXCEPT ![t] = c]
  /\ val' = [val EXCEPT ![t] = cond[c]]
  /\ ret' = [ret EXCEPT ![t] = pc[t]]
  /\ IF cond[c] = NULL THEN UNCHANGED pc ELSE Goto(t, BCall)
  /\ UNCHANGED <<words, lot, mutex, expected, spin, wakeup, unpark_one>>

\* Slip: the buckets are locked in the order of the arguments.
FromBucket(a, b) == a

\* lock_bucket_pair: the bucket with the smaller hash comes first.
FirstBucket(a, b)  == IF Hash[a] <= Hash[b] THEN a ELSE b
SecondBucket(a, b) == IF FirstBucket(a, b) = a THEN b ELSE a

LockPairFirst(t) ==
  /\ pc[t] = BCall
  /\ LockBucket(t, FirstBucket(arg[t], val[t]))
  /\ Goto(t, IF Hash[arg[t]] = Hash[val[t]] THEN BValid ELSE BSecond)
  /\ UNCHANGED <<words, chains, asleep, locals>>

LockPairSecond(t) ==
  /\ pc[t] = BSecond
  /\ LockBucket(t, SecondBucket(arg[t], val[t]))
  /\ Goto(t, BValid)
  /\ UNCHANGED <<words, chains, asleep, locals>>

broadcast_parking_control_validate(t) ==
  /\ pc[t] = BValid
  /\ IF cond[arg[t]] = val[t]
     THEN /\ cond' = [cond EXCEPT ![arg[t]] = NULL]
          /\ Goto(t, BMark)
          /\ UNCHANGED owner
     ELSE /\ Goto(t, ret[t])
          /\ UnlockBuckets(t)
          /\ UNCHANGED cond
  /\ UNCHANGED <<state, chains, asleep, locals>>

\* If the mutex is held its unlock will wake the first of the requeued threads.
make_parked_if_locked(t) ==
  /\ pc[t] = BMark
  /\ state' = [state EXCEPT ![val[t]].parked = @ \/ state[val[t]].lock]
  /\ unpark_one' = [unpark_one EXCEPT ![t] = ~state[val[t]].lock]
  /\ Goto(t, BRequeue)
  /\ UNCHANGED <<cond, lot, mutex, arg, val, expected, spin, wakeup, ret, ops>>

broadcast_parking_control_requeue_callback(t, some_requeued) ==
  unpark_one[t] /\ some_requeued

\* One iteration of unpark_requeue's loop: a node of another address stays, the
\* first of the others is set aside to be woken if one is to be, and the rest
\* go to the end of the list that moves.  The predecessor is the last to stay.
Visit(s, data, from, one) ==
  IF sleep_address[data] # from THEN [s EXCEPT !.prev = data] ELSE
  LET cut == [s EXCEPT !.head = IF s.prev = NULL THEN next[data] ELSE @,
                       !.next = IF s.prev = NULL THEN @
                                ELSE [@ EXCEPT ![s.prev] = next[data]],
                       !.tail = IF @ = data THEN s.prev ELSE @]
  IN  IF one /\ s.wakeup = NULL THEN [cut EXCEPT !.wakeup = data]
      ELSE [cut EXCEPT !.requeue = Append(@, data),
                       !.next = IF s.requeue = <<>> THEN @
                                ELSE [@ EXCEPT ![Last(s.requeue)] = data]]

\* What the loop leaves when it has visited all nodes of the condition's bucket.
Walk(t) ==
  LET from == Hash[arg[t]]
      q    == Chain(from)
      walk[n \in 0 .. Len(q)] ==
        IF n = 0
        THEN [head |-> head[from], tail |-> tail[from], next |-> next,
              prev |-> NULL, requeue |-> <<>>, wakeup |-> NULL]
        ELSE Visit(walk[n - 1], q[n], arg[t], unpark_one[t])
  IN  walk[Len(q)]

\* unpark_requeue's surgery on the buckets of the condition and of the mutex.
Requeue(t) ==
  LET from == Hash[arg[t]]
      to   == Hash[val[t]]
      walk == Walk(t)
      some   == walk.requeue # <<>>
      heads  == [head EXCEPT ![from] = walk.head]
      tails  == [tail EXCEPT ![from] = walk.tail]
      joined == IF some /\ heads[to] # NULL
                THEN [walk.next EXCEPT ![tails[to]] = walk.requeue[1]] ELSE walk.next
  IN
  /\ pc[t] = BRequeue
  /\ head' = IF some /\ heads[to] = NULL
             THEN [heads EXCEPT ![to] = walk.requeue[1]] ELSE heads
  /\ tail' = IF some THEN [tails EXCEPT ![to] = Last(walk.requeue)] ELSE tails
  /\ next' = [u \in Thread |->
                IF u = walk.wakeup \/ (some /\ u = Last(walk.requeue)) THEN NULL
                ELSE joined[u]]
  /\ sleep_address' = [u \in Thread |->
                         IF u = walk.wakeup THEN NULL
                         ELSE IF Contains(walk.requeue, u) THEN val[t] ELSE sleep_address[u]]
  /\ state' = [state EXCEPT ![val[t]].parked =
                 @ \/ broadcast_parking_control_requeue_callback(t, some)]
  /\ wakeup' = [wakeup EXCEPT ![t] = walk.wakeup]
  /\ Goto(t, IF walk.wakeup # NULL THEN Wake ELSE ret[t])
  /\ UnlockBuckets(t)
  /\ UNCHANGED <<cond, asleep, mutex, arg, val, expected, spin, unpark_one, ret, ops>>

-----------------------------------------------------------------------------
MutexStep(t) ==
  \/ \E m \in Mutex : Lock(t, m)
  \/ LockFull(t) \/ TryAcquire(t) \/ Spin(t) \/ MarkParked(t)
  \/ ParkOnMutex(t) \/ mutex_parking_control_validate(t) \/ LockUnparked(t)
  \/ Unlock(t) \/ UnlockFull(t) \/ UnlockBucketLock(t) \/ UnlockTake(t)
  \/ Unpark(t)

CondStep(t) ==
  \/ \E c \in Cond : Wait(t, c) \/ Signal(t, c) \/ Broadcast(t, c)
  \/ WaitBucketLock(t) \/ wait_parking_control_validate(t) \/ WaitUnparked(t)
  \/ SignalBucketLock(t) \/ SignalTake(t)
  \/ LockPairFirst(t) \/ LockPairSecond(t)
  \/ broadcast_parking_control_validate(t) \/ make_parked_if_locked(t)
  \/ Requeue(t)

Step(t) == MutexStep(t) \/ CondStep(t)

\* The threads whose nodes wait for address a.
Queued(a) == LET q == Chain(Hash[a]) IN {q[i] : i \in Found(q, a)}

\* They, in the order of their bucket.
Queue(a) ==
  LET q == Chain(Hash[a]) IN
  CHOOSE s \in SetToSeqs(Queued(a)) :
    \A i, j \in DOMAIN s :
      i < j => \E k, l \in DOMAIN q : k < l /\ s[i] = q[k] /\ s[j] = q[l]

\* The threads that wait on condition c and that nobody has notified.
Waiters(c) == IF cond[c] = NULL THEN <<>> ELSE Queue(c)

NotNotified(t) == \E c \in Cond : Contains(Waiters(c), t)

\* A thread has returned from its calls, or waits for a notification.
Settled(t) == pc[t] = Idle \/ (pc[t] = WParked /\ NotNotified(t))

Done == (\A t \in Thread : Settled(t)) /\ UNCHANGED vars

Next == (\E t \in Thread : Step(t)) \/ Done

Spec == Init /\ [][Next]_vars

(***************************************************************************)
(* Fairness.  The operating system suspends no thread for ever, and a weak *)
(* compare-and-swap in the loop of lock_full does not fail for no reason   *)
(* for ever.                                                               *)
(***************************************************************************)
Fairness ==
  \A t \in Thread : /\ WF_vars(Step(t))
                    /\ SF_vars(\/ TryAcquire(t) /\ pc'[t] = Crit
                               \/ MarkParked(t) /\ pc'[t] = Marked)

FairSpec == Spec /\ Fairness

-----------------------------------------------------------------------------
(***************************************************************************)
(* Properties.                                                             *)
(***************************************************************************)
\* Every variable keeps its type.
TypeOK ==
  /\ state \in [Mutex -> Word]
  /\ cond \in [Cond -> Mutex \union {NULL}]
  /\ head \in [Bucket -> Thread \union {NULL}]
  /\ tail \in [Bucket -> Thread \union {NULL}]
  /\ next \in [Thread -> Thread \union {NULL}]
  /\ sleep_address \in [Thread -> Address \union {NULL}]
  /\ owner \in [Bucket -> Thread \union {NULL}]
  /\ asleep \in [Thread -> BOOLEAN]
  /\ pc \in [Thread -> Location]
  /\ mutex \in [Thread -> Mutex \union {NULL}]
  /\ arg \in [Thread -> Cond \union {NULL}]
  /\ val \in [Thread -> Mutex \union {NULL}]
  /\ expected \in [Thread -> Word]
  /\ spin \in [Thread -> Nat]
  /\ wakeup \in [Thread -> Thread \union {NULL}]
  /\ unpark_one \in [Thread -> BOOLEAN]
  /\ ret \in [Thread -> {Idle, Crit, WParked}]
  /\ ops \in [Thread -> Nat]

Notifying == {SCall, STake, BCall, BSecond, BValid, BMark, BRequeue, Wake}

\* t is between the acquisition of its mutex and the write that frees it.
Holding(t) ==
  \/ pc[t] \in {Crit, WCall, WValid, WUnlock, UFull, UCall, UTake}
  \/ pc[t] \in Notifying /\ ret[t] = Crit

\* halide_mutex_lock excludes: neither the unconditional store of the unlock
\* callback nor the bits set by broadcast() let a second thread in.
MutualExclusion ==
  \A t, u \in Thread :
    Holding(t) /\ Holding(u) /\ mutex[t] = mutex[u] => t = u

\* The lock bit is set exactly while a thread holds the mutex: nobody leaves a
\* mutex locked behind, and none of the stores frees it under its holder.
LockBit ==
  \A m \in Mutex :
    state[m].lock <=> \E t \in Thread : Holding(t) /\ mutex[t] = m

Unlocked(a) == owner[Hash[a]] = NULL

\* As long as threads are queued on a mutex its parked bit is set, so that the
\* fast unlock cannot overlook them; the bit may only lag under the bucket lock.
ParkedBit ==
  \A m \in Mutex : Unlocked(m) /\ Queued(m) # {} => state[m].parked

\* The condition's word names the mutex exactly while threads are queued on it
\* (bucket unlocked), so signal() and broadcast() may return on a null word.
CondWord ==
  \A c \in Cond : Unlocked(c) =>
    /\ cond[c] = NULL <=> Queued(c) = {}
    /\ \A t \in Queued(c) : mutex[t] = cond[c]

\* What the words of mutexes and conditions say holds together with the queues
\* and with what the threads believe.
Consistent == TypeOK /\ MutualExclusion /\ LockBit /\ ParkedBit /\ CondWord

\* t holds m, or is awake and has still to lock m, or is about to wake one.
WillServe(t, m) ==
  \/ Holding(t) /\ mutex[t] = m
  \/ pc[t] \in {LoadFull, Loop, Marked, LValid} /\ mutex[t] = m
  \/ pc[t] \in {LParked, WParked} /\ ~asleep[t] /\ mutex[t] = m
  \/ pc[t] = Wake /\ mutex[wakeup[t]] = m
  \/ pc[t] \in {BMark, BRequeue} /\ val[t] = m

\* No lost wakeup: while threads are queued on a mutex, some other thread holds
\* it or is on its way to lock it, and will wake them when it unlocks.
QueueServed ==
  \A m \in Mutex : Queued(m) # {} => \E t \in Thread : WillServe(t, m)

\* The surgery on the chains, where nodes of several addresses may share a
\* bucket, neither loses nor duplicates a node: a thread that sleeps in park()
\* is on one chain, that of its address, or about to be unparked by one thread;
\* no other thread's node, whose frame may be gone, can be reached; and the
\* tail is the end of its chain.
NodesConserved ==
  LET inPark(t) == \/ pc[t] \in {LParked, WParked, WUnlock}
                   \/ pc[t] \in {UFull, UCall, UTake, Wake} /\ ret[t] = WParked
      places(t) ==
        (UNION {{<<b, i>> : i \in {j \in DOMAIN Chain(b) : Chain(b)[j] = t}} : b \in Bucket})
          \union {<<u, 0>> : u \in {w \in Thread : pc[w] = Wake /\ wakeup[w] = t}}
  IN  /\ \A t \in Thread : /\ Cardinality(places(t)) = (IF asleep[t] THEN 1 ELSE 0)
                           /\ asleep[t] => inPark(t)
      /\ \A b \in Bucket :
           /\ tail[b] = (IF head[b] = NULL THEN NULL ELSE Last(Chain(b)))
           /\ \A i \in DOMAIN Chain(b) : Hash[sleep_address[Chain(b)[i]]] = b

-----------------------------------------------------------------------------
(***************************************************************************)
(* The parking lot implements the monitor.                                 *)
(***************************************************************************)
HolderOf(m) ==
  IF \E t \in Thread : Holding(t) /\ mutex[t] = m
  THEN CHOOSE t \in Thread : Holding(t) /\ mutex[t] = m
  ELSE NULL

\* t is queued on a condition and has not given its mutex up yet.
Leaving(t) == \/ pc[t] = WUnlock
              \/ pc[t] \in {UFull, UCall, UTake} /\ ret[t] = WParked

StatusOf(t) ==
  IF Leaving(t) THEN "leaving"
  ELSE IF Holding(t) THEN "in"
  ELSE IF pc[t] = WParked \/ (pc[t] = Wake /\ ret[t] = WParked) THEN "asleep"
  ELSE "out"

Abstract == INSTANCE Monitor WITH
              holder  <- [m \in Mutex |-> HolderOf(m)],
              waiting <- [c \in Cond |-> Waiters(c)],
              status  <- [t \in Thread |-> StatusOf(t)]

\* Every behaviour of the mutexes and conditions is one of the monitor: a wait
\* ends only after a notification, a notification releases the oldest waiter.
Implements == Abstract!MonitorSpec

\* Every thread that locks gets the mutex and every notified thread comes back
\* from wait(): in the end only threads that nobody notified are asleep.
Settles == <>[](\A t \in Thread : Settled(t))

=============================================================================
