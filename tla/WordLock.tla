------------------------------ MODULE WordLock ------------------------------
(***************************************************************************)
(* word_lock, the one-word queueing lock that protects every bucket of the *)
(* runtime's parking lot (src/src/runtime/synchronization_common.h).       *)
(*                                                                         *)
(* The word packs a lock bit, a queue lock bit and a pointer to the newest *)
(* node of a list of waiting threads.  A node lives on the stack of the    *)
(* thread that waits in lock_full, so a node is named by its thread; it is *)
(* re-created, at the same address, each time that thread queues again.    *)
(*                                                                         *)
(* Every atomic operation on the word is one step, and so is every step of *)
(* unlock_full's walk along the list.  Writes to a node that no other      *)
(* thread can reach yet are part of the step that publishes the node.  A   *)
(* weak compare-and-swap may fail although the word has the expected value.*)
(***************************************************************************)
EXTENDS Naturals, FiniteSetsExt

CONSTANTS Thread,      \* the threads that use the lock
          NULL,        \* the null node pointer
          SPIN_COUNT,  \* spin_control's initial budget (40 in the code)
          ROUNDS       \* bound: ROUNDS[t], how many times t takes the lock

ASSUME ThreadAssumption == IsFiniteSet(Thread) /\ NULL \notin Thread
ASSUME SpinAssumption   == SPIN_COUNT \in Nat
ASSUME RoundsAssumption == ROUNDS \in [Thread -> Nat]

VARIABLES state,     \* the lock word
          node,      \* node[t]: word_lock_queue_data on t's stack
          holds,     \* holds[n]: who holds the mutex of node n's parker
          pc,        \* where each thread is
          expected,  \* the local 'expected' of lock_full and unlock_full
          spin,      \* the local spin_control's spin_count
          current,   \* the local 'current' of unlock_full's walk
          tail,      \* the local 'tail' of unlock_full
          rounds     \* how many times each thread has still to take the lock

vars == <<state, node, holds, pc, expected, spin, current, tail, rounds>>

Pointer == Thread \union {NULL}

Word == [lock : BOOLEAN, queue_lock : BOOLEAN, head : Pointer]

Node == [next : Pointer, prev : Pointer, tail : Pointer, should_park : BOOLEAN]

Zero == [lock |-> FALSE, queue_lock |-> FALSE, head |-> NULL]

Idle   == "idle"         \* not using the lock
Load   == "lf_load"      \* entering lock_full
Loop   == "lf_loop"      \* the loop of lock_full
Parked == "parked"       \* in node.parker.park()
Crit   == "critical"     \* lock() has returned
ULoad  == "uf_load"      \* entering unlock_full
UGrab  == "uf_grab"      \* about to set the queue lock bit
UWalk  == "uf_walk"      \* walking the list for its tail
UDecide == "uf_decide"   \* the walk is done
UStart == "unpark_start" \* about to take the parker's mutex
UWake  == "unpark"
UFinish == "unpark_finish"

Location == {Idle, Load, Loop, Parked, Crit, ULoad, UGrab, UWalk, UDecide,
             UStart, UWake, UFinish}

Init ==
  /\ state = Zero
  /\ node = [t \in Thread |-> [next |-> NULL, prev |-> NULL, tail |-> NULL,
                               should_park |-> FALSE]]
  /\ holds = [t \in Thread |-> NULL]
  /\ pc = [t \in Thread |-> Idle]
  /\ expected = [t \in Thread |-> Zero]
  /\ spin = [t \in Thread |-> SPIN_COUNT]
  /\ current = [t \in Thread |-> NULL]
  /\ tail = [t \in Thread |-> NULL]
  /\ rounds = ROUNDS

Goto(t, l) == pc' = [pc EXCEPT ![t] = l]

(***************************************************************************)
(* lock(): the fast path is one compare-and-swap of the zero word.         *)
(***************************************************************************)
Lock(t) ==
  /\ pc[t] = Idle
  /\ rounds[t] > 0
  /\ rounds' = [rounds EXCEPT ![t] = @ - 1]
  /\ \/ /\ state = Zero
        /\ state' = [state EXCEPT !.lock = TRUE]
        /\ Goto(t, Crit)
     \/ /\ UNCHANGED state
        /\ Goto(t, Load)
  /\ UNCHANGED <<node, holds, expected, spin, current, tail>>

LockFull(t) ==
  /\ pc[t] = Load
  /\ spin' = [spin EXCEPT ![t] = SPIN_COUNT]
  /\ expected' = [expected EXCEPT ![t] = state]
  /\ Goto(t, Loop)
  /\ UNCHANGED <<state, node, holds, current, tail, rounds>>

\* A failed compare-and-swap leaves the word alone and reloads 'expected'.
CasFails(t) ==
  /\ expected' = [expected EXCEPT ![t] = state]
  /\ UNCHANGED state

\* Slip: a store where the code compares and swaps.
StoreSucceeds(t, desired) ==
  /\ state' = desired
  /\ UNCHANGED expected

\* A compare-and-swap of the expected word that succeeds.
CasSucceeds(t, desired) ==
  /\ state = expected[t]
  /\ state' = desired
  /\ UNCHANGED expected

\* lock_full saw the lock bit clear and tries to set it.
TryAcquire(t) ==
  /\ pc[t] = Loop
  /\ ~expected[t].lock
  /\ \/ /\ CasSucceeds(t, [expected[t] EXCEPT !.lock = TRUE])
        /\ Goto(t, Crit)
     \/ /\ CasFails(t)
        /\ UNCHANGED pc
  /\ UNCHANGED <<node, holds, spin, current, tail, rounds>>

\* Slip: the budget is taken below zero.
SpentUnchecked(n) == n - 1

\* spin_control::should_spin, on the budget it is called with.
Spent(n) == IF n > 0 THEN n - 1 ELSE n
should_spin(n) == Spent(n) > 0

\* The lock is held and somebody is queued: yield and reload, for a while.
Spin(t) ==
  /\ pc[t] = Loop
  /\ expected[t].lock
  /\ expected[t].head # NULL
  /\ should_spin(spin[t])
  /\ spin' = [spin EXCEPT ![t] = Spent(@)]
  /\ expected' = [expected EXCEPT ![t] = state]
  /\ UNCHANGED <<state, node, holds, pc, current, tail, rounds>>

\* Push a fresh node in front of the list and park on it.
Enqueue(t) ==
  /\ pc[t] = Loop
  /\ expected[t].lock
  /\ expected[t].head # NULL => ~should_spin(spin[t])
  /\ spin' = [spin EXCEPT ![t] = IF expected[t].head # NULL THEN Spent(@) ELSE @]
  /\ \/ /\ CasSucceeds(t, [expected[t] EXCEPT !.head = t])
        /\ node' = [node EXCEPT ![t] =
             [next |-> expected[t].head, prev |-> NULL,
              tail |-> IF expected[t].head = NULL THEN t ELSE NULL,
              should_park |-> TRUE]]
        /\ Goto(t, Parked)
     \/ /\ CasFails(t)
        /\ UNCHANGED <<node, pc>>
  /\ UNCHANGED <<holds, current, tail, rounds>>

\* Slip: should_park is read without the parker's mutex.
ParkReturnsUnlocked(t) == ~node[t].should_park

\* park() returns once should_park is clear and the parker's mutex is free.
ParkReturns(t) == ~node[t].should_park /\ holds[t] = NULL

Unparked(t) ==
  /\ pc[t] = Parked
  /\ ParkReturns(t)
  /\ spin' = [spin EXCEPT ![t] = SPIN_COUNT]
  /\ expected' = [expected EXCEPT ![t] = state]
  /\ Goto(t, Loop)
  /\ UNCHANGED <<state, node, holds, current, tail, rounds>>

(***************************************************************************)
(* unlock(): clear the lock bit; wake somebody if there are waiters and no *)
(* other thread has the queue locked.                                      *)
(***************************************************************************)
\* Slip: the fast path forgets the threads that wait.
NoWakeup == FALSE

MustWake == ~state.queue_lock /\ state.head # NULL

Unlock(t) ==
  /\ pc[t] = Crit
  /\ state' = [state EXCEPT !.lock = FALSE]
  /\ Goto(t, IF MustWake THEN ULoad ELSE Idle)
  /\ UNCHANGED <<node, holds, expected, spin, current, tail, rounds>>

\* Slip: the queue lock bit is not looked at.
GrabIfQueued(t) == Goto(t, IF state.head = NULL THEN Idle ELSE UGrab)

\* unlock_full gives up when another thread has the queue or nobody waits.
GrabOrReturn(t) ==
  Goto(t, IF state.queue_lock \/ state.head = NULL THEN Idle ELSE UGrab)

UnlockFull(t) ==
  /\ pc[t] = ULoad
  /\ expected' = [expected EXCEPT ![t] = state]
  /\ GrabOrReturn(t)
  /\ UNCHANGED <<state, node, holds, spin, current, tail, rounds>>

\* 'expected' keeps its old value, without the queue lock bit, on success.
GrabQueue(t) ==
  /\ pc[t] = UGrab
  /\ \/ /\ CasSucceeds(t, [expected[t] EXCEPT !.queue_lock = TRUE])
        /\ current' = [current EXCEPT ![t] = expected[t].head]
        /\ Goto(t, UWalk)
     \/ /\ CasFails(t)
        /\ GrabOrReturn(t)
        /\ UNCHANGED current
  /\ UNCHANGED <<node, holds, spin, tail, rounds>>

\* One iteration of the walk: link the next node back, or note the tail.
Walk(t) ==
  /\ pc[t] = UWalk
  /\ LET cur == current[t] IN
     IF node[cur].tail = NULL
     THEN /\ node' = [node EXCEPT ![node[cur].next].prev = cur]
          /\ current' = [current EXCEPT ![t] = node[cur].next]
          /\ UNCHANGED <<tail, pc>>
     ELSE /\ node' = [node EXCEPT ![expected[t].head].tail = node[cur].tail]
          /\ tail' = [tail EXCEPT ![t] = node[cur].tail]
          /\ Goto(t, UDecide)
          /\ UNCHANGED current
  /\ UNCHANGED <<state, holds, expected, spin, rounds>>

\* 'continue' of the outer loop: walk again from the head just loaded.
Rewalk(t) ==
  /\ CasFails(t)
  /\ current' = [current EXCEPT ![t] = state.head]
  /\ Goto(t, UWalk)

\* The lock was taken meanwhile: its holder will do the wakeup.
LeaveToHolder(t) ==
  /\ pc[t] = UDecide
  /\ expected[t].lock
  /\ \/ /\ CasSucceeds(t, [expected[t] EXCEPT !.queue_lock = FALSE])
        /\ Goto(t, Idle)
        /\ UNCHANGED current
     \/ Rewalk(t)
  /\ UNCHANGED <<node, holds, spin, tail, rounds>>

\* The tail is the only waiter: empty the list and drop the queue lock.
PopLast(t) ==
  /\ pc[t] = UDecide
  /\ ~expected[t].lock
  /\ node[tail[t]].prev = NULL
  /\ \/ /\ CasSucceeds(t, [Zero EXCEPT !.lock = expected[t].lock])
        /\ Goto(t, UStart)
        /\ UNCHANGED current
     \/ IF state.head = NULL
        THEN CasFails(t) /\ UNCHANGED <<pc, current>>
        ELSE Rewalk(t)
  /\ UNCHANGED <<node, holds, spin, tail, rounds>>

\* Slip: the thread that is woken stays on the list.
SameTail(t) == tail[t]

NewTail(t) == node[tail[t]].prev

\* Others wait too: cut the tail off and drop the queue lock.
PopTail(t) ==
  /\ pc[t] = UDecide
  /\ ~expected[t].lock
  /\ node[tail[t]].prev # NULL
  /\ node' = [node EXCEPT ![expected[t].head].tail = NewTail(t)]
  /\ state' = [state EXCEPT !.queue_lock = FALSE]
  /\ Goto(t, UStart)
  /\ UNCHANGED <<holds, expected, spin, current, tail, rounds>>

\* The three calls on the parker of the node that was cut off.
UnparkStart(t) ==
  /\ pc[t] = UStart
  /\ holds[tail[t]] = NULL
  /\ holds' = [holds EXCEPT ![tail[t]] = t]
  /\ Goto(t, UWake)
  /\ UNCHANGED <<state, node, expected, spin, current, tail, rounds>>

Unpark(t) ==
  /\ pc[t] = UWake
  /\ node' = [node EXCEPT ![tail[t]].should_park = FALSE]
  /\ Goto(t, UFinish)
  /\ UNCHANGED <<state, holds, expected, spin, current, tail, rounds>>

UnparkFinish(t) ==
  /\ pc[t] = UFinish
  /\ holds' = [holds EXCEPT ![tail[t]] = NULL]
  /\ Goto(t, Idle)
  /\ UNCHANGED <<state, node, expected, spin, current, tail, rounds>>

LockStep(t) == Lock(t) \/ LockFull(t) \/ TryAcquire(t) \/ Spin(t)
                 \/ Enqueue(t) \/ Unparked(t)

UnlockStep(t) == Unlock(t) \/ UnlockFull(t) \/ GrabQueue(t) \/ Walk(t)
                   \/ LeaveToHolder(t) \/ PopLast(t) \/ PopTail(t)
                   \/ UnparkStart(t) \/ Unpark(t) \/ UnparkFinish(t)

\* Every thread has taken and released the lock as often as it wanted to.
AllDone == \A t \in Thread : pc[t] = Idle /\ rounds[t] = 0

Done == AllDone /\ UNCHANGED vars

Next == (\E t \in Thread : LockStep(t) \/ UnlockStep(t)) \/ Done

Spec == Init /\ [][Next]_vars

(***************************************************************************)
(* Fairness.  The threads are scheduled by the operating system, none is   *)
(* suspended for ever, and a weak compare-and-swap whose failure makes     *)
(* unlock_full walk the list again does not fail for no reason for ever.   *)
(***************************************************************************)
Fairness ==
  \A t \in Thread :
    /\ WF_vars(LockStep(t) \/ UnlockStep(t))
    /\ SF_vars(LeaveToHolder(t) /\ pc'[t] = Idle)
    /\ SF_vars(PopLast(t) /\ pc'[t] = UStart)

FairSpec == Spec /\ Fairness

-----------------------------------------------------------------------------
(***************************************************************************)
(* Properties.                                                             *)
(***************************************************************************)

\* Every variable keeps its type.
TypeOK ==
  /\ state \in Word
  /\ node \in [Thread -> Node]
  /\ holds \in [Thread -> Pointer]
  /\ pc \in [Thread -> Location]
  /\ expected \in [Thread -> Word]
  /\ spin \in [Thread -> Nat]
  /\ current \in [Thread -> Pointer]
  /\ tail \in [Thread -> Pointer]
  /\ rounds \in [Thread -> Nat]

\* What lock() promises: no two threads are between lock() and unlock(),
\* whichever of the fast path, the spinning and the wakeup let them in.
MutualExclusion ==
  \A t, u \in Thread : pc[t] = Crit /\ pc[u] = Crit => t = u

\* unlock_full's walk and surgery on the list run under the queue lock bit:
\* two unlockers never process the same nodes.
QueueExclusion ==
  \A t, u \in Thread :
    pc[t] \in {UWalk, UDecide} /\ pc[u] \in {UWalk, UDecide} => t = u

\* A node that its thread still waits on: the stack frame it lives in is live.
Waiting(n) == n \in Thread /\ pc[n] = Parked /\ node[n].should_park

\* unlock_full dereferences only nodes whose thread cannot leave lock_full's
\* frame before unpark_finish, and the halide_assert(next != NULL) of its walk
\* never fires.
NodesLive ==
  \A t \in Thread :
    /\ pc[t] = UWalk => /\ Waiting(current[t])
                        /\ Waiting(expected[t].head)
                        /\ node[current[t]].tail = NULL
                             => Waiting(node[current[t]].next)
    /\ pc[t] = UDecide => Waiting(tail[t]) /\ Waiting(expected[t].head)
    /\ pc[t] \in {UStart, UWake} => Waiting(tail[t])
    /\ pc[t] = UFinish => pc[tail[t]] = Parked

\* The nodes the next pointers lead to from the head; what lies beyond the
\* tail is stale.
Path ==
  LET path[k \in 0..Cardinality(Thread)] ==
        IF k = 0 THEN state.head
        ELSE IF path[k - 1] = NULL THEN NULL ELSE node[path[k - 1]].next
  IN  path

\* The nodes on the list: the first one that knows the tail is right about it.
Listed ==
  IF state.head = NULL THEN {}
  ELSE LET knows == {k \in DOMAIN Path : Path[k] # NULL /\ node[Path[k]].tail # NULL}
           last  == node[Path[Min(knows)]].tail
           end   == Min({k \in DOMAIN Path : Path[k] = last})
       IN  {Path[k] : k \in 0..end}

\* Nodes cut off the list whose thread is about to be woken.
BeingWoken == {tail[t] : t \in {u \in Thread : pc[u] \in {UStart, UWake}}}

\* A parked thread is on the list or is being woken, never both and never
\* neither: pushing a node while unlock_full processes the list loses nobody.
\* And no node is followed whose thread may have left lock_full.
WaitersConserved ==
  /\ NodesLive
  /\ {t \in Thread : Waiting(t)} = Listed \union BeingWoken
  /\ Listed \intersect BeingWoken = {}

\* Every thread that asks for the lock gets it, as long as the others release
\* it: no interleaving of a queueing thread and an unlocking one loses the
\* wakeup and leaves a thread parked.
Termination == <>AllDone

=============================================================================
