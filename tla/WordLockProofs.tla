--------------------------- MODULE WordLockProofs ---------------------------
(***************************************************************************)
(* Proofs that word_lock keeps its types, excludes two holders, has one    *)
(* thread at a time at work on the list and loses no waiting thread, for   *)
(* any finite set of threads, any spin budget and any number of rounds.    *)
(***************************************************************************)
EXTENDS WordLock, FiniteSetTheorems, WellFoundedInduction, TLAPS

\* A node that has been pushed at least once knows its successor or a tail.
Pushed(n) == n \in Thread /\ (node[n].next # NULL \/ node[n].tail # NULL)

\* The lock bit is set as long as somebody is between lock() and unlock().
LockInv ==
  /\ \A t \in Thread : pc[t] = Crit => state.lock
  /\ MutualExclusion

\* The queue lock bit is set, and the list not empty, as long as somebody
\* processes the list; unlock_full tries to set the bit only where it is clear.
QueueInv ==
  /\ \A t \in Thread : pc[t] \in {UWalk, UDecide} => state.queue_lock
  /\ state.queue_lock => state.head # NULL
  /\ \A t \in Thread : pc[t] = UGrab
       => ~expected[t].queue_lock /\ expected[t].head # NULL
  /\ QueueExclusion

\* The pointers unlock_full follows are never null.
WalkInv ==
  /\ state.head # NULL => Pushed(state.head)
  /\ \A n \in Thread : node[n].next # NULL => Pushed(node[n].next)
  /\ \A t \in Thread :
       /\ pc[t] = UWalk => Pushed(current[t]) /\ expected[t].head # NULL
       /\ pc[t] = UDecide => tail[t] # NULL /\ expected[t].head # NULL
       /\ pc[t] \in {UStart, UWake, UFinish} => tail[t] # NULL

IInv == TypeOK /\ LockInv /\ QueueInv /\ WalkInv

-----------------------------------------------------------------------------
USE DEF Idle, Load, Loop, Parked, Crit, ULoad, UGrab, UWalk, UDecide, UStart,
        UWake, UFinish

\* The initial state satisfies the inductive invariant.
LEMMA InitInv == Init => IInv
  BY ThreadAssumption, SpinAssumption, RoundsAssumption
  DEF Init, IInv, TypeOK, Word, Node, Pointer, Location, Zero, LockInv,
      MutualExclusion, QueueInv, QueueExclusion, WalkInv, Pushed

\* A word keeps its shape when one of its fields is replaced.
LEMMA WordUpdate ==
  ASSUME NEW w \in Word
  PROVE  /\ w.lock \in BOOLEAN /\ w.queue_lock \in BOOLEAN /\ w.head \in Pointer
         /\ \A b \in BOOLEAN : /\ [w EXCEPT !.lock = b] \in Word
                              /\ [w EXCEPT !.queue_lock = b] \in Word
         /\ \A p \in Pointer : [w EXCEPT !.head = p] \in Word
  BY DEF Word

\* A node keeps its type when one field of it, next excepted, is replaced.
LEMMA NodeUpdate ==
  ASSUME NEW f \in [Thread -> Node], NEW n \in Thread
  PROVE  /\ \A p \in Pointer : /\ [f EXCEPT ![n].prev = p] \in [Thread -> Node]
                              /\ [f EXCEPT ![n].tail = p] \in [Thread -> Node]
         /\ \A b \in BOOLEAN : [f EXCEPT ![n].should_park = b] \in [Thread -> Node]
  BY DEF Node

\* No such replacement changes a next pointer, and only one changes a tail.
LEMMA NodeFields ==
  ASSUME NEW f \in [Thread -> Node], NEW n \in Thread, NEW m \in Thread, NEW p \in Pointer
  PROVE  /\ [f EXCEPT ![n].prev = p][m].next = f[m].next
         /\ [f EXCEPT ![n].prev = p][m].tail = f[m].tail
         /\ [f EXCEPT ![n].tail = p][m].next = f[m].next
         /\ [f EXCEPT ![n].tail = p][m].tail = IF m = n THEN p ELSE f[m].tail
  BY DEF Node

\* Every step of every thread keeps the types.
LEMMA TypesKept == ASSUME IInv, [Next]_vars PROVE TypeOK'
<1> SUFFICES ASSUME NEW t \in Thread, LockStep(t) \/ UnlockStep(t) PROVE TypeOK'
  BY DEF Next, Done, vars, IInv, TypeOK
<1> USE ThreadAssumption, SpinAssumption DEF TypeOK, Location
<1>0. /\ state \in Word /\ expected[t] \in Word /\ current[t] \in Pointer
      /\ tail[t] \in Pointer /\ TypeOK
  BY DEF IInv, TypeOK
<1>1. CASE Lock(t)
  <2>0. [state EXCEPT !.lock = TRUE] \in Word
    BY <1>0 DEF Word
  <2>1. state' \in Word
    BY <1>0, <1>1, <2>0 DEF Lock
  <2>. QED  BY <2>1, <1>0, <1>1 DEF Lock, Goto
<1>2. CASE LockFull(t)
  BY <1>0, <1>2 DEF LockFull, Goto
<1>3. CASE TryAcquire(t)
  <2>0. [expected[t] EXCEPT !.lock = TRUE] \in Word
    BY <1>0 DEF Word
  <2>1. state' \in Word /\ expected' \in [Thread -> Word]
    BY <1>0, <1>3, <2>0 DEF TryAcquire, CasSucceeds, CasFails
  <2>. QED  BY <2>1, <1>0, <1>3 DEF TryAcquire, Goto
<1>4. CASE Spin(t)
  BY <1>0, <1>4 DEF Spin, Spent, should_spin
<1>5. CASE Enqueue(t)
  <2>1. state' \in Word /\ expected' \in [Thread -> Word]
    BY <1>0, <1>5, WordUpdate DEF Enqueue, CasSucceeds, CasFails, Pointer
  <2>2. node' \in [Thread -> Node]
    <3>1. [next |-> expected[t].head, prev |-> NULL,
           tail |-> IF expected[t].head = NULL THEN t ELSE NULL,
           should_park |-> TRUE] \in Node
      BY <1>0, WordUpdate DEF Node, Pointer
    <3>. QED  BY <1>0, <1>5, <3>1 DEF Enqueue
  <2>3. spin' \in [Thread -> Nat]
    BY <1>0, <1>5 DEF Enqueue, Spent
  <2>. QED  BY <2>1, <2>2, <2>3, <1>0, <1>5 DEF Enqueue, Goto
<1>6. CASE Unparked(t)
  BY <1>0, <1>6 DEF Unparked, ParkReturns, Goto
<1>7. CASE Unlock(t)
  <2>1. state' \in Word
    BY <1>0, <1>7, WordUpdate DEF Unlock
  <2>. QED  BY <2>1, <1>0, <1>7 DEF Unlock, Goto
<1>8. CASE UnlockFull(t)
  BY <1>0, <1>8 DEF UnlockFull, Goto, GrabOrReturn
<1>9. CASE GrabQueue(t)
  <2>0. [expected[t] EXCEPT !.queue_lock = TRUE] \in Word
    BY <1>0 DEF Word
  <2>1. state' \in Word /\ expected' \in [Thread -> Word]
    <3>1. CASE CasSucceeds(t, [expected[t] EXCEPT !.queue_lock = TRUE])
      BY <1>0, <2>0, <3>1 DEF CasSucceeds
    <3>2. CASE CasFails(t)
      BY <1>0, <3>2 DEF CasFails
    <3>. QED  BY <1>9, <3>1, <3>2 DEF GrabQueue
  <2>2. current' \in [Thread -> Pointer]
    BY <1>0, <1>9, WordUpdate DEF GrabQueue
  <2>. QED  BY <2>1, <2>2, <1>0, <1>9 DEF GrabQueue, GrabOrReturn, Goto
<1>10. CASE Walk(t)
  <2>1. node[current[t]].next \in Thread \/ node[current[t]].tail # NULL
    BY <1>10, <1>0 DEF Walk, IInv, WalkInv, Pushed, Node, Pointer
  <2>2. current[t] \in Thread /\ expected[t].head \in Thread
    BY <1>10, <1>0, WordUpdate DEF Walk, IInv, WalkInv, Pushed, Pointer
  <2>3. node[current[t]].next \in Pointer /\ node[current[t]].tail \in Pointer
    BY <1>0, <2>2 DEF Node
  <2>4. node' \in [Thread -> Node]
    <3>1. CASE node[current[t]].tail = NULL
      <4>1. node' = [node EXCEPT ![node[current[t]].next].prev = current[t]]
        BY <1>10, <3>1 DEF Walk
      <4>. QED  BY <1>0, <2>1, <3>1, <4>1, NodeUpdate
    <3>2. CASE node[current[t]].tail # NULL
      <4>1. node' = [node EXCEPT ![expected[t].head].tail = node[current[t]].tail]
        BY <1>10, <3>2 DEF Walk
      <4>. QED  BY <1>0, <2>2, <2>3, <4>1, NodeUpdate
    <3>. QED  BY <3>1, <3>2
  <2>. QED  BY <1>0, <1>10, <2>3, <2>4 DEF Walk, Goto
<1>11. CASE LeaveToHolder(t)
  <2>0. [expected[t] EXCEPT !.queue_lock = FALSE] \in Word
    BY <1>0 DEF Word
  <2>1. state' \in Word /\ expected' \in [Thread -> Word]
    <3>1. CASE CasSucceeds(t, [expected[t] EXCEPT !.queue_lock = FALSE])
      BY <1>0, <2>0, <3>1 DEF CasSucceeds
    <3>2. CASE Rewalk(t)
      BY <1>0, <3>2 DEF CasFails, Rewalk
    <3>. QED  BY <1>11, <3>1, <3>2 DEF LeaveToHolder
  <2>2. current' \in [Thread -> Pointer]
    <3>1. UNCHANGED current \/ Rewalk(t)
      BY <1>11 DEF LeaveToHolder
    <3>2. CASE Rewalk(t)
      BY <1>0, <3>2 DEF Rewalk, Word
    <3>. QED  BY <1>0, <3>1, <3>2
  <2>. QED  BY <2>1, <2>2, <1>0, <1>11 DEF LeaveToHolder, Rewalk, Goto
<1>12. CASE PopLast(t)
  <2>0. [Zero EXCEPT !.lock = expected[t].lock] \in Word
    BY <1>0 DEF Word, Zero, Pointer
  <2>1. state' \in Word /\ expected' \in [Thread -> Word]
    BY <1>0, <1>12, <2>0 DEF PopLast, CasSucceeds, CasFails, Rewalk
  <2>2. current' \in [Thread -> Pointer]
    <3>1. UNCHANGED current \/ Rewalk(t)
      BY <1>12 DEF PopLast
    <3>2. CASE Rewalk(t)
      BY <1>0, <3>2 DEF Rewalk, Word
    <3>. QED  BY <1>0, <3>1, <3>2
  <2>. QED  BY <2>1, <2>2, <1>0, <1>12 DEF PopLast, Rewalk, Goto
<1>13. CASE PopTail(t)
  <2>1. expected[t].head \in Thread /\ tail[t] \in Thread
    BY <1>13, <1>0, WordUpdate DEF PopTail, NewTail, IInv, WalkInv, Pointer
  <2>2. node[tail[t]].prev \in Pointer
    BY <1>0, <2>1 DEF Node
  <2>3. node' \in [Thread -> Node]
    BY <1>0, <1>13, <2>1, <2>2, NodeUpdate DEF PopTail, NewTail
  <2>4. state' \in Word
    BY <1>0, <1>13, WordUpdate DEF PopTail, NewTail
  <2>. QED  BY <2>3, <2>4, <1>0, <1>13 DEF PopTail, NewTail, Goto
<1>14. CASE UnparkStart(t)
  <2>1. tail[t] \in Thread /\ t \in Pointer
    BY <1>14, <1>0 DEF UnparkStart, IInv, WalkInv, Pointer
  <2>. QED  BY <2>1, <1>0, <1>14 DEF UnparkStart, Goto
<1>15. CASE Unpark(t)
  <2>1. tail[t] \in Thread
    BY <1>15, <1>0 DEF Unpark, IInv, WalkInv, Pointer
  <2>2. node' \in [Thread -> Node]
    BY <1>0, <1>15, <2>1, NodeUpdate DEF Unpark
  <2>. QED  BY <2>2, <1>0, <1>15 DEF Unpark, Goto
<1>16. CASE UnparkFinish(t)
  <2>1. tail[t] \in Thread /\ NULL \in Pointer
    BY <1>16, <1>0 DEF UnparkFinish, IInv, WalkInv, Pointer
  <2>. QED  BY <2>1, <1>0, <1>16 DEF UnparkFinish, Goto
<1>. QED
  BY <1>1, <1>2, <1>3, <1>4, <1>5, <1>6, <1>7, <1>8,
     <1>9, <1>10, <1>11, <1>12, <1>13, <1>14, <1>15, <1>16 DEF LockStep, UnlockStep

\* Every step keeps the lock bit set while somebody holds the lock.
LEMMA LockKept == ASSUME IInv, [Next]_vars PROVE LockInv'
<1> SUFFICES ASSUME NEW t \in Thread, LockStep(t) \/ UnlockStep(t) PROVE LockInv'
  BY DEF Next, Done, vars, IInv, Word, Pointer, Zero, LockInv, MutualExclusion
<1> USE ThreadAssumption, SpinAssumption DEF IInv, TypeOK, Word, Pointer, Zero, LockInv, MutualExclusion
<1>0. /\ state \in Word /\ expected[t] \in Word /\ current[t] \in Pointer
      /\ tail[t] \in Pointer
  BY DEF IInv, TypeOK
<1>1. CASE Lock(t)
  <2>1. CASE Goto(t, Crit) /\ state = Zero /\ state' = [state EXCEPT !.lock = TRUE]
    BY <1>1, <1>0, <2>1, WordUpdate DEF Lock, Goto
  <2>2. CASE Goto(t, Load) /\ UNCHANGED state
    BY <1>1, <1>0, <2>2, WordUpdate DEF Lock, Goto
  <2>. QED  BY <1>1, <2>1, <2>2 DEF Lock
<1>2. CASE LockFull(t)
  BY <1>0, <1>2 DEF LockFull, Goto
<1>3. CASE TryAcquire(t)
  <2>1. CASE Goto(t, Crit) /\ CasSucceeds(t, [expected[t] EXCEPT !.lock = TRUE])
    BY <1>3, <1>0, <2>1, WordUpdate DEF TryAcquire, Goto, CasSucceeds
  <2>2. CASE CasFails(t) /\ UNCHANGED pc
    BY <1>3, <1>0, <2>2, WordUpdate DEF TryAcquire, CasFails
  <2>. QED  BY <1>3, <2>1, <2>2 DEF TryAcquire
<1>4. CASE Spin(t)
  BY <1>0, <1>4 DEF Spin, Spent, should_spin
<1>5. CASE Enqueue(t)
  <2>1. CASE Goto(t, Parked) /\ CasSucceeds(t, [expected[t] EXCEPT !.head = t])
    BY <1>5, <1>0, <2>1, WordUpdate DEF Enqueue, Goto, CasSucceeds
  <2>2. CASE CasFails(t) /\ UNCHANGED <<node, pc>>
    BY <1>5, <1>0, <2>2, WordUpdate DEF Enqueue, CasFails
  <2>. QED  BY <1>5, <2>1, <2>2 DEF Enqueue
<1>6. CASE Unparked(t)
  BY <1>0, <1>6 DEF Unparked, ParkReturns, Goto
<1>7. CASE Unlock(t)
  BY <1>0, <1>7 DEF Unlock, MustWake, Goto
<1>8. CASE UnlockFull(t)
  BY <1>0, <1>8 DEF UnlockFull, Goto, GrabOrReturn
<1>9. CASE GrabQueue(t)
  <2>1. CASE /\ CasSucceeds(t, [expected[t] EXCEPT !.queue_lock = TRUE])
            /\ current' = [current EXCEPT ![t] = expected[t].head]
            /\ Goto(t, UWalk)
    BY <1>9, <1>0, <2>1, WordUpdate DEF GrabQueue, Goto, CasSucceeds
  <2>2. CASE CasFails(t) /\ GrabOrReturn(t) /\ UNCHANGED current
    BY <1>9, <1>0, <2>2, WordUpdate DEF GrabQueue, Goto, CasFails, GrabOrReturn
  <2>. QED  BY <1>9, <2>1, <2>2 DEF GrabQueue
<1>10. CASE Walk(t)
  BY <1>0, <1>10 DEF Walk, Goto
<1>11. CASE LeaveToHolder(t)
  <2>1. CASE /\ CasSucceeds(t, [expected[t] EXCEPT !.queue_lock = FALSE])
            /\ Goto(t, Idle)
            /\ UNCHANGED current
    BY <1>11, <1>0, <2>1, WordUpdate DEF LeaveToHolder, Goto, CasSucceeds
  <2>2. CASE Rewalk(t)
    BY <1>11, <1>0, <2>2, WordUpdate DEF LeaveToHolder, Goto, CasFails, Rewalk
  <2>. QED  BY <1>11, <2>1, <2>2 DEF LeaveToHolder
<1>12. CASE PopLast(t)
  <2>1. CASE /\ CasSucceeds(t, [Zero EXCEPT !.lock = expected[t].lock])
            /\ Goto(t, UStart)
            /\ UNCHANGED current
    BY <1>12, <1>0, <2>1, WordUpdate DEF PopLast, Goto, CasSucceeds
  <2>2. CASE state.head = NULL /\ CasFails(t) /\ UNCHANGED <<pc, current>>
    BY <1>12, <1>0, <2>2, WordUpdate DEF PopLast, CasFails
  <2>3. CASE state.head # NULL /\ Rewalk(t)
    BY <1>12, <1>0, <2>3, WordUpdate DEF PopLast, Goto, CasFails, Rewalk
  <2>. QED  BY <1>12, <2>1, <2>2, <2>3 DEF PopLast
<1>13. CASE PopTail(t)
  BY <1>0, <1>13 DEF PopTail, NewTail, Goto
<1>14. CASE UnparkStart(t)
  BY <1>0, <1>14 DEF UnparkStart, Goto
<1>15. CASE Unpark(t)
  BY <1>0, <1>15 DEF Unpark, Goto
<1>16. CASE UnparkFinish(t)
  BY <1>0, <1>16 DEF UnparkFinish, Goto
<1>. QED
  BY <1>1, <1>2, <1>3, <1>4, <1>5, <1>6, <1>7, <1>8,
     <1>9, <1>10, <1>11, <1>12, <1>13, <1>14, <1>15, <1>16 DEF LockStep, UnlockStep

\* Every step keeps the queue lock bit set while somebody walks the list.
LEMMA QueueKept == ASSUME IInv, [Next]_vars PROVE QueueInv'
<1> SUFFICES ASSUME NEW t \in Thread, LockStep(t) \/ UnlockStep(t) PROVE QueueInv'
  BY DEF Next, Done, vars, IInv, Word, Pointer, Zero, QueueInv, QueueExclusion
<1> USE ThreadAssumption, SpinAssumption DEF IInv, TypeOK, Word, Pointer, Zero, QueueInv, QueueExclusion
<1>0. /\ state \in Word /\ expected[t] \in Word /\ current[t] \in Pointer
      /\ tail[t] \in Pointer
  BY DEF IInv, TypeOK
<1>1. CASE Lock(t)
  <2>1. CASE Goto(t, Crit) /\ state = Zero /\ state' = [state EXCEPT !.lock = TRUE]
    BY <1>1, <1>0, <2>1, WordUpdate DEF Lock, Goto
  <2>2. CASE Goto(t, Load) /\ UNCHANGED state
    BY <1>1, <1>0, <2>2, WordUpdate DEF Lock, Goto
  <2>. QED  BY <1>1, <2>1, <2>2 DEF Lock
<1>2. CASE LockFull(t)
  BY <1>0, <1>2 DEF LockFull, Goto
<1>3. CASE TryAcquire(t)
  <2>1. CASE Goto(t, Crit) /\ CasSucceeds(t, [expected[t] EXCEPT !.lock = TRUE])
    BY <1>3, <1>0, <2>1, WordUpdate DEF TryAcquire, Goto, CasSucceeds
  <2>2. CASE CasFails(t) /\ UNCHANGED pc
    BY <1>3, <1>0, <2>2, WordUpdate DEF TryAcquire, CasFails
  <2>. QED  BY <1>3, <2>1, <2>2 DEF TryAcquire
<1>4. CASE Spin(t)
  BY <1>0, <1>4 DEF Spin, Spent, should_spin
<1>5. CASE Enqueue(t)
  <2>1. CASE Goto(t, Parked) /\ CasSucceeds(t, [expected[t] EXCEPT !.head = t])
    BY <1>5, <1>0, <2>1, WordUpdate DEF Enqueue, Goto, CasSucceeds
  <2>2. CASE CasFails(t) /\ UNCHANGED <<node, pc>>
    BY <1>5, <1>0, <2>2, WordUpdate DEF Enqueue, CasFails
  <2>. QED  BY <1>5, <2>1, <2>2 DEF Enqueue
<1>6. CASE Unparked(t)
  BY <1>0, <1>6 DEF Unparked, ParkReturns, Goto
<1>7. CASE Unlock(t)
  BY <1>0, <1>7 DEF Unlock, MustWake, Goto
<1>8. CASE UnlockFull(t)
  BY <1>0, <1>8 DEF UnlockFull, Goto, GrabOrReturn
<1>9. CASE GrabQueue(t)
  <2>1. CASE /\ CasSucceeds(t, [expected[t] EXCEPT !.queue_lock = TRUE])
            /\ current' = [current EXCEPT ![t] = expected[t].head]
            /\ Goto(t, UWalk)
    BY <1>9, <1>0, <2>1, WordUpdate DEF GrabQueue, Goto, CasSucceeds
  <2>2. CASE CasFails(t) /\ GrabOrReturn(t) /\ UNCHANGED current
    BY <1>9, <1>0, <2>2, WordUpdate DEF GrabQueue, Goto, CasFails, GrabOrReturn
  <2>. QED  BY <1>9, <2>1, <2>2 DEF GrabQueue
<1>10. CASE Walk(t)
  BY <1>0, <1>10 DEF Walk, Goto
<1>11. CASE LeaveToHolder(t)
  <2>1. CASE /\ CasSucceeds(t, [expected[t] EXCEPT !.queue_lock = FALSE])
            /\ Goto(t, Idle)
            /\ UNCHANGED current
    BY <1>11, <1>0, <2>1, WordUpdate DEF LeaveToHolder, Goto, CasSucceeds
  <2>2. CASE Rewalk(t)
    BY <1>11, <1>0, <2>2, WordUpdate DEF LeaveToHolder, Goto, CasFails, Rewalk
  <2>. QED  BY <1>11, <2>1, <2>2 DEF LeaveToHolder
<1>12. CASE PopLast(t)
  <2>1. CASE /\ CasSucceeds(t, [Zero EXCEPT !.lock = expected[t].lock])
            /\ Goto(t, UStart)
            /\ UNCHANGED current
    BY <1>12, <1>0, <2>1, WordUpdate DEF PopLast, Goto, CasSucceeds
  <2>2. CASE state.head = NULL /\ CasFails(t) /\ UNCHANGED <<pc, current>>
    BY <1>12, <1>0, <2>2, WordUpdate DEF PopLast, CasFails
  <2>3. CASE state.head # NULL /\ Rewalk(t)
    BY <1>12, <1>0, <2>3, WordUpdate DEF PopLast, Goto, CasFails, Rewalk
  <2>. QED  BY <1>12, <2>1, <2>2, <2>3 DEF PopLast
<1>13. CASE PopTail(t)
  BY <1>0, <1>13 DEF PopTail, NewTail, Goto
<1>14. CASE UnparkStart(t)
  BY <1>0, <1>14 DEF UnparkStart, Goto
<1>15. CASE Unpark(t)
  BY <1>0, <1>15 DEF Unpark, Goto
<1>16. CASE UnparkFinish(t)
  BY <1>0, <1>16 DEF UnparkFinish, Goto
<1>. QED
  BY <1>1, <1>2, <1>3, <1>4, <1>5, <1>6, <1>7, <1>8,
     <1>9, <1>10, <1>11, <1>12, <1>13, <1>14, <1>15, <1>16 DEF LockStep, UnlockStep

\* Every step keeps the pointers of the walk non-null.
LEMMA WalkKept == ASSUME IInv, [Next]_vars PROVE WalkInv'
<1> SUFFICES ASSUME NEW t \in Thread, LockStep(t) \/ UnlockStep(t) PROVE WalkInv'
  BY DEF Next, Done, vars, IInv, Word, Node, Pointer, Zero, QueueInv, QueueExclusion, WalkInv, Pushed
<1> USE ThreadAssumption, SpinAssumption DEF IInv, TypeOK, Word, Node, Pointer, Zero, QueueInv, QueueExclusion, WalkInv, Pushed
<1>0. /\ state \in Word /\ expected[t] \in Word /\ current[t] \in Pointer
      /\ tail[t] \in Pointer
  BY DEF IInv, TypeOK
<1>1. CASE Lock(t)
  <2>1. CASE Goto(t, Crit) /\ state = Zero /\ state' = [state EXCEPT !.lock = TRUE]
    BY <1>1, <1>0, <2>1, WordUpdate DEF Lock, Goto
  <2>2. CASE Goto(t, Load) /\ UNCHANGED state
    BY <1>1, <1>0, <2>2, WordUpdate DEF Lock, Goto
  <2>. QED  BY <1>1, <2>1, <2>2 DEF Lock
<1>2. CASE LockFull(t)
  BY <1>0, <1>2 DEF LockFull, Goto
<1>3. CASE TryAcquire(t)
  <2>1. CASE Goto(t, Crit) /\ CasSucceeds(t, [expected[t] EXCEPT !.lock = TRUE])
    BY <1>3, <1>0, <2>1, WordUpdate DEF TryAcquire, Goto, CasSucceeds
  <2>2. CASE CasFails(t) /\ UNCHANGED pc
    BY <1>3, <1>0, <2>2, WordUpdate DEF TryAcquire, CasFails
  <2>. QED  BY <1>3, <2>1, <2>2 DEF TryAcquire
<1>4. CASE Spin(t)
  BY <1>0, <1>4 DEF Spin, Spent, should_spin
<1>5. CASE Enqueue(t)
  <2>1. CASE Goto(t, Parked) /\ CasSucceeds(t, [expected[t] EXCEPT !.head = t])
    <3>1. state'.head = t /\ t # NULL /\ pc' = [pc EXCEPT ![t] = Parked]
      BY <1>5, <2>1, <1>0, WordUpdate DEF Goto, CasSucceeds
    <3>2. node' = [node EXCEPT ![t] = node'[t]]
      BY <1>5, <2>1, <1>0 DEF Enqueue
    <3>3. /\ node'[t].next = expected[t].head
          /\ node'[t].next # NULL \/ node'[t].tail # NULL
      BY <1>5, <2>1, <3>1 DEF Enqueue
    <3>4. \A n \in Pointer : Pushed(n) => Pushed(n)'
      BY <3>2, <3>3 DEF Pushed
    <3>5. expected[t].head # NULL => Pushed(expected[t].head)
      BY <2>1 DEF CasSucceeds
    <3>6. (\A n \in Thread : node[n].next # NULL => Pushed(node[n].next))'
      BY <3>2, <3>3, <3>4, <3>5
    <3>7. UNCHANGED <<expected, current, tail>>
      BY <1>5, <2>1 DEF Enqueue, CasSucceeds
    <3>8. \A u \in Thread : pc'[u] \in {UWalk, UDecide, UStart, UWake, UFinish}
                             => pc'[u] = pc[u]
      BY <3>1
    <3>. QED  BY <3>1, <3>3, <3>4, <3>6, <3>7, <3>8
  <2>2. CASE CasFails(t) /\ UNCHANGED <<node, pc>>
    BY <1>5, <1>0, <2>2, WordUpdate DEF Enqueue, CasFails
  <2>. QED  BY <1>5, <2>1, <2>2 DEF Enqueue
<1>6. CASE Unparked(t)
  BY <1>0, <1>6 DEF Unparked, ParkReturns, Goto
<1>7. CASE Unlock(t)
  BY <1>0, <1>7 DEF Unlock, MustWake, Goto
<1>8. CASE UnlockFull(t)
  BY <1>0, <1>8 DEF UnlockFull, Goto, GrabOrReturn
<1>9. CASE GrabQueue(t)
  <2>1. CASE /\ CasSucceeds(t, [expected[t] EXCEPT !.queue_lock = TRUE])
            /\ current' = [current EXCEPT ![t] = expected[t].head]
            /\ Goto(t, UWalk)
    BY <1>9, <1>0, <2>1, WordUpdate DEF GrabQueue, Goto, CasSucceeds
  <2>2. CASE CasFails(t) /\ GrabOrReturn(t) /\ UNCHANGED current
    BY <1>9, <1>0, <2>2, WordUpdate DEF GrabQueue, Goto, CasFails, GrabOrReturn
  <2>. QED  BY <1>9, <2>1, <2>2 DEF GrabQueue
<1>10. CASE Walk(t)
  <2>1. current[t] \in Thread /\ expected[t].head \in Thread
    BY <1>10, <1>0 DEF Walk
  <2>2. node[current[t]].tail = NULL => node[current[t]].next \in Thread
    BY <1>10, <2>1 DEF Walk
  <2>3. \A n \in Thread : /\ node'[n].next = node[n].next
                          /\ node[n].tail # NULL => node'[n].tail # NULL
    <3>1. CASE node[current[t]].tail = NULL
      <4>1. node' = [node EXCEPT ![node[current[t]].next].prev = current[t]]
        BY <1>10, <3>1 DEF Walk
      <4>. QED  BY <1>0, <2>2, <3>1, <4>1, NodeFields
    <3>2. CASE node[current[t]].tail # NULL
      <4>1. node' = [node EXCEPT ![expected[t].head].tail = node[current[t]].tail]
        BY <1>10, <3>2 DEF Walk
      <4>2. node[current[t]].tail \in Pointer
        BY <2>1
      <4>. QED  BY <2>1, <3>2, <4>1, <4>2, NodeFields
    <3>. QED  BY <3>1, <3>2
  <2>5. \A n \in Pointer : Pushed(n) => Pushed(n)'
    BY <2>3
  <2>6. Pushed(current[t])' /\ (pc'[t] = UDecide => tail'[t] # NULL)
    BY <1>10, <2>1, <2>2, <2>5 DEF Walk, Goto
  <2>7. (\A n \in Thread : node[n].next # NULL => Pushed(node[n].next))'
    BY <2>3, <2>5
  <2>8. \A u \in Thread \ {t} :
          pc'[u] = pc[u] /\ current'[u] = current[u] /\ tail'[u] = tail[u]
    BY <1>10 DEF Walk, Goto
  <2>9. UNCHANGED <<state, expected>> /\ pc'[t] \in {UWalk, UDecide}
    BY <1>10 DEF Walk, Goto
  <2>. QED  BY <1>10, <2>1, <2>5, <2>6, <2>7, <2>8, <2>9
<1>11. CASE LeaveToHolder(t)
  <2>1. CASE /\ CasSucceeds(t, [expected[t] EXCEPT !.queue_lock = FALSE])
            /\ Goto(t, Idle)
            /\ UNCHANGED current
    BY <1>11, <1>0, <2>1, WordUpdate DEF LeaveToHolder, Goto, CasSucceeds
  <2>2. CASE Rewalk(t)
    BY <1>11, <1>0, <2>2, WordUpdate DEF LeaveToHolder, Goto, CasFails, Rewalk
  <2>. QED  BY <1>11, <2>1, <2>2 DEF LeaveToHolder
<1>12. CASE PopLast(t)
  <2>1. CASE /\ CasSucceeds(t, [Zero EXCEPT !.lock = expected[t].lock])
            /\ Goto(t, UStart)
            /\ UNCHANGED current
    BY <1>12, <1>0, <2>1, WordUpdate DEF PopLast, Goto, CasSucceeds
  <2>2. CASE state.head = NULL /\ CasFails(t) /\ UNCHANGED <<pc, current>>
    BY <1>12, <1>0, <2>2, WordUpdate DEF PopLast, CasFails
  <2>3. CASE state.head # NULL /\ Rewalk(t)
    BY <1>12, <1>0, <2>3, WordUpdate DEF PopLast, Goto, CasFails, Rewalk
  <2>. QED  BY <1>12, <2>1, <2>2, <2>3 DEF PopLast
<1>13. CASE PopTail(t)
  <2>1. tail[t] \in Thread /\ expected[t].head \in Thread
    BY <1>13, <1>0 DEF PopTail, NewTail
  <2>2. \A n \in Thread : /\ node'[n].next = node[n].next
                          /\ node[n].tail # NULL => node'[n].tail # NULL
    <3>1. node' = [node EXCEPT ![expected[t].head].tail = node[tail[t]].prev]
      BY <1>13 DEF PopTail, NewTail
    <3>2. node[tail[t]].prev \in Pointer /\ node[tail[t]].prev # NULL
      BY <1>13, <2>1 DEF PopTail, NewTail
    <3>. QED  BY <2>1, <3>1, <3>2, NodeFields
  <2>3. \A n \in Pointer : Pushed(n) => Pushed(n)'
    BY <2>2
  <2>4. (\A n \in Thread : node[n].next # NULL => Pushed(node[n].next))'
    BY <2>2, <2>3
  <2>5. \A u \in Thread : u # t => pc'[u] = pc[u]
    BY <1>13 DEF PopTail, NewTail, Goto
  <2>6. UNCHANGED <<expected, current, tail>> /\ state'.head = state.head /\ pc'[t] = UStart
    BY <1>13 DEF PopTail, NewTail, Goto
  <2>. QED  BY <2>1, <2>3, <2>4, <2>5, <2>6
<1>14. CASE UnparkStart(t)
  BY <1>0, <1>14 DEF UnparkStart, Goto
<1>15. CASE Unpark(t)
  BY <1>0, <1>15 DEF Unpark, Goto
<1>16. CASE UnparkFinish(t)
  BY <1>0, <1>16 DEF UnparkFinish, Goto
<1>. QED
  BY <1>1, <1>2, <1>3, <1>4, <1>5, <1>6, <1>7, <1>8,
     <1>9, <1>10, <1>11, <1>12, <1>13, <1>14, <1>15, <1>16 DEF LockStep, UnlockStep

\* Together: the invariant is inductive.
LEMMA Inductive == IInv /\ [Next]_vars => IInv'
  BY TypesKept, LockKept, QueueKept, WalkKept DEF IInv

\* The inductive invariant holds in every reachable state.
LEMMA Invariant == Spec => []IInv
  BY InitInv, Inductive, PTL DEF Spec

\* Every variable of word_lock keeps its type; in particular unlock_full's
\* walk never stores through a null pointer.
THEOREM TypeCorrect == Spec => []TypeOK
<1>1. IInv => TypeOK
  BY DEF IInv
<1>. QED  BY <1>1, Invariant, PTL

\* lock() admits one thread at a time, for any number of threads and any
\* interleaving of the fast paths, the spinning and the wakeups.
THEOREM Exclusive == Spec => []MutualExclusion
<1>1. IInv => MutualExclusion
  BY DEF IInv, LockInv
<1>. QED  BY <1>1, Invariant, PTL

\* One thread at a time walks and cuts the list of waiters in unlock_full.
THEOREM QueueExclusive == Spec => []QueueExclusion
<1>1. IInv => QueueExclusion
  BY DEF IInv, QueueInv
<1>. QED  BY <1>1, Invariant, PTL

-----------------------------------------------------------------------------
(***************************************************************************)
(* The list of waiters.  Its nodes are numbered in the order in which they *)
(* were pushed, so that neither end's surgery renumbers the others: q[a]   *)
(* is the oldest, the one to wake next, and q[b] the newest, the head.     *)
(***************************************************************************)
Walking(t) == pc[t] \in {UWalk, UDecide}
Waking(t)  == pc[t] \in {UStart, UWake}

\* Each node is on the list once, its thread waits, and next leads from the
\* newest to the oldest; beyond the oldest it is stale.
Shape(q, a, b) ==
  /\ q \in [Nat -> Pointer] /\ a \in Nat /\ b \in Nat /\ a <= b + 1
  /\ b < a => state.head = NULL
  /\ a <= b => state.head = q[b]
  /\ \A i \in a .. b : Waiting(q[i])
  /\ \A i, j \in a .. b : q[i] = q[j] => i = j
  /\ \A i \in a .. b : a < i => node[q[i]].next = q[i - 1]

\* The newest node that knows the tail is q[d], and it is right about it.
Tails(q, a, b, d) ==
  /\ d \in Nat
  /\ a <= b => a <= d /\ d <= b /\ node[q[d]].tail = q[a]
  /\ \A i \in a .. b : d < i => node[q[i]].tail = NULL

\* The nodes before q[d] are linked back, and those between q[k] and q[h],
\* where the last walk started and where it is; those from q[h] on are not.
Prevs(q, a, b, d, h, k) ==
  /\ h \in Nat /\ k \in Nat
  /\ a <= b => d <= k /\ k <= h /\ h <= b
  /\ \A i \in a .. b : i < d \/ (k <= i /\ i < h) => node[q[i]].prev = q[i + 1]
  /\ \A i \in a .. b : h <= i => node[q[i]].prev = NULL

\* The thread at work on the list started its walk at q[h] and is at q[k];
\* once the walk is done it knows the tail.
Walker(q, a, d, h, k) ==
  \A t \in Thread :
    /\ pc[t] = UWalk => expected[t].head = q[h] /\ current[t] = q[k]
    /\ pc[t] = UDecide => expected[t].head = q[h] /\ tail[t] = q[a] /\ h = d

\* A thread that waits is on the list or is being woken, not both.
Members(q, a, b) ==
  /\ \A n \in Thread : Waiting(n) => \/ \E i \in a .. b : q[i] = n
                                     \/ \E t \in Thread : Waking(t) /\ tail[t] = n
  /\ \A t \in Thread : Waking(t) => \A i \in a .. b : q[i] # tail[t]

Row(q, a, b, d, h, k) ==
  /\ Shape(q, a, b)
  /\ Tails(q, a, b, d)
  /\ Prevs(q, a, b, d, h, k)
  /\ Walker(q, a, d, h, k)
  /\ Members(q, a, b)

\* A thread wakes a thread that waits, nobody else's, and holds its parker's
\* mutex from unpark_start to unpark_finish.
Parkers ==
  /\ \A t \in Thread : Waking(t) => Waiting(tail[t])
  /\ \A t, u \in Thread : Waking(t) /\ Waking(u) /\ tail[t] = tail[u] => t = u
  /\ \A t \in Thread : pc[t] \in {UWake, UFinish} => holds[tail[t]] = t
  /\ \A t \in Thread : pc[t] = UFinish => tail[t] \in Thread /\ pc[tail[t]] = Parked

ListInv == Parkers /\ \E q, a, b, d, h, k : Row(q, a, b, d, h, k)

-----------------------------------------------------------------------------
\* At first nobody waits and nobody is being woken.
LEMMA InitList == Init => ListInv
<1> SUFFICES ASSUME Init PROVE ListInv
  OBVIOUS
<1> DEFINE q == [i \in Nat |-> NULL]
<1>1. /\ state.head = NULL
      /\ \A t \in Thread : ~Walking(t) /\ ~Waking(t) /\ pc[t] # UFinish /\ ~Waiting(t)
  BY DEF Init, Zero, Walking, Waking, Waiting
<1>2. Shape(q, 1, 0) /\ Tails(q, 1, 0, 0) /\ Prevs(q, 1, 0, 0, 0, 0)
  BY <1>1 DEF Shape, Tails, Prevs, Pointer
<1>3. Walker(q, 1, 0, 0, 0) /\ Members(q, 1, 0) /\ Parkers
  BY <1>1 DEF Walker, Members, Parkers, Walking, Waking
<1> QED BY <1>2, <1>3 DEF ListInv, Row

\* A thread that does not work on the list, and leaves it as it was.
LEMMA RowStays ==
  ASSUME NEW q, NEW a, NEW b, NEW d, NEW h, NEW k, Row(q, a, b, d, h, k),
         NEW t \in Thread, node' = node, tail' = tail, state'.head = state.head,
         \A n \in Thread : Waiting(n)' <=> Waiting(n),
         \A u \in Thread \ {t} : /\ pc'[u] = pc[u]
                                 /\ expected'[u] = expected[u]
                                 /\ current'[u] = current[u],
         ~Walking(t)', Waking(t)' <=> Waking(t)
  PROVE  Row(q, a, b, d, h, k)'
<1>1. Shape(q, a, b)'
  BY DEF Row, Shape, Waiting
<1>2. Tails(q, a, b, d)' /\ Prevs(q, a, b, d, h, k)'
  BY DEF Row, Tails, Prevs
<1>3. Walker(q, a, d, h, k)'
  BY DEF Row, Walker, Walking
<1>4. \A u \in Thread : Waking(u)' <=> Waking(u)
  BY DEF Waking
<1>5. Members(q, a, b)'
  BY <1>4 DEF Row, Members
<1> QED BY <1>1, <1>2, <1>3, <1>5 DEF Row

\* A walk starts at the head of the list.
LEMMA RowWalked ==
  ASSUME NEW q, NEW a, NEW b, NEW d, NEW h, NEW k, Row(q, a, b, d, h, k),
         NEW t \in Thread, node' = node, tail' = tail, state'.head = state.head,
         \A n \in Thread : Waiting(n)' <=> Waiting(n),
         \A u \in Thread \ {t} : pc'[u] = pc[u] /\ ~Walking(u),
         state.head # NULL, ~Waking(t),
         pc'[t] = UWalk, expected'[t].head = state.head, current'[t] = state.head
  PROVE  Row(q, a, b, d, b, b)'
<1>0. a <= b /\ state.head = q[b] /\ a \in Nat /\ b \in Nat
  BY DEF Row, Shape
<1>1. Shape(q, a, b)'
  BY DEF Row, Shape, Waiting
<1>2. Tails(q, a, b, d)'
  BY DEF Row, Tails
<1>3. Prevs(q, a, b, d, b, b)'
  BY <1>0, <1>2 DEF Row, Tails, Prevs
<1>4. Walker(q, a, d, b, b)'
  BY <1>0 DEF Walker, Walking
<1>5. \A u \in Thread : Waking(u)' <=> Waking(u)
  BY DEF Waking
<1>6. Members(q, a, b)'
  BY <1>5 DEF Row, Members
<1> QED BY <1>1, <1>2, <1>3, <1>4, <1>6 DEF Row

\* A new node becomes the head; if it is the only one, it is its own tail.
LEMMA RowPushed ==
  ASSUME TypeOK, NEW q, NEW a, NEW b, NEW d, NEW h, NEW k, Row(q, a, b, d, h, k),
         Parkers, NEW t \in Thread, ~Waiting(t), ~Walking(t), ~Waking(t), pc'[t] = Parked,
         node' = [node EXCEPT ![t] =
           [next |-> state.head, prev |-> NULL,
            tail |-> IF state.head = NULL THEN t ELSE NULL, should_park |-> TRUE]],
         state'.head = t, tail' = tail, expected' = expected, current' = current,
         \A u \in Thread \ {t} : pc'[u] = pc[u],
         \A u \in Thread : Walking(u) => state.head # NULL
  PROVE  \E q2, b2, d2, h2, k2 : Row(q2, a, b2, d2, h2, k2)'
<1> DEFINE new == [q EXCEPT ![b + 1] = t]
<1>0. /\ a \in Nat /\ b \in Nat /\ a <= b + 1 /\ q \in [Nat -> Pointer]
      /\ b < a => state.head = NULL
      /\ a <= b => state.head = q[b] /\ q[b] \in Thread /\ state.head # NULL
      /\ d \in Nat /\ h \in Nat /\ k \in Nat
  BY ThreadAssumption DEF Row, Shape, Tails, Prevs, Waiting
<1>1. /\ new \in [Nat -> Pointer] /\ new[b + 1] = t
      /\ \A i \in a .. b : new[i] = q[i] /\ q[i] \in Thread /\ q[i] # t
  BY <1>0 DEF Row, Shape, Waiting, Pointer
<1>2. /\ \A n \in Thread \ {t} : node'[n] = node[n] /\ (Waiting(n)' <=> Waiting(n))
      /\ Waiting(t)'
      /\ node'[t].next = state.head /\ node'[t].prev = NULL
      /\ node'[t].tail = IF state.head = NULL THEN t ELSE NULL
  BY DEF Waiting, TypeOK
<1> HIDE DEF new
<1>3. \A i \in a .. b + 1 : i \in a .. b \/ i = b + 1
  BY <1>0
<1>4. Shape(new, a, b + 1)'
  <2>1. \A i \in a .. b + 1 : Waiting(new[i])'
    BY <1>0, <1>1, <1>2, <1>3 DEF Row, Shape
  <2>2. \A i, j \in a .. b + 1 : new[i] = new[j] => i = j
    BY <1>1, <1>3 DEF Row, Shape
  <2>3. \A i \in a .. b + 1 : a < i => node'[new[i]].next = new[i - 1]
    <3> SUFFICES ASSUME NEW i \in a .. b + 1, a < i PROVE node'[new[i]].next = new[i - 1]
      OBVIOUS
    <3>1. CASE i \in a .. b
      <4>1. i - 1 \in a .. b
        BY <1>0, <3>1
      <4>2. node[q[i]].next = q[i - 1]
        BY <3>1 DEF Row, Shape
      <4> QED BY <1>1, <1>2, <3>1, <4>1, <4>2
    <3>2. CASE i = b + 1
      <4>1. b \in a .. b /\ a <= b /\ i - 1 = b
        BY <1>0, <3>2
      <4> QED BY <1>0, <1>1, <1>2, <3>2, <4>1
    <3> QED BY <1>3, <3>1, <3>2
  <2>4. b + 1 \in Nat /\ a <= (b + 1) + 1 /\ ~(b + 1 < a)
    BY <1>0
  <2> QED BY <1>0, <1>1, <2>1, <2>2, <2>3, <2>4 DEF Shape
<1>5. \A u \in Thread : /\ Waking(u)' <=> Waking(u)
                        /\ Walking(u)' <=> Walking(u)
                        /\ Walking(u) => pc'[u] = pc[u]
  BY DEF Waking, Walking
<1>6. Members(new, a, b + 1)'
  <2>1. b + 1 \in a .. b + 1 /\ \A i \in a .. b : i \in a .. b + 1
    BY <1>0
  <2>2. \A n \in Thread : Waiting(n)' => \/ \E i \in a .. b + 1 : new[i] = n
                                         \/ \E u \in Thread : Waking(u)' /\ tail'[u] = n
    <3> SUFFICES ASSUME NEW n \in Thread, Waiting(n)', n # t
                 PROVE  \/ \E i \in a .. b + 1 : new[i] = n
                        \/ \E u \in Thread : Waking(u)' /\ tail'[u] = n
      BY <1>1, <2>1
    <3>1. Waiting(n)
      BY <1>2
    <3> QED BY <1>1, <1>5, <2>1, <3>1 DEF Row, Members
  <2>3. \A u \in Thread : Waking(u)' => \A i \in a .. b + 1 : new[i] # tail'[u]
    <3>1. \A u \in Thread : Waking(u) => tail[u] # t
      BY DEF Parkers
    <3> QED BY <1>1, <1>3, <1>5, <3>1 DEF Row, Members
  <2> QED BY <2>2, <2>3 DEF Members
<1>7. CASE a <= b
  <2>0. d \in a .. b /\ a \in a .. b /\ d <= k /\ k <= h /\ h <= b
    BY <1>0, <1>7 DEF Row, Tails, Prevs
  <2>1. Tails(new, a, b + 1, d)'
    <3>1. node'[new[d]].tail = new[a]
      BY <1>0, <1>1, <1>2, <1>7, <2>0 DEF Row, Tails
    <3>2. \A i \in a .. b + 1 : d < i => node'[new[i]].tail = NULL
      BY <1>0, <1>1, <1>2, <1>3, <1>7 DEF Row, Tails
    <3> QED BY <1>0, <2>0, <3>1, <3>2 DEF Tails
  <2>2. Prevs(new, a, b + 1, d, h, k)'
    <3>1. \A i \in a .. b + 1 : i < d \/ (k <= i /\ i < h) => node'[new[i]].prev = new[i + 1]
      <4> SUFFICES ASSUME NEW i \in a .. b + 1, i < d \/ (k <= i /\ i < h)
                   PROVE  node'[new[i]].prev = new[i + 1]
        OBVIOUS
      <4>1. i \in a .. b /\ i + 1 \in a .. b
        BY <1>0, <2>0
      <4>2. node[q[i]].prev = q[i + 1]
        BY <4>1 DEF Row, Prevs
      <4> QED BY <1>1, <1>2, <4>1, <4>2
    <3>2. \A i \in a .. b + 1 : h <= i => node'[new[i]].prev = NULL
      BY <1>1, <1>2, <1>3 DEF Row, Prevs
    <3> QED BY <1>0, <2>0, <3>1, <3>2 DEF Prevs
  <2>3. Walker(new, a, d, h, k)'
    <3>1. new[h] = q[h] /\ new[k] = q[k] /\ new[a] = q[a]
      BY <1>0, <1>1, <2>0
    <3> QED BY <1>5, <3>1 DEF Row, Walker, Walking
  <2> QED BY <1>4, <1>6, <2>1, <2>2, <2>3 DEF Row
<1>8. CASE b < a
  <2>0. a = b + 1 /\ state.head = NULL
    BY <1>0, <1>8
  <2>1. Tails(new, a, b + 1, b + 1)'
    BY <1>0, <1>1, <1>2, <2>0, <1>3 DEF Tails
  <2>2. Prevs(new, a, b + 1, b + 1, b + 1, b + 1)'
    BY <1>0, <1>1, <1>2, <2>0 DEF Prevs
  <2>3. Walker(new, a, b + 1, b + 1, b + 1)'
    BY <1>5, <2>0 DEF Walker, Walking
  <2> QED BY <1>4, <1>6, <2>1, <2>2, <2>3 DEF Row
<1> QED BY <1>0, <1>7, <1>8

\* The thread at work on the list: which nodes its locals are.
LEMMA WalkerAt ==
  ASSUME NEW q, NEW a, NEW b, NEW d, NEW h, NEW k, Row(q, a, b, d, h, k),
         NEW t \in Thread, state.head # NULL
  PROVE  /\ a \in Nat /\ b \in Nat /\ d \in Nat /\ h \in Nat /\ k \in Nat
         /\ a <= d /\ d <= k /\ k <= h /\ h <= b /\ node[q[d]].tail = q[a]
         /\ \A i \in a .. b : Waiting(q[i]) /\ q[i] \in Thread
         /\ pc[t] = UWalk => /\ expected[t].head = q[h] /\ current[t] = q[k]
                             /\ node[q[k]].tail = NULL => /\ d < k /\ a < k
                                                          /\ node[q[k]].next = q[k - 1]
                             /\ node[q[k]].tail # NULL => d = k
         /\ pc[t] = UDecide => expected[t].head = q[h] /\ tail[t] = q[a] /\ h = d
<1>1. /\ a \in Nat /\ b \in Nat /\ d \in Nat /\ h \in Nat /\ k \in Nat
      /\ a <= d /\ d <= k /\ k <= h /\ h <= b /\ node[q[d]].tail = q[a]
      /\ \A i \in a .. b : Waiting(q[i]) /\ q[i] \in Thread
  BY DEF Row, Shape, Tails, Prevs, Waiting
<1>2. pc[t] = UWalk => /\ node[q[k]].tail = NULL => /\ d < k /\ a < k
                                                    /\ node[q[k]].next = q[k - 1]
                       /\ node[q[k]].tail # NULL => d = k
  <2>1. a \in a .. b /\ q[a] # NULL /\ k \in a .. b
    BY <1>1, ThreadAssumption
  <2>2. d # k => d < k /\ a < k
    BY <1>1
  <2>3. d < k => node[q[k]].tail = NULL
    BY <2>1 DEF Row, Tails
  <2>4. a < k => node[q[k]].next = q[k - 1]
    BY <2>1 DEF Row, Shape
  <2> QED BY <1>1, <2>1, <2>2, <2>3, <2>4
<1> QED BY <1>1, <1>2 DEF Row, Walker

\* A store to a prev pointer lets every thread wait on.
LEMMA PrevStored ==
  ASSUME TypeOK, NEW n \in Thread, NEW p \in Pointer,
         node' = [node EXCEPT ![n].prev = p],
         \A u \in Thread : pc'[u] = Parked <=> pc[u] = Parked
  PROVE  /\ \A u \in Thread : Waiting(u)' <=> Waiting(u)
         /\ \A u \in Thread : node'[u].next = node[u].next
         /\ \A u \in Thread \ {n} : node'[u] = node[u]
         /\ node'[n].prev = p
         /\ \A u \in Thread : node'[u].tail = node[u].tail
<1>1. node \in [Thread -> Node]
  BY DEF TypeOK
<1>2. \A u \in Thread \ {n} : node'[u] = node[u]
  BY <1>1
<1>3. /\ node'[n].should_park = node[n].should_park /\ node'[n].next = node[n].next
      /\ node'[n].prev = p /\ node'[n].tail = node[n].tail
  BY <1>1 DEF Node
<1>4. \A u \in Thread : /\ node'[u].should_park = node[u].should_park
                        /\ node'[u].next = node[u].next
                        /\ node'[u].tail = node[u].tail
  BY <1>2, <1>3
<1> QED BY <1>2, <1>3, <1>4 DEF Waiting

\* So does a store to a tail pointer.
LEMMA TailStored ==
  ASSUME TypeOK, NEW n \in Thread, NEW p \in Pointer,
         node' = [node EXCEPT ![n].tail = p],
         \A u \in Thread : pc'[u] = Parked <=> pc[u] = Parked
  PROVE  /\ \A u \in Thread : Waiting(u)' <=> Waiting(u)
         /\ \A u \in Thread : node'[u].next = node[u].next
         /\ \A u \in Thread \ {n} : node'[u] = node[u]
         /\ node'[n].tail = p
         /\ \A u \in Thread : node'[u].prev = node[u].prev
<1>1. node \in [Thread -> Node]
  BY DEF TypeOK
<1>2. \A u \in Thread \ {n} : node'[u] = node[u]
  BY <1>1
<1>3. /\ node'[n].should_park = node[n].should_park /\ node'[n].next = node[n].next
      /\ node'[n].tail = p /\ node'[n].prev = node[n].prev
  BY <1>1 DEF Node
<1>4. \A u \in Thread : /\ node'[u].should_park = node[u].should_park
                        /\ node'[u].next = node[u].next
                        /\ node'[u].prev = node[u].prev
  BY <1>2, <1>3
<1> QED BY <1>2, <1>3, <1>4 DEF Waiting

\* One step of the walk along the list keeps it.
LEMMA RowWalks ==
  ASSUME TypeOK, NEW q, NEW a, NEW b, NEW d, NEW h, NEW k, Row(q, a, b, d, h, k),
         NEW t \in Thread, Walk(t), state.head # NULL,
         \A u \in Thread \ {t} : ~Walking(u)
  PROVE  /\ \E d2, k2 : Row(q, a, b, d2, h, k2)'
         /\ \A n \in Thread : Waiting(n)' <=> Waiting(n)
<1>0. /\ a \in Nat /\ b \in Nat /\ d \in Nat /\ h \in Nat /\ k \in Nat
      /\ a <= d /\ d <= k /\ k <= h /\ h <= b /\ node[q[d]].tail = q[a]
      /\ \A i \in a .. b : Waiting(q[i]) /\ q[i] \in Thread
      /\ expected[t].head = q[h] /\ current[t] = q[k]
      /\ node[q[k]].tail = NULL => d < k /\ a < k /\ node[q[k]].next = q[k - 1]
      /\ node[q[k]].tail # NULL => d = k
      /\ pc[t] = UWalk
  BY WalkerAt DEF Walk
<1>1. /\ \A u \in Thread : pc'[u] = Parked <=> pc[u] = Parked
      /\ pc'[t] \in {UWalk, UDecide}
      /\ \A u \in Thread \ {t} : /\ pc'[u] = pc[u] /\ expected'[u] = expected[u]
                                 /\ current'[u] = current[u] /\ tail'[u] = tail[u]
      /\ UNCHANGED <<state, expected>>
  BY DEF Walk, Goto, TypeOK
<1>2. \A u \in Thread : /\ Waking(u)' <=> Waking(u)
                        /\ Waking(u) => tail'[u] = tail[u]
  BY <1>0, <1>1 DEF Waking
<1>3. a \in a .. b /\ d \in a .. b /\ k \in a .. b /\ h \in a .. b
  BY <1>0
<1>4. \A i, j \in a .. b : q[i] = q[j] => i = j
  BY DEF Row, Shape
<1>5. ASSUME \A n \in Thread : Waiting(n)' <=> Waiting(n),
             \A n \in Thread : node'[n].next = node[n].next
      PROVE  Shape(q, a, b)' /\ Members(q, a, b)'
  <2>1. \A i \in a .. b : Waiting(q[i])'
    BY <1>0, <1>5
  <2>2. \A i \in a .. b : a < i => node'[q[i]].next = q[i - 1]
    BY <1>0, <1>5 DEF Row, Shape
  <2>3. Shape(q, a, b)'
    BY <1>1, <2>1, <2>2 DEF Row, Shape
  <2>4. Members(q, a, b)'
    BY <1>2, <1>5 DEF Row, Members
  <2> QED BY <2>3, <2>4
<1>6. CASE node[q[k]].tail = NULL
  <2>0. k - 1 \in a .. b /\ d <= k - 1
    BY <1>0, <1>3, <1>6
  <2>1. /\ node' = [node EXCEPT ![q[k - 1]].prev = q[k]]
        /\ current'[t] = q[k - 1] /\ UNCHANGED <<tail, pc>>
    BY <1>0, <1>6 DEF Walk, TypeOK
  <2>2. q[k - 1] \in Thread /\ q[k] \in Pointer
    BY <1>0, <1>3, <2>0 DEF Pointer
  <2>3. /\ \A n \in Thread : Waiting(n)' <=> Waiting(n)
        /\ \A n \in Thread : node'[n].next = node[n].next
        /\ \A n \in Thread \ {q[k - 1]} : node'[n] = node[n]
        /\ node'[q[k - 1]].prev = q[k]
        /\ \A n \in Thread : node'[n].tail = node[n].tail
    BY <1>1, <2>1, <2>2, PrevStored
  <2>4. Shape(q, a, b)' /\ Members(q, a, b)'
    BY <1>5, <2>3
  <2>5. Tails(q, a, b, d)'
    BY <1>0, <1>3, <2>3 DEF Row, Tails
  <2>6. Prevs(q, a, b, d, h, k - 1)'
    <3>1. \A i \in a .. b : i < d \/ (k - 1 <= i /\ i < h) => node'[q[i]].prev = q[i + 1]
      <4> SUFFICES ASSUME NEW i \in a .. b, i < d \/ (k - 1 <= i /\ i < h)
                   PROVE  node'[q[i]].prev = q[i + 1]
        OBVIOUS
      <4>1. CASE i = k - 1
        <5>1. i + 1 = k
          BY <1>0, <4>1
        <5> QED BY <2>3, <4>1, <5>1
      <4>2. CASE i # k - 1
        <5>1. i < d \/ (k <= i /\ i < h)
          BY <1>0, <4>2
        <5>2. node[q[i]].prev = q[i + 1]
          BY <5>1 DEF Row, Prevs
        <5>3. q[i] # q[k - 1] /\ q[i] \in Thread
          BY <1>0, <1>4, <2>0, <4>2
        <5> QED BY <2>3, <5>2, <5>3
      <4> QED BY <4>1, <4>2
    <3>2. \A i \in a .. b : h <= i => node'[q[i]].prev = NULL
      <4> SUFFICES ASSUME NEW i \in a .. b, h <= i PROVE node'[q[i]].prev = NULL
        OBVIOUS
      <4>1. q[i] # q[k - 1] /\ q[i] \in Thread
        BY <1>0, <1>4, <2>0
      <4> QED BY <2>3, <4>1 DEF Row, Prevs
    <3> QED BY <1>0, <2>0, <3>1, <3>2 DEF Prevs
  <2>7. Walker(q, a, d, h, k - 1)'
    BY <1>0, <1>1, <2>1 DEF Walker, Walking
  <2> QED BY <2>3, <2>4, <2>5, <2>6, <2>7 DEF Row
<1>7. CASE node[q[k]].tail # NULL
  <2>0. d = k
    BY <1>0, <1>7
  <2>1. /\ node' = [node EXCEPT ![q[h]].tail = q[a]]
        /\ tail'[t] = q[a] /\ pc'[t] = UDecide
    BY <1>0, <1>7 DEF Walk, Goto, TypeOK
  <2>2. q[h] \in Thread /\ q[a] \in Pointer
    BY <1>0, <1>3 DEF Pointer
  <2>3. /\ \A n \in Thread : Waiting(n)' <=> Waiting(n)
        /\ \A n \in Thread : node'[n].next = node[n].next
        /\ \A n \in Thread \ {q[h]} : node'[n] = node[n]
        /\ node'[q[h]].tail = q[a]
        /\ \A n \in Thread : node'[n].prev = node[n].prev
    BY <1>1, <2>1, <2>2, TailStored
  <2>4. Shape(q, a, b)' /\ Members(q, a, b)'
    BY <1>5, <2>3
  <2>5. Tails(q, a, b, h)'
    <3>1. \A i \in a .. b : h < i => node'[q[i]].tail = NULL
      <4> SUFFICES ASSUME NEW i \in a .. b, h < i PROVE node'[q[i]].tail = NULL
        OBVIOUS
      <4>1. q[i] # q[h] /\ q[i] \in Thread /\ d < i
        BY <1>0, <1>3, <1>4
      <4> QED BY <2>3, <4>1 DEF Row, Tails
    <3> QED BY <1>0, <2>3, <3>1 DEF Tails
  <2>6. Prevs(q, a, b, h, h, h)'
    <3>1. \A i \in a .. b : i < h => node'[q[i]].prev = q[i + 1]
      BY <1>0, <2>0, <2>3 DEF Row, Prevs
    <3>2. \A i \in a .. b : h <= i => node'[q[i]].prev = NULL
      BY <1>0, <2>3 DEF Row, Prevs
    <3> QED BY <1>0, <3>1, <3>2 DEF Prevs
  <2>7. Walker(q, a, h, h, h)'
    BY <1>0, <1>1, <2>1 DEF Walker, Walking
  <2>8. Row(q, a, b, h, h, h)'
    BY <2>4, <2>5, <2>6, <2>7 DEF Row
  <2> QED BY <2>3, <2>8
<1> QED BY <1>6, <1>7

\* The only node is taken off: the head is the tail.
LEMMA RowEmptied ==
  ASSUME TypeOK, NEW q, NEW a, NEW b, NEW d, NEW h, NEW k, Row(q, a, b, d, h, k),
         NEW t \in Thread, pc[t] = UDecide, state.head # NULL,
         \A u \in Thread \ {t} : ~Walking(u) /\ pc'[u] = pc[u],
         node[tail[t]].prev = NULL, state.head = expected[t].head,
         state'.head = NULL, pc'[t] = UStart,
         UNCHANGED <<node, tail>>
  PROVE  /\ \E b2, d2, h2, k2 : Row(q, b + 1, b2, d2, h2, k2)'
         /\ Waiting(tail[t]) /\ \A u \in Thread : Waking(u) => tail[u] # tail[t]
<1>0. /\ a \in Nat /\ b \in Nat /\ d \in Nat /\ h \in Nat /\ k \in Nat
      /\ a <= d /\ d <= k /\ k <= h /\ h <= b /\ node[q[d]].tail = q[a]
      /\ \A i \in a .. b : Waiting(q[i]) /\ q[i] \in Thread
      /\ expected[t].head = q[h] /\ tail[t] = q[a] /\ h = d
  BY WalkerAt
<1>1. a \in a .. b /\ h \in a .. b /\ b \in a .. b
  BY <1>0
<1>2. h = b
  <2>1. q[h] = q[b]
    BY <1>0 DEF Row, Shape
  <2> QED BY <1>1, <2>1 DEF Row, Shape
<1>3. a = b
  <2>1. SUFFICES ASSUME a < d PROVE FALSE
    BY <1>0, <1>2
  <2>2. node[q[a]].prev = q[a + 1]
    BY <1>1, <2>1 DEF Row, Prevs
  <2>3. a + 1 \in a .. b
    BY <1>0, <2>1
  <2> QED BY <1>0, <2>2, <2>3, ThreadAssumption
<1>4. \A u \in Thread : /\ Waiting(u)' <=> Waiting(u)
                        /\ Waking(u)' <=> Waking(u) \/ u = t
  BY DEF Waiting, Waking, TypeOK
<1>5. Shape(q, b + 1, b)' /\ Tails(q, b + 1, b, d)' /\ Prevs(q, b + 1, b, d, h, k)'
  BY <1>0 DEF Row, Shape, Tails, Prevs
<1>6. Walker(q, b + 1, d, h, k)'
  BY DEF Walker, Walking
<1>7. Members(q, b + 1, b)'
  <2>1. \A n \in Thread : Waiting(n)' => \E u \in Thread : Waking(u)' /\ tail'[u] = n
    <3> SUFFICES ASSUME NEW n \in Thread, Waiting(n)'
                 PROVE  \E u \in Thread : Waking(u)' /\ tail'[u] = n
      OBVIOUS
    <3>1. \/ \E i \in a .. b : q[i] = n
          \/ \E u \in Thread : Waking(u) /\ tail[u] = n
      BY <1>4 DEF Row, Members
    <3>2. CASE \E i \in a .. b : q[i] = n
      <4>1. n = tail[t]
        BY <1>0, <1>3, <3>2
      <4> QED BY <1>4, <4>1
    <3> QED BY <1>4, <3>1, <3>2
  <2>2. \A i \in b + 1 .. b : FALSE
    BY <1>0
  <2> QED BY <2>1, <2>2 DEF Members
<1>8. Waiting(tail[t]) /\ \A u \in Thread : Waking(u) => tail[u] # tail[t]
  BY <1>0, <1>1 DEF Row, Members
<1> QED BY <1>5, <1>6, <1>7, <1>8 DEF Row

\* The oldest of several nodes is taken off.
LEMMA RowCut ==
  ASSUME TypeOK, NEW q, NEW a, NEW b, NEW d, NEW h, NEW k, Row(q, a, b, d, h, k),
         NEW t \in Thread, PopTail(t), state.head # NULL,
         \A u \in Thread \ {t} : ~Walking(u)
  PROVE  /\ Row(q, a + 1, b, d, h, k)'
         /\ \A n \in Thread : Waiting(n)' <=> Waiting(n)
         /\ Waiting(tail[t]) /\ \A u \in Thread : Waking(u) => tail[u] # tail[t]
<1>0. /\ a \in Nat /\ b \in Nat /\ d \in Nat /\ h \in Nat /\ k \in Nat
      /\ a <= d /\ d <= k /\ k <= h /\ h <= b /\ node[q[d]].tail = q[a]
      /\ \A i \in a .. b : Waiting(q[i]) /\ q[i] \in Thread
      /\ expected[t].head = q[h] /\ tail[t] = q[a] /\ h = d /\ pc[t] = UDecide
  BY WalkerAt DEF PopTail
<1>1. a \in a .. b /\ h \in a .. b
  BY <1>0
<1>2. a < d
  <2>1. d <= a => node[q[a]].prev = NULL
    BY <1>0, <1>1 DEF Row, Prevs
  <2> QED BY <1>0, <2>1 DEF PopTail
<1>3. a + 1 \in a .. b /\ \A i \in a + 1 .. b : i \in a .. b /\ i # a
  BY <1>0, <1>2
<1>4. node' = [node EXCEPT ![q[h]].tail = q[a + 1]]
  <2>1. node[q[a]].prev = q[a + 1]
    BY <1>1, <1>2 DEF Row, Prevs
  <2> QED BY <1>0, <2>1 DEF PopTail, NewTail
<1>5. /\ \A n \in Thread : pc'[n] = Parked <=> pc[n] = Parked
      /\ pc'[t] = UStart /\ UNCHANGED <<expected, current, tail>>
      /\ state'.head = state.head
      /\ \A u \in Thread \ {t} : pc'[u] = pc[u]
  BY DEF PopTail, Goto, TypeOK, Word
<1>6. /\ \A n \in Thread : Waiting(n)' <=> Waiting(n)
      /\ \A n \in Thread : node'[n].next = node[n].next
      /\ \A n \in Thread \ {q[h]} : node'[n] = node[n]
      /\ node'[q[h]].tail = q[a + 1]
      /\ \A n \in Thread : node'[n].prev = node[n].prev
  <2>1. q[h] \in Thread /\ q[a + 1] \in Pointer
    BY <1>0, <1>1, <1>3 DEF Pointer
  <2> QED BY <1>4, <1>5, <2>1, TailStored
<1>7. \A i, j \in a .. b : q[i] = q[j] => i = j
  BY DEF Row, Shape
<1>8. \A u \in Thread : Waking(u)' <=> Waking(u) \/ u = t
  BY <1>5 DEF Waking
<1>9. Shape(q, a + 1, b)'
  <2>1. \A i \in a + 1 .. b : a + 1 < i => node'[q[i]].next = q[i - 1]
    BY <1>0, <1>3, <1>6 DEF Row, Shape
  <2>2. state'.head = q[b] /\ ~(b < a + 1) /\ a + 1 \in Nat
    BY <1>0, <1>2, <1>5 DEF Row, Shape
  <2> QED BY <1>0, <1>3, <1>6, <1>7, <2>1, <2>2 DEF Row, Shape
<1>10. Tails(q, a + 1, b, d)'
  <2>1. \A i \in a + 1 .. b : d < i => node'[q[i]].tail = NULL
    <3> SUFFICES ASSUME NEW i \in a + 1 .. b, d < i PROVE node'[q[i]].tail = NULL
      OBVIOUS
    <3>1. q[i] # q[h] /\ q[i] \in Thread /\ i \in a .. b
      BY <1>0, <1>1, <1>3, <1>7
    <3> QED BY <1>6, <3>1 DEF Row, Tails
  <2> QED BY <1>0, <1>2, <1>6, <2>1 DEF Tails
<1>11. Prevs(q, a + 1, b, d, h, k)'
  <2>1. \A i \in a + 1 .. b : i < d \/ (k <= i /\ i < h) => node'[q[i]].prev = q[i + 1]
    BY <1>0, <1>3, <1>6 DEF Row, Prevs
  <2>2. \A i \in a + 1 .. b : h <= i => node'[q[i]].prev = NULL
    BY <1>0, <1>3, <1>6 DEF Row, Prevs
  <2> QED BY <1>0, <1>2, <2>1, <2>2 DEF Prevs
<1>12. Walker(q, a + 1, d, h, k)'
  BY <1>5 DEF Walker, Walking
<1>13. Members(q, a + 1, b)'
  <2>1. ASSUME NEW n \in Thread, Waiting(n)'
        PROVE  \/ \E i \in a + 1 .. b : q[i] = n
               \/ \E u \in Thread : Waking(u)' /\ tail'[u] = n
    <3>1. \/ \E i \in a .. b : q[i] = n
          \/ \E u \in Thread : Waking(u) /\ tail[u] = n
      BY <1>6, <2>1 DEF Row, Members
    <3>2. CASE \E i \in a .. b : q[i] = n
      <4>1. PICK i \in a .. b : q[i] = n
        BY <3>2
      <4>2. i = a \/ i \in a + 1 .. b
        BY <1>0
      <4> QED BY <1>0, <1>5, <1>8, <4>1, <4>2
    <3> QED BY <1>5, <1>8, <3>1, <3>2
  <2>2. ASSUME NEW u \in Thread, Waking(u)', NEW i \in a + 1 .. b
        PROVE  q[i] # tail'[u]
    <3>1. CASE u = t
      BY <1>0, <1>1, <1>3, <1>5, <1>7, <3>1
    <3>2. CASE u # t
      BY <1>3, <1>5, <1>8, <2>2, <3>2 DEF Row, Members
    <3> QED BY <3>1, <3>2
  <2> QED BY <2>1, <2>2 DEF Members
<1>14. Waiting(tail[t]) /\ \A u \in Thread : Waking(u) => tail[u] # tail[t]
  BY <1>0, <1>1 DEF Row, Members
<1> QED BY <1>6, <1>9, <1>10, <1>11, <1>12, <1>13, <1>14 DEF Row

\* A thread that is being woken no longer waits.
LEMMA RowWoken ==
  ASSUME TypeOK, NEW q, NEW a, NEW b, NEW d, NEW h, NEW k, Row(q, a, b, d, h, k),
         Parkers, NEW t \in Thread, Unpark(t)
  PROVE  /\ Row(q, a, b, d, h, k)'
         /\ \A n \in Thread : Waiting(n)' <=> Waiting(n) /\ n # tail[t]
<1>1. /\ Waking(t) /\ Waiting(tail[t]) /\ tail[t] \in Thread
      /\ \A i \in a .. b : q[i] # tail[t]
  BY DEF Unpark, Parkers, Row, Members, Waking, Waiting
<1>2. /\ \A n \in Thread \ {tail[t]} : node'[n] = node[n]
      /\ ~node'[tail[t]].should_park
  BY <1>1 DEF Unpark, TypeOK, Node
<1>3. /\ pc[t] = UWake /\ pc'[t] = UFinish /\ UNCHANGED <<state, expected, current, tail>>
      /\ \A u \in Thread \ {t} : pc'[u] = pc[u]
  BY DEF Unpark, Goto, TypeOK
<1>4. \A n \in Thread : Waiting(n)' <=> Waiting(n) /\ n # tail[t]
  BY <1>2, <1>3 DEF Waiting
<1>5. \A i \in a .. b : q[i] \in Thread \ {tail[t]} /\ node'[q[i]] = node[q[i]]
  BY <1>1, <1>2 DEF Row, Shape, Waiting
<1>6. Shape(q, a, b)'
  BY <1>3, <1>4, <1>5 DEF Row, Shape
<1>7. Tails(q, a, b, d)'
  <2>1. a <= b => d \in a .. b
    BY DEF Row, Shape, Tails
  <2> QED BY <1>5, <2>1 DEF Row, Tails
<1>8. Prevs(q, a, b, d, h, k)'
  BY <1>5 DEF Row, Prevs
<1>9. Walker(q, a, d, h, k)'
  BY <1>3 DEF Row, Walker
<1>10. Members(q, a, b)'
  <2>1. \A u \in Thread : Waking(u)' <=> Waking(u) /\ u # t
    BY <1>3 DEF Waking
  <2>2. ASSUME NEW n \in Thread, Waiting(n)'
        PROVE  \/ \E i \in a .. b : q[i] = n
               \/ \E u \in Thread : Waking(u)' /\ tail'[u] = n
    <3>1. n # tail[t] /\ Waiting(n)
      BY <1>4, <2>2
    <3> QED BY <1>3, <2>1, <3>1 DEF Row, Members
  <2> QED BY <1>3, <2>1, <2>2 DEF Row, Members
<1> QED BY <1>4, <1>6, <1>7, <1>8, <1>9, <1>10 DEF Row

-----------------------------------------------------------------------------
\* A thread that starts and finishes no wakeup leaves the others' alone, as
\* long as those who are woken wait on.
LEMMA ParkersStay ==
  ASSUME Parkers, NEW t \in Thread, holds' = holds, tail' = tail,
         \A n \in Thread : Waiting(n) => Waiting(n)',
         \A u \in Thread \ {t} : pc'[u] = pc[u],
         ~Waking(t)', pc'[t] # UFinish,
         pc[t] = Parked => ~Waiting(t) /\ holds[t] = NULL
  PROVE  Parkers'
<1>1. \A u \in Thread : Waking(u)' \/ pc'[u] = UFinish => pc'[u] = pc[u] /\ u # t
  BY DEF Waking
<1>2. ASSUME NEW u \in Thread, Waking(u)' PROVE Waiting(tail[u])'
  <2>1. Waking(u)
    BY <1>1, <1>2 DEF Waking
  <2>2. PICK n \in Thread : n = tail[u] /\ Waiting(n)
    BY <2>1 DEF Parkers, Waiting
  <2>3. Waiting(n)' /\ tail'[u] = n
    BY <2>2
  <2> QED BY <2>3 DEF Waiting
<1>3. \A u, v \in Thread : Waking(u)' /\ Waking(v)' /\ tail'[u] = tail'[v] => u = v
  BY <1>1 DEF Parkers, Waking
<1>4. \A u \in Thread : pc'[u] \in {UWake, UFinish} => holds'[tail'[u]] = u
  BY <1>1 DEF Parkers, Waking
<1>5. ASSUME NEW u \in Thread, pc'[u] = UFinish PROVE tail'[u] \in Thread /\ pc'[tail'[u]] = Parked
  <2>1. pc[u] = UFinish /\ pc[tail[u]] = Parked /\ holds[tail[u]] = u /\ tail[u] \in Thread
    BY <1>1, <1>5 DEF Parkers
  <2>2. tail[u] # t
    BY <2>1, ThreadAssumption
  <2> QED BY <2>1, <2>2
<1> QED BY <1>2, <1>3, <1>4, <1>5 DEF Parkers

\* The steps of lock_full and unlock_full that do not touch the list.
LEMMA ListStays ==
  ASSUME ListInv, NEW t \in Thread, UNCHANGED <<node, tail, holds>>,
         state'.head = state.head,
         \A u \in Thread \ {t} : /\ pc'[u] = pc[u]
                                 /\ expected'[u] = expected[u]
                                 /\ current'[u] = current[u],
         ~Walking(t)', ~Waking(t)', ~Waking(t), pc'[t] \notin {Parked, UFinish},
         pc[t] = Parked => ~node[t].should_park /\ holds[t] = NULL
  PROVE  ListInv'
<1>1. PICK q, a, b, d, h, k : Row(q, a, b, d, h, k)
  BY DEF ListInv
<1>2. \A n \in Thread : Waiting(n)' <=> Waiting(n)
  BY DEF Waiting
<1>3. Row(q, a, b, d, h, k)'
  BY <1>1, <1>2, RowStays
<1>4. Parkers'
  BY <1>2, ParkersStay DEF ListInv, Waiting
<1> QED BY <1>3, <1>4 DEF ListInv

\* The steps of unlock_full that start to walk along the list.
LEMMA ListWalked ==
  ASSUME ListInv, NEW t \in Thread, UNCHANGED <<node, tail, holds>>,
         state'.head = state.head, state.head # NULL,
         \A u \in Thread \ {t} : pc'[u] = pc[u] /\ ~Walking(u),
         pc[t] \in {UGrab, UWalk, UDecide},
         pc'[t] = UWalk, expected'[t].head = state.head, current'[t] = state.head
  PROVE  ListInv'
<1>1. PICK q, a, b, d, h, k : Row(q, a, b, d, h, k)
  BY DEF ListInv
<1>2. \A n \in Thread : Waiting(n)' <=> Waiting(n)
  BY DEF Waiting
<1>3. Row(q, a, b, d, b, b)'
  <2>1. ~Waking(t)
    BY DEF Waking
  <2> QED BY <1>1, <1>2, <2>1, RowWalked
<1>4. Parkers'
  <2>1. ~Waking(t)' /\ pc'[t] # UFinish /\ pc[t] # Parked
    BY DEF Waking
  <2> QED BY <1>2, <2>1, ParkersStay DEF ListInv
<1> QED BY <1>3, <1>4 DEF ListInv

\* A node that was cut off the list starts to be woken.
LEMMA ParkersStart ==
  ASSUME Parkers, NEW t \in Thread, UNCHANGED <<holds, tail>>,
         \A n \in Thread : Waiting(n)' <=> Waiting(n),
         \A n \in Thread : pc'[n] = Parked <=> pc[n] = Parked,
         \A u \in Thread \ {t} : pc'[u] = pc[u],
         pc'[t] = UStart, Waiting(tail[t]),
         \A u \in Thread : Waking(u) => tail[u] # tail[t]
  PROVE  Parkers'
<1>1. \A u \in Thread : Waking(u)' => Waking(u) \/ u = t
  BY DEF Waking
<1>2. ASSUME NEW u \in Thread, Waking(u)' PROVE Waiting(tail[u])'
  <2>1. Waiting(tail[u])
    BY <1>1, <1>2 DEF Parkers
  <2>2. PICK n \in Thread : n = tail[u] /\ Waiting(n)
    BY <2>1 DEF Waiting
  <2>3. Waiting(n)' /\ tail'[u] = n
    BY <2>2
  <2> QED BY <2>3 DEF Waiting
<1>3. ASSUME NEW u \in Thread, NEW v \in Thread, Waking(u)', Waking(v)',
             tail'[u] = tail'[v]
      PROVE  u = v
  BY <1>1, <1>3 DEF Parkers
<1>4. \A u \in Thread : pc'[u] \in {UWake, UFinish} => holds'[tail'[u]] = u
  BY DEF Parkers
<1>5. \A u \in Thread : pc'[u] = UFinish => tail'[u] \in Thread /\ pc'[tail'[u]] = Parked
  BY DEF Parkers
<1> QED BY <1>2, <1>3, <1>4, <1>5 DEF Parkers

\* unlock_full's walk.
LEMMA ListWalks ==
  ASSUME TypeOK, ListInv, NEW t \in Thread, Walk(t), state.head # NULL,
         \A u \in Thread \ {t} : ~Walking(u)
  PROVE  ListInv'
<1>1. PICK q, a, b, d, h, k : Row(q, a, b, d, h, k)
  BY DEF ListInv
<1>2. /\ \E d2, k2 : Row(q, a, b, d2, h, k2)'
      /\ \A n \in Thread : Waiting(n)' <=> Waiting(n)
  BY <1>1, RowWalks
<1>3. /\ pc[t] = UWalk /\ pc'[t] \in {UWalk, UDecide} /\ holds' = holds
      /\ \A u \in Thread \ {t} : pc'[u] = pc[u] /\ tail'[u] = tail[u]
  BY DEF Walk, Goto, TypeOK
<1>4. \A u \in Thread : Waking(u)' \/ pc'[u] = UFinish =>
                          pc'[u] = pc[u] /\ tail'[u] = tail[u] /\ u # t
  BY <1>3 DEF Waking
<1>5. ASSUME NEW u \in Thread, Waking(u)' PROVE Waiting(tail[u])'
  <2>1. Waking(u) /\ tail'[u] = tail[u]
    BY <1>4, <1>5 DEF Waking
  <2>2. PICK n \in Thread : n = tail[u] /\ Waiting(n)
    BY <2>1 DEF ListInv, Parkers, Waiting
  <2>3. Waiting(n)' /\ tail'[u] = n
    BY <1>2, <2>1, <2>2
  <2> QED BY <2>3 DEF Waiting
<1>6. \A u, v \in Thread : Waking(u)' /\ Waking(v)' /\ tail'[u] = tail'[v] => u = v
  BY <1>4 DEF ListInv, Parkers, Waking
<1>7. \A u \in Thread : pc'[u] \in {UWake, UFinish} => holds'[tail'[u]] = u
  BY <1>3, <1>4 DEF ListInv, Parkers, Waking
<1>8. \A u \in Thread : pc'[u] = UFinish => tail'[u] \in Thread /\ pc'[tail'[u]] = Parked
  <2> SUFFICES ASSUME NEW u \in Thread, pc'[u] = UFinish
               PROVE  tail'[u] \in Thread /\ pc'[tail'[u]] = Parked
    OBVIOUS
  <2>1. tail'[u] = tail[u] /\ tail[u] \in Thread /\ pc[tail[u]] = Parked
    BY <1>4 DEF ListInv, Parkers
  <2>2. tail[u] # t
    BY <1>3, <2>1
  <2> QED BY <1>3, <2>1, <2>2
<1>9. Parkers'
  BY <1>5, <1>6, <1>7, <1>8 DEF Parkers
<1> QED BY <1>2, <1>9 DEF ListInv

\* The two ways in which unlock_full takes the oldest node off the list.
LEMMA ListPopped ==
  ASSUME TypeOK, ListInv, NEW t \in Thread, state.head # NULL,
         \A u \in Thread \ {t} : ~Walking(u),
         \/ PopTail(t)
         \/ /\ PopLast(t) /\ CasSucceeds(t, [Zero EXCEPT !.lock = expected[t].lock])
            /\ Goto(t, UStart)
  PROVE  ListInv'
<1>1. PICK q, a, b, d, h, k : Row(q, a, b, d, h, k)
  BY DEF ListInv
<1>2. /\ pc[t] = UDecide /\ pc'[t] = UStart /\ UNCHANGED <<holds, tail>>
      /\ \A u \in Thread \ {t} : pc'[u] = pc[u]
  BY DEF PopTail, PopLast, Goto, TypeOK
<1>3. \A u \in Thread : pc'[u] = Parked <=> pc[u] = Parked
  BY <1>2
<1>4. CASE PopTail(t)
  <2>1. /\ Row(q, a + 1, b, d, h, k)'
        /\ \A n \in Thread : Waiting(n)' <=> Waiting(n)
        /\ Waiting(tail[t]) /\ \A u \in Thread : Waking(u) => tail[u] # tail[t]
    BY <1>1, <1>4, RowCut
  <2>2. Parkers'
    BY <1>2, <1>3, <2>1, ParkersStart DEF ListInv
  <2> QED BY <2>1, <2>2 DEF ListInv
<1>5. CASE PopLast(t) /\ CasSucceeds(t, [Zero EXCEPT !.lock = expected[t].lock])
  <2>1. /\ node[tail[t]].prev = NULL /\ state.head = expected[t].head
        /\ state'.head = NULL /\ node' = node
    BY <1>5 DEF PopLast, CasSucceeds, Zero
  <2>2. /\ \E b2, d2, h2, k2 : Row(q, b + 1, b2, d2, h2, k2)'
        /\ Waiting(tail[t]) /\ \A u \in Thread : Waking(u) => tail[u] # tail[t]
    BY <1>1, <1>2, <2>1, RowEmptied
  <2>3. \A n \in Thread : Waiting(n)' <=> Waiting(n)
    BY <1>3, <2>1 DEF Waiting
  <2>4. Parkers'
    BY <1>2, <1>3, <2>2, <2>3, ParkersStart DEF ListInv
  <2> QED BY <2>2, <2>4 DEF ListInv
<1> QED BY <1>4, <1>5

\* The three calls on the parker of the thread that is woken.
LEMMA ListUnparks ==
  ASSUME TypeOK, ListInv, NEW t \in Thread,
         UnparkStart(t) \/ Unpark(t) \/ UnparkFinish(t)
  PROVE  ListInv'
<1>1. PICK q, a, b, d, h, k : Row(q, a, b, d, h, k)
  BY DEF ListInv
<1>2. /\ UNCHANGED <<state, expected, current, tail>>
      /\ \A u \in Thread \ {t} : pc'[u] = pc[u]
      /\ pc[t] # Parked /\ pc'[t] # Parked
      /\ \A n \in Thread : pc'[n] = Parked <=> pc[n] = Parked
  BY DEF UnparkStart, Unpark, UnparkFinish, Goto, TypeOK
<1>3. CASE UnparkStart(t)
  <2>1. /\ Waking(t) /\ pc[t] = UStart /\ pc'[t] = UWake /\ node' = node
        /\ tail[t] \in Thread /\ holds[tail[t]] = NULL
        /\ holds' = [holds EXCEPT ![tail[t]] = t]
        /\ pc[tail[t]] = Parked
    BY <1>3 DEF UnparkStart, Goto, TypeOK, ListInv, Parkers, Waking, Waiting
  <2>2. \A n \in Thread : Waiting(n)' <=> Waiting(n)
    BY <1>2, <2>1 DEF Waiting
  <2>3. \A u \in Thread : Waking(u)' <=> Waking(u)
    BY <1>2, <2>1 DEF Waking
  <2>4. Row(q, a, b, d, h, k)'
    <3>1. ~Walking(t)'
      BY <2>1 DEF Walking
    <3> QED BY <1>1, <1>2, <2>1, <2>2, <2>3, <3>1, RowStays
  <2>5. ASSUME NEW u \in Thread, Waking(u)' PROVE Waiting(tail[u])'
    <3>1. PICK n \in Thread : n = tail[u] /\ Waiting(n)
      BY <2>3, <2>5 DEF ListInv, Parkers, Waiting
    <3>2. Waiting(n)' /\ tail'[u] = n
      BY <1>2, <2>2, <3>1
    <3> QED BY <3>2 DEF Waiting
  <2>6. \A u, v \in Thread : Waking(u)' /\ Waking(v)' /\ tail'[u] = tail'[v] => u = v
    BY <1>2, <2>3 DEF ListInv, Parkers
  <2>7. ASSUME NEW u \in Thread, pc'[u] \in {UWake, UFinish} PROVE holds'[tail'[u]] = u
    <3>1. CASE u = t
      BY <1>2, <2>1, <3>1 DEF TypeOK
    <3>2. CASE u # t
      <4>1. holds[tail[u]] = u
        BY <1>2, <2>7, <3>2 DEF ListInv, Parkers
      <4>2. tail[u] # tail[t]
        BY <2>1, <4>1, ThreadAssumption
      <4>3. tail[u] \in Thread
        BY <1>2, <2>7, <3>2 DEF ListInv, Parkers, Waking, Waiting
      <4> QED BY <1>2, <2>1, <4>1, <4>2, <4>3 DEF TypeOK
    <3> QED BY <3>1, <3>2
  <2>8. \A u \in Thread : pc'[u] = UFinish => tail'[u] \in Thread /\ pc'[tail'[u]] = Parked
    BY <1>2, <2>1 DEF ListInv, Parkers
  <2>9. Parkers'
    BY <2>5, <2>6, <2>7, <2>8 DEF Parkers
  <2> QED BY <2>4, <2>9 DEF ListInv
<1>4. CASE Unpark(t)
  <2>1. /\ Row(q, a, b, d, h, k)'
        /\ \A n \in Thread : Waiting(n)' <=> Waiting(n) /\ n # tail[t]
    BY <1>1, <1>4, RowWoken DEF ListInv
  <2>2. /\ Waking(t) /\ pc[t] = UWake /\ pc'[t] = UFinish /\ holds' = holds
        /\ tail[t] \in Thread /\ pc[tail[t]] = Parked
    BY <1>4 DEF Unpark, Goto, TypeOK, ListInv, Parkers, Waking, Waiting
  <2>3. \A u \in Thread : Waking(u)' => Waking(u) /\ u # t
    BY <1>2, <2>2 DEF Waking
  <2>4. ASSUME NEW u \in Thread, Waking(u)' PROVE Waiting(tail[u])'
    <3>1. PICK n \in Thread : n = tail[u] /\ Waiting(n)
      BY <2>3, <2>4 DEF ListInv, Parkers, Waiting
    <3>2. n # tail[t]
      BY <2>2, <2>3, <2>4, <3>1 DEF ListInv, Parkers
    <3>3. Waiting(n)' /\ tail'[u] = n
      BY <1>2, <2>1, <3>1, <3>2
    <3> QED BY <3>3 DEF Waiting
  <2>5. \A u, v \in Thread : Waking(u)' /\ Waking(v)' /\ tail'[u] = tail'[v] => u = v
    BY <1>2, <2>3 DEF ListInv, Parkers
  <2>6. \A u \in Thread : pc'[u] \in {UWake, UFinish} => holds'[tail'[u]] = u
    BY <1>2, <2>2 DEF ListInv, Parkers
  <2>7. \A u \in Thread : pc'[u] = UFinish => tail'[u] \in Thread /\ pc'[tail'[u]] = Parked
    BY <1>2, <2>2 DEF ListInv, Parkers
  <2>8. Parkers'
    BY <2>4, <2>5, <2>6, <2>7 DEF Parkers
  <2> QED BY <2>1, <2>8 DEF ListInv
<1>5. CASE UnparkFinish(t)
  <2>1. /\ pc[t] = UFinish /\ pc'[t] = Idle /\ node' = node
        /\ tail[t] \in Thread /\ holds[tail[t]] = t
        /\ holds' = [holds EXCEPT ![tail[t]] = NULL]
    BY <1>5 DEF UnparkFinish, Goto, TypeOK, ListInv, Parkers
  <2>2. \A n \in Thread : Waiting(n)' <=> Waiting(n)
    BY <1>2, <2>1 DEF Waiting
  <2>3. \A u \in Thread : Waking(u)' <=> Waking(u)
    BY <1>2, <2>1 DEF Waking
  <2>4. Row(q, a, b, d, h, k)'
    <3>1. ~Walking(t)'
      BY <2>1 DEF Walking
    <3> QED BY <1>1, <1>2, <2>1, <2>2, <2>3, <3>1, RowStays
  <2>5. ASSUME NEW u \in Thread, Waking(u)' PROVE Waiting(tail[u])'
    <3>1. PICK n \in Thread : n = tail[u] /\ Waiting(n)
      BY <2>3, <2>5 DEF ListInv, Parkers, Waiting
    <3>2. Waiting(n)' /\ tail'[u] = n
      BY <1>2, <2>2, <3>1
    <3> QED BY <3>2 DEF Waiting
  <2>6. \A u, v \in Thread : Waking(u)' /\ Waking(v)' /\ tail'[u] = tail'[v] => u = v
    BY <1>2, <2>3 DEF ListInv, Parkers
  <2>7. ASSUME NEW u \in Thread, pc'[u] \in {UWake, UFinish} PROVE holds'[tail'[u]] = u
    <3>1. u # t /\ pc[u] = pc'[u]
      BY <1>2, <2>1, <2>7
    <3>2. holds[tail[u]] = u
      BY <2>7, <3>1 DEF ListInv, Parkers
    <3>3. tail[u] # tail[t]
      BY <2>1, <3>1, <3>2
    <3>4. tail[u] \in Thread
      BY <2>7, <3>1 DEF ListInv, Parkers, Waking, Waiting
    <3> QED BY <1>2, <2>1, <3>2, <3>3, <3>4 DEF TypeOK
  <2>8. \A u \in Thread : pc'[u] = UFinish => tail'[u] \in Thread /\ pc'[tail'[u]] = Parked
    BY <1>2, <2>1 DEF ListInv, Parkers
  <2>9. Parkers'
    BY <2>5, <2>6, <2>7, <2>8 DEF Parkers
  <2> QED BY <2>4, <2>9 DEF ListInv
<1> QED BY <1>3, <1>4, <1>5

\* A node is pushed on the list.
LEMMA ListPushed ==
  ASSUME TypeOK, ListInv, NEW t \in Thread, Enqueue(t),
         CasSucceeds(t, [expected[t] EXCEPT !.head = t]), Goto(t, Parked),
         node' = [node EXCEPT ![t] =
           [next |-> expected[t].head, prev |-> NULL,
            tail |-> IF expected[t].head = NULL THEN t ELSE NULL,
            should_park |-> TRUE]],
         \A u \in Thread : Walking(u) => state.head # NULL
  PROVE  ListInv'
<1>1. PICK q, a, b, d, h, k : Row(q, a, b, d, h, k)
  BY DEF ListInv
<1>2. /\ pc[t] = Loop /\ pc'[t] = Parked /\ UNCHANGED <<holds, tail, expected, current>>
      /\ \A u \in Thread \ {t} : pc'[u] = pc[u]
      /\ state = expected[t]
  BY DEF Enqueue, Goto, CasSucceeds, TypeOK
<1>3. state'.head = t
  BY DEF CasSucceeds, TypeOK, Word
<1>4. ~Waiting(t) /\ ~Walking(t) /\ ~Waking(t)
  BY <1>2 DEF Waiting, Walking, Waking
<1>5. \E q2, b2, d2, h2, k2 : Row(q2, a, b2, d2, h2, k2)'
  BY <1>1, <1>2, <1>3, <1>4, RowPushed DEF ListInv
<1>6. \A n \in Thread : Waiting(n) => Waiting(n)'
  BY <1>2, <1>4 DEF Waiting, TypeOK
<1>7. Parkers'
  <2>1. ~Waking(t)' /\ pc'[t] # UFinish /\ pc[t] # Parked
    BY <1>2 DEF Waking
  <2> QED BY <1>2, <1>6, <2>1, ParkersStay DEF ListInv
<1> QED BY <1>5, <1>7 DEF ListInv

\* Every step keeps the list of waiters and the wakeups.
LEMMA ListKept == ASSUME IInv, IInv', ListInv, [Next]_vars PROVE ListInv'
<1>0. /\ TypeOK /\ QueueExclusion /\ QueueExclusion'
      /\ \A u \in Thread : Walking(u) => state.head # NULL
      /\ \A u \in Thread : (Walking(u) => state.head # NULL)'
  BY DEF IInv, QueueInv, Walking
<1>1. CASE UNCHANGED vars
  <2>1. PICK q, a, b, d, h, k : Row(q, a, b, d, h, k)
    BY DEF ListInv
  <2>2. Row(q, a, b, d, h, k)'
    BY <1>1, <2>1 DEF vars, Row, Shape, Tails, Prevs, Walker, Members, Waiting, Waking
  <2>3. Parkers'
    BY <1>1 DEF vars, ListInv, Parkers, Waiting, Waking
  <2> QED BY <2>2, <2>3 DEF ListInv
<1> SUFFICES ASSUME NEW t \in Thread, LockStep(t) \/ UnlockStep(t) PROVE ListInv'
  BY <1>1 DEF Next, Done
<1>2. ASSUME Walking(t) PROVE /\ state.head # NULL
                              /\ \A u \in Thread \ {t} : ~Walking(u)
  BY <1>0, <1>2 DEF QueueExclusion, Walking
<1>3. \A l : Goto(t, l) => pc'[t] = l /\ \A u \in Thread \ {t} : pc'[u] = pc[u]
  BY <1>0 DEF Goto, TypeOK
<1>4. /\ state \in Word /\ expected[t] \in Word
      /\ \A x \in BOOLEAN : /\ [state EXCEPT !.lock = x].head = state.head
                            /\ [expected[t] EXCEPT !.lock = x].head = expected[t].head
                            /\ [expected[t] EXCEPT !.queue_lock = x].head = expected[t].head
  BY <1>0 DEF TypeOK, Word
<1>5. CASE Lock(t)
  <2>1. state'.head = state.head /\ pc[t] = Idle /\ pc'[t] \in {Crit, Load}
    BY <1>3, <1>4, <1>5 DEF Lock
  <2>2. \A u \in Thread \ {t} : pc'[u] = pc[u]
    BY <1>3, <1>5 DEF Lock
  <2> QED BY <1>5, <2>1, <2>2, ListStays DEF Lock, Walking, Waking
<1>6. CASE LockFull(t)
  <2>1. pc'[t] = Loop /\ \A u \in Thread \ {t} : pc'[u] = pc[u] /\ expected'[u] = expected[u]
    BY <1>0, <1>3, <1>6 DEF LockFull, TypeOK
  <2> QED BY <1>6, <2>1, ListStays DEF LockFull, Walking, Waking
<1>7. CASE TryAcquire(t)
  <2>1. state'.head = state.head
    BY <1>4, <1>7 DEF TryAcquire, CasSucceeds, CasFails
  <2>2. /\ pc'[t] \in {Crit, Loop}
        /\ \A u \in Thread \ {t} : pc'[u] = pc[u] /\ expected'[u] = expected[u]
    BY <1>0, <1>3, <1>7 DEF TryAcquire, CasSucceeds, CasFails, TypeOK
  <2> QED BY <1>7, <2>1, <2>2, ListStays DEF TryAcquire, Walking, Waking
<1>8. CASE Spin(t)
  <2>1. pc'[t] = Loop /\ \A u \in Thread \ {t} : pc'[u] = pc[u] /\ expected'[u] = expected[u]
    BY <1>0, <1>8 DEF Spin, TypeOK
  <2> QED BY <1>8, <2>1, ListStays DEF Spin, Walking, Waking
<1>9. CASE Enqueue(t)
  <2>1. CASE CasFails(t) /\ UNCHANGED <<node, pc>>
    <3>1. pc'[t] = Loop /\ \A u \in Thread \ {t} : pc'[u] = pc[u] /\ expected'[u] = expected[u]
      BY <1>0, <1>9, <2>1 DEF Enqueue, CasFails, TypeOK
    <3> QED BY <1>9, <2>1, <3>1, ListStays DEF Enqueue, CasFails, Walking, Waking
  <2>2. CASE CasSucceeds(t, [expected[t] EXCEPT !.head = t]) /\ Goto(t, Parked)
    <3>1. ~ (CasFails(t) /\ UNCHANGED <<node, pc>>)
      BY <1>0, <1>3, <1>9, <2>2 DEF Enqueue
    <3>2. node' = [node EXCEPT ![t] =
             [next |-> expected[t].head, prev |-> NULL,
              tail |-> IF expected[t].head = NULL THEN t ELSE NULL,
              should_park |-> TRUE]]
      BY <1>9, <3>1 DEF Enqueue
    <3> QED BY <1>0, <1>9, <2>2, <3>2, ListPushed
  <2> QED BY <1>9, <2>1, <2>2 DEF Enqueue
<1>10. CASE Unparked(t)
  <2>1. pc'[t] = Loop /\ \A u \in Thread \ {t} : pc'[u] = pc[u] /\ expected'[u] = expected[u]
    BY <1>0, <1>3, <1>10 DEF Unparked, TypeOK
  <2> QED BY <1>10, <2>1, ListStays DEF Unparked, ParkReturns, Walking, Waking
<1>11. CASE Unlock(t)
  <2>1. state'.head = state.head /\ pc[t] = Crit /\ pc'[t] \in {ULoad, Idle}
    BY <1>3, <1>4, <1>11 DEF Unlock
  <2>2. \A u \in Thread \ {t} : pc'[u] = pc[u]
    BY <1>3, <1>11 DEF Unlock
  <2> QED BY <1>11, <2>1, <2>2, ListStays DEF Unlock, Walking, Waking
<1>12. CASE UnlockFull(t)
  <2>1. /\ pc'[t] \in {Idle, UGrab}
        /\ \A u \in Thread \ {t} : pc'[u] = pc[u] /\ expected'[u] = expected[u]
    BY <1>0, <1>3, <1>12 DEF UnlockFull, GrabOrReturn, TypeOK
  <2> QED BY <1>12, <2>1, ListStays DEF UnlockFull, Walking, Waking
<1>13. CASE GrabQueue(t)
  <2>1. CASE CasFails(t) /\ GrabOrReturn(t) /\ UNCHANGED current
    <3>1. /\ pc'[t] \in {Idle, UGrab}
          /\ \A u \in Thread \ {t} : pc'[u] = pc[u] /\ expected'[u] = expected[u]
      BY <1>0, <1>3, <2>1 DEF CasFails, GrabOrReturn, TypeOK
    <3> QED BY <1>13, <2>1, <3>1, ListStays DEF GrabQueue, CasFails, Walking, Waking
  <2>2. CASE /\ CasSucceeds(t, [expected[t] EXCEPT !.queue_lock = TRUE])
             /\ current' = [current EXCEPT ![t] = expected[t].head]
             /\ Goto(t, UWalk)
    <3>1. /\ state = expected[t] /\ state'.head = state.head /\ expected' = expected
          /\ current'[t] = state.head /\ pc'[t] = UWalk /\ pc[t] = UGrab
          /\ \A u \in Thread \ {t} : pc'[u] = pc[u]
      BY <1>0, <1>3, <1>4, <1>13, <2>2 DEF GrabQueue, CasSucceeds, TypeOK
    <3>2. \A u \in Thread \ {t} : ~Walking(u)
      BY <1>0, <3>1 DEF QueueExclusion, Walking
    <3>3. state.head # NULL
      BY <1>0, <3>1 DEF Walking
    <3> QED BY <1>13, <3>1, <3>2, <3>3, ListWalked DEF GrabQueue
  <2> QED BY <1>13, <2>1, <2>2 DEF GrabQueue
<1>14. CASE Walk(t)
  <2>1. Walking(t)
    BY <1>14 DEF Walk, Walking
  <2> QED BY <1>0, <1>2, <1>14, <2>1, ListWalks
<1>15. ASSUME Rewalk(t), pc[t] = UDecide, UNCHANGED <<node, holds, tail>> PROVE ListInv'
  <2>1. Walking(t)
    BY <1>15 DEF Walking
  <2>2. /\ state' = state /\ expected'[t] = state /\ current'[t] = state.head
        /\ pc'[t] = UWalk /\ \A u \in Thread \ {t} : pc'[u] = pc[u]
    BY <1>0, <1>3, <1>15 DEF Rewalk, CasFails, TypeOK
  <2> QED BY <1>2, <1>15, <2>1, <2>2, ListWalked
<1>16. CASE LeaveToHolder(t)
  <2>1. CASE /\ CasSucceeds(t, [expected[t] EXCEPT !.queue_lock = FALSE])
             /\ Goto(t, Idle)
             /\ UNCHANGED current
    <3>1. state'.head = state.head /\ pc'[t] = Idle /\ \A u \in Thread \ {t} : pc'[u] = pc[u]
      BY <1>3, <1>4, <2>1 DEF CasSucceeds
    <3> QED BY <1>16, <2>1, <3>1, ListStays DEF LeaveToHolder, CasSucceeds, Walking, Waking
  <2> QED BY <1>15, <1>16, <2>1 DEF LeaveToHolder
<1>17. CASE PopLast(t)
  <2>0. pc[t] = UDecide /\ Walking(t) /\ UNCHANGED <<node, holds, tail>>
    BY <1>17 DEF PopLast, Walking
  <2>1. state.head # NULL /\ \A u \in Thread \ {t} : ~Walking(u)
    BY <1>2, <2>0
  <2>2. CASE /\ CasSucceeds(t, [Zero EXCEPT !.lock = expected[t].lock])
             /\ Goto(t, UStart)
    BY <1>0, <1>17, <2>1, <2>2, ListPopped
  <2>3. CASE Rewalk(t)
    BY <1>15, <2>0, <2>3
  <2> QED BY <1>17, <2>1, <2>2, <2>3 DEF PopLast
<1>18. CASE PopTail(t)
  <2>1. Walking(t)
    BY <1>18 DEF PopTail, Walking
  <2> QED BY <1>0, <1>2, <1>18, <2>1, ListPopped
<1>19. CASE UnparkStart(t) \/ Unpark(t) \/ UnparkFinish(t)
  BY <1>0, <1>19, ListUnparks
<1> QED BY <1>5, <1>6, <1>7, <1>8, <1>9, <1>10, <1>11, <1>12, <1>13, <1>14,
           <1>16, <1>17, <1>18, <1>19 DEF LockStep, UnlockStep

-----------------------------------------------------------------------------
(***************************************************************************)
(* Listed, the nodes found along the next pointers, are the nodes of the   *)
(* list.  The path is a function because every prefix of it is.            *)
(***************************************************************************)
\* A set of numbers has a least one.
LEMMA Least ==
  ASSUME NEW S \in SUBSET Nat, S # {}
  PROVE  \E x \in S : \A y \in S : x <= y
<1>1. PICK x \in S : \A y \in S : ~(<<y, x>> \in OpToRel(<, Nat))
  BY NatLessThanWellFounded, WFMin
<1>2. \A y \in S : ~(y < x)
  BY <1>1 DEF OpToRel
<1> QED BY <1>2

\* The least element of a set of numbers is the one none is below.
LEMMA MinIs ==
  ASSUME NEW S \in SUBSET Nat, NEW x \in S, \A y \in S : x <= y
  PROVE  Min(S) = x
<1>1. Min(S) \in S /\ \A y \in S : Min(S) <= y
  BY DEF Min
<1>2. Min(S) \in Nat /\ x \in Nat /\ Min(S) <= x /\ x <= Min(S)
  BY <1>1
<1> QED BY <1>2

\* The first nodes on the way along the next pointers, up to number m.
Along(g, m) ==
  g = [i \in 0 .. m |->
         IF i = 0 THEN state.head ELSE IF g[i - 1] = NULL THEN NULL ELSE node[g[i - 1]].next]

\* There is such a way of any length.
LEMMA PathExists ==
  ASSUME NEW N \in Nat
  PROVE  \E g : Along(g, N)
<1> DEFINE After(u) == IF u = NULL THEN NULL ELSE node[u].next
           Upto(g, m) == g = [i \in 0 .. m |-> IF i = 0 THEN state.head ELSE After(g[i - 1])]
           Bad == {m \in Nat : ~ \E g : Upto(g, m)}
<1>1. SUFFICES ASSUME N \in Bad PROVE FALSE
  BY DEF Along
<1>2. PICK m \in Bad : \A j \in Bad : m <= j
  <2>1. Bad \in SUBSET Nat /\ Bad # {}
    BY <1>1
  <2> HIDE DEF Bad
  <2> QED BY <2>1, Least
<1>3. m - 1 \notin Bad
  <2>1. m \in Nat
    BY <1>2
  <2> HIDE DEF Bad
  <2> QED BY <1>2, <2>1
<1>4. m \in Nat /\ ~ \E g : Upto(g, m)
  BY <1>2
<1>5. m # 0
  <2>1. Upto([i \in 0 .. 0 |-> state.head], 0)
    OBVIOUS
  <2> QED BY <2>1, <1>4
<1>6. PICK g : Upto(g, m - 1)
  <2>1. m - 1 \in Nat
    BY <1>4, <1>5
  <2> QED BY <1>3, <2>1
<1> DEFINE longer == [i \in 0 .. m |-> IF i < m THEN g[i] ELSE After(g[m - 1])]
<1>7. \A i \in 0 .. m : longer[i] = IF i = 0 THEN state.head ELSE After(longer[i - 1])
  <2> SUFFICES ASSUME NEW i \in 0 .. m
               PROVE  longer[i] = IF i = 0 THEN state.head ELSE After(longer[i - 1])
    OBVIOUS
  <2> HIDE DEF After
  <2>1. CASE i < m
    <3>1. g[i] = IF i = 0 THEN state.head ELSE After(g[i - 1])
      BY <1>4, <1>6, <2>1
    <3>2. i # 0 => longer[i - 1] = g[i - 1]
      BY <1>4, <2>1
    <3> QED BY <1>4, <2>1, <3>1, <3>2
  <2>2. CASE i = m
    <3>1. longer[m - 1] = g[m - 1]
      BY <1>4, <1>5
    <3> QED BY <1>4, <1>5, <2>2, <3>1
  <2> QED BY <1>4, <2>1, <2>2
<1>8. Upto(longer, m)
  <2> HIDE DEF After
  <2> QED BY <1>7
<1> QED BY <1>4, <1>8

\* The list has no more nodes than there are threads.
LEMMA RowShort ==
  ASSUME NEW q, NEW a, NEW b, Shape(q, a, b)
  PROVE  /\ Cardinality(Thread) \in Nat
         /\ b - a < Cardinality(Thread)
<1>0. /\ a \in Nat /\ b \in Nat /\ a <= b + 1 /\ IsFiniteSet(Thread)
      /\ \A i \in a .. b : q[i] \in Thread
      /\ \A i, j \in a .. b : q[i] = q[j] => i = j
  BY ThreadAssumption DEF Shape, Waiting
<1> DEFINE f == [i \in a .. b |-> q[i]]
<1>1. f \in Injection(a .. b, Thread)
  <2>1. f \in [a .. b -> Thread] /\ \A i, j \in a .. b : f[i] = f[j] => i = j
    BY <1>0
  <2> HIDE DEF f
  <2> QED BY <2>1, Zenon DEF Injection, IsInjective
<1>2. Cardinality(a .. b) = IF a <= b THEN b - a + 1 ELSE 0
  BY <1>0, FS_Interval
<1>3. Cardinality(a .. b) <= Cardinality(Thread) /\ Cardinality(Thread) \in Nat
  BY <1>0, <1>1, FS_Injection, FS_CardinalityType
<1>4. CASE a <= b
  BY <1>0, <1>2, <1>3, <1>4
<1>5. CASE b < a
  BY <1>0, <1>3, <1>5
<1> QED BY <1>0, <1>4, <1>5

\* The path leads along the list, from the newest node to the oldest.
LEMMA PathIs ==
  ASSUME NEW q, NEW a, NEW b, Shape(q, a, b), a <= b
  PROVE  /\ DOMAIN Path = 0 .. Cardinality(Thread)
         /\ \A i \in 0 .. b - a : i \in DOMAIN Path /\ Path[i] = q[b - i]
<1> DEFINE N == Cardinality(Thread)
<1>0. /\ a \in Nat /\ b \in Nat /\ N \in Nat /\ b - a <= N
      /\ \A i \in a .. b : q[i] \in Thread
  <2>1. a \in Nat /\ b \in Nat /\ \A i \in a .. b : q[i] \in Thread
    BY DEF Shape, Waiting
  <2>2. N \in Nat /\ b - a < N
    BY RowShort
  <2> HIDE DEF N
  <2> QED BY <2>1, <2>2
<1>1. \E g : Along(g, N)
  BY <1>0, PathExists
<1>2. Path = [i \in 0 .. N |-> IF i = 0 THEN state.head
                               ELSE IF Path[i - 1] = NULL THEN NULL ELSE node[Path[i - 1]].next]
  BY <1>1 DEF Path, Along
<1> HIDE DEF N
<1>3. DOMAIN Path = 0 .. N
  BY <1>2, Zenon
<1> DEFINE Off == {i \in 0 .. b - a : Path[i] # q[b - i]}
<1>4. Off = {}
  <2>1. SUFFICES ASSUME Off # {} PROVE FALSE
    OBVIOUS
  <2>2. PICK i \in Off : \A j \in Off : i <= j
    <3>1. Off \in SUBSET Nat
      BY <1>0
    <3> HIDE DEF Off
    <3> QED BY <2>1, <3>1, Least
  <2>3. i \in 0 .. b - a /\ Path[i] # q[b - i] /\ i \in 0 .. N
    BY <1>0, <2>2
  <2>4. i # 0
    <3>1. Path[0] = state.head
      BY <1>0, <1>2
    <3> QED BY <1>0, <2>3, <3>1 DEF Shape
  <2>5. i - 1 \in 0 .. b - a /\ i - 1 \notin Off
    <3>1. i \in Nat /\ i - 1 \in 0 .. b - a
      BY <1>0, <2>3, <2>4
    <3> HIDE DEF Off
    <3> QED BY <2>2, <3>1
  <2>6. Path[i - 1] = q[b - i + 1]
    <3>1. b - (i - 1) = b - i + 1
      BY <1>0, <2>3
    <3> QED BY <2>5, <3>1
  <2>7. b - i + 1 \in a .. b /\ a < b - i + 1 /\ (b - i + 1) - 1 = b - i
    BY <1>0, <2>3, <2>4
  <2>8. node[q[b - i + 1]].next = q[b - i] /\ q[b - i + 1] # NULL
    BY <1>0, <2>7, ThreadAssumption DEF Shape
  <2>9. Path[i] = node[Path[i - 1]].next
    BY <1>2, <2>3, <2>4, <2>6, <2>8
  <2> QED BY <2>3, <2>6, <2>8, <2>9
<1> HIDE DEF Off
<1>5. \A i \in 0 .. b - a : i \notin Off
  BY <1>4
<1> QED BY <1>0, <1>3, <1>5 DEF Off, N

\* Listed is the set of the nodes of the list.
LEMMA ListedIs ==
  ASSUME NEW q, NEW a, NEW b, NEW d, Shape(q, a, b), Tails(q, a, b, d)
  PROVE  Listed = {q[i] : i \in a .. b}
<1>0. /\ a \in Nat /\ b \in Nat /\ d \in Nat
      /\ \A i \in a .. b : q[i] \in Thread
      /\ \A i, j \in a .. b : q[i] = q[j] => i = j
      /\ a <= b => state.head = q[b]
      /\ b < a => state.head = NULL
  BY DEF Shape, Tails, Waiting
<1>1. CASE b < a
  BY <1>0, <1>1 DEF Listed
<1>2. CASE a <= b
  <2>0. /\ a \in a .. b /\ b \in a .. b /\ d \in a .. b /\ state.head # NULL
        /\ node[q[d]].tail = q[a]
        /\ \A i \in a .. b : d < i => node[q[i]].tail = NULL
    BY <1>0, <1>2, ThreadAssumption DEF Tails
  <2>1. /\ DOMAIN Path \in SUBSET Nat
        /\ \A i \in 0 .. b - a : i \in DOMAIN Path /\ Path[i] = q[b - i]
    BY <1>2, PathIs, RowShort
  <2>2. \A i \in Nat : i < b - a \/ i = b - a => i \in 0 .. b - a /\ b - i \in a .. b
    BY <1>0, <1>2
  <2> DEFINE knows == {i \in DOMAIN Path : Path[i] # NULL /\ node[Path[i]].tail # NULL}
             last  == node[Path[Min(knows)]].tail
             ends  == {i \in DOMAIN Path : Path[i] = last}
  <2>3. Min(knows) = b - d
    <3>1. b - d \in 0 .. b - a /\ b - (b - d) = d
      BY <1>0, <2>0
    <3>2. b - d \in knows
      BY <1>0, <2>0, <2>1, <3>1, ThreadAssumption
    <3>3. ASSUME NEW i \in knows PROVE b - d <= i
      <4>1. SUFFICES ASSUME i < b - d PROVE FALSE
        BY <1>0, <2>1, <3>1
      <4>2. i \in Nat
        BY <2>1
      <4>3. i \in 0 .. b - a /\ b - i \in a .. b /\ d < b - i
        BY <1>0, <2>0, <4>1, <4>2
      <4> QED BY <2>0, <2>1, <4>3
    <3>4. knows \in SUBSET Nat
      BY <2>1
    <3> HIDE DEF knows
    <3> QED BY <3>2, <3>3, <3>4, MinIs
  <2>4. last = q[a]
    <3>1. b - d \in 0 .. b - a /\ b - (b - d) = d
      BY <1>0, <2>0
    <3> HIDE DEF knows
    <3> QED BY <2>0, <2>1, <2>3, <3>1
  <2>5. Min(ends) = b - a
    <3> HIDE DEF last
    <3>1. b - a \in 0 .. b - a /\ b - (b - a) = a
      BY <1>0, <1>2
    <3>2. b - a \in ends
      BY <2>1, <2>4, <3>1
    <3>3. ASSUME NEW i \in ends PROVE b - a <= i
      <4>1. SUFFICES ASSUME i < b - a PROVE FALSE
        BY <1>0, <2>1, <3>1
      <4>2. i \in Nat
        BY <2>1
      <4>3. i \in 0 .. b - a /\ b - i \in a .. b /\ b - i # a
        BY <1>0, <4>1, <4>2
      <4> QED BY <1>0, <2>0, <2>1, <2>4, <4>3
    <3>4. ends \in SUBSET Nat
      BY <2>1
    <3> HIDE DEF ends
    <3> QED BY <3>2, <3>3, <3>4, MinIs
  <2>6. Listed = {Path[i] : i \in 0 .. b - a}
    <3>1. Listed = {Path[i] : i \in 0 .. Min(ends)}
      BY <2>0 DEF Listed
    <3> HIDE DEF ends
    <3> QED BY <2>5, <3>1
  <2>7. \A n : n \in Listed => n \in {q[i] : i \in a .. b}
    <3> SUFFICES ASSUME NEW i \in 0 .. b - a PROVE Path[i] \in {q[j] : j \in a .. b}
      BY <2>6
    <3>1. b - i \in a .. b
      BY <1>0
    <3> QED BY <2>1, <3>1
  <2>8. \A i \in a .. b : q[i] \in Listed
    <3> SUFFICES ASSUME NEW i \in a .. b PROVE q[i] \in Listed
      OBVIOUS
    <3>1. b - i \in 0 .. b - a /\ b - (b - i) = i
      BY <1>0
    <3> QED BY <2>1, <2>6, <3>1
  <2> QED BY <2>7, <2>8
<1> QED BY <1>0, <1>1, <1>2

\* The list of waiters is what WaitersConserved says.
LEMMA ListImplies == IInv /\ ListInv => WaitersConserved
<1> SUFFICES ASSUME IInv, ListInv PROVE WaitersConserved
  OBVIOUS
<1>1. PICK q, a, b, d, h, k : Row(q, a, b, d, h, k)
  BY DEF ListInv
<1>2. Listed = {q[i] : i \in a .. b}
  BY <1>1, ListedIs DEF Row
<1>3. \A i \in a .. b : Waiting(q[i]) /\ q[i] \in Thread
  BY <1>1 DEF Row, Shape, Waiting
<1>4. BeingWoken = {tail[t] : t \in {u \in Thread : Waking(u)}}
  BY DEF BeingWoken, Waking
<1>5. \A t \in Thread : Waking(t) => tail[t] \in Thread /\ Waiting(tail[t])
  BY DEF ListInv, Parkers, Waiting
<1>6. NodesLive
  <2> SUFFICES ASSUME NEW t \in Thread
               PROVE  /\ pc[t] = UWalk => /\ Waiting(current[t])
                                          /\ Waiting(expected[t].head)
                                          /\ node[current[t]].tail = NULL
                                               => Waiting(node[current[t]].next)
                      /\ pc[t] = UDecide => Waiting(tail[t]) /\ Waiting(expected[t].head)
                      /\ pc[t] \in {UStart, UWake} => Waiting(tail[t])
                      /\ pc[t] = UFinish => pc[tail[t]] = Parked
    BY DEF NodesLive
  <2>1. CASE pc[t] \in {UWalk, UDecide}
    <3>1. state.head # NULL
      BY <2>1 DEF IInv, QueueInv
    <3>2. /\ a \in Nat /\ b \in Nat /\ d \in Nat /\ h \in Nat /\ k \in Nat
          /\ a <= d /\ d <= k /\ k <= h /\ h <= b
          /\ pc[t] = UWalk => /\ expected[t].head = q[h] /\ current[t] = q[k]
                              /\ node[q[k]].tail = NULL => /\ a < k
                                                           /\ node[q[k]].next = q[k - 1]
          /\ pc[t] = UDecide => expected[t].head = q[h] /\ tail[t] = q[a]
      BY <1>1, <3>1, WalkerAt
    <3>3. /\ a \in a .. b /\ h \in a .. b /\ k \in a .. b
          /\ a < k => k - 1 \in a .. b
      BY <3>2
    <3> QED BY <1>3, <2>1, <3>2, <3>3
  <2>2. CASE pc[t] \notin {UWalk, UDecide}
    BY <1>5, <2>2 DEF ListInv, Parkers, Waking
  <2> QED BY <2>1, <2>2
<1>7. {t \in Thread : Waiting(t)} = Listed \union BeingWoken
  <2>1. ASSUME NEW n \in Thread, Waiting(n) PROVE n \in Listed \union BeingWoken
    BY <1>1, <1>2, <1>4, <2>1 DEF Row, Members
  <2>2. \A n \in Listed \union BeingWoken : n \in Thread /\ Waiting(n)
    BY <1>2, <1>3, <1>4, <1>5
  <2> QED BY <2>1, <2>2
<1>8. Listed \intersect BeingWoken = {}
  BY <1>1, <1>2, <1>4 DEF Row, Members
<1> QED BY <1>6, <1>7, <1>8 DEF WaitersConserved

\* The list of waiters keeps its shape in every reachable state.
LEMMA ListInvariant == Spec => []ListInv
<1>1. IInv /\ IInv' /\ ListInv /\ [Next]_vars => ListInv'
  BY ListKept
<1> QED BY <1>1, InitList, Invariant, PTL DEF Spec

\* No interleaving of lock_full's push with the walk and the surgery of
\* unlock_full loses a waiting thread, wakes it twice or leaves it on the list,
\* and no node is used whose stack frame may be gone.
THEOREM WaitersKept == Spec => []WaitersConserved
  BY ListInvariant, Invariant, ListImplies, PTL

=============================================================================
