------------------------------ MODULE Monitor -------------------------------
(***************************************************************************)
(* What halide_mutex_lock, halide_mutex_unlock, halide_cond_wait,          *)
(* halide_cond_signal and halide_cond_broadcast promise their callers,     *)
(* whatever they are built from: one holder per mutex, waits that give the *)
(* mutex up and queue the caller as one operation, signals that release    *)
(* the thread that has waited longest and broadcasts that release all.     *)
(***************************************************************************)
EXTENDS Naturals, Sequences

CONSTANTS Thread, Mutex, Cond, NULL

VARIABLES holder,   \* holder[m]: the thread that holds mutex m
          waiting,  \* waiting[c]: who waits on c, not notified, oldest first
          status    \* what each thread is doing

mvars == <<holder, waiting, status>>

Status == {"out",      \* holds no mutex and is in no wait
           "in",       \* holds a mutex
           "leaving",  \* in wait(): queued, about to give the mutex up
           "asleep"}   \* in wait(): has given the mutex up

MonitorInit ==
  /\ holder = [m \in Mutex |-> NULL]
  /\ waiting = [c \in Cond |-> <<>>]
  /\ status = [t \in Thread |-> "out"]

IsWaiting(t) == \E c \in Cond : \E i \in DOMAIN waiting[c] : waiting[c][i] = t

\* lock(), and the end of wait(): never before a notification.
Acquire(t, m) ==
  /\ status[t] = "out" \/ (status[t] = "asleep" /\ ~IsWaiting(t))
  /\ holder[m] = NULL
  /\ holder' = [holder EXCEPT ![m] = t]
  /\ status' = [status EXCEPT ![t] = "in"]
  /\ UNCHANGED waiting

\* A notified thread wakes up and has still to take the mutex.
Awake(t) ==
  /\ status[t] = "asleep"
  /\ ~IsWaiting(t)
  /\ status' = [status EXCEPT ![t] = "out"]
  /\ UNCHANGED <<holder, waiting>>

\* unlock(), or the release in the middle of wait().
Release(t, m) ==
  /\ holder[m] = t
  /\ holder' = [holder EXCEPT ![m] = NULL]
  /\ \/ status[t] = "in" /\ status' = [status EXCEPT ![t] = "out"]
     \/ status[t] = "leaving" /\ status' = [status EXCEPT ![t] = "asleep"]
  /\ UNCHANGED waiting

\* wait() queues its caller while the caller holds the mutex.
StartWait(t, c) ==
  /\ status[t] = "in"
  /\ status' = [status EXCEPT ![t] = "leaving"]
  /\ waiting' = [waiting EXCEPT ![c] = Append(@, t)]
  /\ UNCHANGED holder

Notify(c) ==
  /\ waiting[c] # <<>>
  /\ waiting' = [waiting EXCEPT ![c] = Tail(@)]
  /\ UNCHANGED <<holder, status>>

NotifyAll(c) ==
  /\ waiting' = [waiting EXCEPT ![c] = <<>>]
  /\ UNCHANGED <<holder, status>>

MonitorNext ==
  \/ \E t \in Thread, m \in Mutex : Acquire(t, m) \/ Release(t, m)
  \/ \E t \in Thread : Awake(t) \/ \E c \in Cond : StartWait(t, c)
  \/ \E c \in Cond : Notify(c) \/ NotifyAll(c)

MonitorSpec == MonitorInit /\ [][MonitorNext]_mvars

=============================================================================
