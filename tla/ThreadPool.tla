----------------------------- MODULE ThreadPool -----------------------------
(***************************************************************************)
(* The task scheduler of src/src/runtime/thread_pool_common.h: the stack   *)
(* of jobs, the workers that take iterations from it, the owners that help *)
(* until their own jobs are done, counting semaphores, and shutdown.       *)
(*                                                                         *)
(* The pool has one mutex and three condition variables; FastSync is where *)
(* they are modelled, here they are what Monitor says they are.  What a    *)
(* thread does with the mutex held is split into steps only where it tries *)
(* semaphores, which other threads release without the mutex.              *)
(*                                                                         *)
(* A program is data: its groups of tasks, as generated code passes them   *)
(* to halide_do_parallel_tasks (a parallel for loop is a group of one task *)
(* that has no parent), and what each iteration of a task does.  A work    *)
(* record is named by its task: a program calls a group once.              *)
(***************************************************************************)
EXTENDS Integers, Sequences, FiniteSets, FiniteSetsExt

CONSTANTS Caller,       \* the threads that call pipelines
          Worker,       \* the threads the pool may spawn (MAX_THREADS of them)
          Job,          \* the tasks of the program
          Group,        \* the arguments of halide_do_parallel_tasks
          Semaphore,    \* its semaphores
          NULL,         \* the null pointer
          Tasks,        \* Tasks[g]: the sequence of g's tasks
          Parent,       \* Parent[j]: the task whose body starts j, or NULL
          Extent,       \* halide_parallel_task_t::extent of each task
          Serial,       \* the tasks with the serial flag
          MinThreads,   \* halide_parallel_task_t::min_threads
          Acquires,     \* Acquires[j]: the semaphores of j, with their counts
          Body,         \* Body[j][i]: what iteration i of j does
          MayFail,      \* the tasks whose iterations may return an error
          InitialValue, \* halide_semaphore_init of each semaphore
          Program,      \* Program[c]: the calls c makes, in order
          DESIRED       \* HL_NUM_THREADS, else the number of cpus

ASSUME ThreadsAssumption ==
  /\ Caller \intersect Worker = {}
  /\ NULL \notin Caller \union Worker \union Job \union Group
ASSUME DesiredAssumption == DESIRED \in Int /\ Worker # {}

Entry == [op : {"run"}, group : Group] \union [op : {"threads"}, count : Nat]
           \union [op : {"shutdown"}]
Operation == [op : {"release"}, sem : Semaphore, count : Nat] \union [op : {"call"}, group : Group]

ASSUME ProgramAssumption ==
  /\ Tasks \in [Group -> Seq(Job)]
  /\ Parent \in [Job -> Job \union {NULL}]
  /\ Extent \in [Job -> Nat] /\ MinThreads \in [Job -> Nat]
  /\ Serial \subseteq Job /\ MayFail \subseteq Job
  /\ Acquires \in [Job -> Seq([sem : Semaphore, count : Nat])]
  /\ \A j \in Job : \A k, n \in DOMAIN Acquires[j] :   \* a semaphore once per task
       Acquires[j][k].sem = Acquires[j][n].sem => k = n
  /\ Program \in [Caller -> Seq(Entry)]
  /\ \A j \in Job : Body[j] \in [1..Extent[j] -> Seq(Operation)]
  /\ \A j \in Job : \A i \in DOMAIN Body[j] : \A k \in DOMAIN Body[j][i] :
       Body[j][i][k].op = "call" =>     \* a nested call has something to do
         \A n \in DOMAIN Tasks[Body[j][i][k].group] :
           Extent[Tasks[Body[j][i][k].group][n]] > 0

ASSUME InitialAssumption == InitialValue \in [Semaphore -> Nat]

Starts(c, p, g) == Program[c][p].op = "run" /\ Program[c][p].group = g
StartsNested(j, i, k, g) == Body[j][i][k].op = "call" /\ Body[j][i][k].group = g

\* A task belongs to one group and a group is called at one place, once, so
\* that tasks can name the records.
ASSUME OnceAssumption ==
  /\ \A g, h \in Group : \A k \in DOMAIN Tasks[g], n \in DOMAIN Tasks[h] :
       Tasks[g][k] = Tasks[h][n] => g = h /\ k = n
  /\ \A g \in Group :
       /\ \A c, d \in Caller : \A p \in DOMAIN Program[c], q \in DOMAIN Program[d] :
            Starts(c, p, g) /\ Starts(d, q, g) => c = d /\ p = q
       /\ \A j, l \in Job : \A i \in DOMAIN Body[j], m \in DOMAIN Body[l] :
            \A k \in DOMAIN Body[j][i], n \in DOMAIN Body[l][m] :
              StartsNested(j, i, k, g) /\ StartsNested(l, m, n, g) => j = l /\ i = m /\ k = n
       /\ \A c \in Caller, j \in Job : \A p \in DOMAIN Program[c], i \in DOMAIN Body[j] :
            \A k \in DOMAIN Body[j][i] : ~(Starts(c, p, g) /\ StartsNested(j, i, k, g))

\* A task is empty only at the end of its group: with one behind it the pool
\* runs into a record that was never written, and what follows is undefined.
ASSUME EmptyAssumption ==
  \A g \in Group : \A k \in DOMAIN Tasks[g] : Extent[Tasks[g][k]] = 0 => k = Len(Tasks[g])

VARIABLES mutex,               \* who holds work_queue.mutex
          jobs,                \* the job stack, top first
          desired_threads_working,
          spawned,             \* the threads in work_queue.threads
          a_team_size, target_a_team_size,
          workers_sleeping, owners_sleeping,
          threads_reserved,
          shutdown, initialized,
          wake_a_team, wake_b_team, wake_owners,  \* who waits on each condition
          work,                \* struct work of each task
          semaphore,           \* the values of the semaphores
          stack,               \* stack[t]: t's frames of the scheduler, top last
          program,             \* the calls each caller has still to make
          result,              \* result[g]: what the call of g returned
          ran,                 \* history: how often each iteration completed
          released             \* history: how much each semaphore was released

team   == <<a_team_size, target_a_team_size, workers_sleeping, owners_sleeping>>
conds  == <<wake_a_team, wake_b_team, wake_owners>>
life   == <<desired_threads_working, spawned, shutdown, initialized>>
vars   == <<mutex, jobs, team, threads_reserved, life, conds, work, semaphore,
            stack, program, result, ran, released>>

Thread == Caller \union Worker

MAX_THREADS == Cardinality(Worker)

threads_created == Cardinality(spawned)

\* An element of the jobs array that do_parallel_tasks did not fill in.
Garbage == "uninitialised"

Init ==
  /\ mutex = NULL
  /\ jobs = <<>>
  /\ desired_threads_working = 0
  /\ spawned = {}
  /\ a_team_size = 0 /\ target_a_team_size = 0
  /\ workers_sleeping = 0 /\ owners_sleeping = 0
  /\ threads_reserved = 0
  /\ shutdown = FALSE /\ initialized = FALSE
  /\ wake_a_team = {} /\ wake_b_team = {} /\ wake_owners = {}
  /\ work = [j \in Job |-> [extent |-> 0, min |-> 0, active_workers |-> 0,
                            exit_status |-> 0, next_semaphore |-> 0,
                            threads_reserved |-> 0, owner_is_sleeping |-> FALSE]]
  /\ semaphore = [s \in Semaphore |-> InitialValue[s]]
  /\ stack = [t \in Thread |-> <<>>]
  /\ program = [c \in Caller |-> Program[c]]
  /\ result = [g \in Group |-> "none"]
  /\ ran = [j \in Job |-> [i \in 1..Extent[j] |-> 0]]
  /\ released = [s \in Semaphore |-> 0]

-----------------------------------------------------------------------------
\* Frames.  A scheduler loop owns a job, or none in a worker; a run frame is one
\* call of a task's body.
LoopFrame(g, k) == [at |-> "head", group |-> g, index |-> k, pos |-> 1]
RunFrame(j, at, first, last) ==
  [at |-> at, job |-> j, iter |-> first, last |-> last, step |-> 1, failed |-> FALSE]

Top(t) == stack[t][Len(stack[t])]
At(t, l) == stack[t] # <<>> /\ Top(t).at = l
Below(s) == SubSeq(s, 1, Len(s) - 1)
WithTop(s, f) == Append(Below(s), f)
SetTop(t, f) == stack' = [stack EXCEPT ![t] = WithTop(@, f)]
Goto(t, l) == SetTop(t, [Top(t) EXCEPT !.at = l])

\* Skip extent zero jobs: but the pointer stays on the first of them, and each
\* further turn of the loop drops one task and steps over one element.
Prepared(g) ==
  LET all == Tasks[g]
      n   == Len(all)
      z   == Min({k \in 0..n : k = n \/ Extent[all[k + 1]] = 0})
  IN  SubSeq(all, 1, z) \o [k \in 1..((n - z) \div 2) |-> Garbage]

GroupOf(j) == CHOOSE g \in Group : \E k \in DOMAIN Tasks[g] : Tasks[g][k] = j
Siblings(j) == {Prepared(GroupOf(j))[k] : k \in DOMAIN Prepared(GroupOf(j))} \ {Garbage}

\* The job whose completion the loop at the top of t's stack waits for.
Owned(t) == IF Top(t).group = NULL THEN NULL ELSE Prepared(Top(t).group)[Top(t).index]

\* Slip: the flag is lost on the way to the work record.
NeverSerial(j) == FALSE

serial(j) == j \in Serial

\* Slip: iterations that have been taken and not finished are forgotten.
OnlyExtent(j) == work[j].extent > 0

running(j) == work[j].extent > 0 \/ work[j].active_workers > 0

Lock(t) == mutex = NULL /\ mutex' = t
Held(t) == mutex = t /\ UNCHANGED mutex
Unlock(t) == mutex = t /\ mutex' = NULL

\* The list without its k-th element.
Without(s, k) == SubSeq(s, 1, k - 1) \o SubSeq(s, k + 1, Len(s))

(***************************************************************************)
(* enqueue_work_already_locked, with the mutex just taken by t.  (The      *)
(* thread it reserves for the pushing is given back before it returns.)    *)
(***************************************************************************)
Larger(a, b)  == IF a > b THEN a ELSE b
Smaller(a, b) == IF a < b THEN a ELSE b

Filled(js) == {k \in DOMAIN js : js[k] # Garbage}

SumOver(js, f(_)) == MapThenSumSet(LAMBDA k : f(js[k]), Filled(js))

MayBlock(j) == MinThreads[j] # 0 \/ Acquires[j] # <<>>

MinThreadsOf(js) == SumOver(js, LAMBDA j : MinThreads[j])

clamp_num_threads(n) == Larger(1, Smaller(n, MAX_THREADS))

\* A pool that is not initialized takes the default unless a size was set.
Desired ==
  IF initialized THEN desired_threads_working
  ELSE clamp_num_threads(IF desired_threads_working = 0 THEN DESIRED
                         ELSE desired_threads_working)

\* How many threads the pool has once the loop that spawns them is done.
EnoughThreads(js, parent) ==
  IF parent # NULL THEN threads_created
  ELSE LET need == MinThreadsOf(js) + (IF \E k \in Filled(js) : MayBlock(js[k]) THEN 1 ELSE 0)
           wanted == Larger(Desired - 1, need + threads_reserved - 1)
       IN  Larger(threads_created, Smaller(MAX_THREADS, wanted))

Enqueue(js, parent) ==
  LET total  == EnoughThreads(js, parent)
      wake   == SumOver(js, LAMBDA j : IF serial(j) THEN 1 ELSE Extent[j]) - 1
      nested == owners_sleeping > 0 \/ workers_sleeping < total
      target == IF nested \/ wake > workers_sleeping THEN total ELSE wake
      a_team == a_team_size + (total - threads_created)
  IN
  /\ initialized' = TRUE /\ desired_threads_working' = Desired
  /\ \E new \in SUBSET (Worker \ spawned) :
       /\ Cardinality(new) = total - threads_created
       /\ spawned' = spawned \union new
  /\ a_team_size' = a_team
  /\ target_a_team_size' = target
  /\ jobs' = js \o jobs
  /\ work' = [j \in Job |->
       IF \E k \in DOMAIN js : js[k] = j
       THEN [extent |-> Extent[j], min |-> 0, active_workers |-> 0,
             exit_status |-> 0, next_semaphore |-> 0, threads_reserved |-> 0,
             owner_is_sleeping |-> FALSE]
       ELSE work[j]]
  /\ wake_a_team' = {}
  /\ wake_b_team' = IF target > a_team THEN {} ELSE wake_b_team
  /\ wake_owners' = IF target > a_team /\ \E k \in Filled(js) : MinThreads[js[k]] = 0
                    THEN {} ELSE wake_owners
  /\ UNCHANGED <<workers_sleeping, owners_sleeping, threads_reserved, shutdown,
                 semaphore, result, ran, released>>

\* t's stack after it has called group g, and those of the threads spawned.
Started(t, g) ==
  stack' = [u \in Thread |->
    IF u = t THEN Append(stack[t], LoopFrame(g, 1))
    ELSE IF u \in spawned' \ spawned THEN <<[LoopFrame(NULL, 0) EXCEPT !.at = "start"]>>
    ELSE stack[u]]

\* halide_do_parallel_tasks with something to do, from a pipeline's caller.
CallGroup(c) ==
  /\ stack[c] = <<>> /\ program[c] # <<>>
  /\ Head(program[c]).op = "run"
  /\ LET g == Head(program[c]).group IN
     /\ Prepared(g) # <<>>
     /\ Enqueue(Prepared(g), NULL)
     /\ Started(c, g)
  /\ Lock(c)
  /\ program' = [program EXCEPT ![c] = Tail(@)]

\* With nothing to do it returns without a look at the queue.
CallEmpty(c) ==
  /\ stack[c] = <<>> /\ program[c] # <<>>
  /\ Head(program[c]).op = "run"
  /\ Prepared(Head(program[c]).group) = <<>>
  /\ result' = [result EXCEPT ![Head(program[c]).group] = "ok"]
  /\ program' = [program EXCEPT ![c] = Tail(@)]
  /\ UNCHANGED <<mutex, jobs, team, threads_reserved, life, conds, work,
                 semaphore, stack, ran, released>>

\* halide_set_num_threads: the pool grows at the next call, and never shrinks.
SetNumThreads(c) ==
  /\ stack[c] = <<>> /\ program[c] # <<>>
  /\ Head(program[c]).op = "threads"
  /\ mutex = NULL
  /\ LET n == Head(program[c]).count
     IN  desired_threads_working' = clamp_num_threads(IF n = 0 THEN DESIRED ELSE n)
  /\ program' = [program EXCEPT ![c] = Tail(@)]
  /\ UNCHANGED <<mutex, jobs, team, threads_reserved, spawned, shutdown, initialized,
                 conds, work, semaphore, stack, result, ran, released>>

(***************************************************************************)
(* worker_thread_already_locked, the head of its loop.                     *)
(***************************************************************************)
\* worker_thread takes the mutex.
WorkerStart(t) ==
  /\ At(t, "start")
  /\ Lock(t)
  /\ Goto(t, "head")
  /\ UNCHANGED <<jobs, team, threads_reserved, life, conds, work, semaphore,
                 program, result, ran, released>>

WorkerExit(t) ==
  /\ At(t, "head") /\ Owned(t) = NULL
  /\ shutdown
  /\ Unlock(t)
  /\ stack' = [stack EXCEPT ![t] = <<>>]
  /\ UNCHANGED <<jobs, team, threads_reserved, life, conds, work, semaphore,
                 program, result, ran, released>>

\* halide_do_parallel_tasks joins the jobs in order and returns the last error.
Joined(t) ==
  /\ At(t, "head") /\ Owned(t) # NULL
  /\ ~running(Owned(t))
  /\ LET f  == Top(t)
         js == Prepared(f.group)
         failed == \E k \in DOMAIN js : work[js[k]].exit_status # 0
         below == Below(stack[t])
     IN IF f.index < Len(js)
        THEN /\ Held(t)
             /\ SetTop(t, [f EXCEPT !.index = @ + 1])
             /\ UNCHANGED result
        ELSE /\ Unlock(t)
             /\ result' = [result EXCEPT ![f.group] = IF failed THEN "error" ELSE "ok"]
             /\ stack' = [stack EXCEPT ![t] =
                  IF below = <<>> THEN below
                  ELSE LET r == below[Len(below)]
                       IN  WithTop(below, [r EXCEPT !.step = @ + 1, !.failed = failed,
                                             !.at = IF failed THEN "finish" ELSE "body"])]
  /\ UNCHANGED <<jobs, team, threads_reserved, life, conds, work, semaphore, program,
                 ran, released>>

\* The owner of a failed job takes what is left of it off the stack.
AbandonJob(t) ==
  /\ At(t, "head") /\ Owned(t) # NULL
  /\ running(Owned(t))
  /\ work[Owned(t)].exit_status # 0 /\ work[Owned(t)].active_workers = 0
  /\ Held(t)
  /\ \E k \in DOMAIN jobs : jobs[k] = Owned(t) /\ jobs' = Without(jobs, k)
  /\ work' = [work EXCEPT ![Owned(t)].extent = 0]
  /\ UNCHANGED <<team, threads_reserved, life, conds, semaphore, stack, program,
                 result, ran, released>>

ParentFailed(j) == Parent[j] # NULL /\ work[Parent[j]].exit_status # 0

\* The failure of the parent job becomes a failure of the owned job.
InheritFailure(t) ==
  /\ At(t, "head") /\ Owned(t) # NULL
  /\ running(Owned(t))
  /\ work[Owned(t)].exit_status = 0 /\ ParentFailed(Owned(t))
  /\ Held(t)
  /\ work' = [work EXCEPT ![Owned(t)].exit_status = 1]
  /\ wake_owners' = {}
  /\ UNCHANGED <<jobs, team, threads_reserved, life, wake_a_team, wake_b_team,
                 semaphore, stack, program, result, ran, released>>

StartScan(t) ==
  /\ At(t, "head")
  /\ IF Owned(t) = NULL THEN ~shutdown
     ELSE /\ running(Owned(t))
          /\ IF work[Owned(t)].exit_status # 0
             THEN work[Owned(t)].active_workers > 0
             ELSE ~ParentFailed(Owned(t))
  /\ Held(t)
  /\ SetTop(t, [Top(t) EXCEPT !.at = "scan", !.pos = 1])
  /\ UNCHANGED <<jobs, team, threads_reserved, life, conds, work, semaphore,
                 program, result, ran, released>>

(***************************************************************************)
(* The search for a job to run, from the top of the stack.                 *)
(***************************************************************************)
threads_available(j) ==
  IF Parent[j] = NULL THEN threads_created + 1 - threads_reserved
  ELSE LET p == work[Parent[j]]
       IN  Larger(p.active_workers, 1) * MinThreads[Parent[j]] - p.threads_reserved

can_use_this_thread_stack(t, j) ==
  Owned(t) # NULL => GroupOf(j) = GroupOf(Owned(t)) \/ MinThreads[j] = 0

can_add_worker(j) == serial(j) => work[j].active_workers = 0

Eligible(t, j) == /\ threads_available(j) >= MinThreads[j]
                  /\ can_use_this_thread_stack(t, j)
                  /\ can_add_worker(j)

\* make_runnable: how far down the list of its semaphores job j gets.
Reach(j) ==
  Max({r \in work[j].next_semaphore..Len(Acquires[j]) :
         \A k \in (work[j].next_semaphore + 1)..r :
           semaphore[Acquires[j][k].sem] >= Acquires[j][k].count})

\* Slip: the semaphores are looked at and not taken.
LookedAt(j, r) == semaphore' = semaphore

AcquireUpTo(j, r) ==
  semaphore' = [s \in Semaphore |->
    IF \E k \in (work[j].next_semaphore + 1)..r : Acquires[j][k].sem = s
    THEN semaphore[s] - Acquires[j][CHOOSE k \in 1..r : Acquires[j][k].sem = s].count
    ELSE semaphore[s]]

Runnable(j) == Reach(j) = Len(Acquires[j])

\* The job under consideration cannot be run by this thread now.  What
\* make_runnable acquired before it failed stays acquired.
PassOver(t) ==
  /\ At(t, "scan") /\ Top(t).pos <= Len(jobs)
  /\ LET j == jobs[Top(t).pos] IN
     /\ j # Garbage
     /\ IF Eligible(t, j)
        THEN /\ ~Runnable(j)
             /\ AcquireUpTo(j, Reach(j))
             /\ work' = [work EXCEPT ![j].next_semaphore = Reach(j)]
        ELSE UNCHANGED <<semaphore, work>>
  /\ Held(t)
  /\ SetTop(t, [Top(t) EXCEPT !.pos = @ + 1])
  /\ UNCHANGED <<jobs, team, threads_reserved, life, conds, program, result, ran,
                 released>>

\* Threads of the pool, or of the parent job, set aside for a worker of j.
Reserve(w, j, n) ==
  IF Parent[j] = NULL
  THEN threads_reserved' = threads_reserved + n /\ work' = w
  ELSE /\ work' = [w EXCEPT ![Parent[j]].threads_reserved = @ + n]
       /\ UNCHANGED threads_reserved

\* Slip: a job leaves with its first iteration.
AlwaysLeaves(j, extent) == TRUE

\* Whether a job that is taken leaves the stack, with extent iterations to go.
LeavesStack(j, extent) == serial(j) \/ extent = 0

\* Take a job: all of it off the stack if it is serial, else one iteration.
Claim(t) ==
  /\ At(t, "scan") /\ Top(t).pos <= Len(jobs)
  /\ LET j == jobs[Top(t).pos]
         w == [work EXCEPT ![j].active_workers = @ + 1, ![j].next_semaphore = 0,
                           ![j].min = IF serial(j) THEN @ ELSE @ + 1,
                           ![j].extent = IF serial(j) THEN @ ELSE @ - 1]
         i == work[j].min + 1
         run == IF serial(j) THEN RunFrame(j, "batch", i, i) ELSE RunFrame(j, "body", i, i)
     IN
     /\ j # Garbage
     /\ Eligible(t, j) /\ Runnable(j)
     /\ AcquireUpTo(j, Reach(j))
     /\ Reserve(w, j, MinThreads[j])
     /\ jobs' = IF LeavesStack(j, w[j].extent) THEN Without(jobs, Top(t).pos) ELSE jobs
     /\ stack' = [stack EXCEPT ![t] = Append(@, run)]
  /\ Unlock(t)
  /\ UNCHANGED <<team, life, conds, program, result, ran, released>>

\* Nothing to do: halide_cond_wait, on the condition of owners or of a team.
SleepOwner(t) ==
  /\ At(t, "scan") /\ Top(t).pos > Len(jobs)
  /\ Owned(t) # NULL
  /\ owners_sleeping' = owners_sleeping + 1
  /\ work' = [work EXCEPT ![Owned(t)].owner_is_sleeping = TRUE]
  /\ wake_owners' = wake_owners \union {t}
  /\ Unlock(t)
  /\ Goto(t, "owner_asleep")
  /\ UNCHANGED <<jobs, a_team_size, target_a_team_size, workers_sleeping,
                 threads_reserved, life, wake_a_team, wake_b_team, semaphore,
                 program, result, ran, released>>

SleepWorker(t) ==
  /\ At(t, "scan") /\ Top(t).pos > Len(jobs)
  /\ Owned(t) = NULL
  /\ workers_sleeping' = workers_sleeping + 1
  /\ IF a_team_size > target_a_team_size
     THEN /\ a_team_size' = a_team_size - 1
          /\ wake_b_team' = wake_b_team \union {t}
          /\ Goto(t, "b_asleep")
          /\ UNCHANGED wake_a_team
     ELSE /\ wake_a_team' = wake_a_team \union {t}
          /\ Goto(t, "a_asleep")
          /\ UNCHANGED <<a_team_size, wake_b_team>>
  /\ Unlock(t)
  /\ UNCHANGED <<jobs, target_a_team_size, owners_sleeping, threads_reserved, life,
                 wake_owners, work, semaphore, program, result, ran, released>>

WakeOwner(t) ==
  /\ At(t, "owner_asleep") /\ t \notin wake_owners
  /\ Lock(t)
  /\ work' = [work EXCEPT ![Owned(t)].owner_is_sleeping = FALSE]
  /\ owners_sleeping' = owners_sleeping - 1
  /\ Goto(t, "head")
  /\ UNCHANGED <<jobs, a_team_size, target_a_team_size, workers_sleeping,
                 threads_reserved, life, conds, semaphore, program, result, ran,
                 released>>

\* Slip: every worker that wakes is counted in.
EveryoneJoins(t) == a_team_size + 1

TeamAfterWaking(t) == IF At(t, "b_asleep") THEN a_team_size + 1 ELSE a_team_size

WakeWorker(t) ==
  /\ \/ At(t, "a_asleep") /\ t \notin wake_a_team
     \/ At(t, "b_asleep") /\ t \notin wake_b_team
  /\ a_team_size' = TeamAfterWaking(t)
  /\ Lock(t)
  /\ workers_sleeping' = workers_sleeping - 1
  /\ Goto(t, "head")
  /\ UNCHANGED <<jobs, target_a_team_size, owners_sleeping, threads_reserved, life,
                 conds, work, semaphore, program, result, ran, released>>

(***************************************************************************)
(* Running a job, without the mutex.                                       *)
(***************************************************************************)
\* A serial job claims as many iterations in a row as its semaphores allow.
ClaimMore(t) ==
  /\ At(t, "batch")
  /\ LET f == Top(t) IN
     /\ f.last < work[f.job].min + work[f.job].extent
     /\ Runnable(f.job)
     /\ AcquireUpTo(f.job, Reach(f.job))
     /\ work' = [work EXCEPT ![f.job].next_semaphore = 0]
     /\ SetTop(t, [f EXCEPT !.last = @ + 1])
  /\ UNCHANGED <<mutex, jobs, team, threads_reserved, life, conds, program, result,
                 ran, released>>

\* No more to claim: run what was claimed, or be done if nothing was.
RunBatch(t) ==
  /\ At(t, "batch")
  /\ LET f == Top(t) IN
     /\ IF f.last < work[f.job].min + work[f.job].extent
        THEN /\ ~Runnable(f.job)
             /\ AcquireUpTo(f.job, Reach(f.job))
             /\ work' = [work EXCEPT ![f.job].next_semaphore = Reach(f.job)]
        ELSE UNCHANGED <<semaphore, work>>
     /\ Goto(t, IF f.iter <= f.last THEN "body" ELSE "finish")
  /\ UNCHANGED <<mutex, jobs, team, threads_reserved, life, conds, program, result,
                 ran, released>>

Steps(f) == Body[f.job][f.iter]
DoesNext(t, op) == /\ At(t, "body") /\ Top(t).step \in DOMAIN Steps(Top(t))
                   /\ Steps(Top(t))[Top(t).step].op = op

\* Slip: nobody is told of a release.
NeverWakes(old, n) == FALSE

\* halide_semaphore_release wakes sleepers only if the semaphore was at zero.
WakesOn(old, n) == old = 0 /\ n # 0

Release(t) ==
  /\ DoesNext(t, "release")
  /\ LET s == Steps(Top(t))[Top(t).step] IN
     /\ semaphore' = [semaphore EXCEPT ![s.sem] = @ + s.count]
     /\ released' = [released EXCEPT ![s.sem] = @ + s.count]
     /\ IF WakesOn(semaphore[s.sem], s.count)
        THEN Goto(t, "notify")
        ELSE SetTop(t, [Top(t) EXCEPT !.step = @ + 1])
  /\ UNCHANGED <<mutex, jobs, team, threads_reserved, life, conds, work, program,
                 result, ran>>

\* The wakeup of a release, in a critical section of its own.
ReleaseWake(t) ==
  /\ At(t, "notify")
  /\ mutex = NULL /\ UNCHANGED mutex
  /\ wake_a_team' = {} /\ wake_owners' = {}
  /\ SetTop(t, [Top(t) EXCEPT !.at = "body", !.step = @ + 1])
  /\ UNCHANGED <<jobs, team, threads_reserved, life, wake_b_team, work, semaphore,
                 program, result, ran, released>>

\* The body of a task calls do_par_for or do_parallel_tasks itself.
CallNested(t) ==
  /\ DoesNext(t, "call")
  /\ LET g == Steps(Top(t))[Top(t).step].group IN
     /\ Prepared(g) # <<>>
     /\ Enqueue(Prepared(g), Parent[Tasks[g][1]])
     /\ Started(t, g)
  /\ Lock(t)
  /\ UNCHANGED program

EndIteration(t) ==
  /\ At(t, "body") /\ Top(t).step > Len(Steps(Top(t)))
  /\ LET f == Top(t) IN
     /\ ran' = [ran EXCEPT ![f.job][f.iter] = @ + 1]
     /\ SetTop(t, [f EXCEPT !.iter = @ + 1, !.step = 1,
                     !.at = IF f.iter < f.last THEN "body"
                            ELSE IF serial(f.job) THEN "batch" ELSE "finish"])
  /\ UNCHANGED <<mutex, jobs, team, threads_reserved, life, conds, work, semaphore,
                 program, result, released>>

Fail(t) ==
  /\ At(t, "body") /\ Top(t).job \in MayFail
  /\ SetTop(t, [Top(t) EXCEPT !.at = "finish", !.failed = TRUE])
  /\ UNCHANGED <<mutex, jobs, team, threads_reserved, life, conds, work, semaphore,
                 program, result, ran, released>>

\* A failure is marked on the siblings that have not failed yet.
MarkFailed(j) ==
  [k \in Job |-> IF k = j \/ k \in Siblings(j) THEN [work[k] EXCEPT !.exit_status = 1]
                 ELSE work[k]]

\* The code's condition for waking the owner of a failed sibling.
SiblingOwnerToWake(j) ==
  \E k \in Siblings(j) \ {j} : /\ work[k].exit_status = 0
                               /\ work[j].active_workers = 0
                               /\ work[k].owner_is_sleeping

\* Slip: the owner is told of failure only.
OnlyFailureWakes(w, j) == /\ w[j].active_workers = 0
                          /\ w[j].exit_status # 0
                          /\ w[j].owner_is_sleeping

OwnerToWake(w, j) == /\ w[j].active_workers = 0
                     /\ w[j].extent = 0 \/ w[j].exit_status # 0
                     /\ w[j].owner_is_sleeping

\* Slip: a serial job starts again where it started before.
MinKept(j, last) == work[j].min

\* How far the iterations of job j have been taken when a run up to last ends.
MinAfter(j, last) == IF serial(j) THEN last ELSE work[j].min

\* Back under the mutex: the job's record, its siblings and its owner.
Finish(t) ==
  /\ At(t, "finish")
  /\ LET f == Top(t)
         j == f.job
         total == f.last - work[j].min
         left == IF f.failed THEN 0 ELSE work[j].extent - total
         marked == IF f.failed THEN MarkFailed(j) ELSE work
         w == [marked EXCEPT ![j].active_workers = @ - 1,
                             ![j].min = MinAfter(j, f.last),
                             ![j].extent = IF serial(j) THEN left ELSE @]
     IN
     /\ Reserve(w, j, -MinThreads[j])
     /\ jobs' = IF serial(j) /\ left > 0 THEN <<j>> \o jobs ELSE jobs
     /\ wake_owners' = IF (f.failed /\ SiblingOwnerToWake(j)) \/ OwnerToWake(w, j)
                       THEN {} ELSE wake_owners
     /\ stack' = [stack EXCEPT ![t] =
          LET below == Below(@) IN WithTop(below, [below[Len(below)] EXCEPT !.at = "head"])]
  /\ Lock(t)
  /\ UNCHANGED <<team, life, wake_a_team, wake_b_team, semaphore, program, result,
                 ran, released>>

(***************************************************************************)
(* halide_shutdown_thread_pool, called when no pipeline is running.        *)
(***************************************************************************)
Shutdown(c) ==
  /\ stack[c] = <<>> /\ program[c] # <<>>
  /\ Head(program[c]).op = "shutdown"
  /\ \A u \in Caller \ {c} : stack[u] = <<>> /\ program[u] = <<>>
  /\ IF initialized
     THEN /\ mutex = NULL
          /\ shutdown' = TRUE
          /\ wake_a_team' = {} /\ wake_b_team' = {} /\ wake_owners' = {}
          /\ stack' = [stack EXCEPT ![c] = <<[at |-> "join"]>>]
     ELSE UNCHANGED <<shutdown, conds, stack>>
  /\ program' = [program EXCEPT ![c] = Tail(@)]
  /\ UNCHANGED <<mutex, jobs, team, threads_reserved, desired_threads_working, spawned,
                 initialized, work, semaphore, result, ran, released>>

\* All threads have been joined: reset() zeroes every field but the mutex.
Reset(c) ==
  /\ At(c, "join")
  /\ \A w \in spawned : stack[w] = <<>>
  /\ jobs' = <<>> /\ spawned' = {} /\ threads_reserved' = 0
  /\ a_team_size' = 0 /\ target_a_team_size' = 0
  /\ workers_sleeping' = 0 /\ owners_sleeping' = 0
  /\ shutdown' = FALSE /\ initialized' = FALSE
  /\ stack' = [stack EXCEPT ![c] = <<>>]
  /\ UNCHANGED <<mutex, desired_threads_working, conds, work, semaphore, program,
                 result, ran, released>>

-----------------------------------------------------------------------------
CallerStep(c) == \/ CallGroup(c) \/ CallEmpty(c) \/ SetNumThreads(c)
                 \/ Shutdown(c) \/ Reset(c)

SchedulerStep(t) ==
  \/ WorkerStart(t) \/ WorkerExit(t) \/ Joined(t) \/ AbandonJob(t)
  \/ InheritFailure(t) \/ StartScan(t) \/ PassOver(t) \/ Claim(t)
  \/ SleepOwner(t) \/ SleepWorker(t) \/ WakeOwner(t) \/ WakeWorker(t)
  \/ Finish(t)

BodyStep(t) == \/ ClaimMore(t) \/ RunBatch(t) \/ Release(t) \/ ReleaseWake(t)
               \/ CallNested(t) \/ EndIteration(t)

Returned == \A c \in Caller : stack[c] = <<>> /\ program[c] = <<>>

\* Every call has returned; the workers that are left sleep.
Done ==
  /\ Returned
  /\ \A w \in Worker : stack[w] = <<>> \/ At(w, "a_asleep") \/ At(w, "b_asleep")
  /\ UNCHANGED vars

Next ==
  \/ \E c \in Caller : CallerStep(c)
  \/ \E t \in Thread : SchedulerStep(t) \/ BodyStep(t) \/ Fail(t)
  \/ Done

Spec == Init /\ [][Next]_vars

(***************************************************************************)
(* Fairness.  No thread is suspended for ever and a thread that waits for  *)
(* the mutex gets it (FastSync); an iteration need not fail.               *)
(***************************************************************************)
Fairness ==
  /\ \A c \in Caller : WF_vars(CallerStep(c))
  /\ \A t \in Thread : SF_vars(SchedulerStep(t)) /\ SF_vars(BodyStep(t))

FairSpec == Spec /\ Fairness

-----------------------------------------------------------------------------
(***************************************************************************)
(* Properties.                                                             *)
(***************************************************************************)
Frames == UNION {{<<t, k>> : k \in DOMAIN stack[t]} : t \in Thread}

RunsOf(j) == {x \in Frames : LET f == stack[x[1]][x[2]] IN "job" \in DOMAIN f /\ f.job = j}

LoopsOf(g) == {x \in Frames : LET f == stack[x[1]][x[2]] IN "group" \in DOMAIN f /\ f.group = g}

Asleep(l) == {t \in Thread : At(t, l)}

\* Every variable keeps its type, and the counters the ranges the code relies on.
TypeOK ==
  /\ mutex \in Thread \union {NULL}
  /\ spawned \subseteq Worker
  /\ a_team_size \in 0..threads_created /\ target_a_team_size \in 0..threads_created
  /\ threads_reserved \in 0..(threads_created + 1)
  /\ shutdown \in BOOLEAN /\ initialized \in BOOLEAN
  /\ wake_a_team \subseteq Worker /\ wake_b_team \subseteq Worker /\ wake_owners \subseteq Thread
  /\ work \in [Job -> [extent : Nat, min : Nat, active_workers : Nat,
                       exit_status : {0, 1}, next_semaphore : Nat,
                       threads_reserved : Nat, owner_is_sleeping : BOOLEAN]]
  /\ semaphore \in [Semaphore -> Nat]

\* The counts that owners, enqueuers and the serial flag rely on are exact
\* whenever the mutex is free: workers of a job, sleepers, and the A team.
CountsExact ==
  mutex = NULL =>
    /\ \A j \in Job : work[j].active_workers = Cardinality(RunsOf(j))
    /\ workers_sleeping = Cardinality(Asleep("a_asleep") \union Asleep("b_asleep"))
    /\ owners_sleeping = Cardinality(Asleep("owner_asleep"))
    /\ a_team_size = threads_created - Cardinality(Asleep("b_asleep"))

\* The pool's record of itself is right: types, ranges and counts.
Consistent == TypeOK /\ CountsExact

\* The work records live in the frame of the call that queued them: the call
\* does not return while a thread runs one of them or finds one on the stack.
CallOutlivesJobs ==
  \A j \in Job :
    (RunsOf(j) # {} \/ \E k \in DOMAIN jobs : jobs[k] = j) => LoopsOf(GroupOf(j)) # {}

\* "The calls to the function should be in serial order from min to
\* min+extent-1, with only one executing at a time", however often the job
\* leaves the stack and returns to it, and whoever runs its batches.
SerialOrder ==
  \A j \in Serial :
    /\ Cardinality(RunsOf(j)) <= 1
    /\ \A i \in 1..(Extent[j] - 1) : ran[j][i + 1] > 0 => ran[j][i] > 0

\* No iteration runs twice, and a call that reports success ran all of them.
ExactlyOnce ==
  /\ \A j \in Job : \A i \in 1..Extent[j] : ran[j][i] <= 1
  /\ \A g \in Group : result[g] = "ok" =>
       \A k \in DOMAIN Tasks[g] : \A i \in 1..Extent[Tasks[g][k]] : ran[Tasks[g][k]][i] = 1

\* The owner that abandons its failed job walks the stack until it meets the
\* job: it is there, else the walk would run off the end of the list.
AbandonedJobQueued ==
  \A t \in Thread :
    At(t, "head") /\ Owned(t) # NULL
      => LET j == Owned(t) IN
         running(j) /\ work[j].exit_status # 0 /\ work[j].active_workers = 0
           => \E k \in DOMAIN jobs : jobs[k] = j

\* "Any code that may invalidate any of the reasons a worker or owner may have
\* slept must signal or broadcast": if a release makes a job on the stack one
\* that can be run, the sleepers are going to be woken.
ReleaseWakes ==
  [][jobs' = jobs /\ (\E k \in DOMAIN jobs : ~Runnable(jobs[k]) /\ Runnable(jobs[k])')
       => \E t \in Thread : At(t, "body") /\ At(t, "notify")']_vars

\* The last iteration of job j that may run its body.
Admitted(j) == Max({work[j].min} \union {stack[x[1]][x[2]].last : x \in RunsOf(j)})

\* What the semaphores of an asynchronous stage are for: a consumer has what it
\* consumes, and a producer the room that the fold of its storage leaves it,
\* however the tasks' batches interleave and whatever was acquired in part.
FoldRespected ==
  \A j \in Serial : \A k \in DOMAIN Acquires[j] :
    Admitted(j) * Acquires[j][k].count
      <= InitialValue[Acquires[j][k].sem] + released[Acquires[j][k].sem]

\* Every call returns: no job is left that some thread should run, and no owner
\* sleeps through the completion or the failure of its job.
CallsReturn == <>Returned

=============================================================================
