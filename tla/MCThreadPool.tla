--------------------------- MODULE MCThreadPool -----------------------------
(***************************************************************************)
(* ThreadPool for TLC: the programs that the runs execute.  The shapes are *)
(* those of CodeGen_LLVM::get_parallel_tasks: an asynchronous stage is a   *)
(* group of a producer and a consumer loop, serial and with semaphores,    *)
(* that need no further thread; a parallel loop around one needs one.      *)
(***************************************************************************)
EXTENDS ThreadPool, TLC

CONSTANTS c1, c2, w1, w2, w3,
          prod, cons, loop, again, outer, inner, prod2, cons2,
          gAsync, gLoop, gAgain, gEmpty, gOuter, gAsync2,
          data, fold, data2, fold2

Symmetry == Permutations(Worker)

run(g)     == [op |-> "run", group |-> g]
threads(n) == [op |-> "threads", count |-> n]
down       == [op |-> "shutdown"]
call(g)    == [op |-> "call", group |-> g]
rel(s, n)  == [op |-> "release", sem |-> s, count |-> n]
acq(s, n)  == [sem |-> s, count |-> n]

MCTasks == [g \in Group |->
  CASE g = gAsync  -> <<prod, cons>>
    [] g = gAsync2 -> <<prod2, cons2>>
    [] g = gLoop   -> <<loop>>
    [] g = gAgain  -> <<again>>
    [] g = gEmpty  -> <<inner>>
    [] g = gOuter  -> <<outer>>]

NoParent == [j \in Job |-> NULL]
ParentOuter == [j \in Job |-> IF j = outer THEN NULL ELSE outer]

\* A stage folded over one element: the producer waits for room in the fold,
\* the consumer for data.
MCAcquires == [j \in Job |->
  CASE j = prod  -> <<acq(fold, 1)>>
    [] j = cons  -> <<acq(data, 1)>>
    [] j = prod2 -> <<acq(fold2, 1)>>
    [] j = cons2 -> <<acq(data2, 1)>>
    [] OTHER     -> <<>>]

MCBody == [j \in Job |-> [i \in 1..Extent[j] |->
  CASE j = prod  -> <<rel(data, 1)>>
    [] j = cons  -> <<rel(fold, 1)>>
    [] j = prod2 -> <<rel(data2, 1)>>
    [] j = cons2 -> <<rel(fold2, 1)>>
    [] OTHER     -> <<>>]]

\* Enough for the producer to wait for room once.
MCExtent == [j \in Job |-> IF j = cons THEN 1 ELSE 2]
Values == [s \in Semaphore |-> IF s \in {fold, fold2} THEN 1 ELSE 0]
NoMinThreads == [j \in Job |-> 0]

\* One caller runs an asynchronous stage, shuts the pool down and starts it again
\* with a parallel loop; the other runs a parallel loop that may fail.
AsyncAndLoop == [c \in Caller |->
  IF c = c1 THEN <<run(gAsync), down, run(gAgain)>> ELSE <<run(gLoop)>>]

\* A parallel loop, each of whose iterations runs an asynchronous stage of its
\* own, after the size of the pool is set and a loop over nothing.
NestedExtent == [j \in Job |->
  CASE j = inner -> 0 [] j \in {prod2, cons2} -> 1 [] OTHER -> 2]
NestedBody == [j \in Job |-> [i \in 1..Extent[j] |->
  IF j = outer THEN <<call(IF i = 1 THEN gAsync ELSE gAsync2)>> ELSE MCBody[j][i]]]
NestedMinThreads == [j \in Job |-> IF j = outer THEN 1 ELSE 0]
Nested == [c \in Caller |-> <<threads(2), run(gEmpty), run(gOuter)>>]

=============================================================================
