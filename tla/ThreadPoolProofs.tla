-------------------------- MODULE ThreadPoolProofs --------------------------
(***************************************************************************)
(* Properties of the thread pool, for any number of callers, workers,      *)
(* tasks, groups and semaphores and any bodies of the tasks.               *)
(*                                                                         *)
(* A thread's frames are a stack of calls in progress.  The invariant says *)
(* which frames a stack can hold and in what order (Shape), where each job *)
(* is: with its group not called, on the list, or taken off it (Placed),   *)
(* that active_workers counts the frames that run a job (Counted), which   *)
(* iterations these have and which are left (RunsRight, ParallelRight,     *)
(* SerialRight), and that a group is called once, so that the records of   *)
(* its jobs are not written again while a frame refers to one.  Together   *)
(* they are Right.  Budget says where the content of a semaphore went: to  *)
(* iterations claimed, to the next one (next_semaphore), or nowhere yet.   *)
(***************************************************************************)
EXTENDS ThreadPool, FiniteSetTheorems, SequenceTheorems, WellFoundedInduction, TLAPS

(***************************************************************************)
(* Sequences.                                                              *)
(***************************************************************************)
LEMMA Appended ==
  ASSUME NEW S, NEW s \in Seq(S), NEW f \in S
  PROVE  /\ Append(s, f) \in Seq(S) /\ Len(s) \in Nat /\ Len(Append(s, f)) = Len(s) + 1
         /\ \A k \in 1..Len(s) : Append(s, f)[k] = s[k]
         /\ Append(s, f)[Len(s) + 1] = f
  OBVIOUS

LEMMA Lowered ==
  ASSUME NEW S, NEW s \in Seq(S), s # <<>>
  PROVE  /\ Below(s) \in Seq(S) /\ Len(s) \in Nat /\ Len(s) > 0 /\ Len(Below(s)) = Len(s) - 1
         /\ \A k \in 1..Len(s) - 1 : Below(s)[k] = s[k]
         /\ s[Len(s)] \in S
         /\ Below(s) = <<>> <=> Len(s) = 1
<1>1. Len(s) \in Nat /\ Len(s) > 0 /\ s[Len(s)] \in S /\ \A k \in 1..Len(s) : s[k] \in S
  OBVIOUS
<1>2. Below(s) \in Seq(S) /\ Len(Below(s)) = Len(s) - 1
      /\ \A k \in 1..Len(s) - 1 : Below(s)[k] = s[k]
  <2>1. Below(s) = [k \in 1..Len(s) - 1 |-> s[k]]
    BY <1>1 DEF Below
  <2>2. \A k \in 1..Len(s) - 1 : s[k] \in S
    BY <1>1
  <2>3. [k \in 1..Len(s) - 1 |-> s[k]] \in Seq(S)
    BY <1>1, <2>2
  <2> QED BY <1>1, <2>1, <2>3
<1>3. Below(s) = <<>> <=> Len(s) = 1
  BY <1>1, <1>2
<1> QED BY <1>1, <1>2, <1>3

LEMMA Topped ==
  ASSUME NEW S, NEW s \in Seq(S), s # <<>>, NEW f \in S
  PROVE  /\ WithTop(s, f) \in Seq(S) /\ Len(WithTop(s, f)) = Len(s)
         /\ \A k \in 1..Len(s) - 1 : WithTop(s, f)[k] = s[k]
         /\ WithTop(s, f)[Len(s)] = f
<1>1. /\ Below(s) \in Seq(S) /\ Len(s) \in Nat /\ Len(s) > 0 /\ Len(Below(s)) = Len(s) - 1
      /\ \A k \in 1..Len(s) - 1 : Below(s)[k] = s[k]
  BY Lowered
<1>2. /\ WithTop(s, f) \in Seq(S) /\ Len(WithTop(s, f)) = Len(s) - 1 + 1
      /\ \A k \in 1..Len(s) - 1 : WithTop(s, f)[k] = Below(s)[k]
      /\ WithTop(s, f)[Len(s) - 1 + 1] = f
  BY <1>1, Appended DEF WithTop
<1> QED BY <1>1, <1>2

(***************************************************************************)
(* Stacks.  A thread's stack is a tower of frames: a loop of the scheduler *)
(* on each run of a body, a run on each loop that found a job.             *)
(***************************************************************************)
LoopAt == {"start", "head", "scan", "owner_asleep", "a_asleep", "b_asleep"}
RunAt  == {"batch", "body", "notify", "finish"}
Loop   == [at : LoopAt, group : Group \union {NULL}, index : Nat, pos : Nat \ {0}]
Run    == [at : RunAt, job : Job, iter : Nat, last : Nat, step : Nat, failed : BOOLEAN]
Join   == [at : {"join"}]
Frame  == Loop \union Run \union Join

Record == [extent : Nat, min : Nat, active_workers : Nat, exit_status : {0, 1},
           next_semaphore : Nat, threads_reserved : Int, owner_is_sleeping : BOOLEAN]

\* The frame at a place <<t, k>>.
F(x) == stack[x[1]][x[2]]

Stacked == stack \in [Thread -> Seq(Frame)]

LEMMA Kinds ==
  ASSUME NEW f \in Frame
  PROVE  /\ f \in Loop <=> "group" \in DOMAIN f
         /\ f \in Run <=> "job" \in DOMAIN f
         /\ ~(f \in Loop /\ f \in Run) /\ ~(f \in Loop /\ f \in Join) /\ ~(f \in Run /\ f \in Join)
<1>1. \A x \in Loop : DOMAIN x = {"at", "group", "index", "pos"} /\ x.at \in LoopAt
  BY DEF Loop
<1>2. \A x \in Run : DOMAIN x = {"at", "job", "iter", "last", "step", "failed"} /\ x.at \in RunAt
  BY DEF Run
<1>3. \A x \in Join : DOMAIN x = {"at"} /\ x.at = "join"
  BY DEF Join
<1> QED BY <1>1, <1>2, <1>3 DEF Frame, LoopAt, RunAt

LEMMA PlacesAre ==
  ASSUME Stacked
  PROVE  /\ \A t \in Thread : stack[t] \in Seq(Frame) /\ Len(stack[t]) \in Nat
                              /\ DOMAIN stack[t] = 1..Len(stack[t])
         /\ \A t \in Thread : \A k \in 1..Len(stack[t]) : stack[t][k] \in Frame
         /\ \A x : x \in Frames <=> \E t \in Thread : \E k \in 1..Len(stack[t]) : x = <<t, k>>
<1>1. \A t \in Thread : stack[t] \in Seq(Frame)
  BY DEF Stacked
<1>2. \A s \in Seq(Frame) : Len(s) \in Nat /\ DOMAIN s = 1..Len(s) /\ \A k \in 1..Len(s) : s[k] \in Frame
  OBVIOUS
<1>3. \A x : x \in Frames <=> \E t \in Thread : \E k \in DOMAIN stack[t] : x = <<t, k>>
  BY DEF Frames
<1> QED BY <1>1, <1>2, <1>3

RunPlaces ==
  \A j, x : x \in RunsOf(j) <=>
    \E t \in Thread : \E k \in 1..Len(stack[t]) :
      x = <<t, k>> /\ stack[t][k] \in Run /\ stack[t][k].job = j

LoopPlaces ==
  \A g, x : x \in LoopsOf(g) <=>
    \E t \in Thread : \E k \in 1..Len(stack[t]) :
      x = <<t, k>> /\ stack[t][k] \in Loop /\ stack[t][k].group = g

LEMMA FramesAre == Stacked => RunPlaces /\ LoopPlaces
<1> SUFFICES ASSUME Stacked PROVE RunPlaces /\ LoopPlaces
  OBVIOUS
<1>1. \A t \in Thread : \A k \in 1..Len(stack[t]) :
        /\ stack[t][k] \in Run <=> "job" \in DOMAIN stack[t][k]
        /\ stack[t][k] \in Loop <=> "group" \in DOMAIN stack[t][k]
  BY PlacesAre, Kinds
<1>2. RunPlaces
  BY <1>1, PlacesAre DEF RunPlaces, RunsOf
<1>3. LoopPlaces
  BY <1>1, PlacesAre DEF LoopPlaces, LoopsOf
<1> QED BY <1>2, <1>3

LEMMA FramesAreNext == Stacked' => RunPlaces' /\ LoopPlaces'
  BY FramesAre, PTL

\* What a step does to the stacks: it leaves those of the other threads alone, and
\* writes the top of t's, puts a frame on it, takes it off and writes the one
\* below, or takes off the only one.
Others(t) == \A u \in Thread \ {t} : stack'[u] = stack[u]

Edits(t, f) ==
  /\ Others(t) /\ Len(stack[t]) > 0 /\ Len(stack'[t]) = Len(stack[t])
  /\ \A k \in 1..Len(stack[t]) - 1 : stack'[t][k] = stack[t][k]
  /\ stack'[t][Len(stack[t])] = f

Pushes(t, f) ==
  /\ Len(stack'[t]) = Len(stack[t]) + 1
  /\ \A k \in 1..Len(stack[t]) : stack'[t][k] = stack[t][k]
  /\ stack'[t][Len(stack[t]) + 1] = f

Pops(t, f) ==
  /\ Others(t) /\ Len(stack[t]) > 1 /\ Len(stack'[t]) = Len(stack[t]) - 1
  /\ \A k \in 1..Len(stack[t]) - 2 : stack'[t][k] = stack[t][k]
  /\ stack'[t][Len(stack[t]) - 1] = f

Clears(t) == Others(t) /\ Len(stack[t]) = 1 /\ stack'[t] = <<>>

LEMMA EditMoves ==
  ASSUME Stacked, NEW t \in Thread, stack[t] # <<>>, NEW f \in Frame, SetTop(t, f)
  PROVE  Stacked' /\ Edits(t, f)
<1>1. stack' = [stack EXCEPT ![t] = WithTop(stack[t], f)] /\ stack[t] \in Seq(Frame)
  BY DEF SetTop, Stacked
<1> DEFINE s == stack[t]
<1>2. /\ WithTop(s, f) \in Seq(Frame) /\ Len(WithTop(s, f)) = Len(s) /\ Len(s) > 0
      /\ \A k \in 1..Len(s) - 1 : WithTop(s, f)[k] = s[k]
      /\ WithTop(s, f)[Len(s)] = f
  <2>1. s \in Seq(Frame) /\ s # <<>>
    BY <1>1
  <2> HIDE DEF s
  <2> QED BY <2>1, Topped, Lowered
<1>3. stack'[t] = WithTop(stack[t], f)
  BY <1>1 DEF Stacked
<1> QED BY <1>1, <1>2, <1>3 DEF Stacked, Edits, Others

LEMMA PushMoves ==
  ASSUME Stacked, NEW t \in Thread, NEW f \in Frame, stack' = [stack EXCEPT ![t] = Append(@, f)]
  PROVE  Stacked' /\ Others(t) /\ Pushes(t, f)
<1>1. stack' = [stack EXCEPT ![t] = Append(stack[t], f)] /\ stack[t] \in Seq(Frame)
  BY DEF Stacked
<1>2. stack'[t] = Append(stack[t], f)
  BY <1>1 DEF Stacked
<1> QED BY <1>1, <1>2, Appended DEF Stacked, Pushes, Others

LEMMA PopMoves ==
  ASSUME Stacked, NEW t \in Thread, Len(stack[t]) > 1, NEW f \in Frame,
         stack' = [stack EXCEPT ![t] = WithTop(Below(@), f)]
  PROVE  Stacked' /\ Pops(t, f)
<1>1. stack' = [stack EXCEPT ![t] = WithTop(Below(stack[t]), f)] /\ stack[t] \in Seq(Frame)
  BY DEF Stacked
<1> DEFINE b == Below(stack[t])
<1>2. /\ b \in Seq(Frame) /\ b # <<>> /\ Len(b) = Len(stack[t]) - 1 /\ Len(stack[t]) \in Nat
      /\ \A k \in 1..Len(stack[t]) - 1 : b[k] = stack[t][k]
  <2>1. stack[t] # <<>>
    BY <1>1
  <2> QED BY <1>1, <2>1, Lowered
<1>3. stack'[t] = WithTop(b, f)
  BY <1>1 DEF Stacked
<1> HIDE DEF b
<1>4. /\ WithTop(b, f) \in Seq(Frame) /\ Len(WithTop(b, f)) = Len(b)
      /\ \A k \in 1..Len(b) - 1 : WithTop(b, f)[k] = b[k]
      /\ WithTop(b, f)[Len(b)] = f
  BY <1>2, Topped
<1>5. \A k \in 1..Len(stack[t]) - 2 : WithTop(b, f)[k] = stack[t][k]
  <2>1. \A k \in 1..Len(stack[t]) - 2 : k \in 1..Len(stack[t]) - 1 /\ k \in 1..Len(b) - 1
    BY <1>2
  <2> QED BY <1>2, <1>4, <2>1
<1>6. Stacked'
  BY <1>1, <1>4 DEF Stacked, b
<1>7. Others(t)
  BY <1>1 DEF Stacked, Others
<1> QED BY <1>2, <1>3, <1>4, <1>5, <1>6, <1>7 DEF Pops

LEMMA ClearMoves ==
  ASSUME Stacked, NEW t \in Thread, Len(stack[t]) = 1, stack' = [stack EXCEPT ![t] = <<>>]
  PROVE  Stacked' /\ Clears(t)
  BY DEF Stacked, Clears, Others

\* The place of the top frame, and of the one a push adds.
Summit(t) == <<t, Len(stack[t])>>
Above(t)  == <<t, Len(stack[t]) + 1>>
Lower(t)  == <<t, Len(stack[t]) - 1>>

\* Whether the frame at x has another one on it.
Under(x) == x[2] < Len(stack[x[1]])

\* Frames of the same run, or of the same loop.
SameFrame(e, f) ==
  \/ e \in Run /\ f \in Run /\ e.job = f.job
  \/ e \in Loop /\ f \in Loop /\ e.group = f.group

LEMMA EditPlaces ==
  ASSUME Stacked, Stacked', NEW t \in Thread, NEW f, Edits(t, f), SameFrame(Top(t), f)
  PROVE  /\ \A j : RunsOf(j)' = RunsOf(j)
         /\ \A g : LoopsOf(g)' = LoopsOf(g)
         /\ \A x \in Frames : Under(x)' <=> Under(x)
         /\ \A x \in Frames : x # Summit(t) => F(x)' = F(x)
         /\ \A x : x = Summit(t) => F(x)' = f /\ F(x) = Top(t) /\ x \in Frames
<1> DEFINE n == Len(stack[t])
<1>1. /\ n \in Nat /\ n > 0 /\ Len(stack'[t]) = n
      /\ \A u \in Thread \ {t} : stack'[u] = stack[u]
      /\ \A k \in 1..n - 1 : stack'[t][k] = stack[t][k]
      /\ stack'[t][n] = f /\ Top(t) = stack[t][n]
  BY PlacesAre DEF Edits, Others, Top
<1>2. /\ RunPlaces /\ LoopPlaces /\ RunPlaces' /\ LoopPlaces'
      /\ \A x : x \in Frames <=> \E u \in Thread : \E k \in 1..Len(stack[u]) : x = <<u, k>>
  BY FramesAre, FramesAreNext, PlacesAre
<1>3. \A u \in Thread : Len(stack'[u]) = Len(stack[u])
  BY <1>1
<1>4. \A u \in Thread : \A k \in 1..Len(stack[u]) :
        /\ u # t \/ k # n => stack'[u][k] = stack[u][k]
        /\ u = t /\ k = n => stack'[u][k] = f /\ stack[u][k] = Top(t)
  <2>1. \A k \in 1..n : k # n => k \in 1..n - 1
    BY <1>1
  <2> QED BY <1>1, <2>1
<1>5. \A u \in Thread : \A k \in 1..Len(stack[u]) :
        /\ stack'[u][k] \in Run <=> stack[u][k] \in Run
        /\ stack[u][k] \in Run => stack'[u][k].job = stack[u][k].job
        /\ stack'[u][k] \in Loop <=> stack[u][k] \in Loop
        /\ stack[u][k] \in Loop => stack'[u][k].group = stack[u][k].group
  <2>1. \A e \in Frame : ~(e \in Run /\ e \in Loop)
    BY Kinds
  <2>2. f \in Frame /\ Top(t) \in Frame
    BY DEF SameFrame, Frame
  <2> QED BY <1>4, <2>1, <2>2 DEF SameFrame
<1>6. ASSUME NEW j PROVE RunsOf(j)' = RunsOf(j)
  <2>1. \A x : x \in RunsOf(j)' <=> x \in RunsOf(j)
    BY SMTT(30), <1>2, <1>3, <1>5 DEF RunPlaces
  <2> QED BY <2>1
<1>7. ASSUME NEW g PROVE LoopsOf(g)' = LoopsOf(g)
  <2>1. \A x : x \in LoopsOf(g)' <=> x \in LoopsOf(g)
    BY SMTT(30), <1>2, <1>3, <1>5 DEF LoopPlaces
  <2> QED BY <2>1
<1>8. \A x \in Frames : Under(x)' <=> Under(x)
  BY <1>2, <1>3 DEF Under
<1>9. \A x \in Frames : x # Summit(t) => F(x)' = F(x)
  BY <1>2, <1>4 DEF Summit, F
<1>10. \A x : x = Summit(t) => F(x)' = f /\ F(x) = Top(t) /\ x \in Frames
  BY <1>1, <1>2 DEF Summit, F
<1> QED BY <1>6, <1>7, <1>8, <1>9, <1>10

\* The frames that stay when one is put on t's stack; a thread that is spawned
\* gets a loop that owns no job.
Spawns(t) ==
  \A u \in Thread \ {t} :
    \/ stack'[u] = stack[u]
    \/ stack[u] = <<>> /\ Len(stack'[u]) = 1 /\ stack'[u][1] \in Loop /\ stack'[u][1].group = NULL

LEMMA PushPlaces ==
  ASSUME Stacked, Stacked', NEW t \in Thread, NEW f \in Frame, Pushes(t, f), Spawns(t)
  PROVE  /\ \A j \in Job : RunsOf(j)' = IF f \in Run /\ f.job = j THEN RunsOf(j) \union {Above(t)}
                                        ELSE RunsOf(j)
         /\ \A g \in Group : LoopsOf(g)' = IF f \in Loop /\ f.group = g THEN LoopsOf(g) \union {Above(t)}
                                           ELSE LoopsOf(g)
         /\ Above(t) \notin Frames
         /\ \A x \in Frames : F(x)' = F(x)
         /\ \A x \in Frames : Under(x)' <=> Under(x) \/ x = Summit(t)
         /\ \A x : x = Above(t) => F(x)' = f /\ ~Under(x)'
<1> DEFINE n == Len(stack[t])
<1>1. /\ n \in Nat /\ Len(stack'[t]) = n + 1
      /\ \A k \in 1..n : stack'[t][k] = stack[t][k]
      /\ stack'[t][n + 1] = f
      /\ \A u \in Thread : Len(stack[u]) \in Nat
  BY PlacesAre DEF Pushes
<1>2. /\ RunPlaces /\ LoopPlaces /\ RunPlaces' /\ LoopPlaces'
      /\ \A x : x \in Frames <=> \E u \in Thread : \E k \in 1..Len(stack[u]) : x = <<u, k>>
  BY FramesAre, FramesAreNext, PlacesAre
<1>0. ~(f \in Run /\ f \in Loop) /\ NULL \notin Group
  BY Kinds, ThreadsAssumption DEF Frame
<1>3. \A u \in Thread : \A k \in 1..Len(stack[u]) : k \in 1..Len(stack'[u]) /\ stack'[u][k] = stack[u][k]
  <2>1. \A k \in 1..n : k \in 1..n + 1
    BY <1>1
  <2>2. stack[t] # <<>> => TRUE
    OBVIOUS
  <2>3. \A u \in Thread : stack[u] = <<>> => Len(stack[u]) = 0
    OBVIOUS
  <2> QED BY <1>1, <2>1, <2>3 DEF Spawns
<1>4. \A u \in Thread : \A k \in 1..Len(stack'[u]) :
        \/ k \in 1..Len(stack[u])
        \/ u = t /\ k = n + 1
        \/ stack'[u][k] \in Loop /\ stack'[u][k].group = NULL /\ u # t
  <2>1. \A k \in 1..n + 1 : k \in 1..n \/ k = n + 1
    BY <1>1
  <2>2. \A k \in 1..1 : k = 1
    OBVIOUS
  <2> QED BY <1>1, <2>1, <2>2 DEF Spawns
<1>5. ASSUME NEW j \in Job
      PROVE  RunsOf(j)' = IF f \in Run /\ f.job = j THEN RunsOf(j) \union {Above(t)} ELSE RunsOf(j)
  <2>1. ASSUME NEW x \in RunsOf(j)' PROVE x \in RunsOf(j) \/ (x = Above(t) /\ f \in Run /\ f.job = j)
    <3>1. PICK u \in Thread : \E k \in 1..Len(stack'[u]) :
             x = <<u, k>> /\ stack'[u][k] \in Run /\ stack'[u][k].job = j
      BY <1>2, <2>1 DEF RunPlaces
    <3>2. PICK k \in 1..Len(stack'[u]) : x = <<u, k>> /\ stack'[u][k] \in Run /\ stack'[u][k].job = j
      BY <3>1
    <3>3. CASE k \in 1..Len(stack[u])
      BY <1>2, <1>3, <3>2, <3>3 DEF RunPlaces
    <3>4. CASE u = t /\ k = n + 1
      BY <1>1, <3>2, <3>4 DEF Above
    <3>5. CASE stack'[u][k] \in Loop
      BY <3>2, <3>5, Kinds DEF Frame
    <3> QED BY <1>4, <3>3, <3>4, <3>5
  <2>2. \A x \in RunsOf(j) : x \in RunsOf(j)'
    BY <1>2, <1>3 DEF RunPlaces
  <2>3. f \in Run /\ f.job = j => Above(t) \in RunsOf(j)'
    <3>1. n + 1 \in 1..Len(stack'[t])
      BY <1>1
    <3> QED BY <1>1, <1>2, <3>1 DEF RunPlaces, Above
  <2> QED BY <2>1, <2>2, <2>3
<1>6. ASSUME NEW g \in Group
      PROVE  LoopsOf(g)' = IF f \in Loop /\ f.group = g THEN LoopsOf(g) \union {Above(t)} ELSE LoopsOf(g)
  <2>1. ASSUME NEW x \in LoopsOf(g)' PROVE x \in LoopsOf(g) \/ (x = Above(t) /\ f \in Loop /\ f.group = g)
    <3>1. PICK u \in Thread : \E k \in 1..Len(stack'[u]) :
             x = <<u, k>> /\ stack'[u][k] \in Loop /\ stack'[u][k].group = g
      BY <1>2, <2>1 DEF LoopPlaces
    <3>2. PICK k \in 1..Len(stack'[u]) : x = <<u, k>> /\ stack'[u][k] \in Loop /\ stack'[u][k].group = g
      BY <3>1
    <3>3. CASE k \in 1..Len(stack[u])
      BY <1>2, <1>3, <3>2, <3>3 DEF LoopPlaces
    <3>4. CASE u = t /\ k = n + 1
      BY <1>1, <3>2, <3>4 DEF Above
    <3>5. stack'[u][k].group # NULL
      BY <1>0, <3>2
    <3> QED BY <1>4, <3>3, <3>4, <3>5
  <2>2. \A x \in LoopsOf(g) : x \in LoopsOf(g)'
    BY <1>2, <1>3 DEF LoopPlaces
  <2>3. f \in Loop /\ f.group = g => Above(t) \in LoopsOf(g)'
    <3>1. n + 1 \in 1..Len(stack'[t])
      BY <1>1
    <3> QED BY <1>1, <1>2, <3>1 DEF LoopPlaces, Above
  <2> QED BY <2>1, <2>2, <2>3
<1>7. Above(t) \notin Frames
  BY <1>1, <1>2 DEF Above
<1>8. \A x \in Frames : F(x)' = F(x)
  BY <1>2, <1>3 DEF F
<1>9. \A x \in Frames : Under(x)' <=> Under(x) \/ x = Summit(t)
  <2> SUFFICES ASSUME NEW x \in Frames PROVE Under(x)' <=> Under(x) \/ x = Summit(t)
    OBVIOUS
  <2>1. PICK u \in Thread : \E k \in 1..Len(stack[u]) : x = <<u, k>>
    BY <1>2
  <2>2. PICK k \in 1..Len(stack[u]) : x = <<u, k>>
    BY <2>1
  <2>3. CASE u = t
    BY <1>1, <2>2, <2>3 DEF Under, Summit
  <2>4. CASE u # t
    <3>1. stack[u] # <<>>
      <4>1. Len(stack[u]) # 0
        BY <1>1, <2>2
      <4> QED BY <4>1
    <3>2. stack'[u] = stack[u]
      BY <2>4, <3>1 DEF Spawns
    <3> QED BY <2>2, <2>4, <3>2 DEF Under, Summit
  <2> QED BY <2>3, <2>4
<1>10. \A x : x = Above(t) => F(x)' = f /\ ~Under(x)'
  BY <1>1 DEF Above, F, Under
<1> QED BY <1>5, <1>6, <1>7, <1>8, <1>9, <1>10

LEMMA PopPlaces ==
  ASSUME Stacked, Stacked', NEW t \in Thread, NEW f, Pops(t, f), SameFrame(stack[t][Len(stack[t]) - 1], f)
  PROVE  /\ \A j : RunsOf(j)' = RunsOf(j) \ {Summit(t)}
         /\ \A g : LoopsOf(g)' = LoopsOf(g) \ {Summit(t)}
         /\ \A x \in Frames \ {Summit(t)} : Under(x)' <=> Under(x) /\ x # Lower(t)
         /\ \A x \in Frames \ {Summit(t), Lower(t)} : F(x)' = F(x)
         /\ \A x : x = Lower(t) => F(x)' = f /\ F(x) = stack[t][Len(stack[t]) - 1]
         /\ Lower(t) \in Frames /\ Summit(t) \in Frames /\ Lower(t) # Summit(t)
         /\ F(Summit(t)) = Top(t)
<1> DEFINE n == Len(stack[t])
<1>1. /\ n \in Nat /\ n > 1 /\ Len(stack'[t]) = n - 1
      /\ \A u \in Thread \ {t} : stack'[u] = stack[u]
      /\ \A k \in 1..n - 2 : stack'[t][k] = stack[t][k]
      /\ stack'[t][n - 1] = f /\ Top(t) = stack[t][n]
  BY PlacesAre DEF Pops, Others, Top
<1>2. /\ RunPlaces /\ LoopPlaces /\ RunPlaces' /\ LoopPlaces'
      /\ \A x : x \in Frames <=> \E u \in Thread : \E k \in 1..Len(stack[u]) : x = <<u, k>>
      /\ \A u \in Thread : Len(stack[u]) \in Nat
  BY FramesAre, FramesAreNext, PlacesAre
<1> DEFINE Stays(u, k) == u # t \/ k # n
<1>3. \A u \in Thread : \A k : k \in 1..Len(stack'[u]) <=> k \in 1..Len(stack[u]) /\ Stays(u, k)
  <2>1. \A k : k \in 1..n - 1 <=> k \in 1..n /\ k # n
    BY <1>1
  <2> QED BY <1>1, <2>1
<1>4. \A u \in Thread : \A k \in 1..Len(stack[u]) : Stays(u, k) =>
        /\ u # t \/ k # n - 1 => stack'[u][k] = stack[u][k]
        /\ u = t /\ k = n - 1 => stack'[u][k] = f
  <2>1. \A k \in 1..n : k # n /\ k # n - 1 => k \in 1..n - 2
    BY <1>1
  <2> QED BY <1>1, <2>1
<1>5. \A u \in Thread : \A k \in 1..Len(stack[u]) : Stays(u, k) =>
        /\ stack'[u][k] \in Run <=> stack[u][k] \in Run
        /\ stack[u][k] \in Run => stack'[u][k].job = stack[u][k].job
        /\ stack'[u][k] \in Loop <=> stack[u][k] \in Loop
        /\ stack[u][k] \in Loop => stack'[u][k].group = stack[u][k].group
  <2>1. \A e \in Frame : ~(e \in Run /\ e \in Loop)
    BY Kinds
  <2>2. f \in Frame /\ stack[t][n - 1] \in Frame
    BY DEF SameFrame, Frame
  <2> QED BY <1>4, <2>1, <2>2 DEF SameFrame
<1>6. ASSUME NEW j PROVE RunsOf(j)' = RunsOf(j) \ {Summit(t)}
  <2> HIDE DEF n
  <2>1. \A u \in Thread : \A k : Stays(u, k) <=> <<u, k>> # <<t, n>>
    OBVIOUS
  <2> HIDE DEF Stays
  <2>2. ASSUME NEW x \in RunsOf(j)' PROVE x \in RunsOf(j) /\ x # <<t, n>>
    <3>1. PICK u \in Thread : \E k \in 1..Len(stack'[u]) :
             x = <<u, k>> /\ stack'[u][k] \in Run /\ stack'[u][k].job = j
      BY <1>2, <2>2 DEF RunPlaces
    <3>2. PICK k \in 1..Len(stack'[u]) : x = <<u, k>> /\ stack'[u][k] \in Run /\ stack'[u][k].job = j
      BY <3>1
    <3>3. k \in 1..Len(stack[u]) /\ Stays(u, k)
      BY <1>3
    <3>4. stack[u][k] \in Run /\ stack[u][k].job = j
      BY <1>5, <3>2, <3>3
    <3> QED BY <1>2, <2>1, <3>2, <3>3, <3>4 DEF RunPlaces
  <2>3. ASSUME NEW x \in RunsOf(j), x # <<t, n>> PROVE x \in RunsOf(j)'
    <3>1. PICK u \in Thread : \E k \in 1..Len(stack[u]) :
             x = <<u, k>> /\ stack[u][k] \in Run /\ stack[u][k].job = j
      BY <1>2, <2>3 DEF RunPlaces
    <3>2. PICK k \in 1..Len(stack[u]) : x = <<u, k>> /\ stack[u][k] \in Run /\ stack[u][k].job = j
      BY <3>1
    <3>3. Stays(u, k) /\ k \in 1..Len(stack'[u])
      BY <1>3, <2>1, <2>3, <3>2
    <3>4. stack'[u][k] \in Run /\ stack'[u][k].job = j
      BY <1>5, <3>2, <3>3
    <3> QED BY <1>2, <3>2, <3>3, <3>4 DEF RunPlaces
  <2> QED BY <2>2, <2>3 DEF Summit, n
<1>7. ASSUME NEW g PROVE LoopsOf(g)' = LoopsOf(g) \ {Summit(t)}
  <2> HIDE DEF n
  <2>1. \A u \in Thread : \A k : Stays(u, k) <=> <<u, k>> # <<t, n>>
    OBVIOUS
  <2> HIDE DEF Stays
  <2>2. ASSUME NEW x \in LoopsOf(g)' PROVE x \in LoopsOf(g) /\ x # <<t, n>>
    <3>1. PICK u \in Thread : \E k \in 1..Len(stack'[u]) :
             x = <<u, k>> /\ stack'[u][k] \in Loop /\ stack'[u][k].group = g
      BY <1>2, <2>2 DEF LoopPlaces
    <3>2. PICK k \in 1..Len(stack'[u]) : x = <<u, k>> /\ stack'[u][k] \in Loop /\ stack'[u][k].group = g
      BY <3>1
    <3>3. k \in 1..Len(stack[u]) /\ Stays(u, k)
      BY <1>3
    <3>4. stack[u][k] \in Loop /\ stack[u][k].group = g
      BY <1>5, <3>2, <3>3
    <3> QED BY <1>2, <2>1, <3>2, <3>3, <3>4 DEF LoopPlaces
  <2>3. ASSUME NEW x \in LoopsOf(g), x # <<t, n>> PROVE x \in LoopsOf(g)'
    <3>1. PICK u \in Thread : \E k \in 1..Len(stack[u]) :
             x = <<u, k>> /\ stack[u][k] \in Loop /\ stack[u][k].group = g
      BY <1>2, <2>3 DEF LoopPlaces
    <3>2. PICK k \in 1..Len(stack[u]) : x = <<u, k>> /\ stack[u][k] \in Loop /\ stack[u][k].group = g
      BY <3>1
    <3>3. Stays(u, k) /\ k \in 1..Len(stack'[u])
      BY <1>3, <2>1, <2>3, <3>2
    <3>4. stack'[u][k] \in Loop /\ stack'[u][k].group = g
      BY <1>5, <3>2, <3>3
    <3> QED BY <1>2, <3>2, <3>3, <3>4 DEF LoopPlaces
  <2> QED BY <2>2, <2>3 DEF Summit, n
<1>8. \A x \in Frames \ {Summit(t)} : Under(x)' <=> Under(x) /\ x # Lower(t)
  <2> SUFFICES ASSUME NEW x \in Frames \ {Summit(t)} PROVE Under(x)' <=> Under(x) /\ x # Lower(t)
    OBVIOUS
  <2>1. PICK u \in Thread : \E k \in 1..Len(stack[u]) : x = <<u, k>>
    BY <1>2
  <2>2. PICK k \in 1..Len(stack[u]) : x = <<u, k>>
    BY <2>1
  <2>3. CASE u = t
    <3>1. k \in 1..n /\ k # n
      BY <2>2, <2>3 DEF Summit
    <3> QED BY <1>1, <2>2, <2>3, <3>1 DEF Under, Lower
  <2>4. CASE u # t
    BY <1>1, <2>2, <2>4 DEF Under, Lower
  <2> QED BY <2>3, <2>4
<1>9. \A x \in Frames \ {Summit(t), Lower(t)} : F(x)' = F(x)
  BY <1>2, <1>4 DEF Summit, Lower, F
<1>10. \A x : x = Lower(t) => F(x)' = f /\ F(x) = stack[t][n - 1]
  BY <1>1 DEF Lower, F
<1>11. Lower(t) \in Frames /\ Summit(t) \in Frames /\ Lower(t) # Summit(t) /\ F(Summit(t)) = Top(t)
  <2>1. n \in 1..n /\ n - 1 \in 1..n /\ n # n - 1
    BY <1>1
  <2> QED BY <1>1, <1>2, <2>1 DEF Lower, Summit, F
<1> QED BY <1>6, <1>7, <1>8, <1>9, <1>10, <1>11

LEMMA ClearPlaces ==
  ASSUME Stacked, Stacked', NEW t \in Thread, Clears(t)
  PROVE  /\ \A j : RunsOf(j)' = RunsOf(j) \ {Summit(t)}
         /\ \A g : LoopsOf(g)' = LoopsOf(g) \ {Summit(t)}
         /\ \A x \in Frames \ {Summit(t)} : F(x)' = F(x) /\ (Under(x)' <=> Under(x))
         /\ Summit(t) \in Frames /\ F(Summit(t)) = Top(t)
<1>1. /\ Len(stack[t]) = 1 /\ Len(stack'[t]) = 0
      /\ \A u \in Thread \ {t} : stack'[u] = stack[u]
      /\ Top(t) = stack[t][1]
  BY DEF Clears, Others, Top
<1>2. /\ RunPlaces /\ LoopPlaces /\ RunPlaces' /\ LoopPlaces'
      /\ \A x : x \in Frames <=> \E u \in Thread : \E k \in 1..Len(stack[u]) : x = <<u, k>>
  BY FramesAre, FramesAreNext, PlacesAre
<1>3. \A u \in Thread : \A k : k \in 1..Len(stack'[u]) <=> k \in 1..Len(stack[u]) /\ <<u, k>> # Summit(t)
  <2>1. \A k : k \in 1..0 <=> k \in 1..1 /\ k # 1
    OBVIOUS
  <2> QED BY <1>1, <2>1 DEF Summit
<1>4. \A u \in Thread : \A k \in 1..Len(stack'[u]) : u # t
  BY <1>1
<1>5. ASSUME NEW j PROVE RunsOf(j)' = RunsOf(j) \ {Summit(t)}
  <2>1. \A x : x \in RunsOf(j)' <=> x \in RunsOf(j) /\ x # Summit(t)
    BY <1>1, <1>2, <1>3, <1>4 DEF RunPlaces
  <2> QED BY <2>1
<1>6. ASSUME NEW g PROVE LoopsOf(g)' = LoopsOf(g) \ {Summit(t)}
  <2>1. \A x : x \in LoopsOf(g)' <=> x \in LoopsOf(g) /\ x # Summit(t)
    BY <1>1, <1>2, <1>3, <1>4 DEF LoopPlaces
  <2> QED BY <2>1
<1>7. \A x \in Frames \ {Summit(t)} : F(x)' = F(x) /\ (Under(x)' <=> Under(x))
  <2> SUFFICES ASSUME NEW u \in Thread, NEW k \in 1..Len(stack[u]), <<u, k>> # Summit(t)
               PROVE  F(<<u, k>>)' = F(<<u, k>>) /\ (Under(<<u, k>>)' <=> Under(<<u, k>>))
    BY <1>2
  <2>1. u # t
    BY <1>3, <1>4
  <2> QED BY <1>1, <2>1 DEF F, Under
<1>8. Summit(t) \in Frames /\ F(Summit(t)) = Top(t)
  BY <1>1, <1>2 DEF Summit, F
<1> QED BY <1>5, <1>6, <1>7, <1>8

(***************************************************************************)
(* What the queue is asked to do.                                          *)
(***************************************************************************)
LEMMA LeastIs ==
  ASSUME NEW n \in Nat, NEW S, n \in S, \A k \in S : k = n \/ (k \in Nat /\ k + 1 = n)
  PROVE  Min(S) \in S /\ (n - 1 \in S => Min(S) = n - 1)
<1>1. \A x \in S, y \in S : x \in Int /\ y \in Int
  OBVIOUS
<1>2. CASE n - 1 \in S
  <2>1. \A y \in S : n - 1 <= y
    OBVIOUS
  <2>2. \A x \in S : (\A y \in S : x <= y) => x = n - 1
    BY <1>1, <1>2, <2>1
  <2> QED BY <1>2, <2>1, <2>2 DEF Min
<1>3. CASE n - 1 \notin S
  <2>1. \A y \in S : y = n
    BY <1>3
  <2>2. n <= n
    OBVIOUS
  <2> QED BY <1>3, <2>1, <2>2 DEF Min
<1> QED BY <1>2, <1>3

\* The records that are written are those of the tasks that are not empty.
LEMMA PreparedAre ==
  ASSUME NEW g \in Group
  PROVE  /\ Prepared(g) \in Seq(Job) /\ Len(Prepared(g)) \in Nat
         /\ DOMAIN Prepared(g) = 1..Len(Prepared(g))
         /\ Len(Prepared(g)) <= Len(Tasks[g])
         /\ \A k \in DOMAIN Prepared(g) : /\ k \in DOMAIN Tasks[g] /\ Prepared(g)[k] = Tasks[g][k]
                                          /\ Prepared(g)[k] \in Job /\ Extent[Prepared(g)[k]] > 0
         /\ \A k \in DOMAIN Tasks[g] : k \in DOMAIN Prepared(g) \/ Extent[Tasks[g][k]] = 0
<1> DEFINE all == Tasks[g]
           n   == Len(all)
           S   == {k \in 0..n : k = n \/ Extent[all[k + 1]] = 0}
           z   == Min(S)
           s   == [k \in 1..((n - z) \div 2) |-> Garbage]
<1>1. /\ all \in Seq(Job) /\ n \in Nat /\ DOMAIN all = 1..n
      /\ \A k \in 1..n : all[k] \in Job /\ Extent[all[k]] \in Nat
      /\ \A k \in 1..n : Extent[all[k]] = 0 => k = n
  BY ProgramAssumption, EmptyAssumption
<1>2. \A k \in S : k = n \/ (k \in Nat /\ k + 1 = n)
  <2> SUFFICES ASSUME NEW k \in 0..n, k # n, Extent[all[k + 1]] = 0 PROVE k \in Nat /\ k + 1 = n
    OBVIOUS
  <2>1. k + 1 \in 1..n
    BY <1>1
  <2> QED BY <1>1, <2>1
<1>3. n \in S
  BY <1>1
<1>4. z \in S /\ (n - 1 \in S => z = n - 1)
  <2> HIDE DEF S, n
  <2> QED BY <1>1, <1>2, <1>3, LeastIs
<1>5. z \in 0..n /\ (z = n \/ z + 1 = n)
  BY <1>2, <1>4
<1>6. Prepared(g) = SubSeq(all, 1, z) \o s
  BY DEF Prepared
<1>7. s = <<>>
  <2>1. (n - z) \div 2 = 0
    BY <1>1, <1>5
  <2>2. s = [k \in 1..0 |-> Garbage]
    BY <2>1
  <2>3. 1..0 = {}
    OBVIOUS
  <2>4. [k \in 1..0 |-> Garbage] \in Seq({Garbage}) /\ Len([k \in 1..0 |-> Garbage]) = 0
    OBVIOUS
  <2>5. [k \in 1..0 |-> Garbage] = <<>>
    BY <2>4
  <2> QED BY <2>2, <2>5
<1> HIDE DEF all, n, z, S, s
<1>8. Prepared(g) = SubSeq(all, 1, z) /\ SubSeq(all, 1, z) \in Seq(Job)
      /\ Len(SubSeq(all, 1, z)) = z /\ \A k \in 1..z : SubSeq(all, 1, z)[k] = all[k]
  <2>1. SubSeq(all, 1, z) = [k \in 1..z |-> all[k]]
    BY <1>1, <1>5
  <2>2. \A k \in 1..z : all[k] \in Job
    BY <1>1, <1>5
  <2>3. SubSeq(all, 1, z) \in Seq(Job) /\ Len(SubSeq(all, 1, z)) = z
    BY <1>5, <2>1, <2>2
  <2> QED BY <1>6, <1>7, <2>1, <2>3
<1>9. \A k \in 1..z : Extent[all[k]] > 0
  <2> SUFFICES ASSUME NEW k \in 1..z, Extent[all[k]] = 0 PROVE FALSE
    BY <1>1, <1>5
  <2>1. k = n /\ n - 1 \in 0..n /\ n - 1 # n /\ (n - 1) + 1 = n
    BY <1>1, <1>5
  <2>2. n - 1 \in S
    BY <2>1 DEF S
  <2> QED BY <1>1, <1>4, <2>1, <2>2
<1>10. \A k \in 1..n : k \in 1..z \/ Extent[all[k]] = 0
  <2> SUFFICES ASSUME NEW k \in 1..n, k \notin 1..z PROVE Extent[all[k]] = 0
    OBVIOUS
  <2>1. k = z + 1 /\ z # n
    BY <1>1, <1>5
  <2> QED BY <1>4, <2>1 DEF S
<1>11. DOMAIN Prepared(g) = 1..z /\ Len(Prepared(g)) = z
  BY <1>5, <1>8
<1>12. \A k \in 1..z : k \in 1..n
  BY <1>1, <1>5
<1> QED BY <1>1, <1>5, <1>8, <1>9, <1>10, <1>11, <1>12 DEF all, n

LEMMA OnePlace ==
  ASSUME NEW g \in Group, NEW h \in Group, NEW k \in DOMAIN Prepared(g), NEW n \in DOMAIN Prepared(h),
         Prepared(g)[k] = Prepared(h)[n]
  PROVE  g = h /\ k = n
<1>1. /\ k \in DOMAIN Tasks[g] /\ Prepared(g)[k] = Tasks[g][k]
      /\ n \in DOMAIN Tasks[h] /\ Prepared(h)[n] = Tasks[h][n]
  BY PreparedAre
<1>2. Tasks[g][k] = Tasks[h][n]
  BY <1>1
<1>3. \A i \in DOMAIN Tasks[g], m \in DOMAIN Tasks[h] : Tasks[g][i] = Tasks[h][m] => g = h /\ i = m
  <2> HIDE <1>1, <1>2
  <2> QED BY OnceAssumption
<1> QED BY <1>1, <1>2, <1>3

LEMMA GroupIs ==
  ASSUME NEW g \in Group, NEW k \in DOMAIN Prepared(g)
  PROVE  GroupOf(Prepared(g)[k]) = g
<1>1. k \in DOMAIN Tasks[g] /\ Prepared(g)[k] = Tasks[g][k]
  BY PreparedAre
<1>2. \A h \in Group : (\E n \in DOMAIN Tasks[h] : Tasks[h][n] = Prepared(g)[k]) => h = g
  BY <1>1, OnceAssumption
<1> QED BY <1>1, <1>2 DEF GroupOf

LEMMA SmallestOf ==
  ASSUME NEW S, S # {}, S \subseteq Nat
  PROVE  \E x \in S : \A y \in S : x <= y
<1>1. PICK x \in S : \A y \in S : ~(<<y, x>> \in OpToRel(<, Nat))
  BY NatLessThanWellFounded, WFMin
<1>2. \A y \in S : ~(y < x)
  BY <1>1 DEF OpToRel
<1> QED BY <1>2

\* How far down its semaphores a job gets is within their list.
LEMMA ReachIs ==
  ASSUME NEW j \in Job, work[j].next_semaphore \in Nat, work[j].next_semaphore <= Len(Acquires[j])
  PROVE  /\ Reach(j) \in Nat /\ Reach(j) <= Len(Acquires[j]) /\ work[j].next_semaphore <= Reach(j)
         /\ \A k \in (work[j].next_semaphore + 1)..Reach(j) :
              semaphore[Acquires[j][k].sem] >= Acquires[j][k].count
         /\ Reach(j) < Len(Acquires[j]) =>
              ~(semaphore[Acquires[j][Reach(j) + 1].sem] >= Acquires[j][Reach(j) + 1].count)
<1> DEFINE a == work[j].next_semaphore
           b == Len(Acquires[j])
           S == {r \in a..b : \A k \in (a + 1)..r :
                   semaphore[Acquires[j][k].sem] >= Acquires[j][k].count}
           T == {d \in Nat : b - d \in S}
<1>1. a \in Nat /\ b \in Nat /\ a <= b
  BY ProgramAssumption
<1>2. a \in S
  BY <1>1
<1>3. S \subseteq a..b
  OBVIOUS
<1>4. Reach(j) = Max(S)
  BY DEF Reach
<1> HIDE DEF S, a, b
<1>5. T # {} /\ T \subseteq Nat
  <2>1. b - a \in Nat /\ b - (b - a) = a
    BY <1>1
  <2>2. b - a \in T
    BY <1>2, <2>1
  <2> QED BY <2>2
<1> HIDE DEF T
<1>7. PICK d \in T : \A e \in T : d <= e
  BY <1>5, SmallestOf
<1>8. b - d \in S /\ \A x \in S : b - d >= x
  <2>1. b - d \in S /\ d \in Nat
    BY <1>5 DEF T
  <2>2. ASSUME NEW x \in S PROVE b - d >= x
    <3>1. x \in Int /\ b - x \in Nat /\ b - (b - x) = x
      BY <1>1, <1>3
    <3>2. b - x \in T
      BY <3>1 DEF T
    <3>3. d <= b - x
      BY <1>7, <3>2
    <3> QED BY <1>1, <2>1, <3>1, <3>3
  <2> QED BY <2>1, <2>2
<1>9. Max(S) \in S /\ \A x \in S : Max(S) >= x
  BY <1>8 DEF Max
<1>10. Reach(j) \in a..b /\ Reach(j) \in S
  BY <1>3, <1>4, <1>9
<1>11. \A k \in (a + 1)..Reach(j) : semaphore[Acquires[j][k].sem] >= Acquires[j][k].count
  BY <1>10 DEF S
<1>12. ASSUME Reach(j) < b, semaphore[Acquires[j][Reach(j) + 1].sem] >= Acquires[j][Reach(j) + 1].count
       PROVE  FALSE
  <2>1. \A k \in (a + 1)..(Reach(j) + 1) : k \in (a + 1)..Reach(j) \/ k = Reach(j) + 1
    BY <1>1, <1>10
  <2>2. Reach(j) + 1 \in a..b
    BY <1>1, <1>10, <1>12
  <2>3. Reach(j) + 1 \in S
    BY <1>11, <1>12, <2>1, <2>2 DEF S
  <2>4. Reach(j) >= Reach(j) + 1
    BY <1>4, <1>9, <2>3
  <2> QED BY <1>1, <1>10, <2>4
<1> QED BY <1>1, <1>10, <1>11, <1>12 DEF a, b

(***************************************************************************)
(* The shape of the state.                                                 *)
(***************************************************************************)
Typed ==
  /\ Stacked
  /\ jobs \in Seq(Job)
  /\ work \in [Job -> Record]
  /\ \A j \in Job : work[j].next_semaphore <= Len(Acquires[j])
  /\ ran \in [Job -> UNION {[1..Extent[j] -> {0, 1}] : j \in Job}]
  /\ \A j \in Job : ran[j] \in [1..Extent[j] -> {0, 1}]
  /\ spawned \subseteq Worker

\* Frame f at height k of t's stack of n frames fits the frame b below it.
FitsOn(t, n, k, f, b) ==
  /\ f \in Join => t \in Caller /\ n = 1
  /\ f \in Run => k > 1 /\ b \in Loop
  /\ f \in Run /\ k < n => f.at = "body"
  /\ f \in Loop => IF k = 1 THEN t \in Worker <=> f.group = NULL
                   ELSE f.group # NULL /\ b \in Run
  /\ f \in Loop /\ f.group # NULL => f.at # "start" /\ f.index \in DOMAIN Prepared(f.group)

Fits(t, k) == FitsOn(t, Len(stack[t]), k, stack[t][k], stack[t][k - 1])

Shaped(t) == \A k \in 1..Len(stack[t]) : Fits(t, k)

\* The threads that do not exist have no stack.
Spawned == \A w \in Worker \ spawned : stack[w] = <<>>

\* While the pool is shut down no other caller does anything.
Joining == \A c \in Caller : stack[c] # <<>> /\ stack[c][1] \in Join =>
             \A d \in Caller \ {c} : stack[d] = <<>> /\ program[d] = <<>>

\* The calls of its program that c has made.
Gone(c) == Len(Program[c]) - Len(program[c])

\* What is left of a caller's program is the end of it.
Suffix(c) == /\ program[c] \in Seq(Entry)
             /\ Len(program[c]) <= Len(Program[c])
             /\ \A p \in 1..Len(program[c]) : program[c][p] = Program[c][Gone(c) + p]

Suffixes == program \in [Caller -> Seq(Entry)] /\ \A c \in Caller : Suffix(c)

Shape == Typed /\ (\A t \in Thread : Shaped(t)) /\ Spawned /\ Joining /\ Suffixes

LEMMA TopIs ==
  ASSUME Stacked, NEW t \in Thread, NEW l, At(t, l)
  PROVE  /\ stack[t] # <<>> /\ Len(stack[t]) \in Nat /\ Len(stack[t]) > 0
         /\ Top(t) \in Frame /\ Top(t).at = l /\ Top(t) = stack[t][Len(stack[t])]
         /\ l \in LoopAt => Top(t) \in Loop
         /\ l \in RunAt => Top(t) \in Run
         /\ l = "join" => Top(t) \in Join
<1>1. stack[t] \in Seq(Frame) /\ stack[t] # <<>> /\ Top(t).at = l
  BY DEF Stacked, At
<1>2. Len(stack[t]) \in Nat /\ Len(stack[t]) > 0 /\ stack[t][Len(stack[t])] \in Frame
  BY <1>1
<1>3. \A x \in Loop : x.at \in LoopAt
  BY DEF Loop
<1>4. \A x \in Run : x.at \in RunAt
  BY DEF Run
<1>5. \A x \in Join : x.at = "join"
  BY DEF Join
<1> QED BY <1>1, <1>2, <1>3, <1>4, <1>5 DEF Top, Frame, LoopAt, RunAt

LEMMA OwnedIs ==
  ASSUME Shape, NEW t \in Thread, stack[t] # <<>>, Top(t) \in Loop
  PROVE  /\ Owned(t) = NULL <=> Top(t).group = NULL
         /\ Top(t).group # NULL =>
              /\ Top(t).group \in Group /\ Top(t).index \in DOMAIN Prepared(Top(t).group)
              /\ Owned(t) \in Job /\ Owned(t) = Prepared(Top(t).group)[Top(t).index]
         /\ Top(t).group = NULL => t \in Worker /\ Len(stack[t]) = 1
<1>1. stack[t] \in Seq(Frame) /\ Len(stack[t]) \in 1..Len(stack[t]) /\ Top(t) = stack[t][Len(stack[t])]
  BY DEF Shape, Typed, Stacked, Top
<1>2. Fits(t, Len(stack[t]))
  BY <1>1 DEF Shape, Shaped
<1>3. Top(t).group \in Group \union {NULL}
  BY DEF Loop
<1>4. CASE Top(t).group = NULL
  BY <1>1, <1>2, <1>4 DEF Fits, FitsOn, Owned
<1>5. CASE Top(t).group # NULL
  <2>1. Top(t).group \in Group /\ Top(t).index \in DOMAIN Prepared(Top(t).group)
    BY <1>1, <1>2, <1>3, <1>5 DEF Fits, FitsOn
  <2>2. Prepared(Top(t).group)[Top(t).index] \in Job
    BY <2>1, PreparedAre
  <2> QED BY <1>5, <2>1, <2>2, ThreadsAssumption DEF Owned
<1> QED BY <1>4, <1>5

LEMMA SameFits ==
  ASSUME NEW t, NEW n, NEW k \in Int, NEW e \in Frame, NEW f \in Frame, NEW b, SameFrame(e, f),
         FitsOn(t, n, k, e, b), NEW m \in Int, k = m \/ f.at = "body",
         f \in Loop /\ f.group # NULL => f.at # "start" /\ f.index \in DOMAIN Prepared(f.group)
  PROVE  FitsOn(t, m, k, f, b)
<1>1. ~(e \in Loop /\ e \in Run) /\ ~(f \in Loop /\ f \in Join) /\ ~(f \in Run /\ f \in Join) /\ ~(f \in Loop /\ f \in Run)
  BY Kinds
<1>2. CASE e \in Run /\ f \in Run
  BY <1>1, <1>2 DEF FitsOn
<1>3. CASE e \in Loop /\ f \in Loop /\ e.group = f.group
  BY <1>1, <1>3 DEF FitsOn
<1> QED BY <1>2, <1>3 DEF SameFrame

\* Writing the top frame, putting a frame on it and taking it off keep the tower.
LEMMA OthersShaped ==
  ASSUME NEW u, Shaped(u), stack'[u] = stack[u]
  PROVE  Shaped(u)'
  BY DEF Shaped, Fits

LEMMA EditShaped ==
  ASSUME Stacked, \A u \in Thread : Shaped(u), NEW t \in Thread, NEW f \in Frame, Edits(t, f),
         SameFrame(Top(t), f),
         f \in Loop /\ f.group # NULL => f.at # "start" /\ f.index \in DOMAIN Prepared(f.group)
  PROVE  \A u \in Thread : Shaped(u)'
<1> DEFINE n == Len(stack[t])
<1>1. /\ n \in Nat /\ n > 0 /\ Len(stack'[t]) = n
      /\ \A k \in 1..n - 1 : stack'[t][k] = stack[t][k]
      /\ stack'[t][n] = f /\ Top(t) = stack[t][n] /\ Top(t) \in Frame
  BY PlacesAre DEF Edits, Top
<1>2. \A u \in Thread \ {t} : Shaped(u)'
  BY OthersShaped DEF Edits, Others
<1>3. ASSUME NEW k \in 1..n PROVE Fits(t, k)'
  <2>1. FitsOn(t, n, k, stack[t][k], stack[t][k - 1])
    BY DEF Shaped, Fits
  <2>2. CASE k = n
    <3>1. CASE k > 1
      <4>1. stack'[t][k - 1] = stack[t][k - 1]
        BY <1>1, <2>2, <3>1
      <4>2. FitsOn(t, n, k, f, stack[t][k - 1])
        BY <1>1, <2>1, <2>2, SameFits
      <4> QED BY <1>1, <2>2, <4>1, <4>2 DEF Fits
    <3>2. CASE k = 1
      <4>1. FitsOn(t, n, k, f, stack[t][k - 1])
        BY <1>1, <2>1, <2>2, SameFits
      <4>2. FitsOn(t, n, k, f, stack'[t][k - 1])
        BY <3>2, <4>1 DEF FitsOn
      <4> QED BY <1>1, <2>2, <4>2 DEF Fits
    <3> QED BY <3>1, <3>2
  <2>3. CASE k # n
    <3>1. k \in 1..n - 1 /\ stack'[t][k] = stack[t][k]
      BY <1>1, <2>3
    <3>2. k > 1 => stack'[t][k - 1] = stack[t][k - 1]
      BY <1>1, <3>1
    <3>3. FitsOn(t, n, k, stack[t][k], stack'[t][k - 1])
      BY <2>1, <3>2 DEF FitsOn
    <3> QED BY <1>1, <3>1, <3>3 DEF Fits
  <2> QED BY <2>2, <2>3
<1>4. Shaped(t)'
  BY <1>1, <1>3 DEF Shaped
<1> QED BY <1>2, <1>4

LEMMA PushShaped ==
  ASSUME Stacked, \A u \in Thread : Shaped(u), NEW t \in Thread, NEW f \in Frame, Pushes(t, f), Spawns(t),
         \A u \in Thread \ {t} : stack'[u] # stack[u] => u \in Worker,
         IF stack[t] = <<>>
         THEN t \in Caller /\ (f \in Loop => f.group # NULL) /\ f \notin Run
         ELSE IF f \in Run THEN Top(t) \in Loop
              ELSE f \in Loop /\ f.group # NULL /\ Top(t) \in Run /\ Top(t).at = "body",
         f \in Loop => f.at # "start" /\ f.index \in DOMAIN Prepared(f.group)
  PROVE  \A u \in Thread : Shaped(u)'
<1> DEFINE n == Len(stack[t])
<1>1. /\ n \in Nat /\ Len(stack'[t]) = n + 1
      /\ \A k \in 1..n : stack'[t][k] = stack[t][k] /\ stack[t][k] \in Frame
      /\ stack'[t][n + 1] = f
      /\ stack[t] \in Seq(Frame)
  BY PlacesAre DEF Pushes
<1>3. \A e \in Frame : ~(e \in Loop /\ e \in Run) /\ ~(e \in Loop /\ e \in Join) /\ ~(e \in Run /\ e \in Join)
  BY Kinds
<1>2. \A u \in Thread \ {t} : Shaped(u)'
  <2> SUFFICES ASSUME NEW u \in Thread \ {t} PROVE Shaped(u)'
    OBVIOUS
  <2>1. CASE stack'[u] = stack[u]
    BY <2>1, OthersShaped
  <2>2. CASE stack'[u] # stack[u]
    <3>1. Len(stack'[u]) = 1 /\ stack'[u][1] \in Loop /\ stack'[u][1].group = NULL /\ u \in Worker
      BY <2>2 DEF Spawns
    <3>2. stack'[u][1] \notin Run /\ stack'[u][1] \notin Join
      BY <3>1, <1>3 DEF Frame
    <3>3. FitsOn(u, 1, 1, stack'[u][1], stack'[u][1 - 1])
      BY <3>1, <3>2 DEF FitsOn
    <3>4. Fits(u, 1)'
      BY <3>1, <3>3 DEF Fits
    <3>5. \A k \in 1..Len(stack'[u]) : k = 1
      BY <3>1
    <3> QED BY <3>4, <3>5 DEF Shaped
  <2> QED BY <2>1, <2>2
<1>4. stack[t] = <<>> <=> n = 0
  BY <1>1
<1>5. ASSUME NEW k \in 1..n PROVE Fits(t, k)'
  <2>1. FitsOn(t, n, k, stack[t][k], stack[t][k - 1]) /\ stack'[t][k] = stack[t][k]
    BY <1>1 DEF Shaped, Fits
  <2>2. k > 1 => stack'[t][k - 1] = stack[t][k - 1]
    BY <1>1
  <2>3. n \in 1..n /\ Top(t) = stack[t][n] /\ Top(t) \in Frame
    BY <1>1 DEF Top
  <2>4. stack[t][k] \notin Join
    <3>1. stack[t][k] \in Join => k = n
      BY <1>1, <2>1 DEF FitsOn
    <3> QED BY <1>1, <1>3, <1>4, <2>3, <3>1
  <2>5. stack[t][k] \in Run => stack[t][k].at = "body"
    <3>1. CASE k < n
      BY <2>1, <3>1 DEF FitsOn
    <3>2. CASE k = n
      BY <1>3, <1>4, <2>3, <3>2
    <3> QED BY <1>1, <3>1, <3>2
  <2>6. FitsOn(t, n + 1, k, stack[t][k], stack'[t][k - 1])
    BY <2>1, <2>2, <2>4, <2>5 DEF FitsOn
  <2> QED BY <1>1, <2>1, <2>6 DEF Fits
<1>6. ASSUME NEW k, k = n + 1 PROVE Fits(t, k)'
  <2>1. CASE n = 0
    <3>1. t \in Caller /\ t \notin Worker
      BY <1>4, <2>1, ThreadsAssumption
    <3>2. FitsOn(t, 1, 1, f, stack'[t][1 - 1])
      BY <1>3, <1>4, <2>1, <3>1 DEF FitsOn
    <3>3. n + 1 = 1
      BY <2>1
    <3> QED BY <1>1, <1>6, <3>2, <3>3 DEF Fits
  <2>2. CASE n > 0
    <3>1. n \in 1..n /\ Top(t) = stack[t][n] /\ stack'[t][n] = Top(t) /\ (n + 1) - 1 = n
      BY <1>1, <2>2 DEF Top
    <3>2. Top(t) \in Frame
      BY <1>1, <3>1
    <3>3. (f \in Run /\ Top(t) \in Loop) \/ (f \in Loop /\ f.group # NULL /\ Top(t) \in Run)
      BY <1>4, <2>2
    <3>4. FitsOn(t, n + 1, n + 1, f, Top(t))
      BY <1>1, <1>3, <2>2, <3>2, <3>3 DEF FitsOn
    <3> QED BY <1>1, <1>6, <3>1, <3>4 DEF Fits
  <2> QED BY <1>1, <2>1, <2>2
<1>7. Shaped(t)'
  <2>1. \A k \in 1..Len(stack'[t]) : k \in 1..n \/ k = n + 1
    BY <1>1
  <2> QED BY <1>5, <1>6, <2>1 DEF Shaped
<1> QED BY <1>2, <1>7

LEMMA LowerFits ==
  ASSUME NEW t, NEW n \in Nat, NEW k \in 1..n - 1, NEW f, NEW b, NEW d, FitsOn(t, n, k, f, b),
         k > 1 => d = b
  PROVE  FitsOn(t, n - 1, k, f, d)
<1>1. k \in Int /\ k > 0 /\ k < n
  OBVIOUS
<1>2. f \notin Join
  BY <1>1 DEF FitsOn
<1>3. f \in Run => k > 1 /\ d \in Loop /\ f.at = "body"
  BY <1>1 DEF FitsOn
<1>4. f \in Loop => IF k = 1 THEN t \in Worker <=> f.group = NULL ELSE f.group # NULL /\ d \in Run
  <2>1. k = 1 \/ k > 1
    BY <1>1
  <2> QED BY <2>1 DEF FitsOn
<1>5. f \in Loop /\ f.group # NULL => f.at # "start" /\ f.index \in DOMAIN Prepared(f.group)
  BY DEF FitsOn
<1> QED BY <1>2, <1>3, <1>4, <1>5 DEF FitsOn

LEMMA PopShaped ==
  ASSUME Stacked, \A u \in Thread : Shaped(u), NEW t \in Thread, NEW f \in Frame, Pops(t, f),
         SameFrame(stack[t][Len(stack[t]) - 1], f),
         f \in Loop /\ f.group # NULL => f.at # "start" /\ f.index \in DOMAIN Prepared(f.group)
  PROVE  \A u \in Thread : Shaped(u)'
<1> DEFINE n == Len(stack[t])
<1>1. /\ n \in Nat /\ n > 1 /\ Len(stack'[t]) = n - 1
      /\ \A k \in 1..n - 2 : stack'[t][k] = stack[t][k]
      /\ stack'[t][n - 1] = f
      /\ \A k \in 1..n : stack[t][k] \in Frame
  BY PlacesAre DEF Pops
<1>2. \A u \in Thread \ {t} : Shaped(u)'
  BY OthersShaped DEF Pops, Others
<1>3. ASSUME NEW k \in 1..n - 1 PROVE Fits(t, k)'
  <2>1. FitsOn(t, n, k, stack[t][k], stack[t][k - 1])
    BY <1>1 DEF Shaped, Fits
  <2>2. CASE k = n - 1
    <3>1. k > 1 => stack'[t][k - 1] = stack[t][k - 1]
      <4>1. k > 1 => k - 1 \in 1..n - 2
        BY <1>1, <2>2
      <4>2. \A i \in 1..n - 2 : stack'[t][i] = stack[t][i]
        BY <1>1
      <4> HIDE DEF n
      <4> QED BY <4>1, <4>2
    <3>2. k \in 1..n /\ stack[t][k] \in Frame
      BY <1>1
    <3>3. FitsOn(t, n - 1, k, f, stack[t][k - 1])
      BY <2>1, <2>2, <3>2, SameFits
    <3>4. FitsOn(t, n - 1, k, f, stack'[t][k - 1])
      BY <3>1, <3>3 DEF FitsOn
    <3> QED BY <1>1, <2>2, <3>4 DEF Fits
  <2>3. CASE k # n - 1
    <3>1. k \in 1..n - 2 /\ k < n /\ stack'[t][k] = stack[t][k]
      BY <1>1, <2>3
    <3>2. k > 1 => stack'[t][k - 1] = stack[t][k - 1]
      BY <1>1, <3>1
    <3>3. FitsOn(t, n - 1, k, stack[t][k], stack'[t][k - 1])
      BY <1>1, <2>1, <3>1, <3>2, LowerFits
    <3> QED BY <1>1, <3>1, <3>3 DEF Fits
  <2> QED BY <2>2, <2>3
<1>4. Shaped(t)'
  BY <1>1, <1>3 DEF Shaped
<1> QED BY <1>2, <1>4

LEMMA ClearShaped ==
  ASSUME \A u \in Thread : Shaped(u), NEW t \in Thread, Clears(t)
  PROVE  \A u \in Thread : Shaped(u)'
<1>1. \A u \in Thread \ {t} : Shaped(u)'
  BY OthersShaped DEF Clears, Others
<1>2. Shaped(t)'
  BY DEF Clears, Shaped
<1> QED BY <1>1, <1>2

(***************************************************************************)
(* The steps that leave the records as they are, but for their flags.      *)
(***************************************************************************)
WorkTyped == /\ work \in [Job -> Record]
             /\ \A j \in Job : work[j].next_semaphore <= Len(Acquires[j])

\* How many of its semaphores job j has acquired.
Got(j) == work[j].next_semaphore

WorkKept ==
  /\ WorkTyped'
  /\ \A j \in Job : /\ work'[j].extent = work[j].extent
                    /\ work'[j].min = work[j].min
                    /\ work'[j].active_workers = work[j].active_workers
                    /\ work[j].exit_status # 0 => work'[j].exit_status # 0

\* The loop on top of t's stack gets another state.
Idles(t) == \E f \in Loop : /\ Edits(t, f) /\ stack[t] # <<>> /\ Top(t) \in Loop
                            /\ f.group = Top(t).group /\ f.index = Top(t).index /\ f.at # "start"

Kept == /\ jobs' = jobs /\ ran' = ran /\ spawned' = spawned
        /\ program' = program /\ result' = result

LEMMA WorkSame == ASSUME WorkTyped, work' = work PROVE WorkKept
  BY DEF WorkTyped, WorkKept

LEMMA WorkFlag ==
  ASSUME WorkTyped, NEW j \in Job,
         \/ \E r \in Nat : r <= Len(Acquires[j]) /\ work' = [work EXCEPT ![j].next_semaphore = r]
         \/ \E b \in BOOLEAN : work' = [work EXCEPT ![j].owner_is_sleeping = b]
         \/ work' = [work EXCEPT ![j].exit_status = 1]
  PROVE  WorkKept
<1>0. work \in [Job -> Record] /\ work[j] \in Record
  BY DEF WorkTyped
<1>1. CASE \E r \in Nat : r <= Len(Acquires[j]) /\ work' = [work EXCEPT ![j].next_semaphore = r]
  <2>1. PICK r \in Nat : r <= Len(Acquires[j]) /\ work' = [work EXCEPT ![j].next_semaphore = r]
    BY <1>1
  <2>2. [work[j] EXCEPT !.next_semaphore = r] \in Record
    BY <1>0 DEF Record
  <2>3. [work[j] EXCEPT !.next_semaphore = r].next_semaphore = r
    BY <1>0 DEF Record
  <2>4. work' = [work EXCEPT ![j] = [work[j] EXCEPT !.next_semaphore = r]]
    BY <2>1, <1>0
  <2>5. WorkTyped'
    BY <1>0, <2>1, <2>2, <2>3, <2>4 DEF WorkTyped
  <2>6. \A i \in Job :
                    /\ work'[i].extent = work[i].extent
                    /\ work'[i].min = work[i].min
                    /\ work'[i].active_workers = work[i].active_workers
                    /\ work[i].exit_status # 0 => work'[i].exit_status # 0
    BY <1>0, <2>4 DEF Record
  <2> QED BY <2>5, <2>6 DEF WorkKept
<1>2. CASE \E b \in BOOLEAN : work' = [work EXCEPT ![j].owner_is_sleeping = b]
  <2>1. PICK b \in BOOLEAN : work' = [work EXCEPT ![j].owner_is_sleeping = b]
    BY <1>2
  <2>2. [work[j] EXCEPT !.owner_is_sleeping = b] \in Record
    BY <1>0 DEF Record
  <2>4. work' = [work EXCEPT ![j] = [work[j] EXCEPT !.owner_is_sleeping = b]]
    BY <2>1, <1>0
  <2>5. WorkTyped'
    BY <1>0, <2>2, <2>4 DEF WorkTyped, Record
  <2>6. \A i \in Job :
                    /\ work'[i].extent = work[i].extent
                    /\ work'[i].min = work[i].min
                    /\ work'[i].active_workers = work[i].active_workers
                    /\ work[i].exit_status # 0 => work'[i].exit_status # 0
    BY <1>0, <2>4 DEF Record
  <2> QED BY <2>5, <2>6 DEF WorkKept
<1>3. CASE work' = [work EXCEPT ![j].exit_status = 1]
  <2>2. [work[j] EXCEPT !.exit_status = 1] \in Record
    BY <1>0 DEF Record
  <2>4. work' = [work EXCEPT ![j] = [work[j] EXCEPT !.exit_status = 1]]
    BY <1>3, <1>0
  <2>5. WorkTyped'
    BY <1>0, <2>2, <2>4 DEF WorkTyped, Record
  <2>6. \A i \in Job :
                    /\ work'[i].extent = work[i].extent
                    /\ work'[i].min = work[i].min
                    /\ work'[i].active_workers = work[i].active_workers
                    /\ work[i].exit_status # 0 => work'[i].exit_status # 0
    BY <1>0, <2>4 DEF Record
  <2> QED BY <2>5, <2>6 DEF WorkKept
<1> QED BY <1>1, <1>2, <1>3

LEMMA GotoIs ==
  ASSUME Stacked, NEW t \in Thread, stack[t] # <<>>, NEW l
  PROVE  /\ Top(t) \in Loop /\ l \in LoopAt =>
              /\ [Top(t) EXCEPT !.at = l] \in Loop /\ [Top(t) EXCEPT !.at = l].at = l
              /\ [Top(t) EXCEPT !.at = l].group = Top(t).group /\ [Top(t) EXCEPT !.at = l].index = Top(t).index
         /\ Top(t) \in Run /\ l \in RunAt =>
              /\ [Top(t) EXCEPT !.at = l] \in Run /\ [Top(t) EXCEPT !.at = l].at = l
              /\ \A x \in {"job", "iter", "last", "step", "failed"} : [Top(t) EXCEPT !.at = l][x] = Top(t)[x]
  BY DEF Loop, Run

LEMMA GotoIdles ==
  ASSUME Stacked, NEW t \in Thread, stack[t] # <<>>, Top(t) \in Loop, NEW l \in LoopAt \ {"start"}, Goto(t, l)
  PROVE  Stacked' /\ Idles(t)
<1> DEFINE f == [Top(t) EXCEPT !.at = l]
<1>1. f \in Loop /\ f.at = l /\ f.group = Top(t).group /\ f.index = Top(t).index
  BY GotoIs
<1>2. SetTop(t, f)
  BY DEF Goto
<1> HIDE DEF f
<1>3. Stacked' /\ Edits(t, f)
  BY <1>1, <1>2, EditMoves DEF Frame
<1> QED BY <1>1, <1>3 DEF Idles

LEMMA LoopIdles ==
  ASSUME Stacked, NEW t \in Thread, stack[t] # <<>>, Top(t) \in Loop, NEW f \in Loop, SetTop(t, f),
         f.group = Top(t).group, f.index = Top(t).index, f.at # "start"
  PROVE  Stacked' /\ Idles(t)
<1>1. Stacked' /\ Edits(t, f)
  BY EditMoves DEF Frame
<1> QED BY <1>1 DEF Idles

LEMMA WorkIsTyped == Shape => Stacked /\ WorkTyped
  BY DEF Shape, Typed, WorkTyped

LEMMA WorkerStartIdles ==
  ASSUME Shape, NEW t \in Thread, WorkerStart(t)
  PROVE  Stacked' /\ Idles(t) /\ WorkKept /\ Kept
<1>1. Stacked /\ WorkTyped /\ stack[t] # <<>> /\ Top(t) \in Loop
  BY TopIs, WorkIsTyped DEF WorkerStart, LoopAt
<1>2. Goto(t, "head") /\ "head" \in LoopAt \ {"start"}
  BY DEF WorkerStart, LoopAt
<1>3. work' = work /\ Kept
  BY DEF WorkerStart, Kept, life, team
<1> QED BY <1>1, <1>2, <1>3, GotoIdles, WorkSame

LEMMA StartScanIdles ==
  ASSUME Shape, NEW t \in Thread, StartScan(t)
  PROVE  Stacked' /\ Idles(t) /\ WorkKept /\ Kept
<1>1. Stacked /\ WorkTyped /\ stack[t] # <<>> /\ Top(t) \in Loop
  BY TopIs, WorkIsTyped DEF StartScan, LoopAt
<1>2. \E f \in Loop : SetTop(t, f) /\ f.group = Top(t).group /\ f.index = Top(t).index /\ f.at # "start"
  <2> DEFINE f == [Top(t) EXCEPT !.at = "scan", !.pos = 1]
  <2>2. "scan" \in LoopAt \ {"start"} /\ 1 \in Nat \ {0}
    BY DEF LoopAt
  <2>1. f \in Loop /\ f.group = Top(t).group /\ f.index = Top(t).index /\ f.at # "start"
    BY <1>1, <2>2 DEF Loop
  <2> QED BY <2>1 DEF StartScan
<1>3. work' = work /\ Kept
  BY DEF StartScan, Kept, life, team
<1> QED BY <1>1, <1>2, <1>3, LoopIdles, WorkSame

LEMMA PassOverIdles ==
  ASSUME Shape, NEW t \in Thread, PassOver(t)
  PROVE  Stacked' /\ Idles(t) /\ WorkKept /\ Kept
<1>1. Stacked /\ WorkTyped /\ stack[t] # <<>> /\ Top(t) \in Loop /\ Top(t).at = "scan"
  BY TopIs, WorkIsTyped DEF PassOver, LoopAt
<1>2. \E f \in Loop : SetTop(t, f) /\ f.group = Top(t).group /\ f.index = Top(t).index /\ f.at # "start"
  <2> DEFINE f == [Top(t) EXCEPT !.pos = @ + 1]
  <2>1. f \in Loop /\ f.group = Top(t).group /\ f.index = Top(t).index /\ f.at # "start"
    BY <1>1 DEF Loop, LoopAt
  <2> QED BY <2>1 DEF PassOver
<1>3. Kept
  BY DEF PassOver, Kept, life, team
<1>4. WorkKept
  <2> DEFINE j == jobs[Top(t).pos]
  <2>1. work' = work \/ (work' = [work EXCEPT ![j].next_semaphore = Reach(j)])
    BY DEF PassOver
  <2>2. CASE work' = work
    BY <1>1, <2>2, WorkSame
  <2>3. CASE work' = [work EXCEPT ![j].next_semaphore = Reach(j)]
    <3>1. j \in Job \/ j \notin Job
      OBVIOUS
    <3>2. CASE j \in Job
      <4>1. work[j].next_semaphore \in Nat /\ work[j].next_semaphore <= Len(Acquires[j])
        BY <1>1, <3>2 DEF WorkTyped, Record
      <4> HIDE DEF j
      <4>2. Reach(j) \in Nat /\ Reach(j) <= Len(Acquires[j])
        BY <3>2, <4>1, ReachIs
      <4> QED BY <1>1, <2>3, <3>2, <4>2, WorkFlag
    <3>3. CASE j \notin Job
      <4>1. work' = work
        BY <1>1, <2>3, <3>3 DEF WorkTyped
      <4> QED BY <1>1, <4>1, WorkSame
    <3> QED BY <3>2, <3>3
  <2> QED BY <2>1, <2>2, <2>3
<1> QED BY <1>1, <1>2, <1>3, <1>4, LoopIdles

LEMMA SleepOwnerIdles ==
  ASSUME Shape, NEW t \in Thread, SleepOwner(t)
  PROVE  Stacked' /\ Idles(t) /\ WorkKept /\ Kept
<1>1. Stacked /\ WorkTyped /\ stack[t] # <<>> /\ Top(t) \in Loop
  BY TopIs, WorkIsTyped DEF SleepOwner, LoopAt
<1>2. Goto(t, "owner_asleep") /\ "owner_asleep" \in LoopAt \ {"start"}
  BY DEF SleepOwner, LoopAt
<1>3. Kept /\ Owned(t) \in Job
  BY <1>1, OwnedIs DEF SleepOwner, Kept, life, team
<1>4. WorkKept
  BY <1>1, <1>3, WorkFlag DEF SleepOwner
<1> QED BY <1>1, <1>2, <1>3, <1>4, GotoIdles

LEMMA SleepWorkerIdles ==
  ASSUME Shape, NEW t \in Thread, SleepWorker(t)
  PROVE  Stacked' /\ Idles(t) /\ WorkKept /\ Kept
<1>1. Stacked /\ WorkTyped /\ stack[t] # <<>> /\ Top(t) \in Loop
  BY TopIs, WorkIsTyped DEF SleepWorker, LoopAt
<1>2. \E l \in LoopAt \ {"start"} : Goto(t, l)
  BY DEF SleepWorker, LoopAt
<1>3. work' = work /\ Kept
  BY DEF SleepWorker, Kept, life, team
<1> QED BY <1>1, <1>2, <1>3, GotoIdles, WorkSame

LEMMA WakeOwnerIdles ==
  ASSUME Shape, NEW t \in Thread, WakeOwner(t)
  PROVE  Stacked' /\ Idles(t) /\ WorkKept /\ Kept
<1>1. Stacked /\ WorkTyped /\ stack[t] # <<>> /\ Top(t) \in Loop
  BY TopIs, WorkIsTyped DEF WakeOwner, LoopAt
<1>2. Goto(t, "head") /\ "head" \in LoopAt \ {"start"}
  BY DEF WakeOwner, LoopAt
<1>3. Kept
  BY DEF WakeOwner, Kept, life, team
<1>4. WorkKept
  <2>1. work' = [work EXCEPT ![Owned(t)].owner_is_sleeping = FALSE]
    BY DEF WakeOwner
  <2>2. CASE Owned(t) \in Job
    BY <1>1, <2>1, <2>2, WorkFlag
  <2>3. CASE Owned(t) \notin Job
    <3>1. work' = work
      BY <1>1, <2>1, <2>3 DEF WorkTyped
    <3> QED BY <1>1, <3>1, WorkSame
  <2> QED BY <2>2, <2>3
<1> QED BY <1>1, <1>2, <1>3, <1>4, GotoIdles

LEMMA WakeWorkerIdles ==
  ASSUME Shape, NEW t \in Thread, WakeWorker(t)
  PROVE  Stacked' /\ Idles(t) /\ WorkKept /\ Kept
<1>1. Stacked /\ WorkTyped /\ stack[t] # <<>> /\ Top(t) \in Loop
  BY TopIs, WorkIsTyped DEF WakeWorker, LoopAt
<1>2. Goto(t, "head") /\ "head" \in LoopAt \ {"start"}
  BY DEF WakeWorker, LoopAt
<1>3. work' = work /\ Kept
  BY DEF WakeWorker, Kept, life, team
<1> QED BY <1>1, <1>2, <1>3, GotoIdles, WorkSame

LEMMA InheritKeeps ==
  ASSUME Shape, NEW t \in Thread, InheritFailure(t)
  PROVE  stack' = stack /\ WorkKept /\ Kept
<1>1. Stacked /\ WorkTyped /\ stack[t] # <<>> /\ Top(t) \in Loop
  BY TopIs, WorkIsTyped DEF InheritFailure, LoopAt
<1>2. stack' = stack /\ Kept /\ Owned(t) \in Job
  BY <1>1, OwnedIs DEF InheritFailure, Kept, life, team
<1>3. WorkKept
  BY <1>1, <1>2, WorkFlag DEF InheritFailure
<1> QED BY <1>2, <1>3

\* How far a run gets without starting, finishing or claiming an iteration.
Turns(e, f) ==
  /\ e \in Run /\ f \in Run /\ f.job = e.job /\ f.iter = e.iter /\ f.last = e.last /\ f.step >= e.step
  /\ \/ e.at = "batch" /\ f.at = "body" /\ f.iter <= f.last /\ (f.failed => e.failed)
     \/ e.at = "batch" /\ f.at = "finish" /\ f.iter > f.last /\ (f.failed => e.failed)
     \/ e.at \in {"body", "notify"} /\ f.at \in {"body", "notify"} /\ (f.failed => e.failed)
     \/ e.at \in {"body", "notify"} /\ f.at = "finish" /\ f.failed

Proceeds(t) == \E f \in Run : Edits(t, f) /\ stack[t] # <<>> /\ Top(t) \in Run /\ Turns(Top(t), f)

LEMMA TurnsProceeds ==
  ASSUME Stacked, NEW t \in Thread, stack[t] # <<>>, NEW f, Turns(Top(t), f), SetTop(t, f)
  PROVE  Stacked' /\ Proceeds(t)
<1>1. f \in Run /\ Top(t) \in Run
  BY DEF Turns
<1>2. Stacked' /\ Edits(t, f)
  BY <1>1, EditMoves DEF Frame
<1> QED BY <1>1, <1>2 DEF Proceeds

LEMMA RunIs ==
  ASSUME NEW e \in Run
  PROVE  /\ e.at \in RunAt /\ e.job \in Job /\ e.iter \in Nat /\ e.last \in Nat /\ e.step \in Nat
         /\ e.failed \in BOOLEAN
         /\ \A l \in RunAt : LET f == [e EXCEPT !.at = l] IN
              f \in Run /\ f.at = l /\ f.job = e.job /\ f.iter = e.iter /\ f.last = e.last
              /\ f.step = e.step /\ f.failed = e.failed
         /\ LET f == [e EXCEPT !.step = @ + 1] IN
              f \in Run /\ f.at = e.at /\ f.job = e.job /\ f.iter = e.iter /\ f.last = e.last
              /\ f.step = e.step + 1 /\ f.failed = e.failed
         /\ LET f == [e EXCEPT !.at = "body", !.step = @ + 1] IN
              f \in Run /\ f.at = "body" /\ f.job = e.job /\ f.iter = e.iter /\ f.last = e.last
              /\ f.step = e.step + 1 /\ f.failed = e.failed
         /\ LET f == [e EXCEPT !.at = "finish", !.failed = TRUE] IN
              f \in Run /\ f.at = "finish" /\ f.job = e.job /\ f.iter = e.iter /\ f.last = e.last
              /\ f.step = e.step /\ f.failed
<1>1. /\ e.at \in RunAt /\ e.job \in Job /\ e.iter \in Nat /\ e.last \in Nat /\ e.step \in Nat
      /\ e.failed \in BOOLEAN
  BY DEF Run
<1>2. ASSUME NEW l \in RunAt
      PROVE  LET f == [e EXCEPT !.at = l] IN
              f \in Run /\ f.at = l /\ f.job = e.job /\ f.iter = e.iter /\ f.last = e.last
              /\ f.step = e.step /\ f.failed = e.failed
  BY DEF Run
<1>3. LET f == [e EXCEPT !.step = @ + 1] IN
              f \in Run /\ f.at = e.at /\ f.job = e.job /\ f.iter = e.iter /\ f.last = e.last
              /\ f.step = e.step + 1 /\ f.failed = e.failed
  BY DEF Run
<1>4. LET f == [e EXCEPT !.at = "body", !.step = @ + 1] IN
              f \in Run /\ f.at = "body" /\ f.job = e.job /\ f.iter = e.iter /\ f.last = e.last
              /\ f.step = e.step + 1 /\ f.failed = e.failed
  <2>1. \A l \in RunAt, s \in Nat : LET f == [e EXCEPT !.at = l, !.step = s] IN
              f \in Run /\ f.at = l /\ f.job = e.job /\ f.iter = e.iter /\ f.last = e.last
              /\ f.step = s /\ f.failed = e.failed
    BY DEF Run
  <2>2. "body" \in RunAt /\ e.step + 1 \in Nat
    BY <1>1 DEF RunAt
  <2> QED BY <2>1, <2>2
<1>5. LET f == [e EXCEPT !.at = "finish", !.failed = TRUE] IN
              f \in Run /\ f.at = "finish" /\ f.job = e.job /\ f.iter = e.iter /\ f.last = e.last
              /\ f.step = e.step /\ f.failed
  BY DEF Run, RunAt
<1> QED BY <1>1, <1>2, <1>3, <1>4, <1>5

LEMMA RunBatchProceeds ==
  ASSUME Shape, NEW t \in Thread, RunBatch(t)
  PROVE  Stacked' /\ Proceeds(t) /\ WorkKept /\ Kept
<1>1. Stacked /\ WorkTyped /\ stack[t] # <<>> /\ Top(t) \in Run /\ Top(t).at = "batch"
  BY TopIs, WorkIsTyped DEF RunBatch, RunAt
<1>2. \E f : SetTop(t, f) /\ Turns(Top(t), f)
  <2> DEFINE l == IF Top(t).iter <= Top(t).last THEN "body" ELSE "finish"
             f == [Top(t) EXCEPT !.at = l]
  <2>1. l \in RunAt
    BY DEF RunAt
  <2>2. f \in Run /\ f.at = l /\ f.job = Top(t).job /\ f.iter = Top(t).iter /\ f.last = Top(t).last
        /\ f.step = Top(t).step /\ f.failed = Top(t).failed
    <3> HIDE DEF l
    <3> QED BY SMTT(30), <1>1, <2>1 DEF Run
  <2>3. Top(t).iter \in Nat /\ Top(t).last \in Nat /\ Top(t).step \in Nat
    BY <1>1, RunIs
  <2>4. SetTop(t, f)
    BY DEF RunBatch, Goto
  <2> HIDE DEF f
  <2>5. Turns(Top(t), f)
    BY <1>1, <2>2, <2>3 DEF Turns
  <2> QED BY <2>4, <2>5
<1>3. Kept
  BY DEF RunBatch, Kept, life, team
<1>4. WorkKept
  <2> DEFINE j == Top(t).job
  <2>1. j \in Job /\ work[j].next_semaphore \in Nat /\ work[j].next_semaphore <= Len(Acquires[j])
    BY ZenonT(40), <1>1, RunIs DEF WorkTyped, Record
  <2>2. work' = work \/ (work' = [work EXCEPT ![j].next_semaphore = Reach(j)])
    BY DEF RunBatch
  <2> HIDE DEF j
  <2>3. Reach(j) \in Nat /\ Reach(j) <= Len(Acquires[j])
    BY <2>1, ReachIs
  <2> QED BY SMTT(30), <1>1, <2>1, <2>2, <2>3, WorkFlag, WorkSame
<1> QED BY <1>1, <1>2, <1>3, <1>4, TurnsProceeds

LEMMA ReleaseProceeds ==
  ASSUME Shape, NEW t \in Thread, Release(t)
  PROVE  Stacked' /\ Proceeds(t) /\ WorkKept /\ Kept
<1>1. Stacked /\ WorkTyped /\ stack[t] # <<>> /\ Top(t) \in Run /\ Top(t).at = "body"
  BY TopIs, WorkIsTyped DEF Release, DoesNext, RunAt
<1>2. \E f : SetTop(t, f) /\ Turns(Top(t), f)
  <2>1. Goto(t, "notify") \/ SetTop(t, [Top(t) EXCEPT !.step = @ + 1])
    BY DEF Release
  <2>2. CASE Goto(t, "notify")
    <3> DEFINE f == [Top(t) EXCEPT !.at = "notify"]
    <3>1. f \in Run /\ f.at = "notify" /\ f.job = Top(t).job /\ f.iter = Top(t).iter /\ f.last = Top(t).last
          /\ f.step = Top(t).step /\ f.failed = Top(t).failed /\ Top(t).step \in Nat
      BY ZenonT(40), <1>1, RunIs DEF RunAt
    <3>2. SetTop(t, f)
      BY <2>2 DEF Goto
    <3> HIDE DEF f
    <3> QED BY <1>1, <3>1, <3>2 DEF Turns
  <2>3. CASE SetTop(t, [Top(t) EXCEPT !.step = @ + 1])
    <3> DEFINE f == [Top(t) EXCEPT !.step = @ + 1]
    <3>1. f \in Run /\ f.at = Top(t).at /\ f.job = Top(t).job /\ f.iter = Top(t).iter /\ f.last = Top(t).last
          /\ f.step = Top(t).step + 1 /\ f.failed = Top(t).failed /\ Top(t).step \in Nat
      BY ZenonT(40), <1>1, RunIs
    <3>2. SetTop(t, f)
      BY <2>3
    <3> HIDE DEF f
    <3> QED BY <1>1, <3>1, <3>2 DEF Turns
  <2> QED BY <2>1, <2>2, <2>3
<1>3. work' = work /\ Kept
  BY DEF Release, Kept, life, team
<1> QED BY <1>1, <1>2, <1>3, TurnsProceeds, WorkSame

LEMMA ReleaseWakeProceeds ==
  ASSUME Shape, NEW t \in Thread, ReleaseWake(t)
  PROVE  Stacked' /\ Proceeds(t) /\ WorkKept /\ Kept
<1>1. Stacked /\ WorkTyped /\ stack[t] # <<>> /\ Top(t) \in Run /\ Top(t).at = "notify"
  BY TopIs, WorkIsTyped DEF ReleaseWake, RunAt
<1>2. \E f : SetTop(t, f) /\ Turns(Top(t), f)
  <2> DEFINE f == [Top(t) EXCEPT !.at = "body", !.step = @ + 1]
  <2>1. f \in Run /\ f.at = "body" /\ f.job = Top(t).job /\ f.iter = Top(t).iter /\ f.last = Top(t).last
        /\ f.step = Top(t).step + 1 /\ f.failed = Top(t).failed /\ Top(t).step \in Nat
    BY ZenonT(40), <1>1, RunIs
  <2>2. SetTop(t, f)
    BY DEF ReleaseWake
  <2> HIDE DEF f
  <2> QED BY <1>1, <2>1, <2>2 DEF Turns
<1>3. work' = work /\ Kept
  BY DEF ReleaseWake, Kept, life, team
<1> QED BY <1>1, <1>2, <1>3, TurnsProceeds, WorkSame

LEMMA FailProceeds ==
  ASSUME Shape, NEW t \in Thread, Fail(t)
  PROVE  Stacked' /\ Proceeds(t) /\ WorkKept /\ Kept
<1>1. Stacked /\ WorkTyped /\ stack[t] # <<>> /\ Top(t) \in Run /\ Top(t).at = "body"
  BY TopIs, WorkIsTyped DEF Fail, RunAt
<1>2. \E f : SetTop(t, f) /\ Turns(Top(t), f)
  <2> DEFINE f == [Top(t) EXCEPT !.at = "finish", !.failed = TRUE]
  <2>1. f \in Run /\ f.at = "finish" /\ f.job = Top(t).job /\ f.iter = Top(t).iter /\ f.last = Top(t).last
        /\ f.step = Top(t).step /\ f.failed /\ Top(t).step \in Nat
    BY <1>1, RunIs
  <2>2. SetTop(t, f)
    BY DEF Fail
  <2> HIDE DEF f
  <2> QED BY <1>1, <2>1, <2>2 DEF Turns
<1>3. work' = work /\ Kept
  BY DEF Fail, Kept, life, team
<1> QED BY <1>1, <1>2, <1>3, TurnsProceeds, WorkSame

\* What such steps do to the places of the frames.
Turned(x) ==
  \/ F(x)' = F(x) /\ (Under(x) => Under(x)')
  \/ Turns(F(x), F(x)') /\ (Under(x) => Under(x)' \/ F(x)'.step > F(x).step)

RunsKept == \A j \in Job : RunsOf(j)' = RunsOf(j) /\ \A x \in RunsOf(j) : Turned(x)

LoopsKept == \A g \in Group : LoopsOf(g)' = LoopsOf(g) /\ \A x \in LoopsOf(g) : F(x)'.index = F(x).index

LEMMA PlacesIn ==
  ASSUME Stacked
  PROVE  /\ \A j \in Job : \A x \in RunsOf(j) : x \in Frames /\ F(x) \in Run /\ F(x).job = j
         /\ \A g \in Group : \A x \in LoopsOf(g) : x \in Frames /\ F(x) \in Loop /\ F(x).group = g
         /\ \A x \in Frames : (F(x) \in Run => x \in RunsOf(F(x).job)) /\ (F(x) \in Loop => x \in LoopsOf(F(x).group))
         /\ \A t \in Thread : stack[t] # <<>> => Summit(t) \in Frames /\ F(Summit(t)) = Top(t) /\ ~Under(Summit(t))
<1>1. RunPlaces /\ LoopPlaces
      /\ \A x : x \in Frames <=> \E t \in Thread : \E k \in 1..Len(stack[t]) : x = <<t, k>>
  BY FramesAre, PlacesAre
<1>2. \A j \in Job : \A x \in RunsOf(j) : x \in Frames /\ F(x) \in Run /\ F(x).job = j
  BY <1>1 DEF RunPlaces, F
<1>3. \A g \in Group : \A x \in LoopsOf(g) : x \in Frames /\ F(x) \in Loop /\ F(x).group = g
  BY <1>1 DEF LoopPlaces, F
<1>4. ASSUME NEW x \in Frames
      PROVE  (F(x) \in Run => x \in RunsOf(F(x).job)) /\ (F(x) \in Loop => x \in LoopsOf(F(x).group))
  BY <1>1 DEF RunPlaces, LoopPlaces, F
<1>5. ASSUME NEW t \in Thread, stack[t] # <<>>
      PROVE  Summit(t) \in Frames /\ F(Summit(t)) = Top(t) /\ ~Under(Summit(t))
  <2>1. stack[t] \in Seq(Frame)
    BY DEF Stacked
  <2>2. Len(stack[t]) \in 1..Len(stack[t])
    BY <1>5, <2>1
  <2> QED BY <1>1, <2>2 DEF Summit, F, Top, Under
<1> QED BY <1>2, <1>3, <1>4, <1>5

LEMMA IdlesKeep ==
  ASSUME Stacked, Stacked', NEW t \in Thread, Idles(t)
  PROVE  RunsKept /\ LoopsKept
<1>1. PICK f \in Loop : /\ Edits(t, f) /\ stack[t] # <<>> /\ Top(t) \in Loop
                        /\ f.group = Top(t).group /\ f.index = Top(t).index
  BY DEF Idles
<1>2. SameFrame(Top(t), f)
  BY <1>1 DEF SameFrame
<1>3. /\ \A j : RunsOf(j)' = RunsOf(j)
      /\ \A g : LoopsOf(g)' = LoopsOf(g)
      /\ \A x \in Frames : Under(x)' <=> Under(x)
      /\ \A x \in Frames : x # Summit(t) => F(x)' = F(x)
      /\ \A x : x = Summit(t) => F(x)' = f /\ F(x) = Top(t) /\ x \in Frames
  BY <1>1, <1>2, EditPlaces
<1>4. ASSUME NEW j \in Job, NEW x \in RunsOf(j) PROVE Turned(x)
  <2>1. x \in Frames /\ F(x) \in Run
    BY PlacesIn
  <2>2. x # Summit(t)
    BY <1>1, <1>3, <2>1, Kinds DEF Frame
  <2> QED BY <1>3, <2>1, <2>2 DEF Turned
<1>5. ASSUME NEW g \in Group, NEW x \in LoopsOf(g) PROVE F(x)'.index = F(x).index
  BY <1>1, <1>3, PlacesIn
<1> QED BY <1>3, <1>4, <1>5 DEF RunsKept, LoopsKept

LEMMA ProceedsKeep ==
  ASSUME Stacked, Stacked', NEW t \in Thread, Proceeds(t)
  PROVE  RunsKept /\ LoopsKept
<1>1. PICK f \in Run : Edits(t, f) /\ stack[t] # <<>> /\ Top(t) \in Run /\ Turns(Top(t), f)
  BY DEF Proceeds
<1>2. SameFrame(Top(t), f)
  BY <1>1 DEF SameFrame, Turns
<1>3. /\ \A j : RunsOf(j)' = RunsOf(j)
      /\ \A g : LoopsOf(g)' = LoopsOf(g)
      /\ \A x \in Frames : Under(x)' <=> Under(x)
      /\ \A x \in Frames : x # Summit(t) => F(x)' = F(x)
      /\ \A x : x = Summit(t) => F(x)' = f /\ F(x) = Top(t) /\ x \in Frames
  BY <1>1, <1>2, EditPlaces
<1>4. ASSUME NEW j \in Job, NEW x \in RunsOf(j) PROVE Turned(x)
  <2>1. x \in Frames /\ F(x) \in Run
    BY PlacesIn
  <2> QED BY <1>1, <1>3, <2>1 DEF Turned
<1>5. ASSUME NEW g \in Group, NEW x \in LoopsOf(g) PROVE F(x)'.index = F(x).index
  <2>1. x \in Frames /\ F(x) \in Loop
    BY PlacesIn
  <2>2. x # Summit(t)
    BY <1>1, <1>3, <2>1, Kinds DEF Frame
  <2> QED BY <1>3, <2>1, <2>2
<1> QED BY <1>3, <1>4, <1>5 DEF RunsKept, LoopsKept

LEMMA StillKeeps ==
  ASSUME stack' = stack
  PROVE  RunsKept /\ LoopsKept
<1>1. \A x : F(x)' = F(x) /\ (Under(x) => Under(x)')
  BY DEF F, Under
<1>2. \A j : RunsOf(j)' = RunsOf(j)
  BY DEF RunsOf, Frames
<1>3. \A g : LoopsOf(g)' = LoopsOf(g)
  BY DEF LoopsOf, Frames
<1> QED BY <1>1, <1>2, <1>3 DEF RunsKept, LoopsKept, Turned

(***************************************************************************)
(* The shape is kept.                                                      *)
(***************************************************************************)
\* A thread that can take a step.
Active(t) == (stack[t] # <<>> /\ Top(t) \notin Join) \/ (t \in Caller /\ program[t] # <<>>)

LEMMA BottomIsNext ==
  ASSUME NEW t \in Thread, Stacked', Shaped(t)', stack'[t] # <<>>, stack'[t][1] \in Join
  PROVE  Top(t)' \in Join /\ Len(stack'[t]) = 1 /\ t \in Caller
<1>1. Len(stack'[t]) \in Nat /\ Len(stack'[t]) > 0
  BY DEF Stacked
<1>2. FitsOn(t, Len(stack'[t]), 1, stack'[t][1], stack'[t][1 - 1])
  BY <1>1 DEF Shaped, Fits
<1> QED BY <1>1, <1>2 DEF FitsOn, Top

LEMMA ShapeKept ==
  ASSUME Shape, Typed', \A u \in Thread : Shaped(u)', Suffixes', NEW t \in Thread, Active(t),
         spawned \subseteq spawned',
         \A u \in Thread \ {t} : stack'[u] = stack[u] \/ u \in spawned',
         \A u \in Caller \ {t} : program'[u] = program[u],
         stack'[t] = <<>> \/ Top(t)' \notin Join
  PROVE  Shape'
<1>1. Caller \intersect Worker = {} /\ spawned' \subseteq Worker /\ Stacked /\ Stacked'
  BY ThreadsAssumption DEF Shape, Typed
<1>2. Spawned'
  <2> SUFFICES ASSUME NEW w \in Worker \ spawned' PROVE stack'[w] = <<>>
    BY DEF Spawned
  <2>1. w \in Worker \ spawned /\ stack[w] = <<>> /\ w \in Thread /\ w \notin Caller
    BY <1>1 DEF Shape, Spawned, Thread
  <2>2. w # t
    BY <2>1 DEF Active
  <2> QED BY <2>1, <2>2
<1>3. Joining'
  <2> SUFFICES ASSUME NEW c \in Caller, stack'[c] # <<>>, stack'[c][1] \in Join, NEW d \in Caller \ {c}
               PROVE  stack'[d] = <<>> /\ program'[d] = <<>>
    BY DEF Joining
  <2>1. c \in Thread /\ d \in Thread
    BY DEF Thread
  <2>2. c # t
    <3>1. Top(c)' \in Join
      BY <1>1, <2>1, BottomIsNext
    <3> QED BY <3>1
  <2>3. stack'[c] = stack[c]
    BY <1>1, <2>1, <2>2
  <2>4. \A u \in Caller \ {c} : stack[u] = <<>> /\ program[u] = <<>>
    BY <2>3 DEF Shape, Joining
  <2>5. t \notin Caller
    BY <2>2, <2>4 DEF Active
  <2>6. d # t /\ stack'[d] = stack[d] /\ program'[d] = program[d]
    BY <1>1, <2>1, <2>5
  <2> QED BY <2>4, <2>6
<1> QED BY <1>2, <1>3 DEF Shape

LEMMA TailOf ==
  ASSUME NEW s \in Seq(Entry), s # <<>>
  PROVE  /\ Tail(s) \in Seq(Entry) /\ Len(s) \in Nat /\ Len(s) > 0 /\ Len(Tail(s)) = Len(s) - 1
         /\ \A p \in 1..Len(s) - 1 : Tail(s)[p] = s[p + 1]
         /\ Head(s) = s[1] /\ Head(s) \in Entry
  OBVIOUS

\* A call takes the first of what is left of a caller's program.
LEMMA TailSuffixes ==
  ASSUME Suffixes, NEW c \in Caller, program[c] # <<>>, program' = [program EXCEPT ![c] = Tail(@)]
  PROVE  /\ Suffixes'
         /\ \A d \in Caller \ {c} : program'[d] = program[d] /\ Gone(d)' = Gone(d)
         /\ Gone(c)' = Gone(c) + 1 /\ Gone(c) \in Nat /\ Gone(c) + 1 \in DOMAIN Program[c]
         /\ Head(program[c]) = Program[c][Gone(c) + 1]
<1> DEFINE s == program[c]
           n == Len(Program[c])
<1>1. s \in Seq(Entry) /\ program \in [Caller -> Seq(Entry)] /\ Program[c] \in Seq(Entry)
  BY ProgramAssumption DEF Suffixes, Suffix
<1>2. /\ Tail(s) \in Seq(Entry) /\ Len(s) \in Nat /\ Len(s) > 0 /\ Len(Tail(s)) = Len(s) - 1
      /\ \A p \in 1..Len(s) - 1 : Tail(s)[p] = s[p + 1]
      /\ Head(s) = s[1]
  <2> HIDE DEF s
  <2>1. s # <<>>
    BY DEF s
  <2> QED BY <1>1, <2>1, TailOf
<1>3. n \in Nat /\ DOMAIN Program[c] = 1..n /\ Len(s) <= n /\ \A p \in 1..Len(s) : s[p] = Program[c][n - Len(s) + p]
  BY <1>1 DEF Suffixes, Suffix, Gone
<1>4. program'[c] = Tail(s) /\ \A d \in Caller \ {c} : program'[d] = program[d]
  BY <1>1
<1>5. Gone(c) = n - Len(s) /\ Gone(c)' = n - Len(Tail(s))
  BY <1>4 DEF Gone
<1>6. \A d \in Caller \ {c} : Gone(d)' = Gone(d)
  BY <1>4 DEF Gone
<1>7. \A d \in Caller \ {c} : Suffix(d)'
  BY <1>4, <1>6 DEF Suffixes, Suffix
<1>8. Suffix(c)'
  <2>1. ASSUME NEW p \in 1..Len(Tail(s)) PROVE Tail(s)[p] = Program[c][n - Len(Tail(s)) + p]
    <3> HIDE DEF s, n
    <3>1. /\ p \in 1..Len(s) - 1 /\ p + 1 \in 1..Len(s)
          /\ n - Len(s) + (p + 1) = n - Len(Tail(s)) + p
      BY <1>2, <1>3
    <3>2. s[p + 1] = Program[c][n - Len(s) + (p + 1)]
      BY <1>3, <3>1
    <3> QED BY <1>2, <3>1, <3>2
  <2>2. Len(Tail(s)) <= n
    <3> HIDE DEF s, n
    <3> QED BY <1>2, <1>3
  <2>3. program'[c] = Tail(s) /\ Tail(s) \in Seq(Entry) /\ Gone(c)' = n - Len(Tail(s))
    BY <1>2, <1>4, <1>5
  <2>4. Len(program'[c]) <= Len(Program[c])
    BY <2>2, <2>3
  <2>5. \A p \in 1..Len(program'[c]) : program'[c][p] = Program[c][Gone(c)' + p]
    <3> HIDE DEF s, n
    <3> QED BY <2>1, <2>3
  <2> QED BY <2>3, <2>4, <2>5 DEF Suffix
<1>9. program' \in [Caller -> Seq(Entry)]
  BY <1>1, <1>2
<1>10. Gone(c)' = Gone(c) + 1 /\ Gone(c) \in Nat /\ Gone(c) + 1 \in DOMAIN Program[c]
       /\ s[1] = Program[c][Gone(c) + 1]
  <2> HIDE DEF s, n
  <2>1. 1 \in 1..Len(s)
    BY <1>2
  <2>2. s[1] = Program[c][n - Len(s) + 1]
    BY <1>3, <2>1
  <2> QED BY <1>2, <1>3, <1>5, <2>2
<1>11. Head(program[c]) = Program[c][Gone(c) + 1]
  BY <1>2, <1>10
<1> QED BY <1>4, <1>6, <1>7, <1>8, <1>9, <1>10, <1>11 DEF Suffixes

LEMMA SameSuffixes ==
  ASSUME Suffixes, program' = program
  PROVE  Suffixes' /\ \A c \in Caller : Gone(c)' = Gone(c)
  BY DEF Suffixes, Suffix, Gone

LEMMA IdlesShape ==
  ASSUME Shape, Stacked', NEW t \in Thread, Idles(t), WorkKept, Kept
  PROVE  Shape'
<1>1. PICK f \in Loop : /\ Edits(t, f) /\ stack[t] # <<>> /\ Top(t) \in Loop
                        /\ f.group = Top(t).group /\ f.index = Top(t).index /\ f.at # "start"
  BY DEF Idles
<1>2. Stacked /\ SameFrame(Top(t), f) /\ f \in Frame
  BY <1>1 DEF SameFrame, Shape, Typed, Frame
<1>3. f.group # NULL => f.index \in DOMAIN Prepared(f.group)
  BY <1>1, OwnedIs
<1>4. \A u \in Thread : Shaped(u)'
  BY <1>1, <1>2, <1>3, EditShaped DEF Shape
<1>5. Typed'
  BY DEF Shape, Typed, Kept, WorkKept, WorkTyped
<1>6. Top(t)' = f /\ f \notin Join /\ Top(t) \notin Join
  BY <1>1, <1>2, Kinds DEF Edits, Top, Frame
<1>7. Suffixes' /\ program' = program /\ spawned' = spawned
  BY SameSuffixes DEF Kept, Shape
<1>8. \A u \in Thread \ {t} : stack'[u] = stack[u]
  BY <1>1 DEF Edits, Others
<1>9. Active(t)
  BY <1>1, <1>6 DEF Active
<1> QED BY <1>4, <1>5, <1>6, <1>7, <1>8, <1>9, ShapeKept

LEMMA ProceedsShape ==
  ASSUME Shape, Stacked', NEW t \in Thread, Proceeds(t), WorkKept, Kept
  PROVE  Shape'
<1>1. PICK f \in Run : Edits(t, f) /\ stack[t] # <<>> /\ Top(t) \in Run /\ Turns(Top(t), f)
  BY DEF Proceeds
<1>2. Stacked /\ SameFrame(Top(t), f) /\ f \in Frame /\ Top(t) \in Frame
  BY <1>1 DEF SameFrame, Shape, Typed, Frame, Turns
<1>3. f \notin Loop /\ f \notin Join /\ Top(t) \notin Join
  BY <1>1, <1>2, Kinds
<1>4. \A u \in Thread : Shaped(u)'
  BY <1>1, <1>2, <1>3, EditShaped DEF Shape
<1>5. Typed'
  BY DEF Shape, Typed, Kept, WorkKept, WorkTyped
<1>6. Top(t)' = f
  BY <1>1 DEF Edits, Top
<1>7. Suffixes' /\ program' = program /\ spawned' = spawned
  BY SameSuffixes DEF Kept, Shape
<1>8. \A u \in Thread \ {t} : stack'[u] = stack[u]
  BY <1>1 DEF Edits, Others
<1>9. Active(t)
  BY <1>1, <1>3 DEF Active
<1> QED BY <1>3, <1>4, <1>5, <1>6, <1>7, <1>8, <1>9, ShapeKept

LEMMA StillShape ==
  ASSUME Shape, stack' = stack, WorkTyped', jobs' \in Seq(Job), ran' = ran, spawned' = spawned,
         Suffixes', \A c \in Caller : program[c] = <<>> => program'[c] = <<>>
  PROVE  Shape'
<1>1. Typed'
  BY DEF Shape, Typed, WorkTyped, Stacked
<1>2. \A u \in Thread : Shaped(u)'
  BY OthersShaped DEF Shape
<1>3. Spawned' /\ Joining'
  BY DEF Shape, Spawned, Joining
<1> QED BY <1>1, <1>2, <1>3 DEF Shape

\* An element taken out of a list.
Distinct(s) == \A k, n \in DOMAIN s : s[k] = s[n] => k = n
Has(s, x) == \E k \in DOMAIN s : s[k] = x

LEMMA WithoutIs ==
  ASSUME NEW S, NEW s \in Seq(S), NEW k \in DOMAIN s
  PROVE  /\ Without(s, k) \in Seq(S)
         /\ Distinct(s) => /\ Distinct(Without(s, k))
                           /\ \A x : Has(Without(s, k), x) <=> Has(s, x) /\ x # s[k]
<1> DEFINE w == Without(s, k)
           n == Len(s)
           Old(i) == IF i < k THEN i ELSE i + 1
<1>1. n \in Nat /\ k \in 1..n /\ DOMAIN s = 1..n /\ \A i \in 1..n : s[i] \in S
  OBVIOUS
<1>2. /\ SubSeq(s, 1, k - 1) = [i \in 1..(k - 1) |-> s[i]]
      /\ SubSeq(s, k + 1, n) = [i \in 1..(n - k) |-> s[k + i]]
  <2>1. SubSeq(s, 1, k - 1) = [i \in 1..(k - 1) |-> s[i]]
    BY <1>1
  <2>2. /\ SubSeq(s, k + 1, n) \in Seq(S) /\ Len(SubSeq(s, k + 1, n)) = n - k
        /\ \A i \in 1..(n - k) : SubSeq(s, k + 1, n)[i] = s[k + i]
    <3>1. SubSeq(s, k + 1, n) = [i \in 1..(1 + n - (k + 1)) |-> s[(k + 1) + i - 1]]
      BY <1>1
    <3>2. 1 + n - (k + 1) = n - k /\ n - k \in Nat /\ \A i \in 1..(n - k) : (k + 1) + i - 1 = k + i /\ k + i \in 1..n
      BY <1>1
    <3>3. SubSeq(s, k + 1, n) = [i \in 1..(n - k) |-> s[k + i]]
      BY <3>1, <3>2
    <3> QED BY <1>1, <3>2, <3>3
  <2>3. DOMAIN SubSeq(s, k + 1, n) = 1..(n - k)
    BY <2>2
  <2> QED BY SMTT(30), <2>1, <2>2, <2>3
<1>3. /\ SubSeq(s, 1, k - 1) \in Seq(S) /\ Len(SubSeq(s, 1, k - 1)) = k - 1
      /\ SubSeq(s, k + 1, n) \in Seq(S) /\ Len(SubSeq(s, k + 1, n)) = n - k
  <2>1. \A i \in 1..(k - 1) : s[i] \in S
    BY <1>1
  <2>2. \A i \in 1..(n - k) : s[k + i] \in S
    BY <1>1
  <2>3. k - 1 \in Nat /\ n - k \in Nat
    BY <1>1
  <2> QED BY <1>2, <2>1, <2>2, <2>3
<1>4. /\ w \in Seq(S) /\ Len(w) = n - 1 /\ DOMAIN w = 1..n - 1
      /\ \A i \in 1..n - 1 : w[i] = s[Old(i)]
  <2> DEFINE a == SubSeq(s, 1, k - 1)
             b == SubSeq(s, k + 1, n)
  <2>1. w = a \o b
    BY DEF Without
  <2>2. a \in Seq(S) /\ b \in Seq(S) /\ Len(a) = k - 1 /\ Len(b) = n - k
    BY <1>3
  <2>3. \A i \in 1..k - 1 : a[i] = s[i]
    BY <1>2
  <2>4. \A i \in 1..n - k : b[i] = s[k + i]
    BY <1>2
  <2> HIDE DEF a, b, w
  <2>5. w \in Seq(S) /\ Len(w) = Len(a) + Len(b)
        /\ \A i \in 1..Len(a) + Len(b) : w[i] = IF i <= Len(a) THEN a[i] ELSE b[i - Len(a)]
    BY <2>1, <2>2, ConcatProperties
  <2>6. Len(w) = n - 1 /\ DOMAIN w = 1..n - 1
    BY <1>1, <2>2, <2>5
  <2>7. ASSUME NEW i \in 1..n - 1 PROVE w[i] = s[Old(i)]
    <3>1. CASE i < k
      <4>1. i \in 1..k - 1 /\ i <= Len(a) /\ i \in 1..Len(a) + Len(b)
        BY <1>1, <2>2, <3>1
      <4> QED BY <2>3, <2>5, <3>1, <4>1
    <3>2. CASE i >= k
      <4>1. i - Len(a) \in 1..n - k /\ ~(i <= Len(a)) /\ i \in 1..Len(a) + Len(b) /\ k + (i - Len(a)) = i + 1
        BY <1>1, <2>2, <3>2
      <4>2. w[i] = s[i + 1]
        BY <2>4, <2>5, <4>1
      <4>3. ~(i < k)
        BY <1>1, <3>2
      <4> QED BY <4>2, <4>3
    <3> QED BY <1>1, <3>1, <3>2
  <2> QED BY <2>5, <2>6, <2>7
<1> HIDE DEF w
<1>5. \A i \in 1..n - 1 : Old(i) \in 1..n /\ Old(i) # k
  BY <1>1
<1>6. \A i, l \in 1..n - 1 : Old(i) = Old(l) => i = l
  BY <1>1
<1>7. ASSUME NEW m \in 1..n, m # k PROVE \E i \in 1..n - 1 : Old(i) = m
  <2>1. CASE m < k
    <3>1. m \in 1..n - 1 /\ Old(m) = m
      BY <1>1, <2>1
    <3> QED BY <3>1
  <2>2. CASE m > k
    <3>1. m - 1 \in 1..n - 1 /\ Old(m - 1) = m
      BY <1>1, <2>2
    <3> QED BY <3>1
  <2> QED BY <1>1, <1>7, <2>1, <2>2
<1> HIDE DEF n, Old
<1>8. ASSUME Distinct(s) PROVE Distinct(w) /\ \A x : Has(w, x) <=> Has(s, x) /\ x # s[k]
  <2>1. Distinct(w)
    <3> SUFFICES ASSUME NEW i \in 1..n - 1, NEW l \in 1..n - 1, w[i] = w[l] PROVE i = l
      BY <1>4 DEF Distinct
    <3>1. Old(i) = Old(l)
      BY <1>1, <1>4, <1>5, <1>8 DEF Distinct
    <3> QED BY <1>6, <3>1
  <2>2. ASSUME NEW x, Has(w, x) PROVE Has(s, x) /\ x # s[k]
    <3>1. PICK i \in 1..n - 1 : s[Old(i)] = x
      BY <1>4, <2>2 DEF Has
    <3>2. Old(i) \in 1..n /\ Old(i) # k
      BY <1>5
    <3> QED BY <1>1, <1>8, <3>1, <3>2 DEF Distinct, Has
  <2>3. ASSUME NEW x, Has(s, x), x # s[k] PROVE Has(w, x)
    <3>1. PICK m \in 1..n : s[m] = x
      BY <1>1, <2>3 DEF Has
    <3>2. PICK i \in 1..n - 1 : Old(i) = m
      BY <1>7, <2>3, <3>1
    <3> QED BY <1>4, <3>1, <3>2 DEF Has
  <2> QED BY <2>1, <2>2, <2>3
<1> QED BY <1>4, <1>8 DEF w

LEMMA WorkerExitKeeps ==
  ASSUME Shape, NEW t \in Thread, WorkerExit(t)
  PROVE  Shape' /\ RunsKept /\ LoopsKept /\ WorkKept /\ Kept
<1>1. Stacked /\ WorkTyped /\ stack[t] # <<>> /\ Top(t) \in Loop /\ Owned(t) = NULL
  BY TopIs, WorkIsTyped DEF WorkerExit, LoopAt
<1>2. Top(t).group = NULL /\ Len(stack[t]) = 1
  BY <1>1, OwnedIs
<1>3. Stacked' /\ Clears(t)
  BY <1>1, <1>2, ClearMoves DEF WorkerExit
<1>4. work' = work /\ Kept
  BY DEF WorkerExit, Kept, life, team
<1>5. Top(t) \notin Run /\ Top(t) \notin Join /\ \A g \in Group : g # NULL
  BY <1>1, Kinds, ThreadsAssumption DEF Frame
<1>6. /\ \A j : RunsOf(j)' = RunsOf(j) \ {Summit(t)}
      /\ \A g : LoopsOf(g)' = LoopsOf(g) \ {Summit(t)}
      /\ \A x \in Frames \ {Summit(t)} : F(x)' = F(x) /\ (Under(x)' <=> Under(x))
      /\ F(Summit(t)) = Top(t)
  BY <1>1, <1>3, ClearPlaces
<1>7. \A j \in Job : \A x \in RunsOf(j) : x \in Frames \ {Summit(t)}
  BY <1>1, <1>5, <1>6, PlacesIn
<1>8. \A g \in Group : \A x \in LoopsOf(g) : x \in Frames \ {Summit(t)}
  BY <1>1, <1>2, <1>5, <1>6, PlacesIn
<1>9. RunsKept /\ LoopsKept
  BY <1>6, <1>7, <1>8 DEF RunsKept, LoopsKept, Turned
<1>10. WorkKept
  BY <1>1, <1>4, WorkSame
<1>11. Shape'
  <2>1. \A u \in Thread : Shaped(u)'
    BY <1>3, ClearShaped DEF Shape
  <2>2. Typed'
    BY <1>3, <1>4, <1>10 DEF Shape, Typed, Kept, WorkKept, WorkTyped
  <2>3. Suffixes' /\ program' = program /\ spawned' = spawned
    BY <1>4, SameSuffixes DEF Kept, Shape
  <2>4. stack'[t] = <<>> /\ \A u \in Thread \ {t} : stack'[u] = stack[u]
    BY <1>3 DEF Clears, Others
  <2>5. Active(t)
    BY <1>1, <1>5 DEF Active
  <2> QED BY <2>1, <2>2, <2>3, <2>4, <2>5, ShapeKept
<1> QED BY <1>4, <1>9, <1>10, <1>11

CallerDrops(c) == c \in Caller /\ program[c] # <<>> /\ program' = [program EXCEPT ![c] = Tail(@)]

LEMMA DropShape ==
  ASSUME Shape, stack' = stack, WorkKept, jobs' = jobs, ran' = ran, spawned' = spawned,
         NEW c \in Caller, CallerDrops(c)
  PROVE  Shape'
<1>1. Suffixes' /\ \A d \in Caller \ {c} : program'[d] = program[d]
  BY TailSuffixes DEF CallerDrops, Shape
<1>2. WorkTyped' /\ jobs' \in Seq(Job)
  BY DEF WorkKept, Shape, Typed
<1>3. \A d \in Caller : program[d] = <<>> => program'[d] = <<>>
  BY <1>1 DEF CallerDrops
<1> QED BY <1>1, <1>2, <1>3, StillShape

LEMMA ShutdownKeeps ==
  ASSUME Shape, NEW c \in Caller, Shutdown(c)
  PROVE  Shape' /\ RunsKept /\ LoopsKept /\ WorkKept /\ CallerDrops(c)
         /\ jobs' = jobs /\ ran' = ran /\ spawned' = spawned /\ result' = result
<1>1. /\ CallerDrops(c) /\ work' = work /\ Stacked /\ WorkTyped
      /\ jobs' = jobs /\ ran' = ran /\ spawned' = spawned /\ result' = result
  BY WorkIsTyped DEF Shutdown, CallerDrops, team, life
<1>2. WorkKept
  BY <1>1, WorkSame
<1>3. CASE stack' = stack
  BY <1>1, <1>2, <1>3, StillKeeps, DropShape
<1>4. CASE stack' = [stack EXCEPT ![c] = <<[at |-> "join"]>>]
  <2> DEFINE f == [at |-> "join"]
  <2>0. c \in Thread /\ stack[c] = <<>> /\ stack[c] \in Seq(Frame) /\ Append(<<>>, f) = <<f>>
        /\ \A u \in Caller \ {c} : stack[u] = <<>> /\ program[u] = <<>>
    BY <1>1 DEF Shutdown, Thread, Stacked
  <2>1. f \in Join /\ f \in Frame
    BY DEF Join, Frame
  <2>2. stack' = [stack EXCEPT ![c] = Append(@, f)]
    BY <1>4, <2>0
  <2>3. f \notin Run /\ f \notin Loop
    BY <2>1, Kinds
  <2>9. \A g \in Group : LoopsOf(g) \subseteq Frames
    BY <1>1, PlacesIn
  <2>10. \A j \in Job : RunsOf(j) \subseteq Frames
    BY <1>1, PlacesIn
  <2> HIDE DEF f
  <2>4. Stacked' /\ Others(c) /\ Pushes(c, f)
    BY <1>1, <2>0, <2>1, <2>2, PushMoves
  <2>5. Spawns(c)
    BY <2>4 DEF Others, Spawns
  <2>6. /\ \A j \in Job : RunsOf(j)' = RunsOf(j)
        /\ \A g \in Group : LoopsOf(g)' = LoopsOf(g)
        /\ \A x \in Frames : F(x)' = F(x)
        /\ \A x \in Frames : Under(x)' <=> Under(x) \/ x = Summit(c)
    BY <1>1, <2>0, <2>1, <2>3, <2>4, <2>5, PushPlaces
  <2>7. RunsKept /\ LoopsKept
    BY <2>6, <2>9, <2>10 DEF RunsKept, LoopsKept, Turned
  <2>8. Shape'
    <3>1. \A u \in Thread : Shaped(u)'
      BY <1>1, <2>0, <2>1, <2>3, <2>4, <2>5, PushShaped DEF Shape, Others
    <3>2. Typed'
      BY <1>1, <1>2, <2>4 DEF Shape, Typed, WorkKept, WorkTyped
    <3>3. Suffixes' /\ \A d \in Caller \ {c} : program'[d] = program[d]
      BY <1>1, TailSuffixes DEF CallerDrops, Shape
    <3>4. Spawned'
      <4>1. \A w \in Worker : w \in Thread /\ w # c
        BY ThreadsAssumption DEF Thread
      <4> QED BY <1>1, <2>4, <4>1 DEF Shape, Spawned, Others
    <3>5. Joining'
      <4>1. \A d \in Caller \ {c} : stack'[d] = <<>> /\ program'[d] = <<>>
        BY <2>0, <2>4, <3>3 DEF Others, Thread
      <4> QED BY <4>1 DEF Joining
    <3> QED BY <3>1, <3>2, <3>3, <3>4, <3>5 DEF Shape
  <2> QED BY <1>1, <1>2, <2>7, <2>8
<1> QED BY <1>3, <1>4 DEF Shutdown

LEMMA ResetKeeps ==
  ASSUME Shape, NEW c \in Caller, Reset(c)
  PROVE  /\ Shape' /\ RunsKept /\ LoopsKept /\ WorkKept
         /\ jobs' = <<>> /\ ran' = ran /\ program' = program /\ result' = result
         /\ \A g \in Group : LoopsOf(g) = {}
<1>1. c \in Thread /\ Stacked /\ WorkTyped /\ stack[c] # <<>> /\ Top(c) \in Join
  BY TopIs, WorkIsTyped DEF Reset, Thread
<1>2. Len(stack[c]) = 1 /\ stack[c][1] = Top(c)
  <2>1. Len(stack[c]) \in 1..Len(stack[c]) /\ Top(c) = stack[c][Len(stack[c])]
    BY <1>1 DEF Stacked, Top
  <2>2. Fits(c, Len(stack[c]))
    BY <1>1, <2>1 DEF Shape, Shaped
  <2> QED BY <1>1, <2>1, <2>2 DEF Fits, FitsOn
<1>3. Stacked' /\ Clears(c)
  BY <1>1, <1>2, ClearMoves DEF Reset
<1>4. /\ work' = work /\ jobs' = <<>> /\ ran' = ran /\ program' = program /\ result' = result
      /\ spawned' = {} /\ \A w \in spawned : stack[w] = <<>>
  BY DEF Reset
<1>5. Top(c) \notin Run /\ Top(c) \notin Loop
  BY <1>1, Kinds DEF Frame
<1>6. /\ \A j : RunsOf(j)' = RunsOf(j) \ {Summit(c)}
      /\ \A g : LoopsOf(g)' = LoopsOf(g) \ {Summit(c)}
      /\ \A x \in Frames \ {Summit(c)} : F(x)' = F(x) /\ (Under(x)' <=> Under(x))
      /\ F(Summit(c)) = Top(c)
  BY <1>1, <1>3, ClearPlaces
<1>7. \A j \in Job : \A x \in RunsOf(j) : x \in Frames \ {Summit(c)}
  BY <1>1, <1>5, <1>6, PlacesIn
<1>8. \A g \in Group : \A x \in LoopsOf(g) : x \in Frames \ {Summit(c)}
  BY <1>1, <1>5, <1>6, PlacesIn
<1>9. RunsKept /\ LoopsKept
  BY <1>6, <1>7, <1>8 DEF RunsKept, LoopsKept, Turned
<1>10. WorkKept
  BY <1>1, <1>4, WorkSame
<1>11. \A d \in Caller \ {c} : stack[d] = <<>> /\ program[d] = <<>>
  BY <1>1, <1>2 DEF Shape, Joining
<1>12. \A w \in Worker : stack[w] = <<>> /\ w \in Thread /\ w # c
  BY <1>4, ThreadsAssumption DEF Shape, Spawned, Thread
<1>13. ASSUME NEW g \in Group, NEW x \in LoopsOf(g) PROVE FALSE
  <2>1. PICK u \in Thread : \E k \in 1..Len(stack[u]) : x = <<u, k>>
    BY <1>1, <1>8, PlacesAre
  <2>2. PICK k \in 1..Len(stack[u]) : x = <<u, k>>
    BY <2>1
  <2>3. CASE u = c
    <3>0. Len(stack[u]) = 1
      BY <1>2, <2>3
    <3>1. k \in 1..1
      BY <3>0
    <3>2. x = <<c, 1>>
      BY <2>2, <2>3, <3>1
    <3>3. Summit(c) = <<c, 1>>
      BY <1>2 DEF Summit
    <3> QED BY <1>8, <3>2, <3>3
  <2>4. CASE u # c
    <3>1. stack[u] = <<>>
      BY <1>11, <1>12, <2>4 DEF Thread
    <3> QED BY <2>2, <3>1
  <2> QED BY <2>3, <2>4
<1>14. Shape'
  <2>1. \A u \in Thread : Shaped(u)'
    BY <1>1, <1>3, ClearShaped DEF Shape
  <2>2. Typed'
    <3>1. <<>> \in Seq(Job)
      OBVIOUS
    <3> QED BY <1>3, <1>4, <1>10, <3>1 DEF Shape, Typed, WorkKept, WorkTyped
  <2>3. Suffixes'
    BY <1>4, SameSuffixes DEF Shape
  <2>4. stack'[c] = <<>> /\ \A u \in Thread \ {c} : stack'[u] = stack[u]
    BY <1>3 DEF Clears, Others
  <2>5. Spawned'
    BY <1>12, <2>4 DEF Spawned
  <2>6. Joining'
    BY <1>11, <2>4 DEF Joining, Thread
  <2> QED BY <2>1, <2>2, <2>3, <2>5, <2>6 DEF Shape
<1> QED BY <1>4, <1>9, <1>10, <1>13, <1>14

\* Job j's record gets e, m and a; the others keep theirs; failures stay.
Writes(j, e, m, a) ==
  /\ WorkTyped'
  /\ work'[j].extent = e /\ work'[j].min = m /\ work'[j].active_workers = a
  /\ \A i \in Job :
       /\ i # j => /\ work'[i].extent = work[i].extent
                   /\ work'[i].min = work[i].min
                   /\ work'[i].active_workers = work[i].active_workers
       /\ work[i].exit_status # 0 => work'[i].exit_status # 0

LEMMA ReserveIs ==
  ASSUME NEW w \in [Job -> Record], NEW j \in Job, NEW n \in Int, Reserve(w, j, n)
  PROVE  /\ work' \in [Job -> Record]
         /\ \A i \in Job : /\ work'[i].extent = w[i].extent
                           /\ work'[i].min = w[i].min
                           /\ work'[i].active_workers = w[i].active_workers
                           /\ work'[i].exit_status = w[i].exit_status
                           /\ work'[i].next_semaphore = w[i].next_semaphore
<1>1. CASE Parent[j] = NULL
  BY <1>1 DEF Reserve
<1>2. CASE Parent[j] # NULL
  <2>1. Parent[j] \in Job
    BY <1>2, ProgramAssumption
  <2> DEFINE p == Parent[j]
             r == [w[p] EXCEPT !.threads_reserved = @ + n]
  <2>2. w[p] \in Record
    BY <2>1
  <2>3. r \in Record /\ r.extent = w[p].extent /\ r.min = w[p].min /\ r.active_workers = w[p].active_workers
        /\ r.exit_status = w[p].exit_status /\ r.next_semaphore = w[p].next_semaphore
    <3> HIDE DEF p
    <3>1. w[p].threads_reserved + n \in Int
      BY <2>2 DEF Record
    <3> QED BY <2>2, <3>1 DEF Record
  <2>4. work' = [w EXCEPT ![p] = r]
    BY <1>2 DEF Reserve
  <2> HIDE DEF r, p
  <2>5. p \in Job
    BY <2>1 DEF p
  <2> QED BY <2>3, <2>4, <2>5
<1> QED BY <1>1, <1>2

\* What joining a job does: the owner goes to the next one, or returns.
Advances(t) ==
  /\ result' = result
  /\ \A g \in Group : LoopsOf(g)' = LoopsOf(g)
  /\ \A g \in Group : \A x \in LoopsOf(g) :
       F(x)'.index = F(x).index \/ (x = Summit(t) /\ F(x)'.index = F(x).index + 1)

Returns(t) ==
  /\ Top(t).index = Len(Prepared(Top(t).group))
  /\ \A g \in Group : LoopsOf(g)' = LoopsOf(g) \ {Summit(t)}
  /\ \A g \in Group : \A x \in LoopsOf(g) \ {Summit(t)} : F(x)'.index = F(x).index
  /\ \A g \in Group : result'[g] = "ok" => result[g] = "ok" \/
       (g = Top(t).group /\ \A k \in DOMAIN Prepared(g) : work[Prepared(g)[k]].exit_status = 0)

LEMMA JoinedReturns ==
  ASSUME Shape, NEW t \in Thread, Joined(t), result \in [Group -> {"none", "ok", "error"}]
  PROVE  /\ Shape' /\ RunsKept /\ WorkKept
         /\ jobs' = jobs /\ ran' = ran /\ program' = program
         /\ stack[t] # <<>> /\ Top(t) \in Loop /\ Top(t).group \in Group
         /\ Owned(t) = Prepared(Top(t).group)[Top(t).index] /\ ~running(Owned(t))
         /\ Top(t).index \in DOMAIN Prepared(Top(t).group)
         /\ Advances(t) \/ Returns(t)
<1>1. Stacked /\ WorkTyped /\ stack[t] # <<>> /\ Top(t) \in Loop /\ ~running(Owned(t)) /\ Top(t).at = "head"
  BY TopIs, WorkIsTyped DEF Joined, LoopAt
<1> DEFINE g == Top(t).group
           js == Prepared(g)
           failed == \E k \in DOMAIN js : work[js[k]].exit_status # 0
           below == Below(stack[t])
<1>2. /\ g \in Group /\ g # NULL /\ Top(t).index \in DOMAIN js
      /\ Owned(t) = js[Top(t).index]
  BY <1>1, OwnedIs DEF Joined
<1>3. work' = work /\ jobs' = jobs /\ ran' = ran /\ program' = program /\ spawned' = spawned
  BY DEF Joined, life
<1>4. WorkKept /\ Suffixes'
  BY <1>1, <1>3, WorkSame, SameSuffixes DEF Shape
<1>5. Top(t) \notin Join /\ Top(t) \notin Run /\ Active(t)
  BY <1>1, Kinds DEF Active, Frame
<1>6. Len(js) \in Nat /\ DOMAIN js = 1..Len(js)
  BY <1>2, PreparedAre
<1>7. CASE Top(t).index < Len(js)
  <2> DEFINE f == [Top(t) EXCEPT !.index = @ + 1]
  <2>1. result' = result /\ SetTop(t, f)
    BY <1>7 DEF Joined
  <2>2. /\ f \in Loop /\ f.group = g /\ f.index = Top(t).index + 1 /\ f.at = "head"
        /\ f.index \in DOMAIN js /\ f \in Frame /\ SameFrame(Top(t), f)
    BY <1>1, <1>2, <1>6, <1>7 DEF Loop, Frame, SameFrame
  <2> HIDE DEF f
  <2>3. Stacked' /\ Edits(t, f)
    BY <1>1, <2>1, <2>2, EditMoves
  <2>4. /\ \A j : RunsOf(j)' = RunsOf(j)
        /\ \A h : LoopsOf(h)' = LoopsOf(h)
        /\ \A x \in Frames : Under(x)' <=> Under(x)
        /\ \A x \in Frames : x # Summit(t) => F(x)' = F(x)
        /\ \A x : x = Summit(t) => F(x)' = f /\ F(x) = Top(t) /\ x \in Frames
    BY <1>1, <2>2, <2>3, EditPlaces
  <2>5. \A j \in Job : \A x \in RunsOf(j) : x # Summit(t) /\ x \in Frames
    BY <1>1, <1>5, <2>4, PlacesIn
  <2>6. RunsKept
    BY <2>4, <2>5 DEF RunsKept, Turned
  <2>7. Advances(t)
    BY <1>1, <2>1, <2>2, <2>4, PlacesIn DEF Advances
  <2>8. Shape'
    <3>1. \A u \in Thread : Shaped(u)'
      BY <1>1, <2>2, <2>3, EditShaped DEF Shape
    <3>2. Typed'
      BY <1>3, <1>4, <2>3 DEF Shape, Typed, WorkKept, WorkTyped
    <3>3. Top(t)' = f /\ f \notin Join
      BY <2>2, <2>3, Kinds DEF Edits, Top
    <3>4. \A u \in Thread \ {t} : stack'[u] = stack[u]
      BY <2>3 DEF Edits, Others
    <3> QED BY <1>3, <1>4, <1>5, <3>1, <3>2, <3>3, <3>4, ShapeKept
  <2> QED BY <1>1, <1>2, <1>3, <1>4, <2>6, <2>7, <2>8
<1>8. CASE ~(Top(t).index < Len(js))
  <2>1. Top(t).index = Len(js)
    BY <1>2, <1>6, <1>8
  <2>2. \A h \in Group : result'[h] = "ok" => result[h] = "ok" \/
          (h = g /\ \A k \in DOMAIN js : work[js[k]].exit_status = 0)
    <3>1. result' = [result EXCEPT ![g] = IF failed THEN "error" ELSE "ok"]
      BY <1>8 DEF Joined
    <3> QED BY <3>1
  <2>3. stack' = [stack EXCEPT ![t] =
                  IF below = <<>> THEN below
                  ELSE LET r == below[Len(below)]
                       IN  WithTop(below, [r EXCEPT !.step = @ + 1, !.failed = failed,
                                             !.at = IF failed THEN "finish" ELSE "body"])]
    BY <1>8 DEF Joined
  <2>4. /\ stack[t] \in Seq(Frame) /\ Len(stack[t]) \in Nat /\ Len(stack[t]) > 0
        /\ below \in Seq(Frame) /\ Len(below) = Len(stack[t]) - 1
        /\ (below = <<>> <=> Len(stack[t]) = 1)
        /\ \A k \in 1..Len(stack[t]) - 1 : below[k] = stack[t][k]
    BY <1>1, Lowered DEF Stacked
  <2>5. CASE below = <<>>
    <3>1. stack' = [stack EXCEPT ![t] = <<>>]
      BY <2>3, <2>5
    <3>2. Stacked' /\ Clears(t)
      BY <1>1, <2>4, <2>5, <3>1, ClearMoves
    <3>3. /\ \A j : RunsOf(j)' = RunsOf(j) \ {Summit(t)}
          /\ \A h : LoopsOf(h)' = LoopsOf(h) \ {Summit(t)}
          /\ \A x \in Frames \ {Summit(t)} : F(x)' = F(x) /\ (Under(x)' <=> Under(x))
          /\ F(Summit(t)) = Top(t)
      BY <1>1, <3>2, ClearPlaces
    <3>4. \A j \in Job : \A x \in RunsOf(j) : x \in Frames \ {Summit(t)}
      BY <1>1, <1>5, <3>3, PlacesIn
    <3>5. RunsKept
      BY <3>3, <3>4 DEF RunsKept, Turned
    <3>6. \A h \in Group : \A x \in LoopsOf(h) \ {Summit(t)} : F(x)'.index = F(x).index
      BY <1>1, <3>3, PlacesIn
    <3>7. Returns(t)
      BY <2>1, <2>2, <3>3, <3>6 DEF Returns
    <3>8. Shape'
      <4>1. \A u \in Thread : Shaped(u)'
        BY <3>2, ClearShaped DEF Shape
      <4>2. Typed'
        BY <1>3, <1>4, <3>2 DEF Shape, Typed, WorkKept, WorkTyped
      <4>3. stack'[t] = <<>> /\ \A u \in Thread \ {t} : stack'[u] = stack[u]
        BY <3>2 DEF Clears, Others
      <4> QED BY <1>3, <1>4, <1>5, <4>1, <4>2, <4>3, ShapeKept
    <3> QED BY <1>1, <1>2, <1>3, <1>4, <3>5, <3>7, <3>8
  <2>6. CASE below # <<>>
    <3> DEFINE n == Len(stack[t])
               r == stack[t][n - 1]
               f == [r EXCEPT !.step = @ + 1, !.failed = failed, !.at = IF failed THEN "finish" ELSE "body"]
    <3>1. n \in Nat /\ n > 1 /\ below[Len(below)] = r
      BY <2>4, <2>6
    <3>2. stack' = [stack EXCEPT ![t] = WithTop(Below(@), f)]
      BY <2>3, <2>6, <3>1
    <3>3. r \in Run /\ r.at = "body"
      <4>1. FitsOn(t, n, n, stack[t][n], stack[t][n - 1]) /\ FitsOn(t, n, n - 1, stack[t][n - 1], stack[t][(n - 1) - 1])
        BY SMTT(30), <3>1 DEF Shape, Shaped, Fits
      <4>2. stack[t][n] \in Loop
        BY <1>1 DEF Top
      <4> QED BY <3>1, <4>1, <4>2 DEF FitsOn
    <3>4. f \in Run /\ Turns(r, f) /\ f.step > r.step
      <4>1. failed \in BOOLEAN /\ r.step \in Nat /\ r.iter \in Nat
        BY <3>3, RunIs
      <4> HIDE DEF failed, r
      <4>2. r.step + 1 \in Nat
        BY <4>1
      <4>3. /\ f \in Run /\ f.job = r.job /\ f.iter = r.iter /\ f.last = r.last /\ f.step = r.step + 1
            /\ f.failed = failed /\ f.at = IF failed THEN "finish" ELSE "body"
        BY <3>3, <4>1, <4>2 DEF Run, RunAt
      <4> HIDE DEF f
      <4> QED BY <3>3, <4>1, <4>3 DEF Turns
    <3> HIDE DEF f, r, failed
    <3>5. f \in Frame /\ SameFrame(stack[t][Len(stack[t]) - 1], f) /\ f \notin Loop /\ f \notin Join
      BY <3>4, Kinds DEF SameFrame, Turns, Frame, r
    <3>6. Stacked' /\ Pops(t, f)
      BY <1>1, <3>1, <3>2, <3>5, PopMoves
    <3>7. /\ \A j : RunsOf(j)' = RunsOf(j) \ {Summit(t)}
          /\ \A h : LoopsOf(h)' = LoopsOf(h) \ {Summit(t)}
          /\ \A x \in Frames \ {Summit(t)} : Under(x)' <=> Under(x) /\ x # Lower(t)
          /\ \A x \in Frames \ {Summit(t), Lower(t)} : F(x)' = F(x)
          /\ \A x : x = Lower(t) => F(x)' = f /\ F(x) = r
          /\ F(Summit(t)) = Top(t)
      BY <1>1, <3>5, <3>6, PopPlaces DEF r
    <3>8. \A j \in Job : \A x \in RunsOf(j) : x \in Frames \ {Summit(t)}
      BY <1>1, <1>5, <3>7, PlacesIn
    <3>9. RunsKept
      <4>1. ASSUME NEW j \in Job, NEW x \in RunsOf(j) PROVE Turned(x)
        <5>1. CASE x = Lower(t)
          BY <3>4, <3>7, <5>1 DEF Turned
        <5>2. CASE x # Lower(t)
          BY <3>7, <3>8, <5>2 DEF Turned
        <5> QED BY <5>1, <5>2
      <4> QED BY <3>7, <3>8, <4>1 DEF RunsKept
    <3>10. \A h \in Group : \A x \in LoopsOf(h) \ {Summit(t)} : F(x)'.index = F(x).index
      <4>1. \A h \in Group : \A x \in LoopsOf(h) \ {Summit(t)} : x \in Frames /\ x # Lower(t)
        BY <1>1, <3>3, <3>7, PlacesIn, Kinds DEF Frame
      <4> QED BY <3>7, <4>1
    <3>11. Returns(t)
      BY <2>1, <2>2, <3>7, <3>10 DEF Returns
    <3>12. Shape'
      <4>1. \A u \in Thread : Shaped(u)'
        BY <1>1, <3>5, <3>6, PopShaped DEF Shape
      <4>2. Typed'
        BY <1>3, <1>4, <3>6 DEF Shape, Typed, WorkKept, WorkTyped
      <4>3. Top(t)' \notin Join /\ \A u \in Thread \ {t} : stack'[u] = stack[u]
        BY <3>5, <3>6 DEF Pops, Others, Top
      <4> QED BY <1>3, <1>4, <1>5, <4>1, <4>2, <4>3, ShapeKept
    <3> QED BY <1>1, <1>2, <1>3, <1>4, <3>9, <3>11, <3>12
  <2> QED BY <2>5, <2>6
<1> QED BY <1>7, <1>8

LEMMA AbandonKeeps ==
  ASSUME Shape, NEW t \in Thread, AbandonJob(t)
  PROVE  /\ Shape' /\ RunsKept /\ LoopsKept
         /\ ran' = ran /\ program' = program /\ result' = result
         /\ Owned(t) \in Job /\ work[Owned(t)].exit_status # 0 /\ work[Owned(t)].active_workers = 0
         /\ Writes(Owned(t), 0, work[Owned(t)].min, work[Owned(t)].active_workers)
         /\ \E k \in DOMAIN jobs : jobs[k] = Owned(t) /\ jobs' = Without(jobs, k)
<1>1. Stacked /\ WorkTyped /\ stack[t] # <<>> /\ Top(t) \in Loop
  BY TopIs, WorkIsTyped DEF AbandonJob, LoopAt
<1>2. /\ stack' = stack /\ ran' = ran /\ program' = program /\ result' = result /\ spawned' = spawned
      /\ Owned(t) \in Job /\ work[Owned(t)].exit_status # 0 /\ work[Owned(t)].active_workers = 0
      /\ \E k \in DOMAIN jobs : jobs[k] = Owned(t) /\ jobs' = Without(jobs, k)
  BY <1>1, OwnedIs DEF AbandonJob, life
<1>3. Writes(Owned(t), 0, work[Owned(t)].min, work[Owned(t)].active_workers)
  <2> DEFINE j == Owned(t)
             r == [work[j] EXCEPT !.extent = 0]
  <2>1. work \in [Job -> Record] /\ j \in Job
    BY <1>1, <1>2 DEF WorkTyped
  <2>2. work' = [work EXCEPT ![j].extent = 0]
    BY DEF AbandonJob
  <2> HIDE DEF j
  <2>3. /\ r \in Record /\ r.extent = 0 /\ r.min = work[j].min /\ r.active_workers = work[j].active_workers
        /\ r.exit_status = work[j].exit_status /\ r.next_semaphore = work[j].next_semaphore
    BY <2>1 DEF Record
  <2>4. work' = [work EXCEPT ![j] = r]
    BY <2>2
  <2> HIDE DEF r
  <2>5. WorkTyped'
    BY <1>1, <2>1, <2>3, <2>4 DEF WorkTyped
  <2>6. Writes(j, 0, work[j].min, work[j].active_workers)
    BY <2>1, <2>3, <2>4, <2>5 DEF Writes
  <2> QED BY <2>6 DEF j
<1>4. jobs' \in Seq(Job)
  BY <1>2, WithoutIs DEF Shape, Typed
<1>5. Shape'
  BY <1>2, <1>3, <1>4, StillShape, SameSuffixes DEF Writes, Shape
<1> QED BY <1>2, <1>3, <1>5, StillKeeps

\* A job is on the stack.
Waits(j) == Has(jobs, j)

\* What taking job j does.
Claims(t, j) ==
  LET i == work[j].min + 1
      e == IF serial(j) THEN work[j].extent ELSE work[j].extent - 1
  IN
  /\ serial(j) => work[j].active_workers = 0
  /\ Writes(j, e, IF serial(j) THEN work[j].min ELSE i, work[j].active_workers + 1)
  /\ Got(j)' = 0 /\ \A l \in Job \ {j} : Got(l)' = Got(l)
  /\ \E k \in DOMAIN jobs : jobs[k] = j /\ jobs' = IF serial(j) \/ e = 0 THEN Without(jobs, k) ELSE jobs
  /\ Above(t) \notin Frames
  /\ RunsOf(j)' = RunsOf(j) \union {Above(t)}
  /\ \A l \in Job \ {j} : RunsOf(l)' = RunsOf(l)
  /\ \A l \in Job : \A x \in RunsOf(l) : Turned(x) /\ F(x)' = F(x)
  /\ \A x : x = Above(t) => F(x)' = IF serial(j) THEN RunFrame(j, "batch", i, i) ELSE RunFrame(j, "body", i, i)

LEMMA ClaimClaims ==
  ASSUME Shape, NEW t \in Thread, Claim(t), \A j \in Job : Waits(j) => work[j].extent > 0
  PROVE  /\ Shape' /\ LoopsKept
         /\ ran' = ran /\ program' = program /\ result' = result
         /\ \E j \in Job : j = jobs[Top(t).pos] /\ Claims(t, j)
<1> DEFINE k == Top(t).pos
<1>1. Stacked /\ WorkTyped /\ stack[t] # <<>> /\ Top(t) \in Loop /\ jobs \in Seq(Job)
  BY TopIs, WorkIsTyped DEF Claim, LoopAt, Shape, Typed
<1>0. k \in DOMAIN jobs /\ jobs[k] \in Job
  <2>1. k \in Nat /\ k > 0 /\ k <= Len(jobs)
    BY <1>1 DEF Claim, Loop
  <2> QED BY SMTT(30), <1>1, <2>1
<1>2. PICK j \in Job : j = jobs[k] /\ k \in DOMAIN jobs
  BY SMTT(30), <1>0
<1> DEFINE i == work[j].min + 1
           e == IF serial(j) THEN work[j].extent ELSE work[j].extent - 1
           m == IF serial(j) THEN work[j].min ELSE i
           run == IF serial(j) THEN RunFrame(j, "batch", i, i) ELSE RunFrame(j, "body", i, i)
           w == [work EXCEPT ![j].active_workers = @ + 1, ![j].next_semaphore = 0,
                           ![j].min = IF serial(j) THEN @ ELSE @ + 1,
                           ![j].extent = IF serial(j) THEN @ ELSE @ - 1]
           r == [work[j] EXCEPT !.active_workers = @ + 1, !.next_semaphore = 0,
                           !.min = IF serial(j) THEN @ ELSE @ + 1,
                           !.extent = IF serial(j) THEN @ ELSE @ - 1]
<1>3. Eligible(t, j) /\ Reserve(w, j, MinThreads[j]) /\ work[j].extent > 0
  BY <1>2 DEF Claim, Waits, Has
<1>4. work \in [Job -> Record] /\ work[j] \in Record /\ MinThreads[j] \in Int
  BY <1>1, <1>2, ProgramAssumption DEF WorkTyped
<1>5. /\ r \in Record /\ r.extent = e /\ r.min = m /\ r.active_workers = work[j].active_workers + 1
      /\ r.exit_status = work[j].exit_status /\ r.next_semaphore = 0
  <2>1. e \in Nat /\ m \in Nat /\ work[j].active_workers + 1 \in Nat
    BY <1>3, <1>4 DEF Record
  <2>2. r = [work[j] EXCEPT !.active_workers = work[j].active_workers + 1, !.next_semaphore = 0, !.min = m, !.extent = e]
    OBVIOUS
  <2> HIDE DEF e, m
  <2> QED BY <1>4, <2>1, <2>2 DEF Record
<1>6. w = [work EXCEPT ![j] = r]
  <2>1. DOMAIN w = Job /\ \A l \in Job : l # j => w[l] = work[l]
    BY <1>4
  <2>2. w[j] = r
    BY <1>2, <1>4
  <2> HIDE DEF r
  <2>3. w = [l \in Job |-> IF l = j THEN r ELSE work[l]]
    BY <2>1, <2>2
  <2> QED BY <1>4, <2>3
<1> HIDE DEF r, w
<1>7. w \in [Job -> Record] /\ w[j] = r /\ \A l \in Job \ {j} : w[l] = work[l]
  BY <1>2, <1>4, <1>5, <1>6
<1>8. /\ Writes(j, e, m, work[j].active_workers + 1)
      /\ Got(j)' = 0 /\ \A l \in Job \ {j} : Got(l)' = Got(l)
  <2>1. /\ work' \in [Job -> Record]
        /\ \A l \in Job : /\ work'[l].extent = w[l].extent
                           /\ work'[l].min = w[l].min
                           /\ work'[l].active_workers = w[l].active_workers
                           /\ work'[l].exit_status = w[l].exit_status
                           /\ work'[l].next_semaphore = w[l].next_semaphore
    BY <1>2, <1>3, <1>4, <1>7, ReserveIs
  <2>2. Acquires[j] \in Seq([sem : Semaphore, count : Nat])
    BY <1>2, ProgramAssumption
  <2>3. 0 <= Len(Acquires[j])
    BY <2>2
  <2>4. WorkTyped'
    <3>1. \A l \in Job : l # j => work'[l].next_semaphore <= Len(Acquires[l])
      BY <1>1, <1>7, <2>1 DEF WorkTyped
    <3>2. work'[j].next_semaphore <= Len(Acquires[j])
      BY <1>2, <1>5, <1>7, <2>1, <2>3
    <3> QED BY <2>1, <3>1, <3>2 DEF WorkTyped
  <2>5. Got(j)' = 0 /\ \A l \in Job \ {j} : Got(l)' = Got(l)
    BY <1>2, <1>5, <1>7, <2>1 DEF Got
  <2> HIDE DEF e, m
  <2> QED BY <1>2, <1>5, <1>7, <2>1, <2>4, <2>5 DEF Writes
<1>9. jobs' = IF serial(j) \/ e = 0 THEN Without(jobs, k) ELSE jobs
  <2>1. w[j].extent = e
    BY SMTT(30), <1>5, <1>7
  <2>2. jobs' = IF LeavesStack(j, w[j].extent) THEN Without(jobs, k) ELSE jobs
    BY <1>2 DEF Claim, w
  <2> QED BY <2>1, <2>2 DEF LeavesStack
<1>10. jobs' \in Seq(Job) /\ jobs[k] = j
  BY <1>1, <1>2, <1>9, WithoutIs
<1>11. run \in Run /\ run.job = j /\ i \in Nat
  <2>1. i \in Nat
    BY <1>4 DEF Record
  <2>2. "batch" \in RunAt /\ "body" \in RunAt
    BY DEF RunAt
  <2>3. \A l \in RunAt : \A n \in Nat : RunFrame(j, l, n, n) \in Run /\ RunFrame(j, l, n, n).job = j
    <3> HIDE DEF i, run, e, m, k
    <3>1. \A h \in Job : \A l \in RunAt : \A n \in Nat : RunFrame(h, l, n, n) \in Run /\ RunFrame(h, l, n, n).job = h
      BY DEF RunFrame, Run
    <3>2. j \in Job
      BY <1>2
    <3> QED BY <3>1, <3>2
  <2> QED BY <2>1, <2>2, <2>3
<1>12. stack' = [stack EXCEPT ![t] = Append(@, run)]
  BY SMTT(30), <1>2 DEF Claim
<1>13. ran' = ran /\ program' = program /\ result' = result /\ spawned' = spawned
  BY DEF Claim, life
<1> HIDE DEF run
<1>14. run \in Frame /\ run \notin Loop /\ run \notin Join
  BY <1>11, Kinds DEF Frame
<1>15. Stacked' /\ Others(t) /\ Pushes(t, run)
  BY <1>1, <1>12, <1>14, PushMoves
<1>16. Spawns(t)
  BY <1>15 DEF Others, Spawns
<1>17. /\ \A l \in Job : RunsOf(l)' = IF run \in Run /\ run.job = l THEN RunsOf(l) \union {Above(t)}
                                        ELSE RunsOf(l)
       /\ \A g \in Group : LoopsOf(g)' = IF run \in Loop /\ run.group = g THEN LoopsOf(g) \union {Above(t)}
                                           ELSE LoopsOf(g)
       /\ Above(t) \notin Frames
       /\ \A x \in Frames : F(x)' = F(x)
       /\ \A x \in Frames : Under(x)' <=> Under(x) \/ x = Summit(t)
       /\ \A x : x = Above(t) => F(x)' = run
  BY <1>1, <1>14, <1>15, <1>16, PushPlaces
<1>18. LoopsKept
  BY <1>1, <1>14, <1>17, PlacesIn DEF LoopsKept
<1>19. \A l \in Job : \A x \in RunsOf(l) : Turned(x) /\ F(x)' = F(x)
  BY <1>1, <1>17, PlacesIn DEF Turned
<1>20. serial(j) => work[j].active_workers = 0
  BY <1>3 DEF Eligible, can_add_worker
<1>21. Claims(t, j)
  <2>1. RunsOf(j)' = RunsOf(j) \union {Above(t)} /\ \A l \in Job \ {j} : RunsOf(l)' = RunsOf(l)
    BY <1>2, <1>11, <1>17
  <2>2. \E n \in DOMAIN jobs : jobs[n] = j /\ jobs' = IF serial(j) \/ e = 0 THEN Without(jobs, n) ELSE jobs
    BY <1>2, <1>9, <1>10
  <2>3. \A x : x = Above(t) =>
          F(x)' = IF serial(j) THEN RunFrame(j, "batch", i, i) ELSE RunFrame(j, "body", i, i)
    BY <1>17 DEF run
  <2>4. /\ Writes(j, e, IF serial(j) THEN work[j].min ELSE i, work[j].active_workers + 1)
        /\ Got(j)' = 0 /\ \A l \in Job \ {j} : Got(l)' = Got(l)
    BY <1>8
  <2>5. Above(t) \notin Frames
    BY <1>17
  <2> QED BY <1>19, <1>20, <2>1, <2>2, <2>3, <2>4, <2>5 DEF Claims
<1>22. Shape'
  <2>1. Typed'
    BY <1>8, <1>10, <1>13, <1>15 DEF Shape, Typed, Writes, WorkTyped
  <2>2. \A u \in Thread : Shaped(u)'
    BY <1>1, <1>11, <1>14, <1>15, <1>16, PushShaped DEF Shape, Others
  <2>3. Top(t)' = run /\ Active(t) /\ Suffixes'
    <3>1. Top(t) \notin Join
      BY <1>1, Kinds DEF Frame
    <3> QED BY <1>1, <1>13, <1>15, <3>1, SameSuffixes DEF Pushes, Top, Active, Shape
  <2> QED BY <1>13, <1>14, <1>15, <2>1, <2>2, <2>3, ShapeKept DEF Others
<1> QED BY SMTT(30), <1>2, <1>13, <1>18, <1>21, <1>22

\* The run on top of t's stack gets another state.
Edited(t, f) ==
  /\ stack[t] # <<>> /\ Top(t) \in Run /\ f \in Run /\ f.job = Top(t).job
  /\ \A l \in Job : RunsOf(l)' = RunsOf(l)
  /\ \A x \in Frames : (Under(x)' <=> Under(x)) /\ (x # Summit(t) => F(x)' = F(x))
  /\ \A x : x = Summit(t) => F(x)' = f /\ F(x) = Top(t) /\ x \in RunsOf(f.job)

LEMMA RunEdits ==
  ASSUME Shape, NEW t \in Thread, stack[t] # <<>>, Top(t) \in Run, NEW f \in Run, f.job = Top(t).job,
         SetTop(t, f), WorkTyped', jobs' = jobs, spawned' = spawned, program' = program,
         ran' \in [Job -> UNION {[1..Extent[j] -> {0, 1}] : j \in Job}],
         \A j \in Job : ran'[j] \in [1..Extent[j] -> {0, 1}]
  PROVE  Shape' /\ LoopsKept /\ Edited(t, f)
<1>1. Stacked /\ f \in Frame /\ SameFrame(Top(t), f) /\ Top(t) \in Frame
  BY DEF Shape, Typed, Frame, SameFrame
<1>2. f \notin Loop /\ f \notin Join /\ Top(t) \notin Loop /\ Top(t) \notin Join
  BY <1>1, Kinds
<1>3. Stacked' /\ Edits(t, f)
  BY <1>1, EditMoves
<1>4. /\ \A j : RunsOf(j)' = RunsOf(j)
      /\ \A g : LoopsOf(g)' = LoopsOf(g)
      /\ \A x \in Frames : Under(x)' <=> Under(x)
      /\ \A x \in Frames : x # Summit(t) => F(x)' = F(x)
      /\ \A x : x = Summit(t) => F(x)' = f /\ F(x) = Top(t) /\ x \in Frames
  BY <1>1, <1>3, EditPlaces
<1>5. LoopsKept
  <2>1. \A g \in Group : \A x \in LoopsOf(g) : x \in Frames /\ x # Summit(t)
    BY <1>1, <1>2, <1>4, PlacesIn
  <2> QED BY <1>4, <2>1 DEF LoopsKept
<1>6. Edited(t, f)
  <2>1. \A x : x = Summit(t) => x \in RunsOf(f.job)
    BY <1>1, <1>4, PlacesIn
  <2> QED BY <1>4, <2>1 DEF Edited
<1>7. Shape'
  <2>1. \A u \in Thread : Shaped(u)'
    BY <1>1, <1>2, <1>3, EditShaped DEF Shape
  <2>2. Typed'
    BY <1>3 DEF Shape, Typed, WorkTyped
  <2>3. Top(t)' = f /\ Active(t)
    BY <1>2, <1>3 DEF Edits, Top, Active
  <2>4. \A u \in Thread \ {t} : stack'[u] = stack[u]
    BY <1>3 DEF Edits, Others
  <2>5. Suffixes'
    BY SameSuffixes DEF Shape
  <2> QED BY <1>2, <2>1, <2>2, <2>3, <2>4, <2>5, ShapeKept
<1> QED BY <1>5, <1>6, <1>7

LEMMA ClaimMoreEdits ==
  ASSUME Shape, NEW t \in Thread, ClaimMore(t)
  PROVE  /\ Shape' /\ LoopsKept /\ WorkKept /\ Kept
         /\ Top(t).at = "batch" /\ Top(t).last < work[Top(t).job].min + work[Top(t).job].extent
         /\ \E f \in Run : /\ Edited(t, f) /\ f.at = Top(t).at /\ f.iter = Top(t).iter
                           /\ f.last = Top(t).last + 1 /\ f.step = Top(t).step /\ f.failed = Top(t).failed
<1>1. Stacked /\ WorkTyped /\ stack[t] # <<>> /\ Top(t) \in Run /\ Top(t).at = "batch"
  BY TopIs, WorkIsTyped DEF ClaimMore, RunAt
<1> DEFINE f == [Top(t) EXCEPT !.last = @ + 1]
           j == Top(t).job
<1>2. /\ f \in Run /\ f.job = Top(t).job /\ f.at = Top(t).at /\ f.iter = Top(t).iter
      /\ f.last = Top(t).last + 1 /\ f.step = Top(t).step /\ f.failed = Top(t).failed
  BY <1>1 DEF Run
<1>3. /\ SetTop(t, f) /\ Kept /\ Top(t).last < work[j].min + work[j].extent
      /\ work' = [work EXCEPT ![j].next_semaphore = 0]
  BY DEF ClaimMore, Kept, life, team
<1>4. WorkKept
  <2>1. j \in Job
    BY <1>1, RunIs
  <2>2. 0 <= Len(Acquires[j])
    BY <2>1, ProgramAssumption
  <2> HIDE DEF j
  <2> QED BY <1>1, <1>3, <2>1, <2>2, WorkFlag
<1> HIDE DEF f
<1>5. Shape' /\ LoopsKept /\ Edited(t, f)
  BY <1>1, <1>2, <1>3, <1>4, RunEdits DEF Kept, WorkKept, Shape, Typed
<1> QED BY <1>1, <1>2, <1>3, <1>4, <1>5

LEMMA EndIterationEdits ==
  ASSUME Shape, NEW t \in Thread, EndIteration(t), Top(t).iter \in 1..Extent[Top(t).job],
         ran[Top(t).job][Top(t).iter] = 0
  PROVE  /\ Shape' /\ LoopsKept /\ work' = work /\ jobs' = jobs /\ program' = program /\ result' = result
         /\ Top(t).at = "body"
         /\ ran' = [ran EXCEPT ![Top(t).job] = [ran[Top(t).job] EXCEPT ![Top(t).iter] = 1]]
         /\ \E f \in Run : /\ Edited(t, f) /\ f.iter = Top(t).iter + 1
                           /\ f.last = Top(t).last /\ f.step = 1 /\ f.failed = Top(t).failed
                           /\ f.at = IF Top(t).iter < Top(t).last THEN "body"
                                     ELSE IF serial(Top(t).job) THEN "batch" ELSE "finish"
<1>1. Stacked /\ WorkTyped /\ stack[t] # <<>> /\ Top(t) \in Run /\ Top(t).at = "body"
  BY TopIs, WorkIsTyped DEF EndIteration, RunAt
<1> DEFINE l == IF Top(t).iter < Top(t).last THEN "body"
                ELSE IF serial(Top(t).job) THEN "batch" ELSE "finish"
           f == [Top(t) EXCEPT !.iter = @ + 1, !.step = 1, !.at = l]
           j == Top(t).job
           i == Top(t).iter
           r == [ran[j] EXCEPT ![i] = 1]
<1>2. /\ f \in Run /\ f.job = Top(t).job /\ f.at = l /\ f.iter = Top(t).iter + 1
      /\ f.last = Top(t).last /\ f.step = 1 /\ f.failed = Top(t).failed
  <2>1. l \in RunAt
    BY DEF RunAt
  <2>2. Top(t).iter + 1 \in Nat
    BY <1>1 DEF Run
  <2> HIDE DEF l
  <2> QED BY <1>1, <2>1, <2>2 DEF Run
<1>3. /\ SetTop(t, f) /\ work' = work /\ jobs' = jobs /\ program' = program /\ result' = result
      /\ spawned' = spawned /\ ran' = [ran EXCEPT ![j][i] = @ + 1]
  BY DEF EndIteration, life, team
<1>4. j \in Job
  BY <1>1, RunIs
<1>5. ran \in [Job -> UNION {[1..Extent[h] -> {0, 1}] : h \in Job}] /\ \A h \in Job : ran[h] \in [1..Extent[h] -> {0, 1}]
  BY DEF Shape, Typed
<1> HIDE DEF f, l
<1>6. ran' = [ran EXCEPT ![j] = r] /\ r \in [1..Extent[j] -> {0, 1}]
  <2>1. ran[j][i] = 0
    OBVIOUS
  <2> HIDE DEF j, i
  <2>2. ran' = [ran EXCEPT ![j] = [ran[j] EXCEPT ![i] = ran[j][i] + 1]]
    BY <1>3, <1>4, <1>5
  <2>3. ran[j][i] + 1 = 1
    BY <2>1
  <2> QED BY <1>4, <1>5, <2>2, <2>3
<1>7. /\ ran' \in [Job -> UNION {[1..Extent[h] -> {0, 1}] : h \in Job}]
      /\ \A h \in Job : ran'[h] \in [1..Extent[h] -> {0, 1}]
  <2> HIDE DEF r, j
  <2> QED BY <1>4, <1>5, <1>6
<1>8. WorkTyped'
  BY <1>1, <1>3 DEF WorkTyped
<1>9. Shape' /\ LoopsKept /\ Edited(t, f)
  BY <1>1, <1>2, <1>3, <1>7, <1>8, RunEdits
<1> QED BY <1>1, <1>2, <1>3, <1>6, <1>9 DEF l

LEMMA MarkedIs ==
  ASSUME WorkTyped, NEW j \in Job, NEW w, w = MarkFailed(j) \/ w = work
  PROVE  /\ w \in [Job -> Record]
         /\ \A k \in Job : /\ w[k].extent = work[k].extent
                           /\ w[k].min = work[k].min
                           /\ w[k].active_workers = work[k].active_workers
                           /\ w[k].next_semaphore = work[k].next_semaphore
                           /\ work[k].exit_status # 0 => w[k].exit_status # 0
         /\ w = MarkFailed(j) => w[j].exit_status # 0
<1>1. work \in [Job -> Record]
  BY DEF WorkTyped
<1>2. MarkFailed(j)[j].exit_status = 1
  <2>1. work[j] \in Record
    BY <1>1
  <2> QED BY <2>1 DEF MarkFailed, Record
<1>3. CASE w = work
  BY <1>1, <1>2, <1>3
<1>4. CASE w = MarkFailed(j)
  <2>1. /\ DOMAIN w = Job
        /\ \A k \in Job : w[k] = work[k] \/ w[k] = [work[k] EXCEPT !.exit_status = 1]
        /\ w[j] = [work[j] EXCEPT !.exit_status = 1]
        /\ w = [k \in Job |-> w[k]]
    BY <1>4 DEF MarkFailed
  <2>2. ASSUME NEW k \in Job, w[k] = [work[k] EXCEPT !.exit_status = 1]
        PROVE  /\ w[k] \in Record
               /\ w[k].extent = work[k].extent
               /\ w[k].min = work[k].min
               /\ w[k].active_workers = work[k].active_workers
               /\ w[k].next_semaphore = work[k].next_semaphore
               /\ w[k].exit_status # 0
    <3>1. work[k] \in Record
      BY <1>1
    <3> QED BY <2>2, <3>1 DEF Record
  <2>3. \A k \in Job : w[k] \in Record
    BY <1>1, <2>1, <2>2
  <2>4. w \in [Job -> Record]
    BY <2>1, <2>3
  <2>5. w[j].exit_status # 0
    BY <2>1, <2>2
  <2>6. \A k \in Job : /\ w[k].extent = work[k].extent
                       /\ w[k].min = work[k].min
                       /\ w[k].active_workers = work[k].active_workers
                       /\ w[k].next_semaphore = work[k].next_semaphore
                       /\ work[k].exit_status # 0 => w[k].exit_status # 0
    BY <2>1, <2>2
  <2> QED BY <2>4, <2>5, <2>6
<1> QED BY <1>3, <1>4

\* The run on top of t's stack is gone.
Removed(t, j) ==
  /\ Summit(t) \in RunsOf(j) /\ RunsOf(j)' = RunsOf(j) \ {Summit(t)}
  /\ \A l \in Job \ {j} : RunsOf(l)' = RunsOf(l)
  /\ \A l \in Job : \A x \in RunsOf(l) \ {Summit(t)} : F(x)' = F(x) /\ Turned(x)

\* What is left of the extent of job j when run f of it ends, and where it goes on.
Left(j, f) ==
  IF ~serial(j) THEN work[j].extent
  ELSE IF f.failed THEN 0 ELSE work[j].extent - (f.last - work[j].min)

LEMMA FinishWrites ==
  ASSUME WorkTyped, NEW t \in Thread, Top(t) \in Run, NEW j \in Job, j = Top(t).job,
         work[j].active_workers > 0, Left(j, Top(t)) \in Nat, Finish(t)
  PROVE  /\ Writes(j, Left(j, Top(t)), MinAfter(j, Top(t).last), work[j].active_workers - 1)
         /\ Top(t).failed => work'[j].exit_status # 0
         /\ \A l \in Job : Got(l)' = Got(l)
<1> DEFINE f == Top(t)
           total == f.last - work[j].min
           left == IF f.failed THEN 0 ELSE work[j].extent - total
           marked == IF f.failed THEN MarkFailed(j) ELSE work
           m == MinAfter(j, f.last)
           x == Left(j, f)
           r == [marked[j] EXCEPT !.active_workers = @ - 1, !.min = m, !.extent = x]
           w == [marked EXCEPT ![j].active_workers = @ - 1,
                             ![j].min = MinAfter(j, f.last),
                             ![j].extent = IF serial(j) THEN left ELSE @]
<1>1. Reserve(w, j, -MinThreads[j])
  BY DEF Finish
<1>2. /\ marked \in [Job -> Record]
      /\ \A k \in Job : /\ marked[k].extent = work[k].extent
                        /\ marked[k].min = work[k].min
                        /\ marked[k].active_workers = work[k].active_workers
                        /\ marked[k].next_semaphore = work[k].next_semaphore
                        /\ work[k].exit_status # 0 => marked[k].exit_status # 0
      /\ f.failed => marked[j].exit_status # 0
  <2>1. marked = MarkFailed(j) \/ marked = work
    OBVIOUS
  <2>2. f.failed => marked = MarkFailed(j)
    OBVIOUS
  <2> HIDE DEF marked, f
  <2> QED BY <2>1, <2>2, MarkedIs
<1>3. m \in Nat /\ x \in Nat
  <2>1. f.last \in Nat
    BY RunIs
  <2>2. work[j].min \in Nat
    BY DEF WorkTyped, Record
  <2> QED BY SMTT(30), <2>1, <2>2 DEF MinAfter
<1>4. w = [marked EXCEPT ![j] = r]
  <2>1. x = IF serial(j) THEN left ELSE marked[j].extent
    BY <1>2 DEF Left
  <2> HIDE DEF marked, x, left, m
  <2>2. w = [marked EXCEPT ![j].active_workers = @ - 1, ![j].min = m, ![j].extent = IF serial(j) THEN left ELSE @]
    BY DEF m
  <2>3. DOMAIN w = Job /\ (\A l \in Job : l # j => w[l] = marked[l]) /\ w = [l \in Job |-> w[l]]
    BY <1>2, <2>2
  <2>4. w[j] = r
    BY <1>2, <2>1, <2>2
  <2> HIDE DEF r, w
  <2>5. w = [l \in Job |-> IF l = j THEN r ELSE marked[l]]
    BY <2>3, <2>4
  <2> QED BY <1>2, <2>5
<1> HIDE DEF marked, w, m, x
<1>5. /\ r \in Record /\ r.active_workers = work[j].active_workers - 1 /\ r.min = m /\ r.extent = x
      /\ r.exit_status = marked[j].exit_status /\ r.next_semaphore = work[j].next_semaphore
  <2>1. marked[j] \in Record /\ marked[j].active_workers - 1 \in Nat
    BY <1>2 DEF WorkTyped, Record
  <2> HIDE DEF f
  <2> QED BY <1>2, <1>3, <2>1 DEF Record
<1> HIDE DEF r
<1>6. w \in [Job -> Record] /\ w[j] = r /\ \A l \in Job \ {j} : w[l] = marked[l]
  BY <1>2, <1>4, <1>5
<1>7. /\ work' \in [Job -> Record]
      /\ \A l \in Job : /\ work'[l].extent = w[l].extent
                           /\ work'[l].min = w[l].min
                           /\ work'[l].active_workers = w[l].active_workers
                           /\ work'[l].exit_status = w[l].exit_status
                           /\ work'[l].next_semaphore = w[l].next_semaphore
  <2>1. -MinThreads[j] \in Int
    BY ProgramAssumption
  <2> QED BY <1>1, <1>6, <2>1, ReserveIs
<1>8. WorkTyped'
  BY <1>2, <1>5, <1>6, <1>7 DEF WorkTyped
<1>9. Writes(j, x, m, work[j].active_workers - 1)
  BY <1>2, <1>5, <1>6, <1>7, <1>8 DEF Writes
<1>10. f.failed => work'[j].exit_status # 0
  BY <1>2, <1>5, <1>6, <1>7
<1>11. \A l \in Job : Got(l)' = Got(l)
  BY <1>2, <1>5, <1>6, <1>7 DEF Got
<1> QED BY SMTT(30), <1>9, <1>10, <1>11 DEF x, m

\* What the end of a run of job j does, apart from its records.
Finishes(t, j) ==
  /\ Removed(t, j) /\ F(Summit(t)) = Top(t) /\ Top(t).at = "finish"
  /\ Writes(j, Left(j, Top(t)), MinAfter(j, Top(t).last), work[j].active_workers - 1)
  /\ Top(t).failed => work'[j].exit_status # 0
  /\ \A l \in Job : Got(l)' = Got(l)
  /\ jobs' = IF serial(j) /\ Left(j, Top(t)) > 0 THEN <<j>> \o jobs ELSE jobs

LEMMA FinishFinishes ==
  ASSUME Shape, NEW t \in Thread, Finish(t), NEW j \in Job, j = Top(t).job,
         work[j].active_workers > 0, Left(j, Top(t)) \in Nat
  PROVE  /\ Shape' /\ LoopsKept
         /\ ran' = ran /\ program' = program /\ result' = result
         /\ Finishes(t, j)
<1>1. Stacked /\ WorkTyped /\ stack[t] # <<>> /\ Top(t) \in Run /\ Top(t).at = "finish"
  BY TopIs, WorkIsTyped DEF Finish, RunAt
<1> DEFINE n == Len(stack[t])
           b == stack[t][n - 1]
           f == [b EXCEPT !.at = "head"]
<1>2. n \in Nat /\ n > 0 /\ stack[t] \in Seq(Frame) /\ Top(t) = stack[t][n]
  BY <1>1, PlacesAre DEF Top
<1>3. FitsOn(t, n, n, stack[t][n], b)
  BY <1>2 DEF Shape, Shaped, Fits
<1>4. n > 1 /\ b \in Loop
  BY <1>1, <1>2, <1>3 DEF FitsOn
<1>5. FitsOn(t, n, n - 1, b, stack[t][(n - 1) - 1])
  BY <1>2, <1>4 DEF Shape, Shaped, Fits
<1>6. Below(stack[t])[Len(Below(stack[t]))] = b
  <2>1. /\ Below(stack[t]) \in Seq(Frame) /\ Len(Below(stack[t])) = n - 1
        /\ \A k \in 1..n - 1 : Below(stack[t])[k] = stack[t][k]
    BY <1>1, <1>2, Lowered
  <2>2. n - 1 \in 1..n - 1
    BY <1>2, <1>4
  <2> QED BY <2>1, <2>2
<1>7. stack' = [stack EXCEPT ![t] = WithTop(Below(@), f)]
  <2>1. stack' = [stack EXCEPT ![t] =
          WithTop(Below(stack[t]), [Below(stack[t])[Len(Below(stack[t]))] EXCEPT !.at = "head"])]
    BY <1>1 DEF Finish, Stacked
  <2>2. stack' = [stack EXCEPT ![t] = WithTop(Below(stack[t]), f)]
    BY <1>6, <2>1
  <2> QED BY <1>1, <2>2 DEF Stacked
<1>8. /\ f \in Loop /\ f.at = "head" /\ f.group = b.group /\ f.index = b.index
      /\ SameFrame(b, f) /\ f \in Frame
  <2>1. "head" \in LoopAt
    BY DEF LoopAt
  <2> HIDE DEF b
  <2>2. f \in Loop /\ f.at = "head" /\ f.group = b.group /\ f.index = b.index
    BY <1>4, <2>1 DEF Loop
  <2> QED BY <1>4, <2>2 DEF SameFrame, Frame
<1>9. f.group # NULL => f.at # "start" /\ f.index \in DOMAIN Prepared(f.group)
  BY <1>4, <1>5, <1>8 DEF FitsOn
<1> HIDE DEF f, b
<1>10. Stacked' /\ Pops(t, f)
  BY <1>1, <1>4, <1>7, <1>8, PopMoves
<1>11. SameFrame(stack[t][Len(stack[t]) - 1], f)
  BY <1>8 DEF b
<1>12. /\ \A l : RunsOf(l)' = RunsOf(l) \ {Summit(t)}
       /\ \A g : LoopsOf(g)' = LoopsOf(g) \ {Summit(t)}
       /\ \A x \in Frames \ {Summit(t)} : Under(x)' <=> Under(x) /\ x # Lower(t)
       /\ \A x \in Frames \ {Summit(t), Lower(t)} : F(x)' = F(x)
       /\ \A x : x = Lower(t) => F(x)' = f /\ F(x) = b
       /\ Lower(t) \in Frames /\ Summit(t) \in Frames /\ Lower(t) # Summit(t)
       /\ F(Summit(t)) = Top(t)
  BY <1>1, <1>10, <1>11, PopPlaces DEF b
<1>13. /\ \A e \in Frame : ~(e \in Loop /\ e \in Run) /\ ~(e \in Loop /\ e \in Join) /\ ~(e \in Run /\ e \in Join)
       /\ b \in Frame /\ Top(t) \in Frame
  BY <1>1, <1>4, Kinds DEF Frame
<1>14. LoopsKept
  <2>1. ASSUME NEW g \in Group, NEW x \in LoopsOf(g)
        PROVE  x \in Frames /\ x # Summit(t) /\ F(x)'.index = F(x).index
    <3>1. x \in Frames /\ F(x) \in Loop /\ x # Summit(t)
      BY <1>1, <1>12, <1>13, PlacesIn
    <3>2. CASE x = Lower(t)
      BY <1>8, <1>12, <3>1, <3>2
    <3>3. CASE x # Lower(t)
      BY <1>12, <3>1, <3>3
    <3> QED BY <3>1, <3>2, <3>3
  <2> QED BY <1>12, <2>1 DEF LoopsKept
<1>15. Removed(t, j)
  <2>1. Summit(t) \in RunsOf(j) /\ \A l \in Job \ {j} : Summit(t) \notin RunsOf(l)
    BY <1>1, <1>12, PlacesIn
  <2>2. ASSUME NEW l \in Job, NEW x \in RunsOf(l) \ {Summit(t)} PROVE F(x)' = F(x) /\ Turned(x)
    <3>1. x \in Frames /\ F(x) \in Run
      BY <1>1, PlacesIn
    <3>2. x # Lower(t)
      BY SMTT(30), <1>4, <1>12, <1>13, <3>1
    <3> QED BY <1>12, <3>1, <3>2 DEF Turned
  <2> QED BY <1>12, <2>1, <2>2 DEF Removed
<1>16. /\ ran' = ran /\ program' = program /\ result' = result /\ spawned' = spawned
       /\ jobs' = IF serial(j) /\ Left(j, Top(t)) > 0 THEN <<j>> \o jobs ELSE jobs
  BY DEF Finish, life, team, Left
<1>17. /\ Writes(j, Left(j, Top(t)), MinAfter(j, Top(t).last), work[j].active_workers - 1)
       /\ Top(t).failed => work'[j].exit_status # 0
       /\ \A l \in Job : Got(l)' = Got(l)
  BY <1>1, FinishWrites
<1>18. Finishes(t, j)
  BY <1>1, <1>12, <1>15, <1>16, <1>17 DEF Finishes
<1>19. Shape'
  <2>1. \A u \in Thread : Shaped(u)'
    BY <1>1, <1>8, <1>9, <1>10, <1>11, PopShaped DEF Shape
  <2>2. jobs' \in Seq(Job)
    <3>1. jobs \in Seq(Job) /\ <<j>> \in Seq(Job)
      BY DEF Shape, Typed
    <3>2. <<j>> \o jobs \in Seq(Job)
      BY <3>1, ConcatProperties
    <3> QED BY <1>16, <3>1, <3>2
  <2>3. Typed'
    BY <1>10, <1>16, <1>17, <2>2 DEF Shape, Typed, Writes, WorkTyped
  <2>4. Top(t)' \notin Join
    <3>1. Len(stack'[t]) = n - 1 /\ stack'[t][n - 1] = f
      BY <1>10 DEF Pops
    <3> QED BY <1>8, <1>13, <3>1 DEF Top
  <2>5. Active(t) /\ Suffixes' /\ \A u \in Thread \ {t} : stack'[u] = stack[u]
    BY <1>1, <1>10, <1>13, <1>16, SameSuffixes DEF Active, Shape, Pops, Others
  <2> QED BY <1>16, <2>1, <2>3, <2>4, <2>5, ShapeKept
<1> QED BY SMTT(30), <1>14, <1>16, <1>18, <1>19

\* What a call of group g does: its tasks are written and put on the stack of jobs,
\* and the caller waits for the first of them.
Enqueues(t, g) ==
  /\ Above(t) \notin Frames
  /\ \A l \in Job : RunsOf(l)' = RunsOf(l) /\ \A x \in RunsOf(l) : Turned(x) /\ F(x)' = F(x)
  /\ \A x \in Frames : x = Summit(t) => Under(x)'
  /\ LoopsOf(g)' = LoopsOf(g) \union {Above(t)} /\ \A h \in Group \ {g} : LoopsOf(h)' = LoopsOf(h)
  /\ \A h \in Group : \A x \in LoopsOf(h) : F(x)'.index = F(x).index
  /\ \A x : x = Above(t) => F(x)'.index = 1
  /\ jobs' = Prepared(g) \o jobs
  /\ WorkTyped'
  /\ \A j \in Job : IF Has(Prepared(g), j)
                    THEN work'[j].extent = Extent[j] /\ work'[j].min = 0 /\ work'[j].active_workers = 0
                    ELSE work'[j] = work[j]

LEMMA EnqueueIs ==
  ASSUME Shape, NEW t \in Thread, NEW g \in Group, Prepared(g) # <<>>, NEW p,
         Enqueue(Prepared(g), p), Started(t, g),
         IF stack[t] = <<>> THEN t \in Caller ELSE Top(t) \in Run /\ Top(t).at = "body",
         Active(t), Suffixes', \A u \in Caller \ {t} : program'[u] = program[u]
  PROVE  Shape' /\ ran' = ran /\ result' = result /\ Enqueues(t, g)
<1> DEFINE js == Prepared(g)
           f == LoopFrame(g, 1)
           new == [LoopFrame(NULL, 0) EXCEPT !.at = "start"]
<1>1. Stacked /\ WorkTyped /\ NULL \notin Group /\ work \in [Job -> Record]
  BY WorkIsTyped, ThreadsAssumption DEF WorkTyped
<1>2. js \in Seq(Job) /\ Len(js) \in Nat /\ DOMAIN js = 1..Len(js) /\ 1 \in DOMAIN js
  <2>1. js \in Seq(Job) /\ Len(js) \in Nat /\ DOMAIN js = 1..Len(js)
    BY PreparedAre
  <2> HIDE DEF js
  <2>2. js # <<>>
    BY DEF js
  <2> QED BY <2>1, <2>2
<1>3. /\ f \in Loop /\ f.group = g /\ f.index = 1 /\ f.at = "head" /\ f \in Frame
      /\ new \in Loop /\ new.group = NULL
  <2>1. "head" \in LoopAt /\ "start" \in LoopAt
    BY DEF LoopAt
  <2>2. f \in Loop /\ f.group = g /\ f.index = 1 /\ f.at = "head"
    BY <2>1 DEF LoopFrame, Loop
  <2>3. new \in Loop /\ new.group = NULL
    BY <2>1 DEF LoopFrame, Loop
  <2> QED BY <2>2, <2>3 DEF Frame
<1>4. /\ ran' = ran /\ result' = result /\ jobs' = js \o jobs
      /\ spawned \subseteq spawned' /\ spawned' \subseteq Worker
  BY DEF Enqueue, Shape, Typed
<1>5. /\ stack' \in [Thread -> Seq(Frame)]
      /\ stack'[t] = Append(stack[t], f)
      /\ \A u \in Thread \ {t} : stack'[u] = stack[u] \/ (stack[u] = <<>> /\ stack'[u] = <<new>> /\ u \in spawned')
  <2>0. stack' = [u \in Thread |->
    IF u = t THEN Append(stack[t], f)
    ELSE IF u \in spawned' \ spawned THEN <<new>>
    ELSE stack[u]]
    BY DEF Started
  <2>1. \A u \in Thread : stack[u] \in Seq(Frame)
    BY <1>1 DEF Stacked
  <2> HIDE DEF f, new
  <2>2. Append(stack[t], f) \in Seq(Frame)
    BY <1>3, <2>1
  <2>3. <<new>> \in Seq(Frame)
    BY <1>3 DEF Frame
  <2>4. \A u \in spawned' \ spawned : stack[u] = <<>>
    BY <1>4 DEF Shape, Spawned
  <2> QED BY <2>0, <2>1, <2>2, <2>3, <2>4
<1> HIDE DEF f, new
<1>6. Stacked' /\ Pushes(t, f)
  <2>1. stack[t] \in Seq(Frame)
    BY <1>1 DEF Stacked
  <2> QED BY <1>3, <1>5, <2>1, Appended DEF Stacked, Pushes
<1>7. Spawns(t)
  <2>1. Len(<<new>>) = 1 /\ <<new>>[1] = new
    OBVIOUS
  <2> QED BY <1>3, <1>5, <2>1 DEF Spawns
<1>8. f \notin Run /\ f \notin Join
  BY <1>3, Kinds
<1>9. /\ \A j \in Job : RunsOf(j)' = RunsOf(j)
      /\ \A h \in Group : LoopsOf(h)' = IF h = g THEN LoopsOf(h) \union {Above(t)} ELSE LoopsOf(h)
      /\ Above(t) \notin Frames
      /\ \A x \in Frames : F(x)' = F(x)
      /\ \A x \in Frames : Under(x)' <=> Under(x) \/ x = Summit(t)
      /\ \A x : x = Above(t) => F(x)' = f /\ ~Under(x)'
  BY <1>1, <1>3, <1>6, <1>7, <1>8, PushPlaces
<1>10. work' = [j \in Job |->
       IF \E k \in DOMAIN js : js[k] = j
       THEN [extent |-> Extent[j], min |-> 0, active_workers |-> 0,
             exit_status |-> 0, next_semaphore |-> 0, threads_reserved |-> 0,
             owner_is_sleeping |-> FALSE]
       ELSE work[j]]
  BY DEF Enqueue
<1>11. WorkTyped'
  <2> SUFFICES ASSUME NEW j \in Job
               PROVE  work'[j] \in Record /\ work'[j].next_semaphore <= Len(Acquires[j])
    BY <1>10 DEF WorkTyped
  <2>1. Extent[j] \in Nat /\ 0 <= Len(Acquires[j])
    BY ProgramAssumption
  <2>2. work[j] \in Record /\ work[j].next_semaphore <= Len(Acquires[j])
    BY <1>1 DEF WorkTyped
  <2>3. CASE \E k \in DOMAIN js : js[k] = j
    BY <1>10, <2>1, <2>3 DEF Record
  <2>4. CASE ~\E k \in DOMAIN js : js[k] = j
    BY <1>10, <2>2, <2>4
  <2> QED BY <2>3, <2>4
<1>12. Enqueues(t, g)
  <2>1. \A j \in Job : IF Has(js, j)
                    THEN work'[j].extent = Extent[j] /\ work'[j].min = 0 /\ work'[j].active_workers = 0
                    ELSE work'[j] = work[j]
    BY <1>10 DEF Has
  <2>2. \A l \in Job : \A x \in RunsOf(l) : Turned(x) /\ F(x)' = F(x)
    BY <1>1, <1>9, PlacesIn DEF Turned
  <2>3. \A h \in Group : \A x \in LoopsOf(h) : F(x)'.index = F(x).index
    BY <1>1, <1>9, PlacesIn
  <2>4. \A x : x = Above(t) => F(x)'.index = 1
    BY <1>3, <1>9
  <2>5. LoopsOf(g)' = LoopsOf(g) \union {Above(t)} /\ \A h \in Group \ {g} : LoopsOf(h)' = LoopsOf(h)
    BY <1>9
  <2>6. \A x \in Frames : x = Summit(t) => Under(x)'
    BY <1>9
  <2> QED BY <1>4, <1>9, <1>11, <2>1, <2>2, <2>3, <2>4, <2>5, <2>6 DEF Enqueues
<1>13. Shape'
  <2>1. \A u \in Thread \ {t} : stack'[u] = stack[u] \/ u \in spawned'
    BY <1>5
  <2>2. \A u \in Thread : Shaped(u)'
    <3>1. \A u \in Thread \ {t} : stack'[u] # stack[u] => u \in Worker
      BY <1>4, <2>1
    <3>2. f.at # "start" /\ f.index \in DOMAIN Prepared(f.group) /\ f.group # NULL
      BY <1>1, <1>2, <1>3
    <3> QED BY <1>1, <1>3, <1>6, <1>7, <1>8, <3>1, <3>2, PushShaped DEF Shape
  <2>3. jobs' \in Seq(Job)
    <3>1. jobs \in Seq(Job)
      BY DEF Shape, Typed
    <3> QED BY <1>2, <1>4, <3>1, ConcatProperties
  <2>4. Typed'
    BY <1>4, <1>6, <1>11, <2>3 DEF Shape, Typed, WorkTyped
  <2>5. Top(t)' \notin Join
    <3>1. Len(stack'[t]) = Len(stack[t]) + 1 /\ stack'[t][Len(stack[t]) + 1] = f
      BY <1>6 DEF Pushes
    <3> QED BY <1>8, <3>1 DEF Top
  <2> QED BY <1>4, <2>1, <2>2, <2>4, <2>5, ShapeKept
<1> QED BY <1>4, <1>12, <1>13

(***************************************************************************)
(* The invariant.                                                          *)
(***************************************************************************)
\* The workers of a job are those that run it.
Counted(j) == IsFiniteSet(RunsOf(j)) /\ work[j].active_workers = Cardinality(RunsOf(j))

\* A job is on the stack of jobs while it has iterations that nobody has taken,
\* except that a serial job leaves it with the worker that runs it.
Placed(j) ==
  /\ Waits(j) => work[j].extent > 0
  /\ work[j].extent > 0 /\ (serial(j) => work[j].active_workers = 0) => Waits(j)
  /\ serial(j) /\ Waits(j) => work[j].active_workers = 0
  /\ serial(j) => work[j].active_workers <= 1
  /\ work[j].min + work[j].extent <= Extent[j]

\* Where a run is, and the iterations it has claimed and completed.
RunsRight(j) == \A x \in RunsOf(j) :
  /\ F(x).at \in {"body", "notify"} => F(x).iter <= F(x).last
  /\ F(x).at = "batch" => serial(j)
  /\ F(x).failed => F(x).at = "finish"
  /\ F(x).at = "finish" /\ ~F(x).failed => F(x).iter = F(x).last + 1

\* Each run of a parallel job has one iteration of its own, among those taken; and
\* the others that were taken have completed, or the job has failed.
ParallelRight(j) ==
  /\ \A x \in RunsOf(j) : F(x).last \in 1..work[j].min /\ F(x).iter \in {F(x).last, F(x).last + 1}
  /\ \A x, y \in RunsOf(j) : F(x).last = F(y).last => x = y
  /\ \A i \in 1..Extent[j] : ran[j][i] = 1 =>
       i <= work[j].min /\ \A x \in RunsOf(j) : F(x).last = i => F(x).iter = i + 1
  /\ \A i \in 1..Extent[j] : i <= work[j].min /\ ran[j][i] = 0 =>
       work[j].exit_status # 0 \/ \E x \in RunsOf(j) : F(x).last = i /\ F(x).iter = i

\* The run of a serial job goes on from min, in order.
SerialRight(j) ==
  /\ \A x \in RunsOf(j) : /\ work[j].min < F(x).last /\ F(x).last <= work[j].min + work[j].extent
                          /\ work[j].min < F(x).iter /\ F(x).iter <= F(x).last + 1
                          /\ \A y \in RunsOf(j) : x = y
  /\ \A i \in 1..Extent[j] :
       /\ ran[j][i] = 1 => i <= work[j].min \/ \E x \in RunsOf(j) : i < F(x).iter
       /\ \A x \in RunsOf(j) : work[j].min < i /\ i < F(x).iter => ran[j][i] = 1
       /\ work[j].extent > 0 /\ i <= work[j].min => ran[j][i] = 1
       /\ i <= work[j].min /\ ran[j][i] = 0 => work[j].exit_status # 0
       /\ i > 1 /\ ran[j][i] = 1 => ran[j][i - 1] = 1

\* A task that no call writes a record for is never run.
Stray(j) == (\A g \in Group : ~Has(Prepared(g), j)) => ~running(j)

JobRight(j) ==
  /\ Counted(j) /\ Placed(j) /\ RunsRight(j) /\ Stray(j)
  /\ IF serial(j) THEN SerialRight(j) ELSE ParallelRight(j)

\* The caller of a group waits for a task at a time: those before it are done.
Joins(g) ==
  /\ \A x \in LoopsOf(g) : \A k \in DOMAIN Prepared(g) : k < F(x).index => ~running(Prepared(g)[k])
  /\ LoopsOf(g) # {} => \A k \in DOMAIN Prepared(g) :
       work[Prepared(g)[k]].exit_status = 0 =>
         work[Prepared(g)[k]].min + work[Prepared(g)[k]].extent = Extent[Prepared(g)[k]]
  /\ \A k \in DOMAIN Prepared(g) : running(Prepared(g)[k]) => LoopsOf(g) # {}
  /\ result[g] = "ok" =>
       \A k \in DOMAIN Prepared(g) : \A i \in 1..Extent[Prepared(g)[k]] : ran[Prepared(g)[k]][i] = 1

\* The run at x has claimed iteration i and is not yet past step s of it.
Behind(x, i, s) ==
  /\ F(x).iter <= i /\ i <= F(x).last
  /\ ~(F(x).iter = i /\ (F(x).step > s \/ (F(x).step = s /\ Under(x))))

\* Step s of iteration i of task j was taken, or will never be.
Passed(j, i, s) ==
  /\ i <= work[j].min \/ \E x \in RunsOf(j) : i <= F(x).last
  /\ \A x \in RunsOf(j) : ~Behind(x, i, s)

\* The one place that calls group g has been reached.
Called(g) ==
  \/ \E c \in Caller : \E p \in 1..Gone(c) : Starts(c, p, g)
  \/ \E j \in Job : \E i \in DOMAIN Body[j] : \E s \in DOMAIN Body[j][i] :
       StartsNested(j, i, s, g) /\ Passed(j, i, s)

\* Nothing of group g has been written.
Fresh(g) ==
  /\ LoopsOf(g) = {}
  /\ \A k \in DOMAIN Prepared(g) :
       /\ work[Prepared(g)[k]].extent = 0 /\ work[Prepared(g)[k]].min = 0
       /\ work[Prepared(g)[k]].active_workers = 0

GroupRight(g) == Joins(g) /\ (Called(g) \/ Fresh(g))

Results == result \in [Group -> {"none", "ok", "error"}]

Right == /\ Shape /\ Distinct(jobs) /\ Results
         /\ \A j \in Job : JobRight(j)
         /\ \A g \in Group : GroupRight(g)

JobTyped(j) ==
  /\ Extent[j] \in Nat
  /\ work[j].extent \in Nat /\ work[j].min \in Nat /\ work[j].active_workers \in Nat
  /\ work[j].exit_status \in {0, 1}
  /\ \A x \in RunsOf(j) : /\ x \in Frames /\ F(x) \in Run /\ F(x).job = j /\ F(x).at \in RunAt
                          /\ F(x).iter \in Nat /\ F(x).last \in Nat /\ F(x).step \in Nat
                          /\ F(x).failed \in BOOLEAN
  /\ \A i \in 1..Extent[j] : ran[j][i] \in {0, 1}

LEMMA JobsAreTyped == Shape => \A j \in Job : JobTyped(j)
<1> SUFFICES ASSUME Shape, NEW j \in Job PROVE JobTyped(j)
  OBVIOUS
<1>1. Stacked /\ work[j] \in Record /\ ran[j] \in [1..Extent[j] -> {0, 1}] /\ Extent[j] \in Nat
  BY ProgramAssumption DEF Shape, Typed
<1>2. \A x \in RunsOf(j) : x \in Frames /\ F(x) \in Run /\ F(x).job = j
  BY SMTT(30), <1>1, PlacesIn
<1>3. \A f \in Run : /\ f.at \in RunAt /\ f.iter \in Nat /\ f.last \in Nat /\ f.step \in Nat
                     /\ f.failed \in BOOLEAN
  BY RunIs
<1>4. /\ work[j].extent \in Nat /\ work[j].min \in Nat /\ work[j].active_workers \in Nat
      /\ work[j].exit_status \in {0, 1}
  BY <1>1 DEF Record
<1>5. \A i \in 1..Extent[j] : ran[j][i] \in {0, 1}
  BY <1>1
<1> QED BY <1>1, <1>2, <1>3, <1>4, <1>5 DEF JobTyped

LEMMA JobsAreTypedNext == Shape' => \A j \in Job : JobTyped(j)'
<1>1. Shape' => (\A j \in Job : JobTyped(j))'
  BY JobsAreTyped, PTL
<1> QED BY <1>1

(***************************************************************************)
(* What a step does to a job, and what follows.                            *)
(***************************************************************************)
\* The job is left alone.
JobStays(j) ==
  /\ RunsOf(j)' = RunsOf(j) /\ \A x \in RunsOf(j) : Turned(x)
  /\ work'[j].extent = work[j].extent /\ work'[j].min = work[j].min
  /\ work'[j].active_workers = work[j].active_workers
  /\ work[j].exit_status # 0 => work'[j].exit_status # 0
  /\ ran'[j] = ran[j]
  /\ Waits(j)' <=> Waits(j)

\* What the call that waits for the job relies on.
JobJoins(j) ==
  /\ running(j)' => running(j)
  /\ work'[j].exit_status = 0 =>
       work[j].exit_status = 0 /\ work'[j].min + work'[j].extent = work[j].min + work[j].extent
  /\ \A i \in 1..Extent[j] : ran[j][i] = 1 => ran'[j][i] = 1
  /\ work[j].extent = 0 /\ work[j].min = 0 /\ work[j].active_workers = 0 =>
       work'[j].extent = 0 /\ work'[j].min = 0 /\ work'[j].active_workers = 0

\* What was passed stays passed.
JobPasses(j) ==
  \A i \in DOMAIN Body[j] : \A s \in DOMAIN Body[j][i] : Passed(j, i, s) => Passed(j, i, s)'

\* The places in a program are numbers.
LEMMA StepsAreNumbers ==
  ASSUME NEW j \in Job, NEW i \in DOMAIN Body[j], NEW s \in DOMAIN Body[j][i]
  PROVE  i \in 1..Extent[j] /\ Extent[j] \in Nat /\ s \in Nat
<1>1. Extent[j] \in Nat /\ Body[j] \in [1..Extent[j] -> Seq(Operation)]
  BY ProgramAssumption
<1>2. i \in 1..Extent[j] /\ Body[j][i] \in Seq(Operation)
  BY <1>1
<1>3. s \in Nat
  BY <1>2
<1> QED BY <1>1, <1>2, <1>3

LEMMA TurnedIs ==
  ASSUME NEW x, Turned(x), F(x) \in Run, F(x).step \in Nat
  PROVE  /\ F(x)' \in Run /\ F(x)'.iter = F(x).iter /\ F(x)'.last = F(x).last /\ F(x)'.step >= F(x).step
         /\ Under(x) => Under(x)' \/ F(x)'.step > F(x).step
  BY DEF Turned, Turns

LEMMA StayPasses ==
  ASSUME NEW j \in Job, JobTyped(j), JobTyped(j)', RunsOf(j)' = RunsOf(j), \A x \in RunsOf(j) : Turned(x),
         work'[j].min = work[j].min
  PROVE  JobPasses(j)
<1> SUFFICES ASSUME NEW i \in DOMAIN Body[j], NEW s \in DOMAIN Body[j][i], Passed(j, i, s)
             PROVE  Passed(j, i, s)'
  BY DEF JobPasses
<1>1. i \in Nat /\ s \in Nat
  BY StepsAreNumbers
<1>2. \A x \in RunsOf(j) : /\ F(x)'.iter = F(x).iter /\ F(x)'.last = F(x).last /\ F(x)'.step >= F(x).step
                           /\ Under(x) => Under(x)' \/ F(x)'.step > F(x).step
                           /\ F(x).step \in Nat /\ F(x)'.step \in Nat
  BY TurnedIs DEF JobTyped
<1>3. \A x \in RunsOf(j) : ~Behind(x, i, s)'
  BY <1>1, <1>2 DEF Passed, Behind
<1> QED BY <1>2, <1>3 DEF Passed

LEMMA StayJoins ==
  ASSUME NEW j \in Job, JobTyped(j), JobTyped(j)', JobStays(j)
  PROVE  JobJoins(j)
  BY DEF JobStays, JobJoins, JobTyped, running

LEMMA StayRight ==
  ASSUME NEW j \in Job, JobTyped(j), JobTyped(j)', JobStays(j), JobRight(j)
  PROVE  JobRight(j)'
<1>1. Counted(j)' /\ Placed(j)'
  BY DEF JobRight, Counted, Placed, JobStays, serial
<1>2. Stray(j)'
  BY DEF JobRight, Stray, JobStays, running
<1>3. \A x \in RunsOf(j) : F(x)'.iter = F(x).iter /\ F(x)'.last = F(x).last /\ F(x) \in Run
  BY TurnedIs DEF JobStays, JobTyped
<1>4. serial(j) => SerialRight(j)'
  BY <1>3 DEF JobRight, SerialRight, JobStays, JobTyped
<1>5. ~serial(j) => ParallelRight(j)'
  BY <1>3 DEF JobRight, ParallelRight, JobStays, JobTyped
<1>6. RunsRight(j)'
  <2> SUFFICES ASSUME NEW x \in RunsOf(j)
               PROVE  /\ F(x)'.at \in {"body", "notify"} => F(x)'.iter <= F(x)'.last
                      /\ F(x)'.at = "batch" => serial(j)
                      /\ F(x)'.failed => F(x)'.at = "finish"
                      /\ F(x)'.at = "finish" /\ ~F(x)'.failed => F(x)'.iter = F(x)'.last + 1
    BY DEF RunsRight, JobStays, serial
  <2>1. /\ F(x).at \in {"body", "notify"} => F(x).iter <= F(x).last
        /\ F(x).at = "batch" => serial(j)
        /\ F(x).failed => F(x).at = "finish"
        /\ F(x).at = "finish" /\ ~F(x).failed => F(x).iter = F(x).last + 1
        /\ serial(j) => F(x).iter <= F(x).last + 1
    BY DEF JobRight, RunsRight, SerialRight
  <2>2. CASE F(x)' = F(x)
    BY <2>1, <2>2
  <2>3. CASE Turns(F(x), F(x)')
    BY <1>3, <2>1, <2>3 DEF Turns, JobTyped
  <2> QED BY <2>2, <2>3 DEF JobStays, Turned
<1> QED BY <1>1, <1>2, <1>4, <1>5, <1>6 DEF JobRight, serial

LEMMA PreparedJobs ==
  ASSUME NEW g \in Group, NEW k \in DOMAIN Prepared(g)
  PROVE  Prepared(g)[k] \in Job /\ Has(Prepared(g), Prepared(g)[k])
  BY PreparedAre DEF Has

LEMMA JoinsStay ==
  ASSUME NEW g \in Group, Joins(g), LoopsOf(g)' = LoopsOf(g),
         \A x \in LoopsOf(g) : F(x)'.index = F(x).index,
         \A j \in Job : JobTyped(j) /\ JobJoins(j),
         result'[g] = "ok" => result[g] = "ok" \/ Prepared(g) = <<>>
  PROVE  Joins(g)'
<1>1. \A k \in DOMAIN Prepared(g) : \A j : j = Prepared(g)[k] =>
        /\ running(j)' => running(j)
        /\ work'[j].exit_status = 0 =>
             work[j].exit_status = 0 /\ work'[j].min + work'[j].extent = work[j].min + work[j].extent
        /\ \A i \in 1..Extent[j] : ran[j][i] = 1 => ran'[j][i] = 1
  BY PreparedJobs DEF JobJoins
<1>2. \A x \in LoopsOf(g)' : \A k \in DOMAIN Prepared(g) : k < F(x)'.index => ~running(Prepared(g)[k])'
  BY <1>1 DEF Joins
<1>3. LoopsOf(g)' # {} => \A k \in DOMAIN Prepared(g) :
       work'[Prepared(g)[k]].exit_status = 0 =>
         work'[Prepared(g)[k]].min + work'[Prepared(g)[k]].extent = Extent[Prepared(g)[k]]
  BY <1>1 DEF Joins
<1>4. \A k \in DOMAIN Prepared(g) : running(Prepared(g)[k])' => LoopsOf(g)' # {}
  BY <1>1 DEF Joins
<1>5. result'[g] = "ok" =>
       \A k \in DOMAIN Prepared(g) : \A i \in 1..Extent[Prepared(g)[k]] : ran'[Prepared(g)[k]][i] = 1
  <2>1. CASE result[g] = "ok"
    BY <1>1, <2>1 DEF Joins
  <2>2. CASE Prepared(g) = <<>>
    <3>1. DOMAIN Prepared(g) = {}
      BY <2>2
    <3> QED BY <3>1
  <2> QED BY <2>1, <2>2
<1> QED BY <1>2, <1>3, <1>4, <1>5 DEF Joins

LEMMA FreshStays ==
  ASSUME NEW g \in Group, Fresh(g), LoopsOf(g)' = LoopsOf(g), \A j \in Job : JobJoins(j)
  PROVE  Fresh(g)'
<1>1. \A k \in DOMAIN Prepared(g) : \A j : j = Prepared(g)[k] =>
        (work[j].extent = 0 /\ work[j].min = 0 /\ work[j].active_workers = 0 =>
           work'[j].extent = 0 /\ work'[j].min = 0 /\ work'[j].active_workers = 0)
  BY PreparedJobs DEF JobJoins
<1> QED BY <1>1 DEF Fresh

LEMMA GoneIs ==
  Suffixes => \A c \in Caller : Gone(c) \in Nat /\ \A p \in 1..Gone(c) : p \in DOMAIN Program[c]
<1> SUFFICES ASSUME Suffixes, NEW c \in Caller
             PROVE  Gone(c) \in Nat /\ \A p \in 1..Gone(c) : p \in DOMAIN Program[c]
  OBVIOUS
<1>1. program[c] \in Seq(Entry) /\ Program[c] \in Seq(Entry) /\ Len(program[c]) <= Len(Program[c])
  BY ProgramAssumption DEF Suffixes, Suffix
<1>2. Len(program[c]) \in Nat /\ Len(Program[c]) \in Nat /\ DOMAIN Program[c] = 1..Len(Program[c])
  BY <1>1
<1> QED BY <1>1, <1>2 DEF Gone

LEMMA GoneIsNext ==
  Suffixes' => \A c \in Caller : Gone(c)' \in Nat /\ \A p \in 1..Gone(c)' : p \in DOMAIN Program[c]
<1>1. Suffixes' => (\A c \in Caller : Gone(c) \in Nat /\ \A p \in 1..Gone(c) : p \in DOMAIN Program[c])'
  BY GoneIs, PTL
<1> QED BY <1>1

LEMMA CalledStays ==
  ASSUME NEW g \in Group, Called(g), Suffixes, Suffixes', \A c \in Caller : Gone(c) <= Gone(c)',
         \A j \in Job : JobPasses(j)
  PROVE  Called(g)'
<1>1. CASE \E c \in Caller : \E p \in 1..Gone(c) : Starts(c, p, g)
  <2>1. PICK c \in Caller : \E p \in 1..Gone(c) : Starts(c, p, g)
    BY <1>1
  <2>2. PICK p \in 1..Gone(c) : Starts(c, p, g)
    BY <2>1
  <2>3. p \in 1..Gone(c)'
    BY <2>2, GoneIs, GoneIsNext
  <2> QED BY <2>2, <2>3 DEF Called, Starts
<1>2. CASE \E j \in Job : \E i \in DOMAIN Body[j] : \E s \in DOMAIN Body[j][i] :
             StartsNested(j, i, s, g) /\ Passed(j, i, s)
  <2>0. PICK j \in Job : \E i \in DOMAIN Body[j] : \E s \in DOMAIN Body[j][i] :
             StartsNested(j, i, s, g) /\ Passed(j, i, s)
    BY <1>2
  <2>1. PICK i \in DOMAIN Body[j] : \E s \in DOMAIN Body[j][i] :
             StartsNested(j, i, s, g) /\ Passed(j, i, s)
    BY <2>0
  <2>2. PICK s \in DOMAIN Body[j][i] : StartsNested(j, i, s, g) /\ Passed(j, i, s)
    BY <2>1
  <2>3. Passed(j, i, s)'
    BY <2>2 DEF JobPasses
  <2> QED BY <2>2, <2>3 DEF Called, StartsNested
<1> QED BY <1>1, <1>2 DEF Called

\* A step that leaves the calls where they are.
LEMMA StepRight ==
  ASSUME Right, Shape', Distinct(jobs'), Results', LoopsKept,
         \A j \in Job : JobRight(j)' /\ JobJoins(j) /\ JobPasses(j),
         \A c \in Caller : Gone(c) <= Gone(c)',
         \A g \in Group : result'[g] = "ok" => result[g] = "ok" \/ Prepared(g) = <<>>
  PROVE  Right'
<1>1. \A j \in Job : JobTyped(j)
  BY JobsAreTyped DEF Right
<1>2. Suffixes /\ Suffixes'
  BY DEF Right, Shape
<1>3. ASSUME NEW g \in Group PROVE GroupRight(g)'
  <2>1. Joins(g) /\ (Called(g) \/ Fresh(g))
    BY DEF Right, GroupRight
  <2>2. LoopsOf(g)' = LoopsOf(g) /\ \A x \in LoopsOf(g) : F(x)'.index = F(x).index
    BY DEF LoopsKept
  <2>3. Joins(g)'
    BY <1>1, <2>1, <2>2, JoinsStay
  <2>4. Called(g) => Called(g)'
    BY <1>2, CalledStays
  <2>5. Fresh(g) => Fresh(g)'
    BY <2>2, FreshStays
  <2> QED BY <2>1, <2>3, <2>4, <2>5 DEF GroupRight
<1> QED BY <1>3 DEF Right

LEMMA StaysAll ==
  ASSUME Right, Shape', NEW j \in Job, JobStays(j)
  PROVE  JobRight(j)' /\ JobJoins(j) /\ JobPasses(j)
<1>1. JobTyped(j) /\ JobTyped(j)' /\ JobRight(j)
  BY JobsAreTyped, JobsAreTypedNext DEF Right
<1> QED BY <1>1, StayRight, StayJoins, StayPasses DEF JobStays

\* A step that touches no job, no call and no result.
LEMMA QuietRight ==
  ASSUME Right, Shape', RunsKept, LoopsKept, WorkKept, jobs' = jobs, ran' = ran, Results',
         \A c \in Caller : Gone(c) <= Gone(c)',
         \A g \in Group : result'[g] = "ok" => result[g] = "ok" \/ Prepared(g) = <<>>
  PROVE  Right'
<1>1. \A j \in Job : JobStays(j)
  BY DEF RunsKept, WorkKept, JobStays, Waits, Has
<1>2. \A j \in Job : JobRight(j)' /\ JobJoins(j) /\ JobPasses(j)
  BY <1>1, StaysAll
<1>3. Distinct(jobs')
  BY DEF Right
<1> QED BY <1>2, <1>3, StepRight

LEMMA KeptRight ==
  ASSUME Right, Shape', RunsKept, LoopsKept, WorkKept, Kept
  PROVE  Right'
<1>1. \A c \in Caller : Gone(c) <= Gone(c)'
  BY SameSuffixes, GoneIs DEF Kept, Right, Shape
<1>2. Results'
  BY DEF Kept, Right, Results
<1> QED BY <1>1, <1>2, QuietRight DEF Kept

(***************************************************************************)
(* The steps that touch no job.                                            *)
(***************************************************************************)
LEMMA IdleRight ==
  ASSUME Right, NEW t \in Thread,
         \/ WorkerStart(t) \/ StartScan(t) \/ PassOver(t) \/ SleepOwner(t) \/ SleepWorker(t)
         \/ WakeOwner(t) \/ WakeWorker(t)
  PROVE  Right'
<1>1. Shape /\ Stacked
  BY DEF Right, Shape, Typed
<1>2. Stacked' /\ Idles(t) /\ WorkKept /\ Kept
  BY <1>1, WorkerStartIdles, StartScanIdles, PassOverIdles, SleepOwnerIdles, SleepWorkerIdles,
     WakeOwnerIdles, WakeWorkerIdles
<1>3. Shape' /\ RunsKept /\ LoopsKept
  BY <1>1, <1>2, IdlesShape, IdlesKeep
<1> QED BY <1>2, <1>3, KeptRight

LEMMA TurnRight ==
  ASSUME Right, NEW t \in Thread, RunBatch(t) \/ Release(t) \/ ReleaseWake(t) \/ Fail(t)
  PROVE  Right'
<1>1. Shape /\ Stacked
  BY DEF Right, Shape, Typed
<1>2. Stacked' /\ Proceeds(t) /\ WorkKept /\ Kept
  BY <1>1, RunBatchProceeds, ReleaseProceeds, ReleaseWakeProceeds, FailProceeds
<1>3. Shape' /\ RunsKept /\ LoopsKept
  BY <1>1, <1>2, ProceedsShape, ProceedsKeep
<1> QED BY <1>2, <1>3, KeptRight

LEMMA InheritRight ==
  ASSUME Right, NEW t \in Thread, InheritFailure(t)
  PROVE  Right'
<1>1. stack' = stack /\ WorkKept /\ Kept /\ Shape
  BY InheritKeeps DEF Right
<1>2. RunsKept /\ LoopsKept
  BY <1>1, StillKeeps
<1>3. Shape'
  <2>1. WorkTyped' /\ jobs' \in Seq(Job) /\ ran' = ran /\ spawned' = spawned /\ program' = program
    BY <1>1 DEF WorkKept, Kept, Shape, Typed
  <2>2. Suffixes'
    BY <1>1, <2>1, SameSuffixes DEF Shape
  <2> QED BY <1>1, <2>1, <2>2, StillShape
<1> QED BY <1>1, <1>2, <1>3, KeptRight

LEMMA WorkerExitRight ==
  ASSUME Right, NEW t \in Thread, WorkerExit(t)
  PROVE  Right'
  BY WorkerExitKeeps, KeptRight DEF Right

LEMMA StutterRight ==
  ASSUME Right, UNCHANGED vars
  PROVE  Right'
<1>1. /\ stack' = stack /\ work' = work /\ Kept
  BY DEF vars, life, team, Kept
<1>2. Stacked /\ WorkTyped /\ Shape
  BY WorkIsTyped DEF Right
<1>3. WorkKept /\ RunsKept /\ LoopsKept
  BY <1>1, <1>2, WorkSame, StillKeeps
<1>4. Shape'
  <2>1. WorkTyped' /\ jobs' \in Seq(Job) /\ ran' = ran /\ spawned' = spawned /\ program' = program
    BY <1>1, <1>2, <1>3 DEF WorkKept, Kept, Shape, Typed
  <2>2. Suffixes'
    BY <1>2, <2>1, SameSuffixes DEF Shape
  <2> QED BY <1>1, <1>2, <2>1, <2>2, StillShape
<1> QED BY <1>1, <1>3, <1>4, KeptRight

\* The operations of a caller other than a call with something to do.
LEMMA DropRight ==
  ASSUME Right, NEW c \in Caller, CallerDrops(c), Shape', RunsKept, LoopsKept, WorkKept,
         jobs' = jobs, ran' = ran, Results',
         \A g \in Group : result'[g] = "ok" => result[g] = "ok" \/ Prepared(g) = <<>>
  PROVE  Right'
<1>1. Suffixes
  BY DEF Right, Shape
<1>2. \A d \in Caller : Gone(d) \in Nat
  BY <1>1, GoneIs
<1>3. (\A d \in Caller \ {c} : Gone(d)' = Gone(d)) /\ Gone(c)' = Gone(c) + 1
  BY <1>1, TailSuffixes DEF CallerDrops
<1>4. \A d \in Caller : Gone(d) <= Gone(d)'
  BY <1>2, <1>3
<1> QED BY <1>4, QuietRight

LEMMA ShutdownRight ==
  ASSUME Right, NEW c \in Caller, Shutdown(c)
  PROVE  Right'
<1>1. Shape' /\ RunsKept /\ LoopsKept /\ WorkKept /\ CallerDrops(c)
         /\ jobs' = jobs /\ ran' = ran /\ result' = result
  BY ShutdownKeeps DEF Right
<1>2. Results'
  BY <1>1 DEF Right, Results
<1> QED BY <1>1, <1>2, DropRight

LEMMA SetNumThreadsRight ==
  ASSUME Right, NEW c \in Caller, SetNumThreads(c)
  PROVE  Right'
<1>1. /\ stack' = stack /\ work' = work /\ jobs' = jobs /\ ran' = ran /\ spawned' = spawned
      /\ result' = result /\ CallerDrops(c)
  BY DEF SetNumThreads, CallerDrops
<1>2. Shape /\ WorkTyped /\ Results'
  BY <1>1, WorkIsTyped DEF Right, Results
<1>3. WorkKept /\ RunsKept /\ LoopsKept
  BY <1>1, <1>2, WorkSame, StillKeeps
<1>4. Shape'
  BY <1>1, <1>2, <1>3, DropShape
<1> QED BY <1>1, <1>2, <1>3, <1>4, DropRight

LEMMA EntryIs ==
  ASSUME NEW e \in Entry, e.op = "run"
  PROVE  e.group \in Group
  BY DEF Entry

LEMMA CallEmptyRight ==
  ASSUME Right, NEW c \in Caller, CallEmpty(c)
  PROVE  Right'
<1> DEFINE g == Head(program[c]).group
<1>1. /\ stack' = stack /\ work' = work /\ jobs' = jobs /\ ran' = ran /\ spawned' = spawned
      /\ result' = [result EXCEPT ![g] = "ok"] /\ CallerDrops(c) /\ Prepared(g) = <<>>
  BY DEF CallEmpty, CallerDrops, life, team
<1>2. Shape /\ WorkTyped /\ result \in [Group -> {"none", "ok", "error"}]
  BY WorkIsTyped DEF Right, Results
<1>3. WorkKept /\ RunsKept /\ LoopsKept
  BY <1>1, <1>2, WorkSame, StillKeeps
<1>4. Shape'
  BY <1>1, <1>2, <1>3, DropShape
<1> HIDE DEF g
<1>5. Results'
  BY <1>1, <1>2 DEF Results
<1>6. \A h \in Group : result'[h] = "ok" => result[h] = "ok" \/ Prepared(h) = <<>>
  BY <1>1, <1>2
<1> QED BY <1>1, <1>3, <1>4, <1>5, <1>6, DropRight

\* When the pool is reset nobody is in it.
LEMMA ResetRight ==
  ASSUME Right, NEW c \in Caller, Reset(c)
  PROVE  Right'
<1>1. /\ Shape' /\ RunsKept /\ LoopsKept /\ WorkKept
      /\ jobs' = <<>> /\ ran' = ran /\ program' = program /\ result' = result
      /\ \A g \in Group : LoopsOf(g) = {}
  BY ResetKeeps DEF Right
<1>2. ASSUME NEW j \in Job PROVE ~Waits(j)
  <2>1. ~running(j)
    <3>1. CASE \E g \in Group : Has(Prepared(g), j)
      <4>1. PICK g \in Group : Has(Prepared(g), j)
        BY <3>1
      <4>2. PICK k \in DOMAIN Prepared(g) : Prepared(g)[k] = j
        BY <4>1 DEF Has
      <4>3. running(Prepared(g)[k]) => LoopsOf(g) # {}
        BY DEF Right, GroupRight, Joins
      <4> QED BY <1>1, <4>2, <4>3
    <3>2. CASE ~\E g \in Group : Has(Prepared(g), j)
      BY <3>2 DEF Right, JobRight, Stray
    <3> QED BY <3>1, <3>2
  <2> QED BY <2>1 DEF Right, JobRight, Placed, running
<1>3. \A j \in Job : ~Waits(j)'
  BY <1>1 DEF Waits, Has
<1>4. \A j \in Job : JobStays(j)
  BY <1>1, <1>2, <1>3 DEF RunsKept, WorkKept, JobStays
<1>5. \A j \in Job : JobRight(j)' /\ JobJoins(j) /\ JobPasses(j)
  BY <1>1, <1>4, StaysAll
<1>6. \A d \in Caller : Gone(d) <= Gone(d)'
  BY <1>1, SameSuffixes, GoneIs DEF Right, Shape
<1>7. Distinct(jobs') /\ Results'
  BY <1>1 DEF Distinct, Right, Results
<1> QED BY <1>1, <1>5, <1>6, <1>7, StepRight

(***************************************************************************)
(* The steps that work on a job.                                           *)
(***************************************************************************)
LEMMA NoRuns ==
  ASSUME NEW j, Counted(j), work[j].active_workers = 0
  PROVE  RunsOf(j) = {}
  BY FS_EmptySet DEF Counted

LEMMA SomeRuns ==
  ASSUME NEW j, Counted(j), NEW x \in RunsOf(j), work[j].active_workers \in Nat
  PROVE  work[j].active_workers > 0
  BY FS_EmptySet DEF Counted

\* A step on job j leaves the other jobs alone.
LEMMA OthersRight ==
  ASSUME Right, Shape', Distinct(jobs'), LoopsKept, NEW j \in Job,
         \A l \in Job \ {j} : JobStays(l), JobRight(j)' /\ JobJoins(j) /\ JobPasses(j),
         program' = program, result' = result
  PROVE  Right'
<1>1. \A l \in Job : JobRight(l)' /\ JobJoins(l) /\ JobPasses(l)
  BY StaysAll
<1>2. \A d \in Caller : Gone(d) <= Gone(d)'
  BY SameSuffixes, GoneIs DEF Right, Shape
<1>3. Results'
  BY DEF Right, Results
<1> QED BY <1>1, <1>2, <1>3, StepRight

LEMMA AbandonRight ==
  ASSUME Right, NEW t \in Thread, AbandonJob(t)
  PROVE  Right'
<1>1. /\ Shape' /\ RunsKept /\ LoopsKept
      /\ ran' = ran /\ program' = program /\ result' = result
      /\ Owned(t) \in Job /\ work[Owned(t)].exit_status # 0 /\ work[Owned(t)].active_workers = 0
      /\ Writes(Owned(t), 0, work[Owned(t)].min, work[Owned(t)].active_workers)
      /\ \E k \in DOMAIN jobs : jobs[k] = Owned(t) /\ jobs' = Without(jobs, k)
  BY AbandonKeeps DEF Right
<1>2. PICK j \in Job : j = Owned(t)
  BY <1>1
<1>3. /\ work[j].exit_status # 0 /\ work[j].active_workers = 0
      /\ Writes(j, 0, work[j].min, work[j].active_workers)
  BY <1>1, <1>2
<1>4. Distinct(jobs') /\ ~Waits(j)' /\ \A l \in Job \ {j} : Waits(l)' <=> Waits(l)
  <2>1. jobs \in Seq(Job) /\ Distinct(jobs)
    BY DEF Right, Shape, Typed
  <2>2. PICK k \in DOMAIN jobs : jobs[k] = j /\ jobs' = Without(jobs, k)
    BY <1>1, <1>2
  <2>3. Distinct(jobs') /\ \A x : Has(jobs', x) <=> Has(jobs, x) /\ x # j
    BY <2>1, <2>2, WithoutIs
  <2> QED BY <2>3 DEF Waits
<1>5. \A l \in Job \ {j} : JobStays(l)
  BY <1>1, <1>3, <1>4 DEF RunsKept, Writes, JobStays
<1>6. JobTyped(j) /\ JobTyped(j)' /\ JobRight(j) /\ RunsOf(j)' = RunsOf(j) /\ \A x \in RunsOf(j) : Turned(x)
  BY <1>1, JobsAreTyped, JobsAreTypedNext DEF Right, RunsKept
<1>7. /\ work'[j].extent = 0 /\ work'[j].min = work[j].min /\ work'[j].active_workers = 0
      /\ work'[j].exit_status # 0 /\ ran' = ran
  BY <1>1, <1>3 DEF Writes
<1>8. RunsOf(j) = {}
  BY <1>3, <1>6, NoRuns DEF JobRight
<1>9. JobRight(j)'
  <2>1. Counted(j)' /\ Stray(j)' /\ RunsRight(j)'
    BY <1>3, <1>6, <1>7, <1>8 DEF JobRight, Counted, Stray, RunsRight, running
  <2>2. Placed(j)'
    BY <1>4, <1>6, <1>7 DEF JobRight, Placed, JobTyped, serial
  <2>3. serial(j) => SerialRight(j)'
    BY <1>6, <1>7, <1>8 DEF JobRight, SerialRight, JobTyped
  <2>4. ~serial(j) => ParallelRight(j)'
    BY <1>6, <1>7, <1>8 DEF JobRight, ParallelRight, JobTyped
  <2> QED BY <2>1, <2>2, <2>3, <2>4 DEF JobRight, serial
<1>10. JobJoins(j)
  BY <1>6, <1>7 DEF JobJoins, running, JobTyped
<1>11. JobPasses(j)
  BY <1>6, <1>7, StayPasses
<1> QED BY <1>1, <1>4, <1>5, <1>9, <1>10, <1>11, OthersRight

LEMMA ClaimedJob ==
  ASSUME Right, Shape', NEW t \in Thread, NEW j \in Job, Claims(t, j), ran' = ran
  PROVE  Distinct(jobs') /\ JobRight(j)' /\ JobJoins(j) /\ JobPasses(j)
         /\ \A l \in Job \ {j} : JobStays(l)
<1> DEFINE i == work[j].min + 1
           e == IF serial(j) THEN work[j].extent ELSE work[j].extent - 1
           m == IF serial(j) THEN work[j].min ELSE i
           y == Above(t)
<1>1. JobTyped(j) /\ JobTyped(j)' /\ JobRight(j) /\ jobs \in Seq(Job) /\ Distinct(jobs)
  BY JobsAreTyped, JobsAreTypedNext DEF Right, Shape, Typed
<1>2. /\ serial(j) => work[j].active_workers = 0
      /\ Writes(j, e, m, work[j].active_workers + 1)
      /\ y \notin Frames /\ RunsOf(j)' = RunsOf(j) \union {y}
      /\ \A l \in Job \ {j} : RunsOf(l)' = RunsOf(l)
      /\ \A l \in Job : \A x \in RunsOf(l) : Turned(x) /\ F(x)' = F(x)
      /\ \A x : x = y => F(x)' = IF serial(j) THEN RunFrame(j, "batch", i, i) ELSE RunFrame(j, "body", i, i)
  BY DEF Claims
<1>3. PICK k \in DOMAIN jobs : jobs[k] = j /\ jobs' = IF serial(j) \/ e = 0 THEN Without(jobs, k) ELSE jobs
  BY DEF Claims
<1>4. /\ Distinct(jobs') /\ \A l \in Job \ {j} : Waits(l)' <=> Waits(l)
      /\ Waits(j) /\ (Waits(j)' <=> ~serial(j) /\ e # 0)
  <2>1. Waits(j)
    BY <1>3 DEF Waits, Has
  <2>2. CASE serial(j) \/ e = 0
    <3>1. Distinct(jobs') /\ \A x : Has(jobs', x) <=> Has(jobs, x) /\ x # j
      BY <1>1, <1>3, <2>2, WithoutIs
    <3> QED BY <2>1, <2>2, <3>1 DEF Waits
  <2>3. CASE ~(serial(j) \/ e = 0)
    BY <1>1, <1>3, <2>1, <2>3 DEF Waits
  <2> QED BY <2>2, <2>3
<1>5. \A l \in Job \ {j} : JobStays(l)
  BY <1>2, <1>4 DEF Writes, JobStays
<1>6. /\ work[j].extent \in Nat /\ work[j].extent > 0 /\ work[j].min \in Nat /\ i \in Nat /\ e \in Nat
      /\ work[j].active_workers \in Nat /\ y \notin RunsOf(j) /\ Extent[j] \in Nat
  BY SMTT(30), <1>1, <1>2, <1>4 DEF JobTyped, JobRight, Placed
<1>7. /\ work'[j].extent = e /\ work'[j].min = m /\ work'[j].active_workers = work[j].active_workers + 1
      /\ work[j].exit_status # 0 => work'[j].exit_status # 0
      /\ work[j].exit_status \in {0, 1} /\ work'[j].exit_status \in {0, 1}
  BY <1>1, <1>2 DEF Writes, JobTyped
<1>8. \A x : x = y => /\ F(x)'.iter = i /\ F(x)'.last = i /\ F(x)'.failed = FALSE
                      /\ F(x)'.at = IF serial(j) THEN "batch" ELSE "body"
  <2>1. \A l : /\ RunFrame(j, l, i, i).iter = i /\ RunFrame(j, l, i, i).last = i
               /\ RunFrame(j, l, i, i).failed = FALSE /\ RunFrame(j, l, i, i).at = l
    BY DEF RunFrame
  <2> QED BY <1>2, <2>1
<1>9. serial(j) => RunsOf(j) = {}
  BY <1>1, <1>2, NoRuns DEF JobRight
<1>10. \A x \in RunsOf(j) : F(x)' = F(x) /\ x # y
  BY <1>2, <1>6
<1> HIDE DEF y
<1>11. Counted(j)'
  <2>1. IsFiniteSet(RunsOf(j)) /\ work[j].active_workers = Cardinality(RunsOf(j))
    BY <1>1 DEF JobRight, Counted
  <2>2. IsFiniteSet(RunsOf(j) \union {y}) /\ Cardinality(RunsOf(j) \union {y}) = Cardinality(RunsOf(j)) + 1
    BY <1>6, <2>1, FS_AddElement
  <2> QED BY <1>2, <1>7, <2>1, <2>2 DEF Counted
<1>12. Placed(j)'
  <2>1. work[j].min + work[j].extent <= Extent[j] /\ (serial(j) => work[j].active_workers = 0)
    BY <1>1, <1>2 DEF JobRight, Placed
  <2>2. work'[j].min + work'[j].extent = work[j].min + work[j].extent
    BY <1>6, <1>7
  <2>3. Waits(j)' <=> ~serial(j) /\ work'[j].extent # 0
    BY <1>4, <1>7
  <2>4. work'[j].extent \in Nat /\ work'[j].active_workers = work[j].active_workers + 1
    BY <1>6, <1>7
  <2>5. (serial(j) <=> serial(j)') /\ (serial(j) => work'[j].active_workers = 1)
    BY <2>1, <2>4 DEF serial
  <2> HIDE DEF e, m, i
  <2> QED BY <2>1, <2>2, <2>3, <2>4, <2>5 DEF Placed
<1>13. RunsRight(j)'
  <2>1. \A x \in RunsOf(j) :
          /\ F(x)'.at \in {"body", "notify"} => F(x)'.iter <= F(x)'.last
          /\ F(x)'.at = "batch" => serial(j)
          /\ F(x)'.failed => F(x)'.at = "finish"
          /\ F(x)'.at = "finish" /\ ~F(x)'.failed => F(x)'.iter = F(x)'.last + 1
    BY <1>1, <1>10 DEF JobRight, RunsRight
  <2>2. \A x : x = y =>
          /\ F(x)'.at \in {"body", "notify"} => F(x)'.iter <= F(x)'.last
          /\ F(x)'.at = "batch" => serial(j)
          /\ F(x)'.failed => F(x)'.at = "finish"
          /\ F(x)'.at = "finish" /\ ~F(x)'.failed => F(x)'.iter = F(x)'.last + 1
    <3> HIDE DEF i
    <3> QED BY <1>6, <1>8
  <2> QED BY <1>2, <2>1, <2>2 DEF RunsRight, serial
<1>14. Stray(j)'
  BY <1>1, <1>6 DEF JobRight, Stray, running
<1>15. ASSUME serial(j) PROVE JobRight(j)' /\ JobPasses(j)
  <2>1. RunsOf(j)' = {y}
    BY <1>2, <1>9, <1>15
  <2>2. \A x : x = y => /\ work'[j].min < F(x)'.last /\ F(x)'.last <= work'[j].min + work'[j].extent
                        /\ work'[j].min < F(x)'.iter /\ F(x)'.iter <= F(x)'.last + 1
    BY <1>6, <1>7, <1>8, <1>15
  <2>3. \A n \in 1..Extent[j] :
          /\ ran[j][n] = 1 => n <= work[j].min
          /\ work[j].extent > 0 /\ n <= work[j].min => ran[j][n] = 1
          /\ n <= work[j].min /\ ran[j][n] = 0 => work[j].exit_status # 0
          /\ n > 1 /\ ran[j][n] = 1 => ran[j][n - 1] = 1
    BY <1>1, <1>9, <1>15 DEF JobRight, SerialRight
  <2>4. \A x : x = y => \A n \in 1..Extent[j] : ~(work'[j].min < n /\ n < F(x)'.iter)
    BY <1>6, <1>7, <1>8, <1>15
  <2>5. SerialRight(j)'
    BY <1>7, <1>15, <2>1, <2>2, <2>3, <2>4 DEF SerialRight
  <2>6. JobRight(j)'
    BY <1>11, <1>12, <1>13, <1>14, <1>15, <2>5 DEF JobRight, serial
  <2>7. JobPasses(j)
    <3> SUFFICES ASSUME NEW n \in DOMAIN Body[j], NEW s \in DOMAIN Body[j][n], Passed(j, n, s)
                 PROVE  Passed(j, n, s)'
      BY DEF JobPasses
    <3>1. n \in Nat /\ s \in Nat
      BY StepsAreNumbers
    <3>2. n <= work[j].min
      BY <1>9, <1>15 DEF Passed
    <3>3. \A x : x = y => ~(F(x)'.iter <= n)
      BY <1>6, <1>8, <3>1, <3>2
    <3> QED BY <1>7, <1>15, <2>1, <3>2, <3>3 DEF Passed, Behind
  <2> QED BY <2>6, <2>7
<1>16. ASSUME ~serial(j) PROVE JobRight(j)' /\ JobPasses(j)
  <2>0. /\ ParallelRight(j)
        /\ \A x \in RunsOf(j) : F(x).last \in 1..work[j].min /\ F(x).iter \in {F(x).last, F(x).last + 1}
    BY <1>1, <1>16 DEF JobRight, ParallelRight
  <2>1. \A x \in RunsOf(j)' : F(x)'.last \in 1..work'[j].min /\ F(x)'.iter \in {F(x)'.last, F(x)'.last + 1}
    BY <1>2, <1>6, <1>7, <1>8, <1>10, <1>16, <2>0
  <2>2. \A x, z \in RunsOf(j)' : F(x)'.last = F(z)'.last => x = z
    <3>1. \A x \in RunsOf(j) : F(x)'.last # i
      BY <1>6, <1>10, <2>0
    <3>2. \A x, z \in RunsOf(j) : F(x)'.last = F(z)'.last => x = z
      BY <1>10, <2>0 DEF ParallelRight
    <3> QED BY <1>2, <1>8, <3>1, <3>2
  <2>3. \A n \in 1..Extent[j] : ran[j][n] = 1 =>
          n <= work'[j].min /\ \A x \in RunsOf(j)' : F(x)'.last = n => F(x)'.iter = n + 1
    <3> SUFFICES ASSUME NEW n \in 1..Extent[j], ran[j][n] = 1
                 PROVE  n <= work'[j].min /\ \A x \in RunsOf(j)' : F(x)'.last = n => F(x)'.iter = n + 1
      OBVIOUS
    <3>1. n <= work[j].min /\ \A x \in RunsOf(j) : F(x).last = n => F(x).iter = n + 1
      BY <2>0 DEF ParallelRight
    <3>2. n # i /\ n <= work'[j].min
      BY <1>6, <1>7, <1>16, <3>1
    <3> QED BY <1>2, <1>8, <1>10, <3>1, <3>2
  <2>4. \A n \in 1..Extent[j] : n <= work'[j].min /\ ran[j][n] = 0 =>
          work'[j].exit_status # 0 \/ \E x \in RunsOf(j)' : F(x)'.last = n /\ F(x)'.iter = n
    <3> SUFFICES ASSUME NEW n \in 1..Extent[j], n <= work'[j].min, ran[j][n] = 0
                 PROVE  work'[j].exit_status # 0 \/ \E x \in RunsOf(j)' : F(x)'.last = n /\ F(x)'.iter = n
      OBVIOUS
    <3>1. n <= work[j].min \/ n = i
      BY <1>6, <1>7, <1>16
    <3>2. CASE n <= work[j].min
      BY <1>2, <1>7, <1>10, <2>0, <3>2 DEF ParallelRight
    <3>3. CASE n = i
      <4>1. \A x : x = y => x \in RunsOf(j)' /\ F(x)'.last = n /\ F(x)'.iter = n
        BY <1>2, <1>8, <3>3
      <4> QED BY <4>1
    <3> QED BY <3>1, <3>2, <3>3
  <2>5. ParallelRight(j)'
    BY <2>1, <2>2, <2>3, <2>4 DEF ParallelRight
  <2>6. JobRight(j)'
    BY <1>11, <1>12, <1>13, <1>14, <1>16, <2>5 DEF JobRight, serial
  <2>7. JobPasses(j)
    <3> SUFFICES ASSUME NEW n \in DOMAIN Body[j], NEW s \in DOMAIN Body[j][n], Passed(j, n, s)
                 PROVE  Passed(j, n, s)'
      BY DEF JobPasses
    <3>1. n \in Nat /\ s \in Nat
      BY StepsAreNumbers
    <3>2. n <= work[j].min
      BY <1>6, <2>0, <3>1 DEF Passed
    <3>3. \A x : x = y => ~(F(x)'.iter <= n)
      BY <1>6, <1>8, <3>1, <3>2
    <3>4. \A x \in RunsOf(j) : ~Behind(x, n, s)'
      <4> SUFFICES ASSUME NEW x \in RunsOf(j), Behind(x, n, s)' PROVE FALSE
        OBVIOUS
      <4>1. F(x)' = F(x) /\ (Under(x) => Under(x)' \/ F(x)'.step > F(x).step)
        BY <1>1, <1>2, TurnedIs DEF JobTyped
      <4>2. ~(F(x).step > F(x).step)
        BY <1>1 DEF JobTyped
      <4>3. ~Behind(x, n, s)
        BY DEF Passed
      <4> QED BY <4>1, <4>2, <4>3 DEF Behind
    <3>5. n <= work'[j].min
      BY <1>6, <1>7, <1>16, <3>1, <3>2
    <3>6. \A x \in RunsOf(j)' : ~Behind(x, n, s)'
      BY <1>2, <3>3, <3>4 DEF Behind
    <3> QED BY <3>5, <3>6 DEF Passed
  <2> QED BY <2>6, <2>7
<1>17. JobJoins(j)
  BY <1>4, <1>6, <1>7 DEF JobJoins, running
<1> QED BY <1>4, <1>5, <1>15, <1>16, <1>17

LEMMA ClaimRight ==
  ASSUME Right, NEW t \in Thread, Claim(t)
  PROVE  Right'
<1>1. Shape /\ \A j \in Job : Waits(j) => work[j].extent > 0
  BY DEF Right, JobRight, Placed
<1>2. Shape' /\ LoopsKept /\ ran' = ran /\ program' = program /\ result' = result
      /\ \E j \in Job : Claims(t, j)
  BY <1>1, ClaimClaims
<1>3. PICK j \in Job : Claims(t, j)
  BY <1>2
<1>4. Distinct(jobs') /\ JobRight(j)' /\ JobJoins(j) /\ JobPasses(j) /\ \A l \in Job \ {j} : JobStays(l)
  BY <1>2, <1>3, ClaimedJob
<1> QED BY <1>2, <1>4, OthersRight

\* A step that writes the run on top of t's stack leaves the other jobs alone.
LEMMA EditedOthers ==
  ASSUME Shape, NEW t \in Thread, NEW f \in Run, Edited(t, f), jobs' = jobs, WorkKept,
         NEW j \in Job, j = Top(t).job, \A l \in Job \ {j} : ran'[l] = ran[l]
  PROVE  /\ \A l \in Job \ {j} : JobStays(l)
         /\ \E x \in RunsOf(j) : /\ x \in Frames /\ F(x)' = f /\ F(x) = Top(t) /\ (Under(x)' <=> Under(x))
                                 /\ \A y \in RunsOf(j) \ {x} : F(y)' = F(y) /\ (Under(y)' <=> Under(y))
<1>1. Stacked
  BY DEF Shape, Typed
<1>2. /\ f.job = j /\ \A l \in Job : RunsOf(l)' = RunsOf(l)
      /\ \A x \in Frames : (Under(x)' <=> Under(x)) /\ (x # Summit(t) => F(x)' = F(x))
      /\ \A x : x = Summit(t) => F(x)' = f /\ F(x) = Top(t) /\ x \in RunsOf(j)
  BY DEF Edited
<1>3. ASSUME NEW l \in Job, NEW x \in RunsOf(l) PROVE x \in Frames /\ F(x).job = l
  BY <1>1, PlacesIn
<1>4. ASSUME NEW l \in Job \ {j} PROVE JobStays(l)
  <2>1. \A x \in RunsOf(l) : x # Summit(t)
    BY <1>2, <1>3
  <2>2. \A x \in RunsOf(l) : Turned(x)
    BY <1>2, <1>3, <2>1 DEF Turned
  <2> QED BY <1>2, <2>2 DEF JobStays, WorkKept, Waits, Has
<1>5. PICK x : x = Summit(t)
  OBVIOUS
<1>6. \A y \in RunsOf(j) \ {x} : F(y)' = F(y) /\ (Under(y)' <=> Under(y))
  BY <1>2, <1>3, <1>5
<1> QED BY <1>2, <1>3, <1>4, <1>5, <1>6

LEMMA ClaimMoreRight ==
  ASSUME Right, NEW t \in Thread, ClaimMore(t)
  PROVE  Right'
<1>0. Shape
  BY DEF Right
<1>1. /\ Shape' /\ LoopsKept /\ WorkKept /\ Kept
      /\ Top(t).at = "batch" /\ Top(t).last < work[Top(t).job].min + work[Top(t).job].extent
      /\ \E f \in Run : /\ Edited(t, f) /\ f.at = Top(t).at /\ f.iter = Top(t).iter
                        /\ f.last = Top(t).last + 1 /\ f.step = Top(t).step /\ f.failed = Top(t).failed
  BY <1>0, ClaimMoreEdits
<1>2. PICK f \in Run : /\ Edited(t, f) /\ f.at = Top(t).at /\ f.iter = Top(t).iter
                       /\ f.last = Top(t).last + 1 /\ f.step = Top(t).step /\ f.failed = Top(t).failed
  BY SMTT(30), <1>1
<1>3. PICK j \in Job : j = Top(t).job
  BY <1>2, RunIs DEF Edited
<1>4. /\ \A l \in Job \ {j} : JobStays(l)
      /\ \E x \in RunsOf(j) : /\ x \in Frames /\ F(x)' = f /\ F(x) = Top(t) /\ (Under(x)' <=> Under(x))
                              /\ \A y \in RunsOf(j) \ {x} : F(y)' = F(y) /\ (Under(y)' <=> Under(y))
  BY <1>0, <1>1, <1>2, <1>3, EditedOthers DEF Kept
<1>5. PICK x \in RunsOf(j) : x \in Frames /\ F(x)' = f /\ F(x) = Top(t) /\ (Under(x)' <=> Under(x))
  BY <1>4
<1>6. JobTyped(j) /\ JobTyped(j)' /\ JobRight(j) /\ RunsOf(j)' = RunsOf(j)
  BY <1>1, <1>2, JobsAreTyped, JobsAreTypedNext DEF Right, Edited
<1>7. /\ F(x)'.at = "batch" /\ F(x).at = "batch" /\ F(x)'.iter = F(x).iter /\ F(x)'.last = F(x).last + 1
      /\ F(x)'.step = F(x).step /\ F(x)'.failed = F(x).failed
      /\ F(x).last < work[j].min + work[j].extent
  BY <1>1, <1>2, <1>3, <1>5
<1>8. serial(j) /\ RunsRight(j) /\ SerialRight(j)
  BY <1>6, <1>7 DEF JobRight, RunsRight
<1>9. RunsOf(j) = {x}
  BY <1>8 DEF SerialRight
<1>10. /\ work'[j].extent = work[j].extent /\ work'[j].min = work[j].min
       /\ work'[j].active_workers = work[j].active_workers
       /\ work[j].exit_status # 0 => work'[j].exit_status # 0
       /\ ran' = ran /\ (Waits(j)' <=> Waits(j))
  BY <1>1 DEF WorkKept, Kept, Waits, Has
<1>11. JobRight(j)'
  <2>1. Counted(j)' /\ Placed(j)' /\ Stray(j)'
    BY <1>6, <1>10 DEF JobRight, Counted, Placed, Stray, serial, running
  <2>2. RunsRight(j)'
    BY <1>6, <1>7, <1>8, <1>9 DEF RunsRight, serial
  <2>3. /\ work[j].min < F(x).last /\ F(x).last <= work[j].min + work[j].extent
        /\ work[j].min < F(x).iter /\ F(x).iter <= F(x).last + 1
        /\ F(x).last \in Nat /\ F(x).iter \in Nat /\ work[j].min \in Nat /\ work[j].extent \in Nat
    BY <1>6, <1>8 DEF SerialRight, JobTyped
  <2>4. SerialRight(j)'
    <3>1. /\ work'[j].min < F(x)'.last /\ F(x)'.last <= work'[j].min + work'[j].extent
          /\ work'[j].min < F(x)'.iter /\ F(x)'.iter <= F(x)'.last + 1
      BY <1>7, <1>10, <2>3
    <3>2. \A y \in RunsOf(j)' : y = x
      BY <1>6, <1>9
    <3>3. work[j].exit_status # 0 => work'[j].exit_status # 0
      BY <1>1 DEF WorkKept
    <3>4. \A i \in 1..Extent[j] :
       /\ ran[j][i] = 1 => i <= work[j].min \/ i < F(x).iter
       /\ work[j].min < i /\ i < F(x).iter => ran[j][i] = 1
       /\ work[j].extent > 0 /\ i <= work[j].min => ran[j][i] = 1
       /\ i <= work[j].min /\ ran[j][i] = 0 => work[j].exit_status # 0
       /\ i > 1 /\ ran[j][i] = 1 => ran[j][i - 1] = 1
      BY <1>8, <1>9 DEF SerialRight
    <3>5. \A i \in 1..Extent[j] :
       /\ ran'[j][i] = 1 => i <= work'[j].min \/ i < F(x)'.iter
       /\ work'[j].min < i /\ i < F(x)'.iter => ran'[j][i] = 1
       /\ work'[j].extent > 0 /\ i <= work'[j].min => ran'[j][i] = 1
       /\ i <= work'[j].min /\ ran'[j][i] = 0 => work'[j].exit_status # 0
       /\ i > 1 /\ ran'[j][i] = 1 => ran'[j][i - 1] = 1
      BY <1>7, <1>10, <3>3, <3>4
    <3> QED BY <1>6, <1>9, <3>1, <3>2, <3>5 DEF SerialRight
  <2> QED BY <1>8, <2>1, <2>2, <2>4 DEF JobRight, serial
<1>12. JobJoins(j)
  <2>1. work[j].exit_status # 0 => work'[j].exit_status # 0
    BY <1>1 DEF WorkKept
  <2> QED BY <1>10, <2>1 DEF JobJoins, running
<1>13. JobPasses(j)
  <2> SUFFICES ASSUME NEW n \in DOMAIN Body[j], NEW s \in DOMAIN Body[j][n], Passed(j, n, s)
               PROVE  Passed(j, n, s)'
    BY DEF JobPasses
  <2>1. n \in Nat /\ s \in Nat
    BY StepsAreNumbers
  <2>2. n <= F(x).last /\ ~Behind(x, n, s)
    <3>1. work[j].min < F(x).last /\ F(x).last \in Nat /\ work[j].min \in Nat
      BY <1>6, <1>8 DEF SerialRight, JobTyped
    <3> QED BY <1>9, <2>1, <3>1 DEF Passed
  <2>3. n <= F(x)'.last /\ ~Behind(x, n, s)'
    <3>1. F(x).last \in Nat
      BY <1>6 DEF JobTyped
    <3> QED BY <1>5, <1>7, <2>1, <2>2, <3>1 DEF Behind
  <2> QED BY <1>6, <1>9, <2>3 DEF Passed
<1>14. Distinct(jobs') /\ program' = program /\ result' = result
  BY <1>1 DEF Kept, Right
<1> QED BY <1>1, <1>4, <1>11, <1>12, <1>13, <1>14, OthersRight

\* A run in the body is at an iteration it has claimed.
LEMMA BodyIs ==
  ASSUME NEW j \in Job, JobTyped(j), JobRight(j), NEW x \in RunsOf(j), F(x).at = "body"
  PROVE  /\ F(x).iter \in 1..Extent[j] /\ F(x).iter <= F(x).last
         /\ serial(j) => /\ work[j].min < F(x).iter /\ F(x).last <= work[j].min + work[j].extent
                         /\ RunsOf(j) = {x}
         /\ ~serial(j) => F(x).iter = F(x).last /\ 1 <= F(x).iter /\ F(x).iter <= work[j].min
<1>1. /\ Extent[j] \in Nat /\ work[j].min \in Nat /\ work[j].extent \in Nat
      /\ work[j].min + work[j].extent <= Extent[j]
      /\ F(x).last \in Nat /\ F(x).iter \in Nat /\ F(x).iter <= F(x).last
  BY DEF JobTyped, JobRight, Placed, RunsRight
<1>2. CASE serial(j)
  <2>1. /\ work[j].min < F(x).iter /\ F(x).last <= work[j].min + work[j].extent
        /\ RunsOf(j) = {x}
    BY <1>2 DEF JobRight, SerialRight
  <2> QED BY <1>1, <1>2, <2>1
<1>3. CASE ~serial(j)
  <2>1. F(x).last \in 1..work[j].min /\ F(x).iter \in {F(x).last, F(x).last + 1}
    BY <1>3 DEF JobRight, ParallelRight
  <2> QED BY <1>1, <1>3, <2>1
<1> QED BY <1>2, <1>3

LEMMA EndIterationRight ==
  ASSUME Right, NEW t \in Thread, EndIteration(t)
  PROVE  Right'
<1>0. Shape /\ Stacked /\ At(t, "body")
  BY DEF Right, Shape, Typed, EndIteration
<1>1. stack[t] # <<>> /\ Top(t) \in Run /\ Top(t).at = "body"
  BY SMTT(30), <1>0, TopIs DEF At, RunAt
<1>2. PICK j \in Job : j = Top(t).job
  BY <1>1, RunIs
<1>3. PICK x0 \in RunsOf(j) : x0 = Summit(t) /\ F(x0) = Top(t)
  BY SMTT(30), <1>0, <1>1, <1>2, PlacesIn
<1>4. PICK i \in Nat : i = Top(t).iter
  BY <1>1, RunIs
<1>5. JobTyped(j) /\ JobRight(j)
  BY <1>0, JobsAreTyped DEF Right
<1>6. /\ F(x0).iter = i /\ i <= F(x0).last /\ ~F(x0).failed /\ F(x0).at = "body"
  BY <1>1, <1>3, <1>4, <1>5 DEF JobRight, RunsRight
<1>7. /\ Extent[j] \in Nat /\ work[j].min \in Nat /\ work[j].extent \in Nat
      /\ work[j].min + work[j].extent <= Extent[j]
      /\ F(x0).last \in Nat /\ \A n \in 1..Extent[j] : ran[j][n] \in {0, 1}
  BY <1>5 DEF JobTyped, JobRight, Placed
<1>8. /\ serial(j) => /\ work[j].min < i /\ F(x0).last <= work[j].min + work[j].extent
                      /\ RunsOf(j) = {x0}
      /\ ~serial(j) => i = F(x0).last /\ 1 <= i /\ i <= work[j].min
      /\ i \in 1..Extent[j]
  BY <1>5, <1>6, BodyIs
<1>9. i \in 1..Extent[j] /\ ran[j][i] = 0
  <2>1. i \in 1..Extent[j]
    BY <1>8
  <2>2. ~(ran[j][i] = 1)
    <3>1. CASE serial(j)
      <4>1. ran[j][i] = 1 => i <= work[j].min \/ i < F(x0).iter
        BY <1>5, <1>8, <2>1, <3>1 DEF JobRight, SerialRight
      <4> QED BY <1>6, <1>7, <1>8, <3>1, <4>1
    <3>2. CASE ~serial(j)
      <4>1. ran[j][i] = 1 => (F(x0).last = i => F(x0).iter = i + 1)
        BY <1>5, <2>1, <3>2 DEF JobRight, ParallelRight
      <4> QED BY <1>6, <1>8, <3>2, <4>1
    <3> QED BY <3>1, <3>2
  <2> QED BY <1>7, <2>1, <2>2
<1>10. /\ Shape' /\ LoopsKept /\ work' = work /\ jobs' = jobs /\ program' = program /\ result' = result
       /\ ran' = [ran EXCEPT ![j] = [ran[j] EXCEPT ![i] = 1]]
       /\ \E f \in Run : /\ Edited(t, f) /\ f.iter = i + 1
                         /\ f.last = Top(t).last /\ f.step = 1 /\ f.failed = Top(t).failed
                         /\ f.at = IF i < Top(t).last THEN "body"
                                   ELSE IF serial(j) THEN "batch" ELSE "finish"
  BY <1>0, <1>2, <1>4, <1>9, EndIterationEdits
<1>11. PICK f \in Run : /\ Edited(t, f) /\ f.iter = i + 1
                        /\ f.last = Top(t).last /\ f.step = 1 /\ f.failed = Top(t).failed
                        /\ f.at = IF i < Top(t).last THEN "body"
                                  ELSE IF serial(j) THEN "batch" ELSE "finish"
  BY <1>10
<1>12. /\ \A l \in Job \ {j} : ran'[l] = ran[l]
       /\ ran'[j][i] = 1 /\ \A n \in 1..Extent[j] : n # i => ran'[j][n] = ran[j][n]
  <2>1. ran \in [Job -> UNION {[1..Extent[h] -> {0, 1}] : h \in Job}] /\ ran[j] \in [1..Extent[j] -> {0, 1}]
    BY <1>0 DEF Shape, Typed
  <2> QED BY <1>9, <1>10, <2>1
<1>13. WorkKept
  BY <1>0, <1>10, WorkIsTyped, WorkSame
<1>14. /\ \A l \in Job \ {j} : JobStays(l)
       /\ \E x \in RunsOf(j) : /\ x \in Frames /\ F(x)' = f /\ F(x) = Top(t) /\ (Under(x)' <=> Under(x))
                               /\ \A y \in RunsOf(j) \ {x} : F(y)' = F(y) /\ (Under(y)' <=> Under(y))
  BY <1>0, <1>2, <1>10, <1>11, <1>12, <1>13, EditedOthers
<1>15. PICK x \in RunsOf(j) : /\ x \in Frames /\ F(x)' = f /\ F(x) = Top(t) /\ (Under(x)' <=> Under(x))
                              /\ \A y \in RunsOf(j) \ {x} : F(y)' = F(y) /\ (Under(y)' <=> Under(y))
  BY <1>14
<1>16. /\ F(x).iter = i /\ i <= F(x).last /\ F(x).last \in Nat /\ F(x).last = F(x0).last
       /\ F(x)'.iter = i + 1 /\ F(x)'.last = F(x).last /\ F(x)'.step = 1 /\ ~F(x)'.failed
       /\ F(x)'.at = IF i < F(x).last THEN "body" ELSE IF serial(j) THEN "batch" ELSE "finish"
  BY <1>3, <1>6, <1>7, <1>11, <1>15
<1>17. RunsOf(j)' = RunsOf(j)
  BY <1>11 DEF Edited
<1>18. Counted(j)' /\ Placed(j)' /\ Stray(j)'
  BY <1>5, <1>10, <1>17 DEF JobRight, Counted, Placed, Stray, serial, running, Waits, Has
<1>19. RunsRight(j)'
  <2>1. \A y \in RunsOf(j) \ {x} :
          /\ F(y)'.at \in {"body", "notify"} => F(y)'.iter <= F(y)'.last
          /\ F(y)'.at = "batch" => serial(j)
          /\ F(y)'.failed => F(y)'.at = "finish"
          /\ F(y)'.at = "finish" /\ ~F(y)'.failed => F(y)'.iter = F(y)'.last + 1
    BY <1>5, <1>15 DEF JobRight, RunsRight
  <2>2. /\ F(x)'.at \in {"body", "notify"} => F(x)'.iter <= F(x)'.last
        /\ F(x)'.at = "batch" => serial(j)
        /\ F(x)'.failed => F(x)'.at = "finish"
        /\ F(x)'.at = "finish" /\ ~F(x)'.failed => F(x)'.iter = F(x)'.last + 1
    BY <1>16
  <2> QED BY <1>17, <2>1, <2>2 DEF RunsRight, serial
<1>20. JobRight(j)'
  <2>1. CASE serial(j)
    <3>1. RunsOf(j) = {x} /\ work[j].min < i /\ F(x).last <= work[j].min + work[j].extent /\ work[j].extent > 0
      BY <1>7, <1>8, <1>16, <2>1
    <3>2. \A n \in 1..Extent[j] :
            /\ ran[j][n] = 1 => n <= work[j].min \/ n < i
            /\ work[j].min < n /\ n < i => ran[j][n] = 1
            /\ n <= work[j].min => ran[j][n] = 1
            /\ n > 1 /\ ran[j][n] = 1 => ran[j][n - 1] = 1
      BY <1>5, <1>16, <2>1, <3>1 DEF JobRight, SerialRight
    <3>3. ASSUME NEW n \in 1..Extent[j]
          PROVE  /\ ran'[j][n] = 1 => n <= work[j].min \/ n < i + 1
                 /\ work[j].min < n /\ n < i + 1 => ran'[j][n] = 1
                 /\ n <= work[j].min => ran'[j][n] = 1
                 /\ n > 1 /\ ran'[j][n] = 1 => ran'[j][n - 1] = 1
      <4>1. CASE n = i
        <5>1. ASSUME n > 1 PROVE n - 1 \in 1..Extent[j] /\ n - 1 # i /\ ran[j][n - 1] = 1
          <6>1. n - 1 \in 1..Extent[j] /\ n - 1 # i /\ n - 1 < i
            BY <1>7, <4>1, <5>1
          <6>2. n - 1 <= work[j].min \/ work[j].min < n - 1
            BY <1>7, <6>1
          <6> QED BY <3>2, <6>1, <6>2
        <5> QED BY <1>7, <1>12, <3>1, <4>1, <5>1
      <4>2. CASE n # i
        <5>1. ran'[j][n] = ran[j][n] /\ (n < i + 1 <=> n < i)
          BY <1>12, <4>2
        <5>2. n > 1 => n - 1 \in 1..Extent[j] /\ (ran'[j][n - 1] = 1 \/ ran'[j][n - 1] = ran[j][n - 1])
          BY <1>7, <1>12
        <5> QED BY <3>2, <5>1, <5>2
      <4> QED BY <4>1, <4>2
    <3>4. /\ work'[j].min < F(x)'.last /\ F(x)'.last <= work'[j].min + work'[j].extent
          /\ work'[j].min < F(x)'.iter /\ F(x)'.iter <= F(x)'.last + 1
      BY <1>7, <1>10, <1>16, <3>1
    <3>5. \A n \in 1..Extent[j] :
            /\ ran'[j][n] = 1 => n <= work'[j].min \/ n < F(x)'.iter
            /\ work'[j].min < n /\ n < F(x)'.iter => ran'[j][n] = 1
            /\ n <= work'[j].min => ran'[j][n] = 1
            /\ n > 1 /\ ran'[j][n] = 1 => ran'[j][n - 1] = 1
      BY <1>10, <1>16, <3>3
    <3>6. RunsOf(j)' = {x}
      BY <1>17, <3>1
    <3>7. SerialRight(j)'
      BY <3>4, <3>5, <3>6 DEF SerialRight
    <3> QED BY <1>18, <1>19, <2>1, <3>7 DEF JobRight, serial
  <2>2. CASE ~serial(j)
    <3>1. ParallelRight(j) /\ i = F(x).last
      BY <1>5, <1>8, <1>16, <2>2 DEF JobRight
    <3>2. \A y \in RunsOf(j) \ {x} : F(y)' = F(y) /\ F(y).last # i
      BY <1>15, <3>1 DEF ParallelRight
    <3>3. \A y \in RunsOf(j) : /\ F(y)'.last = F(y).last /\ F(y)'.last \in 1..work[j].min
                               /\ F(y)'.iter \in {F(y)'.last, F(y)'.last + 1}
      BY <1>16, <3>1, <3>2 DEF ParallelRight
    <3>4. ASSUME NEW n \in 1..Extent[j], ran'[j][n] = 1
          PROVE  n <= work[j].min /\ \A y \in RunsOf(j) : F(y)'.last = n => F(y)'.iter = n + 1
      <4>1. CASE n = i
        BY <1>8, <1>16, <2>2, <3>2, <4>1
      <4>2. CASE n # i
        <5>1. ran[j][n] = 1
          BY <1>12, <3>4, <4>2
        <5> QED BY <1>16, <3>1, <3>2, <4>2, <5>1 DEF ParallelRight
      <4> QED BY <4>1, <4>2
    <3>5. ASSUME NEW n \in 1..Extent[j], n <= work[j].min, ran'[j][n] = 0
          PROVE  work[j].exit_status # 0 \/ \E y \in RunsOf(j) : F(y)'.last = n /\ F(y)'.iter = n
      <4>1. n # i /\ ran[j][n] = 0
        BY <1>12, <3>5
      <4> QED BY <3>1, <3>2, <3>5, <4>1 DEF ParallelRight
    <3>6. ParallelRight(j)'
      BY <1>10, <1>17, <3>1, <3>3, <3>4, <3>5 DEF ParallelRight
    <3> QED BY <1>18, <1>19, <2>2, <3>6 DEF JobRight, serial
  <2> QED BY <2>1, <2>2
<1>21. JobJoins(j)
  <2>1. \A n \in 1..Extent[j] : ran[j][n] = 1 => ran'[j][n] = 1
    BY <1>12
  <2> QED BY <1>10, <2>1 DEF JobJoins, running
<1>22. JobPasses(j)
  <2> SUFFICES ASSUME NEW n \in DOMAIN Body[j], NEW s \in DOMAIN Body[j][n], Passed(j, n, s)
               PROVE  Passed(j, n, s)'
    BY DEF JobPasses
  <2>1. n \in Nat /\ s \in Nat
    BY StepsAreNumbers
  <2>2. ~Behind(x, n, s)'
    <3>1. ~Behind(x, n, s)
      BY DEF Passed
    <3> QED BY <1>16, <2>1, <3>1 DEF Behind
  <2>3. \A y \in RunsOf(j) \ {x} : ~Behind(y, n, s)' /\ F(y)'.last = F(y).last
    BY <1>15 DEF Passed, Behind
  <2> QED BY <1>10, <1>16, <1>17, <2>2, <2>3 DEF Passed
<1>23. Distinct(jobs')
  BY <1>10 DEF Right
<1> QED BY <1>10, <1>14, <1>20, <1>21, <1>22, <1>23, OthersRight

\* The end of a run of job j by thread t, when it was run x.
LEMMA FinishedJob ==
  ASSUME Right, Shape', NEW t \in Thread, NEW j \in Job, Finishes(t, j), ran' = ran,
         NEW x \in RunsOf(j), x = Summit(t)
  PROVE  Distinct(jobs') /\ JobRight(j)' /\ JobJoins(j) /\ JobPasses(j)
         /\ \A l \in Job \ {j} : JobStays(l)
<1> DEFINE e == Left(j, Top(t))
           m == MinAfter(j, Top(t).last)
<1>1. JobTyped(j) /\ JobTyped(j)' /\ JobRight(j) /\ jobs \in Seq(Job) /\ Distinct(jobs)
  BY JobsAreTyped, JobsAreTypedNext DEF Right, Shape, Typed
<1>2. /\ F(x) = Top(t) /\ F(x).at = "finish"
      /\ RunsOf(j)' = RunsOf(j) \ {x}
      /\ \A l \in Job \ {j} : RunsOf(l)' = RunsOf(l)
      /\ \A l \in Job : \A y \in RunsOf(l) \ {x} : F(y)' = F(y) /\ Turned(y)
      /\ \A l \in Job \ {j} : x \notin RunsOf(l)
  <2>1. F(Summit(t)) = Top(t) /\ Top(t).at = "finish" /\ Removed(t, j)
    BY DEF Finishes
  <2>2. Stacked
    BY DEF Right, Shape, Typed
  <2>3. \A l \in Job \ {j} : x \notin RunsOf(l)
    BY <2>2, PlacesIn
  <2> QED BY <2>1, <2>3 DEF Removed
<1>3. /\ Writes(j, e, m, work[j].active_workers - 1)
      /\ F(x).failed => work'[j].exit_status # 0
      /\ jobs' = IF serial(j) /\ e > 0 THEN <<j>> \o jobs ELSE jobs
  BY <1>2 DEF Finishes
<1>4. /\ work[j].extent \in Nat /\ work[j].min \in Nat /\ work[j].active_workers \in Nat
      /\ work[j].active_workers > 0 /\ Extent[j] \in Nat
      /\ F(x).last \in Nat /\ F(x).iter \in Nat /\ F(x).failed \in BOOLEAN
      /\ work[j].min + work[j].extent <= Extent[j]
  BY <1>1, SomeRuns DEF JobTyped, JobRight, Placed
<1>5. /\ work'[j].extent = e /\ work'[j].min = m /\ work'[j].active_workers = work[j].active_workers - 1
      /\ work[j].exit_status # 0 => work'[j].exit_status # 0
  BY <1>3 DEF Writes
<1>6. ~F(x).failed => F(x).iter = F(x).last + 1
  BY <1>1, <1>2 DEF JobRight, RunsRight
<1>7. /\ serial(j) => /\ RunsOf(j) = {x} /\ work[j].active_workers = 1 /\ ~Waits(j)
                      /\ work[j].min < F(x).last /\ F(x).last <= work[j].min + work[j].extent
                      /\ work[j].min < F(x).iter /\ F(x).iter <= F(x).last + 1
      /\ ~serial(j) => F(x).last \in 1..work[j].min /\ F(x).iter \in {F(x).last, F(x).last + 1}
  <2>1. CASE serial(j)
    <3>1. RunsOf(j) = {x} /\ work[j].active_workers = 1 /\ ~Waits(j)
      BY <1>1, <1>4, <2>1 DEF JobRight, SerialRight, Placed
    <3> QED BY <1>1, <2>1, <3>1 DEF JobRight, SerialRight
  <2>2. CASE ~serial(j)
    BY <1>1, <2>2 DEF JobRight, ParallelRight
  <2> QED BY <2>1, <2>2
<1>8. IF serial(j) THEN /\ m = F(x).last
                        /\ e = IF F(x).failed THEN 0 ELSE work[j].extent - (F(x).last - work[j].min)
      ELSE m = work[j].min /\ e = work[j].extent
  BY <1>2 DEF Left, MinAfter
<1> HIDE DEF e, m
<1>9. e \in Nat /\ m \in Nat /\ m + e <= Extent[j] /\ (~F(x).failed => m + e = work[j].min + work[j].extent)
  <2>1. CASE serial(j)
    <3>1. CASE F(x).failed
      BY <1>4, <1>7, <1>8, <2>1, <3>1
    <3>2. CASE ~F(x).failed
      BY <1>4, <1>7, <1>8, <2>1, <3>2
    <3> QED BY <3>1, <3>2
  <2>2. CASE ~serial(j)
    BY <1>4, <1>8, <2>2
  <2> QED BY <2>1, <2>2
<1>10. /\ Distinct(jobs') /\ \A l \in Job \ {j} : Waits(l)' <=> Waits(l)
       /\ Waits(j)' <=> (IF serial(j) THEN e > 0 ELSE Waits(j))
  <2>1. CASE serial(j) /\ e > 0
    <3>1. jobs' = <<j>> \o jobs /\ ~Has(jobs, j)
      BY <1>3, <1>7, <2>1 DEF Waits
    <3>2. /\ Len(jobs) \in Nat /\ DOMAIN jobs = 1..Len(jobs) /\ DOMAIN jobs' = 1..Len(jobs) + 1
          /\ jobs'[1] = j /\ \A k \in 1..Len(jobs) : jobs'[k + 1] = jobs[k]
      BY <1>1, <3>1
    <3>3. \A k \in 1..Len(jobs) + 1 : k = 1 \/ (k - 1 \in 1..Len(jobs) /\ jobs'[k] = jobs[k - 1])
      <4>1. \A k \in 1..Len(jobs) + 1 : k = 1 \/ (k - 1 \in 1..Len(jobs) /\ (k - 1) + 1 = k)
        BY <3>2
      <4> QED BY <3>2, <4>1
    <3>4. Distinct(jobs')
      <4> SUFFICES ASSUME NEW k \in 1..Len(jobs) + 1, NEW n \in 1..Len(jobs) + 1, jobs'[k] = jobs'[n]
                   PROVE  k = n
        BY <3>2 DEF Distinct
      <4>1. k = 1 <=> n = 1
        BY <3>1, <3>2, <3>3 DEF Has
      <4>2. CASE k # 1
        <5>1. k - 1 = n - 1
          BY <1>1, <3>2, <3>3, <4>1, <4>2 DEF Distinct
        <5> QED BY <3>2, <5>1
      <4> QED BY <4>1, <4>2
    <3>5. Has(jobs', j)
      <4>1. 1 \in DOMAIN jobs'
        BY <3>2
      <4> QED BY <3>2, <4>1 DEF Has
    <3>6. \A l \in Job \ {j} : Has(jobs', l) <=> Has(jobs, l)
      <4>1. \A k \in 1..Len(jobs) : k + 1 \in DOMAIN jobs'
        BY <3>2
      <4> QED BY SMTT(30), <3>2, <3>3, <4>1 DEF Has
    <3> QED BY <2>1, <3>4, <3>5, <3>6 DEF Waits
  <2>2. CASE ~(serial(j) /\ e > 0)
    <3>1. jobs' = jobs
      BY <1>3, <2>2
    <3> QED BY <1>1, <1>7, <2>2, <3>1 DEF Waits
  <2> QED BY <2>1, <2>2
<1>11. \A l \in Job \ {j} : JobStays(l)
  <2>1. ASSUME NEW l \in Job \ {j} PROVE \A y \in RunsOf(l) : Turned(y)
    BY <1>2
  <2> QED BY <1>2, <1>3, <1>10, <2>1 DEF Writes, JobStays
<1>12. Counted(j)'
  <2>1. IsFiniteSet(RunsOf(j)) /\ work[j].active_workers = Cardinality(RunsOf(j))
    BY <1>1 DEF JobRight, Counted
  <2>2. IsFiniteSet(RunsOf(j) \ {x}) /\ Cardinality(RunsOf(j) \ {x}) = Cardinality(RunsOf(j)) - 1
    BY <2>1, FS_RemoveElement
  <2> QED BY <1>2, <1>5, <2>1, <2>2 DEF Counted
<1>13. Placed(j)'
  <2>1. /\ Waits(j) => work[j].extent > 0
        /\ ~serial(j) /\ work[j].extent > 0 => Waits(j)
    BY <1>1 DEF JobRight, Placed
  <2>2. CASE serial(j)
    BY <1>4, <1>5, <1>7, <1>9, <1>10, <2>2 DEF Placed, serial
  <2>3. CASE ~serial(j)
    BY <1>5, <1>8, <1>9, <1>10, <2>1, <2>3 DEF Placed, serial
  <2> QED BY <2>2, <2>3
<1>14. RunsRight(j)'
  BY <1>1, <1>2 DEF JobRight, RunsRight, serial
<1>15. Stray(j)'
  <2>1. running(j)
    BY <1>4 DEF running
  <2> QED BY <1>1, <2>1 DEF JobRight, Stray
<1>16. ASSUME serial(j) PROVE JobRight(j)'
  <2>1. RunsOf(j)' = {}
    BY <1>2, <1>7, <1>16
  <2>2. \A n \in 1..Extent[j] :
          /\ ran[j][n] = 1 => n <= work[j].min \/ n < F(x).iter
          /\ work[j].min < n /\ n < F(x).iter => ran[j][n] = 1
          /\ n <= work[j].min => ran[j][n] = 1
          /\ n > 1 /\ ran[j][n] = 1 => ran[j][n - 1] = 1
    <3>1. work[j].extent > 0
      BY <1>4, <1>7, <1>16
    <3> QED BY <1>1, <1>7, <1>16, <3>1 DEF JobRight, SerialRight
  <2>3. ASSUME NEW n \in 1..Extent[j]
        PROVE  /\ ran[j][n] = 1 => n <= F(x).last
               /\ ~F(x).failed /\ n <= F(x).last => ran[j][n] = 1
    BY <1>4, <1>6, <1>7, <1>16, <2>2
  <2>4. e > 0 => ~F(x).failed
    BY <1>8, <1>16
  <2>5. /\ \A n \in 1..Extent[j] :
             /\ ran'[j][n] = 1 => n <= work'[j].min
             /\ work'[j].extent > 0 /\ n <= work'[j].min => ran'[j][n] = 1
             /\ n <= work'[j].min /\ ran'[j][n] = 0 => work'[j].exit_status # 0
             /\ n > 1 /\ ran'[j][n] = 1 => ran'[j][n - 1] = 1
    BY <1>3, <1>5, <1>8, <1>16, <2>2, <2>3, <2>4
  <2>6. SerialRight(j)'
    BY <2>1, <2>5 DEF SerialRight
  <2> QED BY <1>12, <1>13, <1>14, <1>15, <1>16, <2>6 DEF JobRight, serial
<1>17. ASSUME ~serial(j) PROVE JobRight(j)'
  <2>1. ParallelRight(j) /\ m = work[j].min
    BY <1>1, <1>8, <1>17 DEF JobRight
  <2>2. \A y \in RunsOf(j)' : y \in RunsOf(j) /\ F(y)' = F(y)
    BY <1>2
  <2>3. ASSUME NEW n \in 1..Extent[j], n <= work[j].min, ran[j][n] = 0
        PROVE  work'[j].exit_status # 0 \/ \E y \in RunsOf(j)' : F(y)'.last = n /\ F(y)'.iter = n
    <3>1. CASE work[j].exit_status # 0
      BY <1>5, <3>1
    <3>2. CASE \E y \in RunsOf(j) : F(y).last = n /\ F(y).iter = n
      <4>1. PICK y \in RunsOf(j) : F(y).last = n /\ F(y).iter = n
        BY <3>2
      <4>2. CASE y = x
        BY <1>3, <1>6, <4>1, <4>2
      <4>3. CASE y # x
        BY <1>2, <4>1, <4>3
      <4> QED BY <4>2, <4>3
    <3> QED BY <2>1, <2>3, <3>1, <3>2 DEF ParallelRight
  <2>4. ParallelRight(j)'
    BY <1>5, <2>1, <2>2, <2>3 DEF ParallelRight
  <2> QED BY <1>12, <1>13, <1>14, <1>15, <1>17, <2>4 DEF JobRight, serial
<1>18. JobJoins(j)
  <2>1. running(j)
    BY <1>4 DEF running
  <2>2. work'[j].exit_status = 0 =>
          work[j].exit_status = 0 /\ work'[j].min + work'[j].extent = work[j].min + work[j].extent
    BY <1>3, <1>5, <1>9
  <2> QED BY <1>4, <2>1, <2>2 DEF JobJoins
<1>19. JobPasses(j)
  <2> SUFFICES ASSUME NEW n \in DOMAIN Body[j], NEW s \in DOMAIN Body[j][n], Passed(j, n, s)
               PROVE  Passed(j, n, s)'
    BY DEF JobPasses
  <2>1. n \in Nat /\ s \in Nat
    BY StepsAreNumbers
  <2>2. n <= work'[j].min \/ \E y \in RunsOf(j)' : n <= F(y)'.last
    <3>1. CASE n <= work[j].min
      BY <1>4, <1>5, <1>7, <1>8, <2>1, <3>1
    <3>2. CASE \E y \in RunsOf(j) : n <= F(y).last
      <4>1. PICK y \in RunsOf(j) : n <= F(y).last
        BY <3>2
      <4>2. CASE y = x
        BY <1>4, <1>5, <1>7, <1>8, <2>1, <4>1, <4>2
      <4>3. CASE y # x
        BY <1>2, <4>1, <4>3
      <4> QED BY <4>2, <4>3
    <3> QED BY <3>1, <3>2 DEF Passed
  <2>3. ASSUME NEW y \in RunsOf(j) \ {x}, Behind(y, n, s)' PROVE FALSE
    <3>1. F(y)' = F(y) /\ (Under(y) => Under(y)' \/ F(y)'.step > F(y).step)
      BY <1>1, <1>2, TurnedIs DEF JobTyped
    <3>2. ~(F(y).step > F(y).step)
      BY <1>1 DEF JobTyped
    <3>3. ~Behind(y, n, s)
      BY DEF Passed
    <3> QED BY <2>3, <3>1, <3>2, <3>3 DEF Behind
  <2> QED BY <1>2, <2>2, <2>3 DEF Passed
<1> QED BY <1>10, <1>11, <1>16, <1>17, <1>18, <1>19

LEMMA FinishIs ==
  ASSUME Right, NEW t \in Thread, Finish(t)
  PROVE  \E j \in Job : \E x \in RunsOf(j) :
           /\ x = Summit(t) /\ F(x) = Top(t) /\ Finishes(t, j)
           /\ Shape' /\ LoopsKept /\ ran' = ran /\ program' = program /\ result' = result
<1>1. Shape /\ Stacked /\ At(t, "finish")
  BY DEF Right, Shape, Typed, Finish
<1>2. stack[t] # <<>> /\ Top(t) \in Run /\ Top(t).at = "finish"
  BY SMTT(30), <1>1, TopIs DEF At, RunAt
<1>3. PICK j \in Job : j = Top(t).job
  BY <1>2, RunIs
<1>4. PICK x \in RunsOf(j) : x = Summit(t) /\ F(x) = Top(t)
  BY <1>1, <1>2, <1>3, PlacesIn
<1>5. JobTyped(j) /\ JobRight(j)
  BY <1>1, JobsAreTyped DEF Right
<1>6. work[j].active_workers > 0
  BY <1>5, SomeRuns DEF JobTyped, JobRight
<1>7. Left(j, Top(t)) \in Nat
  <2>1. serial(j) => work[j].min < F(x).last /\ F(x).last <= work[j].min + work[j].extent
    BY <1>5 DEF JobRight, SerialRight
  <2>2. work[j].extent \in Nat /\ work[j].min \in Nat /\ F(x).last \in Nat
    BY <1>5 DEF JobTyped
  <2>3. serial(j) => work[j].extent - (F(x).last - work[j].min) \in Nat
    BY <2>1, <2>2
  <2> QED BY <1>4, <2>2, <2>3 DEF Left
<1>8. /\ Shape' /\ LoopsKept /\ ran' = ran /\ program' = program /\ result' = result /\ Finishes(t, j)
  BY <1>1, <1>3, <1>6, <1>7, FinishFinishes
<1> QED BY SMTT(30), <1>4, <1>8

LEMMA FinishRight ==
  ASSUME Right, NEW t \in Thread, Finish(t)
  PROVE  Right'
<1>0. PICK j \in Job : \E x \in RunsOf(j) :
        /\ x = Summit(t) /\ F(x) = Top(t) /\ Finishes(t, j)
        /\ Shape' /\ LoopsKept /\ ran' = ran /\ program' = program /\ result' = result
  BY FinishIs
<1>1. PICK x \in RunsOf(j) :
        /\ x = Summit(t) /\ F(x) = Top(t) /\ Finishes(t, j)
        /\ Shape' /\ LoopsKept /\ ran' = ran /\ program' = program /\ result' = result
  BY <1>0
<1>2. Distinct(jobs') /\ JobRight(j)' /\ JobJoins(j) /\ JobPasses(j) /\ \A l \in Job \ {j} : JobStays(l)
  BY <1>1, FinishedJob
<1> QED BY <1>1, <1>2, OthersRight

LEMMA ResultsKept ==
  ASSUME Results, NEW t \in Thread, Joined(t), Top(t).group \in Group
  PROVE  Results'
<1> DEFINE js == Prepared(Top(t).group)
<1>1. result' = result \/ \E v \in {"ok", "error"} : result' = [result EXCEPT ![Top(t).group] = v]
  <2>1. CASE Top(t).index < Len(js)
    BY <2>1 DEF Joined
  <2>2. CASE ~(Top(t).index < Len(js))
    <3>1. result' = [result EXCEPT ![Top(t).group] =
                       IF \E k \in DOMAIN js : work[js[k]].exit_status # 0 THEN "error" ELSE "ok"]
      BY <2>2 DEF Joined
    <3> QED BY <3>1
  <2> QED BY <2>1, <2>2
<1> QED BY <1>1 DEF Results

\* A task that is done without failure has run all its iterations.
LEMMA DoneRan ==
  ASSUME NEW j \in Job, JobTyped(j), JobRight(j), ~running(j), work[j].exit_status = 0,
         work[j].min + work[j].extent = Extent[j]
  PROVE  \A i \in 1..Extent[j] : ran[j][i] = 1
<1>1. /\ work[j].extent = 0 /\ work[j].active_workers = 0 /\ work[j].min = Extent[j] /\ Extent[j] \in Nat
      /\ \A i \in 1..Extent[j] : ran[j][i] \in {0, 1}
  BY DEF running, JobTyped
<1>2. RunsOf(j) = {}
  BY <1>1, NoRuns DEF JobRight
<1> SUFFICES ASSUME NEW i \in 1..Extent[j] PROVE ran[j][i] # 0
  BY <1>1
<1>3. i <= work[j].min
  BY <1>1
<1>4. CASE serial(j)
  BY <1>3, <1>4 DEF JobRight, SerialRight
<1>5. CASE ~serial(j)
  BY <1>2, <1>3, <1>5 DEF JobRight, ParallelRight
<1> QED BY <1>4, <1>5

LEMMA JoinedRight ==
  ASSUME Right, NEW t \in Thread, Joined(t)
  PROVE  Right'
<1>0. Shape /\ Stacked /\ Results /\ result \in [Group -> {"none", "ok", "error"}]
  BY DEF Right, Shape, Typed, Results
<1>1. /\ Shape' /\ RunsKept /\ WorkKept
      /\ jobs' = jobs /\ ran' = ran /\ program' = program
      /\ stack[t] # <<>> /\ Top(t) \in Loop /\ Top(t).group \in Group
      /\ Owned(t) = Prepared(Top(t).group)[Top(t).index] /\ ~running(Owned(t))
      /\ Top(t).index \in DOMAIN Prepared(Top(t).group)
      /\ Advances(t) \/ Returns(t)
  BY <1>0, JoinedReturns
<1>2. PICK g \in Group : g = Top(t).group
  BY <1>1
<1>3. Summit(t) \in LoopsOf(g) /\ F(Summit(t)) = Top(t) /\ \A h \in Group \ {g} : Summit(t) \notin LoopsOf(h)
  BY <1>0, <1>1, <1>2, PlacesIn
<1>4. PICK x0 \in LoopsOf(g) : x0 = Summit(t)
  BY <1>3
<1>5. PICK n \in DOMAIN Prepared(g) : n = Top(t).index /\ n \in Nat /\ ~running(Prepared(g)[n]) /\ F(x0).index = n
  BY <1>1, <1>2, <1>3, <1>4, PreparedAre
<1>6. \A j \in Job : JobStays(j)
  BY <1>1 DEF RunsKept, WorkKept, JobStays, Waits, Has
<1>7. \A j \in Job : JobTyped(j) /\ JobRight(j) /\ JobRight(j)' /\ JobJoins(j) /\ JobPasses(j)
  BY <1>1, <1>6, StaysAll, JobsAreTyped DEF Right
<1>8. \A h \in Group : /\ LoopsOf(h)' \subseteq LoopsOf(h)
                       /\ \A x \in LoopsOf(h)' : \/ F(x)'.index = F(x).index
                                                 \/ h = g /\ F(x).index = n /\ F(x)'.index = n + 1
  <2>1. CASE Advances(t)
    BY <1>3, <1>4, <1>5, <2>1 DEF Advances
  <2>2. CASE Returns(t)
    BY <2>2 DEF Returns
  <2> QED BY <1>1, <2>1, <2>2
<1>9. ASSUME NEW h \in Group PROVE GroupRight(h)'
  <2>1. Joins(h) /\ (Called(h) \/ Fresh(h))
    BY DEF Right, GroupRight
  <2>2. \A k \in DOMAIN Prepared(h) : \A j : j = Prepared(h)[k] =>
          /\ j \in Job
          /\ running(j)' => running(j)
          /\ work'[j].exit_status = 0 =>
               work[j].exit_status = 0 /\ work'[j].min + work'[j].extent = work[j].min + work[j].extent
    BY <1>7, PreparedJobs DEF JobJoins
  <2>3. ASSUME NEW x \in LoopsOf(h)', NEW k \in DOMAIN Prepared(h), k < F(x)'.index
        PROVE  ~running(Prepared(h)[k])'
    <3>1. ~running(Prepared(h)[k])
      <4>1. CASE F(x)'.index = F(x).index
        BY <1>8, <2>1, <2>3, <4>1 DEF Joins
      <4>2. CASE h = g /\ F(x).index = n /\ F(x)'.index = n + 1
        <5>1. k \in Nat
          BY PreparedAre
        <5>2. k < n \/ k = n
          BY <1>5, <2>3, <4>2, <5>1
        <5> QED BY <1>5, <1>8, <2>1, <4>2, <5>2 DEF Joins
      <4> QED BY <1>8, <4>1, <4>2
    <3> QED BY <2>2, <3>1
  <2>4. LoopsOf(h)' # {} => \A k \in DOMAIN Prepared(h) :
          work'[Prepared(h)[k]].exit_status = 0 =>
            work'[Prepared(h)[k]].min + work'[Prepared(h)[k]].extent = Extent[Prepared(h)[k]]
    BY <1>8, <2>1, <2>2 DEF Joins
  <2>5. Returns(t) /\ h = g => \A k \in DOMAIN Prepared(h) : ~running(Prepared(h)[k])
    <3> SUFFICES ASSUME Returns(t), h = g, NEW k \in DOMAIN Prepared(g) PROVE ~running(Prepared(g)[k])
      OBVIOUS
    <3>1. k \in Nat /\ k <= Len(Prepared(g)) /\ n = Len(Prepared(g))
      BY <1>2, <1>5, PreparedAre DEF Returns
    <3>2. k < n \/ k = n
      BY <1>5, <3>1
    <3> QED BY <1>5, <2>1, <3>2 DEF Joins
  <2>6. ASSUME NEW k \in DOMAIN Prepared(h), running(Prepared(h)[k])' PROVE LoopsOf(h)' # {}
    <3>1. running(Prepared(h)[k])
      BY <2>2, <2>6
    <3>2. LoopsOf(h) # {}
      BY <2>1, <3>1 DEF Joins
    <3>3. CASE Advances(t)
      BY <3>2, <3>3 DEF Advances
    <3>4. CASE Returns(t)
      <4>1. h # g
        BY <2>5, <3>1, <3>4
      <4>2. LoopsOf(h)' = LoopsOf(h) \ {Summit(t)} /\ Summit(t) \notin LoopsOf(h)
        BY <1>3, <3>4, <4>1 DEF Returns
      <4> QED BY <3>2, <4>2
    <3> QED BY <1>1, <3>3, <3>4
  <2>7. ASSUME result'[h] = "ok", NEW k \in DOMAIN Prepared(h)
        PROVE  \A i \in 1..Extent[Prepared(h)[k]] : ran'[Prepared(h)[k]][i] = 1
    <3>1. CASE result[h] = "ok"
      BY <1>1, <2>1, <3>1 DEF Joins
    <3>2. CASE result[h] # "ok"
      <4>1. Returns(t)
        BY <1>1, <2>7, <3>2 DEF Advances
      <4>2. h = g /\ work[Prepared(g)[k]].exit_status = 0
        BY <1>2, <2>7, <3>2, <4>1 DEF Returns
      <4>3. PICK j \in Job : j = Prepared(g)[k]
        BY <2>2, <4>2
      <4>4. ~running(j) /\ work[j].exit_status = 0 /\ work[j].min + work[j].extent = Extent[j]
        BY <1>4, <2>1, <2>5, <4>1, <4>2, <4>3 DEF Joins
      <4>5. \A i \in 1..Extent[j] : ran[j][i] = 1
        BY <1>7, <4>4, DoneRan
      <4> QED BY <1>1, <4>2, <4>3, <4>5
    <3> QED BY <3>1, <3>2
  <2>8. Joins(h)'
    BY <2>3, <2>4, <2>6, <2>7 DEF Joins
  <2>9. Called(h) => Called(h)'
    <3>1. \A c \in Caller : Gone(c) <= Gone(c)'
      BY <1>0, <1>1, SameSuffixes, GoneIs DEF Shape
    <3> QED BY <1>0, <1>1, <1>7, <3>1, CalledStays DEF Shape
  <2>10. Fresh(h) => Fresh(h)'
    <3> SUFFICES ASSUME Fresh(h) PROVE Fresh(h)'
      OBVIOUS
    <3>1. LoopsOf(h)' = LoopsOf(h)
      BY <1>8 DEF Fresh
    <3> QED BY <1>7, <3>1, FreshStays
  <2> QED BY <2>1, <2>8, <2>9, <2>10 DEF GroupRight
<1>10. Distinct(jobs') /\ Results'
  BY <1>0, <1>1, ResultsKept DEF Right
<1> QED BY <1>1, <1>7, <1>9, <1>10 DEF Right

LEMMA ConcatIs ==
  ASSUME NEW S, NEW s \in Seq(S), NEW u \in Seq(S)
  PROVE  /\ \A x : Has(s \o u, x) <=> Has(s, x) \/ Has(u, x)
         /\ Distinct(s) /\ Distinct(u) /\ (\A x : ~(Has(s, x) /\ Has(u, x))) => Distinct(s \o u)
<1> DEFINE w == s \o u
           m == Len(s)
           n == Len(u)
<1>1. /\ m \in Nat /\ n \in Nat /\ DOMAIN s = 1..m /\ DOMAIN u = 1..n /\ DOMAIN w = 1..m + n
      /\ \A k \in 1..m : w[k] = s[k]
      /\ \A k \in 1..n : w[m + k] = u[k]
  OBVIOUS
<1> HIDE DEF m, n, w
<1>2. ASSUME NEW k \in 1..m + n, k \notin 1..m
      PROVE  k - m \in 1..n /\ w[k] = u[k - m]
  <2>1. k - m \in 1..n /\ m + (k - m) = k
    BY <1>1, <1>2
  <2> QED BY <1>1, <2>1
<1>3. \A k \in 1..m : k \in 1..m + n
  BY <1>1
<1>4. \A k \in 1..n : m + k \in 1..m + n
  BY <1>1
<1>5. \A x : Has(w, x) <=> Has(s, x) \/ Has(u, x)
  BY <1>1, <1>2, <1>3, <1>4 DEF Has
<1>6. ASSUME Distinct(s), Distinct(u), \A x : ~(Has(s, x) /\ Has(u, x)), NEW k \in 1..m + n, NEW l \in 1..m + n,
             w[k] = w[l]
      PROVE  k = l
  <2>1. ASSUME NEW a \in 1..m + n, NEW b \in 1..m + n, a \in 1..m, b \notin 1..m, w[a] = w[b] PROVE FALSE
    <3>1. Has(s, w[a])
      BY <1>1, <2>1 DEF Has
    <3>2. Has(u, w[b])
      BY <1>1, <1>2, <2>1 DEF Has
    <3> QED BY <1>6, <2>1, <3>1, <3>2
  <2>2. k \in 1..m <=> l \in 1..m
    BY <1>6, <2>1
  <2>3. CASE k \in 1..m
    BY <1>1, <1>6, <2>2, <2>3 DEF Distinct
  <2>4. CASE k \notin 1..m
    <3>1. k - m \in 1..n /\ l - m \in 1..n /\ u[k - m] = u[l - m]
      BY <1>2, <1>6, <2>2, <2>4
    <3>2. k - m = l - m
      BY <1>1, <1>6, <3>1 DEF Distinct
    <3> QED BY <1>1, <3>2
  <2> QED BY <2>3, <2>4
<1>7. Distinct(s) /\ Distinct(u) /\ (\A x : ~(Has(s, x) /\ Has(u, x))) => Distinct(w)
  BY <1>1, <1>6 DEF Distinct
<1> QED BY <1>5, <1>7 DEF w

\* A call of group g that was not made before.
LEMMA EnqueuedRight ==
  ASSUME Right, Shape', NEW t \in Thread, NEW g \in Group, Prepared(g) # <<>>, Enqueues(t, g), Fresh(g),
         ran' = ran, result' = result, \A c \in Caller : Gone(c) <= Gone(c)', Called(g)'
  PROVE  Right'
<1>1. /\ \A l \in Job : RunsOf(l)' = RunsOf(l) /\ \A x \in RunsOf(l) : Turned(x) /\ F(x)' = F(x)
      /\ LoopsOf(g)' = LoopsOf(g) \union {Above(t)} /\ \A h \in Group \ {g} : LoopsOf(h)' = LoopsOf(h)
      /\ \A h \in Group : \A x \in LoopsOf(h) : F(x)'.index = F(x).index
      /\ \A x : x = Above(t) => F(x)'.index = 1
      /\ jobs' = Prepared(g) \o jobs
      /\ WorkTyped'
      /\ \A j \in Job : IF Has(Prepared(g), j)
                        THEN work'[j].extent = Extent[j] /\ work'[j].min = 0 /\ work'[j].active_workers = 0
                        ELSE work'[j] = work[j]
  BY DEF Enqueues
<1>2. \A j \in Job : JobTyped(j) /\ JobTyped(j)' /\ JobRight(j)
  BY JobsAreTyped, JobsAreTypedNext DEF Right
<1>3. /\ Prepared(g) \in Seq(Job) /\ jobs \in Seq(Job) /\ Distinct(jobs) /\ Distinct(Prepared(g))
  <2>1. Distinct(Prepared(g))
    BY OnePlace DEF Distinct
  <2> QED BY <2>1, PreparedAre DEF Right, Shape, Typed
<1>4. ASSUME NEW j \in Job, Has(Prepared(g), j)
      PROVE  /\ work[j].extent = 0 /\ work[j].min = 0 /\ work[j].active_workers = 0
             /\ Extent[j] \in Nat /\ Extent[j] > 0
             /\ ~Waits(j) /\ RunsOf(j) = {}
             /\ \A i \in 1..Extent[j] : ran[j][i] = 0
  <2>1. PICK k \in DOMAIN Prepared(g) : Prepared(g)[k] = j
    BY <1>4 DEF Has
  <2>2. work[j].extent = 0 /\ work[j].min = 0 /\ work[j].active_workers = 0 /\ Extent[j] > 0
    BY <2>1, PreparedAre DEF Fresh
  <2>3. RunsOf(j) = {}
    BY <1>2, <2>2, NoRuns DEF JobRight
  <2>4. ~Waits(j)
    BY <1>2, <2>2 DEF JobRight, Placed
  <2>5. ASSUME NEW i \in 1..Extent[j] PROVE ran[j][i] # 1
    <3>1. ~(i <= work[j].min)
      BY <2>2
    <3>2. CASE serial(j)
      BY <1>2, <2>3, <3>1, <3>2 DEF JobRight, SerialRight
    <3>3. CASE ~serial(j)
      BY <1>2, <3>1, <3>3 DEF JobRight, ParallelRight
    <3> QED BY <3>2, <3>3
  <2> QED BY <1>2, <2>2, <2>3, <2>4, <2>5 DEF JobTyped
<1>5. /\ Distinct(jobs') /\ \A j : Has(jobs', j) <=> Has(Prepared(g), j) \/ Has(jobs, j)
  <2>1. \A j : Has(Prepared(g), j) => j \in Job
    BY PreparedJobs DEF Has
  <2>2. \A j : ~(Has(Prepared(g), j) /\ Has(jobs, j))
    BY <1>4, <2>1 DEF Waits
  <2> QED BY <1>1, <1>3, <2>2, ConcatIs
<1>6. ASSUME NEW j \in Job, ~Has(Prepared(g), j) PROVE JobStays(j)
  BY <1>1, <1>5, <1>6 DEF JobStays, Waits
<1>7. ASSUME NEW j \in Job, Has(Prepared(g), j) PROVE JobRight(j)' /\ JobPasses(j)
  <2>1. /\ work'[j].extent = Extent[j] /\ work'[j].min = 0 /\ work'[j].active_workers = 0
        /\ RunsOf(j)' = {} /\ Waits(j)' /\ Extent[j] \in Nat /\ Extent[j] > 0
        /\ \A i \in 1..Extent[j] : ran'[j][i] = 0
    BY <1>1, <1>4, <1>5, <1>7 DEF Waits
  <2>2. Counted(j)'
    BY <2>1, FS_EmptySet DEF Counted
  <2>3. Placed(j)' /\ RunsRight(j)'
    BY <2>1 DEF Placed, RunsRight
  <2>4. Stray(j)'
    BY <1>7 DEF Stray
  <2>5. \A i \in 1..Extent[j] : ~(i <= work'[j].min)
    BY <2>1
  <2>6. SerialRight(j)'
    BY <2>1, <2>5 DEF SerialRight
  <2>7. ParallelRight(j)'
    BY <2>1, <2>5 DEF ParallelRight
  <2>8. JobPasses(j)
    <3>1. ASSUME NEW i \in DOMAIN Body[j], NEW s \in DOMAIN Body[j][i] PROVE ~Passed(j, i, s)
      BY <1>4, <1>7, StepsAreNumbers DEF Passed
    <3> QED BY <3>1 DEF JobPasses
  <2> QED BY <2>2, <2>3, <2>4, <2>6, <2>7, <2>8 DEF JobRight
<1>8. \A j \in Job : JobRight(j)' /\ JobPasses(j)
  BY <1>6, <1>7, StaysAll
<1>9. Joins(g)'
  <2>1. Joins(g) /\ LoopsOf(g) = {}
    BY DEF Right, GroupRight, Fresh
  <2>2. \A k \in DOMAIN Prepared(g) : \A j : j = Prepared(g)[k] =>
          j \in Job /\ work'[j].extent = Extent[j] /\ work'[j].min = 0 /\ Extent[j] \in Nat
    BY <1>1, <1>4, PreparedJobs
  <2>3. \A x \in LoopsOf(g)' : F(x)'.index = 1
    BY <1>1, <2>1
  <2>4. \A k \in DOMAIN Prepared(g) : ~(k < 1)
    BY PreparedAre
  <2>5. \A x \in LoopsOf(g)' : \A k \in DOMAIN Prepared(g) : k < F(x)'.index => ~running(Prepared(g)[k])'
    BY <2>3, <2>4
  <2>6. \A k \in DOMAIN Prepared(g) :
          work'[Prepared(g)[k]].min + work'[Prepared(g)[k]].extent = Extent[Prepared(g)[k]]
    BY <2>2
  <2>7. LoopsOf(g)' # {}
    BY <1>1
  <2>8. result'[g] = "ok" =>
          \A k \in DOMAIN Prepared(g) : \A i \in 1..Extent[Prepared(g)[k]] : ran'[Prepared(g)[k]][i] = 1
    BY <2>1 DEF Joins
  <2> QED BY <2>5, <2>6, <2>7, <2>8 DEF Joins
<1>10. ASSUME NEW h \in Group \ {g} PROVE Joins(h)' /\ (Fresh(h) => Fresh(h)')
  <2>1. \A k \in DOMAIN Prepared(h) : work'[Prepared(h)[k]] = work[Prepared(h)[k]]
    <3>1. \A k \in DOMAIN Prepared(h) : Prepared(h)[k] \in Job /\ ~Has(Prepared(g), Prepared(h)[k])
      BY PreparedJobs, OnePlace DEF Has
    <3> QED BY <1>1, <3>1
  <2>2. Joins(h) /\ LoopsOf(h)' = LoopsOf(h) /\ \A x \in LoopsOf(h) : F(x)'.index = F(x).index
    BY <1>1 DEF Right, GroupRight
  <2>3. \A k \in DOMAIN Prepared(h) : running(Prepared(h)[k])' <=> running(Prepared(h)[k])
    BY <2>1 DEF running
  <2>4. Joins(h)'
    BY <2>1, <2>2, <2>3 DEF Joins
  <2>5. Fresh(h) => Fresh(h)'
    BY <2>1, <2>2 DEF Fresh
  <2> QED BY <2>4, <2>5
<1>11. ASSUME NEW h \in Group PROVE GroupRight(h)'
  <2>1. Called(h) => Called(h)'
    BY <1>8, CalledStays DEF Right, Shape
  <2> QED BY <1>9, <1>10, <2>1 DEF Right, GroupRight
<1>12. Results'
  BY DEF Right, Results
<1> QED BY <1>5, <1>8, <1>11, <1>12 DEF Right

\* A call writes the records of a group that was not called before.
Enters(t) ==
  \E g \in Group :
    /\ Prepared(g) # <<>> /\ Fresh(g) /\ Enqueues(t, g) /\ Called(g)'
    /\ ran' = ran /\ result' = result /\ \A c \in Caller : Gone(c) <= Gone(c)'
    /\ \E p : Enqueue(Prepared(g), p)

LEMMA CallGroupEnters ==
  ASSUME Right, NEW c \in Caller, CallGroup(c)
  PROVE  Shape' /\ Enters(c)
<1>1. Shape /\ Suffixes /\ c \in Thread
  BY DEF Right, Shape, Thread
<1>2. /\ stack[c] = <<>> /\ program[c] # <<>> /\ program' = [program EXCEPT ![c] = Tail(@)]
      /\ Head(program[c]).op = "run"
      /\ Prepared(Head(program[c]).group) # <<>>
      /\ Enqueue(Prepared(Head(program[c]).group), NULL) /\ Started(c, Head(program[c]).group)
  BY DEF CallGroup
<1>3. PICK g \in Group : g = Head(program[c]).group
  <2>1. program[c] \in Seq(Entry)
    BY <1>1 DEF Suffixes
  <2>2. Head(program[c]) \in Entry
    BY <1>2, <2>1, TailOf
  <2> QED BY <1>2, <2>2, EntryIs
<1>4. PICK p : p = Gone(c) + 1
  OBVIOUS
<1>5. /\ Suffixes' /\ \A d \in Caller \ {c} : program'[d] = program[d] /\ Gone(d)' = Gone(d)
      /\ Gone(c)' = p /\ Gone(c) \in Nat /\ p \in DOMAIN Program[c] /\ Starts(c, p, g)
  BY <1>1, <1>2, <1>3, <1>4, TailSuffixes DEF Starts
<1>6. Shape' /\ ran' = ran /\ result' = result /\ Enqueues(c, g)
  BY <1>1, <1>2, <1>3, <1>5, EnqueueIs DEF Active
<1>7. ~Called(g)
  <2>1. ASSUME NEW d \in Caller, NEW q \in 1..Gone(d), Starts(d, q, g) PROVE FALSE
    <3>1. q \in DOMAIN Program[d]
      BY <1>1, GoneIs
    <3>2. d = c /\ q = p
      BY <1>5, <2>1, <3>1, OnceAssumption
    <3> QED BY <1>4, <1>5, <3>2
  <2>2. ASSUME NEW j \in Job, NEW i \in DOMAIN Body[j], NEW s \in DOMAIN Body[j][i], StartsNested(j, i, s, g)
        PROVE  FALSE
    BY <1>5, <2>2, OnceAssumption
  <2> QED BY <2>1, <2>2 DEF Called
<1>8. Fresh(g)
  BY <1>7 DEF Right, GroupRight
<1>9. Called(g)'
  <2>1. p \in 1..Gone(c)' /\ Starts(c, p, g)'
    BY <1>4, <1>5 DEF Starts
  <2> QED BY <2>1 DEF Called
<1>10. \A d \in Caller : Gone(d) <= Gone(d)'
  BY <1>1, <1>4, <1>5, GoneIs
<1> QED BY <1>2, <1>3, <1>6, <1>8, <1>9, <1>10 DEF Enters

LEMMA CallNestedEnters ==
  ASSUME Right, NEW t \in Thread, CallNested(t)
  PROVE  Shape' /\ Enters(t)
<1>1. Shape /\ Stacked /\ At(t, "body")
  BY DEF Right, Shape, Typed, CallNested, DoesNext
<1>2. stack[t] # <<>> /\ Top(t) \in Run /\ Top(t).at = "body"
  BY <1>1, TopIs DEF At, RunAt
<1>3. PICK j \in Job : j = Top(t).job
  BY <1>2, RunIs
<1>4. PICK x \in RunsOf(j) : x = Summit(t) /\ F(x) = Top(t) /\ ~Under(x) /\ x \in Frames
  BY <1>1, <1>2, <1>3, PlacesIn
<1>5. JobTyped(j) /\ JobRight(j)
  BY <1>1, JobsAreTyped DEF Right
<1>6. PICK i \in 1..Extent[j] : i = Top(t).iter
  BY <1>2, <1>4, <1>5, BodyIs
<1>7. /\ i <= F(x).last /\ F(x).iter = i
      /\ serial(j) => RunsOf(j) = {x}
      /\ ~serial(j) => i = F(x).last
  BY <1>2, <1>4, <1>5, <1>6, BodyIs
<1>8. i \in DOMAIN Body[j] /\ Body[j][i] \in Seq(Operation)
  BY SMTT(30), <1>6, ProgramAssumption
<1>9. PICK s \in DOMAIN Body[j][i] : s = Top(t).step /\ Body[j][i][s].op = "call"
  BY <1>3, <1>6 DEF CallNested, DoesNext, Steps
<1>10. PICK g \in Group : g = Body[j][i][s].group
  <2>1. Body[j][i][s] \in Operation
    BY <1>8
  <2>2. \A o \in Operation : o.op = "call" => o.group \in Group
    BY DEF Operation
  <2> QED BY <1>9, <2>1, <2>2
<1>11. StartsNested(j, i, s, g)
  BY SMTT(30), <1>9, <1>10 DEF StartsNested
<1>12. /\ Prepared(g) # <<>> /\ Enqueue(Prepared(g), Parent[Tasks[g][1]]) /\ Started(t, g) /\ program' = program
  BY <1>3, <1>6, <1>9, <1>10 DEF CallNested, Steps
<1>13. Suffixes' /\ \A c \in Caller : Gone(c)' = Gone(c)
  BY <1>1, <1>12, SameSuffixes DEF Shape
<1>14. Active(t)
  BY <1>1, <1>2, Kinds DEF Active, Frame
<1>15. Shape' /\ ran' = ran /\ result' = result /\ Enqueues(t, g)
  BY <1>1, <1>2, <1>12, <1>13, <1>14, EnqueueIs
<1>16. ~Called(g)
  <2>1. ASSUME NEW c \in Caller, NEW p \in 1..Gone(c), Starts(c, p, g) PROVE FALSE
    <3>1. p \in DOMAIN Program[c]
      BY <1>1, GoneIs DEF Shape
    <3> QED BY <1>8, <1>11, <2>1, <3>1, OnceAssumption
  <2>2. ASSUME NEW l \in Job, NEW m \in DOMAIN Body[l], NEW n \in DOMAIN Body[l][m],
               StartsNested(l, m, n, g), Passed(l, m, n)
        PROVE  FALSE
    <3>1. l = j /\ m = i /\ n = s
      BY <1>8, <1>11, <2>2, OnceAssumption
    <3>2. ~Behind(x, i, s)
      BY <2>2, <3>1 DEF Passed
    <3>3. s \in Nat /\ i \in Nat
      BY <1>8
    <3> QED BY <1>4, <1>7, <1>9, <3>2, <3>3 DEF Behind
  <2> QED BY <2>1, <2>2 DEF Called
<1>17. Fresh(g)
  BY <1>16 DEF Right, GroupRight
<1>18. Called(g)'
  <2>1. RunsOf(j)' = RunsOf(j) /\ \A y \in RunsOf(j) : F(y)' = F(y)
    BY <1>15 DEF Enqueues
  <2>2. Under(x)'
    BY <1>4, <1>15 DEF Enqueues
  <2>3. ~Behind(x, i, s)'
    BY <1>4, <1>7, <1>9, <2>1, <2>2 DEF Behind
  <2>4. ASSUME NEW y \in RunsOf(j) \ {x} PROVE ~Behind(y, i, s)'
    <3>1. ~serial(j)
      BY <1>7
    <3>2. F(y).last \in Nat /\ F(y).last # i /\ F(y).iter \in {F(y).last, F(y).last + 1}
      BY <1>5, <1>7, <3>1 DEF JobRight, ParallelRight, JobTyped
    <3> QED BY <2>1, <3>2 DEF Behind
  <2>5. Passed(j, i, s)'
    BY <1>7, <2>1, <2>3, <2>4 DEF Passed
  <2> QED BY <1>8, <1>11, <2>5 DEF Called, StartsNested
<1>19. \A c \in Caller : Gone(c) <= Gone(c)'
  BY <1>1, <1>13, GoneIs DEF Shape
<1> QED BY <1>12, <1>15, <1>17, <1>18, <1>19 DEF Enters

LEMMA CallRight ==
  ASSUME Right, NEW t \in Thread, (t \in Caller /\ CallGroup(t)) \/ CallNested(t)
  PROVE  Right'
<1>1. Shape' /\ Enters(t)
  BY CallGroupEnters, CallNestedEnters
<1>2. PICK g \in Group : /\ Prepared(g) # <<>> /\ Fresh(g) /\ Enqueues(t, g) /\ Called(g)'
                         /\ ran' = ran /\ result' = result /\ \A c \in Caller : Gone(c) <= Gone(c)'
  BY <1>1 DEF Enters
<1> QED BY <1>1, <1>2, EnqueuedRight

(***************************************************************************)
(* The theorems.                                                           *)
(***************************************************************************)
LEMMA InitShape == Init => Shape
<1> SUFFICES ASSUME Init PROVE Shape
  OBVIOUS
<1>1. /\ stack = [t \in Thread |-> <<>>] /\ jobs = <<>> /\ spawned = {}
      /\ work = [j \in Job |-> [extent |-> 0, min |-> 0, active_workers |-> 0,
                                exit_status |-> 0, next_semaphore |-> 0,
                                threads_reserved |-> 0, owner_is_sleeping |-> FALSE]]
      /\ ran = [j \in Job |-> [i \in 1..Extent[j] |-> 0]]
      /\ program = [c \in Caller |-> Program[c]]
  BY DEF Init
<1>2. Stacked /\ \A t \in Thread : stack[t] = <<>> /\ Len(stack[t]) = 0
  <2>1. <<>> \in Seq(Frame) /\ Len(<<>>) = 0
    OBVIOUS
  <2> QED BY <1>1, <2>1 DEF Stacked
<1>3. Typed
  <2>1. jobs \in Seq(Job)
    BY <1>1
  <2>2. work \in [Job -> Record] /\ \A j \in Job : work[j].next_semaphore = 0
    BY <1>1 DEF Record
  <2>3. \A j \in Job : 0 <= Len(Acquires[j])
    BY ProgramAssumption
  <2>4. \A j \in Job : ran[j] \in [1..Extent[j] -> {0, 1}]
    BY <1>1
  <2>5. ran \in [Job -> UNION {[1..Extent[j] -> {0, 1}] : j \in Job}]
    BY <1>1
  <2> QED BY <1>1, <1>2, <2>1, <2>2, <2>3, <2>4, <2>5 DEF Typed
<1>4. Suffixes
  <2>1. \A c \in Caller : program[c] = Program[c] /\ Program[c] \in Seq(Entry)
    BY <1>1, ProgramAssumption
  <2>2. ASSUME NEW c \in Caller PROVE Suffix(c)
    <3>1. Len(Program[c]) \in Nat
      BY <2>1
    <3>2. Gone(c) = 0
      BY <2>1, <3>1 DEF Gone
    <3> QED BY <2>1, <3>1, <3>2 DEF Suffix
  <2>3. program \in [Caller -> Seq(Entry)]
    BY <1>1, <2>1
  <2> QED BY <2>2, <2>3 DEF Suffixes
<1>5. \A t \in Thread : Shaped(t)
  BY <1>2 DEF Shaped
<1>6. Spawned /\ Joining
  BY <1>2 DEF Spawned, Joining, Thread
<1> QED BY <1>3, <1>4, <1>5, <1>6 DEF Shape

LEMMA InitRight == Init => Right
<1> SUFFICES ASSUME Init PROVE Right
  OBVIOUS
<1>1. /\ stack = [t \in Thread |-> <<>>] /\ jobs = <<>>
      /\ work = [j \in Job |-> [extent |-> 0, min |-> 0, active_workers |-> 0,
                                exit_status |-> 0, next_semaphore |-> 0,
                                threads_reserved |-> 0, owner_is_sleeping |-> FALSE]]
      /\ ran = [j \in Job |-> [i \in 1..Extent[j] |-> 0]]
      /\ result = [g \in Group |-> "none"]
  BY DEF Init
<1>2. Frames = {}
  <2>1. \A t \in Thread : DOMAIN stack[t] = {}
    BY <1>1
  <2> QED BY <2>1 DEF Frames
<1>3. (\A j \in Job : RunsOf(j) = {}) /\ \A g \in Group : LoopsOf(g) = {}
  BY <1>2 DEF RunsOf, LoopsOf
<1>4. \A j \in Job : /\ work[j].extent = 0 /\ work[j].min = 0 /\ work[j].active_workers = 0
                     /\ ~running(j) /\ Extent[j] \in Nat /\ ~Waits(j)
                     /\ \A i \in 1..Extent[j] : ran[j][i] = 0 /\ ~(i <= work[j].min)
  <2>1. \A j \in Job : /\ work[j].extent = 0 /\ work[j].min = 0 /\ work[j].active_workers = 0
                       /\ Extent[j] \in Nat /\ ~Waits(j)
    BY <1>1, ProgramAssumption DEF Waits, Has
  <2>2. \A j \in Job : \A i \in 1..Extent[j] : ran[j][i] = 0 /\ ~(i <= work[j].min)
    BY <1>1, <2>1
  <2> QED BY <2>1, <2>2 DEF running
<1>5. ASSUME NEW j \in Job PROVE JobRight(j)
  <2>1. Counted(j) /\ Placed(j) /\ RunsRight(j) /\ Stray(j)
    <3>1. IsFiniteSet(RunsOf(j)) /\ Cardinality(RunsOf(j)) = 0
      BY <1>3, FS_EmptySet
    <3>2. Counted(j) /\ Placed(j)
      BY <1>4, <3>1 DEF Counted, Placed
    <3> QED BY <1>3, <1>4, <3>2 DEF RunsRight, Stray
  <2>2. SerialRight(j)
    BY <1>3, <1>4 DEF SerialRight
  <2>3. ParallelRight(j)
    BY <1>3, <1>4 DEF ParallelRight
  <2> QED BY <2>1, <2>2, <2>3 DEF JobRight
<1>6. ASSUME NEW g \in Group PROVE GroupRight(g)
  <2>1. \A k \in DOMAIN Prepared(g) : Prepared(g)[k] \in Job
    BY PreparedJobs
  <2>2. Fresh(g)
    BY <1>3, <1>4, <2>1 DEF Fresh
  <2>3. Joins(g)
    BY <1>1, <1>3, <1>4, <2>1 DEF Joins
  <2> QED BY <2>2, <2>3 DEF GroupRight
<1>7. Distinct(jobs) /\ Results
  BY <1>1 DEF Distinct, Results
<1> QED BY <1>5, <1>6, <1>7, InitShape DEF Right

LEMMA NextRight == Right /\ [Next]_vars => Right'
<1> SUFFICES ASSUME Right, [Next]_vars PROVE Right'
  OBVIOUS
<1>1. ASSUME NEW c \in Caller, CallerStep(c) PROVE Right'
  BY <1>1, CallRight, CallEmptyRight, SetNumThreadsRight, ShutdownRight, ResetRight DEF CallerStep, Thread
<1>2. ASSUME NEW t \in Thread, SchedulerStep(t) PROVE Right'
  BY <1>2, IdleRight, WorkerExitRight, JoinedRight, AbandonRight, InheritRight, ClaimRight, FinishRight
     DEF SchedulerStep
<1>3. ASSUME NEW t \in Thread, BodyStep(t) PROVE Right'
  BY <1>3, ClaimMoreRight, TurnRight, CallRight, EndIterationRight DEF BodyStep
<1>4. ASSUME NEW t \in Thread, Fail(t) PROVE Right'
  BY <1>4, TurnRight
<1>5. CASE Done \/ UNCHANGED vars
  BY <1>5, StutterRight DEF Done
<1> QED BY <1>1, <1>2, <1>3, <1>4, <1>5 DEF Next

\* The invariant holds in every state the pool can be in.
THEOREM RightAlways == Spec => []Right
<1>1. Init => Right
  BY InitRight
<1>2. Right /\ [Next]_vars => Right'
  BY NextRight
<1> QED BY <1>1, <1>2, PTL DEF Spec

\* do_parallel_tasks keeps its array of work records in its own frame: while
\* a thread runs a task of the array, or could find one on the stack of jobs, some
\* call of the group has not returned.
THEOREM CallsOutliveJobs == Spec => []CallOutlivesJobs
<1>1. Right => CallOutlivesJobs
  <2> SUFFICES ASSUME Right, NEW j \in Job, RunsOf(j) # {} \/ Waits(j)
               PROVE  LoopsOf(GroupOf(j)) # {}
    BY DEF CallOutlivesJobs, Waits, Has
  <2>1. JobTyped(j) /\ JobRight(j)
    BY JobsAreTyped DEF Right
  <2>2. running(j)
    <3>1. CASE RunsOf(j) # {}
      BY <2>1, <3>1, SomeRuns DEF JobTyped, JobRight, running
    <3>2. CASE Waits(j)
      BY <2>1, <3>2 DEF JobRight, Placed, running
    <3> QED BY <3>1, <3>2
  <2>3. PICK g \in Group : Has(Prepared(g), j)
    BY <2>1, <2>2 DEF JobRight, Stray
  <2>4. PICK k \in DOMAIN Prepared(g) : Prepared(g)[k] = j
    BY <2>3 DEF Has
  <2>5. LoopsOf(g) # {}
    BY <2>2, <2>4 DEF Right, GroupRight, Joins
  <2> QED BY <2>4, <2>5, GroupIs
<1> QED BY <1>1, RightAlways, PTL

\* One thread at a time runs a serial task, from min upwards, however often
\* the worker loop puts it back on the stack and whoever takes it up again.
THEOREM SerialJobsInOrder == Spec => []SerialOrder
<1>1. Right => SerialOrder
  <2> SUFFICES ASSUME Right, NEW j \in Serial
               PROVE  /\ Cardinality(RunsOf(j)) <= 1
                      /\ \A i \in 1..(Extent[j] - 1) : ran[j][i + 1] > 0 => ran[j][i] > 0
    BY DEF SerialOrder
  <2>1. j \in Job
    BY ProgramAssumption
  <2>2. JobTyped(j) /\ JobRight(j) /\ serial(j)
    BY <2>1, JobsAreTyped DEF Right, serial
  <2>3. Cardinality(RunsOf(j)) <= 1
    BY <2>2 DEF JobRight, Counted, Placed
  <2>4. ASSUME NEW i \in 1..(Extent[j] - 1), ran[j][i + 1] > 0 PROVE ran[j][i] > 0
    <3>1. i + 1 \in 1..Extent[j] /\ i + 1 > 1 /\ (i + 1) - 1 = i
      BY <2>2 DEF JobTyped
    <3>2. ran[j][i + 1] = 1
      BY <2>2, <2>4, <3>1 DEF JobTyped
    <3>3. ran[j][(i + 1) - 1] = 1
      BY <2>2, <3>1, <3>2 DEF JobRight, SerialRight
    <3> QED BY <3>1, <3>3
  <2> QED BY <2>3, <2>4
<1> QED BY <1>1, RightAlways, PTL

\* The worker loop runs no iteration twice, and do_parallel_tasks returns success
\* only when all iterations of all tasks of the group have run.
THEOREM IterationsOnce == Spec => []ExactlyOnce
<1>1. Right => ExactlyOnce
  <2> SUFFICES ASSUME Right PROVE ExactlyOnce
    OBVIOUS
  <2>1. \A j \in Job : \A i \in 1..Extent[j] : ran[j][i] <= 1
    <3>1. \A j \in Job : \A i \in 1..Extent[j] : ran[j][i] \in {0, 1}
      BY JobsAreTyped DEF Right, JobTyped
    <3> QED BY <3>1
  <2>2. ASSUME NEW g \in Group, result[g] = "ok", NEW k \in DOMAIN Tasks[g],
               NEW i \in 1..Extent[Tasks[g][k]]
        PROVE  ran[Tasks[g][k]][i] = 1
    <3>1. k \in DOMAIN Prepared(g) \/ Extent[Tasks[g][k]] = 0
      BY PreparedAre
    <3>2. k \in DOMAIN Prepared(g) /\ Prepared(g)[k] = Tasks[g][k]
      BY <3>1, PreparedAre
    <3> QED BY <2>2, <3>2 DEF Right, GroupRight, Joins
  <2> QED BY <2>1, <2>2 DEF ExactlyOnce
<1> QED BY <1>1, RightAlways, PTL

\* When the owner's loop in worker_thread_already_locked walks the stack for its
\* failed job, which has no end test, the job is on the stack.
THEOREM AbandonedJobsQueued == Spec => []AbandonedJobQueued
<1>1. Right => AbandonedJobQueued
  <2> SUFFICES ASSUME Right, NEW t \in Thread, At(t, "head"), Owned(t) # NULL,
                      running(Owned(t)), work[Owned(t)].active_workers = 0
               PROVE  Waits(Owned(t))
    BY DEF AbandonedJobQueued, Waits, Has
  <2>1. Shape /\ Stacked
    BY DEF Right, Shape, Typed
  <2>2. stack[t] # <<>> /\ Top(t) \in Loop
    BY <2>1, TopIs DEF At, LoopAt
  <2>3. PICK j \in Job : j = Owned(t)
    BY <2>1, <2>2, OwnedIs
  <2>4. JobTyped(j) /\ JobRight(j) /\ running(j) /\ work[j].active_workers = 0
    BY <2>1, <2>3, JobsAreTyped DEF Right
  <2>5. work[j].extent > 0
    BY <2>4 DEF running, JobTyped
  <2> QED BY <2>3, <2>4, <2>5 DEF JobRight, Placed
<1> QED BY <1>1, RightAlways, PTL

(***************************************************************************)
(* The semaphores.                                                         *)
(***************************************************************************)
\* Whether there is enough for the k-th of job j's semaphores.
Enough(j, k) == semaphore[Acquires[j][k].sem] >= Acquires[j][k].count

Counts == semaphore \in [Semaphore -> Nat] /\ released \in [Semaphore -> Nat]

\* What make_runnable does for job j.
Makes(j) ==
  /\ AcquireUpTo(j, Reach(j)) /\ released' = released
  /\ Got(j)' = IF Runnable(j) THEN 0 ELSE Reach(j)
  /\ \A i \in Job \ {j} : Got(i)' = Got(i)

LEMMA AcquiresAre ==
  ASSUME NEW j \in Job
  PROVE  /\ Len(Acquires[j]) \in Nat /\ DOMAIN Acquires[j] = 1..Len(Acquires[j])
         /\ \A k \in 1..Len(Acquires[j]) :
              Acquires[j][k].sem \in Semaphore /\ Acquires[j][k].count \in Nat
         /\ \A k, n \in 1..Len(Acquires[j]) : Acquires[j][k].sem = Acquires[j][n].sem => k = n
<1> DEFINE A == [sem : Semaphore, count : Nat]
<1>1. Acquires[j] \in Seq(A)
  BY ProgramAssumption
<1>0. \A a \in A : a.sem \in Semaphore /\ a.count \in Nat
  OBVIOUS
<1> HIDE DEF A
<1>2. Len(Acquires[j]) \in Nat /\ DOMAIN Acquires[j] = 1..Len(Acquires[j])
      /\ \A k \in 1..Len(Acquires[j]) : Acquires[j][k] \in A
  BY <1>1
<1>3. \A k, n \in DOMAIN Acquires[j] : Acquires[j][k].sem = Acquires[j][n].sem => k = n
  BY ProgramAssumption
<1> QED BY <1>0, <1>2, <1>3

LEMMA GotIs ==
  ASSUME WorkTyped, NEW j \in Job
  PROVE  Got(j) \in Nat /\ Got(j) <= Len(Acquires[j])
  BY DEF WorkTyped, Record, Got

\* make_runnable gets down the list to the first semaphore that is short.
LEMMA ReachStops ==
  ASSUME WorkTyped, NEW j \in Job
  PROVE  /\ Reach(j) \in Nat /\ Got(j) <= Reach(j) /\ Reach(j) <= Len(Acquires[j])
         /\ \A k \in (Got(j) + 1)..Reach(j) : Enough(j, k)
         /\ Reach(j) < Len(Acquires[j]) => ~Enough(j, Reach(j) + 1)
  BY GotIs, ReachIs DEF Got, Enough

LEMMA RunnableIs ==
  ASSUME WorkTyped, NEW j \in Job
  PROVE  Runnable(j) <=> \A k \in (Got(j) + 1)..Len(Acquires[j]) : Enough(j, k)
<1>1. Len(Acquires[j]) \in Nat /\ Got(j) \in Nat
  BY AcquiresAre, GotIs
<1>2. ASSUME ~Runnable(j) PROVE \E k \in (Got(j) + 1)..Len(Acquires[j]) : ~Enough(j, k)
  <2>1. Reach(j) < Len(Acquires[j])
    BY <1>1, <1>2, ReachStops DEF Runnable
  <2>2. Reach(j) + 1 \in (Got(j) + 1)..Len(Acquires[j])
    BY <1>1, <2>1, ReachStops
  <2> QED BY <2>1, <2>2, ReachStops
<1> QED BY <1>2, ReachStops DEF Runnable

LEMMA MakesIs ==
  ASSUME WorkTyped, Counts, NEW j \in Job, Makes(j)
  PROVE  /\ Counts' /\ \A s \in Semaphore : semaphore'[s] <= semaphore[s]
         /\ \A k \in 1..Len(Acquires[j]) :
              semaphore'[Acquires[j][k].sem] =
                IF Got(j) < k /\ k <= Reach(j) THEN semaphore[Acquires[j][k].sem] - Acquires[j][k].count
                ELSE semaphore[Acquires[j][k].sem]
<1> DEFINE r == Reach(j)
           a == Acquires[j]
<1>1. /\ r \in Nat /\ Got(j) \in Nat /\ Got(j) <= r /\ r <= Len(a) /\ Len(a) \in Nat
      /\ \A k \in (Got(j) + 1)..r : semaphore[a[k].sem] >= a[k].count
  BY GotIs, AcquiresAre, ReachStops DEF Enough
<1>2. \A k \in 1..Len(a) : a[k].sem \in Semaphore /\ a[k].count \in Nat
  BY AcquiresAre
<1>3. \A k, n \in 1..Len(a) : a[k].sem = a[n].sem => k = n
  BY AcquiresAre
<1>4. semaphore' = [s \in Semaphore |->
        IF \E k \in (Got(j) + 1)..r : a[k].sem = s
        THEN semaphore[s] - a[CHOOSE k \in 1..r : a[k].sem = s].count
        ELSE semaphore[s]]
  BY DEF Makes, AcquireUpTo, Got
<1> HIDE DEF r, a
<1>5. ASSUME NEW k \in 1..r PROVE (CHOOSE n \in 1..r : a[n].sem = a[k].sem) = k
  <2>1. \A n \in 1..r : n \in 1..Len(a)
    BY <1>1
  <2>2. \A n \in 1..r : a[n].sem = a[k].sem => n = k
    BY <1>3, <2>1
  <2> QED BY <2>2
<1>6. ASSUME NEW k \in 1..Len(a), Got(j) < k /\ k <= r
      PROVE  /\ semaphore'[a[k].sem] = semaphore[a[k].sem] - a[k].count
             /\ semaphore[a[k].sem] >= a[k].count
  <2>1. k \in (Got(j) + 1)..r /\ k \in 1..r
    BY <1>1, <1>6
  <2> QED BY <1>1, <1>2, <1>4, <1>5, <2>1
<1>7. ASSUME NEW k \in 1..Len(a), ~(Got(j) < k /\ k <= r)
      PROVE  semaphore'[a[k].sem] = semaphore[a[k].sem]
  <2>1. ASSUME NEW n \in (Got(j) + 1)..r, a[n].sem = a[k].sem PROVE FALSE
    <3>1. n \in 1..Len(a) /\ Got(j) < n /\ n <= r
      BY <1>1
    <3> QED BY <1>3, <1>7, <2>1, <3>1
  <2> QED BY <1>2, <1>4, <2>1
<1>8. ASSUME NEW s \in Semaphore
      PROVE  semaphore'[s] \in Nat /\ semaphore'[s] <= semaphore[s]
  <2>1. CASE \E k \in (Got(j) + 1)..r : a[k].sem = s
    <3>1. PICK k \in (Got(j) + 1)..r : a[k].sem = s
      BY <2>1
    <3>2. k \in 1..Len(a) /\ Got(j) < k /\ k <= r
      BY <1>1
    <3> QED BY <1>2, <1>6, <3>1, <3>2 DEF Counts
  <2>2. CASE ~\E k \in (Got(j) + 1)..r : a[k].sem = s
    BY <1>4, <2>2 DEF Counts
  <2> QED BY <2>1, <2>2
<1>9. Counts'
  BY <1>4, <1>8 DEF Counts, Makes
<1> QED BY <1>6, <1>7, <1>8, <1>9 DEF r, a

(***************************************************************************)
(* What is spent of a semaphore.                                           *)
(***************************************************************************)
\* The ends of the ranges of iterations of job j that were claimed.
Ends(j) == {work[j].min} \union {F(x).last : x \in RunsOf(j)}

Tame(j) == Ends(j)' \subseteq Ends(j)

\* The semaphores are not touched; a record that is written anew has got nothing.
Leaves ==
  /\ semaphore' = semaphore /\ released' = released
  /\ \A j \in Job : Tame(j) /\ Got(j)' \in {0, Got(j)}
  /\ jobs' = jobs => \A j \in Job : Got(j)' = Got(j)

\* make_runnable is called for job i, which claims an iteration if it can run.
Takes(i) ==
  /\ Makes(i)
  /\ \A j \in Job : \A m \in Ends(j)' :
       m \in Ends(j) \/ (j = i /\ Runnable(i) /\ \E n \in Ends(j) : m = n + 1)

Releases ==
  \E s \in Semaphore, n \in Nat :
    /\ semaphore' = [semaphore EXCEPT ![s] = @ + n]
    /\ released' = [released EXCEPT ![s] = @ + n]
    /\ \A j \in Job : Tame(j) /\ Got(j)' = Got(j)
    /\ WakesOn(semaphore[s], n) => \E t \in Thread : At(t, "body") /\ At(t, "notify")'

\* n iterations of job j have taken what they need from its k-th semaphore, and
\* what it has got of it for the next one is not there for others.
Covered(j, k, n) ==
  LET s == Acquires[j][k].sem
      c == Acquires[j][k].count
  IN  /\ n * c + semaphore[s] <= InitialValue[s] + released[s]
      /\ k <= Got(j) => (n + 1) * c + semaphore[s] <= InitialValue[s] + released[s]

Budget == \A j \in Job : \A k \in 1..Len(Acquires[j]) : \A n \in Ends(j) : Covered(j, k, n)

LEMMA EndsAre ==
  ASSUME \A j \in Job : JobTyped(j)
  PROVE  \A j \in Job : Ends(j) \subseteq Nat /\ work[j].min \in Ends(j)
  BY DEF JobTyped, Ends

LEMMA OneMore ==
  ASSUME NEW n \in Nat, NEW c \in Nat
  PROVE  n * c \in Nat /\ (n + 1) * c = n * c + c
  OBVIOUS

LEMMA LeavesCovered ==
  ASSUME WorkTyped, Counts, Leaves, NEW j \in Job, NEW k \in 1..Len(Acquires[j]), NEW n \in Nat,
         Covered(j, k, n)
  PROVE  Covered(j, k, n)'
<1> DEFINE c == Acquires[j][k].count
           s == Acquires[j][k].sem
           P == n * c
           Q == (n + 1) * c
           u == InitialValue[s]
           v == semaphore[s]
           w == semaphore'[s]
           e == released[s]
           q == released'[s]
           g == Got(j)
           h == Got(j)'
<1>1. c \in Nat /\ s \in Semaphore
  BY AcquiresAre
<1>2. P \in Nat /\ Q = P + c
  BY <1>1, OneMore
<1>3. g \in Nat /\ h \in {0, g} /\ k \in Nat /\ k > 0
  BY GotIs, AcquiresAre DEF Leaves
<1>4. w = v /\ q = e
      /\ v \in Nat /\ e \in Nat /\ u \in Nat
  BY <1>1, InitialAssumption DEF Leaves, Counts
<1>5. /\ P + v <= u + e
      /\ k <= g => Q + v <= u + e
  BY DEF Covered
<1> HIDE DEF c, s, P, Q, u, v, w, e, q, g, h
<1>6. /\ P + w <= u + q
      /\ k <= h => Q + w <= u + q
  BY <1>1, <1>2, <1>3, <1>4, <1>5
<1> QED BY <1>6 DEF Covered, c, s, P, Q, u, v, w, e, q, g, h

LEMMA ReleasesCovered ==
  ASSUME WorkTyped, Counts, Releases, NEW j \in Job, NEW k \in 1..Len(Acquires[j]), NEW n \in Nat,
         Covered(j, k, n)
  PROVE  Covered(j, k, n)'
<1> DEFINE c == Acquires[j][k].count
           s == Acquires[j][k].sem
           P == n * c
           Q == (n + 1) * c
           u == InitialValue[s]
           v == semaphore[s]
           w == semaphore'[s]
           e == released[s]
           q == released'[s]
           g == Got(j)
           h == Got(j)'
<1>1. c \in Nat /\ s \in Semaphore
  BY AcquiresAre
<1>2. P \in Nat /\ Q = P + c
  BY <1>1, OneMore
<1>0. PICK r \in Semaphore, m \in Nat : /\ semaphore' = [semaphore EXCEPT ![r] = @ + m]
                                        /\ released' = [released EXCEPT ![r] = @ + m]
                                        /\ Got(j)' = Got(j)
  BY DEF Releases
<1>3. g \in Nat /\ h = g /\ k \in Nat
  BY <1>0, GotIs
<1>4. /\ w = (IF s = r THEN v + m ELSE v)
      /\ q = (IF s = r THEN e + m ELSE e)
      /\ v \in Nat /\ e \in Nat /\ u \in Nat
  BY <1>0, <1>1, InitialAssumption DEF Counts
<1>5. /\ P + v <= u + e
      /\ k <= g => Q + v <= u + e
  BY DEF Covered
<1> HIDE DEF c, s, P, Q, u, v, w, e, q, g, h
<1>6. /\ P + w <= u + q
      /\ k <= h => Q + w <= u + q
  BY <1>1, <1>2, <1>3, <1>4, <1>5
<1> QED BY <1>6 DEF Covered, c, s, P, Q, u, v, w, e, q, g, h

\* What others take leaves less.
LEMMA OthersTake ==
  ASSUME WorkTyped, Counts, NEW i \in Job, Makes(i), NEW j \in Job \ {i}, NEW k \in 1..Len(Acquires[j]),
         NEW n \in Nat, Covered(j, k, n)
  PROVE  Covered(j, k, n)'
<1> DEFINE c == Acquires[j][k].count
           s == Acquires[j][k].sem
           P == n * c
           Q == (n + 1) * c
           u == InitialValue[s]
           v == semaphore[s]
           w == semaphore'[s]
           e == released[s]
           q == released'[s]
           g == Got(j)
           h == Got(j)'
<1>1. c \in Nat /\ s \in Semaphore
  BY AcquiresAre
<1>2. P \in Nat /\ Q = P + c
  BY <1>1, OneMore
<1>3. h = g /\ q = e
  BY DEF Makes
<1>4. w <= v /\ w \in Nat
      /\ v \in Nat /\ e \in Nat /\ u \in Nat
  BY <1>1, MakesIs, InitialAssumption DEF Counts
<1>5. /\ P + v <= u + e
      /\ k <= g => Q + v <= u + e
  BY DEF Covered
<1> HIDE DEF c, s, P, Q, u, v, w, e, q, g, h
<1>6. /\ P + w <= u + q
      /\ k <= h => Q + w <= u + q
  BY <1>1, <1>2, <1>3, <1>4, <1>5
<1> QED BY <1>6 DEF Covered, c, s, P, Q, u, v, w, e, q, g, h

\* What a job takes it has got for the next iteration, and has spent when it
\* claims that one.
LEMMA JobTakes ==
  ASSUME WorkTyped, Counts, NEW j \in Job, Makes(j), NEW k \in 1..Len(Acquires[j]),
         NEW n \in Nat, Covered(j, k, n)
  PROVE  Covered(j, k, n)' /\ (Runnable(j) => Covered(j, k, n + 1)')
<1> DEFINE c == Acquires[j][k].count
           s == Acquires[j][k].sem
           P == n * c
           Q == (n + 1) * c
           u == InitialValue[s]
           v == semaphore[s]
           w == semaphore'[s]
           e == released[s]
           q == released'[s]
           g == Got(j)
           h == Got(j)'
<1>1. c \in Nat /\ s \in Semaphore
  BY AcquiresAre
<1>2. P \in Nat /\ Q = P + c
  BY <1>1, OneMore
<1>3. q = e /\ h = IF Runnable(j) THEN 0 ELSE Reach(j)
  BY DEF Makes
<1>4. /\ w = IF g < k /\ k <= Reach(j) THEN v - c ELSE v
      /\ v \in Nat /\ e \in Nat /\ u \in Nat
  BY <1>1, MakesIs, InitialAssumption DEF Counts
<1>5. /\ g \in Nat /\ Reach(j) \in Nat /\ g <= Reach(j) /\ k \in Nat /\ k > 0
      /\ Runnable(j) => k <= Reach(j)
  BY GotIs, ReachStops, AcquiresAre DEF Runnable
<1>6. /\ P + v <= u + e
      /\ k <= g => Q + v <= u + e
  BY DEF Covered
<1> HIDE DEF c, s, P, Q, u, v, w, e, q, g, h
<1>7. /\ P + w <= u + q
      /\ k <= h => Q + w <= u + q
  BY <1>1, <1>2, <1>3, <1>4, <1>5, <1>6
<1>8. Runnable(j) => Q + w <= u + q /\ ~(k <= h)
  BY <1>1, <1>2, <1>3, <1>4, <1>5, <1>6
<1>9. Covered(j, k, n)'
  BY <1>7 DEF Covered, c, s, P, Q, u, v, w, e, q, g, h
<1>10. Runnable(j) => Covered(j, k, n + 1)'
  BY <1>8 DEF Covered, c, s, P, Q, u, v, w, e, q, g, h
<1> QED BY <1>9, <1>10

LEMMA BudgetKept ==
  ASSUME WorkTyped, \A j \in Job : JobTyped(j), Counts, Budget,
         Leaves \/ Releases \/ \E i \in Job : Takes(i)
  PROVE  Counts' /\ Budget'
<1>0. \A j \in Job : Ends(j) \subseteq Nat
  BY EndsAre
<1>1. Counts'
  <2>1. CASE Leaves
    BY <2>1 DEF Leaves, Counts
  <2>2. CASE Releases
    <3>1. PICK s \in Semaphore, n \in Nat : /\ semaphore' = [semaphore EXCEPT ![s] = @ + n]
                                            /\ released' = [released EXCEPT ![s] = @ + n]
      BY <2>2 DEF Releases
    <3> QED BY <3>1 DEF Counts
  <2>3. CASE \E i \in Job : Takes(i)
    BY <2>3, MakesIs DEF Takes
  <2> QED BY <2>1, <2>2, <2>3
<1>2. ASSUME NEW j \in Job, NEW k \in 1..Len(Acquires[j]), NEW n \in Ends(j)'
      PROVE  Covered(j, k, n)'
  <2>1. CASE Leaves
    <3>1. n \in Ends(j) /\ n \in Nat
      BY <1>0, <2>1 DEF Leaves, Tame
    <3> QED BY <2>1, <3>1, LeavesCovered DEF Budget
  <2>2. CASE Releases
    <3>1. n \in Ends(j) /\ n \in Nat
      BY <1>0, <2>2 DEF Releases, Tame
    <3> QED BY <2>2, <3>1, ReleasesCovered DEF Budget
  <2>3. ASSUME NEW i \in Job, Takes(i) PROVE Covered(j, k, n)'
    <3>1. Makes(i) /\ (n \in Ends(j) \/ (j = i /\ Runnable(i) /\ \E m \in Ends(j) : n = m + 1))
      BY <2>3 DEF Takes
    <3>2. CASE n \in Ends(j)
      <4>1. n \in Nat /\ Covered(j, k, n)
        BY <1>0, <3>2 DEF Budget
      <4>2. CASE j = i
        BY <3>1, <4>1, <4>2, JobTakes
      <4>3. CASE j # i
        BY <3>1, <4>1, <4>3, OthersTake
      <4> QED BY <4>2, <4>3
    <3>3. CASE j = i /\ Runnable(i) /\ \E m \in Ends(j) : n = m + 1
      <4>1. PICK m \in Ends(j) : n = m + 1
        BY <3>3
      <4>2. m \in Nat /\ Covered(j, k, m)
        BY <1>0, <4>1 DEF Budget
      <4>3. Covered(j, k, m + 1)'
        BY <3>1, <3>3, <4>2, JobTakes
      <4>4. Covered(j, k, m + 1)' <=> Covered(j, k, n)'
        BY <4>1
      <4> QED BY <4>3, <4>4
    <3> QED BY <3>1, <3>2, <3>3
  <2> QED BY <2>1, <2>2, <2>3
<1> QED BY <1>1, <1>2 DEF Budget

(***************************************************************************)
(* What each step does to the semaphores.                                  *)
(***************************************************************************)
LEMMA StaysTame ==
  ASSUME NEW j \in Job, JobTyped(j), RunsOf(j)' = RunsOf(j), \A x \in RunsOf(j) : Turned(x),
         work'[j].min = work[j].min
  PROVE  Tame(j)
<1>1. \A x \in RunsOf(j) : F(x)'.last = F(x).last
  BY TurnedIs DEF JobTyped
<1> QED BY <1>1 DEF Tame, Ends

LEMMA KeptTame ==
  ASSUME Right, RunsKept, \A j \in Job : work'[j].min = work[j].min
  PROVE  \A j \in Job : Tame(j)
<1>1. \A j \in Job : JobTyped(j)
  BY JobsAreTyped DEF Right
<1> QED BY <1>1, StaysTame DEF RunsKept

LEMMA KeptLeaves ==
  ASSUME Right, RunsKept, \A j \in Job : work'[j].min = work[j].min, \A j \in Job : Got(j)' = Got(j),
         semaphore' = semaphore, released' = released
  PROVE  Leaves
  BY KeptTame DEF Leaves

LEMMA GotFlag ==
  ASSUME WorkTyped, NEW j, NEW v,
         \/ work' = work
         \/ work' = [work EXCEPT ![j].extent = v]
         \/ work' = [work EXCEPT ![j].exit_status = v]
         \/ work' = [work EXCEPT ![j].owner_is_sleeping = v]
  PROVE  \A i \in Job : Got(i)' = Got(i)
<1>1. \A i \in Job : "next_semaphore" \in DOMAIN work[i]
  BY DEF WorkTyped, Record
<1> QED BY <1>1 DEF Got, WorkTyped

LEMMA GotMade ==
  ASSUME WorkTyped, NEW j \in Job, NEW r, work' = [work EXCEPT ![j].next_semaphore = r]
  PROVE  Got(j)' = r /\ \A i \in Job \ {j} : Got(i)' = Got(i)
<1>1. "next_semaphore" \in DOMAIN work[j] /\ DOMAIN work = Job
  BY DEF WorkTyped, Record
<1> QED BY <1>1 DEF Got

\* A step that looks at a job it cannot run takes what is there for it.
LEMMA BlockedTakes ==
  ASSUME Right, RunsKept, WorkKept, NEW j \in Job, ~Runnable(j), AcquireUpTo(j, Reach(j)),
         work' = [work EXCEPT ![j].next_semaphore = Reach(j)], released' = released
  PROVE  Takes(j)
<1>1. WorkTyped
  BY WorkIsTyped DEF Right
<1>2. Makes(j)
  BY <1>1, GotMade DEF Makes
<1>3. \A i \in Job : Tame(i)
  BY KeptTame DEF WorkKept
<1> QED BY <1>2, <1>3 DEF Takes, Tame

LEMMA IdleLeaves ==
  ASSUME Right, NEW t \in Thread,
         \/ WorkerStart(t) \/ StartScan(t) \/ SleepOwner(t) \/ SleepWorker(t)
         \/ WakeOwner(t) \/ WakeWorker(t)
  PROVE  Leaves
<1>1. Shape /\ Stacked /\ WorkTyped
  BY WorkIsTyped DEF Right
<1>2. Stacked' /\ Idles(t) /\ WorkKept
  BY <1>1, WorkerStartIdles, StartScanIdles, SleepOwnerIdles, SleepWorkerIdles,
     WakeOwnerIdles, WakeWorkerIdles
<1>3. RunsKept
  BY <1>1, <1>2, IdlesKeep
<1>4. semaphore' = semaphore /\ released' = released
  BY DEF WorkerStart, StartScan, SleepOwner, SleepWorker, WakeOwner, WakeWorker
<1>5. \E v : work' = work \/ work' = [work EXCEPT ![Owned(t)].owner_is_sleeping = v]
  BY DEF WorkerStart, StartScan, SleepOwner, SleepWorker, WakeOwner, WakeWorker
<1>6. \A j \in Job : Got(j)' = Got(j)
  BY <1>1, <1>5, GotFlag
<1> QED BY <1>2, <1>3, <1>4, <1>6, KeptLeaves DEF WorkKept

LEMMA PassOverTakes ==
  ASSUME Right, NEW t \in Thread, PassOver(t)
  PROVE  Leaves \/ \E i \in Job : Takes(i)
<1>1. Shape /\ Stacked /\ WorkTyped
  BY WorkIsTyped DEF Right
<1>2. Stacked' /\ Idles(t) /\ WorkKept
  BY <1>1, PassOverIdles
<1>3. RunsKept
  BY <1>1, <1>2, IdlesKeep
<1>4. released' = released
  BY DEF PassOver
<1> DEFINE k == Top(t).pos
           j == jobs[k]
<1>5. j \in Job
  <2>1. stack[t] # <<>> /\ Top(t) \in Loop /\ jobs \in Seq(Job)
    BY <1>1, TopIs DEF PassOver, LoopAt, Shape, Typed
  <2>2. k \in Nat /\ k > 0 /\ k <= Len(jobs)
    BY <2>1 DEF PassOver, Loop
  <2> QED BY <2>1, <2>2
<1>6. CASE Eligible(t, j)
  <2>1. ~Runnable(j) /\ AcquireUpTo(j, Reach(j)) /\ work' = [work EXCEPT ![j].next_semaphore = Reach(j)]
    BY <1>6 DEF PassOver
  <2> HIDE DEF j
  <2> QED BY <1>2, <1>3, <1>4, <1>5, <2>1, BlockedTakes
<1>7. CASE ~Eligible(t, j)
  <2>1. semaphore' = semaphore /\ work' = work
    BY <1>7 DEF PassOver
  <2>2. \A i \in Job : Got(i)' = Got(i)
    BY <2>1 DEF Got
  <2> QED BY <1>2, <1>3, <1>4, <2>1, <2>2, KeptLeaves DEF WorkKept
<1> QED BY <1>6, <1>7

LEMMA RunBatchTakes ==
  ASSUME Right, NEW t \in Thread, RunBatch(t)
  PROVE  Leaves \/ \E i \in Job : Takes(i)
<1>1. Shape /\ Stacked /\ WorkTyped
  BY WorkIsTyped DEF Right
<1>2. Stacked' /\ Proceeds(t) /\ WorkKept
  BY <1>1, RunBatchProceeds
<1>3. RunsKept
  BY <1>1, <1>2, ProceedsKeep
<1>4. released' = released
  BY SMTT(30) DEF RunBatch
<1> DEFINE j == Top(t).job
<1>5. j \in Job
  <2>1. Top(t) \in Run
    BY <1>1, TopIs DEF RunBatch, RunAt
  <2> QED BY <2>1, RunIs
<1>6. CASE Top(t).last < work[j].min + work[j].extent
  <2>1. ~Runnable(j) /\ AcquireUpTo(j, Reach(j)) /\ work' = [work EXCEPT ![j].next_semaphore = Reach(j)]
    BY <1>6 DEF RunBatch
  <2> HIDE DEF j
  <2> QED BY <1>2, <1>3, <1>4, <1>5, <2>1, BlockedTakes
<1>7. CASE ~(Top(t).last < work[j].min + work[j].extent)
  <2>1. semaphore' = semaphore /\ work' = work
    BY <1>7 DEF RunBatch
  <2>2. \A i \in Job : Got(i)' = Got(i)
    BY <2>1 DEF Got
  <2> QED BY <1>2, <1>3, <1>4, <2>1, <2>2, KeptLeaves DEF WorkKept
<1> QED BY <1>6, <1>7

LEMMA TurnLeaves ==
  ASSUME Right, NEW t \in Thread, ReleaseWake(t) \/ Fail(t)
  PROVE  Leaves
<1>1. Shape /\ Stacked
  BY WorkIsTyped DEF Right
<1>2. Stacked' /\ Proceeds(t) /\ WorkKept
  BY <1>1, ReleaseWakeProceeds, FailProceeds
<1>3. RunsKept
  BY <1>1, <1>2, ProceedsKeep
<1>4. semaphore' = semaphore /\ released' = released /\ \A j \in Job : Got(j)' = Got(j)
  BY DEF ReleaseWake, Fail, Got
<1> QED BY <1>2, <1>3, <1>4, KeptLeaves DEF WorkKept

LEMMA ReleaseReleases ==
  ASSUME Right, NEW t \in Thread, Release(t)
  PROVE  Releases
<1>1. Shape /\ Stacked
  BY WorkIsTyped DEF Right
<1>2. Stacked' /\ Proceeds(t) /\ WorkKept
  BY <1>1, ReleaseProceeds
<1>3. RunsKept
  BY <1>1, <1>2, ProceedsKeep
<1>4. stack[t] # <<>> /\ Top(t) \in Run /\ Top(t).at = "body"
  BY <1>1, TopIs DEF Release, DoesNext, RunAt
<1>5. PICK j \in Job : j = Top(t).job
  BY <1>4, RunIs
<1>6. PICK x \in RunsOf(j) : x = Summit(t) /\ F(x) = Top(t)
  BY <1>1, <1>4, <1>5, PlacesIn
<1>7. JobTyped(j) /\ JobRight(j)
  BY <1>1, JobsAreTyped DEF Right
<1>8. PICK i \in 1..Extent[j] : i = Top(t).iter
  BY <1>4, <1>6, <1>7, BodyIs
<1>9. Body[j][i] \in Seq(Operation)
  BY SMTT(30), <1>8, ProgramAssumption
<1>10. PICK k \in DOMAIN Body[j][i] : k = Top(t).step /\ Body[j][i][k].op = "release"
  BY <1>5, <1>8 DEF Release, DoesNext, Steps
<1> DEFINE o == Body[j][i][k]
<1>11. o.sem \in Semaphore /\ o.count \in Nat
  <2>1. o \in Operation
    BY <1>9
  <2>2. \A p \in Operation : p.op = "release" => p.sem \in Semaphore /\ p.count \in Nat
    BY SMTT(30) DEF Operation
  <2> HIDE DEF o
  <2> QED BY <1>10, <2>1, <2>2 DEF o
<1>12. /\ semaphore' = [semaphore EXCEPT ![o.sem] = @ + o.count]
       /\ released' = [released EXCEPT ![o.sem] = @ + o.count]
       /\ WakesOn(semaphore[o.sem], o.count) => Goto(t, "notify")
       /\ work' = work
  BY <1>5, <1>8, <1>10 DEF Release, Steps
<1> HIDE DEF o
<1>13. WakesOn(semaphore[o.sem], o.count) => At(t, "body") /\ At(t, "notify")'
  <2> SUFFICES ASSUME Goto(t, "notify") PROVE At(t, "body") /\ At(t, "notify")'
    BY SMTT(30), <1>12
  <2> DEFINE f == [Top(t) EXCEPT !.at = "notify"]
  <2>1. f \in Frame /\ f.at = "notify"
    BY <1>4, RunIs DEF RunAt, Frame
  <2>2. SetTop(t, f)
    BY DEF Goto
  <2> HIDE DEF f
  <2>3. Edits(t, f)
    BY <1>1, <1>4, <2>1, <2>2, EditMoves
  <2>4. stack'[t] # <<>> /\ stack'[t][Len(stack'[t])] = f
    BY <1>1, <1>4, <2>3, PlacesAre DEF Edits, Stacked
  <2> QED BY <1>4, <2>1, <2>4 DEF At, Top
<1>14. \A l \in Job : Tame(l) /\ Got(l)' = Got(l)
  BY <1>2, <1>3, <1>12, KeptTame DEF WorkKept, Got
<1> QED BY <1>11, <1>12, <1>13, <1>14 DEF Releases

LEMMA StillLeaves ==
  ASSUME Right, NEW t \in Thread,
         InheritFailure(t) \/ AbandonJob(t) \/ WorkerExit(t) \/ Joined(t)
  PROVE  Leaves
<1>1. Shape /\ Stacked /\ WorkTyped
  BY WorkIsTyped DEF Right
<1>2. RunsKept
  BY <1>1, InheritKeeps, StillKeeps, AbandonKeeps, WorkerExitKeeps, JoinedReturns DEF Right, Results
<1>3. \A j \in Job : work'[j].min = work[j].min
  <2>1. CASE AbandonJob(t)
    <3>1. Owned(t) \in Job /\ Writes(Owned(t), 0, work[Owned(t)].min, work[Owned(t)].active_workers)
      BY <1>1, <2>1, AbandonKeeps
    <3> QED BY <3>1 DEF Writes
  <2>2. CASE ~AbandonJob(t)
    <3>1. WorkKept
      BY <1>1, <2>2, InheritKeeps, WorkerExitKeeps, JoinedReturns DEF Right, Results
    <3> QED BY <3>1 DEF WorkKept
  <2> QED BY <2>1, <2>2
<1>4. semaphore' = semaphore /\ released' = released
  BY DEF InheritFailure, AbandonJob, WorkerExit, Joined
<1>5. \E v : \/ work' = work \/ work' = [work EXCEPT ![Owned(t)].extent = v]
             \/ work' = [work EXCEPT ![Owned(t)].exit_status = v]
  BY DEF InheritFailure, AbandonJob, WorkerExit, Joined
<1>6. \A j \in Job : Got(j)' = Got(j)
  BY <1>1, <1>5, GotFlag
<1> QED BY <1>2, <1>3, <1>4, <1>6, KeptLeaves

LEMMA CallerLeaves ==
  ASSUME Right, NEW c \in Caller, CallEmpty(c) \/ SetNumThreads(c) \/ Shutdown(c) \/ Reset(c)
  PROVE  Leaves
<1>1. Shape
  BY DEF Right
<1>2. RunsKept
  <2>1. CASE CallEmpty(c) \/ SetNumThreads(c)
    <3>1. stack' = stack
      BY <2>1 DEF CallEmpty, SetNumThreads
    <3> QED BY <3>1, StillKeeps
  <2>2. CASE Shutdown(c) \/ Reset(c)
    BY <1>1, <2>2, ShutdownKeeps, ResetKeeps
  <2> QED BY <2>1, <2>2
<1>3. work' = work /\ semaphore' = semaphore /\ released' = released
  BY DEF CallEmpty, SetNumThreads, Shutdown, Reset
<1> QED BY <1>2, <1>3, KeptLeaves DEF Got

LEMMA StutterLeaves ==
  ASSUME Right, UNCHANGED vars
  PROVE  Leaves
<1>1. stack' = stack /\ work' = work /\ semaphore' = semaphore /\ released' = released
  BY DEF vars
<1> QED BY <1>1, StillKeeps, KeptLeaves DEF Got

\* The run that ends had claimed up to where the job goes on.
LEMMA FinishLeaves ==
  ASSUME Right, NEW t \in Thread, Finish(t)
  PROVE  Leaves
<1>0. PICK j \in Job : \E x \in RunsOf(j) : x = Summit(t) /\ F(x) = Top(t) /\ Finishes(t, j)
  BY FinishIs
<1>1. PICK x \in RunsOf(j) : x = Summit(t) /\ F(x) = Top(t) /\ Finishes(t, j)
  BY <1>0
<1>2. \A l \in Job : JobTyped(l)
  BY JobsAreTyped DEF Right
<1>3. /\ RunsOf(j)' = RunsOf(j) \ {x} /\ \A y \in RunsOf(j) \ {x} : F(y)' = F(y)
      /\ \A l \in Job \ {j} : RunsOf(l)' = RunsOf(l) /\ x \notin RunsOf(l)
      /\ \A l \in Job : \A y \in RunsOf(l) \ {x} : Turned(y)
      /\ work'[j].min \in {work[j].min, F(x).last}
      /\ \A l \in Job \ {j} : work'[l].min = work[l].min
      /\ \A l \in Job : Got(l)' = Got(l)
  <2>1. \A l \in Job \ {j} : x \notin RunsOf(l)
    BY <1>1, <1>2 DEF JobTyped
  <2>2. /\ Removed(t, j) /\ Writes(j, Left(j, Top(t)), MinAfter(j, Top(t).last), work[j].active_workers - 1)
        /\ \A l \in Job : Got(l)' = Got(l)
    BY <1>1 DEF Finishes
  <2> QED BY <1>1, <2>1, <2>2 DEF Removed, Writes, MinAfter
<1>4. Tame(j)
  BY <1>3 DEF Tame, Ends
<1>5. \A l \in Job \ {j} : Tame(l)
  BY SMTT(30), <1>2, <1>3, StaysTame
<1>6. semaphore' = semaphore /\ released' = released
  BY DEF Finish
<1> QED BY <1>3, <1>4, <1>5, <1>6 DEF Leaves

LEMMA EndIterationLeaves ==
  ASSUME Right, NEW t \in Thread, EndIteration(t)
  PROVE  Leaves
<1>1. Shape /\ Stacked
  BY WorkIsTyped DEF Right
<1>2. stack[t] # <<>> /\ Top(t) \in Run
  BY <1>1, TopIs DEF EndIteration, RunAt
<1> DEFINE l == IF Top(t).iter < Top(t).last THEN "body"
                ELSE IF serial(Top(t).job) THEN "batch" ELSE "finish"
           f == [Top(t) EXCEPT !.iter = @ + 1, !.step = 1, !.at = l]
<1>3. f \in Run /\ f.job = Top(t).job /\ f.last = Top(t).last
  <2>1. l \in RunAt
    BY DEF RunAt
  <2> HIDE DEF l
  <2>2. \A e \in Run : e.iter + 1 \in Nat
    BY DEF Run
  <2> QED BY <1>2, <2>1, <2>2 DEF Run
<1>4. SetTop(t, f)
  BY DEF EndIteration
<1> HIDE DEF f
<1>5. Stacked' /\ Edits(t, f)
  BY <1>1, <1>2, <1>3, <1>4, EditMoves DEF Frame
<1>6. SameFrame(Top(t), f)
  BY <1>2, <1>3 DEF SameFrame
<1>7. /\ \A j : RunsOf(j)' = RunsOf(j)
      /\ \A x \in Frames : x # Summit(t) => F(x)' = F(x)
      /\ \A x : x = Summit(t) => F(x)' = f /\ F(x) = Top(t)
  BY <1>1, <1>5, <1>6, EditPlaces
<1>8. \A j \in Job : \A x \in RunsOf(j) : F(x)'.last = F(x).last
  BY <1>1, <1>3, <1>7, PlacesIn
<1>9. work' = work /\ semaphore' = semaphore /\ released' = released
  BY DEF EndIteration
<1>10. \A j \in Job : Tame(j) /\ Got(j)' = Got(j)
  BY <1>7, <1>8, <1>9 DEF Tame, Ends, Got
<1> QED BY <1>9, <1>10 DEF Leaves

\* The records that a call writes start from nothing.
LEMMA CallLeaves ==
  ASSUME Right, NEW t \in Thread, (t \in Caller /\ CallGroup(t)) \/ CallNested(t)
  PROVE  Leaves
<1>1. Enters(t)
  BY CallGroupEnters, CallNestedEnters
<1>2. PICK g \in Group : /\ Prepared(g) # <<>> /\ Fresh(g) /\ Enqueues(t, g)
                         /\ \E p : Enqueue(Prepared(g), p)
  BY <1>1 DEF Enters
<1> DEFINE js == Prepared(g)
<1>3. /\ semaphore' = semaphore /\ released' = released
      /\ \A j \in Job : Got(j)' = IF Has(js, j) THEN 0 ELSE Got(j)
  <2> HIDE DEF js
  <2>1. PICK p : Enqueue(js, p)
    BY <1>2 DEF js
  <2>2. semaphore' = semaphore /\ released' = released
    BY <2>1 DEF Enqueue
  <2>3. work' = [j \in Job |->
         IF \E k \in DOMAIN js : js[k] = j
         THEN [extent |-> Extent[j], min |-> 0, active_workers |-> 0,
               exit_status |-> 0, next_semaphore |-> 0, threads_reserved |-> 0,
               owner_is_sleeping |-> FALSE]
         ELSE work[j]]
    BY <2>1 DEF Enqueue
  <2>4. \A j \in Job : Got(j)' = IF Has(js, j) THEN 0 ELSE Got(j)
    BY <2>3 DEF Has, Got
  <2> QED BY <2>2, <2>4
<1>4. /\ \A l \in Job : RunsOf(l)' = RunsOf(l) /\ \A x \in RunsOf(l) : F(x)' = F(x)
      /\ jobs' = js \o jobs
      /\ \A j \in Job : work'[j].min = IF Has(js, j) THEN 0 ELSE work[j].min
  BY <1>2 DEF Enqueues
<1>5. \A j \in Job : Has(js, j) => work[j].min = 0
  BY <1>2 DEF Fresh, Has
<1>6. \A j \in Job : Tame(j)
  <2> HIDE DEF js
  <2> QED BY <1>4, <1>5 DEF Tame, Ends
<1>7. jobs' # jobs
  <2>1. js \in Seq(Job) /\ jobs \in Seq(Job) /\ js # <<>>
    BY <1>2, PreparedAre DEF Right, Shape, Typed
  <2> HIDE DEF js
  <2>2. Len(js \o jobs) = Len(js) + Len(jobs) /\ Len(js) > 0 /\ Len(js) \in Nat /\ Len(jobs) \in Nat
    BY <2>1
  <2> QED BY <1>4, <2>2
<1> QED BY <1>3, <1>6, <1>7 DEF Leaves

\* A job that is taken, and a batch that grows, claim the next iteration.
LEMMA ClaimTakes ==
  ASSUME Right, NEW t \in Thread, Claim(t)
  PROVE  \E i \in Job : Takes(i)
<1>1. Shape /\ \A j \in Job : Waits(j) => work[j].extent > 0
  BY DEF Right, JobRight, Placed
<1>2. PICK j \in Job : j = jobs[Top(t).pos] /\ Claims(t, j)
  BY SMTT(30), <1>1, ClaimClaims
<1>3. Runnable(j) /\ AcquireUpTo(j, Reach(j)) /\ released' = released
  BY <1>2 DEF Claim
<1>4. Makes(j)
  BY <1>2, <1>3 DEF Makes, Claims
<1> DEFINE i == work[j].min + 1
<1> HIDE DEF i
<1>0. PICK y : y = Above(t)
  OBVIOUS
<1>5. /\ RunsOf(j)' = RunsOf(j) \union {y} /\ F(y)'.last = i /\ \A x \in RunsOf(j) : F(x)' = F(x)
      /\ work'[j].min \in {work[j].min, i}
      /\ \A l \in Job \ {j} : /\ work'[l].min = work[l].min /\ RunsOf(l)' = RunsOf(l)
                              /\ \A x \in RunsOf(l) : F(x)' = F(x)
  <2>1. F(y)' = IF serial(j) THEN RunFrame(j, "batch", i, i) ELSE RunFrame(j, "body", i, i)
    BY <1>0, <1>2 DEF Claims, i
  <2>2. F(y)'.last = i
    BY <2>1 DEF RunFrame
  <2>3. work'[j].min \in {work[j].min, i} /\ \A l \in Job \ {j} : work'[l].min = work[l].min
    BY <1>2 DEF Claims, Writes, i
  <2>4. /\ RunsOf(j)' = RunsOf(j) \union {y} /\ \A x \in RunsOf(j) : F(x)' = F(x)
        /\ \A l \in Job \ {j} : RunsOf(l)' = RunsOf(l) /\ \A x \in RunsOf(l) : F(x)' = F(x)
    BY <1>0, <1>2 DEF Claims
  <2> QED BY SMTT(30), <2>2, <2>3, <2>4
<1>6. ASSUME NEW m \in Ends(j)' PROVE m \in Ends(j) \/ \E n \in Ends(j) : m = n + 1
  BY <1>5 DEF Ends, i
<1>7. \A l \in Job \ {j} : Tame(l)
  BY <1>5 DEF Tame, Ends
<1> QED BY <1>3, <1>4, <1>6, <1>7 DEF Takes, Tame

LEMMA ClaimMoreTakes ==
  ASSUME Right, NEW t \in Thread, ClaimMore(t)
  PROVE  \E i \in Job : Takes(i)
<1>1. Shape /\ Stacked /\ WorkTyped
  BY WorkIsTyped DEF Right
<1>2. PICK f \in Run : Edited(t, f) /\ f.last = Top(t).last + 1
  BY <1>1, ClaimMoreEdits
<1>3. WorkKept
  BY SMTT(30), <1>1, ClaimMoreEdits
<1>4. PICK j \in Job : j = Top(t).job
  BY <1>2, RunIs DEF Edited
<1>5. /\ Runnable(j) /\ AcquireUpTo(j, Reach(j)) /\ released' = released
      /\ work' = [work EXCEPT ![j].next_semaphore = 0]
  BY <1>4 DEF ClaimMore
<1>6. Makes(j)
  BY <1>1, <1>5, GotMade DEF Makes
<1>7. PICK x : x = Summit(t)
  OBVIOUS
<1>8. /\ \A l \in Job : RunsOf(l)' = RunsOf(l)
      /\ x \in RunsOf(j) /\ F(x)'.last = F(x).last + 1
      /\ \A l \in Job : \A y \in RunsOf(l) : y # x => F(y)' = F(y)
      /\ \A l \in Job : work'[l].min = work[l].min
  <2>1. \A l \in Job : \A y \in RunsOf(l) : y \in Frames
    BY <1>1, PlacesIn
  <2> QED BY <1>2, <1>3, <1>4, <1>7, <2>1 DEF Edited, WorkKept
<1>9. \A l \in Job \ {j} : x \notin RunsOf(l)
  BY <1>1, <1>8, PlacesIn
<1>10. ASSUME NEW m \in Ends(j)' PROVE m \in Ends(j) \/ \E n \in Ends(j) : m = n + 1
  BY <1>8 DEF Ends
<1>11. \A l \in Job \ {j} : Tame(l)
  BY <1>8, <1>9 DEF Tame, Ends
<1> QED BY <1>5, <1>6, <1>10, <1>11 DEF Takes, Tame

LEMMA StepIs ==
  ASSUME Right, [Next]_vars
  PROVE  Leaves \/ Releases \/ \E i \in Job : Takes(i)
<1>1. ASSUME NEW c \in Caller, CallerStep(c) PROVE Leaves
  BY <1>1, CallLeaves, CallerLeaves DEF CallerStep, Thread
<1>2. ASSUME NEW t \in Thread, SchedulerStep(t) PROVE Leaves \/ \E i \in Job : Takes(i)
  BY <1>2, IdleLeaves, StillLeaves, PassOverTakes, ClaimTakes, FinishLeaves DEF SchedulerStep
<1>3. ASSUME NEW t \in Thread, BodyStep(t) PROVE Leaves \/ Releases \/ \E i \in Job : Takes(i)
  BY <1>3, ClaimMoreTakes, RunBatchTakes, ReleaseReleases, TurnLeaves, CallLeaves, EndIterationLeaves
     DEF BodyStep
<1>4. ASSUME NEW t \in Thread, Fail(t) PROVE Leaves
  BY <1>4, TurnLeaves
<1>5. CASE Done \/ UNCHANGED vars
  BY <1>5, StutterLeaves DEF Done
<1> QED BY <1>1, <1>2, <1>3, <1>4, <1>5 DEF Next

LEMMA InitBudget == Init => Counts /\ Budget
<1> SUFFICES ASSUME Init PROVE Counts /\ Budget
  OBVIOUS
<1>1. Right
  BY InitRight
<1>2. /\ semaphore = [s \in Semaphore |-> InitialValue[s]] /\ released = [s \in Semaphore |-> 0]
      /\ \A j \in Job : work[j].min = 0 /\ work[j].active_workers = 0 /\ Got(j) = 0
  BY DEF Init, Got
<1>3. Counts
  BY <1>2, InitialAssumption DEF Counts
<1>4. \A j \in Job : Ends(j) = {0}
  <2>1. \A j \in Job : RunsOf(j) = {}
    BY <1>1, <1>2, NoRuns DEF Right, JobRight
  <2> QED BY <1>2, <2>1 DEF Ends
<1>5. ASSUME NEW j \in Job, NEW k \in 1..Len(Acquires[j]) PROVE Covered(j, k, 0)
  <2> DEFINE c == Acquires[j][k].count
             s == Acquires[j][k].sem
  <2>1. c \in Nat /\ s \in Semaphore /\ k \in Nat /\ k > 0
    BY AcquiresAre
  <2>2. semaphore[s] = InitialValue[s] /\ released[s] = 0 /\ InitialValue[s] \in Nat
    BY <1>2, <2>1, InitialAssumption
  <2>3. 0 * c = 0 /\ ~(k <= Got(j))
    BY <1>2, <2>1
  <2> HIDE DEF c, s
  <2>4. 0 * c + semaphore[s] <= InitialValue[s] + released[s]
    BY <2>2, <2>3
  <2> QED BY <2>3, <2>4 DEF Covered, c, s
<1>6. Budget
  BY <1>4, <1>5 DEF Budget
<1> QED BY <1>3, <1>6

\* make_runnable and halide_semaphore_release conserve what a semaphore holds: for
\* each task, what its claimed iterations took, what it keeps for the next one in
\* next_semaphore and what is left are no more than there was and was released.
THEOREM BudgetAlways == Spec => [](Right /\ Counts /\ Budget)
<1>1. Init => Right /\ Counts /\ Budget
  BY InitRight, InitBudget
<1>2. Right /\ Counts /\ Budget /\ [Next]_vars => (Right /\ Counts /\ Budget)'
  <2> SUFFICES ASSUME Right, Counts, Budget, [Next]_vars PROVE Right' /\ Counts' /\ Budget'
    OBVIOUS
  <2>1. WorkTyped /\ \A j \in Job : JobTyped(j)
    BY WorkIsTyped, JobsAreTyped DEF Right
  <2> QED BY <2>1, NextRight, StepIs, BudgetKept
<1> QED BY <1>1, <1>2, PTL DEF Spec

\* make_runnable acquires a task's semaphores one by one and keeps what it got
\* when it fails: nevertheless the iterations of a serial task that worker threads
\* have claimed never need more of a semaphore than there was and was released.
THEOREM FoldsRespected == Spec => []FoldRespected
<1>1. Right /\ Counts /\ Budget => FoldRespected
  <2> SUFFICES ASSUME Right, Counts, Budget, NEW j \in Serial, NEW k \in DOMAIN Acquires[j]
               PROVE  Admitted(j) * Acquires[j][k].count
                        <= InitialValue[Acquires[j][k].sem] + released[Acquires[j][k].sem]
    BY DEF FoldRespected
  <2>1. j \in Job /\ serial(j)
    BY ProgramAssumption DEF serial
  <2>2. JobTyped(j) /\ JobRight(j) /\ Ends(j) \subseteq Nat
    BY <2>1, JobsAreTyped, EndsAre DEF Right
  <2>3. \E n \in Ends(j) : \A m \in Ends(j) : n >= m
    <3>1. \A x, y \in RunsOf(j) : x = y
      BY <2>1, <2>2 DEF JobRight, SerialRight
    <3>2. \A x \in RunsOf(j) : F(x).last \in Nat /\ work[j].min < F(x).last
      BY <2>1, <2>2 DEF JobTyped, JobRight, SerialRight
    <3>3. work[j].min \in Nat
      BY <2>2 DEF JobTyped
    <3>4. CASE RunsOf(j) = {}
      BY <3>3, <3>4 DEF Ends
    <3>5. CASE RunsOf(j) # {}
      <4>1. PICK x \in RunsOf(j) : RunsOf(j) = {x}
        BY <3>1, <3>5
      <4>2. Ends(j) = {work[j].min, F(x).last}
        BY <4>1 DEF Ends
      <4> QED BY <3>2, <3>3, <4>2
    <3> QED BY <3>4, <3>5
  <2>4. Admitted(j) = CHOOSE n \in Ends(j) : \A m \in Ends(j) : n >= m
    BY DEF Admitted, Ends, F, Max
  <2>5. Admitted(j) \in Ends(j)
    BY <2>3, <2>4
  <2>6. k \in 1..Len(Acquires[j])
    BY <2>1, AcquiresAre
  <2>7. PICK n \in Nat : n = Admitted(j) /\ Covered(j, k, n)
    BY <2>1, <2>2, <2>5, <2>6 DEF Budget
  <2> DEFINE c == Acquires[j][k].count
             s == Acquires[j][k].sem
             P == n * c
             u == InitialValue[s]
             v == semaphore[s]
             e == released[s]
  <2>8. c \in Nat /\ s \in Semaphore
    BY <2>1, <2>6, AcquiresAre
  <2>9. P \in Nat /\ u \in Nat /\ v \in Nat /\ e \in Nat
    BY <2>8, OneMore, InitialAssumption DEF Counts
  <2>10. P + v <= u + e
    BY <2>7 DEF Covered
  <2> HIDE DEF P, u, v, e
  <2>11. P <= u + e
    BY <2>9, <2>10
  <2> QED BY <2>7, <2>11 DEF P, u, e
<1> QED BY <1>1, BudgetAlways, PTL

\* Every task takes one at a time from each of its semaphores.
UnitAcquires == \A j \in Job : \A k \in DOMAIN Acquires[j] : Acquires[j][k].count <= 1

LEMMA RunnableIsNext ==
  WorkTyped' => \A j \in Job : Runnable(j)' <=> \A k \in (Got(j)' + 1)..Len(Acquires[j]) : Enough(j, k)'
<1> DEFINE A == \A j \in Job : Runnable(j) <=> \A k \in (Got(j) + 1)..Len(Acquires[j]) : Enough(j, k)
<1>1. WorkTyped => A
  BY RunnableIs
<1> HIDE DEF A
<1>2. WorkTyped' => A'
  BY <1>1, PTL
<1> QED BY <1>2 DEF A

LEMMA WokenWhenRunnable ==
  ASSUME UnitAcquires, WorkTyped, WorkTyped', Counts, Leaves \/ Releases \/ \E i \in Job : Takes(i),
         jobs' = jobs, NEW j \in Job, ~Runnable(j), Runnable(j)'
  PROVE  \E t \in Thread : At(t, "body") /\ At(t, "notify")'
<1>1. /\ Got(j) \in Nat /\ Len(Acquires[j]) \in Nat /\ DOMAIN Acquires[j] = 1..Len(Acquires[j])
      /\ \A k \in 1..Len(Acquires[j]) : Acquires[j][k].sem \in Semaphore /\ Acquires[j][k].count \in Nat
  BY GotIs, AcquiresAre
<1>2. \A k \in (Got(j)' + 1)..Len(Acquires[j]) : Enough(j, k)'
  BY RunnableIsNext
<1>3. PICK k \in (Got(j) + 1)..Len(Acquires[j]) : ~Enough(j, k)
  BY RunnableIs
<1>4. k \in 1..Len(Acquires[j])
  BY <1>1
<1>5. PICK s \in Semaphore, c \in Nat : s = Acquires[j][k].sem /\ c = Acquires[j][k].count /\ c <= 1
  BY <1>1, <1>4 DEF UnitAcquires
<1>6. semaphore[s] \in Nat /\ semaphore[s] = 0 /\ c = 1
  <2>1. semaphore[s] \in Nat /\ ~(semaphore[s] >= c)
    BY <1>3, <1>5 DEF Enough, Counts
  <2> QED BY <1>5, <2>1
<1>7. ASSUME Got(j)' = Got(j) PROVE semaphore'[s] >= 1
  BY <1>2, <1>3, <1>5, <1>6, <1>7 DEF Enough
<1>8. CASE Leaves
  BY <1>6, <1>7, <1>8 DEF Leaves
<1>9. CASE Releases
  <2>1. PICK r \in Semaphore, n \in Nat :
          /\ semaphore' = [semaphore EXCEPT ![r] = @ + n] /\ Got(j)' = Got(j)
          /\ WakesOn(semaphore[r], n) => \E t \in Thread : At(t, "body") /\ At(t, "notify")'
    BY <1>9 DEF Releases
  <2>2. r = s /\ n # 0
    BY <1>6, <1>7, <2>1 DEF Counts
  <2> QED BY <1>6, <2>1, <2>2 DEF WakesOn
<1>10. ASSUME NEW i \in Job, Takes(i) PROVE FALSE
  <2>1. Makes(i)
    BY <1>10 DEF Takes
  <2>2. CASE i # j
    <3>1. Got(j)' = Got(j) /\ semaphore'[s] <= semaphore[s] /\ semaphore'[s] \in Nat
      BY <2>1, <2>2, MakesIs DEF Makes, Counts
    <3> QED BY <1>6, <1>7, <3>1
  <2>3. CASE i = j
    <3> DEFINE q == Reach(j) + 1
    <3>1. Reach(j) \in Nat /\ Reach(j) <= Len(Acquires[j]) /\ Reach(j) # Len(Acquires[j])
      BY ReachStops DEF Runnable
    <3>2. q \in 1..Len(Acquires[j]) /\ ~(q <= Reach(j)) /\ ~Enough(j, q)
      BY <1>1, <3>1, ReachStops
    <3>3. Got(j)' = Reach(j)
      BY <2>1, <2>3 DEF Makes
    <3>4. \A n \in 1..Len(Acquires[j]) : ~(n <= Reach(j)) =>
            semaphore'[Acquires[j][n].sem] = semaphore[Acquires[j][n].sem]
      BY <2>1, <2>3, MakesIs
    <3>5. PICK n \in 1..Len(Acquires[j]) : n = Reach(j) + 1
      BY <3>2
    <3>6. Enough(j, n)'
      BY <1>1, <1>2, <3>3, <3>5
    <3> QED BY <3>2, <3>4, <3>5, <3>6 DEF Enough
  <2> QED BY <2>2, <2>3
<1> QED BY <1>8, <1>9, <1>10

\* halide_semaphore_release wakes the sleepers only when the semaphore was at zero.
\* That is enough if no task takes more than one at a time: whenever a step lets
\* make_runnable succeed for a job on the stack, it is a release that goes on to wake.
THEOREM ReleasesWake ==
  ASSUME UnitAcquires
  PROVE  Spec => ReleaseWakes
<1> DEFINE A == jobs' = jobs /\ (\E k \in DOMAIN jobs : ~Runnable(jobs[k]) /\ Runnable(jobs[k])')
                  => \E t \in Thread : At(t, "body") /\ At(t, "notify")'
<1>1. Right /\ Counts /\ Budget /\ [Next]_vars => [A]_vars
  <2> SUFFICES ASSUME Right, Counts, [Next]_vars, jobs' = jobs,
                      NEW k \in DOMAIN jobs, ~Runnable(jobs[k]), Runnable(jobs[k])'
               PROVE  \E t \in Thread : At(t, "body") /\ At(t, "notify")'
    OBVIOUS
  <2>1. PICK j \in Job : j = jobs[k]
    BY DEF Right, Shape, Typed
  <2>2. ~Runnable(j) /\ Runnable(j)'
    BY <2>1 DEF Runnable, Reach
  <2>3. WorkTyped /\ WorkTyped'
    <3>1. Right'
      BY NextRight
    <3> QED BY <3>1 DEF Right, Shape, Typed, WorkTyped
  <2> QED BY <2>2, <2>3, StepIs, WokenWhenRunnable
<1>2. ReleaseWakes <=> [][A]_vars
  BY DEF ReleaseWakes
<1> HIDE DEF A
<1> QED BY <1>1, <1>2, BudgetAlways, PTL DEF Spec

=============================================================================
