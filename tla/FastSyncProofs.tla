--------------------------- MODULE FastSyncProofs ---------------------------
(***************************************************************************)
(* fast_mutex excludes, and the parking lot loses nobody: for any threads, *)
(* mutexes, conditions, hash function and calls.                           *)
(*                                                                         *)
(* Exclusion.  The word of a mutex is written by its holder, who frees it  *)
(* with a compare-and-swap or, in the callback of unpark_one, with a plain *)
(* store; by threads that want it; and by broadcasts, whose threads need   *)
(* not hold it and which may run between any two of those writes.  That    *)
(* the lock bit says whether somebody holds the mutex is what every one of *)
(* the writes keeps, and it makes exclusion inductive.  The argument does  *)
(* not depend on the chains of the buckets.                                *)
(*                                                                         *)
(* Chains.  The nodes of a bucket are a list: each thread whose node waits *)
(* for an address of the bucket is on it once, and nobody else.  Adding a  *)
(* node at the end, taking one out of the middle and moving all nodes of   *)
(* an address to another bucket, or behind the others of the same one,     *)
(* leave such lists.                                                       *)
(*                                                                         *)
(* Nodes.  A thread's node is on the chain of its address, or has been     *)
(* taken out by one thread that will unpark it, or may wake up.            *)
(*                                                                         *)
(* Words.  What the words of mutexes and conditions say is true of those   *)
(* who are queued, also while a broadcast holds the buckets and has not    *)
(* moved the queue yet.  From this follows that no wakeup is lost.         *)
(*                                                                         *)
(* Queues.  The nodes of an address keep their order: park() comes behind  *)
(* all others, the nodes that are left by a removal or a move stay as they *)
(* were.  The sequence that Queue chooses is therefore the one there is,   *)
(* and each step is one of the monitor's or changes nothing that it sees.  *)
(***************************************************************************)
EXTENDS FastSync, FiniteSetTheorems, WellFoundedInduction, TLAPS

(***************************************************************************)
(* Chains.  The two recursive definitions of FastSync, the walk along the  *)
(* next pointers and the loop of unpark_requeue, are functions because     *)
(* every prefix of them is.                                                *)
(***************************************************************************)
LEMMA Smallest ==
  ASSUME NEW S \in SUBSET Nat, S # {}
  PROVE  \E x \in S : \A y \in S : x <= y
<1>1. PICK x \in S : \A y \in S : ~(<<y, x>> \in OpToRel(<, Nat))
  BY NatLessThanWellFounded, WFMin
<1>2. \A y \in S : ~(y < x)
  BY <1>1 DEF OpToRel
<1> QED BY <1>2

Along(g, N, h, f) ==
  g = [n \in 0 .. N |->
         IF n = 0 THEN h ELSE IF g[n - 1] = NULL THEN NULL ELSE f[g[n - 1]]]

LEMMA PathExists ==
  ASSUME NEW N \in Nat, NEW h, NEW f
  PROVE  \E g : Along(g, N, h, f)
<1> DEFINE After(u) == IF u = NULL THEN NULL ELSE f[u]
           Path(k, g) == g = [n \in 0 .. k |-> IF n = 0 THEN h ELSE After(g[n - 1])]
           Bad == {k \in Nat : ~ \E g : Path(k, g)}
<1>1. SUFFICES ASSUME N \in Bad PROVE FALSE
  BY DEF Along
<1>2. PICK k \in Bad : \A j \in Bad : k <= j
  <2>1. Bad \in SUBSET Nat /\ Bad # {}
    BY <1>1
  <2> HIDE DEF Bad
  <2> QED BY <2>1, Smallest
<1>3. k - 1 \notin Bad
  <2>1. k \in Nat
    BY <1>2
  <2> HIDE DEF Bad
  <2> QED BY <1>2, <2>1
<1>4. k \in Nat /\ ~ \E g : Path(k, g)
  BY <1>2
<1>5. k # 0
  <2>1. Path(0, [n \in 0 .. 0 |-> h])
    OBVIOUS
  <2> QED BY <2>1, <1>4
<1>6. PICK g : Path(k - 1, g)
  <2>1. k - 1 \in Nat
    BY <1>4, <1>5
  <2> QED BY <1>3, <2>1
<1> DEFINE longer == [n \in 0 .. k |-> IF n < k THEN g[n] ELSE After(g[k - 1])]
<1>7. \A n \in 0 .. k : longer[n] = IF n = 0 THEN h ELSE After(longer[n - 1])
  <2> SUFFICES ASSUME NEW n \in 0 .. k
               PROVE  longer[n] = IF n = 0 THEN h ELSE After(longer[n - 1])
    OBVIOUS
  <2> HIDE DEF After
  <2>1. CASE n < k
    <3>1. g[n] = IF n = 0 THEN h ELSE After(g[n - 1])
      BY <1>4, <1>6, <2>1
    <3>2. n # 0 => longer[n - 1] = g[n - 1]
      BY <1>4, <2>1
    <3> QED BY <1>4, <2>1, <3>1, <3>2
  <2>2. CASE n = k
    <3>1. longer[k - 1] = g[k - 1]
      BY <1>4, <1>5
    <3> QED BY <1>4, <1>5, <2>2, <3>1
  <2> QED BY <1>4, <2>1, <2>2
<1>8. Path(k, longer)
  <2> HIDE DEF After
  <2> QED BY <1>7
<1> QED BY <1>4, <1>8

\* The n nodes of q, each of them once, one behind the other by the next
\* pointers nx.
Seg(n, q, nx) ==
  /\ n \in Nat /\ q \in [1 .. n -> Thread]
  /\ \A i, j \in 1 .. n : q[i] = q[j] => i = j
  /\ \A i \in 1 .. n - 1 : nx[q[i]] = q[i + 1]

\* They are all there is between a head h and a tail l.
List(n, q, h, l, nx) ==
  /\ Seg(n, q, nx)
  /\ n = 0 => h = NULL /\ l = NULL
  /\ n > 0 => h = q[1] /\ l = q[n] /\ nx[q[n]] = NULL

Has(n, q, t) == \E i \in 1 .. n : q[i] = t

\* The chain of bucket b: the nodes that wait for an address of that bucket.
Linked(b, n, q) ==
  /\ List(n, q, head[b], tail[b], next)
  /\ \A t \in Thread :
       Has(n, q, t) <=> sleep_address[t] # NULL /\ Hash[sleep_address[t]] = b

LEMMA LinkedShort ==
  ASSUME NEW b, NEW n, NEW q, Linked(b, n, q)
  PROVE  n <= Cardinality(Thread) /\ Cardinality(Thread) \in Nat
<1>1. q \in Injection(1 .. n, Thread)
  <2>1. q \in [1 .. n -> Thread] /\ \A i, j \in 1 .. n : q[i] = q[j] => i = j
    BY DEF Linked, List, Seg
  <2> QED BY <2>1, Zenon DEF Injection, IsInjective
<1>2. n \in Nat
  BY DEF Linked, List, Seg
<1>3. Cardinality(1 .. n) = n
  BY <1>2, FS_Interval
<1> QED BY <1>1, <1>3, ThreadAssumption, FS_Injection, FS_CardinalityType

LEMMA ChainOfLinked ==
  ASSUME NEW b, NEW n, NEW q, Linked(b, n, q)
  PROVE  Chain(b) = q
<1> DEFINE N == Cardinality(Thread)
           After(u) == IF u = NULL THEN NULL ELSE next[u]
           node == CHOOSE g : g = [k \in 0 .. N |-> IF k = 0 THEN head[b] ELSE After(g[k - 1])]
<1>1. n <= N /\ N \in Nat /\ n \in Nat
  <2>1. n <= N /\ N \in Nat
    BY LinkedShort
  <2>2. n \in Nat
    BY DEF Linked, List, Seg
  <2> QED BY <2>1, <2>2
<1>2. node = [k \in 0 .. N |-> IF k = 0 THEN head[b] ELSE After(node[k - 1])]
  <2>1. \E g : g = [k \in 0 .. N |-> IF k = 0 THEN head[b] ELSE After(g[k - 1])]
    <3>1. N \in Nat
      BY <1>1
    <3> HIDE DEF N
    <3>2. PICK g : Along(g, N, head[b], next)
      BY <3>1, PathExists
    <3>3. g = [k \in 0 .. N |-> IF k = 0 THEN head[b] ELSE After(g[k - 1])]
      BY <3>2 DEF Along
    <3> QED BY <3>3
  <2> HIDE DEF After, N
  <2> QED BY <2>1
<1>3. Chain(b) = [k \in {i \in 1 .. N + 1 : node[i - 1] # NULL} |-> node[k - 1]]
  BY DEF Chain
<1> HIDE DEF node
<1> DEFINE Should(k) == IF k < n THEN q[k + 1] ELSE NULL
           Bad == {k \in 0 .. N : node[k] # Should(k)}
<1>4. ASSUME Bad # {} PROVE FALSE
  <2>1. PICK k \in Bad : \A j \in Bad : k <= j
    <3>1. Bad \in SUBSET Nat
      BY <1>1
    <3> HIDE DEF Bad
    <3> QED BY <1>4, <3>1, Smallest
  <2>2. k - 1 \notin Bad
    <3>1. k \in Nat
      BY <1>1, <2>1
    <3> HIDE DEF Bad
    <3> QED BY <2>1, <3>1
  <2>3. k \in 0 .. N /\ node[k] # Should(k)
    BY <2>1
  <2>4. k # 0
    BY <1>1, <1>2, <2>3 DEF Linked, List, Seg
  <2>5. node[k - 1] = Should(k - 1)
    <3>1. k - 1 \in 0 .. N
      BY <1>1, <2>3, <2>4
    <3> QED BY <3>1, <2>2
  <2>6. node[k] = After(node[k - 1])
    BY <1>1, <1>2, <2>3, <2>4
  <2>7. CASE k - 1 < n
    <3>1. k \in 1 .. n /\ q[k] \in Thread
      BY <1>1, <2>3, <2>4, <2>7 DEF Linked, List, Seg
    <3>2. node[k] = next[q[k]]
      BY <1>1, <2>3, <2>5, <2>6, <2>7, <3>1, NullAssumption
    <3> QED BY <1>1, <2>3, <3>1, <3>2 DEF Linked, List, Seg
  <2>8. CASE ~(k - 1 < n)
    BY <1>1, <2>3, <2>4, <2>5, <2>6, <2>8
  <2> QED BY <2>7, <2>8
<1>5. \A k \in 0 .. N : node[k] = Should(k)
  BY <1>4
<1>6. \A i \in 1 .. N + 1 : node[i - 1] # NULL <=> i \in 1 .. n
  <2> SUFFICES ASSUME NEW i \in 1 .. N + 1
               PROVE  node[i - 1] # NULL <=> i \in 1 .. n
    OBVIOUS
  <2>1. i - 1 \in 0 .. N /\ node[i - 1] = Should(i - 1)
    BY <1>1, <1>5
  <2>2. i \in 1 .. n => q[i] # NULL
    BY NullAssumption DEF Linked, List, Seg
  <2> QED BY <1>1, <2>1, <2>2
<1>7. {i \in 1 .. N + 1 : node[i - 1] # NULL} = 1 .. n
  BY <1>1, <1>6
<1>8. \A i \in 1 .. n : node[i - 1] = q[i]
  BY <1>1, <1>5
<1>9. Chain(b) = [k \in 1 .. n |-> node[k - 1]]
  BY <1>3, <1>7
<1>10. q = [k \in 1 .. n |-> q[k]]
  BY DEF Linked, List, Seg
<1> QED BY <1>8, <1>9, <1>10

(***************************************************************************)
(* What is done to a list: a node put behind the last one, a node taken    *)
(* out, two lists joined.                                                  *)
(***************************************************************************)
Behind(n, q, t)    == [i \in 1 .. n + 1 |-> IF i <= n THEN q[i] ELSE t]
Without(n, q, k)   == [i \in 1 .. n - 1 |-> IF i < k THEN q[i] ELSE q[i + 1]]
Joined(n, q, m, r) == [i \in 1 .. n + m |-> IF i <= n THEN q[i] ELSE r[i - n]]

LEMMA HasBehind ==
  ASSUME NEW n \in Nat, NEW q, NEW t, NEW u
  PROVE  Has(n + 1, Behind(n, q, t), u) <=> Has(n, q, u) \/ u = t
<1>1. \A i : i \in 1 .. n + 1 <=> i \in 1 .. n \/ i = n + 1
  OBVIOUS
<1>2. Behind(n, q, t)[n + 1] = t /\ \A i \in 1 .. n : Behind(n, q, t)[i] = q[i]
  BY DEF Behind
<1> QED BY <1>1, <1>2 DEF Has

LEMMA ListFrame ==
  ASSUME NEW n, NEW q, NEW h, NEW l, NEW nx, NEW ny, List(n, q, h, l, nx),
         \A t \in Thread : Has(n, q, t) => ny[t] = nx[t]
  PROVE  List(n, q, h, l, ny)
<1>1. \A i \in 1 .. n : ny[q[i]] = nx[q[i]]
  BY DEF List, Seg, Has
<1> QED BY <1>1 DEF List, Seg

LEMMA SegFrame ==
  ASSUME NEW n, NEW q, NEW nx, NEW ny, Seg(n, q, nx),
         \A i \in 1 .. n - 1 : ny[q[i]] = nx[q[i]]
  PROVE  Seg(n, q, ny)
  BY DEF Seg

LEMMA SegBehind ==
  ASSUME NEW n, NEW q, NEW nx, NEW ny, NEW t \in Thread, Seg(n, q, nx), ~Has(n, q, t),
         \A i \in 1 .. n - 1 : ny[q[i]] = nx[q[i]],
         n > 0 => ny[q[n]] = t
  PROVE  /\ Seg(n + 1, Behind(n, q, t), ny)
         /\ \A u : Has(n + 1, Behind(n, q, t), u) <=> Has(n, q, u) \/ u = t
<1> DEFINE p == Behind(n, q, t)
<1>1. n \in Nat /\ n + 1 \in Nat /\ p \in [1 .. n + 1 -> Thread]
  BY DEF Seg, Behind
<1>2. p[n + 1] = t /\ \A i \in 1 .. n : p[i] = q[i]
  BY <1>1 DEF Behind
<1>3. \A i, j \in 1 .. n + 1 : p[i] = p[j] => i = j
  <2> SUFFICES ASSUME NEW i \in 1 .. n + 1, NEW j \in 1 .. n + 1, p[i] = p[j], i # j
               PROVE  FALSE
    OBVIOUS
  <2> HIDE DEF p
  <2>1. (i \in 1 .. n \/ i = n + 1) /\ (j \in 1 .. n \/ j = n + 1)
    BY <1>1
  <2> QED BY <1>1, <1>2, <2>1 DEF Seg, Has
<1>4. \A i \in 1 .. n : ny[p[i]] = p[i + 1]
  <2> SUFFICES ASSUME NEW i \in 1 .. n PROVE ny[p[i]] = p[i + 1]
    OBVIOUS
  <2> HIDE DEF p
  <2>1. CASE i = n
    BY <1>1, <1>2, <2>1
  <2>2. CASE i < n
    <3>1. i \in 1 .. n - 1 /\ i + 1 \in 1 .. n
      BY <1>1, <2>2
    <3> QED BY <1>2, <3>1 DEF Seg
  <2> QED BY <1>1, <2>1, <2>2
<1>5. \A u : Has(n + 1, p, u) <=> Has(n, q, u) \/ u = t
  <2> HIDE DEF p
  <2>1. \A i : i \in 1 .. n + 1 <=> i \in 1 .. n \/ i = n + 1
    BY <1>1
  <2> QED BY <1>2, <2>1 DEF Has
<1>6. (n + 1) - 1 = n
  BY <1>1
<1> QED BY <1>1, <1>3, <1>4, <1>5, <1>6 DEF Seg

LEMMA ListBehind ==
  ASSUME NEW n, NEW q, NEW h, NEW l, NEW nx, NEW ny, NEW t \in Thread,
         List(n, q, h, l, nx), ~Has(n, q, t),
         \A u \in Thread : u # t /\ ~(n > 0 /\ u = l) => ny[u] = nx[u],
         n > 0 => ny[l] = t, ny[t] = NULL
  PROVE  List(n + 1, Behind(n, q, t), IF h = NULL THEN t ELSE h, t, ny)
<1>1. n \in Nat /\ q \in [1 .. n -> Thread] /\ Seg(n, q, nx)
  BY DEF List, Seg
<1>2. \A i \in 1 .. n - 1 : ny[q[i]] = nx[q[i]]
  BY <1>1 DEF List, Seg, Has
<1>3. n > 0 => ny[q[n]] = t
  BY <1>1 DEF List
<1>4. Seg(n + 1, Behind(n, q, t), ny)
  BY <1>1, <1>2, <1>3, SegBehind
<1>5. Behind(n, q, t)[n + 1] = t /\ n + 1 > 0 /\ n + 1 # 0
  BY <1>1 DEF Behind
<1>6. (IF h = NULL THEN t ELSE h) = Behind(n, q, t)[1]
  BY <1>1, NullAssumption DEF List, Behind
<1> QED BY <1>4, <1>5, <1>6 DEF List

LEMMA HasWithout ==
  ASSUME NEW n \in Nat, NEW q \in [1 .. n -> Thread], NEW k \in 1 .. n,
         \A i, j \in 1 .. n : q[i] = q[j] => i = j
  PROVE  \A u : Has(n - 1, Without(n, q, k), u) <=> Has(n, q, u) /\ u # q[k]
<1> SUFFICES ASSUME NEW u
             PROVE  Has(n - 1, Without(n, q, k), u) <=> Has(n, q, u) /\ u # q[k]
  OBVIOUS
<1>1. ASSUME Has(n - 1, Without(n, q, k), u) PROVE Has(n, q, u) /\ u # q[k]
  <2>1. PICK i \in 1 .. n - 1 : Without(n, q, k)[i] = u
    BY <1>1 DEF Has
  <2>2. CASE i < k
    BY <2>1, <2>2 DEF Has, Without
  <2>3. CASE ~(i < k)
    <3>1. i + 1 \in 1 .. n /\ u = q[i + 1] /\ i + 1 # k
      BY <2>1, <2>3 DEF Without
    <3> QED BY <3>1 DEF Has
  <2> QED BY <2>2, <2>3
<1>2. ASSUME Has(n, q, u), u # q[k] PROVE Has(n - 1, Without(n, q, k), u)
  <2>1. PICK i \in 1 .. n : q[i] = u
    BY <1>2 DEF Has
  <2>2. CASE i < k
    <3>1. i \in 1 .. n - 1 /\ Without(n, q, k)[i] = u
      BY <2>1, <2>2 DEF Without
    <3> QED BY <3>1 DEF Has
  <2>3. CASE i > k
    <3>1. i - 1 \in 1 .. n - 1 /\ Without(n, q, k)[i - 1] = u
      BY <2>1, <2>3 DEF Without
    <3> QED BY <3>1 DEF Has
  <2> QED BY <1>2, <2>1, <2>2, <2>3
<1> QED BY <1>1, <1>2

\* Node k is taken out: the one before it, or the head, gets its successor.
LEMMA ListWithout ==
  ASSUME NEW n, NEW q, NEW h, NEW l, NEW nx, NEW ny, NEW k \in 1 .. n,
         List(n, q, h, l, nx),
         \A u \in Thread : u # q[k] /\ ~(k > 1 /\ u = q[k - 1]) => ny[u] = nx[u],
         k > 1 => ny[q[k - 1]] = nx[q[k]]
  PROVE  List(n - 1, Without(n, q, k),
              IF k = 1 THEN nx[q[k]] ELSE h,
              IF l = q[k] THEN (IF k = 1 THEN NULL ELSE q[k - 1]) ELSE l, ny)
<1> DEFINE p == Without(n, q, k)
<1>1. n \in Nat /\ q \in [1 .. n -> Thread] /\ n - 1 \in Nat
  BY DEF List, Seg
<1>2. p \in [1 .. n - 1 -> Thread]
  BY <1>1 DEF Without
<1>3. \A i \in 1 .. n - 1 : p[i] = IF i < k THEN q[i] ELSE q[i + 1]
  BY DEF Without
<1> HIDE DEF p
<1>4. \A i, j \in 1 .. n - 1 : p[i] = p[j] => i = j
  <2>1. \A i, j \in 1 .. n : q[i] = q[j] => i = j
    BY DEF List, Seg
  <2> QED BY <1>1, <1>3, <2>1
<1>5. \A i \in 1 .. n : i # k => ny[q[i]] = IF i + 1 = k THEN nx[q[k]] ELSE nx[q[i]]
  <2>1. \A i, j \in 1 .. n : q[i] = q[j] => i = j
    BY DEF List, Seg
  <2> QED BY <1>1, <2>1
<1>6. \A i \in 1 .. n - 2 : ny[p[i]] = p[i + 1]
  <2> SUFFICES ASSUME NEW i \in 1 .. n - 2 PROVE ny[p[i]] = p[i + 1]
    OBVIOUS
  <2>0. \A j \in 1 .. n - 1 : nx[q[j]] = q[j + 1]
    BY DEF List, Seg
  <2>1. CASE i + 1 < k
    BY <1>1, <1>3, <1>5, <2>0, <2>1
  <2>2. CASE i + 1 = k
    BY <1>1, <1>3, <1>5, <2>0, <2>2
  <2>3. CASE i + 1 > k
    BY <1>1, <1>3, <1>5, <2>0, <2>3
  <2> QED BY <1>1, <2>1, <2>2, <2>3
<1>7. Seg(n - 1, p, ny)
  <2>1. (n - 1) - 1 = n - 2
    BY <1>1
  <2> QED BY <1>1, <1>2, <1>4, <1>6, <2>1 DEF Seg
<1> DEFINE g == IF k = 1 THEN nx[q[k]] ELSE h
           m == IF l = q[k] THEN (IF k = 1 THEN NULL ELSE q[k - 1]) ELSE l
<1>8. n > 0 /\ h = q[1] /\ l = q[n] /\ nx[q[n]] = NULL
  BY <1>1 DEF List
<1>9. \A i, j \in 1 .. n : q[i] = q[j] => i = j
  BY DEF List, Seg
<1>10. n - 1 = 0 => g = NULL /\ m = NULL
  BY <1>1, <1>8
<1>11. n - 1 > 0 => g = p[1]
  <2>1. n > 1 => nx[q[1]] = q[2]
    BY <1>1 DEF List, Seg
  <2> QED BY <1>1, <1>3, <1>8, <2>1
<1>12. n - 1 > 0 => m = p[n - 1]
  BY <1>1, <1>3, <1>8, <1>9
<1>13. n - 1 > 0 => ny[p[n - 1]] = NULL
  BY <1>1, <1>3, <1>5, <1>8
<1> QED BY <1>7, <1>10, <1>11, <1>12, <1>13 DEF List, p

\* A segment that ends with no successor is put behind a list.
\* r, of m nodes, behind q, of n nodes and with the head h.
Chained(n, q, h, m, r, nx) ==
  /\ List(n + m, Joined(n, q, m, r), IF h = NULL THEN r[1] ELSE h, r[m], nx)
  /\ \A u : Has(n + m, Joined(n, q, m, r), u) <=> Has(n, q, u) \/ Has(m, r, u)

LEMMA ListJoined ==
  ASSUME NEW n, NEW q, NEW h, NEW l, NEW nx, NEW ny, NEW m, NEW r,
         List(n, q, h, l, nx), Seg(m, r, nx), m > 0,
         \A i \in 1 .. n : \A j \in 1 .. m : q[i] # r[j],
         \A u \in Thread : u # r[m] /\ ~(n > 0 /\ u = l) => ny[u] = nx[u],
         n > 0 => ny[l] = r[1], ny[r[m]] = NULL
  PROVE  Chained(n, q, h, m, r, ny)
<1> DEFINE p == Joined(n, q, m, r)
<1>1. n \in Nat /\ q \in [1 .. n -> Thread] /\ m \in Nat /\ r \in [1 .. m -> Thread] /\ n + m \in Nat
  BY DEF List, Seg
<1>2. p \in [1 .. n + m -> Thread]
  BY <1>1 DEF Joined
<1>3. /\ \A i \in 1 .. n : i \in 1 .. n + m /\ p[i] = q[i]
      /\ \A j \in 1 .. m : n + j \in 1 .. n + m /\ p[n + j] = r[j]
      /\ \A i \in 1 .. n + m : i \in 1 .. n \/ i - n \in 1 .. m
      /\ \A i \in 1 .. n + m : i \notin 1 .. n => p[i] = r[i - n]
  BY <1>1 DEF Joined
<1> HIDE DEF p
<1>4. \A i, j \in 1 .. n : q[i] = q[j] => i = j
  BY DEF List, Seg
<1>5. \A i, j \in 1 .. m : r[i] = r[j] => i = j
  BY DEF Seg
<1>6. \A i, j \in 1 .. n + m : p[i] = p[j] => i = j
  <2> SUFFICES ASSUME NEW i \in 1 .. n + m, NEW j \in 1 .. n + m, p[i] = p[j]
               PROVE  i = j
    OBVIOUS
  <2>1. CASE i \in 1 .. n /\ j \in 1 .. n
    BY <1>3, <1>4, <2>1
  <2>2. CASE i \in 1 .. n /\ j \notin 1 .. n
    BY <1>3, <2>2
  <2>3. CASE i \notin 1 .. n /\ j \in 1 .. n
    BY <1>3, <2>3
  <2>4. CASE i \notin 1 .. n /\ j \notin 1 .. n
    <3>1. i - n \in 1 .. m /\ j - n \in 1 .. m /\ r[i - n] = r[j - n]
      BY <1>3, <2>4
    <3>2. i - n = j - n
      BY <1>5, <3>1
    <3> QED BY <1>1, <3>2
  <2> QED BY <2>1, <2>2, <2>3, <2>4
<1>7. \A i \in 1 .. n - 1 : ny[q[i]] = q[i + 1]
  <2> SUFFICES ASSUME NEW i \in 1 .. n - 1 PROVE ny[q[i]] = q[i + 1]
    OBVIOUS
  <2>1. i \in 1 .. n /\ i # n /\ n \in 1 .. n /\ m \in 1 .. m
    BY <1>1
  <2>2. l = q[n] /\ nx[q[i]] = q[i + 1]
    BY <2>1 DEF List, Seg
  <2>3. q[i] # q[n] /\ q[i] # r[m] /\ q[i] \in Thread
    BY <1>1, <1>4, <2>1
  <2> QED BY <2>2, <2>3
<1>8. \A j \in 1 .. m - 1 : ny[r[j]] = r[j + 1]
  <2> SUFFICES ASSUME NEW j \in 1 .. m - 1 PROVE ny[r[j]] = r[j + 1]
    OBVIOUS
  <2>1. j \in 1 .. m /\ j # m /\ m \in 1 .. m /\ (n > 0 => n \in 1 .. n)
    BY <1>1
  <2>2. nx[r[j]] = r[j + 1]
    BY <2>1 DEF Seg
  <2>3. (n > 0 => l = q[n])
    BY DEF List
  <2>4. r[j] # r[m] /\ r[j] \in Thread /\ (n > 0 => r[j] # q[n])
    BY <1>1, <1>5, <2>1
  <2> QED BY <2>2, <2>3, <2>4
<1>9. \A i \in 1 .. (n + m) - 1 : ny[p[i]] = p[i + 1]
  <2> SUFFICES ASSUME NEW i \in 1 .. (n + m) - 1 PROVE ny[p[i]] = p[i + 1]
    OBVIOUS
  <2>1. CASE i < n
    <3>1. i \in 1 .. n - 1 /\ i \in 1 .. n /\ i + 1 \in 1 .. n
      BY <1>1, <2>1
    <3> QED BY <1>3, <1>7, <3>1
  <2>2. CASE i = n
    <3>1. n \in 1 .. n /\ 1 \in 1 .. m /\ n > 0
      BY <1>1, <2>2
    <3>2. l = q[n] /\ p[n] = q[n] /\ p[n + 1] = r[1]
      BY <1>3, <3>1 DEF List
    <3> QED BY <2>2, <3>1, <3>2
  <2>3. CASE i > n
    <3>1. i - n \in 1 .. m - 1 /\ i \in 1 .. n + m /\ i + 1 \in 1 .. n + m
          /\ i \notin 1 .. n /\ i + 1 \notin 1 .. n /\ (i + 1) - n = (i - n) + 1
      BY <1>1, <2>3
    <3>2. p[i] = r[i - n] /\ p[i + 1] = r[(i - n) + 1]
      BY <1>3, <3>1
    <3> QED BY <1>8, <3>1, <3>2
  <2> QED BY <1>1, <2>1, <2>2, <2>3
<1>10. Seg(n + m, p, ny)
  BY <1>1, <1>2, <1>6, <1>9 DEF Seg
<1>11. p[n + m] = r[m] /\ n + m > 0 /\ n + m # 0
  <2>1. m \in 1 .. m
    BY <1>1
  <2> QED BY <1>1, <1>3, <2>1
<1>12. (IF h = NULL THEN r[1] ELSE h) = p[1]
  <2>1. CASE n = 0
    <3>1. h = NULL /\ 1 \in 1 .. m /\ n + 1 = 1
      BY <1>1, <2>1 DEF List
    <3> QED BY <1>3, <3>1
  <2>2. CASE n > 0
    <3>1. 1 \in 1 .. n /\ h = q[1] /\ q[1] \in Thread
      BY <1>1, <2>2 DEF List
    <3> QED BY <1>3, <3>1, NullAssumption
  <2> QED BY <1>1, <2>1, <2>2
<1>13. \A u : Has(n + m, p, u) <=> Has(n, q, u) \/ Has(m, r, u)
  BY <1>3 DEF Has
<1> QED BY <1>10, <1>11, <1>12, <1>13 DEF Chained, List, p

(***************************************************************************)
(* The steps that write the chains keep every bucket linked.               *)
(***************************************************************************)
\* The types of the parking lot.
LotTyped ==
  /\ head \in [Bucket -> Thread \union {NULL}]
  /\ tail \in [Bucket -> Thread \union {NULL}]
  /\ next \in [Thread -> Thread \union {NULL}]
  /\ sleep_address \in [Thread -> Address \union {NULL}]

AllLinked == \A b \in Bucket : \E n, q : Linked(b, n, q)

\* Node u is before node v on the chain of a bucket.
Ahead(u, v) ==
  \E b \in Bucket : \E n, q : Linked(b, n, q) /\ \E i, j \in 1 .. n : i < j /\ q[i] = u /\ q[j] = v

\* A step lets no node overtake another: of two that go on waiting for what they
\* waited for the first stays the first.
Orderly ==
  \A u, v \in Thread :
    /\ Ahead(u, v)
    /\ sleep_address'[u] = sleep_address[u]
    /\ sleep_address'[v] = sleep_address[v]
    => Ahead(u, v)'

\* The nodes of p, of i nodes, that are in q, of n, are in the same order there.
SameOrder(n, q, i, p) ==
  \A x, y \in 1 .. n : \A j, k \in 1 .. i : x < y /\ q[x] = p[j] /\ q[y] = p[k] => j < k

LEMMA AddressFacts ==
  /\ NULL \notin Address
  /\ \A a \in Address : Hash[a] \in Bucket /\ Hash[a] \in Nat
  BY NullAssumption, HashAssumption DEF Address, Bucket

LEMMA LinkedThreads ==
  ASSUME NEW b, NEW n, NEW q, Linked(b, n, q)
  PROVE  /\ n \in Nat /\ q \in [1 .. n -> Thread]
         /\ n > 0 => tail[b] \in Thread /\ tail[b] = q[n] /\ head[b] = q[1] /\ head[b] # NULL
         /\ n = 0 <=> head[b] = NULL
         /\ \A t : Has(n, q, t) => t \in Thread /\ sleep_address[t] # NULL
                                   /\ Hash[sleep_address[t]] = b
<1>1. n \in Nat /\ q \in [1 .. n -> Thread]
  BY DEF Linked, List, Seg
<1>2. n > 0 => tail[b] \in Thread /\ tail[b] = q[n] /\ head[b] = q[1] /\ head[b] \in Thread
  BY <1>1 DEF Linked, List
<1>3. n = 0 => head[b] = NULL
  BY DEF Linked, List
<1>4. \A t : Has(n, q, t) => t \in Thread
  BY <1>1 DEF Has
<1> QED BY <1>1, <1>2, <1>3, <1>4, NullAssumption DEF Linked

\* A bucket holds one list.
LEMMA LinkedOnce ==
  ASSUME NEW b, NEW n, NEW q, NEW m, NEW r, Linked(b, n, q), Linked(b, m, r)
  PROVE  n = m /\ q = r
<1>1. q = r
  BY ChainOfLinked
<1>2. n \in Nat /\ m \in Nat /\ DOMAIN q = 1 .. n /\ DOMAIN r = 1 .. m
  BY LinkedThreads
<1> QED BY <1>1, <1>2

\* Two nodes of a bucket are in the order of its list.
LEMMA AheadIs ==
  ASSUME NEW b, NEW n, NEW q, Linked(b, n, q), NEW u, NEW v, Ahead(u, v), Has(n, q, u)
  PROVE  \E i, j \in 1 .. n : i < j /\ q[i] = u /\ q[j] = v
<1>1. PICK c, m, r : c \in Bucket /\ Linked(c, m, r) /\ \E i, j \in 1 .. m : i < j /\ r[i] = u /\ r[j] = v
  BY DEF Ahead
<1>2. Has(m, r, u)
  BY <1>1 DEF Has
<1>3. c = b
  BY <1>1, <1>2, LinkedThreads
<1> QED BY <1>1, <1>3, LinkedOnce

\* The tail of a bucket that is not empty waits for an address of the bucket.
LEMMA TailNode ==
  ASSUME NEW b, NEW n, NEW q, Linked(b, n, q), n > 0
  PROVE  tail[b] \in Thread /\ sleep_address[tail[b]] # NULL /\ Hash[sleep_address[tail[b]]] = b
<1>1. n \in Nat /\ tail[b] = q[n] /\ n \in 1 .. n
  BY LinkedThreads
<1>2. Has(n, q, tail[b])
  BY <1>1 DEF Has
<1> QED BY <1>2, LinkedThreads

\* A bucket whose nodes and ends a step does not touch.
LEMMA LinkedFrame ==
  ASSUME NEW b, NEW n, NEW q, Linked(b, n, q),
         head'[b] = head[b], tail'[b] = tail[b],
         \A t \in Thread : Has(n, q, t) => next'[t] = next[t],
         \A t \in Thread : (sleep_address'[t] # NULL /\ Hash[sleep_address'[t]] = b)
                             <=> (sleep_address[t] # NULL /\ Hash[sleep_address[t]] = b)
  PROVE  Linked(b, n, q)'
<1>1. List(n, q, head[b], tail[b], next')
  BY ListFrame DEF Linked
<1> QED BY <1>1 DEF Linked, List, Seg, Has

LEMMA LinkedAfter ==
  ASSUME NEW b, NEW n, NEW q, List(n, q, head'[b], tail'[b], next'),
         \A t \in Thread : Has(n, q, t) <=> sleep_address'[t] # NULL /\ Hash[sleep_address'[t]] = b
  PROVE  Linked(b, n, q)'
  BY DEF Linked, List, Seg, Has

LEMMA ParkLinks ==
  ASSUME LotTyped, AllLinked, NEW t \in Thread, NEW a \in Address,
         sleep_address[t] = NULL, Park(t, a)
  PROVE  /\ AllLinked' /\ LotTyped' /\ Orderly
         /\ \A u \in Thread : sleep_address[u] = a => Ahead(u, t)'
<1> DEFINE b == Hash[a]
<1>0. b \in Bucket /\ a # NULL
  BY AddressFacts
<1>1. PICK n, q : Linked(b, n, q)
  BY <1>0 DEF AllLinked
<1>2. \A u : Has(n, q, u) => u # t
  BY <1>1, LinkedThreads
<1>3. (n = 0 <=> head[b] = NULL) /\ n \in Nat
  BY <1>1, LinkedThreads
<1>4. /\ head'[b] = (IF head[b] = NULL THEN t ELSE head[b]) /\ tail'[b] = t
      /\ \A c \in Bucket \ {b} : head'[c] = head[c] /\ tail'[c] = tail[c]
      /\ sleep_address'[t] = a
      /\ \A u \in Thread \ {t} : sleep_address'[u] = sleep_address[u]
  BY <1>0 DEF Park, LotTyped
<1>5. /\ next'[t] = NULL
      /\ \A u \in Thread : u # t /\ ~(n > 0 /\ u = tail[b]) => next'[u] = next[u]
      /\ n > 0 => next'[tail[b]] = t
  <2>1. n > 0 => tail[b] \in Thread /\ tail[b] # t
    BY <1>1, TailNode
  <2> QED BY <1>3, <2>1 DEF Park
<1>6. Linked(b, n + 1, Behind(n, q, t))'
  <2>1. List(n + 1, Behind(n, q, t), head'[b], tail'[b], next')
    <3>1. List(n, q, head[b], tail[b], next)
      BY <1>1 DEF Linked
    <3> QED BY <1>2, <1>4, <1>5, <3>1, ListBehind
  <2>2. \A u : Has(n + 1, Behind(n, q, t), u) <=> Has(n, q, u) \/ u = t
    <3>1. Seg(n, q, next) /\ (n > 0 => next'[q[n]] = t)
      BY <1>1, <1>5 DEF Linked, List
    <3>2. \A i \in 1 .. n - 1 : next'[q[i]] = next[q[i]]
      <4>1. \A i \in 1 .. n - 1 : q[i] \in Thread /\ Has(n, q, q[i]) /\ (n > 0 /\ q[i] # tail[b])
        BY <1>1, <1>3 DEF Linked, List, Seg, Has
      <4> QED BY <1>2, <1>5, <4>1
    <3> QED BY <1>2, <3>1, <3>2, SegBehind
  <2>3. \A u \in Thread : Has(n + 1, Behind(n, q, t), u)
                            <=> sleep_address'[u] # NULL /\ Hash[sleep_address'[u]] = b
    <3>1. \A u \in Thread : Has(n, q, u) <=> sleep_address[u] # NULL /\ Hash[sleep_address[u]] = b
      BY <1>1 DEF Linked
    <3> QED BY <1>0, <1>4, <2>2, <3>1
  <2> QED BY <2>1, <2>3 DEF Linked, List, Seg, Has
<1>7. ASSUME NEW c \in Bucket \ {b}, NEW m, NEW r, Linked(c, m, r)
      PROVE  Linked(c, m, r)'
  <2>1. \A u : Has(m, r, u) => u \in Thread /\ u # t /\ Hash[sleep_address[u]] = c
    BY <1>7, LinkedThreads
  <2>2. n > 0 => Hash[sleep_address[tail[b]]] = b
    BY <1>1, TailNode
  <2>3. \A u \in Thread : Has(m, r, u) => next'[u] = next[u]
    BY <1>5, <2>1, <2>2
  <2> QED BY <1>4, <1>7, <2>3, LinkedFrame
<1>8. AllLinked'
  <2> SUFFICES ASSUME NEW c \in Bucket PROVE \E m, r : Linked(c, m, r)'
    BY DEF AllLinked, Bucket
  <2> QED BY <1>6, <1>7 DEF AllLinked
<1>9. LotTyped'
  BY <1>0, <1>1, LinkedThreads DEF LotTyped, Park
<1>10. Orderly
  <2> SUFFICES ASSUME NEW u \in Thread, NEW v \in Thread, Ahead(u, v) PROVE Ahead(u, v)'
    BY DEF Orderly
  <2>1. PICK c, m, r : c \in Bucket /\ Linked(c, m, r) /\ \E i, j \in 1 .. m : i < j /\ r[i] = u /\ r[j] = v
    BY DEF Ahead
  <2>2. CASE c # b
    <3>1. Linked(c, m, r)'
      BY <1>7, <2>1, <2>2
    <3> QED BY <2>1, <3>1 DEF Ahead, Bucket
  <2>3. CASE c = b
    <3>1. m = n /\ r = q
      BY <1>1, <2>1, <2>3, LinkedOnce
    <3>2. PICK i, j \in 1 .. n : i < j /\ q[i] = u /\ q[j] = v
      BY <2>1, <3>1
    <3>3. /\ i \in 1 .. n + 1 /\ j \in 1 .. n + 1
          /\ Behind(n, q, t)[i] = u /\ Behind(n, q, t)[j] = v
      BY <1>3, <3>2 DEF Behind
    <3> QED BY <1>0, <1>6, <3>2, <3>3 DEF Ahead, Bucket
  <2> QED BY <2>2, <2>3
<1>11. ASSUME NEW u \in Thread, sleep_address[u] = a PROVE Ahead(u, t)'
  <2>1. PICK i \in 1 .. n : q[i] = u
    BY <1>0, <1>1, <1>11 DEF Linked, Has
  <2>2. /\ i \in 1 .. n + 1 /\ n + 1 \in 1 .. n + 1 /\ i < n + 1
        /\ Behind(n, q, t)[i] = u /\ Behind(n, q, t)[n + 1] = t
    BY <1>3, <2>1 DEF Behind
  <2> QED BY <1>0, <1>6, <2>2 DEF Ahead, Bucket
<1> QED BY <1>8, <1>9, <1>10, <1>11

\* What Unlink takes out of the bucket.
LEMMA UnlinkLinks ==
  ASSUME LotTyped, AllLinked, NEW b \in Bucket, NEW n, NEW q, Linked(b, n, q),
         NEW k \in 1 .. n, Unlink(b, q[k], IF k = 1 THEN NULL ELSE q[k - 1])
  PROVE  AllLinked' /\ LotTyped' /\ Orderly
<1> DEFINE d == q[k]
           prev == IF k = 1 THEN NULL ELSE q[k - 1]
<1>1. n \in Nat /\ q \in [1 .. n -> Thread] /\ d \in Thread /\ (k > 1 => prev \in Thread /\ prev # d)
      /\ (k = 1 <=> prev = NULL)
  BY NullAssumption DEF Linked, List, Seg
<1>2. \A u : Has(n, q, u) => u \in Thread /\ Hash[sleep_address[u]] = b
  BY LinkedThreads
<1>3. Has(n, q, d) /\ (k > 1 => Has(n, q, prev))
  BY <1>1 DEF Has
<1>4. /\ next'[d] = NULL
      /\ \A u \in Thread : u # d /\ ~(k > 1 /\ u = prev) => next'[u] = next[u]
      /\ k > 1 => next'[prev] = next[d]
      /\ head'[b] = (IF k = 1 THEN next[d] ELSE head[b])
      /\ tail'[b] = (IF tail[b] = d THEN prev ELSE tail[b])
      /\ \A c \in Bucket \ {b} : head'[c] = head[c] /\ tail'[c] = tail[c]
      /\ sleep_address'[d] = NULL
      /\ \A u \in Thread \ {d} : sleep_address'[u] = sleep_address[u]
  <2>1. CASE k = 1
    BY <1>1, <2>1 DEF Unlink, LotTyped, TailWithout
  <2>2. CASE k > 1
    BY <1>1, <2>2 DEF Unlink, LotTyped, TailWithout
  <2> QED BY <1>1, <2>1, <2>2
<1>5. Linked(b, n - 1, Without(n, q, k))'
  <2>1. List(n - 1, Without(n, q, k), head'[b], tail'[b], next')
    <3>1. List(n, q, head[b], tail[b], next)
      BY DEF Linked
    <3>2. k > 1 => prev = q[k - 1]
      BY <1>1
    <3>3. tail'[b] = (IF tail[b] = d THEN (IF k = 1 THEN NULL ELSE q[k - 1]) ELSE tail[b])
      BY <1>4
    <3> QED BY <1>1, <1>4, <3>1, <3>2, <3>3, ListWithout
  <2>2. \A u : Has(n - 1, Without(n, q, k), u) <=> Has(n, q, u) /\ u # d
    BY <1>1, HasWithout DEF Linked, List, Seg
  <2>3. \A u \in Thread : Has(n - 1, Without(n, q, k), u)
                            <=> sleep_address'[u] # NULL /\ Hash[sleep_address'[u]] = b
    <3>1. \A u \in Thread : Has(n, q, u) <=> sleep_address[u] # NULL /\ Hash[sleep_address[u]] = b
      BY DEF Linked
    <3> QED BY <1>4, <2>2, <3>1
  <2> QED BY <2>1, <2>3 DEF Linked, List, Seg, Has
<1>6. ASSUME NEW c \in Bucket \ {b}, NEW m, NEW r, Linked(c, m, r)
      PROVE  Linked(c, m, r)'
  <2>1. \A u : Has(m, r, u) => u \in Thread /\ Hash[sleep_address[u]] = c
    BY <1>6, LinkedThreads
  <2>2. \A u \in Thread : Has(m, r, u) => next'[u] = next[u] /\ u # d
    BY <1>2, <1>3, <1>4, <2>1
  <2>3. Hash[sleep_address[d]] = b
    BY <1>2, <1>3
  <2> QED BY <1>4, <1>6, <2>2, <2>3, LinkedFrame
<1>7. AllLinked'
  <2> SUFFICES ASSUME NEW c \in Bucket PROVE \E m, r : Linked(c, m, r)'
    BY DEF AllLinked, Bucket
  <2> QED BY <1>5, <1>6 DEF AllLinked
<1>8. LotTyped'
  <2>1. next[d] \in Thread \union {NULL} /\ prev \in Thread \union {NULL}
    BY <1>1 DEF LotTyped
  <2> QED BY <1>1, <2>1 DEF LotTyped, Unlink, TailWithout
<1>9. Orderly
  <2> SUFFICES ASSUME NEW u \in Thread, NEW v \in Thread, Ahead(u, v),
                      sleep_address'[u] = sleep_address[u], sleep_address'[v] = sleep_address[v]
               PROVE  Ahead(u, v)'
    BY DEF Orderly
  <2>1. PICK c, m, r : c \in Bucket /\ Linked(c, m, r) /\ \E i, j \in 1 .. m : i < j /\ r[i] = u /\ r[j] = v
    BY DEF Ahead
  <2>2. CASE c # b
    <3>1. Linked(c, m, r)'
      BY <1>6, <2>1, <2>2
    <3> QED BY <2>1, <3>1 DEF Ahead, Bucket
  <2>3. CASE c = b
    <3>1. m = n /\ r = q
      BY <2>1, <2>3, LinkedOnce
    <3>2. PICK i, j \in 1 .. n : i < j /\ q[i] = u /\ q[j] = v
      BY <2>1, <3>1
    <3>3. i # k /\ j # k
      <4>1. sleep_address[d] # NULL
        BY <1>3, LinkedThreads
      <4> QED BY <1>4, <3>2, <4>1
    <3>4. PICK x, y \in 1 .. n - 1 : /\ x = (IF i < k THEN i ELSE i - 1)
                                     /\ y = (IF j < k THEN j ELSE j - 1)
      BY <1>1, <3>3
    <3>5. x < y /\ Without(n, q, k)[x] = u /\ Without(n, q, k)[y] = v
      <4>1. x < y
        BY <1>1, <3>2, <3>3, <3>4
      <4>2. x < k => x = i
        BY <1>1, <3>3, <3>4
      <4>3. ~(x < k) => x + 1 = i
        BY <1>1, <3>3, <3>4
      <4>4. y < k => y = j
        BY <1>1, <3>3, <3>4
      <4>5. ~(y < k) => y + 1 = j
        BY <1>1, <3>3, <3>4
      <4> QED BY <3>2, <4>1, <4>2, <4>3, <4>4, <4>5 DEF Without
    <3> QED BY <1>5, <3>5 DEF Ahead, Bucket
  <2> QED BY <2>2, <2>3
<1> QED BY <1>7, <1>8, <1>9

(***************************************************************************)
(* The loop of unpark_requeue over the chain q of n nodes.                 *)
(***************************************************************************)
Loops(f, n, q, start, a, one) ==
  f = [k \in 0 .. n |-> IF k = 0 THEN start ELSE Visit(f[k - 1], q[k], a, one)]

LEMMA LoopExists ==
  ASSUME NEW n \in Nat, NEW q, NEW start, NEW a, NEW one
  PROVE  \E f : Loops(f, n, q, start, a, one)
<1> DEFINE Bad == {k \in Nat : ~ \E f : Loops(f, k, q, start, a, one)}
<1>1. SUFFICES ASSUME n \in Bad PROVE FALSE
  OBVIOUS
<1>2. PICK k \in Bad : \A j \in Bad : k <= j
  <2>1. Bad \in SUBSET Nat /\ Bad # {}
    BY <1>1
  <2> HIDE DEF Bad
  <2> QED BY <2>1, Smallest
<1>3. k - 1 \notin Bad
  <2>1. k \in Nat
    BY <1>2
  <2> HIDE DEF Bad
  <2> QED BY <1>2, <2>1
<1>4. k \in Nat /\ ~ \E f : Loops(f, k, q, start, a, one)
  BY <1>2
<1>5. k # 0
  <2>1. Loops([j \in 0 .. 0 |-> start], 0, q, start, a, one)
    BY DEF Loops
  <2> QED BY <2>1, <1>4
<1>6. PICK f : Loops(f, k - 1, q, start, a, one)
  <2>1. k - 1 \in Nat
    BY <1>4, <1>5
  <2> QED BY <1>3, <2>1
<1> DEFINE longer == [j \in 0 .. k |-> IF j < k THEN f[j] ELSE Visit(f[k - 1], q[k], a, one)]
<1>7. \A j \in 0 .. k : longer[j] = IF j = 0 THEN start ELSE Visit(longer[j - 1], q[j], a, one)
  <2> SUFFICES ASSUME NEW j \in 0 .. k
               PROVE  longer[j] = IF j = 0 THEN start ELSE Visit(longer[j - 1], q[j], a, one)
    OBVIOUS
  <2>1. CASE j < k
    <3>1. f[j] = IF j = 0 THEN start ELSE Visit(f[j - 1], q[j], a, one)
      BY <1>4, <1>6, <2>1 DEF Loops
    <3>2. j # 0 => longer[j - 1] = f[j - 1]
      BY <1>4, <2>1
    <3>3. longer[j] = f[j]
      BY <2>1
    <3> HIDE DEF longer
    <3> QED BY <1>4, <2>1, <3>1, <3>2, <3>3
  <2>2. CASE j = k
    <3>1. longer[k - 1] = f[k - 1] /\ longer[k] = Visit(f[k - 1], q[k], a, one)
      BY <1>4, <1>5
    <3> HIDE DEF longer
    <3> QED BY <1>4, <1>5, <2>2, <3>1
  <2> QED BY <1>4, <2>1, <2>2
<1>8. Loops(longer, k, q, start, a, one)
  BY <1>7 DEF Loops
<1> QED BY <1>4, <1>8

Pointer == Thread \union {NULL}
Walking == [head : Pointer, tail : Pointer, next : [Thread -> Pointer],
            prev : Pointer, requeue : Seq(Thread), wakeup : Pointer]

\* After k nodes: c is the list that the bucket holds, of N nodes; its first m
\* are visited and stay, the others are still to be visited; the nodes taken
\* out are in a list of their own, but for one of them if one is to be woken.
\* The nodes of c are in the order of q.
Looped(k, s, n, q, a, one, N, c, m) ==
  /\ s \in Walking /\ m \in 0 .. k /\ N = m + (n - k)
  /\ List(N, c, s.head, s.tail, s.next)
  /\ SameOrder(n, q, N, c)
  /\ \A i \in m + 1 .. N : c[i] = q[k + (i - m)]
  /\ s.prev = IF m = 0 THEN NULL ELSE c[m]
  /\ \A u : Has(N, c, u) <=> Has(n, q, u) /\ (Has(k, q, u) => sleep_address[u] # a)
  /\ Seg(Len(s.requeue), s.requeue, s.next)
  /\ \A u : Has(Len(s.requeue), s.requeue, u)
              <=> Has(k, q, u) /\ sleep_address[u] = a /\ u # s.wakeup
  /\ s.wakeup = NULL \/ (Has(k, q, s.wakeup) /\ sleep_address[s.wakeup] = a /\ one)
  /\ s.wakeup = NULL => ~(one /\ \E u : Has(k, q, u) /\ sleep_address[u] = a)
  /\ \A u \in Thread : ~Has(k, q, u) => s.next[u] = next[u]

\* A visited node is not one that is still to be visited.
LEMMA HasNext ==
  ASSUME NEW n, NEW q, NEW nx, Seg(n, q, nx), NEW k \in 1 .. n
  PROVE  /\ ~Has(k - 1, q, q[k])
         /\ \A u : Has(k, q, u) <=> Has(k - 1, q, u) \/ u = q[k]
         /\ \A u : Has(k, q, u) => Has(n, q, u)
<1>1. n \in Nat /\ \A i : i \in 1 .. k <=> i \in 1 .. k - 1 \/ i = k
  BY DEF Seg
<1>2. \A i \in 1 .. k - 1 : i \in 1 .. n /\ i # k
  BY <1>1
<1>3. k \in 1 .. n
  OBVIOUS
<1>4. ~Has(k - 1, q, q[k])
  BY <1>2, <1>3 DEF Seg, Has
<1>5. \A u : Has(k, q, u) <=> Has(k - 1, q, u) \/ u = q[k]
  BY <1>1 DEF Has
<1>6. \A u : Has(k, q, u) => Has(n, q, u)
  BY <1>1, <1>2, <1>3 DEF Has
<1> QED BY <1>4, <1>5, <1>6

\* The shape of the list that the loop works on, e nodes visited and the k-th next.
Shape(e, k, n, q, a, N, c, m) ==
  /\ m \in Nat /\ N \in Nat /\ m + 1 \in 1 .. N /\ c[m + 1] = q[k]
  /\ c \in [1 .. N -> Thread] /\ q[k] \in Thread
  /\ N = m + (n - (k - 1))
  /\ m > 0 => c[m] \in Thread /\ Has(e, q, c[m]) /\ sleep_address[c[m]] # a

LEMMA LoopShape ==
  ASSUME NEW e, NEW k, NEW n, NEW q, NEW s, NEW a, NEW one, NEW N, NEW c, NEW m, NEW nx,
         Seg(n, q, nx), k \in 1 .. n, e = k - 1, Looped(e, s, n, q, a, one, N, c, m)
  PROVE  Shape(e, k, n, q, a, N, c, m)
<1>1. n \in Nat /\ m \in 0 .. k - 1 /\ N = m + (n - (k - 1)) /\ q \in [1 .. n -> Thread]
  BY DEF Seg, Looped
<1>2. m \in Nat /\ N \in Nat /\ m + 1 \in 1 .. N /\ m + 1 \in m + 1 .. N /\ (m > 0 => m \in 1 .. N)
  BY <1>1
<1>3. c \in [1 .. N -> Thread] /\ \A i, j \in 1 .. N : c[i] = c[j] => i = j
  BY DEF Looped, List, Seg
<1>4. c[m + 1] = q[k]
  <2>1. (k - 1) + ((m + 1) - m) = k
    BY <1>1
  <2>2. c[m + 1] = q[(k - 1) + ((m + 1) - m)]
    BY <1>2 DEF Looped
  <2> QED BY <2>1, <2>2
<1>5. ASSUME m > 0 PROVE c[m] \in Thread /\ Has(k - 1, q, c[m]) /\ sleep_address[c[m]] # a
  <2>1. Has(N, c, c[m]) /\ c[m] \in Thread
    BY <1>2, <1>3, <1>5 DEF Has
  <2>2. Has(n, q, c[m]) /\ (Has(k - 1, q, c[m]) => sleep_address[c[m]] # a)
    BY <2>1 DEF Looped
  <2>3. PICK j \in 1 .. n : q[j] = c[m]
    BY <2>2 DEF Has
  <2>4. ASSUME j >= k PROVE FALSE
    <3> DEFINE i == m + (j - (k - 1))
    <3>1. i \in m + 1 .. N /\ i \in 1 .. N /\ (k - 1) + (i - m) = j /\ i # m
      BY <1>1, <2>4
    <3>2. c[i] = q[j]
      <4> HIDE DEF i
      <4>1. c[i] = q[(k - 1) + (i - m)]
        BY <3>1 DEF Looped
      <4> QED BY <3>1, <4>1
    <3> HIDE DEF i
    <3> QED BY <1>2, <1>3, <1>5, <2>3, <3>1, <3>2
  <2>5. j \in 1 .. k - 1
    BY <1>1, <2>4
  <2> QED BY <2>1, <2>2, <2>3, <2>5 DEF Has
<1> QED BY <1>1, <1>2, <1>3, <1>4, <1>5 DEF Shape

LEMMA LoopStays ==
  ASSUME NEW k, NEW n, NEW q, NEW s, NEW a, NEW one, NEW N, NEW c, NEW m, NEW nx,
         Seg(n, q, nx), k \in 1 .. n, Looped(k - 1, s, n, q, a, one, N, c, m),
         sleep_address[q[k]] # a
  PROVE  Looped(k, Visit(s, q[k], a, one), n, q, a, one, N, c, m + 1)
<1> DEFINE d == q[k]
           v == Visit(s, d, a, one)
<1>1. /\ m \in Nat /\ N \in Nat /\ m + 1 \in 1 .. N /\ c[m + 1] = d /\ d \in Thread
      /\ N = m + (n - (k - 1)) /\ n \in Nat
  <2>1. n \in Nat
    BY DEF Seg
  <2>2. /\ m \in Nat /\ N \in Nat /\ m + 1 \in 1 .. N /\ c[m + 1] = q[k]
        /\ q[k] \in Thread /\ N = m + (n - (k - 1))
    <3>1. Shape(k - 1, k, n, q, a, N, c, m)
      BY LoopShape
    <3> QED BY <3>1 DEF Shape
  <2> QED BY <2>1, <2>2
<1>2. \A u : Has(k, q, u) <=> Has(k - 1, q, u) \/ u = d
  BY HasNext
<1>3. /\ v = [s EXCEPT !.prev = d] /\ s \in Walking /\ v \in Walking
      /\ v.head = s.head /\ v.tail = s.tail /\ v.next = s.next /\ v.prev = d
      /\ v.requeue = s.requeue /\ v.wakeup = s.wakeup
  BY <1>1 DEF Looped, Visit, Walking, Pointer
<1> HIDE DEF v
<1>4. v \in Walking /\ m + 1 \in 0 .. k /\ N = (m + 1) + (n - k)
  <2>1. m <= k - 1
    BY <1>1 DEF Looped
  <2> QED BY <1>1, <1>3, <2>1
<1>5. List(N, c, v.head, v.tail, v.next)
  BY <1>3 DEF Looped
<1>6. \A i \in (m + 1) + 1 .. N : c[i] = q[k + (i - (m + 1))]
  <2> SUFFICES ASSUME NEW i \in (m + 1) + 1 .. N PROVE c[i] = q[k + (i - (m + 1))]
    OBVIOUS
  <2>1. i \in m + 1 .. N /\ (k - 1) + (i - m) = k + (i - (m + 1))
    BY <1>1
  <2>2. c[i] = q[(k - 1) + (i - m)]
    BY <2>1 DEF Looped
  <2> QED BY <2>1, <2>2
<1>7. v.prev = IF m + 1 = 0 THEN NULL ELSE c[m + 1]
  BY <1>1, <1>3
<1>8. \A u : Has(N, c, u) <=> Has(n, q, u) /\ (Has(k, q, u) => sleep_address[u] # a)
  BY <1>2 DEF Looped
<1>9. Seg(Len(v.requeue), v.requeue, v.next)
  BY <1>3 DEF Looped
<1>10. \A u : Has(Len(v.requeue), v.requeue, u)
                <=> Has(k, q, u) /\ sleep_address[u] = a /\ u # v.wakeup
  BY <1>2, <1>3 DEF Looped
<1>11. /\ v.wakeup = NULL \/ (Has(k, q, v.wakeup) /\ sleep_address[v.wakeup] = a /\ one)
       /\ v.wakeup = NULL => ~(one /\ \E u : Has(k, q, u) /\ sleep_address[u] = a)
       /\ \A u \in Thread : ~Has(k, q, u) => v.next[u] = next[u]
  BY <1>2, <1>3 DEF Looped
<1>12. Looped(k, v, n, q, a, one, N, c, m + 1)
  <2>1. SameOrder(n, q, N, c)
    BY DEF Looped
  <2> QED BY <1>4, <1>5, <1>6, <1>7, <1>8, <1>9, <1>10, <1>11, <2>1 DEF Looped
<1> QED BY <1>12 DEF v

\* A sequence and the same with one more.
LEMMA Appended ==
  ASSUME NEW r \in Seq(Thread), NEW d \in Thread
  PROVE  /\ Len(r) \in Nat /\ r \in [1 .. Len(r) -> Thread]
         /\ Append(r, d) \in Seq(Thread) /\ Len(Append(r, d)) = Len(r) + 1
         /\ Append(r, d) = Behind(Len(r), r, d)
         /\ r = <<>> <=> Len(r) = 0
         /\ Last(r) = r[Len(r)]
<1>1. Len(r) \in Nat /\ r \in [1 .. Len(r) -> Thread]
  OBVIOUS
<1>2. Append(r, d) \in Seq(Thread) /\ Len(Append(r, d)) = Len(r) + 1
  OBVIOUS
<1>3. Append(r, d) = Behind(Len(r), r, d)
  <2>1. Append(r, d) \in [1 .. Len(r) + 1 -> Thread]
    <3>1. \A x \in Seq(Thread) : x \in [1 .. Len(x) -> Thread]
      OBVIOUS
    <3> QED BY <1>2, <3>1
  <2>2. Behind(Len(r), r, d) \in [1 .. Len(r) + 1 -> Thread]
    BY <1>1 DEF Behind
  <2>3. \A i \in 1 .. Len(r) + 1 : Append(r, d)[i] = Behind(Len(r), r, d)[i]
    BY <1>1 DEF Behind
  <2> QED BY <2>1, <2>2, <2>3
<1>4. r = <<>> <=> Len(r) = 0
  OBVIOUS
<1>5. Last(r) = r[Len(r)]
  BY DEF Last
<1> QED BY <1>1, <1>2, <1>3, <1>4, <1>5

\* What one iteration does with a node that it takes out.
TakenOut(v, s, d, one) ==
  /\ v \in Walking
  /\ v.head = IF s.prev = NULL THEN next[d] ELSE s.head
  /\ v.tail = IF s.tail = d THEN s.prev ELSE s.tail
  /\ v.prev = s.prev
  /\ IF one /\ s.wakeup = NULL
     THEN v.wakeup = d /\ v.requeue = s.requeue
     ELSE v.wakeup = s.wakeup /\ v.requeue = Append(s.requeue, d)
  /\ \A u \in Thread :
       v.next[u] = IF ~(one /\ s.wakeup = NULL) /\ s.requeue # <<>> /\ u = Last(s.requeue) THEN d
                   ELSE IF s.prev # NULL /\ u = s.prev THEN next[d] ELSE s.next[u]

LEMMA VisitMoves ==
  ASSUME NEW s \in Walking, NEW d \in Thread, NEW a, NEW one,
         sleep_address[d] = a, next \in [Thread -> Pointer],
         NEW v, v = Visit(s, d, a, one)
  PROVE  TakenOut(v, s, d, one)
<1> DEFINE cut == [s EXCEPT !.head = IF s.prev = NULL THEN next[d] ELSE @,
                            !.next = IF s.prev = NULL THEN @ ELSE [@ EXCEPT ![s.prev] = next[d]],
                            !.tail = IF @ = d THEN s.prev ELSE @]
<1>1. /\ cut.head = (IF s.prev = NULL THEN next[d] ELSE s.head)
      /\ cut.tail = (IF s.tail = d THEN s.prev ELSE s.tail)
      /\ cut.prev = s.prev /\ cut.wakeup = s.wakeup /\ cut.requeue = s.requeue
      /\ cut.next = IF s.prev = NULL THEN s.next ELSE [s.next EXCEPT ![s.prev] = next[d]]
  BY DEF Walking
<1>2. cut.next \in [Thread -> Pointer]
      /\ \A u \in Thread : cut.next[u] = IF s.prev # NULL /\ u = s.prev THEN next[d] ELSE s.next[u]
  BY <1>1 DEF Walking
<1>3. cut \in Walking
  BY <1>1, <1>2 DEF Walking, Pointer
<1>4. v = IF one /\ s.wakeup = NULL THEN [cut EXCEPT !.wakeup = d]
          ELSE [cut EXCEPT !.requeue = Append(@, d),
                           !.next = IF s.requeue = <<>> THEN @
                                    ELSE [@ EXCEPT ![Last(s.requeue)] = d]]
  BY DEF Visit
<1> HIDE DEF cut
<1>5. CASE one /\ s.wakeup = NULL
  <2>1. v = [cut EXCEPT !.wakeup = d]
    BY <1>4, <1>5
  <2>2. /\ v \in Walking /\ v.wakeup = d /\ v.requeue = s.requeue /\ v.next = cut.next
        /\ v.head = cut.head /\ v.tail = cut.tail /\ v.prev = cut.prev
    BY <1>1, <1>3, <2>1 DEF Walking, Pointer
  <2> QED BY <1>1, <1>2, <1>5, <2>2 DEF TakenOut
<1>6. CASE ~(one /\ s.wakeup = NULL)
  <2> DEFINE nx == IF s.requeue = <<>> THEN cut.next ELSE [cut.next EXCEPT ![Last(s.requeue)] = d]
  <2>1. v = [cut EXCEPT !.requeue = Append(@, d), !.next = nx]
    BY <1>3, <1>4, <1>6 DEF Walking
  <2>2. nx \in [Thread -> Pointer]
        /\ \A u \in Thread : nx[u] = IF s.requeue # <<>> /\ u = Last(s.requeue) THEN d ELSE cut.next[u]
    BY <1>2 DEF Pointer
  <2> HIDE DEF nx
  <2>3. s.requeue \in Seq(Thread) /\ Append(s.requeue, d) \in Seq(Thread)
    BY DEF Walking
  <2>a. cut = [head |-> cut.head, tail |-> cut.tail, next |-> cut.next, prev |-> cut.prev,
               requeue |-> cut.requeue, wakeup |-> cut.wakeup]
    BY <1>3 DEF Walking
  <2>b. v = [head |-> cut.head, tail |-> cut.tail, next |-> nx, prev |-> cut.prev,
             requeue |-> Append(cut.requeue, d), wakeup |-> cut.wakeup]
    BY <2>1, <2>a
  <2>4. /\ v \in Walking /\ v.wakeup = s.wakeup /\ v.requeue = Append(s.requeue, d) /\ v.next = nx
        /\ v.head = cut.head /\ v.tail = cut.tail /\ v.prev = cut.prev
    <3>1. /\ cut.head \in Pointer /\ cut.tail \in Pointer /\ cut.prev \in Pointer
          /\ cut.wakeup \in Pointer
      BY <1>3 DEF Walking
    <3> QED BY <1>1, <2>2, <2>3, <2>b, <3>1 DEF Walking
  <2>5. \A u \in Thread :
           v.next[u] = IF s.requeue # <<>> /\ u = Last(s.requeue) THEN d
                       ELSE IF s.prev # NULL /\ u = s.prev THEN next[d] ELSE s.next[u]
    BY <1>2, <2>2, <2>4
  <2>6. /\ v.head = IF s.prev = NULL THEN next[d] ELSE s.head
        /\ v.tail = IF s.tail = d THEN s.prev ELSE s.tail
        /\ v.prev = s.prev
    BY <1>1, <1>2, <2>4
  <2> QED BY <1>6, <2>4, <2>5, <2>6 DEF TakenOut
<1> QED BY <1>5, <1>6

LEMMA OrderWithout ==
  ASSUME NEW n \in Nat, NEW q, NEW N \in Nat, NEW c, NEW k \in 1 .. N, SameOrder(n, q, N, c)
  PROVE  SameOrder(n, q, N - 1, Without(N, c, k))
<1> SUFFICES ASSUME NEW x \in 1 .. n, NEW y \in 1 .. n, NEW i \in 1 .. N - 1, NEW j \in 1 .. N - 1,
                    x < y, q[x] = Without(N, c, k)[i], q[y] = Without(N, c, k)[j]
             PROVE  i < j
  BY DEF SameOrder
<1>1. PICK e, g \in 1 .. N : e = (IF i < k THEN i ELSE i + 1) /\ g = (IF j < k THEN j ELSE j + 1)
  OBVIOUS
<1>2. q[x] = c[e] /\ q[y] = c[g]
  BY <1>1 DEF Without
<1>3. e < g
  BY <1>2 DEF SameOrder
<1> QED BY <1>1, <1>3

LEMMA LoopMoves ==
  ASSUME NEW k, NEW n, NEW q, NEW s, NEW a, NEW one, NEW N, NEW c, NEW m, NEW h, NEW l,
         List(n, q, h, l, next), k \in 1 .. n, Looped(k - 1, s, n, q, a, one, N, c, m),
         sleep_address[q[k]] = a, next \in [Thread -> Pointer]
  PROVE  Looped(k, Visit(s, q[k], a, one), n, q, a, one, N - 1, Without(N, c, m + 1), m)
<1> DEFINE d == q[k]
           v == Visit(s, d, a, one)
           p == Without(N, c, m + 1)
           r == s.requeue
           wakes == one /\ s.wakeup = NULL
<1>0. Seg(n, q, next) /\ n \in Nat /\ q \in [1 .. n -> Thread] /\ s \in Walking
  BY DEF List, Seg, Looped
<1>1. /\ m \in Nat /\ N \in Nat /\ m + 1 \in 1 .. N /\ c[m + 1] = d
      /\ c \in [1 .. N -> Thread] /\ d \in Thread
      /\ N = m + (n - (k - 1))
      /\ m > 0 => c[m] \in Thread /\ Has(k - 1, q, c[m]) /\ sleep_address[c[m]] # a
  <2>1. Seg(n, q, next)
    BY <1>0
  <2> HIDE DEF d
  <2>2. Shape(k - 1, k, n, q, a, N, c, m)
    BY <2>1, LoopShape
  <2> QED BY <2>2 DEF Shape, d
<1>2. /\ ~Has(k - 1, q, d)
      /\ \A u : Has(k, q, u) <=> Has(k - 1, q, u) \/ u = d
      /\ \A u : Has(k, q, u) => Has(n, q, u)
  BY <1>0, HasNext
<1>3. /\ v \in Walking
      /\ v.head = IF s.prev = NULL THEN next[d] ELSE s.head
      /\ v.tail = IF s.tail = d THEN s.prev ELSE s.tail
      /\ v.prev = s.prev
      /\ IF wakes THEN v.wakeup = d /\ v.requeue = r
                  ELSE v.wakeup = s.wakeup /\ v.requeue = Append(r, d)
      /\ \A u \in Thread :
           v.next[u] = IF ~wakes /\ r # <<>> /\ u = Last(r) THEN d
                       ELSE IF s.prev # NULL /\ u = s.prev THEN next[d] ELSE s.next[u]
  <2>1. s \in Walking /\ d \in Thread /\ sleep_address[d] = a /\ v = Visit(s, d, a, one)
    BY <1>0, <1>1
  <2> HIDE DEF v, d
  <2>2. TakenOut(v, s, d, one)
    BY <2>1, VisitMoves
  <2> QED BY <2>2 DEF TakenOut
<1> HIDE DEF v, p, wakes
<1>4. s.prev = (IF m = 0 THEN NULL ELSE c[m]) /\ (s.prev = NULL <=> m = 0)
  BY <1>1, NullAssumption DEF Looped
<1>5. s.next[d] = next[d]
  BY <1>1, <1>2 DEF Looped
<1>6. /\ Seg(Len(r), r, s.next) /\ r \in Seq(Thread)
      /\ \A u : Has(Len(r), r, u) <=> Has(k - 1, q, u) /\ sleep_address[u] = a /\ u # s.wakeup
  BY <1>0 DEF Looped, Walking
<1>7. /\ Len(r) \in Nat /\ r \in [1 .. Len(r) -> Thread]
      /\ Append(r, d) = Behind(Len(r), r, d) /\ Len(Append(r, d)) = Len(r) + 1
      /\ (r = <<>> <=> Len(r) = 0) /\ Last(r) = r[Len(r)]
  BY <1>1, <1>6, Appended
<1>8. \A i \in 1 .. Len(r) : Has(k - 1, q, r[i]) /\ sleep_address[r[i]] = a /\ r[i] \in Thread
  BY <1>6, <1>7 DEF Has
<1>9. r # <<>> => Len(r) \in 1 .. Len(r)
  BY <1>7
<1>10. \A u : Has(N - 1, p, u) <=> Has(N, c, u) /\ u # d
  <2>1. \A i, j \in 1 .. N : c[i] = c[j] => i = j
    BY DEF Looped, List, Seg
  <2> QED BY <1>1, <2>1, HasWithout DEF p
<1>11. List(N - 1, p, v.head, v.tail, v.next)
  <2> DEFINE ny == [u \in Thread |-> IF s.prev # NULL /\ u = s.prev THEN next[d] ELSE s.next[u]]
  <2>1. \A u \in Thread : ny[u] = IF s.prev # NULL /\ u = s.prev THEN next[d] ELSE s.next[u]
    OBVIOUS
  <2> HIDE DEF ny
  <2>2. List(N, c, s.head, s.tail, s.next)
    BY DEF Looped
  <2>3. (m + 1) - 1 = m /\ (m + 1 > 1 <=> m > 0) /\ (m + 1 = 1 <=> m = 0) /\ (m > 0 <=> m # 0)
    <3>1. m \in Nat
      BY <1>1
    <3> QED BY <3>1
  <2>4. \A u \in Thread : u # c[m + 1] /\ ~(m + 1 > 1 /\ u = c[(m + 1) - 1]) => ny[u] = s.next[u]
    BY <1>4, <2>1, <2>3
  <2>5. m + 1 > 1 => ny[c[(m + 1) - 1]] = s.next[c[m + 1]]
    BY <1>1, <1>4, <1>5, <2>1, <2>3
  <2>6. List(N - 1, p, IF m + 1 = 1 THEN s.next[c[m + 1]] ELSE s.head,
             IF s.tail = c[m + 1] THEN (IF m + 1 = 1 THEN NULL ELSE c[(m + 1) - 1]) ELSE s.tail, ny)
    BY <1>1, <2>2, <2>4, <2>5, ListWithout, SMTT(30) DEF p
  <2>7. v.head = IF m + 1 = 1 THEN s.next[c[m + 1]] ELSE s.head
    BY <1>1, <1>3, <1>4, <1>5, <2>3
  <2>8. v.tail = IF s.tail = c[m + 1] THEN (IF m + 1 = 1 THEN NULL ELSE c[(m + 1) - 1]) ELSE s.tail
    BY <1>1, <1>3, <1>4, <2>3
  <2>9. List(N - 1, p, v.head, v.tail, ny)
    BY <2>6, <2>7, <2>8
  <2>10. \A u \in Thread : Has(N - 1, p, u) => v.next[u] = ny[u]
    <3> SUFFICES ASSUME NEW u \in Thread, Has(N - 1, p, u) PROVE v.next[u] = ny[u]
      OBVIOUS
    <3>1. Has(k - 1, q, u) => sleep_address[u] # a
      BY <1>10 DEF Looped
    <3>2. ~(r # <<>> /\ u = Last(r))
      BY <1>7, <1>8, <1>9, <3>1
    <3> QED BY <1>3, <2>1, <3>2
  <2> QED BY <2>9, <2>10, ListFrame
<1>12. v \in Walking /\ m \in 0 .. k /\ N - 1 = m + (n - k)
  <2>1. m <= k - 1
    BY <1>1 DEF Looped
  <2> QED BY <1>0, <1>1, <1>3, <2>1
<1>13. \A i \in m + 1 .. N - 1 : p[i] = q[k + (i - m)]
  <2> SUFFICES ASSUME NEW i \in m + 1 .. N - 1 PROVE p[i] = q[k + (i - m)]
    OBVIOUS
  <2>1. i + 1 \in m + 1 .. N /\ (k - 1) + ((i + 1) - m) = k + (i - m) /\ ~(i < m + 1) /\ i \in 1 .. N - 1
    BY <1>1
  <2>2. p[i] = c[i + 1]
    BY <2>1 DEF p, Without
  <2>3. c[i + 1] = q[(k - 1) + ((i + 1) - m)]
    BY <2>1 DEF Looped
  <2> QED BY <2>1, <2>2, <2>3
<1>14. v.prev = IF m = 0 THEN NULL ELSE p[m]
  <2>1. m # 0 => m \in 1 .. N - 1 /\ m < m + 1
    BY <1>1
  <2>2. m # 0 => p[m] = c[m]
    BY <2>1 DEF p, Without
  <2> QED BY <1>3, <1>4, <2>2
<1>15. \A u : Has(N - 1, p, u) <=> Has(n, q, u) /\ (Has(k, q, u) => sleep_address[u] # a)
  <2>1. \A u : Has(N, c, u) <=> Has(n, q, u) /\ (Has(k - 1, q, u) => sleep_address[u] # a)
    BY DEF Looped
  <2> QED BY <1>2, <1>10, <2>1
<1>16. \A i \in 1 .. Len(r) - 1 : v.next[r[i]] = s.next[r[i]]
  <2> SUFFICES ASSUME NEW i \in 1 .. Len(r) - 1 PROVE v.next[r[i]] = s.next[r[i]]
    OBVIOUS
  <2>1. i \in 1 .. Len(r) /\ Len(r) \in 1 .. Len(r) /\ i # Len(r)
    BY <1>7
  <2>2. r[i] # Last(r)
    BY <1>6, <1>7, <2>1 DEF Seg
  <2>3. ~(s.prev # NULL /\ r[i] = s.prev)
    BY <1>1, <1>4, <1>8, <2>1
  <2> QED BY <1>3, <1>8, <2>1, <2>2, <2>3
<1>17. /\ Seg(Len(v.requeue), v.requeue, v.next)
       /\ \A u : Has(Len(v.requeue), v.requeue, u) <=> Has(k, q, u) /\ sleep_address[u] = a /\ u # v.wakeup
  <2>1. CASE wakes
    <3>1. Seg(Len(r), r, v.next)
      BY <1>6, <1>16, SegFrame
    <3>2. \A u : Has(k - 1, q, u) => u # d /\ u # NULL
      <4>1. NULL \notin Thread
        BY NullAssumption
      <4> QED BY <1>0, <1>2, <4>1 DEF Has
    <3>3. s.wakeup = NULL
      BY <2>1 DEF wakes
    <3> QED BY <1>2, <1>3, <1>6, <2>1, <3>1, <3>2, <3>3
  <2>2. CASE ~wakes
    <3>1. ~Has(Len(r), r, d)
      BY <1>2, <1>6
    <3>2. Len(r) > 0 => v.next[r[Len(r)]] = d
      BY <1>3, <1>7, <1>8, <1>9, <2>2
    <3>3. /\ Seg(Len(r) + 1, Behind(Len(r), r, d), v.next)
          /\ \A u : Has(Len(r) + 1, Behind(Len(r), r, d), u) <=> Has(Len(r), r, u) \/ u = d
      <4>1. d \in Thread /\ Seg(Len(r), r, s.next)
        BY <1>1, <1>6
      <4> DEFINE L == Len(r)
                 nx == s.next
                 ny == v.next
      <4>2. /\ \A i \in 1 .. L - 1 : ny[r[i]] = nx[r[i]]
            /\ L > 0 => ny[r[L]] = d
            /\ Seg(L, r, nx) /\ ~Has(L, r, d) /\ L \in Nat
        BY <1>7, <1>16, <3>1, <3>2, <4>1
      <4> HIDE DEF r, d, L, nx, ny
      <4>3. Seg(L + 1, Behind(L, r, d), ny)
        BY ONLY <4>1, <4>2, SegBehind
      <4>4. \A u : Has(L + 1, Behind(L, r, d), u) <=> Has(L, r, u) \/ u = d
        BY <4>2, HasBehind
      <4> QED BY <4>3, <4>4 DEF L, ny
    <3>4. v.requeue = Behind(Len(r), r, d) /\ Len(v.requeue) = Len(r) + 1 /\ v.wakeup = s.wakeup
      BY <1>3, <1>7, <2>2
    <3>5. d # s.wakeup
      BY <1>1, <1>2, NullAssumption DEF Looped
    <3> QED BY <1>2, <1>6, <3>3, <3>4, <3>5
  <2> QED BY <2>1, <2>2
<1>18. v.wakeup = NULL \/ (Has(k, q, v.wakeup) /\ sleep_address[v.wakeup] = a /\ one)
  BY <1>2, <1>3 DEF Looped, wakes
<1>19. v.wakeup = NULL => ~(one /\ \E u : Has(k, q, u) /\ sleep_address[u] = a)
  <2>1. d # NULL
    BY <1>1, NullAssumption
  <2> QED BY <1>3, <2>1 DEF wakes
<1>20. \A u \in Thread : ~Has(k, q, u) => v.next[u] = next[u]
  <2> SUFFICES ASSUME NEW u \in Thread, ~Has(k, q, u) PROVE v.next[u] = next[u]
    OBVIOUS
  <2>1. ~Has(k - 1, q, u)
    BY <1>2
  <2>2. ~(r # <<>> /\ u = Last(r))
    BY <1>7, <1>8, <1>9, <2>1
  <2>3. ~(s.prev # NULL /\ u = s.prev)
    BY <1>1, <1>4, <2>1
  <2>4. s.next[u] = next[u]
    BY <2>1 DEF Looped
  <2> QED BY <1>3, <2>2, <2>3, <2>4
<1>21. SameOrder(n, q, N - 1, p)
  <2>1. SameOrder(n, q, N, c)
    BY DEF Looped
  <2> QED BY <1>0, <1>1, <2>1, OrderWithout DEF p
<1>22. Looped(k, v, n, q, a, one, N - 1, p, m)
  BY <1>11, <1>12, <1>13, <1>14, <1>15, <1>17, <1>18, <1>19, <1>20, <1>21 DEF Looped
<1> QED BY <1>22 DEF v, p

LEMMA LenOf ==
  ASSUME NEW n \in Nat, NEW q \in [1 .. n -> Thread]
  PROVE  Len(q) = n
  OBVIOUS

LEMMA LoopStarts ==
  ASSUME NEW b, NEW n, NEW q, Linked(b, n, q), NEW a, NEW one,
         NEW s, s = [head |-> head[b], tail |-> tail[b], next |-> next,
                     prev |-> NULL, requeue |-> <<>>, wakeup |-> NULL],
         next \in [Thread -> Pointer]
  PROVE  Looped(0, s, n, q, a, one, n, q, 0)
<1>1. List(n, q, head[b], tail[b], next) /\ n \in Nat /\ q \in [1 .. n -> Thread]
  BY DEF Linked, List, Seg
<1>2. head[b] \in Pointer /\ tail[b] \in Pointer
  BY <1>1 DEF List, Pointer
<1>3. s \in Walking
  BY <1>2 DEF Walking, Pointer
<1>4. \A u : ~Has(0, q, u)
  BY DEF Has
<1>5. s.requeue = <<>> /\ Len(s.requeue) = 0 /\ \A u : ~Has(Len(s.requeue), s.requeue, u)
  BY DEF Has
<1>6. Seg(Len(s.requeue), s.requeue, s.next)
  BY <1>5 DEF Seg
<1>7. \A i \in 0 + 1 .. n : q[i] = q[0 + (i - 0)]
  BY <1>1
<1>8. 0 \in 0 .. 0 /\ n = 0 + (n - 0)
  BY <1>1
<1>9. /\ s.head = head[b] /\ s.tail = tail[b] /\ s.next = next /\ s.prev = NULL /\ s.wakeup = NULL
  OBVIOUS
<1>10. SameOrder(n, q, n, q)
  BY <1>1 DEF SameOrder, List, Seg
<1> QED BY <1>1, <1>3, <1>4, <1>5, <1>6, <1>7, <1>8, <1>9, <1>10 DEF Looped

LEMMA WalkLoops ==
  ASSUME LotTyped, NEW t \in Thread, NEW n, NEW q, Linked(Hash[arg[t]], n, q)
  PROVE  \E N, c, m : Looped(n, Walk(t), n, q, arg[t], unpark_one[t], N, c, m)
<1> DEFINE from  == Hash[arg[t]]
           a     == arg[t]
           one   == unpark_one[t]
           start == [head |-> head[from], tail |-> tail[from], next |-> next,
                     prev |-> NULL, requeue |-> <<>>, wakeup |-> NULL]
           f     == CHOOSE g : Loops(g, n, q, start, a, one)
           Good(k) == \E N, c, m : Looped(k, f[k], n, q, a, one, N, c, m)
           Bad   == {k \in Nat : k <= n /\ ~Good(k)}
<1>1. /\ n \in Nat /\ q \in [1 .. n -> Thread] /\ List(n, q, head[from], tail[from], next)
      /\ Seg(n, q, next) /\ next \in [Thread -> Pointer]
  BY DEF Linked, List, Seg, LotTyped, Pointer
<1>2. Chain(from) = q /\ Len(q) = n
  BY <1>1, ChainOfLinked, LenOf
<1>3. Loops(f, n, q, start, a, one)
  <2> HIDE DEF start
  <2>1. \E g : Loops(g, n, q, start, a, one)
    BY <1>1, LoopExists
  <2> QED BY <2>1
<1>4. Walk(t) = f[n]
  BY <1>2, Zenon DEF Walk, Loops
<1>5. f[0] = start
  <2> HIDE DEF start, f, a, one
  <2> QED BY <1>1, <1>3 DEF Loops
<1>6. \A k \in 1 .. n : f[k] = Visit(f[k - 1], q[k], a, one)
  <2> HIDE DEF start, f, a, one
  <2> QED BY <1>1, <1>3 DEF Loops
<1> HIDE DEF f
<1>7. Good(0)
  <2>1. Looped(0, start, n, q, a, one, n, q, 0)
    BY <1>1, LoopStarts
  <2> HIDE DEF start
  <2> QED BY <1>5, <2>1
<1>8. ASSUME NEW k \in 1 .. n, Good(k - 1) PROVE Good(k)
  <2>1. PICK N, c, m : Looped(k - 1, f[k - 1], n, q, a, one, N, c, m)
    BY <1>8
  <2>2. CASE sleep_address[q[k]] = a
    <3>1. Looped(k, Visit(f[k - 1], q[k], a, one), n, q, a, one, N - 1, Without(N, c, m + 1), m)
      BY <1>1, <2>1, <2>2, LoopMoves
    <3> QED BY <1>6, <3>1
  <2>3. CASE sleep_address[q[k]] # a
    <3>1. Looped(k, Visit(f[k - 1], q[k], a, one), n, q, a, one, N, c, m + 1)
      BY <1>1, <2>1, <2>3, LoopStays
    <3> QED BY <1>6, <3>1
  <2> QED BY <2>2, <2>3
<1>9. ASSUME Bad # {} PROVE FALSE
  <2>1. PICK k \in Bad : \A j \in Bad : k <= j
    <3>1. Bad \in SUBSET Nat
      OBVIOUS
    <3> HIDE DEF Bad
    <3> QED BY <1>9, <3>1, Smallest
  <2>2. k \in Nat /\ k <= n /\ ~Good(k)
    BY <2>1
  <2>3. k - 1 \notin Bad
    <3> HIDE DEF Bad
    <3> QED BY <2>1, <2>2
  <2>4. k # 0
    BY <1>7, <2>2
  <2>5. k \in 1 .. n /\ k - 1 \in Nat /\ k - 1 <= n
    BY <1>1, <2>2, <2>4
  <2>6. Good(k - 1)
    <3> HIDE DEF Good
    <3> QED BY <2>3, <2>5
  <2> HIDE DEF Good
  <2> QED BY <1>8, <2>2, <2>5, <2>6
<1>10. Good(n)
  <2> HIDE DEF Good
  <2> QED BY <1>1, <1>9
<1> QED BY <1>4, <1>10

\* What the threads see of Requeue: w is woken and the other waiters now wait for
\* the mutex.
Moved(t, w) ==
  /\ w = NULL \/ (w \in Thread /\ sleep_address[w] = arg[t] /\ unpark_one[t])
  /\ w = NULL => ~(unpark_one[t] /\ \E u \in Thread : sleep_address[u] = arg[t])
  /\ wakeup' = [wakeup EXCEPT ![t] = w]
  /\ \A u \in Thread :
       sleep_address'[u] = IF u = w THEN NULL
                           ELSE IF sleep_address[u] = arg[t] THEN val[t] ELSE sleep_address[u]
  /\ Goto(t, IF w # NULL THEN Wake ELSE ret[t])
  /\ state' = [state EXCEPT ![val[t]].parked =
                 @ \/ (unpark_one[t] /\ \E u \in Thread : sleep_address[u] = arg[t] /\ u # w)]

\* The pointers that Requeue writes, in terms of what the loop has left.
Rejoined(t, s) ==
  LET to    == Hash[val[t]]
      r     == s.requeue
      heads == [head EXCEPT ![Hash[arg[t]]] = s.head]
      tails == [tail EXCEPT ![Hash[arg[t]]] = s.tail]
  IN  /\ head' = IF r # <<>> /\ heads[to] = NULL THEN [heads EXCEPT ![to] = r[1]] ELSE heads
      /\ tail' = IF r # <<>> THEN [tails EXCEPT ![to] = Last(r)] ELSE tails
      /\ next' = [u \in Thread |->
                    IF u = s.wakeup \/ (r # <<>> /\ u = Last(r)) THEN NULL
                    ELSE IF r # <<>> /\ heads[to] # NULL
                         THEN [s.next EXCEPT ![tails[to]] = r[1]][u] ELSE s.next[u]]
      /\ sleep_address' = [u \in Thread |->
                             IF u = s.wakeup THEN NULL
                             ELSE IF Contains(r, u) THEN val[t] ELSE sleep_address[u]]

LEMMA RequeueIs ==
  ASSUME NEW t \in Thread, Requeue(t), NEW s, s = Walk(t)
  PROVE  /\ Rejoined(t, s)
         /\ wakeup' = [wakeup EXCEPT ![t] = s.wakeup]
         /\ Goto(t, IF s.wakeup # NULL THEN Wake ELSE ret[t])
         /\ state' = [state EXCEPT ![val[t]].parked = @ \/ (unpark_one[t] /\ s.requeue # <<>>)]
<1>1. Rejoined(t, s)
  BY DEF Requeue, Rejoined
<1>2. wakeup' = [wakeup EXCEPT ![t] = s.wakeup]
  BY DEF Requeue
<1>3. Goto(t, IF s.wakeup # NULL THEN Wake ELSE ret[t])
  BY DEF Requeue
<1>4. state' = [state EXCEPT ![val[t]].parked = @ \/ (unpark_one[t] /\ s.requeue # <<>>)]
  BY DEF Requeue, broadcast_parking_control_requeue_callback
<1> QED BY <1>1, <1>2, <1>3, <1>4

LEMMA RequeueLinks ==
  ASSUME LotTyped, AllLinked, NEW t \in Thread, arg[t] \in Cond, val[t] \in Mutex, Requeue(t)
  PROVE  AllLinked' /\ LotTyped' /\ Orderly /\ \E w : Moved(t, w)
<1> DEFINE a    == arg[t]
           v    == val[t]
           from == Hash[a]
           to   == Hash[v]
           s    == Walk(t)
           r    == s.requeue
           w    == s.wakeup
           one  == unpark_one[t]
           In(u, b) == sleep_address[u] # NULL /\ Hash[sleep_address[u]] = b
           Stay(u, b) == In(u, b) /\ sleep_address[u] # a
           Gone(u) == sleep_address[u] = a /\ u # w
           Sorted(b, i, p) ==
             \A k, z : Linked(b, k, z) =>
               \A x, y \in 1 .. k : x < y /\ Stay(z[x], b) /\ Stay(z[y], b) =>
                 \E j, l \in 1 .. i : j < l /\ p[j] = z[x] /\ p[l] = z[y]
           heads == [head EXCEPT ![from] = s.head]
           tails == [tail EXCEPT ![from] = s.tail]
           nz == [u \in Thread |-> IF u = w THEN NULL ELSE s.next[u]]
<1>1. /\ from \in Bucket /\ to \in Bucket /\ a # NULL /\ v # NULL /\ a # v
      /\ a \in Address /\ v \in Address
  BY AddressFacts, KindAssumption DEF Address
<1>2. PICK n, q : Linked(from, n, q)
  BY <1>1 DEF AllLinked
<1>3. PICK N, c, m : Looped(n, s, n, q, a, one, N, c, m)
  BY <1>2, WalkLoops
<1>4. \A u \in Thread : Has(n, q, u) <=> In(u, from)
  BY <1>2 DEF Linked
<1>5. /\ n \in Nat /\ q \in [1 .. n -> Thread] /\ \A u : Has(n, q, u) => u \in Thread
  BY <1>2, LinkedThreads
<1>6. /\ s \in Walking /\ List(N, c, s.head, s.tail, s.next)
      /\ \A u : Has(N, c, u) <=> Has(n, q, u) /\ sleep_address[u] # a
      /\ Seg(Len(r), r, s.next)
      /\ \A u : Has(Len(r), r, u) <=> Has(n, q, u) /\ Gone(u)
      /\ w = NULL \/ (Has(n, q, w) /\ sleep_address[w] = a /\ one)
      /\ w = NULL => ~(one /\ \E u : Has(n, q, u) /\ sleep_address[u] = a)
      /\ \A u \in Thread : ~Has(n, q, u) => s.next[u] = next[u]
      /\ SameOrder(n, q, N, c)
  BY <1>3 DEF Looped
<1>7. r \in Seq(Thread) /\ Len(r) \in Nat /\ r \in [1 .. Len(r) -> Thread]
      /\ (r = <<>> <=> Len(r) = 0) /\ Last(r) = r[Len(r)]
      /\ s.next \in [Thread -> Pointer] /\ w \in Pointer
  <2>1. r \in Seq(Thread) /\ s.next \in [Thread -> Pointer] /\ w \in Pointer
    BY <1>6 DEF Walking
  <2> HIDE DEF r, w, s
  <2> QED BY <2>1, Appended
<1>8. \A u \in Thread : Has(Len(r), r, u) <=> Gone(u)
  BY <1>1, <1>4, <1>6
<1>9. \A u : Contains(r, u) <=> Has(Len(r), r, u)
  BY <1>7 DEF Contains, Has
<1>10. /\ Rejoined(t, s)
       /\ wakeup' = [wakeup EXCEPT ![t] = w]
       /\ Goto(t, IF w # NULL THEN Wake ELSE ret[t])
       /\ state' = [state EXCEPT ![val[t]].parked = @ \/ (one /\ r # <<>>)]
  BY RequeueIs
<1> HIDE DEF s
<1>11. r # <<>> <=> \E u \in Thread : Gone(u)
  <2>1. r # <<>> => Len(r) \in 1 .. Len(r)
    BY <1>7
  <2>2. r # <<>> => Has(Len(r), r, Last(r)) /\ Last(r) \in Thread
    BY <1>7, <2>1 DEF Has
  <2>3. (\E u : Has(Len(r), r, u)) => r # <<>>
    BY <1>7 DEF Has
  <2> QED BY <1>8, <2>2, <2>3
<1>12. \A u \in Thread : sleep_address'[u] = IF u = w THEN NULL
                                             ELSE IF sleep_address[u] = a THEN v ELSE sleep_address[u]
  <2>1. sleep_address' = [u \in Thread |-> IF u = w THEN NULL
                                           ELSE IF Contains(r, u) THEN v ELSE sleep_address[u]]
    BY <1>10 DEF Rejoined
  <2>2. \A u \in Thread : Contains(r, u) <=> Gone(u)
    BY <1>8, <1>9
  <2> HIDE DEF r, w
  <2> QED BY <2>1, <2>2
<1>13. Moved(t, w)
  <2>1. w = NULL \/ (w \in Thread /\ sleep_address[w] = a /\ one)
    BY <1>5, <1>6
  <2>2. w = NULL => ~(one /\ \E u \in Thread : sleep_address[u] = a)
    BY <1>1, <1>4, <1>6
  <2>3. (\E u \in Thread : Gone(u)) <=> \E u \in Thread : sleep_address[u] = arg[t] /\ u # w
    OBVIOUS
  <2>4. state' = [state EXCEPT ![val[t]].parked =
                   @ \/ (unpark_one[t] /\ \E u \in Thread : sleep_address[u] = arg[t] /\ u # w)]
    BY <1>10, <1>11, <2>3
  <2> QED BY <1>10, <1>12, <2>1, <2>2, <2>4 DEF Moved
<1>14. /\ s.head \in Pointer /\ s.tail \in Pointer /\ heads \in [Bucket -> Pointer] /\ tails \in [Bucket -> Pointer]
       /\ \A b \in Bucket : /\ heads[b] = IF b = from THEN s.head ELSE head[b]
                            /\ tails[b] = IF b = from THEN s.tail ELSE tail[b]
  BY <1>1, <1>6 DEF LotTyped, Walking, Pointer
<1>15. \A u \in Thread : nz[u] = IF u = w THEN NULL ELSE s.next[u]
  OBVIOUS
<1>16. w # NULL => w \in Thread /\ sleep_address[w] = a /\ Has(n, q, w) /\ In(w, from)
  BY <1>1, <1>5, <1>6
<1>17. /\ Rejoined(t, s) <=>
            /\ head' = IF r # <<>> /\ heads[to] = NULL THEN [heads EXCEPT ![to] = r[1]] ELSE heads
            /\ tail' = IF r # <<>> THEN [tails EXCEPT ![to] = Last(r)] ELSE tails
            /\ next' = [u \in Thread |->
                          IF u = w \/ (r # <<>> /\ u = Last(r)) THEN NULL
                          ELSE IF r # <<>> /\ heads[to] # NULL
                               THEN [s.next EXCEPT ![tails[to]] = r[1]][u] ELSE s.next[u]]
            /\ sleep_address' = [u \in Thread |->
                                   IF u = w THEN NULL
                                   ELSE IF Contains(r, u) THEN v ELSE sleep_address[u]]
  BY DEF Rejoined
<1> HIDE DEF heads, tails, nz, r, w
<1>18. \A u \in Thread : next'[u] = IF r # <<>> /\ u = Last(r) THEN NULL
                                     ELSE IF u # w /\ r # <<>> /\ heads[to] # NULL /\ u = tails[to] THEN r[1]
                                     ELSE nz[u]
  BY <1>7, <1>10, <1>15, <1>17
<1>19. ASSUME NEW b \in Bucket
       PROVE  \E x, y : /\ List(x, y, heads[b], tails[b], nz)
                        /\ \A u \in Thread : Has(x, y, u) <=> Stay(u, b)
                        /\ Sorted(b, x, y)
  <2>1. CASE b = from
    <3>1. \A u \in Thread : Has(N, c, u) => nz[u] = s.next[u]
      BY <1>6, <1>15, <1>16, NullAssumption
    <3>2. List(N, c, heads[b], tails[b], s.next)
      BY <1>6, <1>14, <2>1
    <3>3. List(N, c, heads[b], tails[b], nz)
      BY <3>1, <3>2, ListFrame
    <3>4. \A u \in Thread : Has(N, c, u) <=> Stay(u, b)
      BY <1>4, <1>6, <2>1
    <3>5. ASSUME NEW k, NEW z, Linked(b, k, z), NEW x \in 1 .. k, NEW y \in 1 .. k,
                 x < y, Stay(z[x], b), Stay(z[y], b)
          PROVE  \E j, l \in 1 .. N : j < l /\ c[j] = z[x] /\ c[l] = z[y]
      <4>1. k = n /\ z = q
        BY <1>2, <2>1, <3>5, LinkedOnce
      <4>2. z[x] \in Thread /\ z[y] \in Thread
        BY <1>5, <4>1
      <4>3. Has(N, c, z[x]) /\ Has(N, c, z[y])
        BY <3>4, <3>5, <4>2
      <4>4. PICK j, l \in 1 .. N : c[j] = z[x] /\ c[l] = z[y]
        BY <4>3 DEF Has
      <4>5. j < l
        BY <1>6, <3>5, <4>1, <4>4 DEF SameOrder
      <4> QED BY <4>4, <4>5
    <3>6. Sorted(b, N, c)
      BY <3>5
    <3> HIDE DEF Sorted
    <3> QED BY <3>3, <3>4, <3>6
  <2>2. CASE b # from
    <3>1. PICK x, y : Linked(b, x, y)
      BY DEF AllLinked
    <3>2. \A u \in Thread : Has(x, y, u) <=> In(u, b)
      BY <3>1 DEF Linked
    <3>3. \A u \in Thread : Has(x, y, u) => ~Has(n, q, u) /\ u # w /\ sleep_address[u] # a
      BY <1>4, <1>16, <2>2, <3>2, NullAssumption
    <3>4. \A u \in Thread : Has(x, y, u) => nz[u] = next[u]
      BY <1>6, <1>15, <3>3
    <3>5. List(x, y, heads[b], tails[b], next)
      BY <1>14, <2>2, <3>1 DEF Linked
    <3>6. List(x, y, heads[b], tails[b], nz)
      BY <3>4, <3>5, ListFrame
    <3>7. \A u \in Thread : Has(x, y, u) <=> Stay(u, b)
      BY <3>2, <3>3
    <3>8. Sorted(b, x, y)
      <4> SUFFICES ASSUME NEW k, NEW z, Linked(b, k, z), NEW e \in 1 .. k, NEW g \in 1 .. k, e < g
                   PROVE  \E j, l \in 1 .. x : j < l /\ y[j] = z[e] /\ y[l] = z[g]
        OBVIOUS
      <4>1. k = x /\ z = y
        BY <3>1, LinkedOnce
      <4> QED BY <4>1
    <3> HIDE DEF Sorted
    <3> QED BY <3>6, <3>7, <3>8
  <2> QED BY <2>1, <2>2
<1>20. Seg(Len(r), r, nz)
  <2>1. \A i \in 1 .. Len(r) : r[i] \in Thread /\ r[i] # w
    <3>1. \A i \in 1 .. Len(r) : r[i] \in Thread /\ Has(Len(r), r, r[i])
      BY <1>7 DEF Has
    <3> QED BY <1>8, <3>1
  <2>2. \A i \in 1 .. Len(r) - 1 : nz[r[i]] = s.next[r[i]]
    BY <1>7, <1>15, <2>1
  <2>3. Seg(Len(r), r, s.next)
    BY <1>6 DEF r
  <2> QED BY <2>2, <2>3, SegFrame
<1>21. r # <<>> => Last(r) \in Thread /\ Gone(Last(r)) /\ Len(r) > 0
  <2>1. r # <<>> => Len(r) \in 1 .. Len(r) /\ Len(r) > 0
    BY <1>7
  <2>2. r # <<>> => Has(Len(r), r, Last(r)) /\ Last(r) \in Thread
    BY <1>7, <2>1 DEF Has
  <2> QED BY <1>8, <2>1, <2>2
<1>22. \A u \in Thread : \A b \in Bucket :
         (sleep_address'[u] # NULL /\ Hash[sleep_address'[u]] = b) <=> Stay(u, b) \/ (Gone(u) /\ b = to)
  <2> SUFFICES ASSUME NEW u \in Thread, NEW b \in Bucket
               PROVE  (sleep_address'[u] # NULL /\ Hash[sleep_address'[u]] = b)
                        <=> Stay(u, b) \/ (Gone(u) /\ b = to)
    OBVIOUS
  <2>1. CASE u = w
    BY <1>12, <1>16, <2>1, NullAssumption
  <2>2. CASE u # w /\ sleep_address[u] = a
    BY <1>1, <1>12, <2>2
  <2>3. CASE u # w /\ sleep_address[u] # a
    BY <1>12, <2>3
  <2> QED BY <2>1, <2>2, <2>3
<1>23. PICK x, y : /\ List(x, y, heads[to], tails[to], nz)
                   /\ \A u \in Thread : Has(x, y, u) <=> Stay(u, to)
                   /\ Sorted(to, x, y)
  BY <1>1, <1>19
<1>24. /\ x \in Nat /\ y \in [1 .. x -> Thread] /\ (x = 0 <=> heads[to] = NULL)
       /\ x > 0 => tails[to] \in Thread /\ Stay(tails[to], to)
  <2>1. x \in Nat /\ y \in [1 .. x -> Thread]
    BY <1>23 DEF List, Seg
  <2>2. x > 0 => heads[to] = y[1] /\ tails[to] = y[x] /\ 1 \in 1 .. x /\ x \in 1 .. x
    BY <1>23, <2>1 DEF List
  <2>3. x > 0 => heads[to] # NULL /\ tails[to] \in Thread /\ Has(x, y, tails[to])
    BY <2>1, <2>2, NullAssumption DEF Has
  <2>4. x = 0 => heads[to] = NULL
    BY <1>23 DEF List
  <2> QED BY <1>23, <2>1, <2>3, <2>4
<1>25. ASSUME NEW b \in Bucket, b # to \/ r = <<>>
       PROVE  \E i, p : Linked(b, i, p)' /\ Sorted(b, i, p)
  <2>1. PICK i, p : /\ List(i, p, heads[b], tails[b], nz)
                    /\ \A u \in Thread : Has(i, p, u) <=> Stay(u, b)
                    /\ Sorted(b, i, p)
    BY <1>19
  <2>2. head'[b] = heads[b] /\ tail'[b] = tails[b]
    BY <1>1, <1>10, <1>14, <1>17, <1>25
  <2>3. \A u \in Thread : Has(i, p, u) => next'[u] = nz[u]
    <3> SUFFICES ASSUME NEW u \in Thread, Has(i, p, u) PROVE next'[u] = nz[u]
      OBVIOUS
    <3>1. Stay(u, b) /\ ~Gone(u)
      BY <2>1
    <3>2. r # <<>> => u # Last(r)
      BY <1>21, <3>1
    <3>3. r # <<>> /\ heads[to] # NULL => u # tails[to]
      BY <1>24, <1>25, <3>1
    <3> QED BY <1>18, <3>2, <3>3
  <2>4. List(i, p, head'[b], tail'[b], next')
    BY <2>1, <2>2, <2>3, ListFrame
  <2>5. r = <<>> => \A u \in Thread : ~Gone(u)
    BY <1>11 DEF r, w
  <2>6. \A u \in Thread : Has(i, p, u) <=> sleep_address'[u] # NULL /\ Hash[sleep_address'[u]] = b
    BY <1>22, <1>25, <2>1, <2>5
  <2>7. Linked(b, i, p)'
    BY <2>4, <2>6, LinkedAfter
  <2> HIDE DEF Sorted
  <2> QED BY <2>1, <2>7
<1>26. ASSUME NEW b \in Bucket, b = to, r # <<>>
       PROVE  \E i, p : Linked(b, i, p)' /\ Sorted(b, i, p)
  <2>1. next'[Last(r)] = NULL /\ (x > 0 => next'[tails[to]] = r[1])
    <3>1. x > 0 => tails[to] # w /\ tails[to] # Last(r)
      BY <1>16, <1>21, <1>24, <1>26, NullAssumption
    <3>2. next'[Last(r)] = NULL
      BY <1>18, <1>21, <1>26
    <3>3. x > 0 => next'[tails[to]] = r[1]
      BY <1>18, <1>24, <1>26, <3>1
    <3> QED BY <3>2, <3>3
  <2>2. \A u \in Thread : u # r[Len(r)] /\ ~(x > 0 /\ u = tails[to]) => next'[u] = nz[u]
    BY <1>7, <1>18, <1>24
  <2>3. \A i \in 1 .. x : \A j \in 1 .. Len(r) : y[i] # r[j]
    <3>1. \A i \in 1 .. x : y[i] \in Thread /\ Has(x, y, y[i])
      BY <1>24 DEF Has
    <3>2. \A j \in 1 .. Len(r) : r[j] \in Thread /\ Has(Len(r), r, r[j])
      BY <1>7 DEF Has
    <3>3. \A j \in 1 .. Len(r) : Gone(r[j])
      BY <1>8, <3>2
    <3> QED BY <1>23, <3>1, <3>3
  <2>4. r[Len(r)] = Last(r)
    BY <1>7
  <2>5. PICK i, p : i = x + Len(r) /\ p = Joined(x, y, Len(r), r)
    OBVIOUS
  <2>6. /\ List(i, p, IF heads[to] = NULL THEN r[1] ELSE heads[to], r[Len(r)], next')
        /\ \A u : Has(i, p, u) <=> Has(x, y, u) \/ Has(Len(r), r, u)
    <3>1. /\ List(x, y, heads[to], tails[to], nz) /\ Seg(Len(r), r, nz) /\ Len(r) > 0
          /\ x > 0 => next'[tails[to]] = r[1]
          /\ next'[r[Len(r)]] = NULL
      BY <1>20, <1>21, <1>23, <1>26, <2>1, <2>4
    <3>2. PICK h, l, nx, ny, z, g :
             /\ h = heads[to] /\ l = tails[to] /\ nx = nz /\ ny = next' /\ z = Len(r) /\ g = r
      OBVIOUS
    <3>3. /\ List(x, y, h, l, nx) /\ Seg(z, g, nx) /\ z > 0
          /\ \A j \in 1 .. x : \A k \in 1 .. z : y[j] # g[k]
          /\ \A u \in Thread : u # g[z] /\ ~(x > 0 /\ u = l) => ny[u] = nx[u]
          /\ x > 0 => ny[l] = g[1]
          /\ ny[g[z]] = NULL
      BY <2>2, <2>3, <3>1, <3>2
    <3>4. Chained(x, y, h, z, g, ny)
      BY ONLY <3>3, ListJoined
    <3> QED BY <2>5, <3>2, <3>4 DEF Chained
  <2>7. head'[b] = (IF heads[to] = NULL THEN r[1] ELSE heads[to]) /\ tail'[b] = r[Len(r)]
    BY <1>1, <1>10, <1>14, <1>17, <1>26, <2>4
  <2>8. \A u \in Thread : Has(i, p, u) <=> sleep_address'[u] # NULL /\ Hash[sleep_address'[u]] = b
    BY <1>1, <1>8, <1>22, <1>23, <1>26, <2>6
  <2>9. Linked(b, i, p)'
    <3>1. List(i, p, head'[b], tail'[b], next')
      BY <2>6, <2>7
    <3> QED BY <2>8, <3>1, LinkedAfter
  <2>10. Sorted(b, i, p)
    <3> SUFFICES ASSUME NEW k, NEW z, Linked(b, k, z), NEW e \in 1 .. k, NEW g \in 1 .. k,
                        e < g, Stay(z[e], b), Stay(z[g], b)
                 PROVE  \E j, l \in 1 .. i : j < l /\ p[j] = z[e] /\ p[l] = z[g]
      OBVIOUS
    <3>1. PICK j, l \in 1 .. x : j < l /\ y[j] = z[e] /\ y[l] = z[g]
      BY <1>23, <1>26
    <3>2. /\ j \in 1 .. i /\ l \in 1 .. i /\ p[j] = y[j] /\ p[l] = y[l]
      BY <1>7, <1>24, <2>5, <3>1 DEF Joined
    <3> QED BY <3>1, <3>2
  <2> HIDE DEF Sorted
  <2> QED BY <2>9, <2>10
<1> HIDE DEF Sorted
<1>27. AllLinked'
  <2> SUFFICES ASSUME NEW b \in Bucket PROVE \E i, p : Linked(b, i, p)'
    BY DEF AllLinked, Bucket
  <2> QED BY <1>25, <1>26
<1>28. Orderly
  <2> SUFFICES ASSUME NEW u \in Thread, NEW z \in Thread, Ahead(u, z),
                      sleep_address'[u] = sleep_address[u], sleep_address'[z] = sleep_address[z]
               PROVE  Ahead(u, z)'
    BY DEF Orderly
  <2>1. PICK b, k, g : b \in Bucket /\ Linked(b, k, g) /\ \E i, j \in 1 .. k : i < j /\ g[i] = u /\ g[j] = z
    BY DEF Ahead
  <2>2. PICK i, j \in 1 .. k : i < j /\ g[i] = u /\ g[j] = z
    BY <2>1
  <2>3. In(u, b) /\ In(z, b)
    <3>1. Has(k, g, u) /\ Has(k, g, z)
      BY <2>2 DEF Has
    <3> QED BY <2>1, <3>1, LinkedThreads
  <2>4. sleep_address[u] # a /\ sleep_address[z] # a
    BY <1>1, <1>12
  <2>5. PICK e, p : Linked(b, e, p)' /\ Sorted(b, e, p)
    BY <1>25, <1>26, <2>1
  <2>6. \E x1, y1 \in 1 .. e : x1 < y1 /\ p[x1] = u /\ p[y1] = z
    BY <2>1, <2>2, <2>3, <2>4, <2>5 DEF Sorted
  <2> QED BY <2>1, <2>5, <2>6 DEF Ahead, Bucket
<1>29. LotTyped'
  <2>1. r # <<>> => r[1] \in Thread
    BY <1>7
  <2>2. head' \in [Bucket -> Thread \union {NULL}]
    BY <1>10, <1>14, <1>17, <2>1 DEF Pointer
  <2>3. tail' \in [Bucket -> Thread \union {NULL}]
    BY <1>10, <1>14, <1>17, <1>21 DEF Pointer
  <2>4. next' \in [Thread -> Thread \union {NULL}]
    <3>1. \A u \in Thread : nz[u] \in Pointer
      BY <1>7, <1>15 DEF Pointer
    <3>2. \A u \in Thread : next'[u] \in Pointer
      BY <1>18, <2>1, <3>1 DEF Pointer
    <3>3. next' = [u \in Thread |-> next'[u]]
      BY <1>10, <1>17
    <3> QED BY <3>2, <3>3 DEF Pointer
  <2>5. sleep_address' \in [Thread -> Address \union {NULL}]
    BY <1>1, <1>10, <1>17 DEF LotTyped
  <2> QED BY <2>2, <2>3, <2>4, <2>5 DEF LotTyped
<1> QED BY <1>13, <1>27, <1>28, <1>29

(***************************************************************************)
(* The invariant.                                                          *)
(***************************************************************************)
\* The types of the words and of the locals that the argument is about.
Typed ==
  /\ state \in [Mutex -> Word]
  /\ cond \in [Cond -> Mutex \union {NULL}]
  /\ pc \in [Thread -> Location]
  /\ mutex \in [Thread -> Mutex \union {NULL}]
  /\ val \in [Thread -> Mutex \union {NULL}]
  /\ expected \in [Thread -> Word]
  /\ ret \in [Thread -> {Idle, Crit, WParked}]

Unlocking    == {UFull, UCall, UTake}
Broadcasting == {BCall, BSecond, BValid, BMark, BRequeue}

\* The threads outside every lock(), wait() and critical section.
Elsewhere == {Idle} \union Notifying

\* What a thread knows where it is: it has named a mutex that it locks, holds
\* or unlocks; unlock() returns to a caller who no longer holds the mutex and a
\* notification to one who may; a broadcast has read a mutex.
Placed(t) ==
  /\ pc[t] \notin Elsewhere => mutex[t] \in Mutex
  /\ pc[t] \in Notifying /\ ret[t] = Crit => mutex[t] \in Mutex
  /\ pc[t] = Wake /\ ret[t] = WParked => mutex[t] \in Mutex
  /\ pc[t] \in Unlocking => ret[t] \in {Idle, WParked}
  /\ pc[t] \in Notifying \ {Wake} => ret[t] \in {Idle, Crit}
  /\ pc[t] \in Broadcasting => val[t] \in Mutex

Exclusion == MutualExclusion /\ LockBit

Inv == Typed /\ (\A t \in Thread : Placed(t)) /\ Exclusion

LEMMA InitInv == Init => Inv
  BY NullAssumption DEF Init, Inv, Typed, Placed, Exclusion, MutualExclusion, LockBit, Holding,
     Word, Free, Location, Unlocking, Broadcasting, Elsewhere, Notifying,
     Idle, LoadFull, Loop, Marked, LValid, LParked, Crit, WCall, WValid, WUnlock, WParked,
     UFull, UCall, UTake, SCall, STake, BCall, BSecond, BValid, BMark, BRequeue, Wake

(***************************************************************************)
(* What a step of t does to who holds what.                                *)
(***************************************************************************)
\* A step of t leaves what other threads do and hold alone.
Alone(t) ==
  \A u \in Thread \ {t} : pc'[u] = pc[u] /\ mutex'[u] = mutex[u] /\ ret'[u] = ret[u]
                          /\ val'[u] = val[u]

SameLocks == \A m \in Mutex : state'[m].lock = state[m].lock

\* t holds after the step what it held before.
Stays(t) ==
  /\ Alone(t) /\ SameLocks
  /\ Holding(t)' <=> Holding(t)
  /\ Holding(t) => mutex'[t] = mutex[t]

\* t sets the lock bit of a mutex where it was clear, and holds it.
Takes(t) ==
  /\ Alone(t) /\ ~Holding(t) /\ Holding(t)'
  /\ mutex'[t] \in Mutex
  /\ ~state[mutex'[t]].lock /\ state'[mutex'[t]].lock
  /\ \A m \in Mutex \ {mutex'[t]} : state'[m].lock = state[m].lock

\* t clears the lock bit of the mutex that it held.
Frees(t) ==
  /\ Alone(t) /\ Holding(t) /\ ~Holding(t)'
  /\ mutex[t] \in Mutex
  /\ ~state'[mutex[t]].lock
  /\ \A m \in Mutex \ {mutex[t]} : state'[m].lock = state[m].lock

LEMMA AloneHolding ==
  ASSUME NEW t \in Thread, Alone(t), NEW u \in Thread \ {t}
  PROVE  (Holding(u)' <=> Holding(u)) /\ mutex'[u] = mutex[u]
  BY DEF Alone, Holding

LEMMA StaysExclusive ==
  ASSUME NEW t \in Thread, Stays(t), Exclusion
  PROVE  Exclusion'
<1>1. \A u \in Thread : /\ Holding(u)' <=> Holding(u)
                        /\ Holding(u) => mutex'[u] = mutex[u]
  BY AloneHolding DEF Stays
<1>2. MutualExclusion'
  BY <1>1 DEF Exclusion, MutualExclusion
<1>3. LockBit'
  BY <1>1 DEF Exclusion, LockBit, Stays, SameLocks
<1> QED BY <1>2, <1>3 DEF Exclusion

LEMMA TakesExclusive ==
  ASSUME NEW t \in Thread, Takes(t), Exclusion
  PROVE  Exclusion'
<1>1. \A u \in Thread \ {t} : (Holding(u)' <=> Holding(u)) /\ mutex'[u] = mutex[u]
  BY AloneHolding DEF Takes
<1>2. \A u \in Thread \ {t} : ~(Holding(u)' /\ mutex'[u] = mutex'[t])
  BY <1>1 DEF Takes, Exclusion, LockBit
<1>3. MutualExclusion'
  BY <1>1, <1>2 DEF Exclusion, MutualExclusion
<1>4. LockBit'
  <2> SUFFICES ASSUME NEW m \in Mutex
               PROVE  state'[m].lock <=> \E u \in Thread : Holding(u)' /\ mutex'[u] = m
    BY DEF LockBit
  <2>1. CASE m = mutex'[t]
    BY <2>1 DEF Takes
  <2>2. CASE m # mutex'[t]
    BY <2>2, <1>1 DEF Takes, Exclusion, LockBit
  <2> QED BY <2>1, <2>2
<1> QED BY <1>3, <1>4 DEF Exclusion

LEMMA FreesExclusive ==
  ASSUME NEW t \in Thread, Frees(t), Exclusion
  PROVE  Exclusion'
<1>1. \A u \in Thread \ {t} : (Holding(u)' <=> Holding(u)) /\ mutex'[u] = mutex[u]
  BY AloneHolding DEF Frees
<1>2. \A u \in Thread \ {t} : ~(Holding(u)' /\ mutex'[u] = mutex[t])
  BY <1>1 DEF Frees, Exclusion, MutualExclusion
<1>3. MutualExclusion'
  BY <1>1 DEF Frees, Exclusion, MutualExclusion
<1>4. LockBit'
  <2> SUFFICES ASSUME NEW m \in Mutex
               PROVE  state'[m].lock <=> \E u \in Thread : Holding(u)' /\ mutex'[u] = m
    BY DEF LockBit
  <2>1. CASE m = mutex[t]
    BY <2>1, <1>2 DEF Frees
  <2>2. CASE m # mutex[t]
    BY <2>2, <1>1 DEF Frees, Exclusion, LockBit
  <2> QED BY <2>1, <2>2
<1> QED BY <1>3, <1>4 DEF Exclusion

(***************************************************************************)
(* Every step.                                                             *)
(***************************************************************************)
Kept(t) == Typed' /\ Placed(t)' /\ (Stays(t) \/ Takes(t) \/ Frees(t))

LEMMA KeptInv ==
  ASSUME NEW t \in Thread, Inv, Kept(t)
  PROVE  Inv'
<1>1. Alone(t)
  BY DEF Kept, Stays, Takes, Frees
<1>2. \A u \in Thread : Placed(u)'
  <2> SUFFICES ASSUME NEW u \in Thread \ {t}
               PROVE  Placed(u)'
    BY DEF Kept
  <2> QED BY <1>1 DEF Inv, Alone, Placed
<1>3. Exclusion'
  BY StaysExclusive, TakesExclusive, FreesExclusive DEF Kept, Inv
<1> QED BY <1>2, <1>3 DEF Kept, Inv

USE DEF Idle, LoadFull, Loop, Marked, LValid, LParked, Crit, WCall, WValid,
        WUnlock, WParked, UFull, UCall, UTake, SCall, STake, BCall, BSecond,
        BValid, BMark, BRequeue, Wake, Location, Elsewhere, Notifying,
        Unlocking, Broadcasting

\* Where t may go without a change of what it holds.
Within(t, l) ==
  /\ pc' = [pc EXCEPT ![t] = l]
  /\ UNCHANGED <<mutex, ret, val>>

\* t wants a mutex it does not hold.
Wanting == {LoadFull, Loop, Marked, LValid, LParked}

LEMMA Moves ==
  ASSUME NEW t \in Thread, Inv, NEW l \in Location, Within(t, l), Typed', SameLocks,
         \/ pc[t] = l
         \/ pc[t] \in Wanting /\ l \in Wanting
         \/ pc[t] \in {Crit, WCall, WValid} /\ l \in {Crit, WCall, WValid, WUnlock}
         \/ pc[t] = WParked /\ l \in Wanting
         \/ pc[t] = UFull /\ l = UCall
         \/ pc[t] = UCall /\ l = UTake
         \/ pc[t] \in Notifying \ {Wake} /\ (l = ret[t] \/ l = Wake)
         \/ pc[t] = Wake /\ l = ret[t]
         \/ pc[t] = SCall /\ l = STake
         \/ pc[t] \in Broadcasting /\ l \in Broadcasting
  PROVE  Kept(t)
<1>1. Placed(t)'
  BY DEF Within, Inv, Typed, Placed, Wanting
<1>2. Alone(t)
  BY DEF Within, Inv, Typed, Alone
<1>3. Holding(t)' <=> Holding(t)
  BY DEF Within, Inv, Typed, Placed, Holding, Wanting
<1>4. mutex'[t] = mutex[t]
  BY DEF Within
<1> QED BY <1>1, <1>2, <1>3, <1>4 DEF Kept, Stays

LEMMA Acquires ==
  ASSUME NEW t \in Thread, Inv, NEW m \in Mutex, Typed',
         pc[t] \in {Idle, WParked} \union Wanting,
         pc' = [pc EXCEPT ![t] = Crit], mutex'[t] = m,
         \A u \in Thread \ {t} : mutex'[u] = mutex[u], UNCHANGED <<ret, val>>,
         ~state[m].lock, state'[m].lock,
         \A n \in Mutex \ {m} : state'[n].lock = state[n].lock
  PROVE  Kept(t)
<1>1. Placed(t)'
  BY DEF Inv, Typed, Placed
<1>2. Alone(t)
  BY DEF Inv, Typed, Alone
<1>3. Holding(t)' /\ ~Holding(t)
  BY DEF Inv, Typed, Holding, Wanting
<1> QED BY <1>1, <1>2, <1>3 DEF Kept, Takes

LEMMA Releases ==
  ASSUME NEW t \in Thread, Inv, NEW l \in Location, Within(t, l), Typed',
         \/ pc[t] = Crit /\ l = Idle
         \/ pc[t] = WUnlock /\ l = WParked
         \/ pc[t] \in {UFull, UTake} /\ l = ret[t]
         \/ pc[t] = UTake /\ l = Wake,
         ~state'[mutex[t]].lock,
         \A n \in Mutex \ {mutex[t]} : state'[n].lock = state[n].lock
  PROVE  Kept(t)
<1>1. Placed(t)'
  BY DEF Within, Inv, Typed, Placed
<1>2. Alone(t)
  BY DEF Within, Inv, Typed, Alone
<1>3. Holding(t) /\ ~Holding(t)' /\ mutex[t] \in Mutex
  BY DEF Within, Inv, Typed, Placed, Holding
<1> QED BY <1>1, <1>2, <1>3 DEF Kept, Frees

\* A word that is rewritten with a word.
LEMMA Rewritten ==
  ASSUME state \in [Mutex -> Word], NEW m \in Mutex, NEW w \in Word,
         state' = [state EXCEPT ![m] = w]
  PROVE  /\ state' \in [Mutex -> Word]
         /\ state'[m].lock = w.lock
         /\ \A n \in Mutex \ {m} : state'[n].lock = state[n].lock
  OBVIOUS

\* The typing of a step that leaves the words and expected alone.
LEMMA TypedMove ==
  ASSUME Inv, NEW t \in Thread, NEW l \in Location, Within(t, l),
         UNCHANGED <<cond, expected>>, state' \in [Mutex -> Word]
  PROVE  Typed'
  BY DEF Inv, Typed, Within

LEMMA FastLockKeeps ==
  ASSUME NEW t \in Thread, NEW m \in Mutex, Inv, FastLock(t, m),
         pc[t] \in {Idle, WParked}, UNCHANGED <<cond, val, expected, ret>>,
         mutex' = [mutex EXCEPT ![t] = m],
         pc[t] = WParked => mutex[t] = m
  PROVE  Kept(t)
<1>1. CASE state[m] = Free /\ state' = [state EXCEPT ![m] = Locked] /\ Goto(t, Crit)
  <2>1. /\ state' \in [Mutex -> Word]
        /\ ~state[m].lock /\ state'[m].lock
        /\ \A n \in Mutex \ {m} : state'[n].lock = state[n].lock
    BY <1>1, Rewritten DEF Free, Locked, Word, Inv, Typed
  <2>2. Typed'
    BY <1>1, <2>1 DEF Inv, Typed, Goto
  <2>3. mutex'[t] = m /\ \A u \in Thread \ {t} : mutex'[u] = mutex[u]
    BY DEF Inv, Typed
  <2> QED BY <1>1, <2>1, <2>2, <2>3, Acquires DEF Goto, Wanting
<1>2. CASE UNCHANGED state /\ Goto(t, LoadFull)
  <2>1. Typed'
    BY <1>2 DEF Inv, Typed, Goto
  <2>2. Placed(t)'
    BY <1>2 DEF Inv, Typed, Placed, Goto
  <2>3. Alone(t) /\ SameLocks
    BY <1>2 DEF Inv, Typed, Alone, SameLocks, Goto
  <2>4. ~Holding(t) /\ ~Holding(t)'
    BY <1>2 DEF Inv, Typed, Goto, Holding
  <2> QED BY <2>1, <2>2, <2>3, <2>4 DEF Kept, Stays
<1> QED BY <1>1, <1>2 DEF FastLock

LEMMA LockKeeps ==
  ASSUME NEW t \in Thread, NEW m \in Mutex, Inv, Lock(t, m)
  PROVE  Kept(t)
  BY FastLockKeeps DEF Lock

LEMMA WaitUnparkedKeeps ==
  ASSUME NEW t \in Thread, Inv, WaitUnparked(t)
  PROVE  Kept(t)
<1>1. mutex[t] \in Mutex /\ mutex' = [mutex EXCEPT ![t] = mutex[t]]
  BY DEF WaitUnparked, Inv, Typed, Placed, locals
<1> QED BY <1>1, FastLockKeeps DEF WaitUnparked, locals

LEMMA LockFullKeeps ==
  ASSUME NEW t \in Thread, Inv, LockFull(t)
  PROVE  Kept(t)
<1>1. Typed' /\ Within(t, Loop) /\ SameLocks
  BY DEF LockFull, Goto, words, Inv, Typed, Placed, Within, SameLocks
<1> QED BY <1>1, Moves DEF LockFull, Wanting

LEMMA SpinKeeps ==
  ASSUME NEW t \in Thread, Inv, Spin(t)
  PROVE  Kept(t)
<1>1. Typed' /\ Within(t, Loop) /\ SameLocks
  BY DEF Spin, words, Inv, Typed, Placed, Within, SameLocks
<1> QED BY <1>1, Moves DEF Spin

LEMMA TryAcquireKeeps ==
  ASSUME NEW t \in Thread, Inv, TryAcquire(t)
  PROVE  Kept(t)
<1> DEFINE m == mutex[t]
<1>1. m \in Mutex /\ expected[t] \in Word /\ state[m] \in Word
  BY DEF TryAcquire, Inv, Typed, Placed
<1>2. CASE CasSucceeds(t, [expected[t] EXCEPT !.lock = TRUE]) /\ Goto(t, Crit)
  <2>1. /\ state' \in [Mutex -> Word]
        /\ ~state[m].lock /\ state'[m].lock
        /\ \A n \in Mutex \ {m} : state'[n].lock = state[n].lock
    BY <1>1, <1>2 DEF CasSucceeds, TryAcquire, Inv, Typed, Word
  <2>2. Typed'
    BY <1>2, <2>1 DEF CasSucceeds, TryAcquire, Inv, Typed, Goto, Word, Free
  <2> QED BY <1>1, <1>2, <2>1, <2>2, Acquires DEF Goto, Wanting, TryAcquire
<1>3. CASE CasFails(t) /\ UNCHANGED pc
  <2>1. Typed' /\ Within(t, Loop) /\ SameLocks
    BY <1>1, <1>3 DEF TryAcquire, CasFails, Inv, Typed, Within, SameLocks
  <2> QED BY <2>1, Moves DEF TryAcquire
<1> QED BY <1>2, <1>3 DEF TryAcquire

LEMMA MarkParkedKeeps ==
  ASSUME NEW t \in Thread, Inv, MarkParked(t)
  PROVE  Kept(t)
<1> DEFINE m == mutex[t]
<1>1. m \in Mutex /\ expected[t] \in Word /\ state[m] \in Word
  BY DEF MarkParked, Inv, Typed, Placed
<1>2. CASE CasSucceeds(t, LockedParked) /\ Goto(t, Marked)
  <2>1. state[m].lock /\ LockedParked \in Word /\ LockedParked.lock
    BY <1>2 DEF CasSucceeds, MarkParked, Locked, LockedParked, Word
  <2>2. state' \in [Mutex -> Word] /\ SameLocks
    BY <1>1, <1>2, <2>1, Rewritten DEF CasSucceeds, Inv, Typed, SameLocks
  <2>3. Typed' /\ Within(t, Marked)
    BY <1>2, <2>2 DEF MarkParked, CasSucceeds, Inv, Typed, Goto, Word, Free, Within
  <2> QED BY <2>2, <2>3, Moves DEF MarkParked, Wanting
<1>3. CASE CasFails(t) /\ UNCHANGED pc
  <2>1. Typed' /\ Within(t, Loop) /\ SameLocks
    BY <1>1, <1>3 DEF MarkParked, CasFails, Inv, Typed, Within, SameLocks
  <2> QED BY <2>1, Moves DEF MarkParked
<1> QED BY <1>2, <1>3 DEF MarkParked

\* The steps that write neither a word nor a local of the argument.
LEMMA OnlyMoves ==
  ASSUME NEW t \in Thread, Inv, NEW l \in Location, Goto(t, l),
         UNCHANGED <<words, mutex, val, expected, ret>>
  PROVE  Within(t, l) /\ Typed' /\ SameLocks
  BY DEF Inv, Typed, Goto, Within, SameLocks, words

LEMMA ParkOnMutexKeeps ==
  ASSUME NEW t \in Thread, Inv, ParkOnMutex(t)
  PROVE  Kept(t)
<1>1. Within(t, LValid) /\ Typed' /\ SameLocks
  BY OnlyMoves DEF ParkOnMutex, locals
<1> QED BY <1>1, Moves DEF ParkOnMutex, Wanting

LEMMA MutexValidateKeeps ==
  ASSUME NEW t \in Thread, Inv, mutex_parking_control_validate(t)
  PROVE  Kept(t)
<1>1. PICK l \in {LParked, LoadFull} : Goto(t, l)
  BY DEF mutex_parking_control_validate
<1>2. Within(t, l) /\ Typed' /\ SameLocks
  BY <1>1, OnlyMoves DEF mutex_parking_control_validate, locals
<1> QED BY <1>2, Moves DEF mutex_parking_control_validate, Wanting

LEMMA LockUnparkedKeeps ==
  ASSUME NEW t \in Thread, Inv, LockUnparked(t)
  PROVE  Kept(t)
<1>1. Within(t, LoadFull) /\ Typed' /\ SameLocks
  BY OnlyMoves DEF LockUnparked, locals
<1> QED BY <1>1, Moves DEF LockUnparked, Wanting

\* A mutex is freed by a compare-and-swap.
LEMMA Freed ==
  ASSUME NEW t \in Thread, Inv, NEW l \in Location, Goto(t, l), mutex[t] \in Mutex,
         state' = [state EXCEPT ![mutex[t]] = Free],
         UNCHANGED <<cond, mutex, val, expected, ret>>
  PROVE  /\ Typed' /\ Within(t, l) /\ ~state'[mutex[t]].lock
         /\ \A n \in Mutex \ {mutex[t]} : state'[n].lock = state[n].lock
<1>1. Free \in Word /\ ~Free.lock
  BY DEF Free, Word
<1>2. /\ state' \in [Mutex -> Word] /\ ~state'[mutex[t]].lock
      /\ \A n \in Mutex \ {mutex[t]} : state'[n].lock = state[n].lock
  BY <1>1, Rewritten DEF Inv, Typed
<1>3. Within(t, l)
  BY DEF Within, Goto
<1> QED BY <1>2, <1>3, TypedMove

LEMMA UnlockKeeps ==
  ASSUME NEW t \in Thread, Inv, Unlock(t)
  PROVE  Kept(t)
<1> DEFINE then == IF pc[t] = Crit THEN Idle ELSE WParked
<1>1. mutex[t] \in Mutex /\ pc[t] \in {Crit, WUnlock}
  BY DEF Unlock, Inv, Placed
<1>2. CASE /\ state' = [state EXCEPT ![mutex[t]] = Free]
           /\ Goto(t, then) /\ UNCHANGED ret
  <2>1. /\ Typed' /\ Within(t, then) /\ ~state'[mutex[t]].lock
        /\ \A n \in Mutex \ {mutex[t]} : state'[n].lock = state[n].lock
    BY <1>1, <1>2, Freed DEF Unlock
  <2> QED BY <1>1, <2>1, Releases
<1>3. CASE UNCHANGED state /\ Goto(t, UFull) /\ ret' = [ret EXCEPT ![t] = then]
  <2>1. Typed'
    BY <1>3 DEF Unlock, Inv, Typed, Goto
  <2>2. Placed(t)'
    BY <1>1, <1>3 DEF Unlock, Inv, Typed, Placed, Goto
  <2>3. Alone(t) /\ SameLocks
    BY <1>3 DEF Unlock, Inv, Typed, Alone, SameLocks, Goto
  <2>4. Holding(t) /\ Holding(t)' /\ mutex'[t] = mutex[t]
    BY <1>1, <1>3 DEF Unlock, Inv, Typed, Goto, Holding
  <2> QED BY <2>1, <2>2, <2>3, <2>4 DEF Kept, Stays
<1> QED BY <1>2, <1>3 DEF Unlock

LEMMA UnlockFullKeeps ==
  ASSUME NEW t \in Thread, Inv, UnlockFull(t)
  PROVE  Kept(t)
<1>1. mutex[t] \in Mutex /\ pc[t] = UFull /\ ret[t] \in {Idle, WParked}
  BY DEF UnlockFull, Inv, Placed
<1>2. CASE state' = [state EXCEPT ![mutex[t]] = Free] /\ Goto(t, ret[t])
  <2>1. /\ Typed' /\ Within(t, ret[t]) /\ ~state'[mutex[t]].lock
        /\ \A n \in Mutex \ {mutex[t]} : state'[n].lock = state[n].lock
    BY <1>1, <1>2, Freed DEF UnlockFull, locals
  <2> QED BY <1>1, <2>1, Releases
<1>3. CASE UNCHANGED state /\ Goto(t, UCall)
  <2>1. Within(t, UCall) /\ Typed' /\ SameLocks
    BY <1>3, OnlyMoves DEF UnlockFull, words, locals
  <2> QED BY <1>1, <2>1, Moves
<1> QED BY <1>2, <1>3 DEF UnlockFull

LEMMA UnlockBucketLockKeeps ==
  ASSUME NEW t \in Thread, Inv, UnlockBucketLock(t)
  PROVE  Kept(t)
<1>1. Within(t, UTake) /\ Typed' /\ SameLocks
  BY OnlyMoves DEF UnlockBucketLock, locals
<1> QED BY <1>1, Moves DEF UnlockBucketLock

\* Whatever unpark_one finds, it goes on to wake a thread or returns.
LEMMA TakeOneGoes ==
  ASSUME NEW t \in Thread, NEW a, TakeOne(t, a)
  PROVE  Goto(t, ret[t]) \/ Goto(t, Wake)
  BY DEF TakeOne

LEMMA UnlockTakeKeeps ==
  ASSUME NEW t \in Thread, Inv, UnlockTake(t)
  PROVE  Kept(t)
<1>1. mutex[t] \in Mutex /\ pc[t] = UTake /\ ret[t] \in {Idle, WParked}
  BY DEF UnlockTake, Inv, Placed
<1>2. PICK l \in {ret[t], Wake} : Goto(t, l)
  BY TakeOneGoes DEF UnlockTake
<1> DEFINE w == [lock |-> FALSE, parked |-> MoreWaiters(mutex[t])]
<1>3. w \in Word /\ ~w.lock
  BY DEF MoreWaiters, Word
<1>4. state' = [state EXCEPT ![mutex[t]] = w]
  BY DEF UnlockTake
<1>5. /\ state' \in [Mutex -> Word] /\ ~state'[mutex[t]].lock
      /\ \A n \in Mutex \ {mutex[t]} : state'[n].lock = state[n].lock
  <2> HIDE DEF w
  <2> QED BY <1>1, <1>3, <1>4, Rewritten DEF Inv, Typed
<1>6. Within(t, l)
  BY <1>2 DEF Within, Goto, UnlockTake
<1>7. Typed'
  BY <1>1, <1>5, <1>6, TypedMove DEF UnlockTake
<1> QED BY <1>1, <1>5, <1>6, <1>7, Releases

LEMMA UnparkKeeps ==
  ASSUME NEW t \in Thread, Inv, Unpark(t)
  PROVE  Kept(t)
<1>1. ret[t] \in Location
  BY DEF Inv, Typed
<1>2. Within(t, ret[t]) /\ Typed' /\ SameLocks
  BY <1>1, OnlyMoves DEF Unpark
<1> QED BY <1>1, <1>2, Moves DEF Unpark

LEMMA WaitKeeps ==
  ASSUME NEW t \in Thread, NEW c \in Cond, Inv, Wait(t, c)
  PROVE  Kept(t)
<1>1. Within(t, WCall) /\ Typed' /\ SameLocks
  BY OnlyMoves DEF Wait
<1> QED BY <1>1, Moves DEF Wait

LEMMA WaitBucketLockKeeps ==
  ASSUME NEW t \in Thread, Inv, WaitBucketLock(t)
  PROVE  Kept(t)
<1>1. Within(t, WValid) /\ Typed' /\ SameLocks
  BY OnlyMoves DEF WaitBucketLock, locals
<1> QED BY <1>1, Moves DEF WaitBucketLock

LEMMA WaitValidateKeeps ==
  ASSUME NEW t \in Thread, Inv, wait_parking_control_validate(t)
  PROVE  Kept(t)
<1>1. PICK l \in {WUnlock, Crit} : Goto(t, l)
  BY DEF wait_parking_control_validate
<1>2. mutex[t] \in Mutex
  BY DEF wait_parking_control_validate, Inv, Placed
<1>3. cond' \in [Cond -> Mutex \union {NULL}]
  BY <1>2 DEF wait_parking_control_validate, Inv, Typed
<1>4. Within(t, l) /\ Typed' /\ SameLocks
  BY <1>1, <1>3 DEF wait_parking_control_validate, Inv, Typed, Goto, Within, SameLocks, locals
<1> QED BY <1>4, Moves DEF wait_parking_control_validate

LEMMA SignalKeeps ==
  ASSUME NEW t \in Thread, NEW c \in Cond, Inv, Signal(t, c)
  PROVE  Kept(t)
<1>1. Typed'
  BY DEF Signal, Inv, Typed, Goto, words
<1>2. Placed(t)'
  BY DEF Signal, Inv, Typed, Placed, Goto
<1>3. Alone(t) /\ SameLocks /\ mutex'[t] = mutex[t]
  BY DEF Signal, Inv, Typed, Alone, SameLocks, Goto, words
<1>4. Holding(t)' <=> Holding(t)
  BY DEF Signal, Inv, Typed, Goto, Holding
<1> QED BY <1>1, <1>2, <1>3, <1>4 DEF Kept, Stays

LEMMA SignalBucketLockKeeps ==
  ASSUME NEW t \in Thread, Inv, SignalBucketLock(t)
  PROVE  Kept(t)
<1>1. Within(t, STake) /\ Typed' /\ SameLocks
  BY OnlyMoves DEF SignalBucketLock, locals
<1> QED BY <1>1, Moves DEF SignalBucketLock

LEMMA SignalTakeKeeps ==
  ASSUME NEW t \in Thread, Inv, SignalTake(t)
  PROVE  Kept(t)
<1>1. PICK l \in {ret[t], Wake} : Goto(t, l)
  BY TakeOneGoes DEF SignalTake
<1>2. l \in Location
  BY DEF Inv, Typed
<1>3. cond' \in [Cond -> Mutex \union {NULL}]
  BY DEF SignalTake, Inv, Typed
<1>4. Within(t, l) /\ Typed' /\ SameLocks
  BY <1>1, <1>2, <1>3 DEF SignalTake, Inv, Typed, Goto, Within, SameLocks
<1> QED BY <1>2, <1>4, Moves DEF SignalTake

LEMMA BroadcastKeeps ==
  ASSUME NEW t \in Thread, NEW c \in Cond, Inv, Broadcast(t, c)
  PROVE  Kept(t)
<1>1. Typed'
  BY DEF Broadcast, Inv, Typed, Goto, words
<1>2. Placed(t)'
  BY DEF Broadcast, Inv, Typed, Placed, Goto
<1>3. Alone(t) /\ SameLocks /\ mutex'[t] = mutex[t]
  BY DEF Broadcast, Inv, Typed, Alone, SameLocks, Goto, words
<1>4. Holding(t)' <=> Holding(t)
  BY DEF Broadcast, Inv, Typed, Goto, Holding
<1> QED BY <1>1, <1>2, <1>3, <1>4 DEF Kept, Stays

LEMMA LockPairKeeps ==
  ASSUME NEW t \in Thread, Inv, LockPairFirst(t) \/ LockPairSecond(t)
  PROVE  Kept(t)
<1>1. PICK l \in {BValid, BSecond} : Goto(t, l)
  BY DEF LockPairFirst, LockPairSecond
<1>2. Within(t, l) /\ Typed' /\ SameLocks
  BY <1>1, OnlyMoves DEF LockPairFirst, LockPairSecond, locals
<1> QED BY <1>2, Moves DEF LockPairFirst, LockPairSecond

LEMMA BroadcastValidateKeeps ==
  ASSUME NEW t \in Thread, Inv, broadcast_parking_control_validate(t)
  PROVE  Kept(t)
<1>1. PICK l \in {BMark, ret[t]} : Goto(t, l)
  BY DEF broadcast_parking_control_validate
<1>2. l \in Location
  BY DEF Inv, Typed
<1>3. cond' \in [Cond -> Mutex \union {NULL}]
  BY DEF broadcast_parking_control_validate, Inv, Typed
<1>4. Within(t, l) /\ Typed' /\ SameLocks
  BY <1>1, <1>2, <1>3
  DEF broadcast_parking_control_validate, Inv, Typed, Goto, Within, SameLocks, locals
<1> QED BY <1>2, <1>4, Moves DEF broadcast_parking_control_validate

\* A broadcast may set the parked bit of a mutex that others hold, no more.
LEMMA MarkedOnly ==
  ASSUME Inv, NEW m \in Mutex, NEW p \in BOOLEAN,
         state' = [state EXCEPT ![m].parked = p]
  PROVE  state' \in [Mutex -> Word] /\ SameLocks
  BY DEF Inv, Typed, Word, SameLocks

LEMMA MakeParkedKeeps ==
  ASSUME NEW t \in Thread, Inv, make_parked_if_locked(t)
  PROVE  Kept(t)
<1>1. val[t] \in Mutex
  BY DEF make_parked_if_locked, Inv, Placed
<1>2. (state[val[t]].parked \/ state[val[t]].lock) \in BOOLEAN
  OBVIOUS
<1>3. state' \in [Mutex -> Word] /\ SameLocks
  BY <1>1, <1>2, MarkedOnly DEF make_parked_if_locked
<1>4. Within(t, BRequeue)
  BY DEF make_parked_if_locked, Within, Goto
<1>5. Typed'
  BY <1>3, <1>4, TypedMove DEF make_parked_if_locked
<1> QED BY <1>3, <1>4, <1>5, Moves DEF make_parked_if_locked

LEMMA RequeueGoes ==
  ASSUME NEW t \in Thread, Requeue(t)
  PROVE  /\ Goto(t, ret[t]) \/ Goto(t, Wake)
         /\ \E p \in BOOLEAN : state' = [state EXCEPT ![val[t]].parked = p]
         /\ pc[t] = BRequeue /\ UNCHANGED <<cond, mutex, val, expected, ret>>
  BY DEF Requeue

LEMMA RequeueKeeps ==
  ASSUME NEW t \in Thread, Inv, Requeue(t)
  PROVE  Kept(t)
<1>1. val[t] \in Mutex /\ pc[t] = BRequeue
  BY RequeueGoes DEF Inv, Placed
<1>2. state' \in [Mutex -> Word] /\ SameLocks
  BY <1>1, RequeueGoes, MarkedOnly
<1>3. PICK l \in {ret[t], Wake} : Goto(t, l)
  BY RequeueGoes
<1>4. l \in Location /\ Within(t, l)
  BY <1>3, RequeueGoes DEF Inv, Typed, Within, Goto
<1>5. Typed'
  BY <1>2, <1>4, RequeueGoes, TypedMove
<1> QED BY <1>1, <1>2, <1>4, <1>5, Moves

LEMMA StepKeeps ==
  ASSUME NEW t \in Thread, Inv, Step(t)
  PROVE  Kept(t)
<1>1. CASE MutexStep(t)
  BY <1>1, LockKeeps, LockFullKeeps, TryAcquireKeeps, SpinKeeps, MarkParkedKeeps,
     ParkOnMutexKeeps, MutexValidateKeeps, LockUnparkedKeeps, UnlockKeeps,
     UnlockFullKeeps, UnlockBucketLockKeeps, UnlockTakeKeeps, UnparkKeeps
  DEF MutexStep
<1>2. CASE CondStep(t)
  BY <1>2, WaitKeeps, SignalKeeps, BroadcastKeeps, WaitBucketLockKeeps, WaitValidateKeeps,
     WaitUnparkedKeeps, SignalBucketLockKeeps, SignalTakeKeeps, LockPairKeeps,
     BroadcastValidateKeeps, MakeParkedKeeps, RequeueKeeps
  DEF CondStep
<1> QED BY <1>1, <1>2 DEF Step

LEMMA NextInv ==
  ASSUME Inv, [Next]_vars
  PROVE  Inv'
<1>1. CASE \E t \in Thread : Step(t)
  BY <1>1, StepKeeps, KeptInv
<1>2. CASE UNCHANGED vars
  <2>1. Typed'
    BY <1>2 DEF Inv, Typed, vars, words, locals
  <2>2. \A t \in Thread : Placed(t)'
    BY <1>2 DEF Inv, Placed, vars, words, locals
  <2>3. Exclusion'
    BY <1>2 DEF Inv, Exclusion, MutualExclusion, LockBit, Holding, vars, words, locals
  <2> QED BY <2>1, <2>2, <2>3 DEF Inv
<1> QED BY <1>1, <1>2 DEF Next, Done

LEMMA Invariance == Spec => []Inv
<1>1. Init => Inv
  BY InitInv
<1>2. Inv /\ [Next]_vars => Inv'
  BY NextInv
<1> QED BY <1>1, <1>2, PTL DEF Spec

(***************************************************************************)
(* halide_mutex_lock excludes: of two threads between a lock() or the end  *)
(* of a wait() and the write that frees the mutex, only one can be inside. *)
(***************************************************************************)
THEOREM Excludes == Spec => []MutualExclusion
<1>1. Inv => MutualExclusion
  BY DEF Inv, Exclusion
<1> QED BY <1>1, Invariance, PTL

(***************************************************************************)
(* The lock bit of fast_mutex::state is set exactly while a thread holds   *)
(* the mutex: no unlock, callback or broadcast leaves it set behind or     *)
(* clears it under the holder.                                             *)
(***************************************************************************)
THEOREM BitIsHolder == Spec => []LockBit
<1>1. Inv => LockBit
  BY DEF Inv, Exclusion
<1> QED BY <1>1, Invariance, PTL

(***************************************************************************)
(* What unpark_one takes, and what it says of the others.                  *)
(***************************************************************************)
Picked(t, a, w) ==
  /\ w = NULL => /\ \A u \in Thread : sleep_address[u] # a
                 /\ UNCHANGED <<chains, wakeup>> /\ Goto(t, ret[t])
  /\ w # NULL => /\ w \in Thread /\ sleep_address[w] = a
                 /\ sleep_address' = [sleep_address EXCEPT ![w] = NULL]
                 /\ wakeup' = [wakeup EXCEPT ![t] = w]
                 /\ Goto(t, Wake)
                 /\ \A u \in Thread \ {w} : sleep_address[u] = a => Ahead(w, u)
  /\ MoreWaiters(a) <=> \E u \in Thread \ {w} : sleep_address[u] = a

LEMMA Several ==
  ASSUME NEW n \in Nat, NEW F \in SUBSET (1 .. n), NEW i \in F
  PROVE  Cardinality(F) > 1 <=> \E j \in F : j # i
<1>1. IsFiniteSet(F) /\ Cardinality(F) \in Nat
  <2>1. IsFiniteSet(1 .. n)
    BY FS_Interval
  <2>2. IsFiniteSet(F)
    BY <2>1, FS_Subset
  <2> QED BY <2>2, FS_CardinalityType
<1>2. ASSUME NEW j \in F, j # i PROVE Cardinality(F) > 1
  <2>1. IsFiniteSet({i}) /\ Cardinality({i}) = 1
    BY FS_Singleton
  <2>2. Cardinality({i} \union {j}) = 2 /\ IsFiniteSet({i} \union {j})
    BY <1>2, <2>1, FS_AddElement
  <2>3. {i} \union {j} \in SUBSET F
    BY <1>2
  <2> QED BY <1>1, <2>2, <2>3, FS_Subset
<1>3. ASSUME ~ \E j \in F : j # i PROVE Cardinality(F) = 1
  <2>1. F = {i}
    BY <1>3
  <2> QED BY <2>1, FS_Singleton
<1> QED BY <1>1, <1>2, <1>3

LEMMA TakeOnePicks ==
  ASSUME LotTyped, AllLinked, NEW t \in Thread, NEW a \in Address, TakeOne(t, a)
  PROVE  AllLinked' /\ LotTyped' /\ Orderly /\ \E w : Picked(t, a, w)
<1> DEFINE b == Hash[a]
<1>1. b \in Bucket /\ a # NULL
  BY AddressFacts
<1>2. PICK n, q : Linked(b, n, q)
  BY <1>1 DEF AllLinked
<1>3. Chain(b) = q
  BY <1>2, ChainOfLinked
<1>4. n \in Nat /\ q \in [1 .. n -> Thread] /\ \A i, j \in 1 .. n : q[i] = q[j] => i = j
  BY <1>2 DEF Linked, List, Seg
<1> DEFINE F == Found(q, a)
<1>5. F = {i \in 1 .. n : sleep_address[q[i]] = a}
  BY <1>4 DEF Found
<1>6. \A u \in Thread : sleep_address[u] = a => \E i \in F : q[i] = u
  BY <1>1, <1>2, <1>5 DEF Linked, Has
<1>7. MoreWaiters(a) <=> Cardinality(F) > 1
  BY <1>3 DEF MoreWaiters
<1> HIDE DEF F
<1>8. CASE F = {}
  <2>1. \A u \in Thread : sleep_address[u] # a
    BY <1>6, <1>8
  <2>2. UNCHANGED <<chains, wakeup>> /\ Goto(t, ret[t])
    BY <1>3, <1>8 DEF TakeOne, F
  <2>3. ~MoreWaiters(a)
    BY <1>7, <1>8, FS_EmptySet
  <2>4. Picked(t, a, NULL)
    BY <2>1, <2>2, <2>3 DEF Picked
  <2>5. LotTyped'
    BY <2>2 DEF LotTyped, chains
  <2>6. AllLinked'
    <3> SUFFICES ASSUME NEW c \in Bucket PROVE \E m, r : Linked(c, m, r)'
      BY DEF AllLinked, Bucket
    <3>1. PICK m, r : Linked(c, m, r)
      BY DEF AllLinked
    <3>2. Linked(c, m, r)'
      BY <2>2, <3>1, LinkedFrame DEF chains
    <3> QED BY <3>2
  <2>7. Orderly
    <3> SUFFICES ASSUME NEW u, NEW v, Ahead(u, v) PROVE Ahead(u, v)'
      BY DEF Orderly
    <3>1. PICK c, m, r : c \in Bucket /\ Linked(c, m, r) /\ \E i, j \in 1 .. m : i < j /\ r[i] = u /\ r[j] = v
      BY DEF Ahead
    <3>2. Linked(c, m, r)'
      BY <2>2, <3>1, LinkedFrame DEF chains
    <3> QED BY <3>1, <3>2 DEF Ahead, Bucket
  <2> QED BY <2>4, <2>5, <2>6, <2>7
<1>9. CASE F # {}
  <2>1. PICK k : k = Min(F)
    OBVIOUS
  <2>2. k \in F /\ \A y \in F : k <= y
    <3>1. F \in SUBSET Nat
      BY <1>4, <1>5
    <3>2. \E x \in F : \A y \in F : x <= y
      BY <1>9, <3>1, Smallest
    <3> QED BY <2>1, <3>2 DEF Min
  <2>3. k \in 1 .. n /\ sleep_address[q[k]] = a /\ q[k] \in Thread
    BY <1>4, <1>5, <2>2
  <2>4. /\ wakeup' = [wakeup EXCEPT ![t] = q[k]]
        /\ Unlink(b, q[k], IF k = 1 THEN NULL ELSE q[k - 1])
        /\ Goto(t, Wake)
    BY <1>3, <1>9, <2>1 DEF TakeOne, Oldest, F
  <2>5. AllLinked' /\ LotTyped' /\ Orderly
    BY <1>1, <1>2, <2>3, <2>4, UnlinkLinks
  <2>6. MoreWaiters(a) <=> \E u \in Thread \ {q[k]} : sleep_address[u] = a
    <3>1. MoreWaiters(a) <=> \E j \in F : j # k
      <4>1. F \in SUBSET (1 .. n)
        BY <1>5
      <4> QED BY <1>4, <1>7, <2>2, <4>1, Several
    <3>2. ASSUME NEW j \in F, j # k PROVE \E u \in Thread \ {q[k]} : sleep_address[u] = a
      BY <1>4, <1>5, <2>3, <3>2
    <3>3. ASSUME NEW u \in Thread \ {q[k]}, sleep_address[u] = a PROVE \E j \in F : j # k
      BY <1>6, <3>3
    <3> QED BY <3>1, <3>2, <3>3
  <2>7. q[k] # NULL /\ sleep_address' = [sleep_address EXCEPT ![q[k]] = NULL]
    BY <2>3, <2>4, NullAssumption DEF Unlink
  <2>8. ASSUME NEW u \in Thread \ {q[k]}, sleep_address[u] = a PROVE Ahead(q[k], u)
    <3>1. PICK i \in F : q[i] = u
      BY <1>6, <2>8
    <3>2. i \in 1 .. n /\ k < i
      BY <1>4, <1>5, <2>2, <2>3, <2>8, <3>1
    <3> QED BY <1>1, <1>2, <2>3, <3>1, <3>2 DEF Ahead
  <2>9. Picked(t, a, q[k])
    BY <2>3, <2>4, <2>6, <2>7, <2>8 DEF Picked
  <2> QED BY <2>5, <2>9
<1> QED BY <1>8, <1>9

(***************************************************************************)
(* The invariant: who has which bucket, who sleeps and who wakes whom.     *)
(***************************************************************************)
Owns(t, a) == owner[Hash[a]] = t

\* Where a thread is tells which condition it calls and which buckets it has.
Seated(t) ==
  /\ pc[t] \in {WCall, WValid, SCall, STake} \union Broadcasting => arg[t] \in Cond
  /\ pc[t] \in {LValid, UTake} => Owns(t, mutex[t])
  /\ pc[t] \in {WValid, STake} => Owns(t, arg[t])
  /\ pc[t] = BSecond => Owns(t, FirstBucket(arg[t], val[t]))
  /\ pc[t] \in {BValid, BMark, BRequeue} => Owns(t, arg[t]) /\ Owns(t, val[t])

\* t has queued its node and has not returned from park() yet.
InPark(t) == \/ pc[t] \in {LParked, WParked, WUnlock}
             \/ pc[t] \in {UFull, UCall, UTake, Wake} /\ ret[t] = WParked

\* A node is queued or taken out by one thread, which will unpark its owner,
\* until the owner may wake up.
Sleepers ==
  /\ \A t \in Thread : sleep_address[t] # NULL => asleep[t]
  /\ \A t \in Thread : asleep[t] => InPark(t)
  /\ \A u \in Thread : pc[u] = Wake => /\ wakeup[u] \in Thread
                                       /\ asleep[wakeup[u]] /\ sleep_address[wakeup[u]] = NULL
  /\ \A u, v \in Thread : pc[u] = Wake /\ pc[v] = Wake /\ wakeup[u] = wakeup[v] => u = v
  /\ \A t \in Thread : asleep[t] /\ sleep_address[t] = NULL
                         => \E u \in Thread : pc[u] = Wake /\ wakeup[u] = t

RestTypes ==
  /\ owner \in [Bucket -> Thread \union {NULL}]
  /\ asleep \in [Thread -> BOOLEAN]
  /\ arg \in [Thread -> Cond \union {NULL}]
  /\ spin \in [Thread -> Nat]
  /\ wakeup \in [Thread -> Thread \union {NULL}]
  /\ unpark_one \in [Thread -> BOOLEAN]
  /\ ops \in [Thread -> Nat]

LotInv == LotTyped /\ RestTypes /\ AllLinked /\ Sleepers /\ \A t \in Thread : Seated(t)

\* A step of t leaves the locals of the others and the buckets they have alone.
Others(t) ==
  /\ \A u \in Thread \ {t} :
       /\ pc'[u] = pc[u] /\ mutex'[u] = mutex[u] /\ arg'[u] = arg[u] /\ val'[u] = val[u]
       /\ ret'[u] = ret[u] /\ unpark_one'[u] = unpark_one[u] /\ wakeup'[u] = wakeup[u]
  /\ \A u \in Thread \ {t}, b \in Bucket : owner[b] = u => owner'[b] = u

Local(t) == RestTypes' /\ Seated(t)' /\ Others(t)

LEMMA OwnedAddress ==
  ASSUME LotInv, Inv, NEW t \in Thread
  PROVE  /\ mutex[t] \in Mutex => mutex[t] \in Address /\ Hash[mutex[t]] \in Bucket
         /\ arg[t] \in Cond => arg[t] \in Address /\ Hash[arg[t]] \in Bucket
         /\ val[t] \in Mutex => val[t] \in Address /\ Hash[val[t]] \in Bucket
  BY AddressFacts DEF Address

LEMMA BucketLocked ==
  ASSUME RestTypes, NEW t \in Thread, NEW a \in Address, LockBucket(t, a)
  PROVE  /\ owner' \in [Bucket -> Thread \union {NULL}] /\ Owns(t, a)'
         /\ \A u \in Thread, b \in Bucket : owner[b] = u => owner'[b] = u
  BY AddressFacts, NullAssumption DEF RestTypes, LockBucket, Owns

LEMMA BucketsUnlocked ==
  ASSUME RestTypes, NEW t \in Thread, UnlockBuckets(t)
  PROVE  /\ owner' \in [Bucket -> Thread \union {NULL}]
         /\ \A u \in Thread \ {t}, b \in Bucket : owner[b] = u => owner'[b] = u
  BY DEF RestTypes, UnlockBuckets

\* A step that moves t and leaves its locals and the buckets alone.
LEMMA LocalMove ==
  ASSUME LotInv, Inv, NEW t \in Thread, NEW l \in Location, pc' = [pc EXCEPT ![t] = l],
         UNCHANGED <<owner, asleep, arg, val, wakeup, unpark_one>>,
         l = pc[t] \/ l \notin {WCall, WValid, SCall, STake, LValid, UTake} \union Broadcasting,
         spin' \in [Thread -> Nat], ops' \in [Thread -> Nat],
         \A u \in Thread \ {t} : mutex'[u] = mutex[u] /\ ret'[u] = ret[u],
         mutex'[t] = mutex[t] \/ l # pc[t]
  PROVE  Local(t)
<1>1. RestTypes'
  BY DEF LotInv, RestTypes
<1>2. Seated(t)'
  BY DEF LotInv, Seated, Inv, Typed, Owns, FirstBucket
<1>3. Others(t)
  BY DEF Others, Inv, Typed
<1> QED BY <1>1, <1>2, <1>3 DEF Local

LEMMA MovesLocal ==
  ASSUME LotInv, Inv, NEW t \in Thread,
         \/ \E m \in Mutex : Lock(t, m)
         \/ LockFull(t) \/ TryAcquire(t) \/ Spin(t) \/ MarkParked(t) \/ LockUnparked(t)
         \/ Unlock(t) \/ UnlockFull(t) \/ WaitUnparked(t)
  PROVE  Local(t)
<1>0. /\ spin \in [Thread -> Nat] /\ ops \in [Thread -> Nat] /\ SPIN_COUNT \in Nat
      /\ pc \in [Thread -> Location] /\ pc = [pc EXCEPT ![t] = pc[t]]
  BY SpinAssumption DEF LotInv, RestTypes, Inv, Typed
<1>1. ASSUME NEW m \in Mutex, Lock(t, m) PROVE Local(t)
  <2>1. ops' \in [Thread -> Nat]
    BY <1>0, <1>1 DEF Lock, Call
  <2>2. PICK l \in {Crit, LoadFull} : pc' = [pc EXCEPT ![t] = l]
    BY <1>1 DEF Lock, FastLock, Goto
  <2>3. \A u \in Thread \ {t} : mutex'[u] = mutex[u] /\ ret'[u] = ret[u]
    BY <1>1 DEF Lock, Inv, Typed
  <2>4. /\ UNCHANGED <<owner, asleep, arg, val, wakeup, unpark_one>> /\ l # pc[t]
        /\ spin' \in [Thread -> Nat]
    BY <1>0, <1>1, <2>2 DEF Lock, lot
  <2> QED BY <2>1, <2>2, <2>3, <2>4, LocalMove
<1>2. CASE LockFull(t) \/ Spin(t) \/ MarkParked(t)
  <2>1. PICK l \in {Loop, Marked} : pc' = [pc EXCEPT ![t] = l]
    BY <1>0, <1>2 DEF LockFull, Spin, MarkParked, Goto
  <2>2. spin' \in [Thread -> Nat]
    <3>1. \A k \in Nat : Spent(k) \in Nat
      BY DEF Spent
    <3> QED BY <1>0, <1>2, <3>1 DEF LockFull, Spin, MarkParked
  <2>3. UNCHANGED <<owner, asleep, mutex, arg, val, wakeup, unpark_one, ret, ops>>
    BY <1>2 DEF LockFull, Spin, MarkParked, lot
  <2> QED BY <1>0, <2>1, <2>2, <2>3, LocalMove
<1>3. CASE TryAcquire(t) \/ LockUnparked(t) \/ UnlockFull(t) \/ WaitUnparked(t)
  <2>1. PICK l \in {Crit, Loop, LoadFull, Idle, WParked, UCall} : pc' = [pc EXCEPT ![t] = l]
    <3>1. UnlockFull(t) => ret[t] \in {Idle, WParked}
      BY DEF UnlockFull, Inv, Placed
    <3> QED BY <1>0, <1>3, <3>1 DEF TryAcquire, LockUnparked, UnlockFull, WaitUnparked, FastLock, Goto
  <2>2. UNCHANGED <<owner, asleep, mutex, arg, val, wakeup, unpark_one, ret, ops, spin>>
    BY <1>3 DEF TryAcquire, LockUnparked, UnlockFull, WaitUnparked, lot, locals
  <2> QED BY <1>0, <2>1, <2>2, LocalMove
<1>4. CASE Unlock(t)
  <2>1. PICK l \in {Idle, WParked, UFull} : pc' = [pc EXCEPT ![t] = l]
    BY <1>4 DEF Unlock, Goto
  <2>2. /\ UNCHANGED <<owner, asleep, mutex, arg, val, wakeup, unpark_one, ops, spin>>
        /\ \A u \in Thread \ {t} : ret'[u] = ret[u]
    BY <1>4 DEF Unlock, lot, Inv, Typed
  <2> QED BY <1>0, <2>1, <2>2, LocalMove
<1> QED BY <1>1, <1>2, <1>3, <1>4

LEMMA LocksLocal ==
  ASSUME LotInv, Inv, NEW t \in Thread,
         \/ ParkOnMutex(t) \/ UnlockBucketLock(t) \/ WaitBucketLock(t) \/ SignalBucketLock(t)
         \/ LockPairFirst(t) \/ LockPairSecond(t)
  PROVE  Local(t)
<1>1. UNCHANGED <<asleep, mutex, arg, val, wakeup, unpark_one, ret, ops, spin>>
  BY DEF ParkOnMutex, UnlockBucketLock, WaitBucketLock, SignalBucketLock, LockPairFirst,
     LockPairSecond, locals
<1>2. /\ pc[t] \in Wanting \union Unlocking => mutex[t] \in Mutex
      /\ pc[t] \in {WCall, SCall} \union Broadcasting => arg[t] \in Cond
      /\ pc[t] \in Broadcasting => val[t] \in Mutex
  BY DEF LotInv, Seated, Inv, Placed, Wanting
<1>3. ASSUME NEW a \in Address, LockBucket(t, a), NEW l \in Location, Goto(t, l),
             \/ a = mutex[t] /\ l \in {LValid, UTake}
             \/ a = arg[t] /\ a \in Cond /\ l \in {WValid, STake}
             \/ /\ a = FirstBucket(arg[t], val[t]) /\ l = BSecond /\ arg[t] \in Cond
             \/ /\ a = FirstBucket(arg[t], val[t]) /\ l = BValid /\ arg[t] \in Cond
                /\ Hash[arg[t]] = Hash[val[t]]
             \/ /\ a = SecondBucket(arg[t], val[t]) /\ l = BValid /\ arg[t] \in Cond
                /\ Owns(t, FirstBucket(arg[t], val[t])) /\ val[t] \in Mutex
      PROVE  Local(t)
  <2>1. /\ owner' \in [Bucket -> Thread \union {NULL}] /\ owner'[Hash[a]] = t
        /\ \A u \in Thread, b \in Bucket : owner[b] = u => owner'[b] = u
    <3>1. RestTypes
      BY DEF LotInv
    <3> QED BY <1>3, <3>1, BucketLocked DEF Owns
  <2>2. RestTypes'
    BY <1>1, <2>1 DEF LotInv, RestTypes
  <2>3. Others(t)
    BY <1>1, <1>3, <2>1 DEF Others, Inv, Typed, Goto
  <2>4. pc'[t] = l
    BY <1>3 DEF Goto, Inv, Typed
  <2>5. CASE a = mutex[t] /\ l \in {LValid, UTake}
    BY <1>1, <2>1, <2>2, <2>3, <2>4, <2>5 DEF Local, Seated, Owns
  <2>6. CASE a = arg[t] /\ a \in Cond /\ l \in {WValid, STake}
    BY <1>1, <2>1, <2>2, <2>3, <2>4, <2>6 DEF Local, Seated, Owns
  <2>7. CASE a = FirstBucket(arg[t], val[t]) /\ l = BSecond /\ arg[t] \in Cond
    BY <1>1, <2>1, <2>2, <2>3, <2>4, <2>7 DEF Local, Seated, Owns, FirstBucket
  <2>8. CASE /\ a = FirstBucket(arg[t], val[t]) /\ l = BValid /\ arg[t] \in Cond
             /\ Hash[arg[t]] = Hash[val[t]]
    BY <1>1, <2>1, <2>2, <2>3, <2>4, <2>8 DEF Local, Seated, Owns, FirstBucket
  <2>9. CASE /\ a = SecondBucket(arg[t], val[t]) /\ l = BValid /\ arg[t] \in Cond
             /\ Owns(t, FirstBucket(arg[t], val[t])) /\ val[t] \in Mutex
    <3>1. arg[t] \in Address /\ val[t] \in Address
      BY <2>9 DEF Address
    <3>2. Hash[arg[t]] \in Bucket /\ Hash[val[t]] \in Bucket
      BY <3>1, AddressFacts
    <3>3. Owns(t, arg[t])' /\ Owns(t, val[t])'
      BY <1>1, <2>1, <2>9, <3>2 DEF Owns, FirstBucket, SecondBucket
    <3> QED BY <1>1, <2>2, <2>3, <2>4, <2>9, <3>3 DEF Local, Seated
  <2> QED BY <1>3, <2>5, <2>6, <2>7, <2>8, <2>9
<1>4. CASE ParkOnMutex(t) \/ UnlockBucketLock(t)
  <2>1. mutex[t] \in Address
    BY <1>2, <1>4 DEF ParkOnMutex, UnlockBucketLock, Wanting, Address
  <2> QED BY <1>3, <1>4, <2>1 DEF ParkOnMutex, UnlockBucketLock
<1>5. CASE WaitBucketLock(t) \/ SignalBucketLock(t)
  <2>1. arg[t] \in Address /\ arg[t] \in Cond
    BY <1>2, <1>5 DEF WaitBucketLock, SignalBucketLock, Address
  <2> QED BY <1>3, <1>5, <2>1 DEF WaitBucketLock, SignalBucketLock
<1>6. CASE LockPairFirst(t)
  <2>1. arg[t] \in Cond /\ FirstBucket(arg[t], val[t]) \in Address
    BY <1>2, <1>6 DEF LockPairFirst, FirstBucket, Address
  <2> QED BY <1>3, <1>6, <2>1 DEF LockPairFirst
<1>7. CASE LockPairSecond(t)
  <2>1. /\ arg[t] \in Cond /\ val[t] \in Mutex /\ SecondBucket(arg[t], val[t]) \in Address
        /\ Owns(t, FirstBucket(arg[t], val[t]))
    BY <1>2, <1>7 DEF LockPairSecond, SecondBucket, Address, LotInv, Seated
  <2> QED BY <1>3, <1>7, <2>1 DEF LockPairSecond
<1> QED BY <1>4, <1>5, <1>6, <1>7

LEMMA LocalRelease ==
  ASSUME LotInv, Inv, NEW t \in Thread, NEW l \in Location, Goto(t, l), UnlockBuckets(t),
         l \notin {WCall, WValid, SCall, STake, LValid, UTake} \union Broadcasting,
         UNCHANGED <<mutex, arg, val, ret, unpark_one, spin, ops>>,
         asleep' \in [Thread -> BOOLEAN], wakeup' \in [Thread -> Thread \union {NULL}],
         \A u \in Thread \ {t} : wakeup'[u] = wakeup[u]
  PROVE  Local(t)
<1>1. RestTypes
  BY DEF LotInv
<1>2. /\ owner' \in [Bucket -> Thread \union {NULL}]
      /\ \A u \in Thread \ {t}, b \in Bucket : owner[b] = u => owner'[b] = u
  BY <1>1, BucketsUnlocked
<1>3. RestTypes'
  BY <1>1, <1>2 DEF RestTypes
<1>4. Seated(t)'
  BY DEF Seated, Inv, Typed, Goto
<1>5. Others(t)
  BY <1>2 DEF Others, Inv, Typed, Goto
<1> QED BY <1>3, <1>4, <1>5 DEF Local

LEMMA ValidatesLocal ==
  ASSUME LotInv, Inv, NEW t \in Thread,
         mutex_parking_control_validate(t) \/ wait_parking_control_validate(t)
  PROVE  Local(t)
<1>1. PICK l \in {LParked, LoadFull, WUnlock, Crit} : Goto(t, l)
  BY DEF mutex_parking_control_validate, wait_parking_control_validate
<1>2. /\ UnlockBuckets(t)
      /\ UNCHANGED <<mutex, arg, val, ret, unpark_one, wakeup, spin, ops>>
  BY DEF mutex_parking_control_validate, wait_parking_control_validate, locals
<1>3. asleep' \in [Thread -> BOOLEAN]
  <2>1. asleep \in [Thread -> BOOLEAN]
    BY DEF LotInv, RestTypes
  <2>2. asleep' = asleep \/ asleep' = [asleep EXCEPT ![t] = TRUE]
    BY DEF mutex_parking_control_validate, wait_parking_control_validate, Park
  <2> QED BY <2>1, <2>2
<1>4. wakeup' \in [Thread -> Thread \union {NULL}]
  BY <1>2 DEF LotInv, RestTypes
<1> QED BY <1>1, <1>2, <1>3, <1>4, LocalRelease

LEMMA TakeLocal ==
  ASSUME LotInv, Inv, NEW t \in Thread, NEW a \in Address, TakeOne(t, a),
         UNCHANGED <<asleep, mutex, arg, val, ret, unpark_one, spin, ops>>
  PROVE  Local(t)
<1>1. PICK w : Picked(t, a, w)
  BY TakeOnePicks DEF LotInv
<1>2. /\ wakeup' \in [Thread -> Thread \union {NULL}]
      /\ \A u \in Thread \ {t} : wakeup'[u] = wakeup[u]
  BY <1>1 DEF Picked, LotInv, RestTypes
<1>3. PICK l \in {Idle, Crit, WParked, Wake} : Goto(t, l)
  BY <1>1 DEF Picked, Inv, Typed
<1>4. UnlockBuckets(t) /\ asleep' \in [Thread -> BOOLEAN]
  BY DEF TakeOne, LotInv, RestTypes
<1> QED BY <1>2, <1>3, <1>4, LocalRelease

LEMMA TakesLocal ==
  ASSUME LotInv, Inv, NEW t \in Thread, UnlockTake(t) \/ SignalTake(t)
  PROVE  Local(t)
<1>1. CASE UnlockTake(t)
  <2>1. mutex[t] \in Address
    BY <1>1 DEF UnlockTake, Inv, Placed, Address
  <2>2. TakeOne(t, mutex[t]) /\ UNCHANGED <<asleep, mutex, arg, val, ret, unpark_one, spin, ops>>
    BY <1>1 DEF UnlockTake
  <2> QED BY <2>1, <2>2, TakeLocal
<1>2. CASE SignalTake(t)
  <2>1. arg[t] \in Address
    BY <1>2 DEF SignalTake, LotInv, Seated, Address
  <2>2. TakeOne(t, arg[t]) /\ UNCHANGED <<asleep, mutex, arg, val, ret, unpark_one, spin, ops>>
    BY <1>2 DEF SignalTake
  <2> QED BY <2>1, <2>2, TakeLocal
<1> QED BY <1>1, <1>2

LEMMA RequeueMoves ==
  ASSUME LotInv, Inv, NEW t \in Thread, Requeue(t)
  PROVE  AllLinked' /\ LotTyped' /\ Orderly /\ \E w : Moved(t, w)
<1>1. arg[t] \in Cond /\ val[t] \in Mutex
  BY RequeueGoes DEF LotInv, Seated, Inv, Placed
<1> QED BY <1>1, RequeueLinks DEF LotInv

LEMMA RequeueLocal ==
  ASSUME LotInv, Inv, NEW t \in Thread, Requeue(t)
  PROVE  Local(t)
<1>1. PICK w : Moved(t, w)
  BY RequeueMoves
<1>2. w \in Thread \union {NULL} /\ wakeup' = [wakeup EXCEPT ![t] = w]
  BY <1>1 DEF Moved
<1>3. /\ wakeup' \in [Thread -> Thread \union {NULL}]
      /\ \A u \in Thread \ {t} : wakeup'[u] = wakeup[u]
  BY <1>2 DEF LotInv, RestTypes
<1>4. PICK l \in {Idle, Crit, WParked, Wake} : Goto(t, l)
  BY RequeueGoes DEF Inv, Typed
<1>5. /\ UnlockBuckets(t) /\ asleep' \in [Thread -> BOOLEAN]
      /\ UNCHANGED <<mutex, arg, val, ret, unpark_one, spin, ops>>
  BY DEF Requeue, LotInv, RestTypes
<1> QED BY <1>3, <1>4, <1>5, LocalRelease

LEMMA BroadcastValidateLocal ==
  ASSUME LotInv, Inv, NEW t \in Thread, broadcast_parking_control_validate(t)
  PROVE  Local(t)
<1>1. UNCHANGED <<mutex, arg, val, ret, unpark_one, wakeup, asleep, spin, ops>>
  BY DEF broadcast_parking_control_validate, locals
<1>2. wakeup' \in [Thread -> Thread \union {NULL}] /\ asleep' \in [Thread -> BOOLEAN]
  BY <1>1 DEF LotInv, RestTypes
<1>3. CASE Goto(t, BMark) /\ UNCHANGED owner
  <2>1. Seated(t)'
    BY <1>1, <1>3 DEF broadcast_parking_control_validate, LotInv, Seated, Inv, Typed, Goto, Owns
  <2>2. RestTypes'
    BY <1>1, <1>2, <1>3 DEF LotInv, RestTypes
  <2>3. Others(t)
    BY <1>1, <1>3 DEF Others, Inv, Typed, Goto
  <2> QED BY <2>1, <2>2, <2>3 DEF Local
<1>4. CASE Goto(t, ret[t]) /\ UnlockBuckets(t)
  <2>1. ret[t] \in {Idle, Crit, WParked}
    BY DEF Inv, Typed
  <2> QED BY <1>1, <1>2, <1>4, <2>1, LocalRelease
<1> QED BY <1>3, <1>4 DEF broadcast_parking_control_validate

LEMMA MarkLocal ==
  ASSUME LotInv, Inv, NEW t \in Thread, make_parked_if_locked(t)
  PROVE  Local(t)
<1>1. /\ UNCHANGED <<owner, mutex, arg, val, ret, wakeup, asleep, spin, ops>>
      /\ Goto(t, BRequeue) /\ pc[t] = BMark
      /\ unpark_one' = [unpark_one EXCEPT ![t] = ~state[val[t]].lock]
  BY DEF make_parked_if_locked, lot
<1>2. RestTypes'
  BY <1>1 DEF LotInv, RestTypes
<1>3. Seated(t)'
  BY <1>1 DEF LotInv, Seated, Inv, Typed, Goto, Owns
<1>4. Others(t)
  BY <1>1 DEF Others, Inv, Typed, Goto, LotInv, RestTypes
<1> QED BY <1>2, <1>3, <1>4 DEF Local

LEMMA UnparkLocal ==
  ASSUME LotInv, Inv, NEW t \in Thread, Unpark(t)
  PROVE  Local(t)
<1>1. /\ UNCHANGED <<owner, mutex, arg, val, ret, unpark_one, spin, ops>>
      /\ Goto(t, ret[t]) /\ ret[t] \in {Idle, Crit, WParked}
      /\ wakeup' = [wakeup EXCEPT ![t] = NULL]
      /\ asleep' = [asleep EXCEPT ![wakeup[t]] = FALSE]
  BY DEF Unpark, Inv, Typed
<1>2. RestTypes'
  BY <1>1 DEF LotInv, RestTypes
<1>3. Seated(t)'
  BY <1>1 DEF Seated, Inv, Typed, Goto
<1>4. Others(t)
  BY <1>1 DEF Others, Inv, Typed, Goto, LotInv, RestTypes
<1> QED BY <1>2, <1>3, <1>4 DEF Local

LEMMA CallsLocal ==
  ASSUME LotInv, Inv, NEW t \in Thread, NEW c \in Cond,
         Wait(t, c) \/ Signal(t, c) \/ Broadcast(t, c)
  PROVE  Local(t)
<1>1. /\ UNCHANGED <<owner, mutex, asleep, unpark_one, wakeup, spin>>
      /\ arg' = [arg EXCEPT ![t] = c]
      /\ ret' = ret \/ ret' = [ret EXCEPT ![t] = pc[t]]
      /\ val' = val \/ val' = [val EXCEPT ![t] = cond[c]]
      /\ \E l \in {WCall, SCall, BCall, Idle, Crit} : pc' = [pc EXCEPT ![t] = l]
      /\ ops' = [ops EXCEPT ![t] = @ - 1] /\ ops[t] > 0
  <2>1. pc[t] \in {Idle, Crit} /\ pc = [pc EXCEPT ![t] = pc[t]]
    BY DEF Wait, Signal, Broadcast, Inv, Typed
  <2>2. \E l \in {WCall, SCall, BCall, Idle, Crit} : pc' = [pc EXCEPT ![t] = l]
    BY <2>1 DEF Wait, Signal, Broadcast, Goto
  <2> QED BY <2>2 DEF Wait, Signal, Broadcast, Call, lot
<1>2. RestTypes'
  BY <1>1 DEF LotInv, RestTypes
<1>3. Seated(t)'
  BY <1>1 DEF Seated, Inv, Typed, LotInv, RestTypes
<1>4. Others(t)
  BY <1>1 DEF Others, Inv, Typed, LotInv, RestTypes
<1> QED BY <1>2, <1>3, <1>4 DEF Local

(***************************************************************************)
(* The nodes through a step.                                               *)
(***************************************************************************)
LEMMA ChainsSame ==
  ASSUME LotTyped, AllLinked, UNCHANGED chains
  PROVE  LotTyped' /\ AllLinked'
<1>1. LotTyped'
  BY DEF LotTyped, chains
<1>2. AllLinked'
  <2> SUFFICES ASSUME NEW c \in Bucket PROVE \E m, r : Linked(c, m, r)'
    BY DEF AllLinked, Bucket
  <2>1. PICK m, r : Linked(c, m, r)
    BY DEF AllLinked
  <2>2. Linked(c, m, r)'
    BY <2>1, LinkedFrame DEF chains
  <2> QED BY <2>2
<1> QED BY <1>1, <1>2

\* Nobody falls asleep, is taken out of a queue or is woken.
Quiet(t) ==
  /\ asleep' = asleep
  /\ \A u \in Thread : sleep_address'[u] = NULL <=> sleep_address[u] = NULL
  /\ pc'[t] = Wake <=> pc[t] = Wake
  /\ pc[t] = Wake => wakeup'[t] = wakeup[t]
  /\ asleep[t] /\ InPark(t) => InPark(t)'

\* t queues its node and falls asleep.
Sleeps(t) ==
  /\ asleep' = [asleep EXCEPT ![t] = TRUE]
  /\ pc[t] \in {LValid, WValid} /\ InPark(t)' /\ pc'[t] # Wake
  /\ sleep_address'[t] # NULL
  /\ \A u \in Thread \ {t} : sleep_address'[u] = sleep_address[u]

\* t takes w out of a queue, to wake it.
Takes1(t, w) ==
  /\ asleep' = asleep /\ w \in Thread
  /\ pc[t] # Wake /\ pc'[t] = Wake /\ wakeup'[t] = w
  /\ InPark(t) => InPark(t)'
  /\ sleep_address[w] # NULL /\ sleep_address'[w] = NULL
  /\ \A u \in Thread \ {w} : sleep_address'[u] = NULL <=> sleep_address[u] = NULL

\* t wakes the thread that it has taken.
Rouses(t) ==
  /\ pc[t] = Wake /\ pc'[t] # Wake
  /\ InPark(t) => InPark(t)'
  /\ asleep' = [asleep EXCEPT ![wakeup[t]] = FALSE]
  /\ sleep_address' = sleep_address

LEMMA OthersInPark ==
  ASSUME NEW t \in Thread, Others(t), NEW u \in Thread \ {t}
  PROVE  /\ InPark(u)' <=> InPark(u)
         /\ pc'[u] = pc[u] /\ wakeup'[u] = wakeup[u]
  BY DEF Others, InPark

LEMMA SleepersKept ==
  ASSUME Sleepers, RestTypes, NEW t \in Thread, Others(t), NEW w,
         Quiet(t) \/ Sleeps(t) \/ Takes1(t, w) \/ Rouses(t)
  PROVE  Sleepers'
<1>1. \A u \in Thread \ {t} : /\ InPark(u)' <=> InPark(u)
                              /\ pc'[u] = pc[u] /\ wakeup'[u] = wakeup[u]
  BY OthersInPark
<1>2. asleep \in [Thread -> BOOLEAN]
  BY DEF RestTypes
<1>3. CASE Quiet(t)
  <2>1. \A u \in Thread : pc'[u] = Wake <=> pc[u] = Wake
    BY <1>1, <1>3 DEF Quiet
  <2>2. \A u \in Thread : pc[u] = Wake => wakeup'[u] = wakeup[u]
    BY <1>1, <1>3 DEF Quiet
  <2>3. \A u \in Thread : asleep[u] /\ InPark(u) => InPark(u)'
    BY <1>1, <1>3 DEF Quiet
  <2> QED BY <1>3, <2>1, <2>2, <2>3 DEF Quiet, Sleepers
<1>4. CASE Sleeps(t)
  <2>1. ~InPark(t) /\ ~asleep[t] /\ sleep_address[t] = NULL /\ pc[t] # Wake
    BY <1>4 DEF Sleeps, Sleepers, InPark
  <2>2. \A u \in Thread : pc'[u] = Wake <=> pc[u] = Wake
    BY <1>1, <1>4, <2>1 DEF Sleeps
  <2>3. \A u \in Thread : pc[u] = Wake => wakeup'[u] = wakeup[u] /\ wakeup[u] # t
    BY <1>1, <2>1 DEF Sleepers
  <2>4. \A u \in Thread \ {t} : asleep'[u] = asleep[u] /\ sleep_address'[u] = sleep_address[u]
    BY <1>2, <1>4 DEF Sleeps
  <2>5. asleep'[t] /\ InPark(t)' /\ sleep_address'[t] # NULL
    BY <1>2, <1>4 DEF Sleeps
  <2> QED BY <1>1, <2>2, <2>3, <2>4, <2>5 DEF Sleepers
<1>5. CASE Takes1(t, w)
  <2>1. \A u \in Thread : pc[u] = Wake => u # t /\ wakeup[u] # w
    BY <1>5 DEF Takes1, Sleepers
  <2>2. \A u \in Thread : pc'[u] = Wake <=> pc[u] = Wake \/ u = t
    BY <1>1, <1>5 DEF Takes1
  <2>3. \A u \in Thread \ {t} : wakeup'[u] = wakeup[u]
    BY <1>1
  <2>4. wakeup'[t] = w /\ asleep[w] /\ w \in Thread /\ pc'[t] = Wake
    BY <1>5 DEF Takes1, Sleepers
  <2>5. \A u \in Thread : asleep[u] => InPark(u)'
    BY <1>1, <1>5 DEF Takes1, Sleepers
  <2>6. /\ asleep' = asleep
        /\ \A u \in Thread : sleep_address'[u] = NULL <=> sleep_address[u] = NULL \/ u = w
    BY <1>5 DEF Takes1
  <2> QED BY <2>1, <2>2, <2>3, <2>4, <2>5, <2>6 DEF Sleepers
<1>6. CASE Rouses(t)
  <2> DEFINE x == wakeup[t]
  <2>1. pc[t] = Wake /\ pc'[t] # Wake /\ x \in Thread /\ asleep[x] /\ sleep_address[x] = NULL
    BY <1>6 DEF Rouses, Sleepers
  <2>2. \A u \in Thread : pc'[u] = Wake <=> pc[u] = Wake /\ u # t
    BY <1>1, <2>1
  <2>3. \A u \in Thread \ {t} : pc[u] = Wake => wakeup'[u] = wakeup[u] /\ wakeup[u] # x
    BY <1>1, <2>1 DEF Sleepers
  <2>4. ~asleep'[x] /\ \A u \in Thread \ {x} : asleep'[u] = asleep[u]
    BY <1>2, <1>6, <2>1 DEF Rouses
  <2>5. \A u \in Thread : asleep'[u] => InPark(u)'
    BY <1>1, <1>6, <2>4 DEF Rouses, Sleepers
  <2>6. sleep_address' = sleep_address
    BY <1>6 DEF Rouses
  <2> HIDE DEF x
  <2>7. \A u \in Thread : pc[u] = Wake /\ u # t => wakeup'[u] # x
    BY <2>3
  <2>8. \A u \in Thread : pc[u] = Wake /\ wakeup[u] # x => u # t
    BY DEF x
  <2> QED BY <2>1, <2>2, <2>3, <2>4, <2>5, <2>6, <2>7, <2>8 DEF Sleepers
<1> QED BY <1>3, <1>4, <1>5, <1>6

LEMMA MovesQuiet ==
  ASSUME LotInv, Inv, NEW t \in Thread,
         \/ \E m \in Mutex : Lock(t, m)
         \/ LockFull(t) \/ TryAcquire(t) \/ Spin(t) \/ MarkParked(t) \/ LockUnparked(t)
         \/ Unlock(t) \/ UnlockFull(t) \/ WaitUnparked(t)
         \/ ParkOnMutex(t) \/ UnlockBucketLock(t) \/ WaitBucketLock(t) \/ SignalBucketLock(t)
         \/ LockPairFirst(t) \/ LockPairSecond(t)
         \/ broadcast_parking_control_validate(t) \/ make_parked_if_locked(t)
         \/ \E c \in Cond : Wait(t, c) \/ Signal(t, c) \/ Broadcast(t, c)
  PROVE  Quiet(t) /\ UNCHANGED chains
<1> USE DEF Goto, lot, chains, Quiet, InPark, locals
<1>0. pc \in [Thread -> Location] /\ ret \in [Thread -> {Idle, Crit, WParked}]
  BY DEF Inv, Typed
<1>1. CASE \/ \E m \in Mutex : Lock(t, m)
           \/ LockFull(t) \/ TryAcquire(t) \/ Spin(t) \/ MarkParked(t)
  BY <1>0, <1>1 DEF Lock, FastLock, LockFull, TryAcquire, Spin, MarkParked
<1>2. CASE LockUnparked(t) \/ WaitUnparked(t)
  BY <1>0, <1>2 DEF LockUnparked, WaitUnparked, FastLock, ParkReturns
<1>3. CASE Unlock(t)
  BY <1>0, <1>3 DEF Unlock
<1>4. CASE UnlockFull(t)
  BY <1>0, <1>4 DEF UnlockFull, Inv, Placed
<1>5. CASE \/ ParkOnMutex(t) \/ UnlockBucketLock(t) \/ WaitBucketLock(t) \/ SignalBucketLock(t)
           \/ LockPairFirst(t) \/ LockPairSecond(t)
  BY <1>0, <1>5 DEF ParkOnMutex, UnlockBucketLock, WaitBucketLock, SignalBucketLock,
     LockPairFirst, LockPairSecond
<1>6. CASE broadcast_parking_control_validate(t) \/ make_parked_if_locked(t)
  BY <1>0, <1>6 DEF broadcast_parking_control_validate, make_parked_if_locked
<1>7. CASE \E c \in Cond : Wait(t, c) \/ Signal(t, c) \/ Broadcast(t, c)
  BY <1>0, <1>7 DEF Wait, Signal, Broadcast
<1> QED BY <1>1, <1>2, <1>3, <1>4, <1>5, <1>6, <1>7

LEMMA ValidatesSleep ==
  ASSUME LotInv, Inv, NEW t \in Thread,
         mutex_parking_control_validate(t) \/ wait_parking_control_validate(t)
  PROVE  /\ \/ Quiet(t) /\ UNCHANGED chains
            \/ Sleeps(t) /\ \E a \in Address : Park(t, a)
         /\ LotTyped' /\ AllLinked'
<1>0. /\ pc \in [Thread -> Location]
      /\ asleep \in [Thread -> BOOLEAN] /\ sleep_address \in [Thread -> Address \union {NULL}]
  BY DEF Inv, Typed, LotInv, RestTypes, LotTyped
<1>1. CASE UNCHANGED <<chains, asleep>>
  <2>1. Quiet(t)
    BY <1>0, <1>1 DEF mutex_parking_control_validate, wait_parking_control_validate, Goto,
       Quiet, InPark, chains, locals
  <2> QED BY <1>1, <2>1, ChainsSame DEF LotInv
<1>2. ASSUME NEW a \in Address, Park(t, a), NEW l \in {LParked, WUnlock}, Goto(t, l)
      PROVE  /\ Sleeps(t) /\ \E x \in Address : Park(t, x)
             /\ LotTyped' /\ AllLinked'
  <2>1. pc[t] \in {LValid, WValid} /\ pc'[t] = l
    BY <1>0, <1>2 DEF mutex_parking_control_validate, wait_parking_control_validate, Goto
  <2>2. sleep_address[t] = NULL
    BY <2>1 DEF LotInv, Sleepers, InPark
  <2>3. /\ sleep_address'[t] = a /\ \A u \in Thread \ {t} : sleep_address'[u] = sleep_address[u]
        /\ asleep' = [asleep EXCEPT ![t] = TRUE]
    BY <1>0, <1>2 DEF Park
  <2>4. Sleeps(t)
    BY <2>1, <2>3, AddressFacts DEF Sleeps, InPark
  <2> QED BY <1>2, <2>2, <2>4, ParkLinks DEF LotInv
<1>3. CASE mutex_parking_control_validate(t)
  <2>1. mutex[t] \in Address
    BY <1>3 DEF mutex_parking_control_validate, Inv, Placed, Address
  <2> QED BY <1>1, <1>2, <1>3, <2>1 DEF mutex_parking_control_validate
<1>4. CASE wait_parking_control_validate(t)
  <2>1. arg[t] \in Address
    BY <1>4 DEF wait_parking_control_validate, LotInv, Seated, Address
  <2> QED BY <1>1, <1>2, <1>4, <2>1 DEF wait_parking_control_validate
<1> QED BY <1>3, <1>4

\* What unpark_one takes is what UnlockTake and SignalTake take.
Target(t) == IF pc[t] = UTake THEN mutex[t] ELSE arg[t]

LEMMA TakeTarget ==
  ASSUME LotInv, Inv, NEW t \in Thread, UnlockTake(t) \/ SignalTake(t)
  PROVE  /\ Target(t) \in Address /\ TakeOne(t, Target(t)) /\ Owns(t, Target(t))
         /\ pc[t] = UTake => Target(t) \in Mutex
         /\ pc[t] = STake => Target(t) \in Cond
         /\ pc[t] \in {UTake, STake}
         /\ AllLinked' /\ LotTyped' /\ Orderly /\ \E w : Picked(t, Target(t), w)
<1>1. CASE UnlockTake(t)
  <2>1. /\ pc[t] = UTake /\ mutex[t] \in Mutex /\ TakeOne(t, mutex[t]) /\ Owns(t, mutex[t])
    BY <1>1 DEF UnlockTake, Inv, Placed, LotInv, Seated
  <2>2. Target(t) = mutex[t] /\ mutex[t] \in Address
    BY <2>1 DEF Target, Address
  <2> QED BY <2>1, <2>2, TakeOnePicks DEF LotInv
<1>2. CASE SignalTake(t)
  <2>1. /\ pc[t] = STake /\ arg[t] \in Cond /\ TakeOne(t, arg[t]) /\ Owns(t, arg[t])
    BY <1>2 DEF SignalTake, LotInv, Seated
  <2>2. Target(t) = arg[t] /\ arg[t] \in Address
    BY <2>1 DEF Target, Address
  <2> QED BY <2>1, <2>2, TakeOnePicks DEF LotInv
<1> QED BY <1>1, <1>2

LEMMA TakesWake ==
  ASSUME LotInv, Inv, NEW t \in Thread, UnlockTake(t) \/ SignalTake(t)
  PROVE  Quiet(t) \/ \E w : Takes1(t, w)
<1>1. PICK w : Picked(t, Target(t), w)
  BY TakeTarget
<1>2. /\ pc[t] \in {UTake, STake} /\ asleep' = asleep /\ ret' = ret
      /\ ret[t] \in {Idle, Crit, WParked} /\ pc \in [Thread -> Location]
      /\ wakeup \in [Thread -> Thread \union {NULL}]
      /\ sleep_address \in [Thread -> Address \union {NULL}]
  BY DEF UnlockTake, SignalTake, Inv, Typed, LotInv, RestTypes, LotTyped
<1>3. CASE w = NULL
  <2>1. sleep_address' = sleep_address /\ pc' = [pc EXCEPT ![t] = ret[t]]
    BY <1>1, <1>3 DEF Picked, chains, Goto
  <2> QED BY <1>2, <2>1 DEF Quiet, InPark
<1>4. CASE w # NULL
  <2>1. /\ w \in Thread /\ sleep_address[w] = Target(t) /\ sleep_address[w] # NULL
        /\ sleep_address' = [sleep_address EXCEPT ![w] = NULL]
        /\ wakeup' = [wakeup EXCEPT ![t] = w]
        /\ pc' = [pc EXCEPT ![t] = Wake]
    BY <1>1, <1>4, TakeTarget, AddressFacts DEF Picked, Goto
  <2>2. InPark(t) => InPark(t)'
    BY <1>2, <2>1 DEF InPark
  <2>3. Takes1(t, w)
    BY <1>2, <2>1, <2>2 DEF Takes1
  <2> QED BY <2>3
<1> QED BY <1>3, <1>4

LEMMA RequeueWakes ==
  ASSUME LotInv, Inv, NEW t \in Thread, Requeue(t)
  PROVE  Quiet(t) \/ \E w : Takes1(t, w)
<1>1. PICK w : Moved(t, w)
  BY RequeueMoves
<1>2. /\ pc[t] = BRequeue /\ asleep' = asleep /\ arg[t] \in Cond /\ val[t] \in Mutex
      /\ pc \in [Thread -> Location] /\ wakeup \in [Thread -> Thread \union {NULL}]
      /\ ret[t] \in {Idle, Crit}
  BY DEF Requeue, Inv, Typed, Placed, LotInv, RestTypes, Seated
<1>3. arg[t] # NULL /\ val[t] # NULL
  BY <1>2, NullAssumption
<1>4. \A u \in Thread : u # w => (sleep_address'[u] = NULL <=> sleep_address[u] = NULL)
  BY <1>1, <1>3 DEF Moved
<1>5. CASE w = NULL
  <2>1. pc'[t] \in {Idle, Crit}
    BY <1>1, <1>2, <1>5 DEF Moved, Goto
  <2>2. \A u \in Thread : u # w
    BY <1>5, NullAssumption
  <2> QED BY <1>2, <1>4, <2>1, <2>2 DEF Quiet, InPark
<1>6. CASE w # NULL
  <2>1. /\ w \in Thread /\ sleep_address[w] # NULL /\ sleep_address'[w] = NULL
        /\ wakeup'[t] = w /\ pc'[t] = Wake
    BY <1>1, <1>2, <1>3, <1>6 DEF Moved, Goto
  <2>2. Takes1(t, w)
    BY <1>2, <1>4, <2>1 DEF Takes1, InPark
  <2> QED BY <2>2
<1> QED BY <1>5, <1>6

LEMMA UnparkRouses ==
  ASSUME LotInv, Inv, NEW t \in Thread, Unpark(t)
  PROVE  Rouses(t) /\ UNCHANGED chains
  BY DEF Unpark, Rouses, InPark, Goto, chains, Inv, Typed

\* Every step keeps the chains lists and the sleepers in their places.
LEMMA StepLot ==
  ASSUME LotInv, Inv, NEW t \in Thread, Step(t)
  PROVE  /\ Local(t) /\ LotTyped' /\ AllLinked'
         /\ \E w : Quiet(t) \/ Sleeps(t) \/ Takes1(t, w) \/ Rouses(t)
<1> USE DEF LotInv
<1>1. CASE \/ \E m \in Mutex : Lock(t, m)
           \/ LockFull(t) \/ TryAcquire(t) \/ Spin(t) \/ MarkParked(t) \/ LockUnparked(t)
           \/ Unlock(t) \/ UnlockFull(t) \/ WaitUnparked(t)
  BY <1>1, MovesLocal, MovesQuiet, ChainsSame
<1>2. CASE \/ ParkOnMutex(t) \/ UnlockBucketLock(t) \/ WaitBucketLock(t) \/ SignalBucketLock(t)
           \/ LockPairFirst(t) \/ LockPairSecond(t)
  BY <1>2, LocksLocal, MovesQuiet, ChainsSame
<1>3. CASE broadcast_parking_control_validate(t)
  BY <1>3, BroadcastValidateLocal, MovesQuiet, ChainsSame
<1>4. CASE make_parked_if_locked(t)
  BY <1>4, MarkLocal, MovesQuiet, ChainsSame
<1>5. CASE \E c \in Cond : Wait(t, c) \/ Signal(t, c) \/ Broadcast(t, c)
  BY <1>5, CallsLocal, MovesQuiet, ChainsSame
<1>6. CASE mutex_parking_control_validate(t) \/ wait_parking_control_validate(t)
  BY <1>6, ValidatesLocal, ValidatesSleep
<1>7. CASE UnlockTake(t) \/ SignalTake(t)
  BY <1>7, TakesLocal, TakesWake, TakeTarget
<1>8. CASE Requeue(t)
  BY <1>8, RequeueLocal, RequeueWakes, RequeueMoves
<1>9. CASE Unpark(t)
  BY <1>9, UnparkLocal, UnparkRouses, ChainsSame
<1> QED BY <1>1, <1>2, <1>3, <1>4, <1>5, <1>6, <1>7, <1>8, <1>9 DEF Step, MutexStep, CondStep

LEMMA SeatedOthers ==
  ASSUME LotInv, Inv, NEW t \in Thread, Others(t), NEW u \in Thread \ {t}
  PROVE  Seated(u)'
<1>1. Seated(u) /\ Placed(u)
  BY DEF LotInv, Inv
<1>2. /\ pc'[u] = pc[u] /\ mutex'[u] = mutex[u] /\ arg'[u] = arg[u] /\ val'[u] = val[u]
      /\ \A b \in Bucket : owner[b] = u => owner'[b] = u
  BY DEF Others
<1>3. /\ pc[u] \in {LValid, UTake} => Hash[mutex[u]] \in Bucket
      /\ pc[u] \in {WValid, STake} \union Broadcasting => Hash[arg[u]] \in Bucket
      /\ pc[u] \in Broadcasting => Hash[val[u]] \in Bucket
  BY <1>1, AddressFacts DEF Seated, Placed, Address
<1> QED BY <1>1, <1>2, <1>3 DEF Seated, Owns, FirstBucket

LEMMA NextLotInv ==
  ASSUME LotInv, Inv, [Next]_vars
  PROVE  LotInv'
<1>1. ASSUME NEW t \in Thread, Step(t) PROVE LotInv'
  <2>1. Local(t) /\ LotTyped' /\ AllLinked'
    BY <1>1, StepLot
  <2>2. Sleepers'
    BY <1>1, <2>1, StepLot, SleepersKept DEF LotInv, Local
  <2>3. \A u \in Thread : Seated(u)'
    BY <2>1, SeatedOthers DEF Local
  <2> QED BY <2>1, <2>2, <2>3 DEF LotInv, Local
<1>2. CASE UNCHANGED vars
  <2>1. LotTyped' /\ AllLinked'
    BY <1>2, ChainsSame DEF LotInv, vars, lot
  <2>2. RestTypes' /\ Sleepers' /\ \A u \in Thread : Seated(u)'
    BY <1>2 DEF LotInv, RestTypes, Sleepers, Seated, Owns, InPark, FirstBucket, vars, lot,
       locals, chains
  <2> QED BY <2>1, <2>2 DEF LotInv
<1> QED BY <1>1, <1>2 DEF Next, Done

LEMMA InitLotInv == Init => LotInv
<1> SUFFICES ASSUME Init PROVE LotInv
  OBVIOUS
<1>1. LotTyped /\ RestTypes
  BY SpinAssumption, OpsAssumption DEF Init, LotTyped, RestTypes
<1>2. AllLinked
  <2> SUFFICES ASSUME NEW b \in Bucket PROVE \E n, q : Linked(b, n, q)
    BY DEF AllLinked
  <2>1. Linked(b, 0, [i \in 1 .. 0 |-> NULL])
    BY DEF Init, Linked, List, Seg, Has
  <2> QED BY <2>1
<1>3. Sleepers /\ \A t \in Thread : Seated(t)
  BY NullAssumption DEF Init, Sleepers, Seated
<1> QED BY <1>1, <1>2, <1>3 DEF LotInv

LEMMA LotInvariance == Spec => [](Inv /\ LotInv)
<1>1. Init => Inv /\ LotInv
  BY InitInv, InitLotInv
<1>2. Inv /\ LotInv /\ [Next]_vars => Inv' /\ LotInv'
  BY NextInv, NextLotInv
<1> QED BY <1>1, <1>2, PTL DEF Spec

(***************************************************************************)
(* The chains and the wakers together hold every sleeper once.             *)
(***************************************************************************)
InChains(t) == UNION {{<<b, i>> : i \in {j \in DOMAIN Chain(b) : Chain(b)[j] = t}} : b \in Bucket}
WithWakers(t) == {<<u, 0>> : u \in {w \in Thread : pc[w] = Wake /\ wakeup[w] = t}}
Places(t) == InChains(t) \union WithWakers(t)

\* The chain of a bucket and what it holds.
LEMMA ChainHolds ==
  ASSUME AllLinked, NEW b \in Bucket
  PROVE  \E n, q : Linked(b, n, q) /\ Chain(b) = q /\ DOMAIN Chain(b) = 1 .. n
                   /\ n \in Nat /\ q \in [1 .. n -> Thread]
<1>1. PICK n, q : Linked(b, n, q)
  BY DEF AllLinked
<1>2. n \in Nat /\ q \in [1 .. n -> Thread]
  BY <1>1, LinkedThreads
<1>3. Chain(b) = q
  BY <1>1, ChainOfLinked
<1> QED BY <1>1, <1>2, <1>3

LEMMA ChainPlace ==
  ASSUME AllLinked, NEW b \in Bucket, NEW t \in Thread
  PROVE  /\ (sleep_address[t] # NULL /\ Hash[sleep_address[t]] = b)
              <=> \E i \in DOMAIN Chain(b) : Chain(b)[i] = t
         /\ \A i, j \in DOMAIN Chain(b) : Chain(b)[i] = t /\ Chain(b)[j] = t => i = j
<1>1. PICK n, q : Linked(b, n, q) /\ Chain(b) = q /\ DOMAIN Chain(b) = 1 .. n
  BY ChainHolds
<1>2. (sleep_address[t] # NULL /\ Hash[sleep_address[t]] = b) <=> \E i \in 1 .. n : q[i] = t
  BY <1>1 DEF Linked, Has
<1>3. \A i, j \in 1 .. n : q[i] = q[j] => i = j
  BY <1>1 DEF Linked, List, Seg
<1> QED BY <1>1, <1>2, <1>3

LEMMA PlacesAre ==
  ASSUME NEW t \in Thread, NEW p
  PROVE  p \in Places(t) <=> \/ \E b \in Bucket : \E i \in DOMAIN Chain(b) : p = <<b, i>> /\ Chain(b)[i] = t
                             \/ \E u \in Thread : p = <<u, 0>> /\ pc[u] = Wake /\ wakeup[u] = t
<1>1. p \in InChains(t) <=> \E b \in Bucket : \E i \in DOMAIN Chain(b) : p = <<b, i>> /\ Chain(b)[i] = t
  BY DEF InChains
<1>2. p \in WithWakers(t) <=> \E u \in Thread : p = <<u, 0>> /\ pc[u] = Wake /\ wakeup[u] = t
  BY DEF WithWakers
<1> QED BY <1>1, <1>2 DEF Places

LEMMA OnePlace ==
  ASSUME AllLinked, LotTyped, Sleepers, RestTypes, NEW t \in Thread
  PROVE  Cardinality(Places(t)) = IF asleep[t] THEN 1 ELSE 0
<1>0. sleep_address[t] \in Address \union {NULL} /\ \A a \in Address : Hash[a] \in Bucket
  BY AddressFacts DEF LotTyped
<1>1. CASE sleep_address[t] # NULL
  <2>1. PICK b \in Bucket : Hash[sleep_address[t]] = b
    BY <1>0, <1>1
  <2>2. PICK i \in DOMAIN Chain(b) : Chain(b)[i] = t
    BY <1>1, <2>1, ChainPlace
  <2>3. \A c \in Bucket : \A j \in DOMAIN Chain(c) : Chain(c)[j] = t => c = b /\ j = i
    BY <2>1, <2>2, ChainPlace
  <2>4. asleep[t] /\ ~ \E u \in Thread : pc[u] = Wake /\ wakeup[u] = t
    BY <1>1 DEF Sleepers
  <2>5. \A p : p \in Places(t) <=> p = <<b, i>>
    BY <2>2, <2>3, <2>4, PlacesAre
  <2>6. Places(t) = {<<b, i>>}
    BY <2>5
  <2> QED BY <2>4, <2>6, FS_Singleton
<1>2. CASE sleep_address[t] = NULL /\ asleep[t]
  <2>1. PICK u \in Thread : pc[u] = Wake /\ wakeup[u] = t
    BY <1>2 DEF Sleepers
  <2>2. \A v \in Thread : pc[v] = Wake /\ wakeup[v] = t => v = u
    BY <2>1 DEF Sleepers
  <2>3. \A c \in Bucket : ~ \E j \in DOMAIN Chain(c) : Chain(c)[j] = t
    BY <1>2, ChainPlace
  <2>4. \A p : p \in Places(t) <=> p = <<u, 0>>
    BY <2>1, <2>2, <2>3, PlacesAre
  <2>5. Places(t) = {<<u, 0>>}
    BY <2>4
  <2> QED BY <1>2, <2>5, FS_Singleton
<1>3. CASE ~asleep[t]
  <2>1. sleep_address[t] = NULL /\ ~ \E u \in Thread : pc[u] = Wake /\ wakeup[u] = t
    BY <1>3 DEF Sleepers
  <2>2. \A c \in Bucket : ~ \E j \in DOMAIN Chain(c) : Chain(c)[j] = t
    BY <2>1, ChainPlace
  <2>3. \A p : p \notin Places(t)
    BY <2>1, <2>2, PlacesAre
  <2>4. Places(t) = {}
    BY <2>3
  <2> QED BY <1>3, <2>4, FS_EmptySet
<1> QED BY <1>1, <1>2, <1>3

LEMMA ChainEnds ==
  ASSUME AllLinked, NEW b \in Bucket
  PROVE  /\ tail[b] = (IF head[b] = NULL THEN NULL ELSE Last(Chain(b)))
         /\ \A i \in DOMAIN Chain(b) : Hash[sleep_address[Chain(b)[i]]] = b
<1>1. PICK n, q : /\ Linked(b, n, q) /\ Chain(b) = q /\ DOMAIN Chain(b) = 1 .. n
                  /\ n \in Nat /\ q \in [1 .. n -> Thread]
  BY ChainHolds
<1>2. Last(Chain(b)) = q[n]
  BY <1>1, LenOf DEF Last
<1>3. (n = 0 <=> head[b] = NULL) /\ (n > 0 => tail[b] = q[n])
  BY <1>1, LinkedThreads
<1>4. n = 0 => tail[b] = NULL
  BY <1>1 DEF Linked, List
<1>5. \A i \in 1 .. n : Has(n, q, q[i])
  BY DEF Has
<1> QED BY <1>1, <1>2, <1>3, <1>4, <1>5, LinkedThreads

LEMMA Conserved == LotInv => NodesConserved
<1> SUFFICES ASSUME LotInv PROVE NodesConserved
  OBVIOUS
<1>1. \A t \in Thread : Cardinality(Places(t)) = (IF asleep[t] THEN 1 ELSE 0) /\ (asleep[t] => InPark(t))
  BY OnePlace DEF LotInv, Sleepers
<1>2. \A b \in Bucket : /\ tail[b] = (IF head[b] = NULL THEN NULL ELSE Last(Chain(b)))
                        /\ \A i \in DOMAIN Chain(b) : Hash[sleep_address[Chain(b)[i]]] = b
  BY ChainEnds DEF LotInv
<1> QED BY <1>1, <1>2, Zenon DEF NodesConserved, Places, InChains, WithWakers, InPark

(***************************************************************************)
(* The surgery on the chains neither loses nor duplicates a node.          *)
(***************************************************************************)
THEOREM NoNodeLost == Spec => []NodesConserved
<1>1. LotInv => NodesConserved
  BY Conserved
<1> QED BY <1>1, LotInvariance, PTL

(***************************************************************************)
(* The words of mutexes and conditions and those who sleep.                *)
(***************************************************************************)
\* u has cleared the word of condition c and is about to move its queue to m.
Moving(u, c, m) == pc[u] \in {BMark, BRequeue} /\ arg[u] = c /\ val[u] = m

\* Who is queued on a mutex wants that mutex.
OwnMutex == \A t \in Thread : sleep_address[t] \in Mutex => sleep_address[t] = mutex[t]

\* Who waits on a condition wants the mutex that its word names, or the one
\* that a broadcast is about to move the queue to.
Named ==
  \A t \in Thread : sleep_address[t] \in Cond =>
    \/ cond[sleep_address[t]] = mutex[t]
    \/ \E u \in Thread : Moving(u, sleep_address[t], mutex[t])

\* In wait() a thread unlocks its mutex, and wakes one who wants it.
WakesOwn ==
  \A u \in Thread : pc[u] = Wake /\ ret[u] = WParked => mutex[wakeup[u]] = mutex[u]

\* The parked bit is set while threads are queued, bucket locked or not.
Flagged == \A t \in Thread : sleep_address[t] \in Mutex => state[sleep_address[t]].parked

\* The word of a condition is cleared with the last of its queue.
Told == \A c \in Cond : cond[c] # NULL => \E t \in Thread : sleep_address[t] = c

\* A broadcast that found the mutex held has marked it, and it is held and marked
\* until the queue has moved: to free it the holder needs the bucket.
Marks ==
  \A u \in Thread : pc[u] = BRequeue /\ ~unpark_one[u] => state[val[u]] = LockedParked

\* The queue that a broadcast is about to move is not empty.
Emptied ==
  \A u \in Thread : pc[u] \in {BMark, BRequeue} =>
    cond[arg[u]] = NULL /\ \E t \in Thread : sleep_address[t] = arg[u]

Words == OwnMutex /\ Named /\ WakesOwn /\ Flagged /\ Told /\ Marks /\ Emptied

Steady == \A u \in Thread : InPark(u) => mutex'[u] = mutex[u]

\* A step that changes neither a queue nor the word of a condition, nor makes
\* somebody overlook a parked thread.
Still(t) ==
  /\ sleep_address' = sleep_address /\ cond' = cond
  /\ \A m \in Mutex : /\ state[m].parked => state'[m].parked
                      /\ state[m] = LockedParked => state'[m] = LockedParked
  /\ pc'[t] \in {BMark, BRequeue} => /\ pc'[t] = pc[t] /\ arg'[t] = arg[t] /\ val'[t] = val[t]
                                     /\ unpark_one'[t] = unpark_one[t]
  /\ pc[t] \in {BMark, BRequeue} => pc'[t] = pc[t]
  /\ pc'[t] # Wake

LEMMA SleeperFacts ==
  ASSUME Inv, LotInv, NEW u \in Thread
  PROVE  /\ sleep_address[u] # NULL => InPark(u)
         /\ InPark(u) => mutex[u] \in Mutex
         /\ pc[u] = Wake => wakeup[u] \in Thread /\ InPark(wakeup[u])
                            /\ sleep_address[wakeup[u]] = NULL
         /\ sleep_address[u] \in Mutex => sleep_address[u] # NULL
         /\ sleep_address[u] \in Cond => sleep_address[u] # NULL
         /\ sleep_address[u] # NULL => (sleep_address[u] \in Mutex <=> sleep_address[u] \notin Cond)
<1>1. Placed(u) /\ sleep_address[u] \in Address \union {NULL}
  BY DEF Inv, LotInv, LotTyped
<1>2. InPark(u) => mutex[u] \in Mutex
  BY <1>1 DEF Placed, InPark
<1>3. NULL \notin Mutex /\ NULL \notin Cond
  BY NullAssumption
<1> QED BY <1>1, <1>2, <1>3, KindAssumption DEF LotInv, Sleepers, Address

LEMMA MovingSeat ==
  ASSUME Inv, LotInv, NEW u \in Thread, pc[u] \in {BMark, BRequeue}
  PROVE  arg[u] \in Cond /\ val[u] \in Mutex /\ Owns(u, arg[u]) /\ Owns(u, val[u])
  BY DEF Inv, Placed, LotInv, Seated

LEMMA StillWords ==
  ASSUME Inv, LotInv, Words, NEW t \in Thread, Others(t), Steady, Still(t)
  PROVE  Words'
<1>1. \A u \in Thread : pc'[u] \in {BMark, BRequeue} =>
         /\ pc'[u] = pc[u] /\ arg'[u] = arg[u] /\ val'[u] = val[u] /\ unpark_one'[u] = unpark_one[u]
  BY DEF Others, Still
<1>2. \A u \in Thread : pc[u] \in {BMark, BRequeue} =>
         pc'[u] = pc[u] /\ arg'[u] = arg[u] /\ val'[u] = val[u]
  BY DEF Others, Still
<1>3. \A u \in Thread : sleep_address[u] # NULL => mutex'[u] = mutex[u]
  BY SleeperFacts DEF Steady
<1>4. sleep_address' = sleep_address /\ cond' = cond
  BY DEF Still
<1>5. OwnMutex'
  BY <1>3, <1>4, SleeperFacts DEF Words, OwnMutex
<1>6. Named'
  BY <1>2, <1>3, <1>4, SleeperFacts DEF Words, Named, Moving
<1>7. WakesOwn'
  <2> SUFFICES ASSUME NEW u \in Thread, pc'[u] = Wake, ret'[u] = WParked
               PROVE  mutex'[wakeup'[u]] = mutex'[u]
    BY DEF WakesOwn
  <2>1. /\ pc[u] = Wake /\ ret[u] = WParked /\ wakeup'[u] = wakeup[u] /\ mutex'[u] = mutex[u]
    BY DEF Others, Still
  <2>2. mutex'[wakeup[u]] = mutex[wakeup[u]]
    BY <2>1, SleeperFacts DEF Steady
  <2> QED BY <2>1, <2>2 DEF Words, WakesOwn
<1>8. Flagged'
  BY <1>4 DEF Words, Flagged, Still
<1>9. Told'
  BY <1>4 DEF Words, Told
<1>10. Marks'
  <2> SUFFICES ASSUME NEW u \in Thread, pc'[u] = BRequeue, ~unpark_one'[u]
               PROVE  state'[val'[u]] = LockedParked
    BY DEF Marks
  <2>1. pc[u] = BRequeue /\ ~unpark_one[u] /\ val'[u] = val[u]
    BY <1>1
  <2>2. state[val[u]] = LockedParked /\ val[u] \in Mutex
    BY <2>1, MovingSeat DEF Words, Marks
  <2> QED BY <2>1, <2>2 DEF Still
<1>11. Emptied'
  BY <1>1, <1>4 DEF Words, Emptied
<1> QED BY <1>5, <1>6, <1>7, <1>8, <1>9, <1>10, <1>11 DEF Words

LEMMA StepSteady ==
  ASSUME Inv, LotInv, NEW t \in Thread, Step(t)
  PROVE  Steady
<1>1. \A u \in Thread \ {t} : mutex'[u] = mutex[u]
  BY StepLot DEF Local, Others
<1>2. mutex'[t] = mutex[t] \/ \E m \in Mutex : Lock(t, m)
  BY DEF Step, MutexStep, CondStep, LockFull, TryAcquire, Spin, MarkParked, ParkOnMutex,
     mutex_parking_control_validate, LockUnparked, Unlock, UnlockFull, UnlockBucketLock, UnlockTake,
     Unpark, Wait, Signal, Broadcast, WaitBucketLock, wait_parking_control_validate, WaitUnparked,
     SignalBucketLock, SignalTake, LockPairFirst, LockPairSecond, broadcast_parking_control_validate,
     make_parked_if_locked, Requeue, locals
<1>3. (\E m \in Mutex : Lock(t, m)) => ~InPark(t)
  BY DEF Lock, InPark
<1> QED BY <1>1, <1>2, <1>3 DEF Steady

\* A word that was free or only locked marks nobody.
LEMMA Unmarked ==
  ASSUME Inv, NEW m \in Mutex, NEW w \in Word, state' = [state EXCEPT ![m] = w],
         ~state[m].parked \/ (w.parked /\ (state[m].lock => w.lock))
  PROVE  \A n \in Mutex : /\ state[n].parked => state'[n].parked
                          /\ state[n] = LockedParked => state'[n] = LockedParked
<1>1. \A x \in Word : x = LockedParked <=> x.lock /\ x.parked
  BY DEF Word, LockedParked
<1>2. /\ state[m] \in Word /\ state'[m] = w
      /\ \A n \in Mutex \ {m} : state'[n] = state[n]
  BY DEF Inv, Typed
<1>3. state[m].parked => w.parked
  OBVIOUS
<1>4. state[m] = LockedParked => w = LockedParked
  BY <1>1, <1>2
<1> QED BY <1>2, <1>3, <1>4

LEMMA MovesStill ==
  ASSUME LotInv, Inv, NEW t \in Thread,
         \/ \E m \in Mutex : Lock(t, m)
         \/ LockFull(t) \/ TryAcquire(t) \/ Spin(t) \/ MarkParked(t) \/ LockUnparked(t)
         \/ Unlock(t) \/ UnlockFull(t) \/ WaitUnparked(t)
         \/ ParkOnMutex(t) \/ UnlockBucketLock(t) \/ WaitBucketLock(t) \/ SignalBucketLock(t)
         \/ LockPairFirst(t) \/ LockPairSecond(t) \/ Unpark(t)
         \/ \E c \in Cond : Wait(t, c) \/ Signal(t, c) \/ Broadcast(t, c)
  PROVE  Still(t)
<1>0. /\ pc \in [Thread -> Location] /\ ret[t] \in {Idle, Crit, WParked}
      /\ pc[t] \in Unlocking => ret[t] \in {Idle, WParked}
      /\ pc[t] \notin Elsewhere => mutex[t] \in Mutex
      /\ expected[t] \in Word /\ Free \in Word /\ Locked \in Word /\ LockedParked \in Word
  BY DEF Inv, Typed, Placed, Word, Free, Locked, LockedParked
<1>1. UNCHANGED <<sleep_address, cond>>
  BY DEF Lock, LockFull, TryAcquire, Spin, MarkParked, LockUnparked, Unlock, UnlockFull,
     WaitUnparked, ParkOnMutex, UnlockBucketLock, WaitBucketLock, SignalBucketLock,
     LockPairFirst, LockPairSecond, Unpark, Wait, Signal, Broadcast, lot, chains, words
<1>2. \A m \in Mutex : /\ state[m].parked => state'[m].parked
                       /\ state[m] = LockedParked => state'[m] = LockedParked
  <2>1. ASSUME NEW m \in Mutex, FastLock(t, m)
        PROVE  \A n \in Mutex : /\ state[n].parked => state'[n].parked
                                /\ state[n] = LockedParked => state'[n] = LockedParked
    <3>1. CASE state[m] = Free /\ state' = [state EXCEPT ![m] = Locked]
      <4>1. ~state[m].parked
        BY <3>1 DEF Free
      <4> QED BY <1>0, <3>1, <4>1, Unmarked
    <3> QED BY <2>1, <3>1 DEF FastLock
  <2>2. CASE \/ \E m \in Mutex : Lock(t, m)
             \/ WaitUnparked(t)
    BY <1>0, <2>1, <2>2 DEF Lock, WaitUnparked
  <2>3. CASE TryAcquire(t)
    <3>1. CASE CasSucceeds(t, [expected[t] EXCEPT !.lock = TRUE])
      <4>1. /\ [expected[t] EXCEPT !.lock = TRUE] \in Word /\ mutex[t] \in Mutex
            /\ [expected[t] EXCEPT !.lock = TRUE].lock
            /\ [expected[t] EXCEPT !.lock = TRUE].parked = expected[t].parked
        BY <1>0, <2>3 DEF TryAcquire, Word
      <4> QED BY <3>1, <4>1, Unmarked DEF CasSucceeds
    <3>2. CASE CasFails(t)
      BY <3>2 DEF CasFails
    <3> QED BY <2>3, <3>1, <3>2 DEF TryAcquire
  <2>4. CASE MarkParked(t)
    <3>1. CASE CasSucceeds(t, LockedParked)
      BY <1>0, <2>4, <3>1, Unmarked DEF CasSucceeds, MarkParked, LockedParked
    <3>2. CASE CasFails(t)
      BY <3>2 DEF CasFails
    <3> QED BY <2>4, <3>1, <3>2 DEF MarkParked
  <2>5. CASE Unlock(t) \/ UnlockFull(t)
    <3>1. CASE state[mutex[t]] = Locked /\ state' = [state EXCEPT ![mutex[t]] = Free]
      <4>1. mutex[t] \in Mutex
        BY <1>0, <2>5 DEF Unlock, UnlockFull
      <4>2. ~state[mutex[t]].parked
        BY <3>1 DEF Locked
      <4> QED BY <1>0, <3>1, <4>1, <4>2, Unmarked
    <3> QED BY <2>5, <3>1 DEF Unlock, UnlockFull
  <2>6. CASE ~( \/ \E m \in Mutex : Lock(t, m)
                \/ WaitUnparked(t) \/ TryAcquire(t) \/ MarkParked(t) \/ Unlock(t) \/ UnlockFull(t))
    <3>1. state' = state
      BY <2>6 DEF LockFull, Spin, LockUnparked, ParkOnMutex, UnlockBucketLock, WaitBucketLock,
         SignalBucketLock, LockPairFirst, LockPairSecond, Unpark, Wait, Signal, Broadcast, words
    <3> QED BY <3>1
  <2> QED BY <2>2, <2>3, <2>4, <2>5, <2>6
<1>3. pc[t] \notin {BMark, BRequeue} /\ pc'[t] \notin {BMark, BRequeue, Wake}
  BY <1>0 DEF Lock, LockFull, TryAcquire, Spin, MarkParked, LockUnparked, Unlock, UnlockFull,
     WaitUnparked, ParkOnMutex, UnlockBucketLock, WaitBucketLock, SignalBucketLock,
     LockPairFirst, LockPairSecond, Unpark, Wait, Signal, Broadcast, FastLock, Goto
<1> QED BY <1>1, <1>2, <1>3 DEF Still

LEMMA ParkOnMutexWords ==
  ASSUME Inv, LotInv, Words, NEW t \in Thread, Others(t), Steady, mutex_parking_control_validate(t)
  PROVE  Words'
<1>0. /\ pc \in [Thread -> Location] /\ sleep_address \in [Thread -> Address \union {NULL}]
      /\ mutex[t] \in Mutex /\ pc[t] = LValid
  BY DEF mutex_parking_control_validate, Inv, Typed, Placed, LotInv, LotTyped
<1>1. CASE UNCHANGED chains /\ Goto(t, LoadFull)
  <2>1. Still(t)
    BY <1>0, <1>1 DEF mutex_parking_control_validate, Still, chains, words, Goto
  <2> QED BY <2>1, StillWords
<1>2. CASE StillParked(t) /\ Park(t, mutex[t]) /\ Goto(t, LParked)
  <2>1. /\ state' = state /\ cond' = cond /\ pc'[t] = LParked
        /\ sleep_address'[t] = mutex[t]
        /\ \A u \in Thread \ {t} : sleep_address'[u] = sleep_address[u]
        /\ state[mutex[t]] = LockedParked /\ state[mutex[t]].parked
    BY <1>0, <1>2 DEF mutex_parking_control_validate, words, Goto, Park, StillParked, LockedParked
  <2>2. sleep_address[t] = NULL /\ mutex'[t] = mutex[t]
    <3>1. ~InPark(t)
      BY <1>0 DEF InPark
    <3> QED BY <3>1, SleeperFacts DEF mutex_parking_control_validate, locals
  <2>3. \A u \in Thread : sleep_address[u] # NULL => mutex'[u] = mutex[u] /\ sleep_address'[u] = sleep_address[u]
    BY <2>1, <2>2, SleeperFacts DEF Steady
  <2>4. \A u \in Thread : /\ pc'[u] \in {BMark, BRequeue, Wake} =>
                               /\ u # t /\ pc'[u] = pc[u] /\ arg'[u] = arg[u] /\ val'[u] = val[u]
                               /\ unpark_one'[u] = unpark_one[u] /\ wakeup'[u] = wakeup[u]
                               /\ mutex'[u] = mutex[u] /\ ret'[u] = ret[u]
                          /\ pc[u] \in {BMark, BRequeue} =>
                               /\ pc'[u] = pc[u] /\ arg'[u] = arg[u] /\ val'[u] = val[u]
    BY <1>0, <2>1 DEF Others
  <2>5. OwnMutex'
    BY <1>0, <2>1, <2>2, <2>3, SleeperFacts DEF Words, OwnMutex
  <2>6. Named'
    BY <1>0, <2>1, <2>2, <2>3, <2>4, SleeperFacts, KindAssumption DEF Words, Named, Moving
  <2>7. WakesOwn'
    BY <2>4, SleeperFacts DEF Words, WakesOwn, Steady
  <2>8. Flagged'
    BY <1>0, <2>1 DEF Words, Flagged
  <2>9. Told'
    <3>1. \A c \in Cond : \A u \in Thread : sleep_address[u] = c => sleep_address'[u] = c
      BY <2>3, NullAssumption
    <3> QED BY <2>1, <3>1 DEF Words, Told
  <2>10. Marks'
    BY <2>1, <2>4 DEF Words, Marks
  <2>11. Emptied'
    <3>1. \A u \in Thread : \A x \in Thread :
             pc[u] \in {BMark, BRequeue} /\ sleep_address[x] = arg[u] => sleep_address'[x] = arg[u]
      BY <2>3, MovingSeat, NullAssumption
    <3> QED BY <2>1, <2>4, <3>1 DEF Words, Emptied
  <2> QED BY <2>5, <2>6, <2>7, <2>8, <2>9, <2>10, <2>11 DEF Words
<1> QED BY <1>1, <1>2 DEF mutex_parking_control_validate

LEMMA WaitWords ==
  ASSUME Inv, LotInv, Words, NEW t \in Thread, Others(t), Steady, wait_parking_control_validate(t)
  PROVE  Words'
<1>0. /\ pc \in [Thread -> Location] /\ sleep_address \in [Thread -> Address \union {NULL}]
      /\ cond \in [Cond -> Mutex \union {NULL}]
      /\ mutex[t] \in Mutex /\ pc[t] = WValid /\ arg[t] \in Cond /\ Owns(t, arg[t])
  BY DEF wait_parking_control_validate, Inv, Typed, Placed, LotInv, LotTyped, Seated
<1>1. CASE UNCHANGED <<cond, chains>> /\ Goto(t, Crit)
  <2>1. Still(t)
    BY <1>0, <1>1 DEF wait_parking_control_validate, Still, chains, Goto
  <2> QED BY <2>1, StillWords
<1>2. CASE /\ cond[arg[t]] \in {NULL, mutex[t]}
           /\ cond' = [cond EXCEPT ![arg[t]] = mutex[t]]
           /\ Park(t, arg[t]) /\ Goto(t, WUnlock)
  <2> DEFINE c == arg[t]
  <2>1. /\ state' = state /\ pc'[t] = WUnlock
        /\ cond'[c] = mutex[t] /\ \A d \in Cond \ {c} : cond'[d] = cond[d]
        /\ sleep_address'[t] = c
        /\ \A u \in Thread \ {t} : sleep_address'[u] = sleep_address[u]
    BY <1>0, <1>2 DEF wait_parking_control_validate, Goto, Park
  <2>2. sleep_address[t] = NULL /\ mutex'[t] = mutex[t]
    <3>1. ~InPark(t)
      BY <1>0 DEF InPark
    <3> QED BY <3>1, SleeperFacts DEF wait_parking_control_validate, locals
  <2>3. \A u \in Thread : sleep_address[u] # NULL => mutex'[u] = mutex[u] /\ sleep_address'[u] = sleep_address[u]
    BY <2>1, <2>2, SleeperFacts DEF Steady
  <2>4. \A u \in Thread : /\ pc'[u] \in {BMark, BRequeue, Wake} =>
                               /\ u # t /\ pc'[u] = pc[u] /\ arg'[u] = arg[u] /\ val'[u] = val[u]
                               /\ unpark_one'[u] = unpark_one[u] /\ wakeup'[u] = wakeup[u]
                               /\ mutex'[u] = mutex[u] /\ ret'[u] = ret[u]
                          /\ pc[u] \in {BMark, BRequeue} =>
                               /\ pc'[u] = pc[u] /\ arg'[u] = arg[u] /\ val'[u] = val[u]
    BY <1>0, <2>1 DEF Others
  <2>5. \A u \in Thread : pc[u] \in {BMark, BRequeue} => arg[u] # c
    BY <1>0, MovingSeat DEF Owns
  <2>6. OwnMutex'
    BY <1>0, <2>1, <2>2, <2>3, SleeperFacts, KindAssumption DEF Words, OwnMutex
  <2>7. Named'
    <3> SUFFICES ASSUME NEW u \in Thread, sleep_address'[u] \in Cond
                 PROVE  \/ cond'[sleep_address'[u]] = mutex'[u]
                        \/ \E v \in Thread : /\ pc'[v] \in {BMark, BRequeue}
                                              /\ arg'[v] = sleep_address'[u] /\ val'[v] = mutex'[u]
      BY DEF Named, Moving
    <3>1. CASE u = t
      BY <2>1, <2>2, <3>1
    <3>2. CASE u # t /\ sleep_address[u] = c
      <4>0. sleep_address[u] \in Cond /\ sleep_address[u] # NULL /\ mutex[u] \in Mutex
        BY <1>0, <3>2, SleeperFacts
      <4>1. mutex'[u] = mutex[u] /\ cond[c] = mutex[u] /\ mutex[u] \in Mutex
        BY <2>3, <2>5, <3>2, <4>0 DEF Words, Named, Moving
      <4>2. cond[c] = mutex[t]
        BY <1>2, <4>1, NullAssumption
      <4> QED BY <2>1, <3>2, <4>1, <4>2
    <3>3. CASE u # t /\ sleep_address[u] # c
      <4>1. /\ sleep_address'[u] = sleep_address[u] /\ sleep_address[u] \in Cond
            /\ mutex'[u] = mutex[u] /\ cond'[sleep_address[u]] = cond[sleep_address[u]]
        BY <2>1, <2>3, <3>3, NullAssumption
      <4> QED BY <2>4, <3>3, <4>1 DEF Words, Named, Moving
    <3> QED BY <3>1, <3>2, <3>3
  <2>8. WakesOwn'
    BY <2>4, SleeperFacts DEF Words, WakesOwn, Steady
  <2>9. Flagged'
    BY <1>0, <2>1, KindAssumption DEF Words, Flagged
  <2>10. Told'
    <3>1. \A d \in Cond : \A u \in Thread : sleep_address[u] = d => sleep_address'[u] = d
      BY <2>3, NullAssumption
    <3> QED BY <2>1, <3>1 DEF Words, Told
  <2>11. Marks'
    BY <2>1, <2>4 DEF Words, Marks
  <2>12. Emptied'
    <3>1. \A u \in Thread : \A x \in Thread :
             pc[u] \in {BMark, BRequeue} /\ sleep_address[x] = arg[u] => sleep_address'[x] = arg[u]
      BY <2>3, MovingSeat, NullAssumption
    <3>2. \A u \in Thread : pc[u] \in {BMark, BRequeue} => cond'[arg[u]] = cond[arg[u]]
      BY <2>1, <2>5, MovingSeat
    <3> QED BY <2>4, <3>1, <3>2 DEF Words, Emptied
  <2> QED BY <2>6, <2>7, <2>8, <2>9, <2>10, <2>11, <2>12 DEF Words
<1> QED BY <1>1, <1>2 DEF wait_parking_control_validate

LEMMA BroadcastWords ==
  ASSUME Inv, LotInv, Words, NEW t \in Thread, Others(t), Steady,
         broadcast_parking_control_validate(t)
  PROVE  Words'
<1>0. /\ pc \in [Thread -> Location] /\ cond \in [Cond -> Mutex \union {NULL}]
      /\ ret[t] \in {Idle, Crit} /\ val[t] \in Mutex /\ val[t] # NULL
      /\ pc[t] = BValid /\ arg[t] \in Cond /\ Owns(t, arg[t])
      /\ arg'[t] = arg[t] /\ val'[t] = val[t]
      /\ state' = state /\ sleep_address' = sleep_address
  BY NullAssumption DEF broadcast_parking_control_validate, Inv, Typed, Placed, LotInv, Seated,
     chains, locals
<1>1. CASE cond' = cond /\ Goto(t, ret[t])
  <2>1. Still(t)
    BY <1>0, <1>1 DEF Still, Goto
  <2> QED BY <2>1, StillWords
<1>2. CASE /\ cond[arg[t]] = val[t] /\ cond' = [cond EXCEPT ![arg[t]] = NULL]
           /\ Goto(t, BMark)
  <2> DEFINE c == arg[t]
  <2>1. /\ pc'[t] = BMark /\ cond'[c] = NULL /\ \A d \in Cond \ {c} : cond'[d] = cond[d]
    BY <1>0, <1>2 DEF Goto
  <2>2. \A u \in Thread : sleep_address[u] # NULL => mutex'[u] = mutex[u]
    BY SleeperFacts DEF Steady
  <2>3. \A u \in Thread : u # t => pc'[u] = pc[u] /\ arg'[u] = arg[u] /\ val'[u] = val[u]
                                   /\ unpark_one'[u] = unpark_one[u] /\ wakeup'[u] = wakeup[u]
                                   /\ mutex'[u] = mutex[u] /\ ret'[u] = ret[u]
    BY DEF Others
  <2>4. \A u \in Thread : pc[u] \in {BMark, BRequeue} => arg[u] # c /\ u # t
    BY <1>0, MovingSeat DEF Owns
  <2>5. OwnMutex'
    BY <1>0, <2>2, SleeperFacts DEF Words, OwnMutex
  <2>6. Named'
    <3> SUFFICES ASSUME NEW u \in Thread, sleep_address[u] \in Cond
                 PROVE  \/ cond'[sleep_address[u]] = mutex'[u]
                        \/ \E v \in Thread : /\ pc'[v] \in {BMark, BRequeue}
                                             /\ arg'[v] = sleep_address[u] /\ val'[v] = mutex'[u]
      BY <1>0 DEF Named, Moving
    <3>1. mutex'[u] = mutex[u]
      BY <2>2, SleeperFacts
    <3>2. CASE sleep_address[u] = c
      <4>1. val[t] = mutex[u]
        BY <1>2, <2>4, <3>2 DEF Words, Named, Moving
      <4> QED BY <1>0, <2>1, <3>1, <3>2, <4>1
    <3>3. CASE sleep_address[u] # c
      BY <2>1, <2>3, <2>4, <3>1, <3>3 DEF Words, Named, Moving
    <3> QED BY <3>2, <3>3
  <2>7. WakesOwn'
    BY <2>1, <2>3, SleeperFacts DEF Words, WakesOwn, Steady
  <2>8. Flagged'
    BY <1>0 DEF Words, Flagged
  <2>9. Told'
    BY <1>0, <2>1 DEF Words, Told
  <2>10. Marks'
    BY <1>0, <2>1, <2>3 DEF Words, Marks
  <2>11. Emptied'
    <3> SUFFICES ASSUME NEW u \in Thread, pc'[u] \in {BMark, BRequeue}
                 PROVE  cond'[arg'[u]] = NULL /\ \E x \in Thread : sleep_address[x] = arg'[u]
      BY <1>0 DEF Emptied
    <3>1. CASE u = t
      <4>1. \E x \in Thread : sleep_address[x] = c
        BY <1>0, <1>2 DEF Words, Told
      <4> QED BY <1>0, <2>1, <3>1, <4>1
    <3>2. CASE u # t
      BY <2>1, <2>3, <2>4, <3>2, MovingSeat DEF Words, Emptied
    <3> QED BY <3>1, <3>2
  <2> QED BY <2>5, <2>6, <2>7, <2>8, <2>9, <2>10, <2>11 DEF Words
<1> QED BY <1>1, <1>2 DEF broadcast_parking_control_validate

LEMMA MarkWords ==
  ASSUME Inv, LotInv, Words, NEW t \in Thread, Others(t), Steady, make_parked_if_locked(t)
  PROVE  Words'
<1>0. /\ pc \in [Thread -> Location] /\ val[t] \in Mutex
      /\ pc[t] = BMark /\ pc'[t] = BRequeue /\ arg'[t] = arg[t] /\ val'[t] = val[t]
      /\ cond' = cond /\ sleep_address' = sleep_address
      /\ unpark_one'[t] = ~state[val[t]].lock
  BY DEF make_parked_if_locked, Inv, Typed, Placed, LotInv, RestTypes, lot, chains, Goto
<1>1. \A x \in Word : x = LockedParked <=> x.lock /\ x.parked
  BY DEF Word, LockedParked
<1>2. /\ state[val[t]] \in Word /\ state'[val[t]] \in Word
      /\ state'[val[t]].lock = state[val[t]].lock
      /\ state'[val[t]].parked <=> state[val[t]].parked \/ state[val[t]].lock
      /\ \A m \in Mutex \ {val[t]} : state'[m] = state[m]
  BY <1>0 DEF make_parked_if_locked, Inv, Typed, Word
<1>3. \A m \in Mutex : /\ state[m].parked => state'[m].parked
                       /\ state[m] = LockedParked => state'[m] = LockedParked
  BY <1>1, <1>2
<1>4. \A u \in Thread : sleep_address[u] # NULL => mutex'[u] = mutex[u]
  BY SleeperFacts DEF Steady
<1>5. \A u \in Thread : u # t => pc'[u] = pc[u] /\ arg'[u] = arg[u] /\ val'[u] = val[u]
                                 /\ unpark_one'[u] = unpark_one[u] /\ wakeup'[u] = wakeup[u]
                                 /\ mutex'[u] = mutex[u] /\ ret'[u] = ret[u]
  BY DEF Others
<1>6. OwnMutex'
  BY <1>0, <1>4, SleeperFacts DEF Words, OwnMutex
<1>7. Named'
  <2>1. \A v \in Thread : pc[v] \in {BMark, BRequeue} =>
           pc'[v] \in {BMark, BRequeue} /\ arg'[v] = arg[v] /\ val'[v] = val[v]
    BY <1>0, <1>5
  <2> QED BY <1>0, <1>4, <2>1, SleeperFacts DEF Words, Named, Moving
<1>8. WakesOwn'
  BY <1>0, <1>5, SleeperFacts DEF Words, WakesOwn, Steady
<1>9. Flagged'
  BY <1>0, <1>3 DEF Words, Flagged
<1>10. Told'
  BY <1>0 DEF Words, Told
<1>11. Marks'
  <2> SUFFICES ASSUME NEW u \in Thread, pc'[u] = BRequeue, ~unpark_one'[u]
               PROVE  state'[val'[u]] = LockedParked
    BY DEF Marks
  <2>1. CASE u = t
    BY <1>0, <1>1, <1>2, <2>1
  <2>2. CASE u # t
    <3>1. state[val[u]] = LockedParked /\ val[u] \in Mutex /\ val'[u] = val[u]
      BY <1>5, <2>2, MovingSeat DEF Words, Marks
    <3> QED BY <1>3, <3>1
  <2> QED BY <2>1, <2>2
<1>12. Emptied'
  BY <1>0, <1>5 DEF Words, Emptied
<1> QED BY <1>6, <1>7, <1>8, <1>9, <1>10, <1>11, <1>12 DEF Words

\* What a step that takes w, or nobody, out of the queue of a leaves of the rest.
LEMMA TakeWords ==
  ASSUME Inv, LotInv, Words, NEW t \in Thread, Others(t), Steady,
         UnlockTake(t) \/ SignalTake(t), NEW w, Picked(t, Target(t), w)
  PROVE  /\ \A u \in Thread : sleep_address'[u] # NULL =>
              u # w /\ sleep_address'[u] = sleep_address[u] /\ mutex'[u] = mutex[u]
         /\ \A u \in Thread : sleep_address[u] # NULL /\ sleep_address[u] # Target(t) =>
              sleep_address'[u] = sleep_address[u]
         /\ \A u \in Thread : sleep_address'[u] = Target(t) => MoreWaiters(Target(t))
         /\ MoreWaiters(Target(t)) => \E u \in Thread : sleep_address'[u] = Target(t)
         /\ \A u \in Thread : pc[u] \in {BMark, BRequeue} =>
              u # t /\ arg[u] # Target(t) /\ val[u] # Target(t)
         /\ \A u \in Thread : pc'[u] \in {BMark, BRequeue} => u # t
         /\ pc'[t] = Wake => w \in Thread /\ sleep_address[w] = Target(t) /\ wakeup'[t] = w
<1> DEFINE a == Target(t)
<1>0. /\ pc \in [Thread -> Location] /\ ret[t] \in {Idle, Crit, WParked}
      /\ sleep_address \in [Thread -> Address \union {NULL}]
      /\ wakeup \in [Thread -> Thread \union {NULL}]
      /\ a # NULL /\ Owns(t, a) /\ pc[t] \in {UTake, STake}
  BY TakeTarget, AddressFacts DEF Inv, Typed, LotInv, LotTyped, RestTypes
<1>1. CASE w = NULL
  <2>1. /\ \A u \in Thread : sleep_address[u] # a
        /\ sleep_address' = sleep_address /\ pc'[t] = ret[t]
    BY <1>0, <1>1 DEF Picked, chains, Goto
  <2>2. \A u \in Thread : u # w
    BY <1>1, NullAssumption
  <2>3. \A u \in Thread : pc[u] \in {BMark, BRequeue} => u # t /\ arg[u] # a /\ val[u] # a
    BY <1>0, MovingSeat DEF Owns
  <2>4. \A u \in Thread : sleep_address[u] # NULL => mutex'[u] = mutex[u]
    BY SleeperFacts DEF Steady
  <2>5. ~MoreWaiters(a)
    BY <2>1 DEF Picked
  <2> HIDE DEF a
  <2> QED BY <1>0, <2>1, <2>2, <2>3, <2>4, <2>5 DEF a
<1>2. CASE w # NULL
  <2>1. /\ w \in Thread /\ sleep_address[w] = a /\ sleep_address'[w] = NULL
        /\ \A u \in Thread : u # w => sleep_address'[u] = sleep_address[u]
        /\ wakeup'[t] = w /\ pc'[t] = Wake
    BY <1>0, <1>2 DEF Picked, Goto
  <2>2. \A u \in Thread : pc[u] \in {BMark, BRequeue} => u # t /\ arg[u] # a /\ val[u] # a
    BY <1>0, MovingSeat DEF Owns
  <2>3. \A u \in Thread : sleep_address[u] # NULL => mutex'[u] = mutex[u]
    BY SleeperFacts DEF Steady
  <2>4. MoreWaiters(a) <=> \E u \in Thread \ {w} : sleep_address[u] = a
    BY DEF Picked
  <2> HIDE DEF a
  <2> QED BY <1>0, <2>1, <2>2, <2>3, <2>4 DEF a
<1> QED BY <1>1, <1>2

LEMMA UnlockTakeWords ==
  ASSUME Inv, LotInv, Words, NEW t \in Thread, Others(t), Steady, UnlockTake(t)
  PROVE  Words'
<1> DEFINE m == mutex[t]
<1>1. PICK w : Picked(t, m, w)
  BY TakeTarget DEF Target, UnlockTake
<1>0. /\ m \in Mutex /\ m # NULL /\ Target(t) = m /\ cond' = cond /\ pc[t] = UTake /\ mutex'[t] = m
  BY NullAssumption DEF UnlockTake, Inv, Placed, Target
<1>2. /\ \A u \in Thread : sleep_address'[u] # NULL =>
           u # w /\ sleep_address'[u] = sleep_address[u] /\ mutex'[u] = mutex[u]
      /\ \A u \in Thread : sleep_address[u] # NULL /\ sleep_address[u] # m =>
           sleep_address'[u] = sleep_address[u]
      /\ \A u \in Thread : sleep_address'[u] = m => MoreWaiters(m)
      /\ \A u \in Thread : pc[u] \in {BMark, BRequeue} => u # t /\ arg[u] # m /\ val[u] # m
      /\ \A u \in Thread : pc'[u] \in {BMark, BRequeue} => u # t
      /\ pc'[t] = Wake => w \in Thread /\ sleep_address[w] = m /\ wakeup'[t] = w
  BY <1>0, <1>1, TakeWords
<1>3. /\ state'[m].parked = MoreWaiters(m)
      /\ \A n \in Mutex \ {m} : state'[n] = state[n]
  BY <1>0 DEF UnlockTake, Inv, Typed
<1>4. \A u \in Thread : u # t => pc'[u] = pc[u] /\ arg'[u] = arg[u] /\ val'[u] = val[u]
                                 /\ unpark_one'[u] = unpark_one[u] /\ wakeup'[u] = wakeup[u]
                                 /\ mutex'[u] = mutex[u] /\ ret'[u] = ret[u]
  BY DEF Others
<1> HIDE DEF m
<1>5. NULL \notin Mutex /\ NULL \notin Cond
  BY NullAssumption
<1>6. OwnMutex'
  BY <1>2, <1>5 DEF Words, OwnMutex
<1>7. Named'
  <2>1. \A v \in Thread : pc[v] \in {BMark, BRequeue} =>
           pc'[v] \in {BMark, BRequeue} /\ arg'[v] = arg[v] /\ val'[v] = val[v]
    BY <1>2, <1>4
  <2> QED BY <1>0, <1>2, <1>5, <2>1 DEF Words, Named, Moving
<1>8. WakesOwn'
  <2> SUFFICES ASSUME NEW u \in Thread, pc'[u] = Wake, ret'[u] = WParked
               PROVE  mutex'[wakeup'[u]] = mutex'[u]
    BY DEF WakesOwn
  <2>1. CASE u = t
    <3>1. w \in Thread /\ sleep_address[w] = m /\ wakeup'[t] = w
      BY <1>2, <2>1
    <3>2. mutex[w] = m /\ mutex'[w] = mutex[w]
      BY <1>0, <3>1, SleeperFacts DEF Words, OwnMutex, Steady
    <3> QED BY <1>0, <2>1, <3>1, <3>2
  <2>2. CASE u # t
    BY <1>4, <2>2, SleeperFacts DEF Words, WakesOwn, Steady
  <2> QED BY <2>1, <2>2
<1>9. Flagged'
  <2> SUFFICES ASSUME NEW u \in Thread, sleep_address'[u] \in Mutex
               PROVE  state'[sleep_address'[u]].parked
    BY DEF Flagged
  <2>1. CASE sleep_address'[u] = m
    BY <1>2, <1>3, <2>1
  <2>2. CASE sleep_address'[u] # m
    BY <1>2, <1>3, <1>5, <2>2 DEF Words, Flagged
  <2> QED BY <2>1, <2>2
<1>10. Told'
  <2>1. \A c \in Cond : \A u \in Thread : sleep_address[u] = c => sleep_address'[u] = c
    BY <1>0, <1>2, <1>5, KindAssumption
  <2> QED BY <1>0, <2>1 DEF Words, Told
<1>11. Marks'
  BY <1>2, <1>3, <1>4, MovingSeat DEF Words, Marks
<1>12. Emptied'
  <2>1. \A u \in Thread : \A x \in Thread :
           pc[u] \in {BMark, BRequeue} /\ sleep_address[x] = arg[u] => sleep_address'[x] = arg[u]
    BY <1>2, <1>5, MovingSeat
  <2> QED BY <1>0, <1>2, <1>4, <2>1 DEF Words, Emptied
<1> QED BY <1>6, <1>7, <1>8, <1>9, <1>10, <1>11, <1>12 DEF Words

LEMMA SignalTakeWords ==
  ASSUME Inv, LotInv, Words, NEW t \in Thread, Others(t), Steady, SignalTake(t)
  PROVE  Words'
<1> DEFINE c == arg[t]
<1>1. PICK w : Picked(t, c, w)
  BY TakeTarget DEF Target, SignalTake
<1>0. /\ c \in Cond /\ c # NULL /\ Target(t) = c /\ state' = state /\ pc[t] = STake
      /\ ret'[t] \in {Idle, Crit}
  BY NullAssumption DEF SignalTake, Inv, Placed, Target, LotInv, Seated
<1>2. /\ \A u \in Thread : sleep_address'[u] # NULL =>
           u # w /\ sleep_address'[u] = sleep_address[u] /\ mutex'[u] = mutex[u]
      /\ \A u \in Thread : sleep_address[u] # NULL /\ sleep_address[u] # c =>
           sleep_address'[u] = sleep_address[u]
      /\ \A u \in Thread : sleep_address'[u] = c => MoreWaiters(c)
      /\ MoreWaiters(c) => \E u \in Thread : sleep_address'[u] = c
      /\ \A u \in Thread : pc[u] \in {BMark, BRequeue} => u # t /\ arg[u] # c /\ val[u] # c
      /\ \A u \in Thread : pc'[u] \in {BMark, BRequeue} => u # t
  BY <1>0, <1>1, TakeWords
<1>3. /\ cond'[c] = IF MoreWaiters(c) THEN cond[c] ELSE NULL
      /\ \A d \in Cond \ {c} : cond'[d] = cond[d]
  BY <1>0 DEF SignalTake, Inv, Typed
<1>4. \A u \in Thread : u # t => pc'[u] = pc[u] /\ arg'[u] = arg[u] /\ val'[u] = val[u]
                                 /\ unpark_one'[u] = unpark_one[u] /\ wakeup'[u] = wakeup[u]
                                 /\ mutex'[u] = mutex[u] /\ ret'[u] = ret[u]
  BY DEF Others
<1> HIDE DEF c
<1>5. NULL \notin Mutex /\ NULL \notin Cond
  BY NullAssumption
<1>6. OwnMutex'
  BY <1>2, <1>5 DEF Words, OwnMutex
<1>7. Named'
  <2> SUFFICES ASSUME NEW u \in Thread, sleep_address'[u] \in Cond
               PROVE  \/ cond'[sleep_address'[u]] = mutex'[u]
                      \/ \E v \in Thread : /\ pc'[v] \in {BMark, BRequeue}
                                           /\ arg'[v] = sleep_address'[u] /\ val'[v] = mutex'[u]
    BY DEF Named, Moving
  <2>1. sleep_address'[u] = sleep_address[u] /\ mutex'[u] = mutex[u]
    BY <1>2, <1>5
  <2>2. cond'[sleep_address[u]] = cond[sleep_address[u]]
    BY <1>2, <1>3, <2>1
  <2>3. \A v \in Thread : pc[v] \in {BMark, BRequeue} =>
           pc'[v] \in {BMark, BRequeue} /\ arg'[v] = arg[v] /\ val'[v] = val[v]
    BY <1>2, <1>4
  <2> QED BY <2>1, <2>2, <2>3 DEF Words, Named, Moving
<1>8. WakesOwn'
  BY <1>0, <1>4, SleeperFacts DEF Words, WakesOwn, Steady
<1>9. Flagged'
  BY <1>0, <1>2, <1>5 DEF Words, Flagged
<1>10. Told'
  <2> SUFFICES ASSUME NEW d \in Cond, cond'[d] # NULL
               PROVE  \E u \in Thread : sleep_address'[u] = d
    BY DEF Told
  <2>1. CASE d = c
    BY <1>2, <1>3, <2>1
  <2>2. CASE d # c
    <3>1. PICK u \in Thread : sleep_address[u] = d
      BY <1>3, <2>2 DEF Words, Told
    <3> QED BY <1>2, <1>5, <2>2, <3>1
  <2> QED BY <2>1, <2>2
<1>11. Marks'
  BY <1>0, <1>2, <1>4 DEF Words, Marks
<1>12. Emptied'
  <2>1. \A u \in Thread : \A x \in Thread :
           pc[u] \in {BMark, BRequeue} /\ sleep_address[x] = arg[u] => sleep_address'[x] = arg[u]
    BY <1>2, <1>5, MovingSeat
  <2>2. \A u \in Thread : pc[u] \in {BMark, BRequeue} => cond'[arg[u]] = cond[arg[u]]
    BY <1>2, <1>3, MovingSeat
  <2> QED BY <1>2, <1>4, <2>1, <2>2 DEF Words, Emptied
<1> QED BY <1>6, <1>7, <1>8, <1>9, <1>10, <1>11, <1>12 DEF Words

LEMMA RequeueWords ==
  ASSUME Inv, LotInv, Words, NEW t \in Thread, Others(t), Steady, Requeue(t)
  PROVE  Words'
<1> DEFINE c == arg[t]
           m == val[t]
<1>1. PICK w : Moved(t, w)
  BY RequeueMoves
<1>0. /\ c \in Cond /\ m \in Mutex /\ pc[t] = BRequeue /\ pc \in [Thread -> Location]
      /\ Owns(t, c) /\ Owns(t, m)
      /\ cond' = cond /\ ret[t] \in {Idle, Crit} /\ ret'[t] = ret[t]
      /\ state \in [Mutex -> Word] /\ cond[c] = NULL
  BY MovingSeat, RequeueGoes DEF Requeue, Inv, Typed, Placed, Words, Emptied
<1>5. NULL \notin Mutex /\ NULL \notin Cond /\ \A x \in Mutex : x \notin Cond
  BY NullAssumption, KindAssumption
<1>2. /\ \A u \in Thread : sleep_address'[u] = IF u = w THEN NULL
                                              ELSE IF sleep_address[u] = c THEN m ELSE sleep_address[u]
      /\ w = NULL \/ (w \in Thread /\ sleep_address[w] = c)
      /\ pc'[t] \in {Wake, Idle, Crit}
      /\ state' = [state EXCEPT ![m].parked =
                    @ \/ (unpark_one[t] /\ \E u \in Thread : sleep_address[u] = c /\ u # w)]
  BY <1>0, <1>1 DEF Moved, Goto
<1>3. /\ state'[m].parked <=> state[m].parked
                              \/ (unpark_one[t] /\ \E u \in Thread : sleep_address[u] = c /\ u # w)
      /\ \A n \in Mutex \ {m} : state'[n] = state[n]
  <2> DEFINE p == unpark_one[t] /\ \E u \in Thread : sleep_address[u] = c /\ u # w
  <2>1. state' = [state EXCEPT ![m].parked = @ \/ p]
    BY <1>2
  <2> HIDE DEF p, m
  <2>2. /\ state'[m].parked <=> state[m].parked \/ p
        /\ \A n \in Mutex \ {m} : state'[n] = state[n]
    BY <1>0, <2>1 DEF Word
  <2> QED BY <2>2 DEF p
<1>4. /\ \A u \in Thread : u # t => pc'[u] = pc[u] /\ arg'[u] = arg[u] /\ val'[u] = val[u]
                                    /\ unpark_one'[u] = unpark_one[u] /\ wakeup'[u] = wakeup[u]
                                    /\ mutex'[u] = mutex[u] /\ ret'[u] = ret[u]
      /\ \A u \in Thread : pc[u] \in {BMark, BRequeue} /\ u # t => arg[u] # c /\ val[u] # m
      /\ \A u \in Thread : pc'[u] \in {BMark, BRequeue} => u # t
  BY <1>0, <1>2, MovingSeat DEF Others, Owns
<1>6. \A u \in Thread : sleep_address[u] # NULL => mutex'[u] = mutex[u] /\ mutex[u] \in Mutex
  BY SleeperFacts DEF Steady
<1>7. \A u \in Thread : sleep_address[u] = c => mutex[u] = m
  <2> SUFFICES ASSUME NEW u \in Thread, sleep_address[u] = c PROVE mutex[u] = m
    OBVIOUS
  <2>1. sleep_address[u] \in Cond /\ mutex[u] # NULL
    BY <1>0, <1>5, <1>6
  <2>2. PICK v \in Thread : Moving(v, c, mutex[u])
    BY <1>0, <2>1 DEF Words, Named
  <2> QED BY <1>4, <2>2 DEF Moving
<1>8. \A u \in Thread : sleep_address[u] # NULL /\ sleep_address[u] # c =>
         sleep_address'[u] = sleep_address[u]
  BY <1>0, <1>2, <1>5, NullAssumption
<1> HIDE DEF c, m
<1>9. OwnMutex'
  <2> SUFFICES ASSUME NEW u \in Thread, sleep_address'[u] \in Mutex
               PROVE  sleep_address'[u] = mutex'[u]
    BY DEF OwnMutex
  <2>1. u # w
    BY <1>2, <1>5
  <2>2. CASE sleep_address[u] = c
    BY <1>0, <1>2, <1>5, <1>6, <1>7, <2>1, <2>2
  <2>3. CASE sleep_address[u] # c
    BY <1>2, <1>5, <1>6, <2>1, <2>3 DEF Words, OwnMutex
  <2> QED BY <2>2, <2>3
<1>10. Named'
  <2> SUFFICES ASSUME NEW u \in Thread, sleep_address'[u] \in Cond
               PROVE  \/ cond'[sleep_address'[u]] = mutex'[u]
                      \/ \E v \in Thread : /\ pc'[v] \in {BMark, BRequeue}
                                           /\ arg'[v] = sleep_address'[u] /\ val'[v] = mutex'[u]
    BY DEF Named, Moving
  <2>1. /\ sleep_address'[u] = sleep_address[u] /\ sleep_address[u] # c
        /\ mutex'[u] = mutex[u] /\ sleep_address[u] \in Cond
    BY <1>0, <1>2, <1>5, <1>6
  <2>2. \A v \in Thread : pc[v] \in {BMark, BRequeue} /\ arg[v] # c =>
           pc'[v] \in {BMark, BRequeue} /\ arg'[v] = arg[v] /\ val'[v] = val[v]
    BY <1>4 DEF c
  <2> QED BY <1>0, <2>1, <2>2 DEF Words, Named, Moving
<1>11. WakesOwn'
  BY <1>0, <1>4, SleeperFacts DEF Words, WakesOwn, Steady
<1>12. Flagged'
  <2> SUFFICES ASSUME NEW u \in Thread, sleep_address'[u] \in Mutex
               PROVE  state'[sleep_address'[u]].parked
    BY DEF Flagged
  <2>1. u # w
    BY <1>2, <1>5
  <2>2. CASE sleep_address[u] = c /\ unpark_one[t]
    BY <1>2, <1>3, <2>1, <2>2
  <2>3. CASE sleep_address[u] = c /\ ~unpark_one[t]
    <3>1. state[m] = LockedParked
      BY <1>0, <2>3 DEF Words, Marks, m
    <3>2. state[m].parked
      BY <3>1 DEF LockedParked
    <3> QED BY <1>2, <1>3, <2>1, <2>3, <3>2
  <2>4. CASE sleep_address[u] # c
    <3>1. sleep_address'[u] = sleep_address[u] /\ state[sleep_address[u]].parked
      BY <1>2, <2>1, <2>4 DEF Words, Flagged
    <3> QED BY <1>3, <3>1
  <2> QED BY <2>2, <2>3, <2>4
<1>13. Told'
  <2>1. \A d \in Cond : cond[d] # NULL => d # c
    BY <1>0
  <2> QED BY <1>0, <1>5, <1>8, <2>1 DEF Words, Told
<1>14. Marks'
  BY <1>3, <1>4, MovingSeat DEF Words, Marks
<1>15. Emptied'
  <2>1. \A u \in Thread : \A x \in Thread :
           pc[u] \in {BMark, BRequeue} /\ u # t /\ sleep_address[x] = arg[u] => sleep_address'[x] = arg[u]
    BY <1>4, <1>5, <1>8, MovingSeat
  <2> QED BY <1>0, <1>4, <2>1 DEF Words, Emptied
<1> QED BY <1>9, <1>10, <1>11, <1>12, <1>13, <1>14, <1>15 DEF Words

LEMMA NextWords ==
  ASSUME Inv, LotInv, Words, [Next]_vars
  PROVE  Words'
<1>1. ASSUME NEW t \in Thread, Step(t) PROVE Words'
  <2>1. Others(t) /\ Steady
    BY <1>1, StepLot, StepSteady DEF Local
  <2>2. CASE mutex_parking_control_validate(t) \/ wait_parking_control_validate(t)
    BY <2>1, <2>2, ParkOnMutexWords, WaitWords
  <2>3. CASE broadcast_parking_control_validate(t) \/ make_parked_if_locked(t)
    BY <2>1, <2>3, BroadcastWords, MarkWords
  <2>4. CASE UnlockTake(t) \/ SignalTake(t) \/ Requeue(t)
    BY <2>1, <2>4, UnlockTakeWords, SignalTakeWords, RequeueWords
  <2>5. CASE \/ \E m \in Mutex : Lock(t, m)
             \/ LockFull(t) \/ TryAcquire(t) \/ Spin(t) \/ MarkParked(t) \/ LockUnparked(t)
             \/ Unlock(t) \/ UnlockFull(t) \/ WaitUnparked(t)
             \/ ParkOnMutex(t) \/ UnlockBucketLock(t) \/ WaitBucketLock(t) \/ SignalBucketLock(t)
             \/ LockPairFirst(t) \/ LockPairSecond(t) \/ Unpark(t)
             \/ \E c \in Cond : Wait(t, c) \/ Signal(t, c) \/ Broadcast(t, c)
    BY <2>1, <2>5, MovesStill, StillWords
  <2> QED BY <1>1, <2>2, <2>3, <2>4, <2>5 DEF Step, MutexStep, CondStep
<1>2. CASE UNCHANGED vars
  BY <1>2 DEF Words, OwnMutex, Named, Moving, WakesOwn, Flagged, Told, Marks, Emptied,
     vars, words, lot, chains, locals
<1> QED BY <1>1, <1>2 DEF Next, Done

LEMMA InitWords == Init => Words
  BY NullAssumption
  DEF Init, Words, OwnMutex, Named, WakesOwn, Flagged, Told, Marks, Emptied

LEMMA WordsInvariance == Spec => [](Inv /\ LotInv /\ Words)
<1>1. Init => Inv /\ LotInv /\ Words
  BY InitInv, InitLotInv, InitWords
<1>2. Inv /\ LotInv /\ Words /\ [Next]_vars => Inv' /\ LotInv' /\ Words'
  BY NextInv, NextLotInv, NextWords
<1> QED BY <1>1, <1>2, PTL DEF Spec

LEMMA QueuedAre ==
  ASSUME AllLinked, LotTyped, NEW a \in Address, NEW t
  PROVE  t \in Queued(a) <=> t \in Thread /\ sleep_address[t] = a
<1>1. Hash[a] \in Bucket /\ a # NULL
  BY AddressFacts
<1>2. PICK n, q : Chain(Hash[a]) = q /\ DOMAIN Chain(Hash[a]) = 1 .. n /\ q \in [1 .. n -> Thread]
  BY <1>1, ChainHolds
<1>3. t \in Queued(a) <=> \E i \in DOMAIN Chain(Hash[a]) : Chain(Hash[a])[i] = t
                                                            /\ sleep_address[Chain(Hash[a])[i]] = a
  BY DEF Queued, Found
<1>4. t \in Queued(a) <=> (\E i \in DOMAIN Chain(Hash[a]) : Chain(Hash[a])[i] = t)
                          /\ sleep_address[t] = a
  BY <1>3
<1>5. CASE t \in Thread
  BY <1>1, <1>4, <1>5, ChainPlace
<1>6. CASE t \notin Thread
  BY <1>2, <1>4, <1>6
<1> QED BY <1>5, <1>6

\* What the words say and who is queued: the conjuncts of Consistent.
LEMMA ConsistentThen == Inv /\ LotInv /\ Words => Consistent
<1> SUFFICES ASSUME Inv, LotInv, Words PROVE Consistent
  OBVIOUS
<1>1. TypeOK
  BY DEF Inv, Typed, LotInv, LotTyped, RestTypes, TypeOK
<1>2. MutualExclusion /\ LockBit
  BY DEF Inv, Exclusion
<1>3. \A a \in Address : \A t : t \in Queued(a) <=> t \in Thread /\ sleep_address[t] = a
  BY QueuedAre DEF LotInv
<1>4. ParkedBit
  <2> SUFFICES ASSUME NEW m \in Mutex, NEW t \in Queued(m) PROVE state[m].parked
    BY DEF ParkedBit
  <2>1. t \in Thread /\ sleep_address[t] = m
    BY <1>3 DEF Address
  <2> QED BY <2>1 DEF Words, Flagged
<1>5. CondWord
  <2> SUFFICES ASSUME NEW c \in Cond, Unlocked(c)
               PROVE  /\ cond[c] = NULL <=> Queued(c) = {}
                      /\ \A t \in Queued(c) : mutex[t] = cond[c]
    BY DEF CondWord
  <2>1. \A t : t \in Queued(c) <=> t \in Thread /\ sleep_address[t] = c
    BY <1>3 DEF Address
  <2>2. \A u \in Thread : ~(pc[u] \in {BMark, BRequeue} /\ arg[u] = c)
    BY MovingSeat, NullAssumption DEF Owns, Unlocked
  <2>3. \A t \in Queued(c) : mutex[t] = cond[c] /\ mutex[t] # NULL
    <3> SUFFICES ASSUME NEW t \in Queued(c) PROVE mutex[t] = cond[c] /\ mutex[t] # NULL
      OBVIOUS
    <3>1. t \in Thread /\ sleep_address[t] = c
      BY <2>1
    <3>2. cond[c] = mutex[t]
      BY <2>2, <3>1 DEF Words, Named, Moving
    <3>3. mutex[t] \in Mutex
      BY <3>1, SleeperFacts
    <3> QED BY <3>2, <3>3, NullAssumption
  <2>4. cond[c] # NULL => \E t : t \in Queued(c)
    BY <2>1 DEF Words, Told
  <2> QED BY <2>3, <2>4
<1> QED BY <1>1, <1>2, <1>4, <1>5 DEF Consistent

\* The words of mutexes and conditions are consistent with the queues and with
\* what the threads believe, whatever the threads, the addresses and their hash.
THEOREM WordsTruthful == Spec => []Consistent
<1> QED BY ConsistentThen, WordsInvariance, PTL

(***************************************************************************)
(* No lost wakeup.                                                         *)
(***************************************************************************)
Served ==
  \A m \in Mutex : (\E t \in Thread : sleep_address[t] = m) => \E t \in Thread : WillServe(t, m)

\* What a step of t owes to those who are queued on a mutex after it, if nobody
\* was queued before or if it was t who would have served them.
Serves(t) ==
  \A m \in Mutex :
    /\ \E u \in Thread : sleep_address'[u] = m
    /\ (\A u \in Thread : sleep_address[u] # m) \/ WillServe(t, m)
    => \E u \in Thread : WillServe(u, m)'

\* A thread that will serve others still does after a step of t.
LEMMA OthersServe ==
  ASSUME Inv, LotInv, NEW t \in Thread, Others(t), Steady,
         \A u \in Thread \ {t} : asleep'[u] => asleep[u],
         NEW u \in Thread \ {t}, NEW m, WillServe(u, m)
  PROVE  WillServe(u, m)'
<1>1. /\ pc'[u] = pc[u] /\ mutex'[u] = mutex[u] /\ val'[u] = val[u] /\ ret'[u] = ret[u]
      /\ wakeup'[u] = wakeup[u] /\ (asleep'[u] => asleep[u])
  BY DEF Others
<1>2. pc[u] = Wake => mutex'[wakeup[u]] = mutex[wakeup[u]]
  BY SleeperFacts DEF Steady
<1> QED BY <1>1, <1>2 DEF WillServe, Holding

LEMMA ServedOn ==
  ASSUME Inv, LotInv, Served, NEW t \in Thread, Others(t), Steady, Serves(t),
         \A u \in Thread \ {t} : asleep'[u] => asleep[u]
  PROVE  Served'
<1> SUFFICES ASSUME NEW m \in Mutex, \E u \in Thread : sleep_address'[u] = m
             PROVE  \E u \in Thread : WillServe(u, m)'
  BY DEF Served, WillServe, Holding
<1>1. CASE \A u \in Thread : sleep_address[u] # m
  BY <1>1 DEF Serves
<1>2. CASE \E u \in Thread : sleep_address[u] = m
  <2>1. PICK u \in Thread : WillServe(u, m)
    BY <1>2 DEF Served
  <2>2. CASE u = t
    BY <2>1, <2>2 DEF Serves
  <2>3. CASE u # t
    BY <2>1, <2>3, OthersServe
  <2> QED BY <2>2, <2>3
<1> QED BY <1>1, <1>2

\* The steps after which t still serves whom it served.
LEMMA KeepsServing ==
  ASSUME NEW t \in Thread, \A m \in Mutex : WillServe(t, m) => WillServe(t, m)',
         \A u \in Thread : sleep_address'[u] \in Mutex => sleep_address[u] = sleep_address'[u]
  PROVE  Serves(t)
  BY DEF Serves

LEMMA LocksServe ==
  ASSUME Inv, LotInv, NEW t \in Thread,
         \/ \E m \in Mutex : Lock(t, m)
         \/ LockFull(t) \/ TryAcquire(t) \/ Spin(t) \/ MarkParked(t) \/ LockUnparked(t)
         \/ ParkOnMutex(t) \/ WaitUnparked(t)
  PROVE  Serves(t)
<1>0. pc \in [Thread -> Location] /\ mutex \in [Thread -> Mutex \union {NULL}]
  BY DEF Inv, Typed
<1>1. sleep_address' = sleep_address
  BY DEF Lock, LockFull, TryAcquire, Spin, MarkParked, LockUnparked, ParkOnMutex, WaitUnparked,
     lot, chains
<1>2. ASSUME NEW m \in Mutex, WillServe(t, m) PROVE WillServe(t, m)'
  <2>1. CASE \E n \in Mutex : Lock(t, n)
    BY <1>0, <1>2, <2>1 DEF WillServe, Holding, Lock
  <2>2. CASE LockFull(t) \/ TryAcquire(t) \/ Spin(t)
    BY <1>0, <1>2, <2>2 DEF WillServe, Holding, LockFull, TryAcquire, Spin, Goto
  <2>3. CASE MarkParked(t) \/ ParkOnMutex(t) \/ LockUnparked(t)
    BY <1>0, <1>2, <2>3 DEF WillServe, Holding, MarkParked, ParkOnMutex, LockUnparked, Goto, locals
  <2>4. CASE WaitUnparked(t)
    BY <1>0, <1>2, <2>4 DEF WillServe, Holding, WaitUnparked, FastLock, Goto, locals
  <2> QED BY <2>1, <2>2, <2>3, <2>4
<1> QED BY <1>1, <1>2, KeepsServing

LEMMA CallsServe ==
  ASSUME Inv, LotInv, NEW t \in Thread,
         \/ UnlockBucketLock(t) \/ WaitBucketLock(t) \/ SignalBucketLock(t)
         \/ LockPairFirst(t) \/ LockPairSecond(t)
         \/ \E c \in Cond : Wait(t, c) \/ Signal(t, c) \/ Broadcast(t, c)
         \/ broadcast_parking_control_validate(t) \/ make_parked_if_locked(t)
  PROVE  Serves(t)
<1>0. /\ pc \in [Thread -> Location] /\ mutex' = mutex
      /\ ret \in [Thread -> {Idle, Crit, WParked}] /\ val \in [Thread -> Mutex \union {NULL}]
  BY DEF Inv, Typed, UnlockBucketLock, WaitBucketLock, SignalBucketLock, LockPairFirst,
     LockPairSecond, Wait, Signal, Broadcast, broadcast_parking_control_validate,
     make_parked_if_locked, locals
<1>1. sleep_address' = sleep_address
  BY DEF UnlockBucketLock, WaitBucketLock, SignalBucketLock, LockPairFirst,
     LockPairSecond, Wait, Signal, Broadcast, broadcast_parking_control_validate,
     make_parked_if_locked, lot, chains
<1>2. ASSUME NEW m \in Mutex, WillServe(t, m) PROVE WillServe(t, m)'
  <2>1. CASE UnlockBucketLock(t) \/ WaitBucketLock(t) \/ SignalBucketLock(t)
    BY <1>0, <1>2, <2>1
    DEF WillServe, Holding, UnlockBucketLock, WaitBucketLock, SignalBucketLock, Goto, locals
  <2>2. CASE LockPairFirst(t) \/ LockPairSecond(t)
    BY <1>0, <1>2, <2>2 DEF WillServe, Holding, LockPairFirst, LockPairSecond, Goto, locals
  <2>3. CASE \E c \in Cond : Wait(t, c)
    BY <1>0, <1>2, <2>3 DEF WillServe, Holding, Wait, Goto
  <2>4. CASE \E c \in Cond : Signal(t, c)
    BY <1>0, <1>2, <2>4 DEF WillServe, Holding, Signal, Goto
  <2>5. CASE \E c \in Cond : Broadcast(t, c)
    BY <1>0, <1>2, <2>5 DEF WillServe, Holding, Broadcast, Goto
  <2>6. CASE broadcast_parking_control_validate(t)
    BY <1>0, <1>2, <2>6 DEF WillServe, Holding, broadcast_parking_control_validate, Goto, locals
  <2>7. CASE make_parked_if_locked(t)
    BY <1>0, <1>2, <2>7 DEF WillServe, Holding, make_parked_if_locked, Goto
  <2> QED BY <2>1, <2>2, <2>3, <2>4, <2>5, <2>6, <2>7
<1> QED BY <1>1, <1>2, KeepsServing

\* The fast unlock overlooks nobody: the parked bit is clear only when nobody
\* is queued.
LEMMA UnlockServes ==
  ASSUME Inv, LotInv, Words, NEW t \in Thread, Unlock(t) \/ UnlockFull(t)
  PROVE  Serves(t)
<1>0. /\ pc \in [Thread -> Location] /\ mutex' = mutex
      /\ ret \in [Thread -> {Idle, Crit, WParked}] /\ sleep_address' = sleep_address
      /\ pc[t] \in {Crit, WUnlock, UFull}
  BY DEF Inv, Typed, Unlock, UnlockFull, locals, lot, chains
<1> SUFFICES ASSUME NEW m \in Mutex, \E u \in Thread : sleep_address[u] = m, WillServe(t, m)
             PROVE  WillServe(t, m)'
  BY <1>0 DEF Serves
<1>1. mutex[t] = m
  BY <1>0 DEF WillServe
<1>2. state[m] # Locked
  BY DEF Words, Flagged, Locked
<1>3. CASE Unlock(t)
  BY <1>0, <1>1, <1>2, <1>3 DEF Unlock, Goto, WillServe, Holding
<1>4. CASE UnlockFull(t)
  BY <1>0, <1>1, <1>2, <1>4 DEF UnlockFull, Goto, WillServe, Holding
<1> QED BY <1>3, <1>4

\* Who parks on a mutex has seen under the bucket's lock that it is held.
LEMMA ParkServes ==
  ASSUME Inv, LotInv, NEW t \in Thread, Others(t), Steady, mutex_parking_control_validate(t)
  PROVE  Serves(t)
<1>0. /\ pc \in [Thread -> Location] /\ mutex' = mutex /\ pc[t] = LValid /\ mutex[t] \in Mutex
      /\ sleep_address \in [Thread -> Address \union {NULL}]
  BY DEF Inv, Typed, Placed, LotInv, LotTyped, mutex_parking_control_validate, locals
<1>1. CASE StillParked(t)
  <2>1. state[mutex[t]].lock
    BY <1>1 DEF StillParked, LockedParked
  <2>2. PICK u \in Thread : Holding(u) /\ mutex[u] = mutex[t]
    BY <1>0, <2>1 DEF Inv, Exclusion, LockBit
  <2>3. u # t
    BY <1>0, <2>2 DEF Holding
  <2>4. WillServe(u, mutex[t])'
    BY <1>0, <2>2, <2>3 DEF Others, WillServe, Holding
  <2>5. \A v \in Thread : v # t => sleep_address'[v] = sleep_address[v]
    BY <1>0, <1>1 DEF mutex_parking_control_validate, Park
  <2>6. \A m : WillServe(t, m) => m = mutex[t]
    BY <1>0 DEF WillServe, Holding
  <2>7. sleep_address'[t] = mutex[t]
    BY <1>0, <1>1 DEF mutex_parking_control_validate, Park
  <2> QED BY <1>0, <2>4, <2>5, <2>6, <2>7 DEF Serves
<1>2. CASE ~StillParked(t)
  <2>1. sleep_address' = sleep_address /\ Goto(t, LoadFull)
    BY <1>2 DEF mutex_parking_control_validate, chains
  <2>2. \A m : WillServe(t, m) => WillServe(t, m)'
    BY <1>0, <2>1 DEF Goto, WillServe, Holding
  <2> QED BY <2>1, <2>2, KeepsServing
<1> QED BY <1>1, <1>2

LEMMA WaitServes ==
  ASSUME Inv, LotInv, NEW t \in Thread, wait_parking_control_validate(t)
  PROVE  Serves(t)
<1>0. /\ pc \in [Thread -> Location] /\ mutex' = mutex /\ pc[t] = WValid /\ arg[t] \in Cond
      /\ sleep_address \in [Thread -> Address \union {NULL}] /\ arg[t] \notin Mutex
  BY KindAssumption DEF Inv, Typed, LotInv, LotTyped, Seated, wait_parking_control_validate, locals
<1>1. pc'[t] \in {WUnlock, Crit}
  BY <1>0 DEF wait_parking_control_validate, Goto
<1>2. \A m : WillServe(t, m) => WillServe(t, m)'
  BY <1>0, <1>1 DEF WillServe, Holding
<1>3. \A u \in Thread : sleep_address'[u] \in Mutex => sleep_address[u] = sleep_address'[u]
  BY <1>0 DEF wait_parking_control_validate, Park, chains
<1> QED BY <1>2, <1>3, KeepsServing

\* The slow unlock wakes one of those who are queued on the mutex, if any is.
LEMMA TakesServe ==
  ASSUME Inv, LotInv, Words, NEW t \in Thread, Others(t), Steady, UnlockTake(t) \/ SignalTake(t)
  PROVE  Serves(t)
<1>0. /\ pc \in [Thread -> Location] /\ mutex' = mutex /\ ret' = ret
      /\ ret \in [Thread -> {Idle, Crit, WParked}]
      /\ sleep_address \in [Thread -> Address \union {NULL}]
      /\ wakeup \in [Thread -> Thread \union {NULL}]
  BY DEF Inv, Typed, LotInv, LotTyped, RestTypes, UnlockTake, SignalTake
<1>1. /\ pc[t] \in {UTake, STake}
      /\ pc[t] = UTake => Target(t) = mutex[t]
      /\ \E w : Picked(t, Target(t), w)
  BY TakeTarget DEF Target
<1>2. PICK w : Picked(t, Target(t), w)
  BY <1>1
<1>3. \A u \in Thread : sleep_address'[u] # NULL => sleep_address'[u] = sleep_address[u]
  BY <1>0, <1>2 DEF Picked, chains
<1> SUFFICES ASSUME NEW m \in Mutex, NEW u \in Thread, sleep_address'[u] = m, WillServe(t, m)
             PROVE  WillServe(t, m)'
  BY <1>3, NullAssumption DEF Serves
<1>4. sleep_address[u] = m
  BY <1>3, NullAssumption
<1>5. mutex[t] = m /\ (pc[t] = STake => ret[t] = Crit)
  BY <1>1 DEF WillServe, Holding
<1>6. CASE pc[t] = STake
  BY <1>0, <1>2, <1>5, <1>6 DEF Picked, Goto, WillServe, Holding
<1>7. CASE pc[t] = UTake
  <2>1. Target(t) = m /\ w # NULL
    BY <1>1, <1>2, <1>4, <1>5, <1>7 DEF Picked
  <2>2. w \in Thread /\ sleep_address[w] = m /\ wakeup'[t] = w /\ pc'[t] = Wake
    BY <1>0, <1>2, <2>1 DEF Picked, Goto
  <2>3. mutex[w] = m
    BY <2>2 DEF Words, OwnMutex
  <2> QED BY <1>0, <2>2, <2>3 DEF WillServe
<1> QED BY <1>1, <1>6, <1>7

\* The thread that is woken still has to lock its mutex, or holds it.
LEMMA UnparkServes ==
  ASSUME Inv, LotInv, Words, NEW t \in Thread, Others(t), Steady, Unpark(t)
  PROVE  Serves(t)
<1>0. /\ pc \in [Thread -> Location] /\ mutex' = mutex /\ ret' = ret /\ pc[t] = Wake
      /\ ret \in [Thread -> {Idle, Crit, WParked}] /\ pc' = [pc EXCEPT ![t] = ret[t]]
      /\ asleep \in [Thread -> BOOLEAN] /\ asleep' = [asleep EXCEPT ![wakeup[t]] = FALSE]
      /\ sleep_address' = sleep_address
  BY DEF Inv, Typed, LotInv, RestTypes, Unpark, Goto, chains
<1> SUFFICES ASSUME NEW m \in Mutex, WillServe(t, m)
             PROVE  \E u \in Thread : WillServe(u, m)'
  BY <1>0 DEF Serves
<1> DEFINE w == wakeup[t]
<1>1. w \in Thread /\ InPark(w)
  BY <1>0, SleeperFacts
<1>2. CASE Holding(t) /\ mutex[t] = m
  BY <1>0, <1>2 DEF WillServe, Holding
<1>3. CASE mutex[w] = m
  <2>1. CASE w = t
    <3>1. ret[t] = WParked
      BY <1>0, <1>1, <2>1 DEF InPark
    <3> QED BY <1>0, <1>1, <1>3, <2>1, <3>1 DEF WillServe
  <2>2. CASE w # t
    <3>1. pc'[w] = pc[w] /\ ret'[w] = ret[w] /\ wakeup'[w] = wakeup[w] /\ ~asleep'[w]
      BY <1>0, <1>1, <2>2 DEF Others
    <3>2. CASE pc[w] \in {LParked, WParked}
      BY <1>0, <1>1, <1>3, <3>1, <3>2 DEF WillServe
    <3>3. CASE pc[w] \in {WUnlock, UFull, UCall, UTake}
      BY <1>0, <1>1, <1>3, <3>1, <3>3 DEF WillServe, Holding
    <3>4. CASE pc[w] = Wake
      <4>1. mutex[wakeup[w]] = mutex[w]
        BY <1>1, <3>4 DEF InPark, Words, WakesOwn
      <4> QED BY <1>0, <1>1, <1>3, <3>1, <3>4, <4>1 DEF WillServe
    <3> QED BY <1>1, <3>2, <3>3, <3>4 DEF InPark
  <2> QED BY <2>1, <2>2
<1> QED BY <1>0, <1>2, <1>3 DEF WillServe

\* Of the threads that a broadcast moves to a mutex one is woken, unless the
\* mutex is held and marked.
LEMMA RequeueServes ==
  ASSUME Inv, LotInv, Words, NEW t \in Thread, Others(t), Steady, Requeue(t)
  PROVE  Serves(t)
<1> PICK c, m : c = arg[t] /\ m = val[t]
  OBVIOUS
<1>1. PICK w : Moved(t, w)
  BY RequeueMoves
<1>0. /\ c = arg[t] /\ m = val[t] /\ c \in Cond /\ m \in Mutex /\ pc[t] = BRequeue /\ pc \in [Thread -> Location]
      /\ mutex' = mutex /\ ret' = ret /\ ret[t] \in {Idle, Crit} /\ Owns(t, c)
      /\ wakeup \in [Thread -> Thread \union {NULL}]
  BY MovingSeat, RequeueGoes DEF Inv, Typed, Placed, LotInv, RestTypes
<1>2. /\ w = NULL \/ (w \in Thread /\ sleep_address[w] = c)
      /\ w = NULL => ~unpark_one[t] \/ \A u \in Thread : sleep_address[u] # c
      /\ w # NULL => wakeup'[t] = w /\ pc'[t] = Wake
      /\ w = NULL => pc'[t] = ret[t]
      /\ \A u \in Thread : sleep_address'[u] \in {NULL, m, sleep_address[u]}
  BY <1>0, <1>1 DEF Moved, Goto
<1>3. \E u \in Thread : WillServe(u, m)'
  <2>1. CASE w # NULL
    <3>1. w \in Thread /\ sleep_address[w] = c /\ cond[c] = NULL
      BY <1>0, <1>2, <2>1 DEF Words, Emptied
    <3>2. mutex[w] \in Mutex
      BY <1>0, <3>1, SleeperFacts
    <3>3. PICK v \in Thread : Moving(v, c, mutex[w])
      BY <1>0, <3>1, <3>2, NullAssumption DEF Words, Named
    <3>4. v = t
      BY <1>0, <3>3, MovingSeat DEF Moving, Owns
    <3>5. mutex[w] = m
      BY <1>0, <3>3, <3>4 DEF Moving
    <3> QED BY <1>0, <1>2, <2>1, <3>5 DEF WillServe
  <2>2. CASE w = NULL
    <3>1. ~unpark_one[t]
      BY <1>0, <1>2, <2>2 DEF Words, Emptied
    <3>2. state[m].lock
      BY <1>0, <3>1 DEF Words, Marks, LockedParked
    <3>3. PICK u \in Thread : Holding(u) /\ mutex[u] = m
      BY <1>0, <3>2 DEF Inv, Exclusion, LockBit
    <3>4. CASE u = t
      BY <1>0, <1>2, <2>2, <3>3, <3>4 DEF WillServe, Holding
    <3>5. CASE u # t
      BY <1>0, <3>3, <3>5 DEF Others, WillServe, Holding
    <3> QED BY <3>4, <3>5
  <2> QED BY <2>1, <2>2
<1> SUFFICES ASSUME NEW n \in Mutex, \E u \in Thread : sleep_address'[u] = n,
                    (\A u \in Thread : sleep_address[u] # n) \/ WillServe(t, n)
             PROVE  \E u \in Thread : WillServe(u, n)'
  BY DEF Serves
<1>4. CASE n = m
  BY <1>3, <1>4
<1>5. CASE n # m
  <2>1. n # NULL
    BY NullAssumption
  <2>2. WillServe(t, n)
    BY <1>2, <1>5, <2>1
  <2>3. ret[t] = Crit /\ mutex[t] = n
    BY <1>0, <1>5, <2>2 DEF WillServe, Holding
  <2> QED BY <1>0, <1>2, <2>3 DEF WillServe, Holding
<1> QED BY <1>4, <1>5

LEMMA NextServed ==
  ASSUME Inv, LotInv, Words, Served, [Next]_vars
  PROVE  Served'
<1>1. ASSUME NEW t \in Thread, Step(t) PROVE Served'
  <2>1. Others(t) /\ Steady
    BY <1>1, StepLot, StepSteady DEF Local
  <2>2. \A u \in Thread \ {t} : asleep'[u] => asleep[u]
    <3>1. PICK w : Quiet(t) \/ Sleeps(t) \/ Takes1(t, w) \/ Rouses(t)
      BY <1>1, StepLot
    <3>2. asleep \in [Thread -> BOOLEAN]
      BY DEF LotInv, RestTypes
    <3> QED BY <3>1, <3>2 DEF Quiet, Sleeps, Takes1, Rouses
  <2>3. Serves(t)
    <3>1. CASE \/ \E m \in Mutex : Lock(t, m)
               \/ LockFull(t) \/ TryAcquire(t) \/ Spin(t) \/ MarkParked(t) \/ LockUnparked(t)
               \/ ParkOnMutex(t) \/ WaitUnparked(t)
      BY <3>1, LocksServe
    <3>2. CASE \/ UnlockBucketLock(t) \/ WaitBucketLock(t) \/ SignalBucketLock(t)
               \/ LockPairFirst(t) \/ LockPairSecond(t)
               \/ \E c \in Cond : Wait(t, c) \/ Signal(t, c) \/ Broadcast(t, c)
               \/ broadcast_parking_control_validate(t) \/ make_parked_if_locked(t)
      BY <3>2, CallsServe
    <3>3. CASE Unlock(t) \/ UnlockFull(t)
      BY <3>3, UnlockServes
    <3>4. CASE mutex_parking_control_validate(t) \/ wait_parking_control_validate(t)
      BY <2>1, <3>4, ParkServes, WaitServes
    <3>5. CASE UnlockTake(t) \/ SignalTake(t)
      BY <2>1, <3>5, TakesServe
    <3>6. CASE Unpark(t) \/ Requeue(t)
      BY <2>1, <3>6, UnparkServes, RequeueServes
    <3> QED BY <1>1, <3>1, <3>2, <3>3, <3>4, <3>5, <3>6 DEF Step, MutexStep, CondStep
  <2> QED BY <2>1, <2>2, <2>3, ServedOn
<1>2. CASE UNCHANGED vars
  BY <1>2 DEF Served, WillServe, Holding, vars, words, lot, chains, locals
<1> QED BY <1>1, <1>2 DEF Next, Done

LEMMA ServedThen == LotInv /\ Served => QueueServed
<1> SUFFICES ASSUME LotInv, Served, NEW m \in Mutex, NEW t \in Queued(m)
             PROVE  \E u \in Thread : WillServe(u, m)
  BY DEF QueueServed
<1>1. t \in Thread /\ sleep_address[t] = m
  BY QueuedAre DEF LotInv, Address
<1> QED BY <1>1 DEF Served

\* No wakeup is lost: while threads are queued on a mutex, some thread holds it,
\* is on its way to lock it or is about to wake one of them, whatever the
\* threads, the addresses and their hash.
THEOREM NoLostWakeup == Spec => []QueueServed
<1>1. Init => Served
  BY NullAssumption DEF Init, Served
<1>2. Inv /\ LotInv /\ Words /\ Served /\ [Next]_vars => Served'
  BY NextServed
<1>3. LotInv /\ Served => QueueServed
  BY ServedThen
<1> QED BY <1>1, <1>2, <1>3, WordsInvariance, PTL DEF Spec

(***************************************************************************)
(* The queue of a condition.  It is what Queue chooses because there is    *)
(* one such sequence: two that hold the same nodes and are in the order of *)
(* the chain are equal.                                                    *)
(***************************************************************************)
\* s, of n nodes, holds those that wait for a, in the order of their chain.
InLine(a, n, s) ==
  /\ n \in Nat /\ s \in [1 .. n -> Thread]
  /\ \A i, j \in 1 .. n : s[i] = s[j] => i = j
  /\ \A u \in Thread : Has(n, s, u) <=> sleep_address[u] = a
  /\ \A i, j \in 1 .. n : i < j => Ahead(s[i], s[j])

\* No node is before another and behind it.
LEMMA AheadOnce ==
  ASSUME NEW u, NEW v, Ahead(u, v), Ahead(v, u)
  PROVE  FALSE
<1>1. PICK b, n, q : Linked(b, n, q) /\ \E i, j \in 1 .. n : i < j /\ q[i] = u /\ q[j] = v
  BY DEF Ahead
<1>2. PICK i, j \in 1 .. n : i < j /\ q[i] = u /\ q[j] = v
  BY <1>1
<1>3. Has(n, q, v)
  BY <1>2 DEF Has
<1>4. PICK k, l \in 1 .. n : k < l /\ q[k] = v /\ q[l] = u
  BY <1>1, <1>3, AheadIs
<1>5. n \in Nat /\ i = l /\ j = k
  BY <1>1, <1>2, <1>4 DEF Linked, List, Seg
<1> QED BY <1>2, <1>4, <1>5

\* One of two queues of an address is a beginning of the other.
LEMMA LineBegins ==
  ASSUME NEW a, NEW n, NEW s, NEW m, NEW r, InLine(a, n, s), InLine(a, m, r)
  PROVE  \A i \in 1 .. n : i \in 1 .. m /\ s[i] = r[i]
<1> DEFINE Bad == {i \in 1 .. n : ~(i \in 1 .. m /\ s[i] = r[i])}
<1>0. n \in Nat /\ m \in Nat /\ s \in [1 .. n -> Thread] /\ r \in [1 .. m -> Thread]
  BY DEF InLine
<1>1. ASSUME Bad # {} PROVE FALSE
  <2>1. PICK i \in Bad : \A j \in Bad : i <= j
    <3>1. Bad \in SUBSET Nat
      BY <1>0
    <3> HIDE DEF Bad
    <3> QED BY <1>1, <3>1, Smallest
  <2>2. i \in 1 .. n /\ ~(i \in 1 .. m /\ s[i] = r[i])
    BY <2>1
  <2>3. ASSUME NEW j \in 1 .. n, j < i PROVE j \in 1 .. m /\ s[j] = r[j]
    BY <1>0, <2>1, <2>2, <2>3
  <2>4. PICK k \in 1 .. m : r[k] = s[i]
    <3>1. Has(n, s, s[i]) /\ s[i] \in Thread
      BY <1>0, <2>2 DEF Has
    <3>2. Has(m, r, s[i])
      BY <3>1 DEF InLine
    <3> QED BY <3>2 DEF Has
  <2>5. ~(k < i)
    <3>1. k < i => k \in 1 .. n
      BY <1>0, <2>2
    <3>2. k < i => s[k] = s[i]
      BY <2>3, <2>4, <3>1
    <3>3. k < i => k = i
      BY <2>2, <3>1, <3>2 DEF InLine
    <3> QED BY <1>0, <2>2, <3>3
  <2>6. i \in 1 .. m /\ i < k
    <3>1. i \in 1 .. m
      BY <1>0, <2>2, <2>5
    <3>2. i # k
      BY <2>2, <2>4, <3>1
    <3> QED BY <1>0, <2>5, <3>1, <3>2
  <2>7. PICK l \in 1 .. n : s[l] = r[i]
    <3>1. Has(m, r, r[i]) /\ r[i] \in Thread
      BY <1>0, <2>6 DEF Has
    <3>2. Has(n, s, r[i])
      BY <3>1 DEF InLine
    <3> QED BY <3>2 DEF Has
  <2>8. i < l
    <3>1. l < i => l \in 1 .. m /\ r[l] = r[i]
      BY <2>3, <2>7
    <3>2. l < i => l = i
      BY <2>6, <3>1 DEF InLine
    <3>3. l # i
      BY <2>2, <2>6, <2>7
    <3> QED BY <1>0, <2>2, <3>2, <3>3
  <2>9. Ahead(s[i], s[l]) /\ Ahead(r[i], r[k])
    BY <2>2, <2>6, <2>8 DEF InLine
  <2> QED BY <2>4, <2>7, <2>9, AheadOnce
<1> QED BY <1>1

LEMMA LineOnce ==
  ASSUME NEW a, NEW n, NEW s, NEW m, NEW r, InLine(a, n, s), InLine(a, m, r)
  PROVE  n = m /\ s = r
<1>1. /\ n \in Nat /\ m \in Nat /\ s \in [1 .. n -> Thread] /\ r \in [1 .. m -> Thread]
  BY DEF InLine
<1>2. /\ \A i \in 1 .. n : i \in 1 .. m /\ s[i] = r[i]
      /\ \A i \in 1 .. m : i \in 1 .. n
  BY LineBegins
<1>3. n = m
  <2>1. n > 0 => n \in 1 .. m
    BY <1>1, <1>2
  <2>2. m > 0 => m \in 1 .. n
    BY <1>1, <1>2
  <2> QED BY <1>1, <2>1, <2>2
<1> QED BY <1>1, <1>2, <1>3

\* What Queue says of every address that has such a sequence.
QueuesAre == \A a \in Address : \A n, s : InLine(a, n, s) => Queue(a) = s

LEMMA QueueIs ==
  ASSUME AllLinked, LotTyped, NEW a \in Address, NEW n, NEW s, InLine(a, n, s)
  PROVE  Queue(a) = s
<1> DEFINE b == Hash[a]
           S == Queued(a)
           Sorted(r) == \A i, j \in DOMAIN r :
                          i < j => \E k, l \in DOMAIN Chain(b) : k < l /\ r[i] = Chain(b)[k]
                                                                /\ r[j] = Chain(b)[l]
<1>0. n \in Nat /\ s \in [1 .. n -> Thread] /\ b \in Bucket
  BY AddressFacts DEF InLine
<1>1. PICK N, q : Linked(b, N, q) /\ Chain(b) = q /\ DOMAIN Chain(b) = 1 .. N
  BY <1>0, ChainHolds
<1>2. \A u : u \in S <=> u \in Thread /\ sleep_address[u] = a
  BY QueuedAre
<1>3. \A u \in Thread : sleep_address[u] = a => Has(N, q, u)
  <2>1. a # NULL
    BY AddressFacts
  <2> QED BY <1>1, <2>1 DEF Linked
<1> HIDE DEF S
<1>4. s \in [1 .. n -> S] /\ \A u \in S : \E i \in 1 .. n : s[i] = u
  <2>1. \A i \in 1 .. n : s[i] \in Thread /\ Has(n, s, s[i])
    BY <1>0 DEF Has
  <2>2. \A i \in 1 .. n : s[i] \in S
    BY <1>2, <2>1 DEF InLine
  <2>3. \A u \in S : Has(n, s, u)
    BY <1>2 DEF InLine
  <2> QED BY <1>0, <2>2, <2>3 DEF Has
<1>5. Cardinality(S) = n
  <2>1. s \in Bijection(1 .. n, S)
    <3>1. s \in Injection(1 .. n, S)
      BY <1>4 DEF InLine, Injection, IsInjective
    <3>2. s \in Surjection(1 .. n, S)
      BY <1>4 DEF Surjection
    <3> QED BY <3>1, <3>2 DEF Bijection
  <2>2. ExistsBijection(1 .. n, S)
    BY <2>1 DEF ExistsBijection
  <2> QED BY <1>0, <2>2, FS_CountingElements
<1>6. s \in SetToSeqs(S) /\ Sorted(s)
  <2>1. s \in SetToSeqs(S)
    BY <1>4, <1>5 DEF SetToSeqs, InLine
  <2>2. ASSUME NEW i \in 1 .. n, NEW j \in 1 .. n, i < j
        PROVE  \E k, l \in 1 .. N : k < l /\ s[i] = q[k] /\ s[j] = q[l]
    <3>1. Ahead(s[i], s[j])
      BY <2>2 DEF InLine
    <3>2. Has(N, q, s[i])
      <4>1. s[i] \in Thread /\ sleep_address[s[i]] = a
        BY <1>2, <1>4
      <4> QED BY <1>3, <4>1
    <3>3. PICK u, v : u = s[i] /\ v = s[j]
      OBVIOUS
    <3>4. Linked(b, N, q) /\ Ahead(u, v) /\ Has(N, q, u)
      BY <1>1, <3>1, <3>2, <3>3
    <3> HIDE DEF b
    <3>5. \E k, l \in 1 .. N : k < l /\ q[k] = u /\ q[l] = v
      BY <3>4, AheadIs
    <3> QED BY <3>3, <3>5
  <2>3. DOMAIN s = 1 .. n /\ DOMAIN Chain(b) = 1 .. N /\ Chain(b) = q
    BY <1>0, <1>1
  <2> HIDE DEF b
  <2>4. Sorted(s)
    BY <2>2, <2>3
  <2> QED BY <2>1, <2>4
<1>7. Queue(a) = CHOOSE r \in SetToSeqs(S) : Sorted(r)
  BY DEF Queue, S
<1>8. Queue(a) \in SetToSeqs(S) /\ Sorted(Queue(a))
  <2> HIDE DEF Sorted
  <2> QED BY <1>6, <1>7
<1>9. InLine(a, n, Queue(a))
  <2>1. PICK r : r = Queue(a)
    OBVIOUS
  <2>2. /\ r \in [1 .. n -> S] /\ \A i, j \in 1 .. n : r[i] = r[j] => i = j
    BY <1>5, <1>8, <2>1 DEF SetToSeqs
  <2>3. r \in [1 .. n -> Thread] /\ \A u \in Thread : Has(n, r, u) => sleep_address[u] = a
    BY <1>2, <2>2 DEF Has
  <2>4. ASSUME NEW u \in Thread, sleep_address[u] = a PROVE Has(n, r, u)
    <3>1. u \in S
      BY <1>2, <2>4
    <3>2. r \in Surjection(1 .. n, S)
      <4>1. r \in Injection(1 .. n, S)
        BY <2>2 DEF Injection, IsInjective
      <4>2. IsFiniteSet(1 .. n) /\ Cardinality(1 .. n) = n /\ IsFiniteSet(S)
        <5>1. s \in Surjection(1 .. n, S) /\ IsFiniteSet(1 .. n) /\ Cardinality(1 .. n) = n
          BY <1>0, <1>4, FS_Interval DEF Surjection
        <5> QED BY <5>1, FS_Surjection
      <4> QED BY <1>5, <4>1, <4>2, FS_Injection
    <3> QED BY <3>1, <3>2 DEF Surjection, Has
  <2>5. ASSUME NEW i \in 1 .. n, NEW j \in 1 .. n, i < j PROVE Ahead(r[i], r[j])
    <3>1. PICK k, l \in 1 .. N : k < l /\ r[i] = q[k] /\ r[j] = q[l]
      BY <1>1, <1>8, <2>1, <2>2, <2>5
    <3> QED BY <1>0, <1>1, <3>1 DEF Ahead
  <2> QED BY <1>0, <2>1, <2>2, <2>3, <2>4, <2>5 DEF InLine
<1> QED BY <1>9, LineOnce

LEMMA QueuesChosen == AllLinked /\ LotTyped => QueuesAre
  BY QueueIs DEF QueuesAre

LEMMA QueuesChosenNext == (AllLinked /\ LotTyped)' => QueuesAre'
  BY QueuesChosen, PTL

(***************************************************************************)
(* The queues through a step.                                              *)
(***************************************************************************)
\* Each condition has a queue.
Lined == \A c \in Cond : \E n, s : InLine(c, n, s)

\* The queue of c is what it was.
KeepsLine(c) == \A n, s : InLine(c, n, s) => InLine(c, n, s)'

\* Nobody begins or ceases to wait for c.
LEMMA SameLine ==
  ASSUME NEW c, Orderly, \A u \in Thread : sleep_address'[u] = c <=> sleep_address[u] = c
  PROVE  KeepsLine(c)
<1> SUFFICES ASSUME NEW n, NEW s, InLine(c, n, s) PROVE InLine(c, n, s)'
  BY DEF KeepsLine
<1>1. /\ n \in Nat /\ s \in [1 .. n -> Thread]
      /\ \A i, j \in 1 .. n : s[i] = s[j] => i = j
      /\ \A u \in Thread : Has(n, s, u) <=> sleep_address[u] = c
      /\ \A i, j \in 1 .. n : i < j => Ahead(s[i], s[j])
  BY DEF InLine
<1>2. \A u \in Thread : Has(n, s, u) <=> sleep_address'[u] = c
  BY <1>1
<1>3. ASSUME NEW i \in 1 .. n, NEW j \in 1 .. n, i < j PROVE Ahead(s[i], s[j])'
  <2>1. /\ s[i] \in Thread /\ s[j] \in Thread /\ Ahead(s[i], s[j])
        /\ Has(n, s, s[i]) /\ Has(n, s, s[j])
    BY <1>1, <1>3 DEF Has
  <2>2. /\ sleep_address'[s[i]] = sleep_address[s[i]]
        /\ sleep_address'[s[j]] = sleep_address[s[j]]
    BY <1>1, <1>2, <2>1
  <2> QED BY <2>1, <2>2 DEF Orderly
<1> QED BY <1>1, <1>2, <1>3 DEF InLine, Has

\* The chains are what they were.
LEMMA ChainsKeep ==
  ASSUME UNCHANGED chains
  PROVE  Orderly /\ \A c : KeepsLine(c)
<1>1. \A b, n, q : Linked(b, n, q) => Linked(b, n, q)'
  BY DEF Linked, List, Seg, Has, chains
<1>2. Orderly
  <2> SUFFICES ASSUME NEW u, NEW v, Ahead(u, v) PROVE Ahead(u, v)'
    BY DEF Orderly
  <2>1. PICK b, n, q : b \in Bucket /\ Linked(b, n, q) /\ \E i, j \in 1 .. n : i < j /\ q[i] = u /\ q[j] = v
    BY DEF Ahead
  <2> QED BY <1>1, <2>1 DEF Ahead, Bucket
<1>3. \A u \in Thread : sleep_address'[u] = sleep_address[u]
  BY DEF chains
<1> QED BY <1>2, <1>3, SameLine

\* t joins the queue of c.
LEMMA LongerLine ==
  ASSUME NEW c, NEW n, NEW s, InLine(c, n, s), Orderly, NEW t \in Thread, sleep_address[t] # c,
         sleep_address'[t] = c, \A u \in Thread \ {t} : sleep_address'[u] = sleep_address[u],
         \A u \in Thread : sleep_address[u] = c => Ahead(u, t)'
  PROVE  InLine(c, n + 1, Behind(n, s, t))'
<1> DEFINE r == Behind(n, s, t)
<1>1. /\ n \in Nat /\ s \in [1 .. n -> Thread]
      /\ \A i, j \in 1 .. n : s[i] = s[j] => i = j
      /\ \A u \in Thread : Has(n, s, u) <=> sleep_address[u] = c
      /\ \A i, j \in 1 .. n : i < j => Ahead(s[i], s[j])
  BY DEF InLine
<1>2. \A i \in 1 .. n : s[i] \in Thread /\ s[i] # t /\ sleep_address[s[i]] = c
  <2>1. \A i \in 1 .. n : s[i] \in Thread /\ Has(n, s, s[i])
    BY <1>1 DEF Has
  <2> QED BY <1>1, <2>1
<1>3. /\ r \in [1 .. n + 1 -> Thread]
      /\ r[n + 1] = t
      /\ \A i \in 1 .. n : r[i] = s[i]
      /\ \A i \in 1 .. n + 1 : i \in 1 .. n \/ i = n + 1
  BY <1>1, <1>2 DEF Behind
<1>4. \A u : Has(n + 1, r, u) <=> Has(n, s, u) \/ u = t
  BY <1>1, HasBehind
<1> HIDE DEF r
<1>5. \A i, j \in 1 .. n + 1 : r[i] = r[j] => i = j
  BY <1>1, <1>2, <1>3
<1>6. \A u \in Thread : Has(n + 1, r, u) <=> sleep_address'[u] = c
  BY <1>1, <1>4
<1>7. ASSUME NEW i \in 1 .. n + 1, NEW j \in 1 .. n + 1, i < j PROVE Ahead(r[i], r[j])'
  <2>1. i \in 1 .. n
    BY <1>1, <1>7
  <2>2. CASE j = n + 1
    BY <1>2, <1>3, <2>1, <2>2
  <2>3. CASE j \in 1 .. n
    <3>1. Ahead(s[i], s[j])
      BY <1>1, <1>7, <2>1, <2>3
    <3>2. Ahead(s[i], s[j])'
      BY <1>2, <2>1, <2>3, <3>1 DEF Orderly
    <3> QED BY <1>3, <2>1, <2>3, <3>2
  <2> QED BY <1>3, <2>2, <2>3
<1>8. InLine(c, n + 1, r)'
  BY <1>1, <1>3, <1>5, <1>6, <1>7 DEF InLine, Has
<1> QED BY <1>8 DEF r

\* w, which was before all others that wait for c, leaves the queue.
LEMMA ShorterLine ==
  ASSUME NEW c, NEW n, NEW s, InLine(c, n, s), Orderly, NEW w \in Thread, sleep_address[w] = c,
         sleep_address'[w] # c, \A u \in Thread \ {w} : sleep_address'[u] = sleep_address[u],
         \A u \in Thread \ {w} : sleep_address[u] = c => Ahead(w, u)
  PROVE  n > 0 /\ s[1] = w /\ InLine(c, n - 1, Without(n, s, 1))'
<1> DEFINE r == Without(n, s, 1)
<1>1. /\ n \in Nat /\ s \in [1 .. n -> Thread]
      /\ \A i, j \in 1 .. n : s[i] = s[j] => i = j
      /\ \A u \in Thread : Has(n, s, u) <=> sleep_address[u] = c
      /\ \A i, j \in 1 .. n : i < j => Ahead(s[i], s[j])
  BY DEF InLine
<1>2. PICK k \in 1 .. n : s[k] = w
  BY <1>1 DEF Has
<1>3. \A i \in 1 .. n : s[i] \in Thread /\ sleep_address[s[i]] = c
  <2>1. \A i \in 1 .. n : s[i] \in Thread /\ Has(n, s, s[i])
    BY <1>1 DEF Has
  <2> QED BY <1>1, <2>1
<1>4. n > 0 /\ 1 \in 1 .. n
  BY <1>1, <1>2
<1>5. s[1] = w
  <2>1. ASSUME k # 1 PROVE FALSE
    <3>1. Ahead(s[1], w)
      BY <1>1, <1>2, <1>4, <2>1
    <3>2. s[1] # w
      BY <1>1, <1>2, <1>4, <2>1
    <3>3. Ahead(w, s[1])
      BY <1>3, <1>4, <3>2
    <3> QED BY <3>1, <3>3, AheadOnce
  <2> QED BY <1>2, <2>1
<1>6. /\ r \in [1 .. n - 1 -> Thread]
      /\ \A i \in 1 .. n - 1 : i + 1 \in 1 .. n /\ i + 1 # 1 /\ r[i] = s[i + 1]
  BY <1>1, <1>4 DEF Without
<1>7. \A u : Has(n - 1, r, u) <=> Has(n, s, u) /\ u # w
  BY <1>1, <1>4, <1>5, HasWithout
<1> HIDE DEF r
<1>8. \A i, j \in 1 .. n - 1 : r[i] = r[j] => i = j
  <2> SUFFICES ASSUME NEW i \in 1 .. n - 1, NEW j \in 1 .. n - 1, r[i] = r[j] PROVE i = j
    OBVIOUS
  <2>1. i + 1 = j + 1
    BY <1>1, <1>6
  <2> QED BY <2>1
<1>9. \A u \in Thread : Has(n - 1, r, u) <=> sleep_address'[u] = c
  BY <1>1, <1>7
<1>10. ASSUME NEW i \in 1 .. n - 1, NEW j \in 1 .. n - 1, i < j PROVE Ahead(r[i], r[j])'
  <2>1. i + 1 < j + 1 /\ i + 1 \in 1 .. n /\ j + 1 \in 1 .. n /\ r[i] = s[i + 1] /\ r[j] = s[j + 1]
    BY <1>6, <1>10
  <2>2. Ahead(r[i], r[j])
    BY <1>1, <2>1
  <2>3. r[i] # w /\ r[j] # w /\ r[i] \in Thread /\ r[j] \in Thread
    BY <1>1, <1>4, <1>5, <1>6, <2>1
  <2> QED BY <2>2, <2>3 DEF Orderly
<1>11. n - 1 \in Nat
  BY <1>1, <1>4
<1>12. InLine(c, n - 1, r)'
  BY <1>6, <1>8, <1>9, <1>10, <1>11 DEF InLine, Has
<1> QED BY <1>4, <1>5, <1>12 DEF r

\* Nobody waits for c.
LEMMA NoLine ==
  ASSUME NEW c, \A u \in Thread : sleep_address[u] # c
  PROVE  InLine(c, 0, <<>>)
<1>1. <<>> \in [1 .. 0 -> Thread] /\ \A u : ~Has(0, <<>>, u)
  BY DEF Has
<1> QED BY <1>1 DEF InLine

(***************************************************************************)
(* What each step does to the queues of the conditions.                    *)
(***************************************************************************)
\* The steps that change no chain, and whether they write a condition's word.
LEMMA QuietLines ==
  ASSUME LotInv, Inv, NEW t \in Thread,
         \/ \E m \in Mutex : Lock(t, m)
         \/ LockFull(t) \/ TryAcquire(t) \/ Spin(t) \/ MarkParked(t) \/ LockUnparked(t)
         \/ Unlock(t) \/ UnlockFull(t) \/ WaitUnparked(t) \/ Unpark(t)
         \/ ParkOnMutex(t) \/ UnlockBucketLock(t) \/ WaitBucketLock(t) \/ SignalBucketLock(t)
         \/ LockPairFirst(t) \/ LockPairSecond(t)
         \/ broadcast_parking_control_validate(t) \/ make_parked_if_locked(t)
         \/ \E c \in Cond : Wait(t, c) \/ Signal(t, c) \/ Broadcast(t, c)
  PROVE  \A c \in Cond : KeepsLine(c)
<1>1. UNCHANGED chains
  BY MovesQuiet, UnparkRouses
<1> QED BY <1>1, ChainsKeep

LEMMA MutexValidateLines ==
  ASSUME LotInv, Inv, NEW t \in Thread, mutex_parking_control_validate(t)
  PROVE  cond' = cond /\ \A c \in Cond : KeepsLine(c)
<1>0. cond' = cond
  BY DEF mutex_parking_control_validate, words
<1>1. CASE UNCHANGED chains
  BY <1>0, <1>1, ChainsKeep
<1>2. CASE ~UNCHANGED chains
  <2>1. PICK m \in Mutex : m = mutex[t]
    BY DEF mutex_parking_control_validate, Inv, Placed, Elsewhere, Notifying
  <2>2. Park(t, m) /\ pc[t] = LValid /\ m \in Address
    BY <1>2, <2>1 DEF mutex_parking_control_validate, Address
  <2>3. sleep_address[t] = NULL
    BY <2>2, SleeperFacts DEF InPark
  <2>4. Orderly
    BY <2>2, <2>3, ParkLinks DEF LotInv
  <2>5. \A u \in Thread : sleep_address'[u] = IF u = t THEN m ELSE sleep_address[u]
    BY <2>2 DEF Park, LotInv, LotTyped
  <2>6. \A c \in Cond : c # m /\ c # NULL
    BY KindAssumption, NullAssumption
  <2> QED BY <1>0, <2>3, <2>4, <2>5, <2>6, SameLine
<1> QED BY <1>1, <1>2

LEMMA UnlockTakeLines ==
  ASSUME LotInv, Inv, NEW t \in Thread, UnlockTake(t)
  PROVE  cond' = cond /\ \A c \in Cond : KeepsLine(c)
<1>0. cond' = cond
  BY DEF UnlockTake
<1>1. PICK w : Picked(t, Target(t), w)
  BY TakeTarget
<1>2. Orderly /\ Target(t) \in Mutex
  BY TakeTarget DEF UnlockTake
<1>3. \A c \in Cond : c # Target(t) /\ c # NULL
  BY <1>2, KindAssumption, NullAssumption
<1>4. \A c \in Cond : \A u \in Thread : sleep_address'[u] = c <=> sleep_address[u] = c
  <2>1. CASE w = NULL
    BY <1>1, <2>1 DEF Picked, chains
  <2>2. CASE w # NULL
    <3>1. \A u \in Thread : sleep_address'[u] = IF u = w THEN NULL ELSE sleep_address[u]
      BY <1>1, <2>2 DEF Picked, LotInv, LotTyped
    <3>2. sleep_address[w] = Target(t)
      BY <1>1, <2>2 DEF Picked
    <3> QED BY <1>3, <3>1, <3>2
  <2> QED BY <2>1, <2>2
<1> QED BY <1>0, <1>2, <1>4, SameLine

\* The queue of the condition goes to its mutex, those of the others stay.
LEMMA RequeueLines ==
  ASSUME LotInv, Inv, Words, NEW t \in Thread, Requeue(t)
  PROVE  /\ cond' = cond
         /\ \A c \in Cond : \/ KeepsLine(c)
                            \/ cond[c] = NULL /\ \A u \in Thread : sleep_address'[u] # c
<1>1. PICK w : Moved(t, w)
  BY RequeueMoves
<1>2. Orderly /\ cond' = cond /\ pc[t] = BRequeue
  BY RequeueMoves, RequeueGoes
<1>3. arg[t] \in Cond /\ val[t] \in Mutex /\ cond[arg[t]] = NULL
  BY <1>2, MovingSeat DEF Words, Emptied
<1>4. \A c \in Cond : c # val[t] /\ c # NULL
  BY <1>3, KindAssumption, NullAssumption
<1>5. /\ \A u \in Thread : sleep_address'[u] = IF u = w THEN NULL
                                               ELSE IF sleep_address[u] = arg[t] THEN val[t]
                                               ELSE sleep_address[u]
      /\ w = NULL \/ sleep_address[w] = arg[t]
  BY <1>1 DEF Moved
<1>6. ASSUME NEW c \in Cond, c # arg[t] PROVE KeepsLine(c)
  <2>1. \A u \in Thread : sleep_address'[u] = c <=> sleep_address[u] = c
    <3>1. \A u \in Thread : u # NULL
      BY NullAssumption
    <3> QED BY <1>4, <1>5, <1>6, <3>1
  <2> QED BY <1>2, <2>1, SameLine
<1>7. ASSUME NEW c \in Cond, c = arg[t]
      PROVE  cond[c] = NULL /\ \A u \in Thread : sleep_address'[u] # c
  BY <1>3, <1>4, <1>5, <1>7
<1> QED BY <1>2, <1>6, <1>7

\* A thread whose node may be queued under a locked bucket: only the owner of the
\* bucket can be moving its queue.
LEMMA NamedHere ==
  ASSUME LotInv, Inv, Words, NEW t \in Thread, NEW c \in Cond, Owns(t, c),
         pc[t] \notin {BMark, BRequeue}
  PROVE  \A u \in Thread : sleep_address[u] = c => cond[c] # NULL
<1> SUFFICES ASSUME NEW u \in Thread, sleep_address[u] = c, cond[c] = NULL PROVE FALSE
  OBVIOUS
<1>1. mutex[u] \in Mutex
  BY SleeperFacts
<1>2. PICK v \in Thread : Moving(v, c, mutex[u])
  <2>1. cond[c] # mutex[u]
    BY <1>1, NullAssumption
  <2> QED BY <2>1 DEF Words, Named
<1>3. Owns(v, c) /\ pc[v] \in {BMark, BRequeue}
  BY <1>2, MovingSeat DEF Moving
<1> QED BY <1>3 DEF Owns

\* wait() queues its caller behind the others, or returns at once.
LEMMA WaitValidateLines ==
  ASSUME LotInv, Inv, Words, Lined, NEW t \in Thread, wait_parking_control_validate(t)
  PROVE  \/ cond' = cond /\ pc'[t] = Crit /\ \A c \in Cond : KeepsLine(c)
         \/ \E c \in Cond :
              /\ pc'[t] = WUnlock
              /\ cond'[c] # NULL
              /\ \A d \in Cond \ {c} : cond'[d] = cond[d] /\ KeepsLine(d)
              /\ \E n, s : /\ InLine(c, n, s) /\ InLine(c, n + 1, Behind(n, s, t))'
                           /\ cond[c] = NULL => n = 0
<1>0. pc[t] = WValid /\ arg[t] \in Cond /\ mutex[t] \in Mutex /\ Owns(t, arg[t])
  BY DEF wait_parking_control_validate, LotInv, Seated, Inv, Placed, Elsewhere, Notifying
<1>1. CASE cond[arg[t]] \notin {NULL, mutex[t]}
  <2>1. cond' = cond /\ UNCHANGED chains /\ pc'[t] = Crit
    BY <1>1 DEF wait_parking_control_validate, Goto, Inv, Typed
  <2> QED BY <2>1, ChainsKeep
<1>2. CASE cond[arg[t]] \in {NULL, mutex[t]}
  <2>1. PICK c \in Cond : c = arg[t]
    BY <1>0
  <2>2. /\ cond' = [cond EXCEPT ![c] = mutex[t]] /\ Park(t, c) /\ pc'[t] = WUnlock
        /\ c \in Address /\ cond \in [Cond -> Mutex \union {NULL}]
    BY <1>2, <2>1 DEF wait_parking_control_validate, Goto, Inv, Typed, Address
  <2>3. sleep_address[t] = NULL
    BY <1>0, SleeperFacts DEF InPark
  <2>4. Orderly /\ \A u \in Thread : sleep_address[u] = c => Ahead(u, t)'
    BY <2>2, <2>3, ParkLinks DEF LotInv
  <2>5. \A u \in Thread : sleep_address'[u] = IF u = t THEN c ELSE sleep_address[u]
    BY <2>2 DEF Park, LotInv, LotTyped
  <2>6. cond'[c] # NULL /\ \A d \in Cond \ {c} : cond'[d] = cond[d]
    BY <1>0, <2>2, NullAssumption
  <2>7. ASSUME NEW d \in Cond \ {c} PROVE KeepsLine(d)
    <3>1. \A u \in Thread : sleep_address'[u] = d <=> sleep_address[u] = d
      BY <2>3, <2>5, <2>7, NullAssumption
    <3> QED BY <2>4, <3>1, SameLine
  <2>8. PICK n, s : InLine(c, n, s)
    BY DEF Lined
  <2>9. InLine(c, n + 1, Behind(n, s, t))'
    <3>1. sleep_address[t] # c /\ sleep_address'[t] = c
          /\ \A u \in Thread \ {t} : sleep_address'[u] = sleep_address[u]
      BY <2>3, <2>5, NullAssumption
    <3> QED BY <2>4, <2>8, <3>1, LongerLine
  <2>10. ASSUME cond[c] = NULL PROVE n = 0
    <3>1. \A u \in Thread : sleep_address[u] # c
      BY <1>0, <2>1, <2>10, NamedHere
    <3>2. ~(1 \in 1 .. n)
      BY <2>8, <3>1 DEF InLine, Has
    <3> QED BY <2>8, <3>2 DEF InLine
  <2> QED BY <2>2, <2>6, <2>7, <2>8, <2>9, <2>10
<1> QED BY <1>1, <1>2

\* signal() takes the one that has waited longest, if there is one.
LEMMA SignalTakeLines ==
  ASSUME LotInv, Inv, Words, Lined, NEW t \in Thread, SignalTake(t)
  PROVE  \/ cond' = cond /\ pc'[t] = ret[t] /\ \A c \in Cond : KeepsLine(c)
         \/ \E c \in Cond :
              /\ pc'[t] = Wake
              /\ cond[c] # NULL
              /\ \A d \in Cond \ {c} : cond'[d] = cond[d] /\ KeepsLine(d)
              /\ \E n, s : /\ InLine(c, n, s) /\ n > 0 /\ InLine(c, n - 1, Without(n, s, 1))'
                           /\ IF n = 1 THEN cond'[c] = NULL ELSE cond'[c] = cond[c]
<1>0. pc[t] = STake /\ arg[t] \in Cond /\ Owns(t, arg[t]) /\ Target(t) = arg[t]
  BY DEF SignalTake, LotInv, Seated, Target
<1>1. PICK w : Picked(t, arg[t], w)
  BY <1>0, TakeTarget
<1>2. Orderly
  BY TakeTarget
<1>3. PICK c \in Cond : c = arg[t]
  BY <1>0
<1>4. cond' = (IF MoreWaiters(c) THEN cond ELSE [cond EXCEPT ![c] = NULL])
      /\ cond \in [Cond -> Mutex \union {NULL}] /\ pc \in [Thread -> Location]
  BY <1>3 DEF SignalTake, Inv, Typed
<1>5. MoreWaiters(c) <=> \E u \in Thread \ {w} : sleep_address[u] = c
  BY <1>1, <1>3 DEF Picked
<1>6. CASE w = NULL
  <2>1. (\A u \in Thread : sleep_address[u] # c) /\ UNCHANGED chains /\ Goto(t, ret[t])
    BY <1>1, <1>3, <1>6 DEF Picked
  <2>2. cond[c] = NULL
    BY <2>1 DEF Words, Told
  <2>3. cond' = cond
    BY <1>4, <2>2
  <2>4. pc'[t] = ret[t]
    BY <1>4, <2>1 DEF Goto
  <2> QED BY <2>1, <2>3, <2>4, ChainsKeep
<1>7. CASE w # NULL
  <2>1. /\ w \in Thread /\ sleep_address[w] = c
        /\ sleep_address' = [sleep_address EXCEPT ![w] = NULL] /\ pc'[t] = Wake
        /\ \A u \in Thread \ {w} : sleep_address[u] = c => Ahead(w, u)
    BY <1>1, <1>3, <1>4, <1>7 DEF Picked, Goto
  <2>2. \A u \in Thread : sleep_address'[u] = IF u = w THEN NULL ELSE sleep_address[u]
    BY <2>1 DEF LotInv, LotTyped
  <2>3. cond[c] # NULL
    BY <1>0, <1>3, <2>1, NamedHere
  <2>4. ASSUME NEW d \in Cond \ {c} PROVE cond'[d] = cond[d] /\ KeepsLine(d)
    <3>1. \A u \in Thread : sleep_address'[u] = d <=> sleep_address[u] = d
      BY <2>1, <2>2, <2>4, NullAssumption
    <3>2. cond'[d] = cond[d]
      BY <1>4, <2>4
    <3> QED BY <1>2, <3>1, <3>2, SameLine
  <2>5. PICK n, s : InLine(c, n, s)
    BY DEF Lined
  <2>6. n > 0 /\ s[1] = w /\ InLine(c, n - 1, Without(n, s, 1))'
    <3>1. sleep_address'[w] # c /\ \A u \in Thread \ {w} : sleep_address'[u] = sleep_address[u]
      BY <2>1, <2>2, NullAssumption
    <3> QED BY <1>2, <2>1, <2>5, <3>1, ShorterLine
  <2>7. IF n = 1 THEN cond'[c] = NULL ELSE cond'[c] = cond[c]
    <3>1. n \in Nat /\ s \in [1 .. n -> Thread] /\ \A i, j \in 1 .. n : s[i] = s[j] => i = j
      BY <2>5 DEF InLine
    <3>2. \A u \in Thread : sleep_address[u] = c => \E i \in 1 .. n : s[i] = u
      BY <2>5 DEF InLine, Has
    <3>3. CASE n = 1
      <4>1. ~MoreWaiters(c)
        BY <1>5, <2>6, <3>2, <3>3
      <4> QED BY <1>4, <3>3, <4>1
    <3>4. CASE n # 1
      <4>1. 1 \in 1 .. n /\ 2 \in 1 .. n
        BY <2>6, <3>1, <3>4
      <4>2. s[2] \in Thread \ {w} /\ Has(n, s, s[2])
        BY <2>6, <3>1, <4>1 DEF Has
      <4>3. sleep_address[s[2]] = c
        BY <2>5, <4>2 DEF InLine
      <4> QED BY <1>4, <1>5, <3>4, <4>2, <4>3
    <3> QED BY <3>3, <3>4
  <2> QED BY <2>1, <2>3, <2>4, <2>5, <2>6, <2>7
<1> QED BY <1>6, <1>7

\* Every condition goes on having a queue.
LEMMA NextLined ==
  ASSUME LotInv, Inv, Words, Lined, [Next]_vars
  PROVE  Lined'
<1>1. ASSUME \A c \in Cond : KeepsLine(c) PROVE Lined'
  BY <1>1 DEF Lined, KeepsLine
<1>2. ASSUME NEW t \in Thread, wait_parking_control_validate(t) PROVE Lined'
  <2>1. \A c \in Cond : KeepsLine(c) \/ \E n, s : InLine(c, n, s)'
    BY <1>2, WaitValidateLines
  <2> QED BY <2>1 DEF Lined, KeepsLine
<1>3. ASSUME NEW t \in Thread, SignalTake(t) PROVE Lined'
  <2>1. \A c \in Cond : KeepsLine(c) \/ \E n, s : InLine(c, n, s)'
    BY <1>3, SignalTakeLines
  <2> QED BY <2>1 DEF Lined, KeepsLine
<1>4. ASSUME NEW t \in Thread, Requeue(t) PROVE Lined'
  <2>1. ASSUME NEW c \in Cond, \A u \in Thread : sleep_address'[u] # c
        PROVE  InLine(c, 0, <<>>)'
    <3>1. <<>> \in [1 .. 0 -> Thread] /\ \A u : ~Has(0, <<>>, u)
      BY DEF Has
    <3> QED BY <2>1, <3>1 DEF InLine, Has
  <2>2. \A c \in Cond : KeepsLine(c) \/ \E n, s : InLine(c, n, s)'
    BY <1>4, <2>1, RequeueLines
  <2> QED BY <2>2 DEF Lined, KeepsLine
<1>5. ASSUME NEW t \in Thread, MutexStep(t) PROVE Lined'
  BY <1>1, <1>5, QuietLines, MutexValidateLines, UnlockTakeLines DEF MutexStep
<1>6. ASSUME NEW t \in Thread, CondStep(t) PROVE Lined'
  BY <1>1, <1>2, <1>3, <1>4, <1>6, QuietLines DEF CondStep
<1>7. CASE UNCHANGED vars
  <2>1. UNCHANGED chains
    BY <1>7 DEF vars, lot
  <2> QED BY <1>1, <2>1, ChainsKeep
<1> QED BY <1>5, <1>6, <1>7 DEF Next, Step, Done

LEMMA InitLined == Init => Lined
<1> SUFFICES ASSUME Init, NEW c \in Cond PROVE \E n, s : InLine(c, n, s)
  BY DEF Lined
<1>1. \A u \in Thread : sleep_address[u] # c
  BY NullAssumption DEF Init
<1> QED BY <1>1, NoLine

LEMMA LinedInvariance == Spec => [](Inv /\ LotInv /\ Words /\ Lined)
<1>1. Inv /\ LotInv /\ Words /\ Lined /\ [Next]_vars => Lined'
  BY NextLined
<1> QED BY <1>1, InitLined, WordsInvariance, PTL DEF Spec

(***************************************************************************)
(* What the monitor sees: its three variables.                             *)
(***************************************************************************)
Holders == [m \in Mutex |-> HolderOf(m)]
Lines   == [c \in Cond |-> Waiters(c)]
Stages  == [t \in Thread |-> StatusOf(t)]

MonitorStep == [Abstract!MonitorNext]_(Abstract!mvars)

HoldersRight ==
  \A m \in Mutex : /\ HolderOf(m) \in Thread \union {NULL}
                   /\ \A t \in Thread : HolderOf(m) = t <=> Holding(t) /\ mutex[t] = m

LEMMA HolderUnique == Exclusion => HoldersRight
<1> SUFFICES ASSUME Exclusion, NEW m \in Mutex
             PROVE  /\ HolderOf(m) \in Thread \union {NULL}
                    /\ \A t \in Thread : HolderOf(m) = t <=> Holding(t) /\ mutex[t] = m
  BY DEF HoldersRight
<1> DEFINE Has1(t) == Holding(t) /\ mutex[t] = m
<1>1. \A t, u \in Thread : Has1(t) /\ Has1(u) => t = u
  BY DEF Exclusion, MutualExclusion
<1>2. HolderOf(m) = IF \E t \in Thread : Has1(t) THEN CHOOSE t \in Thread : Has1(t) ELSE NULL
  BY DEF HolderOf
<1> HIDE DEF Has1
<1>3. CASE \E t \in Thread : Has1(t)
  <2>1. HolderOf(m) \in Thread /\ Has1(HolderOf(m))
    BY <1>2, <1>3
  <2>2. \A t \in Thread : HolderOf(m) = t <=> Has1(t)
    BY <1>1, <2>1
  <2> QED BY <2>1, <2>2 DEF Has1
<1>4. CASE ~ \E t \in Thread : Has1(t)
  <2>1. HolderOf(m) = NULL
    BY <1>2, <1>4
  <2>2. \A t \in Thread : HolderOf(m) = t <=> Has1(t)
    BY <1>4, <2>1, NullAssumption
  <2> QED BY <2>1, <2>2 DEF Has1
<1> QED BY <1>3, <1>4

LEMMA HolderUniqueNext == Exclusion' => HoldersRight'
  BY HolderUnique, PTL

LEMMA HoldersSame ==
  ASSUME Exclusion, Exclusion', NEW t \in Thread, Stays(t)
  PROVE  Holders' = Holders
<1>1. HoldersRight /\ HoldersRight'
  BY HolderUnique, HolderUniqueNext
<1>2. \A u \in Thread, m \in Mutex : (Holding(u) /\ mutex[u] = m)' <=> Holding(u) /\ mutex[u] = m
  BY AloneHolding DEF Stays
<1>3. ASSUME NEW m \in Mutex PROVE HolderOf(m)' = HolderOf(m)
  <2>1. \A u \in Thread : HolderOf(m)' = u <=> HolderOf(m) = u
    BY <1>1, <1>2 DEF HoldersRight
  <2>2. HolderOf(m) \in Thread \union {NULL} /\ HolderOf(m)' \in Thread \union {NULL}
    BY <1>1 DEF HoldersRight
  <2> QED BY <2>1, <2>2
<1> QED BY <1>3 DEF Holders

LEMMA HolderTakes ==
  ASSUME Exclusion, Exclusion', NEW t \in Thread, Takes(t)
  PROVE  \E m \in Mutex : HolderOf(m) = NULL /\ Holders' = [Holders EXCEPT ![m] = t]
<1>1. HoldersRight /\ HoldersRight'
  BY HolderUnique, HolderUniqueNext
<1>2. PICK m \in Mutex : m = mutex'[t]
  BY DEF Takes
<1>3. HolderOf(m) = NULL
  <2>1. ~ \E u \in Thread : Holding(u) /\ mutex[u] = m
    BY <1>2 DEF Takes, Exclusion, LockBit
  <2> QED BY <1>1, <2>1 DEF HoldersRight
<1>4. HolderOf(m)' = t
  <2>1. (Holding(t) /\ mutex[t] = m)'
    BY <1>2 DEF Takes
  <2> QED BY <1>1, <2>1 DEF HoldersRight
<1>5. ASSUME NEW n \in Mutex \ {m} PROVE HolderOf(n)' = HolderOf(n)
  <2>1. \A u \in Thread : (Holding(u) /\ mutex[u] = n)' <=> Holding(u) /\ mutex[u] = n
    BY <1>2, <1>5, AloneHolding DEF Takes
  <2>2. \A u \in Thread : HolderOf(n)' = u <=> HolderOf(n) = u
    BY <1>1, <2>1 DEF HoldersRight
  <2>3. HolderOf(n) \in Thread \union {NULL} /\ HolderOf(n)' \in Thread \union {NULL}
    BY <1>1 DEF HoldersRight
  <2> QED BY <2>2, <2>3
<1> QED BY <1>3, <1>4, <1>5 DEF Holders

LEMMA HolderFrees ==
  ASSUME Exclusion, Exclusion', NEW t \in Thread, Frees(t)
  PROVE  \E m \in Mutex : HolderOf(m) = t /\ Holders' = [Holders EXCEPT ![m] = NULL]
<1>1. HoldersRight /\ HoldersRight'
  BY HolderUnique, HolderUniqueNext
<1>2. PICK m \in Mutex : m = mutex[t]
  BY DEF Frees
<1>3. HolderOf(m) = t
  BY <1>1, <1>2 DEF HoldersRight, Frees
<1>4. HolderOf(m)' = NULL
  <2>1. ~ \E u \in Thread : (Holding(u) /\ mutex[u] = m)'
    BY <1>2 DEF Frees, Exclusion, LockBit
  <2> QED BY <1>1, <2>1 DEF HoldersRight
<1>5. ASSUME NEW n \in Mutex \ {m} PROVE HolderOf(n)' = HolderOf(n)
  <2>1. \A u \in Thread : (Holding(u) /\ mutex[u] = n)' <=> Holding(u) /\ mutex[u] = n
    BY <1>2, <1>5, AloneHolding DEF Frees
  <2>2. \A u \in Thread : HolderOf(n)' = u <=> HolderOf(n) = u
    BY <1>1, <2>1 DEF HoldersRight
  <2>3. HolderOf(n) \in Thread \union {NULL} /\ HolderOf(n)' \in Thread \union {NULL}
    BY <1>1 DEF HoldersRight
  <2> QED BY <2>2, <2>3
<1> QED BY <1>3, <1>4, <1>5 DEF Holders

\* The waiters that the monitor sees are the queue, unless the word is null.
LEMMA WaitersAre ==
  ASSUME QueuesAre, NEW c \in Cond, NEW n, NEW s, InLine(c, n, s)
  PROVE  Waiters(c) = IF cond[c] = NULL THEN <<>> ELSE s
  BY DEF Waiters, QueuesAre, Address

\* A condition whose word and queue stay has the same waiters.
LEMMA WaitersStay ==
  ASSUME QueuesAre, QueuesAre', Lined, NEW c \in Cond, cond'[c] = cond[c],
         KeepsLine(c) \/ cond[c] = NULL
  PROVE  Waiters(c)' = Waiters(c)
<1>1. CASE cond[c] = NULL
  BY <1>1 DEF Waiters
<1>2. CASE KeepsLine(c)
  <2>1. PICK n, s : InLine(c, n, s)
    BY DEF Lined
  <2>2. InLine(c, n, s)'
    BY <1>2, <2>1 DEF KeepsLine
  <2>3. Queue(c) = s /\ Queue(c)' = s
    BY <2>1, <2>2 DEF QueuesAre, Address
  <2> QED BY <2>3 DEF Waiters
<1> QED BY <1>1, <1>2

LEMMA OtherStages ==
  ASSUME NEW t \in Thread, Alone(t)
  PROVE  Stages' = [Stages EXCEPT ![t] = StatusOf(t)']
<1>1. ASSUME NEW u \in Thread \ {t} PROVE StatusOf(u)' = StatusOf(u)
  BY <1>1 DEF Alone, StatusOf, Leaving, Holding
<1> QED BY <1>1 DEF Stages

\* Where t is tells its status, and whether it holds a mutex.
LEMMA StatusIs ==
  ASSUME NEW t
  PROVE  /\ StatusOf(t) \in {"leaving", "in", "asleep", "out"}
         /\ Holding(t) <=> StatusOf(t) \in {"leaving", "in"}
  BY DEF StatusOf, Leaving, Holding

\* How the status of t changes when nobody begins to wait or is notified.
Turn(x, y) ==
  \/ x = y
  \/ x = "out" /\ y = "in"
  \/ x = "in" /\ y = "out"
  \/ x = "leaving" /\ y = "asleep"
  \/ x = "asleep" /\ y \in {"in", "out"}

LEMMA TurnMaps ==
  ASSUME Inv, Inv', QueuesAre, Lined, LotTyped, NEW t \in Thread, Kept(t), Lines' = Lines,
         Turn(StatusOf(t), StatusOf(t)'),
         StatusOf(t) = "asleep" /\ StatusOf(t)' # "asleep" => sleep_address[t] = NULL
  PROVE  MonitorStep
<1> DEFINE x == StatusOf(t)
           y == StatusOf(t)'
<1>0. /\ Exclusion /\ Exclusion' /\ Alone(t)
      /\ Holding(t) <=> x \in {"leaving", "in"}
      /\ Holding(t)' <=> y \in {"leaving", "in"}
      /\ Stages' = [Stages EXCEPT ![t] = y] /\ Stages[t] = x /\ Stages \in [Thread -> {StatusOf(u) : u \in Thread}]
  <2>1. Alone(t)
    BY DEF Kept, Stays, Takes, Frees
  <2>2. Holding(t)' <=> y \in {"leaving", "in"}
    BY DEF StatusOf, Leaving, Holding
  <2> QED BY <2>1, <2>2, StatusIs, OtherStages DEF Inv, Stages
<1>1. ASSUME sleep_address[t] = NULL PROVE ~ \E c \in Cond : \E i \in DOMAIN Lines[c] : Lines[c][i] = t
  <2> SUFFICES ASSUME NEW c \in Cond, NEW i \in DOMAIN Waiters(c), Waiters(c)[i] = t PROVE FALSE
    BY DEF Lines
  <2>1. PICK n, s : InLine(c, n, s)
    BY DEF Lined
  <2>2. Waiters(c) = <<>> \/ Waiters(c) = s
    BY <2>1, WaitersAre
  <2>3. DOMAIN s = 1 .. n
    BY <2>1 DEF InLine
  <2>4. i \in 1 .. n /\ s[i] = t
    <3>1. Waiters(c) # <<>>
      <4>1. \A j : j \notin DOMAIN <<>>
        OBVIOUS
      <4> QED BY <4>1
    <3>2. Waiters(c) = s
      BY <2>2, <3>1
    <3> QED BY <2>3, <3>2
  <2>5. sleep_address[t] = c
    BY <2>1, <2>4 DEF InLine, Has
  <2> QED BY <1>1, <2>5, NullAssumption
<1>2. CASE Stays(t)
  <2>1. Holders' = Holders /\ (Holding(t)' <=> Holding(t))
    BY <1>0, <1>2, HoldersSame DEF Stays
  <2>2. CASE x = y
    <3>1. Stages' = Stages
      BY <1>0, <2>2
    <3> QED BY <2>1, <3>1 DEF MonitorStep, Abstract!mvars, Holders, Lines, Stages
  <2>3. CASE x # y
    <3>1. x = "asleep" /\ y = "out"
      BY <1>0, <2>1, <2>3 DEF Turn
    <3>2. Abstract!Awake(t)
      BY <1>0, <1>1, <2>1, <3>1 DEF Abstract!Awake, Abstract!IsWaiting, Holders, Lines, Stages
    <3> QED BY <3>2 DEF MonitorStep, Abstract!MonitorNext
  <2> QED BY <2>2, <2>3
<1>3. CASE Takes(t)
  <2>1. y = "in" /\ x \in {"out", "asleep"}
    BY <1>0, <1>3 DEF Takes, Turn
  <2>2. PICK m \in Mutex : HolderOf(m) = NULL /\ Holders' = [Holders EXCEPT ![m] = t]
    BY <1>0, <1>3, HolderTakes
  <2>3. Abstract!Acquire(t, m)
    BY <1>0, <1>1, <2>1, <2>2 DEF Abstract!Acquire, Abstract!IsWaiting, Holders, Lines, Stages
  <2> QED BY <2>3 DEF MonitorStep, Abstract!MonitorNext
<1>4. CASE Frees(t)
  <2>1. (x = "in" /\ y = "out") \/ (x = "leaving" /\ y = "asleep")
    BY <1>0, <1>4 DEF Frees, Turn
  <2>2. PICK m \in Mutex : HolderOf(m) = t /\ Holders' = [Holders EXCEPT ![m] = NULL]
    BY <1>0, <1>4, HolderFrees
  <2>3. Abstract!Release(t, m)
    BY <1>0, <2>1, <2>2 DEF Abstract!Release, Holders, Lines, Stages
  <2> QED BY <2>3 DEF MonitorStep, Abstract!MonitorNext
<1> QED BY <1>2, <1>3, <1>4 DEF Kept

(***************************************************************************)
(* The status of the thread that takes a step.                             *)
(***************************************************************************)
\* The locals that a status is about are typed.
LEMMA TypesOf ==
  ASSUME Inv, NEW t \in Thread
  PROVE  /\ pc \in [Thread -> Location] /\ ret \in [Thread -> {Idle, Crit, WParked}]
         /\ pc[t] \in Unlocking => ret[t] \in {Idle, WParked}
         /\ pc[t] \in Notifying \ {Wake} => ret[t] \in {Idle, Crit}
  BY DEF Inv, Typed, Placed

LEMMA LockTurns ==
  ASSUME Inv, NEW t \in Thread,
         \/ \E m \in Mutex : Lock(t, m)
         \/ LockFull(t) \/ TryAcquire(t) \/ Spin(t) \/ MarkParked(t) \/ LockUnparked(t)
         \/ ParkOnMutex(t) \/ mutex_parking_control_validate(t)
  PROVE  StatusOf(t) = "out" /\ StatusOf(t)' \in {"out", "in"}
<1>1. /\ pc[t] \in {Idle} \union Wanting
      /\ pc'[t] \in {Crit} \union Wanting
  BY TypesOf DEF Lock, FastLock, LockFull, TryAcquire, Spin, MarkParked, LockUnparked, ParkOnMutex,
     mutex_parking_control_validate, Goto, Wanting
<1> QED BY <1>1 DEF StatusOf, Leaving, Holding, Wanting

LEMMA UnlockTurns ==
  ASSUME Inv, NEW t \in Thread,
         Unlock(t) \/ UnlockFull(t) \/ UnlockBucketLock(t) \/ UnlockTake(t)
  PROVE  \/ StatusOf(t) = "in" /\ StatusOf(t)' \in {"in", "out"}
         \/ StatusOf(t) = "leaving" /\ StatusOf(t)' \in {"leaving", "asleep"}
<1>1. CASE Unlock(t)
  <2>1. \/ pc[t] = Crit /\ (pc'[t] = Idle \/ (pc'[t] = UFull /\ ret'[t] = Idle))
        \/ pc[t] = WUnlock /\ (pc'[t] = WParked \/ (pc'[t] = UFull /\ ret'[t] = WParked))
    BY <1>1, TypesOf DEF Unlock, Goto
  <2> QED BY <2>1 DEF StatusOf, Leaving, Holding
<1>2. CASE UnlockFull(t) \/ UnlockBucketLock(t) \/ UnlockTake(t)
  <2>1. /\ pc[t] \in Unlocking /\ ret'[t] = ret[t]
        /\ pc'[t] \in Unlocking \union {Wake, ret[t]}
    BY <1>2, TypesOf, TakeOneGoes
    DEF UnlockFull, UnlockBucketLock, UnlockTake, Goto, locals
  <2> QED BY <2>1, TypesOf DEF StatusOf, Leaving, Holding
<1> QED BY <1>1, <1>2

LEMMA NotifyTurns ==
  ASSUME Inv, NEW t \in Thread,
         \/ SignalBucketLock(t) \/ SignalTake(t) \/ LockPairFirst(t) \/ LockPairSecond(t)
         \/ broadcast_parking_control_validate(t) \/ make_parked_if_locked(t) \/ Requeue(t)
         \/ Unpark(t)
  PROVE  StatusOf(t)' = StatusOf(t)
<1>1. /\ pc[t] \in Notifying /\ pc'[t] \in Notifying \union {ret[t]} /\ ret'[t] = ret[t]
      /\ pc[t] = Wake => pc'[t] = ret[t]
  BY TypesOf, RequeueGoes, TakeOneGoes DEF SignalBucketLock, SignalTake, LockPairFirst, LockPairSecond,
     broadcast_parking_control_validate, make_parked_if_locked, Unpark, Goto, locals
<1> QED BY <1>1, TypesOf DEF StatusOf, Leaving, Holding

LEMMA CallTurns ==
  ASSUME Inv, NEW t \in Thread,
         \/ \E c \in Cond : Wait(t, c) \/ Signal(t, c) \/ Broadcast(t, c)
         \/ WaitBucketLock(t)
  PROVE  StatusOf(t)' = StatusOf(t)
<1>1. CASE \E c \in Cond : Wait(t, c)
  BY <1>1, TypesOf DEF Wait, Goto, StatusOf, Leaving, Holding
<1>2. CASE \E c \in Cond : Signal(t, c) \/ Broadcast(t, c)
  <2>1. /\ pc[t] \in {Idle, Crit} /\ ret'[t] = pc[t]
        /\ pc'[t] \in {pc[t], SCall, BCall}
    BY <1>2, TypesOf DEF Signal, Broadcast, Goto
  <2> QED BY <2>1, TypesOf DEF StatusOf, Leaving, Holding
<1>3. CASE WaitBucketLock(t)
  BY <1>3, TypesOf DEF WaitBucketLock, Goto, StatusOf, Leaving, Holding
<1> QED BY <1>1, <1>2, <1>3

\* wait() goes on to lock the mutex when its node has been unparked.
LEMMA WakesTurn ==
  ASSUME Inv, LotInv, NEW t \in Thread, WaitUnparked(t)
  PROVE  StatusOf(t) = "asleep" /\ StatusOf(t)' \in {"in", "out"} /\ sleep_address[t] = NULL
<1>1. pc[t] = WParked /\ pc'[t] \in {Crit, LoadFull}
  BY TypesOf DEF WaitUnparked, FastLock, Goto
<1>2. sleep_address[t] = NULL
  BY DEF WaitUnparked, ParkReturns, LotInv, Sleepers
<1> QED BY <1>1, <1>2 DEF StatusOf, Leaving, Holding

(***************************************************************************)
(* Each step, as the monitor sees it.                                      *)
(***************************************************************************)
LEMMA LinesStay ==
  ASSUME LotInv, LotInv', Lined, \A c \in Cond : cond'[c] = cond[c],
         \A c \in Cond : KeepsLine(c) \/ cond[c] = NULL
  PROVE  Lines' = Lines
<1>1. QueuesAre /\ QueuesAre'
  BY QueuesChosen, QueuesChosenNext DEF LotInv
<1>2. \A c \in Cond : Waiters(c)' = Waiters(c)
  BY <1>1, WaitersStay
<1> QED BY <1>2 DEF Lines

\* Only the start of a wait, a signal and a broadcast write a condition's word.
LEMMA OtherLines ==
  ASSUME LotInv, LotInv', Inv, Words, Lined, NEW t \in Thread, Step(t)
  PROVE  \/ Lines' = Lines
         \/ wait_parking_control_validate(t) \/ SignalTake(t)
         \/ broadcast_parking_control_validate(t)
<1>1. CASE \/ \E m \in Mutex : Lock(t, m)
           \/ LockFull(t) \/ TryAcquire(t) \/ Spin(t) \/ MarkParked(t) \/ LockUnparked(t)
           \/ Unlock(t) \/ UnlockFull(t) \/ WaitUnparked(t) \/ Unpark(t)
           \/ ParkOnMutex(t) \/ UnlockBucketLock(t) \/ WaitBucketLock(t) \/ SignalBucketLock(t)
           \/ LockPairFirst(t) \/ LockPairSecond(t) \/ make_parked_if_locked(t)
           \/ \E c \in Cond : Wait(t, c) \/ Signal(t, c) \/ Broadcast(t, c)
  <2>1. cond' = cond
    BY <1>1 DEF Lock, LockFull, TryAcquire, Spin, MarkParked, LockUnparked, Unlock, UnlockFull,
       WaitUnparked, Unpark, ParkOnMutex, UnlockBucketLock, WaitBucketLock, SignalBucketLock,
       LockPairFirst, LockPairSecond, make_parked_if_locked, Wait, Signal, Broadcast, words
  <2>2. \A c \in Cond : KeepsLine(c)
    BY <1>1, QuietLines
  <2> QED BY <2>1, <2>2, LinesStay
<1>2. CASE mutex_parking_control_validate(t) \/ UnlockTake(t) \/ Requeue(t)
  <2>1. cond' = cond /\ \A c \in Cond : KeepsLine(c) \/ cond[c] = NULL
    BY <1>2, MutexValidateLines, UnlockTakeLines, RequeueLines
  <2> QED BY <2>1, LinesStay
<1> QED BY <1>1, <1>2 DEF Step, MutexStep, CondStep

\* A step after which t holds what it held.
LEMMA HoldsOn ==
  ASSUME Inv, Inv', NEW t \in Thread, Kept(t),
         StatusOf(t)' = StatusOf(t) \/ (StatusOf(t) = "in" /\ StatusOf(t)' = "leaving")
  PROVE  Holders' = Holders /\ Stages' = [Stages EXCEPT ![t] = StatusOf(t)']
<1>1. Holding(t)' <=> Holding(t)
  <2>1. Holding(t)' <=> StatusOf(t)' \in {"leaving", "in"}
    BY DEF StatusOf, Leaving, Holding
  <2> QED BY <2>1, StatusIs
<1>2. Stays(t) /\ Alone(t)
  BY <1>1 DEF Kept, Stays, Takes, Frees
<1> QED BY <1>2, HoldersSame, OtherStages DEF Inv

\* Any other step than these three.
LEMMA PlainMaps ==
  ASSUME LotInv, LotInv', Inv, Inv', Words, Lined, NEW t \in Thread, Step(t),
         ~wait_parking_control_validate(t), ~SignalTake(t),
         ~broadcast_parking_control_validate(t)
  PROVE  MonitorStep
<1>1. Lines' = Lines
  BY OtherLines
<1>2. Kept(t) /\ QueuesAre /\ LotTyped
  BY StepKeeps, QueuesChosen DEF LotInv
<1>3. /\ Turn(StatusOf(t), StatusOf(t)')
      /\ StatusOf(t) = "asleep" /\ StatusOf(t)' # "asleep" => sleep_address[t] = NULL
  BY LockTurns, UnlockTurns, NotifyTurns, CallTurns, WakesTurn
  DEF Turn, Step, MutexStep, CondStep
<1> QED BY <1>1, <1>2, <1>3, TurnMaps

\* wait() queues its caller behind the others, the mutex held, or returns.
LEMMA WaitValidateMaps ==
  ASSUME LotInv, LotInv', Inv, Inv', Words, Lined, NEW t \in Thread,
         wait_parking_control_validate(t)
  PROVE  MonitorStep
<1>0. /\ Kept(t) /\ QueuesAre /\ QueuesAre' /\ LotTyped
      /\ StatusOf(t) = "in"
      /\ pc'[t] = Crit => StatusOf(t)' = "in"
      /\ pc'[t] = WUnlock => StatusOf(t)' = "leaving"
  <2>1. Kept(t)
    BY StepKeeps DEF Step, CondStep
  <2>2. pc[t] = WValid
    BY DEF wait_parking_control_validate
  <2> QED BY <2>1, <2>2, QueuesChosen, QueuesChosenNext DEF LotInv, StatusOf, Leaving, Holding
<1>1. CASE cond' = cond /\ pc'[t] = Crit /\ \A c \in Cond : KeepsLine(c)
  <2>1. Lines' = Lines
    BY <1>1, LinesStay
  <2> QED BY <1>0, <1>1, <2>1, TurnMaps DEF Turn
<1>2. CASE \E c \in Cond :
             /\ pc'[t] = WUnlock
             /\ cond'[c] # NULL
             /\ \A d \in Cond \ {c} : cond'[d] = cond[d] /\ KeepsLine(d)
             /\ \E n, s : /\ InLine(c, n, s) /\ InLine(c, n + 1, Behind(n, s, t))'
                          /\ cond[c] = NULL => n = 0
  <2>1. PICK c \in Cond :
             /\ pc'[t] = WUnlock
             /\ cond'[c] # NULL
             /\ \A d \in Cond \ {c} : cond'[d] = cond[d] /\ KeepsLine(d)
             /\ \E n, s : /\ InLine(c, n, s) /\ InLine(c, n + 1, Behind(n, s, t))'
                          /\ cond[c] = NULL => n = 0
    BY <1>2
  <2>2. PICK n, s : /\ InLine(c, n, s) /\ InLine(c, n + 1, Behind(n, s, t))'
                    /\ cond[c] = NULL => n = 0
    BY <2>1
  <2>3. Waiters(c) = s /\ s \in Seq(Thread) /\ Len(s) = n
    <3>1. n \in Nat /\ s \in [1 .. n -> Thread]
      BY <2>2 DEF InLine
    <3>2. s \in Seq(Thread) /\ Len(s) = n
      BY <3>1, LenOf
    <3>3. n = 0 => s = <<>>
      BY <3>2
    <3> QED BY <1>0, <2>2, <3>2, <3>3, WaitersAre
  <2>4. Waiters(c)' = Append(Waiters(c), t)
    <3>1. Waiters(c)' = Behind(n, s, t)
      BY <1>0, <2>1, <2>2 DEF Waiters, QueuesAre, Address
    <3> QED BY <2>3, <3>1, Appended
  <2>5. ASSUME NEW d \in Cond \ {c} PROVE Waiters(d)' = Waiters(d)
    BY <1>0, <2>1, <2>5, WaitersStay
  <2>6. Lines' = [Lines EXCEPT ![c] = Append(@, t)]
    BY <2>4, <2>5 DEF Lines
  <2>7. Holders' = Holders /\ Stages' = [Stages EXCEPT ![t] = "leaving"] /\ Stages[t] = "in"
    BY <1>0, <2>1, HoldsOn DEF Stages
  <2>8. Abstract!StartWait(t, c)
    BY <2>6, <2>7 DEF Abstract!StartWait, Holders, Lines, Stages
  <2> QED BY <2>8 DEF MonitorStep, Abstract!MonitorNext
<1> QED BY <1>1, <1>2, WaitValidateLines

LEMMA NotifierSame ==
  ASSUME Inv, Inv', NEW t \in Thread, SignalTake(t) \/ broadcast_parking_control_validate(t)
  PROVE  Kept(t) /\ Holders' = Holders /\ Stages' = Stages /\ StatusOf(t)' = StatusOf(t)
<1>1. Kept(t) /\ StatusOf(t)' = StatusOf(t)
  BY StepKeeps, NotifyTurns DEF Step, CondStep
<1>2. Holders' = Holders /\ Stages' = [Stages EXCEPT ![t] = StatusOf(t)]
  BY <1>1, HoldsOn
<1> QED BY <1>1, <1>2 DEF Stages

\* signal() notifies the one that has waited longest.
LEMMA SignalTakeMaps ==
  ASSUME LotInv, LotInv', Inv, Inv', Words, Lined, NEW t \in Thread, SignalTake(t)
  PROVE  MonitorStep
<1>0. /\ QueuesAre /\ QueuesAre' /\ LotTyped /\ Holders' = Holders /\ Stages' = Stages
  BY QueuesChosen, QueuesChosenNext, NotifierSame DEF LotInv
<1>1. CASE cond' = cond /\ pc'[t] = ret[t] /\ \A c \in Cond : KeepsLine(c)
  <2>1. Lines' = Lines
    BY <1>1, LinesStay
  <2> QED BY <1>0, <2>1 DEF MonitorStep, Abstract!mvars, Holders, Lines, Stages
<1>2. CASE \E c \in Cond :
             /\ pc'[t] = Wake
             /\ cond[c] # NULL
             /\ \A d \in Cond \ {c} : cond'[d] = cond[d] /\ KeepsLine(d)
             /\ \E n, s : /\ InLine(c, n, s) /\ n > 0 /\ InLine(c, n - 1, Without(n, s, 1))'
                          /\ IF n = 1 THEN cond'[c] = NULL ELSE cond'[c] = cond[c]
  <2>1. PICK c \in Cond :
             /\ cond[c] # NULL
             /\ \A d \in Cond \ {c} : cond'[d] = cond[d] /\ KeepsLine(d)
             /\ \E n, s : /\ InLine(c, n, s) /\ n > 0 /\ InLine(c, n - 1, Without(n, s, 1))'
                          /\ IF n = 1 THEN cond'[c] = NULL ELSE cond'[c] = cond[c]
    BY <1>2
  <2>2. PICK n, s : /\ InLine(c, n, s) /\ n > 0 /\ InLine(c, n - 1, Without(n, s, 1))'
                    /\ IF n = 1 THEN cond'[c] = NULL ELSE cond'[c] = cond[c]
    BY <2>1
  <2>3. n \in Nat /\ s \in [1 .. n -> Thread] /\ s \in Seq(Thread) /\ Len(s) = n /\ s # <<>>
    <3>1. n \in Nat /\ s \in [1 .. n -> Thread]
      BY <2>2 DEF InLine
    <3>2. s \in Seq(Thread) /\ Len(s) = n
      BY <3>1, LenOf
    <3> QED BY <2>2, <3>1, <3>2
  <2>4. Tail(s) = Without(n, s, 1)
    <3>1. Tail(s) \in Seq(Thread) /\ Len(Tail(s)) = n - 1
      BY <2>3
    <3>2. Tail(s) \in [1 .. n - 1 -> Thread]
      BY <3>1, Appended
    <3>3. \A i \in 1 .. n - 1 : Tail(s)[i] = s[i + 1]
      BY <2>3
    <3>4. Without(n, s, 1) = [i \in 1 .. n - 1 |-> s[i + 1]]
      BY <2>3 DEF Without
    <3>5. Tail(s) = [i \in 1 .. n - 1 |-> Tail(s)[i]]
      BY <3>2
    <3> QED BY <3>3, <3>4, <3>5
  <2>5. Waiters(c) = s
    BY <1>0, <2>1, <2>2, WaitersAre
  <2>6. Waiters(c)' = Tail(s)
    <3>1. CASE n = 1
      <4>1. Waiters(c)' = <<>>
        BY <2>2, <3>1 DEF Waiters
      <4>2. Len(Tail(s)) = 0 /\ Tail(s) \in Seq(Thread)
        BY <2>3, <3>1
      <4>3. Tail(s) = <<>>
        BY <4>2, Appended
      <4> QED BY <4>1, <4>3
    <3>2. CASE n # 1
      <4>1. cond'[c] # NULL
        BY <2>1, <2>2, <3>2
      <4>2. Queue(c)' = Without(n, s, 1)
        BY <1>0, <2>2 DEF QueuesAre, Address
      <4> QED BY <2>4, <4>1, <4>2 DEF Waiters
    <3> QED BY <3>1, <3>2
  <2>7. ASSUME NEW d \in Cond \ {c} PROVE Waiters(d)' = Waiters(d)
    BY <1>0, <2>1, <2>7, WaitersStay
  <2>8. Lines' = [Lines EXCEPT ![c] = Tail(@)] /\ Lines[c] # <<>>
    BY <2>3, <2>5, <2>6, <2>7 DEF Lines
  <2>9. Abstract!Notify(c)
    BY <1>0, <2>8 DEF Abstract!Notify, Holders, Lines, Stages
  <2> QED BY <2>9 DEF MonitorStep, Abstract!MonitorNext
<1> QED BY <1>1, <1>2, SignalTakeLines

\* broadcast() notifies all of them by the null that it writes.
LEMMA BroadcastValidateMaps ==
  ASSUME LotInv, LotInv', Inv, Inv', Words, Lined, NEW t \in Thread,
         broadcast_parking_control_validate(t)
  PROVE  MonitorStep
<1>0. /\ QueuesAre /\ QueuesAre' /\ LotTyped /\ Holders' = Holders /\ Stages' = Stages
      /\ \A c \in Cond : KeepsLine(c)
  BY QueuesChosen, QueuesChosenNext, NotifierSame, QuietLines DEF LotInv
<1>1. CASE cond' = cond
  <2>1. Lines' = Lines
    BY <1>0, <1>1, LinesStay
  <2> QED BY <1>0, <2>1 DEF MonitorStep, Abstract!mvars, Holders, Lines, Stages
<1>2. CASE cond' = [cond EXCEPT ![arg[t]] = NULL]
  <2>1. PICK c \in Cond : c = arg[t]
    BY DEF broadcast_parking_control_validate, LotInv, Seated
  <2>2. cond'[c] = NULL /\ \A d \in Cond \ {c} : cond'[d] = cond[d]
    BY <1>2, <2>1 DEF Inv, Typed
  <2>3. Waiters(c)' = <<>>
    BY <2>2 DEF Waiters
  <2>4. ASSUME NEW d \in Cond \ {c} PROVE Waiters(d)' = Waiters(d)
    BY <1>0, <2>2, <2>4, WaitersStay
  <2>5. Lines' = [Lines EXCEPT ![c] = <<>>]
    BY <2>3, <2>4 DEF Lines
  <2>6. Abstract!NotifyAll(c)
    BY <1>0, <2>5 DEF Abstract!NotifyAll, Holders, Lines, Stages
  <2> QED BY <2>6 DEF MonitorStep, Abstract!MonitorNext
<1> QED BY <1>1, <1>2 DEF broadcast_parking_control_validate

LEMMA NextMaps ==
  ASSUME Inv, LotInv, Words, Lined, [Next]_vars
  PROVE  MonitorStep
<1>1. Inv' /\ LotInv'
  BY NextInv, NextLotInv
<1>2. ASSUME NEW t \in Thread, Step(t) PROVE MonitorStep
  BY <1>1, <1>2, PlainMaps, WaitValidateMaps, SignalTakeMaps, BroadcastValidateMaps
<1>3. CASE UNCHANGED vars
  <2>1. UNCHANGED chains /\ \A c \in Cond : cond'[c] = cond[c]
    BY <1>3 DEF vars, lot, words
  <2>2. Lines' = Lines
    BY <1>1, <2>1, ChainsKeep, LinesStay
  <2>3. \A t \in Thread : (Holding(t)' <=> Holding(t)) /\ mutex'[t] = mutex[t]
                          /\ StatusOf(t)' = StatusOf(t)
    BY <1>3 DEF vars, locals, StatusOf, Leaving, Holding
  <2>4. Holders' = Holders
    <3>1. HoldersRight /\ HoldersRight'
      BY <1>1, HolderUnique, HolderUniqueNext DEF Inv
    <3>2. \A u \in Thread, m \in Mutex : HolderOf(m)' = u <=> HolderOf(m) = u
      BY <2>3, <3>1 DEF HoldersRight
    <3>3. \A m \in Mutex : HolderOf(m)' = HolderOf(m)
      BY <3>1, <3>2 DEF HoldersRight
    <3> QED BY <3>3 DEF Holders
  <2>5. Stages' = Stages
    BY <2>3 DEF Stages
  <2> QED BY <2>2, <2>4, <2>5 DEF MonitorStep, Abstract!mvars, Holders, Lines, Stages
<1> QED BY <1>2, <1>3 DEF Next, Done

(***************************************************************************)
(* Implements: one holder per mutex; a wait gives the mutex up and queues  *)
(* its caller as one operation, and ends only after a notification; signal *)
(* releases the thread that has waited longest and broadcast releases all. *)
(***************************************************************************)
THEOREM LotImplementsMonitor == Spec => Implements
<1>1. Init => Abstract!MonitorInit
  <2> SUFFICES ASSUME Init PROVE Abstract!MonitorInit
    OBVIOUS
  <2>1. \A t \in Thread : pc[t] = Idle
    BY DEF Init
  <2>2. Holders = [m \in Mutex |-> NULL]
    BY <2>1 DEF Holders, HolderOf, Holding
  <2>3. Lines = [c \in Cond |-> <<>>]
    BY DEF Init, Lines, Waiters
  <2>4. Stages = [t \in Thread |-> "out"]
    BY <2>1 DEF Stages, StatusOf, Leaving, Holding
  <2> QED BY <2>2, <2>3, <2>4 DEF Abstract!MonitorInit, Holders, Lines, Stages
<1>2. Inv /\ LotInv /\ Words /\ Lined /\ [Next]_vars => [Abstract!MonitorNext]_(Abstract!mvars)
  BY NextMaps DEF MonitorStep
<1> QED BY <1>1, <1>2, LinedInvariance, PTL DEF Spec, Implements, Abstract!MonitorSpec

=============================================================================
