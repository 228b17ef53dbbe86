--------------------------- MODULE MemoCacheProofs --------------------------
(***************************************************************************)
(* The memoization cache is right for any pipelines, keys, sizes, hash     *)
(* function, memory and limits: HeldBuffers, CacheValid and NoBlockLost    *)
(* are invariants of it, and it implements Memo.                           *)
(*                                                                         *)
(* The argument.  A bucket of the hash table is a list, which following    *)
(* the next fields gives back, so that a lookup finds an entry exactly     *)
(* when there is one.  A block's header names its entry, and the entry     *)
(* the block, so that counting an entry up and down by what is in the      *)
(* hands of clients keeps in_use_count exact and an eviction frees nobody  *)
(* else's blocks.  Who prunes holds the lock, so that no second entry is   *)
(* stored for a key between the check for one and the store.  The order    *)
(* of the entries by use, which the code does not maintain (it is what     *)
(* ValidFromLRU would say), plays no part in it.                           *)
(***************************************************************************)
EXTENDS MemoCache, FiniteSetTheorems, WellFoundedInduction, TLAPS

\* A nonempty set of naturals has a least element.
LEMMA Smallest ==
  ASSUME NEW S \in SUBSET Nat, S # {}
  PROVE  \E x \in S : \A y \in S : x <= y
<1>1. PICK x \in S : \A y \in S : ~(<<y, x>> \in OpToRel(<, Nat))
  BY NatLessThanWellFounded, WFMin
<1>2. \A y \in S : ~(y < x)
  BY <1>1 DEF OpToRel
<1> QED BY <1>2

(***************************************************************************)
(* Sums.  FoldFunction takes the elements of the domain in some order; the *)
(* sum does not depend on it.                                              *)
(***************************************************************************)
First(s) == CHOOSE x \in s : TRUE

\* g[s] is what FoldFunction makes of the part s of the domain of f.
Adds(f, g) ==
  g = [s \in SUBSET DOMAIN f |-> IF s = {} THEN 0 ELSE f[First(s)] + g[s \ {First(s)}]]

\* A finite set gets smaller when an element is taken out.
LEMMA Smaller ==
  ASSUME NEW s, IsFiniteSet(s), NEW x \in s
  PROVE  /\ IsFiniteSet(s \ {x}) /\ Cardinality(s) \in Nat \ {0}
         /\ Cardinality(s \ {x}) = Cardinality(s) - 1
<1>1. IsFiniteSet(s \ {x}) /\ Cardinality(s \ {x}) = Cardinality(s) - 1
  BY FS_RemoveElement
<1>2. Cardinality(s) \in Nat /\ Cardinality(s) # 0
  BY FS_CardinalityType, FS_EmptySet
<1> QED BY <1>1, <1>2

\* The partial sums exist.
LEMMA AddsExists ==
  ASSUME NEW f, IsFiniteSet(DOMAIN f)
  PROVE  \E g : Adds(f, g)
<1> DEFINE S == DOMAIN f
           Part(n) == {s \in SUBSET S : Cardinality(s) <= n}
           Upto(n, g) == g = [s \in Part(n) |->
                                IF s = {} THEN 0 ELSE f[First(s)] + g[s \ {First(s)}]]
           Bad == {n \in Nat : ~ \E g : Upto(n, g)}
<1>0. \A s \in SUBSET S : IsFiniteSet(s) /\ Cardinality(s) \in Nat
  BY FS_Subset, FS_CardinalityType
<1>1. ASSUME Bad # {} PROVE FALSE
  <2>1. PICK k \in Bad : \A j \in Bad : k <= j
    <3>1. Bad \in SUBSET Nat
      OBVIOUS
    <3> HIDE DEF Bad
    <3> QED BY <1>1, <3>1, Smallest
  <2>2. k \in Nat /\ ~ \E g : Upto(k, g)
    BY <2>1
  <2>3. k # 0
    <3>1. \A s \in Part(0) : s = {}
      <4> TAKE s \in Part(0)
      <4>1. Cardinality(s) = 0 /\ IsFiniteSet(s)
        BY <1>0
      <4> QED BY <4>1, FS_EmptySet
    <3>2. Upto(0, [s \in Part(0) |-> 0])
      BY <3>1, Zenon
    <3> QED BY <3>2, <2>2
  <2>4. k - 1 \in Nat /\ k - 1 \notin Bad
    <3>1. k - 1 \in Nat /\ ~(k <= k - 1)
      BY <2>2, <2>3
    <3> HIDE DEF Bad
    <3> QED BY <2>1, <3>1
  <2>5. PICK g : Upto(k - 1, g)
    BY <2>4
  <2> DEFINE more == [s \in Part(k) |->
                        IF s \in Part(k - 1) THEN g[s]
                        ELSE IF s = {} THEN 0 ELSE f[First(s)] + g[s \ {First(s)}]]
  <2>6. \A s \in Part(k) : s # {} => s \ {First(s)} \in Part(k - 1) /\ s \ {First(s)} \in Part(k)
    <3> SUFFICES ASSUME NEW s \in Part(k), s # {}
                 PROVE  s \ {First(s)} \in Part(k - 1) /\ s \ {First(s)} \in Part(k)
      OBVIOUS
    <3>1. First(s) \in s
      BY DEF First
    <3>2. Cardinality(s \ {First(s)}) = Cardinality(s) - 1 /\ Cardinality(s) \in Nat
      BY <1>0, <3>1, Smaller
    <3>3. s \ {First(s)} \in SUBSET S
      OBVIOUS
    <3> QED BY <2>2, <3>2, <3>3
  <2>7. \A s \in Part(k - 1) : s \in Part(k)
    BY <1>0, <2>2
  <2>8. \A s \in Part(k - 1) : g[s] = IF s = {} THEN 0 ELSE f[First(s)] + g[s \ {First(s)}]
    <3> HIDE DEF Part
    <3> QED BY <2>5
  <2>9. \A s \in Part(k) : s # {} => more[s \ {First(s)}] = g[s \ {First(s)}]
    <3> HIDE DEF Part
    <3> QED BY <2>6, Zenon
  <2>10. \A s \in Part(k) :
           more[s] = IF s = {} THEN 0 ELSE f[First(s)] + more[s \ {First(s)}]
    <3> TAKE s \in Part(k)
    <3>1. more[s] = IF s \in Part(k - 1) THEN g[s]
                    ELSE IF s = {} THEN 0 ELSE f[First(s)] + g[s \ {First(s)}]
      BY Zenon
    <3> HIDE DEF Part, more
    <3> QED BY <2>8, <2>9, <3>1
  <2>11. Upto(k, more)
    <3>1. more = [s \in Part(k) |-> IF s = {} THEN 0 ELSE f[First(s)] + more[s \ {First(s)}]]
      <4>1. more = [s \in Part(k) |-> more[s]]
        OBVIOUS
      <4> HIDE DEF Part, more
      <4> QED BY <2>10, <4>1
    <3> QED BY <3>1
  <2> QED BY <2>2, <2>11
<1> DEFINE N == Cardinality(S)
<1>2. N \in Nat
  BY FS_CardinalityType
<1>3. PICK g : Upto(N, g)
  BY <1>1, <1>2
<1>4. Part(N) = SUBSET S
  BY FS_Subset
<1> QED BY <1>3, <1>4 DEF Adds

\* Total is what a function that adds its argument up says of all of it.
LEMMA TotalIs ==
  ASSUME NEW f, IsFiniteSet(DOMAIN f)
  PROVE  \E g : Adds(f, g) /\ Total(f) = g[DOMAIN f]
<1> DEFINE g == CHOOSE h : Adds(f, h)
<1>1. Adds(f, g)
  BY AddsExists, Zenon
<1>2. Total(f) = g[DOMAIN f]
  BY Zenon DEF Total, Adds, First, FoldFunction, FoldFunctionOnSet, MapThenFoldSet
<1> QED BY <1>1, <1>2

\* Any element may be taken out first.
LEMMA AddsAny ==
  ASSUME NEW S, IsFiniteSet(S), NEW f \in [S -> Nat], NEW g, Adds(f, g)
  PROVE  \A s \in SUBSET S : g[s] \in Nat /\ \A x \in s : g[s] = f[x] + g[s \ {x}]
<1> DEFINE Good(s) == g[s] \in Nat /\ \A x \in s : g[s] = f[x] + g[s \ {x}]
           Bad == {n \in Nat : \E s \in SUBSET S : Cardinality(s) = n /\ ~Good(s)}
<1>0. \A s \in SUBSET S : IsFiniteSet(s) /\ Cardinality(s) \in Nat
  BY FS_Subset, FS_CardinalityType
<1>1. \A s \in SUBSET S : g[s] = IF s = {} THEN 0 ELSE f[First(s)] + g[s \ {First(s)}]
  BY DEF Adds
<1>2. ASSUME Bad # {} PROVE FALSE
  <2>1. PICK k \in Bad : \A j \in Bad : k <= j
    <3>1. Bad \in SUBSET Nat
      OBVIOUS
    <3> HIDE DEF Bad
    <3> QED BY <1>2, <3>1, Smallest
  <2>2. PICK s \in SUBSET S : Cardinality(s) = k /\ ~Good(s)
    BY <2>1
  <2>3. ASSUME NEW t \in SUBSET S, Cardinality(t) < Cardinality(s) PROVE Good(t)
    <3>1. Cardinality(t) \in Nat /\ ~(k <= Cardinality(t))
      BY <1>0, <2>2, <2>3
    <3>2. Cardinality(t) \notin Bad
      <4> HIDE DEF Bad
      <4> QED BY <2>1, <3>1
    <3> HIDE DEF Good
    <3> QED BY <3>1, <3>2
  <2>4. s # {}
    <3>1. g[{}] = 0
      BY <1>1
    <3>2. Good({})
      BY <3>1
    <3> HIDE DEF Good
    <3> QED BY <2>2, <3>2
  <2> DEFINE y == First(s)
  <2>5. y \in s
    BY <2>4 DEF First
  <2> HIDE DEF y
  <2>6. g[s] = f[y] + g[s \ {y}]
    BY <1>1, <2>4 DEF y
  <2>7. Good(s \ {y})
    <3>1. Cardinality(s \ {y}) < Cardinality(s)
      BY <1>0, <2>5, Smaller
    <3> HIDE DEF Good
    <3> QED BY <2>3, <3>1
  <2>8. g[s] \in Nat
    BY <2>5, <2>6, <2>7
  <2>9. ASSUME NEW x \in s PROVE g[s] = f[x] + g[s \ {x}]
    <3>1. CASE x = y
      BY <2>6, <3>1
    <3>2. CASE x # y
      <4>1. g[s \ {y}] = f[x] + g[(s \ {y}) \ {x}]
        BY <2>7, <3>2
      <4>2. Good(s \ {x})
        <5>1. Cardinality(s \ {x}) < Cardinality(s)
          BY <1>0, <2>9, Smaller
        <5> HIDE DEF Good
        <5> QED BY <2>3, <5>1
      <4>3. g[s \ {x}] = f[y] + g[(s \ {x}) \ {y}]
        BY <2>5, <3>2, <4>2
      <4>4. Good((s \ {x}) \ {y})
        <5>1. Cardinality((s \ {x}) \ {y}) < Cardinality(s)
          <6>1. Cardinality(s \ {x}) < Cardinality(s) /\ IsFiniteSet(s \ {x})
            BY <1>0, <2>9, Smaller
          <6>2. Cardinality((s \ {x}) \ {y}) = Cardinality(s \ {x}) - 1
            BY <2>5, <3>2, <6>1, Smaller
          <6> QED BY <1>0, <6>1, <6>2
        <5> HIDE DEF Good
        <5> QED BY <2>3, <5>1
      <4>5. (s \ {x}) \ {y} = (s \ {y}) \ {x}
        OBVIOUS
      <4>6. f[x] \in Nat /\ f[y] \in Nat
        BY <2>5, <2>9
      <4>7. g[(s \ {y}) \ {x}] \in Nat
        BY <4>4, <4>5
      <4>8. f[y] + (f[x] + g[(s \ {y}) \ {x}]) = f[x] + (f[y] + g[(s \ {y}) \ {x}])
        BY <4>6, <4>7
      <4> QED BY <2>6, <4>1, <4>3, <4>5, <4>8
    <3> QED BY <3>1, <3>2
  <2> QED BY <2>2, <2>8, <2>9
<1> SUFFICES ASSUME NEW s \in SUBSET S PROVE Good(s)
  OBVIOUS
<1> HIDE DEF Good
<1> QED BY <1>0, <1>2

\* The sum over a set depends on the values on that set only.
LEMMA AddsSame ==
  ASSUME NEW S, IsFiniteSet(S), NEW f \in [S -> Nat], NEW g, Adds(f, g),
         NEW T, IsFiniteSet(T), NEW e \in [T -> Nat], NEW h, Adds(e, h),
         NEW r \in SUBSET S, r \subseteq T, \A x \in r : f[x] = e[x]
  PROVE  g[r] = h[r]
<1>a. \A s \in SUBSET S : g[s] \in Nat /\ \A x \in s : g[s] = f[x] + g[s \ {x}]
  BY AddsAny
<1>b. \A s \in SUBSET T : h[s] \in Nat /\ \A x \in s : h[s] = e[x] + h[s \ {x}]
  BY AddsAny
<1> DEFINE Bad == {n \in Nat : \E s \in SUBSET r : Cardinality(s) = n /\ g[s] # h[s]}
<1>0. \A s \in SUBSET r : IsFiniteSet(s) /\ Cardinality(s) \in Nat
  BY FS_Subset, FS_CardinalityType
<1>1. ASSUME Bad # {} PROVE FALSE
  <2>1. PICK k \in Bad : \A j \in Bad : k <= j
    <3>1. Bad \in SUBSET Nat
      OBVIOUS
    <3> HIDE DEF Bad
    <3> QED BY <1>1, <3>1, Smallest
  <2>2. PICK s \in SUBSET r : Cardinality(s) = k /\ g[s] # h[s]
    BY <2>1
  <2>3. s # {}
    BY <2>2 DEF Adds
  <2>4. PICK x \in s : TRUE
    BY <2>3
  <2>5. Cardinality(s \ {x}) \in Nat /\ ~(k <= Cardinality(s \ {x}))
    BY <1>0, <2>2, Smaller
  <2>6. g[s \ {x}] = h[s \ {x}]
    <3>1. Cardinality(s \ {x}) \notin Bad
      <4> HIDE DEF Bad
      <4> QED BY <2>1, <2>5
    <3> QED BY <2>5, <3>1
  <2>9. s \in SUBSET S /\ s \in SUBSET T /\ f[x] = e[x]
    BY <2>2, <2>4
  <2>10. g[s] = f[x] + g[s \ {x}] /\ h[s] = e[x] + h[s \ {x}]
    BY <1>a, <1>b, <2>4, <2>9
  <2> QED BY <2>2, <2>6, <2>9, <2>10
<1> QED BY <1>0, <1>1

\* A sum of naturals is a natural.
LEMMA TotalType ==
  ASSUME NEW S, IsFiniteSet(S), NEW f \in [S -> Nat]
  PROVE  Total(f) \in Nat
<1>1. PICK g : Adds(f, g) /\ Total(f) = g[S]
  BY TotalIs
<1> QED BY <1>1, AddsAny

\* An empty sum.
LEMMA TotalEmpty ==
  ASSUME NEW f, DOMAIN f = {}
  PROVE  Total(f) = 0
<1>1. PICK g : Adds(f, g) /\ Total(f) = g[{}]
  BY TotalIs, FS_EmptySet
<1> QED BY <1>1 DEF Adds

\* A sum with one element more.
LEMMA TotalMore ==
  ASSUME NEW S, IsFiniteSet(S), NEW x, x \notin S,
         NEW e \in [S -> Nat], NEW f \in [S \union {x} -> Nat], \A y \in S : f[y] = e[y]
  PROVE  Total(f) = Total(e) + f[x] /\ Total(e) \in Nat
<1>1. IsFiniteSet(S \union {x})
  BY FS_AddElement
<1>2. PICK g : Adds(f, g) /\ Total(f) = g[S \union {x}]
  BY <1>1, TotalIs
<1>3. PICK h : Adds(e, h) /\ Total(e) = h[S]
  BY TotalIs
<1>4. g[S \union {x}] = f[x] + g[(S \union {x}) \ {x}]
  <2>1. x \in S \union {x} /\ S \union {x} \in SUBSET (S \union {x})
    OBVIOUS
  <2>2. \A s \in SUBSET (S \union {x}) :
          g[s] \in Nat /\ \A y \in s : g[s] = f[y] + g[s \ {y}]
    BY <1>1, <1>2, AddsAny
  <2> QED BY <2>1, <2>2
<1>5. (S \union {x}) \ {x} = S
  OBVIOUS
<1>6. g[S] = h[S]
  <2> HIDE DEF Adds
  <2> QED BY <1>1, <1>2, <1>3, AddsSame
<1>7. h[S] \in Nat /\ f[x] \in Nat
  BY <1>3, AddsAny
<1>8. g[S \union {x}] = f[x] + h[S]
  BY <1>4, <1>5, <1>6
<1>9. f[x] + h[S] = h[S] + f[x]
  BY <1>7
<1> QED BY <1>2, <1>3, <1>7, <1>8, <1>9

(***************************************************************************)
(* The inductive invariant.  HeldBuffers and NoBlockLost do not say enough *)
(* of a state to follow from themselves: that a release counts the right   *)
(* entry down needs that headers and entries name each other, that a store *)
(* adds no second entry for its key needs what the lock protects, and that *)
(* a lookup finds what is stored needs the links of the hash table.        *)
(***************************************************************************)
\* Every variable but the size has its type.
Types ==
  /\ table \in [Buckets -> Pointer]
  /\ entry \in [Addr -> Entry]
  /\ live \subseteq Addr
  /\ most_recently_used \in Pointer /\ least_recently_used \in Pointer /\ candidate \in Pointer
  /\ max_cache_size \in Nat
  /\ heap \subseteq Block
  /\ header \in [Block -> Pointer]
  /\ content \in [Block -> Key \union {NULL}]
  /\ lock \in Client \union {NULL}
  /\ pc \in [Client -> {Idle, Missed, Storing, Using, Leaving, Sizing}]
  /\ key \in [Client -> Key \union {NULL}]
  /\ host \in [Client -> Seq(Block)]
  /\ found \in [Client -> Pointer]
  /\ ops \in Nat

\* q has no element twice.
Once(q) == \A i, j \in DOMAIN q : q[i] = q[j] => i = j

\* The lock is held by the client that prunes.
LockHeld == \A c \in Client : lock = c <=> pc[c] \in {Storing, Sizing}

\* What a client holds follows from where it is.
Hands ==
  \A c \in Client :
    /\ Once(host[c])
    /\ host[c] = <<>> <=> pc[c] \in {Idle, Sizing}
    /\ host[c] # <<>> => key[c] \in Key
    /\ pc[c] \in {Missed, Storing} => /\ Len(host[c]) = TUPLES
                                      /\ \A b \in Range(host[c]) : header[b] = NULL
    /\ pc[c] = Leaving => found[c] = header[Head(host[c])] /\ found[c] # NULL

\* What is being stored has been computed.
Stored == \A c \in Client : pc[c] = Storing => \A b \in Range(host[c]) : content[b] = key[c]

\* The blocks a client holds are all of one entry, for its key, or all its own.
Held ==
  \A c \in Client :
    /\ Range(host[c]) \subseteq heap
    /\ \A b \in Range(host[c]) :
         /\ header[b] # NULL => entry[header[b]].key = key[c]
         /\ header[b] = NULL => \A d \in Client : b \in Range(host[d]) => d = c
         /\ \A e \in Range(host[c]) : header[b] = header[e]

\* The headers name the entries the blocks belong to.
Owned ==
  /\ \A b \in Block : header[b] # NULL => header[b] \in live
  /\ \A a \in live :
       /\ entry[a].key \in Key
       /\ Len(entry[a].buf) = TUPLES /\ Once(entry[a].buf)
       /\ Range(entry[a].buf) \subseteq heap
       /\ \A b \in Block : header[b] = a <=> b \in Range(entry[a].buf)
       /\ \A b \in Range(entry[a].buf) : content[b] = entry[a].key

\* There is one entry for a key, and none for one that is being stored.
KeysDiffer ==
  /\ \A a, d \in live : entry[a].key = entry[d].key => a = d
  /\ \A c \in Client : pc[c] = Storing => \A a \in live : entry[a].key # key[c]

\* q, of n entries, is the bucket i: its links lead from each to the next.
Linked(i, n, q) ==
  /\ n \in Nat /\ q \in [1 .. n -> live] /\ Once(q)
  /\ n = 0 => table[i] = NULL
  /\ n > 0 => table[i] = q[1] /\ entry[q[n]].next = NULL
  /\ \A j \in 1 .. n - 1 : entry[q[j]].next = q[j + 1]
  /\ \A a \in live : Index[entry[a].key] = i <=> \E j \in 1 .. n : q[j] = a

\* Every bucket is such a list.
Chained == \A i \in Buckets : \E n \in Nat : \E q \in [1 .. n -> live] : Linked(i, n, q)

\* What every step keeps.
IInv ==
  /\ Types /\ LockHeld /\ Hands /\ Stored /\ Held /\ Owned /\ KeysDiffer /\ Chained
  /\ InUseExact /\ NoBlockLost /\ SizeExact

(***************************************************************************)
(* The hash table.  The walk along the next links exists because every     *)
(* prefix of it does, and visits the entries of the bucket.                *)
(***************************************************************************)
Path(g, N, h, f) ==
  g = [n \in 0 .. N |-> IF n = 0 THEN h ELSE IF g[n - 1] = NULL THEN NULL ELSE f[g[n - 1]].next]

\* Following the links of f from h is a function of the number of links.
LEMMA PathExists ==
  ASSUME NEW N \in Nat, NEW h, NEW f
  PROVE  \E g : Path(g, N, h, f)
<1> DEFINE After(u) == IF u = NULL THEN NULL ELSE f[u].next
           Upto(k, g) == g = [n \in 0 .. k |-> IF n = 0 THEN h ELSE After(g[n - 1])]
           Bad == {k \in Nat : ~ \E g : Upto(k, g)}
<1>1. SUFFICES ASSUME N \in Bad PROVE FALSE
  BY DEF Path
<1>2. PICK k \in Bad : \A j \in Bad : k <= j
  <2>1. Bad \in SUBSET Nat /\ Bad # {}
    BY <1>1
  <2> HIDE DEF Bad
  <2> QED BY <2>1, Smallest
<1>3. k - 1 \notin Bad
  <2>1. k \in Nat
    BY <1>2
  <2> HIDE DEF Bad
  <2> QED BY <1>2, <2>1
<1>4. k \in Nat /\ ~ \E g : Upto(k, g)
  BY <1>2
<1>5. k # 0
  <2>1. Upto(0, [n \in 0 .. 0 |-> h])
    OBVIOUS
  <2> QED BY <2>1, <1>4
<1>6. PICK g : Upto(k - 1, g)
  <2>1. k - 1 \in Nat
    BY <1>4, <1>5
  <2> QED BY <1>3, <2>1
<1> DEFINE longer == [n \in 0 .. k |-> IF n < k THEN g[n] ELSE After(g[k - 1])]
<1>7. \A n \in 0 .. k : longer[n] = IF n = 0 THEN h ELSE After(longer[n - 1])
  <2> SUFFICES ASSUME NEW n \in 0 .. k
               PROVE  longer[n] = IF n = 0 THEN h ELSE After(longer[n - 1])
    OBVIOUS
  <2> HIDE DEF After
  <2>1. CASE n < k
    <3>1. g[n] = IF n = 0 THEN h ELSE After(g[n - 1])
      BY <1>4, <1>6, <2>1
    <3>2. n # 0 => longer[n - 1] = g[n - 1]
      BY <1>4, <2>1
    <3> QED BY <1>4, <2>1, <3>1, <3>2
  <2>2. CASE n = k
    <3>1. longer[k - 1] = g[k - 1]
      BY <1>4, <1>5
    <3> QED BY <1>4, <1>5, <2>2, <3>1
  <2> QED BY <1>4, <2>1, <2>2
<1>8. Upto(k, longer)
  <2> HIDE DEF After
  <2> QED BY <1>7
<1> QED BY <1>4, <1>8

\* A bucket has no more entries than there are addresses.
LEMMA LinkedShort ==
  ASSUME Types, NEW i, NEW n, NEW q, Linked(i, n, q)
  PROVE  n \in Nat /\ n <= Cardinality(Addr) /\ Cardinality(Addr) \in Nat
<1>1. q \in Injection(1 .. n, Addr)
  <2>1. q \in [1 .. n -> Addr] /\ \A k, j \in 1 .. n : q[k] = q[j] => k = j
    BY DEF Linked, Types, Once
  <2> QED BY <2>1, Zenon DEF Injection, IsInjective
<1>2. n \in Nat
  BY DEF Linked
<1>3. Cardinality(1 .. n) = n
  BY <1>2, FS_Interval
<1> QED BY <1>1, <1>2, <1>3, AddrAssumption, FS_Injection, FS_CardinalityType

\* Bucket, which follows the links, is the list they make.
LEMMA BucketOfLinked ==
  ASSUME Types, NEW b, NEW n, NEW q, Linked(b, n, q)
  PROVE  Bucket(b) = q
<1> DEFINE N == Cardinality(Addr)
           After(u) == IF u = NULL THEN NULL ELSE entry[u].next
           node == CHOOSE g : g = [k \in 0 .. N |-> IF k = 0 THEN table[b] ELSE After(g[k - 1])]
<1>1. n <= N /\ N \in Nat /\ n \in Nat
  BY LinkedShort
<1>2. node = [k \in 0 .. N |-> IF k = 0 THEN table[b] ELSE After(node[k - 1])]
  <2>1. \E g : g = [k \in 0 .. N |-> IF k = 0 THEN table[b] ELSE After(g[k - 1])]
    <3>1. N \in Nat
      BY <1>1
    <3> HIDE DEF N
    <3>2. PICK g : Path(g, N, table[b], entry)
      BY <3>1, PathExists
    <3>3. g = [k \in 0 .. N |-> IF k = 0 THEN table[b] ELSE After(g[k - 1])]
      BY <3>2 DEF Path
    <3> QED BY <3>3
  <2> HIDE DEF After, N
  <2> QED BY <2>1
<1>3. Bucket(b) = [k \in {i \in 1 .. (N + 1) : node[i - 1] # NULL} |-> node[k - 1]]
  BY DEF Bucket, Along
<1>4. \A k \in 1 .. n : q[k] \in live /\ q[k] # NULL
  BY AddrAssumption DEF Linked, Types
<1> HIDE DEF node
<1> DEFINE Should(k) == IF k < n THEN q[k + 1] ELSE NULL
           Bad == {k \in 0 .. N : node[k] # Should(k)}
<1>5. ASSUME Bad # {} PROVE FALSE
  <2>1. PICK k \in Bad : \A j \in Bad : k <= j
    <3>1. Bad \in SUBSET Nat
      BY <1>1
    <3> HIDE DEF Bad
    <3> QED BY <1>5, <3>1, Smallest
  <2>2. k - 1 \notin Bad
    <3>1. k \in Nat
      BY <1>1, <2>1
    <3> HIDE DEF Bad
    <3> QED BY <2>1, <3>1
  <2>3. k \in 0 .. N /\ node[k] # Should(k)
    BY <2>1
  <2>4. k # 0
    <3>1. node[0] = table[b]
      BY <1>1, <1>2
    <3>2. Should(0) = table[b]
      BY <1>1 DEF Linked
    <3> QED BY <2>3, <3>1, <3>2
  <2>5. node[k - 1] = Should(k - 1)
    <3>1. k - 1 \in 0 .. N
      BY <1>1, <2>3, <2>4
    <3> QED BY <3>1, <2>2
  <2>6. node[k] = After(node[k - 1])
    BY <1>1, <1>2, <2>3, <2>4
  <2>7. CASE k - 1 < n
    <3>1. k \in 1 .. n /\ q[k] # NULL
      BY <1>1, <1>4, <2>3, <2>4, <2>7
    <3>2. node[k] = entry[q[k]].next
      BY <1>1, <2>3, <2>5, <2>6, <2>7, <3>1
    <3>3. CASE k = n
      BY <1>1, <2>3, <3>1, <3>2, <3>3 DEF Linked
    <3>4. CASE k # n
      <4>1. k \in 1 .. n - 1
        BY <1>1, <3>1, <3>4
      <4> QED BY <1>1, <2>3, <3>2, <4>1 DEF Linked
    <3> QED BY <3>3, <3>4
  <2>8. CASE ~(k - 1 < n)
    BY <1>1, <2>3, <2>4, <2>5, <2>6, <2>8
  <2> QED BY <2>7, <2>8
<1>6. \A k \in 0 .. N : node[k] = Should(k)
  BY <1>5
<1>7. \A i \in 1 .. N + 1 : node[i - 1] # NULL <=> i \in 1 .. n
  <2> SUFFICES ASSUME NEW i \in 1 .. N + 1
               PROVE  node[i - 1] # NULL <=> i \in 1 .. n
    OBVIOUS
  <2>1. i - 1 \in 0 .. N /\ node[i - 1] = Should(i - 1)
    BY <1>1, <1>6
  <2> QED BY <1>1, <1>4, <2>1
<1>8. {i \in 1 .. (N + 1) : node[i - 1] # NULL} = 1 .. n
  BY <1>1, <1>7
<1>9. \A i \in 1 .. n : node[i - 1] = q[i]
  BY <1>1, <1>6
<1>10. Bucket(b) = [k \in 1 .. n |-> node[k - 1]]
  BY <1>3, <1>8
<1>11. q = [k \in 1 .. n |-> q[k]]
  BY DEF Linked
<1> QED BY <1>9, <1>10, <1>11

\* halide_memoization_cache_lookup finds the entry for a key if there is one.
LEMMA FindRight ==
  ASSUME Types, Owned, Chained, NEW k \in Key
  PROVE  /\ Find(k) # NULL => Find(k) \in live /\ entry[Find(k)].key = k
         /\ Find(k) = NULL => \A a \in live : entry[a].key # k
<1> DEFINE i == Index[k]
<1>1. i \in Buckets
  BY DEF Buckets
<1>2. PICK n \in Nat : \E q \in [1 .. n -> live] : Linked(i, n, q)
  BY <1>1 DEF Chained
<1>3. PICK q \in [1 .. n -> live] : Linked(i, n, q)
  BY <1>2
<1> DEFINE S == {j \in DOMAIN q : Matches(q[j], k)}
<1>4. Find(k) = IF S = {} THEN NULL ELSE q[Min(S)]
  <2>1. Bucket(i) = q
    BY <1>3, BucketOfLinked
  <2> QED BY <2>1 DEF Find
<1>5. S \in SUBSET Nat /\ S \in SUBSET (1 .. n)
  BY <1>2, <1>3
<1>6. CASE S = {}
  <2>1. ASSUME NEW a \in live, entry[a].key = k PROVE FALSE
    <3>1. PICK j \in 1 .. n : q[j] = a
      BY <1>3, <2>1 DEF Linked
    <3> QED BY <1>3, <1>6, <2>1, <3>1 DEF Matches
  <2> QED BY <1>4, <1>6, <2>1
<1>7. CASE S # {}
  <2> HIDE DEF S
  <2>1. \E x \in S : \A y \in S : x <= y
    BY <1>5, <1>7, Smallest
  <2>2. Min(S) \in S
    BY <2>1, Zenon DEF Min
  <2>3. Matches(q[Min(S)], k) /\ q[Min(S)] \in live
    BY <1>3, <1>5, <2>2 DEF S
  <2>4. q[Min(S)] # NULL
    BY <2>3, AddrAssumption DEF Types
  <2> QED BY <1>4, <1>7, <2>3, <2>4 DEF Matches
<1> QED BY <1>6, <1>7

(***************************************************************************)
(* Blocks in sequences, and how many blocks of an entry clients hold.      *)
(***************************************************************************)
LEMMA TailOf ==
  ASSUME NEW q \in Seq(Block), q # <<>>, Once(q)
  PROVE  /\ Head(q) \in Range(q) /\ Tail(q) \in Seq(Block) /\ Once(Tail(q))
         /\ Len(q) \in Nat \ {0} /\ Len(Tail(q)) = Len(q) - 1
         /\ Range(Tail(q)) = Range(q) \ {Head(q)}
<1>1. Len(q) \in Nat \ {0} /\ Head(q) = q[1] /\ DOMAIN q = 1 .. Len(q)
  OBVIOUS
<1>2. /\ Tail(q) \in Seq(Block) /\ Len(Tail(q)) = Len(q) - 1
      /\ \A j \in 1 .. Len(q) - 1 : Tail(q)[j] = q[j + 1]
  OBVIOUS
<1>3. DOMAIN Tail(q) = 1 .. Len(q) - 1
  BY <1>2
<1> DEFINE t == Tail(q)
<1>4. t \in Seq(Block) /\ DOMAIN t = 1 .. Len(q) - 1 /\ \A j \in 1 .. Len(q) - 1 : t[j] = q[j + 1]
  BY <1>2, <1>3
<1> HIDE DEF t
<1>5. Once(t)
  <2> SUFFICES ASSUME NEW i \in 1 .. Len(q) - 1, NEW j \in 1 .. Len(q) - 1, t[i] = t[j]
               PROVE  i = j
    BY <1>4 DEF Once
  <2>1. i + 1 \in 1 .. Len(q) /\ j + 1 \in 1 .. Len(q) /\ q[i + 1] = q[j + 1]
    BY <1>1, <1>4
  <2>2. i + 1 = j + 1
    BY <1>1, <2>1 DEF Once
  <2> QED BY <1>1, <2>2
<1>6. Range(t) = Range(q) \ {q[1]}
  <2>1. ASSUME NEW x \in Range(t) PROVE x \in Range(q) /\ x # q[1]
    <3>1. PICK j \in 1 .. Len(q) - 1 : x = q[j + 1]
      BY <1>4 DEF Range
    <3>2. j + 1 \in 1 .. Len(q) /\ j + 1 # 1 /\ 1 \in 1 .. Len(q)
      BY <1>1
    <3> QED BY <1>1, <3>1, <3>2 DEF Range, Once
  <2>2. ASSUME NEW x \in Range(q), x # q[1] PROVE x \in Range(t)
    <3>1. PICK j \in 1 .. Len(q) : x = q[j]
      BY <1>1 DEF Range
    <3>2. j # 1
      BY <2>2, <3>1
    <3>3. j - 1 \in 1 .. Len(q) - 1 /\ (j - 1) + 1 = j
      BY <1>1, <3>2
    <3> QED BY <1>4, <3>1, <3>3 DEF Range
  <2> QED BY <2>1, <2>2
<1>7. Range(Tail(q)) = Range(q) \ {Head(q)} /\ Once(Tail(q))
  BY <1>1, <1>5, <1>6 DEF t
<1>8. Head(q) \in Range(q)
  <2>1. 1 \in DOMAIN q
    BY <1>1
  <2> QED BY <1>1, <2>1 DEF Range
<1> QED BY <1>1, <1>2, <1>7, <1>8

\* The elements of a sequence of blocks are blocks.
LEMMA RangeOf ==
  ASSUME NEW q \in Seq(Block)
  PROVE  Range(q) \subseteq Block /\ (Range(q) = {} <=> q = <<>>)
         /\ (q # <<>> => Head(q) \in Range(q))
<1>1. Len(q) \in Nat /\ DOMAIN q = 1 .. Len(q) /\ (q = <<>> <=> Len(q) = 0)
  OBVIOUS
<1>2. q # <<>> => Head(q) = q[1]
  OBVIOUS
<1>3. \A j \in 1 .. Len(q) : q[j] \in Block
  OBVIOUS
<1>4. Range(q) = {q[j] : j \in 1 .. Len(q)}
  BY <1>1 DEF Range
<1>5. Len(q) # 0 => 1 \in 1 .. Len(q)
  BY <1>1
<1>6. Len(q) = 0 => 1 .. Len(q) = {}
  OBVIOUS
<1>7. Range(q) \subseteq Block
  BY <1>3, <1>4
<1>8. Range(q) = {} <=> q = <<>>
  BY <1>1, <1>4, <1>5, <1>6
<1>9. q # <<>> => Head(q) \in Range(q)
  BY <1>1, <1>2, <1>4, <1>5
<1> QED BY <1>7, <1>8, <1>9

\* The pairs of a client and a block of entry a it holds.
UsersOf(h, hd, a) == {p \in Client \X Block : p[2] \in Range(h[p[1]]) /\ hd[p[2]] = a}

\* The pairs that InUseExact counts, as one set.
LEMMA UsersUnion ==
  ASSUME NEW h \in [Client -> Seq(Block)], NEW hd, NEW a
  PROVE  UNION {{<<c, b>> : b \in {b \in Range(h[c]) : hd[b] = a}} : c \in Client} = UsersOf(h, hd, a)
<1>1. \A c \in Client : Range(h[c]) \subseteq Block
  BY RangeOf
<1> QED BY <1>1 DEF UsersOf

\* InUseExact in terms of that set.
LEMMA InUseIs ==
  ASSUME host \in [Client -> Seq(Block)]
  PROVE  InUseExact <=> \A a \in live : entry[a].in_use_count = Cardinality(UsersOf(host, header, a))
<1>1. \A a \in live :
        UNION {{<<c, b>> : b \in {b \in Range(host[c]) : header[b] = a}} : c \in Client}
          = UsersOf(host, header, a)
  BY UsersUnion
<1> QED BY <1>1, Zenon DEF InUseExact, Uses

\* The same of the next state.
LEMMA InUseIsNext ==
  ASSUME host' \in [Client -> Seq(Block)]
  PROVE  InUseExact' <=>
           \A a \in live' : entry'[a].in_use_count = Cardinality(UsersOf(host', header', a))
<1>1. \A a \in live' :
        UNION {{<<c, b>> : b \in {b \in Range(host'[c]) : header'[b] = a}} : c \in Client}
          = UsersOf(host', header', a)
  BY UsersUnion
<1> QED BY <1>1, Zenon DEF InUseExact, Uses

\* A client that holds the TUPLES blocks of q.
LEMMA UsersOne ==
  ASSUME NEW c, NEW q \in Seq(Block), Once(q), Len(q) = TUPLES
  PROVE  IsFiniteSet({c} \X Range(q)) /\ Cardinality({c} \X Range(q)) = TUPLES
<1> DEFINE S == {c} \X Range(q)
           f == [j \in 1 .. TUPLES |-> <<c, q[j]>>]
<1>1. DOMAIN q = 1 .. TUPLES /\ TUPLES \in Nat
  BY TupleAssumption
<1>2. f \in [1 .. TUPLES -> S]
  BY <1>1 DEF Range
<1>3. \A i, j \in 1 .. TUPLES : f[i] = f[j] => i = j
  BY <1>1 DEF Once
<1>4. \A s \in S : \E j \in 1 .. TUPLES : f[j] = s
  BY <1>1 DEF Range
<1>5. f \in Bijection(1 .. TUPLES, S)
  <2> HIDE DEF f, S
  <2>1. f \in Injection(1 .. TUPLES, S)
    BY <1>2, <1>3, Zenon DEF Injection, IsInjective
  <2>2. f \in Surjection(1 .. TUPLES, S)
    BY <1>2, <1>4, Zenon DEF Surjection
  <2> QED BY <2>1, <2>2 DEF Bijection
<1>6. ExistsBijection(1 .. TUPLES, S)
  BY <1>5 DEF ExistsBijection
<1>7. IsFiniteSet(1 .. TUPLES) /\ Cardinality(1 .. TUPLES) = TUPLES
  BY <1>1, FS_Interval
<1> QED BY <1>6, <1>7, FS_Bijection

\* Only blocks of an entry are held for it, so that they can be counted.
LEMMA UsersFinite ==
  ASSUME Types, Owned, NEW a \in live
  PROVE  IsFiniteSet(UsersOf(host, header, a))
<1>1. entry[a].buf \in Seq(Block) /\ Once(entry[a].buf) /\ Len(entry[a].buf) = TUPLES
  BY DEF Types, Owned, Entry
<1>2. IsFiniteSet({0} \X Range(entry[a].buf))
  BY <1>1, UsersOne
<1> DEFINE B == Range(entry[a].buf)
           f == [b \in B |-> <<0, b>>]
<1>3. IsFiniteSet(B)
  <2>1. f \in [B -> {0} \X B] /\ \A x, y \in B : f[x] = f[y] => x = y
    OBVIOUS
  <2>2. f \in Injection(B, {0} \X B)
    <3> HIDE DEF f, B
    <3> QED BY <2>1, Zenon DEF Injection, IsInjective
  <2> HIDE DEF f
  <2> QED BY <1>2, <2>2, FS_Injection
<1>4. IsFiniteSet(Client \X B)
  BY <1>3, ClientAssumption, FS_Product
<1>5. UsersOf(host, header, a) \in SUBSET (Client \X B)
  BY DEF UsersOf, Owned
<1> QED BY <1>4, <1>5, FS_Subset

(***************************************************************************)
(* What a step keeps when it leaves the parts of a fact alone.             *)
(***************************************************************************)
LEMMA ChainedFrame ==
  ASSUME Types, Chained, live' = live, table' = table,
         \A a \in live : entry'[a].next = entry[a].next /\ entry'[a].key = entry[a].key
  PROVE  Chained'
<1> SUFFICES ASSUME NEW i \in Buckets
             PROVE  \E n \in Nat : \E q \in [1 .. n -> live'] : Linked(i, n, q)'
  BY DEF Chained
<1>1. PICK n \in Nat : \E q \in [1 .. n -> live] : Linked(i, n, q)
  BY DEF Chained
<1>2. PICK q \in [1 .. n -> live] : Linked(i, n, q)
  BY <1>1
<1>3. \A j \in 1 .. n : q[j] \in live
  OBVIOUS
<1>4. Linked(i, n, q)'
  <2>1. n \in Nat /\ q \in [1 .. n -> live'] /\ Once(q)
    BY <1>2 DEF Linked
  <2>2. /\ n = 0 => table'[i] = NULL
        /\ n > 0 => table'[i] = q[1] /\ entry'[q[n]].next = NULL
    BY <1>2, <1>3 DEF Linked
  <2>3. \A j \in 1 .. n - 1 : entry'[q[j]].next = q[j + 1]
    BY <1>2, <1>3 DEF Linked
  <2>4. \A a \in live' : Index[entry'[a].key] = i <=> \E j \in 1 .. n : q[j] = a
    BY <1>2 DEF Linked
  <2> QED BY <2>1, <2>2, <2>3, <2>4 DEF Linked
<1> QED BY <1>4

\* SizeExact, expanded.
LEMMA SizeIs ==
  SizeExact <=> current_cache_size =
                  Total([a \in live |-> BytesOf(entry[a].key)])
                    + Total([c \in {d \in Client : pc[d] = Storing} |-> BytesOf(key[c])])
  BY DEF SizeExact

\* The same of the next state.
LEMMA SizeIsNext ==
  SizeExact' <=> current_cache_size' =
                  Total([a \in live' |-> BytesOf(entry'[a].key)])
                    + Total([c \in {d \in Client : pc'[d] = Storing} |-> BytesOf(key'[c])])
  BY DEF SizeExact

\* A step that changes neither keys nor who stores keeps the size exact.
LEMMA SizeFrame ==
  ASSUME SizeExact, current_cache_size' = current_cache_size, live' = live,
         \A a \in live : entry'[a].key = entry[a].key,
         \A c \in Client : pc'[c] = Storing <=> pc[c] = Storing,
         \A c \in Client : pc[c] = Storing => key'[c] = key[c]
  PROVE  SizeExact'
<1>1. [a \in live' |-> BytesOf(entry'[a].key)] = [a \in live |-> BytesOf(entry[a].key)]
  BY Zenon
<1>2. {d \in Client : pc'[d] = Storing} = {d \in Client : pc[d] = Storing}
  OBVIOUS
<1>3. [c \in {d \in Client : pc'[d] = Storing} |-> BytesOf(key'[c])]
        = [c \in {d \in Client : pc[d] = Storing} |-> BytesOf(key[c])]
  BY <1>2
<1> QED BY <1>1, <1>3, SizeIs, SizeIsNext

\* One that leaves the counts and their users alone keeps the counts exact.
LEMMA InUseFrame ==
  ASSUME Types, Types', InUseExact, live' = live,
         \A a \in live : entry'[a].in_use_count = entry[a].in_use_count,
         \A a \in live : UsersOf(host', header', a) = UsersOf(host, header, a)
  PROVE  InUseExact'
<1>1. \A a \in live : entry[a].in_use_count = Cardinality(UsersOf(host, header, a))
  BY InUseIs DEF Types
<1>2. host' \in [Client -> Seq(Block)]
  BY DEF Types
<1> QED BY <1>1, <1>2, InUseIsNext

\* One that moves no block loses none.
LEMMA NoBlockLostFrame ==
  ASSUME NoBlockLost, UNCHANGED <<live, heap, host>>,
         \A a \in live : entry'[a].buf = entry[a].buf
  PROVE  NoBlockLost'
<1>1. {Range(entry'[a].buf) : a \in live} = {Range(entry[a].buf) : a \in live}
  BY Zenon
<1> QED BY <1>1, Zenon DEF NoBlockLost

\* One that leaves headers, contents and what entries own alone keeps Owned.
LEMMA OwnedFrame ==
  ASSUME Types, Owned, UNCHANGED <<live, heap, header, content>>,
         \A a \in live : entry'[a].key = entry[a].key /\ entry'[a].buf = entry[a].buf
  PROVE  Owned'
<1> USE DEF Owned
<1>1. \A b \in Block : header'[b] # NULL => header'[b] \in live'
  BY Zenon
<1> SUFFICES ASSUME NEW a \in live
             PROVE  /\ entry'[a].key \in Key
                    /\ Len(entry'[a].buf) = TUPLES /\ Once(entry'[a].buf)
                    /\ Range(entry'[a].buf) \subseteq heap'
                    /\ \A b \in Block : header'[b] = a <=> b \in Range(entry'[a].buf)
                    /\ \A b \in Range(entry'[a].buf) : content'[b] = entry'[a].key
  BY <1>1, Zenon
<1>2. entry'[a].key = entry[a].key /\ entry'[a].buf = entry[a].buf
  OBVIOUS
<1> QED BY <1>2, Zenon

\* One that leaves headers, keys and what clients hold alone keeps Held.
LEMMA HeldFrame ==
  ASSUME Types, Held, Owned, UNCHANGED <<live, heap, header, host>>,
         \A a \in live : entry'[a].key = entry[a].key,
         \A c \in Client : host[c] # <<>> => key'[c] = key[c]
  PROVE  Held'
<1> SUFFICES ASSUME NEW c \in Client
             PROVE  /\ Range(host[c]) \subseteq heap
                    /\ \A b \in Range(host[c]) :
                         /\ header[b] # NULL => entry'[header[b]].key = key'[c]
                         /\ header[b] = NULL => \A d \in Client : b \in Range(host[d]) => d = c
                         /\ \A e \in Range(host[c]) : header[b] = header[e]
  <2>1. host' = host /\ header' = header /\ heap' = heap
    OBVIOUS
  <2> QED BY <2>1 DEF Held
<1>1. host[c] \in Seq(Block)
  BY DEF Types
<1>2. \A b \in Range(host[c]) : b \in Block /\ host[c] # <<>>
  BY <1>1, RangeOf
<1>3. \A b \in Range(host[c]) : header[b] # NULL => entry'[header[b]].key = key'[c]
  BY <1>2 DEF Held, Owned
<1> QED BY <1>3, Zenon DEF Held

\* One that gives nobody a key to store and no entry another one keeps KeysDiffer.
LEMMA KeysFrame ==
  ASSUME KeysDiffer, live' = live,
         \A a \in live : entry'[a].key = entry[a].key,
         \A c \in Client : pc'[c] = Storing => pc[c] = Storing /\ key'[c] = key[c]
  PROVE  KeysDiffer'
  BY DEF KeysDiffer

USE DEF Idle, Missed, Storing, Using, Leaving, Sizing

\* Membership in the right-hand side of NoBlockLost.
LEMMA UnionOf ==
  ASSUME NEW L, NEW e, NEW h, NEW b
  PROVE  b \in (UNION {Range(e[a].buf) : a \in L}) \union (UNION {Range(h[c]) : c \in Client})
           <=> (\E a \in L : b \in Range(e[a].buf)) \/ (\E c \in Client : b \in Range(h[c]))
<1>1. b \in UNION {Range(e[a].buf) : a \in L} <=> \E a \in L : b \in Range(e[a].buf)
  BY Zenon
<1>2. b \in UNION {Range(h[c]) : c \in Client} <=> \E c \in Client : b \in Range(h[c])
  BY Zenon
<1> QED BY <1>1, <1>2

\* NoBlockLost, block by block.
LEMMA LostIs ==
  NoBlockLost <=> \A b : b \in heap <=> \/ \E a \in live : b \in Range(entry[a].buf)
                                        \/ \E c \in Client : b \in Range(host[c])
<1>1. NoBlockLost <=>
        \A b : b \in heap <=> b \in (UNION {Range(entry[a].buf) : a \in live})
                                       \union (UNION {Range(host[c]) : c \in Client})
  BY Zenon DEF NoBlockLost
<1>2. \A b : b \in (UNION {Range(entry[a].buf) : a \in live})
                  \union (UNION {Range(host[c]) : c \in Client})
        <=> (\E a \in live : b \in Range(entry[a].buf)) \/ (\E c \in Client : b \in Range(host[c]))
  BY UnionOf
<1> QED BY <1>1, <1>2, Zenon

\* The same of the next state.
LEMMA LostIsNext ==
  NoBlockLost' <=> \A b : b \in heap' <=> \/ \E a \in live' : b \in Range(entry'[a].buf)
                                          \/ \E c \in Client : b \in Range(host'[c])
<1>1. NoBlockLost' <=>
        \A b : b \in heap' <=> b \in (UNION {Range(entry'[a].buf) : a \in live'})
                                       \union (UNION {Range(host'[c]) : c \in Client})
  BY Zenon DEF NoBlockLost
<1>2. \A b : b \in (UNION {Range(entry'[a].buf) : a \in live'})
                  \union (UNION {Range(host'[c]) : c \in Client})
        <=> (\E a \in live' : b \in Range(entry'[a].buf)) \/ (\E c \in Client : b \in Range(host'[c]))
  BY UnionOf
<1> QED BY <1>1, <1>2, Zenon

\* The links of the recency chains are not what the invariant speaks of.
SameData(x, y) == x.next = y.next /\ x.key = y.key /\ x.in_use_count = y.in_use_count /\ x.buf = y.buf

\* Assigning more_recent of an entry leaves what an entry holds alone.
LEMMA PutMore ==
  ASSUME NEW e \in [Addr -> Entry], NEW p \in Pointer, NEW v \in Pointer
  PROVE  /\ Put(e, p, "more_recent", v) \in [Addr -> Entry]
         /\ \A a \in Addr : SameData(Put(e, p, "more_recent", v)[a], e[a])
<1> DEFINE f == [e EXCEPT ![p]["more_recent"] = v]
<1>1. CASE p = NULL
  <2>1. Put(e, p, "more_recent", v) = e
    BY <1>1 DEF Put
  <2> QED BY <2>1 DEF SameData
<1>2. CASE p # NULL
  <2>1. Put(e, p, "more_recent", v) = f
    BY <1>2 DEF Put
  <2>2. \A a \in Addr : f[a] = IF a = p THEN [e[a] EXCEPT !.more_recent = v] ELSE e[a]
    OBVIOUS
  <2>3. \A a \in Addr : f[a] \in Entry /\ SameData(f[a], e[a])
    <3> SUFFICES ASSUME NEW a \in Addr PROVE f[a] \in Entry /\ SameData(f[a], e[a])
      OBVIOUS
    <3> HIDE DEF f
    <3>1. e[a] \in Entry
      OBVIOUS
    <3> QED BY <2>2, <3>1 DEF Entry, SameData
  <2>4. f \in [Addr -> Entry]
    <3>1. f = [a \in Addr |-> f[a]]
      OBVIOUS
    <3> HIDE DEF f
    <3> QED BY <2>3, <3>1
  <2> HIDE DEF f
  <2> QED BY <2>1, <2>3, <2>4
<1> QED BY <1>1, <1>2

\* Assigning less_recent does too.
LEMMA PutLess ==
  ASSUME NEW e \in [Addr -> Entry], NEW p \in Pointer, NEW v \in Pointer
  PROVE  /\ Put(e, p, "less_recent", v) \in [Addr -> Entry]
         /\ \A a \in Addr : SameData(Put(e, p, "less_recent", v)[a], e[a])
<1> DEFINE f == [e EXCEPT ![p]["less_recent"] = v]
<1>1. CASE p = NULL
  <2>1. Put(e, p, "less_recent", v) = e
    BY <1>1 DEF Put
  <2> QED BY <2>1 DEF SameData
<1>2. CASE p # NULL
  <2>1. Put(e, p, "less_recent", v) = f
    BY <1>2 DEF Put
  <2>2. \A a \in Addr : f[a] = IF a = p THEN [e[a] EXCEPT !.less_recent = v] ELSE e[a]
    OBVIOUS
  <2>3. \A a \in Addr : f[a] \in Entry /\ SameData(f[a], e[a])
    <3> SUFFICES ASSUME NEW a \in Addr PROVE f[a] \in Entry /\ SameData(f[a], e[a])
      OBVIOUS
    <3> HIDE DEF f
    <3>1. e[a] \in Entry
      OBVIOUS
    <3> QED BY <2>2, <3>1 DEF Entry, SameData
  <2>4. f \in [Addr -> Entry]
    <3>1. f = [a \in Addr |-> f[a]]
      OBVIOUS
    <3> HIDE DEF f
    <3> QED BY <2>3, <3>1
  <2> HIDE DEF f
  <2> QED BY <2>1, <2>3, <2>4
<1> QED BY <1>1, <1>2

\* A hit counts what it hands out, and moves the entry to the front.
LEMMA TouchDoes ==
  ASSUME Types, NEW a \in live, Touch(a)
  PROVE  /\ entry' \in [Addr -> Entry]
         /\ most_recently_used' \in Pointer /\ least_recently_used' \in Pointer
         /\ \A d \in Addr :
              /\ entry'[d].next = entry[d].next /\ entry'[d].key = entry[d].key
              /\ entry'[d].buf = entry[d].buf
              /\ entry'[d].in_use_count
                   = IF d = a THEN entry[d].in_use_count + TUPLES ELSE entry[d].in_use_count
<1>0. a \in Addr /\ entry \in [Addr -> Entry] /\ live \subseteq Addr /\ TUPLES \in Nat
      /\ most_recently_used \in Pointer /\ least_recently_used \in Pointer
      /\ entry[a].less_recent \in Pointer /\ entry[a].more_recent \in Pointer
  BY TupleAssumption DEF Types, Entry
<1>1. CASE a = most_recently_used
  <2>1. entry' = [entry EXCEPT ![a].in_use_count = @ + TUPLES]
        /\ UNCHANGED <<most_recently_used, least_recently_used>>
    BY <1>1 DEF Touch
  <2>2. \A d \in Addr : entry'[d] = IF d = a THEN [entry[a] EXCEPT !.in_use_count = @ + TUPLES]
                                    ELSE entry[d]
    BY <1>0, <2>1
  <2>3. [entry[a] EXCEPT !.in_use_count = @ + TUPLES] \in Entry
    <3>1. entry[a] \in Entry /\ entry[a].in_use_count + TUPLES \in Nat
      BY <1>0 DEF Entry
    <3> DEFINE n == entry[a].in_use_count + TUPLES
    <3>2. [entry[a] EXCEPT !.in_use_count = n] \in Entry
      <4> HIDE DEF n
      <4>1. entry[a] \in Entry /\ n \in Nat
        BY <3>1 DEF n
      <4> QED BY <4>1 DEF Entry
    <3> QED BY <3>2
  <2>4. entry' \in [Addr -> Entry]
    BY <1>0, <2>1, <2>3
  <2>5. \A d \in Addr : entry[d] \in Entry
    BY <1>0
  <2> QED BY <1>0, <2>1, <2>2, <2>4, <2>5 DEF Entry
<1>2. CASE a # most_recently_used
  <2> DEFINE older == entry[a].less_recent
             newer == entry[a].more_recent
             cut1  == Put(entry, older, "more_recent", newer)
             cut   == Put(cut1, newer, "less_recent", older)
             base  == Put(cut, most_recently_used, "more_recent", a)
  <2>1. /\ newer \in live
        /\ least_recently_used' = IF older = NULL THEN newer ELSE least_recently_used
        /\ most_recently_used' = a
        /\ entry' = [base EXCEPT ![a].more_recent = NULL, ![a].less_recent = most_recently_used,
                                 ![a].in_use_count = @ + TUPLES]
    BY <1>2 DEF Touch
  <2>2. newer \in Pointer /\ older \in Pointer /\ a \in Pointer /\ NULL \in Pointer
    BY <1>0 DEF Pointer
  <2>3. cut1 \in [Addr -> Entry] /\ \A d \in Addr : SameData(cut1[d], entry[d])
    <3> HIDE DEF older, newer
    <3> QED BY <1>0, <2>2, PutMore
  <2>4. cut \in [Addr -> Entry] /\ \A d \in Addr : SameData(cut[d], cut1[d])
    <3> HIDE DEF older, newer, cut1
    <3> QED BY <2>2, <2>3, PutLess
  <2>5. base \in [Addr -> Entry] /\ \A d \in Addr : SameData(base[d], cut[d])
    <3> HIDE DEF older, newer, cut1, cut
    <3> QED BY <1>0, <2>2, <2>4, PutMore
  <2> HIDE DEF base, cut, cut1
  <2>6. \A d \in Addr :
          entry'[d] = IF d = a THEN [base[a] EXCEPT !.more_recent = NULL,
                                                    !.less_recent = most_recently_used,
                                                    !.in_use_count = @ + TUPLES]
                      ELSE base[d]
    BY <1>0, <2>1, <2>5
  <2> DEFINE r == [base[a] EXCEPT !.more_recent = NULL, !.less_recent = most_recently_used,
                                  !.in_use_count = @ + TUPLES]
  <2>7. base[a] \in Entry
    BY <1>0, <2>5
  <2>8. /\ r \in Entry /\ r.next = base[a].next /\ r.key = base[a].key /\ r.buf = base[a].buf
        /\ r.in_use_count = base[a].in_use_count + TUPLES
    <3> DEFINE n == base[a].in_use_count + TUPLES
    <3>1. n \in Nat
      BY <1>0, <2>7 DEF Entry
    <3>2. r = [base[a] EXCEPT !.more_recent = NULL, !.less_recent = most_recently_used,
                              !.in_use_count = n]
      BY <2>7 DEF Entry
    <3>3. most_recently_used \in Pointer /\ NULL \in Pointer
      BY <1>0, <2>2
    <3> HIDE DEF n, r
    <3>4. r \in Entry /\ r.next = base[a].next /\ r.key = base[a].key /\ r.buf = base[a].buf
          /\ r.in_use_count = n
      BY <2>7, <3>1, <3>2, <3>3 DEF Entry
    <3> QED BY <3>4 DEF n
  <2> HIDE DEF r
  <2>9. entry' \in [Addr -> Entry]
    <3>1. \A d \in Addr : entry'[d] \in Entry
      BY <2>5, <2>6, <2>8 DEF r
    <3>2. entry' = [d \in Addr |-> entry'[d]]
      BY <2>1, <2>5
    <3> QED BY <3>1, <3>2
  <2>10. \A d \in Addr : SameData(base[d], entry[d])
    BY <2>3, <2>4, <2>5 DEF SameData
  <2>11. entry'[a] = r /\ \A d \in Addr : d # a => entry'[d] = base[d]
    BY <1>0, <2>6 DEF r
  <2> QED BY <1>0, <2>1, <2>2, <2>8, <2>9, <2>10, <2>11 DEF SameData, Pointer
<1> QED BY <1>1, <1>2

\* A lookup that finds an entry counts its buffers up and hands them out.
LEMMA LookupHitKeeps ==
  ASSUME IInv, NEW c \in Client, NEW k \in Key, LookupHit(c, k)
  PROVE  IInv'
<1> DEFINE a == Find(k)
<1>0. Types /\ LockHeld /\ Hands /\ Stored /\ Held /\ Owned /\ KeysDiffer /\ Chained
      /\ InUseExact /\ NoBlockLost /\ SizeExact
  BY DEF IInv
<1>1. a \in live /\ a \in Addr /\ a # NULL /\ entry[a].key = k
  <2>1. a # NULL
    BY DEF LookupHit
  <2> QED BY <1>0, <2>1, FindRight DEF Types
<1>2. /\ pc[c] = Idle /\ lock = NULL /\ ops > 0 /\ ops' = ops - 1 /\ Touch(a)
      /\ key' = [key EXCEPT ![c] = k] /\ host' = [host EXCEPT ![c] = entry[a].buf]
      /\ pc' = [pc EXCEPT ![c] = Using]
      /\ UNCHANGED <<table, live, current_cache_size, max_cache_size, heap, header, content,
                     lock, candidate, found>>
  BY DEF LookupHit, Begins, Goto, sizes, blocks
<1> HIDE DEF a
<1>3. /\ entry' \in [Addr -> Entry]
      /\ most_recently_used' \in Pointer /\ least_recently_used' \in Pointer
      /\ \A d \in Addr :
           /\ entry'[d].next = entry[d].next /\ entry'[d].key = entry[d].key
           /\ entry'[d].buf = entry[d].buf
           /\ entry'[d].in_use_count
                = IF d = a THEN entry[d].in_use_count + TUPLES ELSE entry[d].in_use_count
  BY <1>0, <1>1, <1>2, TouchDoes
<1>4. live \subseteq Addr /\ entry[a].buf \in Seq(Block) /\ host[c] = <<>>
      /\ Once(entry[a].buf) /\ Len(entry[a].buf) = TUPLES /\ entry[a].buf # <<>>
      /\ Range(entry[a].buf) \subseteq heap
      /\ \A b \in Range(entry[a].buf) : header[b] = a /\ b \in Block
  BY <1>0, <1>1, <1>2, RangeOf, TupleAssumption DEF Types, Entry, Hands, Owned
<1>5. Types'
  <2>1. host' \in [Client -> Seq(Block)] /\ key' \in [Client -> Key \union {NULL}]
        /\ pc' \in [Client -> {Idle, Missed, Storing, Using, Leaving, Sizing}] /\ ops' \in Nat
    BY <1>0, <1>2, <1>4 DEF Types
  <2> QED BY <1>0, <1>2, <1>3, <2>1 DEF Types
<1>6. LockHeld'
  BY <1>0, <1>2 DEF LockHeld, Types
<1>7. /\ host'[c] = entry[a].buf /\ key'[c] = k /\ pc'[c] = Using
      /\ \A d \in Client : d # c => host'[d] = host[d] /\ key'[d] = key[d] /\ pc'[d] = pc[d]
  BY <1>0, <1>2 DEF Types
<1>8. Hands'
  <2> SUFFICES ASSUME NEW d \in Client
               PROVE  /\ Once(host'[d])
                      /\ host'[d] = <<>> <=> pc'[d] \in {Idle, Sizing}
                      /\ host'[d] # <<>> => key'[d] \in Key
                      /\ pc'[d] \in {Missed, Storing} => /\ Len(host'[d]) = TUPLES
                                                         /\ \A b \in Range(host'[d]) : header[b] = NULL
                      /\ pc'[d] = Leaving => found[d] = header[Head(host'[d])] /\ found[d] # NULL
    BY <1>2 DEF Hands
  <2>1. CASE d = c
    BY <1>4, <1>7, <2>1
  <2>2. CASE d # c
    BY <1>0, <1>7, <2>2 DEF Hands
  <2> QED BY <2>1, <2>2
<1>16. Stored'
  <2> SUFFICES ASSUME NEW d \in Client, pc'[d] = Storing
               PROVE  \A b \in Range(host'[d]) : content[b] = key'[d]
    BY <1>2 DEF Stored
  <2> QED BY <1>0, <1>7 DEF Stored
<1>9. Held'
  <2> SUFFICES ASSUME NEW d \in Client
               PROVE  /\ Range(host'[d]) \subseteq heap
                      /\ \A b \in Range(host'[d]) :
                           /\ header[b] # NULL => entry'[header[b]].key = key'[d]
                           /\ header[b] = NULL => \A e \in Client : b \in Range(host'[e]) => e = d
                           /\ \A e \in Range(host'[d]) : header[b] = header[e]
    BY <1>2 DEF Held
  <2>1. CASE d = c
    BY <1>1, <1>3, <1>4, <1>7, <2>1
  <2>2. CASE d # c
    <3>1. \A b \in Range(host[d]) : b \in Block
      BY <1>0, RangeOf DEF Types
    <3>2. \A b \in Range(host[d]) : header[b] # NULL => entry'[header[b]].key = key[d]
      <4>1. \A b \in Range(host[d]) : header[b] # NULL => header[b] \in live /\ header[b] \in Addr
        BY <1>0, <3>1 DEF Owned, Types
      <4>2. \A b \in Range(host[d]) : header[b] # NULL => entry[header[b]].key = key[d]
        BY <1>0 DEF Held
      <4> QED BY <1>3, <4>1, <4>2
    <3>3. \A b \in Range(host[d]) : header[b] = NULL =>
            \A e \in Client : b \in Range(host'[e]) => e = d
      BY <1>0, <1>1, <1>4, <1>7 DEF Held
    <3> QED BY <1>0, <1>7, <2>2, <3>2, <3>3 DEF Held
  <2> QED BY <2>1, <2>2
<1>10. Owned'
  BY <1>0, <1>2, <1>3, <1>4, OwnedFrame
<1>11. KeysDiffer'
  <2>1. \A d \in Client : pc'[d] = Storing => pc[d] = Storing /\ key'[d] = key[d]
    BY <1>7
  <2> QED BY <1>0, <1>2, <1>3, <1>4, <2>1, KeysFrame
<1>12. Chained'
  BY <1>0, <1>2, <1>3, <1>4, ChainedFrame
<1>13. InUseExact'
  <2>1. \A d \in live : entry[d].in_use_count = Cardinality(UsersOf(host, header, d))
    BY <1>0, InUseIs DEF Types
  <2>2. ASSUME NEW d \in live, d # a
        PROVE  UsersOf(host', header', d) = UsersOf(host, header, d)
    <3>1. \A b \in Range(<<>>) : FALSE
      BY DEF Range
    <3>2. ASSUME NEW p \in Client \X Block
          PROVE  p[2] \in Range(host'[p[1]]) /\ header'[p[2]] = d
                   <=> p[2] \in Range(host[p[1]]) /\ header[p[2]] = d
      <4>1. p[1] \in Client /\ header' = header
        BY <1>2
      <4>2. CASE p[1] = c
        BY <1>4, <1>7, <2>2, <3>1, <4>1, <4>2
      <4>3. CASE p[1] # c
        BY <1>7, <4>1, <4>3
      <4> QED BY <4>2, <4>3
    <3> QED BY <3>2 DEF UsersOf
  <2>3. UsersOf(host', header', a) = UsersOf(host, header, a) \union ({c} \X Range(entry[a].buf))
    <3>1. Range(<<>>) = {}
      BY DEF Range
    <3> QED BY <1>2, <1>4, <1>7, <3>1 DEF UsersOf
  <2>4. UsersOf(host, header, a) \cap ({c} \X Range(entry[a].buf)) = {}
    <3>1. Range(host[c]) = {}
      BY <1>4 DEF Range
    <3> QED BY <3>1 DEF UsersOf
  <2>5. Cardinality(UsersOf(host', header', a)) = Cardinality(UsersOf(host, header, a)) + TUPLES
    <3>1. IsFiniteSet(UsersOf(host, header, a))
      BY <1>0, <1>1, UsersFinite
    <3>2. IsFiniteSet({c} \X Range(entry[a].buf)) /\ Cardinality({c} \X Range(entry[a].buf)) = TUPLES
      BY <1>4, UsersOne
    <3>3. Cardinality(UsersOf(host, header, a)) \in Nat /\ TUPLES \in Nat
      BY <3>1, FS_CardinalityType, TupleAssumption
    <3> DEFINE A == UsersOf(host, header, a)
               B == {c} \X Range(entry[a].buf)
    <3>4. UsersOf(host', header', a) = A \union B /\ A \cap B = {}
      BY <2>3, <2>4
    <3>5. IsFiniteSet(A) /\ IsFiniteSet(B) /\ Cardinality(B) = TUPLES /\ Cardinality(A) \in Nat
      BY <3>1, <3>2, <3>3
    <3> HIDE DEF A, B
    <3>6. Cardinality(A \union B) = Cardinality(A) + Cardinality(B) - Cardinality(A \cap B)
      BY <3>5, FS_Union
    <3>7. Cardinality(A \cap B) = 0
      BY <3>4, FS_EmptySet
    <3>8. Cardinality(A \union B) = Cardinality(A) + TUPLES
      BY <3>3, <3>5, <3>6, <3>7
    <3> QED BY <3>4, <3>8 DEF A
  <2>6. \A d \in live' : entry'[d].in_use_count = Cardinality(UsersOf(host', header', d))
    BY <1>1, <1>2, <1>3, <1>4, <2>1, <2>2, <2>5
  <2> QED BY <1>5, <2>6, InUseIsNext DEF Types
<1>14. NoBlockLost'
  <2>1. Range(<<>>) = {}
    BY DEF Range
  <2> QED BY <1>0, <1>1, <1>2, <1>3, <1>4, <1>7, <2>1, LostIs, LostIsNext
<1>15. SizeExact'
  <2>1. \A d \in Client : pc'[d] = Storing <=> pc[d] = Storing
    BY <1>2, <1>7
  <2>2. \A d \in Client : pc[d] = Storing => key'[d] = key[d]
    BY <1>2, <1>7
  <2> QED BY <1>0, <1>2, <1>3, <1>4, <2>1, <2>2, SizeFrame
<1> QED BY <1>5, <1>6, <1>8, <1>9, <1>10, <1>11, <1>12, <1>13, <1>14, <1>15, <1>16 DEF IInv

(***************************************************************************)
(* The size.                                                               *)
(***************************************************************************)
LEMMA BytesType ==
  ASSUME NEW k \in Key
  PROVE  BytesOf(k) \in Nat
<1>1. Size[k] \in Nat /\ TUPLES \in Nat
  BY KeyAssumption, TupleAssumption
<1> QED BY <1>1 DEF BytesOf

\* The sum of one value.
LEMMA TotalOne ==
  ASSUME NEW x, NEW f \in [{x} -> Nat]
  PROVE  Total(f) = f[x]
<1> DEFINE S == {}
           e == [y \in S |-> 0]
<1>1. e \in [S -> Nat] /\ S \union {x} = {x} /\ IsFiniteSet(S) /\ x \notin S
      /\ \A y \in S : f[y] = e[y]
  BY FS_EmptySet
<1>2. Total(e) = 0
  BY TotalEmpty
<1> HIDE DEF e, S
<1>3. f \in [S \union {x} -> Nat]
  BY <1>1
<1>4. Total(f) = Total(e) + f[x]
  BY <1>1, <1>3, TotalMore
<1>5. f[x] \in Nat
  OBVIOUS
<1> QED BY <1>2, <1>4, <1>5

\* The two sums of SizeExact, of a given state.
StoringTotal(p, k) == Total([c \in {d \in Client : p[d] = Storing} |-> BytesOf(k[c])])

EntriesTotal(l, e) == Total([a \in l |-> BytesOf(e[a].key)])

\* SizeExact by these sums.
LEMMA SizeSplit ==
  /\ SizeExact <=> current_cache_size = EntriesTotal(live, entry) + StoringTotal(pc, key)
  /\ SizeExact' <=> current_cache_size' = EntriesTotal(live', entry') + StoringTotal(pc', key')
  BY SizeIs, SizeIsNext DEF EntriesTotal, StoringTotal

\* Nobody stores: the sum is zero.
LEMMA NoneStoring ==
  ASSUME NEW p, NEW k, \A d \in Client : p[d] # Storing
  PROVE  StoringTotal(p, k) = 0
<1>1. {d \in Client : p[d] = Storing} = {}
  OBVIOUS
<1>2. DOMAIN [c \in {d \in Client : p[d] = Storing} |-> BytesOf(k[c])] = {}
  BY <1>1
<1> QED BY <1>2, TotalEmpty DEF StoringTotal

\* One client stores: the sum is what it stores.
LEMMA OneStoring ==
  ASSUME NEW p, NEW k, NEW c \in Client, p[c] = Storing, k[c] \in Key,
         \A d \in Client : p[d] = Storing => d = c
  PROVE  StoringTotal(p, k) = BytesOf(k[c])
<1> DEFINE f == [x \in {c} |-> BytesOf(k[x])]
<1>1. {d \in Client : p[d] = Storing} = {c}
  OBVIOUS
<1>2. StoringTotal(p, k) = Total(f)
  BY <1>1 DEF StoringTotal
<1>3. f \in [{c} -> Nat] /\ f[c] = BytesOf(k[c])
  BY BytesType
<1> HIDE DEF f
<1> QED BY <1>2, <1>3, TotalOne

\* The entries are finitely many, and so is the sum of their sizes.
LEMMA EntriesType ==
  ASSUME Types, Owned
  PROVE  EntriesTotal(live, entry) \in Nat /\ IsFiniteSet(live)
         /\ [a \in live |-> BytesOf(entry[a].key)] \in [live -> Nat]
<1>1. IsFiniteSet(live)
  BY AddrAssumption, FS_Subset DEF Types
<1>2. \A a \in live : BytesOf(entry[a].key) \in Nat
  BY BytesType DEF Owned
<1>3. [a \in live |-> BytesOf(entry[a].key)] \in [live -> Nat]
  BY <1>2
<1> QED BY <1>1, <1>3, TotalType DEF EntriesTotal

\* current_cache_size is never negative.
LEMMA SizeType ==
  ASSUME IInv
  PROVE  current_cache_size \in Nat
<1>1. Types /\ LockHeld /\ Hands /\ Owned /\ SizeExact
  BY DEF IInv
<1>2. EntriesTotal(live, entry) \in Nat
  BY <1>1, EntriesType
<1>3. StoringTotal(pc, key) \in Nat
  <2>1. CASE \A d \in Client : pc[d] # Storing
    BY <2>1, NoneStoring
  <2>2. CASE \E d \in Client : pc[d] = Storing
    <3>1. PICK c \in Client : pc[c] = Storing
      BY <2>2
    <3>2. key[c] \in Key
      BY <1>1, <3>1 DEF Hands
    <3>3. \A d \in Client : pc[d] = Storing => d = c
      BY <1>1, <3>1 DEF LockHeld
    <3> QED BY <3>1, <3>2, <3>3, OneStoring, BytesType
  <2> QED BY <2>1, <2>2
<1> QED BY <1>1, <1>2, <1>3, SizeSplit

(***************************************************************************)
(* Steps that leave the entries and the blocks that are held alone.        *)
(***************************************************************************)
LEMMA QuietKeeps ==
  ASSUME IInv, Types', LockHeld', Stored', SizeExact', KeysDiffer',
         UNCHANGED <<table, entry, live, heap, header, host, key>>,
         \A b \in Block : header[b] # NULL => content'[b] = content[b],
         \A c \in Client :
           /\ pc'[c] \in {Idle, Sizing} <=> pc[c] \in {Idle, Sizing}
           /\ pc'[c] \in {Missed, Storing} => pc[c] \in {Missed, Storing}
           /\ pc'[c] = Leaving => found'[c] = header[Head(host[c])] /\ found'[c] # NULL
  PROVE  IInv'
<1>0. Types /\ LockHeld /\ Hands /\ Stored /\ Held /\ Owned /\ KeysDiffer /\ Chained
      /\ InUseExact /\ NoBlockLost /\ SizeExact
  BY DEF IInv
<1>1. Hands'
  <2> SUFFICES ASSUME NEW c \in Client
               PROVE  /\ Once(host[c])
                      /\ host[c] = <<>> <=> pc'[c] \in {Idle, Sizing}
                      /\ host[c] # <<>> => key[c] \in Key
                      /\ pc'[c] \in {Missed, Storing} => /\ Len(host[c]) = TUPLES
                                                         /\ \A b \in Range(host[c]) : header[b] = NULL
                      /\ pc'[c] = Leaving => found'[c] = header[Head(host[c])] /\ found'[c] # NULL
    BY DEF Hands
  <2> QED BY <1>0 DEF Hands
<1>2. Held'
  BY <1>0, HeldFrame
<1>3. Owned'
  <2>1. \A b \in Block : header[b] # NULL => header[b] \in live
    BY <1>0 DEF Owned
  <2>2. ASSUME NEW a \in live
        PROVE  /\ entry[a].key \in Key
               /\ Len(entry[a].buf) = TUPLES /\ Once(entry[a].buf)
               /\ Range(entry[a].buf) \subseteq heap
               /\ \A b \in Block : header[b] = a <=> b \in Range(entry[a].buf)
               /\ \A b \in Range(entry[a].buf) : content[b] = entry[a].key
    BY <1>0, Zenon DEF Owned
  <2>3. ASSUME NEW a \in live, NEW b \in Range(entry[a].buf)
        PROVE  content'[b] = entry[a].key
    <3>0. entry[a].buf \in Seq(Block) /\ a # NULL
      BY <1>0, <2>3, AddrAssumption DEF Types, Entry
    <3>1. b \in Block /\ header[b] = a /\ a # NULL
      BY <2>2, <2>3, <3>0, RangeOf
    <3> QED BY <2>2, <3>1
  <2>4. entry' = entry /\ live' = live /\ heap' = heap /\ header' = header
    OBVIOUS
  <2> QED BY <2>1, <2>2, <2>3, <2>4 DEF Owned
<1>4. Chained'
  BY <1>0, ChainedFrame
<1>5. InUseExact'
  BY <1>0, InUseFrame
<1>6. NoBlockLost'
  BY <1>0, NoBlockLostFrame
<1> QED BY <1>1, <1>2, <1>3, <1>4, <1>5, <1>6 DEF IInv

\* A pipeline that fails keeps its blocks.
LEMMA FailKeeps ==
  ASSUME IInv, NEW c \in Client, Fail(c)
  PROVE  IInv'
<1>0. Types /\ LockHeld /\ Stored /\ KeysDiffer /\ SizeExact
  BY DEF IInv
<1>1. /\ pc[c] = Missed /\ pc' = [pc EXCEPT ![c] = Using]
      /\ UNCHANGED <<chain, sizes, blocks, lock, candidate, key, host, found, ops>>
  BY DEF Fail, Goto
<1> USE <1>1 DEF chain, sizes, blocks
<1>2. Types'
  BY <1>0 DEF Types
<1>3. pc'[c] = Using /\ \A d \in Client : d # c => pc'[d] = pc[d]
  BY <1>0 DEF Types
<1>4. LockHeld'
  BY <1>0, <1>3 DEF LockHeld
<1>5. SizeExact'
  BY <1>0, <1>3, SizeFrame
<1>6. KeysDiffer' /\ Stored'
  BY <1>0, <1>3 DEF KeysDiffer, Stored
<1>7. \A d \in Client :
        /\ pc'[d] \in {Idle, Sizing} <=> pc[d] \in {Idle, Sizing}
        /\ pc'[d] \in {Missed, Storing} => pc[d] \in {Missed, Storing}
        /\ pc'[d] = Leaving => found'[d] = header[Head(host[d])] /\ found'[d] # NULL
  BY <1>3 DEF IInv, Hands
<1> QED BY <1>2, <1>4, <1>5, <1>6, <1>7, QuietKeeps

\* A candidate in use is passed over.
LEMMA PruneSkipKeeps ==
  ASSUME IInv, NEW c \in Client, PruneSkip(c)
  PROVE  IInv'
<1>0. Types /\ LockHeld /\ Stored /\ KeysDiffer /\ SizeExact
  BY DEF IInv
<1>1. /\ candidate \in live /\ candidate' = entry[candidate].more_recent
      /\ UNCHANGED <<chain, sizes, blocks, lock, clients>>
  BY DEF PruneSkip
<1> USE <1>1 DEF chain, sizes, blocks, clients
<1>2. Types'
  BY <1>0 DEF Types, Entry
<1>3. LockHeld'
  BY <1>0 DEF LockHeld
<1>4. SizeExact'
  BY <1>0, SizeFrame
<1>5. KeysDiffer' /\ Stored'
  BY <1>0 DEF KeysDiffer, Stored
<1>6. \A d \in Client : pc'[d] = Leaving => found'[d] = header[Head(host[d])] /\ found'[d] # NULL
  BY DEF IInv, Hands
<1> QED BY <1>2, <1>3, <1>4, <1>5, <1>6, QuietKeeps

\* A release has read the header of the block it releases.
LEMMA ReadHeaderKeeps ==
  ASSUME IInv, NEW c \in Client, ReadHeader(c)
  PROVE  IInv'
<1>0. Types /\ LockHeld /\ Stored /\ KeysDiffer /\ SizeExact /\ Hands
  BY DEF IInv
<1>1. /\ pc[c] = Using /\ header[Head(host[c])] # NULL
      /\ found' = [found EXCEPT ![c] = header[Head(host[c])]]
      /\ pc' = [pc EXCEPT ![c] = Leaving]
      /\ UNCHANGED <<chain, sizes, blocks, lock, candidate, key, host, ops>>
  BY DEF ReadHeader, Goto
<1> USE <1>1 DEF chain, sizes, blocks
<1>2. Types'
  <2>1. host[c] \in Seq(Block) /\ host[c] # <<>>
    BY <1>0 DEF Types, Hands
  <2>2. Head(host[c]) \in Block
    BY <2>1, RangeOf
  <2> QED BY <1>0, <2>2 DEF Types
<1>3. pc'[c] = Leaving /\ found'[c] = header[Head(host[c])]
      /\ \A d \in Client : d # c => pc'[d] = pc[d] /\ found'[d] = found[d]
  BY <1>0 DEF Types
<1>4. LockHeld'
  BY <1>0, <1>3 DEF LockHeld
<1>5. SizeExact'
  BY <1>0, <1>3, SizeFrame
<1>6. KeysDiffer' /\ Stored'
  BY <1>0, <1>3 DEF KeysDiffer, Stored
<1>7. \A d \in Client :
        /\ pc'[d] \in {Idle, Sizing} <=> pc[d] \in {Idle, Sizing}
        /\ pc'[d] \in {Missed, Storing} => pc[d] \in {Missed, Storing}
        /\ pc'[d] = Leaving => found'[d] = header[Head(host[d])] /\ found'[d] # NULL
  BY <1>0, <1>3 DEF Hands
<1> QED BY <1>2, <1>4, <1>5, <1>6, <1>7, QuietKeeps

\* set_size takes the lock and sets the limit.
LEMMA SetSizeKeeps ==
  ASSUME IInv, NEW c \in Client, NEW size \in Limits, SetSize(c, size)
  PROVE  IInv'
<1>0. Types /\ LockHeld /\ Stored /\ KeysDiffer /\ SizeExact /\ Hands
  BY DEF IInv
<1>1. /\ pc[c] = Idle /\ lock = NULL /\ ops > 0 /\ ops' = ops - 1
      /\ max_cache_size' = IF size = 0 THEN DEFAULT_SIZE ELSE size
      /\ lock' = c /\ candidate' = least_recently_used
      /\ pc' = [pc EXCEPT ![c] = Sizing]
      /\ UNCHANGED <<chain, current_cache_size, blocks, key, host, found>>
  BY DEF SetSize, Begins, Goto
<1> USE <1>1 DEF chain, blocks
<1>2. Types'
  <2>1. max_cache_size' \in Nat /\ ops' \in Nat
    BY <1>0, LimitAssumption DEF Types
  <2> QED BY <1>0, <2>1 DEF Types
<1>3. pc'[c] = Sizing /\ \A d \in Client : d # c => pc'[d] = pc[d]
  BY <1>0 DEF Types
<1>4. LockHeld'
  BY <1>0, <1>3, ClientAssumption DEF LockHeld
<1>5. SizeExact'
  BY <1>0, <1>3, SizeFrame
<1>6. KeysDiffer' /\ Stored'
  BY <1>0, <1>3 DEF KeysDiffer, Stored
<1>7. \A d \in Client :
        /\ pc'[d] \in {Idle, Sizing} <=> pc[d] \in {Idle, Sizing}
        /\ pc'[d] \in {Missed, Storing} => pc[d] \in {Missed, Storing}
        /\ pc'[d] = Leaving => found'[d] = header[Head(host[d])] /\ found'[d] # NULL
  BY <1>0, <1>3 DEF Hands
<1> QED BY <1>2, <1>4, <1>5, <1>6, <1>7, QuietKeeps

\* It returns when enough was evicted.
LEMMA SetSizeReturnsKeeps ==
  ASSUME IInv, NEW c \in Client, SetSizeReturns(c)
  PROVE  IInv'
<1>0. Types /\ LockHeld /\ Stored /\ KeysDiffer /\ SizeExact /\ Hands
  BY DEF IInv
<1>1. /\ pc[c] = Sizing /\ lock' = NULL /\ candidate' = NULL
      /\ pc' = [pc EXCEPT ![c] = Idle]
      /\ UNCHANGED <<chain, sizes, blocks, key, host, found, ops>>
  BY DEF SetSizeReturns, Goto
<1> USE <1>1 DEF chain, sizes, blocks
<1>2. Types'
  BY <1>0 DEF Types, Pointer
<1>3. pc'[c] = Idle /\ \A d \in Client : d # c => pc'[d] = pc[d]
  BY <1>0 DEF Types
<1>4. LockHeld'
  BY <1>0, <1>3, ClientAssumption DEF LockHeld
<1>5. SizeExact'
  BY <1>0, <1>3, SizeFrame
<1>6. KeysDiffer' /\ Stored'
  BY <1>0, <1>3 DEF KeysDiffer, Stored
<1>7. \A d \in Client :
        /\ pc'[d] \in {Idle, Sizing} <=> pc[d] \in {Idle, Sizing}
        /\ pc'[d] \in {Missed, Storing} => pc[d] \in {Missed, Storing}
        /\ pc'[d] = Leaving => found'[d] = header[Head(host[d])] /\ found'[d] # NULL
  BY <1>0, <1>3 DEF Hands
<1> QED BY <1>2, <1>4, <1>5, <1>6, <1>7, QuietKeeps

\* A store of what was stored meanwhile leaves the blocks to their client;
\* another one adds to the size and prunes.
LEMMA StoreKeeps ==
  ASSUME IInv, NEW c \in Client, Store(c)
  PROVE  IInv'
<1>0. Types /\ LockHeld /\ Hands /\ Stored /\ Held /\ Owned /\ KeysDiffer /\ Chained /\ SizeExact
  BY DEF IInv
<1> DEFINE H == Range(host[c])
<1>1. /\ pc[c] = Missed /\ lock = NULL
      /\ content' = [b \in Block |-> IF b \in H THEN key[c] ELSE content[b]]
      /\ UNCHANGED <<table, entry, live, most_recently_used, least_recently_used,
                     max_cache_size, heap, key, host, found, ops>>
  BY DEF Store, Computed, chain
<1>2. key[c] \in Key /\ \A b \in H : header[b] = NULL
  <2>1. host[c] # <<>>
    BY <1>0, <1>1 DEF Hands
  <2> QED BY <1>0, <1>1, <2>1 DEF Hands
<1> HIDE DEF H
<1>3. content' \in [Block -> Key \union {NULL}]
  BY <1>0, <1>1, <1>2 DEF Types
<1>4. \A b \in Block : header[b] # NULL => content'[b] = content[b]
  BY <1>1, <1>2
<1>5. CASE Duplicate(key[c]) # NULL
  <2>1. /\ header' = HeadersOf(H, NULL) /\ pc' = [pc EXCEPT ![c] = Using]
        /\ UNCHANGED <<current_cache_size, lock, candidate>>
    BY <1>5 DEF Store, Goto, H
  <2>2. header' = header
    <3>1. header = [b \in Block |-> header[b]]
      BY <1>0 DEF Types
    <3> QED BY <1>2, <2>1, <3>1 DEF HeadersOf
  <2>3. pc'[c] = Using /\ \A d \in Client : d # c => pc'[d] = pc[d]
    BY <1>0, <2>1 DEF Types
  <2>4. Types'
    BY <1>0, <1>1, <1>3, <2>1, <2>2 DEF Types
  <2>5. LockHeld'
    BY <1>0, <1>1, <2>1, <2>3 DEF LockHeld
  <2>6. SizeExact'
    BY <1>0, <1>1, <2>1, <2>3, SizeFrame
  <2>7. KeysDiffer'
    BY <1>0, <1>1, <2>3 DEF KeysDiffer
  <2>9. Stored'
    BY <1>0, <1>1, <2>3, ClientAssumption DEF LockHeld, Stored
  <2>8. \A d \in Client :
          /\ pc'[d] \in {Idle, Sizing} <=> pc[d] \in {Idle, Sizing}
          /\ pc'[d] \in {Missed, Storing} => pc[d] \in {Missed, Storing}
          /\ pc'[d] = Leaving => found'[d] = header[Head(host[d])] /\ found'[d] # NULL
    BY <1>0, <1>1, <2>3 DEF Hands
  <2> QED BY <1>1, <1>4, <2>2, <2>4, <2>5, <2>6, <2>7, <2>8, <2>9, QuietKeeps
<1>6. CASE Duplicate(key[c]) = NULL
  <2>1. /\ current_cache_size' = current_cache_size + BytesOf(key[c])
        /\ lock' = c /\ candidate' = least_recently_used
        /\ pc' = [pc EXCEPT ![c] = Storing] /\ header' = header
    BY <1>6 DEF Store, Goto
  <2>2. pc'[c] = Storing /\ \A d \in Client : d # c => pc'[d] = pc[d]
    BY <1>0, <2>1 DEF Types
  <2>3. Types'
    BY <1>0, <1>1, <1>3, <2>1 DEF Types
  <2>4. LockHeld'
    BY <1>0, <1>1, <2>1, <2>2, ClientAssumption DEF LockHeld
  <2>5. \A a \in live : entry[a].key # key[c]
    BY <1>0, <1>2, <1>6, FindRight DEF Duplicate
  <2>6. KeysDiffer'
    BY <1>0, <1>1, <2>2, <2>5 DEF KeysDiffer
  <2>7. SizeExact'
    <3>1. \A d \in Client : pc[d] # Storing
      BY <1>0, <1>1, ClientAssumption DEF LockHeld
    <3>2. StoringTotal(pc, key) = 0
      BY <3>1, NoneStoring
    <3>3. \A d \in Client : pc'[d] = Storing => d = c
      BY <2>2, <3>1
    <3>4. StoringTotal(pc', key') = BytesOf(key[c])
      BY <1>1, <1>2, <2>2, <3>3, OneStoring
    <3>5. EntriesTotal(live', entry') = EntriesTotal(live, entry) /\ EntriesTotal(live, entry) \in Nat
      BY <1>0, <1>1, EntriesType
    <3> QED BY <1>0, <2>1, <3>2, <3>4, <3>5, SizeSplit
  <2>8. \A d \in Client :
          /\ pc'[d] \in {Idle, Sizing} <=> pc[d] \in {Idle, Sizing}
          /\ pc'[d] \in {Missed, Storing} => pc[d] \in {Missed, Storing}
          /\ pc'[d] = Leaving => found'[d] = header[Head(host[d])] /\ found'[d] # NULL
    BY <1>0, <1>1, <2>2 DEF Hands
  <2>9. Stored'
    <3>1. \A d \in Client : pc'[d] = Storing => d = c
      BY <1>0, <1>1, <2>2, ClientAssumption DEF LockHeld
    <3>2. host[c] \in Seq(Block)
      BY <1>0 DEF Types
    <3>3. \A b \in H : content'[b] = key[c]
      BY <1>1, <3>2, RangeOf DEF H
    <3> QED BY <1>1, <3>1, <3>3 DEF Stored, H
  <2> QED BY <1>1, <1>4, <2>1, <2>3, <2>4, <2>6, <2>7, <2>8, <2>9, QuietKeeps
<1> QED BY <1>5, <1>6

\* A store that finds no memory for its entry takes back what it added.
LEMMA StoreFailsKeeps ==
  ASSUME IInv, NEW c \in Client, StoreFails(c)
  PROVE  IInv'
<1>0. Types /\ LockHeld /\ Hands /\ Stored /\ Owned /\ KeysDiffer /\ SizeExact
  BY DEF IInv
<1> DEFINE H == Range(host[c])
<1>1. /\ pc[c] = Storing /\ current_cache_size' = current_cache_size - BytesOf(key[c])
      /\ header' = HeadersOf(H, NULL)
      /\ lock' = NULL /\ candidate' = NULL /\ pc' = [pc EXCEPT ![c] = Using]
      /\ UNCHANGED <<table, entry, live, most_recently_used, least_recently_used,
                     max_cache_size, heap, content, key, host, found, ops>>
  BY DEF StoreFails, Goto, chain
<1>2. key[c] \in Key /\ \A b \in H : header[b] = NULL
  <2>1. host[c] # <<>>
    BY <1>0, <1>1 DEF Hands
  <2> QED BY <1>0, <1>1, <2>1 DEF Hands
<1> HIDE DEF H
<1>3. header' = header
  <2>1. header = [b \in Block |-> header[b]]
    BY <1>0 DEF Types
  <2> QED BY <1>1, <1>2, <2>1 DEF HeadersOf
<1>4. pc'[c] = Using /\ \A d \in Client : d # c => pc'[d] = pc[d]
  BY <1>0, <1>1 DEF Types
<1>5. Types'
  BY <1>0, <1>1, <1>3 DEF Types, Pointer
<1>6. LockHeld'
  BY <1>0, <1>1, <1>4, ClientAssumption DEF LockHeld
<1>7. KeysDiffer' /\ Stored'
  BY <1>0, <1>1, <1>4 DEF KeysDiffer, Stored
<1>8. SizeExact'
  <2>1. \A d \in Client : pc[d] = Storing => d = c
    BY <1>0, <1>1 DEF LockHeld
  <2>2. StoringTotal(pc, key) = BytesOf(key[c]) /\ BytesOf(key[c]) \in Nat
    BY <1>1, <1>2, <2>1, OneStoring, BytesType
  <2>3. StoringTotal(pc', key') = 0
    BY <1>4, <2>1, NoneStoring
  <2>4. EntriesTotal(live', entry') = EntriesTotal(live, entry) /\ EntriesTotal(live, entry) \in Nat
    BY <1>0, <1>1, EntriesType
  <2> QED BY <1>0, <1>1, <2>2, <2>3, <2>4, SizeSplit
<1>9. \A d \in Client :
        /\ pc'[d] \in {Idle, Sizing} <=> pc[d] \in {Idle, Sizing}
        /\ pc'[d] \in {Missed, Storing} => pc[d] \in {Missed, Storing}
        /\ pc'[d] = Leaving => found'[d] = header[Head(host[d])] /\ found'[d] # NULL
  BY <1>0, <1>1, <1>4 DEF Hands
<1> QED BY <1>1, <1>3, <1>5, <1>6, <1>7, <1>8, <1>9, QuietKeeps

\* A lookup that finds nothing hands out fresh blocks, or none.
LEMMA LookupMissKeeps ==
  ASSUME IInv, NEW c \in Client, NEW k \in Key, LookupMiss(c, k)
  PROVE  IInv' /\ header' = header
<1>0. Types /\ LockHeld /\ Hands /\ Stored /\ Held /\ Owned /\ KeysDiffer /\ Chained
      /\ InUseExact /\ NoBlockLost /\ SizeExact
  BY DEF IInv
<1>1. /\ pc[c] = Idle /\ lock = NULL /\ ops > 0 /\ ops' = ops - 1
      /\ UNCHANGED <<table, entry, live, most_recently_used, least_recently_used,
                     current_cache_size, max_cache_size, lock, candidate, found>>
  BY DEF LookupMiss, Begins, chain, sizes
<1>2. ops' \in Nat
  BY <1>0, <1>1 DEF Types
<1>3. \A b \in Block : header[b] # NULL => b \in heap
  BY <1>0 DEF Owned
<1>4. ASSUME NEW n \in 0 .. (TUPLES - 1), NEW got \in Mallocs(n),
             heap' = (heap \union Range(got)) \ FreedOnFailure(Range(got)),
             UNCHANGED <<header, content, key, host, pc>>
      PROVE  IInv'
  <2>1. Range(got) \cap heap = {}
    BY <1>4 DEF Mallocs, Range
  <2>2. heap' = heap
    BY <1>4, <2>1 DEF FreedOnFailure
  <2>3. Types'
    BY <1>0, <1>1, <1>2, <1>4, <2>2 DEF Types
  <2>4. LockHeld'
    BY <1>0, <1>1, <1>4 DEF LockHeld
  <2>5. SizeExact'
    BY <1>0, <1>1, <1>4, SizeFrame
  <2>6. KeysDiffer' /\ Stored'
    BY <1>0, <1>1, <1>4 DEF KeysDiffer, Stored
  <2>7. \A d \in Client : pc'[d] = Leaving => found'[d] = header[Head(host[d])] /\ found'[d] # NULL
    BY <1>0, <1>1, <1>4 DEF Hands
  <2> QED BY <1>1, <1>4, <2>2, <2>3, <2>4, <2>5, <2>6, <2>7, QuietKeeps
<1>5. ASSUME NEW got \in Mallocs(TUPLES), heap' = heap \union Range(got),
             header' = HeadersOf(Range(got), NULL), UNCHANGED content,
             key' = [key EXCEPT ![c] = k], host' = [host EXCEPT ![c] = got],
             pc' = [pc EXCEPT ![c] = Missed]
      PROVE  IInv' /\ header' = header
  <2>1. /\ got \in Seq(Block) /\ Len(got) = TUPLES /\ Once(got) /\ got # <<>>
        /\ Range(got) \cap heap = {}
    <3>1. got \in [1 .. TUPLES -> Block \ heap] /\ IsInjective(got)
      BY <1>5 DEF Mallocs
    <3>2. TUPLES \in Nat \ {0}
      BY TupleAssumption
    <3>3. got \in [1 .. TUPLES -> Block]
      BY <3>1
    <3>4. got \in Seq(Block) /\ Len(got) = TUPLES /\ DOMAIN got = 1 .. TUPLES
      BY <3>2, <3>3
    <3>5. Once(got)
      BY <3>1, Zenon DEF IsInjective, Once
    <3>6. Range(got) \cap heap = {}
      BY <3>1 DEF Range
    <3> QED BY <3>2, <3>4, <3>5, <3>6
  <2>2. /\ Range(got) \subseteq Block
        /\ \A b \in Range(got) : b \in Block /\ b \notin heap /\ header[b] = NULL
    BY <1>3, <2>1, RangeOf
  <2>3. header' = header
    <3>1. header = [b \in Block |-> header[b]]
      BY <1>0 DEF Types
    <3> QED BY <1>5, <2>2, <3>1 DEF HeadersOf
  <2>4. /\ host'[c] = got /\ key'[c] = k /\ pc'[c] = Missed
        /\ \A d \in Client : d # c => host'[d] = host[d] /\ key'[d] = key[d] /\ pc'[d] = pc[d]
    BY <1>0, <1>5 DEF Types
  <2>5. Types'
    <3>1. /\ host' \in [Client -> Seq(Block)] /\ key' \in [Client -> Key \union {NULL}]
          /\ pc' \in [Client -> {Idle, Missed, Storing, Using, Leaving, Sizing}]
      BY <1>0, <1>5, <2>1 DEF Types
    <3>2. heap' \subseteq Block
      BY <1>0, <1>5, <2>2 DEF Types
    <3> QED BY <1>0, <1>1, <1>2, <1>5, <2>3, <3>1, <3>2 DEF Types
  <2>6. LockHeld'
    BY <1>0, <1>1, <2>4 DEF LockHeld
  <2>7. Hands'
    <3> SUFFICES ASSUME NEW d \in Client
                 PROVE  /\ Once(host'[d])
                        /\ host'[d] = <<>> <=> pc'[d] \in {Idle, Sizing}
                        /\ host'[d] # <<>> => key'[d] \in Key
                        /\ pc'[d] \in {Missed, Storing} => /\ Len(host'[d]) = TUPLES
                                                           /\ \A b \in Range(host'[d]) : header[b] = NULL
                        /\ pc'[d] = Leaving => found[d] = header[Head(host'[d])] /\ found[d] # NULL
      BY <1>1, <2>3 DEF Hands
    <3>1. CASE d = c
      BY <2>1, <2>2, <2>4, <3>1
    <3>2. CASE d # c
      BY <1>0, <2>4, <3>2 DEF Hands
    <3> QED BY <3>1, <3>2
  <2>8. Held'
    <3> SUFFICES ASSUME NEW d \in Client
                 PROVE  /\ Range(host'[d]) \subseteq heap'
                        /\ \A b \in Range(host'[d]) :
                             /\ header[b] # NULL => entry[header[b]].key = key'[d]
                             /\ header[b] = NULL => \A e \in Client : b \in Range(host'[e]) => e = d
                             /\ \A e \in Range(host'[d]) : header[b] = header[e]
      BY <1>1, <2>3 DEF Held
    <3>1. \A e \in Client : Range(host[e]) \subseteq heap
      BY <1>0 DEF Held
    <3>2. CASE d = c
      BY <1>5, <2>2, <2>4, <3>1, <3>2
    <3>3. CASE d # c
      <4>1. \A b \in Range(host[d]) : header[b] = NULL => \A e \in Client : b \in Range(host'[e]) => e = d
        BY <1>0, <2>2, <2>4, <3>1 DEF Held
      <4> QED BY <1>0, <1>5, <2>4, <3>3, <4>1 DEF Held
    <3> QED BY <3>2, <3>3
  <2>9. Owned'
    <3>1. \A a \in live : Range(entry[a].buf) \subseteq heap'
      BY <1>0, <1>5 DEF Owned
    <3>2. live' = live /\ entry' = entry /\ header' = header /\ content' = content
      BY <1>1, <1>5, <2>3
    <3> QED BY <1>0, <3>1, <3>2, Zenon DEF Owned
  <2>10. KeysDiffer'
    BY <1>0, <1>1, <2>4 DEF KeysDiffer
  <2>15. Stored'
    <3> SUFFICES ASSUME NEW d \in Client, pc'[d] = Storing
                 PROVE  \A b \in Range(host'[d]) : content[b] = key'[d]
      BY <1>5 DEF Stored
    <3> QED BY <1>0, <2>4 DEF Stored
  <2>11. Chained'
    BY <1>0, <1>1, ChainedFrame
  <2>12. InUseExact'
    <3>1. ASSUME NEW a \in live
          PROVE  UsersOf(host', header', a) = UsersOf(host, header, a)
      <4>1. a # NULL /\ host[c] = <<>>
        BY <1>0, <1>1, <3>1, AddrAssumption DEF Types, Hands
      <4>2. \A b \in Range(<<>>) : FALSE
        BY DEF Range
      <4>3. ASSUME NEW p \in Client \X Block
            PROVE  p[2] \in Range(host'[p[1]]) /\ header'[p[2]] = a
                     <=> p[2] \in Range(host[p[1]]) /\ header[p[2]] = a
        <5>1. p[1] \in Client
          OBVIOUS
        <5>2. CASE p[1] = c
          BY <2>2, <2>3, <2>4, <4>1, <4>2, <5>2
        <5>3. CASE p[1] # c
          BY <2>3, <2>4, <5>1, <5>3
        <5> QED BY <5>2, <5>3
      <4> QED BY <4>3 DEF UsersOf
    <3> QED BY <1>0, <1>1, <2>5, <3>1, InUseFrame
  <2>13. NoBlockLost'
    <3>1. Range(<<>>) = {} /\ host[c] = <<>>
      BY <1>0, <1>1 DEF Range, Hands
    <3> QED BY <1>0, <1>1, <1>5, <2>4, <3>1, LostIs, LostIsNext
  <2>14. SizeExact'
    <3>1. \A d \in Client : pc'[d] = Storing <=> pc[d] = Storing
      BY <1>1, <2>4
    <3>2. \A d \in Client : pc[d] = Storing => key'[d] = key[d]
      BY <1>1, <2>4
    <3> QED BY <1>0, <1>1, <3>1, <3>2, SizeFrame
  <2> QED BY <2>3, <2>5, <2>6, <2>7, <2>8, <2>9, <2>10, <2>11, <2>12, <2>13, <2>14, <2>15 DEF IInv
<1> QED BY <1>4, <1>5 DEF LookupMiss, Goto

(***************************************************************************)
(* A release.                                                              *)
(***************************************************************************)
LEMMA EmptyLen ==
  ASSUME NEW q \in Seq(Block)
  PROVE  q = <<>> <=> Len(q) = 0
  OBVIOUS

\* What a release does to the client: its first buffer is gone.
LEMMA ReleasedDoes ==
  ASSUME IInv, NEW c \in Client, host[c] # <<>>, Released(c)
  PROVE  /\ host' \in [Client -> Seq(Block)] /\ key' \in [Client -> Key \union {NULL}]
         /\ pc' \in [Client -> {Idle, Missed, Storing, Using, Leaving, Sizing}]
         /\ host'[c] = Tail(host[c]) /\ Once(Tail(host[c]))
         /\ Head(host[c]) \in Range(host[c]) /\ Head(host[c]) \in Block
         /\ Range(host'[c]) = Range(host[c]) \ {Head(host[c])}
         /\ host'[c] = <<>> => pc'[c] = Idle
         /\ host'[c] # <<>> => pc'[c] = Using /\ key'[c] = key[c]
         /\ \A d \in Client : d # c => host'[d] = host[d] /\ key'[d] = key[d] /\ pc'[d] = pc[d]
<1>1. Types /\ Hands
  BY DEF IInv
<1>2. host[c] \in Seq(Block) /\ Once(host[c])
  BY <1>1 DEF Types, Hands
<1>3. /\ Head(host[c]) \in Range(host[c]) /\ Tail(host[c]) \in Seq(Block) /\ Once(Tail(host[c]))
      /\ Len(host[c]) \in Nat \ {0} /\ Len(Tail(host[c])) = Len(host[c]) - 1
      /\ Range(Tail(host[c])) = Range(host[c]) \ {Head(host[c])}
  BY <1>2, TailOf
<1>4. Head(host[c]) \in Block
  BY <1>2, RangeOf
<1>5. host' = [host EXCEPT ![c] = Tail(host[c])]
  BY DEF Released
<1>6. host'[c] = Tail(host[c]) /\ \A d \in Client : d # c => host'[d] = host[d]
  BY <1>1, <1>5 DEF Types
<1>7. Tail(host[c]) = <<>> <=> Len(host[c]) = 1
  <2> DEFINE t == Tail(host[c])
  <2>1. t \in Seq(Block) /\ Len(t) = Len(host[c]) - 1 /\ Len(host[c]) \in Nat
    BY <1>3
  <2> HIDE DEF t
  <2>2. t = <<>> <=> Len(t) = 0
    BY <2>1, EmptyLen
  <2> QED BY <2>1, <2>2 DEF t
<1>8. CASE Len(host[c]) = 1
  <2>1. pc' = [pc EXCEPT ![c] = Idle] /\ key' = [key EXCEPT ![c] = NULL]
    BY <1>8 DEF Released, Goto
  <2> QED BY <1>1, <1>3, <1>4, <1>5, <1>6, <1>7, <1>8, <2>1 DEF Types
<1>9. CASE Len(host[c]) # 1
  <2>1. pc' = [pc EXCEPT ![c] = Using] /\ key' = key
    BY <1>9 DEF Released, Goto
  <2> QED BY <1>1, <1>3, <1>4, <1>5, <1>6, <1>7, <1>9, <2>1 DEF Types
<1> QED BY <1>8, <1>9

\* What a release keeps whether the block is the client's own or an entry's.
LEMMA ReleaseKeeps ==
  ASSUME IInv, NEW c \in Client, pc[c] \in {Using, Leaving}, Released(c),
         UNCHANGED <<table, live, current_cache_size, lock>>,
         \A a \in live : /\ entry'[a].next = entry[a].next /\ entry'[a].key = entry[a].key
                         /\ entry'[a].buf = entry[a].buf,
         header' = header, found' \in [Client -> Pointer],
         \A d \in Client : d # c => found'[d] = found[d],
         \A b \in heap : b # Head(host[c]) => b \in heap',
         \A b \in Block : content'[b] = content[b] \/ (b = Head(host[c]) /\ header[b] = NULL),
         heap' = heap \/ header[Head(host[c])] = NULL
  PROVE  LockHeld' /\ Hands' /\ Stored' /\ Held' /\ KeysDiffer' /\ Chained' /\ SizeExact'
<1>0. Types /\ LockHeld /\ Hands /\ Stored /\ Held /\ Owned /\ KeysDiffer /\ Chained /\ SizeExact
  BY DEF IInv
<1>1. host[c] # <<>>
  BY <1>0 DEF Hands
<1>2. /\ host' \in [Client -> Seq(Block)] /\ key' \in [Client -> Key \union {NULL}]
      /\ pc' \in [Client -> {Idle, Missed, Storing, Using, Leaving, Sizing}]
      /\ host'[c] = Tail(host[c]) /\ Once(Tail(host[c]))
      /\ Head(host[c]) \in Range(host[c]) /\ Head(host[c]) \in Block
      /\ Range(host'[c]) = Range(host[c]) \ {Head(host[c])}
      /\ host'[c] = <<>> => pc'[c] = Idle
      /\ host'[c] # <<>> => pc'[c] = Using /\ key'[c] = key[c]
      /\ \A d \in Client : d # c => host'[d] = host[d] /\ key'[d] = key[d] /\ pc'[d] = pc[d]
  BY <1>1, ReleasedDoes
<1>3. LockHeld'
  BY <1>0, <1>2 DEF LockHeld
<1>4. Hands'
  <2> SUFFICES ASSUME NEW d \in Client
               PROVE  /\ Once(host'[d])
                      /\ host'[d] = <<>> <=> pc'[d] \in {Idle, Sizing}
                      /\ host'[d] # <<>> => key'[d] \in Key
                      /\ pc'[d] \in {Missed, Storing} => /\ Len(host'[d]) = TUPLES
                                                         /\ \A b \in Range(host'[d]) : header[b] = NULL
                      /\ pc'[d] = Leaving => found'[d] = header[Head(host'[d])] /\ found'[d] # NULL
    BY DEF Hands
  <2>1. CASE d = c
    <3>1. key[c] \in Key
      BY <1>0, <1>1 DEF Hands
    <3>2. pc'[c] \in {Idle, Using}
      BY <1>2
    <3> QED BY <1>2, <2>1, <3>1, <3>2
  <2>2. CASE d # c
    BY <1>0, <1>2, <2>2 DEF Hands
  <2> QED BY <2>1, <2>2
<1>5. Held'
  <2> SUFFICES ASSUME NEW d \in Client
               PROVE  /\ Range(host'[d]) \subseteq heap'
                      /\ \A b \in Range(host'[d]) :
                           /\ header[b] # NULL => entry'[header[b]].key = key'[d]
                           /\ header[b] = NULL => \A e \in Client : b \in Range(host'[e]) => e = d
                           /\ \A e \in Range(host'[d]) : header[b] = header[e]
    BY DEF Held
  <2>1. Range(host'[d]) \subseteq Range(host[d])
    BY <1>2
  <2>2. \A b \in Range(host[d]) : b \in Block /\ b \in heap
    BY <1>0, RangeOf DEF Types, Held
  <2>3. \A e \in Client : \A b \in Range(host'[e]) : b \in Range(host[e])
    BY <1>2
  <2>4. \A b \in Range(host'[d]) :
          header[b] = NULL => \A e \in Client : b \in Range(host'[e]) => e = d
    BY <1>0, <2>1, <2>3 DEF Held
  <2>5. \A b \in Range(host'[d]) : \A e \in Range(host'[d]) : header[b] = header[e]
    BY <1>0, <2>1 DEF Held
  <2>6. \A b \in Range(host'[d]) : key'[d] = key[d]
    <3>1. Range(<<>>) = {}
      BY DEF Range
    <3>2. CASE d = c
      BY <1>2, <3>1, <3>2
    <3>3. CASE d # c
      BY <1>2, <3>3
    <3> QED BY <3>2, <3>3
  <2>7. \A b \in Range(host'[d]) : header[b] # NULL => entry'[header[b]].key = key'[d]
    BY <1>0, <2>1, <2>2, <2>6 DEF Held, Owned
  <2>8. Range(host'[d]) \subseteq heap'
    <3>1. ASSUME NEW b \in Range(host'[d]) PROVE b # Head(host[c]) \/ b \in heap'
      <4>1. CASE d = c
        BY <1>2, <3>1, <4>1
      <4>2. CASE d # c
        <5>1. b \in Range(host[d]) /\ b \in heap
          BY <1>2, <2>2, <3>1, <4>2
        <5>2. b = Head(host[c]) => header[b] # NULL
          BY <1>0, <1>2, <4>2, <5>1 DEF Held
        <5> QED BY <5>1, <5>2
      <4> QED BY <4>1, <4>2
    <3> QED BY <2>1, <2>2, <3>1
  <2> QED BY <2>4, <2>5, <2>7, <2>8
<1>6. KeysDiffer'
  <2>1. \A d \in Client : pc'[d] = Storing => pc[d] = Storing /\ key'[d] = key[d]
    BY <1>2
  <2> QED BY <1>0, <2>1, KeysFrame
<1>9. Stored'
  <2> SUFFICES ASSUME NEW d \in Client, pc'[d] = Storing, NEW b \in Range(host'[d])
               PROVE  content'[b] = key'[d]
    BY DEF Stored
  <2>1. d # c /\ pc[d] = Storing /\ b \in Range(host[d])
    BY <1>2
  <2>2. b \in Block /\ content[b] = key[d] /\ key'[d] = key[d]
    BY <1>0, <1>2, <2>1, RangeOf DEF Types, Stored
  <2>3. ~(b = Head(host[c]) /\ header[b] = NULL)
    BY <1>0, <1>2, <2>1 DEF Held
  <2> QED BY <2>2, <2>3
<1>7. Chained'
  BY <1>0, ChainedFrame
<1>8. SizeExact'
  <2>1. \A d \in Client : pc'[d] = Storing <=> pc[d] = Storing
    BY <1>2
  <2>2. \A d \in Client : pc[d] = Storing => key'[d] = key[d]
    BY <1>2
  <2> QED BY <1>0, <2>1, <2>2, SizeFrame
<1> QED BY <1>3, <1>4, <1>5, <1>6, <1>7, <1>8, <1>9

\* A block that is the client's own is freed when it is released.
LEMMA ReleaseOwnKeeps ==
  ASSUME IInv, NEW c \in Client, ReleaseOwn(c)
  PROVE  IInv'
<1>0. Types /\ LockHeld /\ Hands /\ Stored /\ Held /\ Owned /\ KeysDiffer /\ Chained
      /\ InUseExact /\ NoBlockLost /\ SizeExact
  BY DEF IInv
<1> DEFINE h == Head(host[c])
<1>1. /\ pc[c] = Using /\ header[h] = NULL /\ Released(c)
      /\ heap' = heap \ {h} /\ header' = HeadersOf({h}, NULL)
      /\ content' = [b \in Block |-> IF b \in {h} THEN NULL ELSE content[b]]
      /\ UNCHANGED <<table, entry, live, most_recently_used, least_recently_used,
                     current_cache_size, max_cache_size, lock, candidate, found, ops>>
  BY DEF ReleaseOwn, Free, chain, sizes
<1>2. host[c] # <<>>
  BY <1>0, <1>1 DEF Hands
<1>3. /\ host' \in [Client -> Seq(Block)] /\ key' \in [Client -> Key \union {NULL}]
      /\ pc' \in [Client -> {Idle, Missed, Storing, Using, Leaving, Sizing}]
      /\ h \in Range(host[c]) /\ h \in Block
      /\ Range(host'[c]) = Range(host[c]) \ {h}
      /\ \A d \in Client : d # c => host'[d] = host[d] /\ key'[d] = key[d] /\ pc'[d] = pc[d]
  BY <1>1, <1>2, ReleasedDoes
<1> HIDE DEF h
<1>4. header' = header
  <2>1. header = [b \in Block |-> header[b]]
    BY <1>0 DEF Types
  <2> QED BY <1>1, <2>1 DEF HeadersOf
<1>5. Types'
  <2>1. heap' \subseteq Block /\ content' \in [Block -> Key \union {NULL}]
    BY <1>0, <1>1 DEF Types
  <2> QED BY <1>0, <1>1, <1>3, <1>4, <2>1 DEF Types
<1>6. LockHeld' /\ Hands' /\ Stored' /\ Held' /\ KeysDiffer' /\ Chained' /\ SizeExact'
  <2>1. found' \in [Client -> Pointer]
    BY <1>0, <1>1 DEF Types
  <2>2. \A b \in heap : b # h => b \in heap'
    BY <1>1
  <2>3. \A b \in Block : content'[b] = content[b] \/ (b = h /\ header[b] = NULL)
    BY <1>1
  <2> QED BY <1>1, <1>4, <2>1, <2>2, <2>3, ReleaseKeeps DEF h
<1>7. \A a \in live : h \notin Range(entry[a].buf) /\ a # NULL
  BY <1>0, <1>1, <1>3, AddrAssumption DEF Owned, Types
<1>8. Owned'
  <2>1. \A a \in live : Range(entry[a].buf) \subseteq heap'
    BY <1>0, <1>1, <1>7 DEF Owned
  <2>2. \A a \in live : \A b \in Range(entry[a].buf) : content'[b] = entry[a].key
    <3> SUFFICES ASSUME NEW a \in live, NEW b \in Range(entry[a].buf)
                 PROVE  content'[b] = entry[a].key
      OBVIOUS
    <3>1. entry[a].buf \in Seq(Block)
      BY <1>0 DEF Types, Entry
    <3>2. b \in Block /\ b # h
      BY <1>7, <3>1, RangeOf
    <3>3. content[b] = entry[a].key
      BY <1>0 DEF Owned
    <3> QED BY <1>1, <3>2, <3>3
  <2>3. live' = live /\ entry' = entry /\ header' = header
    BY <1>1, <1>4
  <2> QED BY <1>0, <2>1, <2>2, <2>3, Zenon DEF Owned
<1>9. InUseExact'
  <2>1. ASSUME NEW a \in live
        PROVE  UsersOf(host', header', a) = UsersOf(host, header, a)
    <3>1. a # NULL
      BY <1>7
    <3>2. ASSUME NEW p \in Client \X Block
          PROVE  p[2] \in Range(host'[p[1]]) /\ header'[p[2]] = a
                   <=> p[2] \in Range(host[p[1]]) /\ header[p[2]] = a
      <4>1. p[1] \in Client
        OBVIOUS
      <4>2. CASE p[1] = c
        BY <1>1, <1>3, <1>4, <3>1, <4>2
      <4>3. CASE p[1] # c
        BY <1>3, <1>4, <4>1, <4>3
      <4> QED BY <4>2, <4>3
    <3> QED BY <3>2 DEF UsersOf
  <2> QED BY <1>0, <1>1, <1>5, <2>1, InUseFrame
<1>10. NoBlockLost'
  <2>1. \A d \in Client : h \in Range(host[d]) => d = c
    BY <1>0, <1>1, <1>3 DEF Held
  <2> SUFFICES ASSUME NEW b
               PROVE  b \in heap' <=> \/ \E a \in live : b \in Range(entry[a].buf)
                                      \/ \E d \in Client : b \in Range(host'[d])
    BY <1>1, LostIsNext
  <2>2. b \in heap <=> \/ \E a \in live : b \in Range(entry[a].buf)
                       \/ \E d \in Client : b \in Range(host[d])
    BY <1>0, LostIs
  <2>3. (\E d \in Client : b \in Range(host'[d])) <=> b # h /\ \E d \in Client : b \in Range(host[d])
    BY <1>3, <2>1
  <2> QED BY <1>1, <1>7, <2>2, <2>3
<1> QED BY <1>5, <1>6, <1>8, <1>9, <1>10 DEF IInv

\* The entry counted down is the one of the block, which was not evicted
\* since the header was read.
LEMMA ReleaseSharedKeeps ==
  ASSUME IInv, NEW c \in Client, ReleaseShared(c)
  PROVE  IInv'
<1>0. Types /\ LockHeld /\ Hands /\ Stored /\ Held /\ Owned /\ KeysDiffer /\ Chained
      /\ InUseExact /\ NoBlockLost /\ SizeExact
  BY DEF IInv
<1> DEFINE h == Head(host[c])
           a == found[c]
<1>1. /\ pc[c] = Leaving /\ Released(c) /\ entry[a].in_use_count > 0
      /\ entry' = [entry EXCEPT ![a].in_use_count = @ - 1]
      /\ found' = [found EXCEPT ![c] = NULL]
      /\ UNCHANGED <<table, live, most_recently_used, least_recently_used, current_cache_size,
                     max_cache_size, heap, header, content, lock, candidate, ops>>
  BY DEF ReleaseShared, sizes, blocks
<1>2. host[c] # <<>> /\ a = header[h] /\ a # NULL
  BY <1>0, <1>1 DEF Hands
<1>3. /\ host' \in [Client -> Seq(Block)] /\ key' \in [Client -> Key \union {NULL}]
      /\ pc' \in [Client -> {Idle, Missed, Storing, Using, Leaving, Sizing}]
      /\ h \in Range(host[c]) /\ h \in Block
      /\ Range(host'[c]) = Range(host[c]) \ {h}
      /\ \A d \in Client : d # c => host'[d] = host[d] /\ key'[d] = key[d] /\ pc'[d] = pc[d]
  BY <1>1, <1>2, ReleasedDoes
<1>4. a \in live /\ a \in Addr /\ h \in Range(entry[a].buf)
  BY <1>0, <1>2, <1>3 DEF Owned, Types
<1> HIDE DEF h, a
<1>5. /\ entry' \in [Addr -> Entry]
      /\ \A d \in Addr :
           /\ entry'[d].next = entry[d].next /\ entry'[d].key = entry[d].key
           /\ entry'[d].buf = entry[d].buf
           /\ entry'[d].in_use_count
                = IF d = a THEN entry[d].in_use_count - 1 ELSE entry[d].in_use_count
  <2> DEFINE n == entry[a].in_use_count - 1
             r == [entry[a] EXCEPT !.in_use_count = n]
  <2>1. entry \in [Addr -> Entry] /\ entry[a] \in Entry
    BY <1>0, <1>4 DEF Types
  <2>2. n \in Nat
    BY <1>1, <2>1 DEF Entry
  <2>3. entry' = [entry EXCEPT ![a] = r]
    BY <1>1, <1>4, <2>1
  <2> HIDE DEF n
  <2>4. r \in Entry /\ r.next = entry[a].next /\ r.key = entry[a].key /\ r.buf = entry[a].buf
        /\ r.in_use_count = n
    BY <2>1, <2>2 DEF Entry
  <2> HIDE DEF r
  <2>5. \A d \in Addr : entry'[d] = IF d = a THEN r ELSE entry[d]
    BY <1>4, <2>1, <2>3
  <2>6. entry' \in [Addr -> Entry]
    BY <2>1, <2>3, <2>4
  <2> QED BY <2>4, <2>5, <2>6 DEF n
<1>6. live \subseteq Addr
  BY <1>0 DEF Types
<1>7. Types'
  <2>1. found' \in [Client -> Pointer]
    BY <1>0, <1>1 DEF Types, Pointer
  <2> QED BY <1>0, <1>1, <1>3, <1>5, <2>1 DEF Types
<1>8. LockHeld' /\ Hands' /\ Stored' /\ Held' /\ KeysDiffer' /\ Chained' /\ SizeExact'
  <2>1. found' \in [Client -> Pointer] /\ \A d \in Client : d # c => found'[d] = found[d]
    BY <1>0, <1>1, <1>7 DEF Types
  <2> QED BY <1>1, <1>5, <1>6, <2>1, ReleaseKeeps
<1>9. Owned'
  BY <1>0, <1>1, <1>5, <1>6, OwnedFrame
<1>10. InUseExact'
  <2>1. \A d \in live : entry[d].in_use_count = Cardinality(UsersOf(host, header, d))
    BY <1>0, InUseIs DEF Types
  <2>2. \A d \in live : UsersOf(host', header', d) = IF d = a THEN UsersOf(host, header, a) \ {<<c, h>>}
                                                     ELSE UsersOf(host, header, d)
    <3> SUFFICES ASSUME NEW d \in live, NEW p \in Client \X Block
                 PROVE  p[2] \in Range(host'[p[1]]) /\ header'[p[2]] = d
                          <=> (p[2] \in Range(host[p[1]]) /\ header[p[2]] = d) /\ (d = a => p # <<c, h>>)
      BY DEF UsersOf
    <3>1. p = <<p[1], p[2]>> /\ p[1] \in Client
      OBVIOUS
    <3>2. CASE p[1] = c
      BY <1>1, <1>2, <1>3, <3>1, <3>2 DEF h, a
    <3>3. CASE p[1] # c
      BY <1>1, <1>3, <3>1, <3>3
    <3> QED BY <3>2, <3>3
  <2>3. <<c, h>> \in UsersOf(host, header, a)
    BY <1>2, <1>3 DEF UsersOf, h, a
  <2>4. Cardinality(UsersOf(host', header', a)) = Cardinality(UsersOf(host, header, a)) - 1
    <3>1. IsFiniteSet(UsersOf(host, header, a))
      BY <1>0, <1>4, UsersFinite
    <3> QED BY <1>4, <2>2, <2>3, <3>1, Smaller
  <2>5. \A d \in live' : entry'[d].in_use_count = Cardinality(UsersOf(host', header', d))
    BY <1>1, <1>5, <1>6, <2>1, <2>2, <2>4
  <2> QED BY <1>7, <2>5, InUseIsNext DEF Types
<1>11. NoBlockLost'
  <2> SUFFICES ASSUME NEW b
               PROVE  b \in heap <=> \/ \E d \in live : b \in Range(entry[d].buf)
                                     \/ \E d \in Client : b \in Range(host'[d])
    BY <1>1, <1>5, <1>6, LostIsNext
  <2>1. b \in heap <=> \/ \E d \in live : b \in Range(entry[d].buf)
                       \/ \E d \in Client : b \in Range(host[d])
    BY <1>0, LostIs
  <2>2. b # h => ((\E d \in Client : b \in Range(host'[d])) <=> \E d \in Client : b \in Range(host[d]))
    BY <1>3
  <2> QED BY <1>3, <1>4, <2>1, <2>2
<1> QED BY <1>7, <1>8, <1>9, <1>10, <1>11 DEF IInv

\* Client c's blocks become those of the one new entry, for its key.
Inserts(c) ==
  /\ UNCHANGED <<key, host>>
  /\ \A d \in live : entry[d].key # key[c] /\ entry'[d].key = entry[d].key
  /\ \A b \in Range(host[c]) : header[b] = NULL
  /\ \E a : /\ a # NULL
            /\ live' = live \union {a} /\ entry'[a].key = key[c]
            /\ \A b \in Block : header'[b] = IF b \in Range(host[c]) THEN a ELSE header[b]

\* A store links its entry in front of the bucket.
LEMMA StoreEntryKeeps ==
  ASSUME IInv, NEW c \in Client, StoreEntry(c)
  PROVE  IInv' /\ Inserts(c)
<1>0. Types /\ LockHeld /\ Hands /\ Stored /\ Held /\ Owned /\ KeysDiffer /\ Chained
      /\ InUseExact /\ NoBlockLost /\ SizeExact
  BY DEF IInv
<1> DEFINE a == Malloc(Addr, live)
           i == Index[key[c]]
           H == Range(host[c])
           base == Put(entry, most_recently_used, "more_recent", a)
           new == [next |-> table[i], more_recent |-> NULL,
                   less_recent |-> most_recently_used, key |-> key[c],
                   in_use_count |-> TUPLES, buf |-> host[c]]
<1>1. /\ pc[c] = Storing /\ live # Addr
      /\ entry' = [base EXCEPT ![a] = new]
      /\ live' = live \union {a}
      /\ most_recently_used' = a
      /\ least_recently_used' = IF least_recently_used = NULL THEN a ELSE least_recently_used
      /\ table' = [table EXCEPT ![i] = a]
      /\ header' = HeadersOf(H, a)
      /\ lock' = NULL /\ candidate' = NULL /\ pc' = [pc EXCEPT ![c] = Using]
      /\ UNCHANGED <<current_cache_size, max_cache_size, heap, content, key, host, found, ops>>
  BY DEF StoreEntry, Goto, sizes
<1>2. a \in Addr /\ a \notin live /\ a # NULL
  <2> DEFINE S == Addr \ live
  <2>1. S \in SUBSET Nat /\ S # {}
    BY <1>0, <1>1, AddrAssumption DEF Types
  <2> HIDE DEF S
  <2>2. \E x \in S : \A y \in S : x <= y
    BY <2>1, Smallest
  <2>3. Min(S) \in S
    BY <2>2, Zenon DEF Min
  <2>4. a \in S
    BY <2>3 DEF Malloc, S
  <2> QED BY <2>4, AddrAssumption DEF S
<1>3. /\ host[c] \in Seq(Block) /\ host[c] # <<>> /\ Once(host[c]) /\ Len(host[c]) = TUPLES
      /\ key[c] \in Key /\ \A b \in H : header[b] = NULL /\ b \in Block /\ b \in heap
  <2>1. host[c] \in Seq(Block) /\ host[c] # <<>>
    BY <1>0, <1>1 DEF Types, Hands
  <2>2. \A b \in H : b \in Block
    BY <2>1, RangeOf
  <2> QED BY <1>0, <1>1, <2>1, <2>2 DEF Hands, Held
<1>4. i \in Buckets /\ table[i] \in Pointer /\ table \in [Buckets -> Pointer]
  BY <1>0, <1>3 DEF Types, Buckets
<1> HIDE DEF a, i, H, base, new
<1>5. base \in [Addr -> Entry] /\ \A d \in Addr : SameData(base[d], entry[d])
  BY <1>0, <1>2, PutMore DEF base, Types, Pointer
<1>6. /\ new \in Entry /\ new.next = table[i] /\ new.key = key[c] /\ new.in_use_count = TUPLES
      /\ new.buf = host[c]
  <2>1. most_recently_used \in Pointer /\ NULL \in Pointer /\ TUPLES \in Nat
    BY <1>0, TupleAssumption DEF Types, Pointer
  <2> QED BY <1>3, <1>4, <2>1 DEF new, Entry
<1>7. /\ entry' \in [Addr -> Entry] /\ entry'[a] = new
      /\ \A d \in Addr : d # a => SameData(entry'[d], entry[d])
  BY <1>1, <1>2, <1>5, <1>6
<1>8. live \subseteq Addr /\ \A d \in live : d \in Addr /\ d # a /\ d # NULL
  BY <1>0, <1>2, AddrAssumption DEF Types
<1>9. \A d \in live : /\ entry'[d].next = entry[d].next /\ entry'[d].key = entry[d].key
                      /\ entry'[d].in_use_count = entry[d].in_use_count
                      /\ entry'[d].buf = entry[d].buf
  BY <1>7, <1>8 DEF SameData
<1>10. header' \in [Block -> Pointer] /\ \A b \in Block : header'[b] = IF b \in H THEN a ELSE header[b]
  BY <1>0, <1>1, <1>2 DEF Types, HeadersOf, Pointer
<1>11. pc'[c] = Using /\ \A d \in Client : d # c => pc'[d] = pc[d]
  BY <1>0, <1>1 DEF Types
<1>12. \A d \in Client : pc[d] = Storing => d = c
  BY <1>0, <1>1 DEF LockHeld
<1>13. \A d \in live : entry[d].key # key[c]
  BY <1>0, <1>1 DEF KeysDiffer
<1>14. Types'
  <2>1. table' \in [Buckets -> Pointer] /\ live' \subseteq Addr
    BY <1>1, <1>2, <1>4, <1>8 DEF Pointer
  <2>2. most_recently_used' \in Pointer /\ least_recently_used' \in Pointer /\ candidate' \in Pointer
        /\ lock' \in Client \union {NULL}
        /\ pc' \in [Client -> {Idle, Missed, Storing, Using, Leaving, Sizing}]
    BY <1>0, <1>1, <1>2 DEF Types, Pointer
  <2> QED BY <1>0, <1>1, <1>7, <1>10, <2>1, <2>2 DEF Types
<1>15. LockHeld'
  BY <1>0, <1>1, <1>11, ClientAssumption DEF LockHeld
<1>16. \A d \in Client : d # c => \A b \in Range(host[d]) : b \notin H
  BY <1>0, <1>3 DEF Held, H
<1>17. \A d \in Client : \A b \in Range(host[d]) : b \in Block
  BY <1>0, RangeOf DEF Types
<1>18. Hands'
  <2> SUFFICES ASSUME NEW d \in Client
               PROVE  /\ Once(host[d])
                      /\ host[d] = <<>> <=> pc'[d] \in {Idle, Sizing}
                      /\ host[d] # <<>> => key[d] \in Key
                      /\ pc'[d] \in {Missed, Storing} => /\ Len(host[d]) = TUPLES
                                                         /\ \A b \in Range(host[d]) : header'[b] = NULL
                      /\ pc'[d] = Leaving => found[d] = header'[Head(host[d])] /\ found[d] # NULL
    BY <1>1 DEF Hands
  <2>1. CASE d = c
    BY <1>0, <1>1, <1>11, <2>1 DEF Hands
  <2>2. CASE d # c
    <3>1. \A b \in Range(host[d]) : header'[b] = header[b]
      BY <1>10, <1>16, <1>17, <2>2
    <3>2. host[d] # <<>> => Head(host[d]) \in Range(host[d])
      BY <1>0, RangeOf DEF Types
    <3>3. pc[d] = Leaving => host[d] # <<>>
      BY <1>0 DEF Hands
    <3> QED BY <1>0, <1>11, <2>2, <3>1, <3>2, <3>3 DEF Hands
  <2> QED BY <2>1, <2>2
<1>19. Held'
  <2> SUFFICES ASSUME NEW d \in Client
               PROVE  /\ Range(host[d]) \subseteq heap
                      /\ \A b \in Range(host[d]) :
                           /\ header'[b] # NULL => entry'[header'[b]].key = key[d]
                           /\ header'[b] = NULL => \A e \in Client : b \in Range(host[e]) => e = d
                           /\ \A e \in Range(host[d]) : header'[b] = header'[e]
    BY <1>1 DEF Held
  <2>1. CASE d = c
    <3>1. \A b \in Range(host[d]) : header'[b] = a
      BY <1>10, <1>17, <2>1 DEF H
    <3> QED BY <1>0, <1>2, <1>6, <1>7, <2>1, <3>1 DEF Held
  <2>2. CASE d # c
    <3>1. \A b \in Range(host[d]) : header'[b] = header[b]
      BY <1>10, <1>16, <1>17, <2>2
    <3>2. \A b \in Range(host[d]) : header[b] # NULL => entry'[header[b]].key = key[d]
      BY <1>0, <1>9, <1>17 DEF Held, Owned
    <3> QED BY <1>0, <3>1, <3>2 DEF Held
  <2> QED BY <2>1, <2>2
<1>20. Owned'
  <2>1. \A b \in Block : header'[b] # NULL => header'[b] \in live'
    BY <1>0, <1>1, <1>10 DEF Owned
  <2>2. /\ entry'[a].key \in Key
        /\ Len(entry'[a].buf) = TUPLES /\ Once(entry'[a].buf)
        /\ Range(entry'[a].buf) \subseteq heap
        /\ \A b \in Block : header'[b] = a <=> b \in Range(entry'[a].buf)
    <3>1. \A b \in Block : header[b] # a
      BY <1>0, <1>2 DEF Owned
    <3> QED BY <1>3, <1>6, <1>7, <1>10, <3>1 DEF H
  <2>3. \A b \in Range(entry'[a].buf) : content[b] = entry'[a].key
    BY <1>0, <1>1, <1>6, <1>7 DEF Stored, H
  <2>4. ASSUME NEW d \in live
        PROVE  /\ entry'[d].key \in Key
               /\ Len(entry'[d].buf) = TUPLES /\ Once(entry'[d].buf)
               /\ Range(entry'[d].buf) \subseteq heap
               /\ \A b \in Block : header'[b] = d <=> b \in Range(entry'[d].buf)
               /\ \A b \in Range(entry'[d].buf) : content[b] = entry'[d].key
    <3>1. \A b \in Block : header'[b] = d <=> header[b] = d
      BY <1>3, <1>8, <1>10
    <3>2. entry'[d].key = entry[d].key /\ entry'[d].buf = entry[d].buf
      BY <1>9
    <3> QED BY <1>0, <3>1, <3>2, Zenon DEF Owned
  <2>5. \A d \in live' : d = a \/ d \in live
    BY <1>1
  <2>6. heap' = heap /\ content' = content
    BY <1>1
  <2> QED BY <2>1, <2>2, <2>3, <2>4, <2>5, <2>6, Zenon DEF Owned
<1>21. KeysDiffer'
  <2>1. \A d \in live' : d = a \/ d \in live
    BY <1>1
  <2>2. \A d \in Client : pc'[d] # Storing
    BY <1>11, <1>12
  <2>3. \A d, e \in live' : entry'[d].key = entry'[e].key => d = e
    BY <1>0, <1>6, <1>7, <1>9, <1>13, <2>1 DEF KeysDiffer
  <2> QED BY <2>2, <2>3 DEF KeysDiffer
<1>26. Stored'
  BY <1>11, <1>12 DEF Stored
<1>22. Chained'
  <2> SUFFICES ASSUME NEW j \in Buckets
               PROVE  \E n \in Nat : \E q \in [1 .. n -> live'] : Linked(j, n, q)'
    BY DEF Chained
  <2>1. PICK n \in Nat : \E q \in [1 .. n -> live] : Linked(j, n, q)
    BY <1>0 DEF Chained
  <2>2. PICK q \in [1 .. n -> live] : Linked(j, n, q)
    BY <2>1
  <2>3. \A k \in 1 .. n : q[k] \in live /\ q[k] # a
    BY <1>8
  <2>4. q \in [1 .. n -> live']
    BY <1>1
  <2>5. CASE j # i
    <3>1. table'[j] = table[j]
      BY <1>1, <1>4, <2>5
    <3>2. /\ n = 0 => table'[j] = NULL
          /\ n > 0 => table'[j] = q[1] /\ entry'[q[n]].next = NULL
      BY <1>9, <2>2, <2>3, <3>1 DEF Linked
    <3>3. \A k \in 1 .. n - 1 : entry'[q[k]].next = q[k + 1]
      BY <1>9, <2>2, <2>3 DEF Linked
    <3>4. \A d \in live' : Index[entry'[d].key] = j <=> \E k \in 1 .. n : q[k] = d
      BY <1>1, <1>6, <1>7, <1>9, <2>2, <2>3, <2>5 DEF Linked, i
    <3>5. Linked(j, n, q)'
      BY <2>2, <2>4, <3>2, <3>3, <3>4 DEF Linked
    <3> QED BY <2>4, <3>5
  <2>6. CASE j = i
    <3> DEFINE r == [k \in 1 .. n + 1 |-> IF k = 1 THEN a ELSE q[k - 1]]
    <3>1. n + 1 \in Nat /\ r \in [1 .. n + 1 -> live'] /\ r[1] = a
          /\ \A k \in 1 .. n : r[k + 1] = q[k]
      BY <1>1, <2>3
    <3>2. \A k \in 1 .. n + 1 : k = 1 \/ (k - 1 \in 1 .. n /\ r[k] = q[k - 1])
      OBVIOUS
    <3> HIDE DEF r
    <3>3. Once(r)
      <4> SUFFICES ASSUME NEW k \in 1 .. n + 1, NEW l \in 1 .. n + 1, r[k] = r[l]
                   PROVE  k = l
        BY <3>1 DEF Once
      <4>1. \A x, y \in 1 .. n : q[x] = q[y] => x = y
        BY <2>2 DEF Linked, Once
      <4>2. CASE k = 1 \/ l = 1
        BY <2>3, <3>1, <3>2, <4>2
      <4>3. CASE k # 1 /\ l # 1
        <5>1. k - 1 \in 1 .. n /\ l - 1 \in 1 .. n /\ q[k - 1] = q[l - 1]
          BY <3>2, <4>3
        <5>2. k - 1 = l - 1
          BY <4>1, <5>1
        <5> QED BY <5>2
      <4> QED BY <4>2, <4>3
    <3>4. table'[j] = r[1]
      BY <1>1, <1>4, <2>6, <3>1
    <3>5. entry'[r[n + 1]].next = NULL
      <4>1. CASE n = 0
        BY <1>6, <1>7, <2>2, <2>6, <3>1, <4>1 DEF Linked
      <4>2. CASE n # 0
        <5>1. n \in 1 .. n /\ n > 0
          BY <4>2
        <5> QED BY <1>9, <2>2, <2>3, <3>1, <5>1 DEF Linked
      <4> QED BY <4>1, <4>2
    <3>6. \A k \in 1 .. (n + 1) - 1 : entry'[r[k]].next = r[k + 1]
      <4> SUFFICES ASSUME NEW k \in 1 .. n PROVE entry'[r[k]].next = r[k + 1]
        OBVIOUS
      <4>1. r[k + 1] = q[k]
        BY <3>1
      <4>2. CASE k = 1
        BY <1>6, <1>7, <2>2, <2>6, <3>1, <4>1, <4>2 DEF Linked
      <4>3. CASE k # 1
        <5>1. k - 1 \in 1 .. n - 1 /\ (k - 1) + 1 = k /\ r[k] = q[k - 1] /\ k - 1 \in 1 .. n
          BY <3>2, <4>3
        <5> QED BY <1>9, <2>2, <2>3, <4>1, <5>1 DEF Linked
      <4> QED BY <4>2, <4>3
    <3>7. \A d \in live' : Index[entry'[d].key] = j <=> \E k \in 1 .. n + 1 : r[k] = d
      <4> SUFFICES ASSUME NEW d \in live'
                   PROVE  Index[entry'[d].key] = j <=> \E k \in 1 .. n + 1 : r[k] = d
        OBVIOUS
      <4>1. CASE d = a
        <5>1. 1 \in 1 .. n + 1
          OBVIOUS
        <5> QED BY <1>6, <1>7, <2>6, <3>1, <4>1, <5>1 DEF i
      <4>2. CASE d # a
        <5>1. d \in live
          BY <1>1, <4>2
        <5>2. Index[entry'[d].key] = j <=> \E k \in 1 .. n : q[k] = d
          BY <1>9, <2>2, <5>1 DEF Linked
        <5>3. (\E k \in 1 .. n : q[k] = d) <=> \E k \in 1 .. n + 1 : r[k] = d
          <6>1. ASSUME NEW k \in 1 .. n, q[k] = d PROVE \E l \in 1 .. n + 1 : r[l] = d
            <7>1. k + 1 \in 1 .. n + 1
              OBVIOUS
            <7> QED BY <3>1, <6>1, <7>1
          <6>2. ASSUME NEW k \in 1 .. n + 1, r[k] = d PROVE \E l \in 1 .. n : q[l] = d
            BY <3>1, <3>2, <4>2, <6>2
          <6> QED BY <6>1, <6>2
        <5> QED BY <5>2, <5>3
      <4> QED BY <4>1, <4>2
    <3>8. PICK m, p : m \in Nat /\ m = n + 1 /\ p = r
      BY <3>1
    <3>9. m # 0 /\ m - 1 = (n + 1) - 1
      BY <3>1, <3>8
    <3>10. p \in [1 .. m -> live'] /\ entry'[p[m]].next = NULL
      BY <3>1, <3>5, <3>8
    <3>11. \A k \in 1 .. m - 1 : entry'[p[k]].next = p[k + 1]
      BY <3>6, <3>8, <3>9
    <3>12. \A d \in live' : Index[entry'[d].key] = j <=> \E k \in 1 .. m : p[k] = d
      BY <3>7, <3>8
    <3>13. Once(p) /\ table'[j] = p[1]
      BY <3>3, <3>4, <3>8
    <3>14. Linked(j, m, p)'
      BY <3>8, <3>9, <3>10, <3>11, <3>12, <3>13 DEF Linked
    <3> QED BY <3>8, <3>10, <3>14
  <2> QED BY <2>5, <2>6
<1>23. InUseExact'
  <2>1. \A d \in live : entry[d].in_use_count = Cardinality(UsersOf(host, header, d))
    BY <1>0, InUseIs DEF Types
  <2>2. ASSUME NEW d \in live
        PROVE  UsersOf(host', header', d) = UsersOf(host, header, d)
    <3>1. \A b \in Block : header'[b] = d <=> header[b] = d
      BY <1>3, <1>8, <1>10
    <3> QED BY <1>1, <3>1 DEF UsersOf
  <2>3. UsersOf(host', header', a) = {c} \X H
    <3>1. \A b \in Block : header[b] # a
      BY <1>0, <1>2 DEF Owned
    <3>2. \A p \in Client \X Block : p[2] \in Range(host[p[1]]) /\ header'[p[2]] = a
                                       <=> p[1] = c /\ p[2] \in H
      <4> TAKE p \in Client \X Block
      <4>1. p[1] \in Client /\ p[2] \in Block
        OBVIOUS
      <4> QED BY <1>10, <1>16, <3>1, <4>1 DEF H
    <3>3. H \subseteq Block
      BY <1>3
    <3>4. host' = host
      BY <1>1
    <3>5. UsersOf(host', header', a) = {p \in Client \X Block : p[1] = c /\ p[2] \in H}
      BY <3>2, <3>4 DEF UsersOf
    <3> QED BY <3>3, <3>5
  <2>4. Cardinality({c} \X H) = TUPLES
    BY <1>3, UsersOne DEF H
  <2>5. \A d \in live' : entry'[d].in_use_count = Cardinality(UsersOf(host', header', d))
    BY <1>1, <1>6, <1>7, <1>9, <2>1, <2>2, <2>3, <2>4
  <2> QED BY <1>14, <2>5, InUseIsNext DEF Types
<1>24. NoBlockLost'
  <2> SUFFICES ASSUME NEW b
               PROVE  b \in heap <=> \/ \E d \in live' : b \in Range(entry'[d].buf)
                                     \/ \E d \in Client : b \in Range(host[d])
    BY <1>1, LostIsNext
  <2>1. b \in heap <=> \/ \E d \in live : b \in Range(entry[d].buf)
                       \/ \E d \in Client : b \in Range(host[d])
    BY <1>0, LostIs
  <2> QED BY <1>1, <1>6, <1>7, <1>9, <2>1
<1>25. SizeExact'
  <2>1. StoringTotal(pc, key) = BytesOf(key[c]) /\ BytesOf(key[c]) \in Nat
    BY <1>1, <1>3, <1>12, OneStoring, BytesType
  <2>2. StoringTotal(pc', key') = 0
    <3>1. \A d \in Client : pc'[d] # Storing
      BY <1>11, <1>12
    <3> QED BY <3>1, NoneStoring
  <2>3. EntriesTotal(live', entry') = EntriesTotal(live, entry) + BytesOf(key[c])
        /\ EntriesTotal(live, entry) \in Nat
    <3> DEFINE e == [d \in live |-> BytesOf(entry[d].key)]
               f == [d \in live \union {a} |-> BytesOf(entry'[d].key)]
    <3>1. e \in [live -> Nat] /\ IsFiniteSet(live)
      BY <1>0, EntriesType
    <3>2. \A d \in live : f[d] = e[d]
      BY <1>9
    <3>3. f[a] = BytesOf(key[c])
      BY <1>6, <1>7
    <3>4. f \in [live \union {a} -> Nat]
      <4>1. \A d \in live \union {a} : f[d] \in Nat
        BY <2>1, <3>1, <3>2, <3>3
      <4> HIDE DEF e
      <4> QED BY <4>1
    <3>5. EntriesTotal(live, entry) = Total(e) /\ EntriesTotal(live', entry') = Total(f)
      BY <1>1 DEF EntriesTotal
    <3> HIDE DEF e, f
    <3>6. Total(f) = Total(e) + f[a] /\ Total(e) \in Nat
      BY <1>2, <3>1, <3>2, <3>4, TotalMore
    <3> QED BY <3>3, <3>5, <3>6
  <2> QED BY <1>0, <1>1, <2>1, <2>2, <2>3, SizeSplit
<1>27. Inserts(c)
  <2>1. entry'[a].key = key[c]
    BY <1>6, <1>7
  <2>2. \A d \in live : entry[d].key # key[c] /\ entry'[d].key = entry[d].key
    BY <1>9, <1>13
  <2> QED BY <1>1, <1>2, <1>3, <1>10, <2>1, <2>2 DEF Inserts, H
<1>28. IInv'
  BY <1>14, <1>15, <1>18, <1>19, <1>20, <1>21, <1>22, <1>23, <1>24, <1>25, <1>26 DEF IInv
<1> QED BY <1>27, <1>28

(***************************************************************************)
(* An eviction, and the cleanup.                                           *)
(***************************************************************************)
LEMMA FreedEntry == Freed \in Entry
  BY DEF Freed, Entry, Pointer

\* Bucket i is a list of entries.
HasLinks(i) == \E n \in Nat : \E q \in [1 .. n -> live] : Linked(i, n, q)

\* Entry a, the k-th of bucket i, goes, and what named it names its successor.
TakenOut(i, n, q, a, k) ==
  /\ n \in Nat /\ q \in [1 .. n -> live] /\ Linked(i, n, q)
  /\ a \in live /\ k \in 1 .. n /\ q[k] = a
  /\ live' = live \ {a}
  /\ table'[i] = IF table[i] = a THEN entry[a].next ELSE table[i]
  /\ \A d \in live' : /\ entry'[d].key = entry[d].key
                      /\ entry'[d].next = IF k # 1 /\ d = q[k - 1] THEN entry[a].next
                                          ELSE entry[d].next

\* The links of the bucket lead around the entry that is taken out.
LEMMA Unlinked ==
  ASSUME Types, NEW i, NEW n, NEW q, NEW a, NEW k, TakenOut(i, n, q, a, k)
  PROVE  HasLinks(i)'
<1> USE DEF TakenOut
<1>0. Linked(i, n, q) /\ n \in Nat /\ q \in [1 .. n -> live] /\ a \in live /\ k \in 1 .. n
  OBVIOUS
<1>1. PICK m \in Nat : m = n - 1
  OBVIOUS
<1>2. PICK p : p = [j \in 1 .. m |-> IF j < k THEN q[j] ELSE q[j + 1]]
  OBVIOUS
<1>3. \A x, y \in 1 .. n : q[x] = q[y] => x = y
  BY DEF Linked, Once
<1>4. \A j \in 1 .. m : /\ j < k => j \in 1 .. n /\ j # k /\ p[j] = q[j]
                        /\ ~(j < k) => j + 1 \in 1 .. n /\ j + 1 # k /\ p[j] = q[j + 1]
  BY <1>1, <1>2
<1>5. \A x \in 1 .. n : x # k => q[x] \in live' /\ q[x] # a
  BY <1>3
<1>6. p \in [1 .. m -> live']
  <2>1. \A j \in 1 .. m : p[j] \in live'
    BY <1>4, <1>5
  <2>2. p = [j \in 1 .. m |-> p[j]]
    BY <1>2
  <2> QED BY <2>1, <2>2
<1>7. Once(p)
  <2> SUFFICES ASSUME NEW x \in 1 .. m, NEW y \in 1 .. m, p[x] = p[y] PROVE x = y
    BY <1>6 DEF Once
  <2>1. CASE x < k /\ y < k
    BY <1>3, <1>4, <2>1
  <2>2. CASE x < k /\ ~(y < k)
    <3>1. x = y + 1
      BY <1>3, <1>4, <2>2
    <3> QED BY <2>2, <3>1
  <2>3. CASE ~(x < k) /\ y < k
    <3>1. x + 1 = y
      BY <1>3, <1>4, <2>3
    <3> QED BY <2>3, <3>1
  <2>4. CASE ~(x < k) /\ ~(y < k)
    <3>1. x + 1 = y + 1
      BY <1>3, <1>4, <2>4
    <3> QED BY <3>1
  <2> QED BY <2>1, <2>2, <2>3, <2>4
<1>8. \A j \in 1 .. n - 1 : entry[q[j]].next = q[j + 1]
  BY DEF Linked
<1>9. entry[a].next = IF k = n THEN NULL ELSE q[k + 1]
  <2>1. CASE k = n
    BY <2>1 DEF Linked
  <2>2. CASE k # n
    <3>1. k \in 1 .. n - 1
      BY <2>2
    <3> QED BY <1>8, <2>2, <3>1
  <2> QED BY <2>1, <2>2
<1>10. table[i] = q[1] /\ 1 \in 1 .. n
  BY DEF Linked
<1>11. table'[i] = IF m = 0 THEN NULL ELSE p[1]
  <2>1. CASE k = 1
    <3>1. table'[i] = entry[a].next
      BY <1>10, <2>1
    <3>2. m # 0 => p[1] = q[2] /\ k # n
      BY <1>1, <1>4, <2>1
    <3>3. m = 0 => k = n
      BY <1>1, <2>1
    <3> QED BY <1>9, <2>1, <3>1, <3>2, <3>3
  <2>2. CASE k # 1
    <3>1. table'[i] = q[1]
      BY <1>3, <1>10, <2>2
    <3>2. m # 0 /\ 1 \in 1 .. m /\ 1 < k
      BY <1>1, <2>2
    <3> QED BY <1>4, <3>1, <3>2
  <2> QED BY <2>1, <2>2
<1>12. \A x \in 1 .. n : x # k => entry'[q[x]].next = IF x = k - 1 THEN entry[a].next
                                                      ELSE entry[q[x]].next
  <2> SUFFICES ASSUME NEW x \in 1 .. n, x # k
               PROVE  entry'[q[x]].next = IF x = k - 1 THEN entry[a].next ELSE entry[q[x]].next
    OBVIOUS
  <2>1. q[x] \in live'
    BY <1>5
  <2>2. k # 1 /\ q[x] = q[k - 1] <=> x = k - 1
    <3>1. k # 1 => k - 1 \in 1 .. n
      OBVIOUS
    <3> QED BY <1>3, <3>1
  <2> QED BY <2>1, <2>2
<1>13. \A j \in 1 .. m - 1 : entry'[p[j]].next = p[j + 1]
  <2> SUFFICES ASSUME NEW j \in 1 .. m - 1 PROVE entry'[p[j]].next = p[j + 1]
    OBVIOUS
  <2>0. j \in 1 .. m /\ j + 1 \in 1 .. m
    BY <1>1
  <2>1. CASE j < k - 1
    <3>1. p[j] = q[j] /\ p[j + 1] = q[j + 1] /\ j \in 1 .. n /\ j # k /\ j # k - 1 /\ j \in 1 .. n - 1
      BY <1>1, <1>4, <2>0, <2>1
    <3> QED BY <1>8, <1>12, <3>1
  <2>2. CASE j = k - 1
    <3>1. p[j] = q[j] /\ p[j + 1] = q[k + 1] /\ j \in 1 .. n /\ j # k /\ k # n
      BY <1>1, <1>4, <2>0, <2>2
    <3> QED BY <1>9, <1>12, <2>2, <3>1
  <2>3. CASE ~(j < k)
    <3>1. p[j] = q[j + 1] /\ p[j + 1] = q[(j + 1) + 1] /\ j + 1 \in 1 .. n /\ j + 1 # k
          /\ j + 1 # k - 1 /\ j + 1 \in 1 .. n - 1
      BY <1>1, <1>4, <2>0, <2>3
    <3> QED BY <1>8, <1>12, <3>1
  <2> QED BY <2>1, <2>2, <2>3
<1>14. m > 0 => entry'[p[m]].next = NULL
  <2> SUFFICES ASSUME m > 0 PROVE entry'[p[m]].next = NULL
    OBVIOUS
  <2>0. m \in 1 .. m
    OBVIOUS
  <2>1. CASE m < k
    <3>1. p[m] = q[m] /\ m \in 1 .. n /\ m # k /\ m = k - 1 /\ k = n
      BY <1>1, <1>4, <2>0, <2>1
    <3> QED BY <1>9, <1>12, <3>1
  <2>2. CASE ~(m < k)
    <3>1. p[m] = q[m + 1] /\ m + 1 = n /\ n \in 1 .. n /\ n # k /\ n # k - 1
      BY <1>1, <1>4, <2>0, <2>2
    <3>2. entry[q[n]].next = NULL
      BY DEF Linked
    <3> QED BY <1>12, <3>1, <3>2
  <2> QED BY <2>1, <2>2
<1>15. \A d \in live' : Index[entry'[d].key] = i <=> \E j \in 1 .. m : p[j] = d
  <2> SUFFICES ASSUME NEW d \in live'
               PROVE  Index[entry'[d].key] = i <=> \E j \in 1 .. m : p[j] = d
    OBVIOUS
  <2>1. Index[entry'[d].key] = i <=> \E j \in 1 .. n : q[j] = d
    BY DEF Linked
  <2>2. ASSUME NEW j \in 1 .. n, q[j] = d PROVE \E x \in 1 .. m : p[x] = d
    <3>1. j # k
      BY <2>2
    <3>2. CASE j < k
      <4>1. j \in 1 .. m
        BY <1>1, <3>2
      <4> QED BY <1>4, <2>2, <3>2, <4>1
    <3>3. CASE k < j
      <4>1. j - 1 \in 1 .. m /\ ~(j - 1 < k) /\ (j - 1) + 1 = j
        BY <1>1, <3>3
      <4>2. p[j - 1] = q[(j - 1) + 1]
        BY <1>4, <4>1
      <4> QED BY <2>2, <4>1, <4>2
    <3> QED BY <3>1, <3>2, <3>3
  <2>3. ASSUME NEW j \in 1 .. m, p[j] = d PROVE \E x \in 1 .. n : q[x] = d
    BY <1>4, <2>3
  <2> QED BY <2>1, <2>2, <2>3
<1>16. Linked(i, m, p)'
  BY <1>6, <1>7, <1>11, <1>13, <1>14, <1>15 DEF Linked
<1> QED BY <1>6, <1>16 DEF HasLinks

\* The entries when a has been taken out, as PruneEvict has them.
WithoutEntry(a) ==
  LET P     == entry[a]
      newer == P.more_recent
      q     == Bucket(Index[P.key])
      at    == CHOOSE i \in DOMAIN q : q[i] = a
      older == P.less_recent
  IN  LET unhashed == IF at = 1 THEN entry ELSE [entry EXCEPT ![q[at - 1]].next = P.next]
      IN  [Put(unhashed, newer, "less_recent", older) EXCEPT ![a] = Freed]

\* The entry that goes is nobody's, and only its blocks change their header.
Evicts(a) ==
  /\ a \in live /\ live' = live \ {a}
  /\ \A d \in live' : entry'[d].key = entry[d].key
  /\ UNCHANGED <<key, host>>
  /\ \A d \in Client : \A b \in Range(host[d]) : b \in Block /\ header[b] # a
                                                 /\ header'[b] = header[b]

\* An eviction takes one unused entry out of table and chain, and frees its blocks.
LEMMA PruneEvictKeeps ==
  ASSUME IInv, NEW c \in Client, PruneEvict(c)
  PROVE  IInv' /\ \E a : Evicts(a)
<1>0. Types /\ LockHeld /\ Hands /\ Stored /\ Held /\ Owned /\ KeysDiffer /\ Chained
      /\ InUseExact /\ NoBlockLost /\ SizeExact
  BY DEF IInv
<1>a. PICK a : a = candidate
  OBVIOUS
<1> DEFINE P == entry[a]
           i == Index[P.key]
           newer == P.more_recent
           older == P.less_recent
           q == Bucket(i)
           at == CHOOSE j \in DOMAIN q : q[j] = a
           B == Range(P.buf)
           unhashed == IF at = 1 THEN entry ELSE [entry EXCEPT ![q[at - 1]].next = P.next]
           put == Put(unhashed, newer, "less_recent", older)
<1>1. /\ a \in live /\ P.in_use_count = 0 /\ newer \in live \union {NULL}
      /\ table' = [table EXCEPT ![i] = IF @ = a THEN P.next ELSE @]
      /\ least_recently_used' = IF least_recently_used = a THEN newer ELSE least_recently_used
      /\ most_recently_used' = IF most_recently_used = a THEN older ELSE most_recently_used
      /\ entry' = [put EXCEPT ![a] = Freed]
      /\ current_cache_size' = current_cache_size - BytesOf(P.key)
      /\ live' = live \ {a} /\ candidate' = newer
      /\ heap' = heap \ B /\ header' = HeadersOf(B, NULL)
      /\ content' = [b \in Block |-> IF b \in B THEN NULL ELSE content[b]]
      /\ UNCHANGED <<max_cache_size, lock, pc, key, host, found, ops>>
  <2>1. /\ a \in live /\ P.in_use_count = 0 /\ newer \in live \union {NULL}
        /\ table' = [table EXCEPT ![i] = IF @ = a THEN P.next ELSE @]
        /\ least_recently_used' = IF least_recently_used = a THEN newer ELSE least_recently_used
        /\ most_recently_used' = IF most_recently_used = a THEN older ELSE most_recently_used
    BY <1>a DEF PruneEvict, Evictable, BucketWithout
  <2>4. entry' = WithoutEntry(candidate)
    BY Zenon DEF PruneEvict, WithoutEntry
  <2>5. entry' = WithoutEntry(a)
    BY <1>a, <2>4
  <2>2. entry' = [put EXCEPT ![a] = Freed]
    BY <2>5, Zenon DEF WithoutEntry
  <2>3. /\ current_cache_size' = current_cache_size - BytesOf(P.key)
        /\ live' = live \ {a} /\ candidate' = newer
        /\ heap' = heap \ B /\ header' = HeadersOf(B, NULL)
        /\ content' = [b \in Block |-> IF b \in B THEN NULL ELSE content[b]]
        /\ UNCHANGED <<max_cache_size, lock, pc, key, host, found, ops>>
    BY <1>a DEF PruneEvict, Free, clients
  <2> QED BY <2>1, <2>2, <2>3
<1>2. /\ a \in Addr /\ a # NULL /\ P \in Entry /\ P.key \in Key /\ i \in Buckets
      /\ P.next \in Pointer /\ newer \in Pointer /\ older \in Pointer /\ P.buf \in Seq(Block)
      /\ B \subseteq Block /\ live \subseteq Addr
      /\ entry \in [Addr -> Entry] /\ table \in [Buckets -> Pointer]
  <2>1. a \in Addr /\ a # NULL /\ P \in Entry /\ P.key \in Key /\ live \subseteq Addr
        /\ entry \in [Addr -> Entry] /\ table \in [Buckets -> Pointer]
    <3>1. P.key \in Key
      BY <1>0, <1>1 DEF Owned
    <3>2. live \subseteq Addr /\ entry \in [Addr -> Entry] /\ table \in [Buckets -> Pointer]
      BY <1>0 DEF Types
    <3> QED BY <1>1, <3>1, <3>2, AddrAssumption
  <2>2. P.next \in Pointer /\ newer \in Pointer /\ older \in Pointer /\ P.buf \in Seq(Block)
    BY <2>1 DEF Entry
  <2>3. i \in Buckets
    BY <2>1 DEF Buckets
  <2> QED BY <2>1, <2>2, <2>3, RangeOf
<1>3. PICK n, p : n \in Nat /\ p \in [1 .. n -> live] /\ Linked(i, n, p) /\ q = p
  <2>1. PICK n \in Nat : \E r \in [1 .. n -> live] : Linked(i, n, r)
    BY <1>0, <1>2 DEF Chained
  <2>2. PICK r \in [1 .. n -> live] : Linked(i, n, r)
    BY <2>1
  <2> HIDE DEF i
  <2> QED BY <1>0, <2>2, BucketOfLinked
<1>4. PICK k \in 1 .. n : k = at /\ p[k] = a
  <2>1. \E j \in 1 .. n : p[j] = a
    BY <1>1, <1>3 DEF Linked
  <2>2. DOMAIN q = 1 .. n /\ q = p
    BY <1>3
  <2> HIDE DEF q
  <2>3. at \in 1 .. n /\ p[at] = a
    BY <2>1, <2>2
  <2> QED BY <2>3
<1>5. unhashed \in [Addr -> Entry]
      /\ \A d \in Addr : /\ unhashed[d].key = entry[d].key
                         /\ unhashed[d].in_use_count = entry[d].in_use_count
                         /\ unhashed[d].buf = entry[d].buf
                         /\ unhashed[d].next = IF k # 1 /\ d = p[k - 1] THEN P.next ELSE entry[d].next
  <2>1. CASE k = 1
    <3>1. unhashed = entry
      BY <1>4, <2>1
    <3> HIDE DEF unhashed
    <3> QED BY <1>2, <2>1, <3>1
  <2>2. CASE k # 1
    <3>1. PICK z : z = p[k - 1]
      OBVIOUS
    <3>2. z \in Addr
      <4>1. k - 1 \in 1 .. n
        BY <1>3, <2>2
      <4> QED BY <1>2, <1>3, <3>1, <4>1
    <3>3. unhashed = [entry EXCEPT ![z].next = P.next]
      BY <1>3, <1>4, <2>2, <3>1
    <3>4. PICK x : x = P.next
      OBVIOUS
    <3>5. unhashed = [entry EXCEPT ![z].next = x]
      BY <3>3, <3>4
    <3> HIDE DEF unhashed
    <3>6. \A d \in Addr : unhashed[d] = IF d = z THEN [entry[d] EXCEPT !.next = x] ELSE entry[d]
      BY <1>2, <3>5
    <3>7. x \in Pointer
      BY <1>2, <3>4
    <3>8. \A d \in Addr : entry[d] \in Entry
      BY <1>2
    <3>9. \A d \in Addr : unhashed[d] \in Entry
      BY <3>6, <3>7, <3>8 DEF Entry
    <3>10. unhashed = [d \in Addr |-> unhashed[d]]
      BY <1>2, <3>5
    <3>11. \A d \in Addr : /\ unhashed[d].key = entry[d].key
                           /\ unhashed[d].in_use_count = entry[d].in_use_count
                           /\ unhashed[d].buf = entry[d].buf
                           /\ unhashed[d].next = IF d = z THEN x ELSE entry[d].next
      BY <3>6, <3>8 DEF Entry
    <3> QED BY <2>2, <3>1, <3>4, <3>9, <3>10, <3>11
  <2> QED BY <2>1, <2>2
<1> HIDE DEF unhashed
<1>6. put \in [Addr -> Entry] /\ \A d \in Addr : SameData(put[d], unhashed[d])
  BY <1>2, <1>5, PutLess
<1> HIDE DEF put, at, q
<1>7. /\ entry' \in [Addr -> Entry]
      /\ \A d \in live' : /\ entry'[d].key = entry[d].key
                          /\ entry'[d].in_use_count = entry[d].in_use_count
                          /\ entry'[d].buf = entry[d].buf
                          /\ entry'[d].next = IF k # 1 /\ d = p[k - 1] THEN P.next ELSE entry[d].next
  <2>1. entry' \in [Addr -> Entry]
    BY <1>1, <1>2, <1>6, FreedEntry
  <2>2. \A d \in live' : entry'[d] = put[d] /\ d \in Addr
    BY <1>1, <1>2, <1>6
  <2> QED BY <1>5, <1>6, <2>1, <2>2 DEF SameData
<1>8. B \subseteq heap /\ \A b \in Block : header[b] = a <=> b \in B
  BY <1>0, <1>1 DEF Owned
<1>9. \A d \in Client : \A b \in Range(host[d]) : b \in Block /\ b \notin B
  <2>1. Cardinality(UsersOf(host, header, a)) = 0
    BY <1>0, <1>1, InUseIs DEF Types
  <2>2. UsersOf(host, header, a) = {}
    BY <1>0, <1>1, <2>1, UsersFinite, FS_EmptySet
  <2>3. ASSUME NEW d \in Client, NEW b \in Range(host[d]) PROVE b \in Block
    BY <1>0, <2>3, RangeOf DEF Types
  <2>4. ASSUME NEW d \in Client, NEW b \in Range(host[d]), b \in B PROVE FALSE
    <3>1. <<d, b>> \in UsersOf(host, header, a)
      BY <1>8, <2>3, <2>4 DEF UsersOf
    <3> QED BY <2>2, <3>1
  <2> QED BY <2>3, <2>4
<1>10. live' \subseteq live /\ a \notin live' /\ \A d \in live' : d # a /\ d # NULL
  BY <1>1, <1>2, AddrAssumption
<1> HIDE DEF B
<1>11. \A b \in Block : header'[b] = (IF b \in B THEN NULL ELSE header[b])
                        /\ content'[b] = IF b \in B THEN NULL ELSE content[b]
  BY <1>1 DEF HeadersOf
<1>12. \A d \in Client : \A b \in Range(host[d]) : header'[b] = header[b] /\ content'[b] = content[b]
  BY <1>9, <1>11
<1>13. Types'
  <2>1. table' \in [Buckets -> Pointer]
    BY <1>1, <1>2
  <2>2. most_recently_used' \in Pointer /\ least_recently_used' \in Pointer /\ candidate' \in Pointer
    BY <1>0, <1>1, <1>2 DEF Types
  <2>3. heap' \subseteq Block
    BY <1>0, <1>1 DEF Types
  <2>4. header' \in [Block -> Pointer] /\ content' \in [Block -> Key \union {NULL}]
    <3>1. header \in [Block -> Pointer] /\ content \in [Block -> Key \union {NULL}]
      BY <1>0 DEF Types
    <3> QED BY <1>1, <3>1 DEF HeadersOf, Pointer
  <2> QED BY <1>0, <1>1, <1>2, <1>7, <2>1, <2>2, <2>3, <2>4 DEF Types
<1>14. LockHeld'
  BY <1>0, <1>1 DEF LockHeld
<1>15. Hands'
  <2> SUFFICES ASSUME NEW d \in Client
               PROVE  /\ Once(host[d])
                      /\ host[d] = <<>> <=> pc[d] \in {Idle, Sizing}
                      /\ host[d] # <<>> => key[d] \in Key
                      /\ pc[d] \in {Missed, Storing} => /\ Len(host[d]) = TUPLES
                                                        /\ \A b \in Range(host[d]) : header'[b] = NULL
                      /\ pc[d] = Leaving => found[d] = header'[Head(host[d])] /\ found[d] # NULL
    BY <1>1 DEF Hands
  <2>1. host[d] # <<>> => Head(host[d]) \in Range(host[d])
    BY <1>0, RangeOf DEF Types
  <2>2. pc[d] = Leaving => host[d] # <<>>
    BY <1>0 DEF Hands
  <2> QED BY <1>0, <1>12, <2>1, <2>2 DEF Hands
<1>16. Stored'
  BY <1>0, <1>1, <1>12 DEF Stored
<1>17. Held'
  <2> SUFFICES ASSUME NEW d \in Client
               PROVE  /\ Range(host[d]) \subseteq heap'
                      /\ \A b \in Range(host[d]) :
                           /\ header'[b] # NULL => entry'[header'[b]].key = key[d]
                           /\ header'[b] = NULL => \A e \in Client : b \in Range(host[e]) => e = d
                           /\ \A e \in Range(host[d]) : header'[b] = header'[e]
    BY <1>1 DEF Held
  <2>1. Range(host[d]) \subseteq heap'
    BY <1>0, <1>1, <1>9 DEF Held
  <2>2. \A b \in Range(host[d]) : header[b] # NULL => header[b] \in live'
    BY <1>0, <1>1, <1>8, <1>9 DEF Owned
  <2>3. \A b \in Range(host[d]) : header[b] # NULL => entry'[header[b]].key = key[d]
    BY <1>0, <1>7, <2>2 DEF Held
  <2>4. \A b \in Range(host[d]) : header'[b] = NULL => \A e \in Client : b \in Range(host[e]) => e = d
    BY <1>0, <1>12 DEF Held
  <2>5. \A b \in Range(host[d]) : \A e \in Range(host[d]) : header'[b] = header'[e]
    BY <1>0, <1>12 DEF Held
  <2> QED BY <1>12, <2>1, <2>3, <2>4, <2>5
<1>18. \A d \in live' : \A b \in Block : header'[b] = d <=> header[b] = d
  BY <1>8, <1>10, <1>11
<1>19. \A d \in live' : \A b \in Range(entry[d].buf) : b \in Block /\ b \notin B
  <2> SUFFICES ASSUME NEW d \in live', NEW b \in Range(entry[d].buf) PROVE b \in Block /\ b \notin B
    OBVIOUS
  <2>1. d \in live /\ d # a /\ entry[d].buf \in Seq(Block)
    BY <1>0, <1>10 DEF Types, Entry
  <2>2. b \in Block
    BY <2>1, RangeOf
  <2>3. header[b] = d
    BY <1>0, <2>1, <2>2 DEF Owned
  <2> QED BY <1>8, <2>1, <2>2, <2>3
<1>20. Owned'
  <2>1. \A b \in Block : header'[b] # NULL => header'[b] \in live'
    BY <1>0, <1>1, <1>8, <1>11 DEF Owned
  <2>2. ASSUME NEW d \in live'
        PROVE  /\ entry'[d].key \in Key
               /\ Len(entry'[d].buf) = TUPLES /\ Once(entry'[d].buf)
               /\ Range(entry'[d].buf) \subseteq heap'
               /\ \A b \in Block : header'[b] = d <=> b \in Range(entry'[d].buf)
               /\ \A b \in Range(entry'[d].buf) : content'[b] = entry'[d].key
    <3>1. d \in live /\ entry'[d].key = entry[d].key /\ entry'[d].buf = entry[d].buf
      BY <1>7, <1>10
    <3>2. Range(entry[d].buf) \subseteq heap'
      BY <1>0, <1>1, <1>19, <3>1 DEF Owned
    <3>3. \A b \in Range(entry[d].buf) : content'[b] = entry[d].key
      BY <1>0, <1>11, <1>19, <3>1 DEF Owned
    <3>4. \A b \in Block : header'[b] = d <=> b \in Range(entry[d].buf)
      BY <1>0, <1>18, <3>1 DEF Owned
    <3> QED BY <1>0, <3>1, <3>2, <3>3, <3>4 DEF Owned
  <2> QED BY <2>1, <2>2, Zenon DEF Owned
<1>21. KeysDiffer'
  <2>1. \A d, e \in live' : entry'[d].key = entry'[e].key => d = e
    BY <1>0, <1>7, <1>10 DEF KeysDiffer
  <2>2. \A d \in Client : pc'[d] = Storing => \A e \in live' : entry'[e].key # key'[d]
    BY <1>0, <1>1, <1>7, <1>10 DEF KeysDiffer
  <2> QED BY <2>1, <2>2 DEF KeysDiffer
<1>22. Chained'
  <2> SUFFICES ASSUME NEW j \in Buckets
               PROVE  \E m \in Nat : \E r \in [1 .. m -> live'] : Linked(j, m, r)'
    BY DEF Chained
  <2>1. CASE j = i
    <3>1. table'[j] = IF table[j] = a THEN P.next ELSE table[j]
      BY <1>1, <1>2, <2>1
    <3>2. Linked(j, n, p)
      BY <1>3, <2>1
    <3>3. \A d \in live' : entry'[d].key = entry[d].key
      BY <1>7
    <3>4. \A d \in live' : entry'[d].next = IF k # 1 /\ d = p[k - 1] THEN entry[a].next ELSE entry[d].next
      BY <1>7
    <3>5. p \in [1 .. n -> live] /\ p[k] = a /\ live' = live \ {a} /\ a \in live
      BY <1>1, <1>3, <1>4
    <3>6. table'[j] = IF table[j] = a THEN entry[a].next ELSE table[j]
      BY <3>1
    <3>7. Types
      BY <1>0
    <3> HIDE DEF i, P
    <3>8. n \in Nat /\ k \in 1 .. n
      BY <1>3
    <3>9. TakenOut(j, n, p, a, k)
      BY <3>2, <3>3, <3>4, <3>5, <3>6, <3>8 DEF TakenOut
    <3>10. HasLinks(j)'
      BY <3>7, <3>9, Unlinked
    <3> QED BY <3>10 DEF HasLinks
  <2>2. CASE j # i
    <3>1. PICK m \in Nat : \E r \in [1 .. m -> live] : Linked(j, m, r)
      BY <1>0 DEF Chained
    <3>2. PICK r \in [1 .. m -> live] : Linked(j, m, r)
      BY <3>1
    <3>3. \A x \in 1 .. m : r[x] \in live /\ r[x] # a /\ (k # 1 => r[x] # p[k - 1])
      <4> SUFFICES ASSUME NEW x \in 1 .. m PROVE r[x] # a /\ (k # 1 => r[x] # p[k - 1])
        BY <3>2
      <4>1. r[x] \in live /\ Index[entry[r[x]].key] = j
        BY <3>2 DEF Linked
      <4>2. k # 1 => p[k - 1] \in live /\ Index[entry[p[k - 1]].key] = i
        <5>1. k # 1 => k - 1 \in 1 .. n
          BY <1>3
        <5> QED BY <1>3, <5>1 DEF Linked
      <4> QED BY <2>2, <4>1, <4>2
    <3>4. \A x \in 1 .. m : r[x] \in live' /\ entry'[r[x]].next = entry[r[x]].next
      BY <1>1, <1>7, <3>3
    <3>5. r \in [1 .. m -> live']
      BY <3>2, <3>4
    <3>6. table'[j] = table[j]
      BY <1>1, <1>2, <2>2
    <3>7. /\ m = 0 => table'[j] = NULL
          /\ m > 0 => table'[j] = r[1] /\ entry'[r[m]].next = NULL
      BY <3>2, <3>4, <3>6 DEF Linked
    <3>8. \A x \in 1 .. m - 1 : entry'[r[x]].next = r[x + 1]
      BY <3>2, <3>4 DEF Linked
    <3>9. \A d \in live' : Index[entry'[d].key] = j <=> \E x \in 1 .. m : r[x] = d
      BY <1>7, <1>10, <3>2 DEF Linked
    <3>10. Linked(j, m, r)'
      BY <3>2, <3>5, <3>7, <3>8, <3>9 DEF Linked
    <3> QED BY <3>5, <3>10
  <2> QED BY <2>1, <2>2
<1>23. InUseExact'
  <2>1. \A d \in live : entry[d].in_use_count = Cardinality(UsersOf(host, header, d))
    BY <1>0, InUseIs DEF Types
  <2>2. \A d \in live' : UsersOf(host', header', d) = UsersOf(host, header, d)
    BY <1>1, <1>18 DEF UsersOf
  <2>3. \A d \in live' : entry'[d].in_use_count = Cardinality(UsersOf(host', header', d))
    BY <1>7, <1>10, <2>1, <2>2
  <2> QED BY <1>13, <2>3, InUseIsNext DEF Types
<1>24. NoBlockLost'
  <2> SUFFICES ASSUME NEW b
               PROVE  b \in heap' <=> \/ \E d \in live' : b \in Range(entry'[d].buf)
                                      \/ \E d \in Client : b \in Range(host[d])
    BY <1>1, LostIsNext
  <2>1. b \in heap <=> \/ \E d \in live : b \in Range(entry[d].buf)
                       \/ \E d \in Client : b \in Range(host[d])
    BY <1>0, LostIs
  <2>2. (\E d \in live : b \in Range(entry[d].buf))
          <=> b \in B \/ \E d \in live' : b \in Range(entry'[d].buf)
    BY <1>1, <1>7 DEF B
  <2>3. b \in B => ~(\E d \in live' : b \in Range(entry'[d].buf))
                   /\ ~(\E d \in Client : b \in Range(host[d]))
    BY <1>7, <1>9, <1>19
  <2> QED BY <1>1, <2>1, <2>2, <2>3
<1>25. SizeExact'
  <2>1. BytesOf(P.key) \in Nat
    BY <1>2, BytesType
  <2>2. StoringTotal(pc', key') = StoringTotal(pc, key)
    BY <1>1
  <2>3. EntriesTotal(live, entry) = EntriesTotal(live', entry') + BytesOf(P.key)
        /\ EntriesTotal(live', entry') \in Nat
    <3> DEFINE S == live \ {a}
               e == [d \in S |-> BytesOf(entry'[d].key)]
               f == [d \in live |-> BytesOf(entry[d].key)]
    <3>1. f \in [live -> Nat] /\ IsFiniteSet(live)
      BY <1>0, EntriesType
    <3>2. IsFiniteSet(S) /\ S \union {a} = live /\ a \notin S
      BY <1>1, <3>1, FS_Subset
    <3>3. \A d \in S : f[d] = e[d]
      BY <1>1, <1>7
    <3>4. e \in [S -> Nat]
      <4>1. \A d \in S : e[d] \in Nat
        BY <3>1, <3>3
      <4> HIDE DEF f
      <4> QED BY <4>1
    <3>5. EntriesTotal(live, entry) = Total(f) /\ EntriesTotal(live', entry') = Total(e)
      BY <1>1 DEF EntriesTotal
    <3>6. f[a] = BytesOf(P.key)
      BY <1>1
    <3> HIDE DEF e, f, S
    <3>7. f \in [S \union {a} -> Nat]
      BY <3>1, <3>2
    <3>8. Total(f) = Total(e) + f[a] /\ Total(e) \in Nat
      BY <3>2, <3>3, <3>4, <3>7, TotalMore
    <3> QED BY <3>5, <3>6, <3>8
  <2>4. StoringTotal(pc, key) \in Nat
    <3>1. CASE \A d \in Client : pc[d] # Storing
      BY <3>1, NoneStoring
    <3>2. CASE \E d \in Client : pc[d] = Storing
      <4>1. PICK d \in Client : pc[d] = Storing
        BY <3>2
      <4>2. key[d] \in Key
        BY <1>0, <4>1 DEF Hands
      <4>3. \A e \in Client : pc[e] = Storing => e = d
        BY <1>0, <4>1 DEF LockHeld
      <4> QED BY <4>1, <4>2, <4>3, OneStoring, BytesType
    <3> QED BY <3>1, <3>2
  <2> QED BY <1>0, <1>1, <2>1, <2>2, <2>3, <2>4, SizeSplit
<1>26. Evicts(a)
  <2>1. \A d \in Client : \A b \in Range(host[d]) : b \in Block /\ header[b] # a
    BY <1>8, <1>9
  <2> QED BY <1>1, <1>7, <1>12, <2>1 DEF Evicts
<1>27. IInv'
  BY <1>13, <1>14, <1>15, <1>16, <1>17, <1>20, <1>21, <1>22, <1>23, <1>24, <1>25 DEF IInv
<1> QED BY <1>26, <1>27


\* When no pipeline runs, cleanup frees every block there is.
LEMMA CleanupKeeps ==
  ASSUME IInv, Cleanup
  PROVE  IInv'
<1>0. Types /\ LockHeld /\ Hands /\ Stored /\ Held /\ Owned /\ NoBlockLost
  BY DEF IInv
<1> DEFINE All == UNION {Range(entry[a].buf) : a \in live}
<1>1. /\ \A c \in Client : pc[c] = Idle
      /\ table' = [i \in Buckets |-> NULL]
      /\ entry' = [a \in Addr |-> Freed] /\ live' = {}
      /\ heap' = heap \ All /\ header' = HeadersOf(All, NULL)
      /\ content' = [b \in Block |-> IF b \in All THEN NULL ELSE content[b]]
      /\ current_cache_size' = 0 /\ most_recently_used' = NULL /\ least_recently_used' = NULL
      /\ UNCHANGED <<max_cache_size, lock, candidate, pc, key, host, found, ops>>
  BY DEF Cleanup, Free, clients
<1>2. \A c \in Client : host[c] = <<>> /\ pc'[c] = Idle
  BY <1>0, <1>1 DEF Hands
<1>3. \A b \in All : \E a \in live : b \in Range(entry[a].buf)
  BY Zenon
<1>4. \A a \in live : \A b \in Range(entry[a].buf) : b \in All
  BY Zenon
<1> HIDE DEF All
<1>5. \A c \in Client : Range(host[c]) = {}
  BY <1>0, <1>2, RangeOf DEF Types
<1>6. heap' = {}
  <2>1. \A b : b \in heap => \E a \in live : b \in Range(entry[a].buf)
    BY <1>0, <1>5, LostIs
  <2> QED BY <1>1, <1>4, <2>1
<1>7. \A b \in Block : header'[b] = NULL
  <2>1. \A b \in Block : header[b] # NULL => b \in All
    BY <1>0, <1>4 DEF Owned
  <2> QED BY <1>1, <2>1 DEF HeadersOf
<1>8. Types'
  <2>1. table' \in [Buckets -> Pointer] /\ entry' \in [Addr -> Entry]
    BY <1>1, FreedEntry DEF Pointer
  <2>2. header' \in [Block -> Pointer] /\ content' \in [Block -> Key \union {NULL}]
    <3>1. header \in [Block -> Pointer] /\ content \in [Block -> Key \union {NULL}]
      BY <1>0 DEF Types
    <3> QED BY <1>1, <3>1 DEF HeadersOf, Pointer
  <2> QED BY <1>0, <1>1, <1>6, <2>1, <2>2 DEF Types, Pointer
<1>9. LockHeld'
  BY <1>0, <1>1 DEF LockHeld
<1>10. Hands' /\ Stored' /\ Held'
  <2>1. Hands'
    BY <1>0, <1>1, <1>2, <1>5 DEF Hands
  <2>2. Stored'
    BY <1>2 DEF Stored
  <2>3. Held'
    BY <1>1, <1>5 DEF Held
  <2> QED BY <2>1, <2>2, <2>3
<1>11. Owned' /\ KeysDiffer'
  BY <1>1, <1>2, <1>7 DEF Owned, KeysDiffer
<1>12. Chained'
  <2> SUFFICES ASSUME NEW i \in Buckets
               PROVE  \E n \in Nat : \E q \in [1 .. n -> live'] : Linked(i, n, q)'
    BY DEF Chained
  <2>1. PICK q : q = [j \in 1 .. 0 |-> NULL]
    OBVIOUS
  <2>2. q \in [1 .. 0 -> live']
    BY <2>1
  <2>3. Linked(i, 0, q)'
    BY <1>1, <2>2 DEF Linked, Once
  <2> QED BY <2>2, <2>3
<1>13. InUseExact'
  BY <1>1 DEF InUseExact
<1>14. NoBlockLost'
  <2>1. \A b : b \in heap' <=> \/ \E a \in live' : b \in Range(entry'[a].buf)
                               \/ \E c \in Client : b \in Range(host'[c])
    BY <1>1, <1>5, <1>6
  <2> QED BY <2>1, LostIsNext
<1>15. SizeExact'
  <2>1. EntriesTotal(live', entry') = 0
    <3>1. PICK f : f = [a \in live' |-> BytesOf(entry'[a].key)]
      OBVIOUS
    <3>2. DOMAIN f = {}
      BY <1>1, <3>1
    <3> QED BY <3>1, <3>2, TotalEmpty DEF EntriesTotal
  <2>2. StoringTotal(pc', key') = 0
    BY <1>2, NoneStoring
  <2> QED BY <1>1, <2>1, <2>2, SizeSplit
<1> QED BY <1>8, <1>9, <1>10, <1>11, <1>12, <1>13, <1>14, <1>15 DEF IInv

(***************************************************************************)
(* The invariant of the specification.                                     *)
(***************************************************************************)
\* The cache begins empty.
LEMMA InitIInv == Init => IInv
<1> SUFFICES ASSUME Init PROVE IInv
  OBVIOUS
<1> USE DEF Init
<1>1. Types
  BY FreedEntry, LimitAssumption DEF Types, Pointer
<1>2. LockHeld /\ Stored /\ Owned /\ KeysDiffer
  BY ClientAssumption DEF LockHeld, Stored, Owned, KeysDiffer
<1>3. \A c \in Client : Range(host[c]) = {} /\ host[c] = <<>>
  BY DEF Range
<1>4. Hands /\ Held
  BY <1>3 DEF Hands, Held, Once
<1>5. Chained
  <2> SUFFICES ASSUME NEW i \in Buckets
               PROVE  \E n \in Nat : \E q \in [1 .. n -> live] : Linked(i, n, q)
    BY DEF Chained
  <2>1. PICK q : q = [j \in 1 .. 0 |-> NULL]
    OBVIOUS
  <2>2. q \in [1 .. 0 -> live]
    BY <2>1
  <2>3. Linked(i, 0, q)
    BY <2>2 DEF Linked, Once
  <2> QED BY <2>2, <2>3
<1>6. InUseExact
  BY DEF InUseExact
<1>7. NoBlockLost
  <2>1. \A b : b \in heap <=> \/ \E a \in live : b \in Range(entry[a].buf)
                              \/ \E c \in Client : b \in Range(host[c])
    BY <1>3
  <2> QED BY <2>1, LostIs
<1>8. SizeExact
  <2>1. EntriesTotal(live, entry) = 0
    <3>1. PICK f : f = [a \in live |-> BytesOf(entry[a].key)]
      OBVIOUS
    <3>2. DOMAIN f = {}
      BY <3>1
    <3> QED BY <3>1, <3>2, TotalEmpty DEF EntriesTotal
  <2>2. StoringTotal(pc, key) = 0
    BY NoneStoring
  <2> QED BY <2>1, <2>2, SizeSplit
<1> QED BY <1>1, <1>2, <1>4, <1>5, <1>6, <1>7, <1>8 DEF IInv

\* A step that changes nothing keeps the invariant.
LEMMA StutterKeeps ==
  ASSUME IInv, UNCHANGED vars
  PROVE  IInv'
<1>0. Types /\ LockHeld /\ Hands /\ Stored /\ KeysDiffer /\ SizeExact
  BY DEF IInv
<1>1. UNCHANGED <<table, entry, live, most_recently_used, least_recently_used,
                  current_cache_size, max_cache_size, heap, header, content, lock, candidate,
                  pc, key, host, found, ops>>
  BY DEF vars, chain, sizes, blocks, clients
<1>2. Types'
  BY <1>0, <1>1 DEF Types
<1>3. LockHeld' /\ Stored' /\ KeysDiffer'
  BY <1>0, <1>1 DEF LockHeld, Stored, KeysDiffer
<1>4. SizeExact'
  BY <1>0, <1>1, SizeFrame
<1>5. \A c \in Client : pc'[c] = Leaving => found'[c] = header[Head(host[c])] /\ found'[c] # NULL
  BY <1>0, <1>1 DEF Hands
<1> QED BY <1>1, <1>2, <1>3, <1>4, <1>5, QuietKeeps

\* Every step keeps the invariant.
LEMMA NextKeeps == IInv /\ [Next]_vars => IInv'
<1> SUFFICES ASSUME IInv, [Next]_vars PROVE IInv'
  OBVIOUS
<1>1. ASSUME NEW c \in Client, NEW k \in Key, LookupHit(c, k) \/ LookupMiss(c, k) PROVE IInv'
  BY <1>1, LookupHitKeeps, LookupMissKeeps
<1>2. ASSUME NEW c \in Client, Fail(c) \/ Store(c) \/ StoreEntry(c) \/ StoreFails(c) PROVE IInv'
  BY <1>2, FailKeeps, StoreKeeps, StoreEntryKeeps, StoreFailsKeeps
<1>3. ASSUME NEW c \in Client, PruneSkip(c) \/ PruneEvict(c) PROVE IInv'
  BY <1>3, PruneSkipKeeps, PruneEvictKeeps
<1>4. ASSUME NEW c \in Client, ReleaseOwn(c) \/ ReadHeader(c) \/ ReleaseShared(c) PROVE IInv'
  BY <1>4, ReleaseOwnKeeps, ReadHeaderKeeps, ReleaseSharedKeeps
<1>5. ASSUME NEW c \in Client, NEW size \in Limits, SetSize(c, size) PROVE IInv'
  BY <1>5, SetSizeKeeps
<1>6. ASSUME NEW c \in Client, SetSizeReturns(c) PROVE IInv'
  BY <1>6, SetSizeReturnsKeeps
<1>7. CASE Cleanup
  BY <1>7, CleanupKeeps
<1>8. CASE UNCHANGED vars
  BY <1>8, StutterKeeps
<1> QED BY <1>1, <1>2, <1>3, <1>4, <1>5, <1>6, <1>7, <1>8 DEF Next

\* The cache keeps what its invariant says of entries, blocks and clients, for
\* every number of pipelines, keys and blocks.
THEOREM Invariance == Spec => []IInv
  BY InitIInv, NextKeeps, PTL DEF Spec

(***************************************************************************)
(* The properties.                                                         *)
(***************************************************************************)
\* What a pipeline was given stays allocated, holds the result for its key and
\* belongs to the entry its header names; nobody else has its own buffers.
LEMMA HeldFollows == IInv => HeldBuffers
<1> SUFFICES ASSUME IInv PROVE HeldBuffers
  OBVIOUS
<1>0. Types /\ Held /\ Owned /\ InUseExact
  BY DEF IInv
<1>1. ASSUME NEW c \in Client, NEW b \in Range(host[c])
      PROVE  /\ b \in heap
             /\ header[b] # NULL => /\ header[b] \in live
                                    /\ b \in Range(entry[header[b]].buf)
                                    /\ content[b] = key[c]
             /\ header[b] = NULL => \A d \in Client : b \in Range(host[d]) => d = c
  <2>1. b \in heap /\ b \in Block
    BY <1>0, <1>1, RangeOf DEF Held, Types
  <2>2. CASE header[b] # NULL
    <3>1. PICK a \in live : a = header[b]
      BY <1>0, <2>1, <2>2 DEF Owned
    <3>2. b \in Range(entry[a].buf) /\ content[b] = entry[a].key
      BY <1>0, <2>1, <3>1 DEF Owned
    <3>3. entry[a].key = key[c]
      BY <1>0, <1>1, <2>2, <3>1 DEF Held
    <3> QED BY <2>1, <2>2, <3>1, <3>2, <3>3
  <2>3. CASE header[b] = NULL
    BY <1>0, <1>1, <2>1, <2>3 DEF Held
  <2> QED BY <2>2, <2>3
<1> QED BY <1>0, <1>1 DEF HeldBuffers

\* The types, the hash table and the size are as an operation expects them.
LEMMA ValidFollows == IInv => CacheValid
<1> SUFFICES ASSUME IInv PROVE CacheValid
  OBVIOUS
<1>0. Types /\ KeysDiffer /\ Chained /\ SizeExact
  BY DEF IInv
<1>1. TypeOK
  BY <1>0, SizeType DEF Types, TypeOK
<1>2. ASSUME NEW i \in Buckets
      PROVE  Range(Bucket(i)) = {a \in live : Index[entry[a].key] = i} /\ IsInjective(Bucket(i))
  <2>1. PICK n \in Nat : \E q \in [1 .. n -> live] : Linked(i, n, q)
    BY <1>0 DEF Chained
  <2>2. PICK q \in [1 .. n -> live] : Linked(i, n, q)
    BY <2>1
  <2>3. Bucket(i) = q
    BY <1>0, <2>2, BucketOfLinked
  <2>4. \A a \in live : Index[entry[a].key] = i <=> \E j \in 1 .. n : q[j] = a
    BY <2>2 DEF Linked
  <2>5. Range(q) = {a \in live : Index[entry[a].key] = i}
    BY <2>4 DEF Range
  <2>6. IsInjective(q)
    BY <2>2 DEF IsInjective, Linked, Once
  <2> QED BY <2>3, <2>5, <2>6
<1>3. TableExact
  BY <1>0, <1>2 DEF TableExact, KeysDiffer
<1> QED BY <1>0, <1>1, <1>3 DEF CacheValid

\* HeldBuffers: an entry is never evicted, and a buffer never freed or reused,
\* under a pipeline that has it, however lookups, stores and releases interleave.
THEOREM HeldBuffersHolds == Spec => []HeldBuffers
  BY Invariance, HeldFollows, PTL

\* CacheValid: the hash table has every entry once and under its key alone, and
\* current_cache_size is the sum of what is stored and being stored.
THEOREM CacheValidHolds == Spec => []CacheValid
  BY Invariance, ValidFollows, PTL

\* NoBlockLost: no path through lookup, store, release or eviction leaks a block.
THEOREM NoBlockLostHolds == Spec => []NoBlockLost
<1>1. IInv => NoBlockLost
  BY DEF IInv
<1> QED BY <1>1, Invariance, PTL

(***************************************************************************)
(* The cache implements Memo.                                              *)
(***************************************************************************)
\* The values of Memo's variables.
Cached == {entry[a].key : a \in live}
Wants  == [c \in Client |-> IF host[c] = <<>> THEN NULL ELSE key[c]]
Shared == [c \in Client |-> host[c] # <<>> /\ header[Head(host[c])] # NULL]

\* A step of Memo, or none.
MemoStep == [Promise!MemoNext]_(Promise!memovars)

\* For d nothing changes in Memo.
SameFor(d) == Wants'[d] = Wants[d] /\ Shared'[d] = Shared[d]

\* What Memo sees of a client.
LEMMA UseIs ==
  \A c \in Client :
    /\ host[c] = <<>> => Wants[c] = NULL /\ Shared[c] = FALSE
    /\ host[c] # <<>> => Wants[c] = key[c] /\ Shared[c] = (header[Head(host[c])] # NULL)
    /\ host'[c] = <<>> => Wants'[c] = NULL /\ Shared'[c] = FALSE
    /\ host'[c] # <<>> => Wants'[c] = key'[c] /\ Shared'[c] = (header'[Head(host'[c])] # NULL)
  BY DEF Wants, Shared

\* A client whose blocks and their headers stay is the same for Memo.
LEMMA SameForFrame ==
  ASSUME NEW d \in Client, host'[d] = host[d],
         host[d] # <<>> => key'[d] = key[d] /\ header'[Head(host[d])] = header[Head(host[d])]
  PROVE  SameFor(d)
  BY UseIs DEF SameFor

\* The other clients' part of a step.
LEMMA OthersSame ==
  ASSUME NEW c \in Client, \A d \in Client \ {c} : SameFor(d),
         NEW w, NEW s, Wants'[c] = w, Shared'[c] = s
  PROVE  Wants' = [Wants EXCEPT ![c] = w] /\ Shared' = [Shared EXCEPT ![c] = s]
<1>1. /\ Wants' = [d \in Client |-> Wants'[d]] /\ Wants = [d \in Client |-> Wants[d]]
      /\ Shared' = [d \in Client |-> Shared'[d]] /\ Shared = [d \in Client |-> Shared[d]]
  BY DEF Wants, Shared
<1>2. \A d \in Client : Wants'[d] = IF d = c THEN w ELSE Wants[d]
  BY DEF SameFor
<1>3. \A d \in Client : Shared'[d] = IF d = c THEN s ELSE Shared[d]
  BY DEF SameFor
<1>4. Wants' = [Wants EXCEPT ![c] = w]
  BY <1>1, <1>2
<1>5. Shared' = [Shared EXCEPT ![c] = s]
  BY <1>1, <1>3
<1> QED BY <1>4, <1>5

\* If nothing changes for any client, nothing does.
LEMMA AllSame ==
  ASSUME \A d \in Client : SameFor(d)
  PROVE  Wants' = Wants /\ Shared' = Shared
<1>1. /\ Wants' = [d \in Client |-> Wants'[d]] /\ Wants = [d \in Client |-> Wants[d]]
      /\ Shared' = [d \in Client |-> Shared'[d]] /\ Shared = [d \in Client |-> Shared[d]]
  BY DEF Wants, Shared
<1>2. \A d \in Client : Wants'[d] = Wants[d]
  BY DEF SameFor
<1>3. \A d \in Client : Shared'[d] = Shared[d]
  BY DEF SameFor
<1>4. Wants' = Wants
  BY <1>1, <1>2
<1>5. Shared' = Shared
  BY <1>1, <1>3
<1> QED BY <1>4, <1>5

\* What is cached changes with the live entries and their keys only.
LEMMA CachedFrame ==
  ASSUME live' = live, \A a \in live : entry'[a].key = entry[a].key
  PROVE  Cached' = Cached
  BY DEF Cached

\* Nothing happens in Memo.
LEMMA StutterMaps ==
  ASSUME Cached' = Cached, \A d \in Client : SameFor(d)
  PROVE  MemoStep
<1>1. Wants' = Wants /\ Shared' = Shared
  BY AllSame
<1> QED BY <1>1 DEF MemoStep, Cached, Wants, Shared, Promise!memovars

\* A lookup that finds a result is a Hit.
LEMMA HitMaps ==
  ASSUME NEW c \in Client, NEW k \in Key, Wants[c] = NULL, k \in Cached,
         Wants'[c] = k, Shared'[c] = TRUE, \A d \in Client \ {c} : SameFor(d),
         Cached' = Cached
  PROVE  MemoStep
<1>1. Wants' = [Wants EXCEPT ![c] = k] /\ Shared' = [Shared EXCEPT ![c] = TRUE]
  BY OthersSame
<1>2. Promise!Hit(c, k)
  BY <1>1 DEF Promise!Hit, Wants, Shared, Cached
<1> QED BY <1>2 DEF MemoStep, Promise!MemoNext

\* One that does not is a Miss.
LEMMA MissMaps ==
  ASSUME NEW c \in Client, NEW k \in Key, Wants[c] = NULL, k \notin Cached, ~Shared[c],
         Wants'[c] = k, Shared'[c] = FALSE, \A d \in Client \ {c} : SameFor(d),
         Cached' = Cached
  PROVE  MemoStep
<1>1. Wants' = [Wants EXCEPT ![c] = k]
  BY OthersSame
<1>2. Shared' = Shared
  <2>1. Shared[c] \in BOOLEAN
    BY DEF Shared
  <2>2. Shared' = [d \in Client |-> Shared'[d]] /\ Shared = [d \in Client |-> Shared[d]]
    BY DEF Shared
  <2>3. \A d \in Client : Shared'[d] = Shared[d]
    BY <2>1 DEF SameFor
  <2> QED BY <2>2, <2>3
<1>3. Promise!Miss(c, k)
  BY <1>1, <1>2 DEF Promise!Miss, Wants, Shared, Cached
<1> QED BY <1>3 DEF MemoStep, Promise!MemoNext

\* A store of a result that is not there is an Insert.
LEMMA InsertMaps ==
  ASSUME NEW c \in Client, Wants[c] # NULL, ~Shared[c], Wants[c] \notin Cached,
         Cached' = Cached \union {Wants[c]}, Wants'[c] = Wants[c], Shared'[c] = TRUE,
         \A d \in Client \ {c} : SameFor(d)
  PROVE  MemoStep
<1>1. Wants' = [Wants EXCEPT ![c] = Wants[c]] /\ Shared' = [Shared EXCEPT ![c] = TRUE]
  BY OthersSame
<1>2. Wants' = Wants
  BY <1>1 DEF Wants
<1>3. Promise!Insert(c)
  BY <1>1, <1>2 DEF Promise!Insert, Wants, Shared, Cached
<1> QED BY <1>3 DEF MemoStep, Promise!MemoNext

\* The release of the last tuple buffer is a Finish.
LEMMA FinishMaps ==
  ASSUME NEW c \in Client, Wants[c] # NULL, Wants'[c] = NULL, Shared'[c] = FALSE,
         \A d \in Client \ {c} : SameFor(d), Cached' = Cached
  PROVE  MemoStep
<1>1. Wants' = [Wants EXCEPT ![c] = NULL] /\ Shared' = [Shared EXCEPT ![c] = FALSE]
  BY OthersSame
<1>2. Promise!Finish(c)
  BY <1>1 DEF Promise!Finish, Wants, Shared, Cached
<1> QED BY <1>2 DEF MemoStep, Promise!MemoNext

\* What is evicted nobody shares.
LEMMA EvictMaps ==
  ASSUME NEW K \in SUBSET Cached, \A c \in Client : Shared[c] => Wants[c] \notin K,
         Cached' = Cached \ K, \A d \in Client : SameFor(d)
  PROVE  MemoStep
<1>1. Wants' = Wants /\ Shared' = Shared
  BY AllSame
<1>2. Promise!Evict(K)
  BY <1>1 DEF Promise!Evict, Wants, Shared, Cached
<1>3. K \in SUBSET {entry[a].key : a \in live}
  BY DEF Cached
<1> QED BY <1>2, <1>3 DEF MemoStep, Promise!MemoNext

\* The tuple buffers of a client are of one entry, or all its own, so that Memo
\* sees the same of it whichever of them it releases next.
LEMMA NextHead ==
  ASSUME IInv, NEW c \in Client, host[c] # <<>>, Released(c)
  PROVE  /\ key[c] \in Key /\ key[c] # NULL
         /\ host'[c] # <<>> => /\ key'[c] = key[c]
                               /\ header[Head(host'[c])] = header[Head(host[c])]
                               /\ Head(host'[c]) \in Block /\ Head(host'[c]) # Head(host[c])
<1>0. Hands /\ Held /\ Types
  BY DEF IInv
<1>1. key[c] \in Key /\ key[c] # NULL
  BY <1>0, KeyAssumption DEF Hands
<1>2. /\ host' \in [Client -> Seq(Block)]
      /\ host'[c] # <<>> => key'[c] = key[c]
      /\ Head(host[c]) \in Range(host[c])
      /\ Range(host'[c]) = Range(host[c]) \ {Head(host[c])}
  BY ReleasedDoes
<1>3. ASSUME host'[c] # <<>>
      PROVE  /\ Head(host'[c]) \in Range(host'[c]) /\ Head(host'[c]) \in Block
             /\ Head(host'[c]) \in Range(host[c])
             /\ Head(host'[c]) # Head(host[c])
  <2>1. PICK t : t = host'[c]
    OBVIOUS
  <2>2. t \in Seq(Block) /\ t # <<>>
    BY <1>2, <1>3, <2>1
  <2>3. Head(t) \in Range(t) /\ Range(t) \subseteq Block
    BY <2>2, RangeOf
  <2> QED BY <1>2, <2>1, <2>3
<1>4. \A b, e \in Range(host[c]) : header[b] = header[e]
  BY <1>0 DEF Held
<1> QED BY <1>1, <1>2, <1>3, <1>4

\* halide_memoization_cache_lookup finding a result is Memo's Hit.
LEMMA LookupHitMaps ==
  ASSUME IInv, NEW c \in Client, NEW k \in Key, LookupHit(c, k)
  PROVE  MemoStep
<1> DEFINE a == Find(k)
<1>0. Types /\ Hands /\ Owned /\ Chained
  BY DEF IInv
<1>1. a \in live /\ a \in Addr /\ a # NULL /\ entry[a].key = k
  <2>1. a # NULL
    BY DEF LookupHit
  <2> QED BY <1>0, <2>1, FindRight DEF Types
<1>2. /\ pc[c] = Idle /\ Touch(a)
      /\ key' = [key EXCEPT ![c] = k] /\ host' = [host EXCEPT ![c] = entry[a].buf]
      /\ UNCHANGED <<live, header>>
  BY DEF LookupHit, Begins, blocks
<1> HIDE DEF a
<1>3. \A d \in live : entry'[d].key = entry[d].key
  BY <1>0, <1>1, <1>2, TouchDoes DEF Types
<1>4. host[c] = <<>> /\ entry[a].buf # <<>> /\ header[Head(entry[a].buf)] = a
  <2>1. entry[a].buf \in Seq(Block) /\ Len(entry[a].buf) = TUPLES /\ TUPLES # 0
    BY <1>0, <1>1, TupleAssumption DEF Types, Entry, Owned
  <2>2. Head(entry[a].buf) \in Range(entry[a].buf) /\ Head(entry[a].buf) \in Block
        /\ entry[a].buf # <<>>
    BY <2>1, RangeOf
  <2> QED BY <1>0, <1>1, <1>2, <2>2 DEF Hands, Owned
<1>5. /\ host'[c] = entry[a].buf /\ key'[c] = k
      /\ \A d \in Client : d # c => host'[d] = host[d] /\ key'[d] = key[d]
  BY <1>0, <1>2 DEF Types
<1>6. Cached' = Cached /\ k \in Cached
  <2>1. Cached' = Cached
    BY <1>2, <1>3, CachedFrame
  <2> QED BY <1>1, <2>1 DEF Cached
<1>7. Wants[c] = NULL /\ Wants'[c] = k /\ Shared'[c] = TRUE
  BY <1>1, <1>2, <1>4, <1>5, UseIs
<1>8. \A d \in Client \ {c} : SameFor(d)
  BY <1>2, <1>5, SameForFrame
<1> QED BY <1>6, <1>7, <1>8, HitMaps

\* Not finding one is a Miss; running out of memory is nothing.
LEMMA LookupMissMaps ==
  ASSUME IInv, NEW c \in Client, NEW k \in Key, LookupMiss(c, k)
  PROVE  MemoStep
<1>0. Types /\ Hands /\ Owned /\ Chained
  BY DEF IInv
<1>1. pc[c] = Idle /\ UNCHANGED <<live, entry>> /\ Find(k) = NULL
  BY DEF LookupMiss, Begins, chain
<1>2. header' = header
  BY LookupMissKeeps
<1>3. Cached' = Cached
  BY <1>1, CachedFrame
<1>4. ASSUME UNCHANGED <<key, host>> PROVE MemoStep
  <2>1. \A d \in Client : SameFor(d)
    BY <1>2, <1>4, SameForFrame
  <2> QED BY <1>3, <2>1, StutterMaps
<1>5. ASSUME NEW got \in Mallocs(TUPLES), header' = HeadersOf(Range(got), NULL),
             key' = [key EXCEPT ![c] = k], host' = [host EXCEPT ![c] = got]
      PROVE  MemoStep
  <2>1. got # <<>> /\ header[Head(got)] = NULL
    <3>1. got \in [1 .. TUPLES -> Block] /\ TUPLES \in Nat \ {0}
      BY <1>5, TupleAssumption DEF Mallocs
    <3>2. got \in Seq(Block) /\ got # <<>>
      BY <3>1
    <3>3. Head(got) \in Range(got) /\ Head(got) \in Block
      BY <3>2, RangeOf
    <3>4. header'[Head(got)] = NULL
      BY <1>5, <3>3 DEF HeadersOf
    <3> QED BY <1>2, <3>2, <3>4
  <2>2. /\ host'[c] = got /\ key'[c] = k /\ host[c] = <<>>
        /\ \A d \in Client : d # c => host'[d] = host[d] /\ key'[d] = key[d]
    BY <1>0, <1>1, <1>5 DEF Types, Hands
  <2>3. k \notin Cached
    <3>1. \A a \in live : entry[a].key # k
      BY <1>0, <1>1, FindRight
    <3> QED BY <3>1 DEF Cached
  <2>4. Wants[c] = NULL /\ ~Shared[c] /\ Wants'[c] = k /\ Shared'[c] = FALSE
    BY <1>2, <2>1, <2>2, UseIs
  <2>5. \A d \in Client \ {c} : SameFor(d)
    BY <1>2, <2>2, SameForFrame
  <2> QED BY <1>3, <2>3, <2>4, <2>5, MissMaps
<1> QED BY <1>4, <1>5 DEF LookupMiss

\* The steps that Memo does not see.
LEMMA QuietMaps ==
  ASSUME UNCHANGED <<live, entry, header, key, host>>
  PROVE  MemoStep
<1>1. \A d \in Client : SameFor(d)
  BY SameForFrame
<1>2. Cached' = Cached
  BY CachedFrame
<1> QED BY <1>1, <1>2, StutterMaps

\* Clearing the headers of blocks that are the client's own changes nothing.
LEMMA OwnHeaders ==
  ASSUME IInv, NEW c \in Client, pc[c] \in {Missed, Storing}
  PROVE  HeadersOf(Range(host[c]), NULL) = header
<1>0. Types /\ Hands
  BY DEF IInv
<1>1. header = [b \in Block |-> header[b]]
  BY <1>0 DEF Types
<1>2. \A b \in Range(host[c]) : header[b] = NULL
  BY <1>0 DEF Hands
<1> QED BY <1>1, <1>2 DEF HeadersOf

\* Computing, waiting for the lock and passing over candidates is not seen.
LEMMA OtherStepsMap ==
  ASSUME IInv, NEW c \in Client,
         \/ Fail(c) \/ Store(c) \/ PruneSkip(c) \/ StoreFails(c) \/ ReadHeader(c)
         \/ SetSizeReturns(c) \/ \E size \in Limits : SetSize(c, size)
  PROVE  MemoStep
<1> USE DEF chain, blocks, clients
<1>1. CASE Fail(c)
  BY <1>1, QuietMaps DEF Fail
<1>2. CASE Store(c)
  <2>1. header' = header
    BY <1>2, OwnHeaders DEF Store
  <2> QED BY <1>2, <2>1, QuietMaps DEF Store
<1>3. CASE PruneSkip(c)
  BY <1>3, QuietMaps DEF PruneSkip
<1>4. CASE StoreFails(c)
  <2>1. header' = header
    BY <1>4, OwnHeaders DEF StoreFails
  <2> QED BY <1>4, <2>1, QuietMaps DEF StoreFails
<1>5. CASE ReadHeader(c)
  BY <1>5, QuietMaps DEF ReadHeader
<1>6. CASE SetSizeReturns(c)
  BY <1>6, QuietMaps DEF SetSizeReturns
<1>7. CASE \E size \in Limits : SetSize(c, size)
  BY <1>7, QuietMaps DEF SetSize
<1> QED BY <1>1, <1>2, <1>3, <1>4, <1>5, <1>6, <1>7

\* An eviction is Evict of one key.
LEMMA PruneEvictMaps ==
  ASSUME IInv, NEW c \in Client, PruneEvict(c)
  PROVE  MemoStep
<1>0. Types /\ Hands /\ Held /\ Owned /\ KeysDiffer
  BY DEF IInv
<1>1. PICK a : Evicts(a)
  BY PruneEvictKeeps
<1> USE <1>1 DEF Evicts
<1>2. \A d \in Client : host[d] # <<>> => Head(host[d]) \in Range(host[d])
  BY <1>0, RangeOf DEF Types
<1>3. \A d \in Client : SameFor(d)
  BY <1>2, SameForFrame
<1>4. ASSUME NEW d \in Client, Shared[d] PROVE Wants[d] # entry[a].key
  <2>1. host[d] # <<>> /\ header[Head(host[d])] # NULL /\ Wants[d] = key[d]
    BY <1>4, UseIs
  <2>2. PICK b \in Range(host[d]) : b = Head(host[d])
    BY <1>2, <2>1
  <2>3. header[b] \in live /\ header[b] # a
    BY <1>0, <2>1, <2>2 DEF Owned
  <2>4. entry[header[b]].key = key[d]
    BY <1>0, <2>1, <2>2 DEF Held
  <2> QED BY <1>0, <2>1, <2>3, <2>4 DEF KeysDiffer
<1>5. \A d \in live' : entry[d].key # entry[a].key
  BY <1>0 DEF KeysDiffer
<1>6. Cached' = Cached \ {entry[a].key} /\ entry[a].key \in Cached
  BY <1>5 DEF Cached
<1>7. PICK K : K = {entry[a].key}
  OBVIOUS
<1>8. K \in SUBSET Cached /\ Cached' = Cached \ K /\ \A d \in Client : Shared[d] => Wants[d] \notin K
  BY <1>4, <1>6, <1>7
<1> QED BY <1>3, <1>8, EvictMaps

\* Linking the entry is Insert.
LEMMA StoreEntryMaps ==
  ASSUME IInv, NEW c \in Client, StoreEntry(c)
  PROVE  MemoStep
<1>0. Types /\ Hands /\ Held
  BY DEF IInv
<1>1. Inserts(c) /\ pc[c] = Storing
  BY StoreEntryKeeps DEF StoreEntry
<1>2. PICK a : /\ a # NULL
               /\ live' = live \union {a} /\ entry'[a].key = key[c]
               /\ \A b \in Block : header'[b] = IF b \in Range(host[c]) THEN a ELSE header[b]
  BY <1>1, Zenon DEF Inserts
<1>3. /\ UNCHANGED <<key, host>>
      /\ \A d \in live : entry[d].key # key[c] /\ entry'[d].key = entry[d].key
      /\ \A b \in Range(host[c]) : header[b] = NULL
  BY <1>1 DEF Inserts
<1>4. \A d \in Client : host[d] # <<>> => Head(host[d]) \in Range(host[d]) /\ Head(host[d]) \in Block
  BY <1>0, RangeOf DEF Types
<1>5. host[c] # <<>> /\ key[c] # NULL
  BY <1>0, <1>1, KeyAssumption DEF Hands
<1>6. Wants[c] = key[c] /\ ~Shared[c] /\ Wants'[c] = key[c] /\ Shared'[c] = TRUE
  BY <1>2, <1>3, <1>4, <1>5, UseIs
<1>7. \A d \in Client \ {c} : SameFor(d)
  <2>1. \A d \in Client \ {c} : \A b \in Range(host[d]) : b \notin Range(host[c])
    BY <1>0, <1>3 DEF Held
  <2> QED BY <1>2, <1>3, <1>4, <2>1, SameForFrame
<1>8. Cached' = Cached \union {key[c]} /\ key[c] \notin Cached
  BY <1>2, <1>3 DEF Cached
<1> QED BY <1>5, <1>6, <1>7, <1>8, InsertMaps

\* Releasing own buffers is Finish with the last one, and nothing before.
LEMMA ReleaseOwnMaps ==
  ASSUME IInv, NEW c \in Client, ReleaseOwn(c)
  PROVE  MemoStep
<1>0. Types /\ Hands
  BY DEF IInv
<1>1. /\ pc[c] = Using /\ header[Head(host[c])] = NULL /\ Released(c)
      /\ header' = HeadersOf({Head(host[c])}, NULL)
      /\ UNCHANGED <<live, entry>>
  BY DEF ReleaseOwn, Free, chain
<1>2. header' = header
  <2>1. header = [b \in Block |-> header[b]]
    BY <1>0 DEF Types
  <2> QED BY <1>1, <2>1 DEF HeadersOf
<1>3. host[c] # <<>>
  BY <1>0, <1>1 DEF Hands
<1>4. \A d \in Client : d # c => host'[d] = host[d] /\ key'[d] = key[d]
  BY <1>1, <1>3, ReleasedDoes
<1>5. \A d \in Client \ {c} : SameFor(d)
  BY <1>2, <1>4, SameForFrame
<1>6. Cached' = Cached
  BY <1>1, CachedFrame
<1>7. key[c] # NULL /\ (host'[c] # <<>> => key'[c] = key[c] /\ header[Head(host'[c])] = NULL)
  BY <1>1, <1>3, NextHead
<1>8. CASE host'[c] = <<>>
  <2>1. Wants[c] # NULL /\ Wants'[c] = NULL /\ Shared'[c] = FALSE
    BY <1>3, <1>7, <1>8, UseIs
  <2> QED BY <1>5, <1>6, <2>1, FinishMaps
<1>9. CASE host'[c] # <<>>
  <2>1. SameFor(c)
    BY <1>1, <1>2, <1>3, <1>7, <1>9, UseIs DEF SameFor
  <2> QED BY <1>5, <1>6, <2>1, StutterMaps
<1> QED BY <1>8, <1>9

\* So is releasing shared ones.
LEMMA ReleaseSharedMaps ==
  ASSUME IInv, NEW c \in Client, ReleaseShared(c)
  PROVE  MemoStep
<1>0. Types /\ Hands /\ Owned
  BY DEF IInv
<1>1. /\ pc[c] = Leaving /\ Released(c) /\ UNCHANGED <<live, header>>
      /\ entry' = [entry EXCEPT ![found[c]].in_use_count = @ - 1]
  BY DEF ReleaseShared, blocks
<1>2. host[c] # <<>> /\ found[c] = header[Head(host[c])] /\ found[c] # NULL
  BY <1>0, <1>1 DEF Hands
<1>3. \A d \in live : entry'[d].key = entry[d].key
  <2>1. PICK n : n = entry[found[c]].in_use_count - 1
    OBVIOUS
  <2>2. entry \in [Addr -> Entry] /\ live \subseteq Addr
    BY <1>0 DEF Types
  <2>3. entry' = [entry EXCEPT ![found[c]].in_use_count = n]
    BY <1>1, <2>1
  <2>4. \A d \in live : entry'[d] = IF d = found[c] THEN [entry[d] EXCEPT !.in_use_count = n]
                                    ELSE entry[d]
    BY <2>2, <2>3
  <2>5. \A d \in live : entry[d] \in Entry
    BY <2>2
  <2> QED BY <2>4, <2>5 DEF Entry
<1>4. \A d \in Client : d # c => host'[d] = host[d] /\ key'[d] = key[d]
  BY <1>1, <1>2, ReleasedDoes
<1>5. \A d \in Client \ {c} : SameFor(d)
  BY <1>1, <1>4, SameForFrame
<1>6. Cached' = Cached
  BY <1>1, <1>3, CachedFrame
<1>7. key[c] # NULL
      /\ (host'[c] # <<>> => key'[c] = key[c] /\ header[Head(host'[c])] = header[Head(host[c])])
  BY <1>1, <1>2, NextHead
<1>8. CASE host'[c] = <<>>
  <2>1. Wants[c] # NULL /\ Wants'[c] = NULL /\ Shared'[c] = FALSE
    BY <1>2, <1>7, <1>8, UseIs
  <2> QED BY <1>5, <1>6, <2>1, FinishMaps
<1>9. CASE host'[c] # <<>>
  <2>1. SameFor(c)
    BY <1>1, <1>2, <1>7, <1>9, UseIs DEF SameFor
  <2> QED BY <1>5, <1>6, <2>1, StutterMaps
<1> QED BY <1>8, <1>9

\* halide_memoization_cache_cleanup evicts all there is.
LEMMA CleanupMaps ==
  ASSUME IInv, Cleanup
  PROVE  MemoStep
<1>0. Hands
  BY DEF IInv
<1>1. (\A c \in Client : pc[c] = Idle) /\ live' = {} /\ UNCHANGED <<key, host>>
  BY DEF Cleanup, clients
<1>2. \A c \in Client : host[c] = <<>>
  BY <1>0, <1>1 DEF Hands
<1>3. \A c \in Client : SameFor(c) /\ ~Shared[c]
  BY <1>1, <1>2, UseIs DEF SameFor
<1>4. Cached' = Cached \ Cached
  BY <1>1 DEF Cached
<1> QED BY <1>3, <1>4, EvictMaps

\* Every step of the cache is one of Memo, or leaves what Memo sees as it was.
LEMMA NextMaps == IInv /\ [Next]_vars => MemoStep
<1> SUFFICES ASSUME IInv, [Next]_vars PROVE MemoStep
  OBVIOUS
<1>1. ASSUME NEW c \in Client, NEW k \in Key, LookupHit(c, k) \/ LookupMiss(c, k) PROVE MemoStep
  BY <1>1, LookupHitMaps, LookupMissMaps
<1>2. ASSUME NEW c \in Client,
             \/ Fail(c) \/ Store(c) \/ PruneSkip(c) \/ StoreFails(c) \/ ReadHeader(c)
             \/ SetSizeReturns(c) \/ \E size \in Limits : SetSize(c, size)
      PROVE  MemoStep
  BY <1>2, OtherStepsMap
<1>3. ASSUME NEW c \in Client, PruneEvict(c) \/ StoreEntry(c) PROVE MemoStep
  BY <1>3, PruneEvictMaps, StoreEntryMaps
<1>4. ASSUME NEW c \in Client, ReleaseOwn(c) \/ ReleaseShared(c) PROVE MemoStep
  BY <1>4, ReleaseOwnMaps, ReleaseSharedMaps
<1>5. CASE Cleanup
  BY <1>5, CleanupMaps
<1>6. CASE UNCHANGED vars
  BY <1>6, QuietMaps DEF vars, chain, blocks, clients
<1> QED BY <1>1, <1>2, <1>3, <1>4, <1>5, <1>6, Zenon DEF Next

\* Implements: a lookup finds a result exactly when one is stored for the key,
\* no key has two, and none is evicted while a pipeline shares it.
THEOREM CacheImplementsMemo == Spec => Implements
<1>1. Init => Promise!MemoInit
  <2> SUFFICES ASSUME Init PROVE Promise!MemoInit
    OBVIOUS
  <2>1. {entry[a].key : a \in live} = {}
    BY DEF Init
  <2>2. \A c \in Client : host[c] = <<>>
    BY DEF Init
  <2> QED BY <2>1, <2>2 DEF Promise!MemoInit
<1>2. IInv /\ [Next]_vars => [Promise!MemoNext]_(Promise!memovars)
  BY NextMaps DEF MemoStep
<1> QED BY <1>1, <1>2, Invariance, PTL DEF Spec, Implements, Promise!MemoSpec
=============================================================================
