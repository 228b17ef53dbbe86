------------------------------ MODULE MemoCache -----------------------------
(***************************************************************************)
(* The memoization cache (src/src/runtime/cache.cpp) and the pipelines     *)
(* that use it, as the code Memoization.cpp generates calls it: look a     *)
(* result up, compute and store it if it is missing, and release each of   *)
(* its tuple buffers when they are no longer needed.                       *)
(*                                                                         *)
(* A key stands for all that an entry is compared by: the key's bytes, the *)
(* computed bounds, the bounds of the allocations and the tuple size.      *)
(* Entries and host blocks are addresses; malloc returns the lowest free   *)
(* address, so that freed memory is reused at once, or fails.              *)
(*                                                                         *)
(* memoization_lock is held from the step that enters prune_cache to the   *)
(* step that leaves it, with a step for each candidate between; the other  *)
(* critical sections are one step.  A use of a freed entry, and an         *)
(* assertion that fails, ends the program: the step is not taken.          *)
(***************************************************************************)
EXTENDS Naturals, FiniteSets, SequencesExt

CONSTANTS Client,       \* the pipelines
          Key,
          NULL,
          Addr,         \* where a CacheEntry can be
          Block,        \* where a host block, with its header, can be
          Index,        \* Index[k]: djb_hash of k modulo kHashTableSize
          Size,         \* Size[k]: size_in_bytes of each of k's tuple buffers
          TUPLES,       \* tuple_count
          DEFAULT_SIZE, \* kDefaultCacheSize
          Limits,       \* what halide_memoization_cache_set_size is called with
          OPS           \* bound: lookups and set_size calls, in all

ASSUME AddrAssumption  == /\ Addr \subseteq Nat /\ Block \subseteq Nat /\ NULL \notin Nat
                          /\ IsFiniteSet(Addr)
ASSUME ClientAssumption == NULL \notin Client /\ IsFiniteSet(Client)
ASSUME KeyAssumption   == NULL \notin Key /\ Index \in [Key -> Nat] /\ Size \in [Key -> Nat \ {0}]
ASSUME TupleAssumption == TUPLES \in Nat \ {0}
ASSUME LimitAssumption == DEFAULT_SIZE \in Nat /\ Limits \subseteq Nat /\ OPS \in Nat

VARIABLES table,        \* cache_entries
          entry,        \* the CacheEntry at each address
          live,         \* the addresses where there is one
          most_recently_used, least_recently_used,
          current_cache_size, max_cache_size,
          heap,         \* the host blocks that are allocated
          header,       \* header[b]: the entry field of b's CacheBlockHeader
          content,      \* content[b]: the key whose result block b holds
          lock,         \* memoization_lock
          pc,           \* where each client is
          key,          \* the key it works on
          host,         \* the host pointers it has not released yet
          found,        \* the local 'entry' of halide_memoization_cache_release
          candidate,    \* prune_candidate
          ops

chain   == <<table, entry, live, most_recently_used, least_recently_used>>
sizes   == <<current_cache_size, max_cache_size>>
blocks  == <<heap, header, content>>
clients == <<pc, key, host, found, ops>>
vars    == <<chain, sizes, blocks, lock, candidate, clients>>

Pointer == Addr \union {NULL}
Buckets == {Index[k] : k \in Key}

Entry == [next : Pointer, more_recent : Pointer, less_recent : Pointer,
          key : Key \union {NULL}, in_use_count : Nat, buf : Seq(Block)]

Freed == [next |-> NULL, more_recent |-> NULL, less_recent |-> NULL,
          key |-> NULL, in_use_count |-> 0, buf |-> <<>>]

Idle    == "idle"     \* outside the pipeline
Missed  == "missed"   \* the lookup failed: computing the result
Storing == "storing"  \* pruning, in halide_memoization_cache_store
Using   == "using"    \* has a result
Leaving == "leaving"  \* has read the header of the buffer it releases
Sizing  == "sizing"   \* pruning, in halide_memoization_cache_set_size

Init ==
  /\ table = [i \in Buckets |-> NULL]
  /\ entry = [a \in Addr |-> Freed]
  /\ live = {}
  /\ most_recently_used = NULL
  /\ least_recently_used = NULL
  /\ current_cache_size = 0
  /\ max_cache_size = DEFAULT_SIZE
  /\ heap = {}
  /\ header = [b \in Block |-> NULL]
  /\ content = [b \in Block |-> NULL]
  /\ lock = NULL
  /\ pc = [c \in Client |-> Idle]
  /\ key = [c \in Client |-> NULL]
  /\ host = [c \in Client |-> <<>>]
  /\ found = [c \in Client |-> NULL]
  /\ candidate = NULL
  /\ ops = OPS

Goto(c, l) == pc' = [pc EXCEPT ![c] = l]

Malloc(space, used) == Min(space \ used)

\* n blocks, one malloc after the other; there is none if memory runs out.
Mallocs(n) ==
  {q \in [1..n -> Block \ heap] :
     /\ IsInjective(q)
     /\ \A i \in 1..n : q[i] = Malloc(Block, heap \union {q[j] : j \in 1..(i - 1)})}

\* What is reached from a first entry by the links of a field, in order; one
\* more than there can be if the links run in a circle.
Along(first, field) ==
  LET After(a) == IF a = NULL THEN NULL ELSE entry[a][field]
      at[n \in 0..Cardinality(Addr)] == IF n = 0 THEN first ELSE After(at[n - 1])
  IN  [n \in {m \in 1..(Cardinality(Addr) + 1) : at[m - 1] # NULL} |-> at[n - 1]]

\* The entries of bucket i, from the one stored last.
Bucket(i) == Along(table[i], "next")

\* Slip: only the hashes are compared.
SameBucket(a, k) == Index[entry[a].key] = Index[k]

Matches(a, k) == entry[a].key = k

\* The first entry for k in its bucket, if there is one.
Find(k) ==
  LET q == Bucket(Index[k])
      S == {i \in DOMAIN q : Matches(q[i], k)}
  IN  IF S = {} THEN NULL ELSE q[Min(S)]

HeadersOf(S, a) == [b \in Block |-> IF b \in S THEN a ELSE header[b]]

\* halide_free of the blocks of S; what they held is not read again.
Free(S) ==
  /\ heap' = heap \ S
  /\ header' = HeadersOf(S, NULL)
  /\ content' = [b \in Block |-> IF b \in S THEN NULL ELSE content[b]]

\* p->field = v, where p may be null.
Put(e, p, field, v) == IF p = NULL THEN e ELSE [e EXCEPT ![p][field] = v]

(***************************************************************************)
(* halide_memoization_cache_lookup.                                        *)
(***************************************************************************)
\* The entry that was found becomes the most recently used one.
Touch(a) ==
  LET older == entry[a].less_recent
      newer == entry[a].more_recent
      cut   == Put(Put(entry, older, "more_recent", newer), newer, "less_recent", older)
  IN
  IF a = most_recently_used
  THEN entry' = [entry EXCEPT ![a].in_use_count = @ + TUPLES]
       /\ UNCHANGED <<most_recently_used, least_recently_used>>
  ELSE /\ newer \in live
       /\ older = NULL => least_recently_used = a
       /\ least_recently_used' = IF older = NULL THEN newer ELSE least_recently_used
       /\ most_recently_used' = a
       /\ entry' = [Put(cut, most_recently_used, "more_recent", a)
                      EXCEPT ![a].more_recent = NULL,
                             ![a].less_recent = most_recently_used,
                             ![a].in_use_count = @ + TUPLES]

Begins(c) ==
  /\ pc[c] = Idle /\ lock = NULL
  /\ ops > 0 /\ ops' = ops - 1

LookupHit(c, k) ==
  /\ Begins(c)
  /\ Find(k) # NULL
  /\ Touch(Find(k))
  /\ key' = [key EXCEPT ![c] = k]
  /\ host' = [host EXCEPT ![c] = entry[Find(k)].buf]
  /\ Goto(c, Using)
  /\ UNCHANGED <<table, live, sizes, blocks, lock, candidate, found>>

\* Slip: the buffers already allocated are forgotten.
GivenBack(S) == {}

\* On failure what was allocated so far is freed again.
FreedOnFailure(S) == S

LookupMiss(c, k) ==
  /\ Begins(c)
  /\ Find(k) = NULL
  /\ \/ \E got \in Mallocs(TUPLES) :
        /\ heap' = heap \union Range(got)
        /\ header' = HeadersOf(Range(got), NULL)
        /\ UNCHANGED content
        /\ key' = [key EXCEPT ![c] = k]
        /\ host' = [host EXCEPT ![c] = got]
        /\ Goto(c, Missed)
     \/ \E n \in 0..(TUPLES - 1) : \E got \in Mallocs(n) :
        /\ heap' = (heap \union Range(got)) \ FreedOnFailure(Range(got))
        /\ UNCHANGED <<header, content, key, host, pc>>
  /\ UNCHANGED <<chain, sizes, lock, candidate, found>>

(***************************************************************************)
(* The pipeline computes the result, or fails, which releases the buffers. *)
(***************************************************************************)
Fail(c) ==
  /\ pc[c] = Missed
  /\ Goto(c, Using)
  /\ UNCHANGED <<chain, sizes, blocks, lock, candidate, key, host, found, ops>>

Computed(c) ==
  content' = [b \in Block |-> IF b \in Range(host[c]) THEN key[c] ELSE content[b]]

(***************************************************************************)
(* halide_memoization_cache_store, up to its call of prune_cache.          *)
(***************************************************************************)
\* Slip: nobody looks whether the result was stored meanwhile.
NoDuplicate(k) == NULL

Duplicate(k) == Find(k)

BytesOf(k) == TUPLES * Size[k]

Store(c) ==
  /\ pc[c] = Missed /\ lock = NULL
  /\ Computed(c)
  /\ IF Duplicate(key[c]) # NULL
     THEN /\ header' = HeadersOf(Range(host[c]), NULL)
          /\ Goto(c, Using)
          /\ UNCHANGED <<current_cache_size, lock, candidate>>
     ELSE /\ current_cache_size' = current_cache_size + BytesOf(key[c])
          /\ lock' = c
          /\ candidate' = least_recently_used
          /\ Goto(c, Storing)
          /\ UNCHANGED header
  /\ UNCHANGED <<chain, max_cache_size, heap, key, host, found, ops>>

(***************************************************************************)
(* prune_cache: one candidate per step, from the least recently used on.   *)
(***************************************************************************)
Pruning(c) == lock = c /\ pc[c] \in {Storing, Sizing}

PruneOn == current_cache_size > max_cache_size /\ candidate # NULL

PruneSkip(c) ==
  /\ Pruning(c) /\ PruneOn
  /\ candidate \in live
  /\ entry[candidate].in_use_count # 0
  /\ candidate' = entry[candidate].more_recent
  /\ UNCHANGED <<chain, sizes, blocks, lock, clients>>

\* Slip: an entry is evicted although its buffers are in use.
AnyEntry(a) == TRUE

Evictable(a) == entry[a].in_use_count = 0

BucketWithout(a) ==
  [table EXCEPT ![Index[entry[a].key]] = IF @ = a THEN entry[a].next ELSE @]

PruneEvict(c) ==
  LET P     == entry[candidate]
      newer == P.more_recent
      q     == Bucket(Index[P.key])
      at    == CHOOSE i \in DOMAIN q : q[i] = candidate
      older == P.less_recent
  IN
  /\ Pruning(c) /\ PruneOn
  /\ candidate \in live
  /\ Evictable(candidate)
  /\ newer \in live \union {NULL}
  /\ table' = BucketWithout(candidate)
  /\ least_recently_used' = IF least_recently_used = candidate THEN newer ELSE least_recently_used
  /\ most_recently_used' = IF most_recently_used = candidate THEN older ELSE most_recently_used
  \* The older entry's more_recent keeps naming the candidate: what the code
  \* assigns in its place is the candidate's own less_recent.
  /\ entry' = LET unhashed == IF at = 1 THEN entry ELSE [entry EXCEPT ![q[at - 1]].next = P.next]
              IN  [Put(unhashed, newer, "less_recent", older) EXCEPT ![candidate] = Freed]
  /\ current_cache_size' = current_cache_size - BytesOf(P.key)
  /\ live' = live \ {candidate}
  /\ Free(Range(P.buf))
  /\ candidate' = newer
  /\ UNCHANGED <<max_cache_size, lock, clients>>

(***************************************************************************)
(* The rest of halide_memoization_cache_store: link the entry, or give up  *)
(* when there is no memory for it.                                         *)
(***************************************************************************)
StoreEntry(c) ==
  LET a == Malloc(Addr, live)
      new == [next |-> table[Index[key[c]]], more_recent |-> NULL,
              less_recent |-> most_recently_used, key |-> key[c],
              in_use_count |-> TUPLES, buf |-> host[c]]
  IN
  /\ pc[c] = Storing /\ ~PruneOn
  /\ live # Addr
  /\ entry' = [Put(entry, most_recently_used, "more_recent", a) EXCEPT ![a] = new]
  /\ live' = live \union {a}
  /\ most_recently_used' = a
  /\ least_recently_used' = IF least_recently_used = NULL THEN a ELSE least_recently_used
  /\ table' = [table EXCEPT ![Index[key[c]]] = a]
  /\ header' = HeadersOf(Range(host[c]), a)
  /\ lock' = NULL /\ candidate' = NULL
  /\ Goto(c, Using)
  /\ UNCHANGED <<sizes, heap, content, key, host, found, ops>>

StoreFails(c) ==
  /\ pc[c] = Storing /\ ~PruneOn
  /\ current_cache_size' = current_cache_size - BytesOf(key[c])
  /\ header' = HeadersOf(Range(host[c]), NULL)
  /\ lock' = NULL /\ candidate' = NULL
  /\ Goto(c, Using)
  /\ UNCHANGED <<chain, max_cache_size, heap, content, key, host, found, ops>>

(***************************************************************************)
(* halide_memoization_cache_release, once for each tuple buffer.  It reads *)
(* the header before it takes the lock.                                    *)
(***************************************************************************)
Released(c) ==
  /\ host' = [host EXCEPT ![c] = Tail(@)]
  /\ IF Len(host[c]) = 1
     THEN Goto(c, Idle) /\ key' = [key EXCEPT ![c] = NULL]
     ELSE Goto(c, Using) /\ UNCHANGED key

ReleaseOwn(c) ==
  /\ pc[c] = Using
  /\ header[Head(host[c])] = NULL
  /\ Free({Head(host[c])})
  /\ Released(c)
  /\ UNCHANGED <<chain, sizes, lock, candidate, found, ops>>

ReadHeader(c) ==
  /\ pc[c] = Using
  /\ header[Head(host[c])] # NULL
  /\ found' = [found EXCEPT ![c] = header[Head(host[c])]]
  /\ Goto(c, Leaving)
  /\ UNCHANGED <<chain, sizes, blocks, lock, candidate, key, host, ops>>

ReleaseShared(c) ==
  /\ pc[c] = Leaving /\ lock = NULL
  /\ entry[found[c]].in_use_count > 0
  /\ entry' = [entry EXCEPT ![found[c]].in_use_count = @ - 1]
  /\ found' = [found EXCEPT ![c] = NULL]
  /\ Released(c)
  /\ UNCHANGED <<table, live, most_recently_used, least_recently_used, sizes, blocks,
                 lock, candidate, ops>>

(***************************************************************************)
(* halide_memoization_cache_set_size and halide_memoization_cache_cleanup. *)
(***************************************************************************)
SetSize(c, size) ==
  /\ Begins(c)
  /\ max_cache_size' = IF size = 0 THEN DEFAULT_SIZE ELSE size
  /\ lock' = c
  /\ candidate' = least_recently_used
  /\ Goto(c, Sizing)
  /\ UNCHANGED <<chain, current_cache_size, blocks, key, host, found>>

SetSizeReturns(c) ==
  /\ pc[c] = Sizing /\ ~PruneOn
  /\ lock' = NULL /\ candidate' = NULL
  /\ Goto(c, Idle)
  /\ UNCHANGED <<chain, sizes, blocks, key, host, found, ops>>

\* The destructor of the runtime, when no pipeline runs.
Cleanup ==
  /\ \A c \in Client : pc[c] = Idle
  /\ table' = [i \in Buckets |-> NULL]
  /\ Free(UNION {Range(entry[a].buf) : a \in live})
  /\ entry' = [a \in Addr |-> Freed]
  /\ live' = {}
  /\ current_cache_size' = 0
  /\ most_recently_used' = NULL
  /\ least_recently_used' = NULL
  /\ UNCHANGED <<max_cache_size, lock, candidate, clients>>

Next ==
  \/ \E c \in Client :
       \/ \E k \in Key : LookupHit(c, k) \/ LookupMiss(c, k)
       \/ Fail(c) \/ Store(c) \/ PruneSkip(c) \/ PruneEvict(c)
       \/ StoreEntry(c) \/ StoreFails(c)
       \/ ReleaseOwn(c) \/ ReadHeader(c) \/ ReleaseShared(c)
       \/ \E size \in Limits : SetSize(c, size)
       \/ SetSizeReturns(c)
  \/ Cleanup

Spec == Init /\ [][Next]_vars

-----------------------------------------------------------------------------
(***************************************************************************)
(* Properties.                                                             *)
(***************************************************************************)
\* Every variable keeps its type.
TypeOK ==
  /\ table \in [Buckets -> Pointer]
  /\ entry \in [Addr -> Entry]
  /\ live \subseteq Addr
  /\ {most_recently_used, least_recently_used, candidate} \subseteq Pointer
  /\ current_cache_size \in Nat /\ max_cache_size \in Nat
  /\ heap \subseteq Block
  /\ header \in [Block -> Pointer]
  /\ content \in [Block -> Key \union {NULL}]
  /\ lock \in Client \union {NULL}
  /\ pc \in [Client -> {Idle, Missed, Storing, Using, Leaving, Sizing}]
  /\ key \in [Client -> Key \union {NULL}]
  /\ host \in [Client -> Seq(Block)]
  /\ found \in [Client -> Pointer]
  /\ ops \in Nat

\* The buffers of c that belong to entry a.
Uses(c, a) == {b \in Range(host[c]) : header[b] = a}

\* in_use_count is the number of tuple buffers that were handed out and not
\* released, whatever the order in which pipelines look up, store and release:
\* an entry is neither pinned for ever nor evicted under a reader.
InUseExact ==
  \A a \in live :
    entry[a].in_use_count =
      Cardinality(UNION {{<<c, b>> : b \in Uses(c, a)} : c \in Client})

\* What a pipeline was given by a hit or a store stays allocated until it
\* releases it, holds the result for its key, and, if its header names an
\* entry, is a buffer of that entry; only the storing pipeline has own buffers.
\* And in_use_count counts all that was given out, so that release ends it.
HeldBuffers ==
  /\ InUseExact
  /\ \A c \in Client : \A b \in Range(host[c]) :
       /\ b \in heap
       /\ header[b] # NULL => /\ header[b] \in live
                              /\ b \in Range(entry[header[b]].buf)
                              /\ content[b] = key[c]
       /\ header[b] = NULL => \A d \in Client : b \in Range(host[d]) => d = c

\* The hash table holds every live entry once, in its bucket and nowhere else,
\* and no two for the same key although both pipelines of a race may have
\* computed it.
TableExact ==
  /\ \A i \in Buckets :
       /\ Range(Bucket(i)) = {a \in live : Index[entry[a].key] = i}
       /\ IsInjective(Bucket(i))
  /\ \A a, b \in live : entry[a].key = entry[b].key => a = b

Total(f) == FoldFunction(+, 0, f)

\* current_cache_size is the total of the stored results and of the one that
\* is being stored: a store that gives up takes back what it added.
SizeExact ==
  current_cache_size =
    Total([a \in live |-> BytesOf(entry[a].key)])
      + Total([c \in {d \in Client : pc[d] = Storing} |-> BytesOf(key[c])])

\* The table and the size, which every operation of the cache goes by, are exact.
CacheValid == TypeOK /\ TableExact /\ SizeExact

\* Every allocated block is a buffer of one entry or, with a null header, of
\* one pipeline: no path of lookup, store, release or eviction leaks one.
NoBlockLost ==
  heap = (UNION {Range(entry[a].buf) : a \in live}) \union (UNION {Range(host[c]) : c \in Client})

\* validate_cache: whenever the lock is free, the chain from the least recently
\* used entry has as many entries as the hash table.
ValidFromLRU ==
  lock = NULL => Len(Along(least_recently_used, "more_recent")) = Cardinality(live)

-----------------------------------------------------------------------------
(***************************************************************************)
(* The cache implements what Memo promises.                                *)
(***************************************************************************)
Promise == INSTANCE Memo WITH
  cached <- {entry[a].key : a \in live},
  wants  <- [c \in Client |-> IF host[c] = <<>> THEN NULL ELSE key[c]],
  shared <- [c \in Client |-> host[c] # <<>> /\ header[Head(host[c])] # NULL]

\* A lookup finds a result exactly when one is stored, and it stays until the
\* last pipeline that uses it has released it.
Implements == Promise!MemoSpec

=============================================================================
