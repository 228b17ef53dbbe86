----------------------------- MODULE TraceProofs ----------------------------
(***************************************************************************)
(* The lock of the trace buffer excludes, for any finite set of threads,   *)
(* any size of the buffer and any events.                                  *)
(*                                                                         *)
(* The count in the lock is the number of writers that share the buffer,   *)
(* the held bit is set while one thread has it for itself, and then the    *)
(* count is zero; so a compare and swap that finds the count zero and the  *)
(* bit clear meets nobody.  A thread comes as far as the lock only if the  *)
(* trace goes to a file, and the buffer exists as long as it does.         *)
(*                                                                         *)
(* What the trace file holds: whole packets, parents before children, and  *)
(* everything up to the end of a pipeline, for any finite set of threads,  *)
(* any size of the buffer and any events.                                  *)
(*                                                                         *)
(* The argument is about one sequence, log: which event each word of the   *)
(* trace belongs to, the words in the file, those in the buffer and those  *)
(* that are claimed and not written yet.  It grows when space is claimed,  *)
(* and nothing else changes it: not even a flush, which moves words from   *)
(* the buffer to the file.                                                 *)
(***************************************************************************)
EXTENDS Trace, FiniteSetTheorems, SequenceTheorems, TLAPS

Sharers == {t \in Thread : Sharing(t)}

\* A thread in halide_default_trace that writes a packet.
Recording(t) == pc[t] \notin {"idle", "open", "print"}

LockTypes ==
  /\ pc \in [Thread -> Where]
  /\ lock \in [held : BOOLEAN, waiting : BOOLEAN, shared : Nat]
  /\ trace_buffer \in BOOLEAN

SharedCounted == lock.shared = Cardinality(Sharers)

HeldAlone ==
  /\ \A t \in Thread : Exclusive(t) => lock.held
  /\ \A t, u \in Thread : Exclusive(t) /\ Exclusive(u) => t = u
  /\ lock.held => lock.shared = 0

BufferThere ==
  /\ trace_file = File => trace_buffer
  /\ \A t \in Thread : Recording(t) => trace_buffer

IInv == LockTypes /\ SharedCounted /\ HeldAlone /\ BufferThere

-----------------------------------------------------------------------------
\* The threads that share the buffer can be counted.
LEMMA SharersFinite == IsFiniteSet(Sharers) /\ Cardinality(Sharers) \in Nat
<1>1. Sharers \subseteq Thread
  BY DEF Sharers
<1>. QED
  BY <1>1, ThreadAssumption, FS_Subset, FS_CardinalityType

\* A count of zero means that nobody shares the buffer.
LEMMA NobodyShares ==
  ASSUME SharedCounted, lock.shared = 0
  PROVE  \A t \in Thread : ~Sharing(t)
BY SharersFinite, FS_EmptySet DEF SharedCounted, Sharers

\* The lock is held alone.
LEMMA Excludes == IInv => LockExcludes
<1>. SUFFICES ASSUME IInv PROVE LockExcludes
  OBVIOUS
<1>. SUFFICES ASSUME NEW t \in Thread, NEW u \in Thread
     PROVE /\ Exclusive(t) => t = u \/ ~(Exclusive(u) \/ Sharing(u))
           /\ Exclusive(t) \/ Sharing(t) => trace_buffer
  BY DEF LockExcludes
<1>1. Exclusive(t) => ~Sharing(u)
  BY NobodyShares DEF IInv, HeldAlone
<1>2. Exclusive(t) \/ Sharing(t) => Recording(t)
  BY DEF Exclusive, Sharing, Recording
<1>. QED
  BY <1>1, <1>2 DEF IInv, HeldAlone, BufferThere

\* The buffer is there from the start only if the program has not asked for a
\* file itself: halide_set_trace_file allocates none.
LEMMA Starts == ASSUME File \notin SetTo PROVE Init => IInv
<1>. SUFFICES ASSUME Init PROVE IInv
  OBVIOUS
<1>1. LockTypes
  BY DEF Init, LockTypes, Free, Where
<1>2. Sharers = {}
  BY DEF Init, Sharers, Sharing
<1>3. SharedCounted
  BY <1>2, FS_EmptySet DEF Init, SharedCounted, Free
<1>4. HeldAlone
  BY DEF Init, HeldAlone, Exclusive, Free
<1>5. BufferThere
  BY DEF Init, BufferThere, Recording
<1>. QED
  BY <1>1, <1>3, <1>4, <1>5 DEF IInv

-----------------------------------------------------------------------------
\* What every step does to pc: one thread goes somewhere.
LEMMA Gone ==
  ASSUME LockTypes, NEW t \in Thread, NEW from, NEW to \in Where, Goes(t, from, to)
  PROVE  /\ pc' \in [Thread -> Where]
         /\ pc[t] = from /\ pc'[t] = to
         /\ \A u \in Thread : u # t => pc'[u] = pc[u]
BY DEF LockTypes, Goes

\* A thread that moves between places of the same kind keeps the invariant, if
\* it leaves the held bit and the count alone.
LEMMA Moves ==
  ASSUME IInv, NEW t \in Thread, NEW from, NEW to \in Where, Goes(t, from, to),
         lock' \in [held : BOOLEAN, waiting : BOOLEAN, shared : Nat],
         lock'.held = lock.held, lock'.shared = lock.shared,
         UNCHANGED <<trace_file, trace_buffer>>,
         Sharing(t)' <=> Sharing(t), Exclusive(t)' <=> Exclusive(t),
         Recording(t)' => Recording(t)
  PROVE  IInv'
<1>1. LockTypes'
  BY Gone DEF IInv, LockTypes
<1>2. Sharers' = Sharers
  BY Gone DEF IInv, Sharers, Sharing
<1>3. SharedCounted'
  BY <1>2 DEF IInv, SharedCounted
<1>4. HeldAlone'
  BY Gone DEF IInv, HeldAlone, Exclusive
<1>5. BufferThere'
  BY Gone DEF IInv, BufferThere, Recording
<1>. QED
  BY <1>1, <1>3, <1>4, <1>5 DEF IInv

\* The actions that do not touch the lock.
LEMMA OutsideLock ==
  ASSUME IInv, NEW t \in Thread,
         \/ \E kind \in Kinds : Trace(t, kind)
         \/ PrintText(t) \/ ClaimSpace(t) \/ AddOverage(t) \/ WritePacket(t)
         \/ WriteOut(t) \/ Reset(t)
  PROVE  IInv'
<1>. {"open", "idle", "write", "over", "back_out", "release", "reset", "unlock"} \subseteq Where
  BY DEF Where
<1>0. lock \in [held : BOOLEAN, waiting : BOOLEAN, shared : Nat]
  BY DEF IInv, LockTypes
<1>. DEFINE Kept == UNCHANGED <<lock, trace_file, trace_buffer>>
            Steps(from, to) == Goes(t, from, to) /\ Kept
<1>1. CASE \E kind \in Kinds : Trace(t, kind)
  <2>1. Steps("idle", "open")
    BY <1>1 DEF Trace, opened
  <2>. QED
    BY <2>1, <1>0, Moves, Gone DEF Sharing, Exclusive, Recording, IInv
<1>2. CASE PrintText(t)
  <2>1. Steps("print", "idle")
    BY <1>2 DEF PrintText, opened
  <2>. QED
    BY <2>1, <1>0, Moves, Gone DEF Sharing, Exclusive, Recording, IInv
<1>3. CASE ClaimSpace(t)
  <2>1. Steps("claim", "write") \/ Steps("claim", "over")
    BY <1>3 DEF ClaimSpace, opened
  <2>. QED
    BY <2>1, <1>0, Moves, Gone DEF Sharing, Exclusive, Recording, IInv
<1>4. CASE AddOverage(t)
  <2>1. Steps("over", "back_out")
    BY <1>4 DEF AddOverage, opened
  <2>. QED
    BY <2>1, <1>0, Moves, Gone DEF Sharing, Exclusive, Recording, IInv
<1>5. CASE WritePacket(t)
  <2>1. Steps("write", "release")
    BY <1>5 DEF WritePacket, opened
  <2>. QED
    BY <2>1, <1>0, Moves, Gone DEF Sharing, Exclusive, Recording, IInv
<1>6. CASE WriteOut(t)
  <2>1. Steps("flush", "reset")
    BY <1>6 DEF WriteOut, opened
  <2>. QED
    BY <2>1, <1>0, Moves, Gone DEF Sharing, Exclusive, Recording, IInv
<1>7. CASE Reset(t)
  <2>1. Steps("reset", "unlock")
    BY <1>7 DEF Reset, opened
  <2>. QED
    BY <2>1, <1>0, Moves, Gone DEF Sharing, Exclusive, Recording, IInv
<1>. QED
  BY <1>1, <1>2, <1>3, <1>4, <1>5, <1>6, <1>7

-----------------------------------------------------------------------------
\* The thread that gets the file from the environment allocates the buffer; the
\* others that find a file find the buffer too.
LEMMA Opens ==
  ASSUME IInv, NEW t \in Thread, GetTraceFile(t)
  PROVE  IInv'
<1>. DEFINE to == IF trace_file' = File THEN "acquire" ELSE "print"
<1>0. to \in Where /\ Goes(t, "open", to) /\ UNCHANGED lock
  BY DEF GetTraceFile, Where
<1>. HIDE DEF to
<1>1. LockTypes'
  BY <1>0, Gone DEF IInv, LockTypes, GetTraceFile
<1>2. ~Sharing(t) /\ ~Sharing(t)' /\ ~Exclusive(t) /\ ~Exclusive(t)'
  BY <1>0, Gone DEF IInv, Sharing, Exclusive, to
<1>3. Sharers' = Sharers
  BY <1>0, <1>2, Gone DEF IInv, Sharers, Sharing
<1>4. SharedCounted'
  BY <1>0, <1>3 DEF IInv, SharedCounted
<1>5. HeldAlone'
  BY <1>0, <1>2, Gone DEF IInv, HeldAlone, Exclusive
<1>6. BufferThere'
  <2>1. (trace_file' = File => trace_buffer') /\ (trace_buffer => trace_buffer')
    BY DEF GetTraceFile, IInv, BufferThere, LockTypes, File, Stdout
  <2>2. Recording(t)' => trace_file' = File
    BY <1>0, Gone DEF IInv, Recording, to
  <2>. QED
    BY <1>0, <2>1, <2>2, Gone DEF IInv, BufferThere, Recording
<1>. QED
  BY <1>1, <1>4, <1>5, <1>6 DEF IInv

\* A writer that comes in finds nobody who has the buffer for itself, and is
\* counted.
LEMMA Enters ==
  ASSUME IInv, NEW t \in Thread, AcquireShared(t)
  PROVE  IInv'
<1>0. /\ Goes(t, "acquire", "claim") /\ ~lock.held
      /\ lock' = [lock EXCEPT !.shared = @ + 1]
      /\ UNCHANGED <<trace_file, trace_buffer>>
  BY DEF AcquireShared, OnlyShared, opened
<1>. "claim" \in Where
  BY DEF Where
<1>1. LockTypes' /\ lock'.shared = lock.shared + 1 /\ ~lock'.held
  BY <1>0, Gone DEF IInv, LockTypes
<1>2. t \notin Sharers /\ Sharers' = Sharers \union {t}
  BY <1>0, Gone DEF IInv, Sharers, Sharing
<1>3. SharedCounted'
  <2>1. Cardinality(Sharers') = Cardinality(Sharers) + 1
    BY <1>2, SharersFinite, FS_AddElement
  <2>. QED
    BY <1>1, <2>1 DEF IInv, SharedCounted
<1>4. HeldAlone'
  BY <1>0, <1>1, Gone DEF IInv, HeldAlone, Exclusive
<1>5. BufferThere'
  BY <1>0, Gone DEF IInv, BufferThere, Recording
<1>. QED
  BY <1>1, <1>3, <1>4, <1>5 DEF IInv

\* A writer that leaves was counted.
LEMMA Leaves ==
  ASSUME IInv, NEW t \in Thread, BackOut(t) \/ ReleasePacket(t)
  PROVE  IInv'
<1>0. PICK from \in {"back_out", "release"}, to \in {"request", "idle"} : Goes(t, from, to)
  BY DEF BackOut, ReleasePacket
<1>. to \in Where
  BY DEF Where
<1>1. lock' = [lock EXCEPT !.shared = @ - 1] /\ UNCHANGED <<trace_file, trace_buffer>>
  BY DEF BackOut, ReleasePacket, ReleaseOne, opened
<1>2. t \in Sharers /\ Sharers' = Sharers \ {t}
  BY <1>0, Gone DEF IInv, Sharers, Sharing
<1>3. Cardinality(Sharers') = Cardinality(Sharers) - 1 /\ Cardinality(Sharers) > 0
  BY <1>2, SharersFinite, FS_RemoveElement, FS_EmptySet
<1>4. lock.shared > 0 /\ lock'.shared = lock.shared - 1
  BY <1>1, <1>3 DEF IInv, SharedCounted, LockTypes
<1>5. LockTypes'
  BY <1>0, <1>1, <1>4, Gone DEF IInv, LockTypes
<1>6. SharedCounted'
  BY <1>3, <1>4 DEF IInv, SharedCounted
<1>7. HeldAlone'
  BY <1>0, <1>1, <1>4, Gone DEF IInv, HeldAlone, Exclusive, LockTypes
<1>8. BufferThere'
  BY <1>0, <1>1, Gone DEF IInv, BufferThere, Recording
<1>. QED
  BY <1>5, <1>6, <1>7, <1>8 DEF IInv

\* Who takes the lock finds nobody with shared or exclusive access.
LEMMA Takes ==
  ASSUME IInv, NEW t \in Thread, RequestExclusive(t) \/ TakeExclusive(t)
  PROVE  IInv'
<1>. {"request", "take", "flush"} \subseteq Where
  BY DEF Where
<1>0. lock \in [held : BOOLEAN, waiting : BOOLEAN, shared : Nat]
  BY DEF IInv, LockTypes
<1>1. CASE RequestExclusive(t)
  <2>1. /\ Goes(t, "request", "take") /\ UNCHANGED <<trace_file, trace_buffer>>
        /\ lock' = [lock EXCEPT !.waiting = TRUE]
    BY <1>1 DEF RequestExclusive, opened
  <2>2. /\ lock' \in [held : BOOLEAN, waiting : BOOLEAN, shared : Nat]
        /\ lock'.held = lock.held /\ lock'.shared = lock.shared
    BY <2>1, <1>0
  <2>3. pc[t] = "request" /\ pc'[t] = "take"
    BY <2>1, Gone DEF IInv
  <2>4. (Sharing(t)' <=> Sharing(t)) /\ (Exclusive(t)' <=> Exclusive(t)) /\ Recording(t)
    BY <2>3 DEF Sharing, Exclusive, Recording
  <2>. QED
    BY <2>1, <2>2, <2>4, Moves
<1>2. CASE TakeExclusive(t) /\ ~OnlyWaiting
  <2>1. Goes(t, "take", "request") /\ UNCHANGED <<trace_file, trace_buffer, lock>>
    BY <1>2 DEF TakeExclusive, Retry, opened
  <2>. QED
    BY <2>1, <1>0, Moves, Gone DEF Sharing, Exclusive, Recording, IInv
<1>3. CASE TakeExclusive(t) /\ OnlyWaiting
  <2>1. /\ Goes(t, "take", "flush") /\ ~lock.held /\ lock.shared = 0
        /\ lock' = [lock EXCEPT !.held = TRUE, !.waiting = FALSE]
        /\ UNCHANGED <<trace_file, trace_buffer>>
    BY <1>3 DEF TakeExclusive, OnlyWaiting, opened
  <2>2. LockTypes' /\ lock'.held /\ lock'.shared = lock.shared
    BY <2>1, Gone DEF IInv, LockTypes
  <2>3. Sharers' = Sharers
    BY <2>1, Gone DEF IInv, Sharers, Sharing
  <2>4. SharedCounted'
    BY <2>2, <2>3 DEF IInv, SharedCounted
  <2>5. HeldAlone'
    BY <2>1, <2>2, Gone DEF IInv, HeldAlone, Exclusive
  <2>6. BufferThere'
    BY <2>1, Gone DEF IInv, BufferThere, Recording
  <2>. QED
    BY <2>2, <2>4, <2>5, <2>6 DEF IInv
<1>. QED
  BY <1>1, <1>2, <1>3

\* Who gives the lock back was the only one to have it.
LEMMA GivesBack ==
  ASSUME IInv, NEW t \in Thread, ReleaseExclusive(t)
  PROVE  IInv'
<1>0. PICK to \in {"acquire", "idle"} : Goes(t, "unlock", to)
  BY DEF ReleaseExclusive
<1>. to \in Where
  BY DEF Where
<1>1. lock' = [lock EXCEPT !.held = FALSE] /\ UNCHANGED <<trace_file, trace_buffer>>
  BY DEF ReleaseExclusive, opened
<1>2. LockTypes' /\ ~lock'.held /\ lock'.shared = lock.shared
  BY <1>0, <1>1, Gone DEF IInv, LockTypes
<1>3. Sharers' = Sharers
  BY <1>0, Gone DEF IInv, Sharers, Sharing
<1>4. SharedCounted'
  BY <1>2, <1>3 DEF IInv, SharedCounted
<1>5. HeldAlone'
  <2>1. Exclusive(t) /\ ~Exclusive(t)'
    BY <1>0, Gone DEF IInv, Exclusive
  <2>2. \A u \in Thread : ~Exclusive(u)'
    BY <1>0, <2>1, Gone DEF IInv, HeldAlone, Exclusive
  <2>. QED
    BY <1>2, <2>2 DEF HeldAlone
<1>6. BufferThere'
  BY <1>0, <1>1, Gone DEF IInv, BufferThere, Recording
<1>. QED
  BY <1>2, <1>4, <1>5, <1>6 DEF IInv

\* When the file is closed nobody records.
LEMMA Closes == ASSUME IInv, ShutDown PROVE IInv'
<1>1. /\ trace_file' = Stdout /\ trace_buffer' = FALSE /\ UNCHANGED <<lock, pc>>
      /\ \A t \in Thread : pc[t] = "idle"
  BY DEF ShutDown
<1>2. LockTypes' /\ HeldAlone'
  BY <1>1 DEF IInv, LockTypes, HeldAlone, Exclusive
<1>3. SharedCounted'
  <2>1. Sharers' = Sharers
    BY <1>1 DEF Sharers, Sharing
  <2>. QED
    BY <1>1, <2>1 DEF IInv, SharedCounted
<1>4. BufferThere'
  BY <1>1 DEF BufferThere, Recording, File, Stdout
<1>. QED
  BY <1>2, <1>3, <1>4 DEF IInv

\* Every step preserves the invariant.
LEMMA Inductive == IInv /\ [Next]_vars => IInv'
<1>. SUFFICES ASSUME IInv, [Next]_vars PROVE IInv'
  OBVIOUS
<1>1. ASSUME NEW t \in Thread, Step(t) PROVE IInv'
  BY <1>1, OutsideLock, Opens, Enters, Leaves, Takes, GivesBack DEF Step
<1>2. ASSUME NEW t \in Thread, \E kind \in Kinds : Trace(t, kind) PROVE IInv'
  BY <1>2, OutsideLock
<1>3. CASE UNCHANGED vars
  BY <1>3 DEF vars, IInv, LockTypes, SharedCounted, Sharers, Sharing, HeldAlone,
              Exclusive, BufferThere, Recording
<1>. QED
  BY <1>1, <1>2, <1>3, Closes DEF Next

-----------------------------------------------------------------------------
\* The buffer is flushed by one thread at a time, while no other is between
\* claiming space in it and having written there, and it is allocated as long as
\* a thread uses it: the code of SharedExclusiveSpinLock, acquire_packet,
\* release_packet, flush and halide_get_trace_file sees to it, unless the
\* program sets the trace file itself.
THEOREM LockCorrect == ASSUME File \notin SetTo PROVE Spec => []LockExcludes
<1>1. Init => IInv
  BY Starts
<1>. QED
  BY <1>1, Inductive, Excludes, PTL DEF Spec

-----------------------------------------------------------------------------
\* The program does not set the trace file itself, and the memory of a new buffer
\* is zero (no constructor runs).
Usage == File \notin SetTo /\ FRESH \subseteq {0}

-----------------------------------------------------------------------------
(***************************************************************************)
(* The inductive invariant.                                                *)
(***************************************************************************)
Typed ==
  /\ trace_file \in {Unset, Stdout, File} /\ env \in BOOLEAN
  /\ cursor \in Nat /\ overage \in Nat
  /\ buf \in [1 .. SIZE -> 0 .. EVENTS]
  /\ ids \in 1 .. EVENTS + 1 /\ event \in Seq(Event) /\ Len(event) = ids - 1
  /\ my \in [Thread -> 0 .. EVENTS]
  /\ my_cursor \in [Thread -> Nat \union {NULL}]
  /\ returned \subseteq 1 .. ids - 1
  /\ file \in Seq(0 .. EVENTS) /\ text \in Seq(1 .. EVENTS)

\* Every event is traced by one thread, and has no packet before it is claimed.
Traced ==
  /\ \A t \in Thread : IF pc[t] = "idle" THEN my[t] = 0
                       ELSE my[t] \in 1 .. ids - 1 /\ my[t] \notin returned
  /\ \A t, u \in Thread : pc[t] # "idle" /\ pc[u] # "idle" /\ my[t] = my[u] => t = u
  /\ \A id \in 1 .. ids - 1 : event[id].after \subseteq returned
  /\ \A t \in Thread :
       /\ pc[t] \in {"write", "release"} => my_cursor[t] # NULL
       /\ my_cursor[t] # NULL =>
            pc[t] \in {"write", "release", "request", "take", "flush", "reset", "unlock"}

\* The trace goes to a file or is printed, until the file is closed.
OneOutput ==
  /\ \A t \in Thread : /\ pc[t] = "print" => trace_file = Stdout
                       /\ Recording(t) => trace_file = File
  /\ trace_file = Unset => cursor = 0 /\ overage = 0 /\ returned = {}
  /\ trace_file # Stdout => text = <<>>
  /\ trace_buffer => trace_file = File
  /\ \A i \in 1 .. Len(text) : text[i] \in returned

Resetting == \E t \in Thread : pc[t] = "reset"

Lost == overage + Cardinality(Unnoted)

\* The threads whose request failed since the last flush, or before.
Failing ==
  {t \in Thread : /\ pc[t] \in {"over", "back_out", "request", "take", "flush", "reset"}
                  /\ my_cursor[t] = NULL}

\* The words of the buffer that are claimed and not in the file.
Top == IF Resetting THEN 0 ELSE cursor - Lost

Space ==
  /\ ~Resetting => /\ Lost <= cursor /\ cursor - Lost <= SIZE
                   /\ Lost > 0 => cursor > SIZE /\ cursor > Lost
  /\ Resetting => cursor <= SIZE /\ (overage > 0 => cursor > 0)
  /\ Lost <= Cardinality(Failing) * SIZE

Pending == {my[t] : t \in {u \in Thread : pc[u] = "write"}}

Sent ==
  {id \in returned : \A i \in 1 .. Len(text) : text[i] # id}
    \union {my[t] : t \in {u \in Thread : my_cursor[u] # NULL /\ pc[u] # "write"}}

Occurs(log, n, id) == {i \in 1 .. n : log[i] = id}

Block(k, id) == k + 1 .. k + PacketSize(id)

LogOf(log, n) ==
  /\ n = Len(file) + Top
  /\ \A i \in 1 .. Len(file) : log[i] = file[i]
  /\ ~Resetting => \A k \in 1 .. SIZE :
       buf[k] = IF k <= Top /\ log[Len(file) + k] \notin Pending THEN log[Len(file) + k] ELSE 0
  /\ \A i \in 1 .. n : log[i] \in Sent \union Pending
  /\ \A id \in Sent : \E k \in Nat : Occurs(log, n, id) = Block(k, id)
  /\ \A t \in Thread : pc[t] = "write" =>
       Occurs(log, n, my[t]) = Block(Len(file) + my_cursor[t], my[t])
  /\ \A i \in 1 .. n : \A p \in event[log[i]].after : \E j \in 1 .. i - 1 : log[j] = p

Logged == \E n \in Nat : \E log \in [1 .. n -> 1 .. ids - 1] : LogOf(log, n)

TextOrdered ==
  \A i \in 1 .. Len(text) : \A p \in event[text[i]].after :
    (\E j \in 1 .. Len(text) : text[j] = p) => \E j \in 1 .. i - 1 : text[j] = p

InFile(id) == \E i \in 1 .. Len(file) : file[i] = id

Flushed ==
  /\ \A id \in returned :
       event[id].kind.end /\ (\A i \in 1 .. Len(text) : text[i] # id) =>
         \A p \in {id} \union event[id].after : InFile(p)
  /\ \A t \in Thread : pc[t] \in {"reset", "unlock"} /\ my_cursor[t] # NULL =>
       \A p \in {my[t]} \union event[my[t]].after : InFile(p)

PInv == /\ IInv /\ Typed /\ Traced /\ OneOutput /\ Space /\ Logged /\ TextOrdered /\ Flushed

-----------------------------------------------------------------------------
\* Moving an interval, and a number past its middle.
LEMMA Moved ==
  ASSUME NEW a \in Int, NEW b \in Int, NEW c \in Int, NEW k \in Int
  PROVE  k \in a + 1 .. a + b <=> c + k \in c + a + 1 .. c + a + b
OBVIOUS

LEMMA Past ==
  ASSUME NEW a \in Nat, NEW b \in Nat, NEW i \in 1 .. a + b, i > a
  PROVE  i - a \in 1 .. b
OBVIOUS

\* More threads lose no fewer words.
LEMMA TimesMonotone ==
  ASSUME NEW a \in Nat, NEW b \in Nat, NEW c \in Nat, a <= b
  PROVE  a * c <= b * c /\ a * c \in Nat /\ b * c \in Nat
<1>1. b - a \in Nat /\ b = a + (b - a)
  OBVIOUS
<1>2. a * c \in Nat /\ b * c \in Nat /\ (b - a) * c \in Nat
  BY <1>1
<1>3. b * c = a * c + (b - a) * c
  BY <1>1
<1>. QED
  BY <1>2, <1>3

\* What is known of an event that was traced.
LEMMA EventTypes ==
  ASSUME Typed, NEW id \in 1 .. ids - 1
  PROVE  /\ event[id] \in Event /\ id \in 1 .. EVENTS
         /\ event[id].kind \in Kinds
         /\ PacketSize(id) \in 1 .. SIZE /\ Ends(id) \in BOOLEAN
<1>1. event \in Seq(Event) /\ id \in 1 .. Len(event) /\ id \in 1 .. EVENTS
  BY EventsAssumption DEF Typed
<1>2. event[id] \in Event
  BY <1>1, ElementOfSeq
<1>3. event[id].kind \in Kinds
  BY <1>2 DEF Event
<1>. QED
  BY <1>1, <1>2, <1>3, SizeAssumption DEF PacketSize, Ends

\* The words of requests that failed can be counted, and the threads whose
\* request failed.
LEMMA Countable ==
  /\ IsFiniteSet(Unnoted) /\ Cardinality(Unnoted) \in Nat
  /\ IsFiniteSet(Failing) /\ Cardinality(Failing) \in Nat
  /\ IsFiniteSet(Thread) /\ Cardinality(Thread) \in Nat
  /\ Cardinality(Failing) <= Cardinality(Thread)
<1>0. IsFiniteSet(1 .. SIZE)
  BY SizeAssumption, FS_Interval
<1>1. IsFiniteSet(Thread \X (1 .. SIZE))
  BY <1>0, ThreadAssumption, FS_Product
<1>2. Unnoted \subseteq Thread \X (1 .. SIZE) /\ Failing \subseteq Thread
  BY DEF Unnoted, Failing
<1>. QED
  BY <1>1, <1>2, ThreadAssumption, FS_Subset, FS_CardinalityType

\* The words of one request.
LEMMA OneRequest ==
  ASSUME NEW t \in Thread, NEW n \in 1 .. SIZE
  PROVE  /\ IsFiniteSet({t} \X (1 .. n)) /\ Cardinality({t} \X (1 .. n)) = n
         /\ {t} \X (1 .. n) \subseteq Thread \X (1 .. SIZE)
<1>1. n \in Nat /\ 1 .. n \subseteq 1 .. SIZE
  BY SizeAssumption
<1>2. IsFiniteSet(1 .. n) /\ Cardinality(1 .. n) = n
  BY <1>1, FS_Interval
<1>3. IsFiniteSet({t}) /\ Cardinality({t}) = 1
  BY FS_Singleton
<1>4. /\ IsFiniteSet({t} \X (1 .. n))
      /\ Cardinality({t} \X (1 .. n)) = Cardinality({t}) * Cardinality(1 .. n)
  BY <1>2, <1>3, FS_Product
<1>5. Cardinality({t} \X (1 .. n)) = 1 * n
  BY <1>2, <1>3, <1>4
<1>6. 1 * n = n
  BY <1>1
<1>. QED
  BY <1>1, <1>4, <1>5, <1>6

\* A thread that has the buffer for itself: nobody else uses it.
LEMMA Alone ==
  ASSUME IInv, NEW t \in Thread, Exclusive(t)
  PROVE  /\ \A u \in Thread : pc[u] \notin {"claim", "over", "back_out", "write", "release"}
         /\ \A u \in Thread : u # t => pc[u] \notin {"flush", "reset", "unlock"}
         /\ Unnoted = {} /\ Cardinality(Unnoted) = 0 /\ Lost = overage + 0 /\ Pending = {}
<1>1. \A u \in Thread : pc[u] \notin {"claim", "over", "back_out", "write", "release"}
  BY NobodyShares DEF IInv, HeldAlone, Sharing
<1>2. \A u \in Thread : u # t => pc[u] \notin {"flush", "reset", "unlock"}
  BY DEF IInv, HeldAlone, Exclusive
<1>3. Unnoted = {} /\ Pending = {}
  BY <1>1 DEF Unnoted, Pending
<1>. QED
  BY <1>1, <1>2, <1>3, FS_EmptySet DEF Lost

\* A thread that shares the buffer: nobody resets it.
LEMMA Together ==
  ASSUME IInv, NEW t \in Thread, Sharing(t)
  PROVE  ~Resetting
BY Alone DEF Resetting, Exclusive, Sharing

\* Nothing is traced in the beginning.
LEMMA PacketsStart == ASSUME Usage PROVE Init => PInv
<1>. SUFFICES ASSUME Init PROVE PInv
  OBVIOUS
<1>1. IInv
  BY Starts DEF Usage
<1>2. Typed
  <2>1. file \in Seq(0 .. EVENTS) /\ text \in Seq(1 .. EVENTS) /\ event \in Seq(Event) /\ Len(event) = 0
    BY EmptySeq DEF Init
  <2>. QED
    BY <2>1, EventsAssumption DEF Init, Typed
<1>3. Traced
  BY DEF Init, Traced
<1>4. OneOutput
  BY DEF Init, OneOutput, Recording, Usage, Unset, File, Stdout
<1>5. Unnoted = {} /\ ~Resetting /\ Pending = {} /\ Sent = {}
  BY DEF Init, Unnoted, Resetting, Pending, Sent
<1>6. Lost = 0 /\ Top = 0
  BY <1>5, FS_EmptySet DEF Init, Lost, Top
<1>7. Space
  BY <1>5, <1>6, Countable, SizeAssumption DEF Init, Space
<1>8. Logged
  <2>. DEFINE log == [i \in 1 .. 0 |-> 1]
  <2>1. log \in [1 .. 0 -> 1 .. ids - 1]
    OBVIOUS
  <2>2. LogOf(log, 0)
    BY <1>5, <1>6 DEF Init, LogOf
  <2>. QED
    BY <2>1, <2>2 DEF Logged
<1>9. TextOrdered /\ Flushed
  BY DEF Init, TextOrdered, Flushed
<1>. QED
  BY <1>1, <1>2, <1>3, <1>4, <1>7, <1>8, <1>9 DEF PInv

-----------------------------------------------------------------------------
(***************************************************************************)
(* What the steps change.                                                  *)
(***************************************************************************)
Acts(t) == Step(t) \/ \E kind \in Kinds : Trace(t, kind)

\* A step of a thread leaves the other threads where they are.
Elsewhere(t) ==
  \A u \in Thread : u # t => pc'[u] = pc[u] /\ my'[u] = my[u] /\ my_cursor'[u] = my_cursor[u]

LEMMA OthersStay ==
  ASSUME LockTypes, Typed, NEW t \in Thread, Acts(t)
  PROVE  Elsewhere(t)
<1>. /\ pc \in [Thread -> Where] /\ my \in [Thread -> 0 .. EVENTS]
     /\ my_cursor \in [Thread -> Nat \union {NULL}]
  BY DEF LockTypes, Typed
<1>1. ASSUME NEW kind \in Kinds, Trace(t, kind) PROVE Elsewhere(t)
  BY <1>1 DEF Trace, Goes, Elsewhere
<1>2. CASE GetTraceFile(t)
  BY <1>2 DEF GetTraceFile, Goes, Elsewhere, events
<1>3. CASE PrintText(t)
  BY <1>3 DEF PrintText, Goes, Elsewhere, Returns
<1>4. CASE AcquireShared(t) \/ AddOverage(t) \/ BackOut(t)
  BY <1>4 DEF AcquireShared, AddOverage, BackOut, Goes, Elsewhere, events
<1>5. CASE ClaimSpace(t)
  BY <1>5 DEF ClaimSpace, Goes, Elsewhere, events
<1>6. CASE WritePacket(t)
  BY <1>6 DEF WritePacket, Goes, Elsewhere, events
<1>7. CASE ReleasePacket(t)
  BY <1>7 DEF ReleasePacket, Goes, Elsewhere, Returns
<1>8. CASE RequestExclusive(t) \/ TakeExclusive(t)
  BY <1>8 DEF RequestExclusive, TakeExclusive, Goes, Elsewhere, events
<1>9. CASE WriteOut(t) \/ Reset(t)
  BY <1>9 DEF WriteOut, Reset, Goes, Elsewhere, events
<1>10. CASE ReleaseExclusive(t)
  BY <1>10 DEF ReleaseExclusive, Goes, Elsewhere, Returns
<1>. QED
  BY <1>1, <1>2, <1>3, <1>4, <1>5, <1>6, <1>7, <1>8, <1>9, <1>10 DEF Acts, Step

\* A new buffer starts with the counts it had when no trace was asked for: zero.
LEMMA CountersKept ==
  ASSUME Usage, LockTypes, OneOutput, NEW t \in Thread, GetTraceFile(t)
  PROVE  UNCHANGED <<cursor, overage>>
<1>1. CASE trace_buffer' = trace_buffer
  BY <1>1 DEF GetTraceFile
<1>2. CASE trace_buffer' # trace_buffer
  <2>1. trace_file = Unset /\ cursor' \in FRESH /\ overage' \in FRESH
    BY <1>2, Zenon DEF GetTraceFile, LockTypes
  <2>2. cursor = 0 /\ overage = 0
    BY <2>1 DEF OneOutput
  <2>. QED
    BY <2>1, <2>2 DEF Usage
<1>. QED
  BY <1>1, <1>2

\* The words of the buffer, as many as a flush writes.
LEMMA FirstWordsProperties ==
  ASSUME Typed, NEW n \in Nat
  PROVE  /\ FirstWords(n) \in Seq(0 .. EVENTS) /\ Len(FirstWords(n)) = n
         /\ \A i \in 1 .. n : FirstWords(n)[i] = IF i > SIZE THEN 0 ELSE buf[i]
<1>1. FirstWords(n) \in [1 .. n -> 0 .. EVENTS]
  BY SizeAssumption, EventsAssumption DEF FirstWords, Typed
<1>2. FirstWords(n) \in Seq(0 .. EVENTS)
  BY <1>1, SeqDef
<1>3. DOMAIN FirstWords(n) = 1 .. n
  BY <1>1
<1>4. Len(FirstWords(n)) = n
  BY <1>2, <1>3, LenProperties
<1>. QED
  BY <1>2, <1>4 DEF FirstWords

\* An event that was traced stays what it was.
EventsGrow ==
  /\ ids' \in {ids, ids + 1}
  /\ \A id \in 1 .. ids - 1 : event'[id] = event[id]

LEMMA TraceProperties ==
  ASSUME IInv, Typed, NEW t \in Thread, NEW kind \in Kinds, Trace(t, kind)
  PROVE  /\ event' \in Seq(Event) /\ Len(event') = ids /\ ids' = ids + 1 /\ EventsGrow
         /\ event'[ids].after = returned
         /\ pc[t] = "idle" /\ pc'[t] = "open" /\ my'[t] = ids /\ my_cursor' = my_cursor
         /\ ids \in 1 .. EVENTS
<1>. DEFINE new == [kind |-> kind, after |-> returned]
<1>1. new \in Event /\ event \in Seq(Event) /\ Len(event) = ids - 1 /\ ids \in 1 .. EVENTS
  BY EventsAssumption DEF Event, Typed, Trace
<1>2. event' = Append(event, new)
  BY DEF Trace
<1>3. new.after = returned
  OBVIOUS
<1>. HIDE DEF new
<1>4. /\ event' \in Seq(Event) /\ Len(event') = ids
      /\ \A i \in 1 .. ids - 1 : event'[i] = event[i]
      /\ event'[ids] = new
  BY <1>1, <1>2, AppendProperties
<1>5. ids' = ids + 1 /\ my'[t] = ids /\ my_cursor' = my_cursor
  BY DEF Trace, Typed
<1>6. pc[t] = "idle" /\ pc'[t] = "open"
  BY DEF Trace, IInv, LockTypes, Goes
<1>. QED
  BY <1>1, <1>3, <1>4, <1>5, <1>6 DEF EventsGrow

LEMMA EventsStay ==
  ASSUME IInv, Typed, NEW t \in Thread, Acts(t)
  PROVE  EventsGrow
<1>1. ASSUME NEW kind \in Kinds, Trace(t, kind) PROVE EventsGrow
  BY <1>1, TraceProperties
<1>2. CASE Step(t)
  <2>1. UNCHANGED <<ids, event>>
    BY <1>2 DEF Step, GetTraceFile, PrintText, AcquireShared, ClaimSpace, AddOverage, BackOut,
                WritePacket, ReleasePacket, RequestExclusive, TakeExclusive, WriteOut, Reset,
                ReleaseExclusive, events
  <2>. QED
    BY <2>1 DEF EventsGrow
<1>. QED
  BY <1>1, <1>2 DEF Acts

\* A call that returns.
LEMMA ReturnsProperties ==
  ASSUME Typed, NEW t \in Thread, Returns(t), my[t] \in 1 .. ids - 1
  PROVE  /\ my' \in [Thread -> 0 .. EVENTS] /\ my'[t] = 0
         /\ returned' \subseteq 1 .. ids - 1 /\ returned' = returned \union {my[t]}
<1>1. 0 \in 0 .. EVENTS
  BY EventsAssumption
<1>2. my \in [Thread -> 0 .. EVENTS] /\ returned \subseteq 1 .. ids - 1
  BY DEF Typed
<1>3. my' = [my EXCEPT ![t] = 0] /\ returned' = returned \union {my[t]}
  BY DEF Returns
<1>4. my' \in [Thread -> 0 .. EVENTS] /\ my'[t] = 0
  BY <1>1, <1>2, <1>3
<1>5. returned' \subseteq 1 .. ids - 1
  BY <1>2, <1>3
<1>. QED
  BY <1>3, <1>4, <1>5

\* Every variable keeps its type.
LEMMA TypedKept ==
  ASSUME Usage, PInv, NEW t \in Thread, Acts(t)
  PROVE  Typed'
<1>. IInv /\ LockTypes /\ Typed /\ Traced /\ OneOutput /\ Space
  BY DEF PInv, IInv
<1>. USE NullAssumption
<1>0. /\ trace_file \in {Unset, Stdout, File} /\ env \in BOOLEAN
      /\ cursor \in Nat /\ overage \in Nat
      /\ buf \in [1 .. SIZE -> 0 .. EVENTS]
      /\ ids \in 1 .. EVENTS + 1 /\ event \in Seq(Event) /\ Len(event) = ids - 1
      /\ my \in [Thread -> 0 .. EVENTS]
      /\ my_cursor \in [Thread -> Nat \union {NULL}]
      /\ returned \subseteq 1 .. ids - 1
      /\ file \in Seq(0 .. EVENTS) /\ text \in Seq(1 .. EVENTS)
      /\ EVENTS \in Nat
  BY EventsAssumption DEF Typed
<1>1. ASSUME NEW kind \in Kinds, Trace(t, kind) PROVE Typed'
  <2>1. UNCHANGED <<trace_file, env, cursor, overage, buf, my_cursor, returned, file, text>>
    BY <1>1 DEF Trace, opened, counters, output
  <2>2. my' \in [Thread -> 0 .. EVENTS]
    BY <1>0, <1>1 DEF Trace
  <2>3. event' \in Seq(Event) /\ Len(event') = ids /\ ids' = ids + 1 /\ ids \in 1 .. EVENTS
    BY <1>1, TraceProperties
  <2>4. Len(event') = ids' - 1 /\ ids' \in 1 .. EVENTS + 1 /\ returned \subseteq 1 .. ids' - 1
    BY <1>0, <2>3
  <2>. QED
    BY <1>0, <2>1, <2>2, <2>3, <2>4 DEF Typed
<1>a. pc[t] # "idle" => my[t] \in 1 .. ids - 1 /\ my[t] \in 1 .. EVENTS
  BY EventTypes DEF Traced
<1>b. pc[t] # "idle" => PacketSize(my[t]) \in 1 .. SIZE /\ PacketSize(my[t]) \in Nat
  BY <1>a, EventTypes, SizeAssumption
<1>2. CASE GetTraceFile(t)
  <2>1. UNCHANGED <<cursor, overage>>
    BY <1>2, CountersKept
  <2>2. trace_file' \in {Unset, Stdout, File}
        /\ UNCHANGED <<env, buf, ids, event, my, my_cursor, returned, file, text>>
    BY <1>0, <1>2 DEF GetTraceFile, events, output
  <2>. QED
    BY <1>0, <2>1, <2>2 DEF Typed
<1>3. CASE PrintText(t)
  <2>1. my[t] \in 1 .. ids - 1 /\ my[t] \in 1 .. EVENTS
    BY <1>a, <1>3 DEF PrintText, Goes
  <2>2. text' \in Seq(1 .. EVENTS)
    BY <1>0, <1>3, <2>1, AppendProperties DEF PrintText
  <2>3. UNCHANGED <<trace_file, env, cursor, overage, buf, ids, event, my_cursor, file>>
    BY <1>3 DEF PrintText, opened, counters
  <2>4. my' \in [Thread -> 0 .. EVENTS] /\ returned' \subseteq 1 .. ids - 1
    BY <1>3, <2>1, ReturnsProperties DEF PrintText
  <2>. QED
    BY <1>0, <2>2, <2>3, <2>4 DEF Typed
<1>4. CASE AcquireShared(t) \/ BackOut(t) \/ RequestExclusive(t) \/ TakeExclusive(t)
  <2>1. UNCHANGED <<opened, counters, events, my_cursor, returned, output>>
    BY <1>4 DEF AcquireShared, BackOut, RequestExclusive, TakeExclusive
  <2>. QED
    BY <1>0, <2>1 DEF Typed, opened, counters, events, output
<1>5. CASE ClaimSpace(t)
  <2>1. cursor' \in Nat /\ my_cursor' \in [Thread -> Nat \union {NULL}]
    BY <1>0, <1>b, <1>5 DEF ClaimSpace, Goes
  <2>2. UNCHANGED <<opened, overage, buf, events, returned, output>>
    BY <1>5 DEF ClaimSpace
  <2>. QED
    BY <1>0, <2>1, <2>2 DEF Typed, opened, events, output
<1>6. CASE AddOverage(t)
  <2>1. overage' \in Nat
    BY <1>0, <1>b, <1>6 DEF AddOverage, Goes, Noted
  <2>2. UNCHANGED <<opened, cursor, buf, events, my_cursor, returned, output>>
    BY <1>6 DEF AddOverage
  <2>. QED
    BY <1>0, <2>1, <2>2 DEF Typed, opened, events, output
<1>7. CASE WritePacket(t)
  <2>1. my[t] \in 0 .. EVENTS
    BY <1>0
  <2>2. buf' \in [1 .. SIZE -> 0 .. EVENTS]
    BY <1>0, <1>7, <2>1 DEF WritePacket
  <2>3. UNCHANGED <<opened, cursor, overage, events, my_cursor, returned, output>>
    BY <1>7 DEF WritePacket
  <2>. QED
    BY <1>0, <2>2, <2>3 DEF Typed, opened, events, output
<1>8. CASE ReleasePacket(t)
  <2>1. my[t] \in 1 .. ids - 1 /\ my[t] \in 1 .. EVENTS
    BY <1>a, <1>8 DEF ReleasePacket, Goes
  <2>2. UNCHANGED <<opened, counters, ids, event, output>>
    BY <1>8 DEF ReleasePacket
  <2>3. my' \in [Thread -> 0 .. EVENTS] /\ returned' \subseteq 1 .. ids - 1
    BY <1>0, <1>8, <2>1, ReturnsProperties DEF ReleasePacket
  <2>4. my_cursor' \in [Thread -> Nat \union {NULL}]
    BY <1>0, <1>8 DEF ReleasePacket
  <2>. QED
    BY <1>0, <2>2, <2>3, <2>4 DEF Typed, opened, counters, output
<1>9. CASE WriteOut(t)
  <2>1. pc[t] = "flush"
    BY <1>9 DEF WriteOut, Goes
  <2>2. Lost = overage + 0 /\ ~Resetting
    BY <2>1, Alone DEF Exclusive, Resetting
  <2>3. cursor' \in Nat
    BY <1>0, <1>9, <2>2 DEF WriteOut, Space
  <2>4. FirstWords(cursor') \in Seq(0 .. EVENTS)
    BY <2>3, FirstWordsProperties
  <2>5. file' \in Seq(0 .. EVENTS)
    BY <1>0, <1>9, <2>4, ConcatProperties DEF WriteOut
  <2>6. UNCHANGED <<opened, overage, buf, events, my_cursor, returned, text>>
    BY <1>9 DEF WriteOut
  <2>. QED
    BY <1>0, <2>3, <2>5, <2>6 DEF Typed, opened, events
<1>10. CASE Reset(t)
  <2>1. cursor' \in Nat /\ overage' \in Nat /\ buf' \in [1 .. SIZE -> 0 .. EVENTS]
    BY <1>0, <1>10 DEF Reset
  <2>2. UNCHANGED <<opened, events, my_cursor, returned, output>>
    BY <1>10 DEF Reset
  <2>. QED
    BY <1>0, <2>1, <2>2 DEF Typed, opened, events, output
<1>11. CASE ReleaseExclusive(t)
  <2>1. my[t] \in 1 .. ids - 1 /\ my[t] \in 1 .. EVENTS
    BY <1>a, <1>11 DEF ReleaseExclusive, Goes
  <2>2. UNCHANGED <<opened, counters, ids, event, output>>
    BY <1>11 DEF ReleaseExclusive
  <2>3. my' \in [Thread -> 0 .. EVENTS] /\ returned' \subseteq 1 .. ids - 1
    BY <1>0, <1>11, <2>1, ReturnsProperties DEF ReleaseExclusive
  <2>4. my_cursor' \in [Thread -> Nat \union {NULL}]
    BY <1>0, <1>11 DEF ReleaseExclusive
  <2>. QED
    BY <1>0, <2>2, <2>3, <2>4 DEF Typed, opened, counters, output
<1>. QED
  BY <1>1, <1>2, <1>3, <1>4, <1>5, <1>6, <1>7, <1>8, <1>9, <1>10, <1>11 DEF Acts, Step

\* A step of a thread traces an event, returns, or is one in between.
Returning(t) ==
  /\ pc[t] # "idle" /\ pc'[t] = "idle" /\ my_cursor'[t] = NULL
  /\ Returns(t) /\ UNCHANGED <<ids, event>>

Staying(t) ==
  /\ pc[t] # "idle" /\ pc'[t] # "idle" /\ UNCHANGED <<ids, event, my, returned>>
  /\ pc'[t] \in {"write", "release"} => my_cursor'[t] # NULL
  /\ my_cursor'[t] # NULL =>
       pc'[t] \in {"write", "release", "request", "take", "flush", "reset", "unlock"}

LEMMA ThreeKinds ==
  ASSUME IInv, Typed, Traced, NEW t \in Thread, Step(t)
  PROVE  Returning(t) \/ Staying(t)
<1>. USE NullAssumption
<1>0. /\ pc \in [Thread -> Where] /\ my_cursor \in [Thread -> Nat \union {NULL}] /\ cursor \in Nat
      /\ pc[t] \in {"write", "release"} => my_cursor[t] # NULL
      /\ my_cursor[t] # NULL =>
           pc[t] \in {"write", "release", "request", "take", "flush", "reset", "unlock"}
  BY DEF IInv, LockTypes, Typed, Traced
<1>1. CASE GetTraceFile(t)
  <2>1. /\ pc[t] = "open" /\ pc'[t] \in {"acquire", "print"}
        /\ UNCHANGED <<ids, event, my, returned, my_cursor>>
    BY <1>0, <1>1 DEF GetTraceFile, Goes, events
  <2>. QED
    BY <1>0, <2>1 DEF Staying
<1>2. CASE PrintText(t)
  BY <1>0, <1>2 DEF PrintText, Goes, Returning
<1>3. CASE AcquireShared(t) \/ AddOverage(t) \/ BackOut(t)
  BY <1>0, <1>3 DEF AcquireShared, AddOverage, BackOut, Goes, Staying, events
<1>4. CASE ClaimSpace(t)
  BY <1>0, <1>4 DEF ClaimSpace, Goes, Staying, events
<1>5. CASE WritePacket(t) \/ RequestExclusive(t) \/ WriteOut(t) \/ Reset(t)
  BY <1>0, <1>5 DEF WritePacket, RequestExclusive, WriteOut, Reset, Goes, Staying, events
<1>6. CASE ReleasePacket(t)
  BY <1>0, <1>6 DEF ReleasePacket, Goes, Staying, Returning
<1>7. CASE TakeExclusive(t)
  BY <1>0, <1>7 DEF TakeExclusive, Retry, Goes, Staying, events
<1>8. CASE ReleaseExclusive(t)
  BY <1>0, <1>8 DEF ReleaseExclusive, Goes, Staying, Returning
<1>. QED
  BY <1>1, <1>2, <1>3, <1>4, <1>5, <1>6, <1>7, <1>8 DEF Step

\* Ids are given out once.
LEMMA TracedKept ==
  ASSUME IInv, Typed, Traced, NEW t \in Thread, Acts(t)
  PROVE  Traced'
<1>. USE NullAssumption
<1>0. /\ Elsewhere(t) /\ ids \in Nat /\ ids >= 1 /\ my \in [Thread -> 0 .. EVENTS]
      /\ returned \subseteq 1 .. ids - 1
  BY OthersStay, EventsAssumption DEF IInv, Typed
<1>1. ASSUME NEW kind \in Kinds, Trace(t, kind) PROVE Traced'
  <2>1. /\ pc[t] = "idle" /\ pc'[t] = "open" /\ my'[t] = ids /\ ids' = ids + 1
        /\ my_cursor' = my_cursor /\ returned' = returned /\ ids \in Nat /\ ids >= 1
        /\ event'[ids].after = returned
        /\ \A id \in 1 .. ids - 1 : event'[id] = event[id]
    BY <1>0, <1>1, TraceProperties DEF Trace, EventsGrow
  <2>2. \A u \in Thread : IF pc'[u] = "idle" THEN my'[u] = 0
                          ELSE my'[u] \in 1 .. ids' - 1 /\ my'[u] \notin returned'
    <3>1. my'[t] \in 1 .. ids' - 1 /\ my'[t] \notin returned'
      BY <1>0, <2>1
    <3>. QED
      BY <1>0, <2>1, <3>1 DEF Traced, Elsewhere
  <2>3. \A u, v \in Thread : pc'[u] # "idle" /\ pc'[v] # "idle" /\ my'[u] = my'[v] => u = v
    BY <1>0, <2>1 DEF Traced, Elsewhere
  <2>4. \A id \in 1 .. ids' - 1 : event'[id].after \subseteq returned'
    BY <2>1 DEF Traced
  <2>5. \A u \in Thread :
       /\ pc'[u] \in {"write", "release"} => my_cursor'[u] # NULL
       /\ my_cursor'[u] # NULL =>
            pc'[u] \in {"write", "release", "request", "take", "flush", "reset", "unlock"}
    BY <1>0, <2>1 DEF Traced, Elsewhere
  <2>. QED
    BY <2>2, <2>3, <2>4, <2>5 DEF Traced
<1>2. CASE Returning(t)
  <2>1. my[t] \in 1 .. ids - 1
    BY <1>2 DEF Traced, Returning
  <2>2. /\ my'[t] = 0 /\ returned' = returned \union {my[t]} /\ UNCHANGED <<ids, event>>
        /\ pc[t] # "idle" /\ pc'[t] = "idle" /\ my_cursor'[t] = NULL
    BY <1>2, <2>1, ReturnsProperties DEF Returning
  <2>. QED
    BY <1>0, <2>1, <2>2 DEF Traced, Elsewhere
<1>3. CASE Staying(t)
  BY <1>0, <1>3 DEF Traced, Elsewhere, Staying
<1>. QED
  BY <1>1, <1>2, <1>3, ThreeKinds DEF Acts

\* The trace has one output.
LEMMA OneOutputKept ==
  ASSUME Usage, IInv, Typed, Traced, OneOutput, NEW t \in Thread, Acts(t)
  PROVE  OneOutput'
<1>0. Elsewhere(t) /\ trace_file \in {Unset, Stdout, File} /\ trace_buffer \in BOOLEAN
  BY OthersStay DEF IInv, LockTypes, Typed
<1>. USE DEF Unset, Stdout, File
<1>1. ASSUME NEW kind \in Kinds, Trace(t, kind) PROVE OneOutput'
  <2>1. /\ pc[t] = "idle" /\ pc'[t] = "open"
        /\ UNCHANGED <<trace_file, trace_buffer, cursor, overage, returned, text>>
    BY <1>1, TraceProperties DEF Trace, opened, counters, output
  <2>. QED
    BY <1>0, <2>1 DEF OneOutput, Elsewhere, Recording
<1>2. CASE GetTraceFile(t)
  <2>1. /\ pc[t] = "open" /\ pc'[t] = IF trace_file' = File THEN "acquire" ELSE "print"
        /\ UNCHANGED <<cursor, overage, returned, text>>
    BY <1>2, CountersKept DEF GetTraceFile, Goes, output, IInv, LockTypes
  <2>2. /\ trace_file' \in {Stdout, File}
        /\ trace_file # Unset => trace_file' = trace_file
        /\ trace_buffer' => trace_file' = File
    BY <1>0, <1>2, Zenon DEF GetTraceFile, OneOutput
  <2>3. \A u \in Thread : /\ pc'[u] = "print" => trace_file' = Stdout
                          /\ Recording(u)' => trace_file' = File
    BY <1>0, <2>1, <2>2 DEF OneOutput, Elsewhere, Recording
  <2>4. trace_file' # Stdout => trace_file # Stdout
    BY <1>0, <2>2
  <2>. QED
    BY <2>1, <2>2, <2>3, <2>4 DEF OneOutput
<1>3. CASE PrintText(t)
  <2>1. pc[t] = "print" /\ pc'[t] = "idle" /\ text' = Append(text, my[t])
        /\ UNCHANGED <<trace_file, trace_buffer, cursor, overage>>
        /\ returned' = returned \union {my[t]}
    BY <1>3 DEF PrintText, Goes, opened, counters, Returns, IInv, LockTypes
  <2>2. trace_file = Stdout
    BY <2>1 DEF OneOutput
  <2>3. my[t] \in 1 .. EVENTS
    BY <2>1, EventTypes DEF Traced
  <2>4. /\ Len(text') = Len(text) + 1 /\ text'[Len(text) + 1] = my[t] /\ Len(text) \in Nat
        /\ \A i \in 1 .. Len(text) : text'[i] = text[i]
    BY <2>1, <2>3, AppendProperties, LenProperties DEF Typed
  <2>5. \A i \in 1 .. Len(text') : text'[i] \in returned'
    BY <2>1, <2>4 DEF OneOutput
  <2>6. \A u \in Thread : /\ pc'[u] = "print" => trace_file' = Stdout
                          /\ Recording(u)' => trace_file' = File
    BY <1>0, <2>1 DEF OneOutput, Elsewhere, Recording
  <2>. QED
    BY <2>1, <2>2, <2>5, <2>6 DEF OneOutput
<1>4. ASSUME Step(t), ~GetTraceFile(t), ~PrintText(t) PROVE OneOutput'
  <2>1. /\ UNCHANGED <<opened, text>> /\ Recording(t)
        /\ pc'[t] # "print" /\ returned \subseteq returned'
    BY <1>4 DEF Step, AcquireShared, ClaimSpace, AddOverage, BackOut, WritePacket, ReleasePacket,
                RequestExclusive, TakeExclusive, Retry, WriteOut, Reset, ReleaseExclusive, Goes, events,
                output, Recording, Returns, IInv, LockTypes
  <2>2. trace_file = File
    BY <2>1 DEF OneOutput
  <2>. QED
    BY <1>0, <2>1, <2>2 DEF OneOutput, Elsewhere, Recording, opened
<1>. QED
  BY <1>1, <1>2, <1>3, <1>4 DEF Acts

\* A text is printed after the texts that returned before its call was made.
LEMMA TextOrderedKept ==
  ASSUME PInv, NEW t \in Thread, Acts(t)
  PROVE  TextOrdered'
<1>. IInv /\ LockTypes /\ Typed /\ Traced /\ OneOutput /\ TextOrdered
  BY DEF PInv, IInv
<1>0. /\ EventsGrow /\ \A i \in 1 .. Len(text) : text[i] \in returned /\ text[i] \in 1 .. ids - 1
      /\ Len(text) \in Nat
  BY EventsStay, LenProperties DEF OneOutput, Typed
<1>1. CASE UNCHANGED text
  <2>1. \A i \in 1 .. Len(text) : event'[text[i]] = event[text[i]]
    BY <1>0 DEF EventsGrow
  <2>2. \A i \in 1 .. Len(text) : event'[text'[i]] = event[text[i]]
    BY <1>1, <2>1
  <2>. SUFFICES ASSUME NEW i \in 1 .. Len(text), NEW p \in (event'[text'[i]]).after,
                       \E j \in 1 .. Len(text) : text[j] = p
       PROVE  \E j \in 1 .. i - 1 : text[j] = p
    BY <1>1 DEF TextOrdered
  <2>3. p \in event[text[i]].after
    BY <2>2
  <2>. QED
    BY <2>3 DEF TextOrdered
<1>2. CASE PrintText(t)
  <2>1. pc[t] = "print" /\ text' = Append(text, my[t]) /\ UNCHANGED event
    BY <1>2 DEF PrintText, Goes
  <2>2. my[t] \in 1 .. EVENTS /\ my[t] \in 1 .. ids - 1 /\ my[t] \notin returned
    BY <2>1, EventTypes DEF Traced
  <2>3. /\ Len(text') = Len(text) + 1 /\ text'[Len(text) + 1] = my[t]
        /\ \A i \in 1 .. Len(text) : text'[i] = text[i]
    BY <2>1, <2>2, AppendProperties DEF Typed
  <2>. SUFFICES ASSUME NEW i \in 1 .. Len(text'), NEW p \in (event'[text'[i]]).after,
                       \E j \in 1 .. Len(text') : text'[j] = p
       PROVE  \E k \in 1 .. i - 1 : text'[k] = p
    BY DEF TextOrdered
  <2>a. p \in event[text'[i]].after
    BY <2>1
  <2>b. PICK j \in 1 .. Len(text') : text'[j] = p
    OBVIOUS
  <2>4. text'[i] \in 1 .. ids - 1
    BY <1>0, <2>2, <2>3
  <2>5. p \in returned
    BY <2>4, <2>a DEF Traced
  <2>6. j \in 1 .. Len(text) /\ text[j] = p
    BY <1>0, <2>2, <2>3, <2>5, <2>b
  <2>7. CASE i = Len(text) + 1
    BY <1>0, <2>3, <2>6, <2>7
  <2>8. CASE i \in 1 .. Len(text)
    <3>1. PICK k \in 1 .. i - 1 : text[k] = p
      <4>1. p \in event[text[i]].after
        BY <2>3, <2>8, <2>a
      <4>. QED
        BY <2>6, <2>8, <4>1 DEF TextOrdered
    <3>. QED
      BY <1>0, <2>3, <2>8, <3>1
  <2>. QED
    BY <1>0, <2>3, <2>7, <2>8
<1>3. UNCHANGED text \/ PrintText(t)
  BY DEF Acts, Step, Trace, GetTraceFile, AcquireShared, ClaimSpace, AddOverage, BackOut, WritePacket,
         ReleasePacket, RequestExclusive, TakeExclusive, WriteOut, Reset, ReleaseExclusive, output
<1>. QED
  BY <1>1, <1>2, <1>3

-----------------------------------------------------------------------------
(***************************************************************************)
(* The log of the words.                                                   *)
(***************************************************************************)
\* Only traced events are sent, or are being written.
LEMMA SentTraced ==
  ASSUME Typed, Traced
  PROVE  Sent \subseteq 1 .. ids - 1 /\ Pending \subseteq 1 .. ids - 1
<1>1. \A t \in Thread : my_cursor[t] # NULL => my[t] \in 1 .. ids - 1
  BY DEF Traced
<1>2. \A t \in Thread : pc[t] = "write" => my[t] \in 1 .. ids - 1
  BY DEF Traced
<1>. QED
  BY <1>1, <1>2 DEF Typed, Sent, Pending

\* A thread that is not writing, before or after its step, changes nothing in
\* what is being written.
LEMMA PendingSame ==
  ASSUME NEW t \in Thread, Elsewhere(t), pc[t] # "write", pc'[t] # "write"
  PROVE  /\ Pending' = Pending
         /\ \A u \in Thread : pc'[u] = "write" =>
              pc[u] = "write" /\ my'[u] = my[u] /\ my_cursor'[u] = my_cursor[u]
BY DEF Pending, Elsewhere

LEMMA UnnotedSame ==
  ASSUME Traced, EventsGrow, NEW t \in Thread, Elsewhere(t), pc[t] # "over", pc'[t] # "over"
  PROVE  Unnoted' = Unnoted
<1>1. \A u \in Thread : pc[u] = "over" => PacketSize(my[u])' = PacketSize(my[u])
  BY DEF Traced, EventsGrow, PacketSize, Elsewhere
<1>2. \A u \in Thread : pc'[u] = "over" <=> pc[u] = "over"
  BY DEF Elsewhere
<1>. QED
  BY <1>1, <1>2 DEF Unnoted

LEMMA ResettingSame ==
  ASSUME NEW t \in Thread, Elsewhere(t), pc[t] # "reset", pc'[t] # "reset"
  PROVE  Resetting' = Resetting
<1>1. \A u \in Thread : pc'[u] = "reset" <=> pc[u] = "reset"
  BY DEF Elsewhere
<1>. QED
  BY <1>1 DEF Resetting

HasFailed(t) == pc[t] \in {"over", "back_out", "request", "take", "flush", "reset"} /\ my_cursor[t] = NULL

LEMMA FailingSame ==
  ASSUME NEW t \in Thread, Elsewhere(t), HasFailed(t)' <=> HasFailed(t)
  PROVE  Failing' = Failing
BY DEF Failing, HasFailed, Elsewhere

\* The packet of a thread is in the log for good, or claimed only.
HasSent(t) == my_cursor[t] # NULL /\ pc[t] # "write"

LEMMA SentIs ==
  \A id : id \in Sent <=> \/ id \in returned /\ \A i \in 1 .. Len(text) : text[i] # id
                          \/ \E u \in Thread : HasSent(u) /\ my[u] = id
BY DEF Sent, HasSent

LEMMA SentSame ==
  ASSUME NEW t \in Thread, Elsewhere(t), UNCHANGED <<returned, text>>,
         HasSent(t)' <=> HasSent(t), HasSent(t) => my'[t] = my[t]
  PROVE  Sent' = Sent
<1>1. \A u \in Thread : (HasSent(u)' <=> HasSent(u)) /\ (HasSent(u) => my'[u] = my[u])
  BY DEF HasSent, Elsewhere
<1>. QED
  BY <1>1 DEF Sent, HasSent

\* The log is the same as long as what its words are about is.
LEMMA LogKept ==
  ASSUME PInv, Typed', EventsGrow, UNCHANGED file, Top' = Top, Sent' = Sent, Pending' = Pending,
         ~Resetting' => \/ ~Resetting /\ UNCHANGED buf
                        \/ Top = 0 /\ buf' = [i \in 1 .. SIZE |-> 0],
         \A u \in Thread : pc'[u] = "write" =>
           pc[u] = "write" /\ my'[u] = my[u] /\ my_cursor'[u] = my_cursor[u]
  PROVE  Logged'
<1>a. Typed /\ Traced
  BY DEF PInv
<1>b. Sent \subseteq 1 .. ids - 1 /\ Pending \subseteq 1 .. ids - 1
  BY <1>a, SentTraced
<1>d. ids \in 1 .. EVENTS + 1
  BY <1>a DEF Typed
<1>c. /\ ids \in Nat /\ ids' \in {ids, ids + 1}
      /\ \A id \in 1 .. ids - 1 : event'[id] = event[id]
  BY <1>d, EventsAssumption DEF EventsGrow
<1>0. /\ Typed /\ Traced /\ Sent \subseteq 1 .. ids - 1 /\ Pending \subseteq 1 .. ids - 1 /\ ids \in Nat
      /\ \A id \in 1 .. ids - 1 : event'[id] = event[id]
      /\ ids' \in {ids, ids + 1}
  BY <1>a, <1>b, <1>c
<1>1. PICK n \in Nat : \E log \in [1 .. n -> 1 .. ids - 1] : LogOf(log, n)
  BY DEF PInv, Logged
<1>2. PICK log \in [1 .. n -> 1 .. ids - 1] : LogOf(log, n)
  BY <1>1
<1>3. log \in [1 .. n -> 1 .. ids' - 1]
  BY <1>0, <1>2
<1>4. \A id \in 1 .. ids - 1 : \A k \in Nat : Block(k, id)' = Block(k, id)
  BY <1>0 DEF Block, PacketSize
<1>5. \A id : Occurs(log, n, id)' = Occurs(log, n, id)
  BY DEF Occurs
<1>6. LogOf(log, n)'
  <2>1. n = Len(file') + Top' /\ \A i \in 1 .. Len(file') : log[i] = file'[i]
    BY <1>2 DEF LogOf
  <2>2. ~Resetting' => \A k \in 1 .. SIZE :
          buf'[k] = IF k <= Top' /\ log[Len(file') + k] \notin Pending' THEN log[Len(file') + k] ELSE 0
    <3>1. CASE ~Resetting /\ UNCHANGED buf
      BY <1>2, <3>1 DEF LogOf
    <3>2. CASE Top = 0 /\ buf' = [i \in 1 .. SIZE |-> 0]
      BY <3>2, SizeAssumption
    <3>. QED
      BY <3>1, <3>2
  <2>3. \A i \in 1 .. n : log[i] \in Sent' \union Pending'
    BY <1>2 DEF LogOf
  <2>4. \A id \in Sent' : \E k \in Nat : Occurs(log, n, id)' = Block(k, id)'
    BY <1>0, <1>2, <1>4, <1>5 DEF LogOf
  <2>5. \A u \in Thread : pc'[u] = "write" =>
          Occurs(log, n, my[u])' = Block(Len(file) + my_cursor[u], my[u])'
    <3>. SUFFICES ASSUME NEW u \in Thread, pc'[u] = "write"
         PROVE  Occurs(log, n, my[u])' = Block(Len(file) + my_cursor[u], my[u])'
      OBVIOUS
    <3>1. pc[u] = "write" /\ my'[u] = my[u] /\ my_cursor'[u] = my_cursor[u]
      OBVIOUS
    <3>2. Occurs(log, n, my[u]) = Block(Len(file) + my_cursor[u], my[u]) /\ my[u] \in 1 .. ids - 1
      BY <1>0, <1>2, <3>1 DEF LogOf, Traced
    <3>3. Occurs(log, n, my[u])' = Occurs(log, n, my[u])
      BY <3>1 DEF Occurs
    <3>4. PacketSize(my[u])' = PacketSize(my[u])
      BY <1>0, <3>1, <3>2 DEF PacketSize
    <3>5. Block(Len(file) + my_cursor[u], my[u])' = Block(Len(file) + my_cursor[u], my[u])
      BY <3>1, <3>4 DEF Block
    <3>. QED
      BY <3>2, <3>3, <3>5
  <2>6. \A i \in 1 .. n : \A p \in event'[log[i]].after : \E j \in 1 .. i - 1 : log[j] = p
    <3>1. \A i \in 1 .. n : event'[log[i]] = event[log[i]]
      BY <1>0, <1>2
    <3>2. \A i \in 1 .. n : \A p \in event[log[i]].after : \E j \in 1 .. i - 1 : log[j] = p
      BY <1>2 DEF LogOf
    <3>. QED
      BY <3>1, <3>2
  <2>. QED
    BY <2>1, <2>2, <2>3, <2>4, <2>5, <2>6 DEF LogOf
<1>. QED
  BY <1>1, <1>3, <1>6 DEF Logged

\* A step that neither claims space, nor writes, nor flushes.
Quiet(t) ==
  /\ UNCHANGED <<cursor, overage, buf, file>>
  /\ pc[t] \notin {"over", "write", "reset"} /\ pc'[t] \notin {"over", "write", "reset"}
  /\ HasFailed(t)' <=> HasFailed(t)
  /\ Sent' = Sent

LEMMA QuietKept ==
  ASSUME PInv, Typed', EventsGrow, NEW t \in Thread, Elsewhere(t), Quiet(t)
  PROVE  Space' /\ Logged'
<1>0. /\ UNCHANGED <<cursor, overage, buf, file>> /\ Sent' = Sent
      /\ pc[t] \notin {"over", "write", "reset"} /\ pc'[t] \notin {"over", "write", "reset"}
      /\ HasFailed(t)' <=> HasFailed(t)
      /\ Traced /\ Space
  BY DEF Quiet, PInv
<1>1. Unnoted' = Unnoted
  BY <1>0, UnnotedSame
<1>2. Resetting' = Resetting
  BY <1>0, ResettingSame
<1>3. Failing' = Failing
  BY <1>0, FailingSame
<1>4. /\ Pending' = Pending
      /\ \A u \in Thread : pc'[u] = "write" =>
           pc[u] = "write" /\ my'[u] = my[u] /\ my_cursor'[u] = my_cursor[u]
  BY <1>0, PendingSame
<1>5. Lost' = Lost
  BY <1>0, <1>1 DEF Lost
<1>6. Top' = Top
  BY <1>0, <1>2, <1>5 DEF Top
<1>7. Space'
  BY <1>0, <1>2, <1>3, <1>5 DEF Space
<1>8. Logged'
  BY <1>0, <1>2, <1>4, <1>6, LogKept
<1>. QED
  BY <1>7, <1>8

\* When a call returns its packet, or its text, is what it was.
LEMMA SentReturned ==
  ASSUME PInv, NEW t \in Thread, Elsewhere(t), Returning(t), HasSent(t), UNCHANGED text
  PROVE  Sent' = Sent
<1>1. my[t] \notin returned /\ \A i \in 1 .. Len(text) : text[i] # my[t]
  BY DEF PInv, Traced, Returning, OneOutput
<1>2. returned' = returned \union {my[t]} /\ ~HasSent(t)'
  BY DEF Returning, Returns, HasSent
<1>3. \A u \in Thread : u # t => (HasSent(u)' <=> HasSent(u)) /\ my'[u] = my[u]
  BY DEF HasSent, Elsewhere
<1>4. ASSUME NEW id PROVE id \in Sent' <=> id \in Sent
  <2>1. id \in Sent' <=> \/ id \in returned' /\ \A i \in 1 .. Len(text) : text[i] # id
                         \/ \E u \in Thread : HasSent(u)' /\ my'[u] = id
    BY DEF Sent, HasSent
  <2>2. id \in Sent <=> \/ id \in returned /\ \A i \in 1 .. Len(text) : text[i] # id
                        \/ \E u \in Thread : HasSent(u) /\ my[u] = id
    BY SentIs
  <2>. QED
    BY <1>1, <1>2, <1>3, <2>1, <2>2, Zenon
<1>. QED
  BY <1>4, Zenon

LEMMA SentPrinted ==
  ASSUME PInv, NEW t \in Thread, Elsewhere(t), PrintText(t)
  PROVE  Sent' = Sent
<1>. LockTypes /\ Typed /\ Traced
  BY DEF PInv, IInv
<1>0. /\ pc[t] = "print" /\ pc'[t] = "idle" /\ text' = Append(text, my[t]) /\ Returns(t)
      /\ UNCHANGED my_cursor
  BY DEF PrintText, Goes, LockTypes
<1>1. my[t] \in 1 .. EVENTS /\ my[t] \notin returned
  BY <1>0, EventTypes DEF Traced
<1>2. /\ Len(text') = Len(text) + 1 /\ text'[Len(text) + 1] = my[t] /\ Len(text) \in Nat
      /\ \A i \in 1 .. Len(text) : text'[i] = text[i]
  BY <1>0, <1>1, AppendProperties, LenProperties DEF Typed
<1>3. returned' = returned \union {my[t]}
  BY <1>0 DEF Returns
<1>4. ~HasSent(t) /\ ~HasSent(t)'
  BY <1>0 DEF HasSent, Traced
<1>5. \A u \in Thread : (HasSent(u)' <=> HasSent(u)) /\ (HasSent(u) => my'[u] = my[u])
  BY <1>4 DEF HasSent, Elsewhere
<1>6. \A id : id \in returned /\ (\A i \in 1 .. Len(text) : text[i] # id)
                <=> id \in returned' /\ \A i \in 1 .. Len(text') : text'[i] # id
  BY <1>1, <1>2, <1>3
<1>7. ASSUME NEW id PROVE id \in Sent' <=> id \in Sent
  <2>1. id \in Sent' <=> \/ id \in returned' /\ \A i \in 1 .. Len(text') : text'[i] # id
                         \/ \E u \in Thread : HasSent(u)' /\ my'[u] = id
    BY DEF Sent, HasSent
  <2>2. id \in Sent <=> \/ id \in returned /\ \A i \in 1 .. Len(text) : text[i] # id
                        \/ \E u \in Thread : HasSent(u) /\ my[u] = id
    BY SentIs
  <2>. QED
    BY <1>5, <1>6, <2>1, <2>2, Zenon
<1>. QED
  BY <1>7, Zenon

\* The steps that leave the words alone.
LEMMA QuietSteps ==
  ASSUME Usage, PInv, NEW t \in Thread, Acts(t),
         ~ClaimSpace(t), ~AddOverage(t), ~WritePacket(t), ~WriteOut(t), ~Reset(t)
  PROVE  Quiet(t)
<1>. IInv /\ LockTypes /\ Typed /\ Traced /\ OneOutput
  BY DEF PInv, IInv
<1>0. /\ Elsewhere(t) /\ pc \in [Thread -> Where]
      /\ my_cursor \in [Thread -> Nat \union {NULL}]
      /\ pc[t] \in {"write", "release"} => my_cursor[t] # NULL
      /\ my_cursor[t] # NULL =>
           pc[t] \in {"write", "release", "request", "take", "flush", "reset", "unlock"}
  BY OthersStay DEF LockTypes, Typed, Traced
<1>1. ASSUME NEW kind \in Kinds, Trace(t, kind) PROVE Quiet(t)
  <2>1. /\ UNCHANGED <<cursor, overage, buf, file, returned, text>>
        /\ pc[t] = "idle" /\ pc'[t] = "open" /\ my_cursor' = my_cursor
    BY <1>1, TraceProperties DEF Trace, counters, output
  <2>. QED
    BY <1>0, <2>1, SentSame DEF Quiet, HasFailed, HasSent
<1>2. CASE GetTraceFile(t)
  <2>1. /\ UNCHANGED <<cursor, overage, buf, file, returned, text>>
        /\ pc[t] = "open" /\ pc'[t] \in {"acquire", "print"} /\ UNCHANGED <<my, my_cursor>>
    BY <1>0, <1>2, CountersKept DEF GetTraceFile, Goes, output, events
  <2>. QED
    BY <1>0, <2>1, SentSame DEF Quiet, HasFailed, HasSent
<1>3. CASE PrintText(t)
  <2>1. /\ UNCHANGED <<cursor, overage, buf, file>>
        /\ pc[t] = "print" /\ pc'[t] = "idle" /\ UNCHANGED my_cursor
    BY <1>0, <1>3 DEF PrintText, Goes, counters
  <2>2. Sent' = Sent
    BY <1>0, <1>3, SentPrinted
  <2>. QED
    BY <2>1, <2>2 DEF Quiet, HasFailed
<1>4. CASE AcquireShared(t) \/ BackOut(t) \/ RequestExclusive(t)
  <2>1. /\ UNCHANGED <<cursor, overage, buf, file, returned, text, my, my_cursor>>
        /\ \/ pc[t] = "acquire" /\ pc'[t] = "claim"
           \/ pc[t] = "back_out" /\ pc'[t] = "request"
           \/ pc[t] = "request" /\ pc'[t] = "take"
    BY <1>0, <1>4 DEF AcquireShared, BackOut, RequestExclusive, Goes, output, events, counters
  <2>. QED
    BY <1>0, <2>1, SentSame DEF Quiet, HasFailed, HasSent
<1>5. CASE TakeExclusive(t)
  <2>1. /\ UNCHANGED <<cursor, overage, buf, file, returned, text, my, my_cursor>>
        /\ pc[t] = "take" /\ pc'[t] \in {"flush", "request"}
    BY <1>0, <1>5 DEF TakeExclusive, Retry, Goes, output, events, counters
  <2>. QED
    BY <1>0, <2>1, SentSame DEF Quiet, HasFailed, HasSent
<1>6. CASE ReleasePacket(t)
  <2>1. UNCHANGED <<cursor, overage, buf, file, text>> /\ pc[t] = "release"
    BY <1>0, <1>6 DEF ReleasePacket, Goes, counters, output
  <2>2. CASE Ends(my[t])
    <3>1. pc'[t] = "request" /\ UNCHANGED <<returned, my, my_cursor>>
      BY <1>0, <1>6, <2>2 DEF ReleasePacket, Goes
    <3>. QED
      BY <1>0, <2>1, <3>1, SentSame DEF Quiet, HasFailed, HasSent
  <2>3. CASE ~Ends(my[t])
    <3>1. pc'[t] = "idle" /\ Returning(t)
      BY <1>0, <1>6, <2>3 DEF ReleasePacket, Goes, Returning
    <3>2. Sent' = Sent
      BY <1>0, <2>1, <3>1, SentReturned DEF HasSent
    <3>. QED
      BY <1>0, <2>1, <3>1, <3>2 DEF Quiet, HasFailed
  <2>. QED
    BY <2>2, <2>3
<1>7. CASE ReleaseExclusive(t)
  <2>1. UNCHANGED <<cursor, overage, buf, file, text>> /\ pc[t] = "unlock"
    BY <1>0, <1>7 DEF ReleaseExclusive, Goes, counters, output
  <2>2. CASE my_cursor[t] = NULL
    <3>1. pc'[t] = "acquire" /\ UNCHANGED <<returned, my>> /\ my_cursor'[t] = NULL
      BY <1>0, <1>7, <2>2 DEF ReleaseExclusive, Goes
    <3>. QED
      BY <1>0, <2>1, <2>2, <3>1, SentSame DEF Quiet, HasFailed, HasSent
  <2>3. CASE my_cursor[t] # NULL
    <3>1. pc'[t] = "idle" /\ Returning(t)
      BY <1>0, <1>7, <2>3 DEF ReleaseExclusive, Goes, Returning
    <3>2. Sent' = Sent
      BY <1>0, <2>1, <2>3, <3>1, SentReturned DEF HasSent
    <3>. QED
      BY <1>0, <2>1, <2>3, <3>1, <3>2 DEF Quiet, HasFailed
  <2>. QED
    BY <2>2, <2>3
<1>. QED
  BY <1>1, <1>2, <1>3, <1>4, <1>5, <1>6, <1>7 DEF Acts, Step

\* Noting what a request added to the cursor changes nothing in how much was lost.
LEMMA NotingKept ==
  ASSUME PInv, Typed', NEW t \in Thread, AddOverage(t)
  PROVE  Space' /\ Logged'
<1>. IInv /\ LockTypes /\ Typed /\ Traced /\ Space
  BY DEF PInv, IInv
<1>0. /\ pc[t] = "over" /\ pc'[t] = "back_out" /\ overage' = overage + PacketSize(my[t])
      /\ UNCHANGED <<cursor, buf, ids, event, my, my_cursor, returned, output>>
  BY DEF AddOverage, Goes, Noted, LockTypes, events
<1>1. Elsewhere(t) /\ EventsGrow
  BY OthersStay, EventsStay DEF Acts, Step
<1>. DEFINE n == PacketSize(my[t])
            block == {t} \X (1 .. n)
<1>2. n \in 1 .. SIZE /\ n \in Nat /\ my[t] \in 1 .. ids - 1
  BY <1>0, EventTypes, SizeAssumption DEF Traced
<1>3. ~Resetting /\ Resetting' = Resetting
  BY <1>0, <1>1, Together, ResettingSame DEF Sharing
<1>4. Cardinality(Unnoted') = Cardinality(Unnoted) - n
  <2>1. block \subseteq Unnoted
    BY <1>0, <1>2, SizeAssumption DEF Unnoted
  <2>2. Unnoted' = Unnoted \ block
    <3>1. \A u \in Thread : u # t => (pc'[u] = "over" <=> pc[u] = "over")
      BY <1>1 DEF Elsewhere
    <3>2. \A u \in Thread : PacketSize(my[u])' = PacketSize(my[u])
      BY <1>0 DEF PacketSize
    <3>. QED
      BY <1>0, <3>1, <3>2 DEF Unnoted
  <2>3. Unnoted \cap block = block /\ Cardinality(block) = n
    BY <1>2, <2>1, OneRequest
  <2>4. Cardinality(Unnoted \ block) = Cardinality(Unnoted) - Cardinality(Unnoted \cap block)
    BY Countable, FS_Difference
  <2>. QED
    BY <2>2, <2>3, <2>4
<1>5. Lost' = Lost
  BY <1>0, <1>2, <1>4, Countable DEF Lost, Typed
<1>6. Failing' = Failing
  BY <1>0, <1>1, FailingSame DEF HasFailed
<1>7. Top' = Top
  BY <1>0, <1>3, <1>5 DEF Top
<1>8. Space'
  BY <1>0, <1>3, <1>5, <1>6 DEF Space
<1>9. Sent' = Sent
  BY <1>0, <1>1, SentSame DEF HasSent, output
<1>10. /\ Pending' = Pending
       /\ \A u \in Thread : pc'[u] = "write" =>
            pc[u] = "write" /\ my'[u] = my[u] /\ my_cursor'[u] = my_cursor[u]
  BY <1>0, <1>1, PendingSame
<1>11. Logged'
  BY <1>0, <1>1, <1>3, <1>7, <1>9, <1>10, LogKept DEF output
<1>. QED
  BY <1>8, <1>11

\* A request that fails adds to the cursor what it notes later: the words that
\* were claimed stay the same.
LEMMA FailingKept ==
  ASSUME PInv, Typed', NEW t \in Thread, ClaimSpace(t), ~Fits(cursor, PacketSize(my[t]))
  PROVE  Space' /\ Logged'
<1>. IInv /\ LockTypes /\ Typed /\ Traced /\ Space
  BY DEF PInv, IInv
<1>. DEFINE n == PacketSize(my[t])
            block == {t} \X (1 .. n)
<1>0. /\ pc[t] = "claim" /\ pc'[t] = "over" /\ cursor' = cursor + n /\ my_cursor'[t] = NULL
      /\ UNCHANGED <<overage, buf, ids, event, my, returned, output>>
  BY DEF ClaimSpace, Goes, LockTypes, Typed, events
<1>1. Elsewhere(t) /\ EventsGrow
  BY OthersStay, EventsStay DEF Acts, Step
<1>a. cursor \in Nat /\ overage \in Nat /\ SIZE \in Nat /\ SIZE > 0
  BY SizeAssumption DEF Typed
<1>b. n \in 1 .. SIZE /\ my[t] \in 1 .. ids - 1
  BY <1>0, EventTypes DEF Traced
<1>2. n \in 1 .. SIZE /\ n \in Nat /\ my[t] \in 1 .. ids - 1 /\ cursor + n > SIZE
  BY <1>a, <1>b DEF Fits
<1>3. ~Resetting /\ Resetting' = Resetting
  BY <1>0, <1>1, Together, ResettingSame DEF Sharing
<1>4. Cardinality(Unnoted') = Cardinality(Unnoted) + n
  <2>1. Unnoted \cap block = {}
    BY <1>0 DEF Unnoted
  <2>2. Unnoted' = Unnoted \union block
    <3>1. \A u \in Thread : u # t => (pc'[u] = "over" <=> pc[u] = "over")
      BY <1>1 DEF Elsewhere
    <3>2. \A u \in Thread : PacketSize(my[u])' = PacketSize(my[u])
      BY <1>0 DEF PacketSize
    <3>3. \A k : k \in 1 .. SIZE /\ k <= n <=> k \in 1 .. n
      BY <1>2, SizeAssumption
    <3>. QED
      BY <1>0, <3>1, <3>2, <3>3 DEF Unnoted
  <2>3. Cardinality(block) = n /\ IsFiniteSet(block)
    BY <1>2, OneRequest
  <2>4. Cardinality(Unnoted') = Cardinality(Unnoted) + n - 0
    BY <2>1, <2>2, <2>3, Countable, FS_Union, FS_EmptySet
  <2>. QED
    BY <2>4, <1>2, Countable
<1>5. Lost' = Lost + n /\ Lost \in Nat /\ Lost' \in Nat
  BY <1>0, <1>a, <1>2, <1>4, Countable DEF Lost
<1>6. Cardinality(Failing') = Cardinality(Failing) + 1
  <2>1. t \notin Failing /\ Failing' = Failing \union {t}
    BY <1>0, <1>1 DEF Failing, Elsewhere
  <2>. QED
    BY <2>1, Countable, FS_AddElement
<1>7. Top' = Top
  BY <1>0, <1>a, <1>2, <1>3, <1>5 DEF Top
<1>8. Space'
  <2>1. Lost' <= Cardinality(Failing') * SIZE
    <3>1. Lost <= Cardinality(Failing) * SIZE
      BY DEF Space
    <3>2. (Cardinality(Failing) + 1) * SIZE = Cardinality(Failing) * SIZE + SIZE
      BY Countable, SizeAssumption
    <3>. QED
      BY <1>2, <1>5, <1>6, <3>1, <3>2, Countable, SizeAssumption
  <2>2. /\ Lost' <= cursor' /\ cursor' - Lost' <= SIZE
        /\ cursor' > SIZE /\ cursor' > Lost'
    <3>1. /\ Lost <= cursor /\ cursor - Lost <= SIZE
          /\ Lost > 0 => cursor > SIZE /\ cursor > Lost
      BY <1>3 DEF Space
    <3>. QED
      BY <1>0, <1>a, <1>2, <1>5, <3>1
  <2>. QED
    BY <1>3, <2>1, <2>2 DEF Space
<1>9. Sent' = Sent
  BY <1>0, <1>1, SentSame DEF HasSent, output, Traced
<1>10. /\ Pending' = Pending
       /\ \A u \in Thread : pc'[u] = "write" =>
            pc[u] = "write" /\ my'[u] = my[u] /\ my_cursor'[u] = my_cursor[u]
  BY <1>0, <1>1, PendingSame
<1>11. Logged'
  BY <1>0, <1>1, <1>3, <1>7, <1>9, <1>10, LogKept DEF output
<1>. QED
  BY <1>8, <1>11

\* An event whose packet is not claimed yet is not in the log.
LEMMA NotLogged ==
  ASSUME Traced, NEW t \in Thread, pc[t] # "idle", pc[t] # "write", my_cursor[t] = NULL
  PROVE  my[t] \notin Sent /\ my[t] \notin Pending
<1>1. my[t] \notin returned
  BY DEF Traced
<1>2. \A u \in Thread : pc[u] # "idle" /\ my[u] = my[t] => u = t
  BY DEF Traced
<1>3. \A u \in Thread : my_cursor[u] # NULL => pc[u] # "idle"
  BY DEF Traced
<1>4. my[t] \notin Sent
  BY <1>1, <1>2, <1>3 DEF Sent
<1>5. my[t] \notin Pending
  BY <1>2 DEF Pending
<1>. QED
  BY <1>4, <1>5

\* A packet that is sent is somewhere in the log.
LEMMA SentOccurs ==
  ASSUME Typed, Traced, NEW n \in Nat, NEW log \in [1 .. n -> 1 .. ids - 1], LogOf(log, n), NEW id \in Sent
  PROVE  \E i \in 1 .. n : log[i] = id
<1>1. PICK k \in Nat : Occurs(log, n, id) = Block(k, id)
  BY DEF LogOf
<1>2. id \in 1 .. ids - 1
  BY SentTraced
<1>3. PacketSize(id) \in 1 .. SIZE
  BY <1>2, EventTypes
<1>4. k + 1 \in Block(k, id)
  BY <1>3, SizeAssumption DEF Block
<1>. QED
  BY <1>1, <1>4 DEF Occurs

\* A request that succeeds adds its packet's words at the end of the log.
LEMMA ClaimingKept ==
  ASSUME PInv, Typed', NEW t \in Thread, ClaimSpace(t), Fits(cursor, PacketSize(my[t]))
  PROVE  Space' /\ Logged'
<1>. IInv /\ LockTypes /\ Typed /\ Traced /\ Space /\ OneOutput
  BY DEF PInv, IInv
<1>. DEFINE size == PacketSize(my[t])
<1>0. /\ pc[t] = "claim" /\ pc'[t] = "write" /\ cursor' = cursor + size /\ my_cursor'[t] = cursor
      /\ UNCHANGED <<overage, buf, ids, event, my, returned, file, text>>
  BY DEF ClaimSpace, Goes, LockTypes, Typed, events, output
<1>1. Elsewhere(t) /\ EventsGrow
  BY OthersStay, EventsStay DEF Acts, Step
<1>a. cursor \in Nat /\ overage \in Nat /\ SIZE \in Nat /\ SIZE > 0 /\ Len(file) \in Nat
  BY SizeAssumption, LenProperties DEF Typed
<1>b. size \in 1 .. SIZE /\ my[t] \in 1 .. ids - 1
  BY <1>0, EventTypes DEF Traced
<1>2. size \in Nat /\ size > 0 /\ cursor + size <= SIZE
  BY <1>a, <1>b DEF Fits
<1>3. ~Resetting /\ Resetting' = Resetting
  BY <1>0, <1>1, Together, ResettingSame DEF Sharing
<1>4. Unnoted' = Unnoted
  BY <1>0, <1>1, UnnotedSame
<1>5. my_cursor[t] = NULL
  BY <1>0 DEF Traced
<1>6. Failing' = Failing
  BY <1>0, <1>1, FailingSame DEF HasFailed
<1>7. Lost \in Nat /\ Lost' = Lost
  BY <1>0, <1>a, <1>4, Countable DEF Lost
<1>8. Lost = 0
  <2>1. Lost > 0 => cursor > SIZE
    BY <1>3 DEF Space
  <2>. QED
    BY <1>a, <1>2, <1>7, <2>1
<1>9. Top = cursor /\ Top' = cursor + size
  BY <1>0, <1>a, <1>2, <1>3, <1>7, <1>8 DEF Top
<1>10. Space'
  <2>1. Lost' <= Cardinality(Failing') * SIZE
    BY <1>6, <1>7 DEF Space
  <2>. QED
    BY <1>0, <1>a, <1>2, <1>3, <1>7, <1>8, <2>1 DEF Space
<1>11. Sent' = Sent
  BY <1>0, <1>1, <1>5, SentSame DEF HasSent
<1>12. Pending' = Pending \union {my[t]}
  <2>1. my'[t] = my[t] /\ \A u \in Thread : u # t => (pc'[u] = "write" <=> pc[u] = "write") /\ my'[u] = my[u]
    BY <1>0, <1>1 DEF Elsewhere
  <2>. QED
    BY <1>0, <2>1 DEF Pending
<1>13. my[t] \notin Sent /\ my[t] \notin Pending
  BY <1>0, <1>5, NotLogged
<1>14. Logged'
  <2>1. PICK n \in Nat : \E log \in [1 .. n -> 1 .. ids - 1] : LogOf(log, n)
    BY DEF PInv, Logged
  <2>2. PICK log \in [1 .. n -> 1 .. ids - 1] : LogOf(log, n)
    BY <2>1
  <2>3. n = Len(file) + cursor
    BY <1>9, <2>2 DEF LogOf
  <2>a. PICK m \in Nat : m = n + size
    BY <1>2
  <2>b. \E more \in [1 .. m -> 1 .. ids - 1] :
          /\ \A i \in 1 .. n : i \in 1 .. m /\ more[i] = log[i]
          /\ \A i \in n + 1 .. m : more[i] = my[t]
    <3>. DEFINE more == [i \in 1 .. m |-> IF i <= n THEN log[i] ELSE my[t]]
    <3>1. more \in [1 .. m -> 1 .. ids - 1]
      BY <1>b, <2>a
    <3>2. \A i \in 1 .. n : i \in 1 .. m /\ more[i] = log[i]
      BY <1>2, <2>a
    <3>3. \A i \in n + 1 .. m : more[i] = my[t]
      BY <1>2, <2>a
    <3>. QED
      BY <3>1, <3>2, <3>3, Zenon
  <2>4. PICK more \in [1 .. m -> 1 .. ids - 1] :
          /\ \A i \in 1 .. n : i \in 1 .. m /\ more[i] = log[i]
          /\ \A i \in n + 1 .. m : more[i] = my[t]
    BY <2>b
  <2>5. \A i \in 1 .. n : log[i] \in Sent \union Pending /\ log[i] # my[t]
    BY <1>13, <2>2 DEF LogOf
  <2>6. \A i \in 1 .. m : i \in 1 .. n \/ i \in n + 1 .. m
    BY <1>2, <2>a
  <2>7. LogOf(more, m)'
    <3>1. m = Len(file') + Top' /\ \A i \in 1 .. Len(file') : more[i] = file'[i]
      <4>1. \A i \in 1 .. Len(file) : log[i] = file[i] /\ i \in 1 .. n
        BY <1>a, <2>2, <2>3, <2>a DEF LogOf
      <4>. QED
        BY <1>0, <1>a, <1>2, <1>9, <2>3, <2>a, <2>4, <4>1
    <3>2. ASSUME NEW k \in 1 .. SIZE
          PROVE  buf'[k] = IF k <= Top' /\ more[Len(file') + k] \notin Pending'
                           THEN more[Len(file') + k] ELSE 0
      <4>1. buf'[k] = IF k <= Top /\ log[Len(file) + k] \notin Pending THEN log[Len(file) + k] ELSE 0
        BY <1>0, <1>3, <2>2 DEF LogOf
      <4>2. CASE k <= cursor
        <5>1. Len(file) + k \in 1 .. n
          BY <1>a, <2>3, <2>a, <4>2
        <5>2. /\ more[Len(file) + k] = log[Len(file) + k]
              /\ log[Len(file) + k] \notin Pending <=> log[Len(file) + k] \notin Pending'
          BY <1>12, <2>4, <2>5, <5>1
        <5>. QED
          BY <1>0, <1>a, <1>2, <1>9, <4>1, <4>2, <5>2
      <4>3. CASE k > cursor /\ k <= cursor + size
        <5>1. Len(file) + k \in n + 1 .. m
          BY <1>a, <1>2, <2>3, <2>a, <4>3
        <5>2. more[Len(file) + k] \in Pending'
          BY <1>12, <2>4, <5>1
        <5>. QED
          BY <1>0, <1>a, <1>9, <4>1, <4>3, <5>2
      <4>4. CASE k > cursor + size
        BY <1>a, <1>2, <1>9, <4>1, <4>4
      <4>. QED
        BY <1>a, <1>2, <4>2, <4>3, <4>4
    <3>3. \A i \in 1 .. m : more[i] \in Sent' \union Pending'
      BY <1>11, <1>12, <2>4, <2>5, <2>6
    <3>4. ASSUME NEW id, id # my[t] PROVE Occurs(more, m, id) = Occurs(log, n, id)
      BY <2>4, <2>6, <3>4 DEF Occurs
    <3>5. ASSUME NEW id \in Sent' PROVE \E k \in Nat : Occurs(more, m, id)' = Block(k, id)'
      <4>1. PICK k \in Nat : Occurs(log, n, id) = Block(k, id)
        BY <1>11, <2>2, <3>5 DEF LogOf
      <4>2. Occurs(more, m, id) = Block(k, id)
        BY <1>11, <1>13, <3>4, <4>1
      <4>3. Occurs(more, m, id)' = Occurs(more, m, id) /\ Block(k, id)' = Block(k, id)
        BY <1>0 DEF Occurs, Block, PacketSize
      <4>. QED
        BY <4>2, <4>3
    <3>6. ASSUME NEW u \in Thread, pc'[u] = "write"
          PROVE  Occurs(more, m, my[u])' = Block(Len(file) + my_cursor[u], my[u])'
      <4>1. CASE u = t
        <5>1. Occurs(more, m, my[t]) = n + 1 .. m
          BY <1>2, <2>a, <2>4, <2>5, <2>6 DEF Occurs
        <5>2. Block(Len(file) + cursor, my[t]) = n + 1 .. m
          BY <2>3, <2>a DEF Block
        <5>3. /\ Occurs(more, m, my[t])' = Occurs(more, m, my[t])
              /\ Block(Len(file) + my_cursor[t], my[t])' = Block(Len(file) + cursor, my[t])
          BY <1>0 DEF Occurs, Block, PacketSize
        <5>. QED
          BY <4>1, <5>1, <5>2, <5>3
      <4>2. CASE u # t
        <5>1. pc[u] = "write" /\ my_cursor'[u] = my_cursor[u] /\ my[u] # my[t]
          BY <1>0, <1>1, <3>6, <4>2 DEF Elsewhere, Traced
        <5>2. Occurs(more, m, my[u]) = Block(Len(file) + my_cursor[u], my[u])
          BY <2>2, <3>4, <5>1 DEF LogOf
        <5>3. /\ Occurs(more, m, my[u])' = Occurs(more, m, my[u])
              /\ Block(Len(file) + my_cursor[u], my[u])' = Block(Len(file) + my_cursor[u], my[u])
          BY <1>0, <5>1 DEF Occurs, Block, PacketSize
        <5>. QED
          BY <5>2, <5>3
      <4>. QED
        BY <4>1, <4>2
    <3>7. ASSUME NEW i \in 1 .. m, NEW p \in event'[more[i]].after
          PROVE  \E j \in 1 .. i - 1 : more[j] = p
      <4>0. p \in event[more[i]].after
        BY <1>0, <3>7
      <4>1. CASE i \in 1 .. n
        <5>1. PICK j \in 1 .. i - 1 : log[j] = p
          BY <2>2, <2>4, <4>0, <4>1 DEF LogOf
        <5>. QED
          BY <2>4, <4>1, <5>1
      <4>2. CASE i \in n + 1 .. m
        <5>1. p \in returned
          BY <1>b, <2>4, <4>0, <4>2 DEF Traced
        <5>2. Len(text) = 0
          <6>1. trace_file # Stdout
            BY <1>0 DEF OneOutput, Recording, File, Stdout
          <6>. QED
            BY <6>1 DEF OneOutput
        <5>3. p \in Sent
          BY <5>1, <5>2 DEF Sent
        <5>4. PICK j \in 1 .. n : log[j] = p
          BY <2>2, <5>3, SentOccurs
        <5>. QED
          BY <2>4, <4>2, <5>4
      <4>. QED
        BY <2>6, <4>1, <4>2
    <3>. QED
      BY <3>1, <3>2, <3>3, <3>5, <3>6, <3>7 DEF LogOf
  <2>. QED
    BY <1>0, <2>4, <2>7 DEF Logged
<1>. QED
  BY <1>10, <1>14

\* Writing puts the words where the log has them.
LEMMA WritingKept ==
  ASSUME PInv, Typed', NEW t \in Thread, WritePacket(t)
  PROVE  Space' /\ Logged'
<1>. IInv /\ LockTypes /\ Typed /\ Traced /\ Space
  BY DEF PInv, IInv
<1>. DEFINE size == PacketSize(my[t])
<1>0. /\ pc[t] = "write" /\ pc'[t] = "release"
      /\ buf' = [i \in 1 .. SIZE |->
                   IF i \in my_cursor[t] + 1 .. my_cursor[t] + size THEN my[t] ELSE buf[i]]
      /\ UNCHANGED <<cursor, overage, ids, event, my, my_cursor, returned, file, text>>
  BY DEF WritePacket, Goes, LockTypes, events, output
<1>1. Elsewhere(t) /\ EventsGrow
  BY OthersStay, EventsStay DEF Acts, Step
<1>2. /\ cursor \in Nat /\ overage \in Nat /\ SIZE \in Nat /\ Len(file) \in Nat
      /\ my_cursor[t] \in Nat /\ my_cursor[t] # NULL
  BY <1>0, NullAssumption, SizeAssumption, LenProperties DEF Typed, Traced
<1>3. size \in 1 .. SIZE /\ my[t] \in 1 .. ids - 1
  BY <1>0, EventTypes DEF Traced
<1>4. ~Resetting /\ Resetting' = Resetting
  BY <1>0, <1>1, Together, ResettingSame DEF Sharing
<1>5. Unnoted' = Unnoted
  BY <1>0, <1>1, UnnotedSame
<1>6. Failing' = Failing
  BY <1>0, <1>1, FailingSame DEF HasFailed
<1>7. Lost' = Lost /\ Top' = Top
  BY <1>0, <1>4, <1>5 DEF Lost, Top
<1>8. Space'
  BY <1>0, <1>4, <1>6, <1>7 DEF Space
<1>9. \A u \in Thread : u # t /\ pc[u] # "idle" => my[u] # my[t]
  BY <1>0 DEF Traced
<1>10. /\ my'[t] = my[t] /\ pc[t] = "write" /\ pc'[t] # "write" /\ my_cursor'[t] # NULL
       /\ \A u \in Thread : u # t => /\ pc'[u] = "write" <=> pc[u] = "write"
                                     /\ my'[u] = my[u] /\ my_cursor'[u] = my_cursor[u]
  BY <1>0, <1>1, <1>2 DEF Elsewhere
<1>11. Pending' = Pending \ {my[t]}
  BY <1>9, <1>10 DEF Pending
<1>12. Sent' = Sent \union {my[t]}
  <2>1. ASSUME NEW id PROVE id \in Sent' <=> id \in Sent \/ id = my[t]
    <3>1. id \in Sent' <=> \/ id \in returned /\ \A i \in 1 .. Len(text) : text[i] # id
                           \/ \E u \in Thread : my_cursor'[u] # NULL /\ pc'[u] # "write" /\ my'[u] = id
      BY <1>0 DEF Sent
    <3>2. id \in Sent <=> \/ id \in returned /\ \A i \in 1 .. Len(text) : text[i] # id
                          \/ \E u \in Thread : my_cursor[u] # NULL /\ pc[u] # "write" /\ my[u] = id
      BY DEF Sent
    <3>. QED
      BY <1>10, <3>1, <3>2, Zenon
  <2>. QED
    BY <2>1, Zenon
<1>13. Logged'
  <2>1. PICK n \in Nat : \E log \in [1 .. n -> 1 .. ids - 1] : LogOf(log, n)
    BY DEF PInv, Logged
  <2>2. PICK log \in [1 .. n -> 1 .. ids - 1] : LogOf(log, n)
    BY <2>1
  <2>3. n = Len(file) + Top /\ \A i \in 1 .. Len(file) : log[i] = file[i]
    BY <2>2 DEF LogOf
  <2>4. Top \in Int
    BY <1>2, <1>4, Countable DEF Top, Lost
  <2>5. \A i : i \in 1 .. n /\ log[i] = my[t]
                 <=> i \in Len(file) + my_cursor[t] + 1 .. Len(file) + my_cursor[t] + size
    <3>1. Occurs(log, n, my[t]) = Block(Len(file) + my_cursor[t], my[t])
      BY <1>0, <2>2 DEF LogOf
    <3>. QED
      BY <3>1 DEF Occurs, Block
  <2>6. ASSUME NEW k \in 1 .. SIZE
        PROVE  buf'[k] = IF k <= Top' /\ log[Len(file') + k] \notin Pending'
                         THEN log[Len(file') + k] ELSE 0
    <3>1. buf[k] = IF k <= Top /\ log[Len(file) + k] \notin Pending THEN log[Len(file) + k] ELSE 0
      BY <1>4, <2>2 DEF LogOf
    <3>2. buf'[k] = IF k \in my_cursor[t] + 1 .. my_cursor[t] + size THEN my[t] ELSE buf[k]
      BY <1>0
    <3>3. k \in my_cursor[t] + 1 .. my_cursor[t] + size
            <=> Len(file) + k \in Len(file) + my_cursor[t] + 1 .. Len(file) + my_cursor[t] + size
      <4>1. my_cursor[t] \in Int /\ size \in Int /\ Len(file) \in Int /\ k \in Int
        BY <1>2, <1>3
      <4>. QED
        BY <4>1, Moved
    <3>4. Len(file) + k \in 1 .. n <=> k <= Top
      BY <1>2, <2>3, <2>4
    <3>5. CASE k \in my_cursor[t] + 1 .. my_cursor[t] + size
      <4>1. k <= Top /\ log[Len(file) + k] = my[t]
        BY <2>5, <3>3, <3>4, <3>5
      <4>. QED
        BY <1>0, <1>7, <1>11, <3>2, <3>5, <4>1
    <3>6. CASE k \notin my_cursor[t] + 1 .. my_cursor[t] + size
      <4>1. k <= Top => log[Len(file) + k] # my[t]
        BY <2>5, <3>3, <3>4, <3>6
      <4>. QED
        BY <1>0, <1>7, <1>11, <3>1, <3>2, <3>6, <4>1
    <3>. QED
      BY <3>5, <3>6
  <2>7. \A i \in 1 .. n : log[i] \in Sent' \union Pending'
    BY <1>11, <1>12, <2>2 DEF LogOf
  <2>8. \A id \in Sent' : \E k \in Nat : Occurs(log, n, id)' = Block(k, id)'
    <3>1. ASSUME NEW id \in Sent' PROVE \E k \in Nat : Occurs(log, n, id) = Block(k, id)
      <4>1. CASE id \in Sent
        BY <2>2, <4>1 DEF LogOf
      <4>2. CASE id = my[t]
        <5>1. Len(file) + my_cursor[t] \in Nat
          BY <1>2
        <5>. QED
          BY <1>0, <2>2, <4>2, <5>1 DEF LogOf
      <4>. QED
        BY <1>12, <3>1, <4>1, <4>2
    <3>2. \A id, k : Occurs(log, n, id)' = Occurs(log, n, id) /\ Block(k, id)' = Block(k, id)
      BY <1>0 DEF Occurs, Block, PacketSize
    <3>. QED
      BY <3>1, <3>2
  <2>9. ASSUME NEW u \in Thread, pc'[u] = "write"
        PROVE  Occurs(log, n, my[u])' = Block(Len(file) + my_cursor[u], my[u])'
    <3>1. pc[u] = "write" /\ my_cursor'[u] = my_cursor[u]
      BY <1>10, <2>9
    <3>2. Occurs(log, n, my[u]) = Block(Len(file) + my_cursor[u], my[u])
      BY <2>2, <3>1 DEF LogOf
    <3>3. /\ Occurs(log, n, my[u])' = Occurs(log, n, my[u])
          /\ Block(Len(file) + my_cursor[u], my[u])' = Block(Len(file) + my_cursor[u], my[u])
      BY <1>0, <3>1 DEF Occurs, Block, PacketSize
    <3>. QED
      BY <3>2, <3>3
  <2>10. \A i \in 1 .. n : \A p \in event'[log[i]].after : \E j \in 1 .. i - 1 : log[j] = p
    BY <1>0, <2>2 DEF LogOf
  <2>11. n = Len(file') + Top' /\ \A i \in 1 .. Len(file') : log[i] = file'[i]
    BY <1>0, <1>7, <2>3
  <2>12. LogOf(log, n)'
    BY <2>6, <2>7, <2>8, <2>9, <2>10, <2>11 DEF LogOf
  <2>. QED
    BY <1>0, <2>12 DEF Logged
<1>. QED
  BY <1>8, <1>13

\* What a flush finds: nobody writes, and the words that were claimed are those
\* below the ones that requests that failed added.
LEMMA FlushFinds ==
  ASSUME PInv, NEW t \in Thread, WriteOut(t)
  PROVE  /\ Top \in Nat /\ Top <= SIZE /\ cursor' = Top
         /\ overage > 0 => Top > 0
         /\ file' = file \o FirstWords(Top) /\ Pending = {} /\ Lost = overage + 0
         /\ ~Resetting /\ pc[t] = "flush" /\ pc'[t] = "reset"
         /\ UNCHANGED <<overage, buf, ids, event, my, my_cursor, returned, text>>
<1>. IInv /\ LockTypes /\ Typed /\ Space
  BY DEF PInv, IInv
<1>0. /\ pc[t] = "flush" /\ pc'[t] = "reset"
      /\ cursor' = (IF cursor = 0 THEN 0 ELSE cursor - overage)
      /\ file' = file \o FirstWords(cursor')
      /\ UNCHANGED <<overage, buf, ids, event, my, my_cursor, returned, text>>
  BY DEF WriteOut, Goes, LockTypes, events
<1>1. Exclusive(t)
  BY <1>0 DEF Exclusive
<1>2. Lost = overage + 0 /\ Pending = {}
  BY <1>1, Alone
<1>3. ~Resetting
  BY <1>0, <1>1, Alone DEF Resetting
<1>4. cursor \in Nat /\ overage \in Nat /\ SIZE \in Nat
  BY SizeAssumption DEF Typed
<1>5. Lost <= cursor /\ cursor - Lost <= SIZE /\ (Lost > 0 => cursor > Lost) /\ Top = cursor - Lost
  BY <1>3 DEF Space, Top
<1>6. Top \in Nat /\ Top <= SIZE /\ cursor' = Top /\ (overage > 0 => Top > 0)
  BY <1>0, <1>2, <1>4, <1>5
<1>. QED
  BY <1>0, <1>2, <1>3, <1>6

\* A flush moves the words from the buffer to the file, and the log stays as it is.
LEMMA FlushingKept ==
  ASSUME PInv, Typed', NEW t \in Thread, WriteOut(t)
  PROVE  Space' /\ Logged'
<1>. IInv /\ LockTypes /\ Typed /\ Traced /\ Space
  BY DEF PInv, IInv
<1>0. /\ Top \in Nat /\ Top <= SIZE /\ cursor' = Top
      /\ overage > 0 => Top > 0
      /\ file' = file \o FirstWords(Top) /\ Pending = {} /\ Lost = overage + 0
      /\ ~Resetting /\ pc[t] = "flush" /\ pc'[t] = "reset"
      /\ UNCHANGED <<overage, buf, ids, event, my, my_cursor, returned, text>>
  BY FlushFinds
<1>1. Elsewhere(t) /\ EventsGrow
  BY OthersStay, EventsStay DEF Acts, Step
<1>2. Resetting'
  BY <1>0 DEF Resetting
<1>3. Unnoted' = Unnoted /\ Lost' = Lost
  <2>1. Unnoted' = Unnoted
    BY <1>0, <1>1, UnnotedSame
  <2>. QED
    BY <1>0, <2>1 DEF Lost
<1>4. Failing' = Failing
  BY <1>0, <1>1, FailingSame DEF HasFailed
<1>5. Top' = 0
  BY <1>2 DEF Top
<1>6. Space'
  BY <1>0, <1>2, <1>3, <1>4 DEF Space
<1>7. Sent' = Sent
  BY <1>0, <1>1, SentSame DEF HasSent
<1>8. Pending' = {} /\ \A u \in Thread : pc'[u] # "write"
  <2>1. Pending' = Pending
    BY <1>0, <1>1, PendingSame
  <2>. QED
    BY <1>0, <2>1 DEF Pending
<1>9. Logged'
  <2>1. PICK n \in Nat : \E log \in [1 .. n -> 1 .. ids - 1] : LogOf(log, n)
    BY DEF PInv, Logged
  <2>2. PICK log \in [1 .. n -> 1 .. ids - 1] : LogOf(log, n)
    BY <2>1
  <2>3. /\ n = Len(file) + Top /\ \A i \in 1 .. Len(file) : log[i] = file[i]
        /\ \A k \in 1 .. SIZE : buf[k] = IF k <= Top THEN log[Len(file) + k] ELSE 0
    BY <1>0, <2>2 DEF LogOf
  <2>4. /\ FirstWords(Top) \in Seq(0 .. EVENTS) /\ Len(FirstWords(Top)) = Top
        /\ \A i \in 1 .. Top : FirstWords(Top)[i] = IF i > SIZE THEN 0 ELSE buf[i]
    BY <1>0, FirstWordsProperties
  <2>5. /\ file \in Seq(0 .. EVENTS) /\ Len(file) \in Nat /\ SIZE \in Nat
    BY LenProperties, SizeAssumption DEF Typed
  <2>6. /\ Len(file') = Len(file) + Top
        /\ \A i \in 1 .. Len(file) + Top :
             file'[i] = IF i <= Len(file) THEN file[i] ELSE FirstWords(Top)[i - Len(file)]
    <3>1. /\ Len(file \o FirstWords(Top)) = Len(file) + Len(FirstWords(Top))
          /\ \A i \in 1 .. Len(file) + Len(FirstWords(Top)) :
               (file \o FirstWords(Top))[i] =
                 IF i <= Len(file) THEN file[i] ELSE FirstWords(Top)[i - Len(file)]
      BY <2>4, <2>5, ConcatProperties
    <3>. QED
      BY <1>0, <2>4, <3>1
  <2>7. ASSUME NEW i \in 1 .. Len(file') PROVE log[i] = file'[i]
    <3>1. CASE i <= Len(file)
      BY <2>3, <2>5, <2>6, <3>1
    <3>2. CASE i > Len(file)
      <4>0. Top \in Nat /\ Len(file) \in Nat /\ i \in 1 .. Len(file) + Top
        BY <1>0, <2>5, <2>6
      <4>a. i - Len(file) \in 1 .. Top
        BY <3>2, <4>0, Past
      <4>1. PICK k \in 1 .. Top : k = i - Len(file)
        BY <4>a
      <4>2. k \in 1 .. SIZE /\ ~(k > SIZE) /\ i = Len(file) + k
        BY <1>0, <2>5, <4>1
      <4>3. file'[i] = buf[k]
        BY <1>0, <2>4, <2>5, <2>6, <3>2, <4>1, <4>2
      <4>4. buf[k] = log[Len(file) + k]
        BY <1>0, <2>3, <4>1, <4>2
      <4>. QED
        BY <4>2, <4>3, <4>4
    <3>. QED
      BY <2>5, <2>6, <3>1, <3>2
  <2>8. n = Len(file') + Top'
    BY <1>0, <1>5, <2>3, <2>5, <2>6
  <2>9. \A i \in 1 .. n : log[i] \in Sent' \union Pending'
    BY <1>0, <1>7, <2>2 DEF LogOf
  <2>10. \A id \in Sent' : \E k \in Nat : Occurs(log, n, id)' = Block(k, id)'
    <3>1. \A id, k : Occurs(log, n, id)' = Occurs(log, n, id) /\ Block(k, id)' = Block(k, id)
      BY <1>0 DEF Occurs, Block, PacketSize
    <3>. QED
      BY <1>7, <2>2, <3>1 DEF LogOf
  <2>11. \A i \in 1 .. n : \A p \in event'[log[i]].after : \E j \in 1 .. i - 1 : log[j] = p
    BY <1>0, <2>2 DEF LogOf
  <2>12. LogOf(log, n)'
    BY <1>2, <1>8, <2>7, <2>8, <2>9, <2>10, <2>11 DEF LogOf
  <2>. QED
    BY <1>0, <2>12 DEF Logged
<1>. QED
  BY <1>6, <1>9

\* After it the buffer is empty.
LEMMA ResettingKept ==
  ASSUME PInv, Typed', NEW t \in Thread, Reset(t)
  PROVE  Space' /\ Logged'
<1>. IInv /\ LockTypes /\ Typed /\ Traced /\ Space
  BY DEF PInv, IInv
<1>0. /\ pc[t] = "reset" /\ pc'[t] = "unlock" /\ cursor' = 0
      /\ overage' = (IF cursor = 0 THEN overage ELSE 0)
      /\ buf' = [i \in 1 .. SIZE |-> 0]
      /\ UNCHANGED <<ids, event, my, my_cursor, returned, file, text>>
  BY DEF Reset, Goes, LockTypes, events, output
<1>1. Elsewhere(t) /\ EventsGrow
  BY OthersStay, EventsStay DEF Acts, Step
<1>2. Resetting /\ Exclusive(t)
  BY <1>0 DEF Resetting, Exclusive
<1>3. ~Resetting'
  BY <1>0, <1>1, <1>2, Alone DEF Resetting, Elsewhere
<1>4. overage' = 0
  <2>1. cursor \in Nat /\ overage \in Nat /\ (overage > 0 => cursor > 0)
    BY <1>2 DEF Typed, Space
  <2>. QED
    BY <1>0, <2>1
<1>5. Lost' = 0
  <2>1. Unnoted' = Unnoted
    BY <1>0, <1>1, UnnotedSame
  <2>2. Cardinality(Unnoted) = 0
    BY <1>2, Alone
  <2>. QED
    BY <1>4, <2>1, <2>2 DEF Lost
<1>6. Top = 0 /\ Top' = 0
  BY <1>0, <1>2, <1>3, <1>5 DEF Top
<1>7. Space'
  <2>1. Cardinality(Failing') \in Nat
    <3>1. Failing' \subseteq Thread
      BY DEF Failing
    <3>. QED
      BY <3>1, ThreadAssumption, FS_Subset, FS_CardinalityType
  <2>2. 0 <= Cardinality(Failing') * SIZE
    BY <2>1, SizeAssumption
  <2>. QED
    BY <1>0, <1>3, <1>5, <2>2, SizeAssumption DEF Space
<1>8. Sent' = Sent
  BY <1>0, <1>1, SentSame DEF HasSent
<1>9. /\ Pending' = Pending
      /\ \A u \in Thread : pc'[u] = "write" =>
           pc[u] = "write" /\ my'[u] = my[u] /\ my_cursor'[u] = my_cursor[u]
  BY <1>0, <1>1, PendingSame
<1>10. Logged'
  BY <1>0, <1>1, <1>6, <1>8, <1>9, LogKept
<1>. QED
  BY <1>7, <1>10

-----------------------------------------------------------------------------
(***************************************************************************)
(* What is durable, and the induction.                                     *)
(***************************************************************************)
\* Once the thread that ends a pipeline has flushed, its event is in the file and
\* the events before it are.
EndInFile ==
  \A t \in Thread : pc[t] = "reset" /\ my_cursor[t] # NULL =>
    \A p \in {my[t]} \union event[my[t]].after : InFile(p)

LEMMA FlushedEnd == Typed /\ Traced /\ Logged => EndInFile
<1>. SUFFICES ASSUME Typed, Traced, Logged, NEW t \in Thread, pc[t] = "reset", my_cursor[t] # NULL,
                     NEW p \in {my[t]} \union event[my[t]].after
     PROVE  InFile(p)
  BY DEF EndInFile
<1>1. PICK n \in Nat : \E log \in [1 .. n -> 1 .. ids - 1] : LogOf(log, n)
  BY DEF Logged
<1>2. PICK log \in [1 .. n -> 1 .. ids - 1] : LogOf(log, n)
  BY <1>1
<1>3. n = Len(file) /\ \A i \in 1 .. Len(file) : log[i] = file[i]
  <2>1. Top = 0
    BY DEF Top, Resetting
  <2>2. Len(file) \in Nat
    BY LenProperties DEF Typed
  <2>. QED
    BY <1>2, <2>1, <2>2 DEF LogOf
<1>4. my[t] \in Sent
  BY DEF Sent
<1>5. PICK i \in 1 .. n : log[i] = my[t]
  BY <1>2, <1>4, SentOccurs
<1>6. CASE p = my[t]
  BY <1>3, <1>5, <1>6 DEF InFile
<1>7. CASE p \in event[my[t]].after
  <2>1. PICK j \in 1 .. i - 1 : log[j] = p
    BY <1>2, <1>5, <1>7 DEF LogOf
  <2>. QED
    BY <1>3, <1>5, <2>1 DEF InFile
<1>. QED
  BY <1>6, <1>7

\* Nothing that is in the file is taken out of it.
LEMMA FileGrows ==
  ASSUME PInv, NEW t \in Thread, Acts(t), NEW p, InFile(p)
  PROVE  InFile(p)'
<1>. Typed
  BY DEF PInv
<1>1. CASE WriteOut(t)
  <2>1. file' = file \o FirstWords(Top) /\ Top \in Nat
    BY <1>1, FlushFinds
  <2>2. FirstWords(Top) \in Seq(0 .. EVENTS) /\ Len(FirstWords(Top)) = Top
    BY <2>1, FirstWordsProperties
  <2>3. file \in Seq(0 .. EVENTS) /\ Len(file) \in Nat
    BY LenProperties DEF Typed
  <2>4. /\ Len(file \o FirstWords(Top)) = Len(file) + Len(FirstWords(Top))
        /\ \A i \in 1 .. Len(file) + Len(FirstWords(Top)) :
             (file \o FirstWords(Top))[i] =
               IF i <= Len(file) THEN file[i] ELSE FirstWords(Top)[i - Len(file)]
    BY <2>2, <2>3, ConcatProperties
  <2>5. PICK i \in 1 .. Len(file) : file[i] = p
    BY DEF InFile
  <2>6. i \in 1 .. Len(file') /\ file'[i] = p
    BY <2>1, <2>2, <2>3, <2>4, <2>5
  <2>. QED
    BY <2>6 DEF InFile
<1>2. CASE ~WriteOut(t)
  <2>1. file' = file
    BY <1>2 DEF Acts, Step, Trace, GetTraceFile, PrintText, AcquireShared, ClaimSpace, AddOverage,
                BackOut, WritePacket, ReleasePacket, RequestExclusive, TakeExclusive, Reset,
                ReleaseExclusive, output
  <2>. QED
    BY <2>1 DEF InFile
<1>. QED
  BY <1>1, <1>2

\* An event that returns, and ends a pipeline, was printed or was flushed.
LEMMA ReturnsFlushed ==
  ASSUME PInv, NEW t \in Thread, Step(t), Returning(t), Ends(my[t]),
         \A i \in 1 .. Len(text') : text'[i] # my[t]
  PROVE  pc[t] = "unlock" /\ my_cursor[t] # NULL
<1>. LockTypes /\ Typed /\ Traced
  BY DEF PInv, IInv
<1>0. pc[t] # "idle" /\ pc'[t] = "idle" /\ my[t] \in 1 .. EVENTS
  BY EventTypes DEF Returning, Traced
<1>1. PrintText(t) \/ ReleasePacket(t) \/ ReleaseExclusive(t)
  <2>1. ASSUME NEW from, NEW to, Goes(t, from, to) PROVE to = "idle"
    BY <1>0, <2>1 DEF Goes, LockTypes
  <2>. QED
    BY <2>1 DEF Step, GetTraceFile, AcquireShared, ClaimSpace, AddOverage, BackOut, WritePacket,
                RequestExclusive, TakeExclusive, Retry, WriteOut, Reset
<1>2. ~PrintText(t)
  <2>. SUFFICES ASSUME PrintText(t) PROVE FALSE
    OBVIOUS
  <2>1. text' = Append(text, my[t])
    BY DEF PrintText
  <2>2. Len(text') = Len(text) + 1 /\ text'[Len(text) + 1] = my[t] /\ Len(text) \in Nat
    BY <1>0, <2>1, AppendProperties, LenProperties DEF Typed
  <2>. QED
    BY <2>2
<1>3. ~ReleasePacket(t)
  BY <1>0 DEF ReleasePacket, Goes, LockTypes
<1>4. ReleaseExclusive(t)
  BY <1>1, <1>2, <1>3
<1>. QED
  BY <1>0, <1>4 DEF ReleaseExclusive, Goes, LockTypes

\* What is printed stays printed.
LEMMA TextGrows ==
  ASSUME PInv, NEW t \in Thread, Acts(t), NEW id, \A i \in 1 .. Len(text') : text'[i] # id
  PROVE  \A i \in 1 .. Len(text) : text[i] # id
<1>. Typed /\ Traced
  BY DEF PInv
<1>1. CASE PrintText(t)
  <2>1. text' = Append(text, my[t]) /\ my[t] \in 1 .. EVENTS
    BY <1>1, EventTypes DEF PrintText, Goes, Traced
  <2>2. /\ Len(text') = Len(text) + 1 /\ Len(text) \in Nat
        /\ \A i \in 1 .. Len(text) : text'[i] = text[i]
    BY <2>1, AppendProperties, LenProperties DEF Typed
  <2>. QED
    BY <2>2
<1>2. CASE ~PrintText(t)
  <2>1. text' = text
    BY <1>2 DEF Acts, Step, Trace, GetTraceFile, AcquireShared, ClaimSpace, AddOverage, BackOut,
                WritePacket, ReleasePacket, RequestExclusive, TakeExclusive, WriteOut, Reset,
                ReleaseExclusive, output
  <2>. QED
    BY <2>1
<1>. QED
  BY <1>1, <1>2

LEMMA FlushedKept ==
  ASSUME PInv, Typed', Traced', Logged', NEW t \in Thread, Acts(t)
  PROVE  Flushed'
<1>. IInv /\ LockTypes /\ Typed /\ Traced /\ Flushed
  BY DEF PInv, IInv
<1>0. /\ Elsewhere(t) /\ returned \subseteq 1 .. ids - 1
      /\ \A id \in 1 .. ids - 1 : event'[id] = event[id]
  BY OthersStay, EventsStay DEF EventsGrow, Typed
<1>1. ASSUME NEW u \in Thread, pc[u] \in {"reset", "unlock"}, my_cursor[u] # NULL
      PROVE  \A p \in {my[u]} \union event'[my[u]].after : InFile(p)'
  <2>1. event'[my[u]] = event[my[u]]
    BY <1>0, <1>1 DEF Traced
  <2>2. \A p \in {my[u]} \union event[my[u]].after : InFile(p)
    BY <1>1 DEF Flushed
  <2>. QED
    BY <2>1, <2>2, FileGrows
<1>2. ASSUME NEW id \in returned', event'[id].kind.end, \A i \in 1 .. Len(text') : text'[i] # id
      PROVE  \A p \in {id} \union event'[id].after : InFile(p)'
  <2>1. CASE id \in returned
    <3>1. event'[id] = event[id] /\ \A i \in 1 .. Len(text) : text[i] # id
      BY <1>0, <1>2, <2>1, TextGrows
    <3>2. \A p \in {id} \union event[id].after : InFile(p)
      BY <1>2, <2>1, <3>1 DEF Flushed
    <3>. QED
      BY <3>1, <3>2, FileGrows
  <2>2. CASE id \notin returned
    <3>1. returned' # returned
      BY <1>2, <2>2
    <3>2. Step(t) /\ Returning(t)
      <4>1. ASSUME NEW kind \in Kinds, Trace(t, kind) PROVE FALSE
        BY <3>1, <4>1 DEF Trace
      <4>2. Step(t)
        BY <4>1 DEF Acts
      <4>. QED
        BY <3>1, <4>2, ThreeKinds DEF Staying
    <3>3. id = my[t] /\ event' = event
      BY <1>2, <2>2, <3>2 DEF Returning, Returns
    <3>4. Ends(my[t])
      BY <1>2, <3>3 DEF Ends
    <3>5. pc[t] = "unlock" /\ my_cursor[t] # NULL
      BY <1>2, <3>2, <3>3, <3>4, ReturnsFlushed
    <3>. QED
      BY <1>1, <3>3, <3>5
  <2>. QED
    BY <2>1, <2>2
<1>3. ASSUME NEW u \in Thread, pc'[u] \in {"reset", "unlock"}, my_cursor'[u] # NULL
      PROVE  \A p \in {my'[u]} \union event'[my'[u]].after : InFile(p)'
  <2>1. CASE u # t
    <3>1. pc'[u] = pc[u] /\ my'[u] = my[u] /\ my_cursor'[u] = my_cursor[u]
      BY <1>0, <2>1 DEF Elsewhere
    <3>. QED
      BY <1>1, <1>3, <3>1
  <2>2. CASE u = t /\ pc'[u] = "reset"
    <3>1. Typed' /\ Traced' /\ Logged' => EndInFile'
      BY FlushedEnd, PTL
    <3>2. EndInFile'
      BY <3>1
    <3>. QED
      BY <1>3, <2>2, <3>2 DEF EndInFile
  <2>3. CASE u = t /\ pc'[u] = "unlock"
    <3>0. ASSUME NEW from, NEW to, Goes(t, from, to) PROVE to = "unlock"
      BY <2>3, <3>0 DEF Goes, LockTypes
    <3>1. Reset(t)
      BY <3>0 DEF Acts, Step, Trace, GetTraceFile, PrintText, AcquireShared, ClaimSpace, AddOverage, BackOut,
             WritePacket, ReleasePacket, RequestExclusive, TakeExclusive, Retry, WriteOut, ReleaseExclusive
    <3>2. pc[t] = "reset" /\ UNCHANGED <<my, my_cursor>>
      BY <3>1 DEF Reset, Goes, events
    <3>. QED
      BY <1>1, <1>3, <2>3, <3>2
  <2>. QED
    BY <1>3, <2>1, <2>2, <2>3
<1>. QED
  BY <1>2, <1>3 DEF Flushed

\* Closing the file leaves what was traced alone.
LEMMA ShutDownKept ==
  ASSUME PInv, ShutDown
  PROVE  Typed' /\ Traced' /\ OneOutput' /\ Space' /\ Logged' /\ TextOrdered' /\ Flushed'
<1>0. /\ trace_file' = Stdout /\ trace_buffer' = FALSE
      /\ UNCHANGED <<env, lock, cursor, overage, buf, ids, event, pc, my, my_cursor, returned, file, text>>
      /\ \A t \in Thread : pc[t] = "idle"
  BY DEF ShutDown, counters, events, output
<1>1. Typed'
  BY <1>0 DEF PInv, Typed
<1>2. Traced' /\ TextOrdered' /\ Flushed'
  BY <1>0 DEF PInv, Traced, TextOrdered, Flushed, InFile
<1>3. OneOutput'
  BY <1>0 DEF PInv, OneOutput, Recording, Unset, Stdout
<1>4. /\ Unnoted' = Unnoted /\ Resetting' = Resetting /\ Failing' = Failing
      /\ Sent' = Sent /\ Pending' = Pending
  BY <1>0 DEF Unnoted, Resetting, Failing, Sent, Pending, PacketSize
<1>5. Lost' = Lost /\ Top' = Top
  BY <1>0, <1>4 DEF Lost, Top
<1>6. Space'
  BY <1>0, <1>4, <1>5 DEF PInv, Space
<1>7. Logged'
  <2>1. EventsGrow
    BY <1>0 DEF EventsGrow
  <2>. QED
    BY <1>0, <1>1, <1>4, <1>5, <2>1, LogKept
<1>. QED
  BY <1>1, <1>2, <1>3, <1>6, <1>7

\* Every step preserves the invariant.
LEMMA PacketsInductive == ASSUME Usage PROVE PInv /\ [Next]_vars => PInv'
<1>. SUFFICES ASSUME PInv, [Next]_vars PROVE PInv'
  OBVIOUS
<1>. IInv /\ Typed /\ Traced /\ OneOutput
  BY DEF PInv
<1>0. IInv'
  BY Inductive
<1>1. ASSUME NEW t \in Thread, Acts(t) PROVE PInv'
  <2>1. Typed'
    BY <1>1, TypedKept
  <2>2. Traced' /\ OneOutput' /\ TextOrdered'
    BY <1>1, TracedKept, OneOutputKept, TextOrderedKept
  <2>3. Space' /\ Logged'
    <3>1. Elsewhere(t) /\ EventsGrow
      BY <1>1, OthersStay, EventsStay DEF IInv
    <3>2. CASE ClaimSpace(t) \/ AddOverage(t) \/ WritePacket(t) \/ WriteOut(t) \/ Reset(t)
      BY <2>1, <3>2, ClaimingKept, FailingKept, NotingKept, WritingKept, FlushingKept, ResettingKept
    <3>3. CASE ~(ClaimSpace(t) \/ AddOverage(t) \/ WritePacket(t) \/ WriteOut(t) \/ Reset(t))
      <4>1. Quiet(t)
        BY <1>1, <3>3, QuietSteps
      <4>. QED
        BY <2>1, <3>1, <4>1, QuietKept
    <3>. QED
      BY <3>2, <3>3
  <2>4. Flushed'
    BY <1>1, <2>1, <2>2, <2>3, FlushedKept
  <2>. QED
    BY <1>0, <2>1, <2>2, <2>3, <2>4 DEF PInv
<1>2. CASE ShutDown
  BY <1>0, <1>2, ShutDownKept DEF PInv
<1>3. CASE UNCHANGED vars
  <2>1. UNCHANGED <<trace_file, trace_buffer, env, cursor, overage, buf, ids, event, pc, my, my_cursor,
                    returned, file, text>>
    BY <1>3 DEF vars
  <2>2. Typed' /\ Traced' /\ OneOutput' /\ TextOrdered' /\ Flushed'
    BY <2>1 DEF PInv, Typed, Traced, OneOutput, Recording, TextOrdered, Flushed, InFile
  <2>3. /\ Unnoted' = Unnoted /\ Resetting' = Resetting /\ Failing' = Failing
        /\ Sent' = Sent /\ Pending' = Pending
    BY <2>1 DEF Unnoted, Resetting, Failing, Sent, Pending, PacketSize
  <2>4. Lost' = Lost /\ Top' = Top
    BY <2>1, <2>3 DEF Lost, Top
  <2>5. Space'
    BY <2>1, <2>3, <2>4 DEF PInv, Space
  <2>6. EventsGrow
    BY <2>1 DEF EventsGrow
  <2>7. Logged'
    BY <2>1, <2>2, <2>3, <2>4, <2>6, LogKept
  <2>. QED
    BY <1>0, <2>2, <2>5, <2>7 DEF PInv
<1>. QED
  BY <1>1, <1>2, <1>3 DEF Next, Acts

-----------------------------------------------------------------------------
(***************************************************************************)
(* What the invariant gives.                                               *)
(***************************************************************************)
\* The cursor and the overage stay within what failed requests can add.
LEMMA TypesBounded == PInv => TypeOK
<1>. SUFFICES ASSUME PInv PROVE TypeOK
  OBVIOUS
<1>. DEFINE threads == Cardinality(Thread)
            failing == Cardinality(Failing)
<1>1. threads \in Nat /\ failing \in Nat /\ failing <= threads /\ SIZE \in Nat
      /\ Cardinality(Unnoted) \in Nat
  BY Countable, SizeAssumption
<1>2. /\ trace_file \in {Unset, Stdout, File} /\ env \in BOOLEAN
      /\ cursor \in Nat /\ overage \in Nat
      /\ buf \in [1 .. SIZE -> 0 .. EVENTS]
      /\ ids \in 1 .. EVENTS + 1 /\ event \in Seq(Event)
      /\ my \in [Thread -> 0 .. EVENTS]
      /\ my_cursor \in [Thread -> Nat \union {NULL}]
      /\ returned \subseteq 1 .. ids - 1
      /\ file \in Seq(0 .. EVENTS) /\ text \in Seq(1 .. EVENTS)
  BY DEF PInv, Typed
<1>3. /\ pc \in [Thread -> Where] /\ trace_buffer \in BOOLEAN
      /\ lock \in [held : BOOLEAN, waiting : BOOLEAN, shared : Nat]
      /\ lock.shared = Cardinality(Sharers)
  BY DEF PInv, IInv, LockTypes, SharedCounted
<1>4. Cardinality(Sharers) <= threads
  <2>1. Sharers \subseteq Thread
    BY DEF Sharers
  <2>. QED
    BY <2>1, ThreadAssumption, FS_Subset
<1>5. lock \in [held : BOOLEAN, waiting : BOOLEAN, shared : 0 .. threads]
  BY <1>1, <1>3, <1>4
<1>6. failing * SIZE <= threads * SIZE /\ failing * SIZE \in Nat /\ threads * SIZE \in Nat
  BY <1>1, TimesMonotone
<1>a. PICK most \in Nat : most = threads * SIZE
  BY <1>6
<1>b. PICK few \in Nat : few = failing * SIZE
  BY <1>6
<1>c. few <= most
  BY <1>6, <1>a, <1>b
<1>7. Lost <= few /\ Lost \in Nat /\ overage <= Lost
  <2>1. Lost <= few
    BY <1>b DEF PInv, Space
  <2>2. Lost \in Nat /\ overage <= Lost
    BY <1>1, <1>2 DEF Lost
  <2>. QED
    BY <2>1, <2>2
<1>8. cursor <= SIZE + Lost
  <2>1. CASE Resetting
    BY <1>1, <1>2, <1>7, <2>1 DEF PInv, Space
  <2>2. CASE ~Resetting
    BY <1>1, <1>2, <1>7, <2>2 DEF PInv, Space
  <2>. QED
    BY <2>1, <2>2
<1>9. cursor \in 0 .. SIZE + threads * SIZE /\ overage \in 0 .. threads * SIZE
  <2>1. cursor \in 0 .. SIZE + most /\ overage \in 0 .. most
    BY <1>1, <1>2, <1>c, <1>7, <1>8
  <2>. QED
    BY <1>a, <2>1
<1>10. returned \subseteq 1 .. EVENTS
  BY <1>2, EventsAssumption
<1>. QED
  BY <1>2, <1>3, <1>5, <1>9, <1>10 DEF TypeOK

\* The words of the trace are those of the log, but for packets that are claimed
\* and not written.
WordsOf(log, n) ==
  /\ Words \in Seq(0 .. EVENTS) /\ Len(Words) = n
  /\ \A i \in 1 .. n : Words[i] = IF i > Len(file) /\ log[i] \in Pending THEN 0 ELSE log[i]

LEMMA WordsLogged ==
  ASSUME PInv, NEW n \in Nat, NEW log \in [1 .. n -> 1 .. ids - 1], LogOf(log, n)
  PROVE  WordsOf(log, n)
<1>. DEFINE rest == IF Resetting THEN <<>> ELSE FirstWords(Claimed)
<1>1. /\ file \in Seq(0 .. EVENTS) /\ Len(file) \in Nat /\ SIZE \in Nat
      /\ cursor \in Nat /\ overage \in Nat
  BY LenProperties, SizeAssumption DEF PInv, Typed
<1>2. Words = file \o rest
  BY DEF Words, Resetting
<1>3. Lost \in Nat
  BY <1>1, Countable DEF Lost
<1>4. ~Resetting => Top \in Nat /\ Top <= SIZE /\ Claimed = Top
  <2>1. Claimed = IF cursor < Lost THEN 0 ELSE cursor - Lost
    BY DEF Claimed, Lost
  <2>. QED
    BY <1>1, <1>3, <2>1 DEF PInv, Space, Top
<1>5. /\ rest \in Seq(0 .. EVENTS) /\ Len(rest) = Top
      /\ \A i \in 1 .. Top : i \in 1 .. SIZE /\ rest[i] = buf[i]
  <2>1. CASE Resetting
    BY <2>1, EmptySeq DEF Top
  <2>2. CASE ~Resetting
    <3>1. rest = FirstWords(Top) /\ Top \in Nat /\ Top <= SIZE
      BY <1>4, <2>2
    <3>2. /\ FirstWords(Top) \in Seq(0 .. EVENTS) /\ Len(FirstWords(Top)) = Top
          /\ \A i \in 1 .. Top : FirstWords(Top)[i] = IF i > SIZE THEN 0 ELSE buf[i]
      BY <3>1, FirstWordsProperties DEF PInv
    <3>3. \A i \in 1 .. Top : i \in 1 .. SIZE /\ ~(i > SIZE)
      BY <1>1, <3>1
    <3>. HIDE DEF rest
    <3>. QED
      BY <3>1, <3>2, <3>3
  <2>. QED
    BY <2>1, <2>2
<1>. HIDE DEF rest
<1>6. /\ Words \in Seq(0 .. EVENTS) /\ Len(Words) = Len(file) + Len(rest)
      /\ \A i \in 1 .. Len(file) + Len(rest) :
           Words[i] = IF i <= Len(file) THEN file[i] ELSE rest[i - Len(file)]
  BY <1>1, <1>2, <1>5, ConcatProperties
<1>7. /\ n = Len(file) + Top /\ \A i \in 1 .. Len(file) : log[i] = file[i]
      /\ ~Resetting => \A k \in 1 .. SIZE :
           buf[k] = IF k <= Top /\ log[Len(file) + k] \notin Pending THEN log[Len(file) + k] ELSE 0
  BY DEF LogOf
<1>8. Top \in Nat /\ (Resetting => Top = 0)
  BY <1>4 DEF Top
<1>9. ASSUME NEW i \in 1 .. n
      PROVE  Words[i] = IF i > Len(file) /\ log[i] \in Pending THEN 0 ELSE log[i]
  <2>1. CASE i <= Len(file)
    <3>1. i \in 1 .. Len(file) /\ i \in 1 .. Len(file) + Len(rest) /\ ~(i > Len(file))
      BY <1>1, <1>5, <1>7, <1>8, <2>1
    <3>2. Words[i] = file[i] /\ file[i] = log[i]
      BY <1>6, <1>7, <2>1, <3>1
    <3>. QED
      BY <3>1, <3>2
  <2>2. CASE i > Len(file)
    <3>0. Top \in Nat /\ Len(file) \in Nat /\ i \in 1 .. Len(file) + Top
      BY <1>1, <1>7, <1>8
    <3>a. i - Len(file) \in 1 .. Top
      BY <2>2, <3>0, Past
    <3>1. PICK k \in 1 .. Top : k = i - Len(file)
      BY <3>a
    <3>2. ~Resetting /\ k \in 1 .. SIZE /\ k <= Top /\ i = Len(file) + k
      BY <1>1, <1>5, <1>8, <3>1
    <3>3. Words[i] = buf[k]
      BY <1>1, <1>5, <1>6, <1>7, <1>8, <2>2, <3>1
    <3>4. buf[k] = IF log[i] \notin Pending THEN log[i] ELSE 0
      BY <1>7, <3>2
    <3>. QED
      BY <2>2, <3>3, <3>4
  <2>. QED
    BY <1>1, <2>1, <2>2
<1>. QED
  BY <1>5, <1>6, <1>7, <1>9 DEF WordsOf

\* Nothing is both sent and still to be written.
LEMMA SentNotPending ==
  ASSUME PInv, NEW id \in Sent
  PROVE  id \notin Pending
<1>1. \A t \in Thread : pc[t] = "write" => my[t] \notin returned
  BY DEF PInv, Traced
<1>2. \A t, u \in Thread : pc[t] = "write" /\ my_cursor[u] # NULL /\ pc[u] # "write" => my[u] # my[t]
  BY DEF PInv, Traced
<1>. QED
  BY <1>1, <1>2 DEF Sent, Pending

\* What is printed is not in the log.
LEMMA PrintedNotLogged ==
  ASSUME PInv, NEW i \in 1 .. Len(text)
  PROVE  text[i] \notin Sent /\ text[i] \notin Pending
<1>1. text[i] \in returned
  BY DEF PInv, OneOutput
<1>2. \A t \in Thread : my_cursor[t] # NULL \/ pc[t] = "write" => my[t] \notin returned
  BY DEF PInv, Traced
<1>. QED
  BY <1>1, <1>2 DEF Sent, Pending

\* The words in the file are the first ones of the log.
LEMMA FileInLog ==
  ASSUME PInv, NEW n \in Nat, NEW log \in [1 .. n -> 1 .. ids - 1], LogOf(log, n),
         NEW i \in 1 .. Len(file)
  PROVE  i \in 1 .. n /\ file[i] = log[i]
<1>1. n = Len(file) + Top /\ \A k \in 1 .. Len(file) : log[k] = file[k]
  BY DEF LogOf
<1>2. /\ cursor \in Nat /\ overage \in Nat /\ Cardinality(Unnoted) \in Nat /\ Len(file) \in Nat
  BY Countable, LenProperties DEF PInv, Typed
<1>3. Lost \in Nat
  BY <1>2 DEF Lost
<1>4. Top \in Nat
  BY <1>2, <1>3 DEF Top, PInv, Space
<1>. QED
  BY <1>1, <1>2, <1>4

\* The greatest and the least number of an interval.
LEMMA IntervalEnds ==
  ASSUME NEW a \in Nat, NEW b \in Nat, b > 0
  PROVE  /\ Cardinality(a + 1 .. a + b) = b
         /\ Max(a + 1 .. a + b) - Min(a + 1 .. a + b) = b - 1
<1>1. Max(a + 1 .. a + b) = a + b
  <2>1. a + b \in a + 1 .. a + b /\ \A y \in a + 1 .. a + b : a + b >= y
    OBVIOUS
  <2>2. \A x \in a + 1 .. a + b : (\A y \in a + 1 .. a + b : x >= y) => x = a + b
    BY <2>1
  <2>. QED
    BY <2>1, <2>2 DEF Max
<1>2. Min(a + 1 .. a + b) = a + 1
  <2>1. a + 1 \in a + 1 .. a + b /\ \A y \in a + 1 .. a + b : a + 1 <= y
    OBVIOUS
  <2>2. \A x \in a + 1 .. a + b : (\A y \in a + 1 .. a + b : x <= y) => x = a + 1
    BY <2>1
  <2>. QED
    BY <2>1, <2>2 DEF Min
<1>3. Cardinality(a + 1 .. a + b) = b
  BY FS_Interval
<1>. QED
  BY <1>1, <1>2, <1>3

\* The packets are whole.
LEMMA Whole == PInv => PacketsWhole
<1>. SUFFICES ASSUME PInv PROVE PacketsWhole
  OBVIOUS
<1>. Typed /\ Traced
  BY DEF PInv
<1>1. PICK n \in Nat : \E log \in [1 .. n -> 1 .. ids - 1] : LogOf(log, n)
  BY DEF PInv, Logged
<1>2. PICK log \in [1 .. n -> 1 .. ids - 1] : LogOf(log, n)
  BY <1>1
<1>3. WordsOf(log, n)
  BY <1>2, WordsLogged
<1>4. /\ DOMAIN Words = 1 .. n
      /\ \A i \in 1 .. n : Words[i] = IF i > Len(file) /\ log[i] \in Pending THEN 0 ELSE log[i]
  BY <1>3, LenProperties DEF WordsOf
<1>5. DOMAIN file = 1 .. Len(file) /\ Len(file) \in Nat
  BY LenProperties DEF Typed
<1>6. \A i \in 1 .. Len(file) : i \in 1 .. n /\ file[i] = log[i]
  BY <1>2, FileInLog
<1>7. 0 \notin Range(file)
  BY <1>2, <1>5, <1>6 DEF Range
<1>8. ASSUME NEW id \in 1 .. ids - 1 PROVE Places(Words, id) \subseteq Occurs(log, n, id)
  BY <1>4, <1>8 DEF Places, Occurs
<1>9. ASSUME NEW id \in Sent
      PROVE  /\ Cardinality(Places(Words, id)) = PacketSize(id)
             /\ Max(Places(Words, id)) - Min(Places(Words, id)) = PacketSize(id) - 1
  <2>1. id \in 1 .. ids - 1 /\ id \notin Pending
    BY SentTraced, SentNotPending
  <2>2. PICK k \in Nat : Occurs(log, n, id) = Block(k, id)
    BY <1>2 DEF LogOf
  <2>3. Places(Words, id) = Occurs(log, n, id)
    BY <1>4, <1>8, <2>1 DEF Places, Occurs
  <2>4. PacketSize(id) \in Nat /\ PacketSize(id) > 0
    BY <2>1, EventTypes, SizeAssumption
  <2>5. Places(Words, id) = k + 1 .. k + PacketSize(id)
    BY <2>2, <2>3 DEF Block
  <2>. QED
    BY <2>4, <2>5, IntervalEnds
<1>10. ASSUME NEW id \in 1 .. ids - 1, id \in Range(file) \/ (id \in returned /\ trace_buffer)
       PROVE  id \in Sent
  <2>1. CASE id \in returned /\ trace_buffer
    <3>1. text = <<>>
      BY <2>1 DEF PInv, OneOutput, File, Stdout
    <3>2. Len(text) = 0
      BY <3>1
    <3>. QED
      BY <2>1, <3>2 DEF Sent
  <2>2. CASE id \in Range(file)
    <3>1. PICK i \in 1 .. Len(file) : file[i] = id
      BY <1>5, <2>2 DEF Range
    <3>2. i \in 1 .. n /\ log[i] = id
      BY <1>6, <3>1
    <3>3. id \notin Pending
      <4>. SUFFICES ASSUME NEW t \in Thread, pc[t] = "write", my[t] = id PROVE FALSE
        BY DEF Pending
      <4>1. Occurs(log, n, id) = Block(Len(file) + my_cursor[t], id)
        BY <1>2 DEF LogOf
      <4>2. i \in Block(Len(file) + my_cursor[t], id)
        BY <3>2, <4>1 DEF Occurs
      <4>3. my_cursor[t] \in Nat
        BY DEF Typed, Traced
      <4>. QED
        BY <1>5, <3>1, <4>2, <4>3 DEF Block
    <3>. QED
      BY <1>2, <3>2, <3>3 DEF LogOf
  <2>. QED
    BY <1>10, <2>1, <2>2
<1>11. ASSUME NEW id \in 1 .. ids - 1, id \in Range(text) PROVE Places(Words, id) = {}
  <2>1. DOMAIN text = 1 .. Len(text)
    BY LenProperties DEF Typed
  <2>2. PICK i \in 1 .. Len(text) : text[i] = id
    BY <1>11, <2>1 DEF Range
  <2>3. id \notin Sent /\ id \notin Pending
    BY <2>2, PrintedNotLogged
  <2>4. Occurs(log, n, id) = {}
    BY <1>2, <2>3 DEF LogOf, Occurs
  <2>. QED
    BY <1>8, <2>4
<1>. QED
  BY <1>7, <1>9, <1>10, <1>11, TypesBounded DEF PacketsWhole

\* The words in the file come in the order of the log.
LEMMA Ordered == PInv => ParentsFirst
<1>. SUFFICES ASSUME PInv, NEW id \in 1 .. ids - 1, NEW p \in event[id].after
     PROVE  /\ \A i \in Places(file, id) : \E j \in Places(file, p) : j < i
            /\ \A i \in Places(text, id) : p \in Range(text) => \E j \in Places(text, p) : j < i
  BY DEF ParentsFirst
<1>. Typed
  BY DEF PInv
<1>1. /\ DOMAIN file = 1 .. Len(file) /\ Len(file) \in Nat
      /\ DOMAIN text = 1 .. Len(text) /\ Len(text) \in Nat
  BY LenProperties DEF Typed
<1>2. ASSUME NEW i \in Places(file, id) PROVE \E j \in Places(file, p) : j < i
  <2>1. PICK n \in Nat : \E log \in [1 .. n -> 1 .. ids - 1] : LogOf(log, n)
    BY DEF PInv, Logged
  <2>2. PICK log \in [1 .. n -> 1 .. ids - 1] : LogOf(log, n)
    BY <2>1
  <2>3. i \in 1 .. Len(file) /\ log[i] = id
    BY <1>1, <1>2, <2>2 DEF Places, LogOf
  <2>4. i \in 1 .. n
    BY <2>2, <2>3, FileInLog
  <2>5. PICK j \in 1 .. i - 1 : log[j] = p
    BY <2>2, <2>3, <2>4 DEF LogOf
  <2>6. j \in 1 .. Len(file) /\ j < i
    BY <1>1, <2>3
  <2>7. file[j] = p
    BY <2>2, <2>5, <2>6 DEF LogOf
  <2>. QED
    BY <1>1, <2>6, <2>7 DEF Places
<1>3. ASSUME NEW i \in Places(text, id), p \in Range(text)
      PROVE  \E j \in Places(text, p) : j < i
  <2>1. i \in 1 .. Len(text) /\ text[i] = id
    BY <1>1, <1>3 DEF Places
  <2>2. \E j \in 1 .. Len(text) : text[j] = p
    BY <1>1, <1>3 DEF Range
  <2>3. PICK j \in 1 .. i - 1 : text[j] = p
    BY <2>1, <2>2 DEF PInv, TextOrdered
  <2>4. j \in 1 .. Len(text) /\ j < i
    BY <1>1, <2>1
  <2>. QED
    BY <1>1, <2>3, <2>4 DEF Places
<1>. QED
  BY <1>2, <1>3

\* What a pipeline traced is in the file when its end has returned.
LEMMA Lasting == PInv => Durable
<1>. SUFFICES ASSUME PInv, NEW id \in returned, event[id].kind.end, id \notin Range(text)
     PROVE  {id} \union event[id].after \subseteq Range(file)
  BY DEF Durable
<1>. Typed
  BY DEF PInv
<1>1. DOMAIN file = 1 .. Len(file) /\ DOMAIN text = 1 .. Len(text)
  BY LenProperties DEF Typed
<1>2. \A i \in 1 .. Len(text) : text[i] # id
  BY <1>1 DEF Range
<1>3. \A p \in {id} \union event[id].after : InFile(p)
  BY <1>2 DEF PInv, Flushed
<1>. QED
  BY <1>1, <1>3 DEF InFile, Range

\* The file is made of whole packets, none torn, overwritten or sent twice, and
\* the cursor stays within its 32 bits: what acquire_packet and flush do with
\* cursor and overage is right for any number of
\* threads, any size of the buffer and any events.
THEOREM PacketsCorrect == ASSUME Usage PROVE Spec => []PacketsWhole
<1>1. Init => PInv
  BY PacketsStart
<1>2. PInv /\ [Next]_vars => PInv'
  BY PacketsInductive
<1>. QED
  BY <1>1, <1>2, Whole, PTL DEF Spec

\* An event whose call was made after another's had returned comes after it in the
\* file, or on standard output, whoever flushed in between (flush, and printing
\* under halide_trace_file_lock).
THEOREM OrderCorrect == ASSUME Usage PROVE Spec => []ParentsFirst
<1>1. Init => PInv
  BY PacketsStart
<1>2. PInv /\ [Next]_vars => PInv'
  BY PacketsInductive
<1>. QED
  BY <1>1, <1>2, Ordered, PTL DEF Spec

\* When the call that ends a pipeline returns, its event and the events recorded
\* before it are in the file: halide_default_trace flushes at the end of a pipeline.
THEOREM DurableCorrect == ASSUME Usage PROVE Spec => []Durable
<1>1. Init => PInv
  BY PacketsStart
<1>2. PInv /\ [Next]_vars => PInv'
  BY PacketsInductive
<1>. QED
  BY <1>1, <1>2, Lasting, PTL DEF Spec

=============================================================================
