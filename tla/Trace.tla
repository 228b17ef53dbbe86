------------------------------- MODULE Trace -------------------------------
(***************************************************************************)
(* The tracing runtime (src/src/runtime/tracing.cpp): threads that record  *)
(* events through halide_default_trace, in binary packets that go through  *)
(* a shared buffer to the file HL_TRACE_FILE names, or as text on standard *)
(* output.  SharedExclusiveSpinLock lets the writers of packets share the  *)
(* buffer and keeps them out while one of them flushes it.                 *)
(*                                                                         *)
(* Sizes are in words of the buffer.  A packet is as many words as its     *)
(* size, each one holding the event's id.  A word that is no packet's,     *)
(* never written or flushed already, is 0.                                 *)
(***************************************************************************)
EXTENDS Naturals, FiniteSets, SequencesExt, FiniteSetsExt

CONSTANTS Thread, NULL,
          SIZE,         \* buffer_size
          Kinds,        \* the events there are: size of the packet, end of a pipeline
          SetTo,        \* what the program may have set halide_trace_file to before
          FRESH,        \* what cursor and overage can be in memory from malloc
          EVENTS        \* bound: the events that are traced

\* halide_trace_file: not asked for yet, standard output, a file.
Unset  == "unset"
Stdout == "stdout"
File   == "file"

ASSUME ThreadAssumption == IsFiniteSet(Thread)
ASSUME NullAssumption == NULL \notin Nat
ASSUME SizeAssumption == SIZE \in Nat \ {0} /\ Kinds \subseteq [size : 1 .. SIZE, end : BOOLEAN]
ASSUME EventsAssumption == EVENTS \in Nat /\ FRESH \subseteq Nat /\ SetTo \subseteq {Unset, Stdout, File}

VARIABLES trace_file,     \* halide_trace_file
          trace_buffer,   \* whether halide_trace_buffer is allocated
          env,            \* whether HL_TRACE_FILE is set
          lock,           \* SharedExclusiveSpinLock: the two bits and the count
          cursor, overage,
          buf,
          ids,            \* the next id
          event,          \* event[id]: size and kind, and the ids whose calls of
                          \* halide_trace had returned when this one was made
          pc,
          my,             \* the event a thread traces
          my_cursor,      \* where its packet is, NULL as long as it has none
          returned,       \* the ids halide_trace returned
          file,           \* the words written to the trace file
          text            \* the events printed

vars == <<trace_file, trace_buffer, env, lock, cursor, overage, buf, ids, event,
          pc, my, my_cursor, returned, file, text>>

opened == <<trace_file, trace_buffer, env>>
events == <<ids, event, my>>
counters == <<cursor, overage, buf>>
output == <<file, text>>

Free == [held |-> FALSE, waiting |-> FALSE, shared |-> 0]

Event == [kind : Kinds, after : SUBSET (1 .. EVENTS)]

PacketSize(id) == event[id].kind.size

Where == {"idle", "open", "print", "acquire", "claim", "over", "back_out", "write",
          "release", "request", "take", "flush", "reset", "unlock"}

Goes(t, from, to) == pc[t] = from /\ pc' = [pc EXCEPT ![t] = to]

Init ==
  /\ trace_file \in SetTo /\ trace_buffer = FALSE /\ env \in BOOLEAN
  /\ lock = Free
  /\ cursor = 0 /\ overage = 0
  /\ buf = [i \in 1 .. SIZE |-> 0]
  /\ ids = 1
  /\ event = <<>>
  /\ pc = [t \in Thread |-> "idle"]
  /\ my = [t \in Thread |-> 0]
  /\ my_cursor = [t \in Thread |-> NULL]
  /\ returned = {}
  /\ file = <<>> /\ text = <<>>

-----------------------------------------------------------------------------
(***************************************************************************)
(* halide_default_trace up to the packet.                                  *)
(***************************************************************************)
\* An id is taken before anything else.
Trace(t, kind) ==
  /\ ids <= EVENTS
  /\ Goes(t, "idle", "open")
  /\ my' = [my EXCEPT ![t] = ids]
  /\ event' = Append(event, [kind |-> kind, after |-> returned])
  /\ ids' = ids + 1
  /\ UNCHANGED <<opened, lock, counters, my_cursor, returned, output>>

\* halide_get_trace_file, under halide_trace_file_lock.
GetTraceFile(t) ==
  /\ trace_file' = IF trace_file # Unset THEN trace_file ELSE IF env THEN File ELSE Stdout
  /\ Goes(t, "open", IF trace_file' = File THEN "acquire" ELSE "print")
  /\ trace_buffer' = (trace_buffer \/ (trace_file = Unset /\ env))
  /\ IF trace_buffer' # trace_buffer
     THEN cursor' \in FRESH /\ overage' \in FRESH
     ELSE UNCHANGED <<cursor, overage>>
  /\ UNCHANGED <<env, lock, buf, events, my_cursor, returned, output>>

Returns(t) ==
  returned' = returned \union {my[t]} /\ my' = [my EXCEPT ![t] = 0]

\* The text is printed under halide_trace_file_lock.
PrintText(t) ==
  /\ Goes(t, "print", "idle")
  /\ text' = Append(text, my[t])
  /\ Returns(t)
  /\ UNCHANGED <<opened, lock, counters, ids, event, my_cursor, file>>

-----------------------------------------------------------------------------
(***************************************************************************)
(* TraceBuffer: acquire_packet and release_packet.                         *)
(***************************************************************************)
\* Slip: shared access is given while another thread has exclusive access.
NotWaiting == ~lock.waiting

\* acquire_shared's compare and swap expects both bits to be clear.
OnlyShared == ~lock.held /\ ~lock.waiting

\* The loop of acquire_shared is one step: an attempt that fails changes nothing.
AcquireShared(t) ==
  /\ Goes(t, "acquire", "claim")
  /\ OnlyShared
  /\ lock' = [lock EXCEPT !.shared = @ + 1]
  /\ UNCHANGED <<opened, counters, events, my_cursor, returned, output>>

Fits(at, size) == at + size <= SIZE

ClaimSpace(t) ==
  LET size == PacketSize(my[t])
  IN  /\ Goes(t, "claim", IF Fits(cursor, size) THEN "write" ELSE "over")
      /\ my_cursor' = [my_cursor EXCEPT ![t] = IF Fits(cursor, size) THEN cursor ELSE NULL]
      /\ cursor' = cursor + size
      /\ UNCHANGED <<opened, lock, overage, buf, events, returned, output>>

\* Slip: what a request that failed added is not noted.
NotNoted(t) == overage

Noted(t) == overage + PacketSize(my[t])

AddOverage(t) ==
  /\ Goes(t, "over", "back_out")
  /\ overage' = Noted(t)
  /\ UNCHANGED <<opened, lock, cursor, buf, events, my_cursor, returned, output>>

ReleaseOne == lock' = [lock EXCEPT !.shared = @ - 1]

\* The request failed: flush, and try again.
BackOut(t) ==
  /\ Goes(t, "back_out", "request")
  /\ ReleaseOne
  /\ UNCHANGED <<opened, counters, events, my_cursor, returned, output>>

WritePacket(t) ==
  /\ Goes(t, "write", "release")
  /\ buf' = [i \in 1 .. SIZE |->
               IF i \in my_cursor[t] + 1 .. my_cursor[t] + PacketSize(my[t]) THEN my[t] ELSE buf[i]]
  /\ UNCHANGED <<opened, lock, cursor, overage, events, my_cursor, returned, output>>

\* Slip: the end of a pipeline is left in the buffer.
NeverEnds(id) == FALSE

Ends(id) == event[id].kind.end

ReleasePacket(t) ==
  /\ Goes(t, "release", IF Ends(my[t]) THEN "request" ELSE "idle")
  /\ ReleaseOne
  /\ IF Ends(my[t]) THEN UNCHANGED <<returned, my, my_cursor>>
     ELSE Returns(t) /\ my_cursor' = [my_cursor EXCEPT ![t] = NULL]
  /\ UNCHANGED <<opened, counters, ids, event, output>>

-----------------------------------------------------------------------------
(***************************************************************************)
(* TraceBuffer: flush.                                                     *)
(***************************************************************************)
RequestExclusive(t) ==
  /\ Goes(t, "request", "take")
  /\ lock' = [lock EXCEPT !.waiting = TRUE]
  /\ UNCHANGED <<opened, counters, events, my_cursor, returned, output>>

\* Slip: the writers that still hold the buffer are not waited for.
SharedIgnored == lock.waiting /\ ~lock.held

\* The compare and swap that takes exclusive access; it clears the waiting bit.
OnlyWaiting == lock.waiting /\ ~lock.held /\ lock.shared = 0

\* Slip: exclusive access is asked for once.
AskedOnce == "take"

\* An attempt that fails asks again: another thread may have cleared the bit.
Retry == "request"

TakeExclusive(t) ==
  /\ pc[t] = "take"
  /\ IF OnlyWaiting
     THEN lock' = [lock EXCEPT !.held = TRUE, !.waiting = FALSE] /\ Goes(t, "take", "flush")
     ELSE Goes(t, "take", Retry) /\ UNCHANGED lock
  /\ UNCHANGED <<opened, counters, events, my_cursor, returned, output>>

\* The first n words of the buffer's memory.
FirstWords(n) == [i \in 1 .. n |-> IF i > SIZE THEN 0 ELSE buf[i]]

\* A write that fails or is short fails an assertion, and the program ends.
WriteOut(t) ==
  /\ Goes(t, "flush", "reset")
  /\ cursor' = IF cursor = 0 THEN 0 ELSE cursor - overage
  /\ file' = file \o FirstWords(cursor')
  /\ UNCHANGED <<opened, lock, overage, buf, events, my_cursor, returned, text>>

Reset(t) ==
  /\ Goes(t, "reset", "unlock")
  /\ overage' = IF cursor = 0 THEN overage ELSE 0
  /\ cursor' = 0
  /\ buf' = [i \in 1 .. SIZE |-> 0]
  /\ UNCHANGED <<opened, lock, events, my_cursor, returned, output>>

\* Back to acquire_packet, or out of halide_default_trace.
ReleaseExclusive(t) ==
  /\ Goes(t, "unlock", IF my_cursor[t] = NULL THEN "acquire" ELSE "idle")
  /\ lock' = [lock EXCEPT !.held = FALSE]
  /\ my_cursor' = [my_cursor EXCEPT ![t] = NULL]
  /\ IF my_cursor[t] = NULL THEN UNCHANGED <<returned, my>> ELSE Returns(t)
  /\ UNCHANGED <<opened, counters, ids, event, output>>

-----------------------------------------------------------------------------
Step(t) ==
  \/ GetTraceFile(t) \/ PrintText(t)
  \/ AcquireShared(t) \/ ClaimSpace(t) \/ AddOverage(t) \/ BackOut(t)
  \/ WritePacket(t) \/ ReleasePacket(t)
  \/ RequestExclusive(t) \/ TakeExclusive(t) \/ WriteOut(t) \/ Reset(t) \/ ReleaseExclusive(t)

\* halide_shutdown_trace, at exit: the file is closed, the buffer freed.
ShutDown ==
  /\ trace_file = File /\ \A t \in Thread : pc[t] = "idle"
  /\ trace_file' = Stdout
  /\ trace_buffer' = FALSE
  /\ UNCHANGED <<env, lock, counters, events, pc, my_cursor, returned, output>>

Next ==
  \/ \E t \in Thread :
       \/ Step(t)
       \/ \E kind \in Kinds : Trace(t, kind)
  \/ ShutDown

Spec == Init /\ [][Next]_vars

\* A thread that runs gets its turns.
FairSpec == Spec /\ \A t \in Thread : WF_vars(Step(t))

-----------------------------------------------------------------------------
(***************************************************************************)
(* Properties.                                                             *)
(***************************************************************************)
\* Every variable keeps its type; the cursor is at most a failed request for
\* each thread past the end of the buffer, which keeps it in its 32 bits.
TypeOK ==
  /\ trace_file \in {Unset, Stdout, File} /\ {trace_buffer, env} \subseteq BOOLEAN
  /\ lock \in [held : BOOLEAN, waiting : BOOLEAN, shared : 0 .. Cardinality(Thread)]
  /\ cursor \in 0 .. SIZE + Cardinality(Thread) * SIZE
  /\ overage \in 0 .. Cardinality(Thread) * SIZE
  /\ buf \in [1 .. SIZE -> 0 .. EVENTS]
  /\ ids \in 1 .. EVENTS + 1 /\ event \in Seq(Event)
  /\ pc \in [Thread -> Where]
  /\ my \in [Thread -> 0 .. EVENTS]
  /\ my_cursor \in [Thread -> Nat \union {NULL}]
  /\ returned \subseteq 1 .. EVENTS
  /\ file \in Seq(0 .. EVENTS) /\ text \in Seq(1 .. EVENTS)

Exclusive(t) == pc[t] \in {"flush", "reset", "unlock"}
Sharing(t)   == pc[t] \in {"claim", "over", "back_out", "write", "release"}

\* The buffer is flushed by one thread at a time, while no other is between
\* claiming space in it and having written there, and it is there as long as a
\* thread may use it.
LockExcludes ==
  \A t, u \in Thread :
    /\ Exclusive(t) => t = u \/ ~(Exclusive(u) \/ Sharing(u))
    /\ Exclusive(t) \/ Sharing(t) => trace_buffer

\* What requests that failed added to the cursor and have not noted, word by word.
Unnoted == {w \in Thread \X (1 .. SIZE) : pc[w[1]] = "over" /\ w[2] <= PacketSize(my[w[1]])}

\* The words that were claimed by requests that did not fail.
Claimed ==
  LET failed == overage + Cardinality(Unnoted)
  IN  IF cursor < failed THEN 0 ELSE cursor - failed

\* The words in the file, and in the part of the buffer that is yet to be written.
Words == file \o IF \E t \in Thread : pc[t] = "reset" THEN <<>> ELSE FirstWords(Claimed)

Places(seq, x) == {i \in DOMAIN seq : seq[i] = x}

\* The file is made of whole packets, one for each event, none of them torn,
\* written over, sent twice or with words between them that are no packet's: of
\* an event that was recorded all words are there, next to each other.
PacketsWhole ==
  /\ TypeOK
  /\ 0 \notin Range(file)
  /\ \A id \in 1 .. ids - 1 :
       LET at == Places(Words, id)
       IN  /\ id \in Range(file) \/ (id \in returned /\ trace_buffer) =>
                Cardinality(at) = PacketSize(id) /\ Max(at) - Min(at) = PacketSize(id) - 1
           /\ id \in Range(text) => at = {}

\* An event whose call was made after another call had returned, as its parent's
\* had, comes later in the file, or on standard output, whichever thread flushed
\* in between.
ParentsFirst ==
  \A id \in 1 .. ids - 1 : \A p \in event[id].after :
    /\ \A i \in Places(file, id) : \E j \in Places(file, p) : j < i
    /\ \A i \in Places(text, id) : p \in Range(text) => \E j \in Places(text, p) : j < i

\* When the call that ends a pipeline returns, its event and all events recorded
\* before it are in the file, also if other pipelines run and fill the buffer.
Durable ==
  \A id \in returned :
    event[id].kind.end /\ id \notin Range(text) => {id} \union event[id].after \subseteq Range(file)

\* Every call of halide_trace returns: no thread waits for the lock or for space
\* for ever.
CallsReturn == \A t \in Thread : pc[t] # "idle" ~> pc[t] = "idle"
=============================================================================
