---------------------------- MODULE HostDevCopies ---------------------------
(***************************************************************************)
(* The lowering pass that injects host/device copies, allocations and      *)
(* dirty bits around the uses of one buffer (src/src/InjectHostDevBuffer   *)
(* Copies.cpp), composed with the runtime that executes what it injected.  *)
(*                                                                         *)
(* The pass walks a statement leaf by leaf and keeps what it knows of the  *)
(* buffer, here state; the generated code acts on the real buffer, in m.   *)
(* A behaviour is one execution of one program: each step picks the next   *)
(* leaf, lets the pass handle it and runs the result.  At an IfThenElse    *)
(* the program runs one case, and the pass also walks the other one, which *)
(* nothing runs: others holds its states, innermost case last.             *)
(***************************************************************************)
EXTENDS DeviceInterface, SequencesExt

CONSTANTS b,            \* the buffer
          FLIPS_ANYWHERE, \* whether programs with several devices branch or call extern stages
          FLIP_WRITES,  \* whether the leaf that moves a buffer to another device may write it
          LEAVES,       \* bound: the leaves of a program
          DEPTH         \* bound: the nesting of IfThenElse

ASSUME ProgramAssumption ==
  Buffer = {b} /\ LEAVES \in Nat /\ DEPTH \in Nat /\ {FLIPS_ANYWHERE, FLIP_WRITES} \subseteq BOOLEAN

\* FlagState, and DeviceAPI::None.
Unknown == "unknown"
False   == "false"
True    == "true"
None    == "none"

\* The devices are a few, and none is the host; their drivers can allocate.
ASSUME DevicesAssumption ==
  {Host, None} \cap Interface = {} /\ IsFiniteSet(Interface) /\ Handle # {}

VARIABLES m,            \* the machine state
          state,        \* what the pass knows where the program is
          others,       \* what it knows in the cases that are not run
          external,     \* is_external: an input or output of the pipeline
          places,       \* devices_touched, over the program: Host, interfaces
          externs,      \* devices_touched_by_extern
          phase,
          leaves,       \* how many may follow
          current,      \* no leaf has found old content, or none, where it touches
          refused       \* a call failed although the driver could do it

vars == <<m, state, others, external, places, externs, phase, leaves,
          current, refused>>

program == <<external, places, externs>>

FlagState == {Unknown, False, True}

State == [device_dirty : FlagState, host_dirty : FlagState,
          device_allocation_exists : FlagState, current_device : Interface \union {None}]

\* What the leaf does to the buffer, as FindBufferUsage sees it.
Leaf == {u \in [touched : SUBSET ({Host} \union Interface),
                writing : SUBSET ({Host} \union Interface),
                extern  : SUBSET ({Host} \union Interface)] :
           u.writing \subseteq u.touched}

Starting == "starting"  \* before the combined allocation
Running == "running"
Ending  == "ending"     \* after the last use, or an assertion on a result failed
Done    == "done"       \* the buffer is out of scope

Devices == (places \union externs) \ {Host}

\* The kind of allocation that is made for an internal buffer.
Combined == ~external /\ Host \in places /\ Cardinality(places) = 2

touched_on_one_device ==
  Host \notin places /\ Cardinality(places) = 1 /\ externs \in {{}, places}

-----------------------------------------------------------------------------
(***************************************************************************)
(* The pass: do_copies and union_with.                                     *)
(***************************************************************************)
\* Slip: what holds after the case that was walked last is believed.
TrustsLast(s, t) == t

union_with(s, t) ==
  LET same == s.device_allocation_exists = t.device_allocation_exists
                /\ s.current_device = t.current_device
  IN  [device_dirty |-> IF s.device_dirty = t.device_dirty THEN s.device_dirty ELSE Unknown,
       host_dirty |-> IF s.host_dirty = t.host_dirty THEN s.host_dirty ELSE Unknown,
       device_allocation_exists |-> IF same THEN s.device_allocation_exists ELSE Unknown,
       current_device |-> IF same THEN s.current_device ELSE None]

touching_device(u) ==
  IF u.touched \subseteq {Host} THEN None ELSE CHOOSE d \in u.touched \ {Host} : TRUE

\* Slip: a buffer that changes devices is not moved.
NeverFlips(s, u) == FALSE

needs_device_flip(s, u) ==
  /\ s.device_allocation_exists # False
  /\ touching_device(u) # None
  /\ s.current_device \notin {touching_device(u), None}
  /\ ~external

\* Slip: only what is known to be dirty is copied.
IfKnownDirty(s, u) == touching_device(u) # None /\ (s.host_dirty = True \/ needs_device_flip(s, u))

needs_copy_to_device(s, u) ==
  touching_device(u) # None /\ (s.host_dirty # False \/ needs_device_flip(s, u))

needs_device_malloc(s, u) ==
  /\ touching_device(u) # None
  /\ s.device_allocation_exists # True
  /\ ~needs_copy_to_device(s, u)

\* Slip: the newest content is not fetched before a flip.
IfTouched(s, u) == Host \in u.touched /\ s.device_dirty # False

needs_copy_to_host(s, u) ==
  (Host \in u.touched \/ needs_device_flip(s, u)) /\ s.device_dirty # False

needs_host_dirty(s, u) == Host \in u.writing /\ s.host_dirty # True

written_on_device(u) ==
  Cardinality(u.writing) > IF Host \in u.touched THEN 1 ELSE 0

needs_device_dirty(s, u) == written_on_device(u) /\ s.device_dirty # True

\* What the pass knows when the leaf runs, and after it.
Before(s, u) ==
  LET gets == needs_copy_to_device(s, u) \/ needs_device_malloc(s, u)
      flips == needs_device_flip(s, u)
  IN  [device_dirty |-> IF needs_copy_to_host(s, u) \/ flips THEN False ELSE s.device_dirty,
       host_dirty |-> IF needs_copy_to_device(s, u) THEN False ELSE s.host_dirty,
       device_allocation_exists |-> IF gets THEN True ELSE IF flips THEN False
                                    ELSE s.device_allocation_exists,
       current_device |-> IF gets THEN touching_device(u) ELSE s.current_device]

Marks(s, u) ==
  LET t == Before(s, u)
  IN  [t EXCEPT !.host_dirty = IF needs_host_dirty(s, u) THEN True ELSE @,
                !.device_dirty = IF needs_device_dirty(s, u) THEN True ELSE @]

\* An extern stage may have changed the dirty bits and the allocation.
After(s, u) ==
  LET t == Marks(s, u)
  IN  IF u.extern = {} THEN t
      ELSE [host_dirty |-> IF needs_host_dirty(s, u) THEN True ELSE Unknown,
            device_dirty |-> IF needs_device_dirty(s, u) THEN True ELSE Unknown,
            device_allocation_exists |-> Unknown, current_device |-> None]

-----------------------------------------------------------------------------
(***************************************************************************)
(* What the generated code does.                                           *)
(***************************************************************************)
\* Calls of the runtime, one after the other; each one is asserted to succeed.
Flip(n, s, u) ==
  IF needs_device_flip(s, u) THEN halide_device_free(SetBit(n, b, "host_dirty", TRUE), b) ELSE {Ok(n)}

Prologue(s, u) ==
  Then(IF needs_copy_to_host(s, u) THEN halide_copy_to_host(m, b) ELSE {Ok(m)}, LAMBDA n1 :
  Then(Flip(n1, s, u), LAMBDA n2 :
    IF needs_copy_to_device(s, u) THEN copy_to_device_already_locked(n2, b, touching_device(u))
    ELSE IF needs_device_malloc(s, u) THEN halide_device_malloc(n2, b, touching_device(u))
    ELSE {Ok(n2)}))

Has(n, place) ==
  IF place = Host THEN n.buf[b].host ELSE n.buf[b].device_interface = place

Memory(place) == IF place = Host THEN Host ELSE Device

\* Where the leaf touches the buffer there is memory with the newest content.
FindsCurrent(n, u) ==
  \A p \in u.touched : Has(n, p) /\ (b \in n.lost \/ Memory(p) \in n.fresh[b])

\* The leaf may write where it says, and need not.
Bodies(n, u) ==
  {n} \union {[n EXCEPT !.fresh[b] = {Memory(p)}, !.lost = {}] : p \in u.writing}

\* Marked dirty, as for a flip, lest it be taken for what new device memory holds.
Kept(n) == SetBit(n, b, "host_dirty", n.buf[b].host /\ b \notin n.lost)

\* An extern stage that reads may move the buffer to where it wants it, and may
\* give the device memory back; one that writes may set the dirty bit itself.
ByExtern(n, u) ==
  LET Results(R) == {r.m : r \in {q \in R : q.err = Success}}
      moved == (IF n.buf[b].host THEN Results(halide_copy_to_host(n, b)) ELSE {})
                 \union (UNION {Results(copy_to_device_already_locked(n, b, i)) : i \in u.extern \ {Host}})
                 \union (IF n.buf[b].device_dirty THEN {} ELSE Results(halide_device_free(Kept(n), b)))
      bit == IF Host \in u.writing THEN "host_dirty" ELSE "device_dirty"
  IN  IF u.extern = {} THEN {n}
      ELSE IF u.touched = {} THEN {n} \union moved
      ELSE {n} \union (IF n.fresh[b] = {Memory(p) : p \in u.writing} THEN {SetBit(n, b, bit, TRUE)} ELSE {})

\* The program gives up the content of a buffer after its last use.
GivesUp(n) == [n EXCEPT !.lost = {b}]

\* Slip: the host half of a combined allocation is forgotten.
FreeDevice(n) == halide_device_free(GivesUp(n), b)

Free(n) == IF Combined THEN halide_device_and_host_free(GivesUp(n), b)
           ELSE halide_device_free(GivesUp(n), b)

Epilogue(n, s, u) ==
  LET k == IF needs_host_dirty(s, u) THEN SetBit(n, b, "host_dirty", TRUE) ELSE n
  IN  IF needs_device_dirty(s, u) THEN SetBit(k, b, "device_dirty", TRUE) ELSE k

\* The programs considered: a leaf touches one device at most, and writes only
\* in one place; a stage written in C is a leaf of its own.
Allowed(u) ==
  /\ u.touched \subseteq places
  /\ Cardinality(u.touched \ {Host}) <= 1
  /\ u.writing # {} => Cardinality(u.touched) = 1
  /\ u.extern # {} => /\ Cardinality(u.extern) = 1 /\ u.extern \subseteq externs
                      /\ u.touched \in {{}, u.extern} /\ u.writing = u.touched
                      /\ FLIPS_ANYWHERE \/ Cardinality(Devices) <= 1
  /\ u.extern = {} => u.touched # {}

\* InjectCombinedAllocation: the allocation is before all of the program.
AllocateBoth ==
  /\ phase = Starting
  /\ \E r \in halide_device_and_host_malloc(m, b, CHOOSE d \in places \ {Host} : TRUE) :
       m' = r.m /\ phase' = IF r.err = Success THEN Running ELSE Ending
  /\ UNCHANGED <<state, others, program, leaves, current, refused>>

RunLeaf(u, last) ==
  /\ phase = Running /\ leaves > 0
  /\ Allowed(u)
  /\ u.writing # {} /\ needs_device_flip(state, u) => FLIP_WRITES
  /\ last => others = <<>> /\ ~external
  /\ \E r \in Prologue(state, u) :
       IF r.err # Success
       THEN /\ m' = r.m /\ phase' = Ending
            /\ refused' = (refused \/ Success \notin {q.err : q \in Prologue(state, u)})
            /\ UNCHANGED <<state, current>>
       ELSE /\ current' = (current /\ FindsCurrent(r.m, u))
            /\ \E n \in UNION {ByExtern(k, u) : k \in Bodies(r.m, u)} :
               \E f \in IF last THEN Free(n) ELSE {Ok(n)} :
                 /\ m' = IF f.err = Success THEN Epilogue(f.m, state, u) ELSE f.m
                 /\ phase' = IF last \/ f.err # Success THEN Ending ELSE Running
            /\ state' = After(state, u)
            /\ UNCHANGED refused
  /\ leaves' = leaves - 1
  /\ UNCHANGED <<others, program>>

-----------------------------------------------------------------------------
EnterIf ==
  /\ phase = Running /\ Len(others) < DEPTH
  /\ FLIPS_ANYWHERE \/ Cardinality(Devices) <= 1
  /\ others' = Append(others, state)
  /\ UNCHANGED <<m, state, program, phase, leaves, current, refused>>

\* The pass handles a leaf of the case that is not run.
WalkOther(u) ==
  /\ phase = Running /\ others # <<>> /\ leaves > 0
  /\ Allowed(u)
  /\ others' = Append(Front(others), After(Last(others), u))
  /\ leaves' = leaves - 1
  /\ UNCHANGED <<m, state, program, phase, current, refused>>

LeaveIf(last) ==
  /\ phase = Running /\ others # <<>>
  /\ last => Len(others) = 1 /\ ~external
  /\ others' = Front(others)
  /\ state' = union_with(state, Last(others))
  /\ \E f \in IF last THEN Free(m) ELSE {Ok(m)} :
       m' = f.m /\ phase' = IF last \/ f.err # Success THEN Ending ELSE Running
  /\ UNCHANGED <<program, leaves, current, refused>>

\* The end of the scope: the destructor runs, after an error as well.
End ==
  /\ phase \in {Running, Ending}
  /\ phase = Running => others = <<>>
  /\ \E r \in IF external THEN {Ok(m)} ELSE Free(m) : m' = r.m
  /\ phase' = Done
  /\ UNCHANGED <<state, others, program, leaves, current, refused>>

-----------------------------------------------------------------------------
\* The buffers a caller can pass: with no content, or with one that the dirty
\* bits locate; two clean memories hold the same.
Given ==
  LET With(i, hd, dd, where) ==
        LET h == CHOOSE h \in Handle : TRUE
        IN  [buf |-> [x \in {b} |-> [host |-> TRUE, device |-> IF i = NULL THEN NULL ELSE h,
                                     device_interface |-> i, host_dirty |-> hd, device_dirty |-> dd]],
             live |-> IF i = NULL THEN {} ELSE {h},
             refs |-> [j \in Interface |-> IF i = j THEN 1 ELSE 0],
             fresh |-> [x \in {b} |-> where], lost |-> IF where = {} THEN {b} ELSE {}]
  IN  {With(i, FALSE, FALSE, {}) : i \in Devices \union {NULL}}
        \union {With(i, TRUE, FALSE, {Host}) : i \in Devices \union {NULL}}
        \union {With(i, FALSE, FALSE, {Host, Device}) : i \in Devices}
        \union {With(i, FALSE, TRUE, {Device}) : i \in Devices}

\* A fresh allocation has a host part unless one device alone touches it.
Empty(withHost) ==
  [buf |-> [x \in {b} |-> [NoBuffer EXCEPT !.host = withHost]], live |-> {},
   refs |-> [i \in Interface |-> 0], fresh |-> [x \in {b} |-> {}], lost |-> {b}]

NothingKnown == [device_dirty |-> Unknown, host_dirty |-> Unknown,
                 device_allocation_exists |-> Unknown, current_device |-> None]

Init ==
  /\ external \in BOOLEAN
  /\ places \in SUBSET ({Host} \union Interface)
  /\ externs \in SUBSET ({Host} \union Interface)
  /\ places \subseteq {Host} => externs # {}
  /\ external \/ ~FLIPS_ANYWHERE => Cardinality(Devices) <= 1 \/ (~external /\ externs = {})
  /\ IF external
     THEN /\ m \in Given
          /\ state = NothingKnown
     ELSE /\ state = [device_dirty |-> False, host_dirty |-> False,
                      device_allocation_exists |-> False, current_device |-> None]
          /\ m = Empty(~Combined /\ ~touched_on_one_device)
  /\ phase = IF Combined THEN Starting ELSE Running
  /\ others = <<>>
  /\ leaves = LEAVES
  /\ current = TRUE
  /\ refused = FALSE

Next ==
  \/ \E u \in Leaf : WalkOther(u) \/ \E last \in BOOLEAN : RunLeaf(u, last)
  \/ AllocateBoth \/ EnterIf
  \/ \E last \in BOOLEAN : LeaveIf(last)
  \/ End

Spec == Init /\ [][Next]_vars

-----------------------------------------------------------------------------
(***************************************************************************)
(* Properties.                                                             *)
(***************************************************************************)
\* Every variable keeps its type.
TypeOK ==
  /\ m \in Machine
  /\ state \in State /\ others \in Seq(State)
  /\ external \in BOOLEAN
  /\ {places, externs} \subseteq SUBSET ({Host} \union Interface)
  /\ phase \in {Starting, Running, Ending, Done}
  /\ leaves \in Nat
  /\ {current, refused} \subseteq BOOLEAN

\* Every leaf, on the host or on a device, finds memory there, and in it what was
\* last written to the buffer, whichever cases of conditionals were taken before
\* and whatever extern stages did.
TouchesCurrent == current

\* The calls the pass injects are ones the runtime can carry out: they fail only
\* if a driver does.
NeverRefused == ~refused

Means(flag, bit) == (flag = True => bit) /\ (flag = False => ~bit)

\* What the pass believes of the buffer is so when the program gets there, on
\* every path; a combined allocation may exist before it knows.
StateSound ==
  /\ TypeOK
  /\ phase = Running =>
       LET B == m.buf[b]
       IN  /\ Means(state.device_dirty, B.device_dirty)
           /\ Means(state.host_dirty, B.host_dirty)
           /\ state.device_allocation_exists = True => B.device_interface = state.current_device
           /\ state.device_allocation_exists = False => B.device = NULL \/ Combined

\* Both dirty bits are never set, so that no copy is ever refused for that.
NotBothDirty == ~(m.buf[b].host_dirty /\ m.buf[b].device_dirty)

\* The memory of an internal buffer is freed when it goes out of scope, whether
\* the program ended or failed, and no reference to a module is left.
Released ==
  phase = Done /\ ~external =>
    /\ m.live = {} /\ \A i \in Interface : m.refs[i] = 0
    /\ Combined => ~m.buf[b].host
=============================================================================
