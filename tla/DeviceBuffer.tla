---------------------------- MODULE DeviceBuffer ----------------------------
(***************************************************************************)
(* A program that uses buffers through the device interface.  It keeps to  *)
(* what HalideRuntime.h asks of it: it writes to a memory of a buffer only *)
(* if the other one is not dirty and sets the dirty bit, it frees what it  *)
(* allocated, detaches what it wrapped and releases what it cropped, and   *)
(* while a cropped view lives it neither writes to nor frees its source.   *)
(*                                                                         *)
(* A call is one step: copies and crops hold device_copy_mutex, and a      *)
(* halide_buffer_t has one user at a time.                                 *)
(***************************************************************************)
EXTENDS DeviceInterface

CONSTANTS SelfCopy,     \* whether a buffer may be copied to itself
          MarksHost,    \* whether the program marks host memory dirty (see Marked)
          MAX_REFS      \* bound: references to a module that a failed crop leaks

ASSUME BufferAssumption == IsFiniteSet(Buffer) /\ NULL \notin Buffer
ASSUME CopyAssumption == {SelfCopy, MarksHost} \subseteq BOOLEAN /\ MAX_REFS \in Nat

VARIABLES m,            \* the machine state
          role,         \* what each buffer's memories are to the program
          view,         \* view[b]: the buffer b is a cropped view of
          read          \* what the last upload or download handed over: the
                        \* memory's content is the buffer's, or it is not

vars == <<m, role, view, read>>

Plain   == "plain"      \* host memory of the program's, device memory of Halide's
Joint   == "joint"      \* both from halide_device_and_host_malloc
Wrapped == "wrapped"    \* a native device handle
View    == "view"       \* a cropped view of another buffer

Init ==
  /\ \E withHost \in SUBSET Buffer :
       m = [buf |-> [b \in Buffer |-> [NoBuffer EXCEPT !.host = b \in withHost]],
            live |-> {}, refs |-> [i \in Interface |-> 0],
            fresh |-> [b \in Buffer |-> {}], lost |-> Buffer]
  /\ role = [b \in Buffer |-> Plain]
  /\ view = [b \in Buffer |-> NULL]
  /\ read = TRUE

\* Not a view and without one.
Alone(b) == view[b] = NULL /\ \A c \in Buffer : view[c] # b

\* Two clean memories are taken to hold the same, whether or not the device
\* memory was ever filled: before a buffer whose host memory has content gets
\* device memory, the program marks the host dirty.
Marked(b) ==
  m.buf[b].device = NULL /\ m.buf[b].host /\ b \notin m.lost => m.buf[b].host_dirty

Becomes(R) == \E r \in R : m' = r.m

\* The program writes b's memory: that is now the newest content of b.
Written(b, memory, bit) ==
  m' = [SetBit(m, b, bit, TRUE) EXCEPT !.fresh[b] = {memory}, !.lost = @ \ {b}]

WriteHost(b) ==
  /\ Alone(b) /\ m.buf[b].host /\ ~m.buf[b].device_dirty
  /\ Written(b, Host, "host_dirty")
  /\ UNCHANGED <<role, view, read>>

RunKernel(b) ==
  /\ Alone(b) /\ m.buf[b].device # NULL /\ ~m.buf[b].host_dirty
  /\ Written(b, Device, "device_dirty")
  /\ UNCHANGED <<role, view, read>>

\* The memory a copy was asked for holds what was last written.
Handed(r, b, memory) == b \in r.m.lost \/ memory \in r.m.fresh[b]

CopyToHost(b) ==
  /\ m.buf[b].host
  /\ \E r \in halide_copy_to_host(m, b) :
       m' = r.m /\ read' = (r.err = Success => Handed(r, b, Host))
  /\ UNCHANGED <<role, view>>

CopyToDevice(b, i) ==
  /\ view[b] = NULL /\ (MarksHost => Marked(b))
  /\ m.buf[b].host \/ m.buf[b].device # NULL
  /\ \E r \in copy_to_device_already_locked(m, b, i) :
       m' = r.m /\ read' = (r.err = Success => Handed(r, b, Device))
  /\ UNCHANGED <<role, view>>

DeviceMalloc(b, i) ==
  /\ Alone(b) /\ (MarksHost => Marked(b))
  /\ Becomes(halide_device_malloc(m, b, i))
  /\ UNCHANGED <<role, view, read>>

\* A program that frees memory whose dirty bit is set gives its content up.
DeviceFree(b) ==
  /\ Alone(b) /\ role[b] \in {Plain, Joint}
  /\ Becomes(halide_device_free([m EXCEPT !.lost = IF m.buf[b].device_dirty THEN @ \union {b} ELSE @], b))
  /\ UNCHANGED <<role, view, read>>

DeviceAndHostMalloc(b, i) ==
  /\ Alone(b) /\ role[b] = Plain /\ ~m.buf[b].host /\ m.buf[b].device = NULL
  /\ b \in m.lost
  /\ \E r \in halide_device_and_host_malloc(m, b, i) :
       m' = r.m /\ role' = IF r.err = Success THEN [role EXCEPT ![b] = Joint] ELSE role
  /\ UNCHANGED <<view, read>>

DeviceAndHostFree(b) ==
  /\ Alone(b) /\ role[b] = Joint
  /\ Becomes(halide_device_and_host_free([m EXCEPT !.lost = @ \union {b}], b))
  /\ role' = IF m'.buf[b].device = NULL THEN [role EXCEPT ![b] = Plain] ELSE role
  /\ UNCHANGED <<view, read>>

WrapNative(b, h, i) ==
  /\ Alone(b) /\ role[b] = Plain /\ m.buf[b].device = NULL
  /\ MarksHost => Marked(b)
  /\ \A c \in Buffer : m.buf[c].device # h
  /\ \E r \in halide_device_wrap_native(m, b, h, i) :
       m' = r.m /\ role' = IF r.err = Success THEN [role EXCEPT ![b] = Wrapped] ELSE role
  /\ UNCHANGED <<view, read>>

DetachNative(b) ==
  /\ Alone(b) /\ role[b] = Wrapped
  /\ Becomes(halide_device_detach_native([m EXCEPT !.lost = IF m.buf[b].device_dirty THEN @ \union {b} ELSE @], b))
  /\ role' = IF m'.buf[b].device = NULL THEN [role EXCEPT ![b] = Plain] ELSE role
  /\ UNCHANGED <<view, read>>

\* A destination has no content to rely on after a copy that failed.
BufferCopy(src, i, dst) ==
  /\ SelfCopy \/ src # dst
  /\ Alone(dst) /\ (m.buf[src].host \/ m.buf[src].device # NULL)
  /\ \E r \in halide_buffer_copy(m, src, i, dst) :
       m' = IF r.err = Success THEN r.m ELSE [r.m EXCEPT !.lost = @ \union {dst}]
  /\ UNCHANGED <<role, view, read>>

\* The view starts as a copy of the source without its device memory, and is
\* thrown away if the crop fails.
Crop(src, dst) ==
  /\ view[src] = NULL /\ Alone(dst) /\ src # dst
  /\ m.buf[src].device # NULL /\ m.buf[dst] = NoBuffer /\ dst \in m.lost
  /\ m.refs[m.buf[src].device_interface] < MAX_REFS
  /\ LET copied == [m EXCEPT !.buf[dst] = [m.buf[src] EXCEPT !.device = NULL, !.device_interface = NULL],
                             !.fresh[dst] = m.fresh[src],
                             !.lost = IF src \in @ THEN @ ELSE @ \ {dst}]
     IN  \E r \in halide_device_crop(copied, src, dst) :
           IF r.err = Success
           THEN /\ m' = r.m
                /\ role' = [role EXCEPT ![dst] = View] /\ view' = [view EXCEPT ![dst] = src]
           ELSE /\ m' = [m EXCEPT !.refs = r.m.refs]
                /\ UNCHANGED <<role, view>>
  /\ UNCHANGED read

ReleaseCrop(b) ==
  /\ role[b] = View
  /\ \E r \in halide_device_release_crop(m, b) :
       m' = [r.m EXCEPT !.buf[b] = NoBuffer, !.fresh[b] = {}, !.lost = @ \union {b}]
  /\ role' = [role EXCEPT ![b] = Plain] /\ view' = [view EXCEPT ![b] = NULL]
  /\ UNCHANGED read

Next ==
  \/ \E b \in Buffer :
       \/ WriteHost(b) \/ RunKernel(b) \/ CopyToHost(b)
       \/ DeviceFree(b) \/ DeviceAndHostFree(b) \/ DetachNative(b) \/ ReleaseCrop(b)
       \/ \E i \in Interface \union {NULL} : CopyToDevice(b, i)
       \/ \E i \in Interface :
            \/ DeviceMalloc(b, i) \/ DeviceAndHostMalloc(b, i)
            \/ \E h \in Native : WrapNative(b, h, i)
  \/ \E src, dst \in Buffer : Crop(src, dst) \/ \E i \in Interface \union {NULL} : BufferCopy(src, i, dst)

Spec == Init /\ [][Next]_vars

-----------------------------------------------------------------------------
(***************************************************************************)
(* Properties.                                                             *)
(***************************************************************************)
\* Every variable keeps its type.
TypeOK ==
  /\ m \in Machine
  /\ role \in [Buffer -> {Plain, Joint, Wrapped, View}]
  /\ view \in [Buffer -> Buffer \union {NULL}]
  /\ read \in BOOLEAN

\* The buffers that hold device memory of interface i.
Holders(i) == {b \in Buffer : m.buf[b].device_interface = i}

\* The module of an interface is referenced once for each buffer that has
\* device memory of it, whichever calls failed, and never less: the code that
\* is to free the memory stays loaded.  Only a crop that fails leaves a
\* reference too many, as halide_device_crop does not release it then.
RefsExact ==
  /\ TypeOK
  /\ \A i \in Interface : /\ m.refs[i] >= Cardinality(Holders(i))
                          /\ i \notin CropMayFail => m.refs[i] = Cardinality(Holders(i))

\* The dirty bits tell where the newest content is: in device memory if the
\* device is dirty, and otherwise in host memory.  No copy or failure half way
\* loses the only memory that has it, or calls clean what was overwritten.
BitsTruthful ==
  \A b \in Buffer \ m.lost :
    LET B == m.buf[b]
    IN  /\ B.device_dirty /\ ~B.host_dirty => Device \in m.fresh[b]
        /\ B.host /\ ~B.device_dirty => Host \in m.fresh[b]
        /\ m.fresh[b] # {}

\* A successful halide_copy_to_host or halide_copy_to_device hands over what
\* was last written to the buffer, through whichever memory and whichever
\* failed calls before.
CopiesArrive == read

\* The buffer that b is a view of, or b itself.
Whole(b) == IF view[b] = NULL THEN b ELSE view[b]

\* Device memory is allocated exactly as long as a buffer names it, and only
\* views share it.
NoLeak ==
  /\ m.live = {m.buf[b].device : b \in {c \in Buffer : role[c] \in {Plain, Joint}}} \ {NULL}
  /\ \A b, c \in Buffer : b # c /\ m.buf[b].device = m.buf[c].device /\ m.buf[b].device # NULL
                            => Whole(b) = Whole(c)
=============================================================================
