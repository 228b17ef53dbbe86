--------------------------- MODULE DeviceInterface --------------------------
(***************************************************************************)
(* The device interface of the runtime (src/src/runtime/device_interface   *)
(* .cpp) over drivers like the ones of CUDA and OpenCL.                    *)
(*                                                                         *)
(* Each function of the C API is an operator from a machine state m, which *)
(* holds the buffers, the device allocations and the reference counts of   *)
(* the JIT modules, to the set of its outcomes [m |-> state, err |-> code]:*)
(* a driver call may fail, and an assertion that fails has no outcome.     *)
(*                                                                         *)
(* What memory holds is abstracted to whether it is what was last written  *)
(* to the buffer: m.fresh[b] says which of b's memories do, and m.lost     *)
(* which buffers have no content to keep (never written, given up by their *)
(* owner, or the destination of a copy that failed).                       *)
(***************************************************************************)
EXTENDS Integers, FiniteSets

CONSTANTS Buffer, Interface, NULL,
          Handle,       \* of the device memory that the drivers allocate
          Native,       \* of device memory that comes from outside Halide
          CropMayFail,  \* interfaces whose device_crop can fail (OpenCL, not CUDA)
          DefaultWrap   \* interfaces with the default wrap_native (not CUDA, OpenCL)

ASSUME InterfaceAssumption == CropMayFail \union DefaultWrap \subseteq Interface /\ NULL \notin Interface
ASSUME HandleAssumption == Native \cap Handle = {} /\ NULL \notin Handle \union Native

\* The memories a buffer can have.
Host   == "host"
Device == "device"

\* halide_buffer_t: whether there is host memory, the device handle, the
\* interface it belongs to, and the two dirty bits.
BufferT == [host : BOOLEAN, device : Handle \union Native \union {NULL},
            device_interface : Interface \union {NULL},
            host_dirty : BOOLEAN, device_dirty : BOOLEAN]

NoBuffer == [host |-> FALSE, device |-> NULL, device_interface |-> NULL,
             host_dirty |-> FALSE, device_dirty |-> FALSE]

Machine == [buf : [Buffer -> BufferT], live : SUBSET Handle, refs : [Interface -> Nat],
            fresh : [Buffer -> SUBSET {Host, Device}], lost : SUBSET Buffer]

\* Error codes: the one the code tests for, and all the others.
Success      == "success"
Incompatible == "incompatible_device_interface"
Failed       == "failed"

Ok(m)  == [m |-> m, err |-> Success]
Err(m) == [m |-> m, err |-> Failed]

\* Continue with F where the call succeeded; return its error where it failed.
Then(R, F(_)) == UNION {IF r.err = Success THEN F(r.m) ELSE {r} : r \in R}

\* In either case, change the state by F.
Finally(R, F(_)) == {[m |-> F(r.m), err |-> r.err] : r \in R}

SetBit(m, b, bit, v) == [m EXCEPT !.buf[b][bit] = v]

SetDevice(m, b, h, i) == [m EXCEPT !.buf[b].device = h, !.buf[b].device_interface = i]

\* The memory of b no longer holds its content, or is gone.
Without(m, b, memory) == [m EXCEPT !.fresh[b] = @ \ {memory}]

Use(m, i)     == [m EXCEPT !.refs[i] = @ + 1]
Release(m, i) == [m EXCEPT !.refs[i] = @ - 1]

\* debug_log_and_validate_buf
Valid(m, b) ==
  /\ (m.buf[b].device = NULL) <=> (m.buf[b].device_interface = NULL)
  /\ ~(m.buf[b].host_dirty /\ m.buf[b].device_dirty)

Checked(m, b) == IF Valid(m, b) THEN {Ok(m)} ELSE {Err(m)}

-----------------------------------------------------------------------------
(***************************************************************************)
(* The drivers.                                                            *)
(***************************************************************************)
\* Slip: the allocation is not counted.
MallocUncounted(m, b, h, i) == [SetDevice(m, b, h, i) EXCEPT !.live = @ \union {h}]

Malloced(m, b, h, i) == Use(MallocUncounted(m, b, h, i), i)

\* Slip: the buffer may have device memory already.
MallocAgain(m, b, i) == {Ok(Malloced(m, b, h, i)) : h \in Handle \ m.live} \union {Err(m)}

DriverMalloc(m, b, i) ==
  IF m.buf[b].device # NULL THEN {Ok(m)}
  ELSE {Ok(Malloced(m, b, h, i)) : h \in Handle \ m.live} \union {Err(m)}

\* The reference is dropped even if the driver fails to free the memory.
DriverFree(m, b) ==
  LET h == m.buf[b].device
      freed == [Release(Without(SetDevice(m, b, NULL, NULL), b, Device), m.buf[b].device_interface)
                  EXCEPT !.live = @ \ {h}]
  IN  IF h = NULL THEN {Ok(m)} ELSE {Ok(freed), Err(freed)}

\* Where a driver's buffer_copy reads.
From(m, i, src) ==
  LET s == m.buf[src]
  IN  IF s.device_interface # i \/ s.device = NULL \/ (s.host_dirty /\ s.host)
      THEN Host ELSE Device

\* Data of src's memory 'from' arrives in dst's memory 'to', or some of it.
Arrives(m, src, from, dst, to) ==
  LET holds == IF from \in m.fresh[src] THEN {to} ELSE {}
  IN  IF src = dst THEN [m EXCEPT !.fresh[dst] = (@ \ {to}) \union holds]
      ELSE [m EXCEPT !.fresh[dst] = holds,
                     !.lost = IF src \in @ THEN @ \union {dst} ELSE @ \ {dst}]

Garbled(m, src, dst, to) ==
  IF src = dst THEN Without(m, dst, to)
  ELSE [m EXCEPT !.fresh[dst] = {}, !.lost = @ \union {dst}]

\* buffer_copy of driver i, to its own device or to the host.
DriverCopy(m, i, src, to, dst) ==
  LET from == From(m, i, src)
  IN
  IF (m.buf[src].device_dirty \/ ~m.buf[src].host) /\ m.buf[src].device_interface # i
  THEN IF to = Device THEN {[m |-> m, err |-> Incompatible]} ELSE {}
  ELSE IF \/ from = Device /\ m.buf[src].device = NULL
          \/ to = Device /\ m.buf[dst].device = NULL
  THEN {}
  ELSE {Ok(Arrives(m, src, from, dst, to)), Err(Garbled(m, src, dst, to)), Err(m)}

\* device_crop: the destination is an alias of the source's device memory.  The
\* OpenCL driver sets the interface before it can fail, the CUDA driver also
\* copies the dirty bit, which a cropped view has already.
DriverCrop(m, src, dst) ==
  LET i == m.buf[src].device_interface
  IN  {Ok(SetDevice(m, dst, m.buf[src].device, i))}
        \union (IF i \in CropMayFail THEN {Err(m), Err(SetDevice(m, dst, NULL, i))} ELSE {})

-----------------------------------------------------------------------------
(***************************************************************************)
(* Allocation.                                                             *)
(***************************************************************************)
\* use_module and release_module around a driver call: release it whatever the
\* outcome in R of a call with the module in use.
Guarded(R, i) == Finally(R, LAMBDA n : Release(n, i))

CanUse(m, b, i) == m.buf[b].device_interface \in {NULL, i}

halide_device_malloc(m, b, i) ==
  Then(Checked(m, b), LAMBDA n :
    IF ~CanUse(n, b, i) THEN {[m |-> n, err |-> Incompatible]}
    ELSE {IF r.err = Success THEN r ELSE Err(r.m) :
            r \in Guarded(DriverMalloc(Use(n, i), b, i), i)})

halide_device_free(m, b) ==
  Then(Checked(m, b), LAMBDA n :
    LET i == n.buf[b].device_interface
    IN  IF i # NULL THEN Guarded(DriverFree(Use(n, i), b), i)
        ELSE {Ok(SetBit(n, b, "device_dirty", FALSE))})

HostFreed(m, b) == Without(SetBit(m, b, "host", FALSE), b, Host)

halide_default_device_and_host_malloc(m, b, i) ==
  {Err(m)} \union {IF r.err = Success THEN r ELSE Err(HostFreed(r.m, b)) :
                    r \in halide_device_malloc(SetBit(m, b, "host", TRUE), b, i)}

halide_device_and_host_malloc(m, b, i) ==
  Then(Checked(m, b), LAMBDA n :
    IF ~CanUse(n, b, i) THEN {[m |-> n, err |-> Incompatible]}
    ELSE Guarded(halide_default_device_and_host_malloc(Use(n, i), b, i), i))

BothFreed(m, b) ==
  SetBit(SetBit(HostFreed(m, b), b, "host_dirty", FALSE), b, "device_dirty", FALSE)

halide_default_device_and_host_free(m, b) ==
  Finally(halide_device_free(m, b), LAMBDA n : BothFreed(n, b))

halide_device_and_host_free(m, b) ==
  Then(Checked(m, b), LAMBDA n :
    LET i == n.buf[b].device_interface
    IN  IF i # NULL THEN Guarded(halide_default_device_and_host_free(Use(n, i), b), i)
        ELSE {Ok(SetBit(HostFreed(n, b), b, "device_dirty", FALSE))})

\* halide_device_wrap_native: h is not an allocation of Halide's.  The default
\* implementation validates the buffer, whose interface has just been set.
halide_device_wrap_native(m, b, h, i) ==
  LET Wrapped(n) == {Ok(Use(SetDevice(n, b, h, i), i))}
  IN  Then(Checked(m, b), LAMBDA n :
        IF ~CanUse(n, b, i) THEN {[m |-> n, err |-> Incompatible]}
        ELSE IF i \in DefaultWrap
        THEN Then(Checked(SetDevice(n, b, n.buf[b].device, i), b), Wrapped)
        ELSE IF n.buf[b].device # NULL THEN {}
        ELSE Wrapped(n))

\* halide_device_detach_native, with the default implementation or a driver's.
halide_device_detach_native(m, b) ==
  Then(Checked(m, b), LAMBDA n :
    LET i == n.buf[b].device_interface
    IN  IF i = NULL THEN {Ok(n)}
        ELSE {Ok(Release(Without(SetDevice(n, b, NULL, NULL), b, Device), i))})

-----------------------------------------------------------------------------
(***************************************************************************)
(* Copies, with device_copy_mutex held.                                    *)
(***************************************************************************)
\* Slip: the dirty bit is cleared whether the copy succeeded or not.
ClearedAnyway(R, b, bit) == Finally(R, LAMBDA n : SetBit(n, b, bit, FALSE))

ClearedOnSuccess(R, b, bit) ==
  {IF r.err = Success THEN Ok(SetBit(r.m, b, bit, FALSE)) ELSE Err(r.m) : r \in R}

copy_to_host_already_locked(m, b) ==
  LET i == m.buf[b].device_interface
  IN  IF ~m.buf[b].device_dirty THEN {Ok(m)}
      ELSE IF m.buf[b].host_dirty \/ i = NULL THEN {Err(m)}
      ELSE ClearedOnSuccess(DriverCopy(m, i, b, Host, b), b, "device_dirty")

halide_copy_to_host(m, b) ==
  Then(Checked(m, b), LAMBDA n : copy_to_host_already_locked(n, b))

\* want may be NULL: the interface of the buffer.
copy_to_device_already_locked(m, b, want) ==
  LET i == IF want = NULL THEN m.buf[b].device_interface ELSE want
      Upload(n) ==
        IF ~n.buf[b].host_dirty THEN {Ok(n)}
        ELSE IF n.buf[b].device_dirty THEN {Err(n)}
        ELSE ClearedOnSuccess(DriverCopy(n, i, b, Device, b), b, "host_dirty")
  IN  Then(Checked(m, b), LAMBDA n :
        IF i = NULL THEN {Err(n)}
        ELSE IF n.buf[b].device # NULL /\ n.buf[b].device_interface # i
        THEN {[m |-> n, err |-> Incompatible]}
        ELSE Then(IF n.buf[b].device = NULL THEN halide_device_malloc(n, b, i) ELSE {Ok(n)},
                  Upload))

\* copy_memory from host to host; make_buffer_copy takes the host pointers.
HostToHost(m, src, dst) == {Ok(IF src = dst THEN m ELSE Arrives(m, src, Host, dst, Host))}

\* The destination's host memory, if it has one, carries a copy between devices.
ViaDestination(m, src, i, dst) ==
  Then(DriverCopy(m, m.buf[src].device_interface, src, Host, dst), LAMBDA n :
    copy_to_device_already_locked(SetBit(n, dst, "host_dirty", TRUE), dst, i))

ViaSource(m, src, i, dst) ==
  Then(copy_to_host_already_locked(m, src), LAMBDA n : DriverCopy(n, i, src, Device, dst))

from_device_valid(s) == s.device # NULL /\ (~s.host \/ ~s.host_dirty)
from_host_valid(s)   == s.host /\ (~s.device_dirty \/ s.device_interface = NULL)

\* The copy itself, once the destination has device memory.  Drivers never
\* decline a copy from their own device to the host, so the recursive call the
\* code makes in that case is not reached.
Decomposed(m, src, i, dst) ==
  LET s == m.buf[src]
      d == m.buf[dst]
      direct == IF from_device_valid(s) /\ i # NULL
                THEN DriverCopy(m, i, src, Device, dst)
                ELSE {[m |-> m, err |-> Incompatible]}
      Through(n) ==
        IF ~s.host /\ ~d.host THEN {[m |-> n, err |-> Incompatible]}
        ELSE IF i = NULL /\ from_host_valid(s) THEN HostToHost(n, src, dst)
        ELSE IF i = NULL THEN DriverCopy(n, s.device_interface, src, Host, dst)
        ELSE IF from_device_valid(s) /\ d.host THEN ViaDestination(n, src, i, dst)
        ELSE ViaSource(n, src, i, dst)
  IN  IF i = NULL /\ ~d.host THEN {Err(m)}
      ELSE UNION {IF r.err = Incompatible THEN Through(r.m) ELSE {r} : r \in direct}

\* Slip: the bit of the destination's other memory is left as it was.
SetNewer(m, dst, i) == SetBit(m, dst, IF i # NULL THEN "device_dirty" ELSE "host_dirty", TRUE)

SetNewest(m, dst, i) ==
  [m EXCEPT !.buf[dst].host_dirty = (i = NULL), !.buf[dst].device_dirty = (i # NULL)]

halide_buffer_copy_already_locked(m, src, i, dst) ==
  IF i # NULL /\ ~CanUse(m, dst, i) THEN {[m |-> m, err |-> Incompatible]}
  ELSE LET ready == IF i # NULL /\ m.buf[dst].device = NULL
                    THEN halide_device_malloc(m, dst, i) ELSE {Ok(m)}
           copied == Then(ready, LAMBDA n : Decomposed(n, src, i, dst))
       IN  {IF r.err = Success /\ src # dst THEN Ok(SetNewest(r.m, dst, i)) ELSE r :
              r \in copied}

UseIf(m, i)     == IF i = NULL THEN m ELSE Use(m, i)
ReleaseIf(m, i) == IF i = NULL THEN m ELSE Release(m, i)

\* The source's interface is read again after the copy.
halide_buffer_copy(m, src, i, dst) ==
  Finally(halide_buffer_copy_already_locked(UseIf(UseIf(m, i), m.buf[src].device_interface), src, i, dst),
          LAMBDA n : ReleaseIf(ReleaseIf(n, i), n.buf[src].device_interface))

-----------------------------------------------------------------------------
(***************************************************************************)
(* Views.                                                                  *)
(***************************************************************************)
\* halide_device_crop and halide_device_slice.
halide_device_crop(m, src, dst) ==
  IF m.buf[src].device = NULL THEN {Ok(m)}
  ELSE IF m.buf[dst].device # NULL THEN {Err(m)}
  ELSE DriverCrop(Use(m, m.buf[src].device_interface), src, dst)

halide_device_release_crop(m, b) ==
  IF m.buf[b].device = NULL THEN {Ok(m)}
  ELSE LET n == Release(SetDevice(m, b, NULL, NULL), m.buf[b].device_interface)
       IN  {Ok(n), Err(n)}
=============================================================================
