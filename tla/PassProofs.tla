----------------------------- MODULE PassProofs -----------------------------
(***************************************************************************)
(* Two passes of the compiler.                                             *)
(*                                                                         *)
(* HostDevCopies: what the pass knows of the buffer is so, and what it     *)
(* injects is enough and never refused, for any number of devices and of   *)
(* device allocations, programs of any length and any nesting of           *)
(* conditionals.                                                           *)
(* HWKernelDAG: what merge_consumer_stencils does to the windows and       *)
(* regions of the consumers of a kernel, for any number of consumers and   *)
(* any windows.                                                            *)
(***************************************************************************)
EXTENDS HostDevCopies, HWKernelDAG, DeviceInterfaceProofs, FiniteSetTheorems,
        SequenceTheorems, WellFoundedInduction

\* The programs considered: none with several devices branches or calls extern
\* stages, and a leaf that moves the buffer to another device only reads it.
Usage == FLIPS_ANYWHERE = FALSE /\ FLIP_WRITES = FALSE

-----------------------------------------------------------------------------
(***************************************************************************)
(* The inductive invariant.                                                *)
(***************************************************************************)
One == \A d \in Devices, e \in Devices : d = e

OnHost == external \/ ~touched_on_one_device

Program ==
  /\ external \in BOOLEAN
  /\ places \in SUBSET ({Host} \union Interface)
  /\ externs \in SUBSET ({Host} \union Interface)
  /\ One \/ (~external /\ externs = {})

\* The reference counts and the live allocations are the buffer's.
Exact(n) ==
  /\ n \in MachineZ /\ Named(n, b)
  /\ \A j \in Interface : n.refs[j] = Holding(n, b, j)
  /\ n.live = {n.buf[b].device} \ {NULL}
  /\ ~(n.buf[b].host_dirty /\ n.buf[b].device_dirty)

\* Between two leaves.
Settled(n) ==
  /\ Exact(n) /\ Truthful(n, b) /\ Marking(n, b)
  /\ n.buf[b].device_dirty => n.buf[b].device # NULL
  /\ n.buf[b].host = OnHost
  /\ n.buf[b].device_interface \in Devices \union {NULL}

Sound(s, n) ==
  /\ Means(s.device_dirty, n.buf[b].device_dirty)
  /\ Means(s.host_dirty, n.buf[b].host_dirty)
  /\ s.device_allocation_exists = True =>
       s.current_device # None /\ n.buf[b].device_interface = s.current_device
  /\ s.device_allocation_exists = False => n.buf[b].device = NULL \/ Combined
  /\ s.device_allocation_exists = Unknown => One /\ s.current_device = None

Typed ==
  /\ state \in State /\ others \in Seq(State)
  /\ phase \in {Starting, Running, Ending, Done}
  /\ leaves \in Nat

AtStart ==
  /\ Combined /\ others = <<>>
  /\ m.buf[b].device = NULL /\ ~m.buf[b].host_dirty /\ ~m.buf[b].device_dirty
  /\ b \in m.lost
  /\ state.device_dirty = False /\ state.host_dirty = False
  /\ state.device_allocation_exists = False

Inv ==
  /\ Program /\ Typed /\ Exact(m)
  /\ phase = Starting => AtStart
  /\ phase = Running => Settled(m) /\ Sound(state, m) /\ (~One => others = <<>>)
  /\ phase = Done => Released
  /\ current = TRUE /\ refused = FALSE


-----------------------------------------------------------------------------
(***************************************************************************)
(* The devices of a program, and what a leaf touches.                      *)
(***************************************************************************)
LEMMA AtMostOne ==
  ASSUME NEW S, IsFiniteSet(S), Cardinality(S) <= 1, NEW d \in S, NEW e \in S
  PROVE  d = e
<1>. SUFFICES ASSUME d # e PROVE FALSE
  OBVIOUS
<1>. DEFINE T == {d} \cup {e}
<1>1. IsFiniteSet({d}) /\ Cardinality({d}) = 1
  BY FS_Singleton
<1>2. e \notin {d}
  OBVIOUS
<1>3. Cardinality(T) = Cardinality({d}) + 1
  BY <1>1, <1>2, FS_AddElement
<1>4. T \in SUBSET S
  OBVIOUS
<1>5. Cardinality(T) = 2
  BY <1>1, <1>3
<1>. HIDE DEF T
<1>6. Cardinality(T) <= Cardinality(S) /\ Cardinality(S) \in Nat
  BY <1>4, FS_Subset, FS_CardinalityType
<1>. QED
  BY <1>5, <1>6

\* A program touches a buffer in finitely many places.
LEMMA PlacesFinite ==
  ASSUME NEW S \in SUBSET ({Host} \union Interface)
  PROVE  IsFiniteSet(S)
<1>1. IsFiniteSet({Host}) /\ IsFiniteSet(Interface)
  BY FS_Singleton, DevicesAssumption
<1>2. IsFiniteSet({Host} \union Interface)
  BY <1>1, FS_Union
<1>. QED
  BY <1>2, FS_Subset

\* The count of the devices as the code tests it.
LEMMA OneByCardinality ==
  ASSUME places \in SUBSET ({Host} \union Interface), externs \in SUBSET ({Host} \union Interface),
         Cardinality(Devices) <= 1
  PROVE  One
<1>1. IsFiniteSet(Devices)
  BY PlacesFinite DEF Devices
<1>. QED
  BY <1>1, AtMostOne DEF One

\* Only programs for one device have combined allocations, or none on the host.
LEMMA CombinedOne ==
  ASSUME Program, Combined
  PROVE  One /\ OnHost
<1>1. IsFiniteSet(places) /\ Cardinality(places) = 2 /\ Host \in places
  BY PlacesFinite DEF Program, Combined
<1>2. OnHost
  BY <1>1 DEF OnHost, touched_on_one_device
<1>3. Cardinality(places \ {Host}) = 1 /\ IsFiniteSet(places \ {Host})
  BY <1>1, FS_RemoveElement
<1>4. CASE externs = {}
  <2>1. Devices = places \ {Host}
    BY <1>4 DEF Devices
  <2>. QED
    BY <1>2, <1>3, <2>1, AtMostOne DEF One
<1>. QED
  BY <1>2, <1>4 DEF Program

\* A buffer without host memory is internal, and one device alone touches it.
LEMMA DeviceOnlyOne ==
  ASSUME Program, ~OnHost
  PROVE  One /\ Host \notin places /\ Host \notin externs /\ ~external
<1>1. IsFiniteSet(places) /\ Cardinality(places) = 1 /\ Host \notin places /\ externs \in {{}, places}
  BY PlacesFinite DEF Program, OnHost, touched_on_one_device
<1>2. Devices = places
  BY <1>1 DEF Devices
<1>. QED
  BY <1>1, <1>2, AtMostOne DEF One, OnHost

\* A leaf as the pass takes it apart.
Fits(u) ==
  /\ u.touched \subseteq places /\ u.writing \subseteq u.touched
  /\ touching_device(u) = None => u.touched \subseteq {Host}
  /\ touching_device(u) # None =>
       /\ touching_device(u) \in u.touched /\ touching_device(u) \in Devices
       /\ touching_device(u) \in Interface
       /\ u.touched \subseteq {Host, touching_device(u)}
  /\ u.writing = {} \/ \E p \in {Host, touching_device(u)} : u.writing = {p} /\ u.touched = {p}
  /\ written_on_device(u) <=> u.writing # {} /\ touching_device(u) # None
  /\ u.extern # {} => One /\ u.extern \subseteq externs /\ u.touched \subseteq u.extern
                          /\ u.writing = u.touched

\* What FindBufferUsage collects of a leaf, taken apart by its one device.
LEMMA LeafFits ==
  ASSUME Program, Usage, NEW u \in Leaf, Allowed(u)
  PROVE  Fits(u)
<1>. DEFINE d == touching_device(u)
<1>1. /\ u.touched \in SUBSET ({Host} \union Interface) /\ u.writing \subseteq u.touched
      /\ u.touched \subseteq places /\ Cardinality(u.touched \ {Host}) <= 1
      /\ u.writing # {} => Cardinality(u.touched) = 1
  BY DEF Leaf, Allowed
<1>2. IsFiniteSet(u.touched) /\ IsFiniteSet(u.touched \ {Host})
  BY <1>1, PlacesFinite
<1>3. d = None <=> u.touched \subseteq {Host}
  BY <1>1, DevicesAssumption DEF touching_device
<1>4. d # None => d \in u.touched \ {Host}
  BY DEF touching_device
<1>5. d # None => \A p \in u.touched \ {Host} : p = d
  BY <1>1, <1>2, <1>4, AtMostOne
<1>6. d # None => d \in Devices /\ d \in Interface /\ u.touched \subseteq {Host, d}
  BY <1>1, <1>4, <1>5 DEF Devices
<1>7. ASSUME u.writing # {}
      PROVE  \E p \in {Host, d} : u.writing = {p} /\ u.touched = {p}
  <2>1. PICK p : u.touched = {p}
    BY <1>1, <1>2, <1>7, FS_Singleton
  <2>. QED
    BY <1>1, <1>3, <1>4, <1>5, <1>7, <2>1
<1>8. written_on_device(u) <=> u.writing # {} /\ d # None
  <2>1. CASE u.writing = {}
    <3>1. Cardinality(u.writing) = 0
      BY <2>1, FS_EmptySet
    <3>. QED
      BY <2>1, <3>1 DEF written_on_device
  <2>2. CASE u.writing # {}
    <3>1. PICK p \in {Host, d} : u.writing = {p} /\ u.touched = {p}
      BY <1>7, <2>2
    <3>2. Cardinality(u.writing) = 1
      BY <3>1, FS_Singleton
    <3>3. Host \in u.touched <=> d = None
      BY <1>3, <3>1
    <3>. QED
      BY <2>2, <3>2, <3>3 DEF written_on_device
  <2>. QED
    BY <2>1, <2>2
<1>9. u.extern # {} => One /\ u.extern \subseteq externs /\ u.touched \subseteq u.extern
                           /\ u.writing = u.touched
  BY OneByCardinality DEF Allowed, Program, Usage
<1>. QED
  BY <1>1, <1>3, <1>4, <1>6, <1>7, <1>8, <1>9 DEF Fits


-----------------------------------------------------------------------------
(***************************************************************************)
(* Calls that the driver can carry out.                                    *)
(***************************************************************************)
\* Some outcome of a call is a success.
CanSucceed(R) == \E r \in R : r.err = Success

\* The two memories are not the same.
LEMMA Apart == Host # Device
BY DEF Host, Device

\* halide_device_free of a valid buffer fails only if the driver does.
LEMMA FreeSucceeds ==
  ASSUME NEW k \in MachineZ, Valid(k, b)
  PROVE  CanSucceed(halide_device_free(k, b))
<1>. DEFINE i == k.buf[b].device_interface
            u == Use(k, i)
<1>1. CASE i = NULL
  <2>1. Ok(SetBit(k, b, "device_dirty", FALSE)) \in halide_device_free(k, b)
    BY <1>1 DEF halide_device_free, Then, Checked, Ok, SetBit
  <2>. QED
    BY <2>1 DEF CanSucceed, Ok
<1>2. CASE i # NULL
  <2>1. i \in Interface
    BY <1>2, ProgramAssumption DEF MachineZ, BufferT
  <2>2. u.buf = k.buf
    BY <2>1, UseFields
  <2>. HIDE DEF u
  <2>. DEFINE freed == [Release(Without(SetDevice(u, b, NULL, NULL), b, Device),
                                u.buf[b].device_interface) EXCEPT !.live = @ \ {u.buf[b].device}]
  <2>a. Ok(freed) \in DriverFree(u, b)
    BY <1>2, <2>2 DEF DriverFree, Valid
  <2>. HIDE DEF freed
  <2>3. PICK q : q \in DriverFree(u, b) /\ q.err = Success
    BY <2>a DEF Ok
  <2>4. [m |-> Release(q.m, i), err |-> q.err] \in Guarded(DriverFree(u, b), i)
    BY <2>3 DEF Guarded, Finally
  <2>5. [m |-> Release(q.m, i), err |-> q.err] \in halide_device_free(k, b)
    BY <1>2, <2>4 DEF halide_device_free, Then, Checked, Ok, u
  <2>. QED
    BY <2>3, <2>5 DEF CanSucceed
<1>. QED
  BY <1>1, <1>2

\* halide_device_malloc, for an interface the buffer can use, fails only if the
\* driver does.
LEMMA MallocSucceeds ==
  ASSUME NEW k \in MachineZ, Valid(k, b), NEW i \in Interface, CanUse(k, b, i),
         k.buf[b].device # NULL \/ Handle \ k.live # {}
  PROVE  CanSucceed(halide_device_malloc(k, b, i))
<1>. DEFINE u == Use(k, i)
<1>1. u.buf = k.buf /\ u.live = k.live
  BY UseFields
<1>. HIDE DEF u
<1>2. PICK q : q \in DriverMalloc(u, b, i) /\ q.err = Success
  <2>1. CASE k.buf[b].device # NULL
    <3>1. Ok(u) \in DriverMalloc(u, b, i)
      BY <1>1, <2>1 DEF DriverMalloc
    <3>. QED
      BY <3>1 DEF Ok
  <2>2. CASE k.buf[b].device = NULL
    <3>1. PICK h : h \in Handle \ u.live
      BY <1>1, <2>2
    <3>2. Ok(Malloced(u, b, h, i)) \in DriverMalloc(u, b, i)
      BY <1>1, <2>2, <3>1 DEF DriverMalloc
    <3>. QED
      BY <3>2 DEF Ok
  <2>. QED
    BY <2>1, <2>2
<1>. DEFINE r == [m |-> Release(q.m, i), err |-> q.err]
<1>3. r \in Guarded(DriverMalloc(u, b, i), i) /\ r.err = Success
  BY <1>2 DEF Guarded, Finally
<1>. HIDE DEF r
<1>4. r \in halide_device_malloc(k, b, i)
  BY <1>3 DEF halide_device_malloc, Then, Checked, Ok, u
<1>. QED
  BY <1>3, <1>4 DEF CanSucceed

\* halide_copy_to_host of a valid buffer fails only if the driver does.
LEMMA CopyToHostSucceeds ==
  ASSUME NEW k \in MachineZ, Valid(k, b), k.buf[b].device_dirty => k.buf[b].device # NULL
  PROVE  CanSucceed(halide_copy_to_host(k, b))
<1>. DEFINE i == k.buf[b].device_interface
<1>1. halide_copy_to_host(k, b) = copy_to_host_already_locked(k, b)
  BY DEF halide_copy_to_host, Then, Checked, Ok
<1>2. CASE ~k.buf[b].device_dirty
  <2>1. Ok(k) \in copy_to_host_already_locked(k, b)
    BY <1>2 DEF copy_to_host_already_locked
  <2>. QED
    BY <1>1, <2>1 DEF CanSucceed, Ok
<1>3. CASE k.buf[b].device_dirty
  <2>1. ~k.buf[b].host_dirty /\ i # NULL
    BY <1>3 DEF Valid
  <2>. DEFINE x == Arrives(k, b, From(k, i, b), b, Host)
  <2>a. Ok(x) \in DriverCopy(k, i, b, Host, b)
    BY <1>3, Apart DEF DriverCopy
  <2>. HIDE DEF x
  <2>2. PICK q : q \in DriverCopy(k, i, b, Host, b) /\ q.err = Success
    BY <2>a DEF Ok
  <2>3. Ok(SetBit(q.m, b, "device_dirty", FALSE)) \in copy_to_host_already_locked(k, b)
    BY <1>3, <2>1, <2>2 DEF copy_to_host_already_locked, ClearedOnSuccess, SetBit
  <2>. QED
    BY <1>1, <2>3 DEF CanSucceed, Ok
<1>. QED
  BY <1>2, <1>3


\* A copy from the host to device memory of the same interface can succeed.
LEMMA UploadSucceeds ==
  ASSUME NEW k \in MachineZ, NEW i \in Interface, k.buf[b].device # NULL,
         k.buf[b].device_interface = i, k.buf[b].host_dirty, ~k.buf[b].device_dirty
  PROVE  CanSucceed(ClearedOnSuccess(DriverCopy(k, i, b, Device, b), b, "host_dirty"))
<1>. DEFINE x == Arrives(k, b, From(k, i, b), b, Device)
<1>1. Ok(x) \in DriverCopy(k, i, b, Device, b)
  BY Apart DEF DriverCopy
<1>. HIDE DEF x
<1>2. PICK q : q \in DriverCopy(k, i, b, Device, b) /\ q.err = Success
  BY <1>1 DEF Ok
<1>3. Ok(SetBit(q.m, b, "host_dirty", FALSE))
        \in ClearedOnSuccess(DriverCopy(k, i, b, Device, b), b, "host_dirty")
  BY <1>2 DEF ClearedOnSuccess
<1>. QED
  BY <1>3 DEF CanSucceed, Ok

\* copy_to_device_already_locked, for an interface the buffer can use, fails only
\* if the driver does.
LEMMA CopyToDeviceSucceeds ==
  ASSUME NEW k \in MachineZ, Valid(k, b), NEW i \in Interface, CanUse(k, b, i),
         k.live = {k.buf[b].device} \ {NULL}
  PROVE  CanSucceed(copy_to_device_already_locked(k, b, i))
<1>. DEFINE Upload(n) ==
              IF ~n.buf[b].host_dirty THEN {Ok(n)}
              ELSE IF n.buf[b].device_dirty THEN {Err(n)}
              ELSE ClearedOnSuccess(DriverCopy(n, i, b, Device, b), b, "host_dirty")
            allocated == IF k.buf[b].device = NULL THEN halide_device_malloc(k, b, i) ELSE {Ok(k)}
<1>1. i # NULL
  BY InterfaceAssumption
<1>2. PICK a : /\ a \in allocated /\ a.err = Success /\ a.m \in MachineZ /\ SameBits(k, a.m, b)
               /\ a.m.buf[b].device # NULL /\ a.m.buf[b].device_interface = i
  <2>1. CASE k.buf[b].device = NULL
    <3>1. Handle \ k.live # {}
      BY <2>1, DevicesAssumption
    <3>2. PICK a \in halide_device_malloc(k, b, i) : a.err = Success
      BY <3>1, MallocSucceeds DEF CanSucceed
    <3>3. Mallocs(k, a, b, i)
      BY <3>2, ProgramAssumption, MallocEffect
    <3>. QED
      BY <2>1, <3>2, <3>3 DEF Mallocs, Frame
  <2>2. CASE k.buf[b].device # NULL
    <3>1. Ok(k) \in allocated
      BY <2>2
    <3>2. k.buf[b].device_interface = i
      BY <2>2 DEF Valid, CanUse
    <3>3. Ok(k).m = k /\ Ok(k).err = Success /\ SameBits(k, k, b)
      BY DEF Ok, SameBits
    <3>. HIDE DEF allocated
    <3>. QED
      BY <2>2, <3>1, <3>2, <3>3
  <2>. QED
    BY <2>1, <2>2
<1>. HIDE DEF allocated
<1>3. CanSucceed(Upload(a.m))
  <2>1. ~(a.m.buf[b].host_dirty /\ a.m.buf[b].device_dirty)
    BY <1>2 DEF SameBits, Valid
  <2>2. CASE ~a.m.buf[b].host_dirty
    <3>1. Ok(a.m) \in Upload(a.m)
      BY <2>2
    <3>. QED
      BY <3>1 DEF CanSucceed, Ok
  <2>3. CASE a.m.buf[b].host_dirty
    <3>1. CanSucceed(ClearedOnSuccess(DriverCopy(a.m, i, b, Device, b), b, "host_dirty"))
      BY <1>2, <2>1, <2>3, UploadSucceeds
    <3>. QED
      BY <2>1, <2>3, <3>1 DEF CanSucceed
  <2>. QED
    BY <2>2, <2>3
<1>. HIDE DEF Upload
<1>4. PICK q : q \in Upload(a.m) /\ q.err = Success
  BY <1>3 DEF CanSucceed
<1>5. ~(k.buf[b].device # NULL /\ k.buf[b].device_interface # i)
  BY DEF Valid, CanUse
<1>6. q \in Then(allocated, Upload)
  BY <1>2, <1>4 DEF Then
<1>7. q \in copy_to_device_already_locked(k, b, i)
  BY <1>1, <1>5, <1>6 DEF copy_to_device_already_locked, Then, Checked, Ok, Upload, allocated,
                          ClearedOnSuccess, SetBit
<1>. QED
  BY <1>4, <1>7 DEF CanSucceed


-----------------------------------------------------------------------------
(***************************************************************************)
(* The calls that the pass injects, on a buffer between two leaves.        *)
(***************************************************************************)
LEMMA ValidExact ==
  ASSUME NEW k, Exact(k)
  PROVE  /\ k \in MachineZ /\ Valid(k, b)
         /\ k.buf[b].device_interface \in Interface \union {NULL}
         /\ k.buf[b] \in BufferT
<1>1. k \in MachineZ /\ b \in Buffer
  BY ProgramAssumption DEF Exact
<1>2. k.buf[b] \in BufferT
  BY <1>1 DEF MachineZ
<1>. QED
  BY <1>1, <1>2 DEF Exact, Named, Valid, BufferT

\* A call that counts what the buffer gets and loses leaves the counts exact.
LEMMA ExactAfter ==
  ASSUME NEW k, Exact(k), NEW n, Frame(k, n, b), Counted(k, n, b),
         Keeps(k, n, b) \/ Loses(k, n, b) \/ \E i \in Interface : Gains(k, n, b, i),
         ~(n.buf[b].host_dirty /\ n.buf[b].device_dirty)
  PROVE  Exact(n)
<1>1. n \in MachineZ
  BY DEF Frame
<1>2. Named(n, b) /\ n.live = {n.buf[b].device} \ {NULL}
  <2>1. CASE Keeps(k, n, b)
    BY <2>1 DEF Exact, Keeps, Named
  <2>2. CASE Loses(k, n, b)
    BY <2>2 DEF Exact, Loses, Named
  <2>3. CASE \E i \in Interface : Gains(k, n, b, i)
    <3>1. PICK i \in Interface : Gains(k, n, b, i)
      BY <2>3
    <3>2. n.buf[b].device # NULL /\ i # NULL
      BY <3>1, HandleAssumption, InterfaceAssumption DEF Gains
    <3>3. k.live = {}
      BY <3>1 DEF Exact, Gains
    <3>. QED
      BY <3>1, <3>2, <3>3 DEF Gains, Named
  <2>. QED
    BY <2>1, <2>2, <2>3
<1>3. ASSUME NEW j \in Interface
      PROVE  n.refs[j] = Holding(n, b, j)
  <2>1. k.refs[j] = Holding(k, b, j) /\ n.refs[j] = k.refs[j] + Holding(n, b, j) - Holding(k, b, j)
    BY DEF Exact, Counted
  <2>2. Holding(k, b, j) \in Int /\ Holding(n, b, j) \in Int
    BY DEF Holding
  <2>. QED
    BY <2>1, <2>2
<1>. QED
  BY <1>1, <1>2, <1>3 DEF Exact

\* halide_copy_to_host, where there is host memory.
Fetched(k, r) ==
  /\ Settled(r.m)
  /\ r.m.buf[b].host_dirty = k.buf[b].host_dirty
  /\ r.m.buf[b].device = k.buf[b].device
  /\ r.m.buf[b].device_interface = k.buf[b].device_interface
  /\ r.m.lost = k.lost
  /\ r.err = Success => ~r.m.buf[b].device_dirty

\* A copy to the host leaves a settled buffer settled, and not dirty on the device
\* if it succeeded.
LEMMA FetchEffect ==
  ASSUME NEW k, Settled(k), OnHost, NEW r \in halide_copy_to_host(k, b)
  PROVE  Fetched(k, r)
<1>1. k \in MachineZ /\ Valid(k, b) /\ b \in Buffer
  BY ValidExact, ProgramAssumption DEF Settled
<1>2. r \in copy_to_host_already_locked(k, b)
  BY <1>1 DEF halide_copy_to_host, Then, Checked, Ok
<1>3. Downloads(k, r, b)
  BY <1>1, <1>2, CopyToHostEffect
<1>4. /\ Transfers(k, r.m, b) /\ Keeps(k, r.m, b)
      /\ r.m.buf[b].host_dirty = k.buf[b].host_dirty
      /\ r.m.buf[b].device_dirty => k.buf[b].device_dirty
      /\ r.err = Success => ~r.m.buf[b].device_dirty
      /\ Truthful(r.m, b)
  BY <1>3 DEF Downloads, Settled
<1>5. Exact(r.m)
  BY <1>4, ExactAfter DEF Transfers, Settled, Exact
<1>6. Settled(r.m)
  BY <1>4, <1>5 DEF Settled, Transfers, Keeps, Marking
<1>. QED
  BY <1>4, <1>6 DEF Fetched, Keeps, Transfers

\* copy_to_device_already_locked, or halide_device_malloc.
Obtained(k, r, d) ==
  /\ Exact(r.m)
  /\ r.err = Success => /\ Settled(r.m) /\ r.m.buf[b].device_interface = d
                        /\ r.m.buf[b].device_dirty = k.buf[b].device_dirty
                        /\ r.m.buf[b].host_dirty => k.buf[b].host_dirty
                        /\ r.m.lost = k.lost

\* A copy to the device obtains device memory with the content.
LEMMA CopyObtains ==
  ASSUME NEW k, Settled(k), NEW d \in Interface, d \in Devices,
         NEW r \in copy_to_device_already_locked(k, b, d)
  PROVE  Obtained(k, r, d) /\ (r.err = Success => ~r.m.buf[b].host_dirty)
<1>1. k \in MachineZ /\ b \in Buffer /\ d # NULL
  BY ValidExact, ProgramAssumption, InterfaceAssumption DEF Settled
<1>2. ToDevice(k, r, b, d)
  BY <1>1, CopyToDeviceEffect
<1>3. /\ Transfers(k, r.m, b)
      /\ Keeps(k, r.m, b) \/ \E i \in Interface : Gains(k, r.m, b, i)
      /\ r.m.buf[b].device_dirty = k.buf[b].device_dirty
      /\ r.m.buf[b].host_dirty => k.buf[b].host_dirty
      /\ r.err = Success => /\ ~r.m.buf[b].host_dirty /\ r.m.buf[b].device # NULL
                            /\ r.m.buf[b].device_interface = d
      /\ Truthful(r.m, b)
  BY <1>1, <1>2 DEF ToDevice, Settled
<1>4. Exact(r.m)
  BY <1>3, ExactAfter DEF Transfers, Settled, Exact
<1>5. r.err = Success => Settled(r.m)
  BY <1>3, <1>4 DEF Settled, Transfers, Marking
<1>. QED
  BY <1>3, <1>4, <1>5 DEF Obtained, Transfers

\* So does an allocation, if the host has nothing newer.
LEMMA MallocObtains ==
  ASSUME NEW k, Settled(k), NEW d \in Interface, d \in Devices,
         NEW r \in halide_device_malloc(k, b, d)
  PROVE  Obtained(k, r, d)
<1>1. k \in MachineZ /\ b \in Buffer
  BY ValidExact, ProgramAssumption DEF Settled
<1>2. Mallocs(k, r, b, d)
  BY <1>1, MallocEffect
<1>3. Truthful(r.m, b)
  BY <1>1, <1>2, MallocTruthful DEF Settled
<1>4. /\ Frame(k, r.m, b) /\ Counted(k, r.m, b) /\ SameBits(k, r.m, b) /\ SameContent(k, r.m)
      /\ Keeps(k, r.m, b) \/ \E i \in Interface : Gains(k, r.m, b, i)
      /\ r.err = Success => r.m.buf[b].device # NULL /\ r.m.buf[b].device_interface = d
  BY <1>2 DEF Mallocs
<1>5. Exact(r.m)
  BY <1>4, ExactAfter DEF Settled, Exact, SameBits
<1>6. r.err = Success => Settled(r.m)
  BY <1>3, <1>4, <1>5 DEF Settled, SameBits, Marking
<1>. QED
  BY <1>4, <1>5, <1>6 DEF Obtained, SameBits, SameContent


\* Device memory is given back; content that is kept is then marked on the host.
Dropped(k, r) ==
  /\ Settled(r.m) /\ r.m.buf[b].device = NULL /\ ~r.m.buf[b].device_dirty
  /\ r.m.lost = k.lost

\* halide_device_free of a buffer that moves leaves it settled.
LEMMA DropEffect ==
  ASSUME NEW k, Settled(k), ~k.buf[b].device_dirty,
         NEW z, z = Raised(k, b, "host_dirty") \/ (b \in k.lost /\ z = Cleared(k, b, "host_dirty")),
         NEW r \in halide_device_free(z, b)
  PROVE  Dropped(k, r) /\ Valid(z, b) /\ z \in MachineZ
<1>1. k \in MachineZ /\ b \in Buffer /\ "host_dirty" \in Bit
  BY ValidExact, ProgramAssumption DEF Settled, Bit
<1>2. Frame(k, z, b) /\ Counted(k, z, b) /\ Keeps(k, z, b) /\ SameContent(k, z)
  BY <1>1, BitOnly
<1>3. /\ z.buf[b].host = k.buf[b].host /\ z.buf[b].device_dirty = k.buf[b].device_dirty
      /\ b \notin k.lost => z.buf[b].host_dirty
  BY <1>1, SetFields, ClearFields
<1>4. Exact(z)
  BY <1>2, <1>3, ExactAfter DEF Settled
<1>5. Truthful(z, b)
  BY <1>2, <1>3 DEF Settled, Truthful, Keeps, SameContent
<1>6. z \in MachineZ /\ Valid(z, b)
  BY <1>4, ValidExact
<1>7. Frees(z, r, b)
  BY <1>1, <1>6, FreeEffect
<1>8. /\ Frame(z, r.m, b) /\ Counted(z, r.m, b) /\ r.m.lost = z.lost
      /\ r.m.buf[b].host = z.buf[b].host /\ r.m.buf[b].host_dirty = z.buf[b].host_dirty
      /\ Loses(z, r.m, b) \/ (z.buf[b].device_interface = NULL /\ Keeps(z, r.m, b))
      /\ ~r.m.buf[b].device_dirty
      /\ r.m.fresh[b] = z.fresh[b] \/ r.m.fresh[b] = z.fresh[b] \ {Device}
      /\ Loses(z, r.m, b) => r.m.fresh[b] = z.fresh[b] \ {Device}
  BY <1>3, <1>6, <1>7 DEF Frees, SameBits, Loses, Keeps, Valid
<1>9. Exact(r.m)
  BY <1>4, <1>8, ExactAfter
<1>10. r.m.buf[b].device = NULL /\ r.m.buf[b].device_interface = NULL
  BY <1>6, <1>8 DEF Loses, Keeps, Valid
<1>11. Truthful(r.m, b)
  BY <1>3, <1>5, <1>8, <1>10, Apart DEF Truthful, Loses, Keeps
<1>12. Marking(r.m, b)
  BY <1>2, <1>3, <1>8 DEF Marking, SameContent
<1>13. Settled(r.m)
  BY <1>3, <1>8, <1>9, <1>10, <1>11, <1>12 DEF Settled
<1>. QED
  BY <1>2, <1>6, <1>8, <1>10, <1>13 DEF Dropped, SameContent


-----------------------------------------------------------------------------
(***************************************************************************)
(* What the pass injects before a leaf.                                    *)
(***************************************************************************)
Fetches(s, u) == IF needs_copy_to_host(s, u) THEN halide_copy_to_host(m, b) ELSE {Ok(m)}

Obtains(k, s, u) ==
  IF needs_copy_to_device(s, u) THEN copy_to_device_already_locked(k, b, touching_device(u))
  ELSE IF needs_device_malloc(s, u) THEN halide_device_malloc(k, b, touching_device(u))
  ELSE {Ok(k)}

\* The outcomes of the three calls before a leaf, in their order.
LEMMA PrologueCases ==
  ASSUME NEW s, NEW u, NEW r \in Prologue(s, u)
  PROVE  \E p \in Fetches(s, u) :
           \/ p.err # Success /\ r = p
           \/ /\ p.err = Success
              /\ \E q \in Flip(p.m, s, u) :
                   (q.err # Success /\ r = q) \/ (q.err = Success /\ r \in Obtains(q.m, s, u))
<1>. DEFINE F(n) == Then(Flip(n, s, u), LAMBDA k : Obtains(k, s, u))
<1>1. Prologue(s, u) = Then(Fetches(s, u), F)
  BY DEF Prologue, Fetches, Obtains, Then
<1>2. PICK p \in Fetches(s, u) : r \in IF p.err = Success THEN F(p.m) ELSE {p}
  BY <1>1 DEF Then
<1>3. ASSUME p.err = Success
      PROVE  \E q \in Flip(p.m, s, u) :
               (q.err # Success /\ r = q) \/ (q.err = Success /\ r \in Obtains(q.m, s, u))
  BY <1>2, <1>3 DEF Then
<1>. QED
  BY <1>2, <1>3

\* If each of the calls has an outcome, so has the prologue.
LEMMA PrologueReaches ==
  ASSUME NEW s, NEW u, NEW p \in Fetches(s, u), p.err = Success,
         NEW q \in Flip(p.m, s, u), q.err = Success, NEW r \in Obtains(q.m, s, u)
  PROVE  r \in Prologue(s, u)
<1>. DEFINE F(n) == Then(Flip(n, s, u), LAMBDA k : Obtains(k, s, u))
<1>1. Prologue(s, u) = Then(Fetches(s, u), F)
  BY DEF Prologue, Fetches, Obtains, Then
<1>2. r \in F(p.m)
  BY DEF Then
<1>. HIDE DEF F
<1>3. r \in Then(Fetches(s, u), F)
  BY <1>2 DEF Then
<1>. QED
  BY <1>1, <1>3

\* What the pass and the machine know at a leaf.
AtLeaf(s, u) == Program /\ Settled(m) /\ s \in State /\ Sound(s, m) /\ Fits(u)

\* Only programs with several devices move the buffer, and these have host memory.
LEMMA FlipSeveral ==
  ASSUME NEW s, NEW u, AtLeaf(s, u), needs_device_flip(s, u)
  PROVE  ~One /\ OnHost /\ touching_device(u) # None /\ needs_copy_to_device(s, u)
<1>. DEFINE d == touching_device(u)
<1>1. /\ d # None /\ s.current_device \notin {d, None} /\ ~external
      /\ s.device_allocation_exists \in {Unknown, True}
  BY DEF needs_device_flip, AtLeaf, State, FlagState
<1>2. s.device_allocation_exists = True
  BY <1>1 DEF AtLeaf, Sound
<1>3. s.current_device \in Interface /\ m.buf[b].device_interface = s.current_device
  BY <1>1, <1>2 DEF AtLeaf, Sound, State
<1>4. s.current_device \in Devices /\ d \in Devices
  BY <1>1, <1>3, InterfaceAssumption DEF AtLeaf, Settled, Fits
<1>5. ~One
  BY <1>1, <1>4 DEF One
<1>. QED
  BY <1>1, <1>5, DeviceOnlyOne DEF AtLeaf, needs_copy_to_device

\* Without a move, the device memory is where the leaf needs it.
LEMMA Usable ==
  ASSUME NEW s, NEW u, AtLeaf(s, u), ~needs_device_flip(s, u), touching_device(u) # None
  PROVE  /\ m.buf[b].device_interface \in {NULL, touching_device(u)}
         /\ s.device_allocation_exists = True => m.buf[b].device_interface = touching_device(u)
<1>. DEFINE d == touching_device(u)
            i == m.buf[b].device_interface
<1>1. i \in Devices \union {NULL} /\ d \in Devices /\ s.device_allocation_exists \in FlagState
  BY DEF AtLeaf, Settled, Fits, State
<1>2. One => i \in {NULL, d}
  BY <1>1 DEF One
<1>3. CASE s.device_allocation_exists = True
  <2>1. i = s.current_device /\ i \in Interface
    BY <1>3 DEF AtLeaf, Sound, State
  <2>2. s.current_device = d \/ external
    BY <1>3, <2>1, DevicesAssumption DEF needs_device_flip, True, False
  <2>. QED
    BY <1>2, <2>1, <2>2, InterfaceAssumption DEF AtLeaf, Program
<1>4. CASE s.device_allocation_exists = False
  <2>1. m.buf[b].device = NULL \/ One
    BY <1>4, CombinedOne DEF AtLeaf, Sound
  <2>. QED
    BY <1>2, <1>4, <2>1 DEF AtLeaf, Settled, Exact, Named, True, False
<1>5. CASE s.device_allocation_exists = Unknown
  BY <1>2, <1>5 DEF AtLeaf, Sound, True, Unknown
<1>. QED
  BY <1>1, <1>3, <1>4, <1>5 DEF FlagState


\* After the download, if there is one.
Downloaded(s, u, n) ==
  /\ Settled(n) /\ n.lost = m.lost
  /\ n.buf[b].host_dirty = m.buf[b].host_dirty
  /\ n.buf[b].device = m.buf[b].device
  /\ n.buf[b].device_interface = m.buf[b].device_interface

DownloadedBit(s, u, n) ==
  Means(IF needs_copy_to_host(s, u) THEN False ELSE s.device_dirty, n.buf[b].device_dirty)

\* The copy to the host that is injected before a leaf.
LEMMA FetchStep ==
  ASSUME NEW s, NEW u, AtLeaf(s, u), NEW p \in Fetches(s, u)
  PROVE  Downloaded(s, u, p.m) /\ (p.err = Success => DownloadedBit(s, u, p.m))
<1>1. CASE needs_copy_to_host(s, u)
  <2>1. OnHost
    BY <1>1, FlipSeveral, DeviceOnlyOne DEF needs_copy_to_host, AtLeaf, Fits
  <2>2. Fetched(m, p)
    BY <1>1, <2>1, FetchEffect DEF Fetches, AtLeaf
  <2>3. p.err = Success => DownloadedBit(s, u, p.m)
    BY <1>1, <2>2 DEF Fetched, DownloadedBit, Means, True, False
  <2>. QED
    BY <2>2, <2>3 DEF Fetched, Downloaded
<1>2. CASE ~needs_copy_to_host(s, u)
  <2>1. p.m = m
    BY <1>2 DEF Fetches, Ok
  <2>. QED
    BY <1>2, <2>1 DEF Downloaded, DownloadedBit, AtLeaf, Sound
<1>. QED
  BY <1>1, <1>2

\* After the move to another device, if there is one.
Moved(s, u, n) ==
  /\ Settled(n)
  /\ needs_device_flip(s, u) => n.buf[b].device = NULL /\ ~n.buf[b].device_dirty
  /\ ~needs_device_flip(s, u) => Downloaded(s, u, n) /\ DownloadedBit(s, u, n)

\* The move of the buffer from another device before a leaf.
LEMMA FlipStep ==
  ASSUME NEW s, NEW u, AtLeaf(s, u), NEW k, Downloaded(s, u, k), DownloadedBit(s, u, k),
         NEW q \in Flip(k, s, u)
  PROVE  Settled(q.m) /\ Moved(s, u, q.m)
<1>1. CASE needs_device_flip(s, u)
  <2>1. ~k.buf[b].device_dirty
    BY <1>1 DEF DownloadedBit, needs_copy_to_host, Means
  <2>2. q \in halide_device_free(Raised(k, b, "host_dirty"), b)
    BY <1>1 DEF Flip, Raised, SetBit
  <2>3. Dropped(k, q)
    BY <2>1, <2>2, DropEffect DEF Downloaded
  <2>. QED
    BY <1>1, <2>3 DEF Dropped, Moved
<1>2. CASE ~needs_device_flip(s, u)
  <2>1. q.m = k
    BY <1>2 DEF Flip, Ok, SetBit
  <2>. QED
    BY <1>2, <2>1 DEF Moved, Downloaded
<1>. QED
  BY <1>1, <1>2

\* What the pass knows when the leaf runs, field by field.
LEMMA BeforeFields ==
  ASSUME NEW s, NEW u, AtLeaf(s, u)
  PROVE  LET t == Before(s, u)
             gets == needs_copy_to_device(s, u) \/ needs_device_malloc(s, u)
         IN  /\ t.device_dirty = IF needs_copy_to_host(s, u) \/ needs_device_flip(s, u)
                                 THEN False ELSE s.device_dirty
             /\ t.host_dirty = IF needs_copy_to_device(s, u) THEN False ELSE s.host_dirty
             /\ t.device_allocation_exists = IF gets THEN True ELSE s.device_allocation_exists
             /\ t.current_device = IF gets THEN touching_device(u) ELSE s.current_device
             /\ t \in State
<1>1. needs_device_flip(s, u) => needs_copy_to_device(s, u)
  BY FlipSeveral
<1>2. needs_copy_to_device(s, u) \/ needs_device_malloc(s, u) => touching_device(u) # None
  BY FlipSeveral DEF needs_copy_to_device, needs_device_malloc
<1>. QED
  BY <1>1, <1>2 DEF Before, AtLeaf, Fits, State, FlagState

\* When the leaf runs.
Ready(s, u, n) ==
  /\ Settled(n) /\ Sound(Before(s, u), n)
  /\ Host \in u.touched => ~n.buf[b].device_dirty
  /\ touching_device(u) # None => /\ n.buf[b].device_interface = touching_device(u)
                                  /\ ~n.buf[b].host_dirty

\* The copy or the allocation on the device that is injected before a leaf.
LEMMA ObtainStep ==
  ASSUME NEW s, NEW u, AtLeaf(s, u), NEW k, Moved(s, u, k), NEW r \in Obtains(k, s, u)
  PROVE  Exact(r.m) /\ (r.err = Success => Ready(s, u, r.m))
<1>. DEFINE d == touching_device(u)
            t == Before(s, u)
<1>1. /\ t.device_dirty = IF needs_copy_to_host(s, u) \/ needs_device_flip(s, u)
                          THEN False ELSE s.device_dirty
      /\ t.host_dirty = IF needs_copy_to_device(s, u) THEN False ELSE s.host_dirty
      /\ t.device_allocation_exists = IF needs_copy_to_device(s, u) \/ needs_device_malloc(s, u)
                                      THEN True ELSE s.device_allocation_exists
      /\ t.current_device = IF needs_copy_to_device(s, u) \/ needs_device_malloc(s, u)
                            THEN d ELSE s.current_device
  BY BeforeFields
<1>. HIDE DEF t
<1>2. Settled(k) /\ (d # None => d \in Interface /\ d \in Devices)
  BY DEF Moved, AtLeaf, Fits
<1>3. Means(t.device_dirty, k.buf[b].device_dirty)
  BY <1>1 DEF Moved, DownloadedBit, Means, True, False
<1>4. Host \in u.touched => ~k.buf[b].device_dirty
  BY DEF Moved, DownloadedBit, needs_copy_to_host, Means
<1>5. CASE needs_copy_to_device(s, u)
  <2>1. d # None
    BY <1>5, FlipSeveral DEF needs_copy_to_device
  <2>2. Obtained(k, r, d) /\ (r.err = Success => ~r.m.buf[b].host_dirty)
    BY <1>2, <1>5, <2>1, CopyObtains DEF Obtains
  <2>3. r.err = Success => Sound(t, r.m)
    BY <1>1, <1>2, <1>3, <1>5, <2>1, <2>2 DEF Obtained, Sound, Means, True, False, Unknown
  <2>. QED
    BY <1>4, <2>2, <2>3 DEF Obtained, Ready, t
<1>6. CASE needs_device_malloc(s, u) /\ ~needs_copy_to_device(s, u)
  <2>1. d # None /\ s.host_dirty = False /\ ~needs_device_flip(s, u)
    BY <1>6 DEF needs_device_malloc, needs_copy_to_device
  <2>2. ~k.buf[b].host_dirty
    BY <2>1 DEF Moved, Downloaded, AtLeaf, Sound, Means
  <2>3. Obtained(k, r, d)
    BY <1>2, <1>6, <2>1, MallocObtains DEF Obtains
  <2>4. r.err = Success => Sound(t, r.m)
    BY <1>1, <1>2, <1>3, <1>6, <2>1, <2>2, <2>3 DEF Obtained, Sound, Means, True, False, Unknown
  <2>. QED
    BY <1>4, <2>2, <2>3, <2>4 DEF Obtained, Ready, t
<1>7. CASE ~needs_copy_to_device(s, u) /\ ~needs_device_malloc(s, u)
  <2>1. r.m = k /\ ~needs_device_flip(s, u) /\ Downloaded(s, u, k)
    BY <1>7, FlipSeveral DEF Obtains, Ok, Moved
  <2>2. Sound(t, k)
    BY <1>1, <1>3, <1>7, <2>1 DEF Downloaded, AtLeaf, Sound
  <2>3. ASSUME d # None
        PROVE  k.buf[b].device_interface = d /\ ~k.buf[b].host_dirty
    <3>1. s.device_allocation_exists = True /\ s.host_dirty = False
      BY <1>7, <2>3 DEF needs_device_malloc, needs_copy_to_device
    <3>. QED
      BY <2>1, <2>3, <3>1, Usable DEF Downloaded, AtLeaf, Sound, Means
  <2>. QED
    BY <1>2, <1>4, <2>1, <2>2, <2>3 DEF Ready, Settled, t
<1>. QED
  BY <1>5, <1>6, <1>7


\* If the calls before a leaf all succeed, the buffer is ready for it.
LEMMA PrologueEffect ==
  ASSUME NEW s, NEW u, AtLeaf(s, u), NEW r \in Prologue(s, u)
  PROVE  Exact(r.m) /\ (r.err = Success => Ready(s, u, r.m))
<1>1. PICK p \in Fetches(s, u) :
        \/ p.err # Success /\ r = p
        \/ /\ p.err = Success
           /\ \E q \in Flip(p.m, s, u) :
                (q.err # Success /\ r = q) \/ (q.err = Success /\ r \in Obtains(q.m, s, u))
  BY PrologueCases
<1>2. Downloaded(s, u, p.m) /\ (p.err = Success => DownloadedBit(s, u, p.m))
  BY FetchStep
<1>3. CASE p.err # Success /\ r = p
  BY <1>2, <1>3 DEF Downloaded, Settled
<1>4. CASE p.err = Success
  <2>1. PICK q \in Flip(p.m, s, u) :
               (q.err # Success /\ r = q) \/ (q.err = Success /\ r \in Obtains(q.m, s, u))
    BY <1>1, <1>4
  <2>2. Settled(q.m) /\ Moved(s, u, q.m)
    BY <1>2, <1>4, FlipStep
  <2>3. CASE q.err # Success /\ r = q
    BY <2>2, <2>3 DEF Settled
  <2>4. CASE q.err = Success /\ r \in Obtains(q.m, s, u)
    BY <2>2, <2>4, ObtainStep
  <2>. QED
    BY <2>1, <2>3, <2>4
<1>. QED
  BY <1>1, <1>3, <1>4

\* The calls before a leaf can all succeed.
LEMMA PrologueSucceeds ==
  ASSUME NEW s, NEW u, AtLeaf(s, u)
  PROVE  Success \in {q.err : q \in Prologue(s, u)}
<1>. DEFINE d == touching_device(u)
<1>1. m \in MachineZ /\ Valid(m, b)
  BY ValidExact DEF AtLeaf, Settled
<1>2. PICK p \in Fetches(s, u) : p.err = Success
  <2>1. CASE needs_copy_to_host(s, u)
    BY <1>1, <2>1, CopyToHostSucceeds DEF Fetches, AtLeaf, Settled, CanSucceed
  <2>2. CASE ~needs_copy_to_host(s, u)
    <3>1. Ok(m) \in Fetches(s, u)
      BY <2>2 DEF Fetches
    <3>. QED
      BY <3>1 DEF Ok
  <2>. QED
    BY <2>1, <2>2
<1>3. Downloaded(s, u, p.m) /\ DownloadedBit(s, u, p.m)
  BY <1>2, FetchStep
<1>4. PICK q \in Flip(p.m, s, u) : q.err = Success
  <2>1. CASE needs_device_flip(s, u)
    <3>. DEFINE z == Raised(p.m, b, "host_dirty")
    <3>1. ~p.m.buf[b].device_dirty
      BY <1>3, <2>1 DEF DownloadedBit, needs_copy_to_host, Means
    <3>2. z \in MachineZ /\ Valid(z, b)
      <4>1. p.m \in MachineZ /\ b \in Buffer /\ "host_dirty" \in Bit /\ Exact(p.m)
        BY <1>3, ValidExact, ProgramAssumption DEF Downloaded, Settled, Bit
      <4>2. Frame(p.m, z, b) /\ Counted(p.m, z, b) /\ Keeps(p.m, z, b)
        BY <4>1, BitOnly
      <4>3. z.buf[b].device_dirty = p.m.buf[b].device_dirty
        BY <4>1, SetFields
      <4>. HIDE DEF z
      <4>4. Exact(z)
        BY <3>1, <4>1, <4>2, <4>3, ExactAfter
      <4>. QED
        BY <4>4, ValidExact
    <3>3. Flip(p.m, s, u) = halide_device_free(z, b)
      BY <2>1 DEF Flip, Raised, SetBit
    <3>. HIDE DEF z
    <3>. QED
      BY <3>2, <3>3, FreeSucceeds DEF CanSucceed
  <2>2. CASE ~needs_device_flip(s, u)
    <3>1. Ok(p.m) \in Flip(p.m, s, u)
      BY <2>2 DEF Flip, SetBit
    <3>. QED
      BY <3>1 DEF Ok
  <2>. QED
    BY <2>1, <2>2
<1>5. Moved(s, u, q.m) /\ Exact(q.m)
  BY <1>3, FlipStep DEF Settled
<1>6. q.m \in MachineZ /\ Valid(q.m, b) /\ q.m.live = {q.m.buf[b].device} \ {NULL}
  BY <1>5, ValidExact DEF Exact
<1>7. ASSUME d # None
      PROVE  d \in Interface /\ CanUse(q.m, b, d)
  <2>1. CASE needs_device_flip(s, u)
    BY <1>5, <1>7, <2>1 DEF Moved, Exact, Named, CanUse, AtLeaf, Fits
  <2>2. CASE ~needs_device_flip(s, u)
    BY <1>5, <1>7, <2>2, Usable DEF Moved, Downloaded, CanUse, AtLeaf, Fits
  <2>. QED
    BY <2>1, <2>2
<1>8. PICK r \in Obtains(q.m, s, u) : r.err = Success
  <2>1. CASE needs_copy_to_device(s, u)
    <3>1. d # None
      BY <2>1, FlipSeveral DEF needs_copy_to_device
    <3>2. CanSucceed(copy_to_device_already_locked(q.m, b, d))
      BY <1>6, <1>7, <3>1, CopyToDeviceSucceeds
    <3>. QED
      BY <2>1, <3>2 DEF Obtains, CanSucceed
  <2>2. CASE needs_device_malloc(s, u) /\ ~needs_copy_to_device(s, u)
    <3>1. d # None
      BY <2>2 DEF needs_device_malloc
    <3>2. q.m.buf[b].device # NULL \/ Handle \ q.m.live # {}
      BY <1>6, DevicesAssumption
    <3>3. CanSucceed(halide_device_malloc(q.m, b, d))
      BY <1>6, <1>7, <3>1, <3>2, MallocSucceeds
    <3>. QED
      BY <2>2, <3>3 DEF Obtains, CanSucceed
  <2>3. CASE ~needs_device_malloc(s, u) /\ ~needs_copy_to_device(s, u)
    <3>1. Ok(q.m) \in Obtains(q.m, s, u)
      BY <2>3 DEF Obtains
    <3>. QED
      BY <3>1 DEF Ok
  <2>. QED
    BY <2>1, <2>2, <2>3
<1>9. r \in Prologue(s, u)
  BY <1>2, <1>4, <1>8, PrologueReaches
<1>. QED
  BY <1>8, <1>9

\* A buffer that is ready for a leaf has the newest content where the leaf touches it.
LEMMA ReadyFinds ==
  ASSUME NEW s, NEW u, AtLeaf(s, u), NEW n, Ready(s, u, n)
  PROVE  FindsCurrent(n, u)
<1>. SUFFICES ASSUME NEW p \in u.touched
              PROVE  Has(n, p) /\ (b \in n.lost \/ Memory(p) \in n.fresh[b])
  BY DEF FindsCurrent
<1>1. CASE p = Host
  <2>1. OnHost
    BY <1>1, DeviceOnlyOne DEF AtLeaf, Fits
  <2>2. n.buf[b].host /\ ~n.buf[b].device_dirty
    BY <1>1, <2>1 DEF Ready, Settled
  <2>. QED
    BY <1>1, <2>2 DEF Ready, Settled, Truthful, Has, Memory
<1>2. CASE p # Host
  <2>. DEFINE d == touching_device(u)
  <2>1. p = d /\ d # None /\ d \in Interface
    BY <1>2 DEF AtLeaf, Fits
  <2>2. n.buf[b].device_interface = d /\ ~n.buf[b].host_dirty
    BY <2>1 DEF Ready
  <2>3. n.buf[b].device # NULL
    BY <2>1, <2>2, InterfaceAssumption DEF Ready, Settled, Exact, Named
  <2>. QED
    BY <1>2, <2>1, <2>2, <2>3 DEF Ready, Settled, Truthful, Has, Memory
<1>. QED
  BY <1>1, <1>2


-----------------------------------------------------------------------------
(***************************************************************************)
(* What a leaf does.                                                       *)
(***************************************************************************)
\* k is n after the leaf, which may have written at p.
Ran(n, k, p) ==
  /\ k \in MachineZ
  /\ k.buf = n.buf /\ k.live = n.live /\ k.refs = n.refs
  /\ \/ k.fresh = n.fresh /\ k.lost = n.lost
     \/ k.fresh[b] = {Memory(p)} /\ b \notin k.lost

\* A leaf changes content, and nothing else.
LEMMA BodyEffect ==
  ASSUME NEW n \in MachineZ, NEW u, NEW p, u.writing = {p}, NEW k \in Bodies(n, u)
  PROVE  Ran(n, k, p)
<1>. DEFINE f == {Memory(p)}
            l == {}
            w == [n EXCEPT !.fresh[b] = f, !.lost = l]
<1>1. k = n \/ k = w
  BY DEF Bodies
<1>2. f \in SUBSET {Host, Device} /\ l \in SUBSET Buffer /\ b \in Buffer
  BY ProgramAssumption DEF Memory
<1>3. Rewritten(n, w, b, f, l)
  <2>. HIDE DEF f, l
  <2>. QED
    BY <1>2, ContentFields
<1>4. b \notin l
  OBVIOUS
<1>. HIDE DEF w, l
<1>5. Ran(n, w, p)
  BY <1>3, <1>4 DEF Rewritten, Inert, Ran
<1>. QED
  BY <1>1, <1>5 DEF Ran

\* z is k, but that the dirty bit of the place may have been set.
MarkedOn(k, z, place) ==
  /\ Frame(k, z, b) /\ Counted(k, z, b) /\ Keeps(k, z, b) /\ SameContent(k, z)
  /\ z.buf[b].host = k.buf[b].host
  /\ place = Host => z.buf[b].device_dirty = k.buf[b].device_dirty
                     /\ (k.buf[b].host_dirty => z.buf[b].host_dirty)
  /\ place # Host => z.buf[b].host_dirty = k.buf[b].host_dirty
                     /\ (k.buf[b].device_dirty => z.buf[b].device_dirty)

BitOf(place) == IF place = Host THEN "host_dirty" ELSE "device_dirty"

BitSet(z, place) == IF place = Host THEN z.buf[b].host_dirty ELSE z.buf[b].device_dirty

\* No bit need be set.
LEMMA NotMarked ==
  ASSUME NEW k \in MachineZ, NEW place
  PROVE  MarkedOn(k, k, place)
BY Unchanged, ProgramAssumption DEF MarkedOn

\* The bit of a place is set.
LEMMA MarkedRaised ==
  ASSUME NEW k \in MachineZ, NEW place, NEW z, z = Raised(k, b, BitOf(place))
  PROVE  MarkedOn(k, z, place) /\ BitSet(z, place)
<1>1. BitOf(place) \in Bit /\ b \in Buffer
  BY ProgramAssumption DEF BitOf, Bit
<1>2. Frame(k, z, b) /\ Counted(k, z, b) /\ Keeps(k, z, b) /\ SameContent(k, z)
  BY <1>1, BitOnly
<1>3. CASE place = Host
  <2>1. "host_dirty" \in Bit /\ z = Raised(k, b, "host_dirty")
    BY <1>3 DEF BitOf, Bit
  <2>2. /\ z.buf[b].host = k.buf[b].host /\ z.buf[b].host_dirty
        /\ z.buf[b].device_dirty = k.buf[b].device_dirty
    BY <1>1, <2>1, SetFields
  <2>. QED
    BY <1>2, <1>3, <2>2 DEF MarkedOn, BitSet
<1>4. CASE place # Host
  <2>1. "device_dirty" \in Bit /\ z = Raised(k, b, "device_dirty")
    BY <1>4 DEF BitOf, Bit
  <2>2. /\ z.buf[b].host = k.buf[b].host /\ z.buf[b].device_dirty
        /\ z.buf[b].host_dirty = k.buf[b].host_dirty
    BY <1>1, <2>1, SetFields
  <2>. QED
    BY <1>2, <1>4, <2>2 DEF MarkedOn, BitSet
<1>. QED
  BY <1>3, <1>4

\* A bit may be set twice, by an extern stage and after it.
LEMMA MarkedTwice ==
  ASSUME NEW k \in MachineZ, NEW y, NEW z, NEW place, MarkedOn(k, y, place), MarkedOn(y, z, place)
  PROVE  MarkedOn(k, z, place) /\ (BitSet(k, place) => BitSet(z, place))
<1>1. b \in Buffer
  BY ProgramAssumption
<1>2. Frame(k, z, b) /\ Counted(k, z, b)
  BY <1>1, Compose DEF MarkedOn
<1>3. Keeps(k, z, b) /\ SameContent(k, z)
  BY DEF MarkedOn, Keeps, SameContent
<1>. QED
  BY <1>2, <1>3 DEF MarkedOn, BitSet

\* Once the bit of the place that was written is set, all is settled again.
LEMMA WrittenSettled ==
  ASSUME NEW n, Settled(n), NEW p, NEW k, Ran(n, k, p), NEW z, MarkedOn(k, z, p), BitSet(z, p),
         p = Host => OnHost /\ ~n.buf[b].device_dirty,
         p # Host => n.buf[b].device # NULL /\ ~n.buf[b].host_dirty
  PROVE  Settled(z)
<1>1. Exact(k)
  BY DEF Ran, Settled, Exact, Named, Holding
<1>2. /\ Frame(k, z, b) /\ Counted(k, z, b) /\ Keeps(k, z, b) /\ SameContent(k, z)
      /\ ~(z.buf[b].host_dirty /\ z.buf[b].device_dirty)
  BY DEF MarkedOn, BitSet, Ran
<1>3. Exact(z)
  BY <1>1, <1>2, ExactAfter
<1>4. /\ z.buf[b].host = n.buf[b].host /\ z.buf[b].device = n.buf[b].device
      /\ z.buf[b].device_interface = n.buf[b].device_interface
      /\ \/ z.fresh = n.fresh /\ z.lost = n.lost
         \/ z.fresh[b] = {Memory(p)} /\ b \notin z.lost
  BY DEF MarkedOn, Ran, Keeps, SameContent
<1>5. CASE p = Host
  <2>1. z.buf[b].host_dirty /\ ~z.buf[b].device_dirty /\ z.buf[b].host
    BY <1>4, <1>5 DEF MarkedOn, BitSet, Ran, Settled
  <2>2. Truthful(z, b)
    BY <1>4, <1>5, <2>1, Apart DEF Settled, Truthful, Memory
  <2>. QED
    BY <1>3, <1>4, <2>1, <2>2 DEF Settled, Marking
<1>6. CASE p # Host
  <2>1. z.buf[b].device_dirty /\ ~z.buf[b].host_dirty /\ z.buf[b].device # NULL
    BY <1>4, <1>6 DEF MarkedOn, BitSet, Ran
  <2>2. Truthful(z, b)
    BY <1>4, <1>6, <2>1, Apart DEF Settled, Truthful, Memory
  <2>. QED
    BY <1>3, <1>4, <2>1, <2>2 DEF Settled, Marking
<1>. QED
  BY <1>5, <1>6


\* An extern stage that touches nothing here may still move the buffer.
LEMMA ExternMoves ==
  ASSUME NEW s, NEW u, AtLeaf(s, u), u.extern # {}, u.touched = {}, NEW n, Settled(n),
         NEW y \in ByExtern(n, u)
  PROVE  Settled(y)
<1>. DEFINE Results(R) == {r.m : r \in {q \in R : q.err = Success}}
            host == IF n.buf[b].host THEN Results(halide_copy_to_host(n, b)) ELSE {}
            device == UNION {Results(copy_to_device_already_locked(n, b, i)) : i \in u.extern \ {Host}}
            free == IF n.buf[b].device_dirty THEN {} ELSE Results(halide_device_free(Kept(n), b))
<1>0. ByExtern(n, u) = {n} \union (host \union device \union free)
  BY DEF ByExtern
<1>1. y = n \/ y \in host \/ y \in device \/ y \in free
  <2>. HIDE DEF host, device, free
  <2>. QED
    BY <1>0
<1>2. CASE y \in host
  <2>1. PICK r \in halide_copy_to_host(n, b) : y = r.m
    BY <1>2
  <2>2. OnHost
    BY <1>2 DEF Settled
  <2>. QED
    BY <2>1, <2>2, FetchEffect DEF Fetched
<1>3. CASE y \in device
  <2>1. PICK i \in u.extern \ {Host} : y \in Results(copy_to_device_already_locked(n, b, i))
    BY <1>3
  <2>a. PICK r \in copy_to_device_already_locked(n, b, i) : y = r.m /\ r.err = Success
    BY <2>1
  <2>2. i \in Interface /\ i \in Devices
    BY <2>1 DEF AtLeaf, Program, Fits, Devices
  <2>. QED
    BY <2>a, <2>2, CopyObtains DEF Obtained
<1>4. CASE y \in free
  <2>1. ~n.buf[b].device_dirty
    BY <1>4
  <2>2. PICK r \in halide_device_free(Kept(n), b) : y = r.m
    BY <1>4, <2>1
  <2>3. CASE n.buf[b].host /\ b \notin n.lost
    <3>1. (n.buf[b].host /\ b \notin n.lost) = TRUE
      BY <2>3
    <3>2. Kept(n) = Raised(n, b, "host_dirty")
      BY <3>1 DEF Kept, Raised, SetBit
    <3>. QED
      BY <2>1, <2>2, <3>2, DropEffect DEF Dropped
  <2>4. CASE ~(n.buf[b].host /\ b \notin n.lost)
    <3>1. (n.buf[b].host /\ b \notin n.lost) = FALSE
      BY <2>4
    <3>2. Kept(n) = Cleared(n, b, "host_dirty")
      BY <3>1 DEF Kept, Cleared, SetBit
    <3>3. b \in n.lost
      BY <2>1, <2>4 DEF Settled, Truthful
    <3>. QED
      BY <2>1, <2>2, <3>2, <3>3, DropEffect DEF Dropped
  <2>. QED
    BY <2>3, <2>4
<1>. QED
  BY <1>1, <1>2, <1>3, <1>4

\* One that writes may set the dirty bit of the place itself.
LEMMA ExternMarks ==
  ASSUME NEW s, NEW u, AtLeaf(s, u), NEW p, u.writing = {p}, u.touched = {p},
         NEW k \in MachineZ, NEW y \in ByExtern(k, u)
  PROVE  MarkedOn(k, y, p)
<1>1. y = k \/ y = Raised(k, b, BitOf(p))
  <2>1. CASE u.extern = {}
    BY <2>1 DEF ByExtern
  <2>2. CASE u.extern # {} /\ p = Host
    <3>1. y = k \/ y = SetBit(k, b, "host_dirty", TRUE)
      BY <2>2 DEF ByExtern, SetBit
    <3>. QED
      BY <2>2, <3>1 DEF Raised, BitOf
  <2>3. CASE u.extern # {} /\ p # Host
    <3>1. y = k \/ y = SetBit(k, b, "device_dirty", TRUE)
      BY <2>3 DEF ByExtern, SetBit
    <3>. QED
      BY <2>3, <3>1 DEF Raised, BitOf
  <2>. QED
    BY <2>1, <2>2, <2>3
<1>. QED
  BY <1>1, NotMarked, MarkedRaised

\* What the pass injects after a leaf.
LEMMA EpilogueNothing ==
  ASSUME NEW s, NEW u, Fits(u), u.writing = {}, NEW k
  PROVE  Epilogue(k, s, u) = k
<1>1. ~needs_host_dirty(s, u) /\ ~needs_device_dirty(s, u)
  BY DEF needs_host_dirty, needs_device_dirty, Fits
<1>. QED
  BY <1>1 DEF Epilogue, SetBit

\* After a leaf that writes, the bit of the place is set, if the pass does not
\* know that it is.
LEMMA EpilogueMarks ==
  ASSUME NEW s, NEW u, Fits(u), NEW p, u.writing = {p}, u.touched = {p},
         p = Host <=> touching_device(u) = None, NEW k \in MachineZ
  PROVE  /\ MarkedOn(k, Epilogue(k, s, u), p)
         /\ p = Host /\ s.host_dirty # True => BitSet(Epilogue(k, s, u), p)
         /\ p # Host /\ s.device_dirty # True => BitSet(Epilogue(k, s, u), p)
<1>. DEFINE z == Epilogue(k, s, u)
<1>1. needs_host_dirty(s, u) <=> p = Host /\ s.host_dirty # True
  BY DEF needs_host_dirty
<1>2. needs_device_dirty(s, u) <=> p # Host /\ s.device_dirty # True
  BY DEF needs_device_dirty, Fits
<1>3. CASE ~needs_host_dirty(s, u) /\ ~needs_device_dirty(s, u)
  <2>1. z = k
    BY <1>3 DEF Epilogue, SetBit
  <2>. HIDE DEF z
  <2>. QED
    BY <1>1, <1>2, <1>3, <2>1, NotMarked DEF z
<1>4. CASE needs_host_dirty(s, u)
  <2>1. z = Raised(k, b, BitOf(p))
    BY <1>1, <1>2, <1>4 DEF Epilogue, Raised, BitOf, SetBit
  <2>. HIDE DEF z
  <2>. QED
    BY <2>1, MarkedRaised DEF z
<1>5. CASE needs_device_dirty(s, u)
  <2>1. z = Raised(k, b, BitOf(p))
    BY <1>1, <1>2, <1>5 DEF Epilogue, Raised, BitOf, SetBit
  <2>. HIDE DEF z
  <2>. QED
    BY <2>1, MarkedRaised DEF z
<1>. QED
  BY <1>3, <1>4, <1>5


\* What the pass knows after a leaf.
LEMMA AfterFields ==
  ASSUME NEW s, NEW u, AtLeaf(s, u)
  PROVE  LET t == Before(s, u)
             a == After(s, u)
             known(flag) == IF u.extern = {} THEN flag ELSE Unknown
         IN  /\ a.host_dirty = IF needs_host_dirty(s, u) THEN True ELSE known(t.host_dirty)
             /\ a.device_dirty = IF needs_device_dirty(s, u) THEN True ELSE known(t.device_dirty)
             /\ a.device_allocation_exists = known(t.device_allocation_exists)
             /\ a.current_device = IF u.extern = {} THEN t.current_device ELSE None
             /\ a \in State
<1>. DEFINE t == Before(s, u)
            x == IF needs_host_dirty(s, u) THEN True ELSE t.host_dirty
            y == IF needs_device_dirty(s, u) THEN True ELSE t.device_dirty
            k == [t EXCEPT !.host_dirty = x, !.device_dirty = y]
<1>1. t \in State
  BY BeforeFields
<1>2. Marks(s, u) = k
  <2>1. Marks(s, u) = [t EXCEPT !.host_dirty = IF needs_host_dirty(s, u) THEN True ELSE @,
                                !.device_dirty = IF needs_device_dirty(s, u) THEN True ELSE @]
    BY DEF Marks
  <2>. HIDE DEF t
  <2>. QED
    BY <1>1, <2>1 DEF State
<1>. HIDE DEF t
<1>3. x \in FlagState /\ y \in FlagState
  BY <1>1 DEF State, FlagState
<1>. HIDE DEF x, y
<1>4. /\ k.host_dirty = x /\ k.device_dirty = y
      /\ k.device_allocation_exists = t.device_allocation_exists
      /\ k.current_device = t.current_device
      /\ k \in State
  BY <1>1, <1>3 DEF State
<1>. HIDE DEF k
<1>5. CASE u.extern = {}
  BY <1>2, <1>4, <1>5 DEF After, x, y, t
<1>6. CASE u.extern # {}
  BY <1>6 DEF After, State, FlagState
<1>. QED
  BY <1>5, <1>6

\* A leaf may write where it finds the buffer: FLIP_WRITES is FALSE.
MayRun(s, u) == AtLeaf(s, u) /\ ~(u.writing # {} /\ needs_device_flip(s, u))

\* After the leaf: k, and after what an extern stage does besides: y.
LeafRuns(s, u, n, y) ==
  /\ Ready(s, u, n)
  /\ \E k \in Bodies(n, u) : y \in ByExtern(k, u)

\* A leaf that writes nothing leaves the buffer settled, and what the pass then
\* knows is so.
LEMMA QuietLeaf ==
  ASSUME NEW s, NEW u, MayRun(s, u), u.writing = {}, NEW n, NEW y, LeafRuns(s, u, n, y)
  PROVE  Settled(y) /\ Epilogue(y, s, u) = y /\ Sound(After(s, u), y)
<1>1. Settled(n) /\ Sound(Before(s, u), n) /\ y \in ByExtern(n, u)
  BY DEF LeafRuns, Ready, Bodies
<1>2. Epilogue(y, s, u) = y
  BY EpilogueNothing DEF MayRun, AtLeaf
<1>3. ~needs_host_dirty(s, u) /\ ~needs_device_dirty(s, u)
  BY DEF needs_host_dirty, needs_device_dirty, MayRun, AtLeaf, Fits
<1>4. CASE u.extern = {}
  <2>1. y = n
    BY <1>1, <1>4 DEF ByExtern
  <2>. DEFINE t == Before(s, u)
              a == After(s, u)
  <2>2. /\ a.host_dirty = t.host_dirty /\ a.device_dirty = t.device_dirty
        /\ a.device_allocation_exists = t.device_allocation_exists
        /\ a.current_device = t.current_device
    BY <1>3, <1>4, AfterFields DEF MayRun
  <2>. HIDE DEF a, t
  <2>3. Sound(t, n)
    BY <1>1 DEF t
  <2>4. Sound(a, n)
    BY <2>2, <2>3 DEF Sound
  <2>. QED
    BY <1>1, <1>2, <2>1, <2>4 DEF a
<1>5. CASE u.extern # {}
  <2>1. u.touched = {} /\ One
    BY <1>5 DEF MayRun, AtLeaf, Fits
  <2>2. Settled(y)
    BY <1>1, <1>5, <2>1, ExternMoves DEF MayRun
  <2>. DEFINE a == After(s, u)
  <2>3. /\ a.host_dirty = Unknown /\ a.device_dirty = Unknown
        /\ a.device_allocation_exists = Unknown /\ a.current_device = None
    BY <1>3, <1>5, AfterFields DEF MayRun
  <2>. HIDE DEF a
  <2>4. Sound(a, y)
    BY <2>1, <2>3 DEF Sound, Means, Unknown, True, False
  <2>. QED
    BY <1>2, <2>2, <2>4 DEF a
<1>. QED
  BY <1>4, <1>5

\* The bits and the place where a leaf wrote.
WroteAt(s, u, p) ==
  /\ u.writing = {p} /\ u.touched = {p}
  /\ p = Host <=> touching_device(u) = None
  /\ p # Host => touching_device(u) = p

\* A leaf writes on the host, or on the one device it touches.
LEMMA PlaceWritten ==
  ASSUME NEW s, NEW u, MayRun(s, u), u.writing # {}
  PROVE  \E p : WroteAt(s, u, p)
<1>1. PICK p \in {Host, touching_device(u)} : u.writing = {p} /\ u.touched = {p}
  BY DEF MayRun, AtLeaf, Fits
<1>2. touching_device(u) # None => touching_device(u) = p /\ p # Host
  BY <1>1 DEF MayRun, AtLeaf, Fits, Devices
<1>3. touching_device(u) = None => p = Host
  BY <1>1 DEF MayRun, AtLeaf, Fits
<1>. QED
  BY <1>1, <1>2, <1>3 DEF WroteAt


\* So does a leaf that writes, once its epilogue has set the dirty bit.
LEMMA WritingLeaf ==
  ASSUME NEW s, NEW u, MayRun(s, u), NEW p, WroteAt(s, u, p), NEW n, NEW y, LeafRuns(s, u, n, y)
  PROVE  /\ Exact(y)
         /\ p = Host => ~y.buf[b].device_dirty
         /\ p # Host => ~y.buf[b].host_dirty
         /\ Settled(Epilogue(y, s, u)) /\ Sound(After(s, u), Epilogue(y, s, u))
<1>. DEFINE t == Before(s, u)
            z == Epilogue(y, s, u)
            a == After(s, u)
            d == touching_device(u)
<1>1. /\ Settled(n) /\ Sound(t, n)
      /\ p = Host => OnHost /\ ~n.buf[b].device_dirty
      /\ p # Host => n.buf[b].device # NULL /\ ~n.buf[b].host_dirty
  <2>1. Settled(n) /\ Sound(t, n) /\ (p = Host => ~n.buf[b].device_dirty)
    BY DEF LeafRuns, Ready, WroteAt
  <2>2. p = Host => OnHost
    BY DeviceOnlyOne DEF MayRun, AtLeaf, Fits, WroteAt
  <2>3. ASSUME p # Host
        PROVE  n.buf[b].device # NULL /\ ~n.buf[b].host_dirty
    <3>1. n.buf[b].device_interface = d /\ ~n.buf[b].host_dirty /\ d \in Interface
      BY <2>3 DEF LeafRuns, Ready, WroteAt, MayRun, AtLeaf, Fits
    <3>. QED
      BY <2>1, <3>1, InterfaceAssumption DEF Settled, Exact, Named
  <2>. QED
    BY <2>1, <2>2, <2>3
<1>2. PICK k \in Bodies(n, u) : y \in ByExtern(k, u)
  BY DEF LeafRuns
<1>3. Ran(n, k, p)
  BY <1>1, ValidExact, BodyEffect DEF Settled, WroteAt
<1>4. MarkedOn(k, y, p)
  BY <1>2, <1>3, ExternMarks DEF Ran, MayRun, WroteAt
<1>5. y \in MachineZ
  BY <1>4 DEF MarkedOn, Frame
<1>6. /\ MarkedOn(y, z, p)
      /\ p = Host /\ s.host_dirty # True => BitSet(z, p)
      /\ p # Host /\ s.device_dirty # True => BitSet(z, p)
  BY <1>5, EpilogueMarks DEF MayRun, AtLeaf, WroteAt
<1>. HIDE DEF z
<1>7. MarkedOn(k, z, p) /\ (BitSet(k, p) => BitSet(z, p))
  BY <1>3, <1>4, <1>6, MarkedTwice DEF Ran
<1>8. p = Host => t.host_dirty = s.host_dirty
  BY BeforeFields, FlipSeveral DEF MayRun, WroteAt, needs_copy_to_device
<1>9. p # Host => t.device_dirty = s.device_dirty
  BY BeforeFields DEF MayRun, WroteAt, needs_copy_to_host
<1>. HIDE DEF t
<1>10. BitSet(z, p)
  <2>1. p = Host /\ s.host_dirty = True => n.buf[b].host_dirty
    BY <1>1, <1>8 DEF Sound, Means
  <2>2. p # Host /\ s.device_dirty = True => n.buf[b].device_dirty
    BY <1>1, <1>9 DEF Sound, Means
  <2>. QED
    BY <1>3, <1>6, <1>7, <2>1, <2>2 DEF BitSet, Ran
<1>11. Settled(z)
  BY <1>1, <1>3, <1>7, <1>10, WrittenSettled
<1>12. /\ Exact(y)
       /\ p = Host => ~y.buf[b].device_dirty
       /\ p # Host => ~y.buf[b].host_dirty
  <2>1. Exact(k)
    BY <1>1, <1>3 DEF Ran, Settled, Exact, Named, Holding
  <2>2. /\ p = Host => ~y.buf[b].device_dirty
        /\ p # Host => ~y.buf[b].host_dirty
    BY <1>1, <1>3, <1>4 DEF Ran, MarkedOn
  <2>. QED
    BY <1>4, <2>1, <2>2, ExactAfter DEF MarkedOn
<1>13. Sound(a, z)
  <2>1. /\ z.buf[b].device = n.buf[b].device
        /\ z.buf[b].device_interface = n.buf[b].device_interface
        /\ p = Host => z.buf[b].host_dirty /\ ~z.buf[b].device_dirty /\ ~n.buf[b].device_dirty
        /\ p # Host => z.buf[b].device_dirty /\ ~z.buf[b].host_dirty /\ ~n.buf[b].host_dirty
    BY <1>1, <1>3, <1>7, <1>10 DEF MarkedOn, Keeps, Ran, BitSet
  <2>2. /\ needs_host_dirty(s, u) <=> p = Host /\ s.host_dirty # True
        /\ needs_device_dirty(s, u) <=> p # Host /\ s.device_dirty # True
    BY DEF needs_host_dirty, needs_device_dirty, WroteAt, MayRun, AtLeaf, Fits
  <2>3. /\ a.host_dirty = IF needs_host_dirty(s, u) THEN True
                          ELSE IF u.extern = {} THEN t.host_dirty ELSE Unknown
        /\ a.device_dirty = IF needs_device_dirty(s, u) THEN True
                            ELSE IF u.extern = {} THEN t.device_dirty ELSE Unknown
        /\ a.device_allocation_exists = IF u.extern = {} THEN t.device_allocation_exists ELSE Unknown
        /\ a.current_device = IF u.extern = {} THEN t.current_device ELSE None
    BY AfterFields DEF MayRun, t
  <2>4. u.extern # {} => One
    BY DEF MayRun, AtLeaf, Fits
  <2>. HIDE DEF a
  <2>a. /\ ~n.buf[b].host_dirty => t.host_dirty # True
        /\ ~n.buf[b].device_dirty => t.device_dirty # True
    BY <1>1 DEF Sound, Means
  <2>5. Means(a.host_dirty, z.buf[b].host_dirty)
    <3>1. CASE p = Host
      <4>1. a.host_dirty # False
        BY <1>8, <2>2, <2>3, <3>1 DEF True, False, Unknown
      <4>. QED
        BY <2>1, <3>1, <4>1 DEF Means
    <3>2. CASE p # Host
      <4>1. a.host_dirty # True
        BY <2>1, <2>2, <2>3, <2>a, <3>2 DEF True, Unknown
      <4>. QED
        BY <2>1, <3>2, <4>1 DEF Means
    <3>. QED
      BY <3>1, <3>2
  <2>6. Means(a.device_dirty, z.buf[b].device_dirty)
    <3>1. CASE p # Host
      <4>1. a.device_dirty # False
        BY <1>9, <2>2, <2>3, <3>1 DEF True, False, Unknown
      <4>. QED
        BY <2>1, <3>1, <4>1 DEF Means
    <3>2. CASE p = Host
      <4>1. a.device_dirty # True
        BY <2>1, <2>2, <2>3, <2>a, <3>2 DEF True, Unknown
      <4>. QED
        BY <2>1, <3>2, <4>1 DEF Means
    <3>. QED
      BY <3>1, <3>2
  <2>. QED
    BY <1>1, <2>1, <2>3, <2>4, <2>5, <2>6 DEF Sound, True, False, Unknown
<1>. QED
  BY <1>11, <1>12, <1>13 DEF z


-----------------------------------------------------------------------------
(***************************************************************************)
(* The end of the buffer.                                                  *)
(***************************************************************************)
Given_up(n, k) ==
  /\ Exact(k) /\ k.buf[b].device = NULL
  /\ k.buf[b].host_dirty => n.buf[b].host_dirty
  /\ k.buf[b].device_dirty => n.buf[b].device_dirty
  /\ Combined => ~k.buf[b].host

\* Freeing gives the device memory back, and the host memory of a combined allocation.
LEMMA FreeStep ==
  ASSUME NEW n, Exact(n), NEW f \in Free(n)
  PROVE  Given_up(n, f.m)
<1>. DEFINE k == GivesUp(n)
            l == {b}
<1>1. n \in MachineZ /\ b \in Buffer
  BY ValidExact, ProgramAssumption
<1>2. /\ k \in MachineZ
      /\ k.buf = n.buf /\ k.live = n.live /\ k.refs = n.refs /\ k.fresh = n.fresh
  <2>1. l \in SUBSET Buffer /\ k = [n EXCEPT !.lost = l]
    BY <1>1 DEF GivesUp
  <2>. HIDE DEF l, k
  <2>. QED
    BY <1>1, <2>1, LostFields
<1>3. f \in (IF Combined THEN halide_device_and_host_free(k, b) ELSE halide_device_free(k, b))
  BY DEF Free
<1>. HIDE DEF k
<1>4. Exact(k)
  BY <1>2 DEF Exact, Named, Holding
<1>5. Valid(k, b)
  BY <1>4, ValidExact
<1>6. CASE Combined
  <2>1. FreesBoth(k, f, b)
    BY <1>1, <1>2, <1>3, <1>6, BothFreeEffect
  <2>2. /\ Frame(k, f.m, b) /\ Counted(k, f.m, b)
        /\ f.m.buf[b].host_dirty => k.buf[b].host_dirty
        /\ ~f.m.buf[b].host /\ ~f.m.buf[b].device_dirty
        /\ Loses(k, f.m, b) \/ (k.buf[b].device_interface = NULL /\ Keeps(k, f.m, b))
    BY <1>5, <2>1 DEF FreesBoth
  <2>3. f.m.buf[b].device = NULL
    BY <1>5, <2>2 DEF Loses, Keeps, Valid
  <2>4. Exact(f.m)
    BY <1>4, <2>2, ExactAfter
  <2>. QED
    BY <1>2, <2>2, <2>3, <2>4 DEF Given_up
<1>7. CASE ~Combined
  <2>1. Frees(k, f, b)
    BY <1>1, <1>2, <1>3, <1>7, FreeEffect
  <2>2. /\ Frame(k, f.m, b) /\ Counted(k, f.m, b)
        /\ f.m.buf[b].host_dirty = k.buf[b].host_dirty
        /\ f.m.buf[b].device_dirty => k.buf[b].device_dirty
        /\ Loses(k, f.m, b) \/ (k.buf[b].device_interface = NULL /\ Keeps(k, f.m, b))
    BY <1>5, <2>1 DEF Frees, SameBits
  <2>3. f.m.buf[b].device = NULL
    BY <1>5, <2>2 DEF Loses, Keeps, Valid
  <2>4. Exact(f.m)
    BY <1>4, <2>2, ExactAfter DEF Exact
  <2>. QED
    BY <1>2, <1>7, <2>2, <2>3, <2>4 DEF Given_up
<1>. QED
  BY <1>6, <1>7

\* The bit of the place that the last leaf wrote is set after the buffer is gone.
LEMMA LateEpilogue ==
  ASSUME NEW s, NEW u, MayRun(s, u), NEW k, Exact(k),
         \A p : WroteAt(s, u, p) => /\ p = Host => ~k.buf[b].device_dirty
                                    /\ p # Host => ~k.buf[b].host_dirty
  PROVE  Exact(Epilogue(k, s, u))
<1>1. CASE u.writing = {}
  BY <1>1, EpilogueNothing DEF MayRun, AtLeaf
<1>2. CASE u.writing # {}
  <2>1. PICK p : WroteAt(s, u, p)
    BY <1>2, PlaceWritten
  <2>. DEFINE z == Epilogue(k, s, u)
  <2>2. MarkedOn(k, z, p)
    BY <2>1, ValidExact, EpilogueMarks DEF MayRun, AtLeaf, WroteAt
  <2>. HIDE DEF z
  <2>3. Exact(z)
    BY <2>1, <2>2, ExactAfter DEF MarkedOn
  <2>. QED
    BY <2>3 DEF z
<1>. QED
  BY <1>1, <1>2

\* What a leaf leaves behind, if it was not the last and if it was.
LEMMA LeafStep ==
  ASSUME NEW s, NEW u, MayRun(s, u), NEW n, NEW y, LeafRuns(s, u, n, y)
  PROVE  /\ Settled(Epilogue(y, s, u)) /\ Sound(After(s, u), Epilogue(y, s, u))
         /\ \A f \in Free(y) : Exact(f.m) /\ Exact(Epilogue(f.m, s, u))
<1>1. CASE u.writing = {}
  <2>1. Settled(y) /\ Epilogue(y, s, u) = y /\ Sound(After(s, u), y)
    BY <1>1, QuietLeaf
  <2>2. ASSUME NEW f \in Free(y)
        PROVE  Exact(f.m) /\ Exact(Epilogue(f.m, s, u))
    <3>1. Exact(f.m)
      BY <2>1, FreeStep DEF Settled, Given_up
    <3>2. Epilogue(f.m, s, u) = f.m
      BY <1>1, EpilogueNothing DEF MayRun, AtLeaf
    <3>. QED
      BY <3>1, <3>2
  <2>. QED
    BY <2>1, <2>2
<1>2. CASE u.writing # {}
  <2>1. PICK p : WroteAt(s, u, p)
    BY <1>2, PlaceWritten
  <2>2. /\ Exact(y)
        /\ p = Host => ~y.buf[b].device_dirty
        /\ p # Host => ~y.buf[b].host_dirty
        /\ Settled(Epilogue(y, s, u)) /\ Sound(After(s, u), Epilogue(y, s, u))
    BY <2>1, WritingLeaf
  <2>3. ASSUME NEW f \in Free(y)
        PROVE  Exact(f.m) /\ Exact(Epilogue(f.m, s, u))
    <3>1. Given_up(y, f.m)
      BY <2>2, FreeStep
    <3>2. Exact(f.m)
      BY <3>1 DEF Given_up
    <3>3. \A q : WroteAt(s, u, q) => /\ q = Host => ~f.m.buf[b].device_dirty
                                     /\ q # Host => ~f.m.buf[b].host_dirty
      BY <2>1, <2>2, <3>1 DEF Given_up, WroteAt
    <3>. QED
      BY <3>2, <3>3, LateEpilogue
  <2>. QED
    BY <2>2, <2>3
<1>. QED
  BY <1>1, <1>2


-----------------------------------------------------------------------------
(***************************************************************************)
(* The conditionals.                                                       *)
(***************************************************************************)
LEMMA OthersTyped ==
  ASSUME NEW q \in Seq(State), q # <<>>
  PROVE  Front(q) \in Seq(State) /\ Last(q) \in State
<1>1. Len(q) \in Nat /\ Len(q) # 0 /\ \A i \in 1 .. Len(q) : q[i] \in State
  BY LenProperties, ElementOfSeq, EmptySeq
<1>2. Last(q) \in State
  BY <1>1 DEF Last
<1>3. 1 \in Int /\ Len(q) - 1 \in Int /\ \A i \in 1 .. Len(q) - 1 : q[i] \in State
  BY <1>1
<1>4. SubSeq(q, 1, Len(q) - 1) \in Seq(State)
  <2>. DEFINE l == Len(q) - 1
  <2>1. l \in Int /\ \A i \in 1 .. l : q[i] \in State
    BY <1>3
  <2>. HIDE DEF l
  <2>2. SubSeq(q, 1, l) \in Seq(State)
    BY <2>1, SubSeqProperties
  <2>. QED
    BY <2>2 DEF l
<1>. QED
  BY <1>2, <1>4 DEF Front

\* Handling a leaf yields a state of the pass.
LEMMA AfterTyped ==
  ASSUME NEW s \in State, NEW u, Fits(u)
  PROVE  After(s, u) \in State
<1>. DEFINE t == Before(s, u)
            x == IF needs_host_dirty(s, u) THEN True ELSE t.host_dirty
            y == IF needs_device_dirty(s, u) THEN True ELSE t.device_dirty
            k == [t EXCEPT !.host_dirty = x, !.device_dirty = y]
<1>1. needs_copy_to_device(s, u) \/ needs_device_malloc(s, u) => touching_device(u) \in Interface
  BY DEF needs_copy_to_device, needs_device_malloc, Fits
<1>2. t \in State
  BY <1>1 DEF Before, State, FlagState
<1>3. Marks(s, u) = k
  <2>1. Marks(s, u) = [t EXCEPT !.host_dirty = IF needs_host_dirty(s, u) THEN True ELSE @,
                                !.device_dirty = IF needs_device_dirty(s, u) THEN True ELSE @]
    BY DEF Marks
  <2>. HIDE DEF t
  <2>. QED
    BY <1>2, <2>1 DEF State
<1>. HIDE DEF t
<1>4. x \in FlagState /\ y \in FlagState
  BY <1>2 DEF State, FlagState
<1>. HIDE DEF x, y
<1>5. k \in State
  BY <1>2, <1>4 DEF State
<1>. HIDE DEF k
<1>. QED
  BY <1>3, <1>5 DEF After, State, FlagState

\* Both cases have been walked: what they agree on is known.
LEMMA UnionSound ==
  ASSUME NEW s \in State, NEW t \in State, NEW n, Sound(s, n), One
  PROVE  union_with(s, t) \in State /\ Sound(union_with(s, t), n)
<1>. DEFINE x == union_with(s, t)
<1>1. /\ x.device_dirty \in {s.device_dirty, Unknown} /\ x.host_dirty \in {s.host_dirty, Unknown}
      /\ \/ x.device_allocation_exists = s.device_allocation_exists
            /\ x.current_device = s.current_device
         \/ x.device_allocation_exists = Unknown /\ x.current_device = None
      /\ x \in State
  BY DEF union_with, State, FlagState
<1>. HIDE DEF x
<1>2. Means(x.device_dirty, n.buf[b].device_dirty) /\ Means(x.host_dirty, n.buf[b].host_dirty)
  BY <1>1 DEF Sound, Means, Unknown, True, False
<1>3. Sound(x, n)
  BY <1>1, <1>2 DEF Sound, Unknown, True, False
<1>. QED
  BY <1>1, <1>3 DEF x

-----------------------------------------------------------------------------
(***************************************************************************)
(* The initial states.                                                     *)
(***************************************************************************)
Buffered(h, i, host, hd, dd, where) ==
  [buf |-> [x \in {b} |-> [host |-> host, device |-> h, device_interface |-> i,
                           host_dirty |-> hd, device_dirty |-> dd]],
   live |-> IF i = NULL THEN {} ELSE {h},
   refs |-> [j \in Interface |-> IF i = j THEN 1 ELSE 0],
   fresh |-> [x \in {b} |-> where], lost |-> IF where = {} THEN {b} ELSE {}]

\* A buffer made field by field, alone in the machine, has exact counts.
LEMMA BufferedExact ==
  ASSUME NEW h \in Handle \union {NULL}, NEW i \in Interface \union {NULL}, h = NULL <=> i = NULL,
         NEW host \in BOOLEAN, NEW hd \in BOOLEAN, NEW dd \in BOOLEAN, ~(hd /\ dd),
         NEW where \in SUBSET {Host, Device}
  PROVE  LET k == Buffered(h, i, host, hd, dd, where)
         IN  /\ Exact(k)
             /\ k.buf[b].host = host /\ k.buf[b].host_dirty = hd /\ k.buf[b].device_dirty = dd
             /\ k.buf[b].device = h /\ k.buf[b].device_interface = i
             /\ k.fresh[b] = where /\ (b \in k.lost <=> where = {})
<1>. DEFINE B == [host |-> host, device |-> h, device_interface |-> i,
                  host_dirty |-> hd, device_dirty |-> dd]
            k == Buffered(h, i, host, hd, dd, where)
<1>1. /\ B \in BufferT
      /\ B.host = host /\ B.device = h /\ B.device_interface = i
      /\ B.host_dirty = hd /\ B.device_dirty = dd
  BY DEF BufferT
<1>2. k = [buf |-> [x \in {b} |-> B], live |-> IF i = NULL THEN {} ELSE {h},
           refs |-> [j \in Interface |-> IF i = j THEN 1 ELSE 0],
           fresh |-> [x \in {b} |-> where], lost |-> IF where = {} THEN {b} ELSE {}]
  BY DEF Buffered
<1>. HIDE DEF B, k
<1>3. k \in MachineZ
  BY <1>1, <1>2, ProgramAssumption DEF MachineZ
<1>4. /\ k.buf[b] = B /\ k.live = (IF i = NULL THEN {} ELSE {h}) /\ k.fresh[b] = where
      /\ b \in k.lost <=> where = {}
      /\ \A j \in Interface : k.refs[j] = IF i = j THEN 1 ELSE 0
  BY <1>2
<1>5. Exact(k)
  BY <1>1, <1>3, <1>4, HandleAssumption DEF Exact, Named, Holding
<1>. QED
  BY <1>1, <1>4, <1>5 DEF k


\* The buffers a caller can pass are settled.
LEMMA GivenSettled ==
  ASSUME Program, external, m \in Given
  PROVE  Settled(m)
<1>. DEFINE h == CHOOSE h \in Handle : TRUE
            G(i, hd, dd, where) == Buffered(IF i = NULL THEN NULL ELSE h, i, TRUE, hd, dd, where)
<1>1. h \in Handle
  BY DevicesAssumption
<1>2. \/ \E i \in Devices \union {NULL} : m = G(i, FALSE, FALSE, {})
      \/ \E i \in Devices \union {NULL} : m = G(i, TRUE, FALSE, {Host})
      \/ \E i \in Devices : m = G(i, FALSE, FALSE, {Host, Device})
      \/ \E i \in Devices : m = G(i, FALSE, TRUE, {Device})
  <2>. DEFINE With(i, hd, dd, where) ==
                [buf |-> [x \in {b} |-> [host |-> TRUE, device |-> IF i = NULL THEN NULL ELSE h,
                                         device_interface |-> i, host_dirty |-> hd, device_dirty |-> dd]],
                 live |-> IF i = NULL THEN {} ELSE {h},
                 refs |-> [j \in Interface |-> IF i = j THEN 1 ELSE 0],
                 fresh |-> [x \in {b} |-> where], lost |-> IF where = {} THEN {b} ELSE {}]
  <2>1. Given = {With(i, FALSE, FALSE, {}) : i \in Devices \union {NULL}}
                  \union {With(i, TRUE, FALSE, {Host}) : i \in Devices \union {NULL}}
                  \union {With(i, FALSE, FALSE, {Host, Device}) : i \in Devices}
                  \union {With(i, FALSE, TRUE, {Device}) : i \in Devices}
    BY DEF Given
  <2>. HIDE DEF h
  <2>2. ASSUME NEW i, NEW hd, NEW dd, NEW where
        PROVE  With(i, hd, dd, where) = G(i, hd, dd, where)
    BY DEF Buffered
  <2>. HIDE DEF With, G
  <2>. QED
    BY <2>1, <2>2
<1>. HIDE DEF h
<1>3. Devices \subseteq Interface /\ OnHost
  BY DEF Program, Devices, OnHost
<1>. DEFINE L(i, hd, dd, where) ==
              /\ where \in SUBSET {Host, Device} /\ ~(hd /\ dd)
              /\ hd => where = {Host}
              /\ dd => where = {Device} /\ i # NULL
              /\ ~hd /\ ~dd => where \in {{}, {Host, Device}}
              /\ where = {Host, Device} => i # NULL
<1>a. \E i \in Devices \union {NULL}, hd \in BOOLEAN, dd \in BOOLEAN, where \in SUBSET {Host, Device} :
        m = G(i, hd, dd, where) /\ L(i, hd, dd, where)
  <2>. HIDE DEF G
  <2>1. CASE \E i \in Devices \union {NULL} : m = G(i, FALSE, FALSE, {})
    <3>1. PICK i \in Devices \union {NULL} : m = G(i, FALSE, FALSE, {})
      BY <2>1
    <3>2. L(i, FALSE, FALSE, {})
      BY <1>3, <3>1, InterfaceAssumption, Apart DEF L
    <3>. HIDE DEF L
    <3>. QED
      BY <3>1, <3>2, Zenon
  <2>2. CASE \E i \in Devices \union {NULL} : m = G(i, TRUE, FALSE, {Host})
    <3>1. PICK i \in Devices \union {NULL} : m = G(i, TRUE, FALSE, {Host})
      BY <2>2
    <3>2. L(i, TRUE, FALSE, {Host})
      BY <1>3, <3>1, InterfaceAssumption, Apart DEF L
    <3>. HIDE DEF L
    <3>. QED
      BY <3>1, <3>2, Zenon
  <2>3. CASE \E i \in Devices : m = G(i, FALSE, FALSE, {Host, Device})
    <3>1. PICK i \in Devices \union {NULL} : m = G(i, FALSE, FALSE, {Host, Device}) /\ i \in Devices
      BY <2>3
    <3>2. L(i, FALSE, FALSE, {Host, Device})
      BY <1>3, <3>1, InterfaceAssumption, Apart DEF L
    <3>. HIDE DEF L
    <3>. QED
      BY <3>1, <3>2, Zenon
  <2>4. CASE \E i \in Devices : m = G(i, FALSE, TRUE, {Device})
    <3>1. PICK i \in Devices \union {NULL} : m = G(i, FALSE, TRUE, {Device}) /\ i \in Devices
      BY <2>4
    <3>2. L(i, FALSE, TRUE, {Device})
      BY <1>3, <3>1, InterfaceAssumption, Apart DEF L
    <3>. HIDE DEF L
    <3>. QED
      BY <3>1, <3>2, Zenon
  <2>. QED
    BY <1>2, <2>1, <2>2, <2>3, <2>4
<1>4. PICK i \in Devices \union {NULL}, hd \in BOOLEAN, dd \in BOOLEAN, where \in SUBSET {Host, Device} :
        m = G(i, hd, dd, where) /\ L(i, hd, dd, where)
  BY <1>a
<1>. DEFINE hh == IF i = NULL THEN NULL ELSE h
            k == Buffered(hh, i, TRUE, hd, dd, where)
<1>5. hh \in Handle \union {NULL} /\ (hh = NULL <=> i = NULL) /\ i \in Interface \union {NULL}
  BY <1>1, <1>3, HandleAssumption
<1>6. m = k
  BY <1>4
<1>b. where \in SUBSET {Host, Device} /\ ~(hd /\ dd) /\ TRUE \in BOOLEAN
  BY <1>4
<1>. HIDE DEF hh, G, L
<1>7. /\ Exact(k)
      /\ k.buf[b].host = TRUE /\ k.buf[b].host_dirty = hd /\ k.buf[b].device_dirty = dd
      /\ k.buf[b].device = hh /\ k.buf[b].device_interface = i
      /\ k.fresh[b] = where /\ (b \in k.lost <=> where = {})
  <2>. DEFINE t == TRUE
  <2>1. t \in BOOLEAN
    OBVIOUS
  <2>2. k = Buffered(hh, i, t, hd, dd, where)
    OBVIOUS
  <2>. HIDE DEF k, t
  <2>3. LET n == Buffered(hh, i, t, hd, dd, where)
        IN  /\ Exact(n)
            /\ n.buf[b].host = t /\ n.buf[b].host_dirty = hd /\ n.buf[b].device_dirty = dd
            /\ n.buf[b].device = hh /\ n.buf[b].device_interface = i
            /\ n.fresh[b] = where /\ (b \in n.lost <=> where = {})
    BY <1>5, <1>b, <2>1, BufferedExact
  <2>4. t = TRUE
    BY DEF t
  <2>. QED
    BY <2>2, <2>3, <2>4
<1>. HIDE DEF k
<1>8. Truthful(k, b) /\ Marking(k, b) /\ (k.buf[b].device_dirty => k.buf[b].device # NULL)
  BY <1>4, <1>5, <1>7, Apart DEF Truthful, Marking, L
<1>. QED
  BY <1>3, <1>6, <1>7, <1>8 DEF Settled

\* A fresh internal buffer is settled, unless its allocation is combined.
LEMMA EmptySettled ==
  ASSUME NEW host \in BOOLEAN
  PROVE  LET k == Empty(host)
         IN  /\ Exact(k) /\ b \in k.lost /\ k.buf[b].device = NULL
             /\ ~k.buf[b].host_dirty /\ ~k.buf[b].device_dirty
             /\ host = OnHost => Settled(k)
<1>. DEFINE f == FALSE
            e == {}
            k == Buffered(NULL, NULL, host, f, f, e)
<1>1. Empty(host) = k
  <2>. DEFINE N == [host |-> f, device |-> NULL, device_interface |-> NULL, host_dirty |-> f, device_dirty |-> f]
  <2>4. NoBuffer = N
    BY DEF NoBuffer
  <2>5. ASSUME NEW g, NEW x
        PROVE  [[host |-> g, device |-> NULL, device_interface |-> NULL, host_dirty |-> g, device_dirty |-> g]
                  EXCEPT !.host = x]
                 = [host |-> x, device |-> NULL, device_interface |-> NULL, host_dirty |-> g, device_dirty |-> g]
    OBVIOUS
  <2>6. [N EXCEPT !.host = host]
          = [host |-> host, device |-> NULL, device_interface |-> NULL, host_dirty |-> f, device_dirty |-> f]
    BY <2>5, Zenon
  <2>. HIDE DEF N
  <2>1. [NoBuffer EXCEPT !.host = host]
          = [host |-> host, device |-> NULL, device_interface |-> NULL, host_dirty |-> f, device_dirty |-> f]
    BY <2>4, <2>6, Zenon
  <2>2. [i \in Interface |-> 0] = [j \in Interface |-> IF NULL = j THEN 1 ELSE 0]
    BY InterfaceAssumption
  <2>3. Empty(host) = [buf |-> [x \in {b} |-> [NoBuffer EXCEPT !.host = host]], live |-> {},
                       refs |-> [i \in Interface |-> 0], fresh |-> [x \in {b} |-> {}], lost |-> {b}]
    BY DEF Empty
  <2>. QED
    BY <2>1, <2>2, <2>3 DEF Buffered
<1>2. f \in BOOLEAN /\ ~(f /\ f) /\ e \in SUBSET {Host, Device} /\ e = {} /\ ~f
  OBVIOUS
<1>. HIDE DEF f, e
<1>3. /\ Exact(k)
      /\ k.buf[b].host = host /\ k.buf[b].host_dirty = f /\ k.buf[b].device_dirty = f
      /\ k.buf[b].device = NULL /\ k.buf[b].device_interface = NULL
      /\ (b \in k.lost <=> e = {})
  BY <1>2, BufferedExact
<1>. HIDE DEF k
<1>4. host = OnHost => Settled(k)
  BY <1>2, <1>3 DEF Settled, Truthful, Marking
<1>. QED
  BY <1>1, <1>2, <1>3, <1>4

\* The invariant holds before the program runs.
LEMMA Initial ==
  ASSUME Usage, Init
  PROVE  Inv
<1>1. Program
  <2>1. CASE Cardinality(Devices) <= 1
    BY <2>1, OneByCardinality DEF Init, Program
  <2>2. CASE ~external /\ externs = {}
    BY <2>2 DEF Init, Program
  <2>. QED
    BY <2>1, <2>2 DEF Init, Usage
<1>2. Typed /\ others = <<>> /\ current = TRUE /\ refused = FALSE
  BY EmptySeq, ProgramAssumption DEF Init, Typed, State, FlagState, NothingKnown
<1>3. phase = IF Combined THEN Starting ELSE Running
  BY DEF Init
<1>4. CASE external
  <2>1. Settled(m) /\ ~Combined /\ One
    BY <1>1, <1>4, GivenSettled DEF Init, Combined, Program
  <2>2. Sound(state, m)
    BY <1>4, <2>1 DEF Init, NothingKnown, Sound, Means, Unknown, True, False
  <2>. QED
    BY <1>1, <1>2, <1>3, <2>1, <2>2 DEF Inv, Settled, Starting, Running, Done
<1>5. CASE ~external
  <2>. DEFINE host == ~Combined /\ ~touched_on_one_device
  <2>1. host \in BOOLEAN /\ m = Empty(host)
    BY <1>5 DEF Init
  <2>2. ~Combined => host = OnHost
    BY <1>1, <1>5 DEF OnHost, Program
  <2>. HIDE DEF host
  <2>3. /\ Exact(m) /\ b \in m.lost /\ m.buf[b].device = NULL
        /\ ~m.buf[b].host_dirty /\ ~m.buf[b].device_dirty
        /\ host = OnHost => Settled(m)
    BY <2>1, EmptySettled
  <2>4. /\ state.device_dirty = False /\ state.host_dirty = False
        /\ state.device_allocation_exists = False
    BY <1>5 DEF Init
  <2>5. Sound(state, m)
    BY <2>3, <2>4 DEF Sound, Means, Unknown, True, False
  <2>6. CASE Combined
    BY <1>1, <1>2, <1>3, <2>3, <2>4, <2>6 DEF Inv, AtStart, Starting, Running, Done
  <2>7. CASE ~Combined
    BY <1>1, <1>2, <1>3, <2>2, <2>3, <2>5, <2>7 DEF Inv, Starting, Running, Done
  <2>. QED
    BY <2>6, <2>7
<1>. QED
  BY <1>4, <1>5


-----------------------------------------------------------------------------
(***************************************************************************)
(* The actions.                                                            *)
(***************************************************************************)
\* The program is the same throughout a behaviour.
LEMMA SameProgram ==
  ASSUME UNCHANGED program
  PROVE  /\ external' = external /\ Devices' = Devices
         /\ Program <=> Program'
         /\ One <=> One'
         /\ Combined <=> Combined'
         /\ OnHost <=> OnHost'
<1>1. external' = external /\ places' = places /\ externs' = externs
  BY DEF program
<1>2. Devices' = Devices
  BY <1>1 DEF Devices
<1>3. One <=> One'
  BY <1>2 DEF One
<1>4. Program <=> Program'
  BY <1>1, <1>3 DEF Program
<1>5. Combined <=> Combined'
  BY <1>1 DEF Combined
<1>6. OnHost <=> OnHost'
  BY <1>1 DEF OnHost, touched_on_one_device
<1>. QED
  BY <1>1, <1>2, <1>3, <1>4, <1>5, <1>6

\* What holds of the machine that a step produces holds of the next state.
LEMMA ExactNext ==
  ASSUME NEW n, m' = n, Exact(n)
  PROVE  Exact(m)'
BY DEF Exact, Named, Holding

\* And so for a settled buffer.
LEMMA SettledNext ==
  ASSUME UNCHANGED program, NEW n, m' = n, Settled(n)
  PROVE  Settled(m)'
<1>1. Devices' = Devices /\ (OnHost <=> OnHost')
  BY SameProgram
<1>2. Exact(m)'
  BY ExactNext DEF Settled
<1>3. Truthful(m, b)' /\ Marking(m, b)'
  BY DEF Settled, Truthful, Marking
<1>4. /\ n.buf[b].host = OnHost /\ n.buf[b].device_interface \in Devices \union {NULL}
      /\ n.buf[b].device_dirty => n.buf[b].device # NULL
  BY DEF Settled
<1>5. OnHost = OnHost'
  BY <1>1 DEF OnHost, touched_on_one_device
<1>. QED
  BY <1>1, <1>2, <1>3, <1>4, <1>5 DEF Settled

\* And for what the pass knows.
LEMMA SoundNext ==
  ASSUME UNCHANGED program, NEW n, m' = n, NEW t, state' = t, Sound(t, n)
  PROVE  Sound(state, m)'
<1>1. (One <=> One') /\ (Combined <=> Combined')
  BY SameProgram
<1>. QED
  BY <1>1 DEF Sound, Means

\* The combined allocation before the program.
LEMMA BothStep ==
  ASSUME Inv, AllocateBoth
  PROVE  Inv'
<1>. DEFINE d == CHOOSE d \in places \ {Host} : TRUE
<1>1. AtStart /\ Program /\ Typed /\ Exact(m) /\ current = TRUE /\ refused = FALSE
  BY DEF Inv, AllocateBoth
<1>2. UNCHANGED program /\ UNCHANGED <<state, others, leaves, current, refused>>
  BY DEF AllocateBoth
<1>3. One /\ OnHost
  BY <1>1, CombinedOne DEF AtStart
<1>4. d \in places \ {Host}
  <2>1. IsFiniteSet(places) /\ Cardinality(places) = 2 /\ Host \in places
    BY <1>1, PlacesFinite DEF Program, AtStart, Combined
  <2>2. Cardinality(places \ {Host}) = 1
    BY <2>1, FS_RemoveElement
  <2>3. places \ {Host} # {}
    BY <2>2, FS_EmptySet
  <2>. QED
    BY <2>3
<1>5. d \in Interface /\ d \in Devices
  BY <1>1, <1>4 DEF Program, Devices
<1>6. PICK r \in halide_device_and_host_malloc(m, b, d) :
        m' = r.m /\ phase' = IF r.err = Success THEN Running ELSE Ending
  BY DEF AllocateBoth
<1>. HIDE DEF d
<1>7. m \in MachineZ /\ b \in Buffer
  BY <1>1, ValidExact, ProgramAssumption
<1>8. MallocsBoth(m, r, b, d)
  BY <1>5, <1>7, BothMallocEffect
<1>9. Exact(r.m)
  BY <1>1, <1>5, <1>8, ExactAfter DEF MallocsBoth, AtStart
<1>10. ASSUME r.err = Success
       PROVE  Settled(r.m) /\ Sound(state, r.m)
  <2>1. /\ r.m.buf[b].host /\ r.m.buf[b].device # NULL /\ r.m.buf[b].device_interface = d
        /\ b \in r.m.lost /\ ~r.m.buf[b].host_dirty /\ ~r.m.buf[b].device_dirty
    BY <1>1, <1>8, <1>10 DEF MallocsBoth, AtStart
  <2>2. r.m.buf[b].host \in BOOLEAN
    BY <1>9, ValidExact DEF BufferT
  <2>3. r.m.buf[b].host = OnHost
    BY <1>3, <2>1, <2>2 DEF OnHost
  <2>4. Settled(r.m)
    BY <1>5, <1>9, <2>1, <2>3 DEF Settled, Truthful, Marking
  <2>5. Sound(state, r.m)
    BY <1>1, <2>1 DEF AtStart, Sound, Means, True, False, Unknown
  <2>. QED
    BY <2>4, <2>5
<1>11. Program' /\ Typed' /\ Exact(m)'
  BY <1>1, <1>2, <1>6, <1>9, SameProgram, ExactNext DEF Typed
<1>12. (phase = Running)' => Settled(m)' /\ Sound(state, m)' /\ One'
  BY <1>2, <1>3, <1>6, <1>10, SameProgram, SettledNext, SoundNext DEF Running, Ending
<1>13. phase' \in {Running, Ending}
  BY <1>6
<1>. QED
  BY <1>1, <1>2, <1>11, <1>12, <1>13 DEF Inv, Starting, Running, Ending, Done

\* A leaf that runs, and what the pass injected around it.
LEMMA RunStep ==
  ASSUME Inv, Usage, NEW u \in Leaf, NEW last \in BOOLEAN, RunLeaf(u, last)
  PROVE  Inv'
<1>1. /\ Program /\ Typed /\ Settled(m) /\ Sound(state, m) /\ (~One => others = <<>>)
      /\ current = TRUE /\ refused = FALSE
  BY DEF Inv, RunLeaf
<1>2. UNCHANGED program /\ others' = others /\ leaves' = leaves - 1 /\ leaves > 0 /\ Allowed(u)
  BY DEF RunLeaf
<1>3. MayRun(state, u)
  BY <1>1, <1>2, LeafFits DEF RunLeaf, Usage, MayRun, AtLeaf, Typed
<1>4. AtLeaf(state, u) /\ Fits(u) /\ state \in State
  BY <1>3 DEF MayRun, AtLeaf
<1>5. PICK r \in Prologue(state, u) :
       IF r.err # Success
       THEN /\ m' = r.m /\ phase' = Ending
            /\ refused' = (refused \/ Success \notin {q.err : q \in Prologue(state, u)})
            /\ UNCHANGED <<state, current>>
       ELSE /\ current' = (current /\ FindsCurrent(r.m, u))
            /\ \E n \in UNION {ByExtern(k, u) : k \in Bodies(r.m, u)} :
               \E f \in IF last THEN Free(n) ELSE {Ok(n)} :
                 /\ m' = IF f.err = Success THEN Epilogue(f.m, state, u) ELSE f.m
                 /\ phase' = IF last \/ f.err # Success THEN Ending ELSE Running
            /\ state' = After(state, u)
            /\ UNCHANGED refused
  BY DEF RunLeaf
<1>6. Exact(r.m) /\ (r.err = Success => Ready(state, u, r.m))
  BY <1>4, PrologueEffect
<1>7. Program' /\ (One <=> One') /\ leaves' \in Nat /\ others' \in Seq(State)
  BY <1>1, <1>2, SameProgram DEF Typed
<1>8. CASE r.err # Success
  <2>1. Success \in {q.err : q \in Prologue(state, u)}
    BY <1>4, PrologueSucceeds
  <2>2. m' = r.m /\ phase' = Ending /\ refused' = FALSE /\ current' = TRUE /\ state' = state
    BY <1>1, <1>5, <1>8, <2>1
  <2>3. Exact(m)'
    BY <1>6, <2>2, ExactNext
  <2>. QED
    BY <1>4, <1>7, <2>2, <2>3 DEF Inv, Typed, Starting, Running, Ending, Done
<1>9. CASE r.err = Success
  <2>1. FindsCurrent(r.m, u)
    BY <1>4, <1>6, <1>9, ReadyFinds
  <2>2. current' = TRUE /\ refused' = FALSE /\ state' = After(state, u)
    BY <1>1, <1>5, <1>9, <2>1
  <2>3. PICK n \in UNION {ByExtern(k, u) : k \in Bodies(r.m, u)} :
          \E f \in IF last THEN Free(n) ELSE {Ok(n)} :
            /\ m' = IF f.err = Success THEN Epilogue(f.m, state, u) ELSE f.m
            /\ phase' = IF last \/ f.err # Success THEN Ending ELSE Running
    BY <1>5, <1>9
  <2>4. PICK f \in IF last THEN Free(n) ELSE {Ok(n)} :
          /\ m' = IF f.err = Success THEN Epilogue(f.m, state, u) ELSE f.m
          /\ phase' = IF last \/ f.err # Success THEN Ending ELSE Running
    BY <2>3
  <2>5. LeafRuns(state, u, r.m, n)
    BY <1>6, <1>9, <2>3 DEF LeafRuns
  <2>6. /\ Settled(Epilogue(n, state, u)) /\ Sound(After(state, u), Epilogue(n, state, u))
        /\ \A g \in Free(n) : Exact(g.m) /\ Exact(Epilogue(g.m, state, u))
    BY <1>3, <2>5, LeafStep
  <2>7. After(state, u) \in State
    BY <1>4, AfterTyped
  <2>8. CASE last
    <3>1. f \in Free(n) /\ phase' = Ending
      BY <2>4, <2>8
    <3>2. Exact(m)'
      BY <2>4, <2>6, <3>1, ExactNext
    <3>. QED
      BY <1>7, <2>2, <2>7, <3>1, <3>2 DEF Inv, Typed, Starting, Running, Ending, Done
  <2>9. CASE ~last
    <3>1. f = Ok(n)
      BY <2>4, <2>9
    <3>2. m' = Epilogue(n, state, u) /\ phase' = Running
      BY <2>4, <2>9, <3>1 DEF Ok
    <3>3. Settled(m)' /\ Sound(state, m)'
      BY <1>2, <2>2, <2>6, <3>2, SettledNext, SoundNext
    <3>4. Exact(m)'
      BY <2>6, <3>2, ExactNext DEF Settled
    <3>. QED
      BY <1>1, <1>2, <1>7, <2>2, <2>7, <3>2, <3>3, <3>4 DEF Inv, Typed, Starting, Running, Ending, Done
  <2>. QED
    BY <2>8, <2>9
<1>. QED
  BY <1>8, <1>9


\* The program enters a conditional.
LEMMA EnterStep ==
  ASSUME Inv, Usage, EnterIf
  PROVE  Inv'
<1>1. /\ Program /\ Typed /\ Exact(m) /\ Settled(m) /\ Sound(state, m) /\ phase = Running
      /\ current = TRUE /\ refused = FALSE
  BY DEF Inv, EnterIf
<1>2. /\ UNCHANGED program /\ UNCHANGED <<m, state, phase, leaves, current, refused>>
      /\ others' = Append(others, state)
  BY DEF EnterIf
<1>3. One
  BY <1>1, OneByCardinality DEF EnterIf, Usage, Program
<1>4. others' \in Seq(State)
  BY <1>1, <1>2, AppendProperties DEF Typed
<1>5. Program' /\ One' /\ Exact(m)' /\ Settled(m)' /\ Sound(state, m)'
  BY <1>1, <1>2, <1>3, SameProgram, ExactNext, SettledNext, SoundNext
<1>. QED
  BY <1>1, <1>2, <1>4, <1>5 DEF Inv, Typed, Starting, Running, Ending, Done

\* The pass walks a leaf of the case that is not run.
LEMMA WalkStep ==
  ASSUME Inv, Usage, NEW u \in Leaf, WalkOther(u)
  PROVE  Inv'
<1>1. /\ Program /\ Typed /\ Exact(m) /\ Settled(m) /\ Sound(state, m) /\ phase = Running
      /\ current = TRUE /\ refused = FALSE /\ others # <<>> /\ One
  BY DEF Inv, WalkOther
<1>2. /\ UNCHANGED program /\ UNCHANGED <<m, state, phase, current, refused>>
      /\ others' = Append(Front(others), After(Last(others), u))
      /\ leaves > 0 /\ leaves' = leaves - 1 /\ Allowed(u)
  BY DEF WalkOther
<1>3. Fits(u)
  BY <1>1, <1>2, LeafFits
<1>4. Front(others) \in Seq(State) /\ Last(others) \in State
  BY <1>1, OthersTyped DEF Typed
<1>5. After(Last(others), u) \in State
  BY <1>3, <1>4, AfterTyped
<1>6. others' \in Seq(State)
  BY <1>2, <1>4, <1>5, AppendProperties
<1>7. Program' /\ One' /\ Exact(m)' /\ Settled(m)' /\ Sound(state, m)'
  BY <1>1, <1>2, SameProgram, ExactNext, SettledNext, SoundNext
<1>. QED
  BY <1>1, <1>2, <1>6, <1>7 DEF Inv, Typed, Starting, Running, Ending, Done

\* The cases of a conditional join.
LEMMA LeaveStep ==
  ASSUME Inv, NEW last \in BOOLEAN, LeaveIf(last)
  PROVE  Inv'
<1>1. /\ Program /\ Typed /\ Exact(m) /\ Settled(m) /\ Sound(state, m) /\ phase = Running
      /\ current = TRUE /\ refused = FALSE /\ others # <<>> /\ One
  BY DEF Inv, LeaveIf
<1>2. /\ UNCHANGED program /\ UNCHANGED <<leaves, current, refused>>
      /\ others' = Front(others) /\ state' = union_with(state, Last(others))
  BY DEF LeaveIf
<1>3. Front(others) \in Seq(State) /\ Last(others) \in State /\ state \in State
  BY <1>1, OthersTyped DEF Typed
<1>4. union_with(state, Last(others)) \in State /\ Sound(union_with(state, Last(others)), m)
  BY <1>1, <1>3, UnionSound
<1>5. PICK f \in IF last THEN Free(m) ELSE {Ok(m)} :
        m' = f.m /\ phase' = IF last \/ f.err # Success THEN Ending ELSE Running
  BY DEF LeaveIf
<1>6. Program' /\ One' /\ leaves' \in Nat /\ others' \in Seq(State) /\ state' \in State
  BY <1>1, <1>2, <1>3, <1>4, SameProgram DEF Typed
<1>7. CASE last
  <2>1. f \in Free(m) /\ phase' = Ending
    BY <1>5, <1>7
  <2>2. Exact(m)'
    BY <1>1, <1>5, <2>1, FreeStep, ExactNext DEF Given_up
  <2>. QED
    BY <1>1, <1>2, <1>6, <2>1, <2>2 DEF Inv, Typed, Starting, Running, Ending, Done
<1>8. CASE ~last
  <2>1. m' = m /\ phase' = Running
    BY <1>5, <1>8 DEF Ok
  <2>2. Exact(m)' /\ Settled(m)' /\ Sound(state, m)'
    BY <1>1, <1>2, <1>4, <2>1, ExactNext, SettledNext, SoundNext
  <2>. QED
    BY <1>1, <1>2, <1>6, <2>1, <2>2 DEF Inv, Typed, Starting, Running, Ending, Done
<1>. QED
  BY <1>7, <1>8

\* The destructor: what is left is nothing.
LEMMA EndStep ==
  ASSUME Inv, End
  PROVE  Inv'
<1>1. /\ Program /\ Typed /\ Exact(m) /\ current = TRUE /\ refused = FALSE
  BY DEF Inv
<1>2. /\ UNCHANGED program /\ UNCHANGED <<state, others, leaves, current, refused>> /\ phase' = Done
  BY DEF End
<1>3. PICK r \in IF external THEN {Ok(m)} ELSE Free(m) : m' = r.m
  BY DEF End
<1>4. Program' /\ Typed' /\ (Combined <=> Combined') /\ external' = external
  BY <1>1, <1>2, SameProgram DEF Typed
<1>5. CASE external
  <2>1. m' = m
    BY <1>3, <1>5 DEF Ok
  <2>2. Exact(m)'
    BY <1>1, <2>1, ExactNext
  <2>. QED
    BY <1>1, <1>2, <1>4, <1>5, <2>2 DEF Inv, Released, Starting, Running, Ending, Done
<1>6. CASE ~external
  <2>1. Given_up(m, r.m)
    BY <1>1, <1>3, <1>6, FreeStep
  <2>2. Exact(r.m) /\ r.m.buf[b].device = NULL /\ (Combined => ~r.m.buf[b].host)
    BY <2>1 DEF Given_up
  <2>3. Exact(m)'
    BY <1>3, <2>2, ExactNext
  <2>4. r.m.live = {} /\ \A i \in Interface : r.m.refs[i] = 0
    BY <2>2, InterfaceAssumption DEF Exact, Named, Holding
  <2>5. Released'
    BY <1>3, <1>4, <2>2, <2>4 DEF Released
  <2>. QED
    BY <1>1, <1>2, <1>4, <2>3, <2>5 DEF Inv, Starting, Running, Ending, Done
<1>. QED
  BY <1>5, <1>6

\* Nothing happens.
LEMMA StutterStep ==
  ASSUME Inv, UNCHANGED vars
  PROVE  Inv'
<1>1. /\ UNCHANGED program
      /\ UNCHANGED <<m, state, others, phase, leaves, current, refused>>
  BY DEF vars, program
<1>2. /\ external' = external /\ (One <=> One') /\ (Combined <=> Combined')
      /\ (Program <=> Program')
  BY <1>1, SameProgram
<1>3. Exact(m)'
  BY <1>1, ExactNext DEF Inv
<1>4. (phase = Running)' => Settled(m)' /\ Sound(state, m)' /\ (~One => others = <<>>)'
  BY <1>1, <1>2, SettledNext, SoundNext DEF Inv
<1>5. (phase = Starting => AtStart)'
  BY <1>1, <1>2 DEF Inv, AtStart
<1>6. (phase = Done => Released)'
  BY <1>1, <1>2 DEF Inv, Released
<1>. QED
  BY <1>1, <1>2, <1>3, <1>4, <1>5, <1>6 DEF Inv, Typed

\* In every program without moves inside conditionals, what the pass knows between
\* two leaves is so, the dirty bits locate the newest content, and the reference
\* counts are what the buffer holds.
THEOREM Invariant ==
  ASSUME Usage
  PROVE  Spec => []Inv
<1>1. Init => Inv
  BY Initial
<1>2. Inv /\ [Next]_vars => Inv'
  <2>. SUFFICES ASSUME Inv, [Next]_vars
                PROVE  Inv'
    OBVIOUS
  <2>1. ASSUME NEW u \in Leaf, WalkOther(u)
        PROVE  Inv'
    BY <2>1, WalkStep
  <2>2. ASSUME NEW u \in Leaf, NEW last \in BOOLEAN, RunLeaf(u, last)
        PROVE  Inv'
    BY <2>2, RunStep
  <2>3. ASSUME AllocateBoth
        PROVE  Inv'
    BY <2>3, BothStep
  <2>4. ASSUME EnterIf
        PROVE  Inv'
    BY <2>4, EnterStep
  <2>5. ASSUME NEW last \in BOOLEAN, LeaveIf(last)
        PROVE  Inv'
    BY <2>5, LeaveStep
  <2>6. ASSUME End
        PROVE  Inv'
    BY <2>6, EndStep
  <2>7. ASSUME UNCHANGED vars
        PROVE  Inv'
    BY <2>7, StutterStep
  <2>. QED
    BY <2>1, <2>2, <2>3, <2>4, <2>5, <2>6, <2>7 DEF Next
<1>. QED
  BY <1>1, <1>2, PTL DEF Spec

-----------------------------------------------------------------------------
(***************************************************************************)
(* The theorems.                                                           *)
(***************************************************************************)
\* The reference counts of an exact machine are natural numbers.
LEMMA TypedMachine ==
  ASSUME NEW n, Exact(n)
  PROVE  n \in Machine
<1>1. n \in MachineZ /\ \A j \in Interface : n.refs[j] \in Nat
  BY DEF Exact, Holding
<1>. QED
  BY <1>1 DEF MachineZ, Machine

\* The type invariant, and that the pass's state machine (InjectBufferCopies)
\* never believes of the buffer what is not so when the program gets there:
\* neither of the dirty bits, nor of where there is a device allocation.
THEOREM StateSoundHolds ==
  ASSUME Usage
  PROVE  Spec => []StateSound
<1>1. Inv => StateSound
  <2>. SUFFICES ASSUME Inv
                PROVE  StateSound
    OBVIOUS
  <2>1. m \in Machine
    BY TypedMachine DEF Inv
  <2>2. TypeOK
    BY <2>1 DEF Inv, TypeOK, Typed, Program
  <2>. QED
    BY <2>2 DEF Inv, StateSound, Sound
<1>. QED
  BY <1>1, Invariant, PTL

\* The two dirty bits of a buffer are never set together, so debug_log_and_
\* validate_buf and copy_to_host_already_locked never refuse a buffer that the
\* pass manages.
THEOREM NotBothDirtyHolds ==
  ASSUME Usage
  PROVE  Spec => []NotBothDirty
<1>1. Inv => NotBothDirty
  BY DEF Inv, Exact, NotBothDirty
<1>. QED
  BY <1>1, Invariant, PTL

\* The copies that do_copies injects before a leaf are enough: on the host and on
\* the device it finds memory, with what was last written to the buffer in it.
THEOREM TouchesCurrentHolds ==
  ASSUME Usage
  PROVE  Spec => []TouchesCurrent
<1>1. Inv => TouchesCurrent
  BY DEF Inv, TouchesCurrent
<1>. QED
  BY <1>1, Invariant, PTL

\* The calls that do_copies injects are legal where they are made: whatever their
\* arguments and the state of the buffer, they can succeed.
THEOREM NeverRefusedHolds ==
  ASSUME Usage
  PROVE  Spec => []NeverRefused
<1>1. Inv => NeverRefused
  BY DEF Inv, NeverRefused
<1>. QED
  BY <1>1, Invariant, PTL

\* The memory of an internal buffer is freed by the time it goes out of scope,
\* by halide_device_free after its last use or by its destructor, and every
\* reference to a module that was taken for it is given back.
THEOREM ReleasedHolds ==
  ASSUME Usage
  PROVE  Spec => []Released
<1>1. Inv => Released
  BY DEF Inv, Released
<1>. QED
  BY <1>1, Invariant, PTL

-----------------------------------------------------------------------------
(***************************************************************************)
(* merge_consumer_stencils.                                                *)
(***************************************************************************)
StencilSpec == [size : Int, step : Int, min : Int, max : Int]

\* Of a finite set of integers there is a greatest: a least set without one
\* would have an element to take out.
LEMMA Greatest ==
  ASSUME NEW S \in SUBSET Int, IsFiniteSet(S), S # {}
  PROVE  \E x \in S : \A y \in S : x >= y
<1>. DEFINE Bounded(Q) == \E x \in Q : \A y \in Q : x >= y
            Bad == {n \in Nat : \E Q \in SUBSET Int :
                      IsFiniteSet(Q) /\ Q # {} /\ Cardinality(Q) = n /\ ~Bounded(Q)}
<1>1. SUFFICES ASSUME ~Bounded(S) PROVE FALSE
  OBVIOUS
<1>2. Cardinality(S) \in Nat
  BY FS_CardinalityType
<1>3. Bad # {}
  BY <1>1, <1>2
<1>4. PICK n \in Bad : \A z \in Bad : ~(<<z, n>> \in OpToRel(<, Nat))
  BY <1>3, NatLessThanWellFounded, WFMin, Bad \subseteq Nat
<1>5. \A z \in Bad : ~(z < n)
  BY <1>4 DEF OpToRel
<1>6. PICK Q \in SUBSET Int : IsFiniteSet(Q) /\ Q # {} /\ Cardinality(Q) = n /\ ~Bounded(Q)
  BY <1>4
<1>7. PICK x \in Q : TRUE
  BY <1>6
<1>. DEFINE R == Q \ {x}
<1>8. IsFiniteSet(R) /\ Cardinality(R) = n - 1 /\ Cardinality(R) \in Nat
  BY <1>6, <1>7, FS_RemoveElement, FS_CardinalityType
<1>9. ASSUME R # {} PROVE Bounded(R)
  <2>1. R \in SUBSET Int /\ n \in Nat
    BY <1>6
  <2>2. n - 1 \notin Bad
    BY <1>5, <2>1
  <2>3. n - 1 \in Nat
    BY <1>8
  <2>. HIDE DEF Bounded, R
  <2>. QED
    BY <1>8, <1>9, <2>1, <2>2, <2>3
<1>10. CASE R = {}
  BY <1>6, <1>7, <1>10
<1>11. CASE R # {}
  <2>1. PICK y \in R : \A z \in R : y >= z
    BY <1>9, <1>11
  <2>2. x \in Int /\ y \in Int /\ Q \subseteq Int
    BY <1>6, <1>7, <2>1
  <2>3. CASE x >= y
    <3>1. \A z \in Q : x >= z
      BY <2>1, <2>2, <2>3
    <3>. QED
      BY <1>6, <1>7, <3>1
  <2>4. CASE ~(x >= y)
    <3>1. \A z \in Q : y >= z
      BY <2>1, <2>2, <2>4
    <3>. QED
      BY <1>6, <2>1, <3>1
  <2>. QED
    BY <2>3, <2>4
<1>. QED
  BY <1>10, <1>11

\* The largest of a few numbers.
LEMMA MaxOf ==
  ASSUME NEW S \in SUBSET Int, IsFiniteSet(S), S # {}
  PROVE  Max(S) \in S /\ \A y \in S : Max(S) >= y
BY Greatest DEF Max

\* The values of an integer function with a finite domain.
LEMMA ValuesFinite ==
  ASSUME NEW J, IsFiniteSet(J), J # {}, NEW f \in [J -> Int]
  PROVE  LET V == {f[j] : j \in J}
         IN  V \in SUBSET Int /\ IsFiniteSet(V) /\ V # {}
<1>. DEFINE V == {f[j] : j \in J}
<1>1. f \in Surjection(J, V)
  BY DEF Surjection
<1>2. IsFiniteSet(V)
  BY <1>1, FS_Surjection
<1>. QED
  BY <1>2

\* The least is the greatest of the negated elements.
LEMMA MinOf ==
  ASSUME NEW S \in SUBSET Int, IsFiniteSet(S), S # {}
  PROVE  Min(S) \in S /\ \A y \in S : Min(S) <= y
<1>. DEFINE neg == [x \in S |-> 0 - x]
            N == {neg[x] : x \in S}
<1>1. neg \in [S -> Int]
  OBVIOUS
<1>2. N \in SUBSET Int /\ IsFiniteSet(N) /\ N # {}
  BY <1>1, ValuesFinite
<1>3. PICK z \in N : \A y \in N : z >= y
  BY <1>2, Greatest
<1>4. PICK x \in S : z = 0 - x
  BY <1>3
<1>5. \A y \in S : x <= y
  <2>1. ASSUME NEW y \in S PROVE x <= y
    <3>1. neg[y] \in N /\ neg[y] = 0 - y
      OBVIOUS
    <3>2. z >= 0 - y
      BY <1>3, <3>1
    <3>3. x \in Int /\ y \in Int
      OBVIOUS
    <3>. HIDE DEF N, neg
    <3>. QED
      BY <1>4, <3>2, <3>3
  <2>. QED
    BY <2>1
<1>. QED
  BY <1>4, <1>5 DEF Min

-----------------------------------------------------------------------------
\* The comment in merge_consumer_stencils demands that a window that is enlarged
\* and shifted to the left still covers what the consumer reads: so it does, and
\* so does its region, and neither begins before the common position.
THEOREM EnlargedCovers ==
  ASSUME NEW spec \in StencilSpec, NEW size \in Int, NEW min_pos \in Int,
         spec.size <= size, min_pos <= spec.min
  PROVE  LET e == Enlarged(spec, size, min_pos)
         IN  /\ e \in StencilSpec /\ e.size = size /\ e.step = spec.step
             /\ min_pos <= e.min /\ e.min <= spec.min
             /\ spec.min + spec.size <= e.min + e.size
             /\ spec.max <= e.max
             /\ (e.max - e.min) - (spec.max - spec.min) = size - spec.size
<1>. DEFINE left == Lower(spec.min - min_pos, size - spec.size)
<1>1. left \in Int /\ 0 <= left /\ left <= spec.min - min_pos /\ left <= size - spec.size
  BY DEF StencilSpec, Lower
<1>. HIDE DEF left
<1>. DEFINE e == Enlarged(spec, size, min_pos)
<1>2. e = [spec EXCEPT !.min = spec.min - left,
                       !.max = spec.max + (size - spec.size) - left,
                       !.size = size]
  BY DEF Enlarged, left
<1>. HIDE DEF e
<1>3. /\ e \in StencilSpec /\ e.size = size /\ e.step = spec.step
      /\ e.min = spec.min - left
      /\ e.max = spec.max + (size - spec.size) - left
  <2>1. spec.min - left \in Int /\ spec.max + (size - spec.size) - left \in Int
    BY <1>1 DEF StencilSpec
  <2>2. /\ spec = [size |-> spec.size, step |-> spec.step, min |-> spec.min, max |-> spec.max]
        /\ spec.step \in Int
    BY DEF StencilSpec
  <2>3. e = [size |-> size, step |-> spec.step, min |-> spec.min - left,
             max |-> spec.max + (size - spec.size) - left]
    BY <1>2, <2>2
  <2>. QED
    BY <2>1, <2>2, <2>3 DEF StencilSpec
<1>4. /\ min_pos <= e.min /\ e.min <= spec.min
      /\ spec.min + spec.size <= e.min + e.size
      /\ spec.max <= e.max
      /\ (e.max - e.min) - (spec.max - spec.min) = size - spec.size
  BY <1>1, <1>3 DEF StencilSpec
<1>. QED
  BY <1>3, <1>4 DEF e

\* The region of a kernel that is stored holds the regions of all its consumers,
\* whose windows are as large as the kernel's and cover what they read: no
\* dispatcher skips or takes a pixel outside of it.
THEOREM RegionsFit ==
  ASSUME NEW J, IsFiniteSet(J), J # {}, NEW specs \in [J -> StencilSpec],
         NEW scanned, NEW j \in J
  PROVE  LET merged == merge_consumer_stencils(specs, scanned)
         IN  /\ merged.min <= merged.to[j].min /\ merged.to[j].min <= specs[j].min
             /\ specs[j].max <= merged.to[j].max /\ merged.to[j].max <= merged.max
             /\ merged.to[j].size = merged.size
             /\ specs[j].min + specs[j].size <= merged.to[j].min + merged.size
<1>. DEFINE sizes == [i \in J |-> specs[i].size]
            mins  == [i \in J |-> specs[i].min]
            size    == Max({specs[i].size : i \in DOMAIN specs})
            min_pos == Min({specs[i].min : i \in DOMAIN specs})
            to      == [i \in DOMAIN specs |-> Enlarged(specs[i], size, min_pos)]
            to_mins == [i \in J |-> to[i].min]
            to_maxs == [i \in J |-> to[i].max]
            merged == merge_consumer_stencils(specs, scanned)
<1>1. sizes \in [J -> Int] /\ mins \in [J -> Int]
  BY DEF StencilSpec
<1>2. size \in Int /\ \A i \in J : specs[i].size <= size
  <2>. DEFINE V == {specs[i].size : i \in DOMAIN specs}
  <2>1. V = {sizes[i] : i \in J}
    BY DEF StencilSpec
  <2>2. V \in SUBSET Int /\ IsFiniteSet(V) /\ V # {}
    BY <1>1, <2>1, ValuesFinite
  <2>. HIDE DEF V
  <2>3. Max(V) \in V /\ \A y \in V : Max(V) >= y
    BY <2>2, MaxOf
  <2>. QED
    BY <1>1, <2>3 DEF StencilSpec, V
<1>3. min_pos \in Int /\ \A i \in J : min_pos <= specs[i].min
  <2>. DEFINE V == {specs[i].min : i \in DOMAIN specs}
  <2>1. V = {mins[i] : i \in J}
    BY DEF StencilSpec
  <2>2. V \in SUBSET Int /\ IsFiniteSet(V) /\ V # {}
    BY <1>1, <2>1, ValuesFinite
  <2>. HIDE DEF V
  <2>3. Min(V) \in V /\ \A y \in V : Min(V) <= y
    BY <2>2, MinOf
  <2>. QED
    BY <1>1, <2>3 DEF StencilSpec, V
<1>4. /\ merged.size = size /\ merged.to = to
      /\ merged.min = Min({to[i].min : i \in DOMAIN to}) /\ merged.max = Max({to[i].max : i \in DOMAIN to})
  BY DEF merge_consumer_stencils
<1>. HIDE DEF size, min_pos, merged
<1>5. /\ DOMAIN to = J
      /\ \A i \in J : /\ to[i] \in StencilSpec /\ to[i].size = size
                      /\ to[i].min <= specs[i].min /\ specs[i].max <= to[i].max
                      /\ specs[i].min + specs[i].size <= to[i].min + to[i].size
  BY <1>2, <1>3, EnlargedCovers
<1>. HIDE DEF to
<1>6. to_mins \in [J -> Int] /\ to_maxs \in [J -> Int]
  BY <1>5 DEF StencilSpec
<1>7. merged.min <= to[j].min
  <2>. DEFINE V == {to[i].min : i \in DOMAIN to}
  <2>1. V = {to_mins[i] : i \in J}
    BY <1>5
  <2>2. V \in SUBSET Int /\ IsFiniteSet(V) /\ V # {}
    BY <1>6, <2>1, ValuesFinite
  <2>3. to[j].min \in V
    BY <1>5
  <2>. HIDE DEF V
  <2>4. Min(V) <= to[j].min
    BY <2>2, <2>3, MinOf
  <2>. QED
    BY <1>4, <2>4 DEF V
<1>8. to[j].max <= merged.max
  <2>. DEFINE V == {to[i].max : i \in DOMAIN to}
  <2>1. V = {to_maxs[i] : i \in J}
    BY <1>5
  <2>2. V \in SUBSET Int /\ IsFiniteSet(V) /\ V # {}
    BY <1>6, <2>1, ValuesFinite
  <2>3. to[j].max \in V
    BY <1>5
  <2>. HIDE DEF V
  <2>4. Max(V) \in Int /\ to[j].max <= Max(V)
    BY <2>2, <2>3, MaxOf
  <2>. QED
    BY <1>4, <2>4 DEF V
<1>. QED
  BY <1>4, <1>5, <1>7, <1>8 DEF merged

=============================================================================
