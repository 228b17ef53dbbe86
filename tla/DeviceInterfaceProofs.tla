----------------------- MODULE DeviceInterfaceProofs -----------------------
(***************************************************************************)
(* What the calls of the device interface do to the buffer they are given, *)
(* to the other buffers, to the reference counts and to the allocations,   *)
(* for any number of buffers, interfaces and handles.                      *)
(***************************************************************************)
EXTENDS DeviceInterface, TLAPS

\* Machine, but for the sign of the reference counts.
MachineZ == [buf : [Buffer -> BufferT], live : SUBSET Handle, refs : [Interface -> Int],
             fresh : [Buffer -> SUBSET {Host, Device}], lost : SUBSET Buffer]

Bit == {"host", "host_dirty", "device_dirty"}

-----------------------------------------------------------------------------
(***************************************************************************)
(* The updates that the calls are made of, a field at a time.              *)
(***************************************************************************)
\* n is m, but for buffer b's record.
Only(m, n, b) ==
  /\ n \in MachineZ
  /\ \A c \in Buffer : c # b => n.buf[c] = m.buf[c]

\* use_module adds one to a count.
LEMMA UseFields ==
  ASSUME NEW m \in MachineZ, NEW i \in Interface, NEW n, n = Use(m, i)
  PROVE  /\ n \in MachineZ
         /\ n.buf = m.buf /\ n.live = m.live /\ n.fresh = m.fresh /\ n.lost = m.lost
         /\ \A j \in Interface : n.refs[j] = m.refs[j] + IF i = j THEN 1 ELSE 0
BY DEF MachineZ, Use

\* release_module takes one from it.
LEMMA ReleaseFields ==
  ASSUME NEW m \in MachineZ, NEW i \in Interface, NEW n, n = Release(m, i)
  PROVE  /\ n \in MachineZ
         /\ n.buf = m.buf /\ n.live = m.live /\ n.fresh = m.fresh /\ n.lost = m.lost
         /\ \A j \in Interface : n.refs[j] = m.refs[j] - IF i = j THEN 1 ELSE 0
BY DEF MachineZ, Release

Raised(m, b, bit)  == SetBit(m, b, bit, TRUE)
Cleared(m, b, bit) == SetBit(m, b, bit, FALSE)

\* Setting a bit of a buffer changes that bit.
LEMMA SetFields ==
  ASSUME NEW m \in MachineZ, NEW b \in Buffer, NEW bit \in Bit, NEW n, n = Raised(m, b, bit)
  PROVE  /\ Only(m, n, b)
         /\ n.live = m.live /\ n.refs = m.refs /\ n.fresh = m.fresh /\ n.lost = m.lost
         /\ n.buf[b].device = m.buf[b].device
         /\ n.buf[b].device_interface = m.buf[b].device_interface
         /\ bit = "host" => n.buf[b].host
         /\ bit # "host" => n.buf[b].host = m.buf[b].host
         /\ bit = "host_dirty" => n.buf[b].host_dirty
         /\ bit # "host_dirty" => n.buf[b].host_dirty = m.buf[b].host_dirty
         /\ bit = "device_dirty" => n.buf[b].device_dirty
         /\ bit # "device_dirty" => n.buf[b].device_dirty = m.buf[b].device_dirty
BY ZenonT(60) DEF MachineZ, Raised, SetBit, BufferT, Bit, Only

\* And so does clearing it.
LEMMA ClearFields ==
  ASSUME NEW m \in MachineZ, NEW b \in Buffer, NEW bit \in Bit, NEW n, n = Cleared(m, b, bit)
  PROVE  /\ Only(m, n, b)
         /\ n.live = m.live /\ n.refs = m.refs /\ n.fresh = m.fresh /\ n.lost = m.lost
         /\ n.buf[b].device = m.buf[b].device
         /\ n.buf[b].device_interface = m.buf[b].device_interface
         /\ bit = "host" => ~n.buf[b].host
         /\ bit # "host" => n.buf[b].host = m.buf[b].host
         /\ bit = "host_dirty" => ~n.buf[b].host_dirty
         /\ bit # "host_dirty" => n.buf[b].host_dirty = m.buf[b].host_dirty
         /\ bit = "device_dirty" => ~n.buf[b].device_dirty
         /\ bit # "device_dirty" => n.buf[b].device_dirty = m.buf[b].device_dirty
BY ZenonT(60) DEF MachineZ, Cleared, SetBit, BufferT, Bit, Only

\* Setting the handle and the interface of a buffer changes those.
LEMMA SetDeviceFields ==
  ASSUME NEW m \in MachineZ, NEW b \in Buffer, NEW h \in Handle \union Native \union {NULL},
         NEW i \in Interface \union {NULL}, NEW n, n = SetDevice(m, b, h, i)
  PROVE  /\ Only(m, n, b)
         /\ n.live = m.live /\ n.refs = m.refs /\ n.fresh = m.fresh /\ n.lost = m.lost
         /\ n.buf[b].device = h /\ n.buf[b].device_interface = i
         /\ n.buf[b].host = m.buf[b].host
         /\ n.buf[b].host_dirty = m.buf[b].host_dirty
         /\ n.buf[b].device_dirty = m.buf[b].device_dirty
<1>. DEFINE B1 == [m.buf[b] EXCEPT !.device = h]
            B2 == [B1 EXCEPT !.device_interface = i]
<1>1. m.buf[b] \in BufferT /\ m.buf \in [Buffer -> BufferT]
  BY DEF MachineZ
<1>2. B1 \in BufferT /\ B1.host = m.buf[b].host /\ B1.device = h
        /\ B1.host_dirty = m.buf[b].host_dirty /\ B1.device_dirty = m.buf[b].device_dirty
  BY <1>1 DEF BufferT
<1>. HIDE DEF B1
<1>3. B2 \in BufferT /\ B2.host = m.buf[b].host /\ B2.device = h /\ B2.device_interface = i
        /\ B2.host_dirty = m.buf[b].host_dirty /\ B2.device_dirty = m.buf[b].device_dirty
  BY <1>2 DEF BufferT
<1>. HIDE DEF B2
<1>4. n = [m EXCEPT !.buf = [@ EXCEPT ![b] = B2]]
  BY <1>1 DEF SetDevice, MachineZ, B1, B2
<1>. QED
  BY <1>1, <1>3, <1>4 DEF Only, MachineZ

\* A driver changes which allocations are live.
LEMMA LiveFields ==
  ASSUME NEW m \in MachineZ, NEW l \in SUBSET Handle, NEW n, n = [m EXCEPT !.live = l]
  PROVE  /\ n \in MachineZ
         /\ n.buf = m.buf /\ n.live = l /\ n.refs = m.refs /\ n.fresh = m.fresh /\ n.lost = m.lost
BY DEF MachineZ

\* The content of buffers is given up.
LEMMA LostFields ==
  ASSUME NEW m \in MachineZ, NEW l \in SUBSET Buffer, NEW n, n = [m EXCEPT !.lost = l]
  PROVE  /\ n \in MachineZ
         /\ n.buf = m.buf /\ n.live = m.live /\ n.refs = m.refs /\ n.fresh = m.fresh /\ n.lost = l
BY DEF MachineZ

\* A memory of a buffer loses its content.
LEMMA WithoutFields ==
  ASSUME NEW m \in MachineZ, NEW b \in Buffer, NEW memory \in {Host, Device}
  PROVE  LET n == Without(m, b, memory)
         IN  /\ n \in MachineZ
             /\ n.buf = m.buf /\ n.live = m.live /\ n.refs = m.refs /\ n.lost = m.lost
             /\ n.fresh[b] = m.fresh[b] \ {memory}
             /\ \A c \in Buffer : c # b => n.fresh[c] = m.fresh[c]
<1>. DEFINE f == m.fresh[b] \ {memory}
            n == Without(m, b, memory)
<1>1. f \in SUBSET {Host, Device}
  BY DEF MachineZ
<1>2. n = [m EXCEPT !.fresh[b] = f]
  BY DEF Without
<1>. HIDE DEF f, n
<1>3. /\ n \in MachineZ
      /\ n.buf = m.buf /\ n.live = m.live /\ n.refs = m.refs /\ n.lost = m.lost
      /\ n.fresh[b] = f /\ \A c \in Buffer : c # b => n.fresh[c] = m.fresh[c]
  BY <1>1, <1>2 DEF MachineZ
<1>. QED
  BY <1>3 DEF f, n

-----------------------------------------------------------------------------
(***************************************************************************)
(* What a call may do.                                                     *)
(***************************************************************************)
\* The other buffers are as they were.
Frame(m, n, b) ==
  /\ n \in MachineZ
  /\ \A c \in Buffer : c # b =>
       n.buf[c] = m.buf[c] /\ n.fresh[c] = m.fresh[c] /\ (c \in n.lost <=> c \in m.lost)

\* 1 if buffer b holds device memory of interface j.
Holding(m, b, j) == IF m.buf[b].device_interface = j THEN 1 ELSE 0

\* The reference counts follow what buffer b holds.
Counted(m, n, b) ==
  \A j \in Interface : n.refs[j] = m.refs[j] + Holding(n, b, j) - Holding(m, b, j)

\* Buffer b has the device memory it had.
Keeps(m, n, b) ==
  /\ n.live = m.live
  /\ n.buf[b].device = m.buf[b].device
  /\ n.buf[b].device_interface = m.buf[b].device_interface

\* It got some of interface i.
Gains(m, n, b, i) ==
  /\ m.buf[b].device = NULL /\ n.buf[b].device \in Handle \ m.live
  /\ n.buf[b].device_interface = i
  /\ n.live = m.live \union {n.buf[b].device}

\* It lost what it had.
Loses(m, n, b) ==
  /\ m.buf[b].device # NULL /\ n.buf[b].device = NULL /\ n.buf[b].device_interface = NULL
  /\ n.live = m.live \ {m.buf[b].device}

SameBits(m, n, b) ==
  /\ n.buf[b].host = m.buf[b].host
  /\ n.buf[b].host_dirty = m.buf[b].host_dirty
  /\ n.buf[b].device_dirty = m.buf[b].device_dirty

SameContent(m, n) == n.fresh = m.fresh /\ n.lost = m.lost

\* The handle and the interface of buffer b are set together.
Named(m, b) == m.buf[b].device = NULL <=> m.buf[b].device_interface = NULL

\* A module is used around a call.
LEMMA Bracket ==
  ASSUME NEW m \in MachineZ, NEW b \in Buffer, NEW i \in Interface, NEW u, u = Use(m, i),
         NEW k, Frame(u, k, b), Counted(u, k, b), NEW n, n = Release(k, i)
  PROVE  /\ u \in MachineZ /\ Frame(m, n, b) /\ Counted(m, n, b)
         /\ u.buf = m.buf /\ u.live = m.live /\ SameContent(m, u)
         /\ n.buf = k.buf /\ n.live = k.live /\ SameContent(k, n)
<1>1. /\ u \in MachineZ
      /\ u.buf = m.buf /\ u.live = m.live /\ u.fresh = m.fresh /\ u.lost = m.lost
      /\ \A j \in Interface : u.refs[j] = m.refs[j] + IF i = j THEN 1 ELSE 0
  BY UseFields
<1>2. /\ n \in MachineZ
      /\ n.buf = k.buf /\ n.live = k.live /\ n.fresh = k.fresh /\ n.lost = k.lost
      /\ \A j \in Interface : n.refs[j] = k.refs[j] - IF i = j THEN 1 ELSE 0
  BY ReleaseFields DEF Frame
<1>3. Frame(m, n, b)
  BY <1>1, <1>2 DEF Frame
<1>4. Counted(m, n, b)
  <2>. SUFFICES ASSUME NEW j \in Interface
                PROVE  n.refs[j] = m.refs[j] + Holding(n, b, j) - Holding(m, b, j)
    BY DEF Counted
  <2>1. m.refs[j] \in Int
    BY DEF MachineZ
  <2>2. Holding(n, b, j) = Holding(k, b, j) /\ Holding(u, b, j) = Holding(m, b, j)
    BY <1>1, <1>2 DEF Holding
  <2>3. k.refs[j] = u.refs[j] + Holding(k, b, j) - Holding(u, b, j)
    BY DEF Counted
  <2>4. Holding(k, b, j) \in Int /\ Holding(u, b, j) \in Int
    BY DEF Holding
  <2>. QED
    BY <1>1, <1>2, <2>1, <2>2, <2>3, <2>4
<1>. QED
  BY <1>1, <1>2, <1>3, <1>4 DEF SameContent

\* A new allocation.
LEMMA MallocedFields ==
  ASSUME NEW m \in MachineZ, NEW b \in Buffer, NEW i \in Interface, Named(m, b),
         m.buf[b].device = NULL, NEW h \in Handle \ m.live, NEW n, n = Malloced(m, b, h, i)
  PROVE  /\ Frame(m, n, b) /\ Counted(m, n, b) /\ Gains(m, n, b, i)
         /\ SameBits(m, n, b) /\ SameContent(m, n)
<1>. DEFINE d == SetDevice(m, b, h, i)
            l == [d EXCEPT !.live = m.live \union {h}]
<1>1. /\ Only(m, d, b)
      /\ d.live = m.live /\ d.refs = m.refs /\ d.fresh = m.fresh /\ d.lost = m.lost
      /\ d.buf[b].device = h /\ d.buf[b].device_interface = i
      /\ SameBits(m, d, b)
  BY SetDeviceFields DEF SameBits
<1>2. m.live \union {h} \in SUBSET Handle
  BY DEF MachineZ
<1>. HIDE DEF d
<1>3. /\ l \in MachineZ
      /\ l.buf = d.buf /\ l.live = m.live \union {h} /\ l.refs = d.refs /\ l.fresh = d.fresh
      /\ l.lost = d.lost
  BY <1>1, <1>2, LiveFields DEF Only
<1>4. n = Use(l, i)
  BY <1>1 DEF Malloced, MallocUncounted, d
<1>. HIDE DEF l
<1>5. /\ n \in MachineZ
      /\ n.buf = l.buf /\ n.live = l.live /\ n.fresh = l.fresh /\ n.lost = l.lost
      /\ \A j \in Interface : n.refs[j] = l.refs[j] + IF i = j THEN 1 ELSE 0
  BY <1>3, <1>4, UseFields
<1>6. Counted(m, n, b)
  <2>1. \A j \in Interface : Holding(n, b, j) = (IF i = j THEN 1 ELSE 0) /\ Holding(m, b, j) = 0
    BY <1>1, <1>3, <1>5, InterfaceAssumption DEF Holding, Named
  <2>2. \A j \in Interface : m.refs[j] \in Int
    BY DEF MachineZ
  <2>. QED
    BY <1>1, <1>3, <1>5, <2>1, <2>2 DEF Counted
<1>. QED
  BY <1>1, <1>3, <1>5, <1>6 DEF Frame, Only, Gains, SameBits, SameContent
-----------------------------------------------------------------------------
(***************************************************************************)
(* Allocation.                                                             *)
(***************************************************************************)
\* halide_device_malloc fails, or the buffer has device memory of i after it.
Mallocs(m, r, b, i) ==
  /\ Frame(m, r.m, b) /\ Counted(m, r.m, b)
  /\ SameBits(m, r.m, b) /\ SameContent(m, r.m)
  /\ Keeps(m, r.m, b) \/ Gains(m, r.m, b, i)
  /\ r.err \in {Success, Incompatible, Failed}
  /\ r.err = Success => /\ r.m.buf[b].device # NULL /\ r.m.buf[b].device_interface = i
                        /\ Valid(m, b)

\* No change is one that each of the above allows.
LEMMA Unchanged ==
  ASSUME NEW m \in MachineZ, NEW b \in Buffer
  PROVE  /\ Frame(m, m, b) /\ Counted(m, m, b) /\ Keeps(m, m, b)
         /\ SameBits(m, m, b) /\ SameContent(m, m)
<1>1. \A j \in Interface : m.refs[j] \in Int
  BY DEF MachineZ
<1>2. Counted(m, m, b)
  BY <1>1 DEF Counted, Holding
<1>. QED
  BY <1>2 DEF Frame, Keeps, SameBits, SameContent

\* A driver allocates, unless the buffer has device memory, or fails.
LEMMA DriverMallocEffect ==
  ASSUME NEW m \in MachineZ, NEW b \in Buffer, NEW i \in Interface, Named(m, b), CanUse(m, b, i),
         NEW r \in DriverMalloc(m, b, i)
  PROVE  /\ Frame(m, r.m, b) /\ Counted(m, r.m, b)
         /\ SameBits(m, r.m, b) /\ SameContent(m, r.m)
         /\ Keeps(m, r.m, b) \/ Gains(m, r.m, b, i)
         /\ r.err \in {Success, Failed}
         /\ r.err = Success => r.m.buf[b].device # NULL /\ r.m.buf[b].device_interface = i
<1>1. CASE (r = Ok(m) /\ m.buf[b].device # NULL) \/ r = Err(m)
  BY <1>1, Unchanged DEF Named, CanUse, Ok, Err, Success, Failed
<1>2. CASE m.buf[b].device = NULL /\ \E h \in Handle \ m.live : r = Ok(Malloced(m, b, h, i))
  <2>1. PICK h \in Handle \ m.live : r = Ok(Malloced(m, b, h, i))
    BY <1>2
  <2>2. r.m = Malloced(m, b, h, i) /\ r.err = Success
    BY <2>1 DEF Ok
  <2>3. /\ Frame(m, r.m, b) /\ Counted(m, r.m, b) /\ Gains(m, r.m, b, i)
        /\ SameBits(m, r.m, b) /\ SameContent(m, r.m)
    BY <1>2, <2>2, MallocedFields
  <2>. QED
    BY <2>2, <2>3, HandleAssumption DEF Gains, Success, Failed
<1>3. \/ (r = Ok(m) /\ m.buf[b].device # NULL) \/ r = Err(m)
      \/ m.buf[b].device = NULL /\ \E h \in Handle \ m.live : r = Ok(Malloced(m, b, h, i))
  BY DEF DriverMalloc
<1>. QED
  BY <1>1, <1>2, <1>3

\* halide_device_malloc with the module in use around the call of the driver.
LEMMA MallocEffect ==
  ASSUME NEW m \in MachineZ, NEW b \in Buffer, NEW i \in Interface,
         NEW r \in halide_device_malloc(m, b, i)
  PROVE  Mallocs(m, r, b, i)
<1>. DEFINE u == Use(m, i)
<1>1. CASE r.m = m /\ r.err \in {Incompatible, Failed}
  BY <1>1, Unchanged DEF Mallocs, Success, Incompatible, Failed
<1>2. CASE /\ Valid(m, b) /\ CanUse(m, b, i)
           /\ \E q \in DriverMalloc(u, b, i) :
                r.m = Release(q.m, i) /\ r.err = IF q.err = Success THEN Success ELSE Failed
  <2>1. PICK q \in DriverMalloc(u, b, i) :
          r.m = Release(q.m, i) /\ r.err = IF q.err = Success THEN Success ELSE Failed
    BY <1>2
  <2>2. u \in MachineZ /\ u.buf = m.buf /\ u.live = m.live /\ SameContent(m, u)
    BY UseFields DEF SameContent
  <2>. HIDE DEF u
  <2>3. Named(u, b) /\ CanUse(u, b, i)
    BY <1>2, <2>2 DEF Valid, Named, CanUse
  <2>4. /\ Frame(u, q.m, b) /\ Counted(u, q.m, b)
        /\ SameBits(u, q.m, b) /\ SameContent(u, q.m)
        /\ Keeps(u, q.m, b) \/ Gains(u, q.m, b, i)
        /\ q.err \in {Success, Failed}
        /\ q.err = Success => q.m.buf[b].device # NULL /\ q.m.buf[b].device_interface = i
    BY <2>2, <2>3, DriverMallocEffect
  <2>5. /\ Frame(m, r.m, b) /\ Counted(m, r.m, b)
        /\ r.m.buf = q.m.buf /\ r.m.live = q.m.live /\ SameContent(q.m, r.m)
    BY <2>1, <2>4, Bracket DEF u
  <2>6. SameBits(m, r.m, b) /\ SameContent(m, r.m) /\ (Keeps(m, r.m, b) \/ Gains(m, r.m, b, i))
    BY <2>2, <2>4, <2>5 DEF SameBits, SameContent, Keeps, Gains
  <2>. QED
    BY <1>2, <2>1, <2>4, <2>5, <2>6 DEF Mallocs, Success, Failed, Incompatible
<1>3. \/ r.m = m /\ r.err \in {Incompatible, Failed}
      \/ /\ Valid(m, b) /\ CanUse(m, b, i)
         /\ \E q \in DriverMalloc(u, b, i) :
              r.m = Release(q.m, i) /\ r.err = IF q.err = Success THEN Success ELSE Failed
  BY DEF halide_device_malloc, Then, Checked, Guarded, Finally, Ok, Err, Success, Incompatible, Failed
<1>. QED
  BY <1>1, <1>2, <1>3

\* Buffer b gives up its device memory, and with it the module.
LEMMA DroppedFields ==
  ASSUME NEW m \in MachineZ, NEW b \in Buffer, m.buf[b].device_interface \in Interface,
         NEW n, n = Release(SetDevice(m, b, NULL, NULL), m.buf[b].device_interface)
  PROVE  /\ Frame(m, n, b) /\ Counted(m, n, b) /\ SameBits(m, n, b) /\ SameContent(m, n)
         /\ n.live = m.live /\ n.buf[b].device = NULL /\ n.buf[b].device_interface = NULL
<1>. DEFINE d == SetDevice(m, b, NULL, NULL)
            i == m.buf[b].device_interface
            v == Release(d, i)
<1>1. /\ Only(m, d, b)
      /\ d.live = m.live /\ d.refs = m.refs /\ d.fresh = m.fresh /\ d.lost = m.lost
      /\ d.buf[b].device = NULL /\ d.buf[b].device_interface = NULL
      /\ SameBits(m, d, b)
  BY SetDeviceFields DEF SameBits
<1>0. n = v
  OBVIOUS
<1>a. i \in Interface /\ d \in MachineZ
  BY <1>1 DEF Only
<1>. HIDE DEF d, i
<1>b. /\ v \in MachineZ
      /\ v.buf = d.buf /\ v.live = d.live /\ v.fresh = d.fresh /\ v.lost = d.lost
      /\ \A j \in Interface : v.refs[j] = d.refs[j] - IF i = j THEN 1 ELSE 0
  BY <1>a, ReleaseFields
<1>. HIDE DEF v
<1>2. /\ n \in MachineZ
      /\ n.buf = d.buf /\ n.live = d.live /\ n.fresh = d.fresh /\ n.lost = d.lost
      /\ \A j \in Interface : n.refs[j] = d.refs[j] - IF i = j THEN 1 ELSE 0
  BY <1>0, <1>b
<1>3. Counted(m, n, b)
  <2>1. \A j \in Interface : Holding(n, b, j) = 0 /\ Holding(m, b, j) = IF i = j THEN 1 ELSE 0
    BY <1>1, <1>2, InterfaceAssumption DEF Holding, i
  <2>2. \A j \in Interface : m.refs[j] \in Int
    BY DEF MachineZ
  <2>. QED
    BY <1>1, <1>2, <2>1, <2>2 DEF Counted
<1>. QED
  BY <1>1, <1>2, <1>3 DEF Frame, Only, SameBits, SameContent

\* In whichever order its content is forgotten.
LEMMA ForgottenFields ==
  ASSUME NEW m \in MachineZ, NEW b \in Buffer, m.buf[b].device_interface \in Interface,
         NEW n, n = Release(Without(SetDevice(m, b, NULL, NULL), b, Device), m.buf[b].device_interface)
  PROVE  /\ Frame(m, n, b) /\ Counted(m, n, b) /\ SameBits(m, n, b)
         /\ n.lost = m.lost /\ n.fresh[b] = m.fresh[b] \ {Device}
         /\ n.live = m.live /\ n.buf[b].device = NULL /\ n.buf[b].device_interface = NULL
<1>. DEFINE d == SetDevice(m, b, NULL, NULL)
            w == Without(d, b, Device)
            i == m.buf[b].device_interface
            k == Release(d, i)
            v == Release(w, i)
<1>1. /\ Frame(m, k, b) /\ Counted(m, k, b) /\ SameBits(m, k, b) /\ SameContent(m, k)
      /\ k.live = m.live /\ k.buf[b].device = NULL /\ k.buf[b].device_interface = NULL
  BY DroppedFields
<1>2. d \in MachineZ
  BY SetDeviceFields DEF Only
<1>. HIDE DEF d
<1>3. /\ w \in MachineZ
      /\ w.buf = d.buf /\ w.live = d.live /\ w.refs = d.refs /\ w.lost = d.lost
      /\ w.fresh[b] = d.fresh[b] \ {Device}
      /\ \A c \in Buffer : c # b => w.fresh[c] = d.fresh[c]
  BY <1>2, WithoutFields
<1>0. n = v
  BY DEF w, d
<1>a. i \in Interface /\ w \in MachineZ
  BY <1>3
<1>. HIDE DEF w, i
<1>4. /\ k.buf = d.buf /\ k.live = d.live /\ k.fresh = d.fresh /\ k.lost = d.lost
      /\ \A j \in Interface : k.refs[j] = d.refs[j] - IF i = j THEN 1 ELSE 0
  BY <1>2, <1>a, ReleaseFields
<1>5. /\ v \in MachineZ
      /\ v.buf = w.buf /\ v.live = w.live /\ v.fresh = w.fresh /\ v.lost = w.lost
      /\ \A j \in Interface : v.refs[j] = w.refs[j] - IF i = j THEN 1 ELSE 0
  BY <1>a, ReleaseFields
<1>. HIDE DEF k, v
<1>6. n.buf = k.buf /\ n.live = k.live /\ n.lost = k.lost /\ \A j \in Interface : n.refs[j] = k.refs[j]
  BY <1>0, <1>3, <1>4, <1>5
<1>7. n.fresh[b] = k.fresh[b] \ {Device} /\ \A c \in Buffer : c # b => n.fresh[c] = k.fresh[c]
  BY <1>0, <1>3, <1>4, <1>5
<1>8. Counted(m, n, b)
  BY <1>1, <1>6 DEF Counted, Holding
<1>. QED
  BY <1>0, <1>1, <1>5, <1>6, <1>7, <1>8 DEF Frame, SameBits, SameContent

\* A driver frees, and drops the reference even if it fails.
LEMMA DriverFreeEffect ==
  ASSUME NEW m \in MachineZ, NEW b \in Buffer, m.buf[b].device_interface \in Interface, Named(m, b),
         NEW r \in DriverFree(m, b)
  PROVE  /\ Frame(m, r.m, b) /\ Counted(m, r.m, b) /\ SameBits(m, r.m, b) /\ Loses(m, r.m, b)
         /\ r.m.lost = m.lost /\ r.m.fresh[b] = m.fresh[b] \ {Device}
         /\ r.err \in {Success, Failed}
<1>. DEFINE h == m.buf[b].device
            k == Release(Without(SetDevice(m, b, NULL, NULL), b, Device), m.buf[b].device_interface)
            l == k.live \ {h}
            n == [k EXCEPT !.live = l]
<1>1. h # NULL
  BY InterfaceAssumption DEF Named
<1>2. r = Ok(n) \/ r = Err(n)
  BY <1>1 DEF DriverFree
<1>3. /\ Frame(m, k, b) /\ Counted(m, k, b) /\ SameBits(m, k, b)
      /\ k.lost = m.lost /\ k.fresh[b] = m.fresh[b] \ {Device}
      /\ k.live = m.live /\ k.buf[b].device = NULL /\ k.buf[b].device_interface = NULL
  BY ForgottenFields
<1>. HIDE DEF k
<1>4. l \in SUBSET Handle /\ k \in MachineZ
  BY <1>3 DEF MachineZ, Frame
<1>. HIDE DEF l
<1>5. /\ n \in MachineZ /\ n.buf = k.buf /\ n.live = l
      /\ n.refs = k.refs /\ n.fresh = k.fresh /\ n.lost = k.lost
  BY <1>4, LiveFields
<1>6. r.m = n /\ r.err \in {Success, Failed}
  BY <1>2 DEF Ok, Err, Success, Failed
<1>. HIDE DEF n
<1>7. Frame(m, n, b) /\ SameBits(m, n, b) /\ n.lost = m.lost /\ n.fresh[b] = m.fresh[b] \ {Device}
  BY <1>3, <1>5 DEF Frame, SameBits
<1>8. Counted(m, n, b)
  BY <1>3, <1>5 DEF Counted, Holding
<1>9. Loses(m, n, b)
  BY <1>1, <1>3, <1>5 DEF Loses, l
<1>. QED
  BY <1>6, <1>7, <1>8, <1>9

\* halide_device_free refuses a buffer that is not valid, frees its device
\* memory, even if it reports a failure, or finds nothing but the dirty bit.
Frees(m, r, b) ==
  /\ Frame(m, r.m, b) /\ Counted(m, r.m, b) /\ r.m.lost = m.lost
  /\ r.m.buf[b].host = m.buf[b].host /\ r.m.buf[b].host_dirty = m.buf[b].host_dirty
  /\ \/ /\ ~Valid(m, b) /\ r.err = Failed
        /\ Keeps(m, r.m, b) /\ SameBits(m, r.m, b) /\ SameContent(m, r.m)
     \/ /\ Valid(m, b) /\ r.err \in {Success, Failed}
        /\ Loses(m, r.m, b) /\ SameBits(m, r.m, b) /\ r.m.fresh[b] = m.fresh[b] \ {Device}
     \/ /\ Valid(m, b) /\ r.err = Success /\ m.buf[b].device_interface = NULL
        /\ Keeps(m, r.m, b) /\ ~r.m.buf[b].device_dirty /\ r.m.fresh[b] = m.fresh[b]

\* halide_device_free, by what it finds.
LEMMA FreeCases ==
  ASSUME NEW m \in MachineZ, NEW b \in Buffer, NEW r \in halide_device_free(m, b)
  PROVE  LET i == m.buf[b].device_interface
         IN  /\ ~Valid(m, b) => r = Err(m)
             /\ Valid(m, b) /\ i = NULL => r = Ok(Cleared(m, b, "device_dirty"))
             /\ Valid(m, b) /\ i # NULL =>
                  \E q \in DriverFree(Use(m, i), b) : r.m = Release(q.m, i) /\ r.err = q.err
<1>1. ~Valid(m, b) => r = Err(m)
  BY DEF halide_device_free, Then, Checked, SetBit, Err, Success, Failed
<1>2. ASSUME Valid(m, b), m.buf[b].device_interface = NULL
      PROVE  r = Ok(SetBit(m, b, "device_dirty", FALSE))
  BY <1>2 DEF halide_device_free, Then, Checked, Ok, SetBit
<1>3. ASSUME Valid(m, b), m.buf[b].device_interface # NULL
      PROVE  \E q \in DriverFree(Use(m, m.buf[b].device_interface), b) :
               r.m = Release(q.m, m.buf[b].device_interface) /\ r.err = q.err
  BY <1>3 DEF halide_device_free, Then, Checked, Ok, Guarded, Finally, SetBit
<1>. QED
  BY <1>1, <1>2, <1>3 DEF Cleared, SetBit

\* halide_device_free.
LEMMA FreeEffect ==
  ASSUME NEW m \in MachineZ, NEW b \in Buffer, NEW r \in halide_device_free(m, b)
  PROVE  Frees(m, r, b)
<1>. DEFINE i == m.buf[b].device_interface
            u == Use(m, i)
<1>1. CASE ~Valid(m, b) /\ r = Err(m)
  BY <1>1, Unchanged DEF Frees, Err, SameBits
<1>2. CASE Valid(m, b) /\ i = NULL /\ r = Ok(Cleared(m, b, "device_dirty"))
  <2>. DEFINE n == Cleared(m, b, "device_dirty")
  <2>1. /\ Only(m, n, b)
        /\ n.live = m.live /\ n.refs = m.refs /\ n.fresh = m.fresh /\ n.lost = m.lost
        /\ n.buf[b].device = m.buf[b].device
        /\ n.buf[b].device_interface = m.buf[b].device_interface
        /\ n.buf[b].host = m.buf[b].host
        /\ n.buf[b].host_dirty = m.buf[b].host_dirty
        /\ ~n.buf[b].device_dirty
    BY ClearFields DEF Bit
  <2>2. r.m = n /\ r.err = Success
    BY <1>2 DEF Ok
  <2>. HIDE DEF n
  <2>3. \A j \in Interface : m.refs[j] \in Int /\ Holding(n, b, j) = Holding(m, b, j)
    BY <2>1 DEF MachineZ, Holding
  <2>4. Counted(m, n, b)
    BY <2>1, <2>3 DEF Counted, Holding
  <2>5. Frame(m, n, b) /\ Keeps(m, n, b)
    BY <2>1 DEF Frame, Only, Keeps
  <2>. QED
    BY <1>2, <2>1, <2>2, <2>4, <2>5 DEF Frees
<1>3. CASE /\ Valid(m, b) /\ i # NULL
           /\ \E q \in DriverFree(u, b) : r.m = Release(q.m, i) /\ r.err = q.err
  <2>1. PICK q \in DriverFree(u, b) : r.m = Release(q.m, i) /\ r.err = q.err
    BY <1>3
  <2>2. i \in Interface
    BY <1>3 DEF MachineZ, BufferT
  <2>3. u \in MachineZ /\ u.buf = m.buf /\ u.live = m.live /\ SameContent(m, u)
    BY <2>2, UseFields DEF SameContent
  <2>. HIDE DEF u
  <2>4. Named(u, b) /\ u.buf[b].device_interface \in Interface
    BY <1>3, <2>2, <2>3 DEF Valid, Named
  <2>5. /\ Frame(u, q.m, b) /\ Counted(u, q.m, b) /\ SameBits(u, q.m, b) /\ Loses(u, q.m, b)
        /\ q.m.lost = u.lost /\ q.m.fresh[b] = u.fresh[b] \ {Device}
        /\ q.err \in {Success, Failed}
    BY <2>3, <2>4, DriverFreeEffect
  <2>6. /\ Frame(m, r.m, b) /\ Counted(m, r.m, b)
        /\ r.m.buf = q.m.buf /\ r.m.live = q.m.live /\ SameContent(q.m, r.m)
    BY <2>1, <2>2, <2>5, Bracket DEF u
  <2>7. SameBits(m, r.m, b) /\ Loses(m, r.m, b)
    BY <2>3, <2>5, <2>6 DEF SameBits, Loses
  <2>. QED
    BY <1>3, <2>1, <2>3, <2>5, <2>6, <2>7 DEF Frees, SameContent, SameBits
<1>. QED
  BY <1>1, <1>2, <1>3, FreeCases

\* The host half of an allocation is freed.
LEMMA HostFreedFields ==
  ASSUME NEW m \in MachineZ, NEW b \in Buffer, NEW n, n = HostFreed(m, b)
  PROVE  /\ Frame(m, n, b) /\ Counted(m, n, b) /\ Keeps(m, n, b)
         /\ n.lost = m.lost /\ n.fresh[b] = m.fresh[b] \ {Host}
         /\ ~n.buf[b].host
         /\ n.buf[b].host_dirty = m.buf[b].host_dirty
         /\ n.buf[b].device_dirty = m.buf[b].device_dirty
<1>. DEFINE d == Cleared(m, b, "host")
<1>1. /\ Only(m, d, b)
      /\ d.live = m.live /\ d.refs = m.refs /\ d.fresh = m.fresh /\ d.lost = m.lost
      /\ d.buf[b].device = m.buf[b].device
      /\ d.buf[b].device_interface = m.buf[b].device_interface
      /\ ~d.buf[b].host
      /\ d.buf[b].host_dirty = m.buf[b].host_dirty
      /\ d.buf[b].device_dirty = m.buf[b].device_dirty
  BY ClearFields DEF Bit
<1>. DEFINE w == Without(d, b, Host)
<1>2. n = w
  BY DEF HostFreed, Cleared
<1>. HIDE DEF d
<1>3. d \in MachineZ
  BY <1>1 DEF Only
<1>4. /\ w \in MachineZ
      /\ w.buf = d.buf /\ w.live = d.live /\ w.refs = d.refs /\ w.lost = d.lost
      /\ w.fresh[b] = d.fresh[b] \ {Host}
      /\ \A c \in Buffer : c # b => w.fresh[c] = d.fresh[c]
  BY <1>3, WithoutFields
<1>. HIDE DEF w
<1>5. \A j \in Interface : m.refs[j] \in Int
  BY DEF MachineZ
<1>6. Counted(m, n, b)
  BY <1>1, <1>2, <1>4, <1>5 DEF Counted, Holding
<1>. QED
  BY <1>1, <1>2, <1>4, <1>6 DEF Frame, Only, Keeps

\* One call after another.
LEMMA Compose ==
  ASSUME NEW m \in MachineZ, NEW b \in Buffer, NEW k, NEW n,
         Frame(m, k, b), Counted(m, k, b), Frame(k, n, b), Counted(k, n, b)
  PROVE  Frame(m, n, b) /\ Counted(m, n, b)
<1>1. \A j \in Interface : /\ m.refs[j] \in Int /\ Holding(m, b, j) \in Int
                           /\ Holding(k, b, j) \in Int /\ Holding(n, b, j) \in Int
  BY DEF MachineZ, Holding
<1>2. Counted(m, n, b)
  BY <1>1 DEF Counted
<1>3. Frame(m, n, b)
  BY DEF Frame
<1>. QED
  BY <1>2, <1>3

\* A bit of buffer b is all that changes.
LEMMA BitOnly ==
  ASSUME NEW m \in MachineZ, NEW b \in Buffer, NEW bit \in Bit,
         NEW n, n = Raised(m, b, bit) \/ n = Cleared(m, b, bit)
  PROVE  Frame(m, n, b) /\ Counted(m, n, b) /\ Keeps(m, n, b) /\ SameContent(m, n)
<1>1. /\ Only(m, n, b)
      /\ n.live = m.live /\ n.refs = m.refs /\ n.fresh = m.fresh /\ n.lost = m.lost
      /\ n.buf[b].device = m.buf[b].device
      /\ n.buf[b].device_interface = m.buf[b].device_interface
  BY SetFields, ClearFields
<1>2. \A j \in Interface : m.refs[j] \in Int /\ Holding(n, b, j) = Holding(m, b, j)
  BY <1>1 DEF MachineZ, Holding
<1>3. Counted(m, n, b)
  BY <1>1, <1>2 DEF Counted, Holding
<1>. QED
  BY <1>1, <1>3 DEF Frame, Only, Keeps, SameContent

\* The outcomes of halide_device_and_host_malloc.
LEMMA BothMallocCases ==
  ASSUME NEW m \in MachineZ, NEW b \in Buffer, NEW i \in Interface,
         NEW r \in halide_device_and_host_malloc(m, b, i)
  PROVE  \/ r = Err(m) \/ r = [m |-> m, err |-> Incompatible]
         \/ \E k \in halide_default_device_and_host_malloc(Use(m, i), b, i) :
              r.m = Release(k.m, i) /\ r.err = k.err
<1>1. ASSUME ~Valid(m, b)
      PROVE  r = Err(m)
  BY <1>1 DEF halide_device_and_host_malloc, Then, Checked, Err, Success, Failed
<1>2. ASSUME Valid(m, b), ~CanUse(m, b, i)
      PROVE  r = [m |-> m, err |-> Incompatible]
  BY <1>2 DEF halide_device_and_host_malloc, Then, Checked, Ok, Success
<1>3. ASSUME Valid(m, b), CanUse(m, b, i)
      PROVE  \E k \in halide_default_device_and_host_malloc(Use(m, i), b, i) :
               r.m = Release(k.m, i) /\ r.err = k.err
  BY <1>3 DEF halide_device_and_host_malloc, Then, Checked, Guarded, Finally, Ok
<1>. QED
  BY <1>1, <1>2, <1>3

\* halide_device_and_host_malloc.
MallocsBoth(m, r, b, i) ==
  /\ Frame(m, r.m, b) /\ Counted(m, r.m, b) /\ r.m.lost = m.lost
  /\ Keeps(m, r.m, b) \/ Gains(m, r.m, b, i)
  /\ r.m.buf[b].host_dirty = m.buf[b].host_dirty
  /\ r.m.buf[b].device_dirty = m.buf[b].device_dirty
  /\ r.m.fresh[b] \subseteq m.fresh[b]
  /\ r.err = Success => /\ r.m.buf[b].host
                        /\ r.m.buf[b].device # NULL /\ r.m.buf[b].device_interface = i

\* The default implementation frees the host half if the device half fails.
LEMMA DefaultMallocEffect ==
  ASSUME NEW u \in MachineZ, NEW b \in Buffer, NEW i \in Interface,
         NEW k \in halide_default_device_and_host_malloc(u, b, i)
  PROVE  MallocsBoth(u, k, b, i)
<1>. DEFINE d == Raised(u, b, "host")
<1>1. CASE k = Err(u)
  BY <1>1, Unchanged DEF MallocsBoth, Err, SameBits, SameContent, Success, Failed
<1>2. CASE \E q \in halide_device_malloc(d, b, i) :
             k = IF q.err = Success THEN q ELSE Err(HostFreed(q.m, b))
  <2>1. PICK q \in halide_device_malloc(d, b, i) :
             k = IF q.err = Success THEN q ELSE Err(HostFreed(q.m, b))
    BY <1>2
  <2>2. "host" \in Bit
    BY DEF Bit
  <2>3. Frame(u, d, b) /\ Counted(u, d, b) /\ Keeps(u, d, b) /\ SameContent(u, d) /\ d \in MachineZ
    BY <2>2, BitOnly DEF Frame
  <2>4. /\ d.buf[b].host
        /\ d.buf[b].host_dirty = u.buf[b].host_dirty
        /\ d.buf[b].device_dirty = u.buf[b].device_dirty
    BY <2>2, SetFields
  <2>. HIDE DEF d
  <2>5. Mallocs(d, q, b, i)
    BY <2>3, MallocEffect
  <2>6. Frame(d, q.m, b) /\ Counted(d, q.m, b) /\ SameBits(d, q.m, b) /\ SameContent(d, q.m)
    BY <2>5 DEF Mallocs
  <2>7. Frame(u, q.m, b) /\ Counted(u, q.m, b) /\ q.m \in MachineZ
    BY <2>3, <2>6, Compose DEF Frame
  <2>8. Keeps(u, q.m, b) \/ Gains(u, q.m, b, i)
    BY <2>3, <2>5 DEF Mallocs, Keeps, Gains
  <2>9. CASE q.err = Success /\ k = q
    BY <2>3, <2>4, <2>5, <2>6, <2>7, <2>8, <2>9 DEF Mallocs, MallocsBoth, SameBits, SameContent
  <2>10. CASE q.err # Success /\ k = Err(HostFreed(q.m, b))
    <3>. DEFINE f == HostFreed(q.m, b)
    <3>1. /\ Frame(q.m, f, b) /\ Counted(q.m, f, b) /\ Keeps(q.m, f, b)
          /\ f.lost = q.m.lost /\ f.fresh[b] = q.m.fresh[b] \ {Host}
          /\ f.buf[b].host_dirty = q.m.buf[b].host_dirty
          /\ f.buf[b].device_dirty = q.m.buf[b].device_dirty
      BY <2>7, HostFreedFields
    <3>2. k.m = f /\ k.err = Failed
      BY <2>10 DEF Err
    <3>. HIDE DEF f
    <3>3. Frame(u, f, b) /\ Counted(u, f, b)
      BY <2>7, <3>1, Compose
    <3>4. Keeps(u, f, b) \/ Gains(u, f, b, i)
      BY <2>8, <3>1 DEF Keeps, Gains
    <3>5. f.fresh[b] \subseteq u.fresh[b] /\ f.lost = u.lost
      BY <2>3, <2>6, <3>1 DEF SameContent
    <3>. QED
      BY <2>4, <2>6, <3>1, <3>2, <3>3, <3>4, <3>5 DEF MallocsBoth, SameBits, Success, Failed
  <2>. QED
    BY <2>1, <2>9, <2>10
<1>3. k = Err(u) \/ \E q \in halide_device_malloc(d, b, i) :
                      k = IF q.err = Success THEN q ELSE Err(HostFreed(q.m, b))
  BY DEF halide_default_device_and_host_malloc, Raised, SetBit
<1>. QED
  BY <1>1, <1>2, <1>3

\* halide_device_and_host_malloc.
LEMMA BothMallocEffect ==
  ASSUME NEW m \in MachineZ, NEW b \in Buffer, NEW i \in Interface,
         NEW r \in halide_device_and_host_malloc(m, b, i)
  PROVE  MallocsBoth(m, r, b, i)
<1>. DEFINE u == Use(m, i)
<1>1. CASE r = Err(m) \/ r = [m |-> m, err |-> Incompatible]
  BY <1>1, Unchanged DEF MallocsBoth, Err, SameBits, SameContent, Success, Incompatible, Failed
<1>2. CASE \E k \in halide_default_device_and_host_malloc(u, b, i) :
             r.m = Release(k.m, i) /\ r.err = k.err
  <2>1. PICK k \in halide_default_device_and_host_malloc(u, b, i) :
             r.m = Release(k.m, i) /\ r.err = k.err
    BY <1>2
  <2>2. u \in MachineZ /\ u.buf = m.buf /\ u.live = m.live /\ u.fresh = m.fresh /\ u.lost = m.lost
    BY UseFields
  <2>. HIDE DEF u
  <2>3. MallocsBoth(u, k, b, i)
    BY <2>2, DefaultMallocEffect
  <2>4. Frame(u, k.m, b) /\ Counted(u, k.m, b)
    BY <2>3 DEF MallocsBoth
  <2>5. /\ Frame(m, r.m, b) /\ Counted(m, r.m, b)
        /\ r.m.buf = k.m.buf /\ r.m.live = k.m.live /\ SameContent(k.m, r.m)
    BY <2>1, <2>4, Bracket DEF u
  <2>6. Keeps(m, r.m, b) \/ Gains(m, r.m, b, i)
    BY <2>2, <2>3, <2>5 DEF MallocsBoth, Keeps, Gains
  <2>. QED
    BY <2>1, <2>2, <2>3, <2>5, <2>6 DEF MallocsBoth, SameContent
<1>. QED
  BY <1>1, <1>2, BothMallocCases

\* The outcomes of halide_device_and_host_free.
LEMMA BothFreeCases ==
  ASSUME NEW m \in MachineZ, NEW b \in Buffer, NEW r \in halide_device_and_host_free(m, b)
  PROVE  LET i == m.buf[b].device_interface
         IN  /\ ~Valid(m, b) => r = Err(m)
             /\ Valid(m, b) /\ i = NULL => r = Ok(Cleared(HostFreed(m, b), b, "device_dirty"))
             /\ Valid(m, b) /\ i # NULL =>
                  \E q \in halide_device_free(Use(m, i), b) :
                    /\ r.m = Release(Cleared(Cleared(HostFreed(q.m, b), b, "host_dirty"), b, "device_dirty"), i)
                    /\ r.err = q.err
<1>1. ~Valid(m, b) => r = Err(m)
  BY DEF halide_device_and_host_free, Then, Checked, Err, Success, Failed, SetBit
<1>2. ASSUME Valid(m, b), m.buf[b].device_interface = NULL
      PROVE  r = Ok(SetBit(HostFreed(m, b), b, "device_dirty", FALSE))
  BY <1>2 DEF halide_device_and_host_free, Then, Checked, Ok, SetBit
<1>3. ASSUME Valid(m, b), m.buf[b].device_interface # NULL
      PROVE  \E q \in halide_device_free(Use(m, m.buf[b].device_interface), b) :
               /\ r.m = Release(BothFreed(q.m, b), m.buf[b].device_interface)
               /\ r.err = q.err
  BY <1>3 DEF halide_device_and_host_free, halide_default_device_and_host_free, Then, Checked, Ok,
              Guarded, Finally, SetBit
<1>. QED
  BY <1>1, <1>2, <1>3 DEF Cleared, BothFreed, SetBit

\* A buffer that is valid loses both memories and is clean on the device.
FreesBoth(m, r, b) ==
  /\ Frame(m, r.m, b) /\ Counted(m, r.m, b) /\ r.m.lost = m.lost
  /\ r.m.fresh[b] \subseteq m.fresh[b]
  /\ r.m.buf[b].host_dirty => m.buf[b].host_dirty
  /\ \/ /\ ~Valid(m, b) /\ r.err = Failed
        /\ Keeps(m, r.m, b) /\ SameBits(m, r.m, b)
     \/ /\ Valid(m, b) /\ r.err \in {Success, Failed}
        /\ ~r.m.buf[b].host /\ ~r.m.buf[b].device_dirty
        /\ Loses(m, r.m, b) \/ (m.buf[b].device_interface = NULL /\ Keeps(m, r.m, b))

\* A bit of b is cleared.
LEMMA ClearedAfter ==
  ASSUME NEW m \in MachineZ, NEW b \in Buffer, NEW k, Frame(m, k, b), Counted(m, k, b),
         NEW bit \in Bit, NEW n, n = Cleared(k, b, bit)
  PROVE  /\ Frame(m, n, b) /\ Counted(m, n, b) /\ Keeps(k, n, b) /\ SameContent(k, n)
         /\ n.buf[b].host => k.buf[b].host
         /\ n.buf[b].host_dirty => k.buf[b].host_dirty
         /\ n.buf[b].device_dirty => k.buf[b].device_dirty
         /\ bit = "device_dirty" => ~n.buf[b].device_dirty
<1>1. k \in MachineZ
  BY DEF Frame
<1>2. Frame(k, n, b) /\ Counted(k, n, b) /\ Keeps(k, n, b) /\ SameContent(k, n)
  BY <1>1, BitOnly
<1>3. Frame(m, n, b) /\ Counted(m, n, b)
  BY <1>2, Compose
<1>4. /\ n.buf[b].host => k.buf[b].host
      /\ n.buf[b].host_dirty => k.buf[b].host_dirty
      /\ n.buf[b].device_dirty => k.buf[b].device_dirty
      /\ bit = "device_dirty" => ~n.buf[b].device_dirty
  BY <1>1, ClearFields
<1>. QED
  BY <1>2, <1>3, <1>4

\* halide_device_and_host_free.
LEMMA BothFreeEffect ==
  ASSUME NEW m \in MachineZ, NEW b \in Buffer, NEW r \in halide_device_and_host_free(m, b)
  PROVE  FreesBoth(m, r, b)
<1>. DEFINE i == m.buf[b].device_interface
            u == Use(m, i)
<1>0. "host_dirty" \in Bit /\ "device_dirty" \in Bit
  BY DEF Bit
<1>1. CASE ~Valid(m, b) /\ r = Err(m)
  BY <1>1, Unchanged DEF FreesBoth, Err, SameContent
<1>2. CASE Valid(m, b) /\ i = NULL /\ r = Ok(Cleared(HostFreed(m, b), b, "device_dirty"))
  <2>. DEFINE f == HostFreed(m, b)
              n == Cleared(f, b, "device_dirty")
  <2>1. /\ Frame(m, f, b) /\ Counted(m, f, b) /\ Keeps(m, f, b)
        /\ f.lost = m.lost /\ f.fresh[b] = m.fresh[b] \ {Host}
        /\ ~f.buf[b].host /\ f.buf[b].host_dirty = m.buf[b].host_dirty
    BY HostFreedFields
  <2>2. r.m = n /\ r.err = Success
    BY <1>2 DEF Ok
  <2>. HIDE DEF f
  <2>3. /\ Frame(m, n, b) /\ Counted(m, n, b) /\ Keeps(f, n, b) /\ SameContent(f, n)
        /\ n.buf[b].host => f.buf[b].host
        /\ n.buf[b].host_dirty => f.buf[b].host_dirty
        /\ ~n.buf[b].device_dirty
    BY <1>0, <2>1, ClearedAfter
  <2>. HIDE DEF n
  <2>4. Keeps(m, n, b)
    BY <2>1, <2>3 DEF Keeps
  <2>. QED
    BY <1>2, <2>1, <2>2, <2>3, <2>4 DEF FreesBoth, SameContent
<1>3. CASE /\ Valid(m, b) /\ i # NULL
           /\ \E q \in halide_device_free(u, b) :
                /\ r.m = Release(Cleared(Cleared(HostFreed(q.m, b), b, "host_dirty"), b, "device_dirty"), i)
                /\ r.err = q.err
  <2>1. PICK q \in halide_device_free(u, b) :
                /\ r.m = Release(Cleared(Cleared(HostFreed(q.m, b), b, "host_dirty"), b, "device_dirty"), i)
                /\ r.err = q.err
    BY <1>3
  <2>. DEFINE f == HostFreed(q.m, b)
              g == Cleared(f, b, "host_dirty")
              k == Cleared(g, b, "device_dirty")
  <2>2. i \in Interface
    BY <1>3 DEF MachineZ, BufferT
  <2>3. u \in MachineZ /\ u.buf = m.buf /\ u.live = m.live /\ u.fresh = m.fresh /\ u.lost = m.lost
    BY <2>2, UseFields
  <2>. HIDE DEF u
  <2>4. Frees(u, q, b)
    BY <2>3, FreeEffect
  <2>5. Valid(u, b) /\ u.buf[b].device_interface # NULL
    BY <1>3, <2>3 DEF Valid
  <2>6. /\ Frame(u, q.m, b) /\ Counted(u, q.m, b) /\ Loses(u, q.m, b) /\ q.m \in MachineZ
        /\ q.m.fresh[b] = u.fresh[b] \ {Device} /\ q.m.lost = u.lost
        /\ q.m.buf[b].host_dirty = u.buf[b].host_dirty /\ q.err \in {Success, Failed}
    BY <2>4, <2>5 DEF Frees, Frame
  <2>7. /\ Frame(q.m, f, b) /\ Counted(q.m, f, b) /\ Keeps(q.m, f, b)
        /\ f.lost = q.m.lost /\ f.fresh[b] = q.m.fresh[b] \ {Host}
        /\ ~f.buf[b].host /\ f.buf[b].host_dirty = q.m.buf[b].host_dirty
    BY <2>6, HostFreedFields
  <2>8. r.m = Release(k, i)
    BY <2>1
  <2>. HIDE DEF f
  <2>9. Frame(u, f, b) /\ Counted(u, f, b)
    BY <2>3, <2>6, <2>7, Compose
  <2>10. /\ Frame(u, g, b) /\ Counted(u, g, b) /\ Keeps(f, g, b) /\ SameContent(f, g)
         /\ g.buf[b].host => f.buf[b].host
         /\ g.buf[b].host_dirty => f.buf[b].host_dirty
    BY <1>0, <2>3, <2>9, ClearedAfter
  <2>. HIDE DEF g
  <2>11. /\ Frame(u, k, b) /\ Counted(u, k, b) /\ Keeps(g, k, b) /\ SameContent(g, k)
         /\ k.buf[b].host => g.buf[b].host
         /\ k.buf[b].host_dirty => g.buf[b].host_dirty
         /\ ~k.buf[b].device_dirty
    BY <1>0, <2>3, <2>10, ClearedAfter
  <2>. HIDE DEF k
  <2>12. /\ Frame(m, r.m, b) /\ Counted(m, r.m, b)
         /\ r.m.buf = k.buf /\ r.m.live = k.live /\ SameContent(k, r.m)
    BY <2>2, <2>8, <2>11, Bracket DEF u
  <2>13. Loses(m, r.m, b)
    BY <2>3, <2>6, <2>7, <2>10, <2>11, <2>12 DEF Loses, Keeps
  <2>14. r.m.lost = m.lost /\ r.m.fresh[b] \subseteq m.fresh[b]
    BY <2>3, <2>6, <2>7, <2>10, <2>11, <2>12 DEF SameContent
  <2>. QED
    BY <1>3, <2>1, <2>3, <2>6, <2>7, <2>10, <2>11, <2>12, <2>13, <2>14 DEF FreesBoth
<1>. QED
  BY <1>1, <1>2, <1>3, BothFreeCases DEF u

-----------------------------------------------------------------------------
(***************************************************************************)
(* Native handles and views.                                               *)
(***************************************************************************)
\* Buffer b comes to hold memory that is not allocated for it.
Takes(m, n, b, h, i) ==
  /\ Frame(m, n, b) /\ Counted(m, n, b) /\ SameBits(m, n, b) /\ SameContent(m, n)
  /\ n.live = m.live /\ n.buf[b].device = h /\ n.buf[b].device_interface = i

\* A reference is taken for memory that the buffer did not allocate.
LEMMA SharedFields ==
  ASSUME NEW m \in MachineZ, NEW b \in Buffer, NEW i \in Interface, m.buf[b].device_interface = NULL,
         NEW h \in Handle \union Native, NEW u, u = Use(m, i), NEW n,
         n = SetDevice(u, b, h, i) \/ n = Use(SetDevice(m, b, h, i), i)
  PROVE  Takes(m, n, b, h, i)
<1>. DEFINE d == SetDevice(m, b, h, i)
            e == SetDevice(u, b, h, i)
            v == Use(d, i)
<1>1. h \in Handle \union Native \union {NULL} /\ i \in Interface \union {NULL}
  OBVIOUS
<1>2. /\ u \in MachineZ
      /\ u.buf = m.buf /\ u.live = m.live /\ u.fresh = m.fresh /\ u.lost = m.lost
      /\ \A j \in Interface : u.refs[j] = m.refs[j] + IF i = j THEN 1 ELSE 0
  BY UseFields
<1>3. /\ Only(m, d, b)
      /\ d.live = m.live /\ d.refs = m.refs /\ d.fresh = m.fresh /\ d.lost = m.lost
      /\ d.buf[b].device = h /\ d.buf[b].device_interface = i
      /\ SameBits(m, d, b) /\ d \in MachineZ
  BY <1>1, SetDeviceFields DEF SameBits, Only
<1>4. /\ Only(u, e, b)
      /\ e.live = u.live /\ e.refs = u.refs /\ e.fresh = u.fresh /\ e.lost = u.lost
      /\ e.buf[b].device = h /\ e.buf[b].device_interface = i
      /\ SameBits(u, e, b) /\ e \in MachineZ
  BY <1>1, <1>2, SetDeviceFields DEF SameBits, Only
<1>. HIDE DEF d, e
<1>5. /\ v \in MachineZ
      /\ v.buf = d.buf /\ v.live = d.live /\ v.fresh = d.fresh /\ v.lost = d.lost
      /\ \A j \in Interface : v.refs[j] = d.refs[j] + IF i = j THEN 1 ELSE 0
  BY <1>3, UseFields
<1>6. n = e \/ n = v
  BY DEF d, e
<1>. HIDE DEF v
<1>7. /\ n \in MachineZ /\ n.live = m.live /\ SameContent(m, n)
      /\ \A c \in Buffer : c # b => n.buf[c] = m.buf[c]
      /\ SameBits(m, n, b) /\ n.buf[b].device = h /\ n.buf[b].device_interface = i
      /\ \A j \in Interface : n.refs[j] = m.refs[j] + IF i = j THEN 1 ELSE 0
  BY <1>2, <1>3, <1>4, <1>5, <1>6 DEF Only, SameContent, SameBits
<1>8. \A j \in Interface : /\ m.refs[j] \in Int
                           /\ Holding(m, b, j) = 0
                           /\ Holding(n, b, j) = IF i = j THEN 1 ELSE 0
  BY <1>7, InterfaceAssumption DEF MachineZ, Holding
<1>9. Counted(m, n, b)
  BY <1>7, <1>8 DEF Counted
<1>. QED
  BY <1>7, <1>9 DEF Takes, Frame, SameContent

\* Where a driver sets the interface itself, wrap_native does not validate it.
LEMMA WrapEffect ==
  ASSUME DefaultWrap = {},
         NEW m \in MachineZ, NEW b \in Buffer, NEW h \in Native, NEW i \in Interface,
         NEW r \in halide_device_wrap_native(m, b, h, i)
  PROVE  \/ r.m = m /\ r.err # Success
         \/ r.err = Success /\ Valid(m, b) /\ m.buf[b].device = NULL /\ Takes(m, r.m, b, h, i)
<1>1. ASSUME ~Valid(m, b)
      PROVE  r = Err(m)
  BY <1>1 DEF halide_device_wrap_native, Then, Checked, Err, Success, Failed
<1>2. ASSUME Valid(m, b), ~CanUse(m, b, i)
      PROVE  r = [m |-> m, err |-> Incompatible]
  BY <1>2 DEF halide_device_wrap_native, Then, Checked, Ok, Success
<1>3. ASSUME Valid(m, b), CanUse(m, b, i)
      PROVE  r = Ok(Use(SetDevice(m, b, h, i), i)) /\ m.buf[b].device = NULL
  BY <1>3 DEF halide_device_wrap_native, Then, Checked, Ok
<1>4. CASE Valid(m, b) /\ CanUse(m, b, i)
  <2>1. m.buf[b].device = NULL /\ m.buf[b].device_interface = NULL
    BY <1>3, <1>4 DEF Valid
  <2>2. r.m = Use(SetDevice(m, b, h, i), i) /\ r.err = Success
    BY <1>3, <1>4 DEF Ok
  <2>3. Takes(m, r.m, b, h, i)
    BY <2>1, <2>2, SharedFields
  <2>. QED
    BY <1>4, <2>1, <2>2, <2>3
<1>. QED
  BY <1>1, <1>2, <1>4 DEF Err, Success, Failed, Incompatible

\* halide_device_detach_native: the memory stays, and the reference is dropped.
LEMMA DetachEffect ==
  ASSUME NEW m \in MachineZ, NEW b \in Buffer, NEW r \in halide_device_detach_native(m, b)
  PROVE  \/ /\ r.m = m
            /\ Valid(m, b) => m.buf[b].device = NULL
         \/ /\ Valid(m, b)
            /\ Frame(m, r.m, b) /\ Counted(m, r.m, b) /\ SameBits(m, r.m, b)
            /\ r.m.lost = m.lost /\ r.m.fresh[b] = m.fresh[b] \ {Device}
            /\ r.m.live = m.live /\ r.m.buf[b].device = NULL /\ r.m.buf[b].device_interface = NULL
<1>1. ASSUME ~Valid(m, b)
      PROVE  r = Err(m)
  BY <1>1 DEF halide_device_detach_native, Then, Checked, Err, Success, Failed
<1>2. ASSUME Valid(m, b), m.buf[b].device_interface = NULL
      PROVE  r = Ok(m)
  BY <1>2 DEF halide_device_detach_native, Then, Checked, Ok
<1>3. ASSUME Valid(m, b), m.buf[b].device_interface # NULL
      PROVE  r = Ok(Release(Without(SetDevice(m, b, NULL, NULL), b, Device), m.buf[b].device_interface))
  BY <1>3 DEF halide_device_detach_native, Then, Checked, Ok
<1>4. CASE Valid(m, b) /\ m.buf[b].device_interface # NULL
  <2>1. m.buf[b].device_interface \in Interface
    BY <1>4 DEF MachineZ, BufferT
  <2>2. r.m = Release(Without(SetDevice(m, b, NULL, NULL), b, Device), m.buf[b].device_interface)
    BY <1>3, <1>4 DEF Ok
  <2>. QED
    BY <1>4, <2>1, <2>2, ForgottenFields
<1>. QED
  BY <1>1, <1>2, <1>4 DEF Ok, Err, Valid

\* A crop that fails may leave a reference too many to the source's module.
LEMMA CropEffect ==
  ASSUME NEW m \in MachineZ, NEW src \in Buffer, NEW dst \in Buffer,
         m.buf[src].device # NULL, m.buf[src].device_interface \in Interface,
         m.buf[dst].device = NULL, m.buf[dst].device_interface = NULL,
         NEW r \in halide_device_crop(m, src, dst)
  PROVE  LET i == m.buf[src].device_interface
         IN  \/ /\ r.err = Success
                /\ Takes(m, r.m, dst, m.buf[src].device, i)
             \/ /\ r.err = Failed /\ i \in CropMayFail
                /\ r.m.refs = Use(m, i).refs
<1>. DEFINE i == m.buf[src].device_interface
            u == Use(m, i)
<1>1. r \in DriverCrop(u, src, dst)
  BY DEF halide_device_crop
<1>2. u \in MachineZ /\ u.buf = m.buf
  BY UseFields
<1>3. \/ r = Ok(SetDevice(u, dst, m.buf[src].device, i))
      \/ i \in CropMayFail /\ (r = Err(u) \/ r = Err(SetDevice(u, dst, NULL, i)))
  BY <1>1, <1>2 DEF DriverCrop
<1>4. CASE r = Ok(SetDevice(u, dst, m.buf[src].device, i))
  <2>1. m.buf[src].device \in Handle \union Native
    BY DEF MachineZ, BufferT
  <2>2. r.m = SetDevice(u, dst, m.buf[src].device, i) /\ r.err = Success
    BY <1>4 DEF Ok
  <2>3. Takes(m, r.m, dst, m.buf[src].device, i)
    BY <2>1, <2>2, SharedFields
  <2>. QED
    BY <2>2, <2>3
<1>5. CASE i \in CropMayFail /\ (r = Err(u) \/ r = Err(SetDevice(u, dst, NULL, i)))
  <2>. DEFINE d == SetDevice(u, dst, NULL, i)
  <2>1. d.refs = u.refs
    BY <1>2, SetDeviceFields
  <2>2. r.err = Failed /\ (r.m = u \/ r.m = d)
    BY <1>5 DEF Err
  <2>. QED
    BY <1>5, <2>1, <2>2
<1>. QED
  BY <1>3, <1>4, <1>5

\* halide_device_release_crop drops the reference of the view, even if it fails.
LEMMA ReleaseCropEffect ==
  ASSUME NEW m \in MachineZ, NEW b \in Buffer, m.buf[b].device # NULL,
         m.buf[b].device_interface \in Interface, NEW r \in halide_device_release_crop(m, b)
  PROVE  /\ Frame(m, r.m, b) /\ Counted(m, r.m, b) /\ SameBits(m, r.m, b) /\ SameContent(m, r.m)
         /\ r.m.live = m.live /\ r.m.buf[b].device = NULL /\ r.m.buf[b].device_interface = NULL
<1>1. r.m = Release(SetDevice(m, b, NULL, NULL), m.buf[b].device_interface)
  BY DEF halide_device_release_crop, Ok, Err
<1>. QED
  BY <1>1, DroppedFields

-----------------------------------------------------------------------------
(***************************************************************************)
(* What the memories hold.                                                 *)
(***************************************************************************)
\* Everything but what the memories hold is as it was.
Inert(m, n) ==
  n \in MachineZ /\ n.buf = m.buf /\ n.live = m.live /\ n.refs = m.refs

\* Memories of b hold its content as f says, the buffers in l have none.
Rewritten(m, n, b, f, l) ==
  /\ Inert(m, n) /\ n.fresh[b] = f /\ n.lost = l
  /\ \A c \in Buffer : c # b => n.fresh[c] = m.fresh[c]

\* Content arrives or is lost, and nothing else changes.
LEMMA ContentFields ==
  ASSUME NEW m \in MachineZ, NEW b \in Buffer, NEW f \in SUBSET {Host, Device},
         NEW l \in SUBSET Buffer
  PROVE  Rewritten(m, [m EXCEPT !.fresh[b] = f, !.lost = l], b, f, l)
<1>. DEFINE k == [m EXCEPT !.fresh[b] = f]
            j == [k EXCEPT !.lost = l]
            n == [m EXCEPT !.fresh[b] = f, !.lost = l]
<1>1. /\ k \in MachineZ /\ k.buf = m.buf /\ k.live = m.live /\ k.refs = m.refs
      /\ k.fresh[b] = f /\ \A c \in Buffer : c # b => k.fresh[c] = m.fresh[c]
  BY DEF MachineZ
<1>2. n = j
  BY DEF MachineZ
<1>. HIDE DEF k, n
<1>3. /\ j \in MachineZ /\ j.buf = k.buf /\ j.live = k.live /\ j.refs = k.refs
      /\ j.fresh = k.fresh /\ j.lost = l
  BY <1>1 DEF MachineZ
<1>. HIDE DEF j
<1>4. Rewritten(m, n, b, f, l)
  BY <1>1, <1>2, <1>3 DEF Rewritten, Inert
<1>. QED
  BY <1>4 DEF n

\* n is m after data from memory 'from' of src reached memory 'to' of dst.
Arrived(m, n, src, from, dst, to) ==
  /\ Inert(m, n)
  /\ \A c \in Buffer : c # dst => n.fresh[c] = m.fresh[c] /\ (c \in n.lost <=> c \in m.lost)
  /\ src = dst => /\ n.lost = m.lost
                  /\ n.fresh[dst] = (m.fresh[dst] \ {to}) \union (IF from \in m.fresh[src] THEN {to} ELSE {})
  /\ src # dst => /\ n.fresh[dst] = IF from \in m.fresh[src] THEN {to} ELSE {}
                  /\ dst \in n.lost <=> src \in m.lost

\* What a copy that succeeds does to content.
LEMMA ArrivesFields ==
  ASSUME NEW m \in MachineZ, NEW src \in Buffer, NEW dst \in Buffer,
         NEW from \in {Host, Device}, NEW to \in {Host, Device}
  PROVE  Arrived(m, Arrives(m, src, from, dst, to), src, from, dst, to)
<1>. DEFINE holds == IF from \in m.fresh[src] THEN {to} ELSE {}
            l == IF src \in m.lost THEN m.lost \union {dst} ELSE m.lost \ {dst}
            f == (m.fresh[dst] \ {to}) \union holds
            k == m.lost
            p == [m EXCEPT !.fresh[dst] = f, !.lost = k]
            q == [m EXCEPT !.fresh[dst] = holds, !.lost = l]
            n == Arrives(m, src, from, dst, to)
<1>1. /\ holds \in SUBSET {Host, Device} /\ f \in SUBSET {Host, Device}
      /\ l \in SUBSET Buffer /\ k \in SUBSET Buffer
  BY DEF MachineZ
<1>2. ASSUME src = dst
      PROVE  n = p
  <2>1. n = [m EXCEPT !.fresh[dst] = f]
    BY <1>2 DEF Arrives
  <2>. HIDE DEF f, n
  <2>. QED
    BY <2>1 DEF MachineZ
<1>3. ASSUME src # dst
      PROVE  n = q
  BY <1>3 DEF Arrives
<1>4. Rewritten(m, p, dst, f, k)
  <2>. HIDE DEF f, k
  <2>. QED
    BY <1>1, ContentFields
<1>5. Rewritten(m, q, dst, holds, l)
  <2>. HIDE DEF holds, l
  <2>. QED
    BY <1>1, ContentFields
<1>. HIDE DEF p, q, n
<1>6. CASE src = dst
  BY <1>2, <1>4, <1>6 DEF Rewritten, Arrived, n
<1>7. CASE src # dst
  BY <1>3, <1>5, <1>7 DEF Rewritten, Arrived, n
<1>. QED
  BY <1>6, <1>7

\* n is m after a copy to memory 'to' of dst that was given up half way.
Spoiled(m, n, src, dst, to) ==
  /\ Inert(m, n)
  /\ \A c \in Buffer : c # dst => n.fresh[c] = m.fresh[c] /\ (c \in n.lost <=> c \in m.lost)
  /\ src = dst => n.fresh[dst] = m.fresh[dst] \ {to} /\ n.lost = m.lost

\* What a copy that fails halfway does to content.
LEMMA GarbledFields ==
  ASSUME NEW m \in MachineZ, NEW src \in Buffer, NEW dst \in Buffer, NEW to \in {Host, Device}
  PROVE  Spoiled(m, Garbled(m, src, dst, to), src, dst, to)
<1>. DEFINE f == m.fresh[dst] \ {to}
            e == {}
            k == m.lost
            l == m.lost \union {dst}
            p == [m EXCEPT !.fresh[dst] = f, !.lost = k]
            q == [m EXCEPT !.fresh[dst] = e, !.lost = l]
            n == Garbled(m, src, dst, to)
<1>1. /\ f \in SUBSET {Host, Device} /\ e \in SUBSET {Host, Device}
      /\ k \in SUBSET Buffer /\ l \in SUBSET Buffer
  BY DEF MachineZ
<1>2. ASSUME src = dst
      PROVE  n = p
  <2>1. n = [m EXCEPT !.fresh[dst] = f]
    BY <1>2 DEF Garbled, Without
  <2>. HIDE DEF f, n
  <2>. QED
    BY <2>1 DEF MachineZ
<1>3. ASSUME src # dst
      PROVE  n = q
  BY <1>3 DEF Garbled
<1>4. Rewritten(m, p, dst, f, k)
  <2>. HIDE DEF f, k
  <2>. QED
    BY <1>1, ContentFields
<1>5. Rewritten(m, q, dst, e, l)
  <2>. HIDE DEF e, l
  <2>. QED
    BY <1>1, ContentFields
<1>. HIDE DEF p, q, n
<1>6. CASE src = dst
  BY <1>2, <1>4, <1>6 DEF Rewritten, Spoiled, n
<1>7. CASE src # dst
  BY <1>3, <1>5, <1>7 DEF Rewritten, Spoiled, n
<1>. QED
  BY <1>6, <1>7

\* A driver that can read the source copies, or fails half way.
DriverCopies(m, r, i, src, to, dst) ==
  /\ Inert(m, r.m)
  /\ \A c \in Buffer : c # dst => r.m.fresh[c] = m.fresh[c] /\ (c \in r.m.lost <=> c \in m.lost)
  /\ src = dst => r.m.lost = m.lost /\ m.fresh[dst] \ {to} \subseteq r.m.fresh[dst]
  /\ r.err \in {Success, Incompatible, Failed}
  /\ r.err = Incompatible => /\ r.m = m
                             /\ to = Device /\ m.buf[src].device_interface # i
                             /\ m.buf[src].device_dirty \/ ~m.buf[src].host
  /\ r.err = Success => /\ Arrived(m, r.m, src, From(m, i, src), dst, to)
                        /\ \/ m.buf[src].device_interface = i
                           \/ ~m.buf[src].device_dirty /\ m.buf[src].host
                        /\ From(m, i, src) = Device => m.buf[src].device # NULL
  /\ src = dst /\ r.err # Success => r.m.fresh[dst] \subseteq m.fresh[dst]

\* A copy of a driver changes nothing but content.
LEMMA DriverCopyEffect ==
  ASSUME NEW m \in MachineZ, NEW i \in Interface, NEW src \in Buffer, NEW to \in {Host, Device},
         NEW dst \in Buffer, NEW r \in DriverCopy(m, i, src, to, dst)
  PROVE  DriverCopies(m, r, i, src, to, dst)
<1>. DEFINE a == Arrives(m, src, From(m, i, src), dst, to)
            g == Garbled(m, src, dst, to)
            declined == (m.buf[src].device_dirty \/ ~m.buf[src].host) /\ m.buf[src].device_interface # i
<1>1. From(m, i, src) \in {Host, Device}
  BY DEF From
<1>2. ASSUME declined
      PROVE  to = Device /\ r = [m |-> m, err |-> Incompatible]
  BY <1>2 DEF DriverCopy
<1>3. ASSUME ~declined
      PROVE  /\ From(m, i, src) = Device => m.buf[src].device # NULL
             /\ r \in {Ok(a), Err(g), Err(m)}
  BY <1>3 DEF DriverCopy
<1>4. CASE declined
  <2>1. r.m = m /\ r.err = Incompatible
    BY <1>2, <1>4
  <2>. QED
    BY <1>2, <1>4, <2>1 DEF DriverCopies, Inert, Success, Incompatible, Failed
<1>5. CASE ~declined /\ r = Ok(a)
  <2>1. Arrived(m, a, src, From(m, i, src), dst, to)
    BY <1>1, ArrivesFields
  <2>2. r.m = a /\ r.err = Success
    BY <1>5 DEF Ok
  <2>. HIDE DEF a
  <2>3. m.buf[src].device_interface = i \/ (~m.buf[src].device_dirty /\ m.buf[src].host)
    BY <1>5
  <2>4. /\ Inert(m, r.m)
        /\ \A c \in Buffer : c # dst => r.m.fresh[c] = m.fresh[c] /\ (c \in r.m.lost <=> c \in m.lost)
    BY <2>1, <2>2 DEF Arrived
  <2>5. src = dst => r.m.lost = m.lost /\ m.fresh[dst] \ {to} \subseteq r.m.fresh[dst]
    BY <2>1, <2>2 DEF Arrived
  <2>. QED
    BY <1>3, <1>5, <2>1, <2>2, <2>3, <2>4, <2>5 DEF DriverCopies, Success, Incompatible, Failed
<1>6. CASE r = Err(g)
  <2>1. Spoiled(m, g, src, dst, to)
    BY GarbledFields
  <2>2. r.m = g /\ r.err = Failed
    BY <1>6 DEF Err
  <2>. HIDE DEF g
  <2>. QED
    BY <2>1, <2>2 DEF Spoiled, DriverCopies, Success, Incompatible, Failed
<1>7. CASE r = Err(m)
  <2>1. r.m = m /\ r.err = Failed
    BY <1>7 DEF Err
  <2>. QED
    BY <2>1 DEF DriverCopies, Inert, Success, Incompatible, Failed
<1>. QED
  BY <1>3, <1>4, <1>5, <1>6, <1>7

\* A buffer with content: the dirty bits tell where the newest is, and clean
\* memories hold the same.
Truthful(m, b) ==
  b \notin m.lost =>
    /\ ~(m.buf[b].host_dirty /\ m.buf[b].device_dirty)
    /\ m.buf[b].device_dirty => Device \in m.fresh[b]
    /\ m.buf[b].host /\ ~m.buf[b].device_dirty => Host \in m.fresh[b]
    /\ ~m.buf[b].host => m.buf[b].device_dirty
    /\ m.buf[b].device # NULL /\ ~m.buf[b].host_dirty => Device \in m.fresh[b]
    /\ Device \in m.fresh[b] => m.buf[b].device # NULL

\* The outcomes of copy_to_host_already_locked.
LEMMA CopyToHostCases ==
  ASSUME NEW m \in MachineZ, NEW b \in Buffer, NEW r \in copy_to_host_already_locked(m, b)
  PROVE  \/ ~m.buf[b].device_dirty /\ r = Ok(m)
         \/ r = Err(m)
         \/ /\ m.buf[b].device_dirty /\ ~m.buf[b].host_dirty /\ m.buf[b].device_interface # NULL
            /\ \E q \in DriverCopy(m, m.buf[b].device_interface, b, Host, b) :
                 r = IF q.err = Success THEN Ok(Cleared(q.m, b, "device_dirty")) ELSE Err(q.m)
<1>1. ASSUME ~m.buf[b].device_dirty
      PROVE  r = Ok(m)
  BY <1>1 DEF copy_to_host_already_locked
<1>2. ASSUME m.buf[b].device_dirty, m.buf[b].host_dirty \/ m.buf[b].device_interface = NULL
      PROVE  r = Err(m)
  BY <1>2 DEF copy_to_host_already_locked
<1>3. ASSUME m.buf[b].device_dirty, ~(m.buf[b].host_dirty \/ m.buf[b].device_interface = NULL)
      PROVE  \E q \in DriverCopy(m, m.buf[b].device_interface, b, Host, b) :
               r = IF q.err = Success THEN Ok(SetBit(q.m, b, "device_dirty", FALSE)) ELSE Err(q.m)
  BY <1>3 DEF copy_to_host_already_locked, ClearedOnSuccess, SetBit
<1>. QED
  BY <1>1, <1>2, <1>3 DEF Cleared

\* A copy inside buffer b: its content does not change, only where it is.
Transfers(m, n, b) ==
  /\ Frame(m, n, b) /\ Counted(m, n, b)
  /\ n.lost = m.lost /\ n.buf[b].host = m.buf[b].host

\* A driver's copy after which a bit is cleared, if it succeeded.
LEMMA TransferFields ==
  ASSUME NEW m \in MachineZ, NEW b \in Buffer, NEW i \in Interface, NEW to \in {Host, Device},
         NEW bit \in {"host_dirty", "device_dirty"}, NEW q, DriverCopies(m, q, i, b, to, b)
  PROVE  /\ Transfers(m, q.m, b) /\ Keeps(m, q.m, b) /\ SameBits(m, q.m, b)
         /\ Transfers(m, Cleared(q.m, b, bit), b) /\ Keeps(m, Cleared(q.m, b, bit), b)
         /\ Cleared(q.m, b, bit).fresh = q.m.fresh
<1>. DEFINE n == Cleared(q.m, b, bit)
<1>1. Inert(m, q.m) /\ q.m.lost = m.lost
        /\ \A c \in Buffer : c # b => q.m.fresh[c] = m.fresh[c] /\ (c \in q.m.lost <=> c \in m.lost)
  BY DEF DriverCopies
<1>2. Frame(m, q.m, b) /\ Keeps(m, q.m, b) /\ SameBits(m, q.m, b)
  BY <1>1 DEF Frame, Keeps, SameBits, Inert
<1>3. Counted(m, q.m, b)
  <2>1. \A j \in Interface : m.refs[j] \in Int
    BY DEF MachineZ
  <2>. QED
    BY <1>1, <2>1 DEF Counted, Holding, Inert
<1>4. q.m \in MachineZ /\ bit \in Bit /\ bit # "host"
  BY <1>1 DEF Inert, Bit
<1>5. Frame(q.m, n, b) /\ Counted(q.m, n, b) /\ Keeps(q.m, n, b) /\ SameContent(q.m, n)
  BY <1>4, BitOnly
<1>6. n.buf[b].host = q.m.buf[b].host
  BY <1>4, ClearFields
<1>. HIDE DEF n
<1>7. Frame(m, n, b) /\ Counted(m, n, b)
  BY <1>2, <1>3, <1>5, Compose
<1>8. Transfers(m, n, b) /\ Keeps(m, n, b) /\ n.fresh = q.m.fresh
  BY <1>1, <1>2, <1>5, <1>6, <1>7 DEF Transfers, Keeps, SameBits, SameContent
<1>. QED
  BY <1>1, <1>2, <1>3, <1>8 DEF Transfers, SameBits, n

\* A download: what was truthful stays so, and the host memory of a buffer that
\* has one then holds its content.
Downloads(m, r, b) ==
  /\ Transfers(m, r.m, b) /\ Keeps(m, r.m, b)
  /\ r.m.buf[b].host_dirty = m.buf[b].host_dirty
  /\ r.m.buf[b].device_dirty => m.buf[b].device_dirty
  /\ r.err \in {Success, Failed}
  /\ r.err = Success => ~r.m.buf[b].device_dirty
  /\ Truthful(m, b) /\ m.buf[b].host =>
       /\ Truthful(r.m, b)
       /\ r.err = Success => b \in r.m.lost \/ Host \in r.m.fresh[b]

\* copy_to_host_already_locked clears the dirty bit only if the copy succeeded.
LEMMA CopyToHostEffect ==
  ASSUME NEW m \in MachineZ, NEW b \in Buffer, NEW r \in copy_to_host_already_locked(m, b)
  PROVE  Downloads(m, r, b)
<1>. DEFINE i == m.buf[b].device_interface
<1>1. CASE (~m.buf[b].device_dirty /\ r = Ok(m)) \/ r = Err(m)
  <2>1. Transfers(m, m, b) /\ Keeps(m, m, b)
    BY Unchanged DEF Transfers
  <2>. QED
    BY <1>1, <2>1 DEF Downloads, Truthful, Ok, Err, Success, Failed
<1>2. CASE /\ m.buf[b].device_dirty /\ ~m.buf[b].host_dirty /\ i # NULL
           /\ \E q \in DriverCopy(m, i, b, Host, b) :
                r = IF q.err = Success THEN Ok(Cleared(q.m, b, "device_dirty")) ELSE Err(q.m)
  <2>1. PICK q \in DriverCopy(m, i, b, Host, b) :
               r = IF q.err = Success THEN Ok(Cleared(q.m, b, "device_dirty")) ELSE Err(q.m)
    BY <1>2
  <2>2. i \in Interface
    BY <1>2 DEF MachineZ, BufferT
  <2>3. DriverCopies(m, q, i, b, Host, b)
    BY <2>2, DriverCopyEffect
  <2>. DEFINE n == Cleared(q.m, b, "device_dirty")
  <2>4. /\ Transfers(m, q.m, b) /\ Keeps(m, q.m, b) /\ SameBits(m, q.m, b)
        /\ Transfers(m, n, b) /\ Keeps(m, n, b) /\ n.fresh = q.m.fresh
    BY <2>2, <2>3, TransferFields
  <2>5. n.buf[b].host_dirty = q.m.buf[b].host_dirty /\ ~n.buf[b].device_dirty
    <3>1. q.m \in MachineZ /\ "device_dirty" \in Bit
      BY <2>3 DEF DriverCopies, Inert, Bit
    <3>. QED
      BY <3>1, ClearFields
  <2>6. Device \in m.fresh[b] /\ m.buf[b].device # NULL => From(m, i, b) = Device
    BY <1>2 DEF From
  <2>7. Host # Device
    BY DEF Host, Device
  <2>8. CASE q.err = Success /\ r = Ok(n)
    <3>. HIDE DEF n
    <3>1. r.m = n /\ r.err = Success
      BY <2>8 DEF Ok
    <3>2. Truthful(m, b) /\ b \notin m.lost => Host \in n.fresh[b] /\ Device \in n.fresh[b]
      BY <1>2, <2>3, <2>4, <2>6, <2>7, <2>8 DEF DriverCopies, Arrived, Truthful
    <3>. QED
      BY <1>2, <2>4, <2>5, <3>1, <3>2 DEF Downloads, Truthful, Transfers, Keeps, SameBits
  <2>9. CASE q.err # Success /\ r = Err(q.m)
    <3>1. r.m = q.m /\ r.err = Failed
      BY <2>9 DEF Err
    <3>2. q.m.fresh[b] \subseteq m.fresh[b] /\ m.fresh[b] \ {Host} \subseteq q.m.fresh[b]
      BY <2>3, <2>9 DEF DriverCopies
    <3>. QED
      BY <1>2, <2>4, <2>7, <3>1, <3>2 DEF Downloads, Truthful, Transfers, Keeps, SameBits, Success, Failed
  <2>. QED
    BY <2>1, <2>8, <2>9
<1>. QED
  BY <1>1, <1>2, CopyToHostCases

\* The second half of copy_to_device_already_locked, once there is device memory.
Uploaded(n, r, b, i) ==
  \/ ~n.buf[b].host_dirty /\ r = Ok(n)
  \/ n.buf[b].host_dirty /\ n.buf[b].device_dirty /\ r = Err(n)
  \/ /\ n.buf[b].host_dirty /\ ~n.buf[b].device_dirty
     /\ \E q \in DriverCopy(n, i, b, Device, b) :
          r = IF q.err = Success THEN Ok(Cleared(q.m, b, "host_dirty")) ELSE Err(q.m)

\* The outcomes of copy_to_device_already_locked.
LEMMA CopyToDeviceCases ==
  ASSUME NEW m \in MachineZ, NEW b \in Buffer, NEW want \in Interface \union {NULL},
         NEW r \in copy_to_device_already_locked(m, b, want)
  PROVE  LET i == IF want = NULL THEN m.buf[b].device_interface ELSE want
         IN  \/ r = Err(m) \/ r = [m |-> m, err |-> Incompatible]
             \/ /\ Valid(m, b) /\ i # NULL
                /\ m.buf[b].device # NULL /\ m.buf[b].device_interface = i
                /\ Uploaded(m, r, b, i)
             \/ /\ Valid(m, b) /\ i # NULL /\ m.buf[b].device = NULL
                /\ \E a \in halide_device_malloc(m, b, i) :
                     (a.err # Success /\ r = a) \/ (a.err = Success /\ Uploaded(a.m, r, b, i))
<1>. DEFINE i == IF want = NULL THEN m.buf[b].device_interface ELSE want
            Upload(n) ==
              IF ~n.buf[b].host_dirty THEN {Ok(n)}
              ELSE IF n.buf[b].device_dirty THEN {Err(n)}
              ELSE ClearedOnSuccess(DriverCopy(n, i, b, Device, b), b, "host_dirty")
<1>1. ASSUME NEW n, r \in Upload(n)
      PROVE  Uploaded(n, r, b, i)
  <2>1. CASE ~n.buf[b].host_dirty
    BY <1>1, <2>1 DEF Uploaded
  <2>2. CASE n.buf[b].host_dirty /\ n.buf[b].device_dirty
    BY <1>1, <2>2 DEF Uploaded
  <2>3. CASE n.buf[b].host_dirty /\ ~n.buf[b].device_dirty
    <3>1. r \in ClearedOnSuccess(DriverCopy(n, i, b, Device, b), b, "host_dirty")
      BY <1>1, <2>3
    <3>2. \E q \in DriverCopy(n, i, b, Device, b) :
            r = IF q.err = Success THEN Ok(SetBit(q.m, b, "host_dirty", FALSE)) ELSE Err(q.m)
      <4>. HIDE DEF i
      <4>. QED
        BY <3>1 DEF ClearedOnSuccess, SetBit
    <3>. QED
      BY <2>3, <3>2 DEF Uploaded, Cleared
  <2>. QED
    BY <2>1, <2>2, <2>3
<1>. HIDE DEF Upload
<1>2. ASSUME ~Valid(m, b)
      PROVE  r = Err(m)
  BY <1>2 DEF copy_to_device_already_locked, Then, Checked, Err, Success, Failed, SetBit
<1>3. ASSUME Valid(m, b), i = NULL
      PROVE  r = Err(m)
  BY <1>3 DEF copy_to_device_already_locked, Then, Checked, Ok, SetBit
<1>4. ASSUME Valid(m, b), i # NULL, m.buf[b].device # NULL /\ m.buf[b].device_interface # i
      PROVE  r = [m |-> m, err |-> Incompatible]
  BY <1>4 DEF copy_to_device_already_locked, Then, Checked, Ok, SetBit
<1>5. ASSUME Valid(m, b), i # NULL, m.buf[b].device # NULL, m.buf[b].device_interface = i
      PROVE  r \in Upload(m)
  BY <1>5 DEF copy_to_device_already_locked, Then, Checked, Ok, Upload, SetBit, ClearedOnSuccess
<1>6. ASSUME Valid(m, b), i # NULL, m.buf[b].device = NULL
      PROVE  \E a \in halide_device_malloc(m, b, i) :
               IF a.err = Success THEN r \in Upload(a.m) ELSE r = a
  BY <1>6 DEF copy_to_device_already_locked, Then, Checked, Ok, Upload, SetBit, ClearedOnSuccess
<1>. QED
  BY <1>1, <1>2, <1>3, <1>4, <1>5, <1>6

\* An upload.
Uploads(m, r, b) ==
  /\ Transfers(m, r.m, b) /\ Keeps(m, r.m, b)
  /\ r.m.buf[b].device_dirty = m.buf[b].device_dirty
  /\ r.m.buf[b].host_dirty => m.buf[b].host_dirty
  /\ r.err \in {Success, Failed}
  /\ r.err = Success => ~r.m.buf[b].host_dirty
  /\ Truthful(m, b) =>
       /\ Truthful(r.m, b)
       /\ r.err = Success => b \in r.m.lost \/ Device \in r.m.fresh[b]

\* Once there is device memory: the copy, if the host is dirty.
LEMMA UploadEffect ==
  ASSUME NEW m \in MachineZ, NEW b \in Buffer, NEW i \in Interface,
         m.buf[b].device # NULL, m.buf[b].device_interface = i, NEW r, Uploaded(m, r, b, i)
  PROVE  Uploads(m, r, b)
<1>1. CASE \/ ~m.buf[b].host_dirty /\ r = Ok(m)
           \/ m.buf[b].host_dirty /\ r = Err(m)
  <2>1. Transfers(m, m, b) /\ Keeps(m, m, b)
    BY Unchanged DEF Transfers
  <2>. QED
    BY <1>1, <2>1 DEF Uploads, Truthful, Ok, Err, Success, Failed
<1>2. CASE /\ m.buf[b].host_dirty /\ ~m.buf[b].device_dirty
           /\ \E q \in DriverCopy(m, i, b, Device, b) :
                r = IF q.err = Success THEN Ok(Cleared(q.m, b, "host_dirty")) ELSE Err(q.m)
  <2>1. PICK q \in DriverCopy(m, i, b, Device, b) :
               r = IF q.err = Success THEN Ok(Cleared(q.m, b, "host_dirty")) ELSE Err(q.m)
    BY <1>2
  <2>2. DriverCopies(m, q, i, b, Device, b)
    BY DriverCopyEffect
  <2>. DEFINE n == Cleared(q.m, b, "host_dirty")
  <2>3. /\ Transfers(m, q.m, b) /\ Keeps(m, q.m, b) /\ SameBits(m, q.m, b)
        /\ Transfers(m, n, b) /\ Keeps(m, n, b) /\ n.fresh = q.m.fresh
    BY <2>2, TransferFields
  <2>4. n.buf[b].device_dirty = q.m.buf[b].device_dirty /\ ~n.buf[b].host_dirty
    <3>1. q.m \in MachineZ /\ "host_dirty" \in Bit
      BY <2>2 DEF DriverCopies, Inert, Bit
    <3>. QED
      BY <3>1, ClearFields
  <2>5. m.buf[b].host => From(m, i, b) = Host
    BY <1>2 DEF From
  <2>6. Host # Device
    BY DEF Host, Device
  <2>7. CASE q.err = Success /\ r = Ok(n)
    <3>. HIDE DEF n
    <3>1. r.m = n /\ r.err = Success
      BY <2>7 DEF Ok
    <3>2. Truthful(m, b) /\ b \notin m.lost => Host \in n.fresh[b] /\ Device \in n.fresh[b]
      BY <1>2, <2>2, <2>3, <2>5, <2>6, <2>7 DEF DriverCopies, Arrived, Truthful
    <3>. QED
      BY <1>2, <2>3, <2>4, <3>1, <3>2 DEF Uploads, Truthful, Transfers, Keeps, SameBits
  <2>8. CASE q.err # Success /\ r = Err(q.m)
    <3>1. r.m = q.m /\ r.err = Failed
      BY <2>8 DEF Err
    <3>2. q.m.fresh[b] \subseteq m.fresh[b] /\ m.fresh[b] \ {Device} \subseteq q.m.fresh[b]
      BY <2>2, <2>8 DEF DriverCopies
    <3>. QED
      BY <1>2, <2>3, <2>6, <3>1, <3>2 DEF Uploads, Truthful, Transfers, Keeps, SameBits, Success, Failed
  <2>. QED
    BY <2>1, <2>7, <2>8
<1>. QED
  BY <1>1, <1>2 DEF Uploaded

\* Device memory that holds nothing yet is told from clean memory by the host's
\* dirty bit.
Marking(m, b) == m.buf[b].device = NULL /\ b \notin m.lost => m.buf[b].host_dirty

\* New device memory of a buffer whose host is marked dirty is not taken for content.
LEMMA MallocTruthful ==
  ASSUME NEW m \in MachineZ, NEW b \in Buffer, NEW i \in Interface, NEW r, Mallocs(m, r, b, i),
         Truthful(m, b), Marking(m, b)
  PROVE  Truthful(r.m, b)
<1>1. CASE Keeps(m, r.m, b)
  BY <1>1 DEF Mallocs, Keeps, SameBits, SameContent, Truthful
<1>2. CASE Gains(m, r.m, b, i)
  <2>1. r.m.buf[b].device # NULL
    BY <1>2, HandleAssumption DEF Gains
  <2>. QED
    BY <1>2, <2>1 DEF Mallocs, Gains, SameBits, SameContent, Truthful, Marking
<1>. QED
  BY <1>1, <1>2 DEF Mallocs

\* copy_to_device_already_locked.
ToDevice(m, r, b, want) ==
  /\ Transfers(m, r.m, b)
  /\ Keeps(m, r.m, b) \/ \E i \in Interface : Gains(m, r.m, b, i) /\ want \in {i, NULL}
  /\ r.m.buf[b].device_dirty = m.buf[b].device_dirty
  /\ r.m.buf[b].host_dirty => m.buf[b].host_dirty
  /\ r.err = Success => /\ Valid(m, b)
                        /\ ~r.m.buf[b].host_dirty /\ r.m.buf[b].device # NULL
                        /\ want \in {r.m.buf[b].device_interface, NULL}
  /\ Truthful(m, b) /\ Marking(m, b) =>
       /\ Truthful(r.m, b)
       /\ r.err = Success => b \in r.m.lost \/ Device \in r.m.fresh[b]

\* copy_to_device_already_locked.
LEMMA CopyToDeviceEffect ==
  ASSUME NEW m \in MachineZ, NEW b \in Buffer, NEW want \in Interface \union {NULL},
         NEW r \in copy_to_device_already_locked(m, b, want)
  PROVE  ToDevice(m, r, b, want)
<1>. DEFINE i == IF want = NULL THEN m.buf[b].device_interface ELSE want
<1>1. CASE r = Err(m) \/ r = [m |-> m, err |-> Incompatible]
  <2>1. r.m = m /\ r.err # Success
    BY <1>1 DEF Err, Success, Failed, Incompatible
  <2>2. Transfers(m, m, b) /\ Keeps(m, m, b)
    BY Unchanged DEF Transfers
  <2>. QED
    BY <2>1, <2>2 DEF ToDevice
<1>2. (i # NULL => i \in Interface) /\ want \in {i, NULL}
  BY DEF MachineZ, BufferT
<1>3. CASE /\ Valid(m, b) /\ i # NULL
           /\ m.buf[b].device # NULL /\ m.buf[b].device_interface = i
           /\ Uploaded(m, r, b, i)
  <2>. HIDE DEF i
  <2>1. Uploads(m, r, b)
    BY <1>2, <1>3, UploadEffect
  <2>2. r.m.buf[b].device # NULL /\ want \in {r.m.buf[b].device_interface, NULL}
    BY <1>2, <1>3, <2>1 DEF Uploads, Keeps
  <2>. QED
    BY <1>3, <2>1, <2>2 DEF Uploads, ToDevice
<1>4. CASE /\ Valid(m, b) /\ i # NULL /\ m.buf[b].device = NULL
           /\ \E a \in halide_device_malloc(m, b, i) :
                (a.err # Success /\ r = a) \/ (a.err = Success /\ Uploaded(a.m, r, b, i))
  <2>. HIDE DEF i
  <2>1. PICK a \in halide_device_malloc(m, b, i) :
                (a.err # Success /\ r = a) \/ (a.err = Success /\ Uploaded(a.m, r, b, i))
    BY <1>4
  <2>2. Mallocs(m, a, b, i)
    BY <1>2, <1>4, MallocEffect
  <2>3. Truthful(m, b) /\ Marking(m, b) => Truthful(a.m, b)
    BY <1>2, <1>4, <2>2, MallocTruthful
  <2>4. /\ a.m \in MachineZ /\ Transfers(m, a.m, b)
        /\ Keeps(m, a.m, b) \/ Gains(m, a.m, b, i)
        /\ a.m.buf[b].device_dirty = m.buf[b].device_dirty
        /\ a.m.buf[b].host_dirty = m.buf[b].host_dirty
    BY <2>2 DEF Mallocs, Frame, Transfers, SameBits, SameContent
  <2>5. CASE a.err # Success /\ r = a
    <3>1. Keeps(m, r.m, b) \/ \E j \in Interface : Gains(m, r.m, b, j) /\ want \in {j, NULL}
      BY <1>2, <1>4, <2>4, <2>5
    <3>. QED
      BY <2>3, <2>4, <2>5, <3>1 DEF ToDevice
  <2>6. CASE a.err = Success /\ Uploaded(a.m, r, b, i)
    <3>1. a.m.buf[b].device # NULL /\ a.m.buf[b].device_interface = i
      BY <2>2, <2>6 DEF Mallocs
    <3>2. Uploads(a.m, r, b)
      BY <1>2, <1>4, <2>4, <2>6, <3>1, UploadEffect
    <3>3. Frame(m, r.m, b) /\ Counted(m, r.m, b)
      BY <2>4, <3>2, Compose DEF Uploads, Transfers
    <3>4. Transfers(m, r.m, b) /\ r.m.buf[b].device # NULL
      BY <2>4, <3>1, <3>2, <3>3 DEF Uploads, Transfers, Keeps
    <3>5. Keeps(m, r.m, b) \/ Gains(m, r.m, b, i)
      BY <2>4, <3>2 DEF Uploads, Keeps, Gains
    <3>6. Keeps(m, r.m, b) \/ \E j \in Interface : Gains(m, r.m, b, j) /\ want \in {j, NULL}
      BY <1>2, <1>4, <3>5
    <3>7. want \in {r.m.buf[b].device_interface, NULL}
      BY <1>2, <3>1, <3>2 DEF Uploads, Keeps
    <3>8. /\ r.m.buf[b].device_dirty = m.buf[b].device_dirty
          /\ r.m.buf[b].host_dirty => m.buf[b].host_dirty
      BY <2>4, <3>2 DEF Uploads
    <3>. QED
      BY <1>4, <2>3, <3>2, <3>4, <3>6, <3>7, <3>8 DEF Uploads, ToDevice
  <2>. QED
    BY <2>1, <2>5, <2>6
<1>. QED
  BY <1>1, <1>3, <1>4, CopyToDeviceCases

-----------------------------------------------------------------------------
(***************************************************************************)
(* Copies from one buffer to another.                                      *)
(***************************************************************************)
\* Only the destination may get device memory, and of the source only the
\* device's dirty bit and what its memories hold may change; it stays truthful.
Copies(m, n, src, dst) ==
  /\ n \in MachineZ
  /\ \A c \in Buffer \ {src, dst} :
       n.buf[c] = m.buf[c] /\ n.fresh[c] = m.fresh[c] /\ (c \in n.lost <=> c \in m.lost)
  /\ Counted(m, n, dst) /\ n.buf[dst].host = m.buf[dst].host
  /\ Keeps(m, n, dst) \/ \E i \in Interface : Gains(m, n, dst, i)
  /\ n.buf[src].host = m.buf[src].host /\ n.buf[src].host_dirty = m.buf[src].host_dirty
  /\ n.buf[src].device = m.buf[src].device
  /\ n.buf[src].device_interface = m.buf[src].device_interface
  /\ src \in n.lost <=> src \in m.lost
  /\ Truthful(m, src) => Truthful(n, src)

\* The memory the copy was to reach has the content, and no other one is taken
\* to have it; host memory for i = NULL.
Delivered(n, i, dst) ==
  dst \notin n.lost =>
    IF i = NULL THEN Host \in n.fresh[dst] /\ Device \notin n.fresh[dst] /\ n.buf[dst].host
    ELSE Device \in n.fresh[dst] /\ n.buf[dst].device # NULL

\* What holds of a buffer that is copied from.
Readable(m, src) ==
  Named(m, src) /\ Truthful(m, src) /\ (m.buf[src].host \/ m.buf[src].device # NULL)

\* Two copies in a row, as where one goes through the host.
LEMMA CopiesCompose ==
  ASSUME NEW m \in MachineZ, NEW src \in Buffer, NEW dst \in Buffer, src # dst,
         NEW k, Copies(m, k, src, dst), NEW n, Copies(k, n, src, dst)
  PROVE  Copies(m, n, src, dst)
<1>1. k \in MachineZ /\ n \in MachineZ
  BY DEF Copies
<1>2. Counted(m, n, dst)
  <2>1. \A j \in Interface : /\ m.refs[j] \in Int /\ Holding(m, dst, j) \in Int
                             /\ Holding(k, dst, j) \in Int /\ Holding(n, dst, j) \in Int
    BY DEF MachineZ, Holding
  <2>2. \A j \in Interface : /\ k.refs[j] = m.refs[j] + Holding(k, dst, j) - Holding(m, dst, j)
                             /\ n.refs[j] = k.refs[j] + Holding(n, dst, j) - Holding(k, dst, j)
    BY DEF Copies, Counted
  <2>. QED
    BY <2>1, <2>2 DEF Counted
<1>3. Keeps(m, n, dst) \/ \E i \in Interface : Gains(m, n, dst, i)
  BY HandleAssumption DEF Copies, Keeps, Gains
<1>. QED
  BY <1>1, <1>2, <1>3 DEF Copies

\* A copy may do nothing.
LEMMA CopiesNothing ==
  ASSUME NEW m \in MachineZ, NEW src \in Buffer, NEW dst \in Buffer
  PROVE  Copies(m, m, src, dst)
BY Unchanged DEF Copies

\* A driver's copy.
LEMMA DirectEffect ==
  ASSUME NEW m \in MachineZ, NEW src \in Buffer, NEW dst \in Buffer, src # dst,
         NEW i \in Interface, NEW to \in {Host, Device}, NEW r \in DriverCopy(m, i, src, to, dst)
  PROVE  /\ Copies(m, r.m, src, dst) /\ r.m.buf = m.buf
         /\ r.err = Success /\ Readable(m, src) => dst \in r.m.lost \/ r.m.fresh[dst] = {to}
<1>1. DriverCopies(m, r, i, src, to, dst)
  BY DriverCopyEffect
<1>2. Copies(m, r.m, src, dst)
  <2>1. \A j \in Interface : m.refs[j] \in Int
    BY DEF MachineZ
  <2>2. Counted(m, r.m, dst)
    BY <1>1, <2>1 DEF DriverCopies, Inert, Counted, Holding
  <2>3. r.m.fresh[src] = m.fresh[src] /\ (src \in r.m.lost <=> src \in m.lost)
    BY <1>1 DEF DriverCopies
  <2>4. Truthful(m, src) => Truthful(r.m, src)
    BY <1>1, <2>3 DEF DriverCopies, Inert, Truthful
  <2>. QED
    BY <1>1, <2>2, <2>3, <2>4 DEF DriverCopies, Inert, Copies, Keeps
<1>3. ASSUME r.err = Success, Readable(m, src), src \notin m.lost
      PROVE  From(m, i, src) \in m.fresh[src]
  <2>1. m.buf[src].device_interface = i => m.buf[src].device # NULL
    BY <1>3, InterfaceAssumption DEF Readable, Named
  <2>2. m.buf[src].device_interface = i \/ (~m.buf[src].device_dirty /\ m.buf[src].host)
    BY <1>1, <1>3 DEF DriverCopies
  <2>. QED
    BY <1>3, <2>1, <2>2 DEF From, Readable, Truthful
<1>. QED
  BY <1>1, <1>2, <1>3 DEF DriverCopies, Arrived, Inert

\* From host to host.
LEMMA HostToHostEffect ==
  ASSUME NEW m \in MachineZ, NEW src \in Buffer, NEW dst \in Buffer, src # dst,
         from_host_valid(m.buf[src]), NEW r \in HostToHost(m, src, dst)
  PROVE  /\ Copies(m, r.m, src, dst) /\ r.m.buf = m.buf /\ r.err = Success
         /\ Readable(m, src) => dst \in r.m.lost \/ r.m.fresh[dst] = {Host}
<1>. DEFINE n == Arrives(m, src, Host, dst, Host)
<1>1. r.m = n /\ r.err = Success
  BY DEF HostToHost, Ok
<1>2. Arrived(m, n, src, Host, dst, Host)
  BY ArrivesFields
<1>. HIDE DEF n
<1>3. Copies(m, n, src, dst)
  <2>1. \A j \in Interface : m.refs[j] \in Int
    BY DEF MachineZ
  <2>2. Counted(m, n, dst)
    BY <1>2, <2>1 DEF Arrived, Inert, Counted, Holding
  <2>3. n.fresh[src] = m.fresh[src] /\ (src \in n.lost <=> src \in m.lost)
    BY <1>2 DEF Arrived
  <2>4. Truthful(m, src) => Truthful(n, src)
    BY <1>2, <2>3 DEF Arrived, Inert, Truthful
  <2>. QED
    BY <1>2, <2>2, <2>3, <2>4 DEF Arrived, Inert, Copies, Keeps
<1>4. Readable(m, src) /\ src \notin m.lost => Host \in m.fresh[src]
  BY DEF Readable, Named, Truthful, from_host_valid
<1>. QED
  BY <1>1, <1>2, <1>3, <1>4 DEF Arrived, Inert

\* A call on the destination alone.
LEMMA FrameCopies ==
  ASSUME NEW m \in MachineZ, NEW src \in Buffer, NEW dst \in Buffer, src # dst,
         NEW n, Frame(m, n, dst), Counted(m, n, dst), n.buf[dst].host = m.buf[dst].host,
         Keeps(m, n, dst) \/ \E i \in Interface : Gains(m, n, dst, i)
  PROVE  Copies(m, n, src, dst)
<1>1. /\ n.buf[src] = m.buf[src] /\ n.fresh[src] = m.fresh[src] /\ (src \in n.lost <=> src \in m.lost)
      /\ n \in MachineZ
  BY DEF Frame
<1>2. Truthful(m, src) => Truthful(n, src)
  BY <1>1 DEF Truthful
<1>3. \A c \in Buffer \ {src, dst} :
        n.buf[c] = m.buf[c] /\ n.fresh[c] = m.fresh[c] /\ (c \in n.lost <=> c \in m.lost)
  BY DEF Frame
<1>. QED
  BY <1>1, <1>2, <1>3 DEF Copies

\* A copy between devices through the destination's host memory.
LEMMA ViaDestinationEffect ==
  ASSUME NEW m \in MachineZ, NEW src \in Buffer, NEW dst \in Buffer, src # dst, NEW i \in Interface,
         Named(m, src), from_device_valid(m.buf[src]), m.buf[dst].host,
         m.buf[dst].device # NULL, NEW r \in ViaDestination(m, src, i, dst)
  PROVE  /\ Copies(m, r.m, src, dst)
         /\ r.err = Success /\ Readable(m, src) => Delivered(r.m, i, dst)
<1>. DEFINE j == m.buf[src].device_interface
<1>1. j \in Interface
  BY DEF Named, from_device_valid, MachineZ, BufferT
<1>2. PICK q \in DriverCopy(m, j, src, Host, dst) :
        \/ q.err # Success /\ r = q
        \/ q.err = Success /\ r \in copy_to_device_already_locked(Raised(q.m, dst, "host_dirty"), dst, i)
  <2>1. \E q \in DriverCopy(m, j, src, Host, dst) :
          \/ q.err # Success /\ r = q
          \/ q.err = Success
               /\ r \in copy_to_device_already_locked(SetBit(q.m, dst, "host_dirty", TRUE), dst, i)
    BY DEF ViaDestination, Then, SetBit
  <2>. QED
    BY <2>1 DEF Raised
<1>3. /\ Copies(m, q.m, src, dst) /\ q.m.buf = m.buf
      /\ q.err = Success /\ Readable(m, src) => dst \in q.m.lost \/ q.m.fresh[dst] = {Host}
  BY <1>1, DirectEffect
<1>4. CASE q.err # Success /\ r = q
  BY <1>3, <1>4
<1>5. CASE q.err = Success /\ r \in copy_to_device_already_locked(Raised(q.m, dst, "host_dirty"), dst, i)
  <2>. DEFINE w == Raised(q.m, dst, "host_dirty")
  <2>1. q.m \in MachineZ /\ "host_dirty" \in Bit /\ "host_dirty" # "host" /\ "host_dirty" # "device_dirty"
    BY <1>3 DEF Copies, Bit
  <2>2. Frame(q.m, w, dst) /\ Counted(q.m, w, dst) /\ Keeps(q.m, w, dst) /\ SameContent(q.m, w)
    BY <2>1, BitOnly
  <2>3. w.buf[dst].host = q.m.buf[dst].host /\ w.buf[dst].host_dirty
    BY <2>1, SetFields
  <2>. HIDE DEF w
  <2>4. Copies(q.m, w, src, dst)
    BY <2>1, <2>2, <2>3, FrameCopies
  <2>5. w \in MachineZ
    BY <2>2 DEF Frame
  <2>6. ToDevice(w, r, dst, i)
    BY <1>5, <2>5, CopyToDeviceEffect DEF w
  <2>7. Copies(w, r.m, src, dst)
    BY <2>5, <2>6, FrameCopies DEF ToDevice, Transfers
  <2>8. Copies(m, w, src, dst)
    BY <1>3, <2>4, CopiesCompose
  <2>9. Copies(m, r.m, src, dst)
    BY <2>7, <2>8, CopiesCompose
  <2>10. ASSUME r.err = Success, Readable(m, src)
         PROVE  Delivered(r.m, i, dst)
    <3>1. ~w.buf[dst].device_dirty /\ r.m.buf[dst].device # NULL
      BY <2>3, <2>6, <2>10 DEF ToDevice, Valid
    <3>2. dst \in w.lost \/ w.fresh[dst] = {Host}
      BY <1>3, <1>5, <2>2, <2>10 DEF SameContent
    <3>3. w.buf[dst].host /\ Host # Device
      BY <1>3, <2>3 DEF Host, Device
    <3>4. Truthful(w, dst) /\ Marking(w, dst)
      BY <2>3, <3>1, <3>2, <3>3 DEF Truthful, Marking
    <3>5. dst \in r.m.lost \/ Device \in r.m.fresh[dst]
      BY <2>6, <2>10, <3>4 DEF ToDevice
    <3>. QED
      BY <3>1, <3>5, InterfaceAssumption DEF Delivered
  <2>. QED
    BY <2>9, <2>10
<1>. QED
  BY <1>2, <1>4, <1>5

\* A copy between devices through the source's host memory.
LEMMA ViaSourceEffect ==
  ASSUME NEW m \in MachineZ, NEW src \in Buffer, NEW dst \in Buffer, src # dst, NEW i \in Interface,
         m.buf[src].host, m.buf[dst].device # NULL, NEW r \in ViaSource(m, src, i, dst)
  PROVE  /\ Copies(m, r.m, src, dst)
         /\ r.err = Success /\ Readable(m, src) => Delivered(r.m, i, dst)
<1>1. PICK q \in copy_to_host_already_locked(m, src) :
        \/ q.err # Success /\ r = q
        \/ q.err = Success /\ r \in DriverCopy(q.m, i, src, Device, dst)
  BY DEF ViaSource, Then
<1>2. Downloads(m, q, src)
  BY CopyToHostEffect
<1>3. q.m \in MachineZ /\ Copies(m, q.m, src, dst)
  <2>1. q.m \in MachineZ /\ Keeps(m, q.m, src) /\ Counted(m, q.m, src)
    BY <1>2 DEF Downloads, Transfers, Frame
  <2>2. q.m.buf[dst] = m.buf[dst] /\ q.m.live = m.live
    BY <1>2, <2>1 DEF Downloads, Transfers, Frame, Keeps
  <2>3. Counted(m, q.m, dst)
    <3>1. \A j \in Interface : /\ m.refs[j] \in Int /\ Holding(m, src, j) \in Int
                               /\ Holding(q.m, src, j) = Holding(m, src, j)
                               /\ Holding(m, dst, j) \in Int
                               /\ Holding(q.m, dst, j) = Holding(m, dst, j)
      BY <2>1, <2>2 DEF MachineZ, Holding, Keeps
    <3>2. \A j \in Interface : q.m.refs[j] = m.refs[j] + Holding(q.m, src, j) - Holding(m, src, j)
      BY <2>1 DEF Counted
    <3>3. \A j \in Interface : q.m.refs[j] = m.refs[j]
      BY <3>1, <3>2
    <3>. QED
      BY <3>1, <3>3 DEF Counted
  <2>4. Keeps(m, q.m, dst)
    BY <2>2 DEF Keeps
  <2>. QED
    BY <1>2, <2>1, <2>2, <2>3, <2>4 DEF Downloads, Transfers, Frame, Keeps, Copies
<1>4. CASE q.err # Success /\ r = q
  BY <1>3, <1>4
<1>5. CASE q.err = Success /\ r \in DriverCopy(q.m, i, src, Device, dst)
  <2>1. /\ Copies(q.m, r.m, src, dst) /\ r.m.buf = q.m.buf
        /\ r.err = Success /\ Readable(q.m, src) => dst \in r.m.lost \/ r.m.fresh[dst] = {Device}
    BY <1>3, <1>5, DirectEffect
  <2>2. Copies(m, r.m, src, dst)
    BY <1>3, <2>1, CopiesCompose
  <2>3. Readable(m, src) => Readable(q.m, src)
    BY <1>3 DEF Copies, Readable, Named
  <2>4. r.m.buf[dst].device # NULL
    BY <1>2, <2>1 DEF Downloads, Transfers, Frame
  <2>. QED
    BY <2>1, <2>2, <2>3, <2>4, InterfaceAssumption DEF Delivered
<1>. QED
  BY <1>1, <1>4, <1>5

\* What is tried when the driver cannot copy directly.
Through(m, r, src, i, dst) ==
  LET s == m.buf[src]
      d == m.buf[dst]
  IN  \/ r = [m |-> m, err |-> Incompatible]
      \/ i = NULL /\ from_host_valid(s) /\ r \in HostToHost(m, src, dst)
      \/ i = NULL /\ ~from_host_valid(s) /\ r \in DriverCopy(m, s.device_interface, src, Host, dst)
      \/ i # NULL /\ from_device_valid(s) /\ d.host /\ r \in ViaDestination(m, src, i, dst)
      \/ /\ i # NULL /\ ~(from_device_valid(s) /\ d.host) /\ (s.host \/ d.host)
         /\ r \in ViaSource(m, src, i, dst)

\* The ways to copy that halide_buffer_copy_already_locked tries in turn.
LEMMA DecomposedCases ==
  ASSUME NEW m \in MachineZ, NEW src \in Buffer, NEW dst \in Buffer,
         NEW i \in Interface \union {NULL}, NEW r \in Decomposed(m, src, i, dst)
  PROVE  \/ r = Err(m)
         \/ i # NULL /\ r \in DriverCopy(m, i, src, Device, dst)
         \/ (i = NULL => m.buf[dst].host) /\ Through(m, r, src, i, dst)
<1>. DEFINE s == m.buf[src]
            d == m.buf[dst]
            direct == IF from_device_valid(s) /\ i # NULL
                      THEN DriverCopy(m, i, src, Device, dst)
                      ELSE {[m |-> m, err |-> Incompatible]}
            Onward(n) ==
              IF ~s.host /\ ~d.host THEN {[m |-> n, err |-> Incompatible]}
              ELSE IF i = NULL /\ from_host_valid(s) THEN HostToHost(n, src, dst)
              ELSE IF i = NULL THEN DriverCopy(n, s.device_interface, src, Host, dst)
              ELSE IF from_device_valid(s) /\ d.host THEN ViaDestination(n, src, i, dst)
              ELSE ViaSource(n, src, i, dst)
<1>1. ASSUME i = NULL, ~d.host
      PROVE  r = Err(m)
  BY <1>1 DEF Decomposed
<1>2. ASSUME ~(i = NULL /\ ~d.host)
      PROVE  \E q \in direct : (q.err = Incompatible /\ r \in Onward(q.m)) \/ (q.err # Incompatible /\ r = q)
  BY <1>2 DEF Decomposed
<1>3. ASSUME r \in Onward(m)
      PROVE  Through(m, r, src, i, dst)
  BY <1>3 DEF Through
<1>. HIDE DEF Onward
<1>4. ASSUME NEW q \in direct, q.err = Incompatible
      PROVE  q.m = m
  <2>1. CASE q \in DriverCopy(m, i, src, Device, dst) /\ i # NULL
    BY <1>4, <2>1, DriverCopyEffect DEF DriverCopies, Device
  <2>2. CASE q = [m |-> m, err |-> Incompatible]
    BY <2>2
  <2>. QED
    BY <1>4, <2>1, <2>2
<1>5. ASSUME NEW q \in direct, q.err # Incompatible
      PROVE  i # NULL /\ q \in DriverCopy(m, i, src, Device, dst)
  BY <1>5
<1>. HIDE DEF direct
<1>. QED
  BY <1>1, <1>2, <1>3, <1>4, <1>5

\* Whichever way is taken delivers the content of the source.
LEMMA DecomposedEffect ==
  ASSUME NEW m \in MachineZ, NEW src \in Buffer, NEW dst \in Buffer, src # dst,
         NEW i \in Interface \union {NULL}, i # NULL => m.buf[dst].device # NULL,
         Named(m, src), m.buf[src].host \/ m.buf[src].device # NULL,
         NEW r \in Decomposed(m, src, i, dst)
  PROVE  /\ Copies(m, r.m, src, dst)
         /\ r.err = Success /\ Truthful(m, src) => Delivered(r.m, i, dst)
<1>. DEFINE s == m.buf[src]
            d == m.buf[dst]
            Done == /\ Copies(m, r.m, src, dst)
                    /\ r.err = Success /\ Truthful(m, src) => Delivered(r.m, i, dst)
<1>0. Truthful(m, src) => Readable(m, src)
  BY DEF Readable
<1>1. CASE r = Err(m) \/ r = [m |-> m, err |-> Incompatible]
  <2>1. r.m = m /\ r.err # Success
    BY <1>1 DEF Err, Success, Failed, Incompatible
  <2>. QED
    BY <2>1, CopiesNothing
<1>2. CASE i # NULL /\ r \in DriverCopy(m, i, src, Device, dst)
  <2>1. i \in Interface /\ Device \in {Host, Device}
    BY <1>2
  <2>2. /\ Copies(m, r.m, src, dst) /\ r.m.buf = m.buf
        /\ r.err = Success /\ Readable(m, src) => dst \in r.m.lost \/ r.m.fresh[dst] = {Device}
    BY <1>2, <2>1, DirectEffect
  <2>. QED
    BY <1>0, <1>2, <2>2 DEF Delivered
<1>3. CASE i = NULL /\ d.host /\ from_host_valid(s) /\ r \in HostToHost(m, src, dst)
  <2>1. /\ Copies(m, r.m, src, dst) /\ r.m.buf = m.buf
        /\ Readable(m, src) => dst \in r.m.lost \/ r.m.fresh[dst] = {Host}
    BY <1>3, HostToHostEffect
  <2>2. Host # Device
    BY DEF Host, Device
  <2>. QED
    BY <1>0, <1>3, <2>1, <2>2 DEF Delivered
<1>4. CASE /\ i = NULL /\ d.host /\ ~from_host_valid(s)
           /\ r \in DriverCopy(m, s.device_interface, src, Host, dst)
  <2>1. s.device_interface # NULL
    BY <1>4 DEF from_host_valid, Named
  <2>2. s.device_interface \in Interface /\ Host \in {Host, Device}
    BY <2>1 DEF MachineZ, BufferT
  <2>3. /\ Copies(m, r.m, src, dst) /\ r.m.buf = m.buf
        /\ r.err = Success /\ Readable(m, src) => dst \in r.m.lost \/ r.m.fresh[dst] = {Host}
    BY <1>4, <2>2, DirectEffect
  <2>4. Host # Device
    BY DEF Host, Device
  <2>. QED
    BY <1>0, <1>4, <2>3, <2>4 DEF Delivered
<1>5. CASE i # NULL /\ from_device_valid(s) /\ d.host /\ r \in ViaDestination(m, src, i, dst)
  BY <1>0, <1>5, ViaDestinationEffect
<1>6. CASE /\ i # NULL /\ ~(from_device_valid(s) /\ d.host) /\ (s.host \/ d.host)
           /\ r \in ViaSource(m, src, i, dst)
  <2>1. s.host
    BY <1>6 DEF from_device_valid
  <2>. QED
    BY <1>0, <1>6, <2>1, ViaSourceEffect
<1>. HIDE DEF Done
<1>7. CASE (i = NULL => d.host) /\ Through(m, r, src, i, dst)
  BY <1>1, <1>3, <1>4, <1>5, <1>6, <1>7 DEF Through
<1>. QED
  BY <1>1, <1>2, <1>7, DecomposedCases

\* The dirty bits of a destination that was copied to.
Newest(m, n, i, dst) ==
  /\ Frame(m, n, dst) /\ Counted(m, n, dst) /\ Keeps(m, n, dst) /\ SameContent(m, n)
  /\ n.buf[dst].host = m.buf[dst].host
  /\ n.buf[dst].host_dirty <=> i = NULL
  /\ n.buf[dst].device_dirty <=> i # NULL

\* After a copy the dirty bits say which memory was its destination.
LEMMA SetNewestFields ==
  ASSUME NEW m \in MachineZ, NEW dst \in Buffer, NEW i \in Interface \union {NULL}
  PROVE  Newest(m, SetNewest(m, dst, i), i, dst)
<1>. DEFINE h == IF i = NULL THEN Raised(m, dst, "host_dirty") ELSE Cleared(m, dst, "host_dirty")
            n == IF i = NULL THEN Cleared(h, dst, "device_dirty") ELSE Raised(h, dst, "device_dirty")
<1>0. /\ "host_dirty" \in Bit /\ "device_dirty" \in Bit
      /\ "host_dirty" # "host" /\ "device_dirty" # "host" /\ "host_dirty" # "device_dirty"
  BY DEF Bit
<1>1. SetNewest(m, dst, i) = n
  <2>1. CASE i = NULL
    BY <2>1 DEF SetNewest, Raised, Cleared, SetBit, MachineZ, BufferT
  <2>2. CASE i # NULL
    BY <2>2 DEF SetNewest, Raised, Cleared, SetBit, MachineZ, BufferT
  <2>. QED
    BY <2>1, <2>2
<1>2. /\ Frame(m, h, dst) /\ Counted(m, h, dst) /\ Keeps(m, h, dst) /\ SameContent(m, h)
      /\ h.buf[dst].host = m.buf[dst].host /\ (h.buf[dst].host_dirty <=> i = NULL)
  <2>1. CASE i = NULL
    BY <1>0, <2>1, BitOnly, SetFields
  <2>2. CASE i # NULL
    BY <1>0, <2>2, BitOnly, ClearFields
  <2>. QED
    BY <2>1, <2>2
<1>3. h \in MachineZ
  BY <1>2 DEF Frame
<1>. HIDE DEF h
<1>4. /\ Frame(h, n, dst) /\ Counted(h, n, dst) /\ Keeps(h, n, dst) /\ SameContent(h, n)
      /\ n.buf[dst].host = h.buf[dst].host
      /\ n.buf[dst].host_dirty = h.buf[dst].host_dirty /\ (n.buf[dst].device_dirty <=> i # NULL)
  <2>1. CASE i = NULL
    BY <1>0, <1>3, <2>1, BitOnly, ClearFields
  <2>2. CASE i # NULL
    BY <1>0, <1>3, <2>2, BitOnly, SetFields
  <2>. QED
    BY <2>1, <2>2
<1>. HIDE DEF n
<1>5. Frame(m, n, dst) /\ Counted(m, n, dst)
  BY <1>2, <1>4, Compose
<1>. QED
  BY <1>1, <1>2, <1>4, <1>5 DEF Newest, Keeps, SameContent

\* And that is so where the content was delivered.
LEMMA NewestDelivered ==
  ASSUME NEW k \in MachineZ, NEW dst \in Buffer, NEW i \in Interface \union {NULL},
         Delivered(k, i, dst), NEW n, Newest(k, n, i, dst)
  PROVE  Truthful(n, dst)
<1>1. dst \in n.lost <=> dst \in k.lost
  BY DEF Newest, SameContent
<1>2. n.fresh[dst] = k.fresh[dst] /\ n.buf[dst].device = k.buf[dst].device
  BY DEF Newest, SameContent, Keeps
<1>3. CASE i = NULL
  BY <1>1, <1>2, <1>3 DEF Newest, Delivered, Truthful
<1>4. CASE i # NULL
  BY <1>1, <1>2, <1>4 DEF Newest, Delivered, Truthful
<1>. QED
  BY <1>3, <1>4

\* The outcomes of halide_buffer_copy_already_locked.
LEMMA CopyLockedCases ==
  ASSUME NEW m \in MachineZ, NEW src \in Buffer, NEW dst \in Buffer, src # dst,
         NEW i \in Interface \union {NULL}, NEW r \in halide_buffer_copy_already_locked(m, src, i, dst)
  PROVE  \/ r = [m |-> m, err |-> Incompatible]
         \/ /\ i # NULL => CanUse(m, dst, i)
            /\ \E a \in IF i # NULL /\ m.buf[dst].device = NULL
                        THEN halide_device_malloc(m, dst, i) ELSE {Ok(m)} :
                 \/ a.err # Success /\ r = a
                 \/ /\ a.err = Success
                    /\ \E q \in Decomposed(a.m, src, i, dst) :
                         \/ q.err # Success /\ r = q
                         \/ q.err = Success /\ r = Ok(SetNewest(q.m, dst, i))
<1>. DEFINE ready == IF i # NULL /\ m.buf[dst].device = NULL
                     THEN halide_device_malloc(m, dst, i) ELSE {Ok(m)}
            copied == UNION {IF a.err = Success THEN Decomposed(a.m, src, i, dst) ELSE {a} : a \in ready}
<1>1. ASSUME i # NULL /\ ~CanUse(m, dst, i)
      PROVE  r = [m |-> m, err |-> Incompatible]
  BY <1>1 DEF halide_buffer_copy_already_locked
<1>2. ASSUME ~(i # NULL /\ ~CanUse(m, dst, i))
      PROVE  \E q \in copied : r = IF q.err = Success /\ src # dst THEN Ok(SetNewest(q.m, dst, i)) ELSE q
  BY <1>2 DEF halide_buffer_copy_already_locked, Then
<1>3. ASSUME NEW q \in copied
      PROVE  \E a \in ready : \/ a.err # Success /\ q = a
                              \/ a.err = Success /\ q \in Decomposed(a.m, src, i, dst)
  <2>. HIDE DEF ready
  <2>. QED
    BY <1>3
<1>. HIDE DEF copied
<1>4. ASSUME ~(i # NULL /\ ~CanUse(m, dst, i))
      PROVE  \E a \in ready :
               \/ a.err # Success /\ r = a
               \/ /\ a.err = Success
                  /\ \E q \in Decomposed(a.m, src, i, dst) :
                       \/ q.err # Success /\ r = q
                       \/ q.err = Success /\ r = Ok(SetNewest(q.m, dst, i))
  <2>. HIDE DEF ready
  <2>1. PICK q \in copied : r = IF q.err = Success /\ src # dst THEN Ok(SetNewest(q.m, dst, i)) ELSE q
    BY <1>2, <1>4
  <2>2. PICK a \in ready : \/ a.err # Success /\ q = a
                           \/ a.err = Success /\ q \in Decomposed(a.m, src, i, dst)
    BY <1>3
  <2>. QED
    BY <2>1, <2>2
<1>. QED
  BY <1>1, <1>4

\* What the program may rely on when a buffer is copied to another.
CopiesTo(m, r, src, dst) ==
  /\ Copies(m, r.m, src, dst)
  /\ r.err = Success /\ Truthful(m, src) => Truthful(r.m, dst)

\* halide_buffer_copy_already_locked.
LEMMA CopyLockedEffect ==
  ASSUME NEW m \in MachineZ, NEW src \in Buffer, NEW dst \in Buffer, src # dst,
         NEW i \in Interface \union {NULL}, Named(m, src), m.buf[src].host \/ m.buf[src].device # NULL,
         NEW r \in halide_buffer_copy_already_locked(m, src, i, dst)
  PROVE  CopiesTo(m, r, src, dst)
<1>1. CASE r = [m |-> m, err |-> Incompatible]
  BY <1>1, CopiesNothing DEF CopiesTo, Success, Incompatible
<1>2. CASE \E a \in IF i # NULL /\ m.buf[dst].device = NULL
                    THEN halide_device_malloc(m, dst, i) ELSE {Ok(m)} :
             \/ a.err # Success /\ r = a
             \/ /\ a.err = Success
                /\ \E q \in Decomposed(a.m, src, i, dst) :
                     \/ q.err # Success /\ r = q
                     \/ q.err = Success /\ r = Ok(SetNewest(q.m, dst, i))
  <2>1. PICK a \in IF i # NULL /\ m.buf[dst].device = NULL
                   THEN halide_device_malloc(m, dst, i) ELSE {Ok(m)} :
             \/ a.err # Success /\ r = a
             \/ /\ a.err = Success
                /\ \E q \in Decomposed(a.m, src, i, dst) :
                     \/ q.err # Success /\ r = q
                     \/ q.err = Success /\ r = Ok(SetNewest(q.m, dst, i))
    BY <1>2
  <2>2. /\ Copies(m, a.m, src, dst) /\ a.m.buf[src] = m.buf[src] /\ a.m \in MachineZ
        /\ a.err = Success /\ i # NULL => a.m.buf[dst].device # NULL
    <3>1. CASE i # NULL /\ m.buf[dst].device = NULL /\ a \in halide_device_malloc(m, dst, i)
      <4>1. Mallocs(m, a, dst, i)
        BY <3>1, MallocEffect
      <4>2. /\ Frame(m, a.m, dst) /\ Counted(m, a.m, dst) /\ a.m.buf[dst].host = m.buf[dst].host
            /\ Keeps(m, a.m, dst) \/ \E j \in Interface : Gains(m, a.m, dst, j)
        BY <3>1, <4>1 DEF Mallocs, SameBits
      <4>3. Copies(m, a.m, src, dst)
        BY <4>2, FrameCopies
      <4>. QED
        BY <4>1, <4>2, <4>3 DEF Mallocs, Frame
    <3>2. CASE a = Ok(m) /\ ~(i # NULL /\ m.buf[dst].device = NULL)
      <4>1. a.m = m
        BY <3>2 DEF Ok
      <4>. QED
        BY <3>2, <4>1, CopiesNothing
    <3>. QED
      BY <2>1, <3>1, <3>2
  <2>3. CASE a.err # Success /\ r = a
    BY <2>2, <2>3 DEF CopiesTo
  <2>4. CASE /\ a.err = Success
             /\ \E q \in Decomposed(a.m, src, i, dst) :
                  \/ q.err # Success /\ r = q
                  \/ q.err = Success /\ r = Ok(SetNewest(q.m, dst, i))
    <3>1. PICK q \in Decomposed(a.m, src, i, dst) :
                  \/ q.err # Success /\ r = q
                  \/ q.err = Success /\ r = Ok(SetNewest(q.m, dst, i))
      BY <2>4
    <3>2. /\ Copies(a.m, q.m, src, dst)
          /\ q.err = Success /\ Truthful(a.m, src) => Delivered(q.m, i, dst)
      BY <2>2, <2>4, DecomposedEffect DEF Named
    <3>3. Copies(m, q.m, src, dst)
      BY <2>2, <3>2, CopiesCompose
    <3>4. CASE q.err # Success /\ r = q
      BY <3>3, <3>4 DEF CopiesTo
    <3>5. CASE q.err = Success /\ r = Ok(SetNewest(q.m, dst, i))
      <4>. DEFINE n == SetNewest(q.m, dst, i)
      <4>1. q.m \in MachineZ
        BY <3>3 DEF Copies
      <4>2. Newest(q.m, n, i, dst)
        BY <4>1, SetNewestFields
      <4>3. r.m = n /\ r.err = Success
        BY <3>5 DEF Ok
      <4>. HIDE DEF n
      <4>4. Copies(q.m, n, src, dst)
        BY <4>1, <4>2, FrameCopies DEF Newest
      <4>5. Copies(m, n, src, dst)
        BY <3>3, <4>4, CopiesCompose
      <4>6. Truthful(m, src) => Truthful(n, dst)
        BY <2>2, <3>2, <3>5, <4>1, <4>2, NewestDelivered DEF Copies
      <4>. QED
        BY <4>3, <4>5, <4>6 DEF CopiesTo
    <3>. QED
      BY <3>1, <3>4, <3>5
  <2>. QED
    BY <2>1, <2>3, <2>4
<1>. QED
  BY <1>1, <1>2, CopyLockedCases

\* Only the references to module i changed, by d.
Shifted(m, n, i, d) ==
  /\ n \in MachineZ
  /\ n.buf = m.buf /\ n.live = m.live /\ n.fresh = m.fresh /\ n.lost = m.lost
  /\ \A j \in Interface : n.refs[j] = m.refs[j] + IF i = j THEN d ELSE 0

\* The counts that are raised around a copy, for the interfaces there are.
LEMMA IfFields ==
  ASSUME NEW m \in MachineZ, NEW i \in Interface \union {NULL}
  PROVE  Shifted(m, UseIf(m, i), i, 1) /\ Shifted(m, ReleaseIf(m, i), i, -1)
<1>. DEFINE u == Use(m, i)
            l == Release(m, i)
<1>1. \A j \in Interface : m.refs[j] \in Int
  BY DEF MachineZ
<1>2. CASE i = NULL
  <2>1. UseIf(m, i) = m /\ ReleaseIf(m, i) = m
    BY <1>2 DEF UseIf, ReleaseIf
  <2>2. \A j \in Interface : i # j
    BY <1>2, InterfaceAssumption
  <2>. QED
    BY <1>1, <2>1, <2>2 DEF Shifted
<1>3. CASE i # NULL
  <2>1. UseIf(m, i) = u /\ ReleaseIf(m, i) = l /\ i \in Interface
    BY <1>3 DEF UseIf, ReleaseIf
  <2>2. /\ u \in MachineZ
        /\ u.buf = m.buf /\ u.live = m.live /\ u.fresh = m.fresh /\ u.lost = m.lost
        /\ \A j \in Interface : u.refs[j] = m.refs[j] + IF i = j THEN 1 ELSE 0
    BY <2>1, UseFields
  <2>3. /\ l \in MachineZ
        /\ l.buf = m.buf /\ l.live = m.live /\ l.fresh = m.fresh /\ l.lost = m.lost
        /\ \A j \in Interface : l.refs[j] = m.refs[j] - IF i = j THEN 1 ELSE 0
    BY <2>1, ReleaseFields
  <2>. HIDE DEF u, l
  <2>4. \A j \in Interface : l.refs[j] = m.refs[j] + IF i = j THEN -1 ELSE 0
    BY <1>1, <2>3
  <2>. QED
    BY <2>1, <2>2, <2>3, <2>4 DEF Shifted
<1>. QED
  BY <1>2, <1>3

\* The outcomes of halide_buffer_copy.
LEMMA BufferCopyCases ==
  ASSUME NEW m \in MachineZ, NEW src \in Buffer, NEW dst \in Buffer,
         NEW i \in Interface \union {NULL}, NEW r \in halide_buffer_copy(m, src, i, dst)
  PROVE  \E q \in halide_buffer_copy_already_locked(UseIf(UseIf(m, i), m.buf[src].device_interface), src, i, dst) :
           r.m = ReleaseIf(ReleaseIf(q.m, i), q.m.buf[src].device_interface) /\ r.err = q.err
BY DEF halide_buffer_copy, Finally

\* halide_buffer_copy, which reads the source's interface again to release it.
LEMMA BufferCopyEffect ==
  ASSUME NEW m \in MachineZ, NEW src \in Buffer, NEW dst \in Buffer, src # dst,
         NEW i \in Interface \union {NULL}, Named(m, src), m.buf[src].host \/ m.buf[src].device # NULL,
         NEW r \in halide_buffer_copy(m, src, i, dst)
  PROVE  CopiesTo(m, r, src, dst)
<1>. DEFINE j == m.buf[src].device_interface
            t == UseIf(m, i)
            u == UseIf(t, j)
<1>1. PICK q \in halide_buffer_copy_already_locked(u, src, i, dst) :
             r.m = ReleaseIf(ReleaseIf(q.m, i), q.m.buf[src].device_interface) /\ r.err = q.err
  BY BufferCopyCases
<1>2. j \in Interface \union {NULL}
  BY DEF MachineZ, BufferT
<1>3. Shifted(m, t, i, 1)
  BY IfFields
<1>. HIDE DEF t, j
<1>4. Shifted(t, u, j, 1) /\ t \in MachineZ
  BY <1>2, <1>3, IfFields DEF Shifted
<1>. HIDE DEF u
<1>5. /\ u \in MachineZ
      /\ u.buf = m.buf /\ u.live = m.live /\ u.fresh = m.fresh /\ u.lost = m.lost
  BY <1>3, <1>4 DEF Shifted
<1>6. CopiesTo(u, q, src, dst)
  BY <1>1, <1>5, CopyLockedEffect DEF Named
<1>7. q.m \in MachineZ /\ q.m.buf[src].device_interface = j
  BY <1>5, <1>6 DEF CopiesTo, Copies, j
<1>. DEFINE k == ReleaseIf(q.m, i)
            n == ReleaseIf(k, j)
<1>8. Shifted(q.m, k, i, -1)
  BY <1>7, IfFields
<1>9. r.m = n
  BY <1>1, <1>7
<1>. HIDE DEF k
<1>10. Shifted(k, n, j, -1)
  BY <1>2, <1>8, IfFields DEF Shifted
<1>. HIDE DEF n
<1>11. /\ n \in MachineZ
       /\ n.buf = q.m.buf /\ n.live = q.m.live /\ n.fresh = q.m.fresh /\ n.lost = q.m.lost
  BY <1>8, <1>10 DEF Shifted
<1>12. Counted(m, n, dst)
  <2>. SUFFICES ASSUME NEW x \in Interface
                PROVE  n.refs[x] = m.refs[x] + Holding(n, dst, x) - Holding(m, dst, x)
    BY DEF Counted
  <2>1. m.refs[x] \in Int /\ q.m.refs[x] \in Int
    BY <1>7 DEF MachineZ
  <2>2. Holding(n, dst, x) = Holding(q.m, dst, x) /\ Holding(u, dst, x) = Holding(m, dst, x)
    BY <1>5, <1>11 DEF Holding
  <2>3. Holding(n, dst, x) \in Int /\ Holding(m, dst, x) \in Int
    BY DEF Holding
  <2>4. q.m.refs[x] = u.refs[x] + Holding(n, dst, x) - Holding(m, dst, x)
    BY <1>6, <2>2 DEF CopiesTo, Copies, Counted
  <2>5. u.refs[x] = m.refs[x] + (IF i = x THEN 1 ELSE 0) + (IF j = x THEN 1 ELSE 0)
    BY <1>3, <1>4, <2>1 DEF Shifted
  <2>6. n.refs[x] = q.m.refs[x] + (IF i = x THEN -1 ELSE 0) + (IF j = x THEN -1 ELSE 0)
    BY <1>8, <1>10, <2>1 DEF Shifted
  <2>. QED
    BY <2>1, <2>3, <2>4, <2>5, <2>6
<1>13. Copies(m, n, src, dst)
  <2>1. Copies(u, q.m, src, dst)
    BY <1>6 DEF CopiesTo
  <2>2. Keeps(m, n, dst) \/ \E x \in Interface : Gains(m, n, dst, x)
    BY <1>5, <1>11, <2>1 DEF Copies, Keeps, Gains
  <2>. QED
    BY <1>5, <1>11, <1>12, <2>1, <2>2 DEF Copies, Truthful
<1>14. r.err = Success /\ Truthful(m, src) => Truthful(n, dst)
  BY <1>1, <1>5, <1>6, <1>11 DEF CopiesTo, Truthful
<1>. QED
  BY <1>9, <1>13, <1>14 DEF CopiesTo
=============================================================================
