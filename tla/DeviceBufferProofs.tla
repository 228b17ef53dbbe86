------------------------- MODULE DeviceBufferProofs -------------------------
(***************************************************************************)
(* Proofs about DeviceBuffer, for any finite set of buffers and any        *)
(* interfaces and handles: the invariants of the program's use of the      *)
(* device interface, from what each call does (DeviceInterfaceProofs).     *)
(***************************************************************************)
EXTENDS DeviceBuffer, DeviceInterfaceProofs, FiniteSetTheorems

Role == {Plain, Joint, Wrapped, View}

\* The buffers that hold device memory of interface i in machine state x.
HoldersIn(x, i) == {b \in Buffer : x.buf[b].device_interface = i}

\* Each module has a reference for each of them.
Referenced(x) ==
  \A i \in Interface : /\ x.refs[i] >= Cardinality(HoldersIn(x, i))
                       /\ i \notin CropMayFail => x.refs[i] = Cardinality(HoldersIn(x, i))

\* Each of Halide's allocations is some buffer's, and what a buffer holds is as
\* its role r says; a view (v) holds its source's memory.
Owned(x, r, v) ==
  /\ \A h \in x.live : \E b \in Buffer : r[b] \in {Plain, Joint} /\ x.buf[b].device = h
  /\ \A b \in Buffer :
       /\ Named(x, b)
       /\ r[b] = View <=> v[b] # NULL
       /\ r[b] \in {Plain, Joint} => x.buf[b].device \in x.live \union {NULL}
       /\ r[b] = Wrapped => x.buf[b].device \in Native
       /\ v[b] # NULL => /\ v[v[b]] = NULL /\ x.buf[b].device # NULL
                         /\ x.buf[b].device = x.buf[v[b]].device
                         /\ x.buf[b].device_interface = x.buf[v[b]].device_interface

Root(v, b) == IF v[b] = NULL THEN b ELSE v[b]

\* Only the views of one buffer share device memory.
Unshared(x, v) ==
  \A b, c \in Buffer : b # c /\ x.buf[b].device = x.buf[c].device /\ x.buf[b].device # NULL
                         => Root(v, b) = Root(v, c)

Good(x, r, v) ==
  /\ x \in MachineZ /\ r \in [Buffer -> Role] /\ v \in [Buffer -> Buffer \union {NULL}]
  /\ Referenced(x) /\ Owned(x, r, v) /\ Unshared(x, v)
  /\ \A b \in Buffer : Truthful(x, b)

\* The inductive invariant.
IInv == Good(m, role, view) /\ read = TRUE

-----------------------------------------------------------------------------
(***************************************************************************)
(* The references.                                                         *)
(***************************************************************************)
LEMMA HoldersFinite ==
  ASSUME NEW x, NEW i
  PROVE  IsFiniteSet(HoldersIn(x, i)) /\ Cardinality(HoldersIn(x, i)) \in Nat
<1>1. HoldersIn(x, i) \subseteq Buffer
  BY DEF HoldersIn
<1>2. IsFiniteSet(Buffer)
  BY BufferAssumption
<1>3. IsFiniteSet(HoldersIn(x, i))
  BY <1>1, <1>2, FS_Subset
<1>. QED
  BY <1>3, FS_CardinalityType

\* All interfaces but buffer b's are as they were.
LEMMA HoldersChange ==
  ASSUME NEW x, NEW y, NEW b \in Buffer, NEW i,
         \A c \in Buffer : c # b => y.buf[c].device_interface = x.buf[c].device_interface
  PROVE  Cardinality(HoldersIn(y, i)) = Cardinality(HoldersIn(x, i)) + Holding(y, b, i) - Holding(x, b, i)
<1>. DEFINE X == HoldersIn(x, i)
            Y == HoldersIn(y, i)
<1>1. /\ IsFiniteSet(X) /\ Cardinality(X) \in Nat
      /\ IsFiniteSet(Y) /\ Cardinality(Y) \in Nat
  BY HoldersFinite
<1>2. (b \in X <=> Holding(x, b, i) = 1) /\ (b \notin X <=> Holding(x, b, i) = 0)
  BY DEF HoldersIn, Holding
<1>3. (b \in Y <=> Holding(y, b, i) = 1) /\ (b \notin Y <=> Holding(y, b, i) = 0)
  BY DEF HoldersIn, Holding
<1>4. \A c : c # b => (c \in X <=> c \in Y)
  BY DEF HoldersIn
<1>. HIDE DEF X, Y
<1>5. CASE b \in X <=> b \in Y
  <2>1. X = Y
    BY <1>4, <1>5
  <2>. QED
    BY <1>1, <1>2, <1>3, <1>5, <2>1 DEF X, Y
<1>6. CASE b \in X /\ b \notin Y
  <2>1. Y = X \ {b}
    BY <1>4, <1>6
  <2>2. Cardinality(X \ {b}) = Cardinality(X) - 1
    BY <1>1, <1>6, FS_RemoveElement
  <2>. QED
    BY <1>1, <1>2, <1>3, <1>6, <2>1, <2>2 DEF X, Y
<1>7. CASE b \notin X /\ b \in Y
  <2>1. Y = X \union {b}
    BY <1>4, <1>7
  <2>2. Cardinality(X \union {b}) = Cardinality(X) + 1
    BY <1>1, <1>7, FS_AddElement
  <2>. QED
    BY <1>1, <1>2, <1>3, <1>7, <2>1, <2>2 DEF X, Y
<1>. QED
  BY <1>5, <1>6, <1>7

\* A call that counts what one buffer gets and loses keeps the counts exact.
LEMMA ReferencedStep ==
  ASSUME NEW x \in MachineZ, Referenced(x), NEW y, NEW b \in Buffer, Counted(x, y, b),
         \A c \in Buffer : c # b => y.buf[c].device_interface = x.buf[c].device_interface
  PROVE  Referenced(y)
<1>. SUFFICES ASSUME NEW i \in Interface
              PROVE  /\ y.refs[i] >= Cardinality(HoldersIn(y, i))
                     /\ i \notin CropMayFail => y.refs[i] = Cardinality(HoldersIn(y, i))
  BY DEF Referenced
<1>1. Cardinality(HoldersIn(y, i)) = Cardinality(HoldersIn(x, i)) + Holding(y, b, i) - Holding(x, b, i)
  BY HoldersChange
<1>2. y.refs[i] = x.refs[i] + Holding(y, b, i) - Holding(x, b, i)
  BY DEF Counted
<1>3. Cardinality(HoldersIn(x, i)) \in Nat
  BY HoldersFinite
<1>4. x.refs[i] \in Int /\ Holding(y, b, i) \in Int /\ Holding(x, b, i) \in Int
  BY DEF MachineZ, Holding
<1>5. /\ x.refs[i] >= Cardinality(HoldersIn(x, i))
      /\ i \notin CropMayFail => x.refs[i] = Cardinality(HoldersIn(x, i))
  BY DEF Referenced
<1>. QED
  BY <1>1, <1>2, <1>3, <1>4, <1>5

-----------------------------------------------------------------------------
(***************************************************************************)
(* Whose the device memory is.                                             *)
(***************************************************************************)
Held(x, r, v) == Owned(x, r, v) /\ Unshared(x, v)

\* Buffer b is not a view and has none.
Single(v, b) == v[b] = NULL /\ \A c \in Buffer : v[c] # b

\* Every other buffer has the device memory it had.
Elsewhere(x, y, b) ==
  \A c \in Buffer : c # b => /\ y.buf[c].device = x.buf[c].device
                             /\ y.buf[c].device_interface = x.buf[c].device_interface

\* The role of b changes between ones that own what Halide allocated.
Settled(r, s, b) ==
  /\ \A c \in Buffer : c # b => s[c] = r[c]
  /\ s[b] = r[b] \/ {s[b], r[b]} \subseteq {Plain, Joint}

\* What device memory a buffer has is one of four.
LEMMA Roles == Plain # Wrapped /\ Joint # Wrapped /\ Plain # View /\ Joint # View /\ Wrapped # View
BY DEF Plain, Joint, Wrapped, View

\* The memory that a buffer without any is to get has no owner, and the buffer
\* has no views.
LEMMA Unheld ==
  ASSUME NEW x, NEW r, NEW v \in [Buffer -> Buffer \union {NULL}], Owned(x, r, v),
         NEW b \in Buffer, x.buf[b].device = NULL
  PROVE  \A c \in Buffer : v[c] # b
BY BufferAssumption DEF Owned

\* A call that leaves a buffer its device memory leaves every owner its own.
LEMMA HeldKept ==
  ASSUME NEW x, NEW y, NEW r, NEW s, NEW v \in [Buffer -> Buffer \union {NULL}], Held(x, r, v),
         NEW b \in Buffer, Elsewhere(x, y, b), Keeps(x, y, b), Settled(r, s, b)
  PROVE  Held(y, s, v)
<1>1. \A c \in Buffer : /\ y.buf[c].device = x.buf[c].device
                        /\ y.buf[c].device_interface = x.buf[c].device_interface
  BY DEF Elsewhere, Keeps
<1>2. y.live = x.live
  BY DEF Keeps
<1>3. \A c \in Buffer : /\ s[c] \in {Plain, Joint} <=> r[c] \in {Plain, Joint}
                        /\ s[c] = View <=> r[c] = View
                        /\ s[c] = Wrapped <=> r[c] = Wrapped
  BY Roles DEF Settled
<1>4. Owned(y, s, v)
  <2>1. \A h \in y.live : \E c \in Buffer : s[c] \in {Plain, Joint} /\ y.buf[c].device = h
    BY <1>1, <1>2, <1>3 DEF Held, Owned
  <2>2. ASSUME NEW c \in Buffer
        PROVE  /\ Named(y, c)
               /\ s[c] = View <=> v[c] # NULL
               /\ s[c] \in {Plain, Joint} => y.buf[c].device \in y.live \union {NULL}
               /\ s[c] = Wrapped => y.buf[c].device \in Native
    BY <1>1, <1>2, <1>3 DEF Held, Owned, Named
  <2>3. ASSUME NEW c \in Buffer, v[c] # NULL
        PROVE  /\ v[v[c]] = NULL /\ y.buf[c].device # NULL
               /\ y.buf[c].device = y.buf[v[c]].device
               /\ y.buf[c].device_interface = y.buf[v[c]].device_interface
    <3>1. v[c] \in Buffer
      BY <2>3
    <3>. QED
      BY <1>1, <2>3, <3>1 DEF Held, Owned
  <2>. QED
    BY <2>1, <2>2, <2>3 DEF Owned
<1>5. Unshared(y, v)
  BY <1>1 DEF Held, Unshared
<1>. QED
  BY <1>4, <1>5 DEF Held

\* And so does one that gets new memory for a buffer that is no view.
LEMMA HeldGained ==
  ASSUME NEW x \in MachineZ, NEW y, NEW r \in [Buffer -> Role], NEW s,
         NEW v \in [Buffer -> Buffer \union {NULL}], Held(x, r, v),
         NEW b \in Buffer, v[b] = NULL, Elsewhere(x, y, b), NEW i \in Interface, Gains(x, y, b, i),
         Settled(r, s, b)
  PROVE  Held(y, s, v)
<1>. DEFINE h == y.buf[b].device
<1>1. /\ x.buf[b].device = NULL /\ h \in Handle \ x.live /\ h # NULL /\ h \notin Native
      /\ y.buf[b].device_interface = i /\ i # NULL /\ y.live = x.live \union {h}
  BY HandleAssumption, InterfaceAssumption DEF Gains
<1>2. \A c \in Buffer : v[c] # b
  BY <1>1, Unheld DEF Held
<1>3. r[b] \in {Plain, Joint} /\ s[b] \in {Plain, Joint}
  <2>1. r[b] # View /\ r[b] # Wrapped
    BY <1>1, HandleAssumption DEF Held, Owned
  <2>. QED
    BY <2>1 DEF Role, Settled
<1>4. \A c \in Buffer : c # b => /\ y.buf[c].device = x.buf[c].device
                                 /\ y.buf[c].device_interface = x.buf[c].device_interface
                                 /\ s[c] = r[c]
  BY DEF Elsewhere, Settled
<1>. HIDE DEF h
<1>5. \A c \in Buffer : c # b => y.buf[c].device # h
  <2>. SUFFICES ASSUME NEW c \in Buffer, c # b, x.buf[c].device = h
                PROVE  FALSE
    BY <1>4
  <2>1. ASSUME NEW d \in Buffer, x.buf[d].device = h, v[d] = NULL
        PROVE  FALSE
    <3>1. r[d] \in {Plain, Joint, Wrapped}
      BY <2>1 DEF Held, Owned, Role
    <3>. QED
      BY <1>1, <2>1, <3>1 DEF Held, Owned
  <2>2. CASE v[c] = NULL
    BY <2>1, <2>2
  <2>3. CASE v[c] # NULL
    <3>1. v[c] \in Buffer /\ x.buf[v[c]].device = h /\ v[v[c]] = NULL
      BY <2>3 DEF Held, Owned
    <3>. QED
      BY <2>1, <3>1
  <2>. QED
    BY <2>2, <2>3
<1>6. Owned(y, s, v)
  <2>1. \A k \in y.live : \E c \in Buffer : s[c] \in {Plain, Joint} /\ y.buf[c].device = k
    <3>1. ASSUME NEW k \in x.live
          PROVE  \E c \in Buffer : s[c] \in {Plain, Joint} /\ y.buf[c].device = k
      <4>1. PICK c \in Buffer : r[c] \in {Plain, Joint} /\ x.buf[c].device = k
        BY DEF Held, Owned
      <4>2. c # b
        BY <1>1, <4>1, HandleAssumption DEF MachineZ
      <4>. QED
        BY <1>4, <4>1, <4>2
    <3>. QED
      BY <1>1, <1>3, <3>1 DEF h
  <2>2. ASSUME NEW c \in Buffer
        PROVE  /\ Named(y, c)
               /\ s[c] = View <=> v[c] # NULL
               /\ s[c] \in {Plain, Joint} => y.buf[c].device \in y.live \union {NULL}
               /\ s[c] = Wrapped => y.buf[c].device \in Native
    <3>1. CASE c = b
      BY <1>1, <1>3, <3>1, Roles DEF Named, h
    <3>2. CASE c # b
      BY <1>1, <1>4, <3>2 DEF Held, Owned, Named
    <3>. QED
      BY <3>1, <3>2
  <2>3. ASSUME NEW c \in Buffer, v[c] # NULL
        PROVE  /\ v[v[c]] = NULL /\ y.buf[c].device # NULL
               /\ y.buf[c].device = y.buf[v[c]].device
               /\ y.buf[c].device_interface = y.buf[v[c]].device_interface
    <3>1. v[c] \in Buffer /\ v[c] # b /\ c # b
      BY <1>2, <2>3
    <3>. QED
      BY <1>4, <2>3, <3>1 DEF Held, Owned
  <2>. QED
    BY <2>1, <2>2, <2>3 DEF Owned
<1>7. Unshared(y, v)
  <2>. SUFFICES ASSUME NEW c \in Buffer, NEW d \in Buffer, c # d,
                       y.buf[c].device = y.buf[d].device, y.buf[c].device # NULL
                PROVE  Root(v, c) = Root(v, d)
    BY DEF Unshared
  <2>1. c # b /\ d # b
    BY <1>5 DEF h
  <2>. QED
    BY <1>4, <2>1 DEF Held, Unshared
<1>. QED
  BY <1>6, <1>7 DEF Held

\* A buffer that no view shares gives up its memory, which is freed if Halide
\* allocated it.
LEMMA HeldLost ==
  ASSUME NEW x \in MachineZ, NEW y, NEW r \in [Buffer -> Role], NEW s,
         NEW v \in [Buffer -> Buffer \union {NULL}], Held(x, r, v),
         NEW b \in Buffer, Single(v, b), Elsewhere(x, y, b),
         y.buf[b].device = NULL, y.buf[b].device_interface = NULL,
         y.live = IF r[b] = Wrapped THEN x.live ELSE x.live \ {x.buf[b].device},
         s[b] \in {Plain, Joint}, \A c \in Buffer : c # b => s[c] = r[c]
  PROVE  Held(y, s, v)
<1>1. \A c \in Buffer : c # b => /\ y.buf[c].device = x.buf[c].device
                                 /\ y.buf[c].device_interface = x.buf[c].device_interface
                                 /\ s[c] = r[c]
  BY DEF Elsewhere
<1>2. v[b] = NULL /\ \A c \in Buffer : v[c] # b
  BY DEF Single
<1>3. \A c \in Buffer : c # b /\ x.buf[c].device # NULL => x.buf[c].device # x.buf[b].device
  <2>. SUFFICES ASSUME NEW c \in Buffer, c # b, x.buf[c].device # NULL, x.buf[c].device = x.buf[b].device
                PROVE  FALSE
    OBVIOUS
  <2>1. Root(v, c) = Root(v, b)
    BY DEF Held, Unshared
  <2>. QED
    BY <1>2, <2>1 DEF Root
<1>4. Owned(y, s, v)
  <2>1. ASSUME NEW h \in y.live
        PROVE  \E c \in Buffer : s[c] \in {Plain, Joint} /\ y.buf[c].device = h
    <3>1. h \in x.live /\ (r[b] = Wrapped \/ h # x.buf[b].device)
      BY <2>1
    <3>2. PICK c \in Buffer : r[c] \in {Plain, Joint} /\ x.buf[c].device = h
      BY <3>1 DEF Held, Owned
    <3>3. c # b
      BY <3>1, <3>2, Roles
    <3>. QED
      BY <1>1, <3>2, <3>3
  <2>2. ASSUME NEW c \in Buffer
        PROVE  /\ Named(y, c)
               /\ s[c] = View <=> v[c] # NULL
               /\ s[c] \in {Plain, Joint} => y.buf[c].device \in y.live \union {NULL}
               /\ s[c] = Wrapped => y.buf[c].device \in Native
    <3>1. CASE c = b
      BY <1>2, <3>1, Roles DEF Named
    <3>2. CASE c # b
      <4>1. /\ Named(y, c)
            /\ s[c] = View <=> v[c] # NULL
            /\ s[c] = Wrapped => y.buf[c].device \in Native
        BY <1>1, <3>2 DEF Held, Owned, Named
      <4>2. ASSUME s[c] \in {Plain, Joint}
            PROVE  y.buf[c].device \in y.live \union {NULL}
        <5>1. x.buf[c].device \in x.live \union {NULL}
          BY <1>1, <3>2, <4>2 DEF Held, Owned
        <5>. QED
          BY <1>1, <1>3, <3>2, <5>1
      <4>. QED
        BY <4>1, <4>2
    <3>. QED
      BY <3>1, <3>2
  <2>3. ASSUME NEW c \in Buffer, v[c] # NULL
        PROVE  /\ v[v[c]] = NULL /\ y.buf[c].device # NULL
               /\ y.buf[c].device = y.buf[v[c]].device
               /\ y.buf[c].device_interface = y.buf[v[c]].device_interface
    <3>1. v[c] \in Buffer /\ v[c] # b /\ c # b
      BY <1>2, <2>3
    <3>. QED
      BY <1>1, <2>3, <3>1 DEF Held, Owned
  <2>. QED
    BY <2>1, <2>2, <2>3 DEF Owned
<1>5. Unshared(y, v)
  <2>. SUFFICES ASSUME NEW c \in Buffer, NEW d \in Buffer, c # d,
                       y.buf[c].device = y.buf[d].device, y.buf[c].device # NULL
                PROVE  Root(v, c) = Root(v, d)
    BY DEF Unshared
  <2>1. c # b /\ d # b
    OBVIOUS
  <2>. QED
    BY <1>1, <2>1 DEF Held, Unshared
<1>. QED
  BY <1>4, <1>5 DEF Held

\* A native handle that no buffer has is wrapped.
LEMMA HeldWrapped ==
  ASSUME NEW x \in MachineZ, NEW y, NEW r \in [Buffer -> Role],
         NEW v \in [Buffer -> Buffer \union {NULL}], Held(x, r, v),
         NEW b \in Buffer, v[b] = NULL, NEW h \in Native, \A c \in Buffer : x.buf[c].device # h,
         x.buf[b].device = NULL, NEW i \in Interface, Elsewhere(x, y, b),
         y.buf[b].device = h, y.buf[b].device_interface = i, y.live = x.live
  PROVE  Held(y, [r EXCEPT ![b] = Wrapped], v)
<1>. DEFINE s == [r EXCEPT ![b] = Wrapped]
<1>1. /\ h # NULL /\ i # NULL
      /\ \A k \in x.live : k # NULL
  BY HandleAssumption, InterfaceAssumption DEF MachineZ
<1>2. \A c \in Buffer : v[c] # b
  BY Unheld DEF Held
<1>3. s[b] = Wrapped
  OBVIOUS
<1>4. \A c \in Buffer : c # b => /\ y.buf[c].device = x.buf[c].device
                                 /\ y.buf[c].device_interface = x.buf[c].device_interface
                                 /\ s[c] = r[c]
  BY DEF Elsewhere
<1>. HIDE DEF s
<1>5. Owned(y, s, v)
  <2>1. ASSUME NEW k \in y.live
        PROVE  \E c \in Buffer : s[c] \in {Plain, Joint} /\ y.buf[c].device = k
    <3>1. PICK c \in Buffer : r[c] \in {Plain, Joint} /\ x.buf[c].device = k
      BY DEF Held, Owned
    <3>2. c # b
      BY <1>1, <3>1
    <3>. QED
      BY <1>4, <3>1, <3>2
  <2>2. ASSUME NEW c \in Buffer
        PROVE  /\ Named(y, c)
               /\ s[c] = View <=> v[c] # NULL
               /\ s[c] \in {Plain, Joint} => y.buf[c].device \in y.live \union {NULL}
               /\ s[c] = Wrapped => y.buf[c].device \in Native
    <3>1. CASE c = b
      BY <1>1, <1>3, <3>1, Roles DEF Named
    <3>2. CASE c # b
      BY <1>4, <3>2 DEF Held, Owned, Named
    <3>. QED
      BY <3>1, <3>2
  <2>3. ASSUME NEW c \in Buffer, v[c] # NULL
        PROVE  /\ v[v[c]] = NULL /\ y.buf[c].device # NULL
               /\ y.buf[c].device = y.buf[v[c]].device
               /\ y.buf[c].device_interface = y.buf[v[c]].device_interface
    <3>1. v[c] \in Buffer /\ v[c] # b /\ c # b
      BY <1>2, <2>3
    <3>. QED
      BY <1>4, <2>3, <3>1 DEF Held, Owned
  <2>. QED
    BY <2>1, <2>2, <2>3 DEF Owned
<1>6. Unshared(y, v)
  <2>. SUFFICES ASSUME NEW c \in Buffer, NEW d \in Buffer, c # d,
                       y.buf[c].device = y.buf[d].device, y.buf[c].device # NULL
                PROVE  Root(v, c) = Root(v, d)
    BY DEF Unshared
  <2>1. c # b /\ d # b
    BY <1>4
  <2>. QED
    BY <1>4, <2>1 DEF Held, Unshared
<1>7. Held(y, s, v)
  BY <1>5, <1>6 DEF Held
<1>. QED
  BY <1>7 DEF s

\* Buffer d becomes a view of b.
LEMMA HeldCropped ==
  ASSUME NEW x \in MachineZ, NEW y, NEW r \in [Buffer -> Role],
         NEW v \in [Buffer -> Buffer \union {NULL}], Held(x, r, v),
         NEW b \in Buffer, v[b] = NULL, x.buf[b].device # NULL,
         NEW d \in Buffer, d # b, Single(v, d), x.buf[d].device = NULL, Elsewhere(x, y, d),
         y.buf[d].device = x.buf[b].device,
         y.buf[d].device_interface = x.buf[b].device_interface, y.live = x.live
  PROVE  Held(y, [r EXCEPT ![d] = View], [v EXCEPT ![d] = b])
<1>. DEFINE s == [r EXCEPT ![d] = View]
            w == [v EXCEPT ![d] = b]
<1>1. v[d] = NULL /\ \A c \in Buffer : v[c] # d
  BY DEF Single
<1>2. s[d] = View /\ w[d] = b /\ w[b] = NULL /\ b # NULL
  BY BufferAssumption
<1>3. \A c \in Buffer : c # d => /\ y.buf[c].device = x.buf[c].device
                                 /\ y.buf[c].device_interface = x.buf[c].device_interface
                                 /\ s[c] = r[c] /\ w[c] = v[c]
  BY DEF Elsewhere
<1>4. \A k \in x.live : k # NULL
  BY HandleAssumption DEF MachineZ
<1>. HIDE DEF s, w
<1>5. Owned(y, s, w)
  <2>1. ASSUME NEW k \in y.live
        PROVE  \E c \in Buffer : s[c] \in {Plain, Joint} /\ y.buf[c].device = k
    <3>1. PICK c \in Buffer : r[c] \in {Plain, Joint} /\ x.buf[c].device = k
      BY DEF Held, Owned
    <3>2. c # d
      BY <1>4, <3>1
    <3>. QED
      BY <1>3, <3>1, <3>2
  <2>2. ASSUME NEW c \in Buffer
        PROVE  /\ Named(y, c)
               /\ s[c] = View <=> w[c] # NULL
               /\ s[c] \in {Plain, Joint} => y.buf[c].device \in y.live \union {NULL}
               /\ s[c] = Wrapped => y.buf[c].device \in Native
    <3>1. CASE c = d
      <4>1. Named(x, b)
        BY DEF Held, Owned
      <4>. QED
        BY <1>2, <3>1, <4>1, Roles DEF Named
    <3>2. CASE c # d
      BY <1>3, <3>2 DEF Held, Owned, Named
    <3>. QED
      BY <3>1, <3>2
  <2>3. ASSUME NEW c \in Buffer, w[c] # NULL
        PROVE  /\ w[w[c]] = NULL /\ y.buf[c].device # NULL
               /\ y.buf[c].device = y.buf[w[c]].device
               /\ y.buf[c].device_interface = y.buf[w[c]].device_interface
    <3>1. CASE c = d
      BY <1>2, <1>3, <3>1
    <3>2. CASE c # d
      <4>1. w[c] = v[c] /\ v[c] \in Buffer /\ v[c] # d
        BY <1>1, <1>3, <2>3, <3>2
      <4>. QED
        BY <1>3, <2>3, <3>2, <4>1 DEF Held, Owned
    <3>. QED
      BY <3>1, <3>2
  <2>. QED
    BY <2>1, <2>2, <2>3 DEF Owned
<1>6. Unshared(y, w)
  <2>1. ASSUME NEW c \in Buffer, c # d, y.buf[c].device = x.buf[b].device
        PROVE  Root(w, c) = b
    <3>1. c = b \/ Root(v, c) = Root(v, b)
      BY <1>3, <2>1 DEF Held, Unshared
    <3>. QED
      BY <1>3, <2>1, <3>1 DEF Root
  <2>2. Root(w, d) = b
    BY <1>2 DEF Root
  <2>3. ASSUME NEW c \in Buffer, NEW e \in Buffer, c # e,
               y.buf[c].device = y.buf[e].device, y.buf[c].device # NULL
        PROVE  Root(w, c) = Root(w, e)
    <3>1. CASE c = d \/ e = d
      BY <2>1, <2>2, <2>3, <3>1
    <3>2. CASE c # d /\ e # d
      <4>1. Root(v, c) = Root(v, e)
        BY <1>3, <2>3, <3>2 DEF Held, Unshared
      <4>. QED
        BY <1>3, <3>2, <4>1 DEF Root
    <3>. QED
      BY <3>1, <3>2
  <2>. QED
    BY <2>3 DEF Unshared
<1>7. Held(y, s, w)
  BY <1>5, <1>6 DEF Held
<1>. QED
  BY <1>7 DEF s, w

\* The view b is released.
LEMMA HeldReleased ==
  ASSUME NEW x \in MachineZ, NEW y, NEW r \in [Buffer -> Role],
         NEW v \in [Buffer -> Buffer \union {NULL}], Held(x, r, v),
         NEW b \in Buffer, r[b] = View, Elsewhere(x, y, b),
         y.buf[b].device = NULL, y.buf[b].device_interface = NULL, y.live = x.live
  PROVE  Held(y, [r EXCEPT ![b] = Plain], [v EXCEPT ![b] = NULL])
<1>. DEFINE s == [r EXCEPT ![b] = Plain]
            w == [v EXCEPT ![b] = NULL]
<1>1. v[b] # NULL /\ \A c \in Buffer : v[c] # b
  <2>1. v[b] # NULL
    BY DEF Held, Owned
  <2>. QED
    BY <2>1, BufferAssumption DEF Held, Owned
<1>2. s[b] = Plain /\ w[b] = NULL
  OBVIOUS
<1>3. \A c \in Buffer : c # b => /\ y.buf[c].device = x.buf[c].device
                                 /\ y.buf[c].device_interface = x.buf[c].device_interface
                                 /\ s[c] = r[c] /\ w[c] = v[c]
  BY DEF Elsewhere
<1>. HIDE DEF s, w
<1>4. Owned(y, s, w)
  <2>1. ASSUME NEW k \in y.live
        PROVE  \E c \in Buffer : s[c] \in {Plain, Joint} /\ y.buf[c].device = k
    <3>1. PICK c \in Buffer : r[c] \in {Plain, Joint} /\ x.buf[c].device = k
      BY DEF Held, Owned
    <3>2. c # b
      BY <3>1, Roles
    <3>. QED
      BY <1>3, <3>1, <3>2
  <2>2. ASSUME NEW c \in Buffer
        PROVE  /\ Named(y, c)
               /\ s[c] = View <=> w[c] # NULL
               /\ s[c] \in {Plain, Joint} => y.buf[c].device \in y.live \union {NULL}
               /\ s[c] = Wrapped => y.buf[c].device \in Native
    <3>1. CASE c = b
      BY <1>2, <3>1, Roles DEF Named
    <3>2. CASE c # b
      BY <1>3, <3>2 DEF Held, Owned, Named
    <3>. QED
      BY <3>1, <3>2
  <2>3. ASSUME NEW c \in Buffer, w[c] # NULL
        PROVE  /\ w[w[c]] = NULL /\ y.buf[c].device # NULL
               /\ y.buf[c].device = y.buf[w[c]].device
               /\ y.buf[c].device_interface = y.buf[w[c]].device_interface
    <3>1. c # b /\ w[c] = v[c] /\ v[c] \in Buffer /\ v[c] # b
      BY <1>1, <1>2, <1>3, <2>3
    <3>. QED
      BY <1>3, <2>3, <3>1 DEF Held, Owned
  <2>. QED
    BY <2>1, <2>2, <2>3 DEF Owned
<1>5. Unshared(y, w)
  <2>. SUFFICES ASSUME NEW c \in Buffer, NEW d \in Buffer, c # d,
                       y.buf[c].device = y.buf[d].device, y.buf[c].device # NULL
                PROVE  Root(w, c) = Root(w, d)
    BY DEF Unshared
  <2>1. c # b /\ d # b
    OBVIOUS
  <2>2. Root(v, c) = Root(v, d)
    BY <1>3, <2>1 DEF Held, Unshared
  <2>. QED
    BY <1>3, <2>1, <2>2 DEF Root
<1>6. Held(y, s, w)
  BY <1>4, <1>5 DEF Held
<1>. QED
  BY <1>6 DEF s, w

-----------------------------------------------------------------------------
(***************************************************************************)
(* The actions.                                                            *)
(***************************************************************************)
\* A call on buffer b leaves a good state, if it does so for b.
LEMMA GoodStep ==
  ASSUME NEW x, NEW r, NEW v, Good(x, r, v), NEW b \in Buffer,
         NEW y, Frame(x, y, b), Counted(x, y, b), Truthful(y, b),
         NEW s \in [Buffer -> Role], NEW w \in [Buffer -> Buffer \union {NULL}], Held(y, s, w)
  PROVE  Good(y, s, w)
<1>1. y \in MachineZ /\ \A c \in Buffer : c # b =>
        y.buf[c] = x.buf[c] /\ y.fresh[c] = x.fresh[c] /\ (c \in y.lost <=> c \in x.lost)
  BY DEF Frame
<1>2. x \in MachineZ /\ Referenced(x) /\ \A c \in Buffer : Truthful(x, c)
  BY DEF Good
<1>3. Referenced(y)
  BY <1>1, <1>2, ReferencedStep
<1>4. \A c \in Buffer : Truthful(y, c)
  BY <1>1, <1>2 DEF Truthful
<1>. QED
  BY <1>1, <1>3, <1>4 DEF Good, Held

\* The calls on one buffer leave the others alone.
LEMMA FrameElsewhere ==
  ASSUME NEW x, NEW y, NEW b \in Buffer, Frame(x, y, b)
  PROVE  Elsewhere(x, y, b)
BY DEF Frame, Elsewhere

\* The program gives up content.
LEMMA GoodLost ==
  ASSUME NEW x, NEW r, NEW v, Good(x, r, v), NEW l \in SUBSET Buffer, x.lost \subseteq l
  PROVE  Good([x EXCEPT !.lost = l], r, v)
<1>. DEFINE y == [x EXCEPT !.lost = l]
<1>1. x \in MachineZ
  BY DEF Good
<1>2. /\ y \in MachineZ
      /\ y.buf = x.buf /\ y.live = x.live /\ y.refs = x.refs /\ y.fresh = x.fresh /\ y.lost = l
  BY <1>1, LostFields
<1>. HIDE DEF y
<1>3. Referenced(y)
  BY <1>2 DEF Good, Referenced, HoldersIn
<1>4. Owned(y, r, v) /\ Unshared(y, v)
  BY <1>2 DEF Good, Owned, Unshared, Named
<1>5. \A c \in Buffer : Truthful(y, c)
  BY <1>2 DEF Good, Truthful
<1>6. Good(y, r, v)
  BY <1>2, <1>3, <1>4, <1>5 DEF Good
<1>. QED
  BY <1>6 DEF y

\* Nothing changes hands.
LEMMA SettledSame ==
  ASSUME NEW r, NEW b
  PROVE  Settled(r, r, b)
BY DEF Settled

\* The program writes a memory of b.
LEMMA WrittenGood ==
  ASSUME NEW x, NEW r, NEW v, Good(x, r, v), NEW b \in Buffer,
         NEW bit, NEW memory,
         \/ bit = "host_dirty" /\ memory = Host /\ x.buf[b].host /\ ~x.buf[b].device_dirty
         \/ bit = "device_dirty" /\ memory = Device /\ x.buf[b].device # NULL /\ ~x.buf[b].host_dirty,
         NEW l, l = x.lost \ {b}
  PROVE  Good([Raised(x, b, bit) EXCEPT !.fresh[b] = {memory}, !.lost = l], r, v)
<1>. DEFINE k == Raised(x, b, bit)
            f == {memory}
            y == [k EXCEPT !.fresh[b] = f, !.lost = l]
<1>1. x \in MachineZ /\ Held(x, r, v) /\ v \in [Buffer -> Buffer \union {NULL}] /\ r \in [Buffer -> Role]
  BY DEF Good, Held
<1>2. bit \in Bit /\ bit # "host" /\ Host # Device /\ "host_dirty" # "device_dirty"
  BY DEF Bit, Host, Device
<1>3. Frame(x, k, b) /\ Counted(x, k, b) /\ Keeps(x, k, b) /\ SameContent(x, k)
  BY <1>1, <1>2, BitOnly
<1>4. /\ k.buf[b].host = x.buf[b].host
      /\ bit = "host_dirty" => k.buf[b].host_dirty
      /\ bit # "host_dirty" => k.buf[b].host_dirty = x.buf[b].host_dirty
      /\ bit = "device_dirty" => k.buf[b].device_dirty
      /\ bit # "device_dirty" => k.buf[b].device_dirty = x.buf[b].device_dirty
  BY <1>1, <1>2, SetFields
<1>. HIDE DEF k
<1>5. k \in MachineZ /\ f \in SUBSET {Host, Device} /\ l \in SUBSET Buffer
  BY <1>1, <1>3 DEF Frame, MachineZ
<1>6. Rewritten(k, y, b, f, l)
  <2>. HIDE DEF f
  <2>. QED
    BY <1>5, ContentFields
<1>. HIDE DEF y
<1>7. Frame(x, y, b)
  BY <1>3, <1>6 DEF Frame, Rewritten, Inert, SameContent
<1>8. Counted(x, y, b)
  BY <1>3, <1>6 DEF Counted, Holding, Rewritten, Inert
<1>9. Keeps(x, y, b)
  BY <1>3, <1>6 DEF Keeps, Rewritten, Inert
<1>10. Truthful(y, b)
  BY <1>2, <1>4, <1>6, <1>9 DEF Truthful, Rewritten, Inert, Keeps
<1>11. Held(y, r, v)
  BY <1>1, <1>7, <1>9, FrameElsewhere, SettledSame, HeldKept
<1>12. Good(y, r, v)
  BY <1>1, <1>7, <1>8, <1>10, <1>11, GoodStep
<1>. QED
  BY <1>12 DEF y, k

\* The program writes on the host, or runs a kernel.
LEMMA Write ==
  ASSUME IInv, NEW b \in Buffer, WriteHost(b) \/ RunKernel(b)
  PROVE  IInv'
<1>. DEFINE l == m.lost \ {b}
<1>1. CASE WriteHost(b)
  <2>1. m' = [Raised(m, b, "host_dirty") EXCEPT !.fresh[b] = {Host}, !.lost = l]
    BY <1>1 DEF WriteHost, Written, Raised, SetBit
  <2>2. m.buf[b].host /\ ~m.buf[b].device_dirty /\ Good(m, role, view)
    BY <1>1 DEF WriteHost, IInv
  <2>3. Good([Raised(m, b, "host_dirty") EXCEPT !.fresh[b] = {Host}, !.lost = l], role, view)
    BY <2>2, WrittenGood
  <2>. QED
    BY <1>1, <2>1, <2>3 DEF WriteHost, IInv
<1>2. CASE RunKernel(b)
  <2>1. m' = [Raised(m, b, "device_dirty") EXCEPT !.fresh[b] = {Device}, !.lost = l]
    BY <1>2 DEF RunKernel, Written, Raised, SetBit
  <2>2. m.buf[b].device # NULL /\ ~m.buf[b].host_dirty /\ Good(m, role, view)
    BY <1>2 DEF RunKernel, IInv
  <2>3. Good([Raised(m, b, "device_dirty") EXCEPT !.fresh[b] = {Device}, !.lost = l], role, view)
    BY <2>2, WrittenGood
  <2>. QED
    BY <1>2, <2>1, <2>3 DEF RunKernel, IInv
<1>. QED
  BY <1>1, <1>2

\* What the calls find in a good state.
LEMMA GoodFacts ==
  ASSUME NEW x, NEW r, NEW v, Good(x, r, v)
  PROVE  /\ x \in MachineZ /\ r \in [Buffer -> Role] /\ v \in [Buffer -> Buffer \union {NULL}]
         /\ Held(x, r, v)
         /\ \A b \in Buffer : Truthful(x, b) /\ Named(x, b)
BY DEF Good, Held, Owned

\* A copy inside buffer b, which may get device memory if it is not a view.
LEMMA GoodTransfer ==
  ASSUME NEW x, NEW r, NEW v, Good(x, r, v), NEW b \in Buffer,
         NEW y, Frame(x, y, b), Counted(x, y, b), Truthful(y, b),
         Keeps(x, y, b) \/ (v[b] = NULL /\ \E i \in Interface : Gains(x, y, b, i)),
         NEW s \in [Buffer -> Role], Settled(r, s, b)
  PROVE  Good(y, s, v)
<1>1. /\ x \in MachineZ /\ r \in [Buffer -> Role] /\ v \in [Buffer -> Buffer \union {NULL}]
      /\ Held(x, r, v) /\ Elsewhere(x, y, b)
  BY GoodFacts, FrameElsewhere
<1>2. CASE Keeps(x, y, b)
  <2>1. Held(y, s, v)
    BY <1>1, <1>2, HeldKept
  <2>. QED
    BY <1>1, <2>1, GoodStep
<1>3. CASE v[b] = NULL /\ \E i \in Interface : Gains(x, y, b, i)
  <2>1. Held(y, s, v)
    BY <1>1, <1>3, HeldGained
  <2>. QED
    BY <1>1, <2>1, GoodStep
<1>. QED
  BY <1>2, <1>3

\* A buffer whose content is to be found in host memory when it gets device memory.
LEMMA MarkedMarks ==
  ASSUME IInv, NEW b \in Buffer, Marked(b)
  PROVE  Marking(m, b)
BY DEF IInv, Good, Marked, Marking, Truthful

\* halide_copy_to_host.
LEMMA Download ==
  ASSUME IInv, NEW b \in Buffer, CopyToHost(b)
  PROVE  IInv'
<1>1. Good(m, role, view) /\ m \in MachineZ /\ m.buf[b].host /\ Truthful(m, b)
  BY GoodFacts DEF IInv, CopyToHost
<1>2. PICK r \in halide_copy_to_host(m, b) :
        m' = r.m /\ read' = (r.err = Success => Handed(r, b, Host))
  BY DEF CopyToHost
<1>3. UNCHANGED <<role, view>>
  BY DEF CopyToHost
<1>4. r = Err(m) \/ r \in copy_to_host_already_locked(m, b)
  BY DEF halide_copy_to_host, Then, Checked, Ok, Err
<1>5. CASE r = Err(m)
  <2>1. r.m = m /\ r.err # Success
    BY <1>5 DEF Err, Success, Failed
  <2>. QED
    BY <1>1, <1>2, <1>3, <2>1 DEF IInv
<1>6. CASE r \in copy_to_host_already_locked(m, b)
  <2>1. Downloads(m, r, b)
    BY <1>1, <1>6, CopyToHostEffect
  <2>2. /\ Frame(m, r.m, b) /\ Counted(m, r.m, b) /\ Keeps(m, r.m, b) /\ Truthful(r.m, b)
        /\ r.err = Success => Handed(r, b, Host)
    BY <1>1, <2>1 DEF Downloads, Transfers, Handed
  <2>3. Good(r.m, role, view)
    BY <1>1, <2>2, GoodTransfer, GoodFacts, SettledSame
  <2>4. read' = TRUE
    BY <1>2, <2>2
  <2>. QED
    BY <1>2, <1>3, <2>3, <2>4 DEF IInv
<1>. QED
  BY <1>4, <1>5, <1>6

\* halide_copy_to_device.
LEMMA Upload ==
  ASSUME MarksHost = TRUE, IInv, NEW b \in Buffer, NEW i \in Interface \union {NULL}, CopyToDevice(b, i)
  PROVE  IInv'
<1>1. Good(m, role, view) /\ m \in MachineZ /\ Truthful(m, b) /\ view[b] = NULL /\ Marking(m, b)
  BY GoodFacts, MarkedMarks DEF IInv, CopyToDevice
<1>2. PICK r \in copy_to_device_already_locked(m, b, i) :
        m' = r.m /\ read' = (r.err = Success => Handed(r, b, Device))
  BY DEF CopyToDevice
<1>3. UNCHANGED <<role, view>>
  BY DEF CopyToDevice
<1>4. ToDevice(m, r, b, i)
  BY <1>1, CopyToDeviceEffect
<1>5. /\ Frame(m, r.m, b) /\ Counted(m, r.m, b) /\ Truthful(r.m, b)
      /\ Keeps(m, r.m, b) \/ \E j \in Interface : Gains(m, r.m, b, j)
      /\ r.err = Success => Handed(r, b, Device)
  BY <1>1, <1>4 DEF ToDevice, Transfers, Handed
<1>6. Good(r.m, role, view)
  BY <1>1, <1>5, GoodTransfer, GoodFacts, SettledSame
<1>7. read' = TRUE
  BY <1>2, <1>5
<1>. QED
  BY <1>2, <1>3, <1>6, <1>7 DEF IInv

\* halide_device_malloc.
LEMMA Malloc ==
  ASSUME MarksHost = TRUE, IInv, NEW b \in Buffer, NEW i \in Interface, DeviceMalloc(b, i)
  PROVE  IInv'
<1>1. Good(m, role, view) /\ m \in MachineZ /\ Truthful(m, b) /\ view[b] = NULL /\ Marking(m, b)
  BY GoodFacts, MarkedMarks DEF IInv, DeviceMalloc, Alone
<1>2. PICK r \in halide_device_malloc(m, b, i) : m' = r.m
  BY DEF DeviceMalloc, Becomes
<1>3. Mallocs(m, r, b, i)
  BY <1>1, MallocEffect
<1>4. /\ Frame(m, r.m, b) /\ Counted(m, r.m, b) /\ Truthful(r.m, b)
      /\ Keeps(m, r.m, b) \/ \E j \in Interface : Gains(m, r.m, b, j)
  BY <1>1, <1>3, MallocTruthful DEF Mallocs
<1>5. Good(r.m, role, view)
  BY <1>1, <1>4, GoodTransfer, GoodFacts, SettledSame
<1>. QED
  BY <1>2, <1>5 DEF IInv, DeviceMalloc

\* Buffer b gives up its device memory, and its content if only that had it.
LEMMA GoodLoss ==
  ASSUME NEW x, NEW r, NEW v, Good(x, r, v), NEW b \in Buffer, Single(v, b),
         NEW y, Frame(x, y, b), Counted(x, y, b), Truthful(y, b),
         y.buf[b].device = NULL, y.buf[b].device_interface = NULL,
         y.live = IF r[b] = Wrapped THEN x.live ELSE x.live \ {x.buf[b].device},
         NEW s \in [Buffer -> Role], s[b] \in {Plain, Joint}, \A c \in Buffer : c # b => s[c] = r[c]
  PROVE  Good(y, s, v)
<1>1. /\ x \in MachineZ /\ r \in [Buffer -> Role] /\ v \in [Buffer -> Buffer \union {NULL}]
      /\ Held(x, r, v) /\ Elsewhere(x, y, b)
  BY GoodFacts, FrameElsewhere
<1>2. Held(y, s, v)
  BY <1>1, HeldLost
<1>. QED
  BY <1>1, <1>2, GoodStep

\* The machine before a call by a program that gives content up.
LEMMA GivenUp ==
  ASSUME IInv, NEW l \in SUBSET Buffer, m.lost \subseteq l
  PROVE  LET g == [m EXCEPT !.lost = l]
         IN  /\ Good(g, role, view) /\ g \in MachineZ
             /\ g.buf = m.buf /\ g.live = m.live /\ g.refs = m.refs /\ g.fresh = m.fresh /\ g.lost = l
<1>. DEFINE g == [m EXCEPT !.lost = l]
<1>1. Good(m, role, view) /\ m \in MachineZ
  BY GoodFacts DEF IInv
<1>2. /\ g \in MachineZ
      /\ g.buf = m.buf /\ g.live = m.live /\ g.refs = m.refs /\ g.fresh = m.fresh /\ g.lost = l
  BY <1>1, LostFields
<1>3. Good(g, role, view)
  BY <1>1, GoodLost
<1>. QED
  BY <1>2, <1>3

\* A buffer whose memory is freed has no views.
LEMMA AloneSingle ==
  ASSUME NEW b \in Buffer, Alone(b)
  PROVE  Single(view, b)
BY DEF Alone, Single

\* halide_device_free.
LEMMA Free ==
  ASSUME IInv, NEW b \in Buffer, DeviceFree(b)
  PROVE  IInv'
<1>. DEFINE l == IF m.buf[b].device_dirty THEN m.lost \union {b} ELSE m.lost
            g == [m EXCEPT !.lost = l]
<1>1. m \in MachineZ
  BY GoodFacts DEF IInv
<1>2. l \in SUBSET Buffer /\ m.lost \subseteq l
  BY <1>1 DEF MachineZ
<1>3. /\ Good(g, role, view) /\ g \in MachineZ
      /\ g.buf = m.buf /\ g.live = m.live /\ g.fresh = m.fresh /\ g.lost = l
  <2>. HIDE DEF l
  <2>. QED
    BY <1>2, GivenUp
<1>4. PICK r \in halide_device_free(g, b) : m' = r.m
  BY DEF DeviceFree, Becomes
<1>5. UNCHANGED <<role, view, read>> /\ role[b] \in {Plain, Joint} /\ Single(view, b)
  BY AloneSingle DEF DeviceFree
<1>. HIDE DEF g
<1>6. b \notin g.lost => ~g.buf[b].device_dirty
  BY <1>3
<1>. HIDE DEF l
<1>7. Frees(g, r, b)
  BY <1>3, FreeEffect
<1>8. /\ role \in [Buffer -> Role] /\ Truthful(g, b) /\ Settled(role, role, b)
      /\ role[b] # Wrapped /\ Host # Device
  BY <1>3, <1>5, GoodFacts, SettledSame, Roles DEF Host, Device
<1>9. CASE Keeps(g, r.m, b)
  <2>1. Truthful(r.m, b)
    BY <1>6, <1>7, <1>8, <1>9 DEF Frees, Truthful, Keeps, Loses, SameBits, SameContent
  <2>2. Good(r.m, role, view)
    BY <1>3, <1>7, <1>8, <1>9, <2>1, GoodTransfer DEF Frees
  <2>. QED
    BY <1>4, <1>5, <2>2 DEF IInv
<1>10. CASE Loses(g, r.m, b) /\ SameBits(g, r.m, b) /\ r.m.fresh[b] = g.fresh[b] \ {Device}
  <2>1. Truthful(r.m, b)
    BY <1>6, <1>7, <1>8, <1>10 DEF Frees, Truthful, Loses, SameBits
  <2>2. Good(r.m, role, view)
    BY <1>3, <1>5, <1>7, <1>8, <1>10, <2>1, GoodLoss DEF Frees, Loses
  <2>. QED
    BY <1>4, <1>5, <2>2 DEF IInv
<1>. QED
  BY <1>7, <1>9, <1>10 DEF Frees

\* halide_device_detach_native.
LEMMA Detach ==
  ASSUME IInv, NEW b \in Buffer, DetachNative(b)
  PROVE  IInv'
<1>. DEFINE l == IF m.buf[b].device_dirty THEN m.lost \union {b} ELSE m.lost
            g == [m EXCEPT !.lost = l]
            s == IF m'.buf[b].device = NULL THEN [role EXCEPT ![b] = Plain] ELSE role
<1>1. m \in MachineZ
  BY GoodFacts DEF IInv
<1>2. l \in SUBSET Buffer /\ m.lost \subseteq l
  BY <1>1 DEF MachineZ
<1>3. /\ Good(g, role, view) /\ g \in MachineZ
      /\ g.buf = m.buf /\ g.live = m.live /\ g.fresh = m.fresh /\ g.lost = l
  <2>. HIDE DEF l
  <2>. QED
    BY <1>2, GivenUp
<1>4. PICK r \in halide_device_detach_native(g, b) : m' = r.m
  BY DEF DetachNative, Becomes
<1>5. UNCHANGED <<view, read>> /\ role[b] = Wrapped /\ Single(view, b) /\ role' = s
  BY AloneSingle DEF DetachNative
<1>. HIDE DEF g
<1>6. b \notin g.lost => ~g.buf[b].device_dirty
  BY <1>3
<1>. HIDE DEF l
<1>7. \/ /\ r.m = g
         /\ Valid(g, b) => g.buf[b].device = NULL
      \/ /\ Valid(g, b)
         /\ Frame(g, r.m, b) /\ Counted(g, r.m, b) /\ SameBits(g, r.m, b)
         /\ r.m.lost = g.lost /\ r.m.fresh[b] = g.fresh[b] \ {Device}
         /\ r.m.live = g.live /\ r.m.buf[b].device = NULL /\ r.m.buf[b].device_interface = NULL
  BY <1>3, DetachEffect
<1>8. role \in [Buffer -> Role] /\ Truthful(g, b) /\ Host # Device /\ g.buf[b].device # NULL
  <2>1. g.buf[b].device \in Native
    BY <1>3, <1>5 DEF Good, Owned
  <2>. QED
    BY <1>3, <2>1, GoodFacts, HandleAssumption DEF Host, Device
<1>9. CASE r.m = g
  BY <1>3, <1>4, <1>5, <1>8, <1>9 DEF IInv
<1>10. CASE /\ Valid(g, b)
            /\ Frame(g, r.m, b) /\ Counted(g, r.m, b) /\ SameBits(g, r.m, b)
            /\ r.m.lost = g.lost /\ r.m.fresh[b] = g.fresh[b] \ {Device}
            /\ r.m.live = g.live /\ r.m.buf[b].device = NULL /\ r.m.buf[b].device_interface = NULL
  <2>. DEFINE t == [role EXCEPT ![b] = Plain]
  <2>1. Truthful(r.m, b)
    BY <1>6, <1>8, <1>10 DEF Truthful, SameBits
  <2>2. t \in [Buffer -> Role] /\ t[b] \in {Plain, Joint} /\ \A c \in Buffer : c # b => t[c] = role[c]
    BY <1>8 DEF Role
  <2>3. role' = t
    BY <1>4, <1>5, <1>10
  <2>. HIDE DEF t
  <2>4. /\ Frame(g, r.m, b) /\ Counted(g, r.m, b)
        /\ r.m.buf[b].device = NULL /\ r.m.buf[b].device_interface = NULL
        /\ r.m.live = IF role[b] = Wrapped THEN g.live ELSE g.live \ {g.buf[b].device}
    BY <1>5, <1>10
  <2>5. Good(g, role, view) /\ Single(view, b)
    BY <1>3, <1>5
  <2>6. Good(r.m, t, view)
    BY <2>1, <2>2, <2>4, <2>5, GoodLoss
  <2>. QED
    BY <1>4, <1>5, <2>3, <2>6 DEF IInv
<1>. QED
  BY <1>7, <1>9, <1>10

\* halide_device_and_host_malloc.
LEMMA MallocBoth ==
  ASSUME IInv, NEW b \in Buffer, NEW i \in Interface, DeviceAndHostMalloc(b, i)
  PROVE  IInv'
<1>1. Good(m, role, view) /\ m \in MachineZ /\ role \in [Buffer -> Role]
  BY GoodFacts DEF IInv
<1>2. view[b] = NULL /\ role[b] = Plain /\ b \in m.lost /\ UNCHANGED <<view, read>>
  BY DEF DeviceAndHostMalloc, Alone
<1>3. PICK r \in halide_device_and_host_malloc(m, b, i) :
        m' = r.m /\ role' = IF r.err = Success THEN [role EXCEPT ![b] = Joint] ELSE role
  BY DEF DeviceAndHostMalloc
<1>4. MallocsBoth(m, r, b, i)
  BY <1>1, BothMallocEffect
<1>5. /\ Frame(m, r.m, b) /\ Counted(m, r.m, b)
      /\ Keeps(m, r.m, b) \/ \E j \in Interface : Gains(m, r.m, b, j)
  BY <1>4 DEF MallocsBoth
<1>6. Truthful(r.m, b)
  BY <1>2, <1>4 DEF MallocsBoth, Truthful
<1>7. role' \in [Buffer -> Role] /\ Settled(role, role', b)
  <2>. DEFINE t == [role EXCEPT ![b] = Joint]
  <2>1. t \in [Buffer -> Role] /\ t[b] = Joint /\ \A c \in Buffer : c # b => t[c] = role[c]
    BY <1>1 DEF Role
  <2>2. role' = t \/ role' = role
    BY <1>3
  <2>. HIDE DEF t
  <2>3. CASE role' = t
    BY <1>2, <2>1, <2>3 DEF Settled
  <2>4. CASE role' = role
    BY <1>1, <2>4 DEF Settled
  <2>. QED
    BY <2>2, <2>3, <2>4
<1>8. Good(r.m, role', view)
  BY <1>1, <1>2, <1>5, <1>6, <1>7, GoodTransfer
<1>. QED
  BY <1>2, <1>3, <1>8 DEF IInv

\* halide_device_and_host_free.
LEMMA FreeBoth ==
  ASSUME IInv, NEW b \in Buffer, DeviceAndHostFree(b)
  PROVE  IInv'
<1>. DEFINE l == m.lost \union {b}
            g == [m EXCEPT !.lost = l]
            s == IF m'.buf[b].device = NULL THEN [role EXCEPT ![b] = Plain] ELSE role
<1>1. m \in MachineZ /\ role \in [Buffer -> Role]
  BY GoodFacts DEF IInv
<1>2. l \in SUBSET Buffer /\ m.lost \subseteq l
  BY <1>1 DEF MachineZ
<1>3. Good(g, role, view) /\ g \in MachineZ /\ g.lost = l
  <2>. HIDE DEF l
  <2>. QED
    BY <1>2, GivenUp
<1>4. PICK r \in halide_device_and_host_free(g, b) : m' = r.m
  BY DEF DeviceAndHostFree, Becomes
<1>5. UNCHANGED <<view, read>> /\ role[b] = Joint /\ Single(view, b) /\ role' = s
  BY AloneSingle DEF DeviceAndHostFree
<1>. HIDE DEF g
<1>6. b \in g.lost
  BY <1>3
<1>. HIDE DEF l
<1>7. FreesBoth(g, r, b)
  BY <1>3, BothFreeEffect
<1>8. Frame(g, r.m, b) /\ Counted(g, r.m, b) /\ Truthful(r.m, b)
  BY <1>6, <1>7 DEF FreesBoth, Truthful
<1>9. /\ s \in [Buffer -> Role] /\ s[b] \in {Plain, Joint}
      /\ \A c \in Buffer : c # b => s[c] = role[c]
  <2>. DEFINE t == [role EXCEPT ![b] = Plain]
  <2>1. t \in [Buffer -> Role] /\ t[b] = Plain /\ \A c \in Buffer : c # b => t[c] = role[c]
    BY <1>1 DEF Role
  <2>2. s = t \/ s = role
    OBVIOUS
  <2>. HIDE DEF t, s
  <2>. QED
    BY <1>1, <1>5, <2>1, <2>2
<1>. HIDE DEF s
<1>10. Settled(role, s, b) /\ role[b] # Wrapped
  BY <1>5, <1>9, Roles DEF Settled
<1>11. CASE Keeps(g, r.m, b)
  <2>1. Good(r.m, s, view)
    BY <1>3, <1>8, <1>9, <1>10, <1>11, GoodTransfer
  <2>. QED
    BY <1>4, <1>5, <2>1 DEF IInv
<1>12. CASE Loses(g, r.m, b)
  <2>1. /\ r.m.buf[b].device = NULL /\ r.m.buf[b].device_interface = NULL
        /\ r.m.live = IF role[b] = Wrapped THEN g.live ELSE g.live \ {g.buf[b].device}
    BY <1>10, <1>12 DEF Loses
  <2>2. Good(r.m, s, view)
    BY <1>3, <1>5, <1>8, <1>9, <2>1, GoodLoss
  <2>. QED
    BY <1>4, <1>5, <2>2 DEF IInv
<1>. QED
  BY <1>7, <1>11, <1>12 DEF FreesBoth

\* halide_device_wrap_native.
LEMMA Wrap ==
  ASSUME DefaultWrap = {}, MarksHost = TRUE,
         IInv, NEW b \in Buffer, NEW h \in Native, NEW i \in Interface, WrapNative(b, h, i)
  PROVE  IInv'
<1>1. /\ Good(m, role, view) /\ m \in MachineZ /\ role \in [Buffer -> Role]
      /\ view \in [Buffer -> Buffer \union {NULL}] /\ Held(m, role, view)
  BY GoodFacts DEF IInv
<1>2. /\ view[b] = NULL /\ m.buf[b].device = NULL /\ UNCHANGED <<view, read>>
      /\ \A c \in Buffer : m.buf[c].device # h
      /\ Marking(m, b) /\ Truthful(m, b)
  BY <1>1, MarkedMarks, GoodFacts DEF WrapNative, Alone
<1>. DEFINE t == [role EXCEPT ![b] = Wrapped]
<1>3. PICK r \in halide_device_wrap_native(m, b, h, i) :
        m' = r.m /\ role' = IF r.err = Success THEN t ELSE role
  BY DEF WrapNative
<1>4. t \in [Buffer -> Role]
  BY <1>1 DEF Role
<1>5. CASE r.m = m /\ r.err # Success
  BY <1>1, <1>2, <1>3, <1>5 DEF IInv
<1>6. CASE r.err = Success /\ Takes(m, r.m, b, h, i)
  <2>1. /\ Frame(m, r.m, b) /\ Counted(m, r.m, b)
        /\ r.m.buf[b].device = h /\ r.m.buf[b].device_interface = i /\ r.m.live = m.live
    BY <1>6 DEF Takes
  <2>2. Elsewhere(m, r.m, b)
    BY <2>1, FrameElsewhere
  <2>3. Held(r.m, t, view)
    BY <1>1, <1>2, <2>1, <2>2, HeldWrapped
  <2>4. Truthful(r.m, b)
    <3>1. h # NULL
      BY HandleAssumption
    <3>. QED
      BY <1>2, <1>6, <3>1 DEF Takes, SameBits, SameContent, Truthful, Marking
  <2>. HIDE DEF t
  <2>5. Good(r.m, t, view)
    BY <1>1, <1>4, <2>1, <2>3, <2>4, GoodStep
  <2>. QED
    BY <1>2, <1>3, <1>6, <2>5 DEF IInv
<1>. HIDE DEF t
<1>. QED
  BY <1>1, <1>5, <1>6, WrapEffect

\* All of buffer b is replaced.
Replaced(x, n, b, B, f, l) ==
  /\ n \in MachineZ /\ n.live = x.live /\ n.refs = x.refs /\ n.lost = l
  /\ n.buf[b] = B /\ n.fresh[b] = f
  /\ \A c \in Buffer : c # b => n.buf[c] = x.buf[c] /\ n.fresh[c] = x.fresh[c]

\* A view is made: one buffer is overwritten.
LEMMA ReplacedFields ==
  ASSUME NEW x \in MachineZ, NEW b \in Buffer, NEW B \in BufferT, NEW f \in SUBSET {Host, Device},
         NEW l \in SUBSET Buffer
  PROVE  Replaced(x, [x EXCEPT !.buf[b] = B, !.fresh[b] = f, !.lost = l], b, B, f, l)
<1>. DEFINE k == [x EXCEPT !.buf[b] = B]
            j == [k EXCEPT !.fresh[b] = f, !.lost = l]
            n == [x EXCEPT !.buf[b] = B, !.fresh[b] = f, !.lost = l]
<1>1. /\ k \in MachineZ /\ k.live = x.live /\ k.refs = x.refs /\ k.fresh = x.fresh
      /\ k.buf[b] = B /\ \A c \in Buffer : c # b => k.buf[c] = x.buf[c]
  BY DEF MachineZ
<1>2. n = j
  BY DEF MachineZ
<1>. HIDE DEF k, n
<1>3. Rewritten(k, j, b, f, l)
  BY <1>1, ContentFields
<1>. HIDE DEF j
<1>4. Replaced(x, n, b, B, f, l)
  BY <1>1, <1>2, <1>3 DEF Replaced, Rewritten, Inert
<1>. QED
  BY <1>4 DEF n

\* A crop that fails leaves the program its buffers, and may leave a reference
\* too many.
LEMMA GoodLeak ==
  ASSUME NEW x, NEW r, NEW v, Good(x, r, v), NEW i \in CropMayFail
  PROVE  Good([x EXCEPT !.refs = Use(x, i).refs], r, v)
<1>. DEFINE u == Use(x, i)
            y == [x EXCEPT !.refs = Use(x, i).refs]
<1>1. x \in MachineZ /\ i \in Interface
  BY GoodFacts, InterfaceAssumption
<1>2. /\ u \in MachineZ /\ u.buf = x.buf /\ u.live = x.live /\ u.fresh = x.fresh /\ u.lost = x.lost
      /\ \A j \in Interface : u.refs[j] = x.refs[j] + IF i = j THEN 1 ELSE 0
  BY <1>1, UseFields
<1>3. y = u
  BY <1>1 DEF MachineZ, Use
<1>. HIDE DEF y, u
<1>4. Referenced(u)
  <2>. SUFFICES ASSUME NEW j \in Interface
                PROVE  /\ u.refs[j] >= Cardinality(HoldersIn(u, j))
                       /\ j \notin CropMayFail => u.refs[j] = Cardinality(HoldersIn(u, j))
    BY DEF Referenced
  <2>1. HoldersIn(u, j) = HoldersIn(x, j)
    BY <1>2 DEF HoldersIn
  <2>2. Cardinality(HoldersIn(x, j)) \in Nat /\ x.refs[j] \in Int
    BY <1>1, HoldersFinite DEF MachineZ
  <2>3. /\ x.refs[j] >= Cardinality(HoldersIn(x, j))
        /\ j \notin CropMayFail => x.refs[j] = Cardinality(HoldersIn(x, j))
    BY DEF Good, Referenced
  <2>. QED
    BY <1>2, <2>1, <2>2, <2>3
<1>5. Owned(u, r, v) /\ Unshared(u, v)
  BY <1>2 DEF Good, Owned, Unshared, Named
<1>6. \A c \in Buffer : Truthful(u, c)
  BY <1>2 DEF Good, Truthful
<1>7. Good(u, r, v)
  BY <1>2, <1>4, <1>5, <1>6 DEF Good
<1>. QED
  BY <1>3, <1>7 DEF y

\* halide_device_crop and halide_device_slice.
LEMMA MakeCrop ==
  ASSUME IInv, NEW src \in Buffer, NEW dst \in Buffer, Crop(src, dst)
  PROVE  IInv'
<1>. DEFINE B1 == [m.buf[src] EXCEPT !.device = NULL]
            B == [B1 EXCEPT !.device_interface = NULL]
            f == m.fresh[src]
            l == IF src \in m.lost THEN m.lost ELSE m.lost \ {dst}
            copied == [m EXCEPT !.buf[dst] = B, !.fresh[dst] = f, !.lost = l]
            i == m.buf[src].device_interface
            s == [role EXCEPT ![dst] = View]
            w == [view EXCEPT ![dst] = src]
<1>1. /\ Good(m, role, view) /\ m \in MachineZ /\ role \in [Buffer -> Role]
      /\ view \in [Buffer -> Buffer \union {NULL}] /\ Held(m, role, view)
      /\ Truthful(m, src) /\ Named(m, src)
  BY GoodFacts DEF IInv
<1>2. /\ view[src] = NULL /\ Single(view, dst) /\ src # dst
      /\ m.buf[src].device # NULL /\ m.buf[dst] = NoBuffer /\ dst \in m.lost
  BY AloneSingle DEF Crop
<1>3. PICK r \in halide_device_crop(copied, src, dst) :
        /\ r.err = Success => m' = r.m /\ role' = s /\ view' = w
        /\ r.err # Success => m' = [m EXCEPT !.refs = r.m.refs] /\ UNCHANGED <<role, view>>
  <2>1. [m EXCEPT !.buf[dst] = [m.buf[src] EXCEPT !.device = NULL, !.device_interface = NULL],
                  !.fresh[dst] = m.fresh[src],
                  !.lost = IF src \in @ THEN @ ELSE @ \ {dst}] = copied
    <3>1. m.buf[src] \in BufferT
      BY <1>1 DEF MachineZ
    <3>2. [m.buf[src] EXCEPT !.device = NULL, !.device_interface = NULL] = B
      BY <3>1 DEF BufferT
    <3>. HIDE DEF B
    <3>. QED
      BY <3>2
  <2>. HIDE DEF copied
  <2>. QED
    BY <2>1 DEF Crop
<1>4. /\ B \in BufferT
      /\ B.device = NULL /\ B.device_interface = NULL /\ B.host = m.buf[src].host
      /\ B.host_dirty = m.buf[src].host_dirty /\ B.device_dirty = m.buf[src].device_dirty
  <2>1. m.buf[src] \in BufferT
    BY <1>1 DEF MachineZ
  <2>2. /\ B1 \in BufferT
        /\ B1.device = NULL /\ B1.host = m.buf[src].host
        /\ B1.host_dirty = m.buf[src].host_dirty /\ B1.device_dirty = m.buf[src].device_dirty
    BY <2>1 DEF BufferT
  <2>. HIDE DEF B1
  <2>. QED
    BY <2>2 DEF BufferT
<1>5. f \in SUBSET {Host, Device} /\ l \in SUBSET Buffer
  BY <1>1 DEF MachineZ
<1>6. Replaced(m, copied, dst, B, f, l)
  <2>. HIDE DEF B, f, l
  <2>. QED
    BY <1>1, <1>4, <1>5, ReplacedFields
<1>7. (dst \in l <=> src \in m.lost) /\ \A c \in Buffer : c # dst => (c \in l <=> c \in m.lost)
  BY <1>2
<1>. HIDE DEF B, B1, f, l, copied
<1>8. /\ copied \in MachineZ /\ copied.buf[src] = m.buf[src] /\ i \in Interface
      /\ copied.buf[dst].device = NULL /\ copied.buf[dst].device_interface = NULL
  <2>1. i # NULL
    BY <1>1, <1>2 DEF Named
  <2>2. i \in Interface
    BY <1>1, <2>1 DEF MachineZ, BufferT
  <2>. QED
    BY <1>2, <1>4, <1>6, <2>2 DEF Replaced
<1>9. \/ r.err = Success /\ Takes(copied, r.m, dst, m.buf[src].device, i)
      \/ r.err = Failed /\ i \in CropMayFail /\ r.m.refs = Use(copied, i).refs
  BY <1>2, <1>8, CropEffect
<1>. HIDE DEF s, w
<1>10. CASE r.err = Success /\ Takes(copied, r.m, dst, m.buf[src].device, i)
  <2>1. /\ Frame(copied, r.m, dst) /\ Counted(copied, r.m, dst)
        /\ SameBits(copied, r.m, dst) /\ SameContent(copied, r.m)
        /\ r.m.live = m.live /\ r.m.buf[dst].device = m.buf[src].device
        /\ r.m.buf[dst].device_interface = i
    BY <1>6, <1>10 DEF Takes, Replaced
  <2>2. Frame(m, r.m, dst)
    BY <1>6, <1>7, <2>1 DEF Frame, Replaced
  <2>3. Counted(m, r.m, dst)
    <3>1. m.buf[dst].device_interface = copied.buf[dst].device_interface
      BY <1>2, <1>8 DEF NoBuffer
    <3>. QED
      BY <1>6, <2>1, <3>1 DEF Counted, Holding, Replaced
  <2>4. Truthful(r.m, dst)
    <3>1. (dst \in r.m.lost <=> src \in m.lost) /\ r.m.fresh[dst] = m.fresh[src]
      BY <1>6, <1>7, <2>1 DEF SameContent, Replaced, f
    <3>2. /\ r.m.buf[dst].host = m.buf[src].host
          /\ r.m.buf[dst].host_dirty = m.buf[src].host_dirty
          /\ r.m.buf[dst].device_dirty = m.buf[src].device_dirty
      BY <1>4, <1>6, <2>1 DEF SameBits, Replaced
    <3>. QED
      BY <1>1, <2>1, <3>1, <3>2 DEF Truthful
  <2>5. m.buf[dst].device = NULL
    BY <1>2 DEF NoBuffer
  <2>6. Elsewhere(m, r.m, dst)
    BY <2>2, FrameElsewhere
  <2>7. Held(r.m, s, w)
    BY <1>1, <1>2, <2>1, <2>5, <2>6, HeldCropped DEF s, w
  <2>8. s \in [Buffer -> Role] /\ w \in [Buffer -> Buffer \union {NULL}]
    BY <1>1 DEF Role, s, w
  <2>9. Good(r.m, s, w)
    BY <1>1, <2>2, <2>3, <2>4, <2>7, <2>8, GoodStep
  <2>. QED
    BY <1>3, <1>10, <2>9 DEF IInv, Crop
<1>11. CASE r.err = Failed /\ i \in CropMayFail /\ r.m.refs = Use(copied, i).refs
  <2>1. Use(copied, i).refs = Use(m, i).refs
    BY <1>1, <1>6, <1>8 DEF Use, Replaced, MachineZ
  <2>2. Good([m EXCEPT !.refs = Use(m, i).refs], role, view)
    BY <1>1, <1>11, GoodLeak
  <2>3. m' = [m EXCEPT !.refs = Use(m, i).refs] /\ UNCHANGED <<role, view>>
    BY <1>3, <1>11, <2>1 DEF Success, Failed
  <2>. QED
    BY <2>2, <2>3 DEF IInv, Crop
<1>. QED
  BY <1>9, <1>10, <1>11


\* halide_device_release_crop.
LEMMA EndCrop ==
  ASSUME IInv, NEW b \in Buffer, ReleaseCrop(b)
  PROVE  IInv'
<1>1. /\ Good(m, role, view) /\ m \in MachineZ /\ role \in [Buffer -> Role]
      /\ view \in [Buffer -> Buffer \union {NULL}] /\ Held(m, role, view) /\ Named(m, b)
  BY GoodFacts DEF IInv
<1>2. role[b] = View /\ UNCHANGED read
  BY DEF ReleaseCrop
<1>. DEFINE f == {}
            s == [role EXCEPT ![b] = Plain]
            w == [view EXCEPT ![b] = NULL]
<1>3. PICK r \in halide_device_release_crop(m, b) :
        m' = [r.m EXCEPT !.buf[b] = NoBuffer, !.fresh[b] = f, !.lost = @ \union {b}]
  BY DEF ReleaseCrop
<1>4. role' = s /\ view' = w
  BY DEF ReleaseCrop
<1>5. m.buf[b].device # NULL /\ m.buf[b].device_interface \in Interface
  <2>1. m.buf[b].device # NULL
    BY <1>1, <1>2 DEF Held, Owned
  <2>2. m.buf[b].device_interface # NULL
    BY <1>1, <2>1 DEF Named
  <2>. QED
    BY <1>1, <2>1, <2>2 DEF MachineZ, BufferT
<1>6. /\ Frame(m, r.m, b) /\ Counted(m, r.m, b)
      /\ r.m.live = m.live /\ r.m.buf[b].device = NULL /\ r.m.buf[b].device_interface = NULL
  BY <1>1, <1>5, ReleaseCropEffect
<1>. DEFINE k == r.m
            l == k.lost \union {b}
            y == [k EXCEPT !.buf[b] = NoBuffer, !.fresh[b] = f, !.lost = l]
<1>7. k \in MachineZ /\ l \in SUBSET Buffer /\ f \in SUBSET {Host, Device}
  BY <1>6 DEF Frame, MachineZ
<1>8. m' = y
  BY <1>3
<1>9. NoBuffer \in BufferT /\ NoBuffer.device = NULL /\ NoBuffer.device_interface = NULL
  BY DEF NoBuffer, BufferT
<1>10. Replaced(k, y, b, NoBuffer, f, l)
  <2>. HIDE DEF k, l, f
  <2>. QED
    BY <1>7, <1>9, ReplacedFields
<1>. HIDE DEF y, f, s, w
<1>11. b \in l /\ \A c \in Buffer : c # b => (c \in l <=> c \in k.lost)
  OBVIOUS
<1>. HIDE DEF l
<1>12. Frame(m, y, b)
  BY <1>6, <1>10, <1>11 DEF Frame, Replaced
<1>13. Counted(m, y, b)
  BY <1>6, <1>9, <1>10 DEF Counted, Holding, Replaced
<1>14. Truthful(y, b)
  BY <1>10, <1>11 DEF Truthful, Replaced
<1>15. y.live = m.live /\ y.buf[b].device = NULL /\ y.buf[b].device_interface = NULL
  BY <1>6, <1>9, <1>10 DEF Replaced
<1>16. Held(y, s, w)
  <2>1. Elsewhere(m, y, b)
    BY <1>12, FrameElsewhere
  <2>. QED
    BY <1>1, <1>2, <1>15, <2>1, HeldReleased DEF s, w
<1>17. s \in [Buffer -> Role] /\ w \in [Buffer -> Buffer \union {NULL}]
  BY <1>1 DEF Role, s, w
<1>18. Good(y, s, w)
  BY <1>1, <1>12, <1>13, <1>14, <1>16, <1>17, GoodStep
<1>. QED
  BY <1>2, <1>4, <1>8, <1>18 DEF IInv

\* A copy between two buffers, of which the destination has no views.
LEMMA CopiedGood ==
  ASSUME NEW x, NEW r, NEW v, Good(x, r, v),
         NEW src \in Buffer, NEW dst \in Buffer, src # dst, v[dst] = NULL,
         NEW y, Copies(x, y, src, dst), Truthful(y, dst)
  PROVE  Good(y, r, v)
<1>1. /\ x \in MachineZ /\ r \in [Buffer -> Role] /\ v \in [Buffer -> Buffer \union {NULL}]
      /\ Held(x, r, v) /\ Referenced(x) /\ \A c \in Buffer : Truthful(x, c)
  BY DEF Good, Held
<1>2. y \in MachineZ /\ Counted(x, y, dst)
  BY DEF Copies
<1>3. Elsewhere(x, y, dst)
  BY DEF Copies, Elsewhere
<1>4. Referenced(y)
  <2>1. \A c \in Buffer : c # dst => y.buf[c].device_interface = x.buf[c].device_interface
    BY <1>3 DEF Elsewhere
  <2>. QED
    BY <1>1, <1>2, <2>1, ReferencedStep
<1>5. Held(y, r, v)
  <2>1. CASE Keeps(x, y, dst)
    BY <1>1, <1>3, <2>1, SettledSame, HeldKept
  <2>2. CASE \E i \in Interface : Gains(x, y, dst, i)
    BY <1>1, <1>3, <2>2, SettledSame, HeldGained
  <2>. QED
    BY <2>1, <2>2 DEF Copies
<1>6. ASSUME NEW c \in Buffer
      PROVE  Truthful(y, c)
  <2>1. CASE c = dst
    BY <2>1
  <2>2. CASE c = src
    BY <1>1, <2>2 DEF Copies
  <2>3. CASE c \notin {src, dst}
    BY <1>1, <2>3 DEF Copies, Truthful
  <2>. QED
    BY <2>1, <2>2, <2>3
<1>. QED
  BY <1>1, <1>2, <1>4, <1>5, <1>6 DEF Good, Held

\* halide_buffer_copy.
LEMMA Copy ==
  ASSUME SelfCopy = FALSE,
         IInv, NEW src \in Buffer, NEW dst \in Buffer, NEW i \in Interface \union {NULL},
         BufferCopy(src, i, dst)
  PROVE  IInv'
<1>1. /\ Good(m, role, view) /\ m \in MachineZ /\ Truthful(m, src) /\ Named(m, src)
  BY GoodFacts DEF IInv
<1>2. /\ src # dst /\ view[dst] = NULL /\ UNCHANGED <<role, view, read>>
      /\ m.buf[src].host \/ m.buf[src].device # NULL
  BY DEF BufferCopy, Alone
<1>3. PICK r \in halide_buffer_copy(m, src, i, dst) :
        m' = IF r.err = Success THEN r.m ELSE [r.m EXCEPT !.lost = @ \union {dst}]
  BY DEF BufferCopy
<1>4. CopiesTo(m, r, src, dst)
  BY <1>1, <1>2, BufferCopyEffect
<1>5. Copies(m, r.m, src, dst) /\ (r.err = Success => Truthful(r.m, dst))
  BY <1>1, <1>4 DEF CopiesTo
<1>6. CASE r.err = Success
  <2>1. Good(r.m, role, view)
    BY <1>1, <1>2, <1>5, <1>6, CopiedGood
  <2>. QED
    BY <1>2, <1>3, <1>6, <2>1 DEF IInv
<1>7. CASE r.err # Success
  <2>. DEFINE k == r.m
              l == k.lost \union {dst}
              y == [k EXCEPT !.lost = l]
  <2>1. k \in MachineZ /\ l \in SUBSET Buffer
    BY <1>5 DEF Copies, MachineZ
  <2>2. m' = y
    BY <1>3, <1>7
  <2>3. /\ y \in MachineZ
        /\ y.buf = k.buf /\ y.live = k.live /\ y.refs = k.refs /\ y.fresh = k.fresh /\ y.lost = l
    <3>. HIDE DEF k, l
    <3>. QED
      BY <2>1, LostFields
  <2>. HIDE DEF y
  <2>4. \A c \in Buffer : c # dst => (c \in y.lost <=> c \in k.lost)
    BY <2>3
  <2>5. Truthful(y, dst)
    BY <2>3 DEF Truthful
  <2>. HIDE DEF l
  <2>6. Copies(m, y, src, dst)
    <3>1. /\ \A c \in Buffer \ {src, dst} :
               y.buf[c] = m.buf[c] /\ y.fresh[c] = m.fresh[c] /\ (c \in y.lost <=> c \in m.lost)
          /\ src \in y.lost <=> src \in m.lost
      BY <1>2, <1>5, <2>3, <2>4 DEF Copies
    <3>2. Counted(m, y, dst)
      BY <1>5, <2>3 DEF Copies, Counted, Holding
    <3>3. Keeps(m, y, dst) \/ \E j \in Interface : Gains(m, y, dst, j)
      BY <1>5, <2>3 DEF Copies, Keeps, Gains
    <3>4. Truthful(m, src) => Truthful(y, src)
      BY <1>2, <1>5, <2>3, <2>4 DEF Copies, Truthful
    <3>. QED
      BY <1>5, <2>3, <3>1, <3>2, <3>3, <3>4 DEF Copies
  <2>7. Good(y, role, view)
    BY <1>1, <1>2, <2>5, <2>6, CopiedGood
  <2>. QED
    BY <1>2, <2>2, <2>7 DEF IInv
<1>. QED
  BY <1>6, <1>7


-----------------------------------------------------------------------------
(***************************************************************************)
(* The invariants.                                                         *)
(***************************************************************************)
LEMMA Initially == Init => IInv
<1>. SUFFICES ASSUME Init
              PROVE  IInv
  OBVIOUS
<1>1. PICK withHost \in SUBSET Buffer :
        m = [buf |-> [b \in Buffer |-> [NoBuffer EXCEPT !.host = b \in withHost]],
             live |-> {}, refs |-> [i \in Interface |-> 0],
             fresh |-> [b \in Buffer |-> {}], lost |-> Buffer]
  BY DEF Init
<1>2. role = [b \in Buffer |-> Plain] /\ view = [b \in Buffer |-> NULL] /\ read = TRUE
  BY DEF Init
<1>3. m \in MachineZ
  <2>1. ASSUME NEW host \in BOOLEAN
        PROVE  [NoBuffer EXCEPT !.host = host] \in BufferT
    BY DEF BufferT, NoBuffer
  <2>2. \A b \in Buffer : (b \in withHost) \in BOOLEAN
    OBVIOUS
  <2>3. m.buf \in [Buffer -> BufferT]
    BY <1>1, <2>1, <2>2
  <2>. QED
    BY <1>1, <2>3 DEF MachineZ
<1>4. \A b \in Buffer : m.buf[b].device = NULL /\ m.buf[b].device_interface = NULL
  BY <1>1 DEF NoBuffer
<1>5. Referenced(m)
  <2>. SUFFICES ASSUME NEW i \in Interface
                PROVE  m.refs[i] = 0 /\ Cardinality(HoldersIn(m, i)) = 0
    BY DEF Referenced
  <2>1. HoldersIn(m, i) = {}
    BY <1>4, InterfaceAssumption DEF HoldersIn
  <2>. QED
    BY <1>1, <2>1, FS_EmptySet
<1>6. Owned(m, role, view)
  BY <1>1, <1>2, <1>4, Roles DEF Owned, Named
<1>7. Unshared(m, view)
  BY <1>4 DEF Unshared
<1>8. \A b \in Buffer : Truthful(m, b)
  BY <1>1 DEF Truthful
<1>9. role \in [Buffer -> Role] /\ view \in [Buffer -> Buffer \union {NULL}]
  BY <1>2 DEF Role
<1>. QED
  BY <1>2, <1>3, <1>5, <1>6, <1>7, <1>8, <1>9 DEF IInv, Good

\* What the proofs ask of the program and of the drivers: it does not copy a
\* buffer to itself, it marks host memory dirty before it asks for device
\* memory, and no interface has the default wrap_native.
Usage == SelfCopy = FALSE /\ MarksHost = TRUE /\ DefaultWrap = {}

\* Every call preserves the invariant.
LEMMA Step ==
  ASSUME Usage, IInv, [Next]_vars
  PROVE  IInv'
<1>. USE DEF Usage
<1>1. CASE UNCHANGED vars
  BY <1>1 DEF vars, IInv
<1>2. ASSUME NEW b \in Buffer, WriteHost(b) \/ RunKernel(b)
      PROVE  IInv'
  BY <1>2, Write
<1>3. ASSUME NEW b \in Buffer, CopyToHost(b)
      PROVE  IInv'
  BY <1>3, Download
<1>4. ASSUME NEW b \in Buffer, DeviceFree(b)
      PROVE  IInv'
  BY <1>4, Free
<1>5. ASSUME NEW b \in Buffer, DeviceAndHostFree(b)
      PROVE  IInv'
  BY <1>5, FreeBoth
<1>6. ASSUME NEW b \in Buffer, DetachNative(b)
      PROVE  IInv'
  BY <1>6, Detach
<1>7. ASSUME NEW b \in Buffer, ReleaseCrop(b)
      PROVE  IInv'
  BY <1>7, EndCrop
<1>8. ASSUME NEW b \in Buffer, NEW i \in Interface \union {NULL}, CopyToDevice(b, i)
      PROVE  IInv'
  BY <1>8, Upload
<1>9. ASSUME NEW b \in Buffer, NEW i \in Interface, DeviceMalloc(b, i)
      PROVE  IInv'
  BY <1>9, Malloc
<1>10. ASSUME NEW b \in Buffer, NEW i \in Interface, DeviceAndHostMalloc(b, i)
       PROVE  IInv'
  BY <1>10, MallocBoth
<1>11. ASSUME NEW b \in Buffer, NEW i \in Interface, NEW h \in Native, WrapNative(b, h, i)
       PROVE  IInv'
  BY <1>11, Wrap
<1>12. ASSUME NEW src \in Buffer, NEW dst \in Buffer, Crop(src, dst)
       PROVE  IInv'
  BY <1>12, MakeCrop
<1>13. ASSUME NEW src \in Buffer, NEW dst \in Buffer, NEW i \in Interface \union {NULL}, BufferCopy(src, i, dst)
       PROVE  IInv'
  BY <1>13, Copy
<1>. QED
  BY <1>1, <1>2, <1>3, <1>4, <1>5, <1>6, <1>7, <1>8, <1>9, <1>10, <1>11, <1>12, <1>13 DEF Next

\* The invariant holds of every sequence of calls that Usage allows.
LEMMA Invariant ==
  ASSUME Usage
  PROVE  Spec => []IInv
<1>1. Init => IInv
  BY Initially
<1>2. IInv /\ [Next]_vars => IInv'
  BY Step
<1>. QED
  BY <1>1, <1>2, PTL DEF Spec

\* The type invariant.
LEMMA GoodTypes ==
  ASSUME IInv
  PROVE  TypeOK
<1>1. m \in MachineZ /\ Referenced(m)
  BY DEF IInv, Good
<1>2. ASSUME NEW i \in Interface
      PROVE  m.refs[i] \in Nat
  <2>1. Cardinality(HoldersIn(m, i)) \in Nat
    BY HoldersFinite
  <2>2. m.refs[i] \in Int /\ m.refs[i] >= Cardinality(HoldersIn(m, i))
    BY <1>1 DEF MachineZ, Referenced
  <2>. QED
    BY <2>1, <2>2
<1>3. m.refs \in [Interface -> Nat]
  BY <1>1, <1>2 DEF MachineZ
<1>4. m \in Machine
  BY <1>1, <1>3 DEF MachineZ, Machine
<1>. QED
  BY <1>4 DEF IInv, Good, Role, TypeOK

\* The references to the module of each interface are as many as the buffers
\* with device memory of it, or more where a crop has failed: in a program that
\* uses the device interface as it asks, halide_device_malloc, _free, _wrap_native,
\* _detach_native, _crop, _release_crop and the copies never let a module go
\* while a buffer needs it, nor keep one, however many of them fail.
THEOREM RefsExactHolds ==
  ASSUME Usage
  PROVE  Spec => []RefsExact
<1>1. IInv => RefsExact
  <2>. SUFFICES ASSUME IInv
                PROVE  RefsExact
    OBVIOUS
  <2>1. TypeOK
    BY GoodTypes
  <2>2. \A i : Holders(i) = HoldersIn(m, i)
    BY DEF Holders, HoldersIn
  <2>. QED
    BY <2>1, <2>2 DEF RefsExact, IInv, Good, Referenced
<1>. QED
  BY <1>1, Invariant, PTL

\* The dirty bits tell which memory of a buffer has what was last written to it,
\* whichever of the copies, allocations and crops before failed.
THEOREM BitsTruthfulHolds ==
  ASSUME Usage
  PROVE  Spec => []BitsTruthful
<1>1. IInv => BitsTruthful
  <2>. SUFFICES ASSUME IInv, NEW b \in Buffer \ m.lost
                PROVE  /\ m.buf[b].device_dirty /\ ~m.buf[b].host_dirty => Device \in m.fresh[b]
                       /\ m.buf[b].host /\ ~m.buf[b].device_dirty => Host \in m.fresh[b]
                       /\ m.fresh[b] # {}
    BY DEF BitsTruthful
  <2>. QED
    BY DEF IInv, Good, Truthful
<1>. QED
  BY <1>1, Invariant, PTL

\* Every halide_copy_to_host and halide_copy_to_device that returns success has
\* put what was last written to the buffer in the memory it was asked for.
THEOREM CopiesArriveHolds ==
  ASSUME Usage
  PROVE  Spec => []CopiesArrive
<1>1. IInv => CopiesArrive
  BY DEF IInv, CopiesArrive
<1>. QED
  BY <1>1, Invariant, PTL

\* What Halide has allocated on a device is what buffers with device memory of
\* its own name, and only a buffer and its cropped views share it: nothing
\* leaks, and nothing is used after it was freed.
THEOREM NoLeakHolds ==
  ASSUME Usage
  PROVE  Spec => []NoLeak
<1>1. IInv => NoLeak
  <2>. SUFFICES ASSUME IInv
                PROVE  NoLeak
    OBVIOUS
  <2>. DEFINE own == {m.buf[b].device : b \in {c \in Buffer : role[c] \in {Plain, Joint}}}
  <2>1. m \in MachineZ /\ Owned(m, role, view) /\ Unshared(m, view)
    BY DEF IInv, Good
  <2>2. m.live \subseteq own \ {NULL}
    <3>. SUFFICES ASSUME NEW h \in m.live
                  PROVE  h \in own /\ h # NULL
      OBVIOUS
    <3>1. h # NULL
      BY <2>1, HandleAssumption DEF MachineZ
    <3>. QED
      BY <2>1, <3>1 DEF Owned
  <2>3. own \ {NULL} \subseteq m.live
    BY <2>1 DEF Owned
  <2>4. \A b \in Buffer : Whole(b) = Root(view, b)
    BY DEF Whole, Root
  <2>. QED
    BY <2>1, <2>2, <2>3, <2>4 DEF NoLeak, Unshared
<1>. QED
  BY <1>1, Invariant, PTL
=============================================================================
