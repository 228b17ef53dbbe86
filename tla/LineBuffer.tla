----------------------------- MODULE LineBuffer -----------------------------
(***************************************************************************)
(* The accelerator that HWKernelDAG describes, as StreamOpt and the HLS    *)
(* code generator build it: the processes of a dataflow region, joined by  *)
(* FIFOs that block.  The host streams a block of each input in; every     *)
(* kernel scans its region, reads a window from each of its inputs and     *)
(* writes the pixels of one step; a line buffer turns those into windows;  *)
(* a dispatcher hands each consumer the windows of its part.  The host     *)
(* reads the output and checks TLAST.                                      *)
(*                                                                         *)
(* A stencil is a function from its local coordinates to the coordinates   *)
(* of the pixels it holds.  The block has two dimensions.                  *)
(***************************************************************************)
EXTENDS HWKernelDAG

CONSTANTS Pipelines,   \* the pipelines there are, a function from their names
          NULL

ASSUME PipelinesAssumption == \A n \in DOMAIN Pipelines : Supported(Pipelines[n])

VARIABLES name,    \* the pipeline that runs
          HW,      \* the hardware that was built of it
          kern,    \* the kernels, the host as writer of the inputs among them
          stage,   \* the processes of the line buffers
          disp,    \* the dispatchers
          line,    \* the FIFOs from a kernel through its line buffer
          fifo,    \* the FIFOs from a dispatcher to the consumers
          sunk     \* the stencils the host has read

vars == <<name, HW, kern, stage, disp, line, fifo, sunk>>

design == <<name, HW>>
Ks == DOMAIN HW
Output == Cardinality(Ks)
IsInput(i) == HW[i].inputs = <<>>

Block(extent) == (0 .. extent[1] - 1) \X (0 .. extent[2] - 1)

\* The stencil of that extent at that origin.
At(origin, extent) == [l \in Block(extent) |-> <<origin[1] + l[1], origin[2] + l[2]>>]

\* Where the t-th of the stencils that are a step apart is, dimension 0 first.
Place(t, count, step) == <<(t % count[1]) * step[1], (t \div count[1]) * step[2]>>

\* transform_kernel makes a scan loop only of a dimension that has a loop_var; the
\* host streams the whole of an input.
Scans(i)   == [d \in Dims |-> IF IsInput(i) \/ Pipelines[name].out[d].scanned
                              THEN HW[i].extent[d] \div HW[i].step[d] ELSE 1]
Windows(i) == [d \in Dims |-> (HW[i].extent[d] - HW[i].size[d]) \div HW[i].step[d] + 1]
Total(count) == count[1] * count[2]

-----------------------------------------------------------------------------
(***************************************************************************)
(* The processes.                                                          *)
(***************************************************************************)
need_linebuffer(i) == HW[i].size # HW[i].step

Shift(d, in, out, img) == [kind |-> "shift", d |-> d, in |-> in, out |-> out, img |-> img]
Ring(in, out, img)     == [kind |-> "ring", d |-> 2, in |-> in, out |-> out, img |-> img]
Collect(in, img)       == [kind |-> "collect", d |-> 2, in |-> in, out |-> img, img |-> img]

\* The specialisation of Linebuffer2D.  A shift register as long as the window
\* is wide stands for all of Linebuffer1D: of length one it is the bypass, and
\* the serial in, parallel out buffer is one that is emptied once a line.
Linebuffer2D(in, out, img) ==
  CASE in[2] = out[2]                      -> <<Shift(1, in, out, img)>>
    [] in[2] # out[2] /\ out = img         -> <<Collect(in, img)>>
    [] in[2] # out[2] /\ out # img
         /\ in[1] = img[1] /\ out[1] = img[1] -> <<Shift(2, in, out, img)>>
    [] OTHER -> LET slice == <<in[1], out[2]>>
                IN  <<Ring(in, slice, img), Shift(1, slice, out, img)>>

\* linebuffer: an input comes through an AXI stream, which is copied first.
Stages(i) ==
  IF need_linebuffer(i)
  THEN (IF IsInput(i) THEN <<Shift(1, HW[i].step, HW[i].step, HW[i].extent)>> ELSE <<>>)
         \o Linebuffer2D(HW[i].step, HW[i].size, HW[i].extent)
  ELSE <<>>

\* add_linebuffer makes room for one stencil where an input is not buffered.
fifo_depth(i, j) ==
  Higher(IF ~need_linebuffer(i) /\ IsInput(i) /\ Len(HW[i].consumers) = 1 THEN 1 ELSE 0,
         Pipelines[name].depth[<<i, j>>])

\* The stream of an only consumer is a reference to the kernel's: no dispatcher.
Elided(i) == Len(HW[i].consumers) = 1 /\ fifo_depth(i, HW[i].consumers[1]) = 0

\* Slip: every stream has the depth of those inside the line buffer.
ShallowDepth(i, j) == 1

depth(i, j) == Higher(fifo_depth(i, j), 1)

Edges == {e \in Ks \X Ks : e[2] \in DOMAIN HW[e[1]].offset}
Ends(i) == Len(Stages(i)) + 1     \* the last FIFO of line[i]

Lines(s)   == s.img[s.d] \div s.in[s.d]
InRows(s)  == s.img[1] \div s.in[1]
RingRows(s) == s.out[2] \div s.in[2] - 1
Registers(s) == s.out[s.d] \div s.in[s.d]

\* Nothing is written to the buffers before the first stencil.
Blank(s) ==
  CASE s.kind = "shift"   -> [b \in 0 .. Registers(s) - 1 |-> NULL]
    [] s.kind = "ring"    -> [b \in (0 .. RingRows(s) - 1) \X (0 .. InRows(s) - 1) |-> NULL]
    [] s.kind = "collect" -> [b \in (0 .. Lines(s) - 1) \X (0 .. InRows(s) - 1) |-> NULL]

Init ==
  /\ name \in DOMAIN Pipelines
  /\ HW = build(Pipelines[name])
  /\ kern  = [i \in Ks |-> [t |-> 0, got |-> <<>>]]
  /\ stage = [i \in Ks |-> [m \in DOMAIN Stages(i) |->
                 [t |-> 0, write_idx |-> 0, buffer |-> Blank(Stages(i)[m]), hand |-> NULL]]]
  /\ disp  = [i \in Ks |-> [t |-> 0, hand |-> NULL, to |-> <<>>]]
  /\ line  = [i \in Ks |-> [m \in 1 .. Ends(i) |-> <<>>]]
  /\ fifo  = [e \in Edges |-> <<>>]
  /\ sunk  = 0

-----------------------------------------------------------------------------
(***************************************************************************)
(* The streams.  All but those to the consumers have depth one.            *)
(***************************************************************************)
HasRoom(s, size) == Len(s) < size

Put(i, m, s) == HasRoom(line[i][m], 1) /\ line' = [line EXCEPT ![i][m] = Append(@, s)]

-----------------------------------------------------------------------------
(***************************************************************************)
(* The kernels (transform_kernel, add_input_stencil) and the host          *)
(* (subimage_to_stream, stream_to_subimage).                               *)
(***************************************************************************)
Scanning(i) == kern[i].t < Total(Scans(i))

\* Every input that is added wraps those added before it.
NextInput(j) == Reverse(HW[j].inputs)[Len(kern[j].got) + 1]

ReadInput(j) ==
  /\ Scanning(j) /\ Len(kern[j].got) < Len(HW[j].inputs)
  /\ LET i == NextInput(j)
     IN  IF Elided(i)
         THEN /\ line[i][Ends(i)] # <<>>
              /\ kern' = [kern EXCEPT ![j].got = Append(@, Head(line[i][Ends(i)]))]
              /\ line' = [line EXCEPT ![i][Ends(i)] = Tail(@)]
              /\ UNCHANGED fifo
         ELSE /\ fifo[<<i, j>>] # <<>>
              /\ kern' = [kern EXCEPT ![j].got = Append(@, Head(fifo[<<i, j>>]))]
              /\ fifo' = [fifo EXCEPT ![<<i, j>>] = Tail(@)]
              /\ UNCHANGED line
  /\ UNCHANGED <<design, stage, disp, sunk>>

\* Slip: the loops' extents instead of their last iterations.
PastLast(t, count) == \A d \in Dims : Place(t, count, <<1, 1>>)[d] = count[d]

\* The condition write_stream tests: every scan loop is at its last iteration.
IsLast(t, count) == \A d \in Dims : Place(t, count, <<1, 1>>)[d] = count[d] - 1

Origin(i, t) == LET at == Place(t, Scans(i), HW[i].step)
                IN  <<HW[i].min[1] + at[1], HW[i].min[2] + at[2]>>

Computed(i) ==
  LET stencil == At(Origin(i, kern[i].t), HW[i].step)
  IN  IF i = Output
      THEN [pixels |-> stencil, last |-> IsLast(kern[i].t, Scans(i))]
      ELSE stencil

WriteStencil(i) ==
  /\ Scanning(i) /\ Len(kern[i].got) = Len(HW[i].inputs)
  /\ Put(i, 1, Computed(i))
  /\ kern' = [kern EXCEPT ![i] = [t |-> @.t + 1, got |-> <<>>]]
  /\ UNCHANGED <<design, stage, disp, fifo, sunk>>

stream_to_subimage ==
  /\ line[Output][1] # <<>>
  /\ line' = [line EXCEPT ![Output][1] = Tail(@)]
  /\ sunk' = sunk + 1
  /\ UNCHANGED <<design, kern, stage, disp, fifo>>

-----------------------------------------------------------------------------
(***************************************************************************)
(* The line buffers (Linebuffer.h).                                        *)
(***************************************************************************)
Wrapped(idx, size) == IF idx >= size THEN idx - size ELSE idx

\* Slip: the lines are taken from the first row of the buffer on.
FromFirst(n, write, size) == n

\* The row of the n-th line of the slice, the oldest being where the next goes.
LineInBuffer(n, write, size) == Wrapped(n + write, size)

\* A stage reads the stencil "in".
\* The shift register: it moves left; a window is complete once it is full.
Shifted(s, st, in) ==
  LET n      == Registers(s)
      i      == (st.t % Lines(s)) * s.in[s.d]
      buffer == [b \in 0 .. n - 1 |-> IF b < n - 1 THEN st.buffer[b + 1] ELSE in]
      out    == [l \in Block(s.out) |->
                   buffer[l[s.d] \div s.in[s.d]][[l EXCEPT ![s.d] = @ % s.in[s.d]]]]
  IN  [t |-> st.t + 1, write_idx |-> 0, buffer |-> buffer,
       hand |-> IF i >= s.out[s.d] - s.in[s.d] THEN out ELSE NULL]

\* The ring of lines: a column of the lines before, oldest first, and the input.
Rung(s, st, in) ==
  LET n     == RingRows(s)
      row   == st.t \div InRows(s)
      col   == st.t % InRows(s)
      write == Wrapped(st.write_idx, n)
      out   == [l \in Block(s.out) |->
                  LET within == <<l[1], l[2] % s.in[2]>>
                      line_  == l[2] \div s.in[2]
                  IN  IF line_ < n THEN st.buffer[<<LineInBuffer(line_, write, n), col>>][within]
                                   ELSE in[within]]
  IN  [t |-> st.t + 1,
       write_idx |-> IF col = InRows(s) - 1 THEN write + 1 ELSE write,
       buffer |-> [st.buffer EXCEPT ![<<write, col>>] = in],
       hand |-> IF row >= n THEN out ELSE NULL]

\* Serial in, parallel out: the whole block at once.
Collected(s, st, in) ==
  LET at     == <<st.t \div InRows(s), st.t % InRows(s)>>
      buffer == [st.buffer EXCEPT ![at] = in]
      out    == [l \in Block(s.out) |->
                   buffer[<<l[2] \div s.in[2], l[1] \div s.in[1]>>][<<l[1] % s.in[1], l[2] % s.in[2]>>]]
  IN  [t |-> st.t + 1, write_idx |-> 0, buffer |-> buffer,
       hand |-> IF at = <<Lines(s) - 1, InRows(s) - 1>> THEN out ELSE NULL]

Absorbed(s, st, in) ==
  CASE s.kind = "shift"   -> Shifted(s, st, in)
    [] s.kind = "ring"    -> Rung(s, st, in)
    [] s.kind = "collect" -> Collected(s, st, in)

StageReads(i, m) ==
  /\ stage[i][m].hand = NULL
  /\ line[i][m] # <<>>
  /\ stage' = [stage EXCEPT ![i][m] = Absorbed(Stages(i)[m], stage[i][m], Head(line[i][m]))]
  /\ line' = [line EXCEPT ![i][m] = Tail(@)]
  /\ UNCHANGED <<design, kern, disp, fifo, sunk>>

StageWrites(i, m) ==
  /\ stage[i][m].hand # NULL
  /\ Put(i, m + 1, stage[i][m].hand)
  /\ stage' = [stage EXCEPT ![i][m].hand = NULL]
  /\ UNCHANGED <<design, kern, disp, fifo, sunk>>

-----------------------------------------------------------------------------
(***************************************************************************)
(* The dispatchers (dispatch_stream).                                      *)
(***************************************************************************)
Dispatched(i, j, at) ==
  \A d \in Dims : /\ at[d] >= HW[i].offset[j][d]
                  /\ at[d] <= HW[i].offset[j][d] + HW[i].window[j][d] - HW[i].size[d]

DispatcherReads(i) ==
  /\ disp[i].to = <<>> /\ disp[i].t < Total(Windows(i))
  /\ line[i][Ends(i)] # <<>>
  /\ disp' = [disp EXCEPT ![i] =
       [t |-> @.t + 1, hand |-> Head(line[i][Ends(i)]),
        to |-> SelectSeq(HW[i].consumers,
                 LAMBDA j : Dispatched(i, j, Place(disp[i].t, Windows(i), HW[i].step)))]]
  /\ line' = [line EXCEPT ![i][Ends(i)] = Tail(@)]
  /\ UNCHANGED <<design, kern, stage, fifo, sunk>>

DispatcherWrites(i) ==
  /\ disp[i].to # <<>>
  /\ LET j == Head(disp[i].to)
     IN  /\ HasRoom(fifo[<<i, j>>], depth(i, j))
         /\ fifo' = [fifo EXCEPT ![<<i, j>>] = Append(@, disp[i].hand)]
  /\ disp' = [disp EXCEPT ![i].to = Tail(@)]
  /\ UNCHANGED <<design, kern, stage, line, sunk>>

-----------------------------------------------------------------------------
Next ==
  \/ stream_to_subimage
  \/ \E i \in Ks :
       \/ ReadInput(i) \/ WriteStencil(i)
       \/ \E m \in DOMAIN Stages(i) : StageReads(i, m) \/ StageWrites(i, m)
       \/ i # Output /\ ~Elided(i) /\ (DispatcherReads(i) \/ DispatcherWrites(i))

Spec == Init /\ [][Next]_vars

\* The processes of the region run at once, each of them all the time.
FairSpec == Spec /\ WF_vars(Next)

-----------------------------------------------------------------------------
(***************************************************************************)
(* Properties.                                                             *)
(***************************************************************************)
Coordinates == Nat \X Nat

IsStencil(s) == DOMAIN s \subseteq Coordinates /\ \A l \in DOMAIN s : s[l] \in Int \X Int

\* Every process is within its loops, and no stream holds more than its depth.
TypeOK ==
  /\ \A i \in Ks :
       /\ kern[i].t <= Total(Scans(i)) /\ Len(kern[i].got) <= Len(HW[i].inputs)
       /\ disp[i].t <= Total(Windows(i)) /\ Range(disp[i].to) \subseteq Range(HW[i].consumers)
       /\ \A m \in DOMAIN line[i] : Len(line[i][m]) <= 1
       /\ \A m \in DOMAIN stage[i] : stage[i][m].hand = NULL \/ IsStencil(stage[i][m].hand)
  /\ \A e \in Edges : Len(fifo[e]) <= depth(e[1], e[2]) /\ \A x \in DOMAIN fifo[e] : IsStencil(fifo[e][x])
  /\ sunk <= Total(Scans(Output))

\* Where the algorithm says pixel q of kernel j reads kernel i.
Reads(i, j, q) ==
  LET tap == Pipelines[name].taps[<<i, j>>]
  IN  (tap[1].a * q[1] + tap[1].lo .. tap[1].a * q[1] + tap[1].hi)
        \X (tap[2].a * q[2] + tap[2].lo .. tap[2].a * q[2] + tap[2].hi)

\* Where that pixel is in the stencil: its coordinates less the min_pos of the
\* consumer's stencil, which the scan loops move a step at a time.
MinPos(i, j, t) ==
  LET at == Place(t, Scans(j), HW[i].step)
  IN  [d \in Dims |-> HW[i].min[d] + HW[i].offset[j][d] + at[d]]

\* Every pixel that the algorithm reads is where the kernel looks for it, in
\* each of the stencils it has read for the iteration it is in.
OperandsRight ==
  \A j \in Ks : Scanning(j) => \A r \in DOMAIN kern[j].got :
    LET i   == Reverse(HW[j].inputs)[r]
        min == MinPos(i, j, kern[j].t)
    IN  \A q \in Range(At(Origin(j, kern[j].t), HW[j].step)) : \A x \in Reads(i, j, q) :
          LET l == <<x[1] - min[1], x[2] - min[2]>>
          IN  l \in DOMAIN kern[j].got[r] /\ kern[j].got[r][l] = x

\* What has been taken from the last FIFO of kernel i.
Taken(i) ==
  IF Elided(i)
  THEN LET j == HW[i].consumers[1]
       IN  kern[j].t + Cardinality({r \in DOMAIN kern[j].got : Reverse(HW[j].inputs)[r] = i})
  ELSE disp[i].t

\* A line buffer produces what linebuffer_ref does: the windows of the whole
\* region, a step apart, in the order of the input.
AsReference ==
  /\ TypeOK
  /\ \A i \in Ks \ {Output} : \A x \in DOMAIN line[i][Ends(i)] :
       LET at == Place(Taken(i) + x - 1, Windows(i), HW[i].step)
       IN  line[i][Ends(i)][x] = At(<<HW[i].min[1] + at[1], HW[i].min[2] + at[2]>>, HW[i].size)

\* The host gets the blocks of the output in order, and TLAST with the last of
\* them and no other: stream_to_subimage's check does not fail.
OutputRight ==
  \A x \in DOMAIN line[Output][1] :
    LET n == sunk + x - 1
    IN  /\ line[Output][1][x].pixels = At(Origin(Output, n), HW[Output].step)
        /\ line[Output][1][x].last <=> n = Total(Scans(Output)) - 1

Drained ==
  /\ \A i \in Ks : kern[i].t = Total(Scans(i)) /\ \A m \in DOMAIN line[i] : line[i][m] = <<>>
  /\ \A i \in Ks \ {Output} : Taken(i) = Total(Windows(i))
  /\ \A e \in Edges : fifo[e] = <<>>
  /\ sunk = Total(Scans(Output))

\* The accelerator finishes: every process ends its loops, the dispatchers too,
\* which count windows and not what the kernels write, and nothing is left
\* in a stream, to be taken for the first stencil of the next block.
Finishes == <>[]Drained
=============================================================================
