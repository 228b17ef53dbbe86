---------------------------- MODULE HWKernelDAG ----------------------------
(***************************************************************************)
(* What the hardware extraction derives from an accelerated pipeline       *)
(* (src/src/ExtractHWKernelDAG.cpp): for every kernel the stencil window   *)
(* its consumers need of it, how far the window moves from one iteration   *)
(* of the scan loops to the next, and the region of the kernel that is     *)
(* stored; and for every consumer the part of that region it gets.         *)
(*                                                                         *)
(* A pipeline p has the kernels 1 .. p.n, in the order of inlined_stages,  *)
(* p.n being the accelerated function and its inputs first.                *)
(*   p.taps[<<i, j>>][d]   for dimension d of the pixels of kernel i that  *)
(*                         pixel q of kernel j reads: a * q + lo .. hi     *)
(*   p.out[d]              the extent of the accelerated block, the pixels *)
(*                         one iteration computes, whether a loop scans it *)
(*   p.byname              the kernels in the order of their names         *)
(*   p.depth[<<i, j>>]     Func::fifo_depth of i for consumer j, or 0      *)
(* A spec is a StencilDimSpecs: min_pos and store_bound.min are the same   *)
(* at the first iteration, which the pass asserts.                         *)
(***************************************************************************)
EXTENDS Integers, FiniteSets, SequencesExt, FiniteSetsExt

Dims == 1 .. 2

Lower(a, b)  == IF a < b THEN a ELSE b
Higher(a, b) == IF a > b THEN a ELSE b

Kernels(p) == 1 .. p.n
Consumers(p, i) == {j \in Kernels(p) : <<i, j>> \in DOMAIN p.taps}

\* The maps are ordered by the consumers' names; calculate_input_streams visits
\* the kernels in that order too.
consumer_stencils(p, i) == SelectSeq(p.byname, LAMBDA j : <<i, j>> \in DOMAIN p.taps)
input_streams(p, j)     == SelectSeq(p.byname, LAMBDA i : <<i, j>> \in DOMAIN p.taps)

OutputSpec(out) ==
  [size |-> out.step, step |-> out.step, min |-> 0, max |-> out.extent - 1]

\* extract_stencil_specs: the box that one iteration of a consumer with spec
\* "to" requires, and the box of all of them.
extract_stencil_specs(tap, to, scanned) ==
  LET size == tap.a * (to.step - 1) + tap.hi - tap.lo + 1
  IN  [size |-> size,
       step |-> IF scanned THEN tap.a * to.step ELSE size,
       min  |-> tap.a * to.min + tap.lo,
       max  |-> tap.a * to.max + tap.hi]

\* Slip: the window is moved to the common place, whatever it then covers.
AllTheWay(spec, size, min_pos) ==
  [spec EXCEPT !.min = min_pos,
               !.max = spec.max + (size - spec.size) - (spec.min - min_pos),
               !.size = size]

\* The second pass of merge_consumer_stencils: a smaller window is moved to the
\* left and enlarged to the right until it has the common size.
Enlarged(spec, size, min_pos) ==
  LET left == Lower(spec.min - min_pos, size - spec.size)
  IN  [spec EXCEPT !.min = spec.min - left,
                   !.max = spec.max + (size - spec.size) - left,
                   !.size = size]

\* The spec of a kernel, and with it the region of each of its consumers.
merge_consumer_stencils(specs, scanned) ==
  LET size    == Max({specs[j].size : j \in DOMAIN specs})
      min_pos == Min({specs[j].min : j \in DOMAIN specs})
      to      == [j \in DOMAIN specs |-> Enlarged(specs[j], size, min_pos)]
  IN  [size |-> size,
       step |-> IF scanned THEN specs[CHOOSE j \in DOMAIN specs : TRUE].step ELSE size,
       min  |-> Min({to[j].min : j \in DOMAIN to}),
       max  |-> Max({to[j].max : j \in DOMAIN to}),
       to   |-> to]

\* BuildDAGForFunction for one dimension: from the output to the inputs.
SpecsOf(p, d) ==
  LET spec[i \in Kernels(p)] ==
        IF i = p.n THEN OutputSpec(p.out[d])
        ELSE merge_consumer_stencils(
               [j \in Consumers(p, i) |->
                  extract_stencil_specs(p.taps[<<i, j>>][d], spec[j], p.out[d].scanned)],
               p.out[d].scanned)
  IN  spec

\* A kernel of the hardware: the same for the two dimensions.
build(p) ==
  LET spec == [d \in Dims |-> SpecsOf(p, d)]
  IN  [i \in Kernels(p) |->
         [size   |-> [d \in Dims |-> spec[d][i].size],
          step   |-> [d \in Dims |-> spec[d][i].step],
          min    |-> [d \in Dims |-> spec[d][i].min],
          extent |-> [d \in Dims |-> spec[d][i].max - spec[d][i].min + 1],
          inputs    |-> input_streams(p, i),
          consumers |-> consumer_stencils(p, i),
          offset |-> [j \in Consumers(p, i) |-> [d \in Dims |-> spec[d][i].to[j].min - spec[d][i].min]],
          window |-> [j \in Consumers(p, i) |-> [d \in Dims |-> spec[d][i].to[j].max - spec[d][i].to[j].min + 1]]]]

\* What is asserted of a pipeline: the steps of the consumers agree
\* (merge_consumer_stencils), the extents are multiples of the steps
\* (transform_kernel, subimage_to_stream, linebuffer), the windows too, and
\* input and output of a line buffer overlap (the static_asserts of Linebuffer.h).
Supported(p) ==
  LET hw == build(p)
  IN  \A i \in Kernels(p), d \in Dims :
        /\ \A j \in Consumers(p, i) :
             p.out[d].scanned => p.taps[<<i, j>>][d].a * hw[j].step[d] = hw[i].step[d]
        /\ hw[i].extent[d] % hw[i].step[d] = 0
        /\ hw[i].size[d] % hw[i].step[d] = 0
        /\ hw[i].extent[d] >= hw[i].size[d]
        /\ hw[i].size[2] \notin {hw[i].step[2], hw[i].extent[2]} \/ hw[i].size[2] = hw[i].step[2]
             \/ hw[i].size[1] = hw[i].extent[1]
=============================================================================
