---------------------------- MODULE MCLineBuffer ----------------------------
(***************************************************************************)
(* LineBuffer for TLC: small pipelines, which between them need every kind *)
(* of line buffer.                                                         *)
(***************************************************************************)
EXTENDS LineBuffer

Tap(a, lo, hi) == [a |-> a, lo |-> lo, hi |-> hi]
Out(extent, step) == [extent |-> extent, step |-> step, scanned |-> extent > step]

Point == <<Tap(1, 0, 0), Tap(1, 0, 0)>>
Pair  == <<Tap(1, 0, 1), Tap(1, 0, 1)>>

\* Two stencils one after the other: two rings of lines.
Chain == [n |-> 3, byname |-> <<1, 2, 3>>, out |-> <<Out(2, 1), Out(2, 1)>>,
          taps |-> (<<1, 2>> :> <<Tap(1, 0, 1), Tap(1, -1, 1)>> @@ <<2, 3>> :> Pair),
          depth |-> (<<1, 2>> :> 0 @@ <<2, 3>> :> 0)]

\* The output reads a stencil and its input: the FIFO of the shorter path has
\* to hold what the line buffer of the longer one does.
Reconvergent == [n |-> 3, byname |-> <<2, 1, 3>>, out |-> <<Out(2, 1), Out(2, 1)>>,
                 taps |-> (<<1, 2>> :> Point @@ <<2, 3>> :> Pair @@ <<1, 3>> :> Point),
                 depth |-> (<<1, 2>> :> 0 @@ <<2, 3>> :> 0 @@ <<1, 3>> :> 2)]

\* Windows of different sizes and places of one input.
Uneven == [n |-> 4, byname |-> <<3, 1, 2, 4>>, out |-> <<Out(2, 1), Out(1, 1)>>,
           taps |-> (<<1, 2>> :> <<Tap(1, -1, 1), Tap(1, 0, 0)>> @@ <<1, 3>> :> <<Tap(1, 2, 2), Tap(1, 0, 0)>>
                     @@ <<2, 4>> :> Point @@ <<3, 4>> :> Point),
           depth |-> (<<1, 2>> :> 0 @@ <<1, 3>> :> 0 @@ <<2, 4>> :> 0 @@ <<3, 4>> :> 3)]

\* Half the resolution in both dimensions, two pixels an iteration.
Down == [n |-> 2, byname |-> <<1, 2>>, out |-> <<Out(4, 2), Out(2, 1)>>,
         taps |-> (<<1, 2>> :> <<Tap(2, 0, 1), Tap(2, -1, 2)>>),
         depth |-> (<<1, 2>> :> 1)]

\* Half the resolution again, of an input three kernels read: the windows of the
\* second one begin at odd pixels, those of the input at even ones.
OddPhase == [n |-> 5, byname |-> <<1, 2, 3, 4, 5>>, out |-> <<Out(2, 1), Out(1, 1)>>,
             taps |-> (<<1, 2>> :> <<Tap(2, 0, 1), Tap(1, 0, 0)>> @@ <<1, 3>> :> <<Tap(2, 1, 2), Tap(1, 0, 0)>>
                       @@ <<1, 4>> :> <<Tap(2, 2, 3), Tap(1, 0, 0)>>
                       @@ <<2, 5>> :> Point @@ <<3, 5>> :> Point @@ <<4, 5>> :> Point),
             depth |-> (<<1, 2>> :> 0 @@ <<1, 3>> :> 0 @@ <<1, 4>> :> 0
                        @@ <<2, 5>> :> 0 @@ <<3, 5>> :> 0 @@ <<4, 5>> :> 0)]

Odd == [odd_phase |-> OddPhase]

\* One column, and one block for all of the output.
Column == [n |-> 2, byname |-> <<1, 2>>, out |-> <<Out(1, 1), Out(3, 1)>>,
           taps |-> (<<1, 2>> :> Pair), depth |-> (<<1, 2>> :> 0)]

\* Loops of one iteration: the window is all there is of the input.
Whole == [n |-> 2, byname |-> <<1, 2>>,
          out |-> [d \in Dims |-> [extent |-> 1, step |-> 1, scanned |-> TRUE]],
          taps |-> (<<1, 2>> :> Pair), depth |-> (<<1, 2>> :> 0)]

Small == [chain |-> Chain, reconvergent |-> Reconvergent, uneven |-> Uneven,
          down |-> Down, column |-> Column, whole |-> Whole]
=============================================================================
