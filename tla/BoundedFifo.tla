----------------------------- MODULE BoundedFifo ----------------------------
(***************************************************************************)
(* What SpscRing promises its two threads: a first-in first-out queue of   *)
(* at most Capacity values.  The values put are numbered 0, 1, 2, ... and  *)
(* taken lists what the consumer's pops returned.                          *)
(***************************************************************************)
EXTENDS Naturals, Sequences

CONSTANT Capacity

VARIABLES contents, put, taken

fifoVars == <<contents, put, taken>>

Init == contents = <<>> /\ put = 0 /\ taken = <<>>

Put == /\ Len(contents) < Capacity
       /\ contents' = Append(contents, put)
       /\ put' = put + 1
       /\ UNCHANGED taken

Take == /\ contents # <<>>
        /\ taken' = Append(taken, Head(contents))
        /\ contents' = Tail(contents)
        /\ UNCHANGED put

Next == Put \/ Take

Spec == Init /\ [][Next]_fifoVars
=============================================================================
