------------------------------ MODULE ByteFifo ------------------------------
(***************************************************************************)
(* What the audio ring buffer promises: a bounded queue of bytes, read in  *)
(* the order written, that may be emptied at once.  The n-th byte written  *)
(* is the number n - 1.                                                    *)
(***************************************************************************)
EXTENDS Integers, Sequences

CONSTANT Capacity   \* bytes the queue can hold

VARIABLES queue, \* bytes written and not yet read
          next,  \* number of the next byte to be written
          last   \* the byte read last, or -1
fvars == <<queue, next, last>>

FInit == queue = <<>> /\ next = 0 /\ last = -1

Put == /\ Len(queue) < Capacity
       /\ queue' = Append(queue, next)
       /\ next' = next + 1
       /\ UNCHANGED last

\* One interrupt may read several bytes; last is the newest of them.
Get == \E k \in 1..Len(queue) :
         /\ last' = queue[k]
         /\ queue' = SubSeq(queue, k + 1, Len(queue))
         /\ UNCHANGED next

Clear == queue' = <<>> /\ UNCHANGED <<next, last>>

FNext == Put \/ Get \/ Clear
FSpec == FInit /\ [][FNext]_fvars
=============================================================================
