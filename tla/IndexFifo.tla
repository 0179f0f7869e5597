------------------------------ MODULE IndexFifo ------------------------------
(***************************************************************************)
(* What a struct index_queue of tupix promises its callers: a bounded      *)
(* first-in first-out queue of 1-based indices.  A push of an index that   *)
(* the queue cannot hold, or onto a full queue, and a pop of an empty      *)
(* queue answer -1 and change nothing.                                     *)
(*                                                                         *)
(* The scheduler modules use this abstract queue; module IndexQueue is the *)
(* ring buffer of data/types.c, and IndexQueue_proofs proves that the ring *)
(* implements this specification.                                          *)
(***************************************************************************)
EXTENDS Integers, Sequences

CONSTANT Size  \* struct index_queue.size, the capacity, a positive number

VARIABLES fifo,  \* the queued indices, oldest first
          ret    \* what the last call returned, 0 before any call

fifoVars == <<fifo, ret>>

Indices == 1 .. Size

Init == /\ fifo \in {<<>>, [i \in Indices |-> i]}
        /\ ret = 0

Push(index) ==
    \/ /\ index \in Indices
       /\ Len(fifo) < Size
       /\ fifo' = Append(fifo, index)
       /\ ret' = index
    \/ /\ index \notin Indices \/ Len(fifo) = Size
       /\ ret' = -1
       /\ UNCHANGED fifo

Pop ==
    \/ /\ fifo # <<>>
       /\ fifo' = Tail(fifo)
       /\ ret' = Head(fifo)
    \/ /\ fifo = <<>>
       /\ ret' = -1
       /\ UNCHANGED fifo

Next == Pop \/ \E index \in Nat : Push(index)

Spec == Init /\ [][Next]_fifoVars
=============================================================================
