----------------------------- MODULE IndexQueue -----------------------------
(***************************************************************************)
(* One struct index_queue of include/data/types.h under arbitrary calls of *)
(* push_index and pop_index, and the claim that it is a bounded FIFO       *)
(* (module IndexFifo).                                                     *)
(***************************************************************************)
EXTENDS IndexRing

CONSTANT Size  \* number of elements of the array given to INIT_INDEX_QUEUE

ASSUME SizeAssumption == Size \in Nat \ {0}

VARIABLES q,   \* the queue
          ret  \* what the last call returned, 0 before any call

queueVars == <<q, ret>>

Init == /\ q \in {EmptyQueue(Size), AllFree(Size)}
        /\ ret = 0

push_index(index) ==
    \/ /\ Rejects(q, index)
       /\ ret' = -1
       /\ UNCHANGED q
    \/ /\ ~Rejects(q, index)
       /\ q' = Pushed(q, index)
       /\ ret' = index

pop_index ==
    \/ /\ q.count = 0
       /\ ret' = -1
       /\ UNCHANGED q
    \/ /\ q.count # 0
       /\ q' = Popped(q)
       /\ ret' = q.indices[q.head]

\* Every index a caller could pass that the code tells apart: 0, each valid
\* index and one above the size.
Next == pop_index \/ \E index \in 0 .. Size + 1 : push_index(index)

Spec == Init /\ [][Next]_queueVars

-----------------------------------------------------------------------------
(* Correctness.                                                             *)

\* Types: the fields stay within the array and the returned values are -1 or
\* an index (types.c push_index, pop_index).
TypeOK == q \in Rings(Size, 0 .. Size) /\ ret \in -1 .. Size

\* The tail is always count slots past the head.  decrement_waits
\* (scheduler.c:88) asserts it at the end of its walk, and push_index relies on
\* it to append behind the newest element.
TailFollowsHead == q.tail = Wrap(q.head + q.count, Size)

\* What is queued is a real index: no slot between head and tail still holds
\* the 0 of the memset, so pop_index never answers 0 (kill_cur_thread treats 0
\* as "no thread", scheduler.c:241).
QueuedAreIndices == \A k \in 1 .. q.count : q.indices[SlotOf(q, k)] \in 1 .. Size

Inv == TypeOK /\ TailFollowsHead /\ QueuedAreIndices

Fifo == INSTANCE IndexFifo WITH fifo <- Contents(q)

\* Every call of the ring is a call of the abstract queue with the same answer,
\* for the indices Next passes: elements come out in the order they went in,
\* none lost and none twice, across any number of wrap-arounds (types.c:24-64).
StepsAreFifoSteps ==
    [][Fifo!Pop \/ \E index \in 0 .. Size + 1 : Fifo!Push(index)]_queueVars

\* The same as an implementation of IndexFifo, whose Next ranges over Nat and
\* is beyond TLC.
ImplementsFifo == Fifo!Spec
=============================================================================
