------------------------------ MODULE IndexRing ------------------------------
(***************************************************************************)
(* The functions of data/types.c as operators on a queue value: a record   *)
(* of the fields of struct index_queue, `indices` being the array the      *)
(* field points to.  Module IndexQueue drives one such queue through       *)
(* arbitrary calls; module Scheduler keeps one in every process.           *)
(***************************************************************************)
EXTENDS Integers, Sequences

\* circle_forward(var, size): the next slot of the ring.
CircleForward(var, size) == IF var + 1 >= size THEN 0 ELSE var + 1

\* INIT_INDEX_QUEUE: struct and array are zeroed, then size is set.
EmptyQueue(size) == [size |-> size, count |-> 0, tail |-> 0, head |-> 0,
                     indices |-> [s \in 0 .. size - 1 |-> 0]]

\* MARK_ALL_FREE on a queue just initialised: 1 .. size pushed in order, the
\* tail being back at slot 0.
AllFree(size) == [size |-> size, count |-> size, tail |-> 0, head |-> 0,
                  indices |-> [s \in 0 .. size - 1 |-> s + 1]]

\* push_index without its bounds check on the index (mutant).
RejectsOnlyFull(q, index) == q.count >= q.size

\* push_index that takes one element too many (mutant), or too few (mutant).
RejectsLate(q, index) == index <= 0 \/ index > q.size \/ q.count > q.size
RejectsEarly(q, index) == index <= 0 \/ index > q.size \/ q.count + 1 >= q.size

\* The early returns of push_index: index 0, an index above size, a full queue.
Rejects(q, index) == index <= 0 \/ index > q.size \/ q.count >= q.size

\* The rest of push_index.
Pushed(q, index) ==
    [q EXCEPT !.indices[q.tail] = index,
              !.tail = CircleForward(q.tail, q.size),
              !.count = @ + 1]

\* A pop that forgets to move the head (mutant).
PoppedInPlace(q) == [q EXCEPT !.count = @ - 1]

\* pop_index of a queue that is not empty; it answers q.indices[q.head].
Popped(q) == [q EXCEPT !.head = CircleForward(q.head, q.size), !.count = @ - 1]

\* Queues over an array of n slots whose elements are in E.
Rings(n, E) == [size : {n}, count : 0 .. n, tail : 0 .. n - 1, head : 0 .. n - 1,
                indices : [0 .. n - 1 -> E]]

-----------------------------------------------------------------------------
(* Reading a queue as the sequence it stands for.                           *)

\* Slot i of a ring, i having passed its end at most once.
Wrap(i, size) == IF i >= size THEN i - size ELSE i

\* The slot of the k-th queued element (k from 1).
SlotOf(q, k) == Wrap(q.head + k - 1, q.size)

\* The queued indices, oldest first.
Contents(q) == [k \in 1 .. q.count |-> q.indices[SlotOf(q, k)]]
=============================================================================
