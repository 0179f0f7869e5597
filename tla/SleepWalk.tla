----------------------------- MODULE SleepWalk -----------------------------
(***************************************************************************)
(* decrement_waits of system/scheduler.c on the ring of sleep_waiting_q,   *)
(* which it pops from while it walks, an iteration per step, between any   *)
(* calls of push_index and pop_index.  What becomes of durations and of    *)
(* those who wake is in module Scheduler, where queues are sequences; here *)
(* it is left open who is due.                                             *)
(***************************************************************************)
EXTENDS IndexQueue

VARIABLES
    at,       \* "idle", "loop", "end", or the assertion that failed: "sleep_order", "cycle"
    i, p,     \* counter and cursor of the loop
    before,   \* the sleepers when the walk began (history)
    visited,  \* those whose duration it has decremented (history)
    woken     \* those of them that were due (history)

locals == <<i, p, before, visited, woken>>
walkVars == <<q, ret, at, locals>>

NoLocals == i = 0 /\ p = 0 /\ before = <<>> /\ visited = <<>> /\ woken = <<>>

WalkInit == Init /\ at = "idle" /\ NoLocals

\* Somebody goes to sleep, or leaves the queue.
Calls == at = "idle" /\ Next /\ UNCHANGED <<at, locals>>

Begins ==
    /\ at = "idle"
    /\ at' = "loop"
    /\ i' = 0 /\ p' = q.head
    /\ before' = Contents(q) /\ visited' = <<>> /\ woken' = <<>>
    /\ UNCHANGED queueVars

\* What every iteration begins with: thread_idx is read and the cursor moves on.
Visits(thread_idx) ==
    /\ at = "loop" /\ i < q.count
    /\ thread_idx = q.indices[p]
    /\ p' = CircleForward(p, q.size)
    /\ visited' = Append(visited, thread_idx)
    /\ UNCHANGED before

\* The sleeper has time left.
Passes(thread_idx) ==
    /\ Visits(thread_idx)
    /\ i' = i + 1
    /\ UNCHANGED <<q, ret, at, woken>>

\* The counter moves on although the queue has become shorter, which the comment in
\* the loop warns of (mutant).
WakesAndCounts(thread_idx) ==
    /\ Visits(thread_idx)
    /\ pop_index
    /\ at' = IF ret' = thread_idx THEN "loop" ELSE "sleep_order"
    /\ woken' = Append(woken, thread_idx)
    /\ i' = i + 1

\* The sleeper is due.
Wakes(thread_idx) ==
    /\ Visits(thread_idx)
    /\ pop_index
    /\ at' = IF ret' = thread_idx THEN "loop" ELSE "sleep_order"
    /\ woken' = Append(woken, thread_idx)
    /\ UNCHANGED i

\* The loop is over; what follows is the assertion about the cursor.
Leaves ==
    /\ at = "loop" /\ i >= q.count
    /\ at' = IF p = q.tail THEN "end" ELSE "cycle"
    /\ UNCHANGED <<queueVars, locals>>

Returns ==
    /\ at = "end" /\ at' = "idle"
    /\ i' = 0 /\ p' = 0 /\ before' = <<>> /\ visited' = <<>> /\ woken' = <<>>
    /\ UNCHANGED queueVars

\* After an assertion has failed.
kendless_loop == at \in {"sleep_order", "cycle"} /\ UNCHANGED walkVars

WalkNext ==
    \/ Calls \/ Begins \/ Leaves \/ Returns \/ kendless_loop
    \/ \E thread_idx \in 0 .. Size : Passes(thread_idx) \/ Wakes(thread_idx)

WalkSpec == WalkInit /\ [][WalkNext]_walkVars

-----------------------------------------------------------------------------
(* Correctness.                                                             *)

\* Wherever in the ring the queue lies and whoever is due, the walk comes by the sleepers
\* in their order and, unless the assertion about the order fails, by each of them
\* exactly once; those it wakes leave the queue, and the others stay as they were.  A
\* cursor that only moves forward and a count that shrinks meet at the tail: the
\* assertion behind the loop, "Loop did not cycle correctly.", holds
\* (scheduler.c:67-88).
EachSleeperOnce ==
    /\ at # "cycle"
    /\ Len(visited) <= Len(before) /\ visited = SubSeq(before, 1, Len(visited))
    /\ at = "end" => visited = before
    /\ at \in {"loop", "end"} => before = woken \o Contents(q)
=============================================================================
