-------------------------- MODULE ThreadLifecycle --------------------------
(***************************************************************************)
(* What the kernel promises of threads: one runs, the others take turns in *)
(* the order they became ready, sleep as many ticks as they asked for, or  *)
(* wait for a character, the first to ask being the first to get one.  A   *)
(* thread can be started while its team has one to spare, and a team while *)
(* there is one without threads.                                           *)
(*                                                                         *)
(* There are no indices, tcbs, rings or frames here.  Module Scheduler     *)
(* implements this for as long as nothing has been damaged.                *)
(***************************************************************************)
EXTENDS Integers, FiniteSets, SequencesExt

CONSTANTS
    Threads,
    Nobody,     \* runs when no thread does
    Teams,      \* of each process the threads it can have
    BufferSize, \* characters that are kept while nobody waits for one
    Durations   \* numbers of ticks that threads ask to sleep

VARIABLES
    running,
    ready,      \* threads that wait for their turn, oldest first
    left,       \* of each sleeping thread the ticks it has still to sleep
    readers,    \* threads that wait for a character, oldest first
    kept        \* characters that nobody has read

lifeVars == <<running, ready, left, readers, kept>>

Alive == Range(ready) \cup DOMAIN left \cup Range(readers) \cup ({running} \ {Nobody})

\* The running thread stops; the next one runs, if there is any.
Yield ==
    \/ ready = <<>> /\ running' = Nobody /\ UNCHANGED ready
    \/ ready # <<>> /\ running' = Head(ready) /\ ready' = Tail(ready)

\* It is the turn of the first of the queue, if there is one, and the running
\* thread goes behind the others.
Turn(queue) ==
    \/ queue = <<>> /\ UNCHANGED <<running, ready>>
    \/ /\ queue # <<>>
       /\ running' = Head(queue)
       /\ ready' = IF running = Nobody THEN Tail(queue) ELSE Append(Tail(queue), running)

\* A tick.  The sleepers whose last it was become ready, in any order.
Tick ==
    LET due == {t \in DOMAIN left : left[t] = 1}
    IN  /\ \E woken \in SetToSeqs(due) : Turn(ready \o woken)
        /\ left' = [t \in DOMAIN left \ due |-> left[t] - 1]
        /\ UNCHANGED <<readers, kept>>

\* A character comes: for the oldest reader, or for later, or for nobody.
Character ==
    \/ /\ readers # <<>>
       /\ readers' = Tail(readers)
       /\ ready' = Append(ready, Head(readers))
       /\ UNCHANGED <<running, left, kept>>
    \/ /\ readers = <<>> /\ kept < BufferSize
       /\ kept' = kept + 1
       /\ UNCHANGED <<running, ready, left, readers>>
    \/ readers = <<>> /\ kept = BufferSize /\ UNCHANGED lifeVars

Read ==
    /\ running # Nobody
    /\ \/ /\ kept > 0
          /\ kept' = kept - 1
          /\ UNCHANGED <<running, ready, left, readers>>
       \/ /\ kept = 0
          /\ readers' = Append(readers, running)
          /\ Yield
          /\ UNCHANGED <<left, kept>>

Sleep(duration) ==
    /\ running # Nobody
    /\ \/ duration = 0 /\ UNCHANGED lifeVars
       \/ /\ duration > 0
          /\ left' = [t \in DOMAIN left \cup {running} |->
                         IF t = running THEN duration ELSE left[t]]
          /\ Yield
          /\ UNCHANGED <<readers, kept>>

\* The running thread ends: by itself, or because of what it did.
End == running # Nobody /\ Yield /\ UNCHANGED <<left, readers, kept>>

Start(t) == ready' = Append(ready, t) /\ UNCHANGED <<running, left, readers, kept>>

\* A new thread in the caller's team, unless all of it are alive.
CreateThread ==
    /\ running # Nobody
    /\ \E team \in Teams :
           /\ running \in team
           /\ \/ \E t \in team \ Alive : Start(t)
              \/ team \subseteq Alive /\ UNCHANGED lifeVars

\* A new thread in a team without any, unless there is no such team.
Fork ==
    /\ running # Nobody
    /\ \/ \E team \in Teams : team \cap Alive = {} /\ \E t \in team : Start(t)
       \/ (\A team \in Teams : team \cap Alive # {}) /\ UNCHANGED lifeVars

\* One thread is there, and has not had its turn.
Init ==
    /\ running = Nobody
    /\ \E t \in Threads : ready = <<t>>
    /\ left = [t \in {} |-> 0]
    /\ readers = <<>>
    /\ kept = 0

Next ==
    \/ Tick \/ Character \/ Read \/ End \/ CreateThread \/ Fork
    \/ \E duration \in Durations : Sleep(duration)

Spec == Init /\ [][Next]_lifeVars
=============================================================================
