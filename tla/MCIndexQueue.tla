---------------------------- MODULE MCIndexQueue ----------------------------
(* IndexQueue and the walk over it for TLC.                                 *)
EXTENDS SleepWalk, SequencesExt

\* AllFree is what the loop of MARK_ALL_FREE leaves: push_index of 1 .. size
\* onto a queue just initialised.
ASSUME AllFreeIsPushLoop ==
    AllFree(Size) = FoldLeft(LAMBDA x, n : Pushed(x, n), EmptyQueue(Size), [n \in 1 .. Size |-> n])
=============================================================================
