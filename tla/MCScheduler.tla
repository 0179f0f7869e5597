---------------------------- MODULE MCScheduler ----------------------------
(* Scheduler for TLC.  Frames are only ever compared, so which is which      *)
(* makes no difference.                                                     *)
EXTENDS Scheduler, TLC

FrameSymmetry == Permutations(Frames)
=============================================================================
