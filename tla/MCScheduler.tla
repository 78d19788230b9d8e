---------------------------- MODULE MCScheduler ----------------------------
(***************************************************************************)
(* Instances of Scheduler for TLC.                                         *)
(***************************************************************************)
EXTENDS Scheduler

CONSTANTS t1, t2, c1, c2, f1, f2, f3, f4

\* No entry is bound to a thread.
NoPins == [x \in UserFibers \cup Cbs |-> AnyThread]

\* The callback c1 is bound to the thread t1, everything else is not.
PinFirst == [x \in UserFibers \cup Cbs |-> IF x = c1 THEN t1 ELSE AnyThread]

FiberSymmetry == Permutations(Fibers \ UserFibers)
=============================================================================
