---------------------------- MODULE MCEventPosix ----------------------------
(* Finite instances of EventPosix for TLC.                                 *)
EXTENDS EventPosix, TLC

ThreadsAlike == Permutations(Threads)
=============================================================================
