------------------------------ MODULE MCHistory ------------------------------
(* Finite instances of History for TLC.                                    *)
EXTENDS History, TLC

Alike == Permutations(Replays) \cup Permutations(Chans)
=============================================================================
