------------------------------- MODULE MCXbase -------------------------------
(* Finite instances of Xbase for TLC.                                      *)
EXTENDS Xbase, TLC

ProducersAlike == Permutations(Producers)
=============================================================================
