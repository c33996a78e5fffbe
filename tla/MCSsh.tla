-------------------------------- MODULE MCSsh --------------------------------
(* Finite instances of Ssh for TLC.                                        *)
EXTENDS Ssh, TLC
=============================================================================
