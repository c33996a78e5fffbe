----------------------------- MODULE MCBusiness -----------------------------
(* Finite instances of Business for TLC.                                   *)
EXTENDS Business

=============================================================================
