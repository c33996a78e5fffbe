------------------------------ MODULE MCWebSock ------------------------------
(* Finite instances of WebSock for TLC.                                    *)
EXTENDS WebSock

=============================================================================
