----------------------------- MODULE MCWsFrames -----------------------------
(* The lengths at which the forms of a header change, for TLC.             *)
EXTENDS WsFrames

Edges == {0, 1, 125, 126, 127, 255, 256, 65534, 65535, 65536, 65662, 16777216, 2147483647}
=============================================================================
