--------------------------------- MODULE MCPnp ---------------------------------
(* A small instance of Pnp for TLC: two images within a lap of the part      *)
(* number, of three and two parts, and one within which it wraps.  Of the    *)
(* second camera a last part reaches the program.                            *)
EXTENDS Pnp

CONSTANTS c1, c2

TwoCameras  == {c1, c2}
ThreeImages == <<3, 5, 7>>
MostParts   == [c \in Cameras |-> IF c = c1 THEN 1 .. 7 ELSE {3}]

=============================================================================
