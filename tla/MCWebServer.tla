---------------------------- MODULE MCWebServer ----------------------------
(* Finite instances of WebServer for TLC.                                  *)
EXTENDS WebServer, TLC

MCFds2 == 1 .. 2

MCWord == 16

Msg(k, r, b, u) == [kind |-> k, raw |-> r, body |-> b, up |-> u, flaw |-> "none"]
Flawed(k, flaw) == [Msg(k, 2, 0, 0) EXCEPT !.flaw = flaw]

\* An upload that arrives whole, the first part of a longer one, and one that was
\* cut inside the headers of its part.
Whole == Msg("upfile", 4, 3, 3)
Part  == Msg("upfile", 2, 1, 4)
Cut   == Msg("upfile", 2, -1, 4)

\* A Lua call, and an UPFILE whose socket leaks when its file cannot be opened.
Plain == {Msg("lua", 2, 0, 0), Whole}

\* A Lua call, a peer that resets, an UPFILE that names no file, the uploads, and
\* the messages their handlers do not survive.
All == {Msg("lua", 2, 0, 0), Msg("err", -1, 0, 0), Msg("noupfile", 2, 0, 0),
        Whole, Part, Cut, Flawed("lua", "bare"), Flawed("file", "long"),
        Flawed("lua", "nil"), Flawed("lua", "big")}

\* Clients that may reset are told apart from the others.
Symm == Permutations(Conns \ MayReset)
=============================================================================
