------------------------------ MODULE MCStartup ------------------------------
(* Two processes of two releases; the file of version 3 can be repeated.   *)
EXTENDS Startup

CONSTANTS p1, p2

MCProc == {p1, p2}
MCRelease == {2, 4}
MCRepeatable == {3}
=============================================================================
