----------------------------- MODULE MCSessions -----------------------------
(* Two processes and two calls at once; two tokens.                        *)
EXTENDS Sessions

CONSTANTS p1, p2, c1, c2, t1, t2

MCProcess == {p1, p2}
MCCall == {c1, c2}
MCToken == {t1, t2}
=============================================================================
