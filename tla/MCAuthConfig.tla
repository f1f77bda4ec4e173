---------------------------- MODULE MCAuthConfig ----------------------------
(* Two processes, two concurrent administrator calls, two providers.         *)
EXTENDS AuthConfig, TLC

CONSTANTS p1, p2, c1, c2, github, google

MCProcess == {p1, p2}
MCCall == {c1, c2}
MCUid == {github, google}

\* Processes, calls and UIDs are interchangeable; for runs without liveness.
MCSymmetry == Permutations(MCProcess) \cup Permutations(MCCall) \cup Permutations(MCUid)
=============================================================================
