----------------------------- MODULE MCAccounts -----------------------------
(* Two calls at once on one process or two, two subjects of a provider, of *)
(* which one is no valid username.                                         *)
EXTENDS Accounts, TLC

CONSTANTS p1, p2, c1, c2, s1, s2, ann, idp

MCProcess == {p1, p2}
MCCall == {c1, c2}
MCSubject == {s1, s2}
MCUsername == {s1, ann}
MCProvider == {idp}
MCSymmetry == Permutations(MCCall) \cup Permutations(MCProcess)
=============================================================================
