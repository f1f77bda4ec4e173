-------------------------- MODULE MCSessionsRevoked --------------------------
(* The instance of MCSessions, with the history of removed tokens.         *)
EXTENDS MCSessions, SessionsEnded
=============================================================================
