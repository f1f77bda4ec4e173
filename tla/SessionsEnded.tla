--------------------------- MODULE SessionsEnded ---------------------------
(***************************************************************************)
(* Sessions with a history variable: the refresh tokens that a SignOut or  *)
(* a rotation has removed from the list.                                   *)
(***************************************************************************)
EXTENDS Sessions

VARIABLE ended

endedVars == <<sessionVars, ended>>

\* RemoveUserRefreshToken returns without an error.
Removes(c) == call[c].st = "cache" /\ call[c].mode = "remove" /\ call'[c].st # "cache"

EndedInit == SessionsInit /\ ended = {}
EndedNext == /\ SessionsNext
             /\ ended' = ended \cup {call[c].token : c \in {d \in Call : Removes(d)}}
EndedSpec == EndedInit /\ [][EndedNext]_endedVars

\* A token that SignOut or a rotation removed is not in the list again: it
\* stays revoked.
RevokedStaysRevoked == ended \cap Row = {}
=============================================================================
