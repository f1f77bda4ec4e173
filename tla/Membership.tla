----------------------------- MODULE Membership -----------------------------
(***************************************************************************)
(* What every driver promises about the Space tables, whatever it locks:   *)
(* the life cycle of a membership and its ties to the user and the Space.  *)
(* There are no actors and no authorization here.  Both the serialized     *)
(* tables (Spaces) and the READ COMMITTED transactions (SpacesPg)          *)
(* implement this specification; only the former also keeps an ADMIN.      *)
(***************************************************************************)
CONSTANTS User, Space
VARIABLES user, spaces, member

vars == <<user, spaces, member>>

None == [status |-> "none", role |-> "none"]
Invited(r) == [status |-> "INVITED", role |-> r]
Active(r) == [status |-> "ACTIVE", role |-> r]
Roles == {"ADMIN", "USER"}

Init ==
  /\ user = [u \in User |-> "absent"]
  /\ spaces = {}
  /\ member = [s \in Space |-> [u \in User |-> None]]

-----------------------------------------------------------------------------
Register(u) ==
  /\ user[u] = "absent"
  /\ user' = [user EXCEPT ![u] = "NORMAL"]
  /\ UNCHANGED <<spaces, member>>

SetStatus(u) ==
  /\ user[u] # "absent"
  /\ \E st \in {"NORMAL", "ARCHIVED"} : user' = [user EXCEPT ![u] = st]
  /\ UNCHANGED <<spaces, member>>

\* An account goes only when no active membership is left; invitations go with it.
Erase(u) ==
  /\ user[u] # "absent"
  /\ \A s \in Space : member[s][u].status # "ACTIVE"
  /\ user' = [user EXCEPT ![u] = "absent"]
  /\ member' = [s \in Space |-> [member[s] EXCEPT ![u] = None]]
  /\ UNCHANGED spaces

Found(s, u) ==
  /\ s \notin spaces
  /\ user[u] = "NORMAL"
  /\ spaces' = spaces \cup {s}
  /\ member' = [member EXCEPT ![s][u] = Active("ADMIN")]
  /\ UNCHANGED user

Dissolve(s) ==
  /\ s \in spaces
  /\ spaces' = spaces \ {s}
  /\ member' = [member EXCEPT ![s] = [u \in User |-> None]]
  /\ UNCHANGED user

Invite(s, u) ==
  /\ s \in spaces
  /\ user[u] = "NORMAL"
  /\ member[s][u] = None
  /\ \E r \in Roles : member' = [member EXCEPT ![s][u] = Invited(r)]
  /\ UNCHANGED <<user, spaces>>

\* Acceptance keeps the role that was offered, and the user is NORMAL.
Join(s, u) ==
  /\ user[u] = "NORMAL"
  /\ \E r \in Roles : /\ member[s][u] = Invited(r)
                      /\ member' = [member EXCEPT ![s][u] = Active(r)]
  /\ UNCHANGED <<user, spaces>>

ChangeRole(s, u) ==
  /\ member[s][u].status = "ACTIVE"
  /\ \E r \in Roles : member' = [member EXCEPT ![s][u] = Active(r)]
  /\ UNCHANGED <<user, spaces>>

\* A declined or revoked invitation, a member who left or was removed.
Part(s, u) ==
  /\ member[s][u] # None
  /\ member' = [member EXCEPT ![s][u] = None]
  /\ UNCHANGED <<user, spaces>>

Next ==
  \/ \E u \in User : Register(u) \/ SetStatus(u) \/ Erase(u)
  \/ \E s \in Space : Dissolve(s)
  \/ \E s \in Space, u \in User :
       Found(s, u) \/ Invite(s, u) \/ Join(s, u) \/ ChangeRole(s, u) \/ Part(s, u)

Spec == Init /\ [][Next]_vars
=============================================================================
