------------------------------- MODULE Spaces -------------------------------
(***************************************************************************)
(* The Space membership tables of Memos and the transactions that change   *)
(* them: user.row_status, the space rows and the space_member rows.        *)
(*                                                                         *)
(* Every action is one store transaction, executed atomically.  That is    *)
(* what the SQLite driver gives: a deferred transaction whose snapshot was *)
(* overtaken by another writer cannot upgrade to a write and fails, so the *)
(* committed transactions are serialized.  The PostgreSQL driver runs the  *)
(* same statements at READ COMMITTED; module SpacesPg models it statement  *)
(* by statement.                                                           *)
(*                                                                         *)
(* A rejected request (an error return) leaves the tables alone, so an     *)
(* action is enabled only where the code commits.  Database identifiers    *)
(* are slots: deleting a row frees its slot for a later row.               *)
(***************************************************************************)
CONSTANTS User,     \* slots of the user table
          Space     \* slots of the space table

VARIABLES user,     \* user[u]: "absent" or the row_status of the row
          spaces,   \* the space rows that exist
          member    \* member[s][u]: the space_member row, NoRow when there is none

spaceVars == <<user, spaces, member>>

RowStatus == {"NORMAL", "ARCHIVED"}

\* SpaceMemberRole (store/space.go); IsActiveMember accepts exactly these two.
Role == {"ADMIN", "USER"}

NoRow == [status |-> "none", role |-> "none"]
MemberRow == {NoRow} \cup [status : {"INVITED", "ACTIVE"}, role : Role]

Row(st, r) == [status |-> st, role |-> r]

-----------------------------------------------------------------------------
(* What the queries of the drivers compute.                                *)

\* requireSQLiteActiveUser: the row exists and is NORMAL.
ActiveUser(u) == user[u] = "NORMAL"

\* An ACTIVE ADMIN row of a NORMAL user: the join every administrator check
\* and every administrator count uses.
ActiveAdmin(s, u) == member[s][u] = Row("ACTIVE", "ADMIN") /\ ActiveUser(u)

ActiveAdmins(s) == {u \in User : ActiveAdmin(s, u)}

\* authorizeSQLiteSpaceAdmin.
AuthorizeSpaceAdmin(s, actor) == s \in spaces /\ ActiveAdmin(s, actor)

\* (a plausible slip) the count compared with >= 1
HasOneActiveAdmin(s) == ActiveAdmins(s) # {}

\* SELECT COUNT(*) ... > 1: the check that rejects with ErrLastSpaceAdmin.
HasTwoActiveAdmins(s) == \E v, w \in ActiveAdmins(s) : v # w

-----------------------------------------------------------------------------
(* The user table.                                                         *)

CreateUser(u) ==
  /\ user[u] = "absent"
  /\ user' = [user EXCEPT ![u] = "NORMAL"]
  /\ UNCHANGED <<spaces, member>>

\* validateSQLiteUserArchive: some Space would be left without an active ADMIN.
WouldLoseAdmin(u) ==
  \E s \in Space :
    /\ member[s][u] = Row("ACTIVE", "ADMIN")
    /\ ~ \E v \in User \ {u} : ActiveAdmin(s, v)

\* UpdateUser with RowStatus = ARCHIVED.
ArchiveUser(u) ==
  /\ ActiveUser(u)
  /\ ~ WouldLoseAdmin(u)
  /\ user' = [user EXCEPT ![u] = "ARCHIVED"]
  /\ UNCHANGED <<spaces, member>>

\* UpdateUser with RowStatus = NORMAL; the memberships were kept, so the user
\* has them back.
RestoreUser(u) ==
  /\ user[u] = "ARCHIVED"
  /\ user' = [user EXCEPT ![u] = "NORMAL"]
  /\ UNCHANGED <<spaces, member>>

\* (a plausible slip) the pending invitations are left behind
DeleteUserKeepingInvitations(u) ==
  /\ user[u] # "absent"
  /\ \A s \in Space : member[s][u].status \in {"none", "INVITED"}
  /\ user' = [user EXCEPT ![u] = "absent"]
  /\ UNCHANGED <<spaces, member>>

\* DeleteUser: refused while a membership that is not a pending invitation
\* exists; pending invitations are removed in the same transaction.
DeleteUser(u) ==
  /\ user[u] # "absent"
  /\ \A s \in Space : member[s][u].status \in {"none", "INVITED"}
  /\ member' = [s \in Space |-> [member[s] EXCEPT ![u] = NoRow]]
  /\ user' = [user EXCEPT ![u] = "absent"]
  /\ UNCHANGED spaces

-----------------------------------------------------------------------------
(* The space table and its memberships.                                    *)

\* CreateSpace: the Space and its first ADMIN membership.
CreateSpace(creator, s) ==
  /\ ActiveUser(creator)
  /\ s \notin spaces
  /\ spaces' = spaces \cup {s}
  /\ member' = [member EXCEPT ![s][creator] = Row("ACTIVE", "ADMIN")]
  /\ UNCHANGED user

\* CreateSpaceInvitation: the primary key refuses a second row for the pair.
CreateSpaceInvitation(actor, s, u, r) ==
  /\ AuthorizeSpaceAdmin(s, actor)
  /\ ActiveUser(u)
  /\ member[s][u] = NoRow
  /\ member' = [member EXCEPT ![s][u] = Row("INVITED", r)]
  /\ UNCHANGED <<user, spaces>>

\* (a plausible slip) acceptance grants the default role, not the offered one
AcceptAsUser(s, u) ==
  /\ ActiveUser(u)
  /\ member[s][u].status = "INVITED"
  /\ member' = [member EXCEPT ![s][u] = Row("ACTIVE", "USER")]
  /\ UNCHANGED <<user, spaces>>

\* AcceptSpaceInvitation: the actor is the invitee; only the status changes.
AcceptSpaceInvitation(s, u) ==
  /\ ActiveUser(u)
  /\ member[s][u].status = "INVITED"
  /\ member' = [member EXCEPT ![s][u] = Row("ACTIVE", member[s][u].role)]
  /\ UNCHANGED <<user, spaces>>

\* DeclineSpaceInvitation: by the invitee.
DeclineSpaceInvitation(s, u) ==
  /\ ActiveUser(u)
  /\ member[s][u].status = "INVITED"
  /\ member' = [member EXCEPT ![s][u] = NoRow]
  /\ UNCHANGED <<user, spaces>>

\* RevokeSpaceInvitation: by an administrator; the invitee may be archived.
RevokeSpaceInvitation(actor, s, u) ==
  /\ AuthorizeSpaceAdmin(s, actor)
  /\ member[s][u].status = "INVITED"
  /\ member' = [member EXCEPT ![s][u] = NoRow]
  /\ UNCHANGED <<user, spaces>>

\* (a plausible slip) the target user is not required to be NORMAL
UpdateAnySpaceMember(actor, s, u, r) ==
  /\ AuthorizeSpaceAdmin(s, actor)
  /\ member[s][u].status = "ACTIVE"
  /\ member[s][u].role = "ADMIN" /\ r # "ADMIN" => HasTwoActiveAdmins(s)
  /\ member' = [member EXCEPT ![s][u] = Row("ACTIVE", r)]
  /\ UNCHANGED <<user, spaces>>

\* UpdateSpaceMember: demoting an ADMIN needs a second active one.
UpdateSpaceMember(actor, s, u, r) ==
  /\ AuthorizeSpaceAdmin(s, actor)
  /\ ActiveUser(u)
  /\ member[s][u].status = "ACTIVE"
  /\ member[s][u].role = "ADMIN" /\ r # "ADMIN" => HasTwoActiveAdmins(s)
  /\ member' = [member EXCEPT ![s][u] = Row("ACTIVE", r)]
  /\ UNCHANGED <<user, spaces>>

\* DeleteSpaceMember: leaving (actor = u) or removal by an administrator.  An
\* archived ADMIN does not count, so removing one needs no second ADMIN.
DeleteSpaceMember(actor, s, u) ==
  /\ s \in spaces
  /\ actor # u => ActiveAdmin(s, actor)
  /\ member[s][u].status = "ACTIVE"
  /\ ActiveAdmin(s, u) => HasTwoActiveAdmins(s)
  /\ member' = [member EXCEPT ![s][u] = NoRow]
  /\ UNCHANGED <<user, spaces>>

\* DeleteSpace: memberships and pending invitations go with the Space.
DeleteSpace(actor, s) ==
  /\ AuthorizeSpaceAdmin(s, actor)
  /\ member' = [member EXCEPT ![s] = [u \in User |-> NoRow]]
  /\ spaces' = spaces \ {s}
  /\ UNCHANGED user

-----------------------------------------------------------------------------
SpaceInit ==
  /\ user = [u \in User |-> "absent"]
  /\ spaces = {}
  /\ member = [s \in Space |-> [u \in User |-> NoRow]]

UserNext(u) ==
  CreateUser(u) \/ ArchiveUser(u) \/ RestoreUser(u) \/ DeleteUser(u)

InvitationNext(s, u) ==
  \/ \E a \in User, r \in Role : CreateSpaceInvitation(a, s, u, r)
  \/ AcceptSpaceInvitation(s, u)
  \/ DeclineSpaceInvitation(s, u)
  \/ \E a \in User : RevokeSpaceInvitation(a, s, u)

MembershipNext(s, u) ==
  \/ \E a \in User, r \in Role : UpdateSpaceMember(a, s, u, r)
  \/ \E a \in User : DeleteSpaceMember(a, s, u)

SpaceNext ==
  \/ \E u \in User : UserNext(u)
  \/ \E s \in Space, u \in User : CreateSpace(u, s) \/ DeleteSpace(u, s)
  \/ \E s \in Space, u \in User : InvitationNext(s, u) \/ MembershipNext(s, u)

SpaceSpec == SpaceInit /\ [][SpaceNext]_spaceVars

-----------------------------------------------------------------------------
(* Properties.                                                             *)

\* The tables hold only what the schema's CHECK constraints and the enum
\* values of store/space.go and store/user.go allow.
SpaceTypeOK ==
  /\ user \in [User -> RowStatus \cup {"absent"}]
  /\ spaces \subseteq Space
  /\ member \in [Space -> [User -> MemberRow]]

\* Every Space keeps an active ADMIN: no sequence of demotions, removals,
\* leaves, archivals, restorations and deletions leaves a Space that nobody can
\* administer (the ErrLastSpaceAdmin checks of UpdateSpaceMember,
\* DeleteSpaceMember and UpdateUser together).
ActiveAdminRetained == \A s \in spaces : ActiveAdmins(s) # {}

\* No orphaned membership or invitation: a space_member row always refers to a
\* user row and a space row that exist (DeleteUser and DeleteSpace against every
\* operation that creates or activates a row).
NoOrphanMember ==
  \A s \in Space, u \in User :
    member[s][u] # NoRow => s \in spaces /\ user[u] # "absent"

\* The tables implement the membership life cycle: nobody becomes active without
\* accepting, while NORMAL, an invitation and with the role it offered, or
\* creating the Space; nobody is erased out of an active membership; and what
\* ends a Space or an account ends its memberships and invitations.
Lifecycle == INSTANCE Membership
MembershipLifecycle == Lifecycle!Spec

\* Archiving freezes a membership: while a user is not NORMAL its row in a
\* Space that survives the step is either untouched or removed, never
\* activated or given another role, so restoring the user returns exactly what
\* it had.
ArchivedRowFrozen ==
  [][\A s \in Space, u \in User :
       user[u] = "ARCHIVED" => member'[s][u] \in {member[s][u], NoRow}]_spaceVars
=============================================================================
