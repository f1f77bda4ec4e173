------------------------------ MODULE SpacesPg ------------------------------
(***************************************************************************)
(* The Space transactions of the PostgreSQL driver, statement by statement *)
(* at READ COMMITTED, each interleaved with the others.  A statement sees  *)
(* what is committed when it runs; SELECT ... FOR UPDATE waits for the row *)
(* and keeps it until the transaction ends; a failed check rolls back.     *)
(*                                                                         *)
(* The last write of a transaction and its COMMIT are one step: what other *)
(* transactions do in between either waits for the row, as if it ran after *)
(* the commit, or reads the old version, as if it ran before the write.    *)
(* For the same reason the two reads of the administrator check are one    *)
(* (a committed membership implies its Space), and the row locks of a last *)
(* write of one row need no representation.                                *)
(*                                                                         *)
(* DeleteUser and DeleteSpace delete many rows before they commit, one row *)
(* lock after the other: memberships, and the memos with their shares,     *)
(* reactions, attachments and relations.  Those are Dependent rows here:   *)
(* their locks count, and what they hold is module Memos.  Which of them a *)
(* deletion finds, and in which order, is left open.                       *)
(*                                                                         *)
(* user, spaces and member hold the committed rows.                        *)
(***************************************************************************)
EXTENDS Spaces, Naturals, Sequences

CONSTANTS Tx,        \* database connections
          NoSpace,   \* the Space argument of transactions that have none
          Dependent  \* rows of memo, memo_share, reaction, attachment, memo_relation...

VARIABLES tx,        \* tx[t]: Idle or the transaction in progress on connection t
          deleted    \* deleted[t]: the rows its deletion has deleted so far, uncommitted

pgVars == <<user, spaces, member, tx, deleted>>

MemberRows == {"member"} \X Space \X User
DependentRows == {"dependent"} \X Dependent

Idle == [todo |-> <<>>, actor |-> "none", space |-> "none", target |-> "none",
         role |-> "none", mustCount |-> FALSE, holds |-> {}]

Running(t) == tx[t].todo # <<>>
At(t, stmt) == Running(t) /\ Head(tx[t].todo) = stmt

-----------------------------------------------------------------------------
(* The statements of each transaction, in order.                           *)

CreateSpaceTx == <<"lockActiveUser", "insertSpace">>

CreateSpaceInvitationTx == <<"authorize", "lockSpace", "lockActiveUser", "insertInvitation">>

\* (a plausible slip) the invitee's row is read without a lock
AcceptUnlockedTx == <<"requireActiveUser", "activate">>

\* (a plausible slip) the Space is locked as well, after the user
AcceptLockingSpaceTx == <<"lockActiveUser", "lockSpace", "activate">>

AcceptSpaceInvitationTx == <<"lockActiveUser", "activate">>
DeclineSpaceInvitationTx == <<"requireActiveUser", "deleteInvited">>
RevokeSpaceInvitationTx == <<"authorize", "deleteInvited">>
UpdateSpaceMemberTx == <<"authorize", "requireActiveUser", "readMember", "countAdmins", "updateRole">>
DeleteSpaceMemberTx == <<"readStatuses", "authorizeRemoval", "readMember", "countAdmins", "deleteActive">>
ArchiveUserTx == <<"validateArchive", "archive">>

\* (a plausible slip) the Space is not locked before its memberships go
DeleteSpaceUnlockedTx == <<"readActorStatus", "readActorRole", "deleteSpace">>

DeleteSpaceTx == <<"readActorStatus", "lockSpace", "readActorRole", "deleteSpace">>
DeleteUserTx == <<"lockUser", "countMemberships", "deleteUser">>

-----------------------------------------------------------------------------
(* Running a transaction.                                                  *)

\* Identifiers are never reused, so a slot is free only when no transaction
\* in progress still carries it as an argument.
Unmentioned(x) == \A t \in Tx : x \notin {tx[t].actor, tx[t].space, tx[t].target}

Begin(t, stmts, a, s, u, r) ==
  /\ ~ Running(t)
  /\ tx' = [tx EXCEPT ![t] = [Idle EXCEPT !.todo = stmts, !.actor = a, !.space = s,
                                          !.target = u, !.role = r]]
  /\ UNCHANGED <<spaceVars, deleted>>

\* A row is locked by FOR UPDATE or by its deletion.
Locked(t) == tx[t].holds \cup deleted[t]
HeldByOther(t, row) == \E o \in Tx \ {t} : row \in Locked(o)

\* The transaction of t, one statement further.
Onward(t) == [tx[t] EXCEPT !.todo = Tail(tx[t].todo)]

\* A statement that only reads: go on if its check passes, roll back if not.
Check(t, ok) ==
  /\ tx' = [tx EXCEPT ![t] = IF ok THEN Onward(t) ELSE Idle]
  /\ UNCHANGED <<spaceVars, deleted>>

\* SELECT ... FOR UPDATE, evaluated once the row is free.
Lock(t, row, ok) ==
  /\ ~ HeldByOther(t, row)
  /\ tx' = [tx EXCEPT ![t] =
              IF ok THEN [Onward(t) EXCEPT !.holds = tx[t].holds \cup {row}] ELSE Idle]
  /\ UNCHANGED <<spaceVars, deleted>>

\* The transaction is over, committed or rolled back; its locks are released.
End(t) == tx' = [tx EXCEPT ![t] = Idle] /\ deleted' = [deleted EXCEPT ![t] = {}]

\* The last write and COMMIT, or a rollback when the write finds no row.
Commit(t, ok, newUser, newSpaces, newMember) ==
  /\ End(t)
  /\ user' = IF ok THEN newUser ELSE user
  /\ spaces' = IF ok THEN newSpaces ELSE spaces
  /\ member' = IF ok THEN newMember ELSE member

\* A lost connection, a cancelled request, a crash before COMMIT, or the victim
\* of a deadlock.
Abort(t) == Running(t) /\ End(t) /\ UNCHANGED spaceVars

-----------------------------------------------------------------------------
(* Checks and locks.                                                       *)

\* authorizePostgresSpaceAdmin: unlocked reads.
Authorize(t) ==
  At(t, "authorize") /\ Check(t, AuthorizeSpaceAdmin(tx[t].space, tx[t].actor))

\* requirePostgresActiveUser: an unlocked read of the target.
RequireActiveUser(t) ==
  /\ At(t, "requireActiveUser")
  /\ tx' = [tx EXCEPT ![t] =
              IF ActiveUser(tx[t].target) THEN [Onward(t) EXCEPT !.mustCount = TRUE] ELSE Idle]
  /\ UNCHANGED <<spaceVars, deleted>>

\* lockPostgresActiveUser.
LockActiveUser(t) ==
  /\ At(t, "lockActiveUser")
  /\ Lock(t, <<"user", tx[t].target>>, ActiveUser(tx[t].target))

\* lockPostgresSpace.
LockSpace(t) ==
  At(t, "lockSpace") /\ Lock(t, <<"space", tx[t].space>>, tx[t].space \in spaces)

\* The start of DeleteUser: the row, whatever its status.
LockUser(t) ==
  At(t, "lockUser") /\ Lock(t, <<"user", tx[t].target>>, user[tx[t].target] # "absent")

\* DeleteUser's COUNT(*) of memberships that are not invitations.
CountMemberships(t) ==
  /\ At(t, "countMemberships")
  /\ Check(t, \A s \in Space : member[s][tx[t].target].status # "ACTIVE")

\* readPostgresUserStatuses in DeleteSpaceMember: an actor who removes somebody
\* else is NORMAL; whether the target is decides about the count later on.
ReadStatuses(t) ==
  /\ At(t, "readStatuses")
  /\ tx' = [tx EXCEPT ![t] =
              IF tx[t].actor # tx[t].target => ActiveUser(tx[t].actor)
                THEN [Onward(t) EXCEPT !.mustCount = ActiveUser(tx[t].target)]
                ELSE Idle]
  /\ UNCHANGED <<spaceVars, deleted>>

\* DeleteSpaceMember's reads of the Space and of the actor's own row.
AuthorizeRemoval(t) ==
  /\ At(t, "authorizeRemoval")
  /\ Check(t, /\ tx[t].space \in spaces
              /\ tx[t].actor # tx[t].target =>
                   member[tx[t].space][tx[t].actor] = Row("ACTIVE", "ADMIN"))

\* getPostgresSpaceMember, and whether the caller goes on to count: only when an
\* ADMIN of a NORMAL user is demoted or removed (role is then "none").
ReadMember(t) ==
  /\ At(t, "readMember")
  /\ tx' = [tx EXCEPT ![t] =
              IF member[tx[t].space][tx[t].target].status = "ACTIVE"
                THEN [Onward(t) EXCEPT
                        !.mustCount = /\ tx[t].mustCount
                                      /\ member[tx[t].space][tx[t].target].role = "ADMIN"
                                      /\ tx[t].role # "ADMIN"]
                ELSE Idle]
  /\ UNCHANGED <<spaceVars, deleted>>

\* SELECT COUNT(*) of the active ADMINs, without a lock on any of their rows.
CountAdmins(t) ==
  At(t, "countAdmins") /\ Check(t, tx[t].mustCount => HasTwoActiveAdmins(tx[t].space))

\* validatePostgresUserArchive.
ValidateArchive(t) ==
  At(t, "validateArchive") /\ Check(t, ActiveUser(tx[t].target) => ~ WouldLoseAdmin(tx[t].target))

\* requirePostgresSpaceDeleteAdmin, before and after it locks the Space.
ReadActorStatus(t) == At(t, "readActorStatus") /\ Check(t, ActiveUser(tx[t].actor))
ReadActorRole(t) ==
  At(t, "readActorRole") /\ Check(t, member[tx[t].space][tx[t].actor] = Row("ACTIVE", "ADMIN"))

-----------------------------------------------------------------------------
(* Last writes.                                                            *)

SetRow(t, row) == [member EXCEPT ![tx[t].space][tx[t].target] = row]
TargetRow(t) == member[tx[t].space][tx[t].target]

InsertSpace(t) ==
  /\ At(t, "insertSpace")
  /\ Commit(t, TRUE, user, spaces \cup {tx[t].space}, SetRow(t, Row("ACTIVE", "ADMIN")))

\* The primary key refuses a second row.
InsertInvitation(t) ==
  /\ At(t, "insertInvitation")
  /\ Commit(t, TargetRow(t) = NoRow, user, spaces, SetRow(t, Row("INVITED", tx[t].role)))

\* UPDATE or DELETE of a membership waits for a deletion that has deleted it,
\* and then finds no row.
MemberFree(t, status) ==
  TargetRow(t).status = status => ~ HeldByOther(t, <<"member", tx[t].space, tx[t].target>>)

Activate(t) ==
  /\ At(t, "activate") /\ MemberFree(t, "INVITED")
  /\ Commit(t, TargetRow(t).status = "INVITED", user, spaces,
            SetRow(t, Row("ACTIVE", TargetRow(t).role)))

DeleteInvited(t) ==
  /\ At(t, "deleteInvited") /\ MemberFree(t, "INVITED")
  /\ Commit(t, TargetRow(t).status = "INVITED", user, spaces, SetRow(t, NoRow))

UpdateRole(t) ==
  /\ At(t, "updateRole") /\ MemberFree(t, "ACTIVE")
  /\ Commit(t, TargetRow(t).status = "ACTIVE", user, spaces, SetRow(t, Row("ACTIVE", tx[t].role)))

DeleteActive(t) ==
  /\ At(t, "deleteActive") /\ MemberFree(t, "ACTIVE")
  /\ Commit(t, TargetRow(t).status = "ACTIVE", user, spaces, SetRow(t, NoRow))

\* UPDATE "user" needs the row that FOR UPDATE holds.
Archive(t) ==
  /\ At(t, "archive")
  /\ ~ HeldByOther(t, <<"user", tx[t].target>>)
  /\ Commit(t, user[tx[t].target] # "absent", [user EXCEPT ![tx[t].target] = "ARCHIVED"],
            spaces, member)

-----------------------------------------------------------------------------
(* Deletions.                                                              *)

\* The memberships the deletion of t removes: all of the Space, or the user's
\* invitations.
Doomed(t) ==
  {row \in MemberRows :
     \/ At(t, "deleteSpace") /\ row[2] = tx[t].space /\ member[row[2]][row[3]] # NoRow
     \/ At(t, "deleteUser") /\ row[3] = tx[t].target /\ member[row[2]][row[3]].status = "INVITED"}

DeleteRow(t, row) ==
  /\ row \notin deleted[t] /\ ~ HeldByOther(t, row)
  /\ deleted' = [deleted EXCEPT ![t] = @ \cup {row}]
  /\ UNCHANGED <<spaceVars, tx>>

DeleteMemberRow(t) == \E row \in Doomed(t) : DeleteRow(t, row)

\* DeleteSpace goes through the memos before its memberships, DeleteUser through
\* the invitations before the memos.
DeleteDependentRow(t) ==
  /\ \/ At(t, "deleteSpace") /\ deleted[t] \cap MemberRows = {}
     \/ At(t, "deleteUser") /\ Doomed(t) \subseteq deleted[t]
  /\ \E row \in DependentRows : DeleteRow(t, row)

\* The Space goes last.
DeleteSpaceRows(t) ==
  /\ At(t, "deleteSpace") /\ Doomed(t) \subseteq deleted[t]
  /\ Commit(t, tx[t].space \in spaces, user, spaces \ {tx[t].space},
            [member EXCEPT ![tx[t].space] = [u \in User |-> NoRow]])

\* The user goes last.
DeleteUserRows(t) ==
  /\ At(t, "deleteUser") /\ Doomed(t) \subseteq deleted[t]
  /\ Commit(t, TRUE, [user EXCEPT ![tx[t].target] = "absent"], spaces,
            [s \in Space |-> [member[s] EXCEPT ![tx[t].target] =
                                IF @.status = "INVITED" THEN NoRow ELSE @]])

-----------------------------------------------------------------------------
\* Single statements: registration, and restoring an archived user.
Register(u) == Unmentioned(u) /\ CreateUser(u) /\ UNCHANGED <<tx, deleted>>

Restore(u) ==
  /\ \A t \in Tx : <<"user", u>> \notin tx[t].holds
  /\ RestoreUser(u)
  /\ UNCHANGED <<tx, deleted>>

BeginUserTx(t, u) ==
  \/ Begin(t, ArchiveUserTx, u, NoSpace, u, "none")
  \/ Begin(t, DeleteUserTx, u, NoSpace, u, "none")

BeginSpaceTx(t, s, u) ==
  \/ s \notin spaces /\ Unmentioned(s) /\ Begin(t, CreateSpaceTx, u, s, u, "none")
  \/ Begin(t, DeleteSpaceTx, u, s, u, "none")

BeginInvitationTx(t, s, u) ==
  \/ \E a \in User, r \in Role : Begin(t, CreateSpaceInvitationTx, a, s, u, r)
  \/ Begin(t, AcceptSpaceInvitationTx, u, s, u, "none")
  \/ Begin(t, DeclineSpaceInvitationTx, u, s, u, "none")
  \/ \E a \in User : Begin(t, RevokeSpaceInvitationTx, a, s, u, "none")

BeginMembershipTx(t, s, u) ==
  \/ \E a \in User, r \in Role : Begin(t, UpdateSpaceMemberTx, a, s, u, r)
  \/ \E a \in User : Begin(t, DeleteSpaceMemberTx, a, s, u, "none")

Step(t) ==
  \/ Authorize(t) \/ RequireActiveUser(t) \/ LockActiveUser(t) \/ LockSpace(t) \/ LockUser(t)
  \/ CountMemberships(t) \/ ReadStatuses(t) \/ AuthorizeRemoval(t) \/ ReadMember(t)
  \/ CountAdmins(t) \/ ValidateArchive(t) \/ ReadActorStatus(t) \/ ReadActorRole(t)
  \/ InsertSpace(t) \/ InsertInvitation(t) \/ Activate(t) \/ DeleteInvited(t)
  \/ UpdateRole(t) \/ DeleteActive(t) \/ Archive(t) \/ DeleteSpaceRows(t) \/ DeleteUserRows(t)
  \/ DeleteMemberRow(t) \/ DeleteDependentRow(t)

PgInit == SpaceInit /\ tx = [t \in Tx |-> Idle] /\ deleted = [t \in Tx |-> {}]

PgNext ==
  \/ \E u \in User : Register(u) \/ Restore(u)
  \/ \E t \in Tx : Step(t) \/ Abort(t)
  \/ \E t \in Tx, u \in User : BeginUserTx(t, u)
  \/ \E t \in Tx, s \in Space, u \in User :
       BeginSpaceTx(t, s, u) \/ BeginInvitationTx(t, s, u) \/ BeginMembershipTx(t, s, u)

PgSafety == PgInit /\ [][PgNext]_pgVars

-----------------------------------------------------------------------------
(* Properties.                                                             *)

\* "This prevents a concurrent delete from leaving an orphaned active membership
\* or invitation" (docs/design/multi-spaces.md): whatever the interleaving, every
\* committed space_member row has its user and its Space.
PgNoOrphanMember == NoOrphanMember

\* The committed rows follow the membership life cycle under every interleaving:
\* nobody founds, is invited to or joins a Space whose user or Space a concurrent
\* archival or deletion has taken, and nobody joins, changes role or leaves by a
\* row that a concurrent revocation or removal has taken.
PgMembershipLifecycle == MembershipLifecycle

\* The rows t needs for its next statement, or for the rest of its deletion.
Wants(t, row) ==
  \/ At(t, "lockSpace") /\ row = <<"space", tx[t].space>>
  \/ /\ At(t, "lockActiveUser") \/ At(t, "lockUser") \/ At(t, "archive")
     /\ row = <<"user", tx[t].target>>
  \/ /\ \/ (At(t, "activate") \/ At(t, "deleteInvited")) /\ TargetRow(t).status = "INVITED"
        \/ (At(t, "updateRole") \/ At(t, "deleteActive")) /\ TargetRow(t).status = "ACTIVE"
     /\ row = <<"member", tx[t].space, tx[t].target>>
  \/ row \in Doomed(t)
  \/ (At(t, "deleteSpace") \/ At(t, "deleteUser")) /\ row \in DependentRows

WaitsFor(t, o) == t # o /\ \E row \in Locked(o) : Wants(t, row)

\* A DeleteSpace or a DeleteUser, wherever it is.
Deletes(t) == \E i \in 1..Len(tx[t].todo) : tx[t].todo[i] \in {"deleteSpace", "deleteUser"}

\* "The Space must always retain an active ADMIN" (docs/design/multi-spaces.md).
PgActiveAdminRetained == ActiveAdminRetained

\* One transaction at a time, with users registered and restored in between its
\* statements, does to the tables what the atomic transactions of Spaces do: the
\* two drivers decide alike, and only transactions that interleave differ.  In
\* particular a check that reads who is NORMAL stays good when an archived user is
\* restored before the write.
PgSerialized == SpaceSpec

\* "Relationship creation always locks its parents in Space-then-User order"
\* (store/db/postgres/space.go): two transactions wait for each other's rows only
\* when both are deletions, never when one of them creates, activates, changes or
\* ends a single membership or archives a user.
OnlyDeletionsDeadlock ==
  \A t, o \in Tx : WaitsFor(t, o) /\ WaitsFor(o, t) => Deletes(t) /\ Deletes(o)
=============================================================================
