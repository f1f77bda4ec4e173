----------------------------- MODULE MemosProofs -----------------------------
(***************************************************************************)
(* Proofs about the serialized tables, for every set of users, Spaces,     *)
(* memos and shares: first the Space tables alone, then the memos in them. *)
(*                                                                         *)
(* The inductive invariant of the Space tables is the conjunction of their *)
(* type invariant, "every Space has an active ADMIN" and "no orphaned      *)
(* rows": the second needs the third because accepting an invitation does  *)
(* not look at the space row.  The specification with memos implements the *)
(* one without, so all of it carries over; its invariant adds the types of *)
(* memos and shares, the placement and the absence of shares.              *)
(***************************************************************************)
EXTENDS MemoAccess, TLAPS

SpaceInv == SpaceTypeOK /\ ActiveAdminRetained /\ NoOrphanMember

\* A row of the pair's own type is written by every membership operation.
LEMMA RowType == \A st \in {"INVITED", "ACTIVE"}, r \in Role : Row(st, r) \in MemberRow
BY DEF Row, MemberRow

\* Two active ADMINs leave one when any single user is set aside, so the
\* COUNT(*) > 1 check is what the last-administrator rule needs.
LEMMA OneRemains ==
  ASSUME NEW s, NEW u, HasTwoActiveAdmins(s)
  PROVE  \E v \in User : v # u /\ ActiveAdmin(s, v)
BY DEF HasTwoActiveAdmins, ActiveAdmins

\* ActiveAdmins(s) # {} written with a witness.
LEMMA RetainedWitness ==
  ActiveAdminRetained <=> \A s \in spaces : \E v \in User : ActiveAdmin(s, v)
BY DEF ActiveAdminRetained, ActiveAdmins

LEMMA SpaceInitInv == SpaceInit => SpaceInv
BY DEF SpaceInit, SpaceInv, SpaceTypeOK, ActiveAdminRetained, NoOrphanMember,
       MemberRow, RowStatus

\* Creating, archiving, restoring and deleting users keep the invariant.
LEMMA UserStep ==
  ASSUME SpaceInv, NEW u \in User, UserNext(u)
  PROVE  SpaceInv'
<1> USE DEF SpaceInv, SpaceTypeOK, RowStatus
<1>1. CASE CreateUser(u)
  <2>1. SpaceTypeOK' BY <1>1 DEF CreateUser
  <2>2. ActiveAdminRetained'
    BY <1>1, RetainedWitness DEF CreateUser, ActiveAdminRetained, ActiveAdmins, ActiveAdmin, ActiveUser
  <2>3. NoOrphanMember' BY <1>1 DEF CreateUser, NoOrphanMember
  <2> QED BY <2>1, <2>2, <2>3
<1>2. CASE ArchiveUser(u)
  <2>1. SpaceTypeOK' BY <1>2 DEF ArchiveUser
  <2>2. ActiveAdminRetained'
    <3> SUFFICES ASSUME NEW s \in spaces PROVE \E v \in User : ActiveAdmin(s, v)'
      BY <1>2 DEF ArchiveUser, ActiveAdminRetained, ActiveAdmins
    <3>1. PICK w \in User : ActiveAdmin(s, w)
      BY DEF ActiveAdminRetained, ActiveAdmins
    <3>2. PICK v \in User : v # u /\ ActiveAdmin(s, v)
      BY <1>2, <3>1 DEF ArchiveUser, WouldLoseAdmin, ActiveAdmin
    <3> QED BY <1>2, <3>2 DEF ArchiveUser, ActiveAdmin, ActiveUser
  <2>3. NoOrphanMember' BY <1>2 DEF ArchiveUser, NoOrphanMember
  <2> QED BY <2>1, <2>2, <2>3
<1>3. CASE RestoreUser(u)
  <2>1. SpaceTypeOK' BY <1>3 DEF RestoreUser
  <2>2. ActiveAdminRetained'
    BY <1>3 DEF RestoreUser, ActiveAdminRetained, ActiveAdmins, ActiveAdmin, ActiveUser
  <2>3. NoOrphanMember' BY <1>3 DEF RestoreUser, NoOrphanMember
  <2> QED BY <2>1, <2>2, <2>3
<1>4. CASE DeleteUser(u)
  <2>1. SpaceTypeOK' BY <1>4 DEF DeleteUser, MemberRow
  <2>2. ActiveAdminRetained'
    <3> SUFFICES ASSUME NEW s \in spaces PROVE \E v \in User : ActiveAdmin(s, v)'
      BY <1>4 DEF DeleteUser, ActiveAdminRetained, ActiveAdmins
    <3>1. PICK v \in User : ActiveAdmin(s, v)
      BY DEF ActiveAdminRetained, ActiveAdmins
    <3>2. v # u BY <1>4, <3>1 DEF DeleteUser, ActiveAdmin, Row
    <3> QED BY <1>4, <3>1, <3>2 DEF DeleteUser, ActiveAdmin, ActiveUser
  <2>3. NoOrphanMember' BY <1>4 DEF DeleteUser, NoOrphanMember
  <2> QED BY <2>1, <2>2, <2>3
<1> QED BY <1>1, <1>2, <1>3, <1>4 DEF UserNext

\* Creating and deleting Spaces keep the invariant.
LEMMA SpaceStep ==
  ASSUME SpaceInv, NEW s \in Space, NEW u \in User, CreateSpace(u, s) \/ DeleteSpace(u, s)
  PROVE  SpaceInv'
<1> USE DEF SpaceInv, SpaceTypeOK
<1>1. CASE CreateSpace(u, s)
  <2>1. SpaceTypeOK' BY <1>1, RowType DEF CreateSpace, Role
  <2>2. ActiveAdminRetained'
    BY <1>1 DEF CreateSpace, ActiveAdminRetained, ActiveAdmins, ActiveAdmin, ActiveUser
  <2>3. NoOrphanMember' BY <1>1 DEF CreateSpace, NoOrphanMember, ActiveUser
  <2> QED BY <2>1, <2>2, <2>3
<1>2. CASE DeleteSpace(u, s)
  <2>1. SpaceTypeOK' BY <1>2 DEF DeleteSpace, MemberRow
  <2>2. ActiveAdminRetained'
    BY <1>2 DEF DeleteSpace, ActiveAdminRetained, ActiveAdmins, ActiveAdmin, ActiveUser
  <2>3. NoOrphanMember' BY <1>2 DEF DeleteSpace, NoOrphanMember
  <2> QED BY <2>1, <2>2, <2>3
<1> QED BY <1>1, <1>2

\* Invitations never touch an active row, so they only have to keep the rows
\* free of orphans.
LEMMA InvitationStep ==
  ASSUME SpaceInv, NEW s \in Space, NEW u \in User, InvitationNext(s, u)
  PROVE  SpaceInv'
<1> USE DEF SpaceInv, SpaceTypeOK
<1>1. ASSUME NEW a \in User, NEW r \in Role, CreateSpaceInvitation(a, s, u, r) PROVE SpaceInv'
  <2>1. SpaceTypeOK' BY <1>1, RowType DEF CreateSpaceInvitation
  <2>2. ActiveAdminRetained'
    BY <1>1 DEF CreateSpaceInvitation, ActiveAdminRetained, ActiveAdmins, ActiveAdmin, ActiveUser, Row, NoRow
  <2>3. NoOrphanMember'
    BY <1>1 DEF CreateSpaceInvitation, NoOrphanMember, AuthorizeSpaceAdmin, ActiveUser
  <2> QED BY <2>1, <2>2, <2>3
<1>2. CASE AcceptSpaceInvitation(s, u)
  <2>0. member[s][u] \in MemberRow /\ member[s][u].role \in Role /\ member[s][u] # NoRow
    BY <1>2 DEF AcceptSpaceInvitation, MemberRow, NoRow
  <2>1. SpaceTypeOK' BY <1>2, <2>0, RowType DEF AcceptSpaceInvitation
  <2>2. ActiveAdminRetained'
    BY <1>2 DEF AcceptSpaceInvitation, ActiveAdminRetained, ActiveAdmins, ActiveAdmin, ActiveUser, Row
  <2>3. NoOrphanMember' BY <1>2, <2>0 DEF AcceptSpaceInvitation, NoOrphanMember
  <2> QED BY <2>1, <2>2, <2>3
<1>3. CASE /\ member[s][u].status = "INVITED"
           /\ member' = [member EXCEPT ![s][u] = NoRow]
           /\ UNCHANGED <<user, spaces>>
  <2>1. SpaceTypeOK' BY <1>3 DEF MemberRow
  <2>2. ActiveAdminRetained'
    BY <1>3 DEF ActiveAdminRetained, ActiveAdmins, ActiveAdmin, ActiveUser, Row
  <2>3. NoOrphanMember' BY <1>3 DEF NoOrphanMember
  <2> QED BY <2>1, <2>2, <2>3
<1> QED BY <1>1, <1>2, <1>3 DEF InvitationNext, DeclineSpaceInvitation, RevokeSpaceInvitation

\* A role change or a removal disturbs only u's row; when it takes an active
\* ADMIN away, the count check leaves another one.
LEMMA MembershipStep ==
  ASSUME SpaceInv, NEW s \in Space, NEW u \in User, MembershipNext(s, u)
  PROVE  SpaceInv'
<1> USE DEF SpaceInv, SpaceTypeOK
<1>1. ASSUME NEW a \in User, NEW r \in Role, UpdateSpaceMember(a, s, u, r) PROVE SpaceInv'
  <2>1. SpaceTypeOK' BY <1>1, RowType DEF UpdateSpaceMember
  <2>2. ASSUME NEW t \in spaces PROVE \E v \in User : ActiveAdmin(t, v)'
    <3>1. PICK w \in User : ActiveAdmin(t, w) BY DEF ActiveAdminRetained, ActiveAdmins
    <3>2. CASE t # s \/ w # u
      BY <1>1, <3>1, <3>2 DEF UpdateSpaceMember, ActiveAdmin, ActiveUser
    <3>3. CASE t = s /\ w = u /\ r = "ADMIN"
      BY <1>1, <3>1, <3>3 DEF UpdateSpaceMember, ActiveAdmin, ActiveUser
    <3>4. CASE t = s /\ w = u /\ r # "ADMIN"
      <4>1. HasTwoActiveAdmins(s) BY <1>1, <3>1, <3>4 DEF UpdateSpaceMember, ActiveAdmin, Row
      <4>2. PICK v \in User : v # u /\ ActiveAdmin(s, v) BY <4>1, OneRemains
      <4> QED BY <1>1, <3>4, <4>2 DEF UpdateSpaceMember, ActiveAdmin, ActiveUser
    <3> QED BY <3>2, <3>3, <3>4
  <2>3. ActiveAdminRetained'
    BY <1>1, <2>2 DEF UpdateSpaceMember, ActiveAdminRetained, ActiveAdmins
  <2>4. NoOrphanMember' BY <1>1 DEF UpdateSpaceMember, NoOrphanMember, AuthorizeSpaceAdmin, ActiveUser
  <2> QED BY <2>1, <2>3, <2>4
<1>2. ASSUME NEW a \in User, DeleteSpaceMember(a, s, u) PROVE SpaceInv'
  <2>1. SpaceTypeOK' BY <1>2 DEF DeleteSpaceMember, MemberRow
  <2>2. ASSUME NEW t \in spaces PROVE \E v \in User : ActiveAdmin(t, v)'
    <3>1. PICK w \in User : ActiveAdmin(t, w) BY DEF ActiveAdminRetained, ActiveAdmins
    <3>2. CASE t # s \/ w # u
      BY <1>2, <3>1, <3>2 DEF DeleteSpaceMember, ActiveAdmin, ActiveUser
    <3>3. CASE t = s /\ w = u
      <4>1. HasTwoActiveAdmins(s) BY <1>2, <3>1, <3>3 DEF DeleteSpaceMember
      <4>2. PICK v \in User : v # u /\ ActiveAdmin(s, v) BY <4>1, OneRemains
      <4> QED BY <1>2, <3>3, <4>2 DEF DeleteSpaceMember, ActiveAdmin, ActiveUser
    <3> QED BY <3>2, <3>3
  <2>3. ActiveAdminRetained'
    BY <1>2, <2>2 DEF DeleteSpaceMember, ActiveAdminRetained, ActiveAdmins
  <2>4. NoOrphanMember' BY <1>2 DEF DeleteSpaceMember, NoOrphanMember
  <2> QED BY <2>1, <2>3, <2>4
<1> QED BY <1>1, <1>2 DEF MembershipNext

LEMMA SpaceInvInductive == SpaceInv /\ [SpaceNext]_spaceVars => SpaceInv'
<1> SUFFICES ASSUME SpaceInv, [SpaceNext]_spaceVars PROVE SpaceInv'
  OBVIOUS
<1>1. CASE UNCHANGED spaceVars
  BY <1>1 DEF spaceVars, SpaceInv, SpaceTypeOK, ActiveAdminRetained, ActiveAdmins,
              ActiveAdmin, ActiveUser, NoOrphanMember
<1>2. CASE SpaceNext
  BY <1>2, UserStep, SpaceStep, InvitationStep, MembershipStep DEF SpaceNext
<1> QED BY <1>1, <1>2

\* The schema and the enum values hold in every reachable state of the
\* membership transactions.
THEOREM SpaceTypeCorrect == SpaceSpec => []SpaceTypeOK
<1>1. SpaceInv => SpaceTypeOK BY DEF SpaceInv
<1> QED BY SpaceInitInv, SpaceInvInductive, <1>1, PTL DEF SpaceSpec

\* However many users and Spaces there are, serialized transactions never
\* leave a Space without an active ADMIN.
THEOREM SpaceKeepsActiveAdmin == SpaceSpec => []ActiveAdminRetained
<1>1. SpaceInv => ActiveAdminRetained BY DEF SpaceInv
<1> QED BY SpaceInitInv, SpaceInvInductive, <1>1, PTL DEF SpaceSpec

\* However many users and Spaces there are, serialized transactions never leave
\* a membership or an invitation whose user or Space is gone.
THEOREM SpaceHasNoOrphans == SpaceSpec => []NoOrphanMember
<1>1. SpaceInv => NoOrphanMember BY DEF SpaceInv
<1> QED BY SpaceInitInv, SpaceInvInductive, <1>1, PTL DEF SpaceSpec

-----------------------------------------------------------------------------
\* Each serialized transaction is one step of the membership life cycle.
LEMMA LifecycleStep ==
  ASSUME SpaceInv, SpaceNext
  PROVE  Lifecycle!Next
<1> USE DEF SpaceInv, SpaceTypeOK
<1>1. ASSUME NEW u \in User, UserNext(u) PROVE Lifecycle!Next
  <2>1. CASE CreateUser(u)
    <3>1. Lifecycle!Register(u) BY <2>1 DEF CreateUser, Lifecycle!Register
    <3> QED BY <3>1 DEF Lifecycle!Next
  <2>2. CASE ArchiveUser(u) \/ RestoreUser(u)
    <3>1. Lifecycle!SetStatus(u)
      BY <2>2 DEF ArchiveUser, RestoreUser, ActiveUser, Lifecycle!SetStatus
    <3> QED BY <3>1 DEF Lifecycle!Next
  <2>3. CASE DeleteUser(u)
    <3>1. Lifecycle!Erase(u) BY <2>3 DEF DeleteUser, NoRow, Lifecycle!Erase, Lifecycle!None
    <3> QED BY <3>1 DEF Lifecycle!Next
  <2> QED BY <1>1, <2>1, <2>2, <2>3 DEF UserNext
<1>2. ASSUME NEW s \in Space, NEW u \in User, CreateSpace(u, s) \/ DeleteSpace(u, s)
      PROVE  Lifecycle!Next
  <2>1. CASE CreateSpace(u, s)
    <3>1. Lifecycle!Found(s, u)
      BY <2>1 DEF CreateSpace, ActiveUser, Row, Lifecycle!Found, Lifecycle!Active
    <3> QED BY <3>1 DEF Lifecycle!Next
  <2>2. CASE DeleteSpace(u, s)
    <3>1. Lifecycle!Dissolve(s)
      BY <2>2 DEF DeleteSpace, AuthorizeSpaceAdmin, NoRow, Lifecycle!Dissolve, Lifecycle!None
    <3> QED BY <3>1 DEF Lifecycle!Next
  <2> QED BY <1>2, <2>1, <2>2
<1>3. ASSUME NEW s \in Space, NEW u \in User, InvitationNext(s, u) PROVE Lifecycle!Next
  <2>1. ASSUME NEW a \in User, NEW r \in Role, CreateSpaceInvitation(a, s, u, r)
        PROVE  Lifecycle!Next
    <3>1. Lifecycle!Invite(s, u)
      BY <2>1 DEF CreateSpaceInvitation, AuthorizeSpaceAdmin, ActiveUser, Row, NoRow, Role,
                  Lifecycle!Invite, Lifecycle!None, Lifecycle!Invited, Lifecycle!Roles
    <3> QED BY <3>1 DEF Lifecycle!Next
  <2>2. CASE AcceptSpaceInvitation(s, u)
    <3>1. /\ member[s][u].role \in Role
          /\ member[s][u] = Row("INVITED", member[s][u].role)
      BY <2>2 DEF AcceptSpaceInvitation, MemberRow, NoRow, Row
    <3>2. Lifecycle!Join(s, u)
      BY <2>2, <3>1 DEF AcceptSpaceInvitation, ActiveUser, Row, Role, Lifecycle!Join,
                        Lifecycle!Invited, Lifecycle!Active, Lifecycle!Roles
    <3> QED BY <3>2 DEF Lifecycle!Next
  <2>3. CASE DeclineSpaceInvitation(s, u) \/ \E a \in User : RevokeSpaceInvitation(a, s, u)
    <3>1. Lifecycle!Part(s, u)
      BY <2>3 DEF DeclineSpaceInvitation, RevokeSpaceInvitation, NoRow,
                  Lifecycle!Part, Lifecycle!None
    <3> QED BY <3>1 DEF Lifecycle!Next
  <2> QED BY <1>3, <2>1, <2>2, <2>3 DEF InvitationNext
<1>4. ASSUME NEW s \in Space, NEW u \in User, MembershipNext(s, u) PROVE Lifecycle!Next
  <2>1. ASSUME NEW a \in User, NEW r \in Role, UpdateSpaceMember(a, s, u, r)
        PROVE  Lifecycle!Next
    <3>1. Lifecycle!ChangeRole(s, u)
      BY <2>1 DEF UpdateSpaceMember, Row, Role, Lifecycle!ChangeRole, Lifecycle!Active, Lifecycle!Roles
    <3> QED BY <3>1 DEF Lifecycle!Next
  <2>2. ASSUME NEW a \in User, DeleteSpaceMember(a, s, u) PROVE Lifecycle!Next
    <3>1. Lifecycle!Part(s, u)
      BY <2>2 DEF DeleteSpaceMember, NoRow, Lifecycle!Part, Lifecycle!None
    <3> QED BY <3>1 DEF Lifecycle!Next
  <2> QED BY <1>4, <2>1, <2>2 DEF MembershipNext
<1> QED BY <1>1, <1>2, <1>3, <1>4 DEF SpaceNext

\* The serialized tables implement the membership life cycle: consent, the
\* offered role, and no erasure out of an active membership, for any number of
\* users and Spaces.
THEOREM SpaceImplementsLifecycle == SpaceSpec => MembershipLifecycle
<1>1. SpaceInit => Lifecycle!Init
  BY DEF SpaceInit, NoRow, Lifecycle!Init, Lifecycle!None
<1>2. SpaceInv /\ [SpaceNext]_spaceVars => [Lifecycle!Next]_(Lifecycle!vars)
  BY LifecycleStep DEF spaceVars, Lifecycle!vars
<1> QED BY SpaceInitInv, SpaceInvInductive, <1>1, <1>2, PTL
        DEF SpaceSpec, MembershipLifecycle, Lifecycle!Spec

-----------------------------------------------------------------------------
\* The row of an archived user outlives a step only unchanged.
LEMMA FrozenStep ==
  ASSUME SpaceInv, SpaceNext, NEW t \in Space, NEW w \in User, user[w] = "ARCHIVED"
  PROVE  member'[t][w] \in {member[t][w], NoRow}
<1> USE DEF SpaceInv, SpaceTypeOK
<1>1. ASSUME NEW u \in User, UserNext(u) PROVE member'[t][w] \in {member[t][w], NoRow}
  BY <1>1 DEF UserNext, CreateUser, ArchiveUser, RestoreUser, DeleteUser
<1>2. ASSUME NEW s \in Space, NEW u \in User, CreateSpace(u, s) \/ DeleteSpace(u, s)
      PROVE  member'[t][w] \in {member[t][w], NoRow}
  BY <1>2 DEF CreateSpace, DeleteSpace, ActiveUser
<1>3. ASSUME NEW s \in Space, NEW u \in User, InvitationNext(s, u)
      PROVE  member'[t][w] \in {member[t][w], NoRow}
  BY <1>3 DEF InvitationNext, CreateSpaceInvitation, AcceptSpaceInvitation,
              DeclineSpaceInvitation, RevokeSpaceInvitation, ActiveUser
<1>4. ASSUME NEW s \in Space, NEW u \in User, MembershipNext(s, u)
      PROVE  member'[t][w] \in {member[t][w], NoRow}
  BY <1>4 DEF MembershipNext, UpdateSpaceMember, DeleteSpaceMember, ActiveUser
<1> QED BY <1>1, <1>2, <1>3, <1>4 DEF SpaceNext

\* Whatever administrators do to the memberships of an archived user is a
\* removal: neither its role nor its status changes until the user is restored.
THEOREM SpaceFreezesArchivedRows == SpaceSpec => ArchivedRowFrozen
<1>1. SpaceInv /\ [SpaceNext]_spaceVars =>
        [\A s \in Space, u \in User :
           user[u] = "ARCHIVED" => member'[s][u] \in {member[s][u], NoRow}]_spaceVars
  BY FrozenStep
<1> QED BY SpaceInitInv, SpaceInvInductive, <1>1, PTL DEF SpaceSpec, ArchivedRowFrozen

-----------------------------------------------------------------------------
(* Memos: the inductive invariant.                                         *)

MemoTyped ==
  /\ memo \in [Memo -> MemoRow \cup {NoMemo}]
  /\ share \in [Share -> ShareRow \cup {NoShare}]
  /\ now \in Nat

MemoInv == SpaceInv /\ MemoTyped /\ PlacementValid /\ SpaceMemoUnshared

\* A row after an update.
LEMMA ApplyType ==
  ASSUME NEW row \in MemoRow, NEW upd \in Update
  PROVE  /\ Apply(row, upd) \in MemoRow
         /\ Apply(row, upd).creator = row.creator
         /\ Apply(row, upd).space = OrElse(upd.space, row.space)
         /\ Apply(row, upd).vis = OrElse(upd.vis, row.vis)
         /\ Apply(row, upd).state = OrElse(upd.state, row.state)
         /\ Apply(row, upd).text = OrElse(upd.text, row.text)
<1>1. /\ OrElse(upd.space, row.space) \in Space \cup {Unassigned}
      /\ OrElse(upd.vis, row.vis) \in Visibility
      /\ OrElse(upd.state, row.state) \in RowStatus
      /\ OrElse(upd.text, row.text) \in Text
  BY DEF OrElse, Update, MemoRow
<1> QED BY <1>1 DEF Apply, MemoRow

\* A transaction on memos is, for the Space tables, a Space transaction or none.
LEMMA MemoStepOfSpaces == Next => SpaceNext \/ UNCHANGED spaceVars
BY DEF Next, MembershipOnly, DeleteUserCascade, DeleteSpaceCascade, CreateMemo, UpdateMemo, DeleteMemo,
       CreateMemoShare, DeleteMemoShare, Tick, SpaceNext, UserNext, spaceVars

LEMMA LiveTyped ==
  ASSUME MemoTyped, NEW m \in Live
  PROVE  /\ m \in Memo /\ memo[m] \in MemoRow /\ memo[m].creator \in User
         /\ memo[m].space \in Space \cup {Unassigned} /\ memo[m].vis \in Visibility
         /\ memo[m].state \in RowStatus
BY DEF MemoTyped, Live, MemoRow

-----------------------------------------------------------------------------
(* Transactions on memos and shares.                                       *)

LEMMA CreateMemoStep ==
  ASSUME MemoInv, NEW u \in User, NEW m \in Memo, NEW s \in Space \cup {Unassigned},
         NEW v \in Visibility, NEW t \in Text, CreateMemo(u, m, s, v, t)
  PROVE  MemoTyped' /\ PlacementValid' /\ SpaceMemoUnshared'
<1> DEFINE row == [creator |-> u, state |-> "NORMAL", space |-> s, vis |-> v, text |-> t]
<1> USE DEF MemoInv
<1>1. row \in MemoRow BY DEF MemoRow, RowStatus
<1>2. /\ memo[m] = NoMemo /\ memo' = [memo EXCEPT ![m] = row]
      /\ UNCHANGED <<user, spaces, member, share, now>>
      /\ user[u] # "absent" /\ (v = "SPACE" => s # Unassigned) /\ (s # Unassigned => s \in spaces)
  BY DEF CreateMemo, ActiveUser
<1>3. row.creator = u /\ row.space = s /\ row.vis = v OBVIOUS
<1> HIDE DEF row
<1>4. MemoTyped' BY <1>1, <1>2 DEF MemoTyped
<1>5. \A n \in Memo : memo'[n] = IF n = m THEN row ELSE memo[n] BY <1>2 DEF MemoTyped
<1>6. PlacementValid' BY <1>2, <1>3, <1>5 DEF PlacementValid, Live
<1>7. SpaceMemoUnshared' BY <1>2, <1>5 DEF SpaceMemoUnshared, Live, MemoTyped, ShareRow
<1> QED BY <1>4, <1>6, <1>7

\* The placement is checked whenever it changes, and the audience against the
\* shares whenever it becomes SPACE.
LEMMA UpdateMemoStep ==
  ASSUME MemoInv, NEW u \in User, NEW m \in Memo, NEW upd \in Update, NEW lo \in BOOLEAN,
         UpdateMemo(u, m, upd, lo)
  PROVE  MemoTyped' /\ PlacementValid' /\ SpaceMemoUnshared'
<1> DEFINE row == memo[m]
           new == Apply(row, upd)
<1> USE DEF MemoInv
<1>1. /\ m \in Live /\ row.creator = u /\ user[u] # "absent"
      /\ TargetWritable(u, upd) /\ (new.vis = "SPACE" => new.space # Unassigned)
      /\ upd.vis = "SPACE" => ~ HasActiveShare(m)
  BY DEF UpdateMemo, ValidateMemoWrite, ActiveUser, Live
<1>2. memo' = [memo EXCEPT ![m] = new] /\ UNCHANGED <<user, spaces, member, share, now>>
  BY DEF UpdateMemo
<1>3. row \in MemoRow /\ row.space \in Space \cup {Unassigned} BY <1>1, LiveTyped
<1>4. /\ new \in MemoRow /\ new.creator = u
      /\ new.space = OrElse(upd.space, row.space) /\ new.vis = OrElse(upd.vis, row.vis)
  BY <1>1, <1>3, ApplyType
<1> HIDE DEF new
<1>5. MemoTyped' BY <1>2, <1>4 DEF MemoTyped
<1>6. \A n \in Memo : memo'[n] = IF n = m THEN new ELSE memo[n] BY <1>2 DEF MemoTyped
<1>7. new.space # Unassigned => new.space \in spaces
  BY <1>1, <1>3, <1>4 DEF OrElse, TargetWritable, Update, PlacementValid
<1>8. PlacementValid' BY <1>1, <1>2, <1>4, <1>6, <1>7 DEF PlacementValid, Live
<1>9. SpaceMemoUnshared'
  <2>1. ASSUME NEW h \in Share, share'[h] # NoShare PROVE share'[h].memo \in Live'
    <3>1. share[h] \in ShareRow /\ share[h].memo \in Live
      BY <1>2, <2>1 DEF MemoTyped, SpaceMemoUnshared
    <3>2. new # NoMemo BY <1>4, MemoAssumption
    <3> QED BY <1>2, <1>6, <3>1, <3>2 DEF Live
  <2>2. ASSUME NEW n \in Live', NEW h \in Share, memo'[n].vis = "SPACE", share'[h] # NoShare,
               share'[h].memo = n
        PROVE  share'[h].expires # Never /\ share'[h].expires <= now'
    <3>1. h \in SharesOf(n) /\ n \in Memo /\ share[h].expires \in Nat \cup {Never}
      BY <1>2, <2>2 DEF SharesOf, Live, MemoTyped, ShareRow
    <3>2. CASE n # m BY <1>2, <1>6, <2>2, <3>1, <3>2 DEF SpaceMemoUnshared, Live
    <3>3. CASE n = m /\ upd.vis = "SPACE"
      BY <1>1, <1>2, <3>1, <3>3, MemoAssumption DEF HasActiveShare, MemoTyped
    <3>4. CASE n = m /\ upd.vis # "SPACE"
      <4>1. row.vis = "SPACE" BY <1>4, <1>6, <2>2, <3>1, <3>4 DEF OrElse
      <4> QED BY <1>1, <1>2, <2>2, <3>4, <4>1 DEF SpaceMemoUnshared
    <3> QED BY <3>2, <3>3, <3>4
  <2> QED BY <2>1, <2>2 DEF SpaceMemoUnshared
<1> QED BY <1>5, <1>8, <1>9

\* Deleting memos takes their shares along.
LEMMA DeleteSetStep ==
  ASSUME MemoTyped, SpaceMemoUnshared, NEW ms \in SUBSET Memo, DeleteMemoSet(ms), now' = now
  PROVE  /\ MemoTyped' /\ SpaceMemoUnshared'
         /\ \A m \in Memo : memo'[m] = IF m \in ms THEN NoMemo ELSE memo[m]
<1>1. \A m \in Memo : memo'[m] = IF m \in ms THEN NoMemo ELSE memo[m] BY DEF DeleteMemoSet
<1>2. \A h \in Share : share'[h] = IF share[h] # NoShare /\ share[h].memo \in ms
                                   THEN NoShare ELSE share[h]
  BY DEF DeleteMemoSet
<1>3. MemoTyped' BY DEF DeleteMemoSet, MemoTyped
<1>4. SpaceMemoUnshared' BY <1>1, <1>2 DEF SpaceMemoUnshared, Live, MemoTyped
<1> QED BY <1>1, <1>3, <1>4

LEMMA DeleteMemoStep ==
  ASSUME MemoInv, NEW u \in User, NEW m \in Memo, DeleteMemo(u, m)
  PROVE  MemoTyped' /\ PlacementValid' /\ SpaceMemoUnshared'
<1>1. DeleteMemoSet({m})
  <2>1. memo' = [n \in Memo |-> IF n \in {m} THEN NoMemo ELSE memo[n]]
    BY DEF DeleteMemo, MemoInv, MemoTyped
  <2>2. share' = [h \in Share |->
                    IF share[h] # NoShare /\ share[h].memo \in {m} THEN NoShare ELSE share[h]]
    BY DEF DeleteMemo, SharesOf
  <2> QED BY <2>1, <2>2 DEF DeleteMemoSet
<1>2. /\ MemoTyped' /\ SpaceMemoUnshared'
      /\ \A n \in Memo : memo'[n] = IF n \in {m} THEN NoMemo ELSE memo[n]
  BY <1>1, DeleteSetStep DEF MemoInv, DeleteMemo
<1>3. PlacementValid' BY <1>2 DEF DeleteMemo, MemoInv, PlacementValid, Live
<1> QED BY <1>2, <1>3

LEMMA CreateMemoShareStep ==
  ASSUME MemoInv, NEW u \in User, NEW m \in Memo, NEW h \in Share, NEW e \in 0..MaxTime \cup {Never},
         CreateMemoShare(u, m, h, e)
  PROVE  MemoTyped' /\ PlacementValid' /\ SpaceMemoUnshared'
<1> DEFINE row == [memo |-> m, expires |-> e]
<1> USE DEF MemoInv
<1>1. /\ share' = [share EXCEPT ![h] = row] /\ UNCHANGED <<user, spaces, member, memo, now>>
  BY DEF CreateMemoShare
<1>2. m \in Live /\ memo[m].vis # "SPACE"
  <2>1. memo[m] # NoMemo /\ Apply(memo[m], NoUpdate).vis # "SPACE"
    BY DEF CreateMemoShare, ValidateMemoWrite
  <2>2. NoUpdate \in Update /\ NoUpdate.vis = Keep BY DEF NoUpdate, Update
  <2>3. memo[m] \in MemoRow BY <2>1 DEF MemoTyped
  <2>4. Apply(memo[m], NoUpdate).vis = memo[m].vis BY <2>2, <2>3, ApplyType DEF OrElse
  <2> QED BY <2>1, <2>4 DEF Live
<1>3. row \in ShareRow /\ row.memo = m BY MemoAssumption DEF ShareRow
<1> HIDE DEF row
<1>4. MemoTyped' BY <1>1, <1>3 DEF MemoTyped
<1>5. PlacementValid' BY <1>1 DEF PlacementValid, Live
<1>6. \A g \in Share : share'[g] = IF g = h THEN row ELSE share[g] BY <1>1 DEF MemoTyped
<1>7. SpaceMemoUnshared' BY <1>1, <1>2, <1>3, <1>6 DEF SpaceMemoUnshared, Live
<1> QED BY <1>4, <1>5, <1>7

LEMMA DeleteMemoShareStep ==
  ASSUME MemoInv, NEW u \in User, NEW h \in Share, DeleteMemoShare(u, h)
  PROVE  MemoTyped' /\ PlacementValid' /\ SpaceMemoUnshared'
<1> USE DEF MemoInv
<1>1. share' = [share EXCEPT ![h] = NoShare] /\ UNCHANGED <<user, spaces, member, memo, now>>
  BY DEF DeleteMemoShare
<1>2. MemoTyped' BY <1>1 DEF MemoTyped
<1>3. PlacementValid' BY <1>1 DEF PlacementValid, Live
<1>4. SpaceMemoUnshared' BY <1>1 DEF SpaceMemoUnshared, Live, MemoTyped
<1> QED BY <1>2, <1>3, <1>4

\* Expired shares stay expired.
LEMMA TickStep ==
  ASSUME MemoInv, Tick
  PROVE  MemoTyped' /\ PlacementValid' /\ SpaceMemoUnshared'
<1> USE DEF MemoInv
<1>1. now' = now + 1 /\ now \in Nat /\ UNCHANGED <<user, spaces, member, memo, share>>
  BY DEF Tick, MemoTyped
<1>2. MemoTyped' BY <1>1 DEF MemoTyped
<1>3. PlacementValid' BY <1>1 DEF PlacementValid, Live
<1>4. \A h \in Share : share[h] # NoShare => share[h].expires \in Nat \cup {Never}
  BY DEF MemoTyped, ShareRow
<1>5. SpaceMemoUnshared' BY <1>1, <1>4, MemoAssumption DEF SpaceMemoUnshared, Live
<1> QED BY <1>2, <1>3, <1>5

-----------------------------------------------------------------------------
(* Space transactions.                                                     *)

LEMMA DeleteUserCascadeStep ==
  ASSUME MemoInv, NEW u \in User, DeleteUserCascade(u)
  PROVE  MemoTyped' /\ PlacementValid' /\ SpaceMemoUnshared'
<1>1. /\ MemoTyped' /\ SpaceMemoUnshared'
      /\ \A m \in Memo : memo'[m] = IF m \in MemosBy(u) THEN NoMemo ELSE memo[m]
  <2>1. MemosBy(u) \in SUBSET Memo BY DEF MemosBy
  <2> QED BY <2>1, DeleteSetStep DEF MemoInv, DeleteUserCascade
<1>2. user' = [user EXCEPT ![u] = "absent"] /\ UNCHANGED spaces
  BY DEF DeleteUserCascade, DeleteUser
<1>3. PlacementValid'
  BY <1>1, <1>2 DEF MemoInv, SpaceInv, SpaceTypeOK, PlacementValid, Live, MemosBy
<1> QED BY <1>1, <1>3

LEMMA DeleteSpaceCascadeStep ==
  ASSUME MemoInv, NEW u \in User, NEW s \in Space, DeleteSpaceCascade(u, s)
  PROVE  MemoTyped' /\ PlacementValid' /\ SpaceMemoUnshared'
<1>1. /\ MemoTyped' /\ SpaceMemoUnshared'
      /\ \A m \in Memo : memo'[m] = IF m \in MemosIn(s) THEN NoMemo ELSE memo[m]
  <2>1. MemosIn(s) \in SUBSET Memo BY DEF MemosIn
  <2> QED BY <2>1, DeleteSetStep DEF MemoInv, DeleteSpaceCascade
<1>2. spaces' = spaces \ {s} /\ UNCHANGED user
  BY DEF DeleteSpaceCascade, DeleteSpace
<1>3. PlacementValid' BY <1>1, <1>2 DEF MemoInv, PlacementValid, Live, MemosIn
<1> QED BY <1>1, <1>3

\* The others end neither an account nor a Space.
LEMMA MembershipOnlyStep ==
  ASSUME MemoInv, MembershipOnly
  PROVE  MemoTyped' /\ PlacementValid' /\ SpaceMemoUnshared'
<1>1. /\ \A u \in User : user[u] # "absent" => user'[u] # "absent"
      /\ spaces \subseteq spaces' /\ UNCHANGED memoVars
  BY DEF MemoInv, SpaceInv, SpaceTypeOK, MembershipOnly, CreateUser, ArchiveUser, RestoreUser, CreateSpace,
         InvitationNext, CreateSpaceInvitation, AcceptSpaceInvitation, DeclineSpaceInvitation,
         RevokeSpaceInvitation, MembershipNext, UpdateSpaceMember, DeleteSpaceMember
<1>2. MemoTyped' /\ SpaceMemoUnshared'
  BY <1>1 DEF MemoInv, MemoTyped, SpaceMemoUnshared, Live, memoVars
<1>3. \A m \in Live : memo[m].creator \in User BY LiveTyped DEF MemoInv
<1>4. PlacementValid' BY <1>1, <1>3 DEF MemoInv, PlacementValid, Live, memoVars
<1> QED BY <1>2, <1>4

-----------------------------------------------------------------------------
LEMMA MemoInitial == Init => MemoInv
<1>1. Init => SpaceInv BY SpaceInitInv DEF Init
<1> QED BY <1>1 DEF Init, MemoInv, MemoTyped, PlacementValid, SpaceMemoUnshared, Live

LEMMA MemoInductive == MemoInv /\ [Next]_vars => MemoInv'
<1>1. ASSUME MemoInv, UNCHANGED vars PROVE MemoInv'
  BY <1>1 DEF vars, MemoInv, MemoTyped, PlacementValid, SpaceMemoUnshared, Live, SpaceInv, SpaceTypeOK,
              ActiveAdminRetained, ActiveAdmins, ActiveAdmin, ActiveUser, NoOrphanMember
<1>2. ASSUME MemoInv, Next PROVE MemoInv'
  <2>1. SpaceInv' BY <1>2, MemoStepOfSpaces, SpaceInvInductive DEF MemoInv
  <2>2. MemoTyped' /\ PlacementValid' /\ SpaceMemoUnshared'
    BY <1>2, CreateMemoStep, UpdateMemoStep, DeleteMemoStep, CreateMemoShareStep, DeleteMemoShareStep,
       TickStep, DeleteUserCascadeStep, DeleteSpaceCascadeStep, MembershipOnlyStep DEF Next
  <2> QED BY <2>1, <2>2 DEF MemoInv
<1> QED BY <1>1, <1>2

-----------------------------------------------------------------------------
(* What holds of memos, in every reachable state.                          *)

\* Forgetting the memos, every behaviour is one of the Space tables: neither
\* the cascades nor the memo transactions change who administers what, so the
\* five theorems above hold of the composed system.
THEOREM MemosImplementSpaces == Spec => SpaceSpec
<1>1. Init => SpaceInit BY DEF Init
<1>2. [Next]_vars => [SpaceNext]_spaceVars BY MemoStepOfSpaces DEF vars, spaceVars
<1> QED BY <1>1, <1>2, PTL DEF Spec, SpaceSpec

\* No move, withdrawal, deletion of a user or of a Space leaves a dangling
\* placement or a SPACE audience without a Space.
THEOREM PlacementStaysValid == Spec => []PlacementValid
<1>1. MemoInv => PlacementValid BY DEF MemoInv
<1> QED BY MemoInitial, MemoInductive, <1>1, PTL DEF Spec

\* No share outlives its memo and none is active on a memo with the SPACE
\* audience, whatever the order of sharing, changing the audience and time.
THEOREM SpaceMemosStayUnshared == Spec => []SpaceMemoUnshared
<1>1. MemoInv => SpaceMemoUnshared BY DEF MemoInv
<1> QED BY MemoInitial, MemoInductive, <1>1, PTL DEF Spec

\* The withdrawal, field by field.
LEMMA WithdrawFields ==
  /\ Withdraw \in Update
  /\ Withdraw.space = Unassigned /\ Withdraw.vis = "PRIVATE"
  /\ Withdraw.state = Keep /\ Withdraw.text = Keep
BY DEF Withdraw, NoUpdate, Update, Visibility

LEMMA WithdrawAllowed == MemoInv => AuthorCanWithdraw
<1> SUFFICES ASSUME MemoInv, NEW m \in Live, ActiveUser(memo[m].creator), memo[m].space # Unassigned
             PROVE  ValidateMemoWrite(memo[m].creator, m, Withdraw, TRUE, FALSE)
  BY DEF AuthorCanWithdraw
<1> DEFINE row == memo[m]
           new == Apply(row, Withdraw)
<1>1. row \in MemoRow /\ row # NoMemo /\ row.space \in Space
  BY LiveTyped DEF MemoInv, Live
<1>2. row.space \in spaces BY DEF MemoInv, PlacementValid
<1>3. new.space = Unassigned /\ new.vis = "PRIVATE"
  <2>1. new.space = OrElse(Withdraw.space, row.space) /\ new.vis = OrElse(Withdraw.vis, row.vis)
    BY <1>1, WithdrawFields, ApplyType
  <2>2. Unassigned # Keep /\ "PRIVATE" # Keep BY MemoAssumption DEF Visibility
  <2> QED BY <2>1, <2>2, WithdrawFields DEF OrElse
<1> HIDE DEF new
<1>4. /\ IsLifecycleOnly(Withdraw) /\ TargetWritable(row.creator, Withdraw)
      /\ SourceWritable(row.creator, row, TRUE) /\ Withdraw.vis # Keep /\ Withdraw.vis # "SPACE"
  BY <1>1, <1>2, WithdrawFields, MemoAssumption
     DEF IsLifecycleOnly, TargetWritable, SourceWritable, Visibility
<1> QED BY <1>1, <1>3, <1>4 DEF ValidateMemoWrite, new

\* An author who was removed from the Space is never shut out of a memo: the
\* withdrawal passes the whole write policy in every reachable state.
THEOREM WithdrawalNeverShut == Spec => []AuthorCanWithdraw
BY MemoInitial, MemoInductive, WithdrawAllowed, PTL DEF Spec

-----------------------------------------------------------------------------
(* What a step may do to a memo.                                           *)

\* A row that appears or changes was written by CreateMemo or UpdateMemo.
LEMMA WrittenBy ==
  ASSUME MemoInv, Next, NEW m \in Memo, memo'[m] # NoMemo, memo'[m] # memo[m]
  PROVE  \/ \E u \in User, s \in Space \cup {Unassigned}, v \in Visibility, t \in Text :
              CreateMemo(u, m, s, v, t)
         \/ \E u \in User, upd \in Update, lo \in BOOLEAN : UpdateMemo(u, m, upd, lo)
<1>1. memo \in [Memo -> MemoRow \cup {NoMemo}] BY DEF MemoInv, MemoTyped
<1>2. ASSUME NEW u \in User, NEW n \in Memo, NEW s \in Space \cup {Unassigned},
             NEW v \in Visibility, NEW t \in Text, CreateMemo(u, n, s, v, t)
      PROVE  n = m
  BY <1>1, <1>2 DEF CreateMemo
<1>3. ASSUME NEW u \in User, NEW n \in Memo, NEW upd \in Update, NEW lo \in BOOLEAN,
             UpdateMemo(u, n, upd, lo)
      PROVE  n = m
  BY <1>1, <1>3 DEF UpdateMemo
<1>4. ~ \E u \in User, n \in Memo : DeleteMemo(u, n) BY <1>1 DEF DeleteMemo
<1>5. ~ \E u \in User : DeleteUserCascade(u) BY DEF DeleteUserCascade, DeleteMemoSet
<1>6. ~ \E u \in User, s \in Space : DeleteSpaceCascade(u, s) BY DEF DeleteSpaceCascade, DeleteMemoSet
<1>7. memo' # memo OBVIOUS
<1>8. ~ MembershipOnly /\ ~ Tick BY <1>7 DEF MembershipOnly, memoVars, Tick
<1>9. ~ \E u \in User, n \in Memo, h \in Share, e \in 0..MaxTime \cup {Never} : CreateMemoShare(u, n, h, e)
  BY <1>7 DEF CreateMemoShare
<1>10. ~ \E u \in User, h \in Share : DeleteMemoShare(u, h) BY <1>7 DEF DeleteMemoShare
<1> QED BY <1>2, <1>3, <1>4, <1>5, <1>6, <1>8, <1>9, <1>10 DEF Next

\* What an update leaves in the row, and what the policy checked for it.
LEMMA UpdatedRow ==
  ASSUME MemoInv, NEW u \in User, NEW m \in Memo, NEW upd \in Update, NEW lo \in BOOLEAN,
         UpdateMemo(u, m, upd, lo)
  PROVE  /\ m \in Live /\ memo[m].creator = u /\ ActiveUser(u)
         /\ memo'[m].creator = u
         /\ memo'[m].space = OrElse(upd.space, memo[m].space)
         /\ memo'[m].state = OrElse(upd.state, memo[m].state)
         /\ memo'[m].text = OrElse(upd.text, memo[m].text)
         /\ lo => IsLifecycleOnly(upd) /\ memo'[m].space # memo[m].space
         /\ SourceWritable(u, memo[m], lo) /\ TargetWritable(u, upd)
<1> DEFINE new == Apply(memo[m], upd)
<1>1. /\ m \in Live /\ memo[m].creator = u /\ ActiveUser(u)
      /\ lo => IsLifecycleOnly(upd) /\ new.space # memo[m].space
      /\ SourceWritable(u, memo[m], lo) /\ TargetWritable(u, upd)
  BY DEF UpdateMemo, ValidateMemoWrite, Live
<1>2. memo'[m] = new BY DEF MemoInv, MemoTyped, UpdateMemo
<1>3. memo[m] \in MemoRow BY <1>1, LiveTyped DEF MemoInv
<1>4. /\ new.creator = memo[m].creator
      /\ new.space = OrElse(upd.space, memo[m].space)
      /\ new.state = OrElse(upd.state, memo[m].state)
      /\ new.text = OrElse(upd.text, memo[m].text)
  BY <1>3, ApplyType
<1> QED BY <1>1, <1>2, <1>4

LEMMA MoveStep ==
  ASSUME MemoInv, Next, NEW m \in Live, memo'[m] # NoMemo, memo'[m] # memo[m],
         memo[m].space # Unassigned, ~ SpaceMemberActive(memo[m].space, memo[m].creator)
  PROVE  /\ memo'[m].space # memo[m].space
         /\ memo'[m].text = memo[m].text
         /\ memo'[m].state = memo[m].state
<1>1. m \in Memo /\ memo[m] # NoMemo BY DEF Live
<1>2. PICK u \in User, upd \in Update, lo \in BOOLEAN : UpdateMemo(u, m, upd, lo)
  BY <1>1, WrittenBy DEF CreateMemo
<1>3. lo BY <1>1, <1>2, UpdatedRow DEF SourceWritable
<1>4. upd.state = Keep /\ upd.text = Keep /\ memo'[m].space # memo[m].space
  BY <1>1, <1>2, <1>3, UpdatedRow DEF IsLifecycleOnly
<1> QED BY <1>1, <1>2, <1>4, UpdatedRow DEF OrElse

\* The stale LifecycleOnly flag smuggles nothing in: an author who is not an
\* active member changes nothing of a placed memo but where it is placed and the
\* audience that goes with it.
THEOREM RemovedAuthorsOnlyMove == Spec => RemovedAuthorOnlyMoves
<1>1. MemoInv /\ [Next]_vars =>
        [\A m \in Live :
           /\ memo'[m] # NoMemo
           /\ memo'[m] # memo[m]
           /\ memo[m].space # Unassigned
           /\ ~ SpaceMemberActive(memo[m].space, memo[m].creator)
           => /\ memo'[m].space # memo[m].space
              /\ memo'[m].text = memo[m].text
              /\ memo'[m].state = memo[m].state]_vars
  BY MoveStep
<1> QED BY MemoInitial, MemoInductive, <1>1, PTL DEF Spec, RemovedAuthorOnlyMoves

LEMMA EnterStep ==
  ASSUME MemoInv, Next, NEW m \in Memo, memo'[m] # NoMemo, memo'[m].space # Unassigned,
         memo[m] = NoMemo \/ memo[m].space # memo'[m].space
  PROVE  /\ ActiveUser(memo'[m].creator)
         /\ memo'[m].space \in spaces
         /\ SpaceMemberActive(memo'[m].space, memo'[m].creator)
<1>1. memo'[m] # memo[m] OBVIOUS
<1>2. ASSUME NEW u \in User, NEW s \in Space \cup {Unassigned}, NEW v \in Visibility, NEW t \in Text,
             CreateMemo(u, m, s, v, t)
      PROVE  /\ ActiveUser(memo'[m].creator)
             /\ memo'[m].space \in spaces
             /\ SpaceMemberActive(memo'[m].space, memo'[m].creator)
  <2>1. memo'[m].creator = u /\ memo'[m].space = s
    BY <1>2 DEF CreateMemo, MemoInv, MemoTyped
  <2> QED BY <1>2, <2>1 DEF CreateMemo
<1>3. ASSUME NEW u \in User, NEW upd \in Update, NEW lo \in BOOLEAN, UpdateMemo(u, m, upd, lo)
      PROVE  /\ ActiveUser(memo'[m].creator)
             /\ memo'[m].space \in spaces
             /\ SpaceMemberActive(memo'[m].space, memo'[m].creator)
  <2>1. m \in Live BY <1>3, UpdatedRow
  <2>2. memo'[m].space = upd.space /\ upd.space \in Space
    BY <1>3, <2>1, UpdatedRow DEF Live, OrElse, Update
  <2> QED BY <1>3, <2>2, UpdatedRow DEF TargetWritable
<1> QED BY <1>1, <1>2, <1>3, WrittenBy

\* A memo enters a Space only while its author is a NORMAL user and an active
\* member of it, at the transaction itself and not only at the handler's read.
THEOREM PlacementChecked == Spec => PlacementNeedsMembership
<1>1. MemoInv /\ [Next]_vars =>
        [\A m \in Memo :
           /\ memo'[m] # NoMemo
           /\ memo'[m].space # Unassigned
           /\ memo[m] = NoMemo \/ memo[m].space # memo'[m].space
           => /\ ActiveUser(memo'[m].creator)
              /\ memo'[m].space \in spaces
              /\ SpaceMemberActive(memo'[m].space, memo'[m].creator)]_vars
  BY EnterStep
<1> QED BY MemoInitial, MemoInductive, <1>1, PTL DEF Spec, PlacementNeedsMembership

-----------------------------------------------------------------------------
(* Reading.                                                                *)

\* What the readers need to know of a live memo.
LEMMA LiveFacts ==
  ASSUME MemoInv, NEW m \in Live
  PROVE  /\ memo[m].creator \in User /\ user[memo[m].creator] \in RowStatus
         /\ memo[m].vis \in Visibility /\ memo[m].state \in RowStatus
         /\ memo[m].space \in spaces \cup {Unassigned}
         /\ memo[m].vis = "SPACE" => memo[m].space \in spaces /\ memo[m].space # Unassigned
<1>1. /\ memo[m].creator \in User /\ memo[m].space \in Space \cup {Unassigned}
      /\ memo[m].vis \in Visibility /\ memo[m].state \in RowStatus
  BY LiveTyped DEF MemoInv
<1> QED BY <1>1 DEF MemoInv, PlacementValid, SpaceInv, SpaceTypeOK

LEMMA PathsAgree == MemoInv => ReadPathsAgree
<1> SUFFICES ASSUME MemoInv, NEW m \in Live
             PROVE  /\ \A v \in Viewer, allow \in BOOLEAN :
                         CheckMemoRead(m, CurrentUser(v), allow, FALSE)
                           <=> AccessPredicate(m, CurrentUser(v), allow)
                    /\ \A v \in User : ActiveUser(v) =>
                         (CheckMemoRead(m, v, FALSE, FALSE) <=> RelationEndpointRead(m, v))
                    /\ ActiveUser(memo[m].creator) =>
                         (CheckMemoRead(m, memo[m].creator, FALSE, FALSE) <=> DeleteActorCanRead(m))
  BY DEF ReadPathsAgree
<1> USE MemoAssumption DEF RowStatus, Visibility
<1>1. ASSUME NEW v \in Viewer, NEW allow \in BOOLEAN
      PROVE  CheckMemoRead(m, CurrentUser(v), allow, FALSE)
               <=> AccessPredicate(m, CurrentUser(v), allow)
  <2>1. PICK c : c = CurrentUser(v) OBVIOUS
  <2>2. c = Anonymous \/ (c \in User /\ ActiveUser(c)) BY <2>1 DEF CurrentUser, ActiveUser
  <2>3. CheckMemoRead(m, c, allow, FALSE) <=> AccessPredicate(m, c, allow)
    BY <2>2, LiveFacts DEF CheckMemoRead, AccessPredicate, CreatorValid, SpaceValid, MemberOf
  <2> QED BY <2>1, <2>3
<1>2. ASSUME NEW v \in User, ActiveUser(v)
      PROVE  CheckMemoRead(m, v, FALSE, FALSE) <=> RelationEndpointRead(m, v)
  BY <1>2, LiveFacts DEF CheckMemoRead, RelationEndpointRead, CreatorValid, SpaceValid, MemberOf
<1>3. ASSUME ActiveUser(memo[m].creator)
      PROVE  CheckMemoRead(m, memo[m].creator, FALSE, FALSE) <=> DeleteActorCanRead(m)
  BY <1>3, LiveFacts DEF CheckMemoRead, DeleteActorCanRead, CreatorValid, SpaceValid, MemberOf
<1> QED BY <1>1, <1>2, <1>3

\* The audience matrix, written four times over different rows, is one policy in
\* every reachable state: the placements are what makes the four agree.
THEOREM OneReadPolicy == Spec => []ReadPathsAgree
BY MemoInitial, MemoInductive, PathsAgree, PTL DEF Spec

LEMMA ReadFirst == MemoInv => ParticipationNeedsRead
<1> SUFFICES ASSUME MemoInv, NEW m \in Live
             PROVE  /\ \A v \in User : CommentAuthorized(m, v) => CheckMemoRead(m, v, FALSE, FALSE)
                    /\ \A v \in Viewer :
                         /\ CheckMemoRead(m, CurrentUser(v), FALSE, TRUE)
                         /\ ~ CheckMemoRead(m, CurrentUser(v), FALSE, FALSE)
                         => memo[m].vis # "SPACE" /\ memo[m].state = "NORMAL"
  BY DEF ParticipationNeedsRead
<1> USE MemoAssumption DEF RowStatus, Visibility
<1>1. ASSUME NEW v \in User, CommentAuthorized(m, v) PROVE CheckMemoRead(m, v, FALSE, FALSE)
  BY <1>1, LiveFacts DEF CommentAuthorized, CheckMemoRead, CreatorValid, SpaceValid, MemberOf
<1>2. ASSUME NEW v \in Viewer, CheckMemoRead(m, CurrentUser(v), FALSE, TRUE),
             ~ CheckMemoRead(m, CurrentUser(v), FALSE, FALSE)
      PROVE  memo[m].vis # "SPACE" /\ memo[m].state = "NORMAL"
  <2>1. PICK c : c = CurrentUser(v) OBVIOUS
  <2>2. CheckMemoRead(m, c, FALSE, TRUE) /\ ~ CheckMemoRead(m, c, FALSE, FALSE) BY <1>2, <2>1
  <2> QED BY <2>2, LiveFacts DEF CheckMemoRead, CreatorValid, SpaceValid, MemberOf
<1> QED BY <1>1, <1>2

\* Commenting and reacting are narrower than reading, and a share token opens
\* neither a SPACE memo nor an archived one.
THEOREM ParticipationIsNarrower == Spec => []ParticipationNeedsRead
BY MemoInitial, MemoInductive, ReadFirst, PTL DEF Spec
=============================================================================
