-------------------------------- MODULE Memos --------------------------------
(***************************************************************************)
(* Memos placed in Spaces: authorship, placement (memo.space_id), audience *)
(* (memo.visibility), share links, and who may read what.  Composes the    *)
(* Space tables of module Spaces with the memo and memo_share tables, so   *)
(* that deleting a user or a Space takes its memos along.                  *)
(*                                                                         *)
(* As in Spaces, an action is one serialized store transaction.  The API   *)
(* handlers read before they open it; everything they decide from those    *)
(* possibly stale reads and pass on is the update itself and the           *)
(* LifecycleOnly flag, and both are quantified over here.                  *)
(***************************************************************************)
EXTENDS Spaces, Naturals

CONSTANTS Memo,        \* slots of the memo table
          Share,       \* slots of the memo_share table
          Text,        \* memo contents
          NoMemo, NoShare,
          Unassigned,  \* space_id IS NULL
          Never,       \* expires_ts IS NULL
          Keep,        \* a field the update leaves alone
          Anonymous,   \* a reader who is not signed in
          MaxTime      \* bound on the clock, for TLC

VARIABLES memo,        \* memo[m]: the memo row or NoMemo
          share,       \* share[h]: the memo_share row or NoShare
          now          \* the wall clock, in seconds

memoVars == <<memo, share, now>>
vars == <<user, spaces, member, memo, share, now>>

Visibility == {"PUBLIC", "PROTECTED", "PRIVATE", "SPACE"}

MemoRow == [creator : User, state : RowStatus, space : Space \cup {Unassigned},
            vis : Visibility, text : Text]
ShareRow == [memo : Memo, expires : Nat \cup {Never}]

ASSUME MemoAssumption ==
  /\ Keep \notin Space \cup {Unassigned} \cup Visibility \cup RowStatus \cup Text
  /\ Unassigned \notin Space /\ Anonymous \notin User
  /\ Never \notin Nat /\ MaxTime \in Nat
  /\ NoMemo \notin MemoRow

\* store.UpdateMemo: pointer fields, nil meaning "leave alone".  ClearSpace is
\* space = Unassigned.
Update == [space : Space \cup {Unassigned, Keep}, vis : Visibility \cup {Keep},
           state : RowStatus \cup {Keep}, text : Text \cup {Keep}]
NoUpdate == [space |-> Keep, vis |-> Keep, state |-> Keep, text |-> Keep]

OrElse(new, old) == IF new = Keep THEN old ELSE new

\* applyMemoUpdate: the SET clauses of the fields that are present.
Apply(row, upd) ==
  [row EXCEPT !.space = OrElse(upd.space, @), !.vis = OrElse(upd.vis, @),
              !.state = OrElse(upd.state, @), !.text = OrElse(upd.text, @)]

\* sqliteSpaceMemberActive: the row alone, not the user's status.
SpaceMemberActive(s, u) == member[s][u].status = "ACTIVE"

-----------------------------------------------------------------------------
(* Share links.                                                            *)

SharesOf(m) == {h \in Share : share[h] # NoShare /\ share[h].memo = m}

\* (a plausible slip) shares with an expiry are overlooked
HasPermanentShare(m) == \E h \in SharesOf(m) : share[h].expires = Never

\* The SQL test of validateSQLiteMemoWritePolicy: expires_ts IS NULL OR expires_ts > now.
HasActiveShare(m) ==
  \E h \in SharesOf(m) : share[h].expires = Never \/ share[h].expires > now

-----------------------------------------------------------------------------
(* The write policy.                                                       *)

\* isLifecycleOnlyMemoUpdate: a placement change and nothing but the audience with it.
IsLifecycleOnly(upd) == upd.space # Keep /\ upd.state = Keep /\ upd.text = Keep

\* (a plausible slip) the author alone is enough
SourceUnchecked(actor, row, lifecycleOnly) ==
  row.space # Unassigned => row.space \in spaces

\* (a plausible slip) no exception for authors who lost their membership
SourceMembersOnly(actor, row, lifecycleOnly) ==
  row.space # Unassigned => row.space \in spaces /\ SpaceMemberActive(row.space, actor)

\* The Space the memo is in: it exists and, unless the update only moves the
\* memo, the actor is an active member.
SourceWritable(actor, row, lifecycleOnly) ==
  row.space # Unassigned =>
    row.space \in spaces /\ (lifecycleOnly \/ SpaceMemberActive(row.space, actor))

\* (a plausible slip) the target Space only has to exist
TargetExists(actor, upd) == upd.space \in Space => upd.space \in spaces

\* The Space the memo is moved to.
TargetWritable(actor, upd) ==
  upd.space \in Space => upd.space \in spaces /\ SpaceMemberActive(upd.space, actor)

\* validateSQLiteMemoWritePolicy and ValidateMemoWriteSnapshot: what the
\* mutation transaction rechecks against the current rows.
ValidateMemoWrite(actor, m, upd, lifecycleOnly, creatingShare) ==
  LET row == memo[m]
      new == Apply(row, upd)
  IN  /\ ActiveUser(actor)
      /\ row # NoMemo
      /\ row.creator = actor
      /\ lifecycleOnly => IsLifecycleOnly(upd) /\ new.space # row.space
      /\ SourceWritable(actor, row, lifecycleOnly)
      /\ TargetWritable(actor, upd)
      /\ new.space # row.space /\ row.vis = "SPACE" => upd.vis # Keep
      /\ new.vis = "SPACE" => new.space # Unassigned
      /\ creatingShare => new.vis # "SPACE" /\ row.state = "NORMAL"
      /\ upd.vis = "SPACE" => ~ HasActiveShare(m)

-----------------------------------------------------------------------------
(* Transactions on memos and shares.                                       *)

\* validateMemoCreate and validateSQLiteMemoCreate, then the insert.
CreateMemo(actor, m, s, v, t) ==
  /\ memo[m] = NoMemo
  /\ v = "SPACE" => s # Unassigned
  /\ ActiveUser(actor)
  /\ s # Unassigned => s \in spaces /\ SpaceMemberActive(s, actor)
  /\ memo' = [memo EXCEPT ![m] = [creator |-> actor, state |-> "NORMAL",
                                  space |-> s, vis |-> v, text |-> t]]
  /\ UNCHANGED <<user, spaces, member, share, now>>

\* UpdateMemo.  The handler sets LifecycleOnly from the memo it read earlier:
\* only for a mask of space and visibility, when the placement seemed to change.
UpdateMemo(actor, m, upd, lifecycleOnly) ==
  /\ lifecycleOnly => IsLifecycleOnly(upd)
  /\ upd.space = Unassigned => upd.vis # "SPACE"
  /\ ValidateMemoWrite(actor, m, upd, lifecycleOnly, FALSE)
  /\ memo' = [memo EXCEPT ![m] = Apply(@, upd)]
  /\ UNCHANGED <<user, spaces, member, share, now>>

\* DeleteMemoWithPolicy: the author, member of the Space or not; shares go too.
DeleteMemo(actor, m) ==
  /\ ActiveUser(actor)
  /\ memo[m] # NoMemo
  /\ memo[m].creator = actor
  /\ memo' = [memo EXCEPT ![m] = NoMemo]
  /\ share' = [h \in Share |-> IF h \in SharesOf(m) THEN NoShare ELSE share[h]]
  /\ UNCHANGED <<user, spaces, member, now>>

\* CreateMemoShare: an expiry must lie in the future.
CreateMemoShare(actor, m, h, e) ==
  /\ share[h] = NoShare
  /\ e # Never => e > now
  /\ ValidateMemoWrite(actor, m, NoUpdate, FALSE, TRUE)
  /\ share' = [share EXCEPT ![h] = [memo |-> m, expires |-> e]]
  /\ UNCHANGED <<user, spaces, member, memo, now>>

\* DeleteMemoShare: revocation is an ordinary write, so the source Space counts.
DeleteMemoShare(actor, h) ==
  /\ share[h] # NoShare
  /\ ValidateMemoWrite(actor, share[h].memo, NoUpdate, FALSE, FALSE)
  /\ share' = [share EXCEPT ![h] = NoShare]
  /\ UNCHANGED <<user, spaces, member, memo, now>>

Tick ==
  /\ now < MaxTime
  /\ now' = now + 1
  /\ UNCHANGED <<user, spaces, member, memo, share>>

-----------------------------------------------------------------------------
(* The Space transactions, with what they do to memos.                     *)

\* deleteUserTargetsTx and deleteSQLiteMemoSetTx: the memo rows and their shares.
DeleteMemoSet(ms) ==
  /\ memo' = [m \in Memo |-> IF m \in ms THEN NoMemo ELSE memo[m]]
  /\ share' = [h \in Share |->
                 IF share[h] # NoShare /\ share[h].memo \in ms THEN NoShare ELSE share[h]]

\* (a plausible slip) only memos with the SPACE audience go with their Space
SpaceAudienceMemosIn(s) ==
  {m \in Memo : memo[m] # NoMemo /\ memo[m].space = s /\ memo[m].vis = "SPACE"}

\* listSQLiteSpaceDeleteMemoIDs: every memo placed in the Space, whoever wrote it.
MemosIn(s) == {m \in Memo : memo[m] # NoMemo /\ memo[m].space = s}

\* listDeleteUserMemos.
MemosBy(u) == {m \in Memo : memo[m] # NoMemo /\ memo[m].creator = u}

DeleteSpaceCascade(actor, s) ==
  DeleteSpace(actor, s) /\ DeleteMemoSet(MemosIn(s)) /\ UNCHANGED now

DeleteUserCascade(u) ==
  DeleteUser(u) /\ DeleteMemoSet(MemosBy(u)) /\ UNCHANGED now

\* Every other Space transaction leaves memos and shares where they are; in
\* particular removing a member keeps that member's memos.
MembershipOnly ==
  /\ \/ \E u \in User : CreateUser(u) \/ ArchiveUser(u) \/ RestoreUser(u)
     \/ \E s \in Space, u \in User :
          CreateSpace(u, s) \/ InvitationNext(s, u) \/ MembershipNext(s, u)
  /\ UNCHANGED memoVars

-----------------------------------------------------------------------------
Init ==
  /\ SpaceInit
  /\ memo = [m \in Memo |-> NoMemo]
  /\ share = [h \in Share |-> NoShare]
  /\ now = 0

Next ==
  \/ MembershipOnly
  \/ \E u \in User : DeleteUserCascade(u)
  \/ \E u \in User, s \in Space : DeleteSpaceCascade(u, s)
  \/ \E u \in User, m \in Memo, s \in Space \cup {Unassigned}, v \in Visibility, t \in Text :
       CreateMemo(u, m, s, v, t)
  \/ \E u \in User, m \in Memo, upd \in Update, lo \in BOOLEAN : UpdateMemo(u, m, upd, lo)
  \/ \E u \in User, m \in Memo : DeleteMemo(u, m)
  \/ \E u \in User, m \in Memo, h \in Share, e \in 0..MaxTime \cup {Never} :
       CreateMemoShare(u, m, h, e)
  \/ \E u \in User, h \in Share : DeleteMemoShare(u, h)
  \/ Tick

Spec == Init /\ [][Next]_vars

-----------------------------------------------------------------------------
(* Properties.                                                             *)

Live == {m \in Memo : memo[m] # NoMemo}

\* A memo's author and its Space always exist, and a SPACE audience always
\* names a Space: neither a move, a withdrawal, DeleteUser nor DeleteSpace
\* leaves a dangling placement.
PlacementValid ==
  \A m \in Live :
    /\ user[memo[m].creator] # "absent"
    /\ memo[m].space # Unassigned => memo[m].space \in spaces
    /\ memo[m].vis = "SPACE" => memo[m].space # Unassigned

\* No share link outlives its memo, and a memo with the SPACE audience has none
\* that the write policy counts as active, in whichever order the share was
\* created, the audience changed and the clock advanced.
SpaceMemoUnshared ==
  /\ \A h \in Share : share[h] # NoShare => share[h].memo \in Live
  /\ \A m \in Live, h \in Share :
       memo[m].vis = "SPACE" /\ share[h] # NoShare /\ share[h].memo = m =>
         share[h].expires # Never /\ share[h].expires <= now

\* The clear-space update a removed author is left with.
Withdraw == [NoUpdate EXCEPT !.space = Unassigned, !.vis = "PRIVATE"]

\* An active author can withdraw a placed memo to Unassigned and PRIVATE whatever
\* became of the membership, the audience and the shares: the lifecycle
\* exception of the write policy is never shut.
AuthorCanWithdraw ==
  \A m \in Live :
    ActiveUser(memo[m].creator) /\ memo[m].space # Unassigned =>
      ValidateMemoWrite(memo[m].creator, m, Withdraw, TRUE, FALSE)

\* An author who is not an active member of the memo's Space changes nothing of
\* the memo but its placement and the audience that goes with it; the
\* LifecycleOnly flag, computed from a stale read, cannot smuggle in content,
\* state or audience-only changes.
RemovedAuthorOnlyMoves ==
  [][\A m \in Live :
       /\ memo'[m] # NoMemo
       /\ memo'[m] # memo[m]
       /\ memo[m].space # Unassigned
       /\ ~ SpaceMemberActive(memo[m].space, memo[m].creator)
       => /\ memo'[m].space # memo[m].space
          /\ memo'[m].text = memo[m].text
          /\ memo'[m].state = memo[m].state]_vars

\* A memo enters a Space only in a step in which its author is a NORMAL user
\* and an active member of that Space.
PlacementNeedsMembership ==
  [][\A m \in Memo :
       /\ memo'[m] # NoMemo
       /\ memo'[m].space # Unassigned
       /\ memo[m] = NoMemo \/ memo[m].space # memo'[m].space
       => /\ ActiveUser(memo'[m].creator)
          /\ memo'[m].space \in spaces
          /\ SpaceMemberActive(memo'[m].space, memo'[m].creator)]_vars
=============================================================================
