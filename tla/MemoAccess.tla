------------------------------ MODULE MemoAccess ------------------------------
(***************************************************************************)
(* Who may read a memo.  The audience matrix is written down four times in *)
(* the code: CheckMemoReadContext (single reads), the SQL access predicate *)
(* (lists), ValidateMemoRelationEndpointRead (references) and              *)
(* MemoDeleteActorCanRead (deletion webhooks); participation in a memo     *)
(* (comments and reactions) is a fifth rule built on it.  This module      *)
(* transcribes each and states what they owe to each other.                *)
(***************************************************************************)
EXTENDS Memos

Viewer == User \cup {Anonymous}

\* fetchCurrentUser: an archived caller counts as nobody.
CurrentUser(v) == IF v \in User /\ user[v] = "NORMAL" THEN v ELSE Anonymous

MemberOf(s, v) == v \in User /\ SpaceMemberActive(s, v)

\* ResolveMemoReadFacts: the creator's row exists, the placement still exists.
CreatorValid(m) == user[memo[m].creator] \in RowStatus
SpaceValid(m) == memo[m].space = Unassigned \/ memo[m].space \in spaces

\* (a plausible slip) archived memos keep their audience
CheckMemoReadArchived(m, v, allowAnonymous, shared) ==
  LET row == memo[m]
  IN  /\ CreatorValid(m)
      /\ \/ shared /\ row.vis # "SPACE"
         \/ row.vis = "PUBLIC" /\ (allowAnonymous \/ v # Anonymous)
         \/ row.vis = "PROTECTED" /\ v # Anonymous
         \/ row.vis = "PRIVATE" /\ v = row.creator
         \/ row.vis = "SPACE" /\ MemberOf(row.space, v)

\* CheckMemoReadContext for the effective viewer v; shared says that the request
\* carries a live share token of this very memo.
CheckMemoRead(m, v, allowAnonymous, shared) ==
  LET row == memo[m]
  IN  /\ CreatorValid(m)
      /\ row.vis = "SPACE" => row.space # Unassigned /\ SpaceValid(m)
      /\ row.state = "ARCHIVED" => v = row.creator
      /\ \/ shared /\ row.vis # "SPACE"
         \/ row.vis = "PUBLIC" /\ (allowAnonymous \/ v # Anonymous)
         \/ row.vis = "PROTECTED" /\ v # Anonymous
         \/ row.vis = "PRIVATE" /\ v = row.creator
         \/ row.vis = "SPACE" /\ MemberOf(row.space, v)

\* sqliteMemoAccessPredicate under newMemoAccessScope.
AccessPredicate(m, v, allowAnonymous) ==
  LET row == memo[m]
      allowPublic == v # Anonymous \/ allowAnonymous
  IN  /\ \/ allowPublic /\ row.vis = "PUBLIC"
         \/ /\ v # Anonymous
            /\ ActiveUser(v)
            /\ \/ row.vis = "PRIVATE" /\ row.creator = v
               \/ row.vis = "PROTECTED"
               \/ row.vis = "SPACE" /\ row.space # Unassigned /\ SpaceMemberActive(row.space, v)
      /\ user[row.creator] \in RowStatus
      /\ row.vis = "SPACE" => row.space \in spaces
      /\ row.state = "NORMAL" \/ (row.state = "ARCHIVED" /\ v = row.creator)

\* ValidateMemoRelationEndpointRead; it does not look at the creator's row.
RelationEndpointRead(m, actor) ==
  LET row == memo[m]
  IN  /\ ActiveUser(actor)
      /\ row.state = "ARCHIVED" => row.creator = actor
      /\ row.vis = "SPACE" => row.space # Unassigned /\ row.space \in spaces
      /\ \/ row.vis \in {"PUBLIC", "PROTECTED"}
         \/ row.vis = "PRIVATE" /\ row.creator = actor
         \/ row.vis = "SPACE" /\ SpaceMemberActive(row.space, actor)

\* MemoDeleteActorCanRead, for the active author who is deleting the memo.
DeleteActorCanRead(m) ==
  LET row == memo[m]
  IN  row.vis = "SPACE" =>
        row.space # Unassigned /\ row.space \in spaces /\ SpaceMemberActive(row.space, row.creator)

\* (a plausible slip) members may join in on each other's PRIVATE memos
CommentAuthorizedByMembership(m, actor) ==
  LET row == memo[m]
  IN  /\ ActiveUser(actor)
      /\ row.state = "NORMAL"
      /\ IF row.space = Unassigned
           THEN row.vis # "SPACE"
           ELSE row.space \in spaces /\ SpaceMemberActive(row.space, actor)

\* ValidateMemoCommentAuthorization: who may comment on or react to a memo.
CommentAuthorized(m, actor) ==
  LET row == memo[m]
  IN  /\ ActiveUser(actor)
      /\ row.state = "NORMAL"
      /\ IF row.space = Unassigned
           THEN row.vis # "SPACE"
           ELSE row.space \in spaces /\ SpaceMemberActive(row.space, actor)
      /\ row.vis = "PRIVATE" => row.creator = actor

-----------------------------------------------------------------------------
(* Properties.                                                             *)

\* One policy, written four times: for every viewer a single read, a list, a
\* reference and the deletion webhook agree on whether a memo is readable,
\* although each looks at different rows (the list at the caller's row, the
\* reference never at the creator's).
ReadPathsAgree ==
  \A m \in Live :
    /\ \A v \in Viewer, allow \in BOOLEAN :
         CheckMemoRead(m, CurrentUser(v), allow, FALSE)
           <=> AccessPredicate(m, CurrentUser(v), allow)
    /\ \A v \in User : ActiveUser(v) =>
         (CheckMemoRead(m, v, FALSE, FALSE) <=> RelationEndpointRead(m, v))
    /\ ActiveUser(memo[m].creator) =>
         (CheckMemoRead(m, memo[m].creator, FALSE, FALSE) <=> DeleteActorCanRead(m))

\* Whoever may comment on or react to a memo may read it (participation is
\* narrower than reading), and a share token never opens a SPACE or an archived
\* memo to someone the audience keeps out.
ParticipationNeedsRead ==
  \A m \in Live :
    /\ \A v \in User : CommentAuthorized(m, v) => CheckMemoRead(m, v, FALSE, FALSE)
    /\ \A v \in Viewer :
         /\ CheckMemoRead(m, CurrentUser(v), FALSE, TRUE)
         /\ ~ CheckMemoRead(m, CurrentUser(v), FALSE, FALSE)
         => memo[m].vis # "SPACE" /\ memo[m].state = "NORMAL"
=============================================================================
