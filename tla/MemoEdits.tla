------------------------------ MODULE MemoEdits ------------------------------
(***************************************************************************)
(* Optimistic edits of one author's memos and attachments.  A handler      *)
(* reads a memo and its attachments, decides what to write, and only then  *)
(* opens the transaction that writes it; other requests run in between.    *)
(* The transactions are serialized, as SQLite runs them, and recheck some  *)
(* of what was read: the content of the memo (ExpectedMemoContent), the    *)
(* bindings of the attachments, and the memos they are bound to.           *)
(*                                                                         *)
(* A content is known by the attachments its managed images refer to and   *)
(* by its tags; memo[m].tags is the content that the stored payload (tags  *)
(* and properties) was extracted from.  Policy rejections, the grouping of *)
(* motion media and foreign attachments only refuse requests or drop       *)
(* requested attachments: a request may fail, and ask for less, at will.   *)
(***************************************************************************)
EXTENDS Naturals, FiniteSets

CONSTANTS Memo, Attachment,  \* identifiers; the schema never reuses one
          Text,              \* memo contents
          Refs,              \* Refs[t]: attachments that the images of t refer to
          Request,           \* requests in progress at a time
          Unborn, Deleted,   \* no row yet; no row any more
          Unlinked,          \* attachment.memo_id IS NULL
          NotRead            \* a value the request has not read

ASSUME RefsAssumption == Refs \in [Text -> SUBSET Attachment]

\* The markers are no rows, identifiers or contents.
ASSUME MarkerAssumption ==
  /\ {Unborn, Deleted, Unlinked, NotRead} \cap Memo = {}
  /\ {Unborn, Deleted} \cap [text : Text, tags : Text] = {}
  /\ NotRead \notin Text \cup {Unlinked}
  /\ Unlinked \notin {Unborn, Deleted}
  /\ Unborn # Deleted

VARIABLES memo,   \* memo[m]: the content and payload of a memo row, or Unborn or Deleted
          bound,  \* bound[a]: attachment.memo_id, or Unborn or Deleted
          req     \* req[r]: what request r has read and means to write

editVars == <<memo, bound, req>>
rows == <<memo, bound>>

MemoRow == [text : Text, tags : Text]
Field == {"content", "attachments", "location"}

Live(m) == memo[m] \notin {Unborn, Deleted}
Exists(a) == bound[a] \notin {Unborn, Deleted}
BoundTo(m) == {a \in Attachment : bound[a] = m}

Idle == [phase |-> "idle", memo |-> NotRead, mask |-> {}, text |-> NotRead, tags |-> NotRead,
         seen |-> NotRead, want |-> {}, current |-> {},
         at |-> [a \in Attachment |-> NotRead], expect |-> [m \in Memo |-> NotRead]]

At(r, phase) == req[r].phase = phase
End(r) == req' = [req EXCEPT ![r] = Idle]

\* A check that fails, a database error, a disconnect or a crash before COMMIT.
Fail(r) == ~ At(r, "idle") /\ End(r) /\ UNCHANGED rows

-----------------------------------------------------------------------------
(* Updating and creating a memo.                                           *)

\* UpdateMemo and SetMemoAttachments up to GetMemo: what to write follows from
\* the row read here.  The payload is written as a whole, so an update of the
\* location carries the tags that were read.
UpdateMemo(r, m, mask, t, want) ==
  /\ At(r, "idle")
  /\ Live(m)
  /\ mask # {}
  /\ "attachments" \notin mask => want = {}
  /\ req' = [req EXCEPT ![r] =
       [Idle EXCEPT !.phase = IF mask = {"location"} THEN "update" ELSE "list",
                    !.memo = m, !.mask = mask, !.want = want, !.seen = memo[m].text,
                    !.text = IF "content" \in mask THEN t ELSE memo[m].text,
                    !.tags = IF "content" \in mask THEN t ELSE memo[m].tags]]
  /\ UNCHANGED rows

\* CreateMemo and prepareMemoCreate: no current attachments, nothing seen.  The
\* identifier is allocated by the insert; it is fixed here, apart from others'.
CreateMemo(r, m, t, want) ==
  /\ At(r, "idle")
  /\ memo[m] = Unborn
  /\ \A o \in Request : req[o].memo # m
  /\ req' = [req EXCEPT ![r] = [Idle EXCEPT !.phase = "resolve", !.memo = m, !.text = t,
                                            !.mask = {"content", "attachments"}, !.want = want,
                                            !.tags = t]]
  /\ UNCHANGED rows

\* ListAttachments; a content update resolves its references against them.
ListCurrent(r) ==
  LET q == req[r] IN
  /\ At(r, "list")
  /\ "attachments" \notin q.mask => Refs[q.text] \subseteq BoundTo(q.memo)
  /\ req' = [req EXCEPT ![r].current = BoundTo(q.memo),
                        ![r].phase = IF "attachments" \in q.mask THEN "resolve" ELSE "apply"]
  /\ UNCHANGED rows

\* normalizeMemoAttachmentRequest and resolveMemoAttachmentReferences: a requested
\* attachment is in the memo already or free, and every reference is requested.
ResolveRequested(r) ==
  LET q == req[r] IN
  /\ At(r, "resolve")
  /\ \A a \in q.want : Exists(a) /\ (a \notin q.current => bound[a] = Unlinked)
  /\ Refs[q.text] \subseteq q.want
  /\ req' = [req EXCEPT ![r].phase = "apply"]
  /\ UNCHANGED rows

Removed(q) == IF "attachments" \in q.mask THEN q.current \ q.want ELSE {}

\* (a plausible slip) the row only has to exist
BindingExists(q, a) == Exists(a)

\* WasBoundToMemo, or still free.
BindingHolds(q, a) == bound[a] = IF a \in q.current THEN q.memo ELSE Unlinked

\* The attachment part of ApplyMemoMutation.
Rebind(q) ==
  /\ \A a \in Removed(q) : bound[a] = q.memo
  /\ \A a \in q.want : BindingHolds(q, a)
  /\ bound' = [a \in Attachment |-> IF a \in q.want THEN q.memo
                                    ELSE IF a \in Removed(q) THEN Deleted ELSE bound[a]]
  /\ \A a \in Refs[q.text] : bound'[a] = q.memo

\* (a plausible slip) the content read is not compared
AnyContent(q) == Live(q.memo)

\* The row is there, with the content the handler read.
ContentUnchanged(q) == Live(q.memo) /\ memo[q.memo].text = q.seen

\* applyMemoUpdate: the payload is written when the content or the location is.
WriteMemo(q) ==
  memo' = [memo EXCEPT ![q.memo] =
             [text |-> q.text,
              tags |-> IF q.mask \cap {"content", "location"} # {} THEN q.tags ELSE @.tags]]

\* ApplyMemoMutation of an existing memo.
ApplyMemoMutation(r) ==
  /\ At(r, "apply")
  /\ req[r].seen # NotRead
  /\ ContentUnchanged(req[r])
  /\ Rebind(req[r])
  /\ WriteMemo(req[r])
  /\ End(r)

\* ApplyMemoMutation with MemoCreate: the insert comes first.
InsertMemo(r) ==
  /\ At(r, "apply")
  /\ req[r].seen = NotRead
  /\ Rebind(req[r])
  /\ WriteMemo(req[r])
  /\ End(r)

\* Store.UpdateMemo, taken when only the location changes: no comparison.
UpdatePayload(r) ==
  LET q == req[r] IN
  /\ At(r, "update")
  /\ Live(q.memo)
  /\ memo' = [memo EXCEPT ![q.memo].tags = q.tags]
  /\ End(r)
  /\ UNCHANGED bound

-----------------------------------------------------------------------------
(* Attachments, and the deletion of memos.                                 *)

\* (a plausible slip) the memo is not looked up again in the transaction
CreateAttachmentUnchecked(a, m) ==
  /\ bound[a] = Unborn
  /\ m # Unlinked => memo[m] # Unborn
  /\ bound' = [bound EXCEPT ![a] = m]
  /\ UNCHANGED <<memo, req>>

\* CreateAttachment: the write policy finds the memo inside the transaction.
CreateAttachment(a, m) ==
  /\ bound[a] = Unborn
  /\ m # Unlinked => Live(m)
  /\ bound' = [bound EXCEPT ![a] = m]
  /\ UNCHANGED <<memo, req>>

\* DeleteAttachment and BatchDeleteAttachments: the targets, read one by one.
DeleteAttachments(r, targets) ==
  /\ At(r, "idle")
  /\ targets # {}
  /\ req' = [req EXCEPT ![r] = [Idle EXCEPT !.phase = "read", !.want = targets]]
  /\ UNCHANGED rows

ReadTarget(r, a) ==
  /\ At(r, "read")
  /\ a \in req[r].want
  /\ req[r].at[a] = NotRead
  /\ Exists(a)
  /\ req' = [req EXCEPT ![r].at[a] = bound[a]]
  /\ UNCHANGED rows

TargetsRead(q) == \A a \in q.want : q.at[a] # NotRead
MemosOf(q) == {q.at[a] : a \in q.want} \ {Unlinked}

\* validateAttachmentDeletionPreflight: the memo must not refer to any target.
ReadMemoOfTarget(r, m) ==
  LET q == req[r] IN
  /\ At(r, "read")
  /\ TargetsRead(q)
  /\ m \in MemosOf(q)
  /\ q.expect[m] = NotRead
  /\ Live(m)
  /\ Refs[memo[m].text] \cap q.want = {}
  /\ req' = [req EXCEPT ![r].expect[m] = memo[m].text]
  /\ UNCHANGED rows

\* (a plausible slip) memos the targets were bound to meanwhile are not noticed
SnapshotsOfReadMemos(q, ms) == \A m \in ms : q.expect[m] \in {NotRead, memo[m].text}

\* ValidateAttachmentDeletionMemoSnapshots and the comparison of the contents:
\* the memos now bound are those that were read, and read as they are.
SnapshotsMatch(q, ms) ==
  /\ ms = {m \in Memo : q.expect[m] # NotRead}
  /\ \A m \in ms : Live(m) /\ memo[m].text = q.expect[m]

\* DeleteAttachmentsWithPolicy.
DeleteAttachmentsWithPolicy(r) ==
  LET q == req[r] IN
  /\ At(r, "read")
  /\ TargetsRead(q)
  /\ \A m \in MemosOf(q) : q.expect[m] # NotRead
  /\ \A a \in q.want : Exists(a)
  /\ SnapshotsMatch(q, {bound[a] : a \in q.want} \ {Unlinked})
  /\ bound' = [a \in Attachment |-> IF a \in q.want THEN Deleted ELSE bound[a]]
  /\ End(r)
  /\ UNCHANGED memo

\* DeleteMemoWithPolicy and the cascades of DeleteSpace and DeleteUser.
DeleteMemo(m) ==
  /\ Live(m)
  /\ memo' = [memo EXCEPT ![m] = Deleted]
  /\ bound' = [a \in Attachment |-> IF bound[a] = m THEN Deleted ELSE bound[a]]
  /\ UNCHANGED req

-----------------------------------------------------------------------------
EditInit ==
  /\ memo = [m \in Memo |-> Unborn]
  /\ bound = [a \in Attachment |-> Unborn]
  /\ req = [r \in Request |-> Idle]

MutateMemo(r) ==
  \/ \E m \in Memo, mask \in SUBSET Field, t \in Text, want \in SUBSET Attachment :
       \/ UpdateMemo(r, m, mask, t, want)
       \/ CreateMemo(r, m, t, want)
  \/ ListCurrent(r)
  \/ ResolveRequested(r)
  \/ ApplyMemoMutation(r)
  \/ InsertMemo(r)
  \/ UpdatePayload(r)

MutateAttachments(r) ==
  \/ \E targets \in SUBSET Attachment : DeleteAttachments(r, targets)
  \/ \E a \in Attachment : ReadTarget(r, a)
  \/ \E m \in Memo : ReadMemoOfTarget(r, m)
  \/ DeleteAttachmentsWithPolicy(r)

EditNext ==
  \/ \E r \in Request : MutateMemo(r) \/ MutateAttachments(r) \/ Fail(r)
  \/ \E a \in Attachment, m \in Memo \cup {Unlinked} : CreateAttachment(a, m)
  \/ \E m \in Memo : DeleteMemo(m)

EditSpec == EditInit /\ [][EditNext]_editVars

-----------------------------------------------------------------------------
(* Properties.                                                             *)

RequestState ==
  [phase : {"idle", "list", "resolve", "apply", "update", "read"}, memo : Memo \cup {NotRead},
   mask : SUBSET Field, text : Text \cup {NotRead}, tags : Text \cup {NotRead},
   seen : Text \cup {NotRead}, want : SUBSET Attachment, current : SUBSET Attachment,
   at : [Attachment -> Memo \cup {Unlinked, NotRead}], expect : [Memo -> Text \cup {NotRead}]]

\* Rows and handler states hold only what they can; every stored payload was
\* extracted from some content.
EditTypeOK ==
  /\ memo \in [Memo -> MemoRow \cup {Unborn, Deleted}]
  /\ bound \in [Attachment -> Memo \cup {Unlinked, Unborn, Deleted}]
  /\ req \in [Request -> RequestState]

\* Every managed image of a stored memo refers to an attachment bound to that
\* memo, whichever way edits, attachment deletions and uploads interleave
\* between their reads and their transactions.
RefsBound == \A m \in Memo : Live(m) => Refs[memo[m].text] \subseteq BoundTo(m)

\* An attachment is never left bound to a memo that is gone: an edit or an
\* upload that found the memo does not outlive its deletion.
BindingsLive == \A a \in Attachment : bound[a] \in Memo => Live(bound[a])

\* A binding is final: two edits that both found an attachment free cannot both
\* take it, and none moves it to another memo or sets it free.
AttachmentNotStolen ==
  [][\A a \in Attachment : bound[a] \in Memo => bound'[a] \in {bound[a], Deleted}]_editVars
=============================================================================
