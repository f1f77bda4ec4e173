-------------------------- MODULE AttachmentProofs --------------------------
(***************************************************************************)
(* Proofs about attachments: how memo edits bind them (MemoEdits), for any *)
(* number of memos, attachments, contents and concurrent requests; and how *)
(* their bytes are stored (AttachmentFiles), for any number of uploads,    *)
(* UIDs and files on any storage, when the path template contains {uuid}   *)
(* (as the default does).  Then a path belongs to one upload, and nothing  *)
(* that happens to another upload, its row or its file touches the bytes.  *)
(***************************************************************************)
EXTENDS MemoEdits, AttachmentFiles, TLAPS

-----------------------------------------------------------------------------
(* Memo edits keep references, bindings and types.                         *)

Editing == {"list", "resolve", "apply", "update"}

\* What a handler between its reads and its transaction knows: an edit has a
\* memo, a content and a payload to write; a creation writes its payload; and no
\* content that an attachment deletion found refers to one of its targets.
HandlerOK(q) ==
  /\ q.phase \in Editing => q.memo \in Memo /\ q.text \in Text /\ q.tags \in Text
  /\ q.phase \in Editing /\ q.seen = NotRead => "content" \in q.mask
  /\ \A m \in Memo : q.expect[m] # NotRead => Refs[q.expect[m]] \cap q.want = {}

HandlerInv == \A r \in Request : HandlerOK(req[r])

\* The inductive invariant.
EditInv == EditTypeOK /\ HandlerInv /\ RefsBound /\ BindingsLive

-----------------------------------------------------------------------------
(* Facts about rows and requests.                                          *)

LEMMA IdleOK == Idle \in RequestState /\ HandlerOK(Idle)
  BY DEF Idle, RequestState, HandlerOK, Editing

\* A live memo has a row, and an existing attachment a binding.
LEMMA RowsTyped ==
  ASSUME EditTypeOK
  PROVE  /\ \A m \in Memo : Live(m) => memo[m] \in MemoRow
         /\ \A a \in Attachment : Exists(a) => bound[a] \in Memo \cup {Unlinked}
  BY DEF EditTypeOK, Live, Exists

\* A step that only moves one request on keeps the requests in order.
LEMMA RequestStep ==
  ASSUME EditInv, NEW r \in Request, NEW q \in RequestState, HandlerOK(q),
         req' = [req EXCEPT ![r] = q]
  PROVE  req' \in [Request -> RequestState] /\ HandlerInv'
  BY DEF EditInv, EditTypeOK, HandlerInv, HandlerOK

\* ... and, when it leaves the rows alone, everything else as well.
LEMMA ReadStep ==
  ASSUME EditInv, NEW r \in Request, NEW q \in RequestState, HandlerOK(q),
         req' = [req EXCEPT ![r] = q], UNCHANGED rows
  PROVE  EditInv'
  <1>1. req' \in [Request -> RequestState] /\ HandlerInv'
    BY RequestStep
  <1>2. EditTypeOK'
    BY <1>1 DEF EditInv, EditTypeOK, rows
  <1>3. RefsBound' /\ BindingsLive'
    BY DEF EditInv, RefsBound, BindingsLive, Live, BoundTo, rows
  <1> QED
    BY <1>1, <1>2, <1>3 DEF EditInv

\* A transaction's request is over.
LEMMA EndStep ==
  ASSUME EditInv, NEW r \in Request, End(r)
  PROVE  req' \in [Request -> RequestState] /\ HandlerInv'
  BY IdleOK, RequestStep DEF End

-----------------------------------------------------------------------------
(* Reads.                                                                  *)

LEMMA UpdateMemoInv ==
  ASSUME EditInv, NEW r \in Request, NEW m \in Memo, NEW mask \in SUBSET Field,
         NEW t \in Text, NEW want \in SUBSET Attachment, UpdateMemo(r, m, mask, t, want)
  PROVE  EditInv'
  <1> DEFINE q == [Idle EXCEPT !.phase = IF mask = {"location"} THEN "update" ELSE "list",
                    !.memo = m, !.mask = mask, !.want = want, !.seen = memo[m].text,
                    !.text = IF "content" \in mask THEN t ELSE memo[m].text,
                    !.tags = IF "content" \in mask THEN t ELSE memo[m].tags]
  <1>1. memo[m] \in MemoRow
    BY RowsTyped DEF UpdateMemo, EditInv
  <1>2. q \in RequestState
    BY <1>1 DEF RequestState, Idle, MemoRow
  <1>3. HandlerOK(q)
    BY <1>1, MarkerAssumption DEF HandlerOK, Idle, Editing, MemoRow
  <1>4. req' = [req EXCEPT ![r] = q] /\ UNCHANGED rows
    BY DEF UpdateMemo
  <1> QED
    BY <1>2, <1>3, <1>4, ReadStep

LEMMA CreateMemoInv ==
  ASSUME EditInv, NEW r \in Request, NEW m \in Memo, NEW t \in Text,
         NEW want \in SUBSET Attachment, CreateMemo(r, m, t, want)
  PROVE  EditInv'
  <1> DEFINE q == [Idle EXCEPT !.phase = "resolve", !.memo = m, !.text = t,
                    !.mask = {"content", "attachments"}, !.want = want, !.tags = t]
  <1>1. q \in RequestState
    BY DEF RequestState, Idle, Field
  <1>2. HandlerOK(q)
    BY DEF HandlerOK, Idle, Editing
  <1>3. req' = [req EXCEPT ![r] = q] /\ UNCHANGED rows
    BY DEF CreateMemo
  <1> QED
    BY <1>1, <1>2, <1>3, ReadStep

LEMMA ListCurrentInv ==
  ASSUME EditInv, NEW r \in Request, ListCurrent(r)
  PROVE  EditInv'
  <1> DEFINE q == [req[r] EXCEPT !.current = BoundTo(req[r].memo),
                     !.phase = IF "attachments" \in req[r].mask THEN "resolve" ELSE "apply"]
  <1>1. req[r] \in RequestState /\ HandlerOK(req[r]) /\ req[r].phase = "list"
    BY DEF EditInv, EditTypeOK, HandlerInv, ListCurrent, At
  <1>2. q \in RequestState
    BY <1>1 DEF RequestState, BoundTo
  <1>3. HandlerOK(q)
    BY <1>1 DEF HandlerOK, Editing, RequestState
  <1>4. req' = [req EXCEPT ![r] = q] /\ UNCHANGED rows
    BY <1>1 DEF ListCurrent, EditInv, EditTypeOK, RequestState
  <1> QED
    BY <1>2, <1>3, <1>4, ReadStep

LEMMA ResolveRequestedInv ==
  ASSUME EditInv, NEW r \in Request, ResolveRequested(r)
  PROVE  EditInv'
  <1> DEFINE q == [req[r] EXCEPT !.phase = "apply"]
  <1>1. req[r] \in RequestState /\ HandlerOK(req[r]) /\ req[r].phase = "resolve"
    BY DEF EditInv, EditTypeOK, HandlerInv, ResolveRequested, At
  <1>2. q \in RequestState
    BY <1>1 DEF RequestState
  <1>3. HandlerOK(q)
    BY <1>1 DEF HandlerOK, Editing, RequestState
  <1>4. req' = [req EXCEPT ![r] = q] /\ UNCHANGED rows
    BY <1>1 DEF ResolveRequested
  <1> QED
    BY <1>2, <1>3, <1>4, ReadStep

LEMMA DeleteAttachmentsInv ==
  ASSUME EditInv, NEW r \in Request, NEW targets \in SUBSET Attachment,
         DeleteAttachments(r, targets)
  PROVE  EditInv'
  <1> DEFINE q == [Idle EXCEPT !.phase = "read", !.want = targets]
  <1>1. q \in RequestState /\ HandlerOK(q)
    BY DEF RequestState, Idle, HandlerOK, Editing
  <1>2. req' = [req EXCEPT ![r] = q] /\ UNCHANGED rows
    BY DEF DeleteAttachments
  <1> QED
    BY <1>1, <1>2, ReadStep

LEMMA ReadTargetInv ==
  ASSUME EditInv, NEW r \in Request, NEW a \in Attachment, ReadTarget(r, a)
  PROVE  EditInv'
  <1> DEFINE q == [req[r] EXCEPT !.at = [req[r].at EXCEPT ![a] = bound[a]]]
  <1>1. req[r] \in RequestState /\ HandlerOK(req[r]) /\ req[r].phase = "read"
    BY DEF EditInv, EditTypeOK, HandlerInv, ReadTarget, At
  <1>2. bound[a] \in Memo \cup {Unlinked}
    BY RowsTyped DEF ReadTarget, EditInv
  <1>3. q \in RequestState
    BY <1>1, <1>2 DEF RequestState
  <1>4. HandlerOK(q)
    BY <1>1 DEF HandlerOK, Editing, RequestState
  <1>5. req' = [req EXCEPT ![r] = q] /\ UNCHANGED rows
    BY <1>1 DEF ReadTarget
  <1> QED
    BY <1>3, <1>4, <1>5, ReadStep

\* The preflight records a content only if it refers to none of the targets.
LEMMA ReadMemoOfTargetInv ==
  ASSUME EditInv, NEW r \in Request, NEW m \in Memo, ReadMemoOfTarget(r, m)
  PROVE  EditInv'
  <1> DEFINE q == [req[r] EXCEPT !.expect = [req[r].expect EXCEPT ![m] = memo[m].text]]
  <1>1. req[r] \in RequestState /\ HandlerOK(req[r]) /\ req[r].phase = "read"
    BY DEF EditInv, EditTypeOK, HandlerInv, ReadMemoOfTarget, At
  <1>2. memo[m].text \in Text
    BY RowsTyped DEF ReadMemoOfTarget, EditInv, MemoRow
  <1>3. q \in RequestState
    BY <1>1, <1>2 DEF RequestState
  <1>4. Refs[memo[m].text] \cap req[r].want = {}
    BY DEF ReadMemoOfTarget
  <1>5. HandlerOK(q)
    BY <1>1, <1>4 DEF HandlerOK, Editing, RequestState
  <1>6. req' = [req EXCEPT ![r] = q] /\ UNCHANGED rows
    BY <1>1 DEF ReadMemoOfTarget
  <1> QED
    BY <1>3, <1>5, <1>6, ReadStep

LEMMA FailInv ==
  ASSUME EditInv, NEW r \in Request, Fail(r)
  PROVE  EditInv'
  BY IdleOK, ReadStep DEF Fail, End

-----------------------------------------------------------------------------
(* Transactions.                                                           *)

\* Rebinding touches the attachments of its own memo and free ones, and leaves
\* every reference of the new content bound.
LEMMA RebindFacts ==
  ASSUME EditInv, NEW q \in RequestState, q.memo \in Memo, q.text \in Text, Rebind(q)
  PROVE  /\ bound' \in [Attachment -> Memo \cup {Unlinked, Unborn, Deleted}]
         /\ \A a \in Attachment : bound[a] \in Memo \ {q.memo} => bound'[a] = bound[a]
         /\ \A a \in Attachment : bound'[a] \in Memo => bound'[a] \in {bound[a], q.memo}
         /\ \A a \in Attachment : bound[a] = q.memo => bound'[a] \in {q.memo, Deleted}
         /\ Refs[q.text] \subseteq {a \in Attachment : bound'[a] = q.memo}
  <1>1. bound \in [Attachment -> Memo \cup {Unlinked, Unborn, Deleted}]
    BY DEF EditInv, EditTypeOK
  <1>2. \A a \in Removed(q) : bound[a] = q.memo
    BY DEF Rebind
  <1>3. \A a \in q.want : bound[a] \in {q.memo, Unlinked}
    BY DEF Rebind, BindingHolds
  <1>4. bound' = [a \in Attachment |-> IF a \in q.want THEN q.memo
                                       ELSE IF a \in Removed(q) THEN Deleted ELSE bound[a]]
    BY DEF Rebind
  <1>5. \A a \in Refs[q.text] : a \in Attachment /\ bound'[a] = q.memo
    BY RefsAssumption DEF Rebind
  <1> QED
    BY <1>1, <1>2, <1>3, <1>4, <1>5, MarkerAssumption

\* Both forms of ApplyMemoMutation: write a row for the memo, then the bindings.
LEMMA MutationInv ==
  ASSUME EditInv, NEW r \in Request, At(r, "apply"),
         Live(req[r].memo) \/ req[r].seen = NotRead,
         Rebind(req[r]), WriteMemo(req[r]), End(r)
  PROVE  EditInv'
  <1> DEFINE q == req[r]
             m == req[r].memo
  <1>1. q \in RequestState /\ HandlerOK(q) /\ q.phase = "apply"
    BY DEF EditInv, EditTypeOK, HandlerInv, At
  <1>2. m \in Memo /\ q.text \in Text /\ q.tags \in Text
    BY <1>1 DEF HandlerOK, Editing
  <1> DEFINE written == [text |-> q.text,
                         tags |-> IF q.mask \cap {"content", "location"} # {}
                                    THEN q.tags ELSE memo[m].tags]
  <1>3. written \in MemoRow
    <2>1. CASE Live(m)
      BY <2>1, <1>2, RowsTyped DEF MemoRow, EditInv
    <2>2. CASE q.seen = NotRead
      BY <2>2, <1>1, <1>2 DEF HandlerOK, Editing, MemoRow
    <2> QED
      BY <2>1, <2>2
  <1>4. memo' = [memo EXCEPT ![m] = written]
    BY DEF WriteMemo
  <1>5. memo \in [Memo -> MemoRow \cup {Unborn, Deleted}]
    BY DEF EditInv, EditTypeOK
  <1> HIDE DEF written
  <1>6. memo' \in [Memo -> MemoRow \cup {Unborn, Deleted}]
    BY <1>2, <1>3, <1>4, <1>5
  <1>7. memo'[m] = written /\ \A o \in Memo \ {m} : memo'[o] = memo[o]
    BY <1>2, <1>4, <1>5
  <1>8. written.text = q.text /\ written \notin {Unborn, Deleted}
    BY <1>3, MarkerAssumption DEF written, MemoRow
  <1>9. /\ bound' \in [Attachment -> Memo \cup {Unlinked, Unborn, Deleted}]
        /\ \A a \in Attachment : bound[a] \in Memo \ {m} => bound'[a] = bound[a]
        /\ \A a \in Attachment : bound'[a] \in Memo => bound'[a] \in {bound[a], m}
        /\ Refs[q.text] \subseteq {a \in Attachment : bound'[a] = m}
    BY <1>1, <1>2, RebindFacts
  <1>10. req' \in [Request -> RequestState] /\ HandlerInv'
    BY EndStep
  <1>11. EditTypeOK'
    BY <1>6, <1>9, <1>10 DEF EditTypeOK
  <1>12. RefsBound'
    <2> SUFFICES ASSUME NEW o \in Memo, Live(o)'
                 PROVE  Refs[memo'[o].text] \subseteq {a \in Attachment : bound'[a] = o}
      BY DEF RefsBound, BoundTo
    <2>1. CASE o = m
      BY <2>1, <1>7, <1>8, <1>9
    <2>2. CASE o # m
      <3>1. memo'[o] = memo[o] /\ Live(o)
        BY <2>2, <1>7 DEF Live
      <3>2. Refs[memo[o].text] \subseteq {a \in Attachment : bound[a] = o}
        BY <3>1 DEF EditInv, RefsBound, BoundTo
      <3> QED
        BY <2>2, <3>1, <3>2, <1>9
    <2> QED
      BY <2>1, <2>2
  <1>13. BindingsLive'
    <2> SUFFICES ASSUME NEW a \in Attachment, bound'[a] \in Memo
                 PROVE  memo'[bound'[a]] \notin {Unborn, Deleted}
      BY DEF BindingsLive, Live
    <2>1. CASE bound'[a] = m
      BY <2>1, <1>7, <1>8
    <2>2. CASE bound'[a] # m
      BY <2>2, <1>7, <1>9 DEF EditInv, BindingsLive, Live
    <2> QED
      BY <2>1, <2>2
  <1> QED
    BY <1>10, <1>11, <1>12, <1>13 DEF EditInv

\* The payload alone: no content and no binding changes.
LEMMA UpdatePayloadInv ==
  ASSUME EditInv, NEW r \in Request, UpdatePayload(r)
  PROVE  EditInv'
  <1> DEFINE q == req[r]
  <1>1. HandlerOK(q) /\ q.phase = "update"
    BY DEF EditInv, HandlerInv, UpdatePayload, At
  <1>2. q.memo \in Memo /\ q.tags \in Text
    BY <1>1 DEF HandlerOK, Editing
  <1>3. memo[q.memo] \in MemoRow
    BY <1>2, RowsTyped DEF UpdatePayload, EditInv
  <1> DEFINE written == [memo[q.memo] EXCEPT !.tags = q.tags]
  <1>4. written \in MemoRow /\ written.text = memo[q.memo].text
    BY <1>2, <1>3 DEF MemoRow
  <1>5. memo' = [memo EXCEPT ![q.memo] = written] /\ bound' = bound
    BY DEF UpdatePayload
  <1> HIDE DEF written
  <1>6. memo' \in [Memo -> MemoRow \cup {Unborn, Deleted}]
    BY <1>2, <1>4, <1>5 DEF EditInv, EditTypeOK
  <1>7. \A m \in Memo : /\ Live(m)' <=> Live(m)
                        /\ Live(m) => memo'[m].text = memo[m].text
    BY <1>2, <1>3, <1>4, <1>5, MarkerAssumption DEF EditInv, EditTypeOK, Live, MemoRow
  <1>8. req' \in [Request -> RequestState] /\ HandlerInv'
    BY EndStep DEF UpdatePayload
  <1>9. EditTypeOK'
    BY <1>5, <1>6, <1>8 DEF EditInv, EditTypeOK
  <1>10. RefsBound' /\ BindingsLive'
    BY <1>5, <1>7 DEF EditInv, EditTypeOK, RefsBound, BindingsLive, BoundTo
  <1> QED
    BY <1>8, <1>9, <1>10 DEF EditInv

LEMMA CreateAttachmentInv ==
  ASSUME EditInv, NEW a \in Attachment, NEW m \in Memo \cup {Unlinked}, CreateAttachment(a, m)
  PROVE  EditInv'
  <1>1. EditTypeOK' /\ HandlerInv'
    BY DEF CreateAttachment, EditInv, EditTypeOK, HandlerInv, HandlerOK
  <1>2. RefsBound'
    BY MarkerAssumption
    DEF CreateAttachment, EditInv, EditTypeOK, RefsBound, BoundTo, Live
  <1>3. BindingsLive'
    BY MarkerAssumption DEF CreateAttachment, EditInv, EditTypeOK, BindingsLive, Live
  <1> QED
    BY <1>1, <1>2, <1>3 DEF EditInv

\* A target that a memo refers to is bound to that memo, so the memo's content was
\* compared with one that refers to no target.
LEMMA DeleteAttachmentsWithPolicyInv ==
  ASSUME EditInv, NEW r \in Request, DeleteAttachmentsWithPolicy(r)
  PROVE  EditInv'
  <1> DEFINE q == req[r]
  <1>1. HandlerOK(q) /\ q \in RequestState
    BY DEF EditInv, EditTypeOK, HandlerInv
  <1>2. /\ bound' = [a \in Attachment |-> IF a \in q.want THEN Deleted ELSE bound[a]]
        /\ memo' = memo
    BY DEF DeleteAttachmentsWithPolicy
  <1>3. req' \in [Request -> RequestState] /\ HandlerInv'
    BY EndStep DEF DeleteAttachmentsWithPolicy
  <1>4. EditTypeOK'
    BY <1>2, <1>3 DEF EditInv, EditTypeOK
  <1>5. BindingsLive'
    BY <1>2, MarkerAssumption DEF EditInv, EditTypeOK, BindingsLive, Live
  <1>6. ASSUME NEW m \in Memo, Live(m)
        PROVE  Refs[memo[m].text] \cap q.want = {}
    <2> SUFFICES ASSUME NEW a \in Refs[memo[m].text] \cap q.want
                 PROVE  FALSE
      OBVIOUS
    <2>1. bound[a] = m
      BY <1>6 DEF EditInv, RefsBound, BoundTo
    <2>2. m \in {bound[b] : b \in q.want} \ {Unlinked}
      BY <2>1, MarkerAssumption
    <2>3. q.expect[m] # NotRead /\ memo[m].text = q.expect[m]
      BY <2>2 DEF DeleteAttachmentsWithPolicy, SnapshotsMatch
    <2> QED
      BY <1>1, <2>3 DEF HandlerOK
  <1>7. RefsBound'
    BY <1>2, <1>6 DEF EditInv, RefsBound, BoundTo, Live
  <1> QED
    BY <1>3, <1>4, <1>5, <1>7 DEF EditInv

LEMMA DeleteMemoInv ==
  ASSUME EditInv, NEW m \in Memo, DeleteMemo(m)
  PROVE  EditInv'
  <1>1. EditTypeOK' /\ HandlerInv'
    BY DEF DeleteMemo, EditInv, EditTypeOK, HandlerInv, HandlerOK
  <1>2. RefsBound'
    BY MarkerAssumption DEF DeleteMemo, EditInv, EditTypeOK, RefsBound, BoundTo, Live
  <1>3. BindingsLive'
    BY MarkerAssumption DEF DeleteMemo, EditInv, EditTypeOK, BindingsLive, Live
  <1> QED
    BY <1>1, <1>2, <1>3 DEF EditInv

-----------------------------------------------------------------------------
(* The theorems.                                                           *)

LEMMA EditInitInv == EditInit => EditInv
  <1> SUFFICES ASSUME EditInit PROVE EditInv
    OBVIOUS
  <1>1. EditTypeOK
    BY IdleOK DEF EditInit, EditTypeOK
  <1>2. HandlerInv
    BY IdleOK DEF EditInit, HandlerInv
  <1>3. RefsBound /\ BindingsLive
    BY MarkerAssumption DEF EditInit, RefsBound, BindingsLive, Live
  <1> QED
    BY <1>1, <1>2, <1>3 DEF EditInv

LEMMA EditStepInv == EditInv /\ [EditNext]_editVars => EditInv'
  <1> SUFFICES ASSUME EditInv, [EditNext]_editVars PROVE EditInv'
    OBVIOUS
  <1>1. ASSUME NEW r \in Request, MutateMemo(r) PROVE EditInv'
    <2>1. ASSUME NEW m \in Memo, NEW mask \in SUBSET Field, NEW t \in Text,
                 NEW want \in SUBSET Attachment,
                 UpdateMemo(r, m, mask, t, want) \/ CreateMemo(r, m, t, want)
          PROVE  EditInv'
      BY <2>1, UpdateMemoInv, CreateMemoInv
    <2>2. ASSUME ApplyMemoMutation(r) PROVE EditInv'
      BY <2>2, MutationInv DEF ApplyMemoMutation, ContentUnchanged
    <2>3. ASSUME InsertMemo(r) PROVE EditInv'
      BY <2>3, MutationInv DEF InsertMemo
    <2> QED
      BY <1>1, <2>1, <2>2, <2>3, ListCurrentInv, ResolveRequestedInv, UpdatePayloadInv
      DEF MutateMemo
  <1>2. ASSUME NEW r \in Request, MutateAttachments(r) PROVE EditInv'
    BY <1>2, DeleteAttachmentsInv, ReadTargetInv, ReadMemoOfTargetInv,
       DeleteAttachmentsWithPolicyInv DEF MutateAttachments
  <1>3. CASE UNCHANGED editVars
    BY <1>3 DEF editVars, EditInv, EditTypeOK, HandlerInv, HandlerOK, RefsBound, BindingsLive,
                Live, BoundTo
  <1> QED
    BY <1>1, <1>2, <1>3, FailInv, CreateAttachmentInv, DeleteMemoInv DEF EditNext

\* The invariant holds throughout.
LEMMA EditInvariant == EditSpec => []EditInv
  BY EditInitInv, EditStepInv, PTL DEF EditSpec

\* Rows and handler states keep their types, for any instance.
THEOREM EditTypeCorrect == EditSpec => []EditTypeOK
  <1>1. EditInv => EditTypeOK
    BY DEF EditInv
  <1> QED
    BY <1>1, EditInvariant, PTL

\* Every managed image of a memo stays bound to it, for any number of
\* concurrent edits, uploads and deletions.
THEOREM ReferencesStayBound == EditSpec => []RefsBound
  <1>1. EditInv => RefsBound
    BY DEF EditInv
  <1> QED
    BY <1>1, EditInvariant, PTL

\* No attachment is left bound to a deleted memo.
THEOREM BindingsStayLive == EditSpec => []BindingsLive
  <1>1. EditInv => BindingsLive
    BY DEF EditInv
  <1> QED
    BY <1>1, EditInvariant, PTL

\* An attachment once bound is never taken over by another memo.
THEOREM BindingsAreFinal == EditSpec => AttachmentNotStolen
  <1> DEFINE Kept == \A a \in Attachment : bound[a] \in Memo => bound'[a] \in {bound[a], Deleted}
  <1>1. EditInv /\ [EditNext]_editVars => [Kept]_editVars
    <2> SUFFICES ASSUME EditInv, EditNext PROVE Kept
      OBVIOUS
    <2>1. ASSUME NEW r \in Request, At(r, "apply"), Rebind(req[r]) PROVE Kept
      <3>1. /\ req[r] \in RequestState
            /\ req[r].memo \in Memo
            /\ req[r].text \in Text
        BY <2>1 DEF EditInv, EditTypeOK, HandlerInv, HandlerOK, At, Editing
      <3>2. /\ \A a \in Attachment : bound[a] \in Memo \ {req[r].memo} => bound'[a] = bound[a]
            /\ \A a \in Attachment : bound[a] = req[r].memo => bound'[a] \in {req[r].memo, Deleted}
        BY <2>1, <3>1, RebindFacts
      <3> QED
        BY <3>2
    <2>2. ASSUME NEW r \in Request, MutateMemo(r) PROVE Kept
      BY <2>1, <2>2 DEF MutateMemo, UpdateMemo, CreateMemo, ListCurrent, ResolveRequested,
         ApplyMemoMutation, InsertMemo, UpdatePayload, rows
    <2>3. ASSUME NEW r \in Request, MutateAttachments(r) \/ Fail(r) PROVE Kept
      BY <2>3 DEF MutateAttachments, DeleteAttachments, ReadTarget, ReadMemoOfTarget,
         DeleteAttachmentsWithPolicy, Fail, rows
    <2>4. ASSUME NEW a \in Attachment, NEW m \in Memo \cup {Unlinked}, CreateAttachment(a, m)
          PROVE  Kept
      BY <2>4, MarkerAssumption DEF CreateAttachment, EditInv, EditTypeOK
    <2>5. ASSUME NEW m \in Memo, DeleteMemo(m) PROVE Kept
      BY <2>5 DEF DeleteMemo
    <2> QED
      BY <2>2, <2>3, <2>4, <2>5 DEF EditNext
  <1> QED
    BY <1>1, EditInvariant, PTL DEF EditSpec, AttachmentNotStolen

-----------------------------------------------------------------------------
(* Attachment storage keeps the bytes of every row and no others.          *)

Phase == {"new", "chosen", "saved", "failed", "compensating", "done"}
UploadState == [phase : Phase, uid : Uid \cup {Plain}, path : Path \cup {NoFile}]

FileTyped ==
  /\ up \in [Upload -> UploadState]
  /\ row \subseteq Upload /\ cleanup \subseteq Upload
  /\ disk \in [Path -> Upload \cup {NoFile}]

\* The path of an upload carries its uuid, and bytes are where their upload
\* put them.
OwnPath == \A r \in Upload : up[r].phase # "new" => up[r].path \in Path /\ up[r].path.uuid = r
OwnBytes ==
  \A p \in Path : disk[p] # NoFile => up[disk[p]].phase # "new" /\ up[disk[p]].path = p

\* An upload has no row before it inserts one, nor once it compensates; a row is
\* deleted once.
RowsInOrder ==
  /\ \A r \in Upload : up[r].phase \in {"new", "chosen", "saved"} => r \notin row \cup cleanup
  /\ \A r \in Upload : up[r].phase = "compensating" => r \notin row
  /\ row \cap cleanup = {}

SavedBytes == \A r \in Upload : up[r].phase = "saved" => disk[up[r].path] = r

\* Without a fault somebody is in charge of all bytes: their row, a deletion or
\* the upload itself.
InCharge(r) == r \in row \cup cleanup \/ up[r].phase \in {"saved", "failed", "compensating"}
Accounted == ~ fault => \A p \in Path : disk[p] # NoFile => InCharge(disk[p])

\* The inductive invariant.
FileInv == FileTyped /\ OwnPath /\ OwnBytes /\ RowsInOrder /\ SavedBytes /\ RowKeepsBytes /\ Accounted

-----------------------------------------------------------------------------
\* The path of a new upload is one of its own, suffixed or not.
LEMMA PathIsOwn ==
  ASSUME UniqueTemplate, NEW r \in Upload, NEW uid \in Uid, NEW file \in File, NEW kind \in Kind
  PROVE  LET p == TemplatePath(r, kind, file)
             q == IF kind = "LOCAL" THEN UniqueLocalPath(p, uid) ELSE p
         IN  q \in Path /\ q.uuid = r
<1> DEFINE p == TemplatePath(r, kind, file)
<1>1. p \in Path /\ p.uuid = r BY DEF TemplatePath, Path
<1> HIDE DEF p
<1>2. [p EXCEPT !.uid = uid] \in Path /\ [p EXCEPT !.uid = uid].uuid = r BY <1>1 DEF Path
<1>3. UniqueLocalPath(p, uid) \in Path /\ UniqueLocalPath(p, uid).uuid = r
  BY <1>1, <1>2 DEF UniqueLocalPath
<1> QED BY <1>1, <1>3 DEF p

\* What a change of phase does to the uploads.
LEMMA PhaseChange ==
  ASSUME FileTyped, NEW r \in Upload, NEW to \in Phase, up' = [up EXCEPT ![r].phase = to]
  PROVE  /\ up' \in [Upload -> UploadState]
         /\ \A o \in Upload : /\ up'[o].path = up[o].path /\ up'[o].uid = up[o].uid
                              /\ up'[o].phase = IF o = r THEN to ELSE up[o].phase
BY DEF FileTyped, UploadState

LEMMA ChoosePathStep ==
  ASSUME UniqueTemplate, FileInv, NEW r \in Upload, NEW uid \in Uid, NEW file \in File, NEW kind \in Kind,
         ChoosePath(r, uid, file, kind)
  PROVE  FileInv'
<1> DEFINE p == TemplatePath(r, kind, file)
           q == IF kind = "LOCAL" THEN UniqueLocalPath(p, uid) ELSE p
           x == [phase |-> "chosen", uid |-> uid, path |-> q]
<1>1. q \in Path /\ q.uuid = r BY PathIsOwn
<1>2. up[r].phase = "new" /\ up' = [up EXCEPT ![r] = x] /\ UNCHANGED <<row, disk, cleanup, fault>>
  BY DEF ChoosePath
<1> HIDE DEF q
<1>3. x \in UploadState /\ x.phase = "chosen" /\ x.path = q BY <1>1 DEF UploadState, Phase
<1> HIDE DEF x
<1> USE DEF FileInv
<1>4. FileTyped' BY <1>2, <1>3 DEF FileTyped
<1>5. \A o \in Upload : up'[o] = IF o = r THEN x ELSE up[o] BY <1>2 DEF FileTyped
<1>6. OwnPath' BY <1>1, <1>3, <1>5 DEF OwnPath
<1>7. OwnBytes' BY <1>2, <1>5 DEF OwnBytes, FileTyped
<1>8. RowsInOrder' BY <1>2, <1>3, <1>5 DEF RowsInOrder, FileTyped
<1>9. SavedBytes' /\ RowKeepsBytes' BY <1>2, <1>3, <1>5 DEF SavedBytes, RowKeepsBytes, RowsInOrder, FileTyped
<1>10. Accounted' BY <1>2, <1>5 DEF Accounted, InCharge, FileTyped
<1> QED BY <1>4, <1>6, <1>7, <1>8, <1>9, <1>10

\* Other uploads have other paths.
LEMMA PathsDiffer ==
  ASSUME FileInv, NEW r \in Upload, up[r].phase # "new"
  PROVE  up[r].path \in Path /\ \A o \in Upload \ {r} : up[o].phase # "new" => up[o].path # up[r].path
BY DEF FileInv, OwnPath

-----------------------------------------------------------------------------
(* Uploads.                                                                *)

LEMMA SaveBlobStep ==
  ASSUME FileInv, NEW r \in Upload, SaveBlob(r)
  PROVE  FileInv'
<1> USE DEF FileInv
<1>1. /\ up[r].phase = "chosen" /\ up' = [up EXCEPT ![r].phase = "saved"]
      /\ disk' = [disk EXCEPT ![up[r].path] = r] /\ UNCHANGED <<row, cleanup, fault>>
  BY DEF SaveBlob, Step
<1>2. /\ up' \in [Upload -> UploadState]
      /\ \A o \in Upload : /\ up'[o].path = up[o].path
                           /\ up'[o].phase = IF o = r THEN "saved" ELSE up[o].phase
  BY <1>1, PhaseChange DEF Phase
<1>3. up[r].path \in Path /\ \A o \in Upload \ {r} : up[o].phase # "new" => up[o].path # up[r].path
  BY <1>1, PathsDiffer
<1>4. FileTyped' BY <1>1, <1>2, <1>3 DEF FileTyped
<1>5. OwnPath' BY <1>1, <1>2 DEF OwnPath
<1>6. OwnBytes' BY <1>1, <1>2, <1>3 DEF OwnBytes, FileTyped
<1>7. RowsInOrder' BY <1>1, <1>2 DEF RowsInOrder
<1>8. SavedBytes' BY <1>1, <1>2, <1>3 DEF SavedBytes, FileTyped, OwnPath
<1>9. RowKeepsBytes' BY <1>1, <1>2, <1>3 DEF RowKeepsBytes, FileTyped, RowsInOrder, OwnPath
<1>10. Accounted' BY <1>1, <1>2, <1>3 DEF Accounted, InCharge, FileTyped
<1> QED BY <1>4, <1>5, <1>6, <1>7, <1>8, <1>9, <1>10

LEMMA SaveBlobFailsStep ==
  ASSUME FileInv, NEW r \in Upload, SaveBlobFails(r)
  PROVE  FileInv'
<1> USE DEF FileInv
<1>1. /\ up[r].phase = "chosen" /\ up' = [up EXCEPT ![r].phase = "done"]
      /\ disk' = disk \/ disk' = [disk EXCEPT ![up[r].path] = r]
      /\ fault' = TRUE /\ UNCHANGED <<row, cleanup>>
  BY DEF SaveBlobFails, Step
<1>2. /\ up' \in [Upload -> UploadState]
      /\ \A o \in Upload : /\ up'[o].path = up[o].path
                           /\ up'[o].phase = IF o = r THEN "done" ELSE up[o].phase
  BY <1>1, PhaseChange DEF Phase
<1>3. up[r].path \in Path /\ \A o \in Upload \ {r} : up[o].phase # "new" => up[o].path # up[r].path
  BY <1>1, PathsDiffer
<1>4. FileTyped' BY <1>1, <1>2, <1>3 DEF FileTyped
<1>5. OwnPath' BY <1>1, <1>2 DEF OwnPath
<1>6. OwnBytes' BY <1>1, <1>2, <1>3 DEF OwnBytes, FileTyped
<1>7. RowsInOrder' BY <1>1, <1>2 DEF RowsInOrder
<1>8. SavedBytes' BY <1>1, <1>2, <1>3 DEF SavedBytes, FileTyped, OwnPath
<1>9. RowKeepsBytes' BY <1>1, <1>2, <1>3 DEF RowKeepsBytes, FileTyped, RowsInOrder, OwnPath
<1>10. Accounted' BY <1>1 DEF Accounted
<1> QED BY <1>4, <1>5, <1>6, <1>7, <1>8, <1>9, <1>10

\* The row is committed, whatever the answer says.
LEMMA InsertRowStep ==
  ASSUME FileInv, NEW r \in Upload, InsertRow(r)
  PROVE  FileInv'
<1> USE DEF FileInv
<1>1. PICK to \in {"done", "failed"} : up[r].phase = "saved" /\ up' = [up EXCEPT ![r].phase = to]
  BY DEF InsertRow, Step
<1>2. row' = row \cup {r} /\ UNCHANGED <<disk, cleanup, fault>> BY DEF InsertRow
<1>3. /\ up' \in [Upload -> UploadState]
      /\ \A o \in Upload : /\ up'[o].path = up[o].path
                           /\ up'[o].phase = IF o = r THEN to ELSE up[o].phase
  <2>1. to \in Phase BY DEF Phase
  <2> QED BY <1>1, <2>1, PhaseChange
<1>4. FileTyped' BY <1>2, <1>3 DEF FileTyped
<1>5. OwnPath' /\ OwnBytes' BY <1>1, <1>2, <1>3 DEF OwnPath, OwnBytes, FileTyped
<1>6. RowsInOrder' BY <1>1, <1>2, <1>3 DEF RowsInOrder
<1>7. SavedBytes' /\ RowKeepsBytes' BY <1>1, <1>2, <1>3 DEF SavedBytes, RowKeepsBytes, FileTyped
<1>8. Accounted' BY <1>2, <1>3 DEF Accounted, InCharge, FileTyped
<1> QED BY <1>4, <1>5, <1>6, <1>7, <1>8

LEMMA InsertRowFailsStep ==
  ASSUME FileInv, NEW r \in Upload, InsertRowFails(r)
  PROVE  FileInv'
<1> USE DEF FileInv
<1>1. /\ up[r].phase = "saved" /\ up' = [up EXCEPT ![r].phase = "failed"]
      /\ UNCHANGED <<row, disk, cleanup, fault>>
  BY DEF InsertRowFails, Step
<1>2. /\ up' \in [Upload -> UploadState]
      /\ \A o \in Upload : /\ up'[o].path = up[o].path
                           /\ up'[o].phase = IF o = r THEN "failed" ELSE up[o].phase
  BY <1>1, PhaseChange DEF Phase
<1>3. FileTyped' BY <1>1, <1>2 DEF FileTyped
<1>4. OwnPath' /\ OwnBytes' BY <1>1, <1>2 DEF OwnPath, OwnBytes, FileTyped
<1>5. RowsInOrder' BY <1>1, <1>2 DEF RowsInOrder
<1>6. SavedBytes' /\ RowKeepsBytes' BY <1>1, <1>2 DEF SavedBytes, RowKeepsBytes, FileTyped
<1>7. Accounted' BY <1>1, <1>2 DEF Accounted, InCharge, FileTyped
<1> QED BY <1>3, <1>4, <1>5, <1>6, <1>7

\* The lookup of the persisted row tells exactly whether this upload's row is
\* there: no other row can have its file.
LEMMA OutcomeKnown ==
  ASSUME FileInv, NEW r \in Upload, up[r].phase = "failed"
  PROVE  SameObject(r) <=> r \in row
<1>1. ASSUME NEW o \in row, up[o].path = up[r].path PROVE o = r
  BY <1>1, PathsDiffer DEF FileInv, FileTyped, RowsInOrder
<1> QED BY <1>1 DEF SameObject, SameUid

LEMMA VerifyOutcomeStep ==
  ASSUME FileInv, NEW r \in Upload, VerifyOutcome(r)
  PROVE  FileInv'
<1> USE DEF FileInv
<1>1. PICK to \in {"done", "compensating"} :
        /\ up[r].phase = "failed" /\ up' = [up EXCEPT ![r].phase = to]
        /\ to = "done" <=> SameObject(r)
  BY DEF VerifyOutcome, Step
<1>2. UNCHANGED <<row, disk, cleanup, fault>> BY DEF VerifyOutcome
<1>3. to = "done" <=> r \in row BY <1>1, OutcomeKnown
<1>4. /\ up' \in [Upload -> UploadState]
      /\ \A o \in Upload : /\ up'[o].path = up[o].path
                           /\ up'[o].phase = IF o = r THEN to ELSE up[o].phase
  <2>1. to \in Phase BY DEF Phase
  <2> QED BY <1>1, <2>1, PhaseChange
<1>5. FileTyped' BY <1>2, <1>4 DEF FileTyped
<1>6. OwnPath' /\ OwnBytes' BY <1>1, <1>2, <1>4 DEF OwnPath, OwnBytes, FileTyped
<1>7. RowsInOrder' BY <1>2, <1>3, <1>4 DEF RowsInOrder
<1>8. SavedBytes' /\ RowKeepsBytes' BY <1>2, <1>4 DEF SavedBytes, RowKeepsBytes, FileTyped
<1>9. Accounted' BY <1>2, <1>3, <1>4 DEF Accounted, InCharge, FileTyped
<1> QED BY <1>5, <1>6, <1>7, <1>8, <1>9

LEMMA CompensateStep ==
  ASSUME FileInv, NEW r \in Upload, Compensate(r)
  PROVE  FileInv'
<1> USE DEF FileInv
<1>1. /\ up[r].phase = "compensating" /\ up' = [up EXCEPT ![r].phase = "done"]
      /\ disk' = [disk EXCEPT ![up[r].path] = NoFile] /\ UNCHANGED <<row, cleanup, fault>>
  BY DEF Compensate, Step
<1>2. /\ up' \in [Upload -> UploadState]
      /\ \A o \in Upload : /\ up'[o].path = up[o].path
                           /\ up'[o].phase = IF o = r THEN "done" ELSE up[o].phase
  BY <1>1, PhaseChange DEF Phase
<1>3. up[r].path \in Path /\ \A o \in Upload \ {r} : up[o].phase # "new" => up[o].path # up[r].path
  BY <1>1, PathsDiffer
<1>4. FileTyped' BY <1>1, <1>2, <1>3 DEF FileTyped
<1>5. OwnPath' /\ OwnBytes' BY <1>1, <1>2 DEF OwnPath, OwnBytes, FileTyped
<1>6. RowsInOrder' BY <1>1, <1>2 DEF RowsInOrder
<1>7. SavedBytes' BY <1>1, <1>2, <1>3 DEF SavedBytes, FileTyped, OwnPath
<1>8. RowKeepsBytes' BY <1>1, <1>2, <1>3 DEF RowKeepsBytes, FileTyped, RowsInOrder, OwnPath
<1>9. Accounted' BY <1>1, <1>2, <1>3 DEF Accounted, InCharge, FileTyped, OwnBytes
<1> QED BY <1>4, <1>5, <1>6, <1>7, <1>8, <1>9

LEMMA CompensationFailsStep ==
  ASSUME FileInv, NEW r \in Upload, CompensationFails(r)
  PROVE  FileInv'
<1> USE DEF FileInv
<1>1. /\ up[r].phase \in {"failed", "compensating"} /\ up' = [up EXCEPT ![r].phase = "done"]
      /\ fault' = TRUE /\ UNCHANGED <<row, disk, cleanup>>
  BY DEF CompensationFails, Step
<1>2. /\ up' \in [Upload -> UploadState]
      /\ \A o \in Upload : /\ up'[o].path = up[o].path
                           /\ up'[o].phase = IF o = r THEN "done" ELSE up[o].phase
  BY <1>1, PhaseChange DEF Phase
<1>3. FileTyped' BY <1>1, <1>2 DEF FileTyped
<1>4. OwnPath' /\ OwnBytes' BY <1>1, <1>2 DEF OwnPath, OwnBytes, FileTyped
<1>5. RowsInOrder' BY <1>1, <1>2 DEF RowsInOrder
<1>6. SavedBytes' /\ RowKeepsBytes' BY <1>1, <1>2 DEF SavedBytes, RowKeepsBytes, FileTyped
<1>7. Accounted' BY <1>1 DEF Accounted
<1> QED BY <1>3, <1>4, <1>5, <1>6, <1>7

-----------------------------------------------------------------------------
(* Deletions and crashes.                                                  *)

LEMMA DeleteRowStep ==
  ASSUME FileInv, NEW r \in Upload, DeleteRow(r)
  PROVE  FileInv'
<1> USE DEF FileInv, DeleteRow
<1>1. FileTyped' BY DEF FileTyped
<1>2. OwnPath' /\ OwnBytes' BY DEF OwnPath, OwnBytes
<1>3. RowsInOrder' BY DEF RowsInOrder
<1>4. SavedBytes' /\ RowKeepsBytes' BY DEF SavedBytes, RowKeepsBytes
<1>5. Accounted' BY DEF Accounted, InCharge
<1> QED BY <1>1, <1>2, <1>3, <1>4, <1>5

LEMMA CleanStorageStep ==
  ASSUME FileInv, NEW r \in Upload, CleanStorage(r)
  PROVE  FileInv'
<1> USE DEF FileInv
<1>1. /\ r \in cleanup /\ cleanup' = cleanup \ {r}
      /\ disk' = [disk EXCEPT ![up[r].path] = NoFile] /\ UNCHANGED <<up, row, fault>>
  BY DEF CleanStorage
<1>2. up[r].phase \notin {"new", "chosen", "saved"} /\ r \notin row BY <1>1 DEF RowsInOrder
<1>3. up[r].path \in Path /\ \A o \in Upload \ {r} : up[o].phase # "new" => up[o].path # up[r].path
  BY <1>2, PathsDiffer
<1>4. FileTyped' BY <1>1, <1>3 DEF FileTyped
<1>5. OwnPath' /\ OwnBytes' BY <1>1 DEF OwnPath, OwnBytes, FileTyped
<1>6. RowsInOrder' BY <1>1 DEF RowsInOrder
<1>7. SavedBytes' BY <1>1, <1>2, <1>3 DEF SavedBytes, FileTyped, OwnPath
<1>8. RowKeepsBytes' BY <1>1, <1>2, <1>3 DEF RowKeepsBytes, FileTyped, RowsInOrder, OwnPath
<1>9. Accounted' BY <1>1, <1>3 DEF Accounted, InCharge, FileTyped, OwnBytes
<1> QED BY <1>4, <1>5, <1>6, <1>7, <1>8, <1>9

LEMMA CleanStorageFailsStep ==
  ASSUME FileInv, NEW r \in Upload, CleanStorageFails(r)
  PROVE  FileInv'
<1> USE DEF FileInv, CleanStorageFails
<1>1. FileTyped' BY DEF FileTyped
<1>2. OwnPath' /\ OwnBytes' BY DEF OwnPath, OwnBytes
<1>3. RowsInOrder' BY DEF RowsInOrder
<1>4. SavedBytes' /\ RowKeepsBytes' /\ Accounted' BY DEF SavedBytes, RowKeepsBytes, Accounted
<1> QED BY <1>1, <1>2, <1>3, <1>4

LEMMA CrashStep ==
  ASSUME FileInv, Crash
  PROVE  FileInv'
<1> USE DEF FileInv
<1>1. /\ up' \in [Upload -> UploadState]
      /\ \A o \in Upload : /\ up'[o].path = up[o].path
                           /\ up'[o].phase = IF up[o].phase = "new" THEN "new" ELSE "done"
  <2>1. \A x \in UploadState : /\ [x EXCEPT !.phase = "done"] \in UploadState
                               /\ [x EXCEPT !.phase = "done"].path = x.path
                               /\ [x EXCEPT !.phase = "done"].phase = "done"
    BY DEF UploadState, Phase
  <2> QED BY <2>1 DEF Crash, FileTyped
<1>2. cleanup' = {} /\ fault' = TRUE /\ UNCHANGED <<row, disk>> BY DEF Crash
<1>3. FileTyped' BY <1>1, <1>2 DEF FileTyped
<1>4. OwnPath' /\ OwnBytes' BY <1>1, <1>2 DEF OwnPath, OwnBytes, FileTyped
<1>5. RowsInOrder' BY <1>1, <1>2 DEF RowsInOrder
<1>6. SavedBytes' /\ RowKeepsBytes' BY <1>1, <1>2 DEF SavedBytes, RowKeepsBytes, FileTyped
<1>7. Accounted' BY <1>2 DEF Accounted
<1> QED BY <1>3, <1>4, <1>5, <1>6, <1>7

-----------------------------------------------------------------------------
LEMMA FileInitial == FileInit => FileInv
BY DEF FileInit, FileInv, FileTyped, UploadState, Phase, OwnPath, OwnBytes, RowsInOrder, SavedBytes,
       RowKeepsBytes, Accounted

LEMMA FileInductive ==
  ASSUME UniqueTemplate
  PROVE  FileInv /\ [FileNext]_fileVars => FileInv'
<1>1. ASSUME FileInv, UNCHANGED fileVars PROVE FileInv'
  BY <1>1 DEF fileVars, FileInv, FileTyped, OwnPath, OwnBytes, RowsInOrder, SavedBytes,
              RowKeepsBytes, Accounted, InCharge
<1>2. ASSUME FileInv, NEW r \in Upload, UploadNext(r) PROVE FileInv'
  BY <1>2, ChoosePathStep, SaveBlobStep, SaveBlobFailsStep, InsertRowStep, InsertRowFailsStep,
     VerifyOutcomeStep, CompensateStep, CompensationFailsStep DEF UploadNext
<1>3. ASSUME FileInv, NEW r \in Upload, DeleteNext(r) PROVE FileInv'
  BY <1>3, DeleteRowStep, CleanStorageStep, CleanStorageFailsStep DEF DeleteNext
<1> QED BY <1>1, <1>2, <1>3, CrashStep DEF FileNext

\* With {uuid} in the path template every attachment row has its own bytes in
\* storage, whatever other uploads, failed inserts, compensations, deletions and
\* crashes there are.
THEOREM RowsKeepTheirBytes ==
  ASSUME UniqueTemplate
  PROVE  FileSpec => []RowKeepsBytes
<1>1. FileInv => RowKeepsBytes BY DEF FileInv
<1> QED BY FileInitial, FileInductive, <1>1, PTL DEF FileSpec

\* With {uuid} in the path template, and as long as no write, removal or process
\* has failed, uploads and deletions that have ended leave nothing in storage
\* but the bytes of rows.
THEOREM NothingLeftBehind ==
  ASSUME UniqueTemplate
  PROVE  FileSpec => []NoLitter
<1>1. FileInv => NoLitter
  BY DEF FileInv, FileTyped, Accounted, InCharge, OwnBytes, NoLitter
<1> QED BY FileInitial, FileInductive, <1>1, PTL DEF FileSpec
=============================================================================
