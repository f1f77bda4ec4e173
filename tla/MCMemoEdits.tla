---------------------------- MODULE MCMemoEdits ----------------------------
(* Small instances of memo edits for TLC: a content without images, and one  *)
(* that shows the attachment a1.                                              *)
EXTENDS MemoEdits, TLC

CONSTANTS plain, withA1, a1

ImageRefs == [t \in Text |-> IF t = withA1 THEN {a1} ELSE {}]

Requests == Permutations(Request)

\* Memos are interchangeable too, when there are several.
Interchangeable == Requests \cup Permutations(Memo)
=============================================================================
