------------------------------ MODULE MCMemos ------------------------------
(* A small instance of memos in Spaces for TLC. *)
EXTENDS MemoAccess, TLC

\* Users are interchangeable, and so are the slots of the other tables.
Slots == Permutations(User) \cup Permutations(Space) \cup Permutations(Text)
=============================================================================
