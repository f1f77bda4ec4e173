----------------------------- MODULE MCSpacesPg -----------------------------
(* A small instance of the READ COMMITTED transactions for TLC. *)
EXTENDS SpacesPg, TLC

\* Connections are interchangeable, and so are users and Space slots.
Interchangeable == Permutations(User) \cup Permutations(Space) \cup Permutations(Tx)
=============================================================================
