--------------------------- MODULE MCLiveRefresh ---------------------------
(* Small instances of live refresh for TLC. *)
EXTENDS LiveRefresh, TLC

Interchangeable == Permutations(Stream) \cup Permutations(Tab) \cup Permutations(Writer)
=============================================================================
