------------------------- MODULE MCAttachmentFiles -------------------------
(* Small instances of attachment storage for TLC. *)
EXTENDS AttachmentFiles, TLC

Interchangeable == Permutations(Upload) \cup Permutations(Uid)
=============================================================================
