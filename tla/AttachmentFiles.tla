--------------------------- MODULE AttachmentFiles ---------------------------
(***************************************************************************)
(* Attachment rows and the files or objects that hold their bytes.  The    *)
(* bytes are stored outside the database, so an upload and a deletion each *)
(* take several steps that other requests, failures and restarts of the    *)
(* server come between.  Storage in the database itself needs none of      *)
(* this and is left out.                                                   *)
(*                                                                         *)
(* An upload stands for its request, for the identifier of its row and for *)
(* the bytes it sends.                                                     *)
(***************************************************************************)
EXTENDS FiniteSets

CONSTANTS Upload,          \* upload requests
          Uid,             \* attachment UIDs, which the client may choose
          File,            \* file names
          Kind,            \* storage types in use, a subset of LOCAL and S3
          UniqueTemplate,  \* does the file path template contain {uuid}?
          Shared, Plain,   \* a path without an upload's uuid; without a UID suffix
          NoFile

ASSUME StorageAssumption == Kind \subseteq {"LOCAL", "S3"} /\ UniqueTemplate \in BOOLEAN

VARIABLES up,       \* up[r]: the progress of an upload
          row,      \* uploads whose attachment row exists
          disk,     \* disk[p]: the upload whose bytes are stored at path p
          cleanup,  \* deleted rows whose file the handler has still to remove
          fault     \* has the server crashed or a write or removal of a file failed?

fileVars == <<up, row, disk, cleanup, fault>>

Path == [kind : Kind, file : File, uuid : Upload \cup {Shared}, uid : Uid \cup {Plain}]

\* replaceFilenameWithPathTemplate.
TemplatePath(r, kind, file) ==
  [kind |-> kind, file |-> file, uuid |-> IF UniqueTemplate THEN r ELSE Shared, uid |-> Plain]

\* ensureUniqueLocalAttachmentPath: the suffixed path is not looked up again.
UniqueLocalPath(p, uid) == IF disk[p] = NoFile THEN p ELSE [p EXCEPT !.uid = uid]

-----------------------------------------------------------------------------
(* Uploads.                                                                *)

\* CreateAttachment up to the choice of the path.  An S3 key is the template as
\* it is.
ChoosePath(r, uid, file, kind) ==
  LET p == TemplatePath(r, kind, file) IN
  /\ up[r].phase = "new"
  /\ up' = [up EXCEPT ![r] = [phase |-> "chosen", uid |-> uid,
                              path |-> IF kind = "LOCAL" THEN UniqueLocalPath(p, uid) ELSE p]]
  /\ UNCHANGED <<row, disk, cleanup, fault>>

Step(r, from, to) ==
  /\ up[r].phase = from
  /\ up' = [up EXCEPT ![r].phase = to]

\* os.WriteFile or UploadObject.
SaveBlob(r) ==
  /\ Step(r, "chosen", "saved")
  /\ disk' = [disk EXCEPT ![up[r].path] = r]
  /\ UNCHANGED <<row, cleanup, fault>>

\* A failed write is reported and leaves what it wrote.
SaveBlobFails(r) ==
  /\ Step(r, "chosen", "done")
  /\ \/ disk' = disk
     \/ disk' = [disk EXCEPT ![up[r].path] = r]
  /\ fault' = TRUE
  /\ UNCHANGED <<row, cleanup>>

SameUid(r) == {o \in row : up[o].uid = up[r].uid}

\* Store.CreateAttachment: the UID is unique.  The commit may be followed by an
\* error all the same (the connection is lost before the answer).
InsertRow(r) ==
  /\ SameUid(r) = {}
  /\ row' = row \cup {r}
  /\ Step(r, "saved", "done") \/ Step(r, "saved", "failed")
  /\ UNCHANGED <<disk, cleanup, fault>>

\* A duplicate UID, a policy that no longer holds, or a database error.
InsertRowFails(r) ==
  /\ Step(r, "saved", "failed")
  /\ UNCHANGED <<row, disk, cleanup, fault>>

\* (a plausible slip) a failed insert is taken at its word
AssumeNotPersisted(r) == FALSE

\* hasSameManagedStorageObject: the persisted row of that UID has this very file.
SameObject(r) == \E o \in SameUid(r) : up[o].path = up[r].path

\* cleanupSavedAttachmentBlob: first look at what was persisted ...
VerifyOutcome(r) ==
  /\ Step(r, "failed", IF SameObject(r) THEN "done" ELSE "compensating")
  /\ UNCHANGED <<row, disk, cleanup, fault>>

\* (a plausible slip) the handler returns without compensating
ReturnOnly(r) ==
  /\ Step(r, "compensating", "done")
  /\ UNCHANGED <<row, disk, cleanup, fault>>

\* ... then remove the file.
Compensate(r) ==
  /\ Step(r, "compensating", "done")
  /\ disk' = [disk EXCEPT ![up[r].path] = NoFile]
  /\ UNCHANGED <<row, cleanup, fault>>

\* Either step of the compensation fails and is only logged.
CompensationFails(r) ==
  /\ Step(r, "failed", "done") \/ Step(r, "compensating", "done")
  /\ fault' = TRUE
  /\ UNCHANGED <<row, disk, cleanup>>

-----------------------------------------------------------------------------
(* Deletions.                                                              *)

\* DeleteAttachmentsWithPolicy, or the cascade of a memo, Space or user.
DeleteRow(r) ==
  /\ r \in row
  /\ row' = row \ {r}
  /\ cleanup' = cleanup \cup {r}
  /\ UNCHANGED <<up, disk, fault>>

\* cleanupDeletedAttachmentStorage, after the commit, with the row that was read.
CleanStorage(r) ==
  /\ r \in cleanup
  /\ cleanup' = cleanup \ {r}
  /\ disk' = [disk EXCEPT ![up[r].path] = NoFile]
  /\ UNCHANGED <<up, row, fault>>

CleanStorageFails(r) ==
  /\ r \in cleanup
  /\ cleanup' = cleanup \ {r}
  /\ fault' = TRUE
  /\ UNCHANGED <<up, row, disk>>

\* The server stops: handlers are gone, rows and files stay.
Crash ==
  /\ up' = [r \in Upload |-> IF up[r].phase = "new" THEN up[r] ELSE [up[r] EXCEPT !.phase = "done"]]
  /\ cleanup' = {}
  /\ fault' = TRUE
  /\ UNCHANGED <<row, disk>>

-----------------------------------------------------------------------------
FileInit ==
  /\ up = [r \in Upload |-> [phase |-> "new", uid |-> Plain, path |-> NoFile]]
  /\ row = {}
  /\ disk = [p \in Path |-> NoFile]
  /\ cleanup = {}
  /\ fault = FALSE

UploadNext(r) ==
  \/ \E uid \in Uid, file \in File, kind \in Kind : ChoosePath(r, uid, file, kind)
  \/ SaveBlob(r) \/ SaveBlobFails(r)
  \/ InsertRow(r) \/ InsertRowFails(r)
  \/ VerifyOutcome(r) \/ Compensate(r) \/ CompensationFails(r)

DeleteNext(r) == DeleteRow(r) \/ CleanStorage(r) \/ CleanStorageFails(r)

FileNext == Crash \/ \E r \in Upload : UploadNext(r) \/ DeleteNext(r)

FileSpec == FileInit /\ [][FileNext]_fileVars

-----------------------------------------------------------------------------
(* Properties.                                                             *)

\* Every attachment row has its own bytes in storage: no other upload, failed
\* insert, compensation, deletion or crash takes or replaces them.
RowKeepsBytes == \A r \in row : disk[up[r].path] = r

\* When no handler is under way and none has met a fault, storage holds nothing
\* but the bytes of existing rows: failed uploads and deletions leave no litter.
NoLitter ==
  (~ fault /\ cleanup = {} /\ \A r \in Upload : up[r].phase \in {"new", "done"})
    => \A p \in Path : disk[p] # NoFile => disk[p] \in row /\ up[disk[p]].path = p
=============================================================================
