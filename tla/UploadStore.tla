---------------------------- MODULE UploadStore -----------------------------
(***************************************************************************)
(* Uploads of binaries and the hourly cleanup: two kinds of actors that    *)
(* share the `versions` documents and the object storage, with no          *)
(* transaction across the two.                                             *)
(*                                                                         *)
(* An upload checks for a duplicate, inserts its document, saves the file  *)
(* under a key of its own, then marks the document "stored"; the partial   *)
(* unique index (app, version code, format | stored) settles the races.    *)
(* The cleanup abandons old unfinished uploads, then deletes the old files *)
(* that no document references.                                            *)
(***************************************************************************)
EXTENDS FiniteSets, Integers

CONSTANTS
  Uploads,       \* upload requests; each has its own document and key
  Slots,         \* (app, version code, format) combinations
  UploadFaults,  \* {"crash", "exception", "lostAck"} or less
  MaxFailures    \* bound: cleanups that do not run to their end

ASSUME MaxFailuresAssumption == MaxFailures \in Nat
ASSUME UploadFaultsAssumption ==
  UploadFaults \subseteq {"crash", "exception", "lostAck"}

VARIABLES
  slot,        \* what each request uploads
  step,        \* step of the upload handler
  upload,      \* upload_status of its document
  keyed,       \* documents whose storage_key is set
  files,       \* objects in the storage, named by their upload
  oldDocs,     \* created_at is before the cutoff
  oldFiles,    \* last_modified is before the cutoff
  cleaner,     \* step of run_cleanup
  expired,     \* its cursor on the old unfinished uploads
  deleted,     \* of those, the ones whose file it has deleted
  referenced,  \* keys it read from the documents
  listed,      \* old files it listed and has to examine
  failures,    \* history: cleanups that did not run to their end
  givenUp      \* history: uploads a cleanup found too old while they went on

handlerVars == <<step, upload, keyed, files, oldFiles>>
cleanerVars == <<cleaner, expired, deleted, referenced, listed, failures, givenUp>>
uploadVars  == <<slot, oldDocs, handlerVars, cleanerVars>>

HandlerStep == {"check", "insert", "key", "save", "store", "undo", "fail", "done", "dead"}
UploadStatus == {"absent", "uploading", "stored", "failed", "abandoned"}

UploadTypeOK ==
  /\ slot \in [Uploads -> Slots]
  /\ step \in [Uploads -> HandlerStep]
  /\ upload \in [Uploads -> UploadStatus]
  /\ keyed \in SUBSET Uploads
  /\ files \in SUBSET Uploads
  /\ oldDocs \in SUBSET Uploads
  /\ oldFiles \in SUBSET files
  /\ cleaner \in {"idle", "abandon", "list", "sweep"}
  /\ expired \in SUBSET Uploads
  /\ deleted \in SUBSET expired
  /\ referenced \in SUBSET Uploads
  /\ listed \in SUBSET Uploads
  /\ failures \in 0..MaxFailures
  /\ givenUp \in SUBSET Uploads

UploadInit ==
  /\ slot \in [Uploads -> Slots]
  /\ step = [u \in Uploads |-> "check"]
  /\ upload = [u \in Uploads |-> "absent"]
  /\ keyed = {} /\ files = {} /\ oldDocs = {} /\ oldFiles = {}
  /\ cleaner = "idle"
  /\ expired = {} /\ deleted = {} /\ referenced = {} /\ listed = {}
  /\ failures = 0 /\ givenUp = {}

-----------------------------------------------------------------------------
(***************************************************************************)
(* upload_version                                                          *)
(***************************************************************************)

Move(u, from, to) == step[u] = from /\ step' = [step EXCEPT ![u] = to]

Taken(u) == \E w \in Uploads \ {u} : slot[w] = slot[u] /\ upload[w] = "stored"

CheckDuplicate(u) ==
  /\ Move(u, "check", IF Taken(u) THEN "done" ELSE "insert")
  /\ UNCHANGED <<upload, keyed, files, oldFiles>>

InsertDocument(u) ==
  /\ Move(u, "insert", "key")
  /\ upload' = [upload EXCEPT ![u] = "uploading"]
  /\ UNCHANGED <<keyed, files, oldFiles>>

SetStorageKey(u) ==
  /\ Move(u, "key", "save")
  /\ keyed' = keyed \cup {u}
  /\ UNCHANGED <<upload, files, oldFiles>>

\* Too large or empty: refused before anything is saved.
Refuse(u) ==
  /\ Move(u, "save", "undo")
  /\ UNCHANGED <<upload, keyed, files, oldFiles>>

SaveFile(u) ==
  /\ Move(u, "save", "store")
  /\ files' = files \cup {u}
  /\ oldFiles' = oldFiles \ {u}
  /\ UNCHANGED <<upload, keyed>>

MarkStored(u) ==
  /\ ~Taken(u)
  /\ Move(u, "store", "done")
  /\ upload' = [upload EXCEPT ![u] = "stored"]
  /\ UNCHANGED <<keyed, files, oldFiles>>

\* The unique index refuses the write.
DuplicateKey(u) ==
  /\ Taken(u)
  /\ Move(u, "store", "undo")
  /\ UNCHANGED <<upload, keyed, files, oldFiles>>

\* Both except branches: the file is deleted, then the document is failed.
UndoDelete(u) ==
  /\ Move(u, "undo", "fail")
  /\ files' = files \ {u} /\ oldFiles' = oldFiles \ {u}
  /\ UNCHANGED <<upload, keyed>>

UndoFail(u) ==
  /\ Move(u, "fail", "done")
  /\ upload' = [upload EXCEPT ![u] = "failed"]
  /\ UNCHANGED <<keyed, files, oldFiles>>

\* storage.save raises; the object may exist all the same.
SaveRaises(u) ==
  /\ "exception" \in UploadFaults
  /\ Move(u, "save", "undo")
  /\ files' \in {files, files \cup {u}}
  /\ oldFiles' = oldFiles \ {u}
  /\ UNCHANGED <<upload, keyed>>

\* The write that marks the document stored is applied, but the handler gets
\* an error (connection lost, request cancelled) and undoes the upload.
LostAck(u) ==
  /\ "lostAck" \in UploadFaults /\ ~Taken(u)
  /\ Move(u, "store", "undo")
  /\ upload' = [upload EXCEPT ![u] = "stored"]
  /\ UNCHANGED <<keyed, files, oldFiles>>

\* The process dies, or an except branch raises: nothing more is written.
Die(u) ==
  /\ "crash" \in UploadFaults
  /\ step[u] \notin {"check", "done", "dead"}
  /\ step' = [step EXCEPT ![u] = "dead"]
  /\ UNCHANGED <<upload, keyed, files, oldFiles>>

Handler(u) ==
  /\ \/ CheckDuplicate(u) \/ InsertDocument(u) \/ SetStorageKey(u) \/ SaveFile(u) \/ Refuse(u)
     \/ MarkStored(u) \/ DuplicateKey(u) \/ UndoDelete(u) \/ UndoFail(u)
     \/ SaveRaises(u) \/ LostAck(u) \/ Die(u)
  /\ UNCHANGED <<slot, oldDocs, cleanerVars>>

-----------------------------------------------------------------------------
(***************************************************************************)
(* run_cleanup                                                             *)
(***************************************************************************)

Finished(u) == step[u] \in {"done", "dead"}

GiveUp(found) ==
  /\ cleaner = "idle"
  /\ expired' = found
  /\ givenUp' = givenUp \cup {u \in found : ~Finished(u)}
  /\ cleaner' = "abandon"
  /\ UNCHANGED <<step, upload, keyed, files, oldFiles, deleted, referenced, listed>>

\* Mutant of FindExpired: the filter on the upload status is missing.
FindExpiredAny == GiveUp(oldDocs)

\* Mutant of FindExpired: an upload that has its key is taken for finished.
FindExpiredKeyless == GiveUp({u \in oldDocs \ keyed : upload[u] = "uploading"})

\* 1. Old documents still "uploading", of handlers that died or go on: ...
FindExpired == GiveUp({u \in oldDocs : upload[u] = "uploading"})

\* ... the file is deleted if the document has a key, ...
DeleteExpired(u) ==
  /\ cleaner = "abandon" /\ u \in expired \ deleted
  /\ files' = IF u \in keyed THEN files \ {u} ELSE files
  /\ oldFiles' = IF u \in keyed THEN oldFiles \ {u} ELSE oldFiles
  /\ deleted' = deleted \cup {u}
  /\ UNCHANGED <<step, upload, keyed, cleaner, expired, referenced, listed>>

\* ... then the document is abandoned, whatever it has become.
AbandonUpload(u) ==
  /\ cleaner = "abandon" /\ u \in deleted
  /\ upload' = [upload EXCEPT ![u] = "abandoned"]
  /\ expired' = expired \ {u}
  /\ deleted' = deleted \ {u}
  /\ UNCHANGED <<step, keyed, files, oldFiles, cleaner, referenced, listed>>

\* 2. Keys of the stored and unfinished versions, ...
ReadReferences ==
  /\ cleaner = "abandon" /\ expired = {}
  /\ referenced' = {u \in keyed : upload[u] \in {"stored", "uploading"}}
  /\ cleaner' = "list"
  /\ UNCHANGED <<step, upload, keyed, files, oldFiles, expired, deleted, listed>>

\* Mutant of ListFiles: the age of the files is not compared with the cutoff.
ListFilesAnyAge ==
  /\ cleaner = "list"
  /\ listed' = files \ referenced
  /\ cleaner' = "sweep"
  /\ UNCHANGED <<step, upload, keyed, files, oldFiles, expired, deleted, referenced>>

\* ... then the objects of the storage with their age, ...
ListFiles ==
  /\ cleaner = "list"
  /\ listed' = oldFiles \ referenced
  /\ cleaner' = "sweep"
  /\ UNCHANGED <<step, upload, keyed, files, oldFiles, expired, deleted, referenced>>

\* ... and the old unreferenced ones are deleted one by one.
DeleteOrphan(u) ==
  /\ cleaner = "sweep" /\ u \in listed
  /\ files' = files \ {u} /\ oldFiles' = oldFiles \ {u}
  /\ listed' = listed \ {u}
  /\ UNCHANGED <<step, upload, keyed, cleaner, expired, deleted, referenced>>

CleanupEnds ==
  /\ cleaner = "sweep" /\ listed = {}
  /\ cleaner' = "idle"
  /\ referenced' = {}
  /\ UNCHANGED <<step, upload, keyed, files, oldFiles, expired, deleted, listed>>

\* cleanup_loop catches an exception, or the process restarts.
CleanupFails ==
  /\ cleaner # "idle" /\ failures < MaxFailures
  /\ failures' = failures + 1
  /\ cleaner' = "idle"
  /\ expired' = {} /\ deleted' = {} /\ referenced' = {} /\ listed' = {}
  /\ UNCHANGED <<step, upload, keyed, files, oldFiles, givenUp>>

CleanerStep ==
  \/ FindExpired
  \/ /\ \/ ReadReferences \/ ListFiles \/ CleanupEnds
        \/ \E u \in Uploads : DeleteExpired(u) \/ AbandonUpload(u) \/ DeleteOrphan(u)
     /\ UNCHANGED givenUp

Cleaner == CleanerStep /\ UNCHANGED <<slot, oldDocs, failures>>

-----------------------------------------------------------------------------
(***************************************************************************)
(* Time: ORPHAN_UPLOAD_MAX_AGE_HOURS after the insertion, after the save,  *)
(* whatever the handler is doing: a slow upload may last longer.  The      *)
(* cutoff is computed once per cleanup, so nothing grows old for it while  *)
(* it runs.                                                                *)
(***************************************************************************)

DocumentAges(u) ==
  /\ cleaner = "idle"
  /\ upload[u] # "absent"
  /\ u \notin oldDocs
  /\ oldDocs' = oldDocs \cup {u}
  /\ UNCHANGED <<slot, handlerVars, cleanerVars>>

FileAges(u) ==
  /\ cleaner = "idle"
  /\ u \in files \cap oldDocs
  /\ oldFiles' = oldFiles \cup {u}
  /\ UNCHANGED <<slot, oldDocs, step, upload, keyed, files, cleanerVars>>

Ages == \E u \in Uploads : DocumentAges(u) \/ FileAges(u)

UploadNext ==
  \/ \E u \in Uploads : Handler(u)
  \/ Cleaner \/ (CleanupFails /\ UNCHANGED <<slot, oldDocs>>)
  \/ Ages

UploadSpec == UploadInit /\ [][UploadNext]_uploadVars

(***************************************************************************)
(* A handler goes on until it ends or dies; the cleanup runs again and     *)
(* again, and fails MaxFailures times at most; time passes (strong         *)
(* fairness, because the model lets it pass only between two cleanups).    *)
(***************************************************************************)
UploadFairness ==
  /\ \A u \in Uploads : WF_uploadVars(Handler(u))
  /\ WF_uploadVars(Cleaner)
  /\ SF_uploadVars(Ages)

FairUploadSpec == UploadSpec /\ UploadFairness

-----------------------------------------------------------------------------
(***************************************************************************)
(* A version whose upload was confirmed has its file, and stays stored:    *)
(* neither a concurrent upload of the same version, nor its undoing, nor   *)
(* the cleanup, which writes "abandoned" over whatever the document has    *)
(* become, takes back what the client was told.  An upload whose last      *)
(* write was applied but not acknowledged was not confirmed; one that a    *)
(* cleanup found too old before it confirmed is aside: the code looks at   *)
(* the age of the document, and takes its file away.  With the types.      *)
(***************************************************************************)
Confirmed(u) == upload[u] = "stored" /\ step[u] = "done"

ConfirmedHasFile ==
  UploadTypeOK /\ \A u \in Uploads \ givenUp : Confirmed(u) => u \in files

ConfirmedIsFinal ==
  [][\A u \in Uploads \ givenUp : Confirmed(u) => Confirmed(u)']_uploadVars

(***************************************************************************)
(* The files of uploads that failed or were interrupted do not stay in the *)
(* storage, wherever the handler stopped.                                  *)
(***************************************************************************)
Orphan(u) == u \in files /\ Finished(u) /\ upload[u] # "stored"

OrphansRemoved == \A u \in Uploads : Orphan(u) ~> ~Orphan(u)
=============================================================================
