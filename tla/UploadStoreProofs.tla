-------------------------- MODULE UploadStoreProofs --------------------------
(***************************************************************************)
(* Proofs about UploadStore, for every set of uploads and of slots, every  *)
(* fault and every number of failed cleanups.                              *)
(***************************************************************************)
EXTENDS UploadStore, TLAPS

(***************************************************************************)
(* The strengthening.  What a handler has behind it at each step, unless a *)
(* cleanup gave its upload up meanwhile; ...                               *)
(***************************************************************************)
HandlerAt(u) ==
  /\ step[u] \in {"check", "insert"} => upload[u] = "absent"
  /\ step[u] \in {"check", "insert", "key", "save"} => u \notin files
  /\ step[u] \in {"save", "store", "undo", "fail"} => u \in keyed
  /\ u \notin givenUp =>
       /\ step[u] \in {"key", "save", "store"} => upload[u] = "uploading"
       /\ step[u] \in {"undo", "fail"} => upload[u] \in {"uploading", "stored"}
       /\ step[u] = "store" => u \in files
       /\ step[u] = "done" => upload[u] \in {"absent", "stored", "failed"}
       /\ Confirmed(u) => u \in keyed \cap files

\* ... an upload that goes on, or was confirmed, is referenced when the old
\* files are listed, ...
ReferencedAt(u) ==
  cleaner = "list" /\ u \in oldFiles \ givenUp
    /\ (step[u] \in {"store", "undo", "fail"} \/ Confirmed(u)) => u \in referenced

\* ... and of those it did not give up, the cleanup holds only uploads that
\* died, and files that no confirmed upload has.
CleanerAt(u) ==
  /\ u \in expired => upload[u] # "absent"
  /\ u \in expired \ givenUp => step[u] = "dead" /\ upload[u] = "uploading"
  /\ u \in listed \ givenUp => Finished(u) /\ ~Confirmed(u)

UploadInv ==
  /\ UploadTypeOK
  /\ cleaner # "abandon" => expired = {}
  /\ \A u \in Uploads : HandlerAt(u) /\ ReferencedAt(u) /\ CleanerAt(u)

LEMMA InitKeeps == UploadInit => UploadInv
BY MaxFailuresAssumption
DEF UploadInit, UploadInv, UploadTypeOK, HandlerStep, UploadStatus, HandlerAt, ReferencedAt,
    CleanerAt, Confirmed, Finished

-----------------------------------------------------------------------------
(***************************************************************************)
(* A step of handler u: the other uploads are left alone, and the cleanup  *)
(* holds nothing of u, whose handler has not ended.                        *)
(***************************************************************************)

LEMMA HandlerKeepsType ==
  ASSUME UploadInv, NEW u \in Uploads, Handler(u)
  PROVE  UploadTypeOK'
<1> USE DEF UploadInv, UploadTypeOK, HandlerStep, UploadStatus, Handler, cleanerVars, Move
<1>1. CASE CheckDuplicate(u) BY <1>1 DEF CheckDuplicate
<1>2. CASE InsertDocument(u) BY <1>2 DEF InsertDocument
<1>3. CASE SetStorageKey(u) BY <1>3 DEF SetStorageKey
<1>4. CASE SaveFile(u) BY <1>4 DEF SaveFile
<1>5. CASE Refuse(u) BY <1>5 DEF Refuse
<1>6. CASE MarkStored(u) BY <1>6 DEF MarkStored
<1>7. CASE DuplicateKey(u) BY <1>7 DEF DuplicateKey
<1>8. CASE UndoDelete(u) BY <1>8 DEF UndoDelete
<1>9. CASE UndoFail(u) BY <1>9 DEF UndoFail
<1>10. CASE SaveRaises(u) BY <1>10 DEF SaveRaises
<1>11. CASE LostAck(u) BY <1>11 DEF LostAck
<1>12. CASE Die(u) BY <1>12 DEF Die
<1>13. QED
  BY <1>1, <1>2, <1>3, <1>4, <1>5, <1>6, <1>7, <1>8, <1>9, <1>10, <1>11, <1>12

\* What a step of u leaves alone, whichever it is.
LEMMA HandlerFrame ==
  ASSUME UploadInv, NEW u \in Uploads, Handler(u)
  PROVE  /\ ~Finished(u)
         /\ \A w \in Uploads \ {u} :
              /\ step'[w] = step[w] /\ upload'[w] = upload[w]
              /\ w \in keyed' <=> w \in keyed
              /\ w \in files' <=> w \in files
              /\ w \in oldFiles' <=> w \in oldFiles
         /\ u \in oldFiles' => u \in oldFiles
         /\ upload[u] # "absent" => upload'[u] # "absent"
         /\ UNCHANGED <<slot, oldDocs, cleaner, expired, deleted, referenced, listed, givenUp>>
<1> USE DEF UploadInv, UploadTypeOK, Handler, cleanerVars, Move, Finished
<1>1. CASE CheckDuplicate(u) BY <1>1 DEF CheckDuplicate
<1>2. CASE InsertDocument(u) BY <1>2 DEF InsertDocument
<1>3. CASE SetStorageKey(u) BY <1>3 DEF SetStorageKey
<1>4. CASE SaveFile(u) BY <1>4 DEF SaveFile
<1>5. CASE Refuse(u) BY <1>5 DEF Refuse
<1>6. CASE MarkStored(u) BY <1>6 DEF MarkStored
<1>7. CASE DuplicateKey(u) BY <1>7 DEF DuplicateKey
<1>8. CASE UndoDelete(u) BY <1>8 DEF UndoDelete
<1>9. CASE UndoFail(u) BY <1>9 DEF UndoFail
<1>10. CASE SaveRaises(u) BY <1>10 DEF SaveRaises
<1>11. CASE LostAck(u) BY <1>11 DEF LostAck
<1>12. CASE Die(u) BY <1>12 DEF Die
<1>13. QED
  BY <1>1, <1>2, <1>3, <1>4, <1>5, <1>6, <1>7, <1>8, <1>9, <1>10, <1>11, <1>12

LEMMA HandlerMoves ==
  ASSUME UploadInv, NEW u \in Uploads, Handler(u)
  PROVE  HandlerAt(u)' /\ ReferencedAt(u)'
<1> USE DEF UploadInv, UploadTypeOK, Handler, cleanerVars, Move, HandlerAt, ReferencedAt, Confirmed
<1>1. CASE CheckDuplicate(u) BY <1>1 DEF CheckDuplicate
<1>2. CASE InsertDocument(u) BY <1>2 DEF InsertDocument
<1>3. CASE SetStorageKey(u) BY <1>3 DEF SetStorageKey
<1>4. CASE SaveFile(u) BY <1>4 DEF SaveFile
<1>5. CASE Refuse(u) BY <1>5 DEF Refuse
<1>6. CASE MarkStored(u) BY <1>6 DEF MarkStored
<1>7. CASE DuplicateKey(u) BY <1>7 DEF DuplicateKey
<1>8. CASE UndoDelete(u) BY <1>8 DEF UndoDelete
<1>9. CASE UndoFail(u) BY <1>9 DEF UndoFail
<1>10. CASE SaveRaises(u) BY <1>10 DEF SaveRaises
<1>11. CASE LostAck(u) BY <1>11 DEF LostAck
<1>12. CASE Die(u) BY <1>12 DEF Die
<1>13. QED
  BY <1>1, <1>2, <1>3, <1>4, <1>5, <1>6, <1>7, <1>8, <1>9, <1>10, <1>11, <1>12

LEMMA HandlerKeeps ==
  ASSUME UploadInv, NEW u \in Uploads, Handler(u)
  PROVE  UploadInv'
<1>1. ASSUME NEW w \in Uploads \ {u}
      PROVE  HandlerAt(w)' /\ ReferencedAt(w)' /\ CleanerAt(w)'
  BY HandlerFrame DEF UploadInv, HandlerAt, ReferencedAt, CleanerAt, Confirmed, Finished
<1>2. HandlerAt(u)' /\ ReferencedAt(u)'
  BY HandlerMoves
<1>3. u \notin expired \ givenUp /\ u \notin listed \ givenUp
  BY HandlerFrame DEF UploadInv, CleanerAt, Finished
<1>4. CleanerAt(u)'
  BY <1>3, HandlerFrame DEF CleanerAt, UploadInv
<1>5. QED
  BY <1>1, <1>2, <1>4, HandlerKeepsType, HandlerFrame DEF UploadInv

-----------------------------------------------------------------------------
(***************************************************************************)
(* A step of the cleanup.                                                  *)
(***************************************************************************)

LEMMA CleanerKeeps ==
  ASSUME UploadInv, Cleaner
  PROVE  UploadInv'
<1> USE DEF Cleaner
<1>1. CASE FindExpired
  <2>1. UploadTypeOK'
    BY <1>1 DEF FindExpired, GiveUp, UploadInv, UploadTypeOK
  <2>2. ASSUME NEW u \in Uploads
        PROVE  HandlerAt(u)' /\ ReferencedAt(u)' /\ CleanerAt(u)'
    BY <1>1 DEF FindExpired, GiveUp, UploadInv, UploadTypeOK, HandlerStep, HandlerAt,
         ReferencedAt, CleanerAt, Confirmed, Finished
  <2>3. QED
    BY <1>1, <2>1, <2>2 DEF FindExpired, GiveUp, UploadInv
<1>2. CASE ReadReferences /\ UNCHANGED givenUp
  <2>1. UploadTypeOK'
    BY <1>2 DEF ReadReferences, UploadInv, UploadTypeOK
  <2>2. ASSUME NEW u \in Uploads
        PROVE  HandlerAt(u)' /\ ReferencedAt(u)' /\ CleanerAt(u)'
    BY <1>2 DEF ReadReferences, UploadInv, UploadTypeOK, HandlerStep, HandlerAt,
         ReferencedAt, CleanerAt, Confirmed, Finished
  <2>3. QED
    BY <1>2, <2>1, <2>2 DEF ReadReferences, UploadInv
<1>3. CASE ListFiles /\ UNCHANGED givenUp
  <2>1. UploadTypeOK'
    BY <1>3 DEF ListFiles, UploadInv, UploadTypeOK
  <2>2. ASSUME NEW u \in Uploads
        PROVE  HandlerAt(u)' /\ ReferencedAt(u)' /\ CleanerAt(u)'
    BY <1>3 DEF ListFiles, UploadInv, UploadTypeOK, HandlerStep, HandlerAt,
         ReferencedAt, CleanerAt, Confirmed, Finished
  <2>3. QED
    BY <1>3, <2>1, <2>2 DEF ListFiles, UploadInv
<1>4. CASE CleanupEnds /\ UNCHANGED givenUp
  <2>1. UploadTypeOK'
    BY <1>4 DEF CleanupEnds, UploadInv, UploadTypeOK
  <2>2. ASSUME NEW u \in Uploads
        PROVE  HandlerAt(u)' /\ ReferencedAt(u)' /\ CleanerAt(u)'
    BY <1>4 DEF CleanupEnds, UploadInv, UploadTypeOK, HandlerStep, HandlerAt,
         ReferencedAt, CleanerAt, Confirmed, Finished
  <2>3. QED
    BY <1>4, <2>1, <2>2 DEF CleanupEnds, UploadInv
<1>5. ASSUME NEW w \in Uploads, DeleteExpired(w), UNCHANGED givenUp
      PROVE  UploadInv'
  <2>1. w \in givenUp \/ step[w] = "dead"
    BY <1>5 DEF DeleteExpired, UploadInv, CleanerAt
  <2>2. UploadTypeOK'
    BY <1>5 DEF DeleteExpired, UploadInv, UploadTypeOK
  <2>3. ASSUME NEW u \in Uploads
        PROVE  HandlerAt(u)' /\ ReferencedAt(u)' /\ CleanerAt(u)'
    BY <1>5, <2>1 DEF DeleteExpired, UploadInv, HandlerAt, ReferencedAt, CleanerAt, Confirmed, Finished
  <2>4. QED
    BY <1>5, <2>2, <2>3 DEF DeleteExpired, UploadInv
<1>6. ASSUME NEW w \in Uploads, AbandonUpload(w), UNCHANGED givenUp
      PROVE  UploadInv'
  <2>1. w \in givenUp \/ step[w] = "dead"
    BY <1>6 DEF AbandonUpload, UploadInv, UploadTypeOK, CleanerAt
  <2>2. UploadTypeOK' /\ upload[w] # "absent"
    BY <1>6 DEF AbandonUpload, UploadInv, UploadTypeOK, UploadStatus, CleanerAt
  <2>3. ASSUME NEW u \in Uploads
        PROVE  HandlerAt(u)' /\ ReferencedAt(u)' /\ CleanerAt(u)'
    <3>1. HandlerAt(u) /\ ReferencedAt(u) /\ CleanerAt(u)
      BY DEF UploadInv
    <3>2. upload'[u] = IF u = w THEN "abandoned" ELSE upload[u]
      BY <1>6 DEF AbandonUpload, UploadInv, UploadTypeOK
    <3>3. QED
      BY <1>6, <2>1, <2>2, <3>1, <3>2
      DEF AbandonUpload, HandlerAt, ReferencedAt, CleanerAt, Confirmed, Finished
  <2>4. QED
    BY <1>6, <2>2, <2>3 DEF AbandonUpload, UploadInv
<1>7. ASSUME NEW w \in Uploads, DeleteOrphan(w), UNCHANGED givenUp
      PROVE  UploadInv'
  <2>1. w \in givenUp \/ (Finished(w) /\ ~Confirmed(w))
    BY <1>7 DEF DeleteOrphan, UploadInv, CleanerAt
  <2>2. UploadTypeOK'
    BY <1>7 DEF DeleteOrphan, UploadInv, UploadTypeOK
  <2>3. ASSUME NEW u \in Uploads
        PROVE  HandlerAt(u)' /\ ReferencedAt(u)' /\ CleanerAt(u)'
    BY <1>7, <2>1 DEF DeleteOrphan, UploadInv, HandlerAt, ReferencedAt, CleanerAt, Confirmed, Finished
  <2>4. QED
    BY <1>7, <2>2, <2>3 DEF DeleteOrphan, UploadInv
<1>8. QED
  BY <1>1, <1>2, <1>3, <1>4, <1>5, <1>6, <1>7 DEF CleanerStep

LEMMA FailureKeeps ==
  ASSUME UploadInv, CleanupFails, UNCHANGED <<slot, oldDocs>>
  PROVE  UploadInv'
BY MaxFailuresAssumption
DEF CleanupFails, UploadInv, UploadTypeOK, HandlerAt, ReferencedAt, CleanerAt, Confirmed, Finished

\* Time passes only between two cleanups.
LEMMA AgesKeeps ==
  ASSUME UploadInv, Ages
  PROVE  UploadInv'
<1> USE DEF UploadInv, UploadTypeOK, HandlerAt, ReferencedAt, CleanerAt, Confirmed, Finished,
            handlerVars, cleanerVars
<1>1. ASSUME NEW u \in Uploads, DocumentAges(u)
      PROVE  UploadInv'
  BY <1>1 DEF DocumentAges
<1>2. ASSUME NEW u \in Uploads, FileAges(u)
      PROVE  UploadInv'
  BY <1>2 DEF FileAges
<1>3. QED
  BY <1>1, <1>2 DEF Ages

LEMMA UploadInvariant == UploadSpec => []UploadInv
<1>1. UploadInv /\ UNCHANGED uploadVars => UploadInv'
  BY DEF UploadInv, UploadTypeOK, HandlerAt, ReferencedAt, CleanerAt, Confirmed, Finished,
         uploadVars, handlerVars, cleanerVars
<1>2. UploadInv /\ UploadNext => UploadInv'
  BY HandlerKeeps, CleanerKeeps, FailureKeeps, AgesKeeps DEF UploadNext
<1>3. QED
  BY <1>1, <1>2, InitKeeps, PTL DEF UploadSpec

(***************************************************************************)
(* Whatever crashes, raises or loses its acknowledgement, and however the  *)
(* cleanups interleave with the handlers, slow ones included, a confirmed  *)
(* upload that no cleanup found too old while it went on has its file.     *)
(***************************************************************************)
THEOREM ConfirmedKeepsFile == UploadSpec => []ConfirmedHasFile
<1>1. UploadInv => ConfirmedHasFile
  BY DEF UploadInv, HandlerAt, ConfirmedHasFile
<1>2. QED
  BY <1>1, UploadInvariant, PTL

(***************************************************************************)
(* What the client was told is not taken back: the cleanup writes          *)
(* "abandoned" without looking at the document, but only on uploads whose  *)
(* handler died or that it gave up while they went on, and no undoing      *)
(* starts once the handler has ended.                                      *)
(***************************************************************************)
THEOREM ConfirmedStays == UploadSpec => ConfirmedIsFinal
<1> DEFINE Stays == \A u \in Uploads \ givenUp : Confirmed(u) => Confirmed(u)'
<1>1. UploadInv /\ [UploadNext]_uploadVars => [Stays]_uploadVars
  <2> SUFFICES ASSUME UploadInv, UploadNext, NEW u \in Uploads \ givenUp, Confirmed(u)
               PROVE  Confirmed(u)'
    OBVIOUS
  <2>1. ASSUME NEW w \in Uploads, Handler(w)
        PROVE  Confirmed(u)'
    <3>1. w # u
      BY <2>1, HandlerFrame DEF Confirmed, Finished
    <3>2. QED
      BY <2>1, <3>1, HandlerFrame DEF Confirmed
  <2>2. CASE Cleaner
    <3>1. step' = step
      BY <2>2 DEF Cleaner, CleanerStep, FindExpired, GiveUp, ReadReferences, ListFiles,
           CleanupEnds, DeleteExpired, AbandonUpload, DeleteOrphan
    <3>2. \A w \in Uploads : AbandonUpload(w) => w # u
      BY DEF AbandonUpload, UploadInv, UploadTypeOK, CleanerAt, Confirmed
    <3>3. upload'[u] = upload[u]
      BY <2>2, <3>2 DEF Cleaner, CleanerStep, FindExpired, GiveUp, ReadReferences, ListFiles,
           CleanupEnds, DeleteExpired, AbandonUpload, DeleteOrphan, UploadInv, UploadTypeOK
    <3>4. QED
      BY <3>1, <3>3 DEF Confirmed
  <2>3. CASE CleanupFails \/ Ages
    BY <2>3 DEF CleanupFails, Ages, DocumentAges, FileAges, handlerVars, Confirmed
  <2>4. QED
    BY <2>1, <2>2, <2>3 DEF UploadNext
<1>2. QED
  BY <1>1, UploadInvariant, PTL DEF UploadSpec, ConfirmedIsFinal
=============================================================================
