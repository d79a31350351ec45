------------------------------ MODULE Scanning ------------------------------
(***************************************************************************)
(* The security scan of the uploaded versions: the in-process queue, its   *)
(* single worker, the rescans, the automatic submission that follows a     *)
(* scan that passed (continuous integration), and what a restart of the    *)
(* process recovers.                                                       *)
(*                                                                         *)
(*   worker: idle -> load -> analyse -> [autosubmit -> submit | block ->]  *)
(*           idle                                                          *)
(***************************************************************************)
EXTENDS VersionStore, SequencesExt

CONSTANTS
  ScanFaults,    \* {"exception", "crash"} or less: what may go wrong
  MaxCrashes,    \* bound: times the process stops
  MaxQueued      \* bound: a rescan is asked only below this queue length

ASSUME ScanFaultsAssumption == ScanFaults \subseteq {"exception", "crash"}
ASSUME MaxCrashesAssumption == MaxCrashes \in Nat
ASSUME VersionsAssumption == IsFiniteSet(Versions)

VARIABLES
  autoSubmit,    \* the upload asked for an automatic submission not made yet
  worker,        \* step of ScanQueue._worker
  job,           \* version it is scanning
  up,            \* the API process is running
  dropped,       \* history: scans an exception kept from their verdict or queue
  unsent,        \* history: jobs ended between their verdict and auto_submit's end
  crashes        \* history: times the process stopped

workerVars == <<autoSubmit, worker, job, up, dropped, unsent, crashes>>
scanVars   == <<storeVars, workerVars>>

WorkerStep == {"idle", "load", "analyse", "autosubmit", "submit", "block"}

ScanTypeOK ==
  /\ StoreTypeOK
  /\ autoSubmit \in [Versions -> BOOLEAN]
  /\ worker \in WorkerStep
  /\ job \in Versions \cup {NoVersion}
  /\ up \in BOOLEAN
  /\ dropped \in SUBSET Versions
  /\ unsent \in SUBSET Versions
  /\ crashes \in 0..MaxCrashes
  /\ worker # "idle" => up /\ job \in Versions

ScanInit ==
  /\ StoreInit
  /\ autoSubmit \in [Versions -> BOOLEAN]
  /\ worker = "idle"
  /\ job = NoVersion
  /\ up = TRUE
  /\ dropped = {} /\ unsent = {}
  /\ crashes = 0

-----------------------------------------------------------------------------
(***************************************************************************)
(* The worker.                                                             *)
(***************************************************************************)

WorkerDone == worker' = "idle" /\ job' = NoVersion

\* A job that ends where it is may leave an automatic submission behind.
Unsent == IF worker \in {"autosubmit", "submit", "block"} THEN unsent \cup {job} ELSE unsent

\* queue.get(): the version leaves the queue before anything is written.
TakeJob ==
  /\ up /\ worker = "idle" /\ queue # <<>>
  /\ worker' = "load"
  /\ job' = Head(queue)
  /\ queue' = Tail(queue)
  /\ dropped' = dropped \ {Head(queue)}
  /\ UNCHANGED <<status, channel, review, schedAt, scan, stored, testersOk, shown,
                 autoSubmit, up, unsent, crashes>>

\* scan_version marks the version as being scanned, if its file is stored.
StartScan ==
  /\ worker = "load"
  /\ IF stored[job]
     THEN /\ scan' = [scan EXCEPT ![job] = "scanning"]
          /\ unsent' = unsent \ {job}
          /\ worker' = "analyse" /\ UNCHANGED job
     ELSE /\ WorkerDone /\ UNCHANGED <<scan, unsent>>
  /\ UNCHANGED <<status, channel, review, schedAt, stored, testersOk, shown, queue,
                 autoSubmit, up, dropped, crashes>>

\* The verdict is written, over whatever the status is by now.
EndScan(verdict) ==
  /\ worker = "analyse"
  /\ scan' = [scan EXCEPT ![job] = verdict]
  /\ IF verdict = "passed"
     THEN worker' = "autosubmit" /\ UNCHANGED job
     ELSE WorkerDone
  /\ UNCHANGED <<status, channel, review, schedAt, stored, testersOk, shown, queue,
                 autoSubmit, up, dropped, unsent, crashes>>

\* Mutant of LoadAutoSubmit: a beta without testers is left as it is.
LoadAutoSubmitNoBlock ==
  /\ worker = "autosubmit"
  /\ IF status[job] = "draft" /\ autoSubmit[job] /\ ~(IsBeta(job) /\ ~testersOk)
     THEN worker' = "submit" /\ UNCHANGED job
     ELSE WorkerDone
  /\ UNCHANGED <<storeVars, autoSubmit, up, dropped, unsent, crashes>>

\* auto_submit reads the version and the testers of its app, ...
LoadAutoSubmit ==
  /\ worker = "autosubmit"
  /\ IF status[job] = "draft" /\ autoSubmit[job]
     THEN /\ worker' = IF IsBeta(job) /\ ~testersOk THEN "block" ELSE "submit"
          /\ UNCHANGED job
     ELSE WorkerDone
  /\ UNCHANGED <<storeVars, autoSubmit, up, dropped, unsent, crashes>>

\* ... and writes the submission, or gives it up.
AutoSubmit ==
  /\ worker \in {"submit", "block"}
  /\ review' = IF worker = "submit" THEN [review EXCEPT ![job] = "pending"] ELSE review
  /\ autoSubmit' = [autoSubmit EXCEPT ![job] = FALSE]
  /\ WorkerDone
  /\ UNCHANGED <<status, channel, schedAt, scan, stored, testersOk, shown, queue,
                 up, dropped, unsent, crashes>>

\* An exception (database) ends the job; the worker logs it and goes on.
JobRaises ==
  /\ "exception" \in ScanFaults
  /\ worker # "idle"
  /\ dropped' = dropped \cup {job} /\ unsent' = Unsent
  /\ WorkerDone
  /\ UNCHANGED <<storeVars, autoSubmit, up, crashes>>

Worker ==
  TakeJob \/ StartScan \/ LoadAutoSubmit \/ AutoSubmit
    \/ \E verdict \in {"passed", "failed"} : EndScan(verdict)

-----------------------------------------------------------------------------
(***************************************************************************)
(* The process.                                                            *)
(***************************************************************************)

Crash ==
  /\ "crash" \in ScanFaults /\ crashes < MaxCrashes
  /\ up
  /\ up' = FALSE
  /\ crashes' = crashes + 1
  /\ queue' = <<>>
  /\ dropped' = {} /\ unsent' = Unsent
  /\ WorkerDone
  /\ UNCHANGED <<status, channel, review, schedAt, scan, stored, testersOk, shown, autoSubmit>>

\* ScanQueue.start: the scans that the stop interrupted are queued again.
Interrupted == {v \in Versions : stored[v] /\ scan[v] \in {"pending", "scanning"}}

\* Mutant of Restart: only the scans that had not started are queued again.
RestartPendingOnly ==
  /\ ~up
  /\ up' = TRUE
  /\ queue' \in SetToSeqs({v \in Interrupted : scan[v] = "pending"})
  /\ UNCHANGED <<status, channel, review, schedAt, scan, stored, testersOk, shown,
                 autoSubmit, worker, job, dropped, unsent, crashes>>

\* Mutant of Restart: the queue starts empty.
RestartEmpty ==
  /\ ~up
  /\ up' = TRUE
  /\ UNCHANGED <<storeVars, autoSubmit, worker, job, dropped, unsent, crashes>>

Restart ==
  /\ ~up
  /\ up' = TRUE
  /\ queue' \in SetToSeqs(Interrupted)
  /\ UNCHANGED <<status, channel, review, schedAt, scan, stored, testersOk, shown,
                 autoSubmit, worker, job, dropped, unsent, crashes>>

ScanActors == Worker \/ JobRaises \/ Crash \/ Restart

-----------------------------------------------------------------------------
(***************************************************************************)
(* Environment: the requests that reach the scan, each of them one step    *)
(* here (their guard is "stored", which never becomes false again).        *)
(* Releases models the console's handlers in full.                         *)
(***************************************************************************)

Upload(v) == up /\ UploadStored(v) /\ UNCHANGED workerVars

Rescan(v) ==
  /\ up /\ stored[v] /\ Len(queue) < MaxQueued
  /\ scan' = [scan EXCEPT ![v] = "pending"]
  /\ review' = [review EXCEPT ![v] = "none"]
  /\ queue' = Append(queue, v)
  /\ UNCHANGED <<status, channel, schedAt, stored, testersOk, shown, workerVars>>

\* The rescan's update is applied and raises: the enqueue is not reached.
RescanLost(v) ==
  /\ "exception" \in ScanFaults
  /\ up /\ stored[v]
  /\ scan' = [scan EXCEPT ![v] = "pending"]
  /\ review' = [review EXCEPT ![v] = "none"]
  /\ dropped' = dropped \cup {v}
  /\ UNCHANGED <<status, channel, schedAt, stored, testersOk, shown, queue,
                 autoSubmit, worker, job, up, unsent, crashes>>

Archive(v) ==
  /\ up
  /\ status' = [status EXCEPT ![v] = "archived"]
  /\ review' = [review EXCEPT ![v] = "none"]
  /\ UNCHANGED <<channel, schedAt, scan, stored, testersOk, shown, queue, workerVars>>

ScanEnvironment ==
  \/ \E v \in Versions : Upload(v) \/ Rescan(v) \/ RescanLost(v) \/ Archive(v)
  \/ up /\ SetTesters /\ UNCHANGED workerVars

ScanSpec == ScanInit /\ [][ScanActors \/ ScanEnvironment]_scanVars

\* The worker task runs while the process does; a stopped process is restarted.
ScanFairness == WF_scanVars(Worker) /\ WF_scanVars(Restart)

FairScanSpec == ScanSpec /\ ScanFairness

-----------------------------------------------------------------------------
(***************************************************************************)
(* No scan is forgotten: while the process runs, a stored version that has *)
(* no verdict is in the queue, is the one being scanned, or had its job    *)
(* ended by an exception, or its rescan raised before it was queued.  It   *)
(* relates the documents, which survive a crash, to the queue and the      *)
(* worker, which do not (and has the types).                               *)
(***************************************************************************)
NoLostScan ==
  /\ ScanTypeOK
  /\ up => \A v \in Interrupted :
             \/ v \in ToSet(queue)
             \/ job = v /\ worker \in {"load", "analyse"}
             \/ v \in dropped

(***************************************************************************)
(* Every stored version gets its verdict, however often it is rescanned    *)
(* and the process restarted, unless an exception ends its job or comes    *)
(* between the write of a rescan and its enqueue: then only a rescan or a  *)
(* restart queues it again.                                                *)
(***************************************************************************)
EveryScanEnds ==
  \A v \in Versions :
    v \in Interrupted ~> scan[v] \in {"passed", "failed"} \/ v \in dropped

(***************************************************************************)
(* "With submit=true, the version is submitted for review automatically as *)
(* soon as its security scan passes": a draft that waits for its automatic *)
(* submission and has passed does not wait for ever, unless its job was    *)
(* ended in between by an exception or a stop, which nothing makes up for. *)
(***************************************************************************)
AwaitsSubmission(v) == autoSubmit[v] /\ scan[v] = "passed" /\ status[v] = "draft"

AutoSubmitted ==
  \A v \in Versions : AwaitsSubmission(v) ~> ~AwaitsSubmission(v) \/ v \in unsent
=============================================================================
