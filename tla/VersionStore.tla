---------------------------- MODULE VersionStore ----------------------------
(***************************************************************************)
(* The shared documents of the release subsystem: the `versions` documents *)
(* of one app, the two fields of the `apps` document they depend on, and   *)
(* the in-process queue of the security scans.  Releases and Scanning      *)
(* declare the actors that read and write them; Lifecycle composes the     *)
(* two.                                                                    *)
(*                                                                         *)
(* MongoDB applies one `update_one` atomically and nothing more: a handler *)
(* is a `find_one` (it decides on that snapshot) followed, after an await, *)
(* by an unconditional `$set`.  Each document is therefore kept as one     *)
(* function per field, and every `$set` is one step.                       *)
(***************************************************************************)
EXTENDS Integers, Sequences

CONSTANTS
  Versions,    \* versions of one app
  NoVersion    \* "no version": the value of an idle actor's reference

ASSUME NoVersionAssumption == NoVersion \notin Versions

VARIABLES
  status,      \* status of each version (catalog visibility)
  channel,     \* production, or beta (testers only)
  review,      \* state of its review request, "none" when there is none
  schedAt,     \* scheduled_at: none, a later date, or a date that has come
  scan,        \* security_scan_status
  stored,      \* upload_status = "stored"
  testersOk,   \* the app has at least MIN_BETA_TESTERS testers
  shown,       \* versions the denormalised catalog fields of the app describe
  queue        \* ScanQueue.queue: versions waiting for their scan

storeVars == <<status, channel, review, schedAt, scan, stored, testersOk, shown, queue>>

Status     == {"draft", "scheduled", "publishing", "published", "archived"}
Channel    == {"production", "beta"}
Review     == {"none", "pending", "approved", "rejected"}
ScheduledAt == {"none", "later", "due"}
ScanStatus == {"pending", "scanning", "passed", "failed"}

StoreTypeOK ==
  /\ status \in [Versions -> Status]
  /\ channel \in [Versions -> Channel]
  /\ review \in [Versions -> Review]
  /\ schedAt \in [Versions -> ScheduledAt]
  /\ scan \in [Versions -> ScanStatus]
  /\ stored \in [Versions -> BOOLEAN]
  /\ testersOk \in BOOLEAN
  /\ shown \in SUBSET Versions
  /\ queue \in Seq(Versions)

(***************************************************************************)
(* The documents have just been inserted by the upload handler: drafts     *)
(* whose file is still being received.                                     *)
(***************************************************************************)
StoreInit ==
  /\ status = [v \in Versions |-> "draft"]
  /\ channel \in [Versions -> Channel]
  /\ review = [v \in Versions |-> "none"]
  /\ schedAt = [v \in Versions |-> "none"]
  /\ scan = [v \in Versions |-> "pending"]
  /\ stored = [v \in Versions |-> FALSE]
  /\ testersOk = FALSE
  /\ shown = {}
  /\ queue = <<>>

IsBeta(v)    == channel[v] = "beta"
IsPending(v) == review[v] = "pending"

(***************************************************************************)
(* What the catalog offers to everyone, and the guard of a submission.     *)
(***************************************************************************)
Public ==
  {v \in Versions : status[v] = "published" /\ scan[v] = "passed" /\ stored[v] /\ ~IsBeta(v)}

Submittable(v) ==
  /\ stored[v] /\ scan[v] = "passed"
  /\ status[v] = "draft" \/ (status[v] = "published" /\ IsBeta(v))

EnoughTesters(v) == (IsBeta(v) /\ status[v] # "published") => testersOk

(***************************************************************************)
(* The upload handler ends: the file is stored and its scan is queued,     *)
(* with no await between the two.                                          *)
(***************************************************************************)
UploadStored(v) ==
  /\ ~stored[v]
  /\ stored' = [stored EXCEPT ![v] = TRUE]
  /\ queue' = Append(queue, v)
  /\ UNCHANGED <<status, channel, review, schedAt, scan, testersOk, shown>>

\* PUT /apps/{id}/testers: the list grows past the minimum or falls below it.
SetTesters ==
  /\ testersOk' = ~testersOk
  /\ UNCHANGED <<status, channel, review, schedAt, scan, stored, shown, queue>>

\* The clock reaches a scheduled date.
DateComes(v) ==
  /\ schedAt[v] = "later"
  /\ schedAt' = [schedAt EXCEPT ![v] = "due"]
  /\ UNCHANGED <<status, channel, review, scan, stored, testersOk, shown, queue>>
=============================================================================
