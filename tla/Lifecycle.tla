------------------------------ MODULE Lifecycle ------------------------------
(***************************************************************************)
(* The life of a version from its upload on: the console's handlers and    *)
(* the scheduler (Releases) and the scan worker with its automatic         *)
(* submission (Scanning), on the same documents, in one API process whose  *)
(* stop takes all of them down at any await (lifespan in main.py).         *)
(***************************************************************************)
EXTENDS Releases, Scanning

lifecycleVars == <<storeVars, actorVars, historyVars, workerVars>>

LifecycleInit == ReleaseInit /\ ScanInit

\* Requests and the scheduler, while the process runs.
WorkflowStep == up /\ ReleaseActors /\ UNCHANGED workerVars

\* A rescan that raises between its write and its enqueue.
RescanStep ==
  /\ up
  /\ \E p \in Requests : RescanUnqueued(p) /\ dropped' = dropped \cup {ver[p]}
  /\ UNCHANGED <<autoSubmit, worker, job, up, unsent, crashes>>

\* The scan worker, and the start of a new process.
ScanStep == (Worker \/ JobRaises \/ Restart) /\ UNCHANGED <<actorVars, historyVars>>

\* The process stops: every handler and the scheduler end where they are.
ProcessStops ==
  /\ Crash
  /\ pc' = [p \in Actors |-> "idle"]
  /\ ver' = [p \in Actors |-> NoVersion]
  /\ doc' = [p \in Actors |-> NoDoc]
  /\ seen' = [p \in Actors |-> {}]
  /\ todo' = [s \in Schedulers |-> {}]
  /\ stranded' = stranded \cup UNION {LeftBehind(s) : s \in Schedulers}
  /\ UNCHANGED decisionVars

\* Uploads end and testers change while the process runs; time always passes.
OutsideStep == ((up /\ (Uploads \/ Testers)) \/ Clock) /\ UNCHANGED workerVars

LifecycleNext == WorkflowStep \/ RescanStep \/ ScanStep \/ ProcessStops \/ OutsideStep

LifecycleSpec == LifecycleInit /\ [][LifecycleNext]_lifecycleVars

=============================================================================
