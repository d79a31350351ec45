------------------------------ MODULE Releases ------------------------------
(***************************************************************************)
(* The version workflow: the console's handlers on a version (edit,        *)
(* submit, reject, withdraw, publish, unschedule, archive, rescan) and the *)
(* scheduler that publishes at a date, interleaved at their awaits.        *)
(*                                                                         *)
(* An actor reads the version, decides on that snapshot which document it  *)
(* will $set (doc), and writes it in a later step whatever the version has *)
(* become.  go_live and archive then recompute the app's catalog fields:   *)
(* one read of the versions, one write of the app.                         *)
(*                                                                         *)
(*   pc: idle -> [approve ->] write -> [refresh -> catalog ->] [notify ->] *)
(*       idle, and recover for the scheduler's except branch.              *)
(***************************************************************************)
EXTENDS VersionStore, FiniteSets

CONSTANTS
  Requests,      \* slots for requests handled at the same time
  Schedulers,    \* scheduler_loop tasks (one per running instance)
  Faults,        \* {"exception", "crash"} or less: what may go wrong
  MaxDecisions,  \* bound: publications asked by the admin, per version
  MaxQueue,      \* bound: a rescan is asked only below this queue length
  MaxBusy        \* bound: actors active at the same time (1: one at a time)

ASSUME ActorsAssumption ==
  /\ IsFiniteSet(Requests) /\ IsFiniteSet(Schedulers)
  /\ Requests \cap Schedulers = {}
ASSUME FaultsAssumption == Faults \subseteq {"exception", "crash"}

VARIABLES
  pc, ver, doc,  \* step, version and pending $set of each actor
  seen,          \* versions read by refresh_app_catalog_fields
  todo,          \* results of publish_due's find still to be claimed
  decisions,     \* history: publications the admin decided, per version
  lives,         \* history: go_live writes, per version
  returned,      \* history: of those, the ones the scheduler took back
  stranded       \* history: reservations whose scheduler has let them down

actorVars    == <<pc, ver, doc, seen, todo>>
decisionVars == <<decisions, lives, returned>>
historyVars  == <<decisionVars, stranded>>
releaseVars  == <<storeVars, actorVars, historyVars>>

Actors == Requests \cup Schedulers

Step == {"idle", "approve", "write", "refresh", "catalog", "notify", "recover"}

Operation == {"update", "submit", "reject", "withdraw", "schedule", "golive",
              "unschedule", "archive", "rescan"}

\* A $set document: "keep" is a field it does not mention.
Doc == [op : Operation, by : {"admin", "editor", "system"},
        status : Status \cup {"keep"}, channel : Channel \cup {"keep"},
        review : Review \cup {"keep"}, schedAt : ScheduledAt \cup {"keep"},
        refresh : BOOLEAN]

SetDoc(op, by, st, ch, rv, at, refresh) ==
  [op |-> op, by |-> by, status |-> st, channel |-> ch, review |-> rv,
   schedAt |-> at, refresh |-> refresh]

NoDoc == SetDoc("update", "system", "keep", "keep", "keep", "keep", FALSE)

ReleaseTypeOK ==
  /\ StoreTypeOK
  /\ pc \in [Actors -> Step]
  /\ ver \in [Actors -> Versions \cup {NoVersion}]
  /\ doc \in [Actors -> Doc]
  /\ seen \in [Actors -> SUBSET Versions]
  /\ todo \in [Schedulers -> SUBSET Versions]
  /\ decisions \in [Versions -> Nat]
  /\ lives \in [Versions -> Nat]
  /\ returned \in [Versions -> Nat]
  /\ stranded \in SUBSET Versions
  /\ \A p \in Actors : pc[p] # "idle" => ver[p] \in Versions
  /\ \A p \in Requests : pc[p] # "recover"
  /\ \A s \in Schedulers : pc[s] # "approve"

ReleaseInit ==
  /\ StoreInit
  /\ pc = [p \in Actors |-> "idle"]
  /\ ver = [p \in Actors |-> NoVersion]
  /\ doc = [p \in Actors |-> NoDoc]
  /\ seen = [p \in Actors |-> {}]
  /\ todo = [s \in Schedulers |-> {}]
  /\ decisions = [v \in Versions |-> 0]
  /\ lives = [v \in Versions |-> 0]
  /\ returned = [v \in Versions |-> 0]
  /\ stranded = {}

-----------------------------------------------------------------------------
(***************************************************************************)
(* Reading half of the handlers: the guards hold on the snapshot.          *)
(***************************************************************************)

Busy(p) == pc[p] # "idle" \/ (p \in Schedulers /\ todo[p] # {})

Free(p) ==
  /\ pc[p] = "idle"
  /\ Cardinality({q \in Actors \ {p} : Busy(q)}) < MaxBusy

\* Actor p has read v and will write d, at step at.
Begin(p, v, d, at) ==
  /\ Free(p)
  /\ pc' = [pc EXCEPT ![p] = at]
  /\ ver' = [ver EXCEPT ![p] = v]
  /\ doc' = [doc EXCEPT ![p] = d]
  /\ UNCHANGED <<storeVars, seen, todo, lives, returned, stranded>>

\* Mutant of MayTouch: the guard on published versions is missing.
MayTouchAnyone(v, by) == TRUE

\* "published versions: admin", a guard of several handlers.
MayTouch(v, by) == status[v] = "published" => by = "admin"

UpdateVersion(p, v, by, ch) ==
  /\ MayTouch(v, by)
  /\ ch \notin {"keep", channel[v]} => status[v] = "draft"
  /\ LET rv == IF status[v] = "draft" /\ review[v] # "none" THEN "none" ELSE "keep"
     IN  Begin(p, v, SetDoc("update", by, "keep", ch, rv, "keep", status[v] = "published"), "write")
  /\ UNCHANGED decisions

SubmitVersion(p, v) ==
  /\ Submittable(v) /\ ~IsPending(v) /\ EnoughTesters(v)
  /\ Begin(p, v, SetDoc("submit", "editor", "keep", "keep", "pending", "keep", FALSE), "write")
  /\ UNCHANGED decisions

RejectVersion(p, v) ==
  /\ IsPending(v)
  /\ Begin(p, v, SetDoc("reject", "admin", "keep", "keep", "rejected", "keep", FALSE), "write")
  /\ UNCHANGED decisions

WithdrawVersion(p, v, by) ==
  /\ review[v] # "none" /\ status[v] \in {"draft", "published"}
  /\ Begin(p, v, SetDoc("withdraw", by, "keep", "keep", "none", "keep", FALSE), "write")
  /\ UNCHANGED decisions

GoLiveDoc(v, by, st) ==
  IF st = "published" /\ IsBeta(v)
  THEN SetDoc("golive", by, "keep", "production", "keep", "none", TRUE)
  ELSE SetDoc("golive", by, "published", "keep", "keep", "none", TRUE)

\* Mutant of PublishVersion: a scheduled version keeps its pending request.
SchedulePendingKept(p, v, dated) ==
  /\ stored[v] /\ scan[v] = "passed"
  /\ ~(status[v] = "published" /\ ~IsBeta(v))
  /\ EnoughTesters(v)
  /\ decisions[v] < MaxDecisions
  /\ decisions' = [decisions EXCEPT ![v] = @ + 1]
  /\ \/ /\ dated /\ status[v] = "draft"
        /\ Begin(p, v, SetDoc("schedule", "admin", "scheduled", "keep", "keep", "later", FALSE), "write")
     \/ /\ ~(dated /\ status[v] = "draft")
        /\ Begin(p, v, GoLiveDoc(v, "admin", status[v]),
                 IF IsPending(v) THEN "approve" ELSE "write")

\* publish: at a future date for a draft (dated), otherwise now.
PublishVersion(p, v, dated) ==
  /\ stored[v] /\ scan[v] = "passed"
  /\ ~(status[v] = "published" /\ ~IsBeta(v))
  /\ EnoughTesters(v)
  /\ decisions[v] < MaxDecisions
  /\ decisions' = [decisions EXCEPT ![v] = @ + 1]
  /\ \/ /\ dated /\ status[v] = "draft"
        /\ LET approved == IF IsPending(v) THEN "approved" ELSE review[v]
           IN  Begin(p, v, SetDoc("schedule", "admin", "scheduled", "keep", approved, "later", FALSE),
                     "write")
     \/ /\ ~(dated /\ status[v] = "draft")
        /\ Begin(p, v, GoLiveDoc(v, "admin", status[v]),
                 IF IsPending(v) THEN "approve" ELSE "write")

\* Mutant of UnscheduleVersion: the date is removed, the status forgotten.
UnscheduleDateOnly(p, v, by) ==
  /\ status[v] = "scheduled"
  /\ Begin(p, v, SetDoc("unschedule", by, "keep", "keep", "none", "none", FALSE), "write")
  /\ UNCHANGED decisions

UnscheduleVersion(p, v, by) ==
  /\ status[v] = "scheduled"
  /\ Begin(p, v, SetDoc("unschedule", by, "draft", "keep", "none", "none", FALSE), "write")
  /\ UNCHANGED decisions

\* Mutant of ArchiveVersion: the catalog fields are not recomputed.
ArchiveNoRefresh(p, v, by) ==
  /\ MayTouch(v, by)
  /\ Begin(p, v, SetDoc("archive", by, "archived", "keep", "none", "keep", FALSE), "write")
  /\ UNCHANGED decisions

ArchiveVersion(p, v, by) ==
  /\ MayTouch(v, by)
  /\ Begin(p, v, SetDoc("archive", by, "archived", "keep", "none", "keep", TRUE), "write")
  /\ UNCHANGED decisions

RescanVersion(p, v, by) ==
  /\ stored[v]
  /\ Len(queue) < MaxQueue
  /\ Begin(p, v, SetDoc("rescan", by, "keep", "keep", "none", "keep", FALSE), "write")
  /\ UNCHANGED decisions

Request(p) ==
  \E v \in Versions :
    \/ SubmitVersion(p, v)
    \/ RejectVersion(p, v)
    \/ \E dated \in BOOLEAN : PublishVersion(p, v, dated)
    \/ \E by \in {"admin", "editor"} :
         \/ \E ch \in Channel \cup {"keep"} : UpdateVersion(p, v, by, ch)
         \/ WithdrawVersion(p, v, by)
         \/ UnscheduleVersion(p, v, by)
         \/ ArchiveVersion(p, v, by)
         \/ RescanVersion(p, v, by)

-----------------------------------------------------------------------------
(***************************************************************************)
(* Writing half, common to every actor.                                    *)
(***************************************************************************)

\* One field of a $set on version v.
Put(f, v, x) == IF x = "keep" THEN f ELSE [f EXCEPT ![v] = x]

\* Where an actor goes; an actor that ends forgets its snapshot.
Goto(p, at) ==
  /\ pc' = [pc EXCEPT ![p] = at]
  /\ ver' = IF at = "idle" THEN [ver EXCEPT ![p] = NoVersion] ELSE ver
  /\ doc' = IF at = "idle" THEN [doc EXCEPT ![p] = NoDoc] ELSE doc

\* publish_version approves a pending request before it calls go_live.
ApproveReview(p) ==
  /\ pc[p] = "approve"
  /\ review' = [review EXCEPT ![ver[p]] = "approved"]
  /\ Goto(p, "write")
  /\ UNCHANGED <<status, channel, schedAt, scan, stored, testersOk, shown, queue,
                 seen, todo, historyVars>>

\* A write that settles the status of v is no longer a lost reservation.
StillStranded(v, st) == IF st = "keep" THEN stranded ELSE stranded \ {v}

\* update_one of the version; a rescan also queues it, before its next await.
WriteVersion(p) ==
  /\ pc[p] = "write"
  /\ status' = Put(status, ver[p], doc[p].status)
  /\ channel' = Put(channel, ver[p], doc[p].channel)
  /\ review' = Put(review, ver[p], doc[p].review)
  /\ schedAt' = Put(schedAt, ver[p], doc[p].schedAt)
  /\ scan' = IF doc[p].op = "rescan" THEN [scan EXCEPT ![ver[p]] = "pending"] ELSE scan
  /\ queue' = IF doc[p].op = "rescan" THEN Append(queue, ver[p]) ELSE queue
  /\ lives' = IF doc[p].op = "golive" THEN [lives EXCEPT ![ver[p]] = @ + 1] ELSE lives
  /\ stranded' = StillStranded(ver[p], doc[p].status)
  /\ Goto(p, IF doc[p].refresh THEN "refresh" ELSE "idle")
  /\ UNCHANGED <<stored, testersOk, shown, seen, todo, decisions, returned>>

\* A rescan whose update_one is applied and raises: nothing is queued.
RescanUnqueued(p) ==
  /\ "exception" \in Faults
  /\ pc[p] = "write" /\ doc[p].op = "rescan"
  /\ review' = Put(review, ver[p], doc[p].review)
  /\ scan' = [scan EXCEPT ![ver[p]] = "pending"]
  /\ Goto(p, "idle")
  /\ UNCHANGED <<status, channel, schedAt, stored, testersOk, shown, queue,
                 seen, todo, historyVars>>

\* Mutant of RefreshRead: the filter on the published status is missing.
RefreshReadStored(p) ==
  /\ pc[p] = "refresh"
  /\ seen' = [seen EXCEPT ![p] = {v \in Versions : stored[v]}]
  /\ Goto(p, "catalog")
  /\ UNCHANGED <<storeVars, todo, historyVars>>

\* refresh_app_catalog_fields: the versions are read, ...
RefreshRead(p) ==
  /\ pc[p] = "refresh"
  /\ seen' = [seen EXCEPT ![p] = Public]
  /\ Goto(p, "catalog")
  /\ UNCHANGED <<storeVars, todo, historyVars>>

\* ... then the app is written from what was read.
RefreshWrite(p) ==
  /\ pc[p] = "catalog"
  /\ shown' = seen[p]
  /\ seen' = [seen EXCEPT ![p] = {}]
  /\ Goto(p, IF doc[p].op = "golive" THEN "notify" ELSE "idle")
  /\ UNCHANGED <<status, channel, review, schedAt, scan, stored, testersOk, queue,
                 todo, historyVars>>

\* Rest of go_live: activity log, e-mail, push.
Notify(p) ==
  /\ pc[p] = "notify"
  /\ Goto(p, "idle")
  /\ UNCHANGED <<storeVars, seen, todo, historyVars>>

\* A request that ends early: an exception (500), or its process dies.
RequestAborted(p) ==
  /\ Faults # {}
  /\ p \in Requests /\ pc[p] # "idle"
  /\ Goto(p, "idle")
  /\ seen' = [seen EXCEPT ![p] = {}]
  /\ UNCHANGED <<storeVars, todo, historyVars>>

Work(p) ==
  ApproveReview(p) \/ WriteVersion(p) \/ RefreshRead(p) \/ RefreshWrite(p) \/ Notify(p)

-----------------------------------------------------------------------------
(***************************************************************************)
(* The scheduler: publish_due, run every 30 s by scheduler_loop.           *)
(***************************************************************************)

Due == {v \in Versions : status[v] = "scheduled" /\ schedAt[v] = "due"}

\* Mutant of FindDue: the comparison with the date is inverted.
FindDueEarly(s) ==
  /\ Free(s) /\ todo[s] = {}
  /\ \E v \in Versions : status[v] = "scheduled" /\ schedAt[v] = "later"
  /\ todo' = [todo EXCEPT ![s] = {v \in Versions : status[v] = "scheduled" /\ schedAt[v] = "later"}]
  /\ UNCHANGED <<storeVars, pc, ver, doc, seen, historyVars>>

FindDue(s) ==
  /\ Free(s) /\ todo[s] = {}
  /\ Due # {}
  /\ todo' = [todo EXCEPT ![s] = Due]
  /\ UNCHANGED <<storeVars, pc, ver, doc, seen, historyVars>>

\* Mutant of Claim: the reservation does not check the status.
ClaimUnchecked(s, v) ==
  /\ Free(s) /\ v \in todo[s]
  /\ status' = [status EXCEPT ![v] = "publishing"]
  /\ todo' = [todo EXCEPT ![s] = @ \ {v}]
  /\ pc' = [pc EXCEPT ![s] = "write"]
  /\ ver' = [ver EXCEPT ![s] = v]
  /\ doc' = [doc EXCEPT ![s] = GoLiveDoc(v, "system", "draft")]
  /\ UNCHANGED <<channel, review, schedAt, scan, stored, testersOk, shown, queue,
                 seen, historyVars>>

\* Atomic reservation: find_one_and_update on the status alone.
Claim(s, v) ==
  /\ Free(s) /\ v \in todo[s]
  /\ status[v] = "scheduled"
  /\ status' = [status EXCEPT ![v] = "publishing"]
  /\ todo' = [todo EXCEPT ![s] = @ \ {v}]
  /\ pc' = [pc EXCEPT ![s] = "write"]
  /\ ver' = [ver EXCEPT ![s] = v]
  /\ doc' = [doc EXCEPT ![s] = GoLiveDoc(v, "system", "draft")]
  /\ UNCHANGED <<channel, review, schedAt, scan, stored, testersOk, shown, queue,
                 seen, historyVars>>

\* Another instance, or a handler, was faster.
SkipClaim(s, v) ==
  /\ Free(s) /\ v \in todo[s]
  /\ status[v] # "scheduled"
  /\ todo' = [todo EXCEPT ![s] = @ \ {v}]
  /\ UNCHANGED <<storeVars, pc, ver, doc, seen, historyVars>>

\* Mutant of GoLiveRaises: without the except branch.
GoLiveRaisesUncaught(s) ==
  /\ "exception" \in Faults
  /\ pc[s] \in {"write", "refresh", "catalog", "notify"}
  /\ Goto(s, "idle")
  /\ seen' = [seen EXCEPT ![s] = {}]
  /\ UNCHANGED <<storeVars, todo, historyVars>>

\* go_live raises, before or after any of its writes, ...
GoLiveRaises(s) ==
  /\ "exception" \in Faults
  /\ pc[s] \in {"write", "refresh", "catalog", "notify"}
  /\ returned' = IF pc[s] = "write" THEN returned ELSE [returned EXCEPT ![ver[s]] = @ + 1]
  /\ Goto(s, "recover")
  /\ seen' = [seen EXCEPT ![s] = {}]
  /\ UNCHANGED <<storeVars, todo, decisions, lives, stranded>>

\* ... and the except branch gives the version back.
Restore(s) ==
  /\ pc[s] = "recover"
  /\ status' = [status EXCEPT ![ver[s]] = "scheduled"]
  /\ stranded' = stranded \ {ver[s]}
  /\ Goto(s, "idle")
  /\ UNCHANGED <<channel, review, schedAt, scan, stored, testersOk, shown, queue,
                 seen, todo, decisionVars>>

\* The reservation that scheduler s leaves behind when it ends where it is.
LeftBehind(s) ==
  {v \in Versions : /\ ver[s] = v /\ pc[s] \in {"write", "recover"}
                    /\ status[v] = "publishing"}

Ends(s) ==
  /\ Goto(s, "idle")
  /\ seen' = [seen EXCEPT ![s] = {}]
  /\ todo' = [todo EXCEPT ![s] = {}]
  /\ stranded' = stranded \cup LeftBehind(s)
  /\ UNCHANGED <<storeVars, decisionVars>>

\* Out of publish_due: the cursor or the reservation raises without effect,
\* or the except branch's own update does.
PublishDueRaises(s) ==
  /\ "exception" \in Faults
  /\ pc[s] = "recover" \/ (pc[s] = "idle" /\ todo[s] # {})
  /\ Ends(s)

\* The reservation, outside the try, is applied and raises (no answer).
ClaimUnacknowledged(s, v) ==
  /\ "exception" \in Faults
  /\ Free(s) /\ v \in todo[s]
  /\ status[v] = "scheduled"
  /\ status' = [status EXCEPT ![v] = "publishing"]
  /\ todo' = [todo EXCEPT ![s] = {}]
  /\ stranded' = stranded \cup {v}
  /\ UNCHANGED <<channel, review, schedAt, scan, stored, testersOk, shown, queue,
                 pc, ver, doc, seen, decisionVars>>

\* The instance stops.
SchedulerCrash(s) ==
  /\ "crash" \in Faults
  /\ pc[s] # "idle" \/ todo[s] # {}
  /\ Ends(s)

SchedulerFails(s) ==
  \/ GoLiveRaises(s) \/ PublishDueRaises(s) \/ SchedulerCrash(s)
  \/ \E v \in Versions : ClaimUnacknowledged(s, v)

SchedulerWork(s) ==
  \/ FindDue(s)
  \/ \E v \in Versions : Claim(s, v) \/ SkipClaim(s, v)
  \/ Restore(s)

-----------------------------------------------------------------------------
(***************************************************************************)
(* Environment.  The scan worker is seen from outside here (Scanning       *)
(* models it): the version at the head of the queue gets a verdict; one    *)
(* rescanned during its scan is queued twice and gets two.                 *)
(***************************************************************************)

ScanVerdict(v, verdict) ==
  /\ queue # <<>> /\ Head(queue) = v
  /\ scan' = [scan EXCEPT ![v] = verdict]
  /\ queue' = Tail(queue)
  /\ UNCHANGED <<status, channel, review, schedAt, stored, testersOk, shown,
                 actorVars, historyVars>>

Uploads == \E v \in Versions : UploadStored(v) /\ UNCHANGED <<actorVars, historyVars>>
Testers == SetTesters /\ UNCHANGED <<actorVars, historyVars>>
Clock   == \E v \in Versions : DateComes(v) /\ UNCHANGED <<actorVars, historyVars>>
Scanner == \E v \in Versions, verdict \in {"passed", "failed"} : ScanVerdict(v, verdict)

ReleaseActors ==
  \/ \E p \in Requests : Request(p) \/ RequestAborted(p)
  \/ \E p \in Actors : Work(p)
  \/ \E s \in Schedulers : SchedulerWork(s) \/ SchedulerFails(s)

RescanFails == \E p \in Requests : RescanUnqueued(p)

ReleaseNext == ReleaseActors \/ RescanFails \/ Uploads \/ Testers \/ Clock \/ Scanner

ReleaseSpec == ReleaseInit /\ [][ReleaseNext]_releaseVars

(***************************************************************************)
(* Fairness: a request runs to its end, scheduler_loop is restarted and    *)
(* never stops looking, time passes.  An instance does not stop each time  *)
(* between its find and its reservation, nor does go_live raise each time  *)
(* it is retried (strong fairness).  Nothing obliges a member or the admin *)
(* to ask for anything.                                                    *)
(***************************************************************************)
ReleaseFairness ==
  /\ \A p \in Requests : WF_releaseVars(Work(p))
  /\ \A s \in Schedulers :
       /\ SF_releaseVars(Work(s))
       /\ SF_releaseVars(\E v \in Versions : Claim(s, v) \/ SkipClaim(s, v))
       /\ WF_releaseVars(SchedulerWork(s))
  /\ WF_releaseVars(Clock)

FairReleaseSpec == ReleaseSpec /\ ReleaseFairness

-----------------------------------------------------------------------------
(***************************************************************************)
(* Properties.                                                             *)
(***************************************************************************)

(***************************************************************************)
(* Every publication or promotion, by a handler or by the scheduler of any *)
(* instance, uses up one decision of the admin of its own: no decision     *)
(* publishes twice, whatever handlers, schedulers and crashes interleave   *)
(* (the atomic claim of publish_due, and publish_version as the only       *)
(* writer of "scheduled" outside it).  Only a publication that raised      *)
(* after it was written gives its decision back, for the retry.            *)
(***************************************************************************)
Gate == INSTANCE ReleaseGate WITH
  MayFail <- "exception" \in Faults,
  live    <- {v \in Versions : status[v] = "published"},
  past    <- {v \in Versions : lives[v] > 0},
  permits <- [v \in Versions |-> decisions[v] - lives[v] + returned[v]]

ImplementsGate == Gate!Spec

\* Actors whose next write will publish v, schedule it, or give it back.
Holders(v) == {p \in Actors : /\ ver[p] = v
                              /\ pc[p] \in {"approve", "write", "recover"}
                              /\ doc[p].op \in {"golive", "schedule"}}

\* The strengthening: decisions not used yet cover every pending publication.
PermitsInv ==
  \A v \in Versions :
    lives[v] + Cardinality(Holders(v)) + (IF status[v] = "scheduled" THEN 1 ELSE 0)
      <= decisions[v] + returned[v]

(***************************************************************************)
(* "The version becomes `scheduled` and a background task publishes it at  *)
(* that time": a scheduled version always has its time, or publish_due     *)
(* would never select it again, whatever publications, promotions and      *)
(* returns to draft came before.  (It breaks when go_live raises after its *)
(* first write: the version is given back without its date.)               *)
(***************************************************************************)
ScheduledHasDate == \A v \in Versions : status[v] = "scheduled" => schedAt[v] # "none"

(***************************************************************************)
(* "publishing" is a reservation: a version in that status belongs to a    *)
(* scheduler that will publish it or give it back, even when go_live       *)
(* raises at any point.  Three things alone break this, and only until     *)
(* the status is written again: the stop of the instance, a reservation    *)
(* applied but not acknowledged, and the failure of the update in the      *)
(* except branch (stranded).                                               *)
(***************************************************************************)
Owned(v) == \E s \in Schedulers : ver[s] = v /\ pc[s] \in {"write", "recover"}

ClaimHeld ==
  \A v \in Versions : status[v] = "publishing" => Owned(v) \/ v \in stranded

(***************************************************************************)
(* "Nothing goes live without the platform admin": scheduled, reserved or  *)
(* published, the admin has decided it, and what the catalog fields        *)
(* advertise has been put online by go_live, under every fault.            *)
(***************************************************************************)
NothingWithoutAdmin ==
  \A v \in Versions :
    /\ status[v] \in {"scheduled", "publishing", "published"} => decisions[v] > 0
    /\ v \in shown => lives[v] > 0 /\ decisions[v] > 0

(***************************************************************************)
(* When no handler is running, the catalog fields of the app describe      *)
(* exactly its public versions (refresh_app_catalog_fields is called by    *)
(* every handler that changes what is public).                             *)
(***************************************************************************)
Quiet == \A p \in Actors : pc[p] = "idle"

CatalogFresh == Quiet => shown = Public

(***************************************************************************)
(* A version leaves "published" only by a request of the platform admin.   *)
(***************************************************************************)
OnlyAdminUnpublishes ==
  [][\A v \in Versions :
       status[v] = "published" /\ status'[v] # "published" =>
         \E p \in Requests : pc[p] = "write" /\ ver[p] = v /\ doc[p].by = "admin"
                               /\ pc'[p] # "write"]_releaseVars

(***************************************************************************)
(* A request that waits for the admin is about a version he can still      *)
(* publish: a draft, or a beta online (_submittable).  Every handler that  *)
(* moves a version on also settles or cancels its request.                 *)
(***************************************************************************)
PendingDecidable ==
  \A v \in Versions : IsPending(v) =>
    status[v] = "draft" \/ (status[v] = "published" /\ IsBeta(v))

(***************************************************************************)
(* Only a version whose scan has passed is put online.                     *)
(***************************************************************************)
OnlyScannedGoLive ==
  [][\A v \in Versions : lives'[v] > lives[v] => scan[v] = "passed"]_releaseVars

(***************************************************************************)
(* A scheduled version whose date has come is taken by a scheduler (or     *)
(* leaves the schedule by a request): it does not stay due for ever, and   *)
(* a reserved version does not stay reserved for ever, unless the          *)
(* reservation was left behind (stranded), which nothing repairs.          *)
(***************************************************************************)
DueIsPublished ==
  \A v \in Versions :
    v \in Due ~> v \notin Due /\ (status[v] = "publishing" => v \in stranded)
=============================================================================
