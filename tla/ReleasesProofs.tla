--------------------------- MODULE ReleasesProofs ---------------------------
(***************************************************************************)
(* Proofs about Releases, Scanning and Lifecycle, for every set of         *)
(* versions, requests, schedulers and instances, and every bound.          *)
(***************************************************************************)
EXTENDS Lifecycle, FiniteSetTheorems, SequenceTheorems, TLAPS

-----------------------------------------------------------------------------
(***************************************************************************)
(* Type correctness.                                                       *)
(***************************************************************************)

\* Every $set the handlers and the scheduler prepare is a document.
LEMMA SetDocType ==
  ASSUME NEW op \in Operation, NEW by \in {"admin", "editor", "system"},
         NEW st \in Status \cup {"keep"}, NEW ch \in Channel \cup {"keep"},
         NEW rv \in Review \cup {"keep"}, NEW at \in ScheduledAt \cup {"keep"},
         NEW refresh \in BOOLEAN
  PROVE  SetDoc(op, by, st, ch, rv, at, refresh) \in Doc
BY DEF SetDoc, Doc

LEMMA NoDocType == NoDoc \in Doc
BY SetDocType DEF NoDoc, Operation

LEMMA GoLiveDocType ==
  ASSUME NEW v, NEW by \in {"admin", "system"}, NEW st
  PROVE  GoLiveDoc(v, by, st) \in Doc
BY SetDocType DEF GoLiveDoc, Operation, Status, Channel, ScheduledAt

\* Goto keeps the types of the variables it changes.
LEMMA GotoType ==
  ASSUME ReleaseTypeOK,
         NEW p \in Actors, NEW at \in Step, Goto(p, at),
         pc[p] # "idle",
         p \in Requests => at # "recover",
         p \in Schedulers => at # "approve"
  PROVE  /\ pc' \in [Actors -> Step]
         /\ ver' \in [Actors -> Versions \cup {NoVersion}]
         /\ doc' \in [Actors -> Doc]
         /\ \A q \in Actors : pc'[q] # "idle" => ver'[q] \in Versions
         /\ \A q \in Requests : pc'[q] # "recover"
         /\ \A q \in Schedulers : pc'[q] # "approve"
BY NoDocType, ActorsAssumption DEF Goto, ReleaseTypeOK, Actors, Step

\* Only go_live publishes, only publish_version schedules.
DocOk(d) ==
  /\ d.status = "published" => d.op = "golive"
  /\ d.op = "golive" => d.status \in {"published", "keep"}
  /\ d.status = "scheduled" => d.op = "schedule"
  /\ d.status # "publishing"

Decides(d) == d.op \in {"golive", "schedule"}

\* A document made by a handler that neither publishes nor schedules.
LEMMA PlainDoc ==
  ASSUME NEW op \in Operation \ {"golive", "schedule"}, NEW by,
         NEW st \in {"keep", "draft", "archived"}, NEW ch, NEW rv, NEW at, NEW refresh
  PROVE  DocOk(SetDoc(op, by, st, ch, rv, at, refresh))
         /\ ~Decides(SetDoc(op, by, st, ch, rv, at, refresh))
BY DEF DocOk, Decides, SetDoc

LEMMA GoLiveDocOk ==
  ASSUME NEW v, NEW by, NEW st
  PROVE  DocOk(GoLiveDoc(v, by, st)) /\ GoLiveDoc(v, by, st).op = "golive"
BY DEF DocOk, GoLiveDoc, SetDoc

\* What the reading half of every handler does, seen from its writing half:
\* it counts a decision for what it will publish or schedule, and only then.
Begins(p, v, d, at) ==
  /\ Begin(p, v, d, at)
  /\ DocOk(d)
  /\ \/ ~Decides(d) /\ decisions' = decisions
     \/ Decides(d) /\ decisions' = [decisions EXCEPT ![v] = @ + 1]

LEMMA RequestBegins ==
  ASSUME ReleaseTypeOK, NEW p \in Requests, Request(p)
  PROVE  \E v \in Versions, d \in Doc, at \in {"approve", "write"} : Begins(p, v, d, at)
<1> PICK v \in Versions :
      \/ SubmitVersion(p, v)
      \/ RejectVersion(p, v)
      \/ \E dated \in BOOLEAN : PublishVersion(p, v, dated)
      \/ \E by \in {"admin", "editor"} :
           \/ \E ch \in Channel \cup {"keep"} : UpdateVersion(p, v, by, ch)
           \/ WithdrawVersion(p, v, by)
           \/ UnscheduleVersion(p, v, by)
           \/ ArchiveVersion(p, v, by)
           \/ RescanVersion(p, v, by)
  BY DEF Request
<1> SUFFICES \E d \in Doc, at \in {"approve", "write"} : Begins(p, v, d, at)
  OBVIOUS
<1> USE DEF Operation, Status, Review, ScheduledAt, Begins
<1>1. CASE SubmitVersion(p, v)
  BY <1>1, SetDocType, PlainDoc DEF SubmitVersion
<1>2. CASE RejectVersion(p, v)
  BY <1>2, SetDocType, PlainDoc DEF RejectVersion
<1>3. ASSUME NEW dated \in BOOLEAN, PublishVersion(p, v, dated)
      PROVE  \E d \in Doc, at \in {"approve", "write"} : Begins(p, v, d, at)
  <2>1. review[v] \in Review
    BY DEF ReleaseTypeOK, StoreTypeOK
  <2>2. ASSUME NEW rv
        PROVE  LET d == SetDoc("schedule", "admin", "scheduled", "keep", rv, "later", FALSE)
               IN  DocOk(d) /\ Decides(d)
    BY DEF DocOk, Decides, SetDoc
  <2>3. Decides(GoLiveDoc(v, "admin", status[v]))
    BY GoLiveDocOk DEF Decides
  <2>4. QED
    BY <1>3, <2>1, <2>2, <2>3, SetDocType, GoLiveDocType, GoLiveDocOk DEF PublishVersion
<1>4. ASSUME NEW by \in {"admin", "editor"}, NEW ch \in Channel \cup {"keep"},
             UpdateVersion(p, v, by, ch)
      PROVE  \E d \in Doc, at \in {"approve", "write"} : Begins(p, v, d, at)
  BY <1>4, SetDocType, PlainDoc DEF UpdateVersion
<1>5. ASSUME NEW by \in {"admin", "editor"}, WithdrawVersion(p, v, by)
      PROVE  \E d \in Doc, at \in {"approve", "write"} : Begins(p, v, d, at)
  BY <1>5, SetDocType, PlainDoc DEF WithdrawVersion
<1>6. ASSUME NEW by \in {"admin", "editor"}, UnscheduleVersion(p, v, by)
      PROVE  \E d \in Doc, at \in {"approve", "write"} : Begins(p, v, d, at)
  BY <1>6, SetDocType, PlainDoc DEF UnscheduleVersion
<1>7. ASSUME NEW by \in {"admin", "editor"}, ArchiveVersion(p, v, by)
      PROVE  \E d \in Doc, at \in {"approve", "write"} : Begins(p, v, d, at)
  BY <1>7, SetDocType, PlainDoc DEF ArchiveVersion
<1>8. ASSUME NEW by \in {"admin", "editor"}, RescanVersion(p, v, by)
      PROVE  \E d \in Doc, at \in {"approve", "write"} : Begins(p, v, d, at)
  BY <1>8, SetDocType, PlainDoc DEF RescanVersion
<1>9. QED
  BY <1>1, <1>2, <1>3, <1>4, <1>5, <1>6, <1>7, <1>8

\* A reading half keeps the types.
LEMMA BeginType ==
  ASSUME ReleaseTypeOK,
         NEW p \in Requests, NEW v \in Versions, NEW d \in Doc, NEW at \in {"approve", "write"},
         Begins(p, v, d, at)
  PROVE  ReleaseTypeOK'
<1>1. UNCHANGED storeVars => StoreTypeOK'
  BY DEF ReleaseTypeOK, StoreTypeOK, storeVars
<1>2. p \in Actors /\ p \notin Schedulers
  BY ActorsAssumption DEF Actors
<1>3. /\ pc' \in [Actors -> Step]
      /\ ver' \in [Actors -> Versions \cup {NoVersion}]
      /\ doc' \in [Actors -> Doc]
  BY <1>2 DEF Begins, Begin, ReleaseTypeOK, Step
<1>4. decisions' \in [Versions -> Nat]
  BY DEF Begins, ReleaseTypeOK
<1>5. /\ \A q \in Actors : pc'[q] # "idle" => ver'[q] \in Versions
      /\ \A q \in Requests : pc'[q] # "recover"
      /\ \A q \in Schedulers : pc'[q] # "approve"
  BY <1>2 DEF Begins, Begin, ReleaseTypeOK, Actors
<1>6. QED
  BY <1>1, <1>3, <1>4, <1>5 DEF Begins, Begin, ReleaseTypeOK

\* The steps every actor shares.
LEMMA WorkType ==
  ASSUME ReleaseTypeOK, NEW p \in Actors, Work(p)
  PROVE  ReleaseTypeOK'
<1>1. ASSUME pc[p] # "idle"
      PROVE  ver[p] \in Versions /\ doc[p] \in Doc
  BY <1>1 DEF ReleaseTypeOK
<1>2. CASE ApproveReview(p)
  <2>1. "write" \in Step /\ pc[p] # "idle"
    BY <1>2 DEF ApproveReview, Step
  <2>2. StoreTypeOK'
    BY <1>2, <1>1, <2>1 DEF ApproveReview, ReleaseTypeOK, StoreTypeOK, Review
  <2>3. QED
    BY <1>2, <2>1, <2>2, GotoType DEF ApproveReview, ReleaseTypeOK, historyVars, decisionVars
<1>3. CASE WriteVersion(p)
  <2>1. {"refresh", "idle"} \subseteq Step /\ pc[p] # "idle"
    BY <1>3 DEF WriteVersion, Step
  <2>2. status' \in [Versions -> Status] /\ channel' \in [Versions -> Channel]
    BY <1>3, <1>1, <2>1 DEF WriteVersion, ReleaseTypeOK, StoreTypeOK, Put, Doc
  <2>3. review' \in [Versions -> Review] /\ schedAt' \in [Versions -> ScheduledAt]
    BY <1>3, <1>1, <2>1 DEF WriteVersion, ReleaseTypeOK, StoreTypeOK, Put, Doc
  <2>4. scan' \in [Versions -> ScanStatus] /\ queue' \in Seq(Versions)
    BY <1>3, <1>1, <2>1 DEF WriteVersion, ReleaseTypeOK, StoreTypeOK, ScanStatus
  <2>5. lives' \in [Versions -> Nat] /\ stranded' \in SUBSET Versions
    BY <1>3, <1>1, <2>1 DEF WriteVersion, StillStranded, ReleaseTypeOK
  <2>6. StoreTypeOK'
    BY <1>3, <2>2, <2>3, <2>4 DEF WriteVersion, ReleaseTypeOK, StoreTypeOK
  <2>7. PICK at \in {"refresh", "idle"} : Goto(p, at)
    BY <1>3 DEF WriteVersion
  <2>8. QED
    BY <1>3, <2>1, <2>5, <2>6, <2>7, GotoType DEF WriteVersion, ReleaseTypeOK
<1>4. CASE RefreshRead(p)
  <2>1. "catalog" \in Step /\ pc[p] # "idle"
    BY <1>4 DEF RefreshRead, Step
  <2>2. StoreTypeOK'
    BY <1>4 DEF RefreshRead, ReleaseTypeOK, StoreTypeOK, storeVars
  <2>3. seen' \in [Actors -> SUBSET Versions]
    BY <1>4 DEF RefreshRead, ReleaseTypeOK, Public
  <2>4. QED
    BY <1>4, <2>1, <2>2, <2>3, GotoType DEF RefreshRead, ReleaseTypeOK, historyVars, decisionVars
<1>5. CASE RefreshWrite(p)
  <2>1. {"notify", "idle"} \subseteq Step /\ pc[p] # "idle"
    BY <1>5 DEF RefreshWrite, Step
  <2>2. StoreTypeOK' /\ seen' \in [Actors -> SUBSET Versions]
    BY <1>5 DEF RefreshWrite, ReleaseTypeOK, StoreTypeOK
  <2>3. PICK at \in {"notify", "idle"} : Goto(p, at)
    BY <1>5 DEF RefreshWrite
  <2>4. QED
    BY <1>5, <2>1, <2>2, <2>3, GotoType DEF RefreshWrite, ReleaseTypeOK, historyVars, decisionVars
<1>6. CASE Notify(p)
  <2>1. "idle" \in Step /\ pc[p] # "idle"
    BY <1>6 DEF Notify, Step
  <2>2. StoreTypeOK'
    BY <1>6 DEF Notify, ReleaseTypeOK, StoreTypeOK, storeVars
  <2>3. QED
    BY <1>6, <2>1, <2>2, GotoType DEF Notify, ReleaseTypeOK, historyVars, decisionVars
<1>7. QED
  BY <1>2, <1>3, <1>4, <1>5, <1>6 DEF Work

LEMMA AbortType ==
  ASSUME ReleaseTypeOK, NEW p \in Requests, RequestAborted(p)
  PROVE  ReleaseTypeOK'
<1>1. p \in Actors /\ p \notin Schedulers /\ "idle" \in Step
  BY ActorsAssumption DEF Actors, Step
<1>2. StoreTypeOK' /\ seen' \in [Actors -> SUBSET Versions]
  BY DEF RequestAborted, ReleaseTypeOK, StoreTypeOK, storeVars
<1>3. QED
  BY <1>1, <1>2, GotoType DEF RequestAborted, ReleaseTypeOK, historyVars, decisionVars

LEMMA SchedulerType ==
  ASSUME ReleaseTypeOK, NEW s \in Schedulers,
         SchedulerWork(s) \/ SchedulerFails(s)
  PROVE  ReleaseTypeOK'
<1>1. s \in Actors /\ s \notin Requests /\ {"idle", "write", "recover"} \subseteq Step
  BY ActorsAssumption DEF Actors, Step
<1>2. CASE FindDue(s)
  BY <1>2 DEF FindDue, ReleaseTypeOK, StoreTypeOK, storeVars, historyVars, decisionVars, Due
<1>3. ASSUME NEW v \in Versions, Claim(s, v)
      PROVE  ReleaseTypeOK'
  <2>1. StoreTypeOK'
    BY <1>3 DEF Claim, ReleaseTypeOK, StoreTypeOK, Status
  <2>2. doc' \in [Actors -> Doc]
    BY <1>3, GoLiveDocType DEF Claim, ReleaseTypeOK
  <2>3. /\ pc' \in [Actors -> Step]
        /\ ver' \in [Actors -> Versions \cup {NoVersion}]
        /\ todo' \in [Schedulers -> SUBSET Versions]
    BY <1>1, <1>3 DEF Claim, ReleaseTypeOK
  <2>4. /\ \A q \in Actors : pc'[q] # "idle" => ver'[q] \in Versions
        /\ \A q \in Requests : pc'[q] # "recover"
        /\ \A q \in Schedulers : pc'[q] # "approve"
    BY <1>1, <1>3 DEF Claim, ReleaseTypeOK, Actors
  <2>5. QED
    BY <1>3, <2>1, <2>2, <2>3, <2>4 DEF Claim, ReleaseTypeOK, historyVars, decisionVars
<1>4. ASSUME NEW v \in Versions, SkipClaim(s, v)
      PROVE  ReleaseTypeOK'
  BY <1>4 DEF SkipClaim, ReleaseTypeOK, StoreTypeOK, storeVars, historyVars, decisionVars
<1>5. CASE Restore(s)
  <2>1. StoreTypeOK'
    BY <1>1, <1>5 DEF Restore, ReleaseTypeOK, StoreTypeOK, Status
  <2>2. stranded' \in SUBSET Versions
    BY <1>5 DEF Restore, ReleaseTypeOK
  <2>3. QED
    BY <1>1, <1>5, <2>1, <2>2, GotoType DEF Restore, ReleaseTypeOK, decisionVars
<1>6. CASE GoLiveRaises(s)
  <2>1. StoreTypeOK' /\ seen' \in [Actors -> SUBSET Versions]
    BY <1>6 DEF GoLiveRaises, ReleaseTypeOK, StoreTypeOK, storeVars
  <2>2. pc[s] # "idle"
    BY <1>6 DEF GoLiveRaises
  <2>3. returned' \in [Versions -> Nat]
    BY <1>1, <1>6, <2>2 DEF GoLiveRaises, ReleaseTypeOK
  <2>4. QED
    BY <1>1, <1>6, <2>1, <2>2, <2>3, GotoType DEF GoLiveRaises, ReleaseTypeOK
<1>7. CASE Ends(s)
  <2>1. /\ StoreTypeOK' /\ seen' \in [Actors -> SUBSET Versions]
        /\ todo' \in [Schedulers -> SUBSET Versions]
        /\ stranded' \in SUBSET Versions
    BY <1>7 DEF Ends, LeftBehind, ReleaseTypeOK, StoreTypeOK, storeVars
  <2>2. /\ pc' \in [Actors -> Step]
        /\ ver' \in [Actors -> Versions \cup {NoVersion}]
        /\ doc' \in [Actors -> Doc]
    BY <1>1, <1>7, NoDocType DEF Ends, Goto, ReleaseTypeOK
  <2>3. /\ \A q \in Actors : pc'[q] # "idle" => ver'[q] \in Versions
        /\ \A q \in Requests : pc'[q] # "recover"
        /\ \A q \in Schedulers : pc'[q] # "approve"
    BY <1>1, <1>7 DEF Ends, Goto, ReleaseTypeOK, Actors
  <2>4. QED
    BY <1>7, <2>1, <2>2, <2>3 DEF Ends, ReleaseTypeOK, decisionVars
<1>8. ASSUME NEW v \in Versions, ClaimUnacknowledged(s, v)
      PROVE  ReleaseTypeOK'
  <2>1. StoreTypeOK' /\ todo' \in [Schedulers -> SUBSET Versions] /\ stranded' \in SUBSET Versions
    BY <1>8 DEF ClaimUnacknowledged, ReleaseTypeOK, StoreTypeOK, Status
  <2>2. QED
    BY <1>8, <2>1 DEF ClaimUnacknowledged, ReleaseTypeOK, decisionVars
<1>9. QED
  BY <1>2, <1>3, <1>4, <1>5, <1>6, <1>7, <1>8
  DEF SchedulerWork, SchedulerFails, PublishDueRaises, SchedulerCrash

LEMMA RescanFailsType ==
  ASSUME ReleaseTypeOK, NEW p \in Requests, RescanUnqueued(p)
  PROVE  ReleaseTypeOK'
<1>1. p \in Actors /\ p \notin Schedulers /\ "idle" \in Step /\ pc[p] # "idle"
  BY ActorsAssumption DEF Actors, Step, RescanUnqueued
<1>2. ver[p] \in Versions /\ doc[p] \in Doc
  BY <1>1 DEF ReleaseTypeOK
<1>3. review' \in [Versions -> Review] /\ scan' \in [Versions -> ScanStatus]
  BY <1>2 DEF RescanUnqueued, ReleaseTypeOK, StoreTypeOK, Put, Doc, ScanStatus
<1>4. StoreTypeOK'
  BY <1>3 DEF RescanUnqueued, ReleaseTypeOK, StoreTypeOK
<1>5. QED
  BY <1>1, <1>4, GotoType DEF RescanUnqueued, ReleaseTypeOK, historyVars, decisionVars

LEMMA EnvironmentType ==
  ASSUME ReleaseTypeOK, Uploads \/ Testers \/ Clock \/ Scanner
  PROVE  ReleaseTypeOK'
<1>1. UNCHANGED <<actorVars, historyVars>> /\ StoreTypeOK' => ReleaseTypeOK'
  BY DEF ReleaseTypeOK, actorVars, historyVars, decisionVars
<1>2. CASE Uploads
  BY <1>1, <1>2 DEF Uploads, UploadStored, ReleaseTypeOK, StoreTypeOK
<1>3. CASE Testers
  BY <1>1, <1>3 DEF Testers, SetTesters, ReleaseTypeOK, StoreTypeOK
<1>4. CASE Clock
  BY <1>1, <1>4 DEF Clock, DateComes, ReleaseTypeOK, StoreTypeOK, ScheduledAt
<1>5. CASE Scanner
  <2>1. PICK v \in Versions, verdict \in {"passed", "failed"} : ScanVerdict(v, verdict)
    BY <1>5 DEF Scanner
  <2>2. scan' \in [Versions -> ScanStatus]
    BY <2>1 DEF ScanVerdict, ReleaseTypeOK, StoreTypeOK, ScanStatus
  <2>3. queue' \in Seq(Versions)
    BY <2>1 DEF ScanVerdict, ReleaseTypeOK, StoreTypeOK
  <2>4. QED
    BY <1>1, <2>1, <2>2, <2>3 DEF ScanVerdict, ReleaseTypeOK, StoreTypeOK
<1>6. QED
  BY <1>2, <1>3, <1>4, <1>5

LEMMA StoreInitType == StoreInit => StoreTypeOK
<1> SUFFICES ASSUME StoreInit PROVE StoreTypeOK
  OBVIOUS
<1>1. <<>> \in Seq(Versions) /\ {} \in SUBSET Versions /\ FALSE \in BOOLEAN
  OBVIOUS
<1>2. [v \in Versions |-> FALSE] \in [Versions -> BOOLEAN]
  OBVIOUS
<1>3. /\ [v \in Versions |-> "draft"] \in [Versions -> Status]
      /\ [v \in Versions |-> "none"] \in [Versions -> Review]
      /\ [v \in Versions |-> "none"] \in [Versions -> ScheduledAt]
      /\ [v \in Versions |-> "pending"] \in [Versions -> ScanStatus]
  BY DEF Status, Review, ScheduledAt, ScanStatus
<1>4. QED
  BY <1>1, <1>2, <1>3 DEF StoreInit, StoreTypeOK

LEMMA ReleaseInitType == ReleaseInit => ReleaseTypeOK
<1> SUFFICES ASSUME ReleaseInit PROVE ReleaseTypeOK
  OBVIOUS
<1>1. StoreTypeOK
  BY StoreInitType DEF ReleaseInit
<1>2. pc \in [Actors -> Step] /\ \A p \in Actors : pc[p] = "idle"
  BY DEF ReleaseInit, Step
<1>3. QED
  BY <1>1, <1>2, NoDocType DEF ReleaseInit, ReleaseTypeOK, Actors

(***************************************************************************)
(* Whatever interleaves, the documents keep the values the code knows: no  *)
(* handler writes a status, a review or a date outside its set, and an     *)
(* actor that is not idle refers to a version.                             *)
(***************************************************************************)
THEOREM TypeCorrect == ReleaseSpec => []ReleaseTypeOK
<1>1. ReleaseInit => ReleaseTypeOK
  BY ReleaseInitType
<1>2. ReleaseTypeOK /\ [ReleaseNext]_releaseVars => ReleaseTypeOK'
  <2> SUFFICES ASSUME ReleaseTypeOK, [ReleaseNext]_releaseVars
               PROVE  ReleaseTypeOK'
    OBVIOUS
  <2>1. CASE UNCHANGED releaseVars
    BY <2>1 DEF releaseVars, storeVars, actorVars, historyVars, decisionVars, ReleaseTypeOK, StoreTypeOK
  <2>2. CASE ReleaseNext
    BY <2>2, RequestBegins, BeginType, AbortType, WorkType, SchedulerType,
       RescanFailsType, EnvironmentType
    DEF ReleaseNext, ReleaseActors, RescanFails
  <2>3. QED
    BY <2>1, <2>2
<1>3. QED
  BY <1>1, <1>2, PTL DEF ReleaseSpec

-----------------------------------------------------------------------------
(****************************************************************************)
(* Nothing goes live without the platform admin.                           *)
(****************************************************************************)

\* The actors that are about to use a decision of the admin.
Deciding(p) == pc[p] \in {"approve", "write"} /\ Decides(doc[p])

\* The strengthening: where the decision is while nothing shows it yet.
AdminInv ==
  /\ \A v \in Versions :
       /\ status[v] \in {"scheduled", "publishing"} => decisions[v] > 0
       /\ status[v] = "published" => lives[v] > 0
       /\ lives[v] > 0 => decisions[v] > 0
       /\ v \in shown => lives[v] > 0
  /\ \A p \in Actors :
       /\ pc[p] \in {"approve", "write"} => DocOk(doc[p])
       /\ Deciding(p) \/ (p \in Schedulers /\ pc[p] # "idle") => decisions[ver[p]] > 0
       /\ \A v \in seen[p] : lives[v] > 0

\* A reading half keeps the invariant.
LEMMA BeginAdmin ==
  ASSUME ReleaseTypeOK, AdminInv,
         NEW p \in Requests, NEW v \in Versions, NEW d \in Doc, NEW at \in {"approve", "write"},
         Begins(p, v, d, at)
  PROVE  AdminInv'
<1>1. p \in Actors /\ p \notin Schedulers
  BY ActorsAssumption DEF Actors
<1>2. /\ UNCHANGED <<status, shown, seen, lives>>
      /\ pc' = [pc EXCEPT ![p] = at] /\ ver' = [ver EXCEPT ![p] = v] /\ doc' = [doc EXCEPT ![p] = d]
  BY DEF Begins, Begin, storeVars
<1>3. \A w \in Versions : decisions[w] > 0 => decisions'[w] > 0
  BY DEF Begins, ReleaseTypeOK
<1>4. \A w \in Versions :
       /\ status'[w] \in {"scheduled", "publishing"} => decisions'[w] > 0
       /\ status'[w] = "published" => lives'[w] > 0
       /\ lives'[w] > 0 => decisions'[w] > 0
       /\ w \in shown' => lives'[w] > 0
  BY <1>2, <1>3 DEF AdminInv
<1>5. ASSUME NEW q \in Actors
      PROVE  /\ pc'[q] \in {"approve", "write"} => DocOk(doc'[q])
             /\ Deciding(q)' \/ (q \in Schedulers /\ pc'[q] # "idle") => decisions'[ver'[q]] > 0
             /\ \A w \in seen'[q] : lives'[w] > 0
  <2>1. CASE q # p
    <3>1. pc'[q] = pc[q] /\ ver'[q] = ver[q] /\ doc'[q] = doc[q]
      BY <1>2, <2>1
    <3>2. pc[q] # "idle" => ver[q] \in Versions
      BY DEF ReleaseTypeOK
    <3>3. QED
      BY <1>2, <1>3, <3>1, <3>2 DEF AdminInv, Deciding
  <2>2. CASE q = p
    <3>1. pc'[p] = at /\ ver'[p] = v /\ doc'[p] = d
      BY <1>1, <1>2 DEF ReleaseTypeOK
    <3>2. DocOk(d) /\ (Decides(d) => decisions'[v] > 0)
      BY DEF Begins, ReleaseTypeOK
    <3>3. QED
      BY <1>1, <1>2, <2>2, <3>1, <3>2 DEF AdminInv, Deciding
  <2>3. QED
    BY <2>1, <2>2
<1>6. QED
  BY <1>4, <1>5 DEF AdminInv, Deciding, Decides, DocOk

\* The actors' half of the invariant, for one actor.
AdminActor(q) ==
  /\ pc[q] \in {"approve", "write"} => DocOk(doc[q])
  /\ Deciding(q) \/ (q \in Schedulers /\ pc[q] # "idle") => decisions[ver[q]] > 0
  /\ \A w \in seen[q] : lives[w] > 0

\* An actor that moves on keeps its half, and leaves the others' alone.
LEMMA GotoAdmin ==
  ASSUME ReleaseTypeOK, AdminInv, NEW p \in Actors, NEW at \in Step,
         Goto(p, at), pc[p] # "idle",
         at = "approve" => FALSE,
         at = "write" => pc[p] = "approve",
         decisions' = decisions,
         \A w \in Versions : lives[w] > 0 => lives'[w] > 0,
         \A q \in Actors : seen'[q] \subseteq seen[q] \/ (\A w \in seen'[q] : lives'[w] > 0)
  PROVE  \A q \in Actors : AdminActor(q)'
<1> SUFFICES ASSUME NEW q \in Actors PROVE AdminActor(q)'
  OBVIOUS
<1>1. \A w \in seen'[q] : lives'[w] > 0
  BY DEF AdminInv, ReleaseTypeOK
<1>2. CASE q # p
  <2>1. pc'[q] = pc[q] /\ ver'[q] = ver[q] /\ doc'[q] = doc[q]
    BY <1>2 DEF Goto, ReleaseTypeOK
  <2>2. QED
    BY <1>1, <2>1 DEF AdminActor, AdminInv, Deciding, Decides, DocOk
<1>3. CASE q = p
  <2>1. pc'[p] = at
    BY DEF Goto, ReleaseTypeOK
  <2>2. at # "idle" => ver'[p] = ver[p] /\ doc'[p] = doc[p]
    BY DEF Goto
  <2>3. QED
    BY <1>1, <1>3, <2>1, <2>2 DEF AdminActor, AdminInv, Deciding, Decides, DocOk
<1>4. QED
  BY <1>2, <1>3

\* The documents' half.
AdminStore ==
  \A v \in Versions :
    /\ status[v] \in {"scheduled", "publishing"} => decisions[v] > 0
    /\ status[v] = "published" => lives[v] > 0
    /\ lives[v] > 0 => decisions[v] > 0
    /\ v \in shown => lives[v] > 0

LEMMA AdminHalves == AdminInv <=> AdminStore /\ \A q \in Actors : AdminActor(q)
BY DEF AdminInv, AdminStore, AdminActor

LEMMA WorkAdmin ==
  ASSUME ReleaseTypeOK, AdminInv, NEW p \in Actors, Work(p)
  PROVE  AdminInv'
<1> USE DEF Step
<1>0. AdminStore
  BY AdminHalves
<1>1. CASE ApproveReview(p)
  <2>1. AdminStore'
    BY <1>0, <1>1 DEF ApproveReview, AdminStore, historyVars, decisionVars
  <2>2. \A q \in Actors : AdminActor(q)'
    BY <1>1, GotoAdmin DEF ApproveReview, historyVars, decisionVars
  <2>3. QED
    BY <2>1, <2>2 DEF AdminInv, AdminStore, AdminActor
<1>2. CASE WriteVersion(p)
  <2>0. ver[p] \in Versions /\ doc[p] \in Doc /\ DocOk(doc[p])
    BY <1>2 DEF WriteVersion, ReleaseTypeOK, AdminInv
  <2>1. \A w \in Versions : lives[w] > 0 => lives'[w] > 0
    BY <1>2, <2>0 DEF WriteVersion, ReleaseTypeOK
  <2>2. Decides(doc[p]) => decisions[ver[p]] > 0
    BY <1>2 DEF WriteVersion, AdminInv, Deciding
  <2>3. ASSUME NEW v \in Versions
        PROVE  /\ status'[v] \in {"scheduled", "publishing"} => decisions'[v] > 0
               /\ status'[v] = "published" => lives'[v] > 0
               /\ lives'[v] > 0 => decisions'[v] > 0
               /\ v \in shown' => lives'[v] > 0
    <3>1. decisions' = decisions /\ shown' = shown
      BY <1>2 DEF WriteVersion
    <3>2. CASE v # ver[p]
      <4>1. status'[v] = status[v] /\ lives'[v] = lives[v]
        BY <1>2, <3>2 DEF WriteVersion, Put, ReleaseTypeOK, StoreTypeOK
      <4>2. QED
        BY <1>0, <3>1, <4>1 DEF AdminStore
    <3>3. CASE v = ver[p]
      <4>1. status'[v] = IF doc[p].status = "keep" THEN status[v] ELSE doc[p].status
        BY <1>2, <3>3 DEF WriteVersion, Put, ReleaseTypeOK, StoreTypeOK
      <4>2. lives'[v] = IF doc[p].op = "golive" THEN lives[v] + 1 ELSE lives[v]
        BY <1>2, <3>3 DEF WriteVersion, ReleaseTypeOK
      <4>3. lives[v] \in Nat
        BY DEF ReleaseTypeOK
      <4>4. QED
        BY <1>0, <2>0, <2>2, <3>1, <3>3, <4>1, <4>2, <4>3 DEF AdminStore, Decides, DocOk
    <3>4. QED
      BY <3>2, <3>3
  <2>4. \A q \in Actors : AdminActor(q)'
    <3>1. PICK at \in {"refresh", "idle"} : Goto(p, at)
      BY <1>2 DEF WriteVersion
    <3>2. seen' = seen /\ decisions' = decisions /\ pc[p] # "idle"
      BY <1>2 DEF WriteVersion
    <3>3. QED
      BY <2>1, <3>1, <3>2, GotoAdmin
  <2>5. QED
    BY <2>3, <2>4 DEF AdminInv, AdminActor
<1>3. CASE RefreshRead(p)
  <2>1. AdminStore'
    BY <1>0, <1>3 DEF RefreshRead, AdminStore, storeVars, historyVars, decisionVars
  <2>2. \A v \in Public : lives[v] > 0
    BY <1>0 DEF AdminStore, Public
  <2>3. \A q \in Actors : seen'[q] \subseteq seen[q] \/ (\A w \in seen'[q] : lives'[w] > 0)
    BY <1>3, <2>2 DEF RefreshRead, ReleaseTypeOK, historyVars, decisionVars
  <2>4. \A q \in Actors : AdminActor(q)'
    BY <1>3, <2>3, GotoAdmin DEF RefreshRead, historyVars, decisionVars
  <2>5. QED
    BY <2>1, <2>4 DEF AdminInv, AdminStore, AdminActor
<1>4. CASE RefreshWrite(p)
  <2>1. AdminStore'
    BY <1>0, <1>4 DEF RefreshWrite, AdminStore, AdminInv, historyVars, decisionVars
  <2>2. \A q \in Actors : seen'[q] \subseteq seen[q]
    BY <1>4 DEF RefreshWrite, ReleaseTypeOK
  <2>3. PICK at \in {"notify", "idle"} : Goto(p, at)
    BY <1>4 DEF RefreshWrite
  <2>4. \A q \in Actors : AdminActor(q)'
    BY <1>4, <2>2, <2>3, GotoAdmin DEF RefreshWrite, historyVars, decisionVars
  <2>5. QED
    BY <2>1, <2>4 DEF AdminInv, AdminStore, AdminActor
<1>5. CASE Notify(p)
  <2>1. AdminStore'
    BY <1>0, <1>5 DEF Notify, AdminStore, storeVars, historyVars, decisionVars
  <2>2. \A q \in Actors : AdminActor(q)'
    BY <1>5, GotoAdmin DEF Notify, historyVars, decisionVars
  <2>3. QED
    BY <2>1, <2>2 DEF AdminInv, AdminStore, AdminActor
<1>6. QED
  BY <1>1, <1>2, <1>3, <1>4, <1>5 DEF Work

LEMMA AbortAdmin ==
  ASSUME ReleaseTypeOK, AdminInv, NEW p \in Requests, RequestAborted(p)
  PROVE  AdminInv'
<1>1. p \in Actors /\ "idle" \in Step
  BY DEF Actors, Step
<1>2. AdminStore'
  BY AdminHalves DEF RequestAborted, AdminStore, storeVars, historyVars, decisionVars
<1>3. \A q \in Actors : seen'[q] \subseteq seen[q]
  BY DEF RequestAborted, ReleaseTypeOK
<1>4. \A q \in Actors : AdminActor(q)'
  BY <1>1, <1>3, GotoAdmin DEF RequestAborted, historyVars, decisionVars
<1>5. QED
  BY <1>2, <1>4 DEF AdminInv, AdminStore, AdminActor

LEMMA SchedulerAdmin ==
  ASSUME ReleaseTypeOK, AdminInv, NEW s \in Schedulers,
         SchedulerWork(s) \/ SchedulerFails(s)
  PROVE  AdminInv'
<1>1. s \in Actors /\ {"idle", "write", "recover"} \subseteq Step
  BY DEF Actors, Step
<1>2. AdminStore
  BY AdminHalves
<1>3. ASSUME UNCHANGED <<storeVars, pc, ver, doc, seen, historyVars>>
      PROVE  AdminInv'
  BY <1>3 DEF AdminInv, Deciding, Decides, DocOk, storeVars, historyVars, decisionVars
<1>4. CASE FindDue(s)
  BY <1>3, <1>4 DEF FindDue
<1>5. ASSUME NEW v \in Versions, SkipClaim(s, v)
      PROVE  AdminInv'
  BY <1>3, <1>5 DEF SkipClaim
<1>6. ASSUME NEW v \in Versions, Claim(s, v)
      PROVE  AdminInv'
  <2>1. AdminStore'
    BY <1>2, <1>6 DEF Claim, AdminStore, historyVars, decisionVars, ReleaseTypeOK, StoreTypeOK
  <2>2. ASSUME NEW q \in Actors
        PROVE  AdminActor(q)'
    <3>1. decisions' = decisions /\ lives' = lives /\ seen' = seen /\ decisions[v] > 0
      BY <1>6 DEF Claim, historyVars, decisionVars, AdminInv
    <3>2. CASE q # s
      <4>1. pc'[q] = pc[q] /\ ver'[q] = ver[q] /\ doc'[q] = doc[q]
        BY <1>6, <3>2 DEF Claim
      <4>2. QED
        BY <3>1, <4>1 DEF AdminActor, AdminInv, Deciding, Decides, DocOk
    <3>3. CASE q = s
      <4>1. pc'[s] = "write" /\ ver'[s] = v /\ doc'[s] = GoLiveDoc(v, "system", "draft")
        BY <1>1, <1>6 DEF Claim, ReleaseTypeOK
      <4>2. QED
        BY <3>1, <3>3, <4>1, GoLiveDocOk DEF AdminActor, AdminInv, Deciding, Decides, DocOk
    <3>4. QED
      BY <3>2, <3>3
  <2>3. QED
    BY <2>1, <2>2 DEF AdminInv, AdminStore, AdminActor
<1>7. CASE Restore(s)
  <2>1. decisions[ver[s]] > 0 /\ ver[s] \in Versions
    BY <1>1, <1>7 DEF Restore, AdminInv, ReleaseTypeOK
  <2>2. AdminStore'
    BY <1>2, <1>7, <2>1 DEF Restore, AdminStore, historyVars, decisionVars, ReleaseTypeOK, StoreTypeOK
  <2>3. \A q \in Actors : AdminActor(q)'
    BY <1>1, <1>7, GotoAdmin DEF Restore, historyVars, decisionVars
  <2>4. QED
    BY <2>2, <2>3 DEF AdminInv, AdminStore, AdminActor
<1>8. CASE GoLiveRaises(s)
  <2>1. AdminStore'
    BY <1>2, <1>8 DEF GoLiveRaises, AdminStore, storeVars, historyVars, decisionVars
  <2>2. \A q \in Actors : seen'[q] \subseteq seen[q]
    BY <1>8 DEF GoLiveRaises, ReleaseTypeOK
  <2>3. \A q \in Actors : AdminActor(q)'
    BY <1>1, <1>8, <2>2, GotoAdmin DEF GoLiveRaises, historyVars, decisionVars
  <2>4. QED
    BY <2>1, <2>3 DEF AdminInv, AdminStore, AdminActor
<1>9. CASE Ends(s)
  <2>1. AdminStore'
    BY <1>2, <1>9 DEF Ends, AdminStore, storeVars, historyVars, decisionVars
  <2>2. ASSUME NEW q \in Actors
        PROVE  AdminActor(q)'
    <3>1. seen'[q] \subseteq seen[q] /\ decisions' = decisions /\ lives' = lives
      BY <1>9 DEF Ends, historyVars, decisionVars, ReleaseTypeOK
    <3>2. CASE q # s
      <4>1. pc'[q] = pc[q] /\ ver'[q] = ver[q] /\ doc'[q] = doc[q]
        BY <1>9, <3>2 DEF Ends, Goto
      <4>2. QED
        BY <3>1, <4>1 DEF AdminActor, AdminInv, Deciding, Decides, DocOk
    <3>3. CASE q = s
      <4>1. pc'[s] = "idle"
        BY <1>1, <1>9 DEF Ends, Goto, ReleaseTypeOK
      <4>2. QED
        BY <3>1, <3>3, <4>1 DEF AdminActor, AdminInv, Deciding
    <3>4. QED
      BY <3>2, <3>3
  <2>3. QED
    BY <2>1, <2>2 DEF AdminInv, AdminStore, AdminActor
<1>10. ASSUME NEW v \in Versions, ClaimUnacknowledged(s, v)
       PROVE  AdminInv'
  <2>1. AdminStore'
    BY <1>2, <1>10 DEF ClaimUnacknowledged, AdminStore, decisionVars, ReleaseTypeOK, StoreTypeOK
  <2>2. \A q \in Actors : AdminActor(q)'
    BY <1>10 DEF ClaimUnacknowledged, decisionVars, AdminActor, AdminInv, Deciding, Decides, DocOk
  <2>3. QED
    BY <2>1, <2>2 DEF AdminInv, AdminStore, AdminActor
<1>11. QED
  BY <1>4, <1>5, <1>6, <1>7, <1>8, <1>9, <1>10
  DEF SchedulerWork, SchedulerFails, PublishDueRaises, SchedulerCrash

LEMMA RescanFailsAdmin ==
  ASSUME ReleaseTypeOK, AdminInv, NEW p \in Requests, RescanUnqueued(p)
  PROVE  AdminInv'
<1>1. p \in Actors /\ "idle" \in Step
  BY DEF Actors, Step
<1>2. AdminStore'
  BY AdminHalves DEF RescanUnqueued, AdminStore, historyVars, decisionVars
<1>3. \A q \in Actors : AdminActor(q)'
  BY <1>1, GotoAdmin DEF RescanUnqueued, historyVars, decisionVars
<1>4. QED
  BY <1>2, <1>3 DEF AdminInv, AdminStore, AdminActor

\* Uploads, testers, the clock and the scans decide nothing.
LEMMA EnvironmentKeeps ==
  ASSUME Uploads \/ Testers \/ Clock \/ Scanner
  PROVE  UNCHANGED <<status, channel, review, shown, actorVars, historyVars>>
BY DEF Uploads, UploadStored, Testers, SetTesters, Clock, DateComes, Scanner, ScanVerdict

LEMMA AdminInvariant == ReleaseSpec => []AdminInv
<1>1. ReleaseInit => AdminInv
  BY DEF ReleaseInit, StoreInit, AdminInv, Deciding
<1>2. ReleaseTypeOK /\ AdminInv /\ [ReleaseNext]_releaseVars => AdminInv'
  <2> SUFFICES ASSUME ReleaseTypeOK, AdminInv, [ReleaseNext]_releaseVars
               PROVE  AdminInv'
    OBVIOUS
  <2>1. CASE UNCHANGED <<status, shown, pc, ver, doc, seen, decisions, lives>>
    BY <2>1 DEF AdminInv, Deciding, Decides, DocOk
  <2>2. CASE UNCHANGED releaseVars
    BY <2>1, <2>2 DEF releaseVars, storeVars, actorVars, historyVars, decisionVars
  <2>3. CASE Uploads \/ Testers \/ Clock \/ Scanner
    BY <2>1, <2>3, EnvironmentKeeps DEF actorVars, historyVars, decisionVars
  <2>4. CASE ReleaseActors
    BY <2>4, RequestBegins, BeginAdmin, AbortAdmin, WorkAdmin, SchedulerAdmin DEF ReleaseActors
  <2>5. CASE RescanFails
    BY <2>5, RescanFailsAdmin DEF RescanFails
  <2>6. QED
    BY <2>2, <2>3, <2>4, <2>5 DEF ReleaseNext
<1>3. QED
  BY <1>1, <1>2, TypeCorrect, PTL DEF ReleaseSpec

(***************************************************************************)
(* Under every fault, what is scheduled, reserved or online, and what the  *)
(* catalog advertises, goes back to a decision of the platform admin.      *)
(***************************************************************************)
THEOREM AdminDecides == ReleaseSpec => []NothingWithoutAdmin
<1>1. AdminInv => NothingWithoutAdmin
  BY DEF AdminInv, NothingWithoutAdmin
<1>2. QED
  BY <1>1, AdminInvariant, PTL

-----------------------------------------------------------------------------
(****************************************************************************)
(* The workflow implements ReleaseGate: a decision of the admin publishes  *)
(* once, or is given back by a publication that raised.                    *)
(****************************************************************************)

Reserved(v) == IF status[v] = "scheduled" THEN 1 ELSE 0

\* Decisions made, and decisions given back.
Granted(v) == decisions[v] + returned[v]

\* A scheduler only runs go_live, and is past its write once it published.
Retrying(s) ==
  /\ pc[s] # "idle" => doc[s].op = "golive"
  /\ pc[s] \in {"refresh", "catalog", "notify"} => lives[ver[s]] > 0

RetryInv == \A s \in Schedulers : Retrying(s)

-----------------------------------------------------------------------------
(***************************************************************************)
(* A scheduler that is past its write has published what it claimed.       *)
(***************************************************************************)

\* A step of p: the schedulers other than p keep what they are doing.
LEMMA GotoRetry ==
  ASSUME ReleaseTypeOK, RetryInv, NEW p \in Actors, NEW at, Goto(p, at),
         \A w \in Versions : lives[w] > 0 => lives'[w] > 0,
         p \in Schedulers =>
           /\ at # "idle" => pc[p] # "idle"
           /\ at \in {"refresh", "catalog", "notify"} => lives'[ver[p]] > 0
  PROVE  RetryInv'
<1> SUFFICES ASSUME NEW s \in Schedulers
             PROVE  Retrying(s)'
  BY DEF RetryInv
<1>1. s \in Actors /\ Retrying(s) /\ (pc[s] # "idle" => ver[s] \in Versions)
  BY DEF Actors, RetryInv, ReleaseTypeOK
<1>2. CASE s # p
  BY <1>1, <1>2 DEF Goto, Retrying
<1>3. CASE s = p
  BY <1>1, <1>3 DEF Goto, Retrying, ReleaseTypeOK
<1>4. QED
  BY <1>2, <1>3

LEMMA RetryStutter ==
  ASSUME ReleaseTypeOK, RetryInv, UNCHANGED lives,
         \A s \in Schedulers : pc'[s] = pc[s] /\ ver'[s] = ver[s] /\ doc'[s] = doc[s]
  PROVE  RetryInv'
BY DEF RetryInv, Retrying

LEMMA NextRetry ==
  ASSUME ReleaseTypeOK, RetryInv, ReleaseNext
  PROVE  RetryInv'
<1>1. Schedulers \subseteq Actors /\ Requests \subseteq Actors /\ Requests \cap Schedulers = {}
  BY ActorsAssumption DEF Actors
<1>2. ASSUME NEW p \in Requests, Request(p)
      PROVE  RetryInv'
  <2>1. PICK v \in Versions, d \in Doc, at \in {"approve", "write"} : Begins(p, v, d, at)
    BY <1>2, RequestBegins
  <2>2. \A s \in Schedulers : pc'[s] = pc[s] /\ ver'[s] = ver[s] /\ doc'[s] = doc[s]
    BY <1>1, <2>1 DEF Begins, Begin
  <2>3. QED
    BY <2>1, <2>2, RetryStutter DEF Begins, Begin
<1>3. ASSUME NEW p \in Requests, RequestAborted(p)
      PROVE  RetryInv'
  BY <1>1, <1>3, GotoRetry DEF RequestAborted, historyVars, decisionVars
<1>4. ASSUME NEW p \in Actors, Work(p)
      PROVE  RetryInv'
  <2>1. p \in Schedulers => pc[p] # "approve" /\ Retrying(p)
    BY DEF ReleaseTypeOK, RetryInv
  <2>2. CASE ApproveReview(p)
    BY <2>1, <2>2, GotoRetry DEF ApproveReview, historyVars, decisionVars
  <2>3. CASE WriteVersion(p)
    <3>1. ver[p] \in Versions /\ \A w \in Versions : lives[w] \in Nat
      BY <2>3 DEF WriteVersion, ReleaseTypeOK
    <3>2. \A w \in Versions : lives[w] > 0 => lives'[w] > 0
      BY <2>3, <3>1 DEF WriteVersion, ReleaseTypeOK
    <3>3. p \in Schedulers => lives'[ver[p]] > 0
      BY <2>1, <2>3, <3>1 DEF WriteVersion, Retrying, ReleaseTypeOK
    <3>4. PICK at \in {"refresh", "idle"} : Goto(p, at)
      BY <2>3 DEF WriteVersion
    <3>5. QED
      BY <2>3, <3>2, <3>3, <3>4, GotoRetry DEF WriteVersion
  <2>4. CASE RefreshRead(p)
    BY <2>1, <2>4, GotoRetry DEF RefreshRead, historyVars, decisionVars, Retrying
  <2>5. CASE RefreshWrite(p)
    <3>1. PICK at \in {"notify", "idle"} : Goto(p, at)
      BY <2>5 DEF RefreshWrite
    <3>2. QED
      BY <2>1, <2>5, <3>1, GotoRetry DEF RefreshWrite, historyVars, decisionVars, Retrying
  <2>6. CASE Notify(p)
    BY <2>6, GotoRetry DEF Notify, historyVars, decisionVars
  <2>7. QED
    BY <1>4, <2>2, <2>3, <2>4, <2>5, <2>6 DEF Work
<1>5. ASSUME NEW s \in Schedulers, SchedulerWork(s) \/ SchedulerFails(s)
      PROVE  RetryInv'
  <2>1. ASSUME UNCHANGED <<pc, ver, doc, decisionVars>>
        PROVE  RetryInv'
    BY <2>1, RetryStutter DEF historyVars, decisionVars
  <2>2. ASSUME NEW v \in Versions, Claim(s, v)
        PROVE  RetryInv'
    <3>1. GoLiveDoc(v, "system", "draft").op = "golive"
      BY GoLiveDocOk
    <3>2. QED
      BY <1>1, <2>2, <3>1 DEF Claim, RetryInv, Retrying, ReleaseTypeOK, historyVars, decisionVars
  <2>3. CASE Restore(s)
    BY <1>1, <2>3, GotoRetry DEF Restore, historyVars, decisionVars
  <2>4. CASE GoLiveRaises(s)
    BY <1>1, <2>4, GotoRetry DEF GoLiveRaises
  <2>5. CASE Ends(s)
    BY <1>1, <2>5, GotoRetry DEF Ends, decisionVars
  <2>6. ASSUME NEW v \in Versions, ClaimUnacknowledged(s, v)
        PROVE  RetryInv'
    BY <2>1, <2>6 DEF ClaimUnacknowledged
  <2>7. QED
    BY <1>5, <2>1, <2>2, <2>3, <2>4, <2>5, <2>6
    DEF SchedulerWork, SchedulerFails, PublishDueRaises, SchedulerCrash, FindDue, SkipClaim,
        historyVars
<1>6. CASE Uploads \/ Testers \/ Clock \/ Scanner
  BY <1>1, <1>6, EnvironmentKeeps, RetryStutter DEF actorVars, historyVars, decisionVars
<1>7. ASSUME NEW p \in Requests, RescanUnqueued(p)
      PROVE  RetryInv'
  BY <1>1, <1>7, GotoRetry DEF RescanUnqueued, historyVars, decisionVars
<1>8. QED
  BY <1>2, <1>3, <1>4, <1>5, <1>6, <1>7 DEF ReleaseNext, ReleaseActors, RescanFails

LEMMA RetryInvariant == ReleaseSpec => []RetryInv
<1>1. ReleaseInit => RetryInv
  BY DEF ReleaseInit, RetryInv, Retrying, Actors
<1>2. ReleaseTypeOK /\ RetryInv /\ [ReleaseNext]_releaseVars => RetryInv'
  BY NextRetry, RetryStutter DEF releaseVars, actorVars, historyVars, decisionVars
<1>3. QED
  BY <1>1, <1>2, TypeCorrect, PTL DEF ReleaseSpec

-----------------------------------------------------------------------------
LEMMA ActorsFinite == IsFiniteSet(Actors)
BY ActorsAssumption, FS_Union DEF Actors

LEMMA HoldersFinite ==
  ASSUME NEW v
  PROVE  IsFiniteSet(Holders(v)) /\ Cardinality(Holders(v)) \in Nat
<1>1. Holders(v) \subseteq Actors
  BY DEF Holders
<1>2. QED
  BY <1>1, ActorsFinite, FS_Subset, FS_CardinalityType

\* The three things a step does to the holders of a version.
LEMMA HoldersChange ==
  ASSUME NEW v, NEW p
  PROVE  /\ Holders(v)' = Holders(v) =>
              Cardinality(Holders(v)') = Cardinality(Holders(v))
         /\ p \notin Holders(v) /\ Holders(v)' = Holders(v) \cup {p} =>
              Cardinality(Holders(v)') = Cardinality(Holders(v)) + 1
         /\ p \in Holders(v) /\ Holders(v)' = Holders(v) \ {p} =>
              Cardinality(Holders(v)') = Cardinality(Holders(v)) - 1
BY HoldersFinite, FS_AddElement, FS_RemoveElement

\* A step of actor p that leaves the others' pc, ver and doc alone.
LEMMA OthersHold ==
  ASSUME NEW p \in Actors, NEW v \in Versions,
         \A q \in Actors \ {p} : pc'[q] = pc[q] /\ ver'[q] = ver[q] /\ doc'[q] = doc[q]
  PROVE  /\ p \in Holders(v)' => Holders(v)' = Holders(v) \cup {p}
         /\ p \notin Holders(v)' => Holders(v)' = Holders(v) \ {p}
<1>1. \A q \in Actors \ {p} : q \in Holders(v)' <=> q \in Holders(v)
  BY DEF Holders
<1>2. Holders(v) \subseteq Actors /\ Holders(v)' \subseteq Actors
  BY DEF Holders
<1>3. QED
  BY <1>1, <1>2

\* What the invariant needs of a step of p: the permits of each version move
\* with the holders.
LEMMA PermitsStep ==
  ASSUME ReleaseTypeOK, PermitsInv, NEW p \in Actors,
         \A q \in Actors \ {p} : pc'[q] = pc[q] /\ ver'[q] = ver[q] /\ doc'[q] = doc[q],
         ReleaseTypeOK',
         \A v \in Versions :
           \/ /\ p \in Holders(v) <=> p \in Holders(v)'
              /\ lives'[v] + Reserved(v)' - Granted(v)' <= lives[v] + Reserved(v) - Granted(v)
           \/ /\ p \notin Holders(v) /\ p \in Holders(v)'
              /\ lives'[v] + Reserved(v)' - Granted(v)' + 1 <= lives[v] + Reserved(v) - Granted(v)
           \/ /\ p \in Holders(v) /\ p \notin Holders(v)'
              /\ lives'[v] + Reserved(v)' - Granted(v)' <= lives[v] + Reserved(v) - Granted(v) + 1
  PROVE  PermitsInv'
<1> SUFFICES ASSUME NEW v \in Versions
             PROVE  lives'[v] + Cardinality(Holders(v)') + Reserved(v)' <= Granted(v)'
  BY DEF PermitsInv, Reserved, Granted
<1> DEFINE c == Cardinality(Holders(v))
           d == Cardinality(Holders(v)')
<1>1. c \in Nat
  BY HoldersFinite
<1>2. /\ lives[v] \in Nat /\ Granted(v) \in Nat
      /\ lives'[v] \in Nat /\ Granted(v)' \in Nat
      /\ Reserved(v) \in {0, 1} /\ Reserved(v)' \in {0, 1}
  BY DEF ReleaseTypeOK, Reserved, Granted
<1>3. lives[v] + c + Reserved(v) <= Granted(v)
  BY DEF PermitsInv, Reserved, Granted
<1>4. /\ (p \in Holders(v) <=> p \in Holders(v)') => d = c
      /\ p \notin Holders(v) /\ p \in Holders(v)' => d = c + 1
      /\ p \in Holders(v) /\ p \notin Holders(v)' => d = c - 1
  <2>1. CASE p \in Holders(v)'
    <3>1. Holders(v)' = Holders(v) \cup {p}
      BY <2>1, OthersHold
    <3>2. p \in Holders(v) => Holders(v) \cup {p} = Holders(v)
      OBVIOUS
    <3>3. QED
      BY <2>1, <3>1, <3>2, HoldersChange
  <2>2. CASE p \notin Holders(v)'
    <3>1. Holders(v)' = Holders(v) \ {p}
      BY <2>2, OthersHold
    <3>2. p \notin Holders(v) => Holders(v) \ {p} = Holders(v)
      OBVIOUS
    <3>3. QED
      BY <2>2, <3>1, <3>2, HoldersChange
  <2>3. QED
    BY <2>1, <2>2
<1> HIDE DEF c, d
<1>5. lives'[v] + d + Reserved(v)' <= Granted(v)'
  BY <1>1, <1>2, <1>3, <1>4
<1>6. QED
  BY <1>5 DEF d

\* Goto p: the others stay, and p holds a version only if it is to write it.
LEMMA GotoHolds ==
  ASSUME ReleaseTypeOK, NEW p \in Actors, NEW at, Goto(p, at)
  PROVE  /\ \A q \in Actors \ {p} : pc'[q] = pc[q] /\ ver'[q] = ver[q] /\ doc'[q] = doc[q]
         /\ at \notin {"approve", "write", "recover"} => \A v : p \notin Holders(v)'
         /\ at = "write" => \A v : p \in Holders(v)' <=>
                              ver[p] = v /\ doc[p].op \in {"golive", "schedule"}
BY DEF Goto, ReleaseTypeOK, Holders

\* A step of p that neither publishes nor decides.
LEMMA GotoPermits ==
  ASSUME ReleaseTypeOK, ReleaseTypeOK', PermitsInv, NEW p \in Actors, NEW at, Goto(p, at),
         at \notin {"approve", "recover"}, at = "write" => pc[p] = "approve",
         UNCHANGED <<decisionVars, status>>
  PROVE  PermitsInv'
<1>1. \A v \in Versions : p \in Holders(v)' => p \in Holders(v)
  BY GotoHolds DEF Holders
<1>2. \A q \in Actors \ {p} : pc'[q] = pc[q] /\ ver'[q] = ver[q] /\ doc'[q] = doc[q]
  BY GotoHolds
<1>3. ASSUME NEW v \in Versions
      PROVE  /\ Reserved(v)' = Reserved(v) /\ Reserved(v) \in {0, 1}
             /\ lives'[v] = lives[v] /\ Granted(v)' = Granted(v)
             /\ lives[v] \in Nat /\ Granted(v) \in Nat
  BY DEF Reserved, ReleaseTypeOK, Granted, historyVars, decisionVars
<1>5. ASSUME NEW v \in Versions
      PROVE  /\ lives'[v] + Reserved(v)' - Granted(v)' <= lives[v] + Reserved(v) - Granted(v)
             /\ lives'[v] + Reserved(v)' - Granted(v)' <= lives[v] + Reserved(v) - Granted(v) + 1
  BY <1>3
<1>6. QED
  BY <1>1, <1>2, <1>5, PermitsStep

LEMMA BeginPermits ==
  ASSUME ReleaseTypeOK, ReleaseTypeOK', PermitsInv,
         NEW p \in Requests, NEW v \in Versions, NEW d \in Doc, NEW at \in {"approve", "write"},
         Begins(p, v, d, at)
  PROVE  PermitsInv'
<1>1. p \in Actors
  BY DEF Actors
<1>2. \A q \in Actors \ {p} : pc'[q] = pc[q] /\ ver'[q] = ver[q] /\ doc'[q] = doc[q]
  BY DEF Begins, Begin
<1>3. \A w : p \notin Holders(w)
  BY DEF Begins, Begin, Free, Holders
<1>4. \A w : p \in Holders(w)' => w = v /\ Decides(d)
  BY <1>1 DEF Begins, Begin, Holders, Decides, ReleaseTypeOK
<1>6. ASSUME NEW w \in Versions
      PROVE  /\ Reserved(w)' = Reserved(w) /\ Reserved(w) \in {0, 1}
             /\ lives'[w] = lives[w] /\ lives[w] \in Nat /\ Granted(w) \in Nat
             /\ Granted(w)' \in {Granted(w), Granted(w) + 1}
             /\ w = v /\ Decides(d) => Granted(w)' = Granted(w) + 1
  BY DEF Begins, Begin, storeVars, Reserved, ReleaseTypeOK, Granted
<1>7. ASSUME NEW w \in Versions
      PROVE  /\ lives'[w] + Reserved(w)' - Granted(w)' <= lives[w] + Reserved(w) - Granted(w)
             /\ p \in Holders(w)' =>
                  lives'[w] + Reserved(w)' - Granted(w)' + 1
                    <= lives[w] + Reserved(w) - Granted(w)
  BY <1>4, <1>6
<1>8. QED
  BY <1>1, <1>2, <1>3, <1>7, PermitsStep

LEMMA WritePermits ==
  ASSUME ReleaseTypeOK, ReleaseTypeOK', AdminInv, PermitsInv, NEW p \in Actors, WriteVersion(p)
  PROVE  PermitsInv'
<1>1. ver[p] \in Versions /\ doc[p] \in Doc /\ DocOk(doc[p])
  BY DEF WriteVersion, ReleaseTypeOK, AdminInv
<1>2. PICK at \in {"refresh", "idle"} : Goto(p, at)
  BY DEF WriteVersion
<1>3. /\ \A q \in Actors \ {p} : pc'[q] = pc[q] /\ ver'[q] = ver[q] /\ doc'[q] = doc[q]
      /\ \A v : p \notin Holders(v)'
  BY <1>2, GotoHolds
<1>4. \A v : p \in Holders(v) <=> v = ver[p] /\ Decides(doc[p])
  BY DEF WriteVersion, Holders, Decides
<1>6. ASSUME NEW v \in Versions
      PROVE  /\ p \notin Holders(v) =>
                  lives'[v] + Reserved(v)' - Granted(v)'
                    <= lives[v] + Reserved(v) - Granted(v)
             /\ p \in Holders(v) =>
                  lives'[v] + Reserved(v)' - Granted(v)'
                    <= lives[v] + Reserved(v) - Granted(v) + 1
  <2>1. lives[v] \in Nat /\ Granted(v) \in Nat /\ Granted(v)' = Granted(v)
    BY DEF WriteVersion, ReleaseTypeOK, Granted
  <2>2. CASE v # ver[p]
    <3>1. lives'[v] = lives[v] /\ status'[v] = status[v]
      BY <2>2 DEF WriteVersion, Put, ReleaseTypeOK, StoreTypeOK
    <3>2. Reserved(v)' = Reserved(v) /\ Reserved(v) \in {0, 1}
      BY <3>1 DEF Reserved
    <3>3. QED
      BY <2>1, <3>1, <3>2
  <2>3. CASE v = ver[p]
    <3>1. lives'[v] = IF doc[p].op = "golive" THEN lives[v] + 1 ELSE lives[v]
      BY <2>3 DEF WriteVersion, ReleaseTypeOK
    <3>2. status'[v] = IF doc[p].status = "keep" THEN status[v] ELSE doc[p].status
      BY <2>3 DEF WriteVersion, Put, ReleaseTypeOK, StoreTypeOK
    <3>3. /\ Reserved(v) \in {0, 1} /\ Reserved(v)' \in {0, 1}
          /\ Reserved(v)' <= Reserved(v) \/ doc[p].op = "schedule"
      BY <1>1, <3>2 DEF Reserved, DocOk
    <3>4. p \in Holders(v) <=> doc[p].op \in {"golive", "schedule"}
      BY <1>4, <2>3 DEF Decides
    <3>5. QED
      BY <2>1, <3>1, <3>3, <3>4
  <2>4. QED
    BY <2>2, <2>3
<1>7. QED
  BY <1>3, <1>6, PermitsStep

LEMMA ClaimPermits ==
  ASSUME ReleaseTypeOK, ReleaseTypeOK', PermitsInv, NEW s \in Schedulers, NEW v \in Versions, Claim(s, v)
  PROVE  PermitsInv'
<1>1. s \in Actors
  BY DEF Actors
<1>2. \A q \in Actors \ {s} : pc'[q] = pc[q] /\ ver'[q] = ver[q] /\ doc'[q] = doc[q]
  BY DEF Claim
<1>3. \A w : s \notin Holders(w)
  BY DEF Claim, Free, Holders
<1>4. \A w : s \in Holders(w)' => w = v
  BY <1>1 DEF Claim, Holders, ReleaseTypeOK
<1>6. ASSUME NEW w \in Versions
      PROVE  /\ Reserved(w)' = IF w = v THEN 0 ELSE Reserved(w)
             /\ Reserved(w) = IF w = v THEN 1 ELSE Reserved(w)
             /\ Reserved(w) \in {0, 1}
             /\ lives'[w] = lives[w] /\ lives[w] \in Nat
             /\ Granted(w)' = Granted(w) /\ Granted(w) \in Nat
  BY DEF Claim, historyVars, decisionVars, Reserved, ReleaseTypeOK, StoreTypeOK, Granted
<1>7. ASSUME NEW w \in Versions
      PROVE  /\ lives'[w] + Reserved(w)' - Granted(w)' <= lives[w] + Reserved(w) - Granted(w)
             /\ s \in Holders(w)' =>
                  lives'[w] + Reserved(w)' - Granted(w)' + 1
                    <= lives[w] + Reserved(w) - Granted(w)
  BY <1>4, <1>6
<1>8. QED
  BY <1>1, <1>2, <1>3, <1>7, PermitsStep

\* A reservation without an answer takes the version out of the schedule only.
LEMMA UnacknowledgedPermits ==
  ASSUME ReleaseTypeOK, ReleaseTypeOK', PermitsInv, NEW s \in Schedulers, NEW v \in Versions,
         ClaimUnacknowledged(s, v)
  PROVE  PermitsInv'
<1>1. s \in Actors
  BY DEF Actors
<1>2. \A q \in Actors \ {s} : pc'[q] = pc[q] /\ ver'[q] = ver[q] /\ doc'[q] = doc[q]
  BY DEF ClaimUnacknowledged
<1>3. \A w : s \notin Holders(w) /\ s \notin Holders(w)'
  BY DEF ClaimUnacknowledged, Free, Holders
<1>4. ASSUME NEW w \in Versions
      PROVE  /\ Reserved(w) \in {0, 1} /\ Reserved(w)' \in {0, 1} /\ Reserved(w)' <= Reserved(w)
             /\ lives'[w] = lives[w] /\ lives[w] \in Nat
             /\ Granted(w)' = Granted(w) /\ Granted(w) \in Nat
  BY DEF ClaimUnacknowledged, decisionVars, Reserved, ReleaseTypeOK, StoreTypeOK, Granted
<1>5. ASSUME NEW w \in Versions
      PROVE  lives'[w] + Reserved(w)' - Granted(w)' <= lives[w] + Reserved(w) - Granted(w)
  BY <1>4
<1>6. QED
  BY <1>1, <1>2, <1>3, <1>5, PermitsStep

\* go_live raised: the decision counts again, and the scheduler keeps it.
LEMMA RaisePermits ==
  ASSUME ReleaseTypeOK, ReleaseTypeOK', RetryInv, PermitsInv,
         NEW s \in Schedulers, GoLiveRaises(s)
  PROVE  PermitsInv'
<1>1. s \in Actors /\ pc[s] # "idle" /\ doc[s].op = "golive"
  BY DEF Actors, GoLiveRaises, RetryInv, Retrying
<1>2. \A q \in Actors \ {s} : pc'[q] = pc[q] /\ ver'[q] = ver[q] /\ doc'[q] = doc[q]
  BY DEF GoLiveRaises, Goto
<1>3. \A w : s \in Holders(w)' <=> w = ver[s]
  BY <1>1 DEF GoLiveRaises, Goto, Holders, ReleaseTypeOK
<1>4. \A w : s \in Holders(w) <=> w = ver[s] /\ pc[s] = "write"
  BY <1>1 DEF GoLiveRaises, Holders
<1>5. ASSUME NEW w \in Versions
      PROVE  /\ Reserved(w)' = Reserved(w) /\ Reserved(w) \in {0, 1}
             /\ lives'[w] = lives[w] /\ lives[w] \in Nat /\ Granted(w) \in Nat
             /\ Granted(w)' = IF w = ver[s] /\ pc[s] # "write" THEN Granted(w) + 1 ELSE Granted(w)
  BY DEF GoLiveRaises, storeVars, Reserved, ReleaseTypeOK, Granted
<1>6. ASSUME NEW w \in Versions
      PROVE  /\ lives'[w] + Reserved(w)' - Granted(w)' <= lives[w] + Reserved(w) - Granted(w)
             /\ s \in Holders(w)' /\ s \notin Holders(w) =>
                  lives'[w] + Reserved(w)' - Granted(w)' + 1
                    <= lives[w] + Reserved(w) - Granted(w)
             /\ s \in Holders(w) => s \in Holders(w)'
  BY <1>3, <1>4, <1>5
<1>7. QED
  BY <1>1, <1>2, <1>6, PermitsStep

\* The except branch: what the scheduler held is scheduled again.
LEMMA RestorePermits ==
  ASSUME ReleaseTypeOK, ReleaseTypeOK', RetryInv, PermitsInv,
         NEW s \in Schedulers, Restore(s)
  PROVE  PermitsInv'
<1>1. s \in Actors /\ pc[s] = "recover" /\ doc[s].op = "golive"
  BY DEF Actors, Restore, RetryInv, Retrying
<1>2. \A q \in Actors \ {s} : pc'[q] = pc[q] /\ ver'[q] = ver[q] /\ doc'[q] = doc[q]
  BY DEF Restore, Goto
<1>3. \A w : s \notin Holders(w)'
  BY <1>1 DEF Restore, Goto, Holders, ReleaseTypeOK
<1>4. \A w : s \in Holders(w) <=> w = ver[s]
  BY <1>1 DEF Holders
<1>5. ASSUME NEW w \in Versions
      PROVE  /\ Reserved(w) \in {0, 1} /\ Reserved(w)' \in {0, 1}
             /\ w # ver[s] => Reserved(w)' = Reserved(w)
             /\ lives'[w] = lives[w] /\ lives[w] \in Nat
             /\ Granted(w)' = Granted(w) /\ Granted(w) \in Nat
  BY DEF Restore, historyVars, decisionVars, Reserved, ReleaseTypeOK, StoreTypeOK, Granted
<1>6. ASSUME NEW w \in Versions
      PROVE  /\ s \notin Holders(w) =>
                  lives'[w] + Reserved(w)' - Granted(w)' <= lives[w] + Reserved(w) - Granted(w)
             /\ s \in Holders(w) =>
                  lives'[w] + Reserved(w)' - Granted(w)' <= lives[w] + Reserved(w) - Granted(w) + 1
  BY <1>4, <1>5
<1>7. QED
  BY <1>1, <1>2, <1>3, <1>6, PermitsStep

\* Nothing an invariant of this module reads changes.
LEMMA PermitsStutter ==
  ASSUME PermitsInv, UNCHANGED <<status, pc, ver, doc, decisionVars>>
  PROVE  PermitsInv'
<1>1. \A v : Holders(v)' = Holders(v)
  BY DEF Holders
<1>2. QED
  BY <1>1 DEF PermitsInv, historyVars, decisionVars

LEMMA NextPermits ==
  ASSUME ReleaseTypeOK, ReleaseTypeOK', AdminInv, RetryInv, PermitsInv, ReleaseNext
  PROVE  PermitsInv'
<1>1. Schedulers \subseteq Actors /\ Requests \subseteq Actors
  BY DEF Actors
<1>2. ASSUME NEW p \in Requests, Request(p)
      PROVE  PermitsInv'
  BY <1>2, RequestBegins, BeginPermits
<1>3. ASSUME NEW p \in Requests, RequestAborted(p)
      PROVE  PermitsInv'
  BY <1>1, <1>3, GotoPermits DEF RequestAborted, storeVars, historyVars
<1>4. ASSUME NEW p \in Actors, Work(p)
      PROVE  PermitsInv'
  <2>1. CASE ApproveReview(p)
    BY <2>1, GotoPermits DEF ApproveReview, historyVars
  <2>2. CASE WriteVersion(p)
    BY <2>2, WritePermits
  <2>3. CASE RefreshRead(p)
    BY <2>3, GotoPermits DEF RefreshRead, storeVars, historyVars
  <2>4. CASE RefreshWrite(p)
    BY <2>4, GotoPermits DEF RefreshWrite, historyVars
  <2>5. CASE Notify(p)
    BY <2>5, GotoPermits DEF Notify, storeVars, historyVars
  <2>6. QED
    BY <1>4, <2>1, <2>2, <2>3, <2>4, <2>5 DEF Work
<1>5. ASSUME NEW s \in Schedulers, SchedulerWork(s) \/ SchedulerFails(s)
      PROVE  PermitsInv'
  <2>1. CASE FindDue(s)
    BY <2>1, PermitsStutter DEF FindDue, storeVars, historyVars
  <2>2. ASSUME NEW v \in Versions, Claim(s, v)
        PROVE  PermitsInv'
    BY <2>2, ClaimPermits
  <2>3. ASSUME NEW v \in Versions, SkipClaim(s, v)
        PROVE  PermitsInv'
    BY <2>3, PermitsStutter DEF SkipClaim, storeVars, historyVars
  <2>4. CASE Restore(s)
    BY <2>4, RestorePermits
  <2>5. CASE GoLiveRaises(s)
    BY <2>5, RaisePermits
  <2>6. CASE Ends(s)
    BY <1>1, <2>6, GotoPermits DEF Ends, storeVars
  <2>7. ASSUME NEW v \in Versions, ClaimUnacknowledged(s, v)
        PROVE  PermitsInv'
    BY <2>7, UnacknowledgedPermits
  <2>8. QED
    BY <1>5, <2>1, <2>2, <2>3, <2>4, <2>5, <2>6, <2>7
    DEF SchedulerWork, SchedulerFails, PublishDueRaises, SchedulerCrash
<1>6. CASE Uploads \/ Testers \/ Clock \/ Scanner
  BY <1>6, EnvironmentKeeps, PermitsStutter DEF actorVars, historyVars
<1>7. ASSUME NEW p \in Requests, RescanUnqueued(p)
      PROVE  PermitsInv'
  BY <1>1, <1>7, GotoPermits DEF RescanUnqueued, historyVars
<1>8. QED
  BY <1>2, <1>3, <1>4, <1>5, <1>6, <1>7 DEF ReleaseNext, ReleaseActors, RescanFails

LEMMA PermitsInit == ReleaseInit => PermitsInv
<1> SUFFICES ASSUME ReleaseInit, NEW v \in Versions
             PROVE  lives[v] + Cardinality(Holders(v)) + Reserved(v) <= decisions[v] + returned[v]
  BY DEF PermitsInv, Reserved
<1>1. Holders(v) = {}
  BY DEF ReleaseInit, Holders
<1>2. Cardinality(Holders(v)) = 0
  BY <1>1, FS_EmptySet
<1>3. lives[v] = 0 /\ decisions[v] = 0 /\ returned[v] = 0 /\ Reserved(v) = 0
  BY DEF ReleaseInit, StoreInit, Reserved
<1>4. QED
  BY <1>2, <1>3

(***************************************************************************)
(* The decisions of the admin, with those given back by a publication that *)
(* raised, cover every publication made, pending or scheduled: this is why *)
(* two instances, or an instance and a handler, never publish a version    *)
(* twice for one decision.                                                 *)
(***************************************************************************)
THEOREM PermitsCover == ReleaseSpec => []PermitsInv
<1>1. ReleaseInit => PermitsInv
  BY PermitsInit
<1>2. /\ ReleaseTypeOK /\ ReleaseTypeOK' /\ AdminInv /\ RetryInv /\ PermitsInv
      /\ [ReleaseNext]_releaseVars
      => PermitsInv'
  <2> SUFFICES ASSUME ReleaseTypeOK, ReleaseTypeOK', AdminInv, RetryInv, PermitsInv,
                      [ReleaseNext]_releaseVars
               PROVE  PermitsInv'
    OBVIOUS
  <2>1. CASE UNCHANGED releaseVars
    BY <2>1, PermitsStutter DEF releaseVars, storeVars, actorVars, historyVars
  <2>2. CASE ReleaseNext
    BY <2>2, NextPermits
  <2>3. QED
    BY <2>1, <2>2
<1>3. QED
  BY <1>1, <1>2, TypeCorrect, AdminInvariant, RetryInvariant, PTL DEF ReleaseSpec

-----------------------------------------------------------------------------
(***************************************************************************)
(* The refinement.                                                         *)
(***************************************************************************)

Live == {v \in Versions : status[v] = "published"}

Past == {v \in Versions : lives[v] > 0}

Permits == [v \in Versions |-> decisions[v] - lives[v] + returned[v]]

Unseen == Live' = Live /\ Past' = Past /\ Permits' = Permits

\* Steps that are invisible to the gate.
LEMMA GateStutter ==
  ASSUME UNCHANGED decisionVars,
         \A v \in Versions : status'[v] = "published" <=> status[v] = "published"
  PROVE  Unseen
BY DEF Unseen, Live, Past, Permits, historyVars, decisionVars

\* The write of go_live spends a permit; no other write publishes.
LEMMA WriteGate ==
  ASSUME ReleaseTypeOK, AdminInv, PermitsInv, NEW p \in Actors, WriteVersion(p)
  PROVE  Gate!Next \/ Unseen
<1>1. ver[p] \in Versions /\ doc[p] \in Doc /\ DocOk(doc[p])
  BY DEF WriteVersion, ReleaseTypeOK, AdminInv
<1> PICK v \in Versions : v = ver[p]
  BY <1>1
<1>2. /\ decisions' = decisions /\ returned' = returned
      /\ status' = IF doc[p].status = "keep" THEN status ELSE [status EXCEPT ![v] = doc[p].status]
      /\ lives' = IF doc[p].op = "golive" THEN [lives EXCEPT ![v] = @ + 1] ELSE lives
  BY DEF WriteVersion, Put
<1>3. CASE doc[p].op = "golive"
  <2>1. Permits[v] > 0
    <3>1. p \in Holders(v)
      BY <1>3 DEF WriteVersion, Holders
    <3>2. Cardinality(Holders(v)) \in Nat \ {0}
      BY <3>1, HoldersFinite, FS_EmptySet
    <3>3. lives[v] + Cardinality(Holders(v)) <= decisions[v] + returned[v]
      BY <1>1, HoldersFinite DEF PermitsInv, ReleaseTypeOK
    <3>4. QED
      BY <1>1, <3>2, <3>3 DEF Permits, ReleaseTypeOK
  <2>2. \A w \in Versions :
          /\ lives[w] \in Nat /\ decisions[w] \in Nat /\ returned[w] \in Nat
          /\ decisions'[w] = decisions[w] /\ returned'[w] = returned[w]
          /\ lives'[w] = IF w = v THEN lives[w] + 1 ELSE lives[w]
    BY <1>2, <1>3 DEF ReleaseTypeOK
  <2>3. Permits' = [Permits EXCEPT ![v] = @ - 1]
    <3>1. \A w \in Versions :
            decisions'[w] - lives'[w] + returned'[w] =
              IF w = v THEN (decisions[w] - lives[w] + returned[w]) - 1
                       ELSE decisions[w] - lives[w] + returned[w]
      BY <2>2
    <3>2. QED
      BY <3>1 DEF Permits
  <2>4. Past' = Past \cup {v}
    BY <2>2 DEF Past
  <2>5. Live' = IF doc[p].status = "keep" THEN Live ELSE Live \cup {v}
    BY <1>1, <1>2, <1>3 DEF Live, DocOk, ReleaseTypeOK, StoreTypeOK
  <2>6. Gate!GoLive(v)
    BY <2>1, <2>3, <2>4, <2>5 DEF Gate!GoLive, Live, Past, Permits
  <2>7. QED
    BY <1>1, <2>6 DEF Gate!Next
<1>4. CASE doc[p].op # "golive"
  <2>1. Permits' = Permits /\ Past' = Past
    BY <1>2, <1>4 DEF Permits, Past
  <2>2. Live' = Live \/ (Live' = Live \ {v} /\ v \in Live)
    BY <1>1, <1>2, <1>4 DEF Live, DocOk, ReleaseTypeOK, StoreTypeOK
  <2>3. Live' = Live \ {v} /\ v \in Live => Gate!Retire(v)
    BY <2>1 DEF Gate!Retire, Live, Past, Permits
  <2>4. QED
    BY <1>1, <2>1, <2>2, <2>3 DEF Gate!Next, Unseen
<1>5. QED
  BY <1>3, <1>4

\* A decision of the admin is a permit.
LEMMA BeginGate ==
  ASSUME ReleaseTypeOK, NEW p \in Requests, NEW v \in Versions, NEW d \in Doc,
         NEW at \in {"approve", "write"}, Begins(p, v, d, at)
  PROVE  Gate!Next \/ Unseen
<1>1. status' = status /\ lives' = lives /\ returned' = returned
  BY DEF Begins, Begin, storeVars
<1>2. Live' = Live /\ Past' = Past
  BY <1>1 DEF Live, Past
<1>3. CASE decisions' = decisions
  BY <1>1, <1>2, <1>3 DEF Unseen, Permits
<1>4. CASE decisions' = [decisions EXCEPT ![v] = @ + 1]
  <2>1. \A w \in Versions :
          /\ lives[w] \in Nat /\ decisions[w] \in Nat /\ returned[w] \in Nat
          /\ lives'[w] = lives[w] /\ returned'[w] = returned[w]
          /\ decisions'[w] = IF w = v THEN decisions[w] + 1 ELSE decisions[w]
    BY <1>1, <1>4 DEF ReleaseTypeOK
  <2>2. \A w \in Versions :
          decisions'[w] - lives'[w] + returned'[w] =
            IF w = v THEN (decisions[w] - lives[w] + returned[w]) + 1
                     ELSE decisions[w] - lives[w] + returned[w]
    BY <2>1
  <2>3. Permits' = [Permits EXCEPT ![v] = @ + 1]
    BY <2>2 DEF Permits
  <2>4. QED
    BY <1>2, <2>3 DEF Gate!Next, Gate!Decide, Live, Past, Permits
<1>5. QED
  BY <1>3, <1>4 DEF Begins

\* A publication that raised after its write gives its permit back.
LEMMA RaiseGate ==
  ASSUME ReleaseTypeOK, RetryInv, NEW s \in Schedulers, GoLiveRaises(s)
  PROVE  Gate!Next \/ Unseen
<1>1. /\ status' = status /\ lives' = lives /\ decisions' = decisions
      /\ pc[s] # "idle" /\ "exception" \in Faults
  BY DEF GoLiveRaises, storeVars
<1>2. Live' = Live /\ Past' = Past
  BY <1>1 DEF Live, Past
<1>3. CASE pc[s] = "write"
  BY <1>1, <1>2, <1>3 DEF GoLiveRaises, Unseen, Permits
<1>4. CASE pc[s] # "write"
  <2>1. ver[s] \in Versions /\ lives[ver[s]] > 0
    BY <1>1, <1>4 DEF GoLiveRaises, RetryInv, Retrying, ReleaseTypeOK, Actors
  <2>2. PICK v \in Versions : v = ver[s]
    BY <2>1
  <2>3. \A w \in Versions :
          /\ lives[w] \in Nat /\ decisions[w] \in Nat /\ returned[w] \in Nat
          /\ lives'[w] = lives[w] /\ decisions'[w] = decisions[w]
          /\ returned'[w] = IF w = v THEN returned[w] + 1 ELSE returned[w]
    BY <1>1, <1>4, <2>2 DEF GoLiveRaises, ReleaseTypeOK
  <2>4. \A w \in Versions :
          decisions'[w] - lives'[w] + returned'[w] =
            IF w = v THEN (decisions[w] - lives[w] + returned[w]) + 1
                     ELSE decisions[w] - lives[w] + returned[w]
    BY <2>3
  <2>5. Permits' = [Permits EXCEPT ![v] = @ + 1]
    BY <2>4 DEF Permits
  <2>6. Gate!GiveBack(v)
    BY <1>1, <1>2, <2>1, <2>2, <2>5 DEF Gate!GiveBack, Live, Past, Permits
  <2>7. QED
    BY <2>6 DEF Gate!Next
<1>5. QED
  BY <1>3, <1>4

\* What was online when go_live raised is hidden until the retry.
LEMMA RestoreGate ==
  ASSUME ReleaseTypeOK, NEW s \in Schedulers, Restore(s)
  PROVE  Gate!Next \/ Unseen
<1>1. PICK v \in Versions : v = ver[s]
  BY DEF Restore, ReleaseTypeOK, Actors
<1>2. Permits' = Permits /\ Past' = Past
  BY DEF Restore, historyVars, decisionVars, Permits, Past
<1>3. status' = [status EXCEPT ![v] = "scheduled"]
  BY <1>1 DEF Restore
<1>4. Live' = Live \ {v}
  BY <1>3 DEF Live, ReleaseTypeOK, StoreTypeOK
<1>5. CASE v \in Live
  <2>1. Gate!Retire(v)
    BY <1>2, <1>4, <1>5 DEF Gate!Retire, Live, Past, Permits
  <2>2. QED
    BY <2>1 DEF Gate!Next
<1>6. CASE v \notin Live
  <2>1. Live' = Live
    BY <1>4, <1>6
  <2>2. QED
    BY <1>2, <2>1 DEF Unseen
<1>7. QED
  BY <1>5, <1>6

LEMMA NextGate ==
  ASSUME ReleaseTypeOK, AdminInv, RetryInv, PermitsInv, ReleaseNext
  PROVE  Gate!Next \/ Unseen
<1>1. ASSUME NEW p \in Requests, Request(p)
      PROVE  Gate!Next \/ Unseen
  BY <1>1, RequestBegins, BeginGate
<1>2. ASSUME NEW p \in Requests, RequestAborted(p)
      PROVE  Gate!Next \/ Unseen
  BY <1>2, GateStutter DEF RequestAborted, storeVars, historyVars
<1>3. ASSUME NEW p \in Actors, Work(p)
      PROVE  Gate!Next \/ Unseen
  <2>1. CASE WriteVersion(p)
    BY <2>1, WriteGate
  <2>2. CASE ApproveReview(p) \/ RefreshRead(p) \/ RefreshWrite(p) \/ Notify(p)
    BY <2>2, GateStutter
    DEF ApproveReview, RefreshRead, RefreshWrite, Notify, storeVars, historyVars
  <2>3. QED
    BY <1>3, <2>1, <2>2 DEF Work
<1>4. ASSUME NEW s \in Schedulers, SchedulerWork(s) \/ SchedulerFails(s)
      PROVE  Gate!Next \/ Unseen
  <2>1. ASSUME NEW v \in Versions, Claim(s, v)
        PROVE  Unseen
    <3>1. \A w \in Versions : status'[w] = "published" <=> status[w] = "published"
      BY <2>1 DEF Claim, ReleaseTypeOK, StoreTypeOK
    <3>2. QED
      BY <2>1, <3>1, GateStutter DEF Claim, historyVars
  <2>2. CASE Restore(s)
    BY <2>2, RestoreGate
  <2>3. CASE GoLiveRaises(s)
    BY <2>3, RaiseGate
  <2>4. ASSUME UNCHANGED <<storeVars, decisionVars>>
        PROVE  Unseen
    BY <2>4, GateStutter DEF storeVars
  <2>5. ASSUME NEW v \in Versions, ClaimUnacknowledged(s, v)
        PROVE  Unseen
    <3>1. \A w \in Versions : status'[w] = "published" <=> status[w] = "published"
      BY <2>5 DEF ClaimUnacknowledged, ReleaseTypeOK, StoreTypeOK
    <3>2. QED
      BY <2>5, <3>1, GateStutter DEF ClaimUnacknowledged
  <2>6. QED
    BY <1>4, <2>1, <2>2, <2>3, <2>4, <2>5
    DEF SchedulerWork, SchedulerFails, FindDue, SkipClaim, PublishDueRaises, SchedulerCrash,
        Ends, historyVars
<1>5. CASE Uploads \/ Testers \/ Clock \/ Scanner
  BY <1>5, EnvironmentKeeps, GateStutter DEF actorVars, historyVars
<1>6. ASSUME NEW p \in Requests, RescanUnqueued(p)
      PROVE  Gate!Next \/ Unseen
  BY <1>6, GateStutter DEF RescanUnqueued, historyVars
<1>7. QED
  BY <1>1, <1>2, <1>3, <1>4, <1>5, <1>6 DEF ReleaseNext, ReleaseActors, RescanFails

(***************************************************************************)
(* The handlers, the scheduler, its retries and the stops of both          *)
(* implement the gate: every version that goes online, or every promotion, *)
(* spends one decision of the admin, which no other publication spends     *)
(* unless this one raised.                                                 *)
(***************************************************************************)
THEOREM GateImplemented == ReleaseSpec => ImplementsGate
<1>1. ReleaseInit => Gate!Init
  BY DEF ReleaseInit, StoreInit, Gate!Init
<1>2. /\ ReleaseTypeOK /\ AdminInv /\ RetryInv /\ PermitsInv /\ [ReleaseNext]_releaseVars
      => [Gate!Next]_Gate!gateVars
  <2> SUFFICES ASSUME ReleaseTypeOK, AdminInv, RetryInv, PermitsInv,
                      [ReleaseNext]_releaseVars
               PROVE  Gate!Next \/ UNCHANGED Gate!gateVars
    OBVIOUS
  <2>1. Unseen => UNCHANGED Gate!gateVars
    BY DEF Unseen, Live, Past, Permits, Gate!gateVars
  <2>2. CASE UNCHANGED releaseVars
    BY <2>1, <2>2, GateStutter DEF releaseVars, storeVars, actorVars, historyVars
  <2>3. CASE ReleaseNext
    BY <2>1, <2>3, NextGate
  <2>4. QED
    BY <2>2, <2>3
<1>3. QED
  BY <1>1, <1>2, TypeCorrect, AdminInvariant, RetryInvariant, PermitsCover, PTL
  DEF ReleaseSpec, ImplementsGate, Gate!Spec

-----------------------------------------------------------------------------
(***************************************************************************)
(* The scans: the queue, the worker and the restart.                       *)
(***************************************************************************)

WorkerTypeOK ==
  /\ autoSubmit \in [Versions -> BOOLEAN]
  /\ worker \in WorkerStep
  /\ job \in Versions \cup {NoVersion}
  /\ up \in BOOLEAN
  /\ dropped \in SUBSET Versions
  /\ unsent \in SUBSET Versions
  /\ crashes \in 0..MaxCrashes
  /\ worker # "idle" => up /\ job \in Versions

LEMMA ScanHalves == ScanTypeOK <=> StoreTypeOK /\ WorkerTypeOK
BY DEF ScanTypeOK, WorkerTypeOK

\* An enumeration of a finite set has all its members.
LEMMA SeqsOfSet ==
  ASSUME NEW S, IsFiniteSet(S), NEW q \in SetToSeqs(S)
  PROVE  q \in Seq(S) /\ ToSet(q) = S
<1> DEFINE D == 1..Cardinality(S)
<1>1. Cardinality(S) \in Nat
  BY FS_CardinalityType
<1>2. q \in [D -> S] /\ \A i, j \in D : i # j => q[i] # q[j]
  BY DEF SetToSeqs
<1>3. q \in Seq(S)
  BY <1>1, <1>2, SeqDef
<1>4. q \in Injection(D, S)
  BY <1>2 DEF Injection, IsInjective
<1>5. IsFiniteSet(D) /\ Cardinality(D) = Cardinality(S)
  BY <1>1, FS_Interval
<1>6. q \in Surjection(D, S)
  BY <1>4, <1>5, FS_Injection
<1>7. ToSet(q) = S
  BY <1>2, <1>6 DEF Surjection, ToSet
<1>8. QED
  BY <1>3, <1>7

\* What is queued: the head goes first, a new one last.
LEMMA QueueMembers ==
  ASSUME NEW q \in Seq(Versions)
  PROVE  /\ q # <<>> => \A v \in ToSet(q) : v = Head(q) \/ v \in ToSet(Tail(q))
         /\ \A w \in Versions : ToSet(q) \cup {w} \subseteq ToSet(Append(q, w))
<1>1. ASSUME q # <<>>, NEW v \in ToSet(q)
      PROVE  v = Head(q) \/ v \in ToSet(Tail(q))
  <2>1. PICK i \in 1..Len(q) : v = q[i]
    BY <1>1 DEF ToSet
  <2>2. CASE i = 1
    BY <1>1, <2>1, <2>2
  <2>3. CASE i # 1
    <3>1. /\ Tail(q) \in Seq(Versions) /\ Len(Tail(q)) = Len(q) - 1
          /\ \A k \in 1..Len(Tail(q)) : Tail(q)[k] = q[k + 1]
      BY <1>1, HeadTailProperties
    <3>2. i - 1 \in 1..Len(Tail(q)) /\ (i - 1) + 1 = i
      BY <2>1, <2>3, <3>1
    <3>3. Tail(q)[i - 1] = v
      BY <2>1, <3>1, <3>2
    <3>4. DOMAIN Tail(q) = 1..Len(Tail(q))
      BY <3>1, LenProperties
    <3>5. QED
      BY <3>2, <3>3, <3>4 DEF ToSet
  <2>4. QED
    BY <2>2, <2>3
<1>2. ASSUME NEW w \in Versions
      PROVE  ToSet(q) \cup {w} \subseteq ToSet(Append(q, w))
  <2>1. /\ Append(q, w) \in Seq(Versions) /\ Len(Append(q, w)) = Len(q) + 1
        /\ \A i \in 1..Len(q) : Append(q, w)[i] = q[i]
        /\ Append(q, w)[Len(q) + 1] = w
    BY AppendProperties
  <2>2. Len(q) \in Nat
    OBVIOUS
  <2>3. QED
    BY <2>1, <2>2 DEF ToSet
<1>3. QED
  BY <1>1, <1>2

LEMMA ScanActorsType ==
  ASSUME StoreTypeOK, WorkerTypeOK, ScanActors
  PROVE  StoreTypeOK' /\ WorkerTypeOK'
<1> USE DEF WorkerStep
<1>1. CASE TakeJob
  <2>1. Head(queue) \in Versions /\ Tail(queue) \in Seq(Versions)
    BY <1>1 DEF TakeJob, StoreTypeOK
  <2>2. QED
    BY <1>1, <2>1 DEF TakeJob, StoreTypeOK, WorkerTypeOK
<1>2. CASE StartScan
  <2>1. job \in Versions
    BY <1>2 DEF StartScan, WorkerTypeOK
  <2>2. scan' \in [Versions -> ScanStatus]
    BY <1>2, <2>1 DEF StartScan, StoreTypeOK, ScanStatus
  <2>3. QED
    BY <1>2, <2>1, <2>2 DEF StartScan, WorkerDone, StoreTypeOK, WorkerTypeOK
<1>3. ASSUME NEW verdict \in {"passed", "failed"}, EndScan(verdict)
      PROVE  StoreTypeOK' /\ WorkerTypeOK'
  <2>1. scan' \in [Versions -> ScanStatus]
    BY <1>3 DEF EndScan, StoreTypeOK, ScanStatus
  <2>2. QED
    BY <1>3, <2>1 DEF EndScan, WorkerDone, StoreTypeOK, WorkerTypeOK
<1>4. CASE LoadAutoSubmit
  BY <1>4 DEF LoadAutoSubmit, WorkerDone, storeVars, StoreTypeOK, WorkerTypeOK
<1>5. CASE AutoSubmit
  BY <1>5 DEF AutoSubmit, WorkerDone, StoreTypeOK, WorkerTypeOK, Review
<1>6. CASE JobRaises
  BY <1>6 DEF JobRaises, Unsent, WorkerDone, storeVars, StoreTypeOK, WorkerTypeOK
<1>7. CASE Crash
  <2>1. unsent' \in SUBSET Versions
    BY <1>7 DEF Crash, Unsent, WorkerTypeOK
  <2>2. crashes' \in 0..MaxCrashes
    BY <1>7, MaxCrashesAssumption DEF Crash, WorkerTypeOK
  <2>3. StoreTypeOK'
    BY <1>7 DEF Crash, StoreTypeOK
  <2>4. QED
    BY <1>7, <2>1, <2>2, <2>3 DEF Crash, WorkerDone, WorkerTypeOK
<1>8. CASE Restart
  <2>1. Interrupted \subseteq Versions /\ IsFiniteSet(Interrupted)
    BY VersionsAssumption, FS_Subset DEF Interrupted
  <2>2. queue' \in Seq(Versions)
    BY <1>8, <2>1, SeqsOfSet DEF Restart
  <2>3. QED
    BY <1>8, <2>2 DEF Restart, StoreTypeOK, WorkerTypeOK
<1>9. QED
  BY <1>1, <1>2, <1>3, <1>4, <1>5, <1>6, <1>7, <1>8 DEF ScanActors, Worker

\* The steps of a handler that reach the scan.
LEMMA ScanEnvironmentType ==
  ASSUME StoreTypeOK, WorkerTypeOK, ScanEnvironment
  PROVE  StoreTypeOK' /\ WorkerTypeOK'
<1>1. ASSUME NEW v \in Versions, Upload(v)
      PROVE  StoreTypeOK' /\ WorkerTypeOK'
  BY <1>1 DEF Upload, UploadStored, workerVars, StoreTypeOK, WorkerTypeOK
<1>2. ASSUME NEW v \in Versions, Rescan(v)
      PROVE  StoreTypeOK' /\ WorkerTypeOK'
  BY <1>2 DEF Rescan, workerVars, StoreTypeOK, WorkerTypeOK, ScanStatus, Review
<1>3. ASSUME NEW v \in Versions, Archive(v)
      PROVE  StoreTypeOK' /\ WorkerTypeOK'
  BY <1>3 DEF Archive, workerVars, StoreTypeOK, WorkerTypeOK, Status, Review
<1>4. CASE up /\ SetTesters /\ UNCHANGED workerVars
  BY <1>4 DEF SetTesters, workerVars, StoreTypeOK, WorkerTypeOK
<1>5. ASSUME NEW v \in Versions, RescanLost(v)
      PROVE  StoreTypeOK' /\ WorkerTypeOK'
  BY <1>5 DEF RescanLost, StoreTypeOK, WorkerTypeOK, ScanStatus, Review
<1>6. QED
  BY <1>1, <1>2, <1>3, <1>4, <1>5 DEF ScanEnvironment

\* Where the scan of v is.
Known(v) ==
  \/ v \in ToSet(queue)
  \/ job = v /\ worker \in {"load", "analyse"}
  \/ v \in dropped

NoneLost == up => \A v \in Interrupted : Known(v)

LEMMA ScanActorsLose ==
  ASSUME StoreTypeOK, WorkerTypeOK, NoneLost, ScanActors
  PROVE  NoneLost'
<1>1. CASE TakeJob
  <2>1. /\ queue \in Seq(Versions) /\ queue # <<>> /\ job' = Head(queue) /\ worker' = "load"
        /\ queue' = Tail(queue) /\ dropped' = dropped \ {Head(queue)} /\ up
        /\ Interrupted' = Interrupted /\ worker = "idle"
    BY <1>1 DEF TakeJob, StoreTypeOK, Interrupted
  <2>2. \A v \in ToSet(queue) : v = Head(queue) \/ v \in ToSet(queue')
    BY <2>1, QueueMembers
  <2>3. QED
    BY <2>1, <2>2 DEF NoneLost, Known
<1>2. CASE StartScan
  <2>1. job \in Versions /\ up /\ up' = up /\ queue' = queue /\ dropped' = dropped
        /\ stored' = stored /\ worker = "load"
    BY <1>2 DEF StartScan, WorkerTypeOK
  <2>2. CASE stored[job]
    <3>1. /\ scan' = [scan EXCEPT ![job] = "scanning"] /\ worker' = "analyse" /\ job' = job
      BY <1>2, <2>2 DEF StartScan
    <3>2. \A v \in Interrupted' : v = job \/ v \in Interrupted
      BY <2>1, <3>1 DEF Interrupted, StoreTypeOK
    <3>3. QED
      BY <2>1, <3>1, <3>2 DEF NoneLost, Known
  <2>3. CASE ~stored[job]
    <3>1. scan' = scan /\ job \notin Interrupted
      BY <1>2, <2>3 DEF StartScan, Interrupted
    <3>2. Interrupted' = Interrupted
      BY <2>1, <3>1 DEF Interrupted
    <3>3. QED
      BY <2>1, <3>1, <3>2 DEF NoneLost, Known
  <2>4. QED
    BY <2>2, <2>3
<1>3. ASSUME NEW verdict \in {"passed", "failed"}, EndScan(verdict)
      PROVE  NoneLost'
  <2>1. /\ up' = up /\ queue' = queue /\ dropped' = dropped /\ stored' = stored
        /\ worker = "analyse" /\ job \in Versions /\ up
        /\ scan' = [scan EXCEPT ![job] = verdict]
    BY <1>3 DEF EndScan, WorkerTypeOK
  <2>2. \A v \in Interrupted' : v # job /\ v \in Interrupted
    BY <2>1 DEF Interrupted, StoreTypeOK
  <2>3. QED
    BY <2>1, <2>2 DEF NoneLost, Known
<1>4. CASE LoadAutoSubmit \/ AutoSubmit
  <2>1. /\ up' = up /\ queue' = queue /\ dropped' = dropped /\ stored' = stored /\ scan' = scan
        /\ worker \in {"autosubmit", "submit", "block"}
    BY <1>4 DEF LoadAutoSubmit, AutoSubmit, storeVars
  <2>2. Interrupted' = Interrupted
    BY <2>1 DEF Interrupted
  <2>3. QED
    BY <2>1, <2>2 DEF NoneLost, Known
<1>5. CASE JobRaises
  <2>1. Interrupted' = Interrupted /\ queue' = queue /\ up' = up /\ dropped' = dropped \cup {job}
    BY <1>5 DEF JobRaises, storeVars, Interrupted
  <2>2. QED
    BY <2>1 DEF NoneLost, Known
<1>6. CASE Crash
  BY <1>6 DEF Crash, NoneLost
<1>7. CASE Restart
  <2>1. Interrupted \subseteq Versions /\ IsFiniteSet(Interrupted) /\ Interrupted' = Interrupted
    BY <1>7, VersionsAssumption, FS_Subset DEF Restart, Interrupted
  <2>2. ToSet(queue') = Interrupted
    BY <1>7, <2>1, SeqsOfSet DEF Restart
  <2>3. QED
    BY <2>1, <2>2 DEF NoneLost, Known
<1>8. QED
  BY <1>1, <1>2, <1>3, <1>4, <1>5, <1>6, <1>7 DEF ScanActors, Worker

LEMMA ScanEnvironmentLoses ==
  ASSUME StoreTypeOK, WorkerTypeOK, NoneLost, ScanEnvironment
  PROVE  NoneLost'
<1>0. UNCHANGED <<up, job, worker>> /\ dropped \subseteq dropped' /\ queue \in Seq(Versions)
  BY DEF ScanEnvironment, Upload, Rescan, RescanLost, Archive, workerVars, StoreTypeOK
<1>1. ASSUME NEW v \in Versions, Upload(v) \/ Rescan(v)
      PROVE  NoneLost'
  <2>1. queue' = Append(queue, v) /\ Interrupted' \subseteq Interrupted \cup {v}
    BY <1>1 DEF Upload, UploadStored, Rescan, Interrupted, StoreTypeOK
  <2>2. ToSet(queue) \cup {v} \subseteq ToSet(queue')
    BY <1>0, <2>1, QueueMembers
  <2>3. QED
    BY <1>0, <2>1, <2>2 DEF NoneLost, Known
<1>2. ASSUME queue' = queue, Interrupted' = Interrupted
      PROVE  NoneLost'
  BY <1>0, <1>2 DEF NoneLost, Known
<1>3. ASSUME NEW v \in Versions, Archive(v)
      PROVE  NoneLost'
  BY <1>2, <1>3 DEF Archive, Interrupted
<1>4. CASE SetTesters
  BY <1>2, <1>4 DEF SetTesters, Interrupted
<1>5. ASSUME NEW v \in Versions, RescanLost(v)
      PROVE  NoneLost'
  <2>1. queue' = queue /\ v \in dropped' /\ Interrupted' \subseteq Interrupted \cup {v}
    BY <1>5 DEF RescanLost, Interrupted, StoreTypeOK
  <2>2. QED
    BY <1>0, <2>1 DEF NoneLost, Known
<1>6. QED
  BY <1>1, <1>3, <1>4, <1>5 DEF ScanEnvironment

(***************************************************************************)
(* No scan is forgotten, for any number of versions and restarts: what has *)
(* no verdict is queued, being scanned, or had its job or its rescan ended *)
(* by an exception (the queue and the worker are lost in a stop; ScanQueue.start *)
(* finds every interrupted scan in the documents).                         *)
(***************************************************************************)
THEOREM NoScanForgotten == ScanSpec => []NoLostScan
<1> DEFINE Inv == StoreTypeOK /\ WorkerTypeOK /\ NoneLost
<1>1. ScanInit => Inv
  <2> SUFFICES ASSUME ScanInit PROVE Inv
    OBVIOUS
  <2>1. StoreTypeOK
    BY StoreInitType DEF ScanInit
  <2>2. WorkerTypeOK
    BY MaxCrashesAssumption DEF ScanInit, WorkerTypeOK, WorkerStep
  <2>3. Interrupted = {}
    BY DEF ScanInit, StoreInit, Interrupted
  <2>4. QED
    BY <2>1, <2>2, <2>3 DEF NoneLost
<1>2. Inv /\ [ScanActors \/ ScanEnvironment]_scanVars => Inv'
  <2> SUFFICES ASSUME Inv, [ScanActors \/ ScanEnvironment]_scanVars PROVE Inv'
    OBVIOUS
  <2>1. CASE ScanActors
    BY <2>1, ScanActorsType, ScanActorsLose
  <2>2. CASE ScanEnvironment
    BY <2>2, ScanEnvironmentType, ScanEnvironmentLoses
  <2>3. CASE UNCHANGED scanVars
    BY <2>3 DEF scanVars, storeVars, workerVars, StoreTypeOK, WorkerTypeOK, NoneLost, Known, Interrupted
  <2>4. QED
    BY <2>1, <2>2, <2>3
<1>3. Inv => NoLostScan
  BY ScanHalves DEF NoneLost, Known, NoLostScan
<1>4. QED
  BY <1>1, <1>2, <1>3, PTL DEF ScanSpec

-----------------------------------------------------------------------------
(***************************************************************************)
(* The whole life of a version: handlers, scheduler, scans and the stop of *)
(* the process.                                                            *)
(***************************************************************************)

\* What every step of one of them leaves to the others.
LEMMA LifecycleSteps ==
  ASSUME LifecycleNext
  PROVE  \/ ReleaseActors /\ UNCHANGED workerVars
         \/ ScanActors /\ UNCHANGED <<status, shown, actorVars, historyVars>>
         \/ RescanStep
         \/ /\ ScanActors /\ UNCHANGED <<status, shown, decisionVars>>
            /\ pc' = [p \in Actors |-> "idle"] /\ ver' = [p \in Actors |-> NoVersion]
            /\ doc' = [p \in Actors |-> NoDoc] /\ seen' = [p \in Actors |-> {}]
            /\ todo' = [s \in Schedulers |-> {}]
            /\ stranded' = stranded \cup UNION {LeftBehind(s) : s \in Schedulers}
         \/ (Uploads \/ Testers \/ Clock) /\ UNCHANGED workerVars
<1>1. CASE WorkflowStep
  BY <1>1 DEF WorkflowStep
<1>2. CASE ScanStep
  <2>1. Worker \/ JobRaises \/ Restart => UNCHANGED <<status, shown>>
    BY DEF Worker, TakeJob, StartScan, EndScan, LoadAutoSubmit, AutoSubmit, JobRaises, Restart,
           storeVars
  <2>2. QED
    BY <1>2, <2>1 DEF ScanStep, ScanActors
<1>3. CASE ProcessStops
  BY <1>3 DEF ProcessStops, Crash, ScanActors
<1>4. CASE OutsideStep
  BY <1>4 DEF OutsideStep
<1>5. QED
  BY <1>1, <1>2, <1>3, <1>4 DEF LifecycleNext

\* The rescan that raised, as a step of the workflow.
LEMMA RescanStepIs ==
  ASSUME RescanStep
  PROVE  \E p \in Requests :
           RescanUnqueued(p) /\ dropped' = dropped \cup {ver[p]}
             /\ UNCHANGED <<autoSubmit, worker, job, up, unsent, crashes>>
BY DEF RescanStep

LEMMA LifecycleTypes == LifecycleSpec => [](ReleaseTypeOK /\ WorkerTypeOK)
<1>1. LifecycleInit => ReleaseTypeOK /\ WorkerTypeOK
  <2>1. ScanInit => WorkerTypeOK
    BY MaxCrashesAssumption DEF ScanInit, WorkerTypeOK, WorkerStep
  <2>2. QED
    BY <2>1, ReleaseInitType DEF LifecycleInit
<1>2. ReleaseTypeOK /\ WorkerTypeOK /\ [LifecycleNext]_lifecycleVars
      => ReleaseTypeOK' /\ WorkerTypeOK'
  <2> SUFFICES ASSUME ReleaseTypeOK, WorkerTypeOK, [LifecycleNext]_lifecycleVars
               PROVE  ReleaseTypeOK' /\ WorkerTypeOK'
    OBVIOUS
  <2>1. CASE ReleaseActors /\ UNCHANGED workerVars
    <3>1. ReleaseTypeOK'
      BY <2>1, RequestBegins, BeginType, AbortType, WorkType, SchedulerType DEF ReleaseActors
    <3>2. QED
      BY <2>1, <3>1 DEF workerVars, WorkerTypeOK
  <2>2. CASE (Uploads \/ Testers \/ Clock) /\ UNCHANGED workerVars
    BY <2>2, EnvironmentType DEF workerVars, WorkerTypeOK
  <2>3. ASSUME ScanActors
        PROVE  StoreTypeOK' /\ WorkerTypeOK'
    BY <2>3, ScanActorsType DEF ReleaseTypeOK
  <2>4. CASE ScanActors /\ UNCHANGED <<actorVars, historyVars>>
    BY <2>3, <2>4 DEF ReleaseTypeOK, actorVars, historyVars, decisionVars
  <2>5. CASE /\ ScanActors /\ UNCHANGED decisionVars
             /\ pc' = [p \in Actors |-> "idle"] /\ ver' = [p \in Actors |-> NoVersion]
             /\ doc' = [p \in Actors |-> NoDoc] /\ seen' = [p \in Actors |-> {}]
             /\ todo' = [s \in Schedulers |-> {}]
             /\ stranded' = stranded \cup UNION {LeftBehind(s) : s \in Schedulers}
    <3>1. stranded' \in SUBSET Versions
      BY <2>5 DEF ReleaseTypeOK, LeftBehind
    <3>2. QED
      BY <2>3, <2>5, <3>1, NoDocType DEF ReleaseTypeOK, decisionVars, Step, Actors
  <2>6. CASE UNCHANGED lifecycleVars
    BY <2>6 DEF lifecycleVars, storeVars, actorVars, historyVars, decisionVars, workerVars, ReleaseTypeOK,
                StoreTypeOK, WorkerTypeOK
  <2>7. CASE RescanStep
    <3>1. PICK p \in Requests :
            RescanUnqueued(p) /\ dropped' = dropped \cup {ver[p]}
              /\ UNCHANGED <<autoSubmit, worker, job, up, unsent, crashes>>
      BY <2>7, RescanStepIs
    <3>2. ver[p] \in Versions
      BY <3>1 DEF RescanUnqueued, ReleaseTypeOK, Actors
    <3>3. QED
      BY <3>1, <3>2, RescanFailsType DEF WorkerTypeOK
  <2>8. QED
    BY <2>1, <2>2, <2>4, <2>5, <2>6, <2>7, LifecycleSteps
<1>3. QED
  BY <1>1, <1>2, PTL DEF LifecycleSpec

\* A stop forgets decisions in flight, never a document.
LEMMA LifecycleAdmin == LifecycleSpec => []AdminInv
<1>1. LifecycleInit => AdminInv
  BY DEF LifecycleInit, ReleaseInit, StoreInit, AdminInv, Deciding
<1>2. ReleaseTypeOK /\ AdminInv /\ [LifecycleNext]_lifecycleVars => AdminInv'
  <2> SUFFICES ASSUME ReleaseTypeOK, AdminInv, [LifecycleNext]_lifecycleVars
               PROVE  AdminInv'
    OBVIOUS
  <2>1. CASE ReleaseActors
    BY <2>1, RequestBegins, BeginAdmin, AbortAdmin, WorkAdmin, SchedulerAdmin DEF ReleaseActors
  <2>2. CASE UNCHANGED <<status, shown, actorVars, historyVars>>
    BY <2>2 DEF AdminInv, Deciding, Decides, DocOk, actorVars, historyVars, decisionVars
  <2>3. CASE /\ UNCHANGED <<status, shown, decisionVars>>
             /\ pc' = [p \in Actors |-> "idle"] /\ seen' = [p \in Actors |-> {}]
    BY <2>3 DEF AdminInv, Deciding, decisionVars
  <2>4. CASE Uploads \/ Testers \/ Clock
    BY <2>2, <2>4, EnvironmentKeeps
  <2>5. CASE UNCHANGED lifecycleVars
    BY <2>2, <2>5 DEF lifecycleVars, storeVars
  <2>6. CASE RescanStep
    BY <2>6, RescanStepIs, RescanFailsAdmin
  <2>7. QED
    BY <2>1, <2>2, <2>3, <2>4, <2>5, <2>6, LifecycleSteps
<1>3. QED
  BY <1>1, <1>2, LifecycleTypes, PTL DEF LifecycleSpec

(***************************************************************************)
(* Nothing goes live without the platform admin in the whole system too:   *)
(* neither the scans, nor their automatic submissions, nor a stop of the   *)
(* process at any await publish anything.                                  *)
(***************************************************************************)
THEOREM AdminDecidesAlways == LifecycleSpec => []NothingWithoutAdmin
<1>1. AdminInv => NothingWithoutAdmin
  BY DEF AdminInv, NothingWithoutAdmin
<1>2. QED
  BY <1>1, LifecycleAdmin, PTL

-----------------------------------------------------------------------------
(***************************************************************************)
(* The scans in the whole system.                                          *)
(***************************************************************************)

\* A handler or the scheduler changes the verdict of a version it queues only.
LEMMA ReleaseActorsLose ==
  ASSUME ReleaseTypeOK, NoneLost, ReleaseActors, UNCHANGED workerVars
  PROVE  NoneLost'
<1>0. UNCHANGED <<up, job, worker, dropped>> /\ queue \in Seq(Versions)
  BY DEF workerVars, ReleaseTypeOK, StoreTypeOK
<1>1. ASSUME queue' = queue, stored' = stored, scan' = scan
      PROVE  NoneLost'
  <2>1. Interrupted' = Interrupted
    BY <1>1 DEF Interrupted
  <2>2. QED
    BY <1>0, <1>1, <2>1 DEF NoneLost, Known
<1>2. ASSUME NEW p \in Requests, Request(p)
      PROVE  NoneLost'
  <2>1. PICK v \in Versions, d \in Doc, at \in {"approve", "write"} : Begins(p, v, d, at)
    BY <1>2, RequestBegins
  <2>2. QED
    BY <1>1, <2>1 DEF Begins, Begin, storeVars
<1>3. ASSUME NEW p \in Actors, WriteVersion(p)
      PROVE  NoneLost'
  <2>1. ver[p] \in Versions /\ stored' = stored
    BY <1>3 DEF WriteVersion, ReleaseTypeOK
  <2> PICK v \in Versions : v = ver[p]
    BY <2>1
  <2>2. CASE doc[p].op = "rescan"
    <3>1. queue' = Append(queue, v) /\ scan' = [scan EXCEPT ![v] = "pending"]
      BY <1>3, <2>2 DEF WriteVersion
    <3>2. Interrupted' \subseteq Interrupted \cup {v}
      BY <2>1, <3>1 DEF Interrupted, ReleaseTypeOK, StoreTypeOK
    <3>3. ToSet(queue) \cup {v} \subseteq ToSet(queue')
      BY <1>0, <3>1, QueueMembers
    <3>4. QED
      BY <1>0, <3>2, <3>3 DEF NoneLost, Known
  <2>3. CASE doc[p].op # "rescan"
    BY <1>1, <1>3, <2>1, <2>3 DEF WriteVersion
  <2>4. QED
    BY <2>2, <2>3
<1>4. ASSUME NEW p \in Actors, Work(p)
      PROVE  NoneLost'
  <2>1. CASE ApproveReview(p) \/ RefreshRead(p) \/ RefreshWrite(p) \/ Notify(p)
    BY <1>1, <2>1 DEF ApproveReview, RefreshRead, RefreshWrite, Notify, storeVars
  <2>2. QED
    BY <1>3, <1>4, <2>1 DEF Work
<1>5. ASSUME NEW p \in Requests, RequestAborted(p)
      PROVE  NoneLost'
  BY <1>1, <1>5 DEF RequestAborted, storeVars
<1>6. ASSUME NEW s \in Schedulers, SchedulerWork(s) \/ SchedulerFails(s)
      PROVE  NoneLost'
  BY <1>1, <1>6
  DEF SchedulerWork, FindDue, Claim, SkipClaim, Restore, SchedulerFails, GoLiveRaises,
      PublishDueRaises, ClaimUnacknowledged, SchedulerCrash, Ends, storeVars
<1>7. QED
  BY <1>2, <1>4, <1>5, <1>6 DEF ReleaseActors

\* A rescan that raised before its enqueue is known as such.
LEMMA RescanStepLoses ==
  ASSUME ReleaseTypeOK, NoneLost, RescanStep
  PROVE  NoneLost'
<1>1. PICK p \in Requests :
        RescanUnqueued(p) /\ dropped' = dropped \cup {ver[p]}
          /\ UNCHANGED <<autoSubmit, worker, job, up, unsent, crashes>>
  BY RescanStepIs
<1>2. Interrupted' \subseteq Interrupted \cup {ver[p]} /\ queue' = queue
  BY <1>1 DEF RescanUnqueued, Interrupted, ReleaseTypeOK, StoreTypeOK
<1>3. QED
  BY <1>1, <1>2 DEF NoneLost, Known

\* An upload that ends queues its version.
LEMMA OutsideLoses ==
  ASSUME ReleaseTypeOK, NoneLost, Uploads \/ Testers \/ Clock, UNCHANGED workerVars
  PROVE  NoneLost'
<1>0. UNCHANGED <<up, job, worker, dropped>> /\ queue \in Seq(Versions)
  BY DEF workerVars, ReleaseTypeOK, StoreTypeOK
<1>1. ASSUME NEW v \in Versions, UploadStored(v)
      PROVE  NoneLost'
  <2>1. queue' = Append(queue, v) /\ Interrupted' \subseteq Interrupted \cup {v}
    BY <1>1 DEF UploadStored, Interrupted, ReleaseTypeOK, StoreTypeOK
  <2>2. ToSet(queue) \cup {v} \subseteq ToSet(queue')
    BY <1>0, <2>1, QueueMembers
  <2>3. QED
    BY <1>0, <2>1, <2>2 DEF NoneLost, Known
<1>2. CASE Testers \/ Clock
  <2>1. queue' = queue /\ stored' = stored /\ scan' = scan
    BY <1>2 DEF Testers, SetTesters, Clock, DateComes
  <2>2. Interrupted' = Interrupted
    BY <2>1 DEF Interrupted
  <2>3. QED
    BY <1>0, <2>1, <2>2 DEF NoneLost, Known
<1>3. QED
  BY <1>1, <1>2 DEF Uploads

(***************************************************************************)
(* No scan is forgotten in the whole system: the handlers and the          *)
(* scheduler write the versions between any two steps of the worker, a     *)
(* rescan puts its version back in the queue with its verdict, and the     *)
(* stop of the process at any await loses the queue, never the documents   *)
(* that ScanQueue.start reads.                                             *)
(***************************************************************************)
THEOREM NoScanForgottenAlways == LifecycleSpec => []NoLostScan
<1>1. LifecycleInit => NoneLost
  BY DEF LifecycleInit, ScanInit, StoreInit, Interrupted, NoneLost
<1>2. ReleaseTypeOK /\ WorkerTypeOK /\ NoneLost /\ [LifecycleNext]_lifecycleVars => NoneLost'
  <2> SUFFICES ASSUME ReleaseTypeOK, WorkerTypeOK, NoneLost, [LifecycleNext]_lifecycleVars
               PROVE  NoneLost'
    OBVIOUS
  <2>1. CASE ScanActors
    BY <2>1, ScanActorsLose DEF ReleaseTypeOK
  <2>2. CASE ReleaseActors /\ UNCHANGED workerVars
    BY <2>2, ReleaseActorsLose
  <2>3. CASE (Uploads \/ Testers \/ Clock) /\ UNCHANGED workerVars
    BY <2>3, OutsideLoses
  <2>4. CASE UNCHANGED lifecycleVars
    BY <2>4 DEF lifecycleVars, storeVars, workerVars, NoneLost, Known, Interrupted
  <2>5. CASE RescanStep
    BY <2>5, RescanStepLoses
  <2>6. QED
    BY <2>1, <2>2, <2>3, <2>4, <2>5, LifecycleSteps
<1>3. ReleaseTypeOK /\ WorkerTypeOK /\ NoneLost => NoLostScan
  BY ScanHalves DEF ReleaseTypeOK, NoneLost, Known, NoLostScan
<1>4. QED
  BY <1>1, <1>2, <1>3, LifecycleTypes, PTL DEF LifecycleSpec

-----------------------------------------------------------------------------
(***************************************************************************)
(* The gate in the whole system.                                           *)
(***************************************************************************)

\* What a step of the composition is to the workflow, the gate and its permits:
\* a step of the workflow, a step that it does not see, or the end of every actor.
LEMMA LifecycleSeen ==
  ASSUME [LifecycleNext]_lifecycleVars
  PROVE  \/ ReleaseNext
         \/ UNCHANGED <<status, pc, ver, doc, decisionVars>>
         \/ UNCHANGED <<status, decisionVars>> /\ pc' = [p \in Actors |-> "idle"]
BY LifecycleSteps, RescanStepIs
DEF ReleaseNext, RescanFails, lifecycleVars, storeVars, actorVars, historyVars

\* Every actor ends: nobody holds a version.
LEMMA StopPermits ==
  ASSUME ReleaseTypeOK, PermitsInv, UNCHANGED <<status, decisionVars>>,
         pc' = [p \in Actors |-> "idle"]
  PROVE  PermitsInv'
<1> SUFFICES ASSUME NEW v \in Versions
             PROVE  lives'[v] + Cardinality(Holders(v)') + Reserved(v)' <= Granted(v)'
  BY DEF PermitsInv, Reserved, Granted
<1>1. Holders(v)' = {}
  BY DEF Holders
<1>2. Cardinality(Holders(v)') = 0
  BY <1>1, FS_EmptySet
<1>3. /\ lives' = lives /\ Reserved(v)' = Reserved(v) /\ Granted(v)' = Granted(v)
  BY DEF decisionVars, Reserved, Granted
<1>4. /\ lives[v] \in Nat /\ Reserved(v) \in Nat /\ Granted(v) \in Nat
  BY DEF ReleaseTypeOK, Reserved, Granted
<1>5. lives[v] + Cardinality(Holders(v)) + Reserved(v) <= Granted(v)
  BY DEF PermitsInv, Reserved, Granted
<1>6. Cardinality(Holders(v)) \in Nat
  BY HoldersFinite
<1>7. QED
  BY <1>2, <1>3, <1>4, <1>5, <1>6

LEMMA LifecycleRetry == LifecycleSpec => []RetryInv
<1>1. LifecycleInit => RetryInv
  BY DEF LifecycleInit, ReleaseInit, RetryInv, Retrying, Actors
<1>2. ReleaseTypeOK /\ RetryInv /\ [LifecycleNext]_lifecycleVars => RetryInv'
  <2>1. pc' = [p \in Actors |-> "idle"] => RetryInv'
    BY DEF RetryInv, Retrying, Actors
  <2>2. QED
    BY <2>1, LifecycleSeen, NextRetry, RetryStutter DEF decisionVars
<1>3. QED
  BY <1>1, <1>2, LifecycleTypes, PTL DEF LifecycleSpec

LEMMA LifecyclePermits == LifecycleSpec => []PermitsInv
<1>1. LifecycleInit => PermitsInv
  BY PermitsInit DEF LifecycleInit
<1>2. /\ ReleaseTypeOK /\ ReleaseTypeOK' /\ AdminInv /\ RetryInv /\ PermitsInv
      /\ [LifecycleNext]_lifecycleVars
      => PermitsInv'
  BY LifecycleSeen, NextPermits, PermitsStutter, StopPermits
<1>3. QED
  BY <1>1, <1>2, LifecycleTypes, LifecycleAdmin, LifecycleRetry, PTL DEF LifecycleSpec

(***************************************************************************)
(* The whole system implements the gate as well: the scans, the automatic  *)
(* submissions, and a stop of the process that ends a publication between  *)
(* any two of its writes, never let a decision of the admin publish twice. *)
(***************************************************************************)
THEOREM GateAlwaysImplemented == LifecycleSpec => ImplementsGate
<1>1. LifecycleInit => Gate!Init
  BY DEF LifecycleInit, ReleaseInit, StoreInit, Gate!Init
<1>2. /\ ReleaseTypeOK /\ AdminInv /\ RetryInv /\ PermitsInv /\ [LifecycleNext]_lifecycleVars
      => [Gate!Next]_Gate!gateVars
  <2> SUFFICES ASSUME ReleaseTypeOK, AdminInv, RetryInv, PermitsInv,
                      [LifecycleNext]_lifecycleVars
               PROVE  Gate!Next \/ UNCHANGED Gate!gateVars
    OBVIOUS
  <2>1. Unseen => UNCHANGED Gate!gateVars
    BY DEF Unseen, Live, Past, Permits, Gate!gateVars
  <2>2. CASE UNCHANGED <<status, decisionVars>>
    BY <2>1, <2>2, GateStutter
  <2>3. CASE ReleaseNext
    BY <2>1, <2>3, NextGate
  <2>4. QED
    BY <2>2, <2>3, LifecycleSeen
<1>3. QED
  BY <1>1, <1>2, LifecycleTypes, LifecycleAdmin, LifecycleRetry, LifecyclePermits, PTL
  DEF LifecycleSpec, ImplementsGate, Gate!Spec

-----------------------------------------------------------------------------
(***************************************************************************)
(* The reservation of publish_due.                                         *)
(***************************************************************************)

\* What a scheduler is about to write ends the reservation.
Publishing(s) == pc[s] = "write" => doc[s].status = "published"

ClaimInv == ClaimHeld /\ \A s \in Schedulers : Publishing(s)

\* Steps of an actor that is not in the middle of a publication.
LEMMA ClaimFrame ==
  ASSUME ReleaseTypeOK, ClaimInv, NEW p \in Actors, NEW at \in Step \ {"write"}, Goto(p, at),
         pc[p] \notin {"write", "recover"}, status' = status, stranded \subseteq stranded'
  PROVE  ClaimInv'
<1>1. \A q \in Actors \ {p} : pc'[q] = pc[q] /\ ver'[q] = ver[q] /\ doc'[q] = doc[q]
  BY DEF Goto, ReleaseTypeOK
<1>2. pc'[p] = at
  BY DEF Goto, ReleaseTypeOK
<1>3. \A s \in Schedulers : Publishing(s)'
  BY <1>1, <1>2 DEF ClaimInv, Publishing, Actors
<1>4. \A v \in Versions : Owned(v) => Owned(v)'
  BY <1>1 DEF Owned, Actors
<1>5. QED
  BY <1>3, <1>4 DEF ClaimInv, ClaimHeld

LEMMA BeginClaim ==
  ASSUME ReleaseTypeOK, ClaimInv, NEW p \in Requests, NEW v \in Versions, NEW d \in Doc,
         NEW at \in {"approve", "write"}, Begins(p, v, d, at)
  PROVE  ClaimInv'
<1>1. /\ status' = status /\ stranded' = stranded
      /\ \A s \in Schedulers : pc'[s] = pc[s] /\ ver'[s] = ver[s] /\ doc'[s] = doc[s]
  BY ActorsAssumption DEF Begins, Begin, storeVars, ReleaseTypeOK, Actors
<1>2. QED
  BY <1>1 DEF ClaimInv, ClaimHeld, Owned, Publishing

\* The write of an actor: its version is reserved no more if it was by it.
LEMMA WriteClaim ==
  ASSUME ReleaseTypeOK, AdminInv, ClaimInv, NEW p \in Actors, WriteVersion(p)
  PROVE  ClaimInv'
<1>1. /\ pc[p] = "write" /\ ver[p] \in Versions /\ doc[p] \in Doc /\ DocOk(doc[p])
      /\ p \in Schedulers => doc[p].status = "published"
  BY DEF WriteVersion, ReleaseTypeOK, AdminInv, ClaimInv, Publishing
<1>2. PICK at \in {"refresh", "idle"} : Goto(p, at)
  BY DEF WriteVersion
<1>3. /\ \A q \in Actors \ {p} : pc'[q] = pc[q] /\ ver'[q] = ver[q] /\ doc'[q] = doc[q]
      /\ pc'[p] = at
  BY <1>2 DEF Goto, ReleaseTypeOK
<1>4. status' = IF doc[p].status = "keep" THEN status ELSE [status EXCEPT ![ver[p]] = doc[p].status]
  BY DEF WriteVersion, Put
<1>5. \A s \in Schedulers : Publishing(s)'
  BY <1>3 DEF ClaimInv, Publishing, Actors
<1>6. ASSUME NEW v \in Versions, status'[v] = "publishing"
      PROVE  Owned(v)' \/ v \in stranded'
  <2>1. status[v] = "publishing" /\ (p \in Schedulers => ver[p] # v)
    BY <1>1, <1>4, <1>6 DEF DocOk, ReleaseTypeOK, StoreTypeOK
  <2>2. CASE v \in stranded
    BY <1>1, <1>4, <1>6, <2>2 DEF WriteVersion, StillStranded, DocOk, ReleaseTypeOK, StoreTypeOK
  <2>3. ASSUME NEW s \in Schedulers, ver[s] = v, pc[s] \in {"write", "recover"}
        PROVE  Owned(v)'
    <3>1. s # p
      BY <2>1, <2>3
    <3>2. QED
      BY <1>3, <2>3, <3>1 DEF Owned, Actors
  <2>4. QED
    BY <2>1, <2>2, <2>3 DEF ClaimInv, ClaimHeld, Owned
<1>7. QED
  BY <1>5, <1>6 DEF ClaimInv, ClaimHeld

LEMMA ActorsClaim ==
  ASSUME ReleaseTypeOK, AdminInv, ClaimInv, ReleaseActors
  PROVE  ClaimInv'
<1>1. {"idle", "catalog", "notify", "recover"} \subseteq Step \ {"write"} /\ Schedulers \subseteq Actors
  BY DEF Step, Actors
<1>2. ASSUME NEW p \in Requests, Request(p)
      PROVE  ClaimInv'
  BY <1>2, RequestBegins, BeginClaim
\* A request owns nothing, at whichever step it is.
<1>3. ASSUME NEW p \in Requests, NEW at \in Step, Goto(p, at), status' = status,
             stranded' = stranded
      PROVE  ClaimInv'
  <2>1. \A s \in Schedulers : pc'[s] = pc[s] /\ ver'[s] = ver[s] /\ doc'[s] = doc[s]
    BY <1>3, ActorsAssumption DEF Goto, ReleaseTypeOK, Actors
  <2>2. QED
    BY <1>3, <2>1 DEF ClaimInv, ClaimHeld, Owned, Publishing
<1>4. ASSUME NEW p \in Requests, RequestAborted(p)
      PROVE  ClaimInv'
  BY <1>1, <1>3, <1>4 DEF RequestAborted, storeVars, historyVars
<1>5. ASSUME NEW p \in Actors, Work(p)
      PROVE  ClaimInv'
  <2>1. CASE WriteVersion(p)
    BY <2>1, WriteClaim
  <2>2. CASE ApproveReview(p)
    <3>1. p \in Requests /\ "write" \in Step
      BY <2>2 DEF ApproveReview, ReleaseTypeOK, Actors, Step
    <3>2. QED
      BY <1>3, <2>2, <3>1 DEF ApproveReview, historyVars
  <2>3. CASE RefreshRead(p)
    BY <1>1, <2>3, ClaimFrame DEF RefreshRead, storeVars, historyVars
  <2>4. CASE RefreshWrite(p)
    BY <1>1, <2>4, ClaimFrame DEF RefreshWrite, historyVars
  <2>5. CASE Notify(p)
    BY <1>1, <2>5, ClaimFrame DEF Notify, storeVars, historyVars
  <2>6. QED
    BY <1>5, <2>1, <2>2, <2>3, <2>4, <2>5 DEF Work
<1>6. ASSUME NEW s \in Schedulers, FindDue(s) \/ \E v \in Versions : SkipClaim(s, v)
      PROVE  ClaimInv'
  BY <1>6 DEF FindDue, SkipClaim, storeVars, historyVars, ClaimInv, ClaimHeld, Owned, Publishing
<1>7. ASSUME NEW s \in Schedulers, NEW v \in Versions, Claim(s, v)
      PROVE  ClaimInv'
  <2>1. /\ \A q \in Schedulers \ {s} : pc'[q] = pc[q] /\ ver'[q] = ver[q] /\ doc'[q] = doc[q]
        /\ pc[s] = "idle" /\ pc'[s] = "write" /\ ver'[s] = v
        /\ doc'[s] = GoLiveDoc(v, "system", "draft")
    BY <1>1, <1>7 DEF Claim, Free, ReleaseTypeOK
  <2>2. stranded' = stranded /\ \A w \in Versions \ {v} : status'[w] = status[w]
    BY <1>7 DEF Claim, historyVars, ReleaseTypeOK, StoreTypeOK
  <2>3. \A q \in Schedulers : Publishing(q)'
    BY <2>1 DEF ClaimInv, Publishing, GoLiveDoc, SetDoc
  <2>4. QED
    BY <2>1, <2>2, <2>3 DEF ClaimInv, ClaimHeld, Owned
<1>8. ASSUME NEW s \in Schedulers, GoLiveRaises(s)
      PROVE  ClaimInv'
  <2>1. /\ \A q \in Schedulers \ {s} : pc'[q] = pc[q] /\ ver'[q] = ver[q] /\ doc'[q] = doc[q]
        /\ pc'[s] = "recover" /\ ver'[s] = ver[s] /\ status' = status
        /\ stranded' = stranded
    BY <1>1, <1>8 DEF GoLiveRaises, Goto, storeVars, ReleaseTypeOK
  <2>2. \A q \in Schedulers : Publishing(q)'
    BY <2>1 DEF ClaimInv, Publishing
  <2>3. QED
    BY <2>1, <2>2 DEF ClaimInv, ClaimHeld, Owned
<1>9. ASSUME NEW s \in Schedulers, Restore(s)
      PROVE  ClaimInv'
  <2>1. /\ \A q \in Schedulers \ {s} : pc'[q] = pc[q] /\ ver'[q] = ver[q] /\ doc'[q] = doc[q]
        /\ pc'[s] = "idle" /\ ver[s] \in Versions
    BY <1>1, <1>9 DEF Restore, Goto, ReleaseTypeOK
  <2>2. stranded' = stranded \ {ver[s]} /\ status'[ver[s]] = "scheduled" /\ \A w \in Versions \ {ver[s]} : status'[w] = status[w]
    BY <1>9, <2>1 DEF Restore, ReleaseTypeOK, StoreTypeOK
  <2>3. \A q \in Schedulers : Publishing(q)'
    BY <2>1 DEF ClaimInv, Publishing
  <2>4. QED
    BY <2>1, <2>2, <2>3 DEF ClaimInv, ClaimHeld, Owned
<1>10. ASSUME NEW s \in Schedulers, Ends(s)
       PROVE  ClaimInv'
  <2>1. /\ \A q \in Schedulers \ {s} : pc'[q] = pc[q] /\ ver'[q] = ver[q] /\ doc'[q] = doc[q]
        /\ pc'[s] = "idle" /\ status' = status
    BY <1>1, <1>10 DEF Ends, Goto, storeVars, ReleaseTypeOK
  <2>2. \A q \in Schedulers : Publishing(q)'
    BY <2>1 DEF ClaimInv, Publishing
  <2>3. \A v \in Versions : status[v] = "publishing" /\ Owned(v) => Owned(v)' \/ v \in stranded'
    BY <1>10, <2>1 DEF Owned, Ends, LeftBehind
  <2>4. stranded \subseteq stranded'
    BY <1>10 DEF Ends
  <2>5. QED
    BY <2>1, <2>2, <2>3, <2>4 DEF ClaimInv, ClaimHeld
<1>11. ASSUME NEW s \in Schedulers, NEW v \in Versions, ClaimUnacknowledged(s, v)
       PROVE  ClaimInv'
  <2>1. UNCHANGED <<pc, ver, doc>> /\ stranded' = stranded \cup {v}
        /\ \A w \in Versions \ {v} : status'[w] = status[w]
    BY <1>11 DEF ClaimUnacknowledged, ReleaseTypeOK, StoreTypeOK
  <2>2. QED
    BY <2>1 DEF ClaimInv, ClaimHeld, Owned, Publishing
<1>12. QED
  BY <1>2, <1>4, <1>5, <1>6, <1>7, <1>8, <1>9, <1>10, <1>11
  DEF ReleaseActors, SchedulerWork, SchedulerFails, PublishDueRaises, SchedulerCrash

(***************************************************************************)
(* In the whole system, and under every fault, a version in "publishing"   *)
(* belongs to a running publication of some instance, however many claim   *)
(* and whatever go_live raises, or else its reservation was left behind in *)
(* one of three ways: a stop of the instance or of the process, an answer  *)
(* to the reservation that never came, or a failure of the update that     *)
(* gives it back.  Nothing else leaves a version in that status, where     *)
(* publish_due never finds it again.                                       *)
(***************************************************************************)
THEOREM ClaimsAreHeld == LifecycleSpec => []ClaimHeld
<1>1. LifecycleInit => ClaimInv
  BY DEF LifecycleInit, ReleaseInit, StoreInit, ClaimInv, ClaimHeld, Publishing, Actors
<1>2. ReleaseTypeOK /\ AdminInv /\ ClaimInv /\ [LifecycleNext]_lifecycleVars => ClaimInv'
  <2> SUFFICES ASSUME ReleaseTypeOK, AdminInv, ClaimInv, [LifecycleNext]_lifecycleVars
               PROVE  ClaimInv'
    OBVIOUS
  <2>1. CASE ReleaseActors
    BY <2>1, ActorsClaim
  <2>2. CASE /\ status' = status /\ pc' = [p \in Actors |-> "idle"]
             /\ stranded' = stranded \cup UNION {LeftBehind(s) : s \in Schedulers}
    <3>1. \A v \in Versions : status[v] = "publishing" /\ Owned(v) => v \in stranded'
      BY <2>2 DEF Owned, LeftBehind
    <3>2. \A s \in Schedulers : Publishing(s)'
      BY <2>2 DEF Publishing, Actors
    <3>3. QED
      BY <2>2, <3>1, <3>2 DEF ClaimInv, ClaimHeld
  <2>3. CASE UNCHANGED <<status, pc, ver, doc, stranded>>
    BY <2>3 DEF ClaimInv, ClaimHeld, Owned, Publishing
  <2>4. CASE Uploads \/ Testers \/ Clock
    BY <2>3, <2>4, EnvironmentKeeps DEF actorVars, historyVars
  <2>5. CASE RescanStep
    <3>1. PICK p \in Requests : RescanUnqueued(p)
      BY <2>5, RescanStepIs
    <3>2. /\ status' = status /\ stranded' = stranded
          /\ \A s \in Schedulers : pc'[s] = pc[s] /\ ver'[s] = ver[s] /\ doc'[s] = doc[s]
      BY <3>1, ActorsAssumption DEF RescanUnqueued, Goto, historyVars, ReleaseTypeOK, Actors
    <3>3. QED
      BY <3>2 DEF ClaimInv, ClaimHeld, Owned, Publishing
  <2>6. QED
    BY <2>1, <2>2, <2>3, <2>4, <2>5, LifecycleSteps
    DEF actorVars, historyVars, lifecycleVars, storeVars
<1>3. ClaimInv => ClaimHeld
  BY DEF ClaimInv
<1>4. QED
  BY <1>1, <1>2, <1>3, LifecycleTypes, LifecycleAdmin, PTL DEF LifecycleSpec

-----------------------------------------------------------------------------
(***************************************************************************)
(* One actor at a time.                                                    *)
(***************************************************************************)

OneAtATime == \A p, q \in Actors : Busy(p) /\ Busy(q) => p = q

\* No two actors are still to write the same version.
WorkApart ==
  \A p, q \in Actors :
    pc[p] \in {"approve", "write"} /\ pc[q] \in {"approve", "write"} /\ ver[p] = ver[q] => p = q

\* A field after the write of x.
After(x, old) == IF x = "keep" THEN old ELSE x

\* What p has decided on its snapshot still fits the documents it will write.
Fits(p) ==
  pc[p] \in {"approve", "write"} =>
    LET v == ver[p]
        d == doc[p]
    IN  /\ pc[p] = "approve" => d.review = "keep"
        /\ pc[p] = "write" /\ After(d.review, review[v]) = "pending" =>
             \/ After(d.status, status[v]) = "draft"
             \/ After(d.status, status[v]) = "published" /\ After(d.channel, channel[v]) = "beta"
        /\ After(d.status, status[v]) = "scheduled" => After(d.schedAt, schedAt[v]) # "none"
        /\ status[v] = "published" /\ After(d.status, status[v]) # "published" =>
             p \in Requests /\ d.by = "admin"

FitsInv ==
  /\ \A p \in Actors : pc[p] # "recover" /\ Fits(p)
  /\ ScheduledHasDate /\ PendingDecidable

SerialInv == OneAtATime /\ FitsInv

\* The same for the catalog: the write is followed by a refresh if it changes
\* what is public, and only what has been scanned becomes public.
FitsCatalog(p) ==
  pc[p] \in {"approve", "write"} =>
    LET v == ver[p]
        d == doc[p]
    IN  /\ d.op # "rescan"
        /\ d.status \in {"scheduled", "published"} => stored[v] /\ scan[v] = "passed"
        /\ ~d.refresh => /\ d.status # "published"
                         /\ status[v] = "published" => d.status = "keep" /\ d.channel = "keep"

ScannedBefore ==
  \A v \in Versions :
    /\ ~stored[v] => scan[v] = "pending"
    /\ status[v] \in {"scheduled", "publishing", "published"} => stored[v] /\ scan[v] = "passed"

QueuedOnce ==
  /\ \A i \in 1..Len(queue) : stored[queue[i]] /\ scan[queue[i]] = "pending"
  /\ \A i, j \in 1..Len(queue) : queue[i] = queue[j] => i = j

Refreshing ==
  /\ \A p \in Actors : pc[p] = "catalog" => seen[p] = Public
  /\ (\A p \in Actors : pc[p] \notin {"refresh", "catalog"}) => shown = Public

CatalogInv ==
  /\ \A p \in Actors : FitsCatalog(p)
  /\ ScannedBefore /\ QueuedOnce /\ Refreshing

\* With one slot, an actor that may start finds the others idle.
LEMMA OneFree ==
  ASSUME MaxBusy = 1, NEW p \in Actors, Free(p)
  PROVE  pc[p] = "idle" /\ \A q \in Actors \ {p} : ~Busy(q)
<1>1. IsFiniteSet(Actors)
  BY ActorsAssumption, FS_Union DEF Actors
<1> DEFINE S == {q \in Actors \ {p} : Busy(q)}
<1>2. IsFiniteSet(S) /\ Cardinality(S) \in Nat
  BY <1>1, FS_Subset, FS_CardinalityType
<1>3. Cardinality(S) = 0
  BY <1>2 DEF Free
<1>4. S = {}
  BY <1>2, <1>3, FS_EmptySet
<1>5. QED
  BY <1>4 DEF Free

\* What a step of p at work needs to know of the others.
LEMMA OthersIdle ==
  ASSUME OneAtATime, NEW p \in Actors, pc[p] # "idle"
  PROVE  \A q \in Actors \ {p} : ~Busy(q) /\ pc[q] = "idle" /\ (q \in Schedulers => todo[q] = {})
BY DEF OneAtATime, Busy

\* Whoever was alone stays alone.
LEMMA StaysAlone ==
  ASSUME ReleaseTypeOK, NEW p \in Actors, \A q \in Actors \ {p} : ~Busy(q),
         \A q \in Actors \ {p} : pc'[q] = pc[q] /\ (q \in Schedulers => todo'[q] = todo[q])
  PROVE  OneAtATime' /\ \A q \in Actors \ {p} : pc'[q] = "idle"
BY DEF OneAtATime, Busy

LEMMA AloneApart == OneAtATime => WorkApart
BY DEF OneAtATime, WorkApart, Busy

\* What p writes still fits, and it wrote no version that another is to write.
LEMMA AllFit ==
  ASSUME ReleaseTypeOK, FitsInv, NEW p \in Actors,
         \A q \in Actors \ {p} : pc'[q] = pc[q] /\ ver'[q] = ver[q] /\ doc'[q] = doc[q],
         \A q \in Actors \ {p} : pc[q] \in {"approve", "write"} =>
           /\ status'[ver[q]] = status[ver[q]] /\ channel'[ver[q]] = channel[ver[q]]
           /\ review'[ver[q]] = review[ver[q]] /\ schedAt'[ver[q]] = schedAt[ver[q]],
         pc'[p] # "recover", Fits(p)', ScheduledHasDate', PendingDecidable'
  PROVE  FitsInv'
<1>1. ASSUME NEW q \in Actors \ {p}
      PROVE  pc'[q] # "recover" /\ Fits(q)'
  <2>1. pc[q] # "recover" /\ Fits(q)
    BY DEF FitsInv
  <2>2. QED
    BY <2>1 DEF Fits, After
<1>2. QED
  BY <1>1 DEF FitsInv

-----------------------------------------------------------------------------
(***************************************************************************)
(* The reading halves: what the guards of each handler establish.          *)
(***************************************************************************)

\* The document d that p made of v, to be written from step at on.
DocFits(p, v, d, at) ==
  /\ at = "approve" => d.review = "keep"
  /\ at = "write" /\ After(d.review, review[v]) = "pending" =>
       \/ After(d.status, status[v]) = "draft"
       \/ After(d.status, status[v]) = "published" /\ After(d.channel, channel[v]) = "beta"
  /\ After(d.status, status[v]) = "scheduled" => After(d.schedAt, schedAt[v]) # "none"
  /\ status[v] = "published" /\ After(d.status, status[v]) # "published" => d.by = "admin"

LEMMA RequestFits ==
  ASSUME ReleaseTypeOK, FitsInv, NEW p \in Requests, Request(p)
  PROVE  \E v \in Versions, d \in Doc, at \in {"approve", "write"} :
           Begin(p, v, d, at) /\ DocFits(p, v, d, at)
<1> PICK v \in Versions :
      \/ SubmitVersion(p, v)
      \/ RejectVersion(p, v)
      \/ \E dated \in BOOLEAN : PublishVersion(p, v, dated)
      \/ \E by \in {"admin", "editor"} :
           \/ \E ch \in Channel \cup {"keep"} : UpdateVersion(p, v, by, ch)
           \/ WithdrawVersion(p, v, by)
           \/ UnscheduleVersion(p, v, by)
           \/ ArchiveVersion(p, v, by)
           \/ RescanVersion(p, v, by)
  BY DEF Request
<1>0. /\ status[v] \in Status /\ channel[v] \in Channel /\ review[v] \in Review
      /\ schedAt[v] \in ScheduledAt
      /\ status[v] = "scheduled" => schedAt[v] # "none"
      /\ review[v] = "pending" => status[v] = "draft" \/ (status[v] = "published" /\ channel[v] = "beta")
  BY DEF ReleaseTypeOK, StoreTypeOK, FitsInv, ScheduledHasDate, PendingDecidable, IsPending, IsBeta
<1> USE DEF Operation, Status, Channel, Review, ScheduledAt
<1> SUFFICES \E d \in Doc, at \in {"approve", "write"} : Begin(p, v, d, at) /\ DocFits(p, v, d, at)
  OBVIOUS
<1>1. CASE SubmitVersion(p, v)
  <2> DEFINE d == SetDoc("submit", "editor", "keep", "keep", "pending", "keep", FALSE)
  <2>1. d \in Doc BY SetDocType
  <2>2. DocFits(p, v, d, "write")
    BY <1>0, <1>1 DEF SubmitVersion, Submittable, IsBeta, DocFits, After, SetDoc
  <2>3. Begin(p, v, d, "write") BY <1>1 DEF SubmitVersion
  <2>4. QED BY <2>1, <2>2, <2>3
<1>2. CASE RejectVersion(p, v)
  <2> DEFINE d == SetDoc("reject", "admin", "keep", "keep", "rejected", "keep", FALSE)
  <2>1. d \in Doc BY SetDocType
  <2>2. DocFits(p, v, d, "write") BY <1>0 DEF DocFits, After, SetDoc
  <2>3. Begin(p, v, d, "write") BY <1>2 DEF RejectVersion
  <2>4. QED BY <2>1, <2>2, <2>3
<1>3. ASSUME NEW dated \in BOOLEAN, PublishVersion(p, v, dated)
      PROVE  \E d \in Doc, at \in {"approve", "write"} : Begin(p, v, d, at) /\ DocFits(p, v, d, at)
  <2>1. CASE dated /\ status[v] = "draft"
    <3> DEFINE rv == IF IsPending(v) THEN "approved" ELSE review[v]
               d == SetDoc("schedule", "admin", "scheduled", "keep", rv, "later", FALSE)
    <3>1. d \in Doc BY <1>0, SetDocType
    <3>2. Begin(p, v, d, "write") BY <1>3, <2>1 DEF PublishVersion
    <3>3. DocFits(p, v, d, "write")
      BY <1>0, <2>1 DEF DocFits, After, SetDoc, IsPending
    <3>4. QED BY <3>1, <3>2, <3>3
  <2>2. CASE ~(dated /\ status[v] = "draft")
    <3> DEFINE d == GoLiveDoc(v, "admin", status[v])
               at == IF IsPending(v) THEN "approve" ELSE "write"
    <3>1. d \in Doc /\ at \in {"approve", "write"} BY GoLiveDocType
    <3>2. Begin(p, v, d, at) BY <1>3, <2>2 DEF PublishVersion
    <3>3. DocFits(p, v, d, at)
      BY <1>0 DEF DocFits, After, GoLiveDoc, SetDoc, IsPending, IsBeta
    <3>4. QED BY <3>1, <3>2, <3>3
  <2>3. QED BY <2>1, <2>2
<1>4. ASSUME NEW by \in {"admin", "editor"}, NEW ch \in Channel \cup {"keep"},
             UpdateVersion(p, v, by, ch)
      PROVE  \E d \in Doc, at \in {"approve", "write"} : Begin(p, v, d, at) /\ DocFits(p, v, d, at)
  <2> DEFINE rv == IF status[v] = "draft" /\ review[v] # "none" THEN "none" ELSE "keep"
             d == SetDoc("update", by, "keep", ch, rv, "keep", status[v] = "published")
  <2>1. d \in Doc BY SetDocType
  <2>2. Begin(p, v, d, "write") BY <1>4 DEF UpdateVersion
  <2>3. ch \notin {"keep", channel[v]} => status[v] = "draft" BY <1>4 DEF UpdateVersion
  <2>4. DocFits(p, v, d, "write")
    BY <1>0, <2>3 DEF DocFits, After, SetDoc
  <2>5. QED BY <2>1, <2>2, <2>4
<1>5. ASSUME NEW by \in {"admin", "editor"}, WithdrawVersion(p, v, by)
      PROVE  \E d \in Doc, at \in {"approve", "write"} : Begin(p, v, d, at) /\ DocFits(p, v, d, at)
  <2> DEFINE d == SetDoc("withdraw", by, "keep", "keep", "none", "keep", FALSE)
  <2>1. d \in Doc BY SetDocType
  <2>2. DocFits(p, v, d, "write") BY <1>0 DEF DocFits, After, SetDoc
  <2>3. Begin(p, v, d, "write") BY <1>5 DEF WithdrawVersion
  <2>4. QED BY <2>1, <2>2, <2>3
<1>6. ASSUME NEW by \in {"admin", "editor"}, UnscheduleVersion(p, v, by)
      PROVE  \E d \in Doc, at \in {"approve", "write"} : Begin(p, v, d, at) /\ DocFits(p, v, d, at)
  <2> DEFINE d == SetDoc("unschedule", by, "draft", "keep", "none", "none", FALSE)
  <2>1. d \in Doc BY SetDocType
  <2>2. DocFits(p, v, d, "write") BY <1>0, <1>6 DEF UnscheduleVersion, DocFits, After, SetDoc
  <2>3. Begin(p, v, d, "write") BY <1>6 DEF UnscheduleVersion
  <2>4. QED BY <2>1, <2>2, <2>3
<1>7. ASSUME NEW by \in {"admin", "editor"}, ArchiveVersion(p, v, by)
      PROVE  \E d \in Doc, at \in {"approve", "write"} : Begin(p, v, d, at) /\ DocFits(p, v, d, at)
  <2> DEFINE d == SetDoc("archive", by, "archived", "keep", "none", "keep", TRUE)
  <2>1. d \in Doc BY SetDocType
  <2>2. DocFits(p, v, d, "write")
    BY <1>0, <1>7 DEF ArchiveVersion, MayTouch, DocFits, After, SetDoc
  <2>3. Begin(p, v, d, "write") BY <1>7 DEF ArchiveVersion
  <2>4. QED BY <2>1, <2>2, <2>3
<1>8. ASSUME NEW by \in {"admin", "editor"}, RescanVersion(p, v, by)
      PROVE  \E d \in Doc, at \in {"approve", "write"} : Begin(p, v, d, at) /\ DocFits(p, v, d, at)
  <2> DEFINE d == SetDoc("rescan", by, "keep", "keep", "none", "keep", FALSE)
  <2>1. d \in Doc BY SetDocType
  <2>2. DocFits(p, v, d, "write") BY <1>0 DEF DocFits, After, SetDoc
  <2>3. Begin(p, v, d, "write") BY <1>8 DEF RescanVersion
  <2>4. QED BY <2>1, <2>2, <2>3
<1>9. QED
  BY <1>1, <1>2, <1>3, <1>4, <1>5, <1>6, <1>7, <1>8

LEMMA BeginFits ==
  ASSUME ReleaseTypeOK, FitsInv, NEW p \in Requests, Request(p)
  PROVE  FitsInv'
<1>1. PICK v \in Versions, d \in Doc, at \in {"approve", "write"} :
        Begin(p, v, d, at) /\ DocFits(p, v, d, at)
  BY RequestFits
<1>2. p \in Actors BY DEF Actors
<1>3. UNCHANGED <<status, channel, review, schedAt>>
  BY <1>1 DEF Begin, storeVars
<1>4. /\ \A q \in Actors \ {p} : pc'[q] = pc[q] /\ ver'[q] = ver[q] /\ doc'[q] = doc[q]
      /\ pc'[p] = at /\ ver'[p] = v /\ doc'[p] = d
  BY <1>1, <1>2 DEF Begin, ReleaseTypeOK
<1>5. Fits(p)'
  BY <1>1, <1>3, <1>4 DEF Fits, DocFits, After
<1>6. ScheduledHasDate' /\ PendingDecidable'
  BY <1>3 DEF FitsInv, ScheduledHasDate, PendingDecidable, IsPending, IsBeta
<1>7. QED
  BY <1>2, <1>3, <1>4, <1>5, <1>6, AllFit

-----------------------------------------------------------------------------
(***************************************************************************)
(* The writing halves.                                                     *)
(***************************************************************************)

LEMMA GotoFrame ==
  ASSUME ReleaseTypeOK, NEW p \in Actors, NEW at, Goto(p, at)
  PROVE  /\ \A q \in Actors \ {p} : pc'[q] = pc[q] /\ ver'[q] = ver[q] /\ doc'[q] = doc[q]
         /\ pc'[p] = at
         /\ at # "idle" => ver'[p] = ver[p] /\ doc'[p] = doc[p]
BY DEF Goto, ReleaseTypeOK

LEMMA WriteFits ==
  ASSUME ReleaseTypeOK, FitsInv, WorkApart, NEW p \in Actors, WriteVersion(p)
  PROVE  FitsInv'
<1>1. pc[p] = "write" /\ ver[p] \in Versions /\ doc[p] \in Doc
  BY DEF WriteVersion, ReleaseTypeOK
<1> DEFINE v == ver[p]
           d == doc[p]
<1>2. /\ status'[v] = After(d.status, status[v]) /\ channel'[v] = After(d.channel, channel[v])
      /\ review'[v] = After(d.review, review[v]) /\ schedAt'[v] = After(d.schedAt, schedAt[v])
      /\ \A w \in Versions \ {v} : /\ status'[w] = status[w] /\ channel'[w] = channel[w]
                                   /\ review'[w] = review[w] /\ schedAt'[w] = schedAt[w]
  BY <1>1 DEF WriteVersion, Put, After, ReleaseTypeOK, StoreTypeOK
<1>3. Fits(p)
  BY DEF FitsInv
<1>4. ScheduledHasDate'
  BY <1>1, <1>2, <1>3 DEF Fits, FitsInv, ScheduledHasDate
<1>5. PendingDecidable'
  BY <1>1, <1>2, <1>3 DEF Fits, FitsInv, PendingDecidable, IsPending, IsBeta
<1>6. PICK at \in {"refresh", "idle"} : Goto(p, at)
  BY DEF WriteVersion
<1>7. /\ \A q \in Actors \ {p} : pc'[q] = pc[q] /\ ver'[q] = ver[q] /\ doc'[q] = doc[q]
      /\ pc'[p] = at
  BY <1>6, GotoFrame
<1>8. Fits(p)' /\ pc'[p] # "recover"
  BY <1>7 DEF Fits
<1>9. \A q \in Actors \ {p} : pc[q] \in {"approve", "write"} => ver[q] \in Versions \ {v}
  BY <1>1 DEF WorkApart, ReleaseTypeOK
<1>10. QED
  BY <1>2, <1>4, <1>5, <1>7, <1>8, <1>9, AllFit

LEMMA ApproveFits ==
  ASSUME ReleaseTypeOK, FitsInv, WorkApart, NEW p \in Actors, ApproveReview(p)
  PROVE  FitsInv'
<1>1. /\ pc[p] = "approve" /\ ver[p] \in Versions /\ Goto(p, "write")
      /\ UNCHANGED <<status, channel, schedAt>>
      /\ review' = [review EXCEPT ![ver[p]] = "approved"]
  BY DEF ApproveReview, ReleaseTypeOK
<1>2. /\ \A q \in Actors \ {p} : pc'[q] = pc[q] /\ ver'[q] = ver[q] /\ doc'[q] = doc[q]
      /\ pc'[p] = "write" /\ ver'[p] = ver[p] /\ doc'[p] = doc[p]
  BY <1>1, GotoFrame
<1>3. review'[ver[p]] = "approved" /\ \A w \in Versions \ {ver[p]} : review'[w] = review[w]
  BY <1>1 DEF ReleaseTypeOK, StoreTypeOK
<1>4. Fits(p) BY DEF FitsInv
<1>5. Fits(p)' BY <1>1, <1>2, <1>3, <1>4 DEF Fits, After
<1>6. ScheduledHasDate' /\ PendingDecidable'
  BY <1>1, <1>3 DEF FitsInv, ScheduledHasDate, PendingDecidable, IsPending, IsBeta
<1>7. \A q \in Actors \ {p} : pc[q] \in {"approve", "write"} => ver[q] \in Versions \ {ver[p]}
  BY <1>1 DEF WorkApart, ReleaseTypeOK
<1>8. QED BY <1>1, <1>2, <1>3, <1>5, <1>6, <1>7, AllFit

\* The steps that leave the documents of the versions alone.
LEMMA QuietFits ==
  ASSUME ReleaseTypeOK, FitsInv, NEW p \in Actors,
         NEW at \in {"idle", "catalog", "notify"}, Goto(p, at),
         UNCHANGED <<status, channel, review, schedAt>>
  PROVE  FitsInv'
<1>1. /\ \A q \in Actors \ {p} : pc'[q] = pc[q] /\ ver'[q] = ver[q] /\ doc'[q] = doc[q]
      /\ pc'[p] = at
  BY GotoFrame
<1>2. Fits(p)' /\ pc'[p] # "recover" BY <1>1 DEF Fits
<1>3. ScheduledHasDate' /\ PendingDecidable'
  BY DEF FitsInv, ScheduledHasDate, PendingDecidable, IsPending, IsBeta
<1>4. QED BY <1>1, <1>2, <1>3, AllFit

\* The clock brings a date nearer, the rest does not touch what was read.
LEMMA EnvironmentFits ==
  ASSUME ReleaseTypeOK, FitsInv, UNCHANGED <<status, channel, review, pc, ver, doc>>,
         \A v \in Versions : schedAt[v] # "none" => schedAt'[v] # "none"
  PROVE  FitsInv'
<1>1. ScheduledHasDate' /\ PendingDecidable'
  BY DEF FitsInv, ScheduledHasDate, PendingDecidable, IsPending, IsBeta
<1>2. ASSUME NEW p \in Actors PROVE pc'[p] # "recover" /\ Fits(p)'
  <2>1. pc[p] # "idle" => ver[p] \in Versions BY DEF ReleaseTypeOK
  <2>2. pc[p] # "recover" /\ Fits(p) BY DEF FitsInv
  <2>3. QED BY <2>1, <2>2 DEF Fits, After
<1>3. QED BY <1>1, <1>2 DEF FitsInv

LEMMA SchedulerFits ==
  ASSUME ReleaseTypeOK, FitsInv, WorkApart', NEW s \in Schedulers,
         SchedulerWork(s) \/ SchedulerCrash(s)
  PROVE  FitsInv'
<1>0. s \in Actors BY DEF Actors
<1>1. CASE FindDue(s) \/ \E v \in Versions : SkipClaim(s, v)
  BY <1>1, EnvironmentFits DEF FindDue, SkipClaim, storeVars
<1>2. ASSUME NEW v \in Versions, Claim(s, v)
      PROVE  FitsInv'
  <2>1. /\ status[v] = "scheduled" /\ UNCHANGED <<channel, review, schedAt>>
        /\ \A q \in Actors \ {s} : pc'[q] = pc[q] /\ ver'[q] = ver[q] /\ doc'[q] = doc[q]
        /\ pc'[s] = "write" /\ ver'[s] = v /\ doc'[s] = GoLiveDoc(v, "system", "draft")
        /\ status'[v] = "publishing" /\ \A w \in Versions \ {v} : status'[w] = status[w]
    BY <1>0, <1>2 DEF Claim, ReleaseTypeOK, StoreTypeOK
  <2>2. review[v] # "pending"
    BY <2>1 DEF FitsInv, PendingDecidable, IsPending
  <2>3. Fits(s)'
    BY <2>1, <2>2 DEF Fits, After, GoLiveDoc, SetDoc
  <2>4. ScheduledHasDate' /\ PendingDecidable'
    BY <2>1, <2>2 DEF FitsInv, ScheduledHasDate, PendingDecidable, IsPending, IsBeta
  <2>5. \A q \in Actors \ {s} : pc[q] \in {"approve", "write"} => ver[q] \in Versions \ {v}
    BY <1>0, <2>1 DEF WorkApart, ReleaseTypeOK
  <2>6. QED BY <1>0, <2>1, <2>3, <2>4, <2>5, AllFit
<1>3. CASE SchedulerCrash(s)
  BY <1>0, <1>3, QuietFits DEF SchedulerCrash, Ends, storeVars
<1>4. ~Restore(s) BY <1>0 DEF Restore, FitsInv
<1>5. QED BY <1>1, <1>2, <1>3, <1>4 DEF SchedulerWork

\* Uploads, testers, the clock and the verdicts.
LEMMA EnvironmentReads ==
  ASSUME ReleaseTypeOK, Uploads \/ Testers \/ Clock \/ Scanner
  PROVE  /\ UNCHANGED <<status, channel, review, shown, actorVars, historyVars>>
         /\ \A v \in Versions : schedAt[v] # "none" => schedAt'[v] # "none"
<1>1. \A v \in Versions : schedAt[v] # "none" => schedAt'[v] # "none"
  BY DEF Uploads, UploadStored, Testers, SetTesters, Clock, DateComes, Scanner, ScanVerdict,
         ReleaseTypeOK, StoreTypeOK
<1>2. QED BY <1>1, EnvironmentKeeps

LEMMA FitsInvariant ==
  ASSUME "exception" \notin Faults
  PROVE  ReleaseSpec /\ []WorkApart => []FitsInv
<1>1. ReleaseInit => FitsInv
  BY DEF ReleaseInit, StoreInit, FitsInv, Fits, ScheduledHasDate, PendingDecidable, IsPending
<1>2. ReleaseTypeOK /\ FitsInv /\ WorkApart /\ WorkApart' /\ [ReleaseNext]_releaseVars => FitsInv'
  <2> SUFFICES ASSUME ReleaseTypeOK, FitsInv, WorkApart, WorkApart', [ReleaseNext]_releaseVars
               PROVE  FitsInv'
    OBVIOUS
  <2>1. ASSUME NEW p \in Requests, Request(p)
        PROVE  FitsInv'
    BY <2>1, BeginFits
  <2>2. ASSUME NEW p \in Requests, RequestAborted(p)
        PROVE  FitsInv'
    BY <2>2, QuietFits DEF RequestAborted, storeVars, Actors
  <2>3. ASSUME NEW p \in Actors, Work(p)
        PROVE  FitsInv'
    <3>1. CASE WriteVersion(p) BY <3>1, WriteFits
    <3>2. CASE ApproveReview(p) BY <3>2, ApproveFits
    <3>3. CASE RefreshRead(p) BY <3>3, QuietFits DEF RefreshRead, storeVars
    <3>4. CASE RefreshWrite(p)
      <4>1. PICK at \in {"notify", "idle"} : Goto(p, at) BY <3>4 DEF RefreshWrite
      <4>2. QED BY <3>4, <4>1, QuietFits DEF RefreshWrite
    <3>5. CASE Notify(p) BY <3>5, QuietFits DEF Notify, storeVars
    <3>6. QED BY <2>3, <3>1, <3>2, <3>3, <3>4, <3>5 DEF Work
  <2>4. ASSUME NEW s \in Schedulers, SchedulerWork(s) \/ SchedulerFails(s)
        PROVE  FitsInv'
    BY <2>4, SchedulerFits
    DEF SchedulerFails, GoLiveRaises, PublishDueRaises, ClaimUnacknowledged
  <2>5. CASE Uploads \/ Testers \/ Clock \/ Scanner
    BY <2>5, EnvironmentReads, EnvironmentFits DEF actorVars
  <2>6. CASE UNCHANGED releaseVars
    BY <2>6, EnvironmentFits DEF releaseVars, storeVars, actorVars
  <2>7. ~RescanFails
    BY DEF RescanFails, RescanUnqueued
  <2>8. QED
    BY <2>1, <2>2, <2>3, <2>4, <2>5, <2>6, <2>7 DEF ReleaseNext, ReleaseActors
<1>3. QED
  BY <1>1, <1>2, TypeCorrect, PTL DEF ReleaseSpec

\* MaxBusy counts the actors at work: with one slot they follow each other.
LEMMA AloneInvariant ==
  ASSUME MaxBusy = 1
  PROVE  ReleaseSpec => []OneAtATime
<1>1. ReleaseInit => OneAtATime
  BY DEF ReleaseInit, OneAtATime, Busy
<1>2. ReleaseTypeOK /\ OneAtATime /\ [ReleaseNext]_releaseVars => OneAtATime'
  <2> SUFFICES ASSUME ReleaseTypeOK, OneAtATime, [ReleaseNext]_releaseVars
               PROVE  OneAtATime'
    OBVIOUS
  <2>1. Requests \subseteq Actors /\ Schedulers \subseteq Actors
    BY DEF Actors
  <2>2. ASSUME NEW p \in Actors, Free(p) \/ Busy(p),
               \A q \in Actors \ {p} : pc'[q] = pc[q] /\ (q \in Schedulers => todo'[q] = todo[q])
        PROVE  OneAtATime'
    <3>1. \A q \in Actors \ {p} : ~Busy(q)
      BY <2>2, OneFree DEF OneAtATime
    <3>2. QED
      BY <2>2, <3>1, StaysAlone
  <2>3. ASSUME NEW p \in Requests, Request(p)
        PROVE  OneAtATime'
    <3>1. PICK v \in Versions, d \in Doc, at \in {"approve", "write"} : Begins(p, v, d, at)
      BY <2>3, RequestBegins
    <3>2. QED
      BY <2>1, <2>2, <3>1 DEF Begins, Begin, ReleaseTypeOK
  <2>4. ASSUME NEW p \in Actors, NEW at, Goto(p, at), Busy(p),
               \A q \in Schedulers \ {p} : todo'[q] = todo[q]
        PROVE  OneAtATime'
    BY <2>2, <2>4, GotoFrame
  <2>5. ASSUME NEW p \in Requests, RequestAborted(p)
        PROVE  OneAtATime'
    BY <2>1, <2>4, <2>5 DEF RequestAborted, Busy
  <2>6. ASSUME NEW p \in Actors, Work(p)
        PROVE  OneAtATime'
    <3>1. Busy(p) /\ todo' = todo /\ \E at : Goto(p, at)
      BY <2>6 DEF Work, ApproveReview, WriteVersion, RefreshRead, RefreshWrite, Notify, Busy
    <3>2. QED
      BY <2>4, <3>1
  <2>7. ASSUME NEW s \in Schedulers, SchedulerWork(s) \/ SchedulerFails(s)
        PROVE  OneAtATime'
    <3>1. CASE FindDue(s) \/ \E v \in Versions : Claim(s, v) \/ SkipClaim(s, v)
      BY <2>1, <2>2, <3>1 DEF FindDue, Claim, SkipClaim, ReleaseTypeOK
    <3>2. CASE Restore(s) \/ GoLiveRaises(s)
      BY <2>1, <2>4, <3>2 DEF Restore, GoLiveRaises, Busy, ReleaseTypeOK
    <3>3. CASE PublishDueRaises(s) \/ SchedulerCrash(s)
      BY <2>1, <2>4, <3>3 DEF PublishDueRaises, SchedulerCrash, Ends, Busy, ReleaseTypeOK
    <3>4. ASSUME NEW v \in Versions, ClaimUnacknowledged(s, v)
          PROVE  OneAtATime'
      BY <2>1, <2>2, <3>4 DEF ClaimUnacknowledged, ReleaseTypeOK
    <3>5. QED
      BY <2>7, <3>1, <3>2, <3>3, <3>4 DEF SchedulerWork, SchedulerFails
  <2>8. CASE UNCHANGED <<pc, todo>>
    BY <2>8 DEF OneAtATime, Busy
  <2>9. CASE Uploads \/ Testers \/ Clock \/ Scanner
    BY <2>8, <2>9, EnvironmentKeeps DEF actorVars
  <2>10. CASE UNCHANGED releaseVars
    BY <2>8, <2>10 DEF releaseVars, actorVars
  <2>11. ASSUME NEW p \in Requests, RescanUnqueued(p)
         PROVE  OneAtATime'
    BY <2>1, <2>4, <2>11 DEF RescanUnqueued, Busy
  <2>12. QED
    BY <2>3, <2>5, <2>6, <2>7, <2>9, <2>10, <2>11 DEF ReleaseNext, ReleaseActors, RescanFails
<1>3. QED
  BY <1>1, <1>2, TypeCorrect, PTL DEF ReleaseSpec

LEMMA SerialInvariant ==
  ASSUME MaxBusy = 1, "exception" \notin Faults
  PROVE  ReleaseSpec => []SerialInv
<1>1. OneAtATime /\ FitsInv => SerialInv
  BY DEF SerialInv
<1>2. QED
  BY <1>1, AloneApart, AloneInvariant, FitsInvariant, PTL

(***************************************************************************)
(* A scheduled version always has its date, or publish_due would never     *)
(* find it again: as long as no two actors are to write the same version   *)
(* and no publication raises (the except branch gives back a version whose *)
(* date go_live has removed).                                              *)
(***************************************************************************)
THEOREM DateKeptApart ==
  ASSUME "exception" \notin Faults
  PROVE  ReleaseSpec /\ []WorkApart => []ScheduledHasDate
<1>1. FitsInv => ScheduledHasDate BY DEF FitsInv
<1>2. QED BY <1>1, FitsInvariant, PTL

(***************************************************************************)
(* In particular when actors do not overlap at all.                        *)
(***************************************************************************)
THEOREM ScheduledKeepsDate ==
  ASSUME MaxBusy = 1, "exception" \notin Faults
  PROVE  ReleaseSpec => []ScheduledHasDate
BY AloneApart, AloneInvariant, DateKeptApart, PTL

(***************************************************************************)
(* A request that waits for the admin is one that he can decide on, even   *)
(* when instances stop: as long as no two actors are to write the same     *)
(* version (submit_version writes "pending" over whatever the version has  *)
(* become since it was read).                                              *)
(***************************************************************************)
THEOREM DecidableApart ==
  ASSUME "exception" \notin Faults
  PROVE  ReleaseSpec /\ []WorkApart => []PendingDecidable
<1>1. FitsInv => PendingDecidable BY DEF FitsInv
<1>2. QED BY <1>1, FitsInvariant, PTL

(***************************************************************************)
(* In particular when actors do not overlap at all.                        *)
(***************************************************************************)
THEOREM PendingStaysDecidable ==
  ASSUME MaxBusy = 1, "exception" \notin Faults
  PROVE  ReleaseSpec => []PendingDecidable
BY AloneApart, AloneInvariant, DecidableApart, PTL

(***************************************************************************)
(* A version leaves "published" only by a request of the platform admin,   *)
(* as long as no two actors are to write the same version: archive_version *)
(* checks the status it read, and a version published in between is        *)
(* archived by an editor.                                                  *)
(***************************************************************************)
THEOREM UnpublishedByAdminApart ==
  ASSUME "exception" \notin Faults
  PROVE  ReleaseSpec /\ []WorkApart => OnlyAdminUnpublishes
<1> DEFINE ByAdmin ==
      \A v \in Versions :
        status[v] = "published" /\ status'[v] # "published" =>
          \E p \in Requests : pc[p] = "write" /\ ver[p] = v /\ doc[p].by = "admin"
                                /\ pc'[p] # "write"
<1>1. ReleaseTypeOK /\ FitsInv /\ [ReleaseNext]_releaseVars => [ByAdmin]_releaseVars
  <2> SUFFICES ASSUME ReleaseTypeOK, FitsInv, ReleaseNext,
                      NEW v \in Versions, status[v] = "published", status'[v] # "published"
               PROVE  \E p \in Requests : pc[p] = "write" /\ ver[p] = v /\ doc[p].by = "admin"
                                            /\ pc'[p] # "write"
    OBVIOUS
  <2>1. ASSUME NEW p \in Actors, WriteVersion(p)
        PROVE  \E q \in Requests : pc[q] = "write" /\ ver[q] = v /\ doc[q].by = "admin"
                                     /\ pc'[q] # "write"
    <3>1. pc[p] = "write" /\ status' = Put(status, ver[p], doc[p].status)
      BY <2>1 DEF WriteVersion
    <3>2. ver[p] = v /\ After(doc[p].status, status[v]) # "published"
      BY <3>1 DEF Put, After, ReleaseTypeOK, StoreTypeOK
    <3>3. p \in Requests /\ doc[p].by = "admin"
      BY <3>1, <3>2 DEF FitsInv, Fits
    <3>4. pc'[p] # "write"
      BY <2>1 DEF WriteVersion, Goto, ReleaseTypeOK
    <3>5. QED BY <3>1, <3>2, <3>3, <3>4
  <2>2. ASSUME status' = status PROVE FALSE
    BY <2>2
  <2>3. ASSUME NEW s \in Schedulers, NEW w \in Versions, Claim(s, w) PROVE FALSE
    BY <2>3 DEF Claim, ReleaseTypeOK, StoreTypeOK
  <2>4. ASSUME NEW s \in Schedulers, Restore(s) PROVE FALSE
    BY <2>4 DEF Restore, FitsInv, Actors
  <2>5. ASSUME NEW p \in Actors, Work(p), ~WriteVersion(p) PROVE FALSE
    BY <2>2, <2>5 DEF Work, ApproveReview, RefreshRead, RefreshWrite, Notify, storeVars
  <2>6. ASSUME NEW p \in Requests, Request(p) \/ RequestAborted(p) PROVE FALSE
    <3>1. Request(p) => status' = status
      BY RequestFits DEF Begin, storeVars
    <3>2. QED BY <2>2, <2>6, <3>1 DEF RequestAborted, storeVars
  <2>7. ASSUME NEW s \in Schedulers, SchedulerWork(s) \/ SchedulerFails(s)
        PROVE  FALSE
    BY <2>2, <2>3, <2>4, <2>7
    DEF SchedulerWork, FindDue, SkipClaim, SchedulerFails, GoLiveRaises, PublishDueRaises,
        ClaimUnacknowledged, SchedulerCrash, Ends, storeVars
  <2>8. ~RescanFails
    BY DEF RescanFails, RescanUnqueued
  <2>9. QED
    BY <2>1, <2>2, <2>5, <2>6, <2>7, <2>8, EnvironmentKeeps DEF ReleaseNext, ReleaseActors
<1>2. QED
  BY <1>1, TypeCorrect, FitsInvariant, PTL DEF ReleaseSpec, OnlyAdminUnpublishes

(***************************************************************************)
(* In particular when actors do not overlap at all.                        *)
(***************************************************************************)
THEOREM AdminUnpublishes ==
  ASSUME MaxBusy = 1, "exception" \notin Faults
  PROVE  ReleaseSpec => OnlyAdminUnpublishes
BY AloneApart, AloneInvariant, UnpublishedByAdminApart, PTL

-----------------------------------------------------------------------------
(***************************************************************************)
(* The catalog fields.                                                     *)
(***************************************************************************)

DocFitsCatalog(v, d) ==
  /\ d.op # "rescan"
  /\ d.op = "golive" \/ d.status \in {"scheduled", "published"} => stored[v] /\ scan[v] = "passed"
  /\ ~d.refresh => /\ d.status # "published"
                   /\ status[v] = "published" => d.status = "keep" /\ d.channel = "keep"

LEMMA RequestFitsCatalog ==
  ASSUME ReleaseTypeOK, MaxQueue = 0, NEW p \in Requests, Request(p)
  PROVE  \E v \in Versions, d \in Doc, at \in {"approve", "write"} :
           Begin(p, v, d, at) /\ DocFitsCatalog(v, d)
<1> PICK v \in Versions :
      \/ SubmitVersion(p, v)
      \/ RejectVersion(p, v)
      \/ \E dated \in BOOLEAN : PublishVersion(p, v, dated)
      \/ \E by \in {"admin", "editor"} :
           \/ \E ch \in Channel \cup {"keep"} : UpdateVersion(p, v, by, ch)
           \/ WithdrawVersion(p, v, by)
           \/ UnscheduleVersion(p, v, by)
           \/ ArchiveVersion(p, v, by)
           \/ RescanVersion(p, v, by)
  BY DEF Request
<1> USE DEF Operation, Status, Channel, Review, ScheduledAt
<1> SUFFICES \E d \in Doc, at \in {"approve", "write"} : Begin(p, v, d, at) /\ DocFitsCatalog(v, d)
  OBVIOUS
\* What neither publishes nor takes offline.
<1>1. ASSUME NEW op \in Operation \ {"golive", "rescan"}, NEW by, NEW ch, NEW rv, NEW at,
             NEW refresh \in BOOLEAN, ~refresh => (status[v] = "published" => ch = "keep")
      PROVE  DocFitsCatalog(v, SetDoc(op, by, "keep", ch, rv, at, refresh))
  BY <1>1 DEF DocFitsCatalog, SetDoc
<1>2. CASE SubmitVersion(p, v)
  <2>1. SetDoc("submit", "editor", "keep", "keep", "pending", "keep", FALSE) \in Doc BY SetDocType
  <2>2. QED BY <1>1, <1>2, <2>1 DEF SubmitVersion
<1>3. CASE RejectVersion(p, v)
  <2>1. SetDoc("reject", "admin", "keep", "keep", "rejected", "keep", FALSE) \in Doc BY SetDocType
  <2>2. QED BY <1>1, <1>3, <2>1 DEF RejectVersion
<1>4. ASSUME NEW by \in {"admin", "editor"}, WithdrawVersion(p, v, by)
      PROVE  \E d \in Doc, at \in {"approve", "write"} : Begin(p, v, d, at) /\ DocFitsCatalog(v, d)
  <2>1. SetDoc("withdraw", by, "keep", "keep", "none", "keep", FALSE) \in Doc BY SetDocType
  <2>2. QED BY <1>1, <1>4, <2>1 DEF WithdrawVersion
<1>5. ASSUME NEW by \in {"admin", "editor"}, NEW ch \in Channel \cup {"keep"},
             UpdateVersion(p, v, by, ch)
      PROVE  \E d \in Doc, at \in {"approve", "write"} : Begin(p, v, d, at) /\ DocFitsCatalog(v, d)
  <2> DEFINE rv == IF status[v] = "draft" /\ review[v] # "none" THEN "none" ELSE "keep"
             d == SetDoc("update", by, "keep", ch, rv, "keep", status[v] = "published")
  <2>1. d \in Doc BY SetDocType
  <2>2. Begin(p, v, d, "write") BY <1>5 DEF UpdateVersion
  <2>3. DocFitsCatalog(v, d) BY DEF DocFitsCatalog, SetDoc
  <2>4. QED BY <2>1, <2>2, <2>3
<1>6. ASSUME NEW dated \in BOOLEAN, PublishVersion(p, v, dated)
      PROVE  \E d \in Doc, at \in {"approve", "write"} : Begin(p, v, d, at) /\ DocFitsCatalog(v, d)
  <2>0. stored[v] /\ scan[v] = "passed" /\ review[v] \in Review
    BY <1>6 DEF PublishVersion, ReleaseTypeOK, StoreTypeOK
  <2>1. CASE dated /\ status[v] = "draft"
    <3> DEFINE rv == IF IsPending(v) THEN "approved" ELSE review[v]
               d == SetDoc("schedule", "admin", "scheduled", "keep", rv, "later", FALSE)
    <3>1. d \in Doc BY <2>0, SetDocType
    <3>2. Begin(p, v, d, "write") BY <1>6, <2>1 DEF PublishVersion
    <3>3. DocFitsCatalog(v, d) BY <2>0, <2>1 DEF DocFitsCatalog, SetDoc
    <3>4. QED BY <3>1, <3>2, <3>3
  <2>2. CASE ~(dated /\ status[v] = "draft")
    <3> DEFINE d == GoLiveDoc(v, "admin", status[v])
               at == IF IsPending(v) THEN "approve" ELSE "write"
    <3>1. d \in Doc /\ at \in {"approve", "write"} BY GoLiveDocType
    <3>2. Begin(p, v, d, at) BY <1>6, <2>2 DEF PublishVersion
    <3>3. DocFitsCatalog(v, d) BY <2>0 DEF DocFitsCatalog, GoLiveDoc, SetDoc
    <3>4. QED BY <3>1, <3>2, <3>3
  <2>3. QED BY <2>1, <2>2
<1>7. ASSUME NEW by \in {"admin", "editor"}, UnscheduleVersion(p, v, by)
      PROVE  \E d \in Doc, at \in {"approve", "write"} : Begin(p, v, d, at) /\ DocFitsCatalog(v, d)
  <2> DEFINE d == SetDoc("unschedule", by, "draft", "keep", "none", "none", FALSE)
  <2>1. d \in Doc BY SetDocType
  <2>2. DocFitsCatalog(v, d) BY <1>7 DEF UnscheduleVersion, DocFitsCatalog, SetDoc
  <2>3. Begin(p, v, d, "write") BY <1>7 DEF UnscheduleVersion
  <2>4. QED BY <2>1, <2>2, <2>3
<1>8. ASSUME NEW by \in {"admin", "editor"}, ArchiveVersion(p, v, by)
      PROVE  \E d \in Doc, at \in {"approve", "write"} : Begin(p, v, d, at) /\ DocFitsCatalog(v, d)
  <2> DEFINE d == SetDoc("archive", by, "archived", "keep", "none", "keep", TRUE)
  <2>1. d \in Doc BY SetDocType
  <2>2. DocFitsCatalog(v, d) BY DEF DocFitsCatalog, SetDoc
  <2>3. Begin(p, v, d, "write") BY <1>8 DEF ArchiveVersion
  <2>4. QED BY <2>1, <2>2, <2>3
<1>9. ASSUME NEW by \in {"admin", "editor"}, RescanVersion(p, v, by)
      PROVE  FALSE
  <2>1. Len(queue) \in Nat BY LenProperties DEF ReleaseTypeOK, StoreTypeOK
  <2>2. QED BY <1>9, <2>1 DEF RescanVersion
<1>10. QED
  BY <1>2, <1>3, <1>4, <1>5, <1>6, <1>7, <1>8, <1>9

LEMMA BeginCatalog ==
  ASSUME ReleaseTypeOK, SerialInv, CatalogInv, MaxBusy = 1, MaxQueue = 0,
         NEW p \in Requests, Request(p)
  PROVE  CatalogInv'
<1>1. PICK v \in Versions, d \in Doc, at \in {"approve", "write"} :
        Begin(p, v, d, at) /\ DocFitsCatalog(v, d)
  BY RequestFitsCatalog
<1>2. p \in Actors BY DEF Actors
<1>3. Free(p) /\ UNCHANGED <<status, channel, stored, scan, queue, shown, seen>>
  BY <1>1 DEF Begin, storeVars
<1>4. /\ \A q \in Actors \ {p} : pc'[q] = pc[q] /\ pc[q] = "idle"
      /\ pc[p] = "idle" /\ pc'[p] = at /\ ver'[p] = v /\ doc'[p] = d
  BY <1>1, <1>2, <1>3, OneFree DEF Begin, ReleaseTypeOK, Busy
<1>5. \A q \in Actors : FitsCatalog(q)'
  BY <1>1, <1>3, <1>4 DEF FitsCatalog, DocFitsCatalog
<1>6. ScannedBefore' /\ QueuedOnce'
  BY <1>3 DEF CatalogInv, ScannedBefore, QueuedOnce
<1>7. shown = Public /\ Public' = Public
  BY <1>3, <1>4 DEF CatalogInv, Refreshing, Public, IsBeta
<1>8. Refreshing'
  BY <1>3, <1>4, <1>7 DEF Refreshing
<1>9. QED BY <1>5, <1>6, <1>8 DEF CatalogInv

\* Public before and after a write: the same, or the actor goes on to refresh.
LEMMA WriteCatalog ==
  ASSUME ReleaseTypeOK, SerialInv, AdminInv, CatalogInv, NEW p \in Actors, WriteVersion(p)
  PROVE  CatalogInv'
<1>1. /\ pc[p] = "write" /\ ver[p] \in Versions /\ doc[p] \in Doc /\ DocOk(doc[p])
      /\ todo' = todo /\ Goto(p, IF doc[p].refresh THEN "refresh" ELSE "idle")
      /\ UNCHANGED <<stored, shown, seen>>
  BY DEF WriteVersion, ReleaseTypeOK, AdminInv
<1> DEFINE v == ver[p]
           d == doc[p]
           at == IF doc[p].refresh THEN "refresh" ELSE "idle"
<1>2. FitsCatalog(p) BY DEF CatalogInv
<1>3. scan' = scan /\ queue' = queue BY <1>1, <1>2 DEF WriteVersion, FitsCatalog
<1>4. /\ status'[v] = After(d.status, status[v]) /\ channel'[v] = After(d.channel, channel[v])
      /\ \A w \in Versions \ {v} : status'[w] = status[w] /\ channel'[w] = channel[w]
  BY <1>1 DEF WriteVersion, Put, After, ReleaseTypeOK, StoreTypeOK
<1>5. pc'[p] = at /\ (\A q \in Actors \ {p} : pc'[q] = "idle" /\ pc[q] = "idle")
  BY <1>1, GotoFrame, OthersIdle DEF SerialInv
<1>6. \A q \in Actors : FitsCatalog(q)'
  BY <1>5 DEF FitsCatalog
<1>7. ScannedBefore'
  BY <1>1, <1>2, <1>3, <1>4 DEF CatalogInv, ScannedBefore, FitsCatalog, After, DocOk
<1>8. QueuedOnce'
  BY <1>1, <1>3 DEF CatalogInv, QueuedOnce
<1>9. d.refresh \/ Public' = Public
  BY <1>1, <1>2, <1>3, <1>4 DEF FitsCatalog, After, Public, IsBeta
<1>10. shown = Public
  BY <1>1, <1>5 DEF CatalogInv, Refreshing
<1>11. Refreshing'
  BY <1>1, <1>5, <1>9, <1>10 DEF Refreshing
<1>12. QED BY <1>6, <1>7, <1>8, <1>11 DEF CatalogInv

LEMMA WorkCatalog ==
  ASSUME ReleaseTypeOK, SerialInv, AdminInv, CatalogInv, NEW p \in Actors, Work(p)
  PROVE  CatalogInv'
<1>1. CASE WriteVersion(p) BY <1>1, WriteCatalog
<1>2. ASSUME NEW at, Goto(p, at), pc[p] # "idle", todo' = todo
      PROVE  /\ pc'[p] = at /\ (\A q \in Actors \ {p} : pc'[q] = "idle" /\ pc[q] = "idle")
             /\ at # "idle" => ver'[p] = ver[p] /\ doc'[p] = doc[p]
  BY <1>2, GotoFrame, OthersIdle DEF SerialInv
<1>3. ASSUME UNCHANGED <<status, channel, stored, scan, queue>>
      PROVE  ScannedBefore' /\ QueuedOnce' /\ Public' = Public
  BY <1>3 DEF CatalogInv, ScannedBefore, QueuedOnce, Public, IsBeta
<1>4. CASE ApproveReview(p)
  <2>1. /\ pc[p] = "approve" /\ pc'[p] = "write" /\ ver'[p] = ver[p] /\ doc'[p] = doc[p]
        /\ \A q \in Actors \ {p} : pc'[q] = "idle" /\ pc[q] = "idle"
        /\ UNCHANGED <<status, channel, stored, scan, queue, shown, seen>>
    BY <1>2, <1>4 DEF ApproveReview
  <2>2. FitsCatalog(p) BY DEF CatalogInv
  <2>3. \A q \in Actors : FitsCatalog(q)' BY <2>1, <2>2 DEF FitsCatalog
  <2>4. Refreshing' BY <1>3, <2>1 DEF CatalogInv, Refreshing
  <2>5. QED BY <1>3, <2>1, <2>3, <2>4 DEF CatalogInv
<1>5. CASE RefreshRead(p)
  <2>1. /\ pc[p] = "refresh" /\ pc'[p] = "catalog" /\ seen'[p] = Public
        /\ \A q \in Actors \ {p} : pc'[q] = "idle" /\ pc[q] = "idle"
        /\ UNCHANGED <<status, channel, stored, scan, queue>>
    BY <1>2, <1>5 DEF RefreshRead, storeVars, ReleaseTypeOK
  <2>2. \A q \in Actors : FitsCatalog(q)' BY <2>1 DEF FitsCatalog
  <2>3. Refreshing' BY <1>3, <2>1 DEF Refreshing
  <2>4. QED BY <1>3, <2>1, <2>2, <2>3 DEF CatalogInv
<1>6. CASE RefreshWrite(p)
  <2>1. PICK at \in {"notify", "idle"} : Goto(p, at) BY <1>6 DEF RefreshWrite
  <2>2. /\ pc[p] = "catalog" /\ pc'[p] = at /\ shown' = seen[p]
        /\ \A q \in Actors \ {p} : pc'[q] = "idle" /\ pc[q] = "idle"
        /\ UNCHANGED <<status, channel, stored, scan, queue>>
    BY <1>2, <1>6, <2>1 DEF RefreshWrite
  <2>3. \A q \in Actors : FitsCatalog(q)' BY <2>2 DEF FitsCatalog
  <2>4. Refreshing' BY <1>3, <2>2 DEF CatalogInv, Refreshing
  <2>5. QED BY <1>3, <2>2, <2>3, <2>4 DEF CatalogInv
<1>7. CASE Notify(p)
  <2>1. /\ pc[p] = "notify" /\ pc'[p] = "idle" /\ shown' = shown
        /\ \A q \in Actors \ {p} : pc'[q] = "idle" /\ pc[q] = "idle"
        /\ UNCHANGED <<status, channel, stored, scan, queue>>
    BY <1>2, <1>7 DEF Notify, storeVars
  <2>2. \A q \in Actors : FitsCatalog(q)' BY <2>1 DEF FitsCatalog
  <2>3. Refreshing' BY <1>3, <2>1 DEF CatalogInv, Refreshing
  <2>4. QED BY <1>3, <2>1, <2>2, <2>3 DEF CatalogInv
<1>8. QED BY <1>1, <1>4, <1>5, <1>6, <1>7 DEF Work

\* A reservation takes nothing offline: the version was scheduled.
LEMMA SchedulerCatalog ==
  ASSUME ReleaseTypeOK, SerialInv, CatalogInv, MaxBusy = 1, NEW s \in Schedulers, SchedulerWork(s)
  PROVE  CatalogInv'
<1>0. s \in Actors BY DEF Actors
<1>1. CASE FindDue(s) \/ \E v \in Versions : SkipClaim(s, v)
  BY <1>1 DEF FindDue, SkipClaim, storeVars, CatalogInv, FitsCatalog, ScannedBefore, QueuedOnce,
              Refreshing, Public, IsBeta
<1>2. ASSUME NEW v \in Versions, Claim(s, v)
      PROVE  CatalogInv'
  <2>1. /\ Free(s) /\ status[v] = "scheduled"
        /\ UNCHANGED <<channel, stored, scan, queue, shown, seen>>
        /\ pc'[s] = "write" /\ ver'[s] = v /\ doc'[s] = GoLiveDoc(v, "system", "draft")
        /\ status'[v] = "publishing" /\ \A w \in Versions \ {v} : status'[w] = status[w]
    BY <1>0, <1>2 DEF Claim, ReleaseTypeOK, StoreTypeOK
  <2>2. pc[s] = "idle" /\ \A q \in Actors \ {s} : pc'[q] = "idle" /\ pc[q] = "idle"
    BY <1>0, <1>2, <2>1, OneFree DEF Claim, Busy, ReleaseTypeOK
  <2>3. stored[v] /\ scan[v] = "passed" BY <2>1 DEF CatalogInv, ScannedBefore
  <2>4. \A q \in Actors : FitsCatalog(q)'
    BY <2>1, <2>2, <2>3 DEF FitsCatalog, GoLiveDoc, SetDoc
  <2>5. ScannedBefore' BY <2>1, <2>3 DEF CatalogInv, ScannedBefore
  <2>6. QueuedOnce' BY <2>1 DEF CatalogInv, QueuedOnce
  <2>7. Public' = Public BY <2>1 DEF Public, IsBeta
  <2>8. Refreshing' BY <1>0, <2>1, <2>2, <2>7 DEF CatalogInv, Refreshing
  <2>9. QED BY <2>4, <2>5, <2>6, <2>8 DEF CatalogInv
<1>3. ~Restore(s) BY <1>0 DEF Restore, SerialInv, FitsInv
<1>4. QED BY <1>1, <1>2, <1>3 DEF SchedulerWork

\* Without rescans a version is queued once, and its verdict is never overwritten.
LEMMA EnvironmentScans ==
  ASSUME ReleaseTypeOK, QueuedOnce, \A v \in Versions : ~stored[v] => scan[v] = "pending",
         Uploads \/ Testers \/ Clock \/ Scanner
  PROVE  /\ QueuedOnce' /\ \A v \in Versions : ~stored'[v] => scan'[v] = "pending"
         /\ \A v \in Versions : scan[v] = "passed" => scan'[v] = "passed"
<1>1. queue \in Seq(Versions) /\ stored \in [Versions -> BOOLEAN] /\ scan \in [Versions -> ScanStatus]
      /\ Len(queue) \in Nat /\ \A i \in 1..Len(queue) : queue[i] \in Versions
  BY LenProperties DEF ReleaseTypeOK, StoreTypeOK
<1>2. CASE Testers \/ Clock
  BY <1>2 DEF Testers, SetTesters, Clock, DateComes, QueuedOnce
<1>3. ASSUME NEW v \in Versions, UploadStored(v)
      PROVE  /\ QueuedOnce' /\ scan' = scan
             /\ \A w \in Versions : ~stored'[w] => ~stored[w]
  <2>1. /\ ~stored[v] /\ stored' = [stored EXCEPT ![v] = TRUE] /\ scan' = scan
        /\ queue' = Append(queue, v)
    BY <1>3 DEF UploadStored
  <2>2. stored'[v] /\ \A w \in Versions \ {v} : stored'[w] = stored[w]
    BY <1>1, <2>1
  <2>3. scan[v] = "pending"
    BY <2>1
  <2>4. QueuedOnce'
    <3>1. /\ Len(queue') = Len(queue) + 1 /\ queue'[Len(queue) + 1] = v
          /\ \A i \in 1..Len(queue) : queue'[i] = queue[i]
      BY <1>1, <2>1, AppendProperties
    <3>2. \A i \in 1..Len(queue) : queue[i] # v BY <2>1 DEF QueuedOnce
    <3>3. \A i \in 1..Len(queue') : i \in 1..Len(queue) \/ i = Len(queue) + 1
      BY <1>1, <3>1
    <3>4. QED BY <1>1, <2>1, <2>2, <2>3, <3>1, <3>2, <3>3 DEF QueuedOnce
  <2>5. QED BY <2>1, <2>2, <2>4
<1>4. ASSUME NEW v \in Versions, NEW verdict \in {"passed", "failed"}, ScanVerdict(v, verdict)
      PROVE  /\ QueuedOnce' /\ stored' = stored /\ stored[v] /\ scan[v] = "pending"
             /\ \A w \in Versions \ {v} : scan'[w] = scan[w]
  <2>1. /\ queue # <<>> /\ Head(queue) = v /\ stored' = stored
        /\ scan' = [scan EXCEPT ![v] = verdict] /\ queue' = Tail(queue)
    BY <1>4 DEF ScanVerdict
  <2>2. /\ queue[1] = v /\ 1 \in 1..Len(queue) /\ Len(queue') = Len(queue) - 1
        /\ \A i \in 1..Len(queue') : queue'[i] = queue[i + 1] /\ i + 1 \in 1..Len(queue)
    BY <1>1, <2>1, HeadTailProperties
  <2>3. stored[v] /\ scan[v] = "pending"
    BY <2>2 DEF QueuedOnce
  <2>4. \A w \in Versions \ {v} : scan'[w] = scan[w]
    BY <1>1, <2>1
  <2>5. QueuedOnce'
    <3>1. ASSUME NEW i \in 1..Len(queue') PROVE queue'[i] \in Versions \ {v}
      BY <1>1, <2>2 DEF QueuedOnce
    <3>2. ASSUME NEW i \in 1..Len(queue'), NEW j \in 1..Len(queue'), queue'[i] = queue'[j]
          PROVE  i = j
      <4>1. i + 1 = j + 1 BY <2>2, <3>2 DEF QueuedOnce
      <4>2. QED BY <4>1
    <3>3. ASSUME NEW i \in 1..Len(queue') PROVE stored'[queue'[i]] /\ scan'[queue'[i]] = "pending"
      BY <2>1, <2>2, <2>4, <3>1 DEF QueuedOnce
    <3>4. QED BY <3>2, <3>3 DEF QueuedOnce
  <2>6. QED BY <2>1, <2>3, <2>4, <2>5
<1>5. ASSUME Uploads PROVE QueuedOnce' /\ scan' = scan /\ \A w \in Versions : ~stored'[w] => ~stored[w]
  BY <1>3, <1>5 DEF Uploads
<1>6. CASE Scanner
  <2>1. PICK v \in Versions, verdict \in {"passed", "failed"} : ScanVerdict(v, verdict)
    BY <1>6 DEF Scanner
  <2>2. QED BY <1>4, <2>1
<1>7. QED BY <1>2, <1>5, <1>6

\* Each version is queued and scanned once, before anything shows it.
LEMMA EnvironmentCatalog ==
  ASSUME ReleaseTypeOK, CatalogInv, Uploads \/ Testers \/ Clock \/ Scanner
  PROVE  CatalogInv'
<1>0. UNCHANGED <<status, channel, shown, pc, ver, doc, seen>>
  BY EnvironmentKeeps DEF actorVars
<1>1. queue \in Seq(Versions) /\ stored \in [Versions -> BOOLEAN] /\ scan \in [Versions -> ScanStatus]
      /\ Len(queue) \in Nat /\ \A i \in 1..Len(queue) : queue[i] \in Versions
  BY LenProperties DEF ReleaseTypeOK, StoreTypeOK
<1>2. \A p \in Actors : pc[p] # "idle" => ver[p] \in Versions
  BY DEF ReleaseTypeOK
<1>3. QueuedOnce'
  BY EnvironmentScans DEF CatalogInv, ScannedBefore
<1>4. CASE Testers \/ Clock
  BY <1>0, <1>4 DEF Testers, SetTesters, Clock, DateComes, CatalogInv, FitsCatalog, ScannedBefore,
                    QueuedOnce, Refreshing, Public, IsBeta
<1>5. ASSUME NEW v \in Versions, UploadStored(v)
      PROVE  CatalogInv'
  <2>1. /\ ~stored[v] /\ stored' = [stored EXCEPT ![v] = TRUE] /\ scan' = scan
        /\ queue' = Append(queue, v)
    BY <1>5 DEF UploadStored
  <2>2. stored'[v] /\ \A w \in Versions \ {v} : stored'[w] = stored[w]
    BY <1>1, <2>1
  <2>3. \A w \in Versions : stored[w] => stored'[w] BY <2>2
  <2>4. scan[v] = "pending" /\ status[v] \notin {"scheduled", "publishing", "published"}
    BY <2>1 DEF CatalogInv, ScannedBefore
  <2>5. \A p \in Actors : FitsCatalog(p)'
    BY <1>0, <1>2, <2>1, <2>3 DEF CatalogInv, FitsCatalog
  <2>6. ScannedBefore' BY <1>0, <2>1, <2>2 DEF CatalogInv, ScannedBefore
  <2>7. QueuedOnce' BY <1>3
  <2>8. Public' = Public BY <1>0, <2>1, <2>2, <2>4 DEF Public, IsBeta
  <2>9. Refreshing' BY <1>0, <2>8 DEF CatalogInv, Refreshing
  <2>10. QED BY <2>5, <2>6, <2>7, <2>9 DEF CatalogInv
<1>6. ASSUME NEW v \in Versions, NEW verdict \in {"passed", "failed"}, ScanVerdict(v, verdict)
      PROVE  CatalogInv'
  <2>1. /\ queue # <<>> /\ Head(queue) = v /\ stored' = stored
        /\ scan' = [scan EXCEPT ![v] = verdict] /\ queue' = Tail(queue)
    BY <1>6 DEF ScanVerdict
  <2>2. /\ queue[1] = v /\ 1 \in 1..Len(queue) /\ Len(queue') = Len(queue) - 1
        /\ \A i \in 1..Len(queue') : queue'[i] = queue[i + 1] /\ i + 1 \in 1..Len(queue)
    BY <1>1, <2>1, HeadTailProperties
  <2>3. /\ stored[v] /\ scan[v] = "pending"
        /\ status[v] \notin {"scheduled", "publishing", "published"}
    BY <2>2 DEF CatalogInv, QueuedOnce, ScannedBefore
  <2>4. scan'[v] = verdict /\ \A w \in Versions \ {v} : scan'[w] = scan[w]
    BY <1>1, <2>1
  <2>5. \A p \in Actors : FitsCatalog(p)'
    BY <1>0, <1>2, <2>1, <2>3, <2>4 DEF CatalogInv, FitsCatalog
  <2>6. ScannedBefore' BY <1>0, <2>1, <2>3, <2>4 DEF CatalogInv, ScannedBefore
  <2>7. QueuedOnce' BY <1>3
  <2>8. Public' = Public BY <1>0, <2>1, <2>3, <2>4 DEF Public, IsBeta
  <2>9. Refreshing' BY <1>0, <2>8 DEF CatalogInv, Refreshing
  <2>10. QED BY <2>5, <2>6, <2>7, <2>9 DEF CatalogInv
<1>7. QED BY <1>4, <1>5, <1>6 DEF Uploads, Scanner

(***************************************************************************)
(* When no handler is running, the catalog fields describe exactly the     *)
(* public versions, for any number of versions and requests: when actors   *)
(* do not overlap, none fails, and nothing is rescanned (a rescan hides a  *)
(* published version without recomputing the fields).                      *)
(***************************************************************************)
THEOREM CatalogStaysFresh ==
  ASSUME MaxBusy = 1, MaxQueue = 0, Faults = {}
  PROVE  ReleaseSpec => []CatalogFresh
<1>1. ReleaseInit => CatalogInv
  BY DEF ReleaseInit, StoreInit, CatalogInv, FitsCatalog, ScannedBefore, QueuedOnce, Refreshing,
         Public
<1>2. /\ ReleaseTypeOK /\ SerialInv /\ AdminInv /\ CatalogInv /\ [ReleaseNext]_releaseVars
      => CatalogInv'
  <2> SUFFICES ASSUME ReleaseTypeOK, SerialInv, AdminInv, CatalogInv, [ReleaseNext]_releaseVars
               PROVE  CatalogInv'
    OBVIOUS
  <2>1. CASE UNCHANGED releaseVars
    BY <2>1 DEF releaseVars, storeVars, actorVars, CatalogInv, FitsCatalog, ScannedBefore,
                QueuedOnce, Refreshing, Public, IsBeta
  <2>2. CASE ReleaseActors
    <3>1. \A p \in Requests : ~RequestAborted(p) BY DEF RequestAborted
    <3>2. \A s \in Schedulers : ~SchedulerFails(s)
      BY DEF SchedulerFails, GoLiveRaises, PublishDueRaises, ClaimUnacknowledged, SchedulerCrash
    <3>3. QED
      BY <2>2, <3>1, <3>2, BeginCatalog, WorkCatalog, SchedulerCatalog DEF ReleaseActors
  <2>3. ~RescanFails
    BY DEF RescanFails, RescanUnqueued
  <2>4. QED
    BY <2>1, <2>2, <2>3, EnvironmentCatalog DEF ReleaseNext
<1>3. CatalogInv => CatalogFresh
  BY DEF CatalogInv, Refreshing, CatalogFresh, Quiet
<1>4. "exception" \notin Faults
  OBVIOUS
<1>5. QED
  BY <1>1, <1>2, <1>3, <1>4, TypeCorrect, SerialInvariant, AdminInvariant, PTL DEF ReleaseSpec

-----------------------------------------------------------------------------
(***************************************************************************)
(* The verdict of the scan.                                                *)
(***************************************************************************)

\* What an actor publishes, schedules or gives back has passed.
HasPassed(p) ==
  pc[p] # "idle" =>
    /\ doc[p].op # "rescan"
    /\ p \in Schedulers \/ doc[p].op = "golive" \/ doc[p].status = "scheduled" =>
         scan[ver[p]] = "passed"

VerdictInv ==
  /\ QueuedOnce
  /\ \A v \in Versions : /\ ~stored[v] => scan[v] = "pending"
                         /\ status[v] = "scheduled" => scan[v] = "passed"
  /\ \A p \in Actors : HasPassed(p)

\* A step of p that keeps the verdicts.
LEMMA VerdictStep ==
  ASSUME ReleaseTypeOK, VerdictInv, UNCHANGED <<stored, scan, queue>>, NEW p \in Actors,
         \A q \in Actors \ {p} : pc'[q] = pc[q] /\ ver'[q] = ver[q] /\ doc'[q] = doc[q],
         HasPassed(p)',
         \A v \in Versions : status'[v] = "scheduled" => status[v] = "scheduled" \/ scan[v] = "passed"
  PROVE  VerdictInv'
<1>1. QueuedOnce' BY DEF VerdictInv, QueuedOnce
<1>2. \A v \in Versions : /\ ~stored'[v] => scan'[v] = "pending"
                          /\ status'[v] = "scheduled" => scan'[v] = "passed"
  BY DEF VerdictInv
<1>3. \A q \in Actors \ {p} : HasPassed(q)' BY DEF VerdictInv, HasPassed
<1>4. QED BY <1>1, <1>2, <1>3 DEF VerdictInv

\* The same, for the actors that go on with what they have read.
LEMMA VerdictGoto ==
  ASSUME ReleaseTypeOK, VerdictInv, UNCHANGED <<stored, scan, queue>>, NEW p \in Actors, pc[p] # "idle",
         NEW at, Goto(p, at),
         \A v \in Versions : status'[v] = "scheduled" => status[v] = "scheduled" \/ scan[v] = "passed"
  PROVE  VerdictInv'
<1>1. /\ \A q \in Actors \ {p} : pc'[q] = pc[q] /\ ver'[q] = ver[q] /\ doc'[q] = doc[q]
      /\ pc'[p] = at /\ (at # "idle" => ver'[p] = ver[p] /\ doc'[p] = doc[p])
  BY GotoFrame
<1>2. HasPassed(p) BY DEF VerdictInv
<1>3. HasPassed(p)' BY <1>1, <1>2 DEF HasPassed
<1>4. QED BY <1>1, <1>3, VerdictStep

LEMMA ActorsVerdict ==
  ASSUME ReleaseTypeOK, VerdictInv, MaxQueue = 0, ReleaseActors
  PROVE  VerdictInv'
<1>0. Requests \subseteq Actors /\ Schedulers \subseteq Actors /\ Requests \cap Schedulers = {}
  BY ActorsAssumption DEF Actors
<1>1. ASSUME NEW p \in Requests, Request(p)
      PROVE  VerdictInv'
  <2>1. PICK v \in Versions, d \in Doc, at \in {"approve", "write"} :
          Begin(p, v, d, at) /\ DocFitsCatalog(v, d)
    BY <1>1, RequestFitsCatalog
  <2>2. /\ UNCHANGED <<status, stored, scan, queue>>
        /\ \A q \in Actors \ {p} : pc'[q] = pc[q] /\ ver'[q] = ver[q] /\ doc'[q] = doc[q]
        /\ ver'[p] = v /\ doc'[p] = d
    BY <1>0, <2>1 DEF Begin, storeVars, ReleaseTypeOK
  <2>3. HasPassed(p)' BY <1>0, <2>1, <2>2 DEF HasPassed, DocFitsCatalog
  <2>4. QED BY <1>0, <2>2, <2>3, VerdictStep
<1>2. ASSUME NEW p \in Requests, RequestAborted(p)
      PROVE  VerdictInv'
  BY <1>0, <1>2, VerdictGoto DEF RequestAborted, storeVars
<1>3. ASSUME NEW p \in Actors, Work(p)
      PROVE  VerdictInv'
  <2>1. CASE WriteVersion(p)
    <3>1. /\ pc[p] = "write" /\ ver[p] \in Versions /\ stored' = stored /\ HasPassed(p)
          /\ status' = Put(status, ver[p], doc[p].status)
      BY <2>1 DEF WriteVersion, ReleaseTypeOK, VerdictInv
    <3>2. scan' = scan /\ queue' = queue
      BY <2>1, <3>1 DEF WriteVersion, HasPassed
    <3>3. \A v \in Versions : status'[v] = "scheduled" => status[v] = "scheduled" \/ scan[v] = "passed"
      BY <3>1 DEF Put, HasPassed, ReleaseTypeOK, StoreTypeOK
    <3>4. PICK at \in {"refresh", "idle"} : Goto(p, at) BY <2>1 DEF WriteVersion
    <3>5. QED BY <3>1, <3>2, <3>3, <3>4, VerdictGoto
  <2>2. CASE ApproveReview(p) \/ RefreshRead(p) \/ RefreshWrite(p) \/ Notify(p)
    <3>1. pc[p] # "idle" /\ UNCHANGED <<status, stored, scan, queue>> /\ \E at : Goto(p, at)
      BY <2>2 DEF ApproveReview, RefreshRead, RefreshWrite, Notify, storeVars
    <3>2. QED BY <3>1, VerdictGoto
  <2>3. QED BY <1>3, <2>1, <2>2 DEF Work
<1>4. ASSUME NEW s \in Schedulers, SchedulerWork(s) \/ SchedulerFails(s)
      PROVE  VerdictInv'
  <2>1. ASSUME UNCHANGED <<status, stored, scan, queue, pc, ver, doc>>
        PROVE  VerdictInv'
    BY <2>1 DEF VerdictInv, QueuedOnce, HasPassed
  <2>2. ASSUME NEW v \in Versions, Claim(s, v)
        PROVE  VerdictInv'
    <3>1. /\ status[v] = "scheduled" /\ UNCHANGED <<stored, scan, queue>>
          /\ \A q \in Actors \ {s} : pc'[q] = pc[q] /\ ver'[q] = ver[q] /\ doc'[q] = doc[q]
          /\ ver'[s] = v /\ doc'[s] = GoLiveDoc(v, "system", "draft")
          /\ \A w \in Versions : status'[w] = "scheduled" => status[w] = "scheduled"
      BY <1>0, <2>2 DEF Claim, ReleaseTypeOK, StoreTypeOK
    <3>2. scan[v] = "passed" BY <3>1 DEF VerdictInv
    <3>3. HasPassed(s)' BY <3>1, <3>2 DEF HasPassed, GoLiveDoc, SetDoc
    <3>4. QED BY <1>0, <3>1, <3>3, VerdictStep
  <2>3. CASE Restore(s)
    <3>1. /\ pc[s] = "recover" /\ ver[s] \in Versions /\ UNCHANGED <<stored, scan, queue>>
          /\ Goto(s, "idle") /\ status' = [status EXCEPT ![ver[s]] = "scheduled"]
      BY <1>0, <2>3 DEF Restore, ReleaseTypeOK
    <3>2. scan[ver[s]] = "passed" BY <1>0, <3>1 DEF VerdictInv, HasPassed
    <3>3. \A v \in Versions : status'[v] = "scheduled" => status[v] = "scheduled" \/ scan[v] = "passed"
      BY <3>1, <3>2 DEF ReleaseTypeOK, StoreTypeOK
    <3>4. QED BY <1>0, <3>1, <3>3, VerdictGoto
  <2>4. CASE GoLiveRaises(s)
    BY <1>0, <2>4, VerdictGoto DEF GoLiveRaises, storeVars
  <2>5. CASE Ends(s)
    <3>1. /\ UNCHANGED <<status, stored, scan, queue>>
          /\ \A q \in Actors \ {s} : pc'[q] = pc[q] /\ ver'[q] = ver[q] /\ doc'[q] = doc[q]
          /\ pc'[s] = "idle"
      BY <1>0, <2>5, GotoFrame DEF Ends, storeVars
    <3>2. HasPassed(s)' BY <3>1 DEF HasPassed
    <3>3. QED BY <1>0, <3>1, <3>2, VerdictStep
  <2>6. ASSUME NEW v \in Versions, ClaimUnacknowledged(s, v)
        PROVE  VerdictInv'
    BY <2>6 DEF ClaimUnacknowledged, VerdictInv, QueuedOnce, HasPassed, ReleaseTypeOK, StoreTypeOK
  <2>7. QED
    BY <1>4, <2>1, <2>2, <2>3, <2>4, <2>5, <2>6
    DEF SchedulerWork, SchedulerFails, PublishDueRaises, SchedulerCrash, FindDue, SkipClaim, storeVars
<1>5. QED BY <1>1, <1>2, <1>3, <1>4 DEF ReleaseActors

(***************************************************************************)
(* Only a version whose scan has passed goes online, whatever overlaps,    *)
(* stops or raises, as long as nothing is rescanned: the rescans of        *)
(* versions that are scheduled, reserved or read by publish_version are    *)
(* the only way to the counterexample of the run ReleasesUnscanned.        *)
(***************************************************************************)
THEOREM OnlyScannedWithoutRescan ==
  ASSUME MaxQueue = 0
  PROVE  ReleaseSpec => OnlyScannedGoLive
<1>1. ReleaseInit => VerdictInv
  <2> SUFFICES ASSUME ReleaseInit PROVE VerdictInv
    OBVIOUS
  <2>1. queue = <<>> BY DEF ReleaseInit, StoreInit
  <2>2. QueuedOnce BY <2>1 DEF QueuedOnce
  <2>3. QED BY <2>2 DEF ReleaseInit, StoreInit, VerdictInv, HasPassed
<1>2. ReleaseTypeOK /\ VerdictInv /\ [ReleaseNext]_releaseVars => VerdictInv'
  <2> SUFFICES ASSUME ReleaseTypeOK, VerdictInv, [ReleaseNext]_releaseVars
               PROVE  VerdictInv'
    OBVIOUS
  <2>1. CASE ReleaseActors BY <2>1, ActorsVerdict
  <2>2. CASE Uploads \/ Testers \/ Clock \/ Scanner
    <3>1. UNCHANGED <<status, pc, ver, doc>> BY <2>2, EnvironmentKeeps DEF actorVars
    <3>2. /\ QueuedOnce' /\ \A v \in Versions : ~stored'[v] => scan'[v] = "pending"
          /\ \A v \in Versions : scan[v] = "passed" => scan'[v] = "passed"
      BY <2>2, EnvironmentScans DEF VerdictInv
    <3>3. \A p \in Actors : pc[p] # "idle" => ver[p] \in Versions BY DEF ReleaseTypeOK
    <3>4. \A p \in Actors : HasPassed(p)' BY <3>1, <3>2, <3>3 DEF VerdictInv, HasPassed
    <3>5. QED BY <3>1, <3>2, <3>4 DEF VerdictInv
  <2>3. CASE UNCHANGED releaseVars
    BY <2>3 DEF releaseVars, storeVars, actorVars, VerdictInv, QueuedOnce, HasPassed
  <2>4. ~RescanFails
    BY DEF RescanFails, RescanUnqueued, VerdictInv, HasPassed, Actors
  <2>5. QED BY <2>1, <2>2, <2>3, <2>4 DEF ReleaseNext
<1>3. ReleaseTypeOK /\ VerdictInv /\ [ReleaseNext]_releaseVars
      => [\A v \in Versions : lives'[v] > lives[v] => scan[v] = "passed"]_releaseVars
  <2> SUFFICES ASSUME ReleaseTypeOK, VerdictInv, ReleaseNext,
                      NEW v \in Versions, lives'[v] > lives[v]
               PROVE  scan[v] = "passed"
    OBVIOUS
  <2>0. lives[v] \in Nat /\ lives' # lives BY DEF ReleaseTypeOK
  <2>1. ASSUME NEW p \in Actors, WriteVersion(p)
        PROVE  scan[v] = "passed"
    <3>1. HasPassed(p) /\ pc[p] = "write" BY <2>1 DEF VerdictInv, WriteVersion
    <3>2. doc[p].op = "golive" /\ ver[p] = v
      BY <2>0, <2>1 DEF WriteVersion, ReleaseTypeOK
    <3>3. QED BY <3>1, <3>2 DEF HasPassed
  <2>2. ASSUME NEW p \in Actors, Work(p), ~WriteVersion(p)
        PROVE  FALSE
    BY <2>0, <2>2 DEF Work, ApproveReview, RefreshRead, RefreshWrite, Notify, historyVars, decisionVars
  <2>3. ASSUME NEW p \in Requests, Request(p) \/ RequestAborted(p)
        PROVE  FALSE
    BY <2>0, <2>3, RequestBegins DEF Begins, Begin, RequestAborted, historyVars, decisionVars
  <2>4. ASSUME NEW s \in Schedulers, SchedulerWork(s) \/ SchedulerFails(s)
        PROVE  FALSE
    BY <2>0, <2>4 DEF SchedulerWork, FindDue, Claim, SkipClaim, Restore, SchedulerFails,
                      GoLiveRaises, PublishDueRaises, ClaimUnacknowledged, SchedulerCrash, Ends,
                      historyVars, decisionVars
  <2>5. CASE Uploads \/ Testers \/ Clock \/ Scanner
    BY <2>0, <2>5, EnvironmentKeeps DEF historyVars, decisionVars
  <2>6. ~RescanFails
    BY DEF RescanFails, RescanUnqueued, VerdictInv, HasPassed, Actors
  <2>7. QED BY <2>1, <2>2, <2>3, <2>4, <2>5, <2>6 DEF ReleaseNext, ReleaseActors
<1>4. QED
  BY <1>1, <1>2, <1>3, TypeCorrect, PTL DEF ReleaseSpec, OnlyScannedGoLive
=============================================================================
