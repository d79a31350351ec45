---------------------------- MODULE ReviewsProofs ----------------------------
(***************************************************************************)
(* Proofs about Reviews, for every set of apps, users, reporters, stars    *)
(* and names, and any number of requests at the same time.  Hidden reviews *)
(* and reports need no more; ratings, names and the deletion of an account *)
(* need that the requests which overlap stay apart, on apps or accounts.   *)
(***************************************************************************)
EXTENDS Reviews, FiniteSetTheorems, TLAPS

\* The work at each step.
StepOk(r) ==
  /\ pc[r] = "distinct" => job[r].kind = "deleteAccount"
  /\ pc[r] = "copy" => job[r].kind = "rename"
  /\ pc[r] = "close" => job[r].kind = "unpublish"
  /\ pc[r] \in {"aggregate", "store"} =>
       job[r].kind \in {"save", "delete", "hide", "restore", "deleteAccount"}
  /\ pc[r] = "store" => rows[r] \in Rows /\ rows[r].app \in job[r].todo
  /\ pc[r] = "remove" => job[r].kind = "deleteAccount" /\ job[r].todo = {}

RequestsOk ==
  /\ pc \in [Requests -> {"idle", "distinct", "write", "copy", "close",
                          "aggregate", "store", "remove"}]
  /\ job \in [Requests -> Jobs \cup {NoJob}]
  /\ rows \in [Requests -> Rows \cup {NoRows}]
  /\ \A r \in Requests : (pc[r] = "idle" <=> job[r] = NoJob) /\ StepOk(r)

\* Inductive whatever overlaps.
ReviewInv == ReviewTypeOK /\ RequestsOk

(***************************************************************************)
(* Accounts and names.  A renaming or a deletion of an account overlaps no *)
(* other review, renaming or deletion of that account.                     *)
(***************************************************************************)
OfAccount == {"save", "rename", "deleteAccount"}

AccountsApart == \A q, r \in Requests :
  /\ q # r /\ pc[q] # "idle" /\ pc[r] # "idle"
  /\ job[q].kind \in {"rename", "deleteAccount"} /\ job[r].kind \in OfAccount
  => job[q].user # job[r].user

\* What a request has read of an account still holds when it writes.
AccountHolds(r) ==
  /\ pc[r] = "write" /\ job[r].kind = "save" => job[r].author = DisplayName(job[r].user)
  /\ pc[r] = "copy" => name[job[r].user] = job[r].name
  /\ pc[r] # "idle" /\ job[r].kind \in OfAccount => job[r].user \in users
  /\ pc[r] \in {"aggregate", "store", "remove"} /\ job[r].kind = "deleteAccount" =>
       Of(job[r].user) = {}

OwesName(u) == \E r \in Requests : pc[r] = "copy" /\ job[r].user = u

NameKept == \A i \in Existing :
  name[reviews[i].user] # Blank /\ reviews[i].user \notin halfNamed
    => reviews[i].author = name[reviews[i].user] \/ OwesName(reviews[i].user)

Owned == \A i \in Existing : reviews[i].user \in users

AccountInv == (\A r \in Requests : AccountHolds(r)) /\ NameKept /\ Owned

(***************************************************************************)
(* Ratings.  Requests that overlap refresh the ratings of different apps.  *)
(***************************************************************************)
AppsApart == \A q, r \in Requests :
  q # r /\ pc[q] # "idle" /\ pc[r] # "idle" => job[q].todo \cap job[r].todo = {}

\* A request will refresh the apps that its write changes; what it has
\* aggregated is still true when it stores it.
Covers(r) ==
  /\ pc[r] = "write" =>
       /\ job[r].kind \in {"save", "delete"} => job[r].app \in job[r].todo
       /\ job[r].kind \in {"hide", "restore"} =>
            /\ job[r].id \in used
            /\ job[r].id \in Existing => reviews[job[r].id].app \in job[r].todo
       /\ job[r].kind = "deleteAccount" =>
            \A i \in Of(job[r].user) : reviews[i].app \in job[r].todo
  /\ pc[r] = "store" => rows[r].counts = Distribution(rows[r].app)

OwesRating(a) == \E r \in Requests : pc[r] \in {"aggregate", "store"} /\ a \in job[r].todo

RatingKept == \A a \in Apps \ stale : rating[a] = Distribution(a) \/ OwesRating(a)

RatingInv == (\A r \in Requests : Covers(r)) /\ RatingKept

(***************************************************************************)
(* Reports: those that requests are about to write are counted with those  *)
(* that were written.                                                      *)
(***************************************************************************)
Pending(i, p)    == {r \in Requests : Writing(r, {"report"}) /\ job[r].id = i /\ job[r].by = p}
PendingApp(a, p) == {r \in Requests : Writing(r, {"reportApp"}) /\ job[r].app = a /\ job[r].by = p}
Busy             == {r \in Requests : pc[r] # "idle"}

ReportInv ==
  /\ Cardinality(Busy) <= MaxBusy
  /\ \A p \in Reporters :
       /\ \A i \in Existing : reviews[i].reports[p] + Cardinality(Pending(i, p)) <= MaxBusy
       /\ \A a \in Apps : open[a][p] + Cardinality(PendingApp(a, p)) <= MaxBusy

OneAtATime == \A q, r \in Requests : pc[q] # "idle" /\ pc[r] # "idle" => q = r

-----------------------------------------------------------------------------
(***************************************************************************)
(* The requests: their jobs keep their types.                              *)
(***************************************************************************)

Refreshing == {"save", "delete", "hide", "restore", "deleteAccount"}

\* Changing what is left to refresh changes nothing else of a job.
LEMMA TodoChanges ==
  ASSUME NEW j \in Jobs, j.kind \in Refreshing, NEW t \in SUBSET Apps
  PROVE  LET k == [j EXCEPT !.todo = t]
         IN /\ k \in Jobs /\ k.kind = j.kind /\ k.todo = t
            /\ j.kind \in {"save", "delete", "deleteAccount"} => k.user = j.user
BY DEF Jobs, Refreshing

LEMMA EndOk ==
  ASSUME RequestsOk, NEW r \in Requests, End(r)
  PROVE  RequestsOk'
BY NoneAssumption DEF RequestsOk, StepOk, End

LEMMA ProceedOk ==
  ASSUME RequestsOk, NEW r \in Requests, pc[r] # "idle", job[r].kind \in Refreshing,
         NEW todo \in SUBSET Apps, Proceed(r, todo)
  PROVE  RequestsOk'
<1>1. CASE End(r) BY <1>1, EndOk
<1>2. CASE ~(todo = {} /\ job[r].kind # "deleteAccount")
  <2>1. job[r] \in Jobs BY DEF RequestsOk
  <2>2. /\ pc' = [pc EXCEPT ![r] = IF todo = {} THEN "remove" ELSE "aggregate"]
        /\ job' = [job EXCEPT ![r] = [job[r] EXCEPT !.todo = todo]]
        /\ rows' = [rows EXCEPT ![r] = NoRows]
    BY <1>2 DEF Proceed
  <2>3. /\ job'[r] \in Jobs /\ job'[r] # NoJob
        /\ job'[r].kind = job[r].kind /\ job'[r].todo = todo
    BY <2>1, <2>2, TodoChanges, NoneAssumption DEF RequestsOk
  <2>4. StepOk(r)'
    BY <1>2, <2>2, <2>3 DEF StepOk, RequestsOk, Refreshing
  <2>5. ASSUME NEW q \in Requests, q # r
        PROVE  StepOk(q)' /\ (pc'[q] = "idle" <=> job'[q] = NoJob)
    BY <2>2, <2>5 DEF StepOk, RequestsOk
  <2>6. pc'[r] # "idle"
    BY <2>2 DEF RequestsOk
  <2>7. /\ pc' \in [Requests -> {"idle", "distinct", "write", "copy", "close",
                                  "aggregate", "store", "remove"}]
        /\ job' \in [Requests -> Jobs \cup {NoJob}]
        /\ rows' \in [Requests -> Rows \cup {NoRows}]
    BY <2>2, <2>3 DEF RequestsOk
  <2>8. QED BY <2>3, <2>4, <2>5, <2>6, <2>7 DEF RequestsOk
<1>3. QED BY <1>1, <1>2 DEF Proceed

LEMMA StartOk ==
  ASSUME RequestsOk, NEW r \in Requests, NEW at \in {"write", "distinct"}, NEW j \in Jobs,
         at = "distinct" => j.kind = "deleteAccount", Start(r, at, j)
  PROVE  RequestsOk'
BY NoneAssumption DEF RequestsOk, StepOk, Start

\* What the reading half puts together is a job.
LEMMA ReadsStart ==
  ASSUME ReviewInv, NEW r \in Requests, Reads(r)
  PROVE  \E at \in {"write", "distinct"}, j \in Jobs :
           (at = "distinct" => j.kind = "deleteAccount") /\ Start(r, at, j)
<1>1. ASSUME NEW u \in Users, NEW a \in Apps, NEW s \in Stars, SaveMyReview(r, u, a, s)
      PROVE  \E at \in {"write", "distinct"}, j \in Jobs :
               (at = "distinct" => j.kind = "deleteAccount") /\ Start(r, at, j)
  <2>1. DisplayName(u) \in Authors
    BY DEF DisplayName, Authors, ReviewInv, ReviewTypeOK
  <2>2. [kind |-> "save", user |-> u, app |-> a, stars |-> s,
         author |-> DisplayName(u), todo |-> {a}] \in Jobs
    BY <2>1 DEF Jobs
  <2>3. QED BY <1>1, <2>2 DEF SaveMyReview
<1>2. ASSUME NEW u \in Users, NEW a \in Apps, DeleteMyReview(r, u, a)
      PROVE  \E at \in {"write", "distinct"}, j \in Jobs :
               (at = "distinct" => j.kind = "deleteAccount") /\ Start(r, at, j)
  <2>1. [kind |-> "delete", user |-> u, app |-> a, todo |-> {a}] \in Jobs BY DEF Jobs
  <2>2. QED BY <1>2, <2>1 DEF DeleteMyReview
<1>3. ASSUME NEW u \in Users, NEW n \in Names \cup {Blank}, UpdateMe(r, u, n)
      PROVE  \E at \in {"write", "distinct"}, j \in Jobs :
               (at = "distinct" => j.kind = "deleteAccount") /\ Start(r, at, j)
  <2>1. [kind |-> "rename", user |-> u, name |-> n, todo |-> {}] \in Jobs BY DEF Jobs
  <2>2. QED BY <1>3, <2>1 DEF UpdateMe
<1>4. ASSUME NEW u \in Users, DeleteAccount(r, u)
      PROVE  \E at \in {"write", "distinct"}, j \in Jobs :
               (at = "distinct" => j.kind = "deleteAccount") /\ Start(r, at, j)
  <2>1. [kind |-> "deleteAccount", user |-> u, todo |-> {}] \in Jobs BY DEF Jobs
  <2>2. QED BY <1>4, <2>1 DEF DeleteAccount
<1>5. ASSUME NEW i \in ReviewIds, NEW kind \in {"hide", "restore"}, ModerateReview(r, i, kind)
      PROVE  \E at \in {"write", "distinct"}, j \in Jobs :
               (at = "distinct" => j.kind = "deleteAccount") /\ Start(r, at, j)
  <2>1. reviews[i].app \in Apps
    BY <1>5 DEF ModerateReview, Existing, ReviewInv, ReviewTypeOK, Review
  <2>2. [kind |-> kind, id |-> i, todo |-> {reviews[i].app}] \in Jobs BY <2>1 DEF Jobs
  <2>3. QED BY <1>5, <2>2 DEF ModerateReview
<1>6. ASSUME NEW i \in ReviewIds, NEW p \in Reporters, ReportReview(r, i, p)
      PROVE  \E at \in {"write", "distinct"}, j \in Jobs :
               (at = "distinct" => j.kind = "deleteAccount") /\ Start(r, at, j)
  <2>1. [kind |-> "report", id |-> i, by |-> p, todo |-> {}] \in Jobs BY DEF Jobs
  <2>2. QED BY <1>6, <2>1 DEF ReportReview
<1>7. ASSUME NEW a \in Apps, NEW p \in Reporters, ReportApp(r, a, p)
      PROVE  \E at \in {"write", "distinct"}, j \in Jobs :
               (at = "distinct" => j.kind = "deleteAccount") /\ Start(r, at, j)
  <2>1. [kind |-> "reportApp", app |-> a, by |-> p, todo |-> {}] \in Jobs BY DEF Jobs
  <2>2. QED BY <1>7, <2>1 DEF ReportApp
<1>8. ASSUME NEW a \in Apps, NEW unpublish \in BOOLEAN, ResolveReport(r, a, unpublish)
      PROVE  \E at \in {"write", "distinct"}, j \in Jobs :
               (at = "distinct" => j.kind = "deleteAccount") /\ Start(r, at, j)
  <2>1. [kind |-> IF unpublish /\ a \in online THEN "unpublish" ELSE "resolve",
         app |-> a, todo |-> {}] \in Jobs BY DEF Jobs
  <2>2. QED BY <1>8, <2>1 DEF ResolveReport
<1>9. QED
  BY <1>1, <1>2, <1>3, <1>4, <1>5, <1>6, <1>7, <1>8 DEF Reads

LEMMA DistributionOk ==
  ASSUME NEW a \in Apps
  PROVE  Distribution(a) \in Counts
<1>1. ASSUME NEW S \in SUBSET ReviewIds
      PROVE  Cardinality(S) \in 0..Cardinality(ReviewIds)
  BY FiniteAssumption, FS_Subset, FS_CardinalityType
<1>2. ASSUME NEW s \in Stars
      PROVE  {i \in Existing : reviews[i].app = a /\ reviews[i].stars = s /\ ~reviews[i].hidden}
               \in SUBSET ReviewIds
  BY DEF Existing
<1>3. QED BY <1>1, <1>2 DEF Distribution, Counts

LEMMA TodoOk ==
  ASSUME RequestsOk, NEW r \in Requests, pc[r] # "idle"
  PROVE  job[r] \in Jobs /\ job[r].todo \in SUBSET Apps
BY DEF RequestsOk, Jobs

LEMMA WritesRequests ==
  ASSUME ReviewInv, NEW r \in Requests, Writes(r)
  PROVE  RequestsOk'
<1>1. RequestsOk BY DEF ReviewInv
<1>2. CASE SaveWrite(r)
  BY <1>1, <1>2, TodoOk, ProceedOk DEF SaveWrite, Writing, Refreshing
<1>3. CASE DeleteWrite(r)
  BY <1>1, <1>3, TodoOk, ProceedOk DEF DeleteWrite, Writing, Refreshing
<1>4. CASE ModerateWrite(r)
  BY <1>1, <1>4, TodoOk, ProceedOk DEF ModerateWrite, Writing, Refreshing
<1>5. CASE ReportWrite(r) BY <1>1, <1>5, EndOk DEF ReportWrite
<1>6. CASE RenameWrite(r)
  BY <1>1, <1>6 DEF RenameWrite, RequestsOk, StepOk, Writing
<1>7. CASE CopyName(r) BY <1>1, <1>7, EndOk DEF CopyName
<1>8. CASE DistinctApps(r)
  <2>1. job[r] \in Jobs /\ job[r].kind = "deleteAccount"
    BY <1>1, <1>8, TodoOk DEF DistinctApps, RequestsOk, StepOk
  <2>2. {reviews[i].app : i \in Of(job[r].user)} \in SUBSET Apps
    BY DEF Of, Existing, ReviewInv, ReviewTypeOK, Review
  <2>3. /\ job' = [job EXCEPT ![r] = [job[r] EXCEPT !.todo = {reviews[i].app : i \in Of(job[r].user)}]]
        /\ pc' = [pc EXCEPT ![r] = "write"] /\ pc[r] = "distinct" /\ rows' = rows
    BY <1>8 DEF DistinctApps
  <2>4. job'[r] \in Jobs
    BY <1>1, <2>1, <2>2, <2>3, TodoChanges DEF Refreshing, RequestsOk
  <2>5. QED BY <1>1, <2>3, <2>4, NoneAssumption DEF RequestsOk, StepOk
<1>9. CASE DeleteUserReviews(r)
  BY <1>1, <1>9, TodoOk, ProceedOk DEF DeleteUserReviews, Writing, Refreshing
<1>10. CASE RemoveUser(r) BY <1>1, <1>10, EndOk DEF RemoveUser
<1>11. CASE ReportAppWrite(r) BY <1>1, <1>11, EndOk DEF ReportAppWrite
<1>12. CASE CloseReports(r)
  <2>1. CASE job[r].kind = "unpublish"
    BY <1>1, <1>12, <2>1 DEF CloseReports, RequestsOk, StepOk, Writing
  <2>2. CASE job[r].kind # "unpublish"
    BY <1>1, <1>12, <2>2, EndOk DEF CloseReports
  <2>3. QED BY <2>1, <2>2
<1>13. CASE RetireApp(r) BY <1>1, <1>13, EndOk DEF RetireApp
<1>14. ASSUME NEW a \in Apps, Aggregate(r, a)
       PROVE  RequestsOk'
  <2>1. [app |-> a, counts |-> Distribution(a)] \in Rows
    BY DistributionOk DEF Rows
  <2>2. QED BY <1>1, <1>14, <2>1 DEF Aggregate, RequestsOk, StepOk
<1>15. CASE StoreRating(r)
  <2>1. job[r].kind \in Refreshing /\ pc[r] # "idle"
    BY <1>1, <1>15 DEF StoreRating, RequestsOk, StepOk, Refreshing
  <2>2. job[r].todo \ {rows[r].app} \in SUBSET Apps
    BY <1>1, <2>1, TodoOk
  <2>3. QED BY <1>1, <1>15, <2>1, <2>2, ProceedOk DEF StoreRating
<1>16. QED
  BY <1>2, <1>3, <1>4, <1>5, <1>6, <1>7, <1>8, <1>9, <1>10, <1>11, <1>12, <1>13, <1>14, <1>15
  DEF Writes

-----------------------------------------------------------------------------
(***************************************************************************)
(* The documents keep their types.                                         *)
(***************************************************************************)

DocumentsOk ==
  /\ users \in SUBSET Users
  /\ name \in [Users -> Names \cup {Blank}]
  /\ online \in SUBSET Apps
  /\ reviews \in [ReviewIds -> Review \cup {NoReview}]
  /\ rating \in [Apps -> Counts]
  /\ open \in [Apps -> [Reporters -> Nat]]
  /\ closed \in SUBSET Apps
  /\ Existing \subseteq used

LEMMA InvParts == ReviewInv <=> RequestsOk /\ DocumentsOk
BY DEF ReviewInv, ReviewTypeOK, RequestsOk, DocumentsOk

LEMMA SaveDocuments ==
  ASSUME ReviewInv, NEW r \in Requests, SaveWrite(r)
  PROVE  DocumentsOk'
<1>1. job[r] \in [kind : {"save"}, user : Users, app : Apps, stars : Stars, author : Authors,
                  todo : SUBSET Apps]
  BY DEF SaveWrite, Writing, ReviewInv, RequestsOk, Jobs
<1>2. UNCHANGED <<users, name, online, rating, open, closed>>
  BY DEF SaveWrite
<1>3. ASSUME NEW i \in On(job[r].app, job[r].user),
             reviews' = [reviews EXCEPT ![i].stars = job[r].stars, ![i].author = job[r].author],
             UNCHANGED used
      PROVE  DocumentsOk'
  <2>1. i \in ReviewIds /\ reviews[i] \in Review
    BY DEF On, Of, Existing, ReviewInv, ReviewTypeOK
  <2>2. reviews' = [reviews EXCEPT ![i] = [reviews[i] EXCEPT !.stars = job[r].stars,
                                                           !.author = job[r].author]]
    BY <1>3, <2>1 DEF ReviewInv, ReviewTypeOK
  <2>3. [reviews[i] EXCEPT !.stars = job[r].stars, !.author = job[r].author] \in Review
    BY <1>1, <2>1 DEF Review
  <2>4. QED
    BY <1>2, <1>3, <2>1, <2>2, <2>3, NoneAssumption
    DEF ReviewInv, ReviewTypeOK, DocumentsOk, Existing
<1>4. ASSUME NEW i \in ReviewIds \ used,
             reviews' = [reviews EXCEPT ![i] =
               [app |-> job[r].app, user |-> job[r].user, stars |-> job[r].stars,
                author |-> job[r].author, hidden |-> FALSE, reports |-> [p \in Reporters |-> 0]]],
             used' = used \cup {i}
      PROVE  DocumentsOk'
  <2>1. [app |-> job[r].app, user |-> job[r].user, stars |-> job[r].stars,
         author |-> job[r].author, hidden |-> FALSE, reports |-> [p \in Reporters |-> 0]] \in Review
    BY <1>1 DEF Review
  <2>2. QED
    BY <1>2, <1>4, <2>1 DEF ReviewInv, ReviewTypeOK, DocumentsOk, Existing
<1>5. QED BY <1>3, <1>4 DEF SaveWrite
LEMMA DeleteDocuments ==
  ASSUME ReviewInv, NEW ids \in SUBSET ReviewIds, DeleteReviews(ids),
         UNCHANGED <<users, name, online, rating, open, closed, used>>
  PROVE  DocumentsOk'
BY DEF DeleteReviews, ReviewInv, ReviewTypeOK, DocumentsOk, Existing

\* The reviews that stay what they were, but for some fields.
LEMMA EditDocuments ==
  ASSUME ReviewInv, reviews' \in [ReviewIds -> Review \cup {NoReview}],
         \A i \in ReviewIds : reviews[i] = NoReview => reviews'[i] = NoReview,
         UNCHANGED <<users, name, online, rating, open, closed, used>>
  PROVE  DocumentsOk'
BY DEF ReviewInv, ReviewTypeOK, DocumentsOk, Existing

LEMMA ModerateDocuments ==
  ASSUME ReviewInv, NEW r \in Requests, ModerateWrite(r)
  PROVE  DocumentsOk'
<1> DEFINE i == job[r].id
           new == [reviews[i] EXCEPT !.hidden = (job[r].kind = "hide"),
                                     !.reports = [p \in Reporters |-> 0]]
<1>1. i \in ReviewIds
  BY DEF ModerateWrite, Writing, ReviewInv, RequestsOk, Jobs
<1>2. CASE i \in Existing
  <2>1. reviews[i] \in Review /\ reviews[i] # NoReview
    BY <1>2 DEF Existing, ReviewInv, ReviewTypeOK
  <2>2. new \in Review
    BY <2>1 DEF Review
  <2>3. reviews' = [reviews EXCEPT ![i] = new]
    BY <1>1, <1>2 DEF ModerateWrite, ReviewInv, ReviewTypeOK
  <2>4. QED
    BY <1>1, <2>1, <2>2, <2>3, EditDocuments DEF ModerateWrite, historyVars, ReviewInv, ReviewTypeOK
<1>3. CASE i \notin Existing
  BY <1>3, EditDocuments DEF ModerateWrite, historyVars, ReviewInv, ReviewTypeOK
<1>4. QED BY <1>2, <1>3

LEMMA ReportDocuments ==
  ASSUME ReviewInv, NEW r \in Requests, ReportWrite(r)
  PROVE  DocumentsOk'
<1> DEFINE i == job[r].id
           by == job[r].by
           new == [reviews[i] EXCEPT !.reports[by] = @ + 1]
<1>1. i \in ReviewIds /\ job[r].by \in Reporters
  BY DEF ReportWrite, Writing, ReviewInv, RequestsOk, Jobs
<1>2. CASE i \in Existing
  <2>1. reviews[i] \in Review /\ reviews[i] # NoReview
    BY <1>2 DEF Existing, ReviewInv, ReviewTypeOK
  <2>2. new \in Review
    <3>1. reviews[i].reports \in [Reporters -> Nat] BY <2>1 DEF Review
    <3>2. [reviews[i].reports EXCEPT ![by] = @ + 1] \in [Reporters -> Nat]
      BY <1>1, <3>1
    <3>3. QED BY <2>1, <3>2 DEF Review
  <2>3. reviews' = [reviews EXCEPT ![i] = new]
    BY <1>2 DEF ReportWrite, ReviewInv, ReviewTypeOK
  <2>4. QED
    BY <1>1, <2>1, <2>2, <2>3, EditDocuments DEF ReportWrite, historyVars, ReviewInv, ReviewTypeOK
<1>3. CASE i \notin Existing
  BY <1>3, EditDocuments DEF ReportWrite, historyVars, ReviewInv, ReviewTypeOK
<1>4. QED BY <1>2, <1>3

LEMMA CopyDocuments ==
  ASSUME ReviewInv, NEW r \in Requests, CopyName(r)
  PROVE  DocumentsOk'
<1> DEFINE u == job[r].user
<1>1. job[r] \in Jobs /\ job[r].kind = "rename"
  BY DEF CopyName, ReviewInv, RequestsOk, StepOk
<1>2. job[r].name \in Authors
  BY <1>1 DEF Jobs, Authors
<1>3. ASSUME NEW i \in Of(u)
      PROVE  [reviews[i] EXCEPT !.author = job[r].name] \in Review
  BY <1>2 DEF Of, Existing, ReviewInv, ReviewTypeOK, Review
<1>4. reviews' \in [ReviewIds -> Review \cup {NoReview}]
  BY <1>3 DEF CopyName, ReviewInv, ReviewTypeOK
<1>5. \A i \in ReviewIds : reviews[i] = NoReview => reviews'[i] = NoReview
  BY DEF CopyName, Of, Existing
<1>6. QED
  BY <1>4, <1>5, EditDocuments DEF CopyName

LEMMA WritesDocuments ==
  ASSUME ReviewInv, NEW r \in Requests, Writes(r)
  PROVE  DocumentsOk'
<1>1. DocumentsOk BY InvParts
<1>2. CASE SaveWrite(r) BY <1>2, SaveDocuments
<1>3. CASE DeleteWrite(r)
  BY <1>3, DeleteDocuments DEF DeleteWrite, historyVars, On, Of, Existing
<1>4. CASE ModerateWrite(r) BY <1>4, ModerateDocuments
<1>5. CASE ReportWrite(r) BY <1>5, ReportDocuments
<1>6. CASE RenameWrite(r)
  <2>1. job[r].user \in Users /\ job[r].name \in Names \cup {Blank}
    BY <1>6 DEF RenameWrite, Writing, ReviewInv, RequestsOk, Jobs
  <2>2. QED BY <1>1, <1>6, <2>1 DEF RenameWrite, DocumentsOk, Existing, historyVars
<1>7. CASE CopyName(r) BY <1>7, CopyDocuments
<1>8. CASE DistinctApps(r)
  BY <1>1, <1>8 DEF DistinctApps, DocumentsOk, documentVars, historyVars, Existing
<1>9. CASE DeleteUserReviews(r)
  BY <1>9, DeleteDocuments DEF DeleteUserReviews, historyVars, On, Of, Existing
<1>10. CASE RemoveUser(r)
  BY <1>1, <1>10 DEF RemoveUser, DocumentsOk, historyVars, Existing
<1>11. CASE ReportAppWrite(r)
  <2>1. job[r].app \in Apps /\ job[r].by \in Reporters
    BY <1>11 DEF ReportAppWrite, Writing, ReviewInv, RequestsOk, Jobs
  <2>2. QED BY <1>1, <1>11, <2>1 DEF ReportAppWrite, DocumentsOk, historyVars, Existing
<1>12. CASE CloseReports(r)
  <2>1. job[r].app \in Apps
    BY <1>12 DEF CloseReports, Writing, ReviewInv, RequestsOk, Jobs
  <2>2. QED BY <1>1, <1>12, <2>1 DEF CloseReports, DocumentsOk, historyVars, Existing
<1>13. CASE RetireApp(r)
  BY <1>1, <1>13 DEF RetireApp, DocumentsOk, historyVars, Existing
<1>14. ASSUME NEW a \in Apps, Aggregate(r, a)
       PROVE  DocumentsOk'
  BY <1>1, <1>14 DEF Aggregate, DocumentsOk, documentVars, historyVars, Existing
<1>15. CASE StoreRating(r)
  <2>1. rows[r].app \in Apps /\ rows[r].counts \in Counts
    BY <1>15 DEF StoreRating, ReviewInv, RequestsOk, StepOk, Rows
  <2>2. QED BY <1>1, <1>15, <2>1 DEF StoreRating, DocumentsOk, Existing
<1>16. QED
  BY <1>2, <1>3, <1>4, <1>5, <1>6, <1>7, <1>8, <1>9, <1>10, <1>11, <1>12, <1>13, <1>14, <1>15
  DEF Writes

-----------------------------------------------------------------------------
LEMMA InitOk == ReviewInit => ReviewInv
<1> HAVE ReviewInit
<1>1. 0 \in 0..Cardinality(ReviewIds)
  BY FiniteAssumption, FS_CardinalityType
<1>2. DocumentsOk
  BY <1>1 DEF ReviewInit, DocumentsOk, Existing, Counts
<1>3. RequestsOk
  BY DEF ReviewInit, RequestsOk, StepOk
<1>4. QED BY <1>2, <1>3, InvParts

LEMMA NextOk ==
  ASSUME ReviewInv, [ReviewNext]_reviewVars
  PROVE  ReviewInv'
<1>0. RequestsOk /\ DocumentsOk BY InvParts
<1>1. ASSUME NEW r \in Requests, Reads(r)
      PROVE  RequestsOk' /\ DocumentsOk'
  <2>1. RequestsOk' BY <1>0, <1>1, ReadsStart, StartOk
  <2>2. UNCHANGED <<documentVars, historyVars>> BY <1>1, ReadsStart DEF Start
  <2>3. QED BY <1>0, <2>1, <2>2 DEF DocumentsOk, documentVars, historyVars, Existing
<1>2. ASSUME NEW r \in Requests, Writes(r)
      PROVE  RequestsOk' /\ DocumentsOk'
  BY <1>2, WritesRequests, WritesDocuments
<1>3. ASSUME NEW r \in Requests, Abort(r)
      PROVE  RequestsOk' /\ DocumentsOk'
  BY <1>0, <1>3, EndOk DEF Abort, DocumentsOk, documentVars, Existing
<1>4. ASSUME NEW a \in Apps, AppVisibility(a)
      PROVE  RequestsOk' /\ DocumentsOk'
  BY <1>0, <1>4 DEF AppVisibility, RequestsOk, StepOk, DocumentsOk, historyVars, Existing
<1>5. ASSUME NEW u \in Users, NEW n \in Names \cup {Blank}, Register(u, n)
      PROVE  RequestsOk' /\ DocumentsOk'
  BY <1>0, <1>5 DEF Register, RequestsOk, StepOk, DocumentsOk, Existing
<1>6. ReviewInv' <=> RequestsOk' /\ DocumentsOk'
  BY DEF ReviewInv, ReviewTypeOK, RequestsOk, DocumentsOk
<1>7. CASE UNCHANGED reviewVars
  BY <1>0, <1>6, <1>7
  DEF reviewVars, documentVars, historyVars, RequestsOk, StepOk, DocumentsOk, Existing
<1>8. CASE ReviewNext
  BY <1>1, <1>2, <1>3, <1>4, <1>5, <1>6, <1>8 DEF ReviewNext
<1>9. QED BY <1>7, <1>8

LEMMA TypesAlways == ReviewSpec => []ReviewInv
BY InitOk, NextOk, PTL DEF ReviewSpec

-----------------------------------------------------------------------------
(***************************************************************************)
(* Hidden reviews.                                                         *)
(***************************************************************************)

Restoring(i) == \E r \in Requests : Writing(r, {"restore"}) /\ job[r].id = i

LEMMA WritesKeepHidden ==
  ASSUME ReviewInv, NEW r \in Requests, Writes(r),
         NEW i \in Existing, reviews[i].hidden, reviews'[i] # NoReview, ~reviews'[i].hidden
  PROVE  Restoring(i)
<1>1. i \in ReviewIds /\ reviews[i] \in Review /\ i \in used
  BY DEF ReviewInv, ReviewTypeOK, Existing
<1>2. CASE SaveWrite(r)
  <2>1. ASSUME NEW k \in On(job[r].app, job[r].user),
               reviews' = [reviews EXCEPT ![k].stars = job[r].stars, ![k].author = job[r].author]
        PROVE  reviews'[i].hidden = reviews[i].hidden
    BY <1>1, <2>1 DEF On, Of, Existing, ReviewInv, ReviewTypeOK, Review
  <2>2. ASSUME NEW k \in ReviewIds \ used, NEW new, reviews' = [reviews EXCEPT ![k] = new]
        PROVE  reviews'[i].hidden = reviews[i].hidden
    BY <1>1, <2>2 DEF ReviewInv, ReviewTypeOK
  <2>3. QED BY <1>2, <2>1, <2>2 DEF SaveWrite
<1>3. CASE ModerateWrite(r)
  <2>1. job[r].id = i /\ job[r].kind # "hide"
    BY <1>1, <1>3 DEF ModerateWrite, ReviewInv, ReviewTypeOK, Review
  <2>2. QED BY <1>3, <2>1 DEF ModerateWrite, Writing, Restoring
<1>4. CASE ReportWrite(r)
  BY <1>1, <1>4 DEF ReportWrite, ReviewInv, ReviewTypeOK, Review
<1>5. CASE CopyName(r)
  BY <1>1, <1>5 DEF CopyName, ReviewInv, ReviewTypeOK, Review
<1>6. CASE DeleteWrite(r)
  BY <1>1, <1>6 DEF DeleteWrite, DeleteReviews
<1>7. CASE DeleteUserReviews(r)
  BY <1>1, <1>7 DEF DeleteUserReviews, DeleteReviews
<1>8. CASE UNCHANGED reviews
  BY <1>8
<1>9. QED
  BY <1>2, <1>3, <1>4, <1>5, <1>6, <1>7, <1>8
  DEF Writes, RenameWrite, DistinctApps, RemoveUser, ReportAppWrite, CloseReports, RetireApp,
      Aggregate, StoreRating, documentVars

(***************************************************************************)
(* A hidden review comes back only by restore_review of that very review,  *)
(* whatever overlaps with whatever: upsert and update_many set no other    *)
(* field, and the identifier of a deleted review is never given again.     *)
(***************************************************************************)
THEOREM HiddenReviewsStay == ReviewSpec => HiddenStays
<1>1. ASSUME ReviewInv, [ReviewNext]_reviewVars
      PROVE  [\A i \in Existing :
                reviews[i].hidden /\ reviews'[i] # NoReview /\ ~reviews'[i].hidden =>
                  \E r \in Requests : Writing(r, {"restore"}) /\ job[r].id = i]_reviewVars
  <2>1. SUFFICES ASSUME ReviewNext, NEW i \in Existing,
                        reviews[i].hidden, reviews'[i] # NoReview, ~reviews'[i].hidden
                 PROVE  Restoring(i)
    BY <1>1 DEF Restoring
  <2>2. reviews' # reviews
    BY <2>1
  <2>3. PICK r \in Requests : Writes(r)
    BY <2>1, <2>2, <1>1, ReadsStart
    DEF ReviewNext, Abort, AppVisibility, Register, Start, documentVars
  <2>4. QED BY <1>1, <2>1, <2>3, WritesKeepHidden
<1>2. QED
  BY <1>1, TypesAlways, PTL DEF ReviewSpec, HiddenStays

-----------------------------------------------------------------------------
(***************************************************************************)
(* What one step does to one review.                                       *)
(***************************************************************************)

Edited(r, i) ==
  /\ Writing(r, {"save"}) /\ i \in On(job[r].app, job[r].user)
  /\ reviews'[i] = [reviews[i] EXCEPT !.stars = job[r].stars, !.author = job[r].author]

Added(r, i) ==
  /\ Writing(r, {"save"}) /\ i \notin used
  /\ reviews'[i] = [app |-> job[r].app, user |-> job[r].user, stars |-> job[r].stars,
                    author |-> job[r].author, hidden |-> FALSE,
                    reports |-> [p \in Reporters |-> 0]]

Moderated(r, i) ==
  /\ Writing(r, {"hide", "restore"}) /\ i = job[r].id /\ i \in Existing
  /\ reviews'[i] = [reviews[i] EXCEPT !.hidden = (job[r].kind = "hide"),
                                      !.reports = [p \in Reporters |-> 0]]

Reported(r, i) ==
  /\ Writing(r, {"report"}) /\ i = job[r].id /\ i \in Existing
  /\ reviews'[i] = [reviews[i] EXCEPT !.reports[job[r].by] = @ + 1]

Signed(r, i) ==
  /\ pc[r] = "copy" /\ i \in Of(job[r].user)
  /\ reviews'[i] = [reviews[i] EXCEPT !.author = job[r].name]

Removed(r, i) ==
  /\ \/ Writing(r, {"delete"}) /\ i \in On(job[r].app, job[r].user)
     \/ Writing(r, {"deleteAccount"}) /\ i \in Of(job[r].user)
  /\ reviews'[i] = NoReview

ReviewStep(r, i) ==
  \/ reviews'[i] = reviews[i]
  \/ Edited(r, i) \/ Added(r, i) \/ Moderated(r, i) \/ Reported(r, i) \/ Signed(r, i)
  \/ Removed(r, i)

LEMMA OneReview ==
  ASSUME ReviewInv, NEW r \in Requests, Writes(r), NEW i \in ReviewIds
  PROVE  ReviewStep(r, i)
<1>0. reviews \in [ReviewIds -> Review \cup {NoReview}]
  BY DEF ReviewInv, ReviewTypeOK
<1>1. CASE SaveWrite(r)
  <2>1. ASSUME NEW k \in On(job[r].app, job[r].user),
               reviews' = [reviews EXCEPT ![k].stars = job[r].stars, ![k].author = job[r].author]
        PROVE  ReviewStep(r, i)
    BY <1>0, <1>1, <2>1 DEF SaveWrite, ReviewStep, Edited, On, Of, Existing
  <2>2. ASSUME NEW k \in ReviewIds \ used,
               reviews' = [reviews EXCEPT ![k] =
                 [app |-> job[r].app, user |-> job[r].user, stars |-> job[r].stars,
                  author |-> job[r].author, hidden |-> FALSE, reports |-> [p \in Reporters |-> 0]]]
        PROVE  ReviewStep(r, i)
    BY <1>0, <1>1, <2>2 DEF SaveWrite, ReviewStep, Added
  <2>3. QED BY <1>1, <2>1, <2>2 DEF SaveWrite
<1>2. CASE DeleteWrite(r)
  BY <1>0, <1>2 DEF DeleteWrite, DeleteReviews, ReviewStep, Removed
<1>3. CASE ModerateWrite(r)
  BY <1>0, <1>3 DEF ModerateWrite, ReviewStep, Moderated
<1>4. CASE ReportWrite(r)
  BY <1>0, <1>4 DEF ReportWrite, ReviewStep, Reported
<1>5. CASE CopyName(r)
  BY <1>0, <1>5 DEF CopyName, ReviewStep, Signed
<1>6. CASE DeleteUserReviews(r)
  BY <1>0, <1>6 DEF DeleteUserReviews, DeleteReviews, ReviewStep, Removed
<1>7. CASE UNCHANGED reviews
  BY <1>7 DEF ReviewStep
<1>8. QED
  BY <1>1, <1>2, <1>3, <1>4, <1>5, <1>6, <1>7
  DEF Writes, RenameWrite, DistinctApps, RemoveUser, ReportAppWrite, CloseReports, RetireApp,
      Aggregate, StoreRating, documentVars

\* A review keeps its app and its user; its other fields change as said.
LEMMA FieldsOfReview ==
  ASSUME ReviewInv, NEW r \in Requests, Writes(r), NEW i \in ReviewIds, reviews'[i] # NoReview
  PROVE  /\ i \in Existing => /\ reviews'[i].app = reviews[i].app
                              /\ reviews'[i].user = reviews[i].user
         /\ i \notin Existing => /\ Writing(r, {"save"}) /\ i \notin used
                                 /\ reviews'[i].app = job[r].app
                                 /\ reviews'[i].user = job[r].user
                                 /\ reviews'[i].reports = [p \in Reporters |-> 0]
         /\ i \notin Existing \/ reviews'[i].author # reviews[i].author =>
              \/ /\ Writing(r, {"save"}) /\ reviews'[i].user = job[r].user
                 /\ reviews'[i].author = job[r].author
              \/ pc[r] = "copy" /\ reviews'[i].user = job[r].user
<1>1. ReviewStep(r, i) BY OneReview
<1>2. i \in Existing => reviews[i] \in Review /\ reviews[i] # NoReview
  BY DEF Existing, ReviewInv, ReviewTypeOK
<1>3. /\ i \notin Existing => reviews[i] = NoReview
      /\ i \notin used => i \notin Existing
  BY DEF Existing, ReviewInv, ReviewTypeOK
<1>4. CASE reviews'[i] = reviews[i] BY <1>2, <1>3, <1>4
<1>5. CASE Edited(r, i) BY <1>2, <1>3, <1>5 DEF Edited, Writing, Review, On, Of
<1>6. CASE Added(r, i) BY <1>2, <1>3, <1>6 DEF Added, Writing
<1>7. CASE Moderated(r, i) BY <1>2, <1>3, <1>7 DEF Moderated, Review
<1>8. CASE Reported(r, i) BY <1>2, <1>3, <1>8 DEF Reported, Review
<1>9. CASE Signed(r, i) BY <1>2, <1>3, <1>9 DEF Signed, Review, Of
<1>10. QED BY <1>1, <1>4, <1>5, <1>6, <1>7, <1>8, <1>9 DEF ReviewStep, Removed

\* What decides the rating of app a: its visible reviews and their stars.
Counted(i, a, s) == /\ i \in Existing /\ reviews[i].app = a /\ reviews[i].stars = s
                    /\ ~reviews[i].hidden

LEMMA SameCounts ==
  ASSUME NEW a \in Apps, \A i \in ReviewIds, s \in Stars : Counted(i, a, s)' <=> Counted(i, a, s)
  PROVE  Distribution(a)' = Distribution(a)
<1>1. ASSUME NEW s \in Stars
      PROVE  {i \in Existing' : reviews'[i].app = a /\ reviews'[i].stars = s /\ ~reviews'[i].hidden}
             = {i \in Existing : reviews[i].app = a /\ reviews[i].stars = s /\ ~reviews[i].hidden}
  BY DEF Counted, Existing
<1>2. QED BY <1>1 DEF Distribution

-----------------------------------------------------------------------------
(***************************************************************************)
(* A step of one request leaves the others where they are.                 *)
(***************************************************************************)

LEMMA ProceedEffect ==
  ASSUME RequestsOk, NEW r \in Requests, pc[r] # "idle", job[r].kind \in Refreshing,
         NEW todo \in SUBSET Apps, Proceed(r, todo)
  PROVE  /\ pc'[r] \in {"idle", "aggregate", "remove"}
         /\ todo # {} => pc'[r] = "aggregate"
         /\ pc'[r] # "idle" =>
              /\ job'[r].kind = job[r].kind /\ job'[r].todo = todo
              /\ job[r].kind \in {"save", "delete", "deleteAccount"} => job'[r].user = job[r].user
<1>1. job[r] \in Jobs BY TodoOk
<1>2. CASE End(r) BY <1>2 DEF End, RequestsOk, Proceed
<1>3. CASE ~(todo = {} /\ job[r].kind # "deleteAccount")
  <2>1. /\ pc' = [pc EXCEPT ![r] = IF todo = {} THEN "remove" ELSE "aggregate"]
        /\ job' = [job EXCEPT ![r] = [job[r] EXCEPT !.todo = todo]]
    BY <1>3 DEF Proceed
  <2>2. /\ job'[r].kind = job[r].kind /\ job'[r].todo = todo
        /\ job[r].kind \in {"save", "delete", "deleteAccount"} => job'[r].user = job[r].user
    BY <1>1, <2>1, TodoChanges DEF RequestsOk
  <2>3. QED BY <2>1, <2>2 DEF RequestsOk
<1>4. CASE todo = {} /\ job[r].kind # "deleteAccount"
  BY <1>2, <1>4 DEF Proceed
<1>5. QED BY <1>3, <1>4

LEMMA OthersStay ==
  ASSUME ReviewInv, NEW r \in Requests, Reads(r) \/ Writes(r) \/ Abort(r),
         NEW q \in Requests, q # r
  PROVE  pc'[q] = pc[q] /\ job'[q] = job[q] /\ rows'[q] = rows[q]
<1>0. /\ pc \in [Requests -> {"idle", "distinct", "write", "copy", "close",
                              "aggregate", "store", "remove"}]
      /\ job \in [Requests -> Jobs \cup {NoJob}]
      /\ rows \in [Requests -> Rows \cup {NoRows}]
  BY DEF ReviewInv, RequestsOk
<1>1. ASSUME NEW at, NEW j, Start(r, at, j)
      PROVE  pc'[q] = pc[q] /\ job'[q] = job[q] /\ rows'[q] = rows[q]
  BY <1>0, <1>1 DEF Start
<1>2. CASE End(r) BY <1>0, <1>2 DEF End
<1>3. ASSUME NEW todo, Proceed(r, todo)
      PROVE  pc'[q] = pc[q] /\ job'[q] = job[q] /\ rows'[q] = rows[q]
  <2>1. CASE todo = {} /\ job[r].kind # "deleteAccount" BY <1>2, <1>3, <2>1 DEF Proceed
  <2>2. CASE ~(todo = {} /\ job[r].kind # "deleteAccount") BY <1>0, <1>3, <2>2 DEF Proceed
  <2>3. QED BY <2>1, <2>2
<1>4. CASE Reads(r) BY <1>1, <1>4, ReadsStart
<1>5. CASE Abort(r) BY <1>2, <1>5 DEF Abort
<1>6. CASE Writes(r)
  <2>1. CASE \/ SaveWrite(r) \/ DeleteWrite(r) \/ ModerateWrite(r) \/ DeleteUserReviews(r)
             \/ StoreRating(r)
    BY <1>3, <2>1 DEF SaveWrite, DeleteWrite, ModerateWrite, DeleteUserReviews, StoreRating
  <2>2. CASE ReportWrite(r) \/ CopyName(r) \/ RemoveUser(r) \/ ReportAppWrite(r) \/ RetireApp(r)
    BY <1>2, <2>2 DEF ReportWrite, CopyName, RemoveUser, ReportAppWrite, RetireApp
  <2>3. CASE RenameWrite(r) BY <1>0, <2>3 DEF RenameWrite
  <2>4. CASE DistinctApps(r) BY <1>0, <2>4 DEF DistinctApps
  <2>5. CASE CloseReports(r) BY <1>0, <1>2, <2>5 DEF CloseReports
  <2>6. ASSUME NEW a \in Apps, Aggregate(r, a)
        PROVE  pc'[q] = pc[q] /\ job'[q] = job[q] /\ rows'[q] = rows[q]
    BY <1>0, <2>6 DEF Aggregate
  <2>7. QED BY <1>6, <2>1, <2>2, <2>3, <2>4, <2>5, <2>6 DEF Writes
<1>7. QED BY <1>4, <1>5, <1>6

LEMMA WriterBusy ==
  ASSUME NEW r \in Requests, Writes(r)
  PROVE  pc[r] # "idle"
BY DEF Writes, SaveWrite, DeleteWrite, ModerateWrite, ReportWrite, RenameWrite, CopyName,
       DistinctApps, DeleteUserReviews, RemoveUser, ReportAppWrite, CloseReports, RetireApp,
       Aggregate, StoreRating, Writing

\* What is owed stays owed, but by the request that moves.
LEMMA OwedStays ==
  ASSUME ReviewInv, NEW r \in Requests, Reads(r) \/ Writes(r) \/ Abort(r)
  PROVE  /\ \A a \in Apps : OwesRating(a) /\ ~(pc[r] \in {"aggregate", "store"} /\ a \in job[r].todo)
                              => OwesRating(a)'
         /\ \A u \in Users : OwesName(u) /\ ~(pc[r] = "copy" /\ job[r].user = u) => OwesName(u)'
BY OthersStay DEF OwesRating, OwesName

-----------------------------------------------------------------------------
(***************************************************************************)
(* Names and accounts.                                                     *)
(***************************************************************************)

\* An account and its name are touched by its renaming and its deletion.
LEMMA NamesMove ==
  ASSUME ReviewInv, NEW r \in Requests, Writes(r), NEW u \in Users,
         ~(job[r].kind \in {"rename", "deleteAccount"} /\ job[r].user = u)
  PROVE  name'[u] = name[u] /\ (u \in users' <=> u \in users)
<1>1. /\ name \in [Users -> Names \cup {Blank}] /\ StepOk(r)
  BY DEF ReviewInv, ReviewTypeOK, RequestsOk
<1>2. CASE RenameWrite(r)
  BY <1>1, <1>2 DEF RenameWrite, Writing
<1>3. CASE RemoveUser(r)
  BY <1>1, <1>3 DEF RemoveUser, StepOk
<1>4. CASE UNCHANGED <<name, users>> BY <1>4
<1>5. QED
  BY <1>2, <1>3, <1>4
  DEF Writes, SaveWrite, DeleteWrite, ModerateWrite, ReportWrite, CopyName, DistinctApps,
      DeleteUserReviews, ReportAppWrite, CloseReports, RetireApp, Aggregate, StoreRating, documentVars

\* A review comes to a user by a request that saves one for that user.
LEMMA ReviewsCome ==
  ASSUME ReviewInv, NEW r \in Requests, Writes(r), NEW u \in Users,
         ~(job[r].kind = "save" /\ job[r].user = u)
  PROVE  \A i \in Of(u)' : i \in Of(u) /\ reviews'[i].app = reviews[i].app
BY FieldsOfReview DEF Of, Existing, Writing

LEMMA WritesHoldOthers ==
  ASSUME ReviewInv, AccountInv, AccountsApart, NEW r \in Requests, Writes(r),
         NEW q \in Requests, q # r
  PROVE  AccountHolds(q)'
<1>1. pc'[q] = pc[q] /\ job'[q] = job[q] BY OthersStay
<1>2. CASE pc[q] = "idle" \/ job[q].kind \notin OfAccount
  <2>1. pc[q] # "copy" BY <1>2 DEF ReviewInv, RequestsOk, StepOk, OfAccount
  <2>2. QED BY <1>1, <1>2, <2>1 DEF AccountHolds, OfAccount
<1>3. CASE pc[q] # "idle" /\ job[q].kind \in OfAccount
  <2> DEFINE u == job[q].user
  <2>1. u \in Users /\ job[q] \in Jobs /\ AccountHolds(q) /\ StepOk(q)
    BY <1>3 DEF OfAccount, ReviewInv, RequestsOk, Jobs, AccountInv
  <2>2. ~(job[r].kind \in {"rename", "deleteAccount"} /\ job[r].user = u)
    BY <1>3, WriterBusy DEF AccountsApart
  <2>3. name'[u] = name[u] /\ (u \in users' <=> u \in users)
    BY <2>1, <2>2, NamesMove
  <2>4. DisplayName(u)' = DisplayName(u)
    BY <1>1, <2>3 DEF DisplayName, Own
  <2>5. job[q].kind = "deleteAccount" => Of(u)' \subseteq Of(u)
    <3>1. HAVE job[q].kind = "deleteAccount"
    <3>2. ~(job[r].kind = "save" /\ job[r].user = u)
      BY <1>3, <3>1, WriterBusy DEF AccountsApart, OfAccount
    <3>3. QED BY <1>1, <2>1, <3>2, ReviewsCome
  <2>6. QED BY <1>1, <2>1, <2>3, <2>4, <2>5 DEF AccountHolds
<1>4. QED BY <1>2, <1>3

LEMMA WritesHold ==
  ASSUME ReviewInv, AccountInv, NEW r \in Requests, Writes(r)
  PROVE  AccountHolds(r)'
<1>0. /\ RequestsOk /\ AccountHolds(r) /\ StepOk(r) /\ pc[r] # "idle"
      /\ name \in [Users -> Names \cup {Blank}]
      /\ reviews \in [ReviewIds -> Review \cup {NoReview}]
  BY WriterBusy DEF AccountInv, ReviewInv, ReviewTypeOK, RequestsOk
<1>1. CASE SaveWrite(r) \/ DeleteWrite(r) \/ ModerateWrite(r) \/ DeleteUserReviews(r)
  <2>1. /\ pc[r] = "write" /\ job[r].kind \in Refreshing /\ Proceed(r, job[r].todo)
        /\ UNCHANGED users
    BY <1>1 DEF SaveWrite, DeleteWrite, ModerateWrite, DeleteUserReviews, Writing, Refreshing
  <2>2. /\ pc'[r] \in {"idle", "aggregate", "remove"}
        /\ pc'[r] # "idle" =>
             /\ job'[r].kind = job[r].kind
             /\ job[r].kind \in {"save", "delete", "deleteAccount"} => job'[r].user = job[r].user
    BY <1>0, <2>1, ProceedEffect, TodoOk
  <2>3. job[r].kind = "deleteAccount" => DeleteUserReviews(r)
    BY <1>1 DEF SaveWrite, DeleteWrite, ModerateWrite, Writing
  <2>4. DeleteUserReviews(r) => \A i \in ReviewIds :
          reviews'[i] # NoReview => reviews'[i].user # job[r].user
    BY DEF DeleteUserReviews, DeleteReviews, Of, Existing
  <2>5. QED
    BY <1>0, <2>1, <2>2, <2>3, <2>4 DEF AccountHolds, Of, Existing, Refreshing, OfAccount
<1>2. CASE ReportWrite(r) \/ CopyName(r) \/ RemoveUser(r) \/ ReportAppWrite(r) \/ RetireApp(r)
  <2>1. pc'[r] = "idle"
    BY <1>0, <1>2 DEF ReportWrite, CopyName, RemoveUser, ReportAppWrite, RetireApp, End, RequestsOk
  <2>2. QED BY <2>1 DEF AccountHolds
<1>3. CASE CloseReports(r)
  <2>1. CASE job[r].kind = "unpublish"
    BY <1>0, <1>3, <2>1 DEF CloseReports, AccountHolds, RequestsOk, OfAccount
  <2>2. CASE job[r].kind # "unpublish"
    BY <1>0, <1>3, <2>2 DEF CloseReports, AccountHolds, RequestsOk, End
  <2>3. QED BY <2>1, <2>2
<1>4. CASE RenameWrite(r)
  <2>1. job[r].user \in users /\ job[r].user \in Users
    BY <1>0, <1>4 DEF RenameWrite, Writing, AccountHolds, RequestsOk, Jobs, OfAccount
  <2>2. /\ pc'[r] = "copy" /\ job' = job /\ users' = users
        /\ name'[job[r].user] = job[r].name
    BY <1>0, <1>4, <2>1 DEF RenameWrite, RequestsOk
  <2>3. QED BY <2>1, <2>2 DEF AccountHolds
<1>5. CASE DistinctApps(r)
  <2>1. job[r] \in Jobs /\ job[r].kind = "deleteAccount"
    BY <1>0, <1>5, TodoOk DEF DistinctApps, StepOk
  <2>2. {reviews[i].app : i \in Of(job[r].user)} \in SUBSET Apps
    BY <1>0 DEF Of, Existing, Review
  <2>3. /\ job' = [job EXCEPT ![r] = [job[r] EXCEPT !.todo = {reviews[i].app : i \in Of(job[r].user)}]]
        /\ pc'[r] = "write" /\ UNCHANGED users
    BY <1>0, <1>5 DEF DistinctApps, RequestsOk, documentVars
  <2>4. job'[r].kind = "deleteAccount" /\ job'[r].user = job[r].user
    BY <1>0, <2>1, <2>2, <2>3, TodoChanges DEF Refreshing, RequestsOk
  <2>5. job[r].user \in users BY <1>0, <2>1 DEF AccountHolds, OfAccount
  <2>6. QED BY <2>3, <2>4, <2>5 DEF AccountHolds
<1>6. ASSUME NEW a \in Apps, Aggregate(r, a)
      PROVE  AccountHolds(r)'
  <2>1. pc'[r] = "store" /\ UNCHANGED <<job, users, reviews>> /\ pc[r] = "aggregate"
    BY <1>0, <1>6 DEF Aggregate, RequestsOk, documentVars
  <2>2. Of(job[r].user)' = Of(job[r].user)
    BY <2>1 DEF Of, Existing
  <2>3. QED BY <1>0, <2>1, <2>2 DEF AccountHolds
<1>7. CASE StoreRating(r)
  <2>1. /\ job[r].kind \in Refreshing /\ job[r].todo \ {rows[r].app} \in SUBSET Apps
        /\ Proceed(r, job[r].todo \ {rows[r].app}) /\ UNCHANGED <<users, reviews>>
        /\ pc[r] = "store"
    BY <1>0, <1>7, TodoOk DEF StoreRating, StepOk, Refreshing
  <2>2. /\ pc'[r] \in {"idle", "aggregate", "remove"}
        /\ pc'[r] # "idle" =>
             /\ job'[r].kind = job[r].kind
             /\ job[r].kind \in {"save", "delete", "deleteAccount"} => job'[r].user = job[r].user
    BY <1>0, <2>1, ProceedEffect
  <2>3. QED BY <1>0, <2>1, <2>2 DEF AccountHolds, Of, Existing, Refreshing, OfAccount
<1>8. QED
  BY <1>1, <1>2, <1>3, <1>4, <1>5, <1>6, <1>7 DEF Writes

LEMMA WritesOwned ==
  ASSUME ReviewInv, AccountInv, NEW r \in Requests, Writes(r)
  PROVE  Owned'
<1>0. RequestsOk /\ Owned /\ AccountHolds(r) /\ StepOk(r)
  BY DEF AccountInv, ReviewInv, RequestsOk
<1>1. SUFFICES ASSUME NEW i \in ReviewIds, reviews'[i] # NoReview
               PROVE  reviews'[i].user \in users'
  BY DEF Owned, Existing
<1>2. CASE RemoveUser(r)
  <2>1. reviews' = reviews /\ users' = users \ {job[r].user} /\ Of(job[r].user) = {}
    BY <1>0, <1>2 DEF RemoveUser, AccountHolds, StepOk
  <2>2. QED BY <1>0, <1>1, <2>1 DEF Owned, Of, Existing
<1>3. CASE UNCHANGED users
  <2>1. CASE i \in Existing BY <1>0, <1>1, <1>3, <2>1, FieldsOfReview DEF Owned
  <2>2. CASE i \notin Existing
    BY <1>0, <1>1, <1>3, <2>2, FieldsOfReview DEF AccountHolds, Writing, OfAccount
  <2>3. QED BY <2>1, <2>2
<1>4. QED
  BY <1>2, <1>3
  DEF Writes, SaveWrite, DeleteWrite, ModerateWrite, ReportWrite, RenameWrite, CopyName,
      DistinctApps, DeleteUserReviews, RemoveUser, ReportAppWrite, CloseReports, RetireApp,
      Aggregate, StoreRating, documentVars

LEMMA WritesNames ==
  ASSUME ReviewInv, AccountInv, NEW r \in Requests, Writes(r)
  PROVE  NameKept'
<1>0. /\ RequestsOk /\ NameKept /\ AccountHolds(r) /\ StepOk(r)
      /\ Owned /\ name \in [Users -> Names \cup {Blank}]
  BY DEF AccountInv, ReviewInv, ReviewTypeOK, RequestsOk
<1>1. SUFFICES ASSUME NEW i \in ReviewIds, reviews'[i] # NoReview,
                      name'[reviews'[i].user] # Blank, reviews'[i].user \notin halfNamed'
               PROVE  reviews'[i].author = name'[reviews'[i].user] \/ OwesName(reviews[i].user)'
  BY DEF NameKept, Existing
<1> DEFINE u == reviews[i].user
<1>2. PICK w \in Users : w = reviews'[i].user
  <2>1. ReviewInv' BY NextOk DEF ReviewNext
  <2>2. QED BY <1>1, <2>1 DEF ReviewInv, ReviewTypeOK, Review
<1> SUFFICES reviews'[i].author = name'[w] \/ OwesName(w)'
  BY <1>2 DEF OwesName
\* A review that stays as it is, of a user whose name stays as it is.
<1>3. ASSUME i \in Existing, reviews'[i].author = reviews[i].author, u \notin halfNamed,
             name'[u] = name[u], ~(pc[r] = "copy" /\ job[r].user = u)
      PROVE  reviews'[i].author = name'[w] \/ OwesName(w)'
  <2>1. w = u BY <1>1, <1>2, <1>3, FieldsOfReview
  <2>2. reviews[i].author = name[u] \/ OwesName(u)
    BY <1>0, <1>1, <1>2, <1>3, <2>1 DEF NameKept
  <2>3. OwesName(w) => OwesName(w)' BY <1>2, <1>3, <2>1, OwedStays
  <2>4. QED BY <1>3, <2>1, <2>2, <2>3 DEF OwesName
<1>4. CASE RenameWrite(r)
  <2>1. reviews' = reviews /\ halfNamed' = halfNamed /\ job' = job /\ pc[r] = "write"
    BY <1>4 DEF RenameWrite, historyVars, Writing
  <2>2. pc'[r] = "copy" BY <1>0, <1>4 DEF RenameWrite, RequestsOk
  <2>3. CASE u = job[r].user BY <1>2, <2>1, <2>2, <2>3 DEF OwesName
  <2>4. CASE u # job[r].user
    <3>1. name'[u] = name[u]
      BY <1>0, <1>2, <1>4, <2>1, <2>4 DEF RenameWrite
    <3>2. QED BY <1>1, <1>2, <1>3, <2>1, <3>1 DEF Existing
  <2>5. QED BY <2>3, <2>4
<1>5. CASE CopyName(r)
  <2>1. name' = name /\ name[job[r].user] = job[r].name
    BY <1>0, <1>5 DEF CopyName, AccountHolds
  <2>2. /\ i \in Existing /\ reviews'[i].user = u
    BY <1>1, <1>5, FieldsOfReview DEF CopyName, Writing
  <2>3. CASE i \in Of(job[r].user)
    <3>1. reviews'[i] = [reviews[i] EXCEPT !.author = job[r].name] /\ reviews[i] \in Review
      BY <1>5, <2>3 DEF CopyName, Of, Existing, ReviewInv, ReviewTypeOK
    <3>2. QED BY <1>2, <2>1, <2>2, <2>3, <3>1 DEF Review, Of
  <2>4. CASE i \notin Of(job[r].user)
    <3>1. reviews'[i] = reviews[i] /\ u # job[r].user
      BY <1>5, <2>2, <2>4 DEF CopyName, Of
    <3>2. u \notin halfNamed
      BY <1>1, <1>5, <3>1 DEF CopyName
    <3>3. QED BY <1>3, <2>1, <2>2, <3>1, <3>2
  <2>5. QED BY <2>3, <2>4
<1>6. CASE RemoveUser(r)
  <2>1. /\ reviews' = reviews /\ halfNamed' = halfNamed /\ pc[r] = "remove"
        /\ name' = [name EXCEPT ![job[r].user] = Blank]
    BY <1>6 DEF RemoveUser, historyVars
  <2>2. name'[u] = name[u]
    BY <1>0, <1>1, <1>2, <2>1
  <2>3. QED BY <1>1, <1>2, <1>3, <2>1, <2>2 DEF Existing
<1>7. CASE pc[r] # "copy" /\ UNCHANGED <<name, halfNamed>>
  <2>1. CASE i \in Existing /\ reviews'[i].author = reviews[i].author
    <3>1. reviews'[i].user = u BY <1>1, <2>1, FieldsOfReview
    <3>2. QED BY <1>1, <1>3, <1>7, <2>1, <3>1
  <2>2. CASE i \notin Existing \/ reviews'[i].author # reviews[i].author
    <3>1. /\ Writing(r, {"save"}) /\ reviews'[i].user = job[r].user
          /\ reviews'[i].author = job[r].author
      BY <1>1, <1>7, <2>2, FieldsOfReview
    <3>2. job[r].author = DisplayName(job[r].user)
      BY <1>0, <3>1 DEF AccountHolds, Writing
    <3>3. QED BY <1>1, <1>2, <1>7, <3>1, <3>2 DEF DisplayName
  <2>3. QED BY <2>1, <2>2
<1>8. QED
  BY <1>4, <1>5, <1>6, <1>7
  DEF Writes, SaveWrite, DeleteWrite, ModerateWrite, ReportWrite, DistinctApps, DeleteUserReviews,
      ReportAppWrite, CloseReports, RetireApp, Aggregate, StoreRating, documentVars, historyVars,
      Writing

LEMMA ReadsHold ==
  ASSUME ReviewInv, NEW r \in Requests, Reads(r)
  PROVE  AccountHolds(r)' /\ Covers(r)'
<1>1. /\ pc \in [Requests -> {"idle", "distinct", "write", "copy", "close",
                              "aggregate", "store", "remove"}]
      /\ job \in [Requests -> Jobs \cup {NoJob}] /\ Existing \subseteq used
  BY DEF ReviewInv, ReviewTypeOK
<1>2. ASSUME NEW u \in Users, NEW a \in Apps, NEW s \in Stars, SaveMyReview(r, u, a, s)
      PROVE  AccountHolds(r)' /\ Covers(r)'
  BY <1>1, <1>2 DEF SaveMyReview, Start, AccountHolds, Covers, documentVars, DisplayName
<1>3. ASSUME NEW u \in Users, NEW a \in Apps, DeleteMyReview(r, u, a)
      PROVE  AccountHolds(r)' /\ Covers(r)'
  BY <1>1, <1>3 DEF DeleteMyReview, Start, AccountHolds, Covers, documentVars, OfAccount
<1>4. ASSUME NEW u \in Users, NEW n \in Names \cup {Blank}, UpdateMe(r, u, n)
      PROVE  AccountHolds(r)' /\ Covers(r)'
  BY <1>1, <1>4 DEF UpdateMe, Start, AccountHolds, Covers, documentVars
<1>5. ASSUME NEW u \in Users, DeleteAccount(r, u)
      PROVE  AccountHolds(r)' /\ Covers(r)'
  BY <1>1, <1>5 DEF DeleteAccount, Start, AccountHolds, Covers, documentVars
<1>6. ASSUME NEW i \in ReviewIds, NEW kind \in {"hide", "restore"}, ModerateReview(r, i, kind)
      PROVE  AccountHolds(r)' /\ Covers(r)'
  BY <1>1, <1>6
  DEF ModerateReview, Start, AccountHolds, Covers, documentVars, historyVars, OfAccount, Existing
<1>7. ASSUME NEW i \in ReviewIds, NEW p \in Reporters, ReportReview(r, i, p)
      PROVE  AccountHolds(r)' /\ Covers(r)'
  BY <1>1, <1>7 DEF ReportReview, Start, AccountHolds, Covers, documentVars, OfAccount
<1>8. ASSUME NEW a \in Apps, NEW p \in Reporters, ReportApp(r, a, p)
      PROVE  AccountHolds(r)' /\ Covers(r)'
  BY <1>1, <1>8 DEF ReportApp, Start, AccountHolds, Covers, documentVars, OfAccount
<1>9. ASSUME NEW a \in Apps, NEW unpublish \in BOOLEAN, ResolveReport(r, a, unpublish)
      PROVE  AccountHolds(r)' /\ Covers(r)'
  BY <1>1, <1>9 DEF ResolveReport, Start, AccountHolds, Covers, documentVars, OfAccount
<1>10. QED
  BY <1>2, <1>3, <1>4, <1>5, <1>6, <1>7, <1>8, <1>9 DEF Reads

\* A step of r that leaves the documents: it starts, or is cut short.
LEMMA QuietAccounts ==
  ASSUME ReviewInv, AccountInv, NEW r \in Requests, Reads(r) \/ Abort(r)
  PROVE  AccountInv'
<1>1. UNCHANGED documentVars
  BY ReadsStart DEF Abort, Start
<1>2. ASSUME NEW q \in Requests
      PROVE  AccountHolds(q)'
  <2>1. CASE q = r /\ Reads(r) BY <2>1, ReadsHold
  <2>2. CASE q = r /\ Abort(r)
    BY <2>2 DEF Abort, End, AccountHolds, ReviewInv, RequestsOk
  <2>3. CASE q # r
    <3>1. AccountHolds(q) /\ pc'[q] = pc[q] /\ job'[q] = job[q]
      BY <2>3, OthersStay DEF AccountInv
    <3>2. QED
      BY <1>1, <3>1 DEF AccountHolds, DisplayName, Of, Existing, documentVars
  <2>4. QED BY <2>1, <2>2, <2>3
<1>3. NameKept'
  <2>1. SUFFICES ASSUME NEW i \in Existing, name[reviews[i].user] # Blank,
                        reviews[i].user \notin halfNamed'
                 PROVE  reviews[i].author = name[reviews[i].user] \/ OwesName(reviews[i].user)'
    BY <1>1 DEF NameKept, Existing, documentVars
  <2>2. reviews[i].user \in Users
    BY DEF Existing, ReviewInv, ReviewTypeOK, Review
  <2>3. /\ reviews[i].user \notin halfNamed
        /\ ~(pc[r] = "copy" /\ job[r].user = reviews[i].user)
    BY <2>1, ReadsStart DEF Abort, Start, historyVars
  <2>4. reviews[i].author = name[reviews[i].user] \/ OwesName(reviews[i].user)
    BY <2>1, <2>3 DEF AccountInv, NameKept
  <2>5. OwesName(reviews[i].user) => OwesName(reviews[i].user)'
    <3>1. PICK u \in Users : u = reviews[i].user BY <2>2
    <3>2. OwesName(u) => OwesName(u)' BY <2>3, <3>1, OwedStays
    <3>3. reviews'[i].user = u BY <1>1, <3>1 DEF documentVars
    <3>4. QED BY <3>1, <3>2, <3>3 DEF OwesName
  <2>6. QED BY <2>4, <2>5
<1>4. QED BY <1>1, <1>2, <1>3 DEF AccountInv, Owned, Existing, documentVars

LEMMA RegisterAccounts ==
  ASSUME ReviewInv, AccountInv, NEW u \in Users, NEW n \in Names \cup {Blank}, Register(u, n)
  PROVE  AccountInv'
<1>1. /\ u \notin users /\ Of(u) = {} /\ users' = users \cup {u}
      /\ name' = [name EXCEPT ![u] = n] /\ halfNamed' = halfNamed \ {u}
      /\ UNCHANGED <<reviews, pc, job>>
  BY DEF Register
<1>2. name \in [Users -> Names \cup {Blank}]
  BY DEF ReviewInv, ReviewTypeOK
<1>3. ASSUME NEW r \in Requests
      PROVE  AccountHolds(r)'
  <2>1. AccountHolds(r) BY DEF AccountInv
  <2>2. pc[r] # "idle" => job[r] \in Jobs
    BY DEF ReviewInv, ReviewTypeOK
  <2>3. job[r].kind \in OfAccount /\ pc[r] # "idle" =>
          job[r].user \in Users /\ job[r].user # u
    BY <1>1, <2>1, <2>2 DEF AccountHolds, Jobs, OfAccount
  <2>4. pc[r] = "write" /\ job[r].kind = "save" =>
          DisplayName(job[r].user)' = DisplayName(job[r].user)
    BY <1>1, <1>2, <2>3 DEF DisplayName, OfAccount
  <2>5. pc[r] = "copy" => name'[job[r].user] = name[job[r].user]
    BY <1>1, <1>2, <2>3 DEF ReviewInv, RequestsOk, StepOk, OfAccount
  <2>6. Of(job[r].user)' = Of(job[r].user)
    BY <1>1 DEF Of, Existing
  <2>7. QED
    BY <1>1, <2>1, <2>3, <2>4, <2>5, <2>6 DEF AccountHolds
<1>4. NameKept'
  <2>1. \A i \in Existing : reviews[i].user # u
    BY <1>1 DEF Of
  <2>2. \A i \in Existing : name'[reviews[i].user] = name[reviews[i].user]
    BY <1>1, <1>2, <2>1 DEF Existing, ReviewInv, ReviewTypeOK, Review
  <2>3. QED BY <1>1, <2>1, <2>2 DEF AccountInv, NameKept, OwesName, Existing
<1>5. QED BY <1>1, <1>3, <1>4 DEF AccountInv, Owned, Existing

LEMMA AccountFrame ==
  ASSUME AccountInv, UNCHANGED <<users, name, reviews, pc, job, halfNamed>>
  PROVE  AccountInv'
BY DEF AccountInv, AccountHolds, NameKept, OwesName, Owned, DisplayName, Of, Existing

LEMMA AccountsAlways == ReviewSpec /\ []AccountsApart => []AccountInv
<1>1. ReviewInit => AccountInv
  BY DEF ReviewInit, AccountInv, AccountHolds, NameKept, Owned, Existing
<1>2. ReviewInv /\ AccountInv /\ AccountsApart /\ [ReviewNext]_reviewVars => AccountInv'
  <2> SUFFICES ASSUME ReviewInv, AccountInv, AccountsApart, [ReviewNext]_reviewVars
               PROVE  AccountInv'
    OBVIOUS
  <2>1. ASSUME NEW r \in Requests, Writes(r)
        PROVE  AccountInv'
    <3>1. \A q \in Requests : AccountHolds(q)' BY <2>1, WritesHold, WritesHoldOthers
    <3>2. QED BY <2>1, <3>1, WritesNames, WritesOwned DEF AccountInv
  <2>2. ASSUME NEW a \in Apps, AppVisibility(a)
        PROVE  AccountInv'
    BY <2>2, AccountFrame DEF AppVisibility, historyVars
  <2>3. CASE UNCHANGED reviewVars
    BY <2>3, AccountFrame DEF reviewVars, documentVars, historyVars
  <2>4. QED
    BY <2>1, <2>2, <2>3, QuietAccounts, RegisterAccounts DEF ReviewNext
<1>3. QED BY <1>1, <1>2, TypesAlways, PTL DEF ReviewSpec

(***************************************************************************)
(* Reviews are signed with the name their author has now, as long as a     *)
(* renaming overlaps no review of its account (save_my_review writes the   *)
(* name it read before a rename).                                          *)
(***************************************************************************)
THEOREM NamesApart == ReviewSpec /\ []AccountsApart => []NamesCurrent
<1>1. AccountInv => NamesCurrent
  BY DEF AccountInv, NameKept, OwesName, NamesCurrent, NothingRunning
<1>2. QED BY <1>1, AccountsAlways, PTL

-----------------------------------------------------------------------------
(***************************************************************************)
(* Ratings.                                                                *)
(***************************************************************************)

\* The apps a write can change are those whose rating it refreshes.
LEMMA WriteTouches ==
  ASSUME ReviewInv, NEW r \in Requests, Covers(r), Writes(r), NEW a \in Apps,
         pc[r] = "write" => a \notin job[r].todo
  PROVE  Distribution(a)' = Distribution(a)
<1>2. ASSUME NEW i \in ReviewIds, NEW s \in Stars
      PROVE  Counted(i, a, s)' <=> Counted(i, a, s)
  <2>1. ReviewStep(r, i) BY OneReview
  <2>2. i \in Existing => reviews[i] \in Review /\ reviews[i] # NoReview
    BY DEF Existing, ReviewInv, ReviewTypeOK
  <2>3. /\ i \notin Existing => reviews[i] = NoReview
        /\ i \notin used => i \notin Existing
    BY DEF Existing, ReviewInv, ReviewTypeOK
  <2>4. i \in Existing' <=> reviews'[i] # NoReview
    BY DEF Existing
  <2>5. CASE reviews'[i] = reviews[i]
    BY <2>4, <2>5 DEF Counted, Existing
  <2>6. CASE Signed(r, i)
    <3>1. job[r].name \in Authors
      BY <2>6 DEF Signed, ReviewInv, RequestsOk, StepOk, Jobs, Authors
    <3>2. reviews[i] \in Review /\ reviews'[i] \in Review
      BY <2>2, <2>6, <3>1 DEF Signed, Of, Review
    <3>3. QED
      BY <2>2, <2>4, <2>6, <3>2, NoneAssumption DEF Signed, Counted, Review, Of
  <2>7. CASE Reported(r, i)
    BY <2>2, <2>3, <2>4, <2>7, NoneAssumption DEF Reported, Counted, Review
  <2>8. CASE Edited(r, i)
    BY <2>2, <2>3, <2>4, <2>8 DEF Edited, Counted, Writing, Review, Covers, On, Of
  <2>9. CASE Added(r, i)
    BY <2>3, <2>4, <2>9 DEF Added, Counted, Writing, Covers
  <2>10. CASE Moderated(r, i)
    BY <2>2, <2>3, <2>4, <2>10 DEF Moderated, Counted, Writing, Review, Covers
  <2>11. CASE Removed(r, i)
    BY <2>2, <2>3, <2>4, <2>11 DEF Removed, Counted, Writing, Covers, On, Of
  <2>12. QED BY <2>1, <2>5, <2>6, <2>7, <2>8, <2>9, <2>10, <2>11 DEF ReviewStep
<1>3. QED BY <1>2, SameCounts

LEMMA WritesCoverOthers ==
  ASSUME ReviewInv, RatingInv, AccountsApart, AppsApart, NEW r \in Requests, Writes(r),
         NEW q \in Requests, q # r
  PROVE  Covers(q)'
<1>1. pc'[q] = pc[q] /\ job'[q] = job[q] /\ rows'[q] = rows[q]
  BY OthersStay
<1>2. /\ Covers(q) /\ Covers(r) /\ StepOk(q) /\ pc[r] # "idle"
      /\ pc[q] # "idle" => job[q] \in Jobs
  BY WriterBusy DEF RatingInv, ReviewInv, RequestsOk
<1>3. CASE pc[q] = "write"
  <2>1. CASE job[q].kind \in {"hide", "restore"}
    <3>1. job[q].id \in ReviewIds BY <1>2, <1>3, <2>1 DEF Jobs
    <3>2. used \subseteq used'
      BY DEF Writes, SaveWrite, DeleteWrite, ModerateWrite, ReportWrite, RenameWrite, CopyName,
             DistinctApps, DeleteUserReviews, RemoveUser, ReportAppWrite, CloseReports, RetireApp,
             Aggregate, StoreRating, historyVars
    <3>3. reviews'[job[q].id] # NoReview =>
            job[q].id \in Existing /\ reviews'[job[q].id].app = reviews[job[q].id].app
      BY <1>2, <1>3, <2>1, <3>1, FieldsOfReview DEF Covers
    <3>4. QED BY <1>1, <1>2, <1>3, <2>1, <3>1, <3>2, <3>3 DEF Covers, Existing
  <2>2. CASE job[q].kind = "deleteAccount"
    <3>1. job[q].user \in Users BY <1>2, <1>3, <2>2 DEF Jobs
    <3>2. ~(job[r].kind = "save" /\ job[r].user = job[q].user)
      BY <1>2, <1>3, <2>2 DEF AccountsApart, OfAccount
    <3>3. PICK u \in Users : u = job[q].user BY <3>1
    <3>4. \A i \in Of(u)' : i \in Of(u) /\ reviews'[i].app = reviews[i].app
      BY <3>2, <3>3, ReviewsCome
    <3>5. Of(job[q].user)' = Of(u)' BY <1>1, <3>3 DEF Of
    <3>6. QED BY <1>1, <1>2, <1>3, <2>2, <3>3, <3>4, <3>5 DEF Covers
  <2>3. CASE job[q].kind \notin {"hide", "restore", "deleteAccount"}
    BY <1>1, <1>2, <1>3, <2>3 DEF Covers
  <2>4. QED BY <2>1, <2>2, <2>3
<1>4. CASE pc[q] = "store"
  <2>1. PICK a \in Apps : a = rows[q].app
    BY <1>2, <1>4 DEF StepOk, Rows
  <2>2. a \in job[q].todo BY <1>2, <1>4, <2>1 DEF StepOk
  <2>3. pc[r] = "write" => a \notin job[r].todo
    BY <1>2, <1>4, <2>2 DEF AppsApart
  <2>4. Distribution(a)' = Distribution(a) BY <1>2, <2>3, WriteTouches
  <2>5. Distribution(rows[q].app)' = Distribution(a)' BY <1>1, <2>1 DEF Distribution
  <2>6. QED BY <1>1, <1>2, <1>4, <2>1, <2>4, <2>5 DEF Covers
<1>5. CASE pc[q] \notin {"write", "store"} BY <1>1, <1>5 DEF Covers
<1>6. QED BY <1>3, <1>4, <1>5

LEMMA WritesCover ==
  ASSUME ReviewInv, NEW r \in Requests, Writes(r)
  PROVE  Covers(r)'
<1>0. /\ RequestsOk /\ StepOk(r) /\ pc[r] # "idle"
      /\ reviews \in [ReviewIds -> Review \cup {NoReview}]
  BY WriterBusy DEF ReviewInv, ReviewTypeOK, RequestsOk
<1>1. ASSUME NEW todo \in SUBSET Apps, job[r].kind \in Refreshing, Proceed(r, todo)
      PROVE  Covers(r)'
  BY <1>0, <1>1, ProceedEffect DEF Covers
<1>2. CASE \/ SaveWrite(r) \/ DeleteWrite(r) \/ ModerateWrite(r) \/ DeleteUserReviews(r)
           \/ StoreRating(r)
  BY <1>0, <1>1, <1>2, TodoOk
  DEF SaveWrite, DeleteWrite, ModerateWrite, DeleteUserReviews, StoreRating, Writing, Refreshing, StepOk
<1>3. CASE ReportWrite(r) \/ CopyName(r) \/ RemoveUser(r) \/ ReportAppWrite(r) \/ RetireApp(r)
  <2>1. pc'[r] = "idle"
    BY <1>0, <1>3 DEF ReportWrite, CopyName, RemoveUser, ReportAppWrite, RetireApp, End, RequestsOk
  <2>2. QED BY <2>1 DEF Covers
<1>4. CASE RenameWrite(r)
  BY <1>0, <1>4 DEF RenameWrite, RequestsOk, Covers
<1>5. CASE CloseReports(r)
  BY <1>0, <1>5 DEF CloseReports, RequestsOk, Covers, End
<1>6. CASE DistinctApps(r)
  <2>1. job[r] \in Jobs /\ job[r].kind = "deleteAccount"
    BY <1>0, <1>6, TodoOk DEF DistinctApps, StepOk
  <2>2. {reviews[i].app : i \in Of(job[r].user)} \in SUBSET Apps
    BY <1>0 DEF Of, Existing, Review
  <2>3. /\ job' = [job EXCEPT ![r] = [job[r] EXCEPT !.todo = {reviews[i].app : i \in Of(job[r].user)}]]
        /\ pc'[r] = "write" /\ UNCHANGED reviews
    BY <1>0, <1>6 DEF DistinctApps, RequestsOk, documentVars
  <2>4. /\ job'[r].kind = "deleteAccount" /\ job'[r].user = job[r].user
        /\ job'[r].todo = {reviews[i].app : i \in Of(job[r].user)}
    BY <1>0, <2>1, <2>2, <2>3, TodoChanges DEF Refreshing, RequestsOk
  <2>5. QED BY <2>3, <2>4 DEF Covers, Of, Existing
<1>7. ASSUME NEW a \in Apps, Aggregate(r, a)
      PROVE  Covers(r)'
  <2>1. /\ pc'[r] = "store" /\ rows'[r] = [app |-> a, counts |-> Distribution(a)]
        /\ UNCHANGED reviews
    BY <1>0, <1>7 DEF Aggregate, RequestsOk, documentVars
  <2>2. Distribution(rows[r].app)' = Distribution(rows'[r].app)
    BY <2>1 DEF Distribution, Existing
  <2>3. QED BY <2>1, <2>2 DEF Covers
<1>8. QED
  BY <1>2, <1>3, <1>4, <1>5, <1>6, <1>7 DEF Writes

LEMMA WritesRating ==
  ASSUME ReviewInv, RatingInv, NEW r \in Requests, Writes(r)
  PROVE  RatingKept'
<1>0. /\ RequestsOk /\ RatingKept /\ Covers(r) /\ StepOk(r) /\ pc[r] # "idle"
      /\ rating \in [Apps -> Counts]
  BY WriterBusy DEF RatingInv, ReviewInv, ReviewTypeOK, RequestsOk
<1>1. SUFFICES ASSUME NEW a \in Apps, a \notin stale'
               PROVE  rating'[a] = Distribution(a)' \/ OwesRating(a)'
  BY DEF RatingKept
\* A step that changes neither the rating of a nor what decides it.
<1>2. ASSUME Distribution(a)' = Distribution(a), rating'[a] = rating[a], a \notin stale,
             ~(pc[r] \in {"aggregate", "store"} /\ a \in job[r].todo)
      PROVE  rating'[a] = Distribution(a)' \/ OwesRating(a)'
  BY <1>0, <1>2, OwedStays DEF RatingKept
<1>3. CASE SaveWrite(r) \/ DeleteWrite(r) \/ ModerateWrite(r) \/ DeleteUserReviews(r)
  <2>1. /\ pc[r] = "write" /\ job[r].kind \in Refreshing /\ Proceed(r, job[r].todo)
        /\ UNCHANGED <<rating, stale>>
    BY <1>3 DEF SaveWrite, DeleteWrite, ModerateWrite, DeleteUserReviews, Writing, Refreshing, historyVars
  <2>2. CASE a \in job[r].todo
    <3>1. pc'[r] = "aggregate" /\ job'[r].todo = job[r].todo
      BY <1>0, <2>1, <2>2, ProceedEffect, TodoOk
    <3>2. QED BY <2>2, <3>1 DEF OwesRating
  <2>3. CASE a \notin job[r].todo
    BY <1>0, <1>1, <1>2, <2>1, <2>3, WriteTouches
  <2>4. QED BY <2>2, <2>3
<1>4. CASE \/ ReportWrite(r) \/ RenameWrite(r) \/ CopyName(r) \/ DistinctApps(r)
           \/ RemoveUser(r) \/ ReportAppWrite(r) \/ CloseReports(r) \/ RetireApp(r)
  <2>1. pc[r] \notin {"aggregate", "store"} /\ UNCHANGED <<rating, stale>>
    BY <1>4 DEF ReportWrite, RenameWrite, CopyName, DistinctApps, RemoveUser, ReportAppWrite,
                CloseReports, RetireApp, Writing, historyVars, documentVars
  <2>2. CASE ReportWrite(r)
    <3>1. job[r].todo = {}
      BY <1>0, <2>2 DEF ReportWrite, Writing, RequestsOk, Jobs
    <3>2. QED BY <1>0, <1>1, <1>2, <2>1, <3>1, WriteTouches
  <2>3. CASE CopyName(r)
    BY <1>0, <1>1, <1>2, <2>1, <2>3, WriteTouches DEF CopyName
  <2>4. CASE UNCHANGED reviews
    <3>1. Distribution(a)' = Distribution(a) BY <2>4 DEF Distribution, Existing
    <3>2. QED BY <1>1, <1>2, <2>1, <3>1
  <2>5. QED
    BY <1>4, <2>2, <2>3, <2>4
    DEF RenameWrite, DistinctApps, RemoveUser, ReportAppWrite, CloseReports, RetireApp, documentVars
<1>5. ASSUME NEW b \in Apps, Aggregate(r, b)
      PROVE  rating'[a] = Distribution(a)' \/ OwesRating(a)'
  <2>1. Distribution(a)' = Distribution(a) /\ UNCHANGED <<rating, stale, job>> /\ pc'[r] = "store"
    BY <1>0, <1>5 DEF Aggregate, documentVars, historyVars, Distribution, Existing, RequestsOk
  <2>2. CASE a \in job[r].todo BY <2>1, <2>2 DEF OwesRating
  <2>3. CASE a \notin job[r].todo BY <1>1, <1>2, <2>1, <2>3
  <2>4. QED BY <2>2, <2>3
<1>6. CASE StoreRating(r)
  <2>1. /\ rating' = [rating EXCEPT ![rows[r].app] = rows[r].counts]
        /\ stale' = stale \ {rows[r].app} /\ UNCHANGED reviews
        /\ Proceed(r, job[r].todo \ {rows[r].app}) /\ pc[r] = "store"
    BY <1>6 DEF StoreRating
  <2>2. Distribution(a)' = Distribution(a)
    BY <2>1 DEF Distribution, Existing
  <2>3. CASE a = rows[r].app
    BY <1>0, <2>1, <2>2, <2>3 DEF Covers
  <2>4. CASE a # rows[r].app /\ a \in job[r].todo
    <3>1. job[r].kind \in Refreshing /\ job[r].todo \ {rows[r].app} \in SUBSET Apps
      BY <1>0, <2>1, TodoOk DEF StepOk, Refreshing
    <3>2. pc'[r] = "aggregate" /\ job'[r].todo = job[r].todo \ {rows[r].app}
      BY <1>0, <2>1, <2>4, <3>1, ProceedEffect
    <3>3. QED BY <2>4, <3>2 DEF OwesRating
  <2>5. CASE a # rows[r].app /\ a \notin job[r].todo
    BY <1>0, <1>1, <1>2, <2>1, <2>2, <2>5
  <2>6. QED BY <2>3, <2>4, <2>5
<1>7. QED BY <1>3, <1>4, <1>5, <1>6 DEF Writes

LEMMA QuietRatings ==
  ASSUME ReviewInv, RatingInv, NEW r \in Requests, Reads(r) \/ Abort(r)
  PROVE  RatingInv'
<1>1. UNCHANGED <<documentVars, used>>
  BY ReadsStart DEF Abort, Start, historyVars
<1>2. ASSUME NEW q \in Requests
      PROVE  Covers(q)'
  <2>1. CASE q = r /\ Reads(r) BY <2>1, ReadsHold
  <2>2. CASE q = r /\ Abort(r)
    BY <2>2 DEF Abort, End, Covers, ReviewInv, RequestsOk
  <2>3. CASE q # r
    <3>1. Covers(q) /\ pc'[q] = pc[q] /\ job'[q] = job[q] /\ rows'[q] = rows[q]
      BY <2>3, OthersStay DEF RatingInv
    <3>2. QED
      BY <1>1, <3>1 DEF Covers, Distribution, Of, Existing, documentVars
  <2>4. QED BY <2>1, <2>2, <2>3
<1>3. RatingKept'
  <2>1. SUFFICES ASSUME NEW a \in Apps, a \notin stale'
                 PROVE  rating[a] = Distribution(a) \/ OwesRating(a)'
    BY <1>1 DEF RatingKept, Distribution, Existing, documentVars
  <2>2. a \notin stale /\ ~(pc[r] \in {"aggregate", "store"} /\ a \in job[r].todo)
    BY <2>1, ReadsStart DEF Abort, Start, historyVars
  <2>3. QED BY <2>2, OwedStays DEF RatingInv, RatingKept
<1>4. QED BY <1>2, <1>3 DEF RatingInv

LEMMA RatingFrame ==
  ASSUME RatingInv, UNCHANGED <<reviews, rating, pc, job, rows, used, stale>>
  PROVE  RatingInv'
BY DEF RatingInv, Covers, RatingKept, OwesRating, Distribution, Of, Existing

LEMMA RatingsAlways == ReviewSpec /\ []AccountsApart /\ []AppsApart => []RatingInv
<1>1. ReviewInit => RatingInv
  <2> HAVE ReviewInit
  <2>1. Existing = {} BY DEF ReviewInit, Existing
  <2>2. \A a \in Apps, s \in Stars :
          {i \in Existing : reviews[i].app = a /\ reviews[i].stars = s /\ ~reviews[i].hidden} = {}
    BY <2>1
  <2>3. RatingKept
    BY <2>2, FS_EmptySet DEF ReviewInit, RatingKept, Distribution
  <2>4. QED BY <2>3 DEF ReviewInit, RatingInv, Covers
<1>2. ReviewInv /\ RatingInv /\ AccountsApart /\ AppsApart /\ [ReviewNext]_reviewVars => RatingInv'
  <2> SUFFICES ASSUME ReviewInv, RatingInv, AccountsApart, AppsApart, [ReviewNext]_reviewVars
               PROVE  RatingInv'
    OBVIOUS
  <2>1. ASSUME NEW r \in Requests, Writes(r)
        PROVE  RatingInv'
    <3>1. \A q \in Requests : Covers(q)' BY <2>1, WritesCover, WritesCoverOthers
    <3>2. QED BY <2>1, <3>1, WritesRating DEF RatingInv
  <2>2. ASSUME NEW a \in Apps, AppVisibility(a)
        PROVE  RatingInv'
    BY <2>2, RatingFrame DEF AppVisibility, historyVars
  <2>3. ASSUME NEW u \in Users, NEW n \in Names \cup {Blank}, Register(u, n)
        PROVE  RatingInv'
    BY <2>3, RatingFrame DEF Register
  <2>4. CASE UNCHANGED reviewVars
    BY <2>4, RatingFrame DEF reviewVars, documentVars, historyVars
  <2>5. QED
    BY <2>1, <2>2, <2>3, <2>4, QuietRatings DEF ReviewNext
<1>3. QED BY <1>1, <1>2, TypesAlways, PTL DEF ReviewSpec

(***************************************************************************)
(* The rating that an app shows is that of its visible reviews whenever no *)
(* request is running, as long as the requests that overlap refresh        *)
(* different apps: refresh_rating reads and writes in two steps, and two   *)
(* of one app can store their results in the opposite order.               *)
(***************************************************************************)
THEOREM RatingsApart ==
  ReviewSpec /\ []AccountsApart /\ []AppsApart => []RatingFresh
<1>1. RatingInv => RatingFresh
  BY DEF RatingInv, RatingKept, OwesRating, RatingFresh, NothingRunning
<1>2. QED BY <1>1, RatingsAlways, PTL

-----------------------------------------------------------------------------
(***************************************************************************)
(* Reports.                                                                *)
(***************************************************************************)

LEMMA SubsetCounts ==
  ASSUME NEW S \in SUBSET Requests, NEW U \in SUBSET S
  PROVE  Cardinality(U) \in Nat /\ Cardinality(S) \in Nat /\ Cardinality(U) <= Cardinality(S)
<1>1. IsFiniteSet(S) BY FiniteAssumption, FS_Subset
<1>2. QED BY <1>1, FS_Subset, FS_CardinalityType

LEMMA OneLess ==
  ASSUME NEW S \in SUBSET Requests, NEW r \in S, NEW U \in SUBSET (S \ {r})
  PROVE  Cardinality(U) \in Nat /\ Cardinality(S) \in Nat /\ Cardinality(U) + 1 <= Cardinality(S)
<1>1. IsFiniteSet(S) BY FiniteAssumption, FS_Subset
<1>2. Cardinality(S \ {r}) = Cardinality(S) - 1 BY <1>1, FS_RemoveElement
<1>3. Cardinality(U) <= Cardinality(S \ {r}) /\ Cardinality(U) \in Nat BY SubsetCounts
<1>4. Cardinality(S) \in Nat BY <1>1, FS_CardinalityType
<1>5. QED BY <1>2, <1>3, <1>4

LEMMA OneMore ==
  ASSUME NEW S \in SUBSET Requests, NEW r \in Requests
  PROVE  Cardinality(S \cup {r}) \in Nat /\ Cardinality(S \cup {r}) <= Cardinality(S) + 1
<1>1. IsFiniteSet(S) /\ Cardinality(S) \in Nat BY FiniteAssumption, FS_Subset, FS_CardinalityType
<1>2. CASE r \in S
  <2>1. S \cup {r} = S BY <1>2
  <2>2. QED BY <1>1, <2>1
<1>3. CASE r \notin S
  <2>1. Cardinality(S \cup {r}) = Cardinality(S) + 1 BY <1>1, <1>3, FS_AddElement
  <2>2. QED BY <1>1, <2>1
<1>4. QED BY <1>2, <1>3

\* A request never comes to write a report but when it starts.
LEMMA ReportsLeave ==
  ASSUME ReviewInv, NEW r \in Requests, Writes(r) \/ Abort(r)
  PROVE  /\ Busy' \subseteq Busy
         /\ \A i, p : Pending(i, p)' \subseteq Pending(i, p)
         /\ \A a, p : PendingApp(a, p)' \subseteq PendingApp(a, p)
<1>1. pc[r] # "idle" BY WriterBusy DEF Abort
<1>2. RequestsOk /\ StepOk(r) /\ job[r] \in Jobs BY <1>1 DEF ReviewInv, RequestsOk
<1>3. pc'[r] = "write" => job'[r].kind \notin {"report", "reportApp"}
  <2>1. CASE \/ SaveWrite(r) \/ DeleteWrite(r) \/ ModerateWrite(r) \/ DeleteUserReviews(r)
             \/ StoreRating(r)
    <3>1. \E todo \in SUBSET Apps : job[r].kind \in Refreshing /\ Proceed(r, todo)
      BY <1>2, <2>1, TodoOk
      DEF SaveWrite, DeleteWrite, ModerateWrite, DeleteUserReviews, StoreRating, Writing,
          Refreshing, StepOk
    <3>2. QED BY <1>1, <1>2, <3>1, ProceedEffect
  <2>2. CASE \/ ReportWrite(r) \/ CopyName(r) \/ RemoveUser(r) \/ ReportAppWrite(r)
             \/ RetireApp(r) \/ Abort(r)
    BY <1>2, <2>2
    DEF ReportWrite, CopyName, RemoveUser, ReportAppWrite, RetireApp, Abort, End, RequestsOk
  <2>3. CASE RenameWrite(r) \/ CloseReports(r) \/ (\E a \in Apps : Aggregate(r, a))
    BY <1>2, <2>3 DEF RenameWrite, CloseReports, Aggregate, RequestsOk, End
  <2>4. CASE DistinctApps(r)
    <3>1. job[r].kind = "deleteAccount" BY <1>2, <2>4 DEF DistinctApps, StepOk
    <3>2. {reviews[i].app : i \in Of(job[r].user)} \in SUBSET Apps
      BY DEF Of, Existing, Review, ReviewInv, ReviewTypeOK
    <3>3. job' = [job EXCEPT ![r] = [job[r] EXCEPT !.todo = {reviews[i].app : i \in Of(job[r].user)}]]
      BY <2>4 DEF DistinctApps
    <3>4. job'[r].kind = "deleteAccount"
      BY <1>2, <3>1, <3>2, <3>3, TodoChanges DEF Refreshing, RequestsOk
    <3>5. QED BY <3>4
  <2>5. QED BY <2>1, <2>2, <2>3, <2>4 DEF Writes
<1>4. \A q \in Requests : q # r => pc'[q] = pc[q] /\ job'[q] = job[q]
  BY OthersStay
<1>5. Busy' \subseteq Busy BY <1>1, <1>4 DEF Busy
<1>6. ASSUME NEW i, NEW p
      PROVE  Pending(i, p)' \subseteq Pending(i, p)
  BY <1>3, <1>4 DEF Pending, Writing
<1>7. ASSUME NEW a, NEW p
      PROVE  PendingApp(a, p)' \subseteq PendingApp(a, p)
  BY <1>3, <1>4 DEF PendingApp, Writing
<1>8. QED BY <1>5, <1>6, <1>7

PendingBounded == \A p \in Reporters :
  /\ \A i \in ReviewIds : Cardinality(Pending(i, p)) \in Nat /\ Cardinality(Pending(i, p)) <= MaxBusy
  /\ \A a \in Apps : Cardinality(PendingApp(a, p)) \in Nat /\ Cardinality(PendingApp(a, p)) <= MaxBusy

LEMMA PendingFew == Cardinality(Busy) <= MaxBusy => PendingBounded
<1> HAVE Cardinality(Busy) <= MaxBusy
<1>1. Busy \in SUBSET Requests BY DEF Busy
<1>2. ASSUME NEW i, NEW p
      PROVE  Pending(i, p) \in SUBSET Busy
  BY DEF Pending, Busy, Writing
<1>3. ASSUME NEW a, NEW p
      PROVE  PendingApp(a, p) \in SUBSET Busy
  BY DEF PendingApp, Busy, Writing
<1>4. ASSUME NEW U \in SUBSET Busy
      PROVE  Cardinality(U) \in Nat /\ Cardinality(U) <= MaxBusy
  BY <1>1, SubsetCounts, BusyAssumption
<1>5. QED BY <1>2, <1>3, <1>4 DEF PendingBounded

\* A written report is one that was pending.
LEMMA WritesReports ==
  ASSUME ReviewInv, ReportInv, NEW r \in Requests, Writes(r)
  PROVE  ReportInv'
<1>0. /\ RequestsOk /\ pc[r] # "idle" /\ job[r] \in Jobs
      /\ open \in [Apps -> [Reporters -> Nat]] /\ MaxBusy \in Nat
      /\ Busy \in SUBSET Requests
  BY WriterBusy, BusyAssumption DEF ReviewInv, ReviewTypeOK, RequestsOk, Busy
<1>1. /\ Busy' \in SUBSET Busy
      /\ \A i, p : Pending(i, p)' \in SUBSET Pending(i, p)
      /\ \A a, p : PendingApp(a, p)' \in SUBSET PendingApp(a, p)
  BY ReportsLeave
<1>2. (Cardinality(Busy) <= MaxBusy)'
  <2>1. Cardinality(Busy') \in Nat /\ Cardinality(Busy) \in Nat
        /\ Cardinality(Busy') <= Cardinality(Busy)
    BY <1>0, <1>1, SubsetCounts
  <2>2. QED BY <1>0, <2>1 DEF ReportInv
<1>3. ASSUME NEW p \in Reporters, NEW i \in ReviewIds, reviews'[i] # NoReview
      PROVE  (reviews[i].reports[p] + Cardinality(Pending(i, p)) <= MaxBusy)'
  <2> DEFINE n  == Cardinality(Pending(i, p))
             nn == Cardinality(Pending(i, p)')
  <2>1. ReviewStep(r, i) BY OneReview
  <2>2. Pending(i, p) \in SUBSET Requests BY DEF Pending
  <2>3. n \in Nat /\ nn \in Nat /\ nn <= n
    BY <1>1, <2>2, SubsetCounts
  <2>4. i \in Existing => /\ reviews[i] \in Review /\ reviews[i].reports \in [Reporters -> Nat]
                          /\ reviews[i].reports[p] \in Nat
                          /\ reviews[i].reports[p] + n <= MaxBusy
    BY DEF Existing, ReviewInv, ReviewTypeOK, ReportInv, Review
  <2>5. i \notin Existing => reviews[i] = NoReview
    BY DEF Existing
  <2>6. ASSUME i \in Existing, reviews'[i].reports[p] = reviews[i].reports[p]
        PROVE  reviews'[i].reports[p] + nn <= MaxBusy
    BY <1>0, <2>3, <2>4, <2>6
  <2>7. ASSUME reviews'[i].reports[p] = 0
        PROVE  reviews'[i].reports[p] + nn <= MaxBusy
    <3>1. n <= MaxBusy BY PendingFew DEF ReportInv, PendingBounded
    <3>2. QED BY <1>0, <2>3, <2>7, <3>1
  <2>8. CASE reviews'[i] = reviews[i] BY <1>3, <2>5, <2>6, <2>8
  <2>9. CASE Edited(r, i) BY <2>4, <2>6, <2>9 DEF Edited, On, Of, Review
  <2>10. CASE Signed(r, i) BY <2>4, <2>6, <2>10 DEF Signed, Of, Review
  <2>11. CASE Added(r, i) BY <2>7, <2>11 DEF Added
  <2>12. CASE Moderated(r, i)
    <3>1. reviews'[i].reports = [o \in Reporters |-> 0] BY <2>4, <2>12 DEF Moderated, Review
    <3>2. QED BY <2>7, <3>1
  <2>13. CASE Reported(r, i)
    <3>1. /\ i \in Existing /\ job[r].by \in Reporters /\ i = job[r].id
          /\ Writing(r, {"report"})
      BY <1>0, <2>13 DEF Reported, Writing, Jobs
    <3>2. reviews'[i].reports = [reviews[i].reports EXCEPT ![job[r].by] = @ + 1]
      BY <2>4, <2>13 DEF Reported, Review
    <3>3. CASE p # job[r].by BY <2>4, <2>6, <3>1, <3>2, <3>3
    <3>4. CASE p = job[r].by
      <4>1. reviews'[i].reports[p] = reviews[i].reports[p] + 1
        BY <2>4, <3>1, <3>2, <3>4
      <4>2. r \in Pending(i, p)
        BY <3>1, <3>4 DEF Pending
      <4>3. ReportWrite(r)
        BY <3>1
        DEF Writes, SaveWrite, DeleteWrite, ModerateWrite, RenameWrite, CopyName, DistinctApps,
            DeleteUserReviews, RemoveUser, ReportAppWrite, CloseReports, RetireApp, Aggregate,
            StoreRating, Writing
      <4>4. pc'[r] = "idle" BY <1>0, <4>3 DEF ReportWrite, End, RequestsOk
      <4>5. Pending(i, p)' \in SUBSET (Pending(i, p) \ {r})
        BY <1>1, <4>4 DEF Pending, Writing
      <4>6. nn + 1 <= n BY <2>2, <4>2, <4>5, OneLess
      <4>7. QED BY <1>0, <2>3, <2>4, <3>1, <4>1, <4>6
    <3>5. QED BY <3>3, <3>4
  <2>14. QED
    BY <1>3, <2>1, <2>8, <2>9, <2>10, <2>11, <2>12, <2>13 DEF ReviewStep, Removed
<1>4. ASSUME NEW p \in Reporters, NEW a \in Apps
      PROVE  (open[a][p] + Cardinality(PendingApp(a, p)) <= MaxBusy)'
  <2> DEFINE n  == Cardinality(PendingApp(a, p))
             nn == Cardinality(PendingApp(a, p)')
  <2>1. PendingApp(a, p) \in SUBSET Requests BY DEF PendingApp
  <2>2. /\ n \in Nat /\ nn \in Nat /\ nn <= n
        /\ open[a][p] \in Nat /\ open[a][p] + n <= MaxBusy
    BY <1>0, <1>1, <2>1, SubsetCounts DEF ReportInv
  <2>3. CASE ReportAppWrite(r) /\ job[r].app = a /\ job[r].by = p
    <3>1. open'[a][p] = open[a][p] + 1 BY <1>0, <2>3 DEF ReportAppWrite
    <3>2. r \in PendingApp(a, p) BY <2>3 DEF PendingApp, ReportAppWrite
    <3>3. pc'[r] = "idle" BY <1>0, <2>3 DEF ReportAppWrite, End, RequestsOk
    <3>4. PendingApp(a, p)' \in SUBSET (PendingApp(a, p) \ {r})
      BY <1>1, <3>3 DEF PendingApp, Writing
    <3>5. nn + 1 <= n BY <2>1, <3>2, <3>4, OneLess
    <3>6. QED BY <1>0, <2>2, <3>1, <3>5
  <2>4. CASE ReportAppWrite(r) /\ ~(job[r].app = a /\ job[r].by = p)
    <3>1. open'[a][p] = open[a][p] BY <1>0, <2>4 DEF ReportAppWrite
    <3>2. QED BY <1>0, <2>2, <3>1
  <2>5. CASE CloseReports(r)
    <3>1. open'[a][p] = open[a][p] \/ open'[a][p] = 0 BY <1>0, <2>5 DEF CloseReports
    <3>2. QED BY <1>0, <2>2, <3>1
  <2>6. CASE UNCHANGED open
    BY <1>0, <2>2, <2>6
  <2>7. QED
    BY <2>3, <2>4, <2>5, <2>6
    DEF Writes, SaveWrite, DeleteWrite, ModerateWrite, ReportWrite, RenameWrite, CopyName,
        DistinctApps, DeleteUserReviews, RemoveUser, RetireApp, Aggregate, StoreRating, documentVars
<1>5. QED BY <1>2, <1>3, <1>4 DEF ReportInv, Existing

\* A report starts where its reporter has none.
LEMMA ReportStarts ==
  ASSUME ReviewInv, NEW r \in Requests, Reads(r)
  PROVE  /\ job'[r].kind = "report" => reviews[job'[r].id].reports[job'[r].by] = 0
         /\ job'[r].kind = "reportApp" => open[job'[r].app][job'[r].by] = 0
<1>1. job \in [Requests -> Jobs \cup {NoJob}] BY DEF ReviewInv, RequestsOk
<1>2. ASSUME NEW i \in ReviewIds, NEW p \in Reporters, ReportReview(r, i, p)
      PROVE  /\ job'[r].kind = "report" /\ job'[r].id = i /\ job'[r].by = p
             /\ reviews[i].reports[p] = 0
  BY <1>1, <1>2 DEF ReportReview, Start
<1>3. ASSUME NEW a \in Apps, NEW p \in Reporters, ReportApp(r, a, p)
      PROVE  /\ job'[r].kind = "reportApp" /\ job'[r].app = a /\ job'[r].by = p
             /\ open[a][p] = 0
  BY <1>1, <1>3 DEF ReportApp, Start
<1>4. ASSUME NEW at, NEW j, j.kind \notin {"report", "reportApp"}, Start(r, at, j)
      PROVE  job'[r].kind \notin {"report", "reportApp"}
  BY <1>1, <1>4 DEF Start
<1>5. ASSUME NEW u \in Users,
             \/ \E a \in Apps : DeleteMyReview(r, u, a) \/ \E s \in Stars : SaveMyReview(r, u, a, s)
             \/ \E n \in Names \cup {Blank} : UpdateMe(r, u, n)
             \/ DeleteAccount(r, u)
      PROVE  job'[r].kind \notin {"report", "reportApp"}
  <2>1. ASSUME NEW a \in Apps, DeleteMyReview(r, u, a)
        PROVE  job'[r].kind \notin {"report", "reportApp"}
    BY <1>4, <2>1 DEF DeleteMyReview
  <2>2. ASSUME NEW a \in Apps, NEW s \in Stars, SaveMyReview(r, u, a, s)
        PROVE  job'[r].kind \notin {"report", "reportApp"}
    BY <1>4, <2>2 DEF SaveMyReview
  <2>3. ASSUME NEW n \in Names \cup {Blank}, UpdateMe(r, u, n)
        PROVE  job'[r].kind \notin {"report", "reportApp"}
    BY <1>4, <2>3 DEF UpdateMe
  <2>4. CASE DeleteAccount(r, u) BY <1>4, <2>4 DEF DeleteAccount
  <2>5. QED BY <1>5, <2>1, <2>2, <2>3, <2>4
<1>6. ASSUME NEW i \in ReviewIds, NEW kind \in {"hide", "restore"}, ModerateReview(r, i, kind)
      PROVE  job'[r].kind \notin {"report", "reportApp"}
  BY <1>4, <1>6 DEF ModerateReview
<1>7. ASSUME NEW a \in Apps, NEW unpublish \in BOOLEAN, ResolveReport(r, a, unpublish)
      PROVE  job'[r].kind \notin {"report", "reportApp"}
  BY <1>4, <1>7 DEF ResolveReport
<1>8. QED BY <1>2, <1>3, <1>5, <1>6, <1>7 DEF Reads

\* A request that starts may add one pending report, where there is none yet.
LEMMA ReadsReports ==
  ASSUME ReviewInv, ReportInv, NEW r \in Requests, Reads(r)
  PROVE  ReportInv'
<1>1. PICK at \in {"write", "distinct"}, j \in Jobs : Start(r, at, j)
  BY ReadsStart
<1>2. /\ pc[r] = "idle" /\ Cardinality(Busy) < MaxBusy
      /\ UNCHANGED documentVars /\ MaxBusy \in Nat
  BY <1>1, BusyAssumption DEF Start, Busy
<1>3. (Cardinality(Busy) <= MaxBusy)'
  <2>1. Busy' \in SUBSET (Busy \cup {r}) /\ Busy \in SUBSET Requests /\ Busy \cup {r} \in SUBSET Requests
    BY OthersStay DEF Busy
  <2>2. /\ Cardinality(Busy') \in Nat /\ Cardinality(Busy) \in Nat
        /\ Cardinality(Busy') <= Cardinality(Busy \cup {r})
        /\ Cardinality(Busy \cup {r}) \in Nat
        /\ Cardinality(Busy \cup {r}) <= Cardinality(Busy) + 1
    BY <2>1, SubsetCounts, OneMore
  <2>3. QED BY <1>2, <2>2
<1>4. PendingBounded'
  BY <1>3, PendingFew, PTL
<1>5. /\ \A q \in Requests : q # r => pc'[q] = pc[q] /\ job'[q] = job[q]
      /\ pc'[r] = at /\ job'[r] = j
  BY <1>1, OthersStay DEF Start, ReviewInv, RequestsOk
<1>6. ASSUME NEW p \in Reporters, NEW i \in Existing
      PROVE  reviews[i].reports[p] + Cardinality(Pending(i, p)') <= MaxBusy
  <2> DEFINE n  == Cardinality(Pending(i, p))
             nn == Cardinality(Pending(i, p)')
  <2>1. /\ Pending(i, p) \in SUBSET Requests /\ n \in Nat /\ nn \in Nat /\ nn <= MaxBusy
        /\ reviews[i].reports[p] \in Nat /\ reviews[i].reports[p] + n <= MaxBusy
    <3>1. Pending(i, p) \in SUBSET Requests BY DEF Pending
    <3>2. n \in Nat BY <3>1, SubsetCounts
    <3>3. nn \in Nat /\ nn <= MaxBusy BY <1>4 DEF PendingBounded, Existing
    <3>4. reviews[i].reports \in [Reporters -> Nat]
      BY DEF Existing, ReviewInv, ReviewTypeOK, Review
    <3>5. QED BY <3>1, <3>2, <3>3, <3>4 DEF ReportInv
  <2>2. CASE r \in Pending(i, p)'
    <3>1. at = "write" /\ j.kind = "report" /\ j.id = i /\ j.by = p
      BY <1>5, <2>2 DEF Pending, Writing
    <3>2. reviews[i].reports[p] = 0 BY <3>1, <1>5, ReportStarts
    <3>3. QED BY <1>2, <2>1, <3>2
  <2>3. CASE r \notin Pending(i, p)'
    <3>1. Pending(i, p)' \in SUBSET Pending(i, p) BY <1>5, <2>3 DEF Pending, Writing
    <3>2. nn <= n BY <2>1, <3>1, SubsetCounts
    <3>3. QED BY <1>2, <2>1, <3>2
  <2>4. QED BY <2>2, <2>3
<1>7. ASSUME NEW p \in Reporters, NEW a \in Apps
      PROVE  open[a][p] + Cardinality(PendingApp(a, p)') <= MaxBusy
  <2> DEFINE n  == Cardinality(PendingApp(a, p))
             nn == Cardinality(PendingApp(a, p)')
  <2>1. /\ PendingApp(a, p) \in SUBSET Requests /\ n \in Nat /\ nn \in Nat /\ nn <= MaxBusy
        /\ open[a][p] \in Nat /\ open[a][p] + n <= MaxBusy
    <3>1. PendingApp(a, p) \in SUBSET Requests BY DEF PendingApp
    <3>2. n \in Nat BY <3>1, SubsetCounts
    <3>3. nn \in Nat /\ nn <= MaxBusy BY <1>4 DEF PendingBounded
    <3>4. open[a][p] \in Nat
      BY DEF ReviewInv, ReviewTypeOK
    <3>5. QED BY <3>1, <3>2, <3>3, <3>4 DEF ReportInv
  <2>2. CASE r \in PendingApp(a, p)'
    <3>1. at = "write" /\ j.kind = "reportApp" /\ j.app = a /\ j.by = p
      BY <1>5, <2>2 DEF PendingApp, Writing
    <3>2. open[a][p] = 0 BY <3>1, <1>5, ReportStarts
    <3>3. QED BY <1>2, <2>1, <3>2
  <2>3. CASE r \notin PendingApp(a, p)'
    <3>1. PendingApp(a, p)' \in SUBSET PendingApp(a, p) BY <1>5, <2>3 DEF PendingApp, Writing
    <3>2. nn <= n BY <2>1, <3>1, SubsetCounts
    <3>3. QED BY <1>2, <2>1, <3>2
  <2>4. QED BY <2>2, <2>3
<1>8. Existing' = Existing /\ reviews' = reviews /\ open' = open
  BY <1>2 DEF documentVars, Existing
<1>9. QED
  BY <1>3, <1>6, <1>7, <1>8 DEF ReportInv

LEMMA AbortReports ==
  ASSUME ReviewInv, ReportInv, NEW r \in Requests, Abort(r)
  PROVE  ReportInv'
<1>1. /\ Busy' \in SUBSET Busy
      /\ \A i, p : Pending(i, p)' \in SUBSET Pending(i, p)
      /\ \A a, p : PendingApp(a, p)' \in SUBSET PendingApp(a, p)
  BY ReportsLeave
<1>2. UNCHANGED documentVars /\ MaxBusy \in Nat BY BusyAssumption DEF Abort
<1>3. (Cardinality(Busy) <= MaxBusy)'
  <2>1. Busy \in SUBSET Requests BY DEF Busy
  <2>2. Cardinality(Busy') \in Nat /\ Cardinality(Busy) \in Nat
        /\ Cardinality(Busy') <= Cardinality(Busy)
    BY <1>1, <2>1, SubsetCounts
  <2>3. QED BY <1>2, <2>2 DEF ReportInv
<1>4. ASSUME NEW p \in Reporters, NEW i \in Existing
      PROVE  reviews[i].reports[p] + Cardinality(Pending(i, p)') <= MaxBusy
  <2>1. Pending(i, p) \in SUBSET Requests BY DEF Pending
  <2>2. reviews[i].reports[p] \in Nat
    BY DEF Existing, ReviewInv, ReviewTypeOK, Review
  <2>3. /\ Cardinality(Pending(i, p)') \in Nat /\ Cardinality(Pending(i, p)) \in Nat
        /\ Cardinality(Pending(i, p)') <= Cardinality(Pending(i, p))
    BY <1>1, <2>1, SubsetCounts
  <2>4. QED BY <1>2, <2>2, <2>3 DEF ReportInv
<1>5. ASSUME NEW p \in Reporters, NEW a \in Apps
      PROVE  open[a][p] + Cardinality(PendingApp(a, p)') <= MaxBusy
  <2>1. PendingApp(a, p) \in SUBSET Requests BY DEF PendingApp
  <2>2. open[a][p] \in Nat
    BY DEF ReviewInv, ReviewTypeOK
  <2>3. /\ Cardinality(PendingApp(a, p)') \in Nat /\ Cardinality(PendingApp(a, p)) \in Nat
        /\ Cardinality(PendingApp(a, p)') <= Cardinality(PendingApp(a, p))
    BY <1>1, <2>1, SubsetCounts
  <2>4. QED BY <1>2, <2>2, <2>3 DEF ReportInv
<1>6. Existing' = Existing /\ reviews' = reviews /\ open' = open
  BY <1>2 DEF documentVars, Existing
<1>7. QED BY <1>3, <1>4, <1>5, <1>6 DEF ReportInv

LEMMA ReportFrame ==
  ASSUME ReportInv, UNCHANGED <<reviews, open, pc, job>>
  PROVE  ReportInv'
BY DEF ReportInv, Busy, Pending, PendingApp, Writing, Existing

LEMMA ReportsAlways == ReviewSpec => []ReportInv
<1>1. ReviewInit => ReportInv
  <2> HAVE ReviewInit
  <2>1. Busy = {} /\ Existing = {} BY DEF ReviewInit, Busy, Existing
  <2>2. ASSUME NEW a \in Apps, NEW p \in Reporters
        PROVE  PendingApp(a, p) = {} /\ open[a][p] = 0
    BY DEF ReviewInit, PendingApp, Writing
  <2>3. Cardinality({}) = 0 /\ 0 + 0 <= MaxBusy BY FS_EmptySet, BusyAssumption
  <2>4. QED BY <2>1, <2>2, <2>3, BusyAssumption DEF ReportInv
<1>2. ReviewInv /\ ReportInv /\ [ReviewNext]_reviewVars => ReportInv'
  <2> SUFFICES ASSUME ReviewInv, ReportInv, [ReviewNext]_reviewVars
               PROVE  ReportInv'
    OBVIOUS
  <2>1. ASSUME NEW a \in Apps, AppVisibility(a)
        PROVE  ReportInv'
    BY <2>1, ReportFrame DEF AppVisibility
  <2>2. ASSUME NEW u \in Users, NEW n \in Names \cup {Blank}, Register(u, n)
        PROVE  ReportInv'
    BY <2>2, ReportFrame DEF Register
  <2>3. CASE UNCHANGED reviewVars
    BY <2>3, ReportFrame DEF reviewVars, documentVars
  <2>4. QED
    BY <2>1, <2>2, <2>3, ReadsReports, WritesReports, AbortReports DEF ReviewNext
<1>3. QED BY <1>1, <1>2, TypesAlways, PTL DEF ReviewSpec

(***************************************************************************)
(* A reporter counts once for a review or an app, or as often as its       *)
(* requests overlap: each checks that the reporter has no report yet, and  *)
(* adds one later, so what bounds the count is the number of requests at   *)
(* the same time.                                                          *)
(***************************************************************************)
THEOREM ReportsBounded == ReviewSpec => []ReportedOnce
<1>1. ReviewInv /\ ReportInv => ReportedOnce
  <2> SUFFICES ASSUME ReviewInv, ReportInv PROVE ReportedOnce
    OBVIOUS
  <2>1. ASSUME NEW p \in Reporters, NEW i \in Existing
        PROVE  reviews[i].reports[p] <= MaxBusy
    <3>1. reviews[i].reports[p] \in Nat
      BY DEF Existing, ReviewInv, ReviewTypeOK, Review
    <3>2. Pending(i, p) \in SUBSET Requests BY DEF Pending
    <3>3. Cardinality(Pending(i, p)) \in Nat BY <3>2, SubsetCounts
    <3>4. QED BY <3>1, <3>3, BusyAssumption DEF ReportInv
  <2>2. ASSUME NEW p \in Reporters, NEW a \in Apps
        PROVE  open[a][p] <= MaxBusy
    <3>1. open[a][p] \in Nat
      BY DEF ReviewInv, ReviewTypeOK
    <3>2. PendingApp(a, p) \in SUBSET Requests BY DEF PendingApp
    <3>3. Cardinality(PendingApp(a, p)) \in Nat BY <3>2, SubsetCounts
    <3>4. QED BY <3>1, <3>3, BusyAssumption DEF ReportInv
  <2>3. QED BY <2>1, <2>2 DEF ReportedOnce
<1>2. QED BY <1>1, TypesAlways, ReportsAlways, PTL

(***************************************************************************)
(* A deleted account leaves no review, wherever an earlier attempt to      *)
(* delete it stopped, as long as its deletion overlaps no review of the    *)
(* same account (a review saved while its account is deleted stays).       *)
(***************************************************************************)
THEOREM DeletionApart == ReviewSpec /\ []AccountsApart => []NoOrphanReview
<1>1. ReviewInv /\ AccountInv /\ ReportedOnce => NoOrphanReview
  BY DEF ReviewInv, AccountInv, Owned, NoOrphanReview
<1>2. QED BY <1>1, TypesAlways, AccountsAlways, ReportsBounded, PTL

-----------------------------------------------------------------------------
(***************************************************************************)
(* One request at a time, as in the run: nothing overlaps.                 *)
(***************************************************************************)

LEMMA AloneApart == OneAtATime => AccountsApart /\ AppsApart
BY DEF OneAtATime, AccountsApart, AppsApart

LEMMA AloneAlways ==
  ASSUME MaxBusy = 1
  PROVE  ReviewSpec => []OneAtATime
<1>1. ReviewInv /\ ReportInv => OneAtATime
  <2> SUFFICES ASSUME ReportInv, NEW q \in Requests, NEW r \in Requests,
                      pc[q] # "idle", pc[r] # "idle", q # r
               PROVE  FALSE
    BY DEF OneAtATime
  <2>1. {q, r} \in SUBSET Busy /\ Busy \in SUBSET Requests BY DEF Busy
  <2>2. r \in Busy /\ {q} \in SUBSET (Busy \ {r}) BY DEF Busy
  <2>3. Cardinality({q}) = 1 BY FS_Singleton
  <2>4. Cardinality(Busy) \in Nat /\ Cardinality({q}) + 1 <= Cardinality(Busy)
    BY <2>1, <2>2, OneLess
  <2>5. QED BY <2>3, <2>4 DEF ReportInv
<1>2. QED BY <1>1, TypesAlways, ReportsAlways, PTL

(***************************************************************************)
(* The rating that an app shows is that of its visible reviews whenever no *)
(* request is running, when requests do not overlap.                       *)
(***************************************************************************)
THEOREM RatingsExact ==
  ASSUME MaxBusy = 1
  PROVE  ReviewSpec => []RatingFresh
BY AloneApart, AloneAlways, RatingsApart, PTL

(***************************************************************************)
(* Reviews are signed with the name their author has now, when requests do *)
(* not overlap.                                                            *)
(***************************************************************************)
THEOREM NamesExact ==
  ASSUME MaxBusy = 1
  PROVE  ReviewSpec => []NamesCurrent
BY AloneApart, AloneAlways, NamesApart, PTL

(***************************************************************************)
(* A deleted account leaves no review, and a reporter counts once, when    *)
(* requests do not overlap.                                                *)
(***************************************************************************)
THEOREM DeletionComplete ==
  ASSUME MaxBusy = 1
  PROVE  ReviewSpec => []NoOrphanReview
BY AloneApart, AloneAlways, DeletionApart, PTL
=============================================================================
