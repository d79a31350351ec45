------------------------------- MODULE Reviews -------------------------------
(***************************************************************************)
(* Ratings, reviews and reports: the users' reviews, the rating that the   *)
(* app document keeps of the visible ones, the public name copied from the *)
(* account on each review, the moderation by the platform admin, and the   *)
(* deletion of an account.                                                 *)
(*                                                                         *)
(* A handler reads what it needs, writes the review, then refresh_rating   *)
(* aggregates the visible reviews and stores the result on the app: three  *)
(* steps with an await between each.                                       *)
(*                                                                         *)
(*   pc: idle -> [distinct ->] write -> [copy | close ->]                  *)
(*       [aggregate -> store ->]* [remove ->] idle                         *)
(***************************************************************************)
EXTENDS FiniteSets, Integers

CONSTANTS
  Apps, Users,
  Reporters,   \* accounts, or fingerprints of an IP address
  Stars,       \* ratings in use
  Names,       \* public names a user can choose
  ReviewIds,   \* identifiers of reviews, never reused
  Requests,    \* slots for requests handled at the same time
  NoReview, NoJob, NoRows, Blank,
  MaxBusy,     \* bound: requests handled at the same time
  MayAbort     \* a handler may end before its last step

ASSUME NamesAssumption == Blank \notin Names
ASSUME BusyAssumption == MaxBusy \in Nat
ASSUME FiniteAssumption == IsFiniteSet(ReviewIds) /\ IsFiniteSet(Requests)

VARIABLES
  users,       \* accounts that exist
  name,        \* name of each account, Blank if none
  online,      \* apps that the clients see
  reviews,     \* review documents
  rating,      \* distribution stored on each app
  open,        \* open app reports, per app and reporter
  closed,      \* apps that have a closed report
  pc, job,     \* step of each request, and what it is doing
  rows,        \* what its aggregation returned
  used,        \* history: identifiers given so far
  stale,       \* history: apps whose refresh a request owed when it ended
  halfNamed    \* history: accounts whose name was not copied everywhere

documentVars == <<users, name, online, reviews, rating, open, closed>>
historyVars  == <<used, stale, halfNamed>>
reviewVars   == <<documentVars, pc, job, rows, historyVars>>

\* display_name: the chosen name, or else a part of the e-mail address.
Own(u) == <<"e-mail", u>>
DisplayName(u) == IF name[u] = Blank THEN Own(u) ELSE name[u]
Authors == Names \cup {Blank} \cup {Own(u) : u \in Users}

Review == [app : Apps, user : Users, stars : Stars, author : Authors,
           hidden : BOOLEAN, reports : [Reporters -> Nat]]

Counts == [Stars -> 0..Cardinality(ReviewIds)]
Rows   == [app : Apps, counts : Counts]

\* What a request has to do, and the apps whose rating it will refresh.
Jobs ==
  [kind : {"save"}, user : Users, app : Apps, stars : Stars, author : Authors,
   todo : SUBSET Apps]
  \cup [kind : {"delete"}, user : Users, app : Apps, todo : SUBSET Apps]
  \cup [kind : {"hide", "restore"}, id : ReviewIds, todo : SUBSET Apps]
  \cup [kind : {"report"}, id : ReviewIds, by : Reporters, todo : {{}}]
  \cup [kind : {"rename"}, user : Users, name : Names \cup {Blank}, todo : {{}}]
  \cup [kind : {"deleteAccount"}, user : Users, todo : SUBSET Apps]
  \cup [kind : {"reportApp"}, app : Apps, by : Reporters, todo : {{}}]
  \cup [kind : {"resolve", "unpublish"}, app : Apps, todo : {{}}]

ASSUME NoneAssumption == NoReview \notin Review /\ NoJob \notin Jobs /\ NoRows \notin Rows

Existing == {i \in ReviewIds : reviews[i] # NoReview}
Of(u)    == {i \in Existing : reviews[i].user = u}
On(a, u) == {i \in Of(u) : reviews[i].app = a}

Distribution(a) ==
  [s \in Stars |->
     Cardinality({i \in Existing : /\ reviews[i].app = a /\ reviews[i].stars = s
                                   /\ ~reviews[i].hidden})]

ReviewTypeOK ==
  /\ users \in SUBSET Users
  /\ name \in [Users -> Names \cup {Blank}]
  /\ online \in SUBSET Apps
  /\ reviews \in [ReviewIds -> Review \cup {NoReview}]
  /\ rating \in [Apps -> Counts]
  /\ open \in [Apps -> [Reporters -> Nat]]
  /\ closed \in SUBSET Apps
  /\ pc \in [Requests -> {"idle", "distinct", "write", "copy", "close",
                          "aggregate", "store", "remove"}]
  /\ job \in [Requests -> Jobs \cup {NoJob}]
  /\ \A r \in Requests : pc[r] = "idle" <=> job[r] = NoJob
  /\ rows \in [Requests -> Rows \cup {NoRows}]
  /\ Existing \subseteq used

ReviewInit ==
  /\ users = {}
  /\ name = [u \in Users |-> Blank]
  /\ online = Apps
  /\ reviews = [i \in ReviewIds |-> NoReview]
  /\ rating = [a \in Apps |-> [s \in Stars |-> 0]]
  /\ open = [a \in Apps |-> [p \in Reporters |-> 0]]
  /\ closed = {}
  /\ pc = [r \in Requests |-> "idle"]
  /\ job = [r \in Requests |-> NoJob]
  /\ rows = [r \in Requests |-> NoRows]
  /\ used = {} /\ stale = {} /\ halfNamed = {}

-----------------------------------------------------------------------------
(***************************************************************************)
(* Reading half: what each request decides on.                             *)
(***************************************************************************)

Start(r, at, j) ==
  /\ pc[r] = "idle"
  /\ Cardinality({q \in Requests : pc[q] # "idle"}) < MaxBusy
  /\ pc' = [pc EXCEPT ![r] = at]
  /\ job' = [job EXCEPT ![r] = j]
  /\ UNCHANGED <<documentVars, rows, historyVars>>

\* todo: the apps whose rating the handler will refresh.
SaveMyReview(r, u, a, s) ==
  /\ u \in users /\ a \in online
  /\ Start(r, "write", [kind |-> "save", user |-> u, app |-> a, stars |-> s,
                        author |-> DisplayName(u), todo |-> {a}])

DeleteMyReview(r, u, a) ==
  /\ u \in users
  /\ Start(r, "write", [kind |-> "delete", user |-> u, app |-> a, todo |-> {a}])

\* Mutant of ModerateReview: only hiding refreshes the rating.
ModerateNoRefresh(r, i, kind) ==
  /\ i \in Existing
  /\ Start(r, "write", [kind |-> kind, id |-> i,
                        todo |-> IF kind = "hide" THEN {reviews[i].app} ELSE {}])

\* hide_review and restore_review.
ModerateReview(r, i, kind) ==
  /\ i \in Existing
  /\ Start(r, "write", [kind |-> kind, id |-> i, todo |-> {reviews[i].app}])

ReportReview(r, i, p) ==
  /\ i \in Existing
  /\ reviews[i].reports[p] = 0
  /\ Start(r, "write", [kind |-> "report", id |-> i, by |-> p, todo |-> {}])

UpdateMe(r, u, n) ==
  /\ u \in users
  /\ Start(r, "write", [kind |-> "rename", user |-> u, name |-> n, todo |-> {}])

DeleteAccount(r, u) ==
  /\ u \in users
  /\ Start(r, "distinct", [kind |-> "deleteAccount", user |-> u, todo |-> {}])

ReportApp(r, a, p) ==
  /\ a \in online
  /\ open[a][p] = 0
  /\ Start(r, "write", [kind |-> "reportApp", app |-> a, by |-> p, todo |-> {}])

ResolveReport(r, a, unpublish) ==
  /\ a \in closed \/ \E p \in Reporters : open[a][p] > 0
  /\ Start(r, "write",
           [kind |-> IF unpublish /\ a \in online THEN "unpublish" ELSE "resolve",
            app |-> a, todo |-> {}])

Reads(r) ==
  \/ \E u \in Users :
       \/ \E a \in Apps : DeleteMyReview(r, u, a) \/ \E s \in Stars : SaveMyReview(r, u, a, s)
       \/ \E n \in Names \cup {Blank} : UpdateMe(r, u, n)
       \/ DeleteAccount(r, u)
  \/ \E i \in ReviewIds :
       \/ \E kind \in {"hide", "restore"} : ModerateReview(r, i, kind)
       \/ \E p \in Reporters : ReportReview(r, i, p)
  \/ \E a \in Apps :
       \/ \E p \in Reporters : ReportApp(r, a, p)
       \/ \E unpublish \in BOOLEAN : ResolveReport(r, a, unpublish)

-----------------------------------------------------------------------------
(***************************************************************************)
(* Writing half.                                                           *)
(***************************************************************************)

End(r) ==
  /\ pc' = [pc EXCEPT ![r] = "idle"]
  /\ job' = [job EXCEPT ![r] = NoJob]
  /\ rows' = [rows EXCEPT ![r] = NoRows]

\* To the refresh of the apps left, to the removal of the account, or to the end.
Proceed(r, todo) ==
  IF todo = {} /\ job[r].kind # "deleteAccount"
  THEN End(r)
  ELSE /\ pc' = [pc EXCEPT ![r] = IF todo = {} THEN "remove" ELSE "aggregate"]
       /\ job' = [job EXCEPT ![r].todo = todo]
       /\ rows' = [rows EXCEPT ![r] = NoRows]

Writing(r, kinds) == pc[r] = "write" /\ job[r].kind \in kinds

\* Mutant of SaveWrite: the whole review is replaced.
SaveWriteReplaces(r) ==
  /\ Writing(r, {"save"})
  /\ LET j == job[r]
         new == [app |-> j.app, user |-> j.user, stars |-> j.stars, author |-> j.author,
                 hidden |-> FALSE, reports |-> [p \in Reporters |-> 0]]
     IN \/ \E i \in On(j.app, j.user) :
             reviews' = [reviews EXCEPT ![i] = new] /\ UNCHANGED used
        \/ /\ On(j.app, j.user) = {}
           /\ \E i \in ReviewIds \ used :
                reviews' = [reviews EXCEPT ![i] = new] /\ used' = used \cup {i}
  /\ Proceed(r, job[r].todo)
  /\ UNCHANGED <<users, name, online, rating, open, closed, stale, halfNamed>>

\* Upsert on (app, user), with a unique index: hidden and reports are not set.
SaveWrite(r) ==
  /\ Writing(r, {"save"})
  /\ LET j == job[r]
     IN \/ \E i \in On(j.app, j.user) :
             /\ reviews' = [reviews EXCEPT ![i].stars = j.stars, ![i].author = j.author]
             /\ UNCHANGED used
        \/ /\ On(j.app, j.user) = {}
           /\ \E i \in ReviewIds \ used :
                /\ reviews' = [reviews EXCEPT ![i] =
                     [app |-> j.app, user |-> j.user, stars |-> j.stars, author |-> j.author,
                      hidden |-> FALSE, reports |-> [p \in Reporters |-> 0]]]
                /\ used' = used \cup {i}
  /\ Proceed(r, job[r].todo)
  /\ UNCHANGED <<users, name, online, rating, open, closed, stale, halfNamed>>

DeleteReviews(ids) == reviews' = [i \in ReviewIds |-> IF i \in ids THEN NoReview ELSE reviews[i]]

DeleteWrite(r) ==
  /\ Writing(r, {"delete"})
  /\ DeleteReviews(On(job[r].app, job[r].user))
  /\ Proceed(r, job[r].todo)
  /\ UNCHANGED <<users, name, online, rating, open, closed, historyVars>>

\* By identifier: nothing happens to a review deleted since, nor to its successor.
ModerateWrite(r) ==
  /\ Writing(r, {"hide", "restore"})
  /\ LET i == job[r].id
     IN reviews' = IF i \in Existing
                   THEN [reviews EXCEPT ![i].hidden = (job[r].kind = "hide"),
                                        ![i].reports = [p \in Reporters |-> 0]]
                   ELSE reviews
  /\ Proceed(r, job[r].todo)
  /\ UNCHANGED <<users, name, online, rating, open, closed, historyVars>>

ReportWrite(r) ==
  /\ Writing(r, {"report"})
  /\ LET i == job[r].id
     IN reviews' = IF i \in Existing
                   THEN [reviews EXCEPT ![i].reports[job[r].by] = @ + 1]
                   ELSE reviews
  /\ End(r)
  /\ UNCHANGED <<users, name, online, rating, open, closed, historyVars>>

\* update_me: the account, ...
RenameWrite(r) ==
  /\ Writing(r, {"rename"})
  /\ name' = IF job[r].user \in users THEN [name EXCEPT ![job[r].user] = job[r].name] ELSE name
  /\ pc' = [pc EXCEPT ![r] = "copy"]
  /\ UNCHANGED <<users, online, reviews, rating, open, closed, job, rows, historyVars>>

\* Mutant of CopyName: hidden reviews keep the old name.
CopyNameVisible(r) ==
  /\ pc[r] = "copy"
  /\ LET u == job[r].user
     IN /\ reviews' = [i \in ReviewIds |->
                         IF i \in Of(u) /\ ~reviews[i].hidden
                         THEN [reviews[i] EXCEPT !.author = job[r].name] ELSE reviews[i]]
        /\ halfNamed' = halfNamed \ {u}
  /\ End(r)
  /\ UNCHANGED <<users, name, online, rating, open, closed, used, stale>>

\* ... then the name as it was typed on every review, Blank included.
CopyName(r) ==
  /\ pc[r] = "copy"
  /\ LET u == job[r].user
     IN /\ reviews' = [i \in ReviewIds |->
                         IF i \in Of(u) THEN [reviews[i] EXCEPT !.author = job[r].name]
                         ELSE reviews[i]]
        /\ halfNamed' = halfNamed \ {u}
  /\ End(r)
  /\ UNCHANGED <<users, name, online, rating, open, closed, used, stale>>

\* delete_account: the apps it has reviewed, ...
DistinctApps(r) ==
  /\ pc[r] = "distinct"
  /\ job' = [job EXCEPT ![r].todo = {reviews[i].app : i \in Of(job[r].user)}]
  /\ pc' = [pc EXCEPT ![r] = "write"]
  /\ UNCHANGED <<documentVars, rows, historyVars>>

\* Mutant of DeleteUserReviews: hidden reviews are left.
DeleteVisibleReviews(r) ==
  /\ Writing(r, {"deleteAccount"})
  /\ DeleteReviews({i \in Of(job[r].user) : ~reviews[i].hidden})
  /\ Proceed(r, job[r].todo)
  /\ UNCHANGED <<users, name, online, rating, open, closed, historyVars>>

\* ... its reviews, then the ratings one by one, ...
DeleteUserReviews(r) ==
  /\ Writing(r, {"deleteAccount"})
  /\ DeleteReviews(Of(job[r].user))
  /\ Proceed(r, job[r].todo)
  /\ UNCHANGED <<users, name, online, rating, open, closed, historyVars>>

\* ... and the account last.
RemoveUser(r) ==
  /\ pc[r] = "remove"
  /\ users' = users \ {job[r].user}
  /\ name' = [name EXCEPT ![job[r].user] = Blank]
  /\ End(r)
  /\ UNCHANGED <<online, reviews, rating, open, closed, historyVars>>

ReportAppWrite(r) ==
  /\ Writing(r, {"reportApp"})
  /\ open' = [open EXCEPT ![job[r].app][job[r].by] = @ + 1]
  /\ End(r)
  /\ UNCHANGED <<users, name, online, reviews, rating, closed, historyVars>>

\* Every open report of the app is closed, then the app may be retired.
CloseReports(r) ==
  /\ Writing(r, {"resolve", "unpublish"})
  /\ open' = [open EXCEPT ![job[r].app] = [p \in Reporters |-> 0]]
  /\ closed' = closed \cup {job[r].app}
  /\ IF job[r].kind = "unpublish"
     THEN pc' = [pc EXCEPT ![r] = "close"] /\ UNCHANGED <<job, rows>>
     ELSE End(r)
  /\ UNCHANGED <<users, name, online, reviews, rating, historyVars>>

RetireApp(r) ==
  /\ pc[r] = "close"
  /\ online' = online \ {job[r].app}
  /\ End(r)
  /\ UNCHANGED <<users, name, reviews, rating, open, closed, historyVars>>

-----------------------------------------------------------------------------
(***************************************************************************)
(* refresh_rating.                                                         *)
(***************************************************************************)

Aggregate(r, a) ==
  /\ pc[r] = "aggregate" /\ a \in job[r].todo
  /\ rows' = [rows EXCEPT ![r] = [app |-> a, counts |-> Distribution(a)]]
  /\ pc' = [pc EXCEPT ![r] = "store"]
  /\ UNCHANGED <<documentVars, job, historyVars>>

StoreRating(r) ==
  /\ pc[r] = "store"
  /\ LET a == rows[r].app
     IN /\ rating' = [rating EXCEPT ![a] = rows[r].counts]
        /\ stale' = stale \ {a}
        /\ Proceed(r, job[r].todo \ {a})
  /\ UNCHANGED <<users, name, online, reviews, open, closed, used, halfNamed>>

Writes(r) ==
  \/ SaveWrite(r) \/ DeleteWrite(r) \/ ModerateWrite(r) \/ ReportWrite(r)
  \/ RenameWrite(r) \/ CopyName(r)
  \/ DistinctApps(r) \/ DeleteUserReviews(r) \/ RemoveUser(r)
  \/ ReportAppWrite(r) \/ CloseReports(r) \/ RetireApp(r)
  \/ (\E a \in Apps : Aggregate(r, a)) \/ StoreRating(r)

\* An exception or a stop of the process ends the handler here.
Abort(r) ==
  /\ MayAbort
  /\ pc[r] # "idle"
  /\ stale' = IF pc[r] \in {"aggregate", "store"} THEN stale \cup job[r].todo ELSE stale
  /\ halfNamed' = IF pc[r] = "copy" THEN halfNamed \cup {job[r].user} ELSE halfNamed
  /\ End(r)
  /\ UNCHANGED <<documentVars, used>>

\* register: a new account.  An identifier stands for a new one when nothing
\* refers to it any more.
Register(u, n) ==
  /\ u \notin users /\ Of(u) = {}
  /\ \A r \in Requests : job[r] # NoJob /\ job[r].kind \in {"save", "delete", "rename", "deleteAccount"}
                          => job[r].user # u
  /\ users' = users \cup {u}
  /\ name' = [name EXCEPT ![u] = n]
  /\ halfNamed' = halfNamed \ {u}
  /\ UNCHANGED <<online, reviews, rating, open, closed, pc, job, rows, used, stale>>

\* The app is published or retired by the console (Listing models it).
AppVisibility(a) ==
  /\ online' = IF a \in online THEN online \ {a} ELSE online \cup {a}
  /\ UNCHANGED <<users, name, reviews, rating, open, closed, pc, job, rows, historyVars>>

ReviewNext ==
  \/ \E r \in Requests : Reads(r) \/ Writes(r) \/ Abort(r)
  \/ \E a \in Apps : AppVisibility(a)
  \/ \E u \in Users, n \in Names \cup {Blank} : Register(u, n)

ReviewSpec == ReviewInit /\ [][ReviewNext]_reviewVars

-----------------------------------------------------------------------------
NothingRunning == \A r \in Requests : pc[r] = "idle"

(***************************************************************************)
(* The rating an app shows is that of its visible reviews: after every     *)
(* handler, unless one ended before the refresh it owed, and then until    *)
(* the next refresh of the app.                                            *)
(***************************************************************************)
RatingFresh == NothingRunning => \A a \in Apps \ stale : rating[a] = Distribution(a)

(***************************************************************************)
(* "Public name of an email account, applied to all its reviews": reviews  *)
(* are signed with the name their author has now (a Blank name excepted:   *)
(* update_me copies it as it is, save_my_review replaces it).              *)
(***************************************************************************)
NamesCurrent ==
  NothingRunning =>
    \A i \in Existing :
      name[reviews[i].user] # Blank /\ reviews[i].user \notin halfNamed
        => reviews[i].author = name[reviews[i].user]

\* A reporter counts once, or as often as its requests overlap.
ReportedOnce == \A p \in Reporters :
  /\ \A i \in Existing : reviews[i].reports[p] <= MaxBusy
  /\ \A a \in Apps : open[a][p] <= MaxBusy

(***************************************************************************)
(* The deletion of an account leaves none of its reviews, hidden or not,   *)
(* wherever an earlier attempt stopped.  With the types.                   *)
(***************************************************************************)
NoOrphanReview ==
  /\ ReviewTypeOK
  /\ ReportedOnce
  /\ NothingRunning => \A i \in Existing : reviews[i].user \in users

(***************************************************************************)
(* A review hidden by the moderation is shown again only by restore_review *)
(* of that very review: its author's edits do not bring it back.           *)
(***************************************************************************)
HiddenStays ==
  [][\A i \in Existing :
       reviews[i].hidden /\ reviews'[i] # NoReview /\ ~reviews'[i].hidden =>
         \E r \in Requests : Writing(r, {"restore"}) /\ job[r].id = i]_reviewVars
=============================================================================
