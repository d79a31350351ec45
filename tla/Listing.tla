------------------------------- MODULE Listing -------------------------------
(***************************************************************************)
(* The listing of an app: its live fields, the draft in which a visible    *)
(* app collects its changes, the review of that draft, the request to      *)
(* change the app's status, and the media files that the live fields and   *)
(* the draft share in the storage.  Of the texts, only the categories are  *)
(* kept: they stand for every field that an edit sets as it is.            *)
(*                                                                         *)
(* The app is one document.  A handler reads it, decides on that snapshot, *)
(* writes, and where media may have become useless reads it again and      *)
(* deletes the candidates that this second reading does not mention.       *)
(*                                                                         *)
(*   pc: idle -> write -> [reread -> delete ->] idle                       *)
(***************************************************************************)
EXTENDS FiniteSets, Integers

CONSTANTS
  Requests,       \* slots for requests handled at the same time
  Roles,          \* who uses the console: {"admin", "developer"} or less
  Categories,     \* identifiers of the categories, past and future
  Media,          \* keys of the images
  NoMedia,        \* no icon
  NoDraft,        \* the app has no listing draft
  NoSnapshot,     \* an idle request has read nothing
  MaxScreenshots, \* MAX_SCREENSHOTS
  MaxBusy,        \* bound: requests handled at the same time
  MayAbort        \* a handler may end before its last step

ASSUME RolesAssumption == Roles \subseteq {"admin", "developer"}
ASSUME MediaAssumption == NoMedia \notin Media
ASSUME ScreenshotsAssumption == MaxScreenshots \in Nat
ASSUME RequestsAssumption == IsFiniteSet(Requests)

VARIABLES
  app,       \* the document of the app
  categories, \* the categories that exist (Categories.tla changes them)
  objects,   \* media in the storage
  made,      \* history: keys given to an image so far (keys are random)
  asked,     \* history: the draft as the submission that waits saw it
  pc,        \* step of each request
  op, snap,  \* its operation and the snapshot it decided on
  cand,      \* media it may have to delete
  torn       \* history: a handler ended before its last step

requestVars == <<pc, op, snap, cand>>
listingVars == <<app, categories, objects, made, asked, requestVars, torn>>

AppStatus == {"draft", "published", "archived"}

Listings == [cats : SUBSET Categories, icon : Media \cup {NoMedia}, shots : SUBSET Media]

ASSUME NoDraftAssumption == NoDraft \notin Listings

App == [status : AppStatus, live : Listings, draft : Listings \cup {NoDraft},
        review : {"none", "pending", "rejected"},
        request : {"none", "rejected"} \cup AppStatus]   \* a status: pending

Kinds == {"none", "update", "submit", "publish", "reject", "withdraw", "discard",
          "status", "ask", "refuse", "cancel"}

\* An operation: the listing fields it sets (update), or the status it sets.
Op(kind, fields, status) == [kind |-> kind, fields |-> fields, status |-> status]

NoFields == [f \in {} |-> NoMedia]
NoOp == Op("none", NoFields, "draft")

ListingTypeOK ==
  /\ app \in App
  /\ categories \in SUBSET Categories
  /\ objects \in SUBSET made
  /\ made \in SUBSET Media
  /\ pc \in [Requests -> {"idle", "write", "reread", "delete"}]
  /\ \A r \in Requests : op[r].kind \in Kinds /\ (pc[r] = "idle" <=> op[r] = NoOp)
  /\ snap \in [Requests -> App \cup {NoSnapshot}]
  /\ asked \in Listings \cup {NoDraft}
  /\ cand \in [Requests -> SUBSET made]

-----------------------------------------------------------------------------
(***************************************************************************)
(* services/review.py                                                      *)
(***************************************************************************)

UsesDraft(a) == a.status = "published" \/ a.draft # NoDraft

Editable(a) == IF a.draft # NoDraft THEN a.draft ELSE a.live

ListingMedia(l) == l.shots \cup ({l.icon} \ {NoMedia})

MediaKeys(a) ==
  ListingMedia(a.live) \cup (IF a.draft = NoDraft THEN {} ELSE ListingMedia(a.draft))

SetFields(l, fields) == [f \in DOMAIN l |-> IF f \in DOMAIN fields THEN fields[f] ELSE l[f]]

\* Mutant of UpdateListing: always writes the live fields.
UpdateLive(a, s, fields) == [a EXCEPT !.live = SetFields(a.live, fields)]

\* Mutant of UpdateListing: the edit of a draft leaves its review alone.
UpdateKeepsReview(a, s, fields) ==
  IF UsesDraft(s)
  THEN [a EXCEPT !.draft = SetFields(Editable(s), fields)]
  ELSE [a EXCEPT !.live = SetFields(a.live, fields)]

\* _update_listing: the whole draft of the snapshot s with the new fields, or
\* the given fields of the live listing.
UpdateListing(a, s, fields) ==
  IF UsesDraft(s)
  THEN [a EXCEPT !.draft = SetFields(Editable(s), fields), !.review = "none"]
  ELSE [a EXCEPT !.live = SetFields(a.live, fields)]

-----------------------------------------------------------------------------
ListingInit ==
  /\ categories \in SUBSET Categories
  /\ \E cats \in SUBSET categories :
       app = [status |-> "draft", draft |-> NoDraft, review |-> "none", request |-> "none",
              live |-> [cats |-> cats, icon |-> NoMedia, shots |-> {}]]
  /\ objects = {} /\ made = {} /\ asked = NoDraft /\ torn = FALSE
  /\ pc = [r \in Requests |-> "idle"]
  /\ op = [r \in Requests |-> NoOp]
  /\ snap = [r \in Requests |-> NoSnapshot]
  /\ cand = [r \in Requests |-> {}]

\* The bound on what is handled at the same time.
Admitted == Cardinality({q \in Requests : pc[q] # "idle"}) < MaxBusy

(***************************************************************************)
(* Reading half: request r, of a user of role by, starts operation o on    *)
(* the app as it is, having stored the images new, with candidates c for a *)
(* deletion after it.                                                      *)
(***************************************************************************)
Start(r, by, o, c, new) ==
  /\ pc[r] = "idle"
  /\ by \in Roles /\ Admitted
  /\ pc' = [pc EXCEPT ![r] = "write"]
  /\ op' = [op EXCEPT ![r] = o]
  /\ snap' = [snap EXCEPT ![r] = app]
  /\ cand' = [cand EXCEPT ![r] = c]
  /\ objects' = objects \cup new
  /\ made' = made \cup new
  /\ UNCHANGED <<app, categories, asked>>

\* _category_ids refuses a category that does not exist.
UpdateApp(r, by, cats) ==
  /\ cats \subseteq categories
  /\ Start(r, by, Op("update", [cats |-> cats], "draft"), {}, {})

UploadIcon(r, by, m) ==
  /\ m \notin made
  /\ Start(r, by, Op("update", [icon |-> m], "draft"), {Editable(app).icon} \ {NoMedia}, {m})

AddScreenshot(r, by, m) ==
  /\ m \notin made
  /\ Cardinality(Editable(app).shots) < MaxScreenshots
  /\ Start(r, by, Op("update", [shots |-> Editable(app).shots \cup {m}], "draft"), {}, {m})

SetScreenshots(r, by, keys) ==
  /\ keys \subseteq Editable(app).shots
  /\ Start(r, by, Op("update", [shots |-> keys], "draft"), Editable(app).shots \ keys, {})

SubmitListing(r, by) ==
  /\ app.draft # NoDraft /\ app.review # "pending"
  /\ Start(r, by, Op("submit", NoFields, "draft"), {}, {})

PublishListing(r) ==
  /\ app.draft # NoDraft
  /\ Start(r, "admin", Op("publish", NoFields, "draft"), MediaKeys(app), {})

RejectListing(r) ==
  /\ app.review = "pending"
  /\ Start(r, "admin", Op("reject", NoFields, "draft"), {}, {})

WithdrawListingReview(r, by) ==
  /\ app.review # "none"
  /\ Start(r, by, Op("withdraw", NoFields, "draft"), {}, {})

\* Mutant of DiscardListing: the media of the draft are not candidates.
DiscardKeepsMedia(r, by) ==
  /\ app.draft # NoDraft
  /\ Start(r, by, Op("discard", NoFields, "draft"), {}, {})

DiscardListing(r, by) ==
  /\ app.draft # NoDraft
  /\ Start(r, by, Op("discard", NoFields, "draft"), MediaKeys(app), {})

SetStatus(r, s) == Start(r, "admin", Op("status", NoFields, s), {}, {})

RequestStatus(r, by, s) ==
  /\ s # app.status /\ app.request \notin AppStatus
  /\ Start(r, by, Op("ask", NoFields, s), {}, {})

ApproveStatusRequest(r) ==
  /\ app.request \in AppStatus
  /\ Start(r, "admin", Op("status", NoFields, app.request), {}, {})

RejectStatusRequest(r) ==
  /\ app.request \in AppStatus
  /\ Start(r, "admin", Op("refuse", NoFields, "draft"), {}, {})

WithdrawStatusRequest(r, by) ==
  /\ app.request # "none"
  /\ Start(r, by, Op("cancel", NoFields, "draft"), {}, {})

Reads(r) ==
  \/ \E by \in Roles :
       \/ \E cats \in SUBSET Categories : UpdateApp(r, by, cats)
       \/ \E m \in Media : UploadIcon(r, by, m) \/ AddScreenshot(r, by, m)
       \/ \E keys \in SUBSET Editable(app).shots : SetScreenshots(r, by, keys)
       \/ SubmitListing(r, by) \/ WithdrawListingReview(r, by) \/ DiscardListing(r, by)
       \/ WithdrawStatusRequest(r, by)
       \/ \E s \in AppStatus : RequestStatus(r, by, s)
  \/ PublishListing(r) \/ RejectListing(r) \/ ApproveStatusRequest(r) \/ RejectStatusRequest(r)
  \/ \E s \in AppStatus : SetStatus(r, s)

-----------------------------------------------------------------------------
(***************************************************************************)
(* Writing half.                                                           *)
(***************************************************************************)

\* The document a once operation o, decided on the snapshot s, is written.
Written(a, o, s) ==
  CASE o.kind = "update"  -> UpdateListing(a, s, o.fields)
    [] o.kind = "submit"  -> [a EXCEPT !.review = "pending"]
    [] o.kind = "publish" -> [a EXCEPT !.live = s.draft, !.draft = NoDraft, !.review = "none"]
    [] o.kind = "reject"  -> [a EXCEPT !.review = "rejected"]
    [] o.kind = "withdraw" -> [a EXCEPT !.review = "none"]
    [] o.kind = "discard" -> [a EXCEPT !.draft = NoDraft, !.review = "none"]
    [] o.kind = "status"  -> [a EXCEPT !.status = o.status, !.request = "none"]
    [] o.kind = "ask"     -> [a EXCEPT !.request = o.status]
    [] o.kind = "refuse"  -> [a EXCEPT !.request = "rejected"]
    [] o.kind = "cancel"  -> [a EXCEPT !.request = "none"]

End(r) ==
  /\ pc' = [pc EXCEPT ![r] = "idle"]
  /\ op' = [op EXCEPT ![r] = NoOp]
  /\ snap' = [snap EXCEPT ![r] = NoSnapshot]
  /\ cand' = [cand EXCEPT ![r] = {}]

Write(r) ==
  /\ pc[r] = "write"
  /\ app' = Written(app, op[r], snap[r])
  /\ asked' = IF op[r].kind = "submit" THEN snap[r].draft
              ELSE IF app'.review = "pending" THEN asked ELSE NoDraft
  /\ IF cand[r] = {}
     THEN End(r)
     ELSE /\ pc' = [pc EXCEPT ![r] = "reread"]
          /\ snap' = [snap EXCEPT ![r] = NoSnapshot]
          /\ UNCHANGED <<op, cand>>
  /\ UNCHANGED <<categories, objects, made>>

Reread(r) ==
  /\ pc[r] = "reread"
  /\ snap' = [snap EXCEPT ![r] = app]
  /\ pc' = [pc EXCEPT ![r] = "delete"]
  /\ UNCHANGED <<app, categories, objects, made, asked, op, cand>>

\* Mutant of DeleteUnreferenced: only what can be edited counts as used.
DeleteNotEditable(r) ==
  /\ pc[r] = "delete"
  /\ objects' = objects \ (cand[r] \ ListingMedia(Editable(snap[r])))
  /\ UNCHANGED <<app, categories, made, asked>>
  /\ End(r)

\* delete_unreferenced, on the second reading.
DeleteUnreferenced(r) ==
  /\ pc[r] = "delete"
  /\ objects' = objects \ (cand[r] \ MediaKeys(snap[r]))
  /\ UNCHANGED <<app, categories, made, asked>>
  /\ End(r)

\* An exception or a stop of the process ends the handler here (bound: once).
Abort(r) ==
  /\ MayAbort /\ ~torn
  /\ pc[r] # "idle"
  /\ torn' = TRUE
  /\ UNCHANGED <<app, categories, objects, made, asked>>
  /\ End(r)

ListingNext ==
  \E r \in Requests :
    \/ (Reads(r) \/ Write(r) \/ Reread(r) \/ DeleteUnreferenced(r)) /\ UNCHANGED torn
    \/ Abort(r)

ListingSpec == ListingInit /\ [][ListingNext]_listingVars

-----------------------------------------------------------------------------
(***************************************************************************)
(* The media that the live listing or the draft mention are in the         *)
(* storage: delete_unreferenced removes only what neither uses any more.   *)
(***************************************************************************)
MediaKept == MediaKeys(app) \subseteq objects

(***************************************************************************)
(* Unless a handler was aborted, and as long as requests do not overlap,   *)
(* it holds nothing else: each deletes what its own write made useless.    *)
(***************************************************************************)
NothingRunning == \A r \in Requests : pc[r] = "idle"

MediaExact == NothingRunning /\ ~torn => objects = MediaKeys(app)

(***************************************************************************)
(* "Editing a submitted item cancels its submission": the draft that waits *)
(* for the admin is the one that was submitted.                            *)
(***************************************************************************)
SubmittedIsCurrent == app.review = "pending" => app.draft = asked
=============================================================================
