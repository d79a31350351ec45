--------------------------- MODULE CategoriesProofs ---------------------------
(***************************************************************************)
(* Proofs about Listing and Categories together, for every set of media,   *)
(* categories and roles, every limit on screenshots and any number of      *)
(* requests.  Each property has its own condition on which handlers must   *)
(* not both have decided and not yet written; all the others may overlap.  *)
(***************************************************************************)
EXTENDS Categories, FiniteSetTheorems, TLAPS

\* What an update sets, and the images and categories that it names.
UpdateFields == [cats : SUBSET Categories] \cup [icon : Media] \cup [shots : SUBSET Media]
Ops == [kind : Kinds, fields : UpdateFields \cup {NoFields}, status : AppStatus]

ImagesOf(f) == IF "icon" \in DOMAIN f THEN {f.icon} ELSE IF "shots" \in DOMAIN f THEN f.shots ELSE {}
CatsOf(f)   == IF "cats" \in DOMAIN f THEN f.cats ELSE {}

Mentioned(a) == a.live.cats \cup (IF a.draft = NoDraft THEN {} ELSE a.draft.cats)

\* The operations that change what the listings show.
ContentOps == {"update", "publish", "discard"}

Deciding(r, kinds) == pc[r] = "write" /\ op[r].kind \in kinds
Content(r)         == Deciding(r, ContentOps)

\* The document that the write of r would leave now.
Will(r) == Written(app, op[r], snap[r])

(***************************************************************************)
(* Types, whatever overlaps.                                               *)
(***************************************************************************)
DecidedOk(r) ==
  /\ op[r].kind # "none" /\ snap[r] \in App
  /\ op[r].kind = "update" => op[r].fields \in UpdateFields
  /\ op[r].kind = "publish" => snap[r].draft # NoDraft
  /\ op[r].kind \notin ContentOps => cand[r] = {}
  /\ MediaKeys(snap[r]) \subseteq made /\ ImagesOf(op[r].fields) \subseteq made

TypeInv ==
  /\ CategoryTypeOK
  /\ op \in [Requests -> Ops]
  /\ \A r \in Requests : pc[r] = "write" => DecidedOk(r)
  /\ MediaKeys(app) \subseteq made

(***************************************************************************)
(* Images.  Two handlers that change the listings have not both decided.   *)
(***************************************************************************)
ContentApart == \A q, r \in Requests : Content(q) /\ Content(r) => q = r

\* The candidates that r will delete, or may delete after its second reading.
Useless(r) == IF pc[r] = "reread" THEN cand[r]
              ELSE IF pc[r] = "delete" THEN cand[r] \ MediaKeys(snap[r]) ELSE {}

\* What r is about to write is stored; what it makes useless are its
\* candidates; nobody who deletes has an image that only r mentions.
WillOk(r) ==
  /\ MediaKeys(Will(r)) \subseteq objects
  /\ MediaKeys(app) \subseteq MediaKeys(Will(r)) \cup cand[r]
  /\ \A q \in Requests : pc[q] \in {"reread", "delete"} =>
       cand[q] \cap MediaKeys(Will(r)) \subseteq MediaKeys(app)

Kept(m) == m \in MediaKeys(app) \/ \E r \in Requests : Content(r) /\ m \in MediaKeys(Will(r))
Owed(m) == \E r \in Requests : m \in Useless(r)

MediaInv ==
  /\ MediaKept
  /\ \A r \in Requests : Content(r) => WillOk(r)
  /\ \A r \in Requests : pc[r] = "delete" => Useless(r) \cap MediaKeys(app) = {}
  /\ ~torn => \A m \in objects : Kept(m) \/ Owed(m)

(***************************************************************************)
(* Reviews.  No submission is decided while a listing is about to change.  *)
(***************************************************************************)
SubmitsApart == \A q, r \in Requests : ~(Content(q) /\ Deciding(r, {"submit"}))

SubmitInv ==
  /\ SubmittedIsCurrent
  /\ \A r \in Requests : Deciding(r, {"submit"}) => snap[r].draft = app.draft

(***************************************************************************)
(* What is visible.  No update is decided while the status is to change.   *)
(***************************************************************************)
StatusApart == \A q, r \in Requests : ~(Deciding(q, {"update"}) /\ Deciding(r, {"status"}))

VisibleInv == \A r \in Requests :
  Deciding(r, {"update"}) /\ ~UsesDraft(snap[r]) => app.status # "published"

(***************************************************************************)
(* Categories: where a move of the apps of a category has got to.          *)
(***************************************************************************)
MoveOk ==
  /\ NothingRunning
  /\ move.from \in categories /\ move.to \in categories
  /\ move.at \in {"addDraft", "pullDraft", "remove"} => move.from \notin app.live.cats
  /\ move.at = "remove" => move.from \notin Mentioned(app)

ExistInv ==
  /\ Mentioned(app) \subseteq categories
  /\ \A r \in Requests : pc[r] = "write" =>
       Mentioned(snap[r]) \subseteq categories /\ CatsOf(op[r].fields) \subseteq categories
  /\ move # NoMove => MoveOk

OneAtATime == \A q, r \in Requests : pc[q] # "idle" /\ pc[r] # "idle" => q = r

-----------------------------------------------------------------------------
(***************************************************************************)
(* The operators on an app.                                                *)
(***************************************************************************)

LEMMA SetFieldsCats ==
  ASSUME NEW l \in Listings, NEW f \in [cats : SUBSET Categories]
  PROVE  /\ SetFields(l, f) \in Listings /\ SetFields(l, f).cats = f.cats
         /\ SetFields(l, f).icon = l.icon /\ SetFields(l, f).shots = l.shots
BY DEF SetFields, Listings

LEMMA SetFieldsIcon ==
  ASSUME NEW l \in Listings, NEW f \in [icon : Media]
  PROVE  /\ SetFields(l, f) \in Listings /\ SetFields(l, f).icon = f.icon
         /\ SetFields(l, f).cats = l.cats /\ SetFields(l, f).shots = l.shots
BY DEF SetFields, Listings

LEMMA SetFieldsShots ==
  ASSUME NEW l \in Listings, NEW f \in [shots : SUBSET Media]
  PROVE  /\ SetFields(l, f) \in Listings /\ SetFields(l, f).shots = f.shots
         /\ SetFields(l, f).cats = l.cats /\ SetFields(l, f).icon = l.icon
BY DEF SetFields, Listings

\* Listings with the same images stay so, and an update adds only what it names.
LEMMA SetFieldsOk ==
  ASSUME NEW l \in Listings, NEW f \in UpdateFields
  PROVE  /\ SetFields(l, f) \in Listings
         /\ ListingMedia(SetFields(l, f)) \subseteq ListingMedia(l) \cup ImagesOf(f)
         /\ SetFields(l, f).cats \subseteq l.cats \cup CatsOf(f)
         /\ \A k \in Listings : k.icon = l.icon /\ k.shots = l.shots =>
              /\ SetFields(k, f).icon = SetFields(l, f).icon
              /\ SetFields(k, f).shots = SetFields(l, f).shots
<1>1. CASE f \in [cats : SUBSET Categories]
  BY <1>1, SetFieldsCats DEF ListingMedia, CatsOf
<1>2. CASE f \in [icon : Media]
  BY <1>2, SetFieldsIcon DEF ListingMedia, ImagesOf
<1>3. CASE f \in [shots : SUBSET Media]
  BY <1>3, SetFieldsShots DEF ListingMedia, ImagesOf
<1>4. QED BY <1>1, <1>2, <1>3 DEF UpdateFields

LEMMA EditableOk ==
  ASSUME NEW a \in App
  PROVE  /\ Editable(a) \in Listings
         /\ ListingMedia(Editable(a)) \subseteq MediaKeys(a)
         /\ Editable(a).cats \subseteq Mentioned(a)
         /\ ~UsesDraft(a) => a.draft = NoDraft /\ Editable(a) = a.live /\ a.status # "published"
         /\ MediaKeys(a) = ListingMedia(Editable(a))
                             \cup (IF UsesDraft(a) THEN ListingMedia(a.live) ELSE {})
BY DEF Editable, App, MediaKeys, Mentioned, UsesDraft

\* An update decided on s, written on a.
LEMMA UpdateOk ==
  ASSUME NEW a \in App, NEW s \in App, NEW f \in UpdateFields
  PROVE  /\ UpdateListing(a, s, f) \in App
         /\ UpdateListing(a, s, f).status = a.status
         /\ UsesDraft(s) => /\ UpdateListing(a, s, f).live = a.live
                            /\ UpdateListing(a, s, f).draft = SetFields(Editable(s), f)
                            /\ UpdateListing(a, s, f).review = "none"
         /\ ~UsesDraft(s) => /\ UpdateListing(a, s, f).live = SetFields(a.live, f)
                             /\ UpdateListing(a, s, f).draft = a.draft
                             /\ UpdateListing(a, s, f).review = a.review
<1>1. a.live \in Listings /\ Editable(s) \in Listings
  BY EditableOk DEF App
<1>2. SetFields(Editable(s), f) \in Listings /\ SetFields(a.live, f) \in Listings
  BY <1>1, SetFieldsOk
<1>3. QED BY <1>2 DEF UpdateListing, App

\* The other operations leave each listing alone, or drop one of the two.
LEMMA OtherOk ==
  ASSUME NEW a \in App, NEW s \in App, NEW o \in Ops, o.kind \notin {"none", "update"},
         o.kind = "publish" => s.draft # NoDraft
  PROVE  /\ Written(a, o, s) \in App
         /\ Written(a, o, s).live = IF o.kind = "publish" THEN s.draft ELSE a.live
         /\ Written(a, o, s).draft = IF o.kind \in {"publish", "discard"} THEN NoDraft ELSE a.draft
         /\ o.kind # "status" => Written(a, o, s).status = a.status
         /\ o.kind \in {"publish", "discard", "reject", "withdraw"} => Written(a, o, s).review # "pending"
         /\ o.kind \in {"status", "ask", "refuse", "cancel"} => Written(a, o, s).review = a.review
<1>1. a.live \in Listings /\ o.status \in AppStatus /\ o.kind \in Kinds
  BY DEF App, Ops
<1>2. CASE o.kind \in {"submit", "reject", "withdraw"} BY <1>1, <1>2 DEF Written, App
<1>3. CASE o.kind = "publish" BY <1>1, <1>3 DEF Written, App
<1>4. CASE o.kind = "discard" BY <1>1, <1>4 DEF Written, App
<1>5. CASE o.kind = "status" BY <1>1, <1>5 DEF Written, App
<1>6. CASE o.kind \in {"ask", "refuse", "cancel"} BY <1>1, <1>6 DEF Written, App
<1>7. QED BY <1>1, <1>2, <1>3, <1>4, <1>5, <1>6 DEF Kinds

LEMMA WrittenOk ==
  ASSUME NEW a \in App, NEW s \in App, NEW o \in Ops, o.kind # "none",
         o.kind = "update" => o.fields \in UpdateFields,
         o.kind = "publish" => s.draft # NoDraft
  PROVE  /\ Written(a, o, s) \in App
         /\ MediaKeys(Written(a, o, s)) \subseteq MediaKeys(a) \cup MediaKeys(s) \cup ImagesOf(o.fields)
         /\ Mentioned(Written(a, o, s)) \subseteq Mentioned(a) \cup Mentioned(s) \cup CatsOf(o.fields)
<1> DEFINE b == Written(a, o, s)
           f == o.fields
<1>0. /\ a.live \in Listings /\ s.live \in Listings /\ Editable(s) \in Listings
      /\ a.draft # NoDraft => a.draft \in Listings
  BY EditableOk DEF App
<1>1. CASE o.kind = "update"
  <2>1. b = UpdateListing(a, s, f) /\ f \in UpdateFields BY <1>1 DEF Written
  <2> HIDE DEF f
  <2>2. CASE UsesDraft(s)
    <3> DEFINE l == SetFields(Editable(s), f)
    <3>1. UpdateListing(a, s, f) \in App /\ UpdateListing(a, s, f).live = a.live
          /\ UpdateListing(a, s, f).draft = l
      BY <2>1, <2>2, UpdateOk
    <3>2. /\ ListingMedia(l) \subseteq ListingMedia(Editable(s)) \cup ImagesOf(f)
          /\ l.cats \subseteq Editable(s).cats \cup CatsOf(f)
      BY <1>0, <2>1, SetFieldsOk
    <3>3. /\ ListingMedia(Editable(s)) \subseteq MediaKeys(s)
          /\ Editable(s).cats \subseteq Mentioned(s)
      BY EditableOk
    <3> HIDE DEF l, b
    <3>4. /\ b \in App
          /\ MediaKeys(b) \subseteq MediaKeys(a) \cup MediaKeys(s) \cup ImagesOf(f)
          /\ Mentioned(b) \subseteq Mentioned(a) \cup Mentioned(s) \cup CatsOf(f)
      BY <2>1, <3>1, <3>2, <3>3 DEF MediaKeys, Mentioned
    <3>5. QED BY <3>4 DEF b, f
  <2>3. CASE ~UsesDraft(s)
    <3> DEFINE l == SetFields(a.live, f)
    <3>1. UpdateListing(a, s, f) \in App /\ UpdateListing(a, s, f).live = l
          /\ UpdateListing(a, s, f).draft = a.draft
      BY <2>1, <2>3, UpdateOk
    <3>2. /\ ListingMedia(l) \subseteq ListingMedia(a.live) \cup ImagesOf(f)
          /\ l.cats \subseteq a.live.cats \cup CatsOf(f)
      BY <1>0, <2>1, SetFieldsOk
    <3> HIDE DEF l, b
    <3>3. /\ b \in App
          /\ MediaKeys(b) \subseteq MediaKeys(a) \cup MediaKeys(s) \cup ImagesOf(f)
          /\ Mentioned(b) \subseteq Mentioned(a) \cup Mentioned(s) \cup CatsOf(f)
      BY <2>1, <3>1, <3>2 DEF MediaKeys, Mentioned
    <3>4. QED BY <3>3 DEF b, f
  <2>4. QED BY <2>2, <2>3
<1>2. CASE o.kind # "update"
  <2>1. /\ b \in App
        /\ b.live = IF o.kind = "publish" THEN s.draft ELSE a.live
        /\ b.draft = IF o.kind \in {"publish", "discard"} THEN NoDraft ELSE a.draft
    BY <1>2, OtherOk
  <2> HIDE DEF b
  <2>2. /\ MediaKeys(b) \subseteq MediaKeys(a) \cup MediaKeys(s)
        /\ Mentioned(b) \subseteq Mentioned(a) \cup Mentioned(s)
    BY <2>1 DEF MediaKeys, Mentioned
  <2>3. QED BY <2>1, <2>2 DEF b
<1>3. QED BY <1>1, <1>2

\* Apps that show the same images, whatever their categories and states.
SameImages(a, b) ==
  /\ a.live.icon = b.live.icon /\ a.live.shots = b.live.shots
  /\ a.draft = NoDraft <=> b.draft = NoDraft
  /\ a.draft # NoDraft => a.draft.icon = b.draft.icon /\ a.draft.shots = b.draft.shots

LEMMA SameMedia ==
  ASSUME NEW a, NEW b, SameImages(a, b)
  PROVE  MediaKeys(a) = MediaKeys(b)
BY DEF SameImages, MediaKeys, ListingMedia

LEMMA SameWritten ==
  ASSUME NEW a \in App, NEW b \in App, SameImages(a, b), NEW s \in App, NEW o \in Ops, o.kind # "none",
         o.kind = "update" => o.fields \in UpdateFields,
         o.kind = "publish" => s.draft # NoDraft
  PROVE  SameImages(Written(a, o, s), Written(b, o, s))
<1> DEFINE x == Written(a, o, s)
           y == Written(b, o, s)
           f == o.fields
<1>1. CASE o.kind = "update"
  <2>1. /\ x = UpdateListing(a, s, f) /\ y = UpdateListing(b, s, f)
        /\ f \in UpdateFields
    BY <1>1 DEF Written
  <2> HIDE DEF f
  <2>2. CASE UsesDraft(s)
    <3> DEFINE l == SetFields(Editable(s), f)
    <3>1. /\ UpdateListing(a, s, f).live = a.live /\ UpdateListing(a, s, f).draft = l
          /\ UpdateListing(b, s, f).live = b.live /\ UpdateListing(b, s, f).draft = l
      BY <2>1, <2>2, UpdateOk
    <3> HIDE DEF l, x, y
    <3>2. SameImages(x, y) BY <2>1, <3>1 DEF SameImages
    <3>3. QED BY <3>2 DEF x, y
  <2>3. CASE ~UsesDraft(s)
    <3> DEFINE k == SetFields(a.live, f)
               l == SetFields(b.live, f)
    <3>1. /\ UpdateListing(a, s, f).live = k /\ UpdateListing(a, s, f).draft = a.draft
          /\ UpdateListing(b, s, f).live = l /\ UpdateListing(b, s, f).draft = b.draft
      BY <2>1, <2>3, UpdateOk
    <3>2. k.icon = l.icon /\ k.shots = l.shots
      <4>1. a.live \in Listings /\ b.live \in Listings BY DEF App
      <4>2. a.live.icon = b.live.icon /\ a.live.shots = b.live.shots BY DEF SameImages
      <4>3. QED BY <2>1, <4>1, <4>2, SetFieldsOk
    <3> HIDE DEF k, l, x, y
    <3>3. SameImages(x, y) BY <2>1, <3>1, <3>2 DEF SameImages
    <3>4. QED BY <3>3 DEF x, y
  <2>4. QED BY <2>2, <2>3
<1>2. CASE o.kind # "update"
  <2>1. /\ x.live = IF o.kind = "publish" THEN s.draft ELSE a.live
        /\ y.live = IF o.kind = "publish" THEN s.draft ELSE b.live
        /\ x.draft = IF o.kind \in {"publish", "discard"} THEN NoDraft ELSE a.draft
        /\ y.draft = IF o.kind \in {"publish", "discard"} THEN NoDraft ELSE b.draft
    BY <1>2, OtherOk
  <2> HIDE DEF x, y
  <2>2. SameImages(x, y) BY <2>1 DEF SameImages
  <2>3. QED BY <2>2 DEF x, y
<1>3. QED BY <1>1, <1>2

-----------------------------------------------------------------------------
(***************************************************************************)
(* A handler starts.                                                       *)
(***************************************************************************)

\* What a reading half owes the write.
Fresh(o, c, new) ==
  /\ o \in Ops /\ o.kind # "none"
  /\ o.kind = "update" => o.fields \in UpdateFields
  /\ o.kind = "publish" => app.draft # NoDraft
  /\ o.kind \notin ContentOps => c = {} /\ new = {}
  /\ c \subseteq MediaKeys(app) /\ new \subseteq Media \ made
  /\ ImagesOf(o.fields) \subseteq MediaKeys(app) \cup new
  /\ CatsOf(o.fields) \subseteq categories
  /\ MediaKeys(Written(app, o, app)) \subseteq MediaKeys(app) \cup new
  /\ MediaKeys(app) \cup new \subseteq MediaKeys(Written(app, o, app)) \cup c

Begins(r, o, c, new) ==
  /\ Fresh(o, c, new)
  /\ pc[r] = "idle"
  /\ pc' = [pc EXCEPT ![r] = "write"] /\ op' = [op EXCEPT ![r] = o]
  /\ snap' = [snap EXCEPT ![r] = app] /\ cand' = [cand EXCEPT ![r] = c]
  /\ objects' = objects \cup new /\ made' = made \cup new
  /\ UNCHANGED <<app, categories, asked>>

LEMMA StartBegins ==
  ASSUME NEW r \in Requests, NEW by, NEW o, NEW c, NEW new, Start(r, by, o, c, new), Fresh(o, c, new)
  PROVE  Begins(r, o, c, new)
BY DEF Start, Begins

\* An update of what can be edited: one field replaced.
LEMMA UpdateFresh ==
  ASSUME app \in App, NEW f \in UpdateFields, NEW c, NEW new \in SUBSET (Media \ made),
         c \subseteq MediaKeys(app),
         ImagesOf(f) \subseteq MediaKeys(app) \cup new, CatsOf(f) \subseteq categories,
         ListingMedia(Editable(app)) \cup new \subseteq ListingMedia(SetFields(Editable(app), f)) \cup c
  PROVE  Fresh(Op("update", f, "draft"), c, new)
<1> DEFINE o == Op("update", f, "draft")
           l == SetFields(Editable(app), f)
           b == Written(app, o, app)
<1>1. o \in Ops /\ o.kind = "update" /\ o.fields = f
  BY DEF Op, Ops, Kinds, AppStatus
<1>2. b = UpdateListing(app, app, f)
  BY <1>1 DEF Written
<1>3. Editable(app) \in Listings /\ ListingMedia(Editable(app)) \subseteq MediaKeys(app)
  BY EditableOk
<1>4. ListingMedia(l) \subseteq ListingMedia(Editable(app)) \cup ImagesOf(f)
  BY <1>3, SetFieldsOk
<1>5. ListingMedia(app.live) \subseteq MediaKeys(app)
  BY DEF MediaKeys
<1>6. MediaKeys(b) = ListingMedia(l) \cup (IF UsesDraft(app) THEN ListingMedia(app.live) ELSE {})
  <2>1. CASE UsesDraft(app)
    <3>1. /\ UpdateListing(app, app, f).live = app.live
          /\ UpdateListing(app, app, f).draft = l
      BY <2>1, UpdateOk
    <3>2. l \in Listings BY <1>3, SetFieldsOk
    <3>3. l # NoDraft BY <3>2, NoDraftAssumption
    <3> HIDE DEF b, l
    <3>4. QED BY <1>2, <2>1, <3>1, <3>3 DEF MediaKeys
  <2>2. CASE ~UsesDraft(app)
    <3>1. app.draft = NoDraft /\ Editable(app) = app.live BY <2>2, EditableOk
    <3>2. /\ UpdateListing(app, app, f).live = l
          /\ UpdateListing(app, app, f).draft = app.draft
      BY <2>2, <3>1, UpdateOk
    <3> HIDE DEF b, l
    <3>3. QED BY <1>2, <2>2, <3>1, <3>2 DEF MediaKeys
  <2>3. QED BY <2>1, <2>2
<1>7. MediaKeys(app) = ListingMedia(Editable(app))
                         \cup (IF UsesDraft(app) THEN ListingMedia(app.live) ELSE {})
  BY EditableOk
<1> HIDE DEF o, l, b
<1>8. /\ MediaKeys(b) \subseteq MediaKeys(app) \cup new
      /\ MediaKeys(app) \cup new \subseteq MediaKeys(b) \cup c
  BY <1>3, <1>4, <1>5, <1>6, <1>7 DEF l
<1>9. Fresh(o, c, new)
  BY <1>1, <1>8 DEF Fresh, ContentOps, b
<1>10. QED BY <1>9 DEF o

\* The other operations: what they drop are their candidates.
LEMMA OtherFresh ==
  ASSUME app \in App, NEW kind \in Kinds \ {"none", "update"}, NEW status \in AppStatus, NEW c,
         kind = "publish" => app.draft # NoDraft,
         c = IF kind \in {"publish", "discard"} THEN MediaKeys(app) ELSE {}
  PROVE  Fresh(Op(kind, NoFields, status), c, {})
<1> DEFINE o == Op(kind, NoFields, status)
           b == Written(app, o, app)
<1>1. /\ o \in Ops /\ o.kind = kind /\ o.fields = NoFields
      /\ ImagesOf(NoFields) = {} /\ CatsOf(NoFields) = {}
  BY DEF Op, Ops, ImagesOf, CatsOf, NoFields
<1> HIDE DEF o
<1>2. /\ b.live = IF kind = "publish" THEN app.draft ELSE app.live
      /\ b.draft = IF kind \in {"publish", "discard"} THEN NoDraft ELSE app.draft
  BY <1>1, OtherOk
<1> HIDE DEF b
<1>3. /\ MediaKeys(b) \subseteq MediaKeys(app)
      /\ MediaKeys(app) \subseteq MediaKeys(b) \cup c
  BY <1>2 DEF MediaKeys
<1>4. Fresh(o, c, {})
  BY <1>1, <1>3 DEF Fresh, ContentOps, b
<1>5. QED BY <1>4 DEF o

LEMMA ReadsBegin ==
  ASSUME TypeInv, NEW r \in Requests, Reads(r)
  PROVE  \E o, c, new : Begins(r, o, c, new)
<1> DEFINE Goal == \E o, c, new : Begins(r, o, c, new)
           e == Editable(app)
<1>0. app \in App /\ made \subseteq Media
  BY DEF TypeInv, CategoryTypeOK, ListingTypeOK
<1>1. /\ e \in Listings /\ ListingMedia(e) \subseteq MediaKeys(app)
      /\ e.shots \subseteq Media /\ e.icon \in Media \cup {NoMedia}
      /\ ListingMedia(e) = e.shots \cup ({e.icon} \ {NoMedia})
  BY <1>0, EditableOk DEF Listings, ListingMedia
<1>2. ASSUME NEW by, NEW cats \in SUBSET Categories, UpdateApp(r, by, cats)
      PROVE  Goal
  <2> DEFINE f == [cats |-> cats]
  <2>1. /\ f \in [cats : SUBSET Categories] /\ f \in UpdateFields
        /\ ImagesOf(f) = {} /\ CatsOf(f) = cats
    BY DEF UpdateFields, ImagesOf, CatsOf
  <2>2. cats \subseteq categories /\ Start(r, by, Op("update", f, "draft"), {}, {})
    BY <1>2 DEF UpdateApp
  <2> HIDE DEF f
  <2>3. ListingMedia(SetFields(e, f)) = ListingMedia(e)
    BY <1>1, <2>1, SetFieldsCats DEF ListingMedia
  <2> HIDE DEF e
  <2>4. Fresh(Op("update", f, "draft"), {}, {})
    BY <1>0, <1>1, <2>1, <2>2, <2>3, UpdateFresh DEF e
  <2>5. QED BY <2>2, <2>4, StartBegins
<1>3. ASSUME NEW by, NEW m \in Media, UploadIcon(r, by, m)
      PROVE  Goal
  <2> DEFINE f == [icon |-> m]
             c == {e.icon} \ {NoMedia}
  <2>1. /\ f \in [icon : Media] /\ f \in UpdateFields /\ f.icon = m
        /\ ImagesOf(f) = {m} /\ CatsOf(f) = {}
    BY DEF UpdateFields, ImagesOf, CatsOf
  <2>2. m \notin made /\ Start(r, by, Op("update", f, "draft"), c, {m})
    BY <1>3 DEF UploadIcon
  <2> HIDE DEF f
  <2>3. ListingMedia(SetFields(e, f)) = e.shots \cup {m}
    BY <1>1, <2>1, SetFieldsIcon, MediaAssumption DEF ListingMedia
  <2>4. c \subseteq MediaKeys(app) /\ ListingMedia(e) \cup {m} \subseteq ListingMedia(SetFields(e, f)) \cup c
    BY <1>1, <2>3
  <2> HIDE DEF e, c
  <2>5. Fresh(Op("update", f, "draft"), c, {m})
    BY <1>0, <2>1, <2>2, <2>4, UpdateFresh DEF e
  <2>6. QED BY <2>2, <2>5, StartBegins
<1>4. ASSUME NEW by, NEW m \in Media, AddScreenshot(r, by, m)
      PROVE  Goal
  <2> DEFINE f == [shots |-> e.shots \cup {m}]
  <2>1. /\ f \in [shots : SUBSET Media] /\ f \in UpdateFields /\ f.shots = e.shots \cup {m}
        /\ ImagesOf(f) = e.shots \cup {m} /\ CatsOf(f) = {}
    BY <1>1 DEF UpdateFields, ImagesOf, CatsOf
  <2>2. m \notin made /\ Start(r, by, Op("update", f, "draft"), {}, {m})
    BY <1>4 DEF AddScreenshot
  <2> HIDE DEF f
  <2>3. ListingMedia(SetFields(e, f)) = ListingMedia(e) \cup {m}
    BY <1>1, <2>1, SetFieldsShots DEF ListingMedia
  <2>4. ImagesOf(f) \subseteq MediaKeys(app) \cup {m} BY <1>1, <2>1
  <2> HIDE DEF e
  <2>5. Fresh(Op("update", f, "draft"), {}, {m})
    BY <1>0, <2>1, <2>2, <2>3, <2>4, UpdateFresh DEF e
  <2>6. QED BY <2>2, <2>5, StartBegins
<1>5. ASSUME NEW by, NEW keys \in SUBSET e.shots, SetScreenshots(r, by, keys)
      PROVE  Goal
  <2> DEFINE f == [shots |-> keys]
             c == e.shots \ keys
  <2>1. /\ f \in [shots : SUBSET Media] /\ f \in UpdateFields /\ f.shots = keys
        /\ ImagesOf(f) = keys /\ CatsOf(f) = {}
    BY <1>1 DEF UpdateFields, ImagesOf, CatsOf
  <2>2. Start(r, by, Op("update", f, "draft"), c, {})
    BY <1>5 DEF SetScreenshots
  <2> HIDE DEF f
  <2>3. ListingMedia(SetFields(e, f)) = keys \cup ({e.icon} \ {NoMedia})
    BY <1>1, <2>1, SetFieldsShots DEF ListingMedia
  <2>4. /\ c \subseteq MediaKeys(app) /\ ListingMedia(e) \subseteq ListingMedia(SetFields(e, f)) \cup c
        /\ ImagesOf(f) \subseteq MediaKeys(app)
    BY <1>1, <2>1, <2>3
  <2> HIDE DEF e, c
  <2>5. Fresh(Op("update", f, "draft"), c, {})
    BY <1>0, <2>1, <2>4, UpdateFresh DEF e
  <2>6. QED BY <2>2, <2>5, StartBegins
<1>6. ASSUME NEW by, NEW kind \in Kinds \ {"none", "update"}, NEW status \in AppStatus, NEW c,
             kind = "publish" => app.draft # NoDraft,
             c = IF kind \in {"publish", "discard"} THEN MediaKeys(app) ELSE {},
             Start(r, by, Op(kind, NoFields, status), c, {})
      PROVE  Goal
  BY <1>0, <1>6, OtherFresh, StartBegins
<1>7. "draft" \in AppStatus
  BY DEF AppStatus
<1> HIDE DEF Goal, e
<1>8. ASSUME NEW by \in Roles,
             \/ SubmitListing(r, by) \/ WithdrawListingReview(r, by) \/ DiscardListing(r, by)
             \/ WithdrawStatusRequest(r, by) \/ \E s \in AppStatus : RequestStatus(r, by, s)
      PROVE  Goal
  BY <1>0, <1>6, <1>7, <1>8
  DEF SubmitListing, WithdrawListingReview, DiscardListing, WithdrawStatusRequest, RequestStatus, Kinds
<1>9. ASSUME \/ PublishListing(r) \/ RejectListing(r) \/ ApproveStatusRequest(r)
             \/ RejectStatusRequest(r) \/ \E s \in AppStatus : SetStatus(r, s)
      PROVE  Goal
  BY <1>0, <1>6, <1>7, <1>9
  DEF PublishListing, RejectListing, ApproveStatusRequest, RejectStatusRequest, SetStatus, Kinds
<1>10. Goal
  BY <1>2, <1>3, <1>4, <1>5, <1>8, <1>9 DEF Reads, e
<1>11. QED BY <1>10 DEF Goal

-----------------------------------------------------------------------------
(***************************************************************************)
(* Types, whatever overlaps.                                               *)
(***************************************************************************)

PcType == pc \in [Requests -> {"idle", "write", "reread", "delete"}]

LEMMA TypeFacts ==
  ASSUME TypeInv
  PROVE  /\ app \in App /\ asked \in Listings \cup {NoDraft}
         /\ categories \in SUBSET Categories /\ retired \in SUBSET (Categories \ categories)
         /\ objects \subseteq made /\ made \subseteq Media
         /\ PcType /\ op \in [Requests -> Ops]
         /\ snap \in [Requests -> App \cup {NoSnapshot}] /\ cand \in [Requests -> SUBSET made]
         /\ \A r \in Requests : op[r].kind \in Kinds /\ (pc[r] = "idle" <=> op[r] = NoOp)
         /\ \A r \in Requests : pc[r] = "write" => DecidedOk(r)
         /\ MediaKeys(app) \subseteq made
         /\ move \in Moves \cup {NoMove}
BY DEF TypeInv, CategoryTypeOK, ListingTypeOK, PcType

\* After a reading half: the request in question, and the others.
LEMMA BeginsFrame ==
  ASSUME TypeInv, NEW r \in Requests, NEW o, NEW c, NEW new, Begins(r, o, c, new)
  PROVE  /\ pc'[r] = "write" /\ op'[r] = o /\ snap'[r] = app /\ cand'[r] = c
         /\ \A q \in Requests \ {r} :
              pc'[q] = pc[q] /\ op'[q] = op[q] /\ snap'[q] = snap[q] /\ cand'[q] = cand[q]
BY TypeFacts DEF Begins, PcType

LEMMA BeginsTypes ==
  ASSUME TypeInv, NEW r \in Requests, NEW o, NEW c, NEW new, Begins(r, o, c, new),
         UNCHANGED <<move, retired>>
  PROVE  TypeInv'
<1>1. /\ pc' = [pc EXCEPT ![r] = "write"] /\ op' = [op EXCEPT ![r] = o]
      /\ snap' = [snap EXCEPT ![r] = app] /\ cand' = [cand EXCEPT ![r] = c]
      /\ objects' = objects \cup new /\ made' = made \cup new
      /\ UNCHANGED <<app, categories, asked>>
      /\ Fresh(o, c, new)
  BY DEF Begins
<1>2. /\ o \in Ops /\ o.kind # "none" /\ o.kind \in Kinds /\ o # NoOp
      /\ o.kind = "update" => o.fields \in UpdateFields
      /\ o.kind = "publish" => app.draft # NoDraft
      /\ o.kind \notin ContentOps => c = {}
      /\ c \subseteq made /\ new \subseteq Media
      /\ ImagesOf(o.fields) \subseteq made \cup new
  BY <1>1, TypeFacts DEF Fresh, Ops, NoOp, Op
<1>3. CategoryTypeOK' /\ op' \in [Requests -> Ops]
  BY <1>1, <1>2, TypeFacts DEF CategoryTypeOK, ListingTypeOK, PcType
<1>4. DecidedOk(r)'
  BY <1>1, <1>2, BeginsFrame, TypeFacts DEF DecidedOk
<1>5. ASSUME NEW q \in Requests \ {r}, pc'[q] = "write"
      PROVE  DecidedOk(q)'
  <2>1. DecidedOk(q) BY <1>5, BeginsFrame, TypeFacts
  <2>2. /\ op'[q] = op[q] /\ snap'[q] = snap[q] /\ cand'[q] = cand[q]
        /\ made \subseteq made'
    BY <1>1, BeginsFrame
  <2>3. QED BY <2>1, <2>2 DEF DecidedOk
<1>6. MediaKeys(app)' \subseteq made'
  BY <1>1, TypeFacts
<1>7. QED BY <1>3, <1>4, <1>5, <1>6 DEF TypeInv

\* A handler goes on, or ends: it decides nothing, and the others stay.
Moved(r) ==
  \/ End(r)
  \/ /\ pc' \in {[pc EXCEPT ![r] = "reread"], [pc EXCEPT ![r] = "delete"]}
     /\ snap' \in {[snap EXCEPT ![r] = NoSnapshot], [snap EXCEPT ![r] = app]}
     /\ UNCHANGED <<op, cand>>

LEMMA MovedFrame ==
  ASSUME TypeInv, NEW r \in Requests, Moved(r)
  PROVE  /\ pc'[r] # "write"
         /\ \A q \in Requests \ {r} :
              pc'[q] = pc[q] /\ op'[q] = op[q] /\ snap'[q] = snap[q] /\ cand'[q] = cand[q]
<1>1. CASE End(r) BY <1>1, TypeFacts DEF End, PcType
<1>2. CASE ~End(r) BY <1>2, TypeFacts DEF Moved, PcType
<1>3. QED BY <1>1, <1>2

LEMMA MovedTypes ==
  ASSUME TypeInv, NEW r \in Requests, pc[r] # "idle", Moved(r),
         app' \in App, MediaKeys(app') \subseteq made, asked' \in Listings \cup {NoDraft},
         objects' \subseteq objects,
         UNCHANGED <<categories, made, move, retired>>
  PROVE  TypeInv'
<1>1. NoOp \in Ops /\ NoOp.kind \in Kinds
  BY DEF NoOp, Op, Ops, Kinds, AppStatus
<1>2. /\ PcType' /\ op' \in [Requests -> Ops]
      /\ snap' \in [Requests -> App \cup {NoSnapshot}] /\ cand' \in [Requests -> SUBSET made]
      /\ \A q \in Requests : op'[q].kind \in Kinds /\ (pc'[q] = "idle" <=> op'[q] = NoOp)
  <2>1. CASE End(r) BY <1>1, <2>1, TypeFacts DEF End, PcType
  <2>2. CASE ~End(r) BY <2>2, TypeFacts DEF Moved, PcType
  <2>3. QED BY <2>1, <2>2
<1>3. CategoryTypeOK'
  BY <1>2, TypeFacts DEF CategoryTypeOK, ListingTypeOK, PcType
<1>4. ASSUME NEW q \in Requests, pc'[q] = "write"
      PROVE  DecidedOk(q)'
  <2>1. q # r BY <1>4, MovedFrame
  <2>2. /\ pc'[q] = pc[q] /\ op'[q] = op[q] /\ snap'[q] = snap[q] /\ cand'[q] = cand[q]
    BY <2>1, MovedFrame
  <2>3. DecidedOk(q) BY <1>4, <2>2, TypeFacts
  <2>4. QED BY <2>2, <2>3 DEF DecidedOk
<1>5. QED BY <1>2, <1>3, <1>4 DEF TypeInv

\* What a write leaves: the document of the operation, and the candidates.
LEMMA WriteFacts ==
  ASSUME TypeInv, NEW r \in Requests, Write(r)
  PROVE  /\ pc[r] = "write" /\ DecidedOk(r) /\ op[r] \in Ops /\ snap[r] \in App
         /\ app' = Will(r) /\ app' \in App /\ MediaKeys(app') \subseteq made
         /\ Mentioned(app') \subseteq Mentioned(app) \cup Mentioned(snap[r]) \cup CatsOf(op[r].fields)
         /\ Moved(r)
         /\ cand[r] = {} => pc'[r] = "idle"
         /\ cand[r] # {} => pc'[r] = "reread" /\ cand'[r] = cand[r]
         /\ UNCHANGED <<categories, objects, made>>
<1>1. pc[r] = "write" /\ DecidedOk(r) /\ op[r] \in Ops /\ app \in App
  BY TypeFacts DEF Write
<1>2. snap[r] \in App /\ app' = Will(r)
  BY <1>1 DEF DecidedOk, Write, Will
<1>3. /\ Will(r) \in App
      /\ MediaKeys(Will(r)) \subseteq MediaKeys(app) \cup MediaKeys(snap[r]) \cup ImagesOf(op[r].fields)
      /\ Mentioned(Will(r)) \subseteq Mentioned(app) \cup Mentioned(snap[r]) \cup CatsOf(op[r].fields)
  BY <1>1, <1>2, WrittenOk DEF Will, DecidedOk
<1>4. MediaKeys(Will(r)) \subseteq made
  BY <1>1, <1>3, TypeFacts DEF DecidedOk
<1>5. Moved(r) BY DEF Write, Moved
<1>6. /\ cand[r] = {} => pc'[r] = "idle"
      /\ cand[r] # {} => pc'[r] = "reread" /\ cand'[r] = cand[r]
  BY <1>1, TypeFacts DEF Write, End, PcType
<1>7. UNCHANGED <<categories, objects, made>> BY DEF Write
<1>8. QED BY <1>1, <1>2, <1>3, <1>4, <1>5, <1>6, <1>7

LEMMA WriteTypes ==
  ASSUME TypeInv, NEW r \in Requests, Write(r), UNCHANGED <<move, retired>>
  PROVE  TypeInv'
<1>1. asked' \in Listings \cup {NoDraft}
  <2>1. snap[r].draft \in Listings \cup {NoDraft} BY WriteFacts DEF App
  <2>2. QED BY <2>1, TypeFacts DEF Write
<1>2. QED BY <1>1, WriteFacts, MovedTypes

\* The second reading, the deletion, and the end of a handler cut short.
LEMMA LaterFacts ==
  ASSUME TypeInv, NEW r \in Requests, Reread(r) \/ DeleteUnreferenced(r) \/ Abort(r)
  PROVE  /\ pc[r] # "idle" /\ Moved(r) /\ objects' \subseteq objects
         /\ UNCHANGED <<app, categories, made, asked>>
<1>1. CASE Reread(r) BY <1>1 DEF Reread, Moved
<1>2. CASE DeleteUnreferenced(r) BY <1>2 DEF DeleteUnreferenced, Moved
<1>3. CASE Abort(r) BY <1>3 DEF Abort, Moved
<1>4. QED BY <1>1, <1>2, <1>3

LEMMA LaterTypes ==
  ASSUME TypeInv, NEW r \in Requests, Reread(r) \/ DeleteUnreferenced(r) \/ Abort(r),
         UNCHANGED <<move, retired>>
  PROVE  TypeInv'
<1>1. /\ pc[r] # "idle" /\ Moved(r) /\ objects' \subseteq objects
      /\ UNCHANGED <<app, categories, made, asked>>
  BY LaterFacts
<1>2. QED BY <1>1, MovedTypes, TypeFacts

\* Every step of Listing, in these terms.
LEMMA ListingSteps ==
  ASSUME TypeInv, ListingNext
  PROVE  \E r \in Requests :
           \/ (\E o, c, new : Begins(r, o, c, new)) /\ UNCHANGED torn
           \/ Write(r) /\ UNCHANGED torn
           \/ Reread(r) /\ UNCHANGED torn
           \/ DeleteUnreferenced(r) /\ UNCHANGED torn
           \/ Abort(r)
<1>1. PICK r \in Requests :
        \/ (Reads(r) \/ Write(r) \/ Reread(r) \/ DeleteUnreferenced(r)) /\ UNCHANGED torn
        \/ Abort(r)
  BY DEF ListingNext
<1>2. Reads(r) => \E o, c, new : Begins(r, o, c, new)
  BY ReadsBegin
<1>3. QED BY <1>1, <1>2

-----------------------------------------------------------------------------
(***************************************************************************)
(* The curator moves apps and deletes categories.                          *)
(***************************************************************************)

LEMMA AddOk ==
  ASSUME TypeInv, move # NoMove, NEW l \in Listings
  PROVE  /\ AddTarget(l) \in Listings
         /\ AddTarget(l).icon = l.icon /\ AddTarget(l).shots = l.shots
         /\ AddTarget(l).cats \subseteq l.cats \cup {move.to}
<1>1. move.to \in Categories
  BY TypeFacts DEF Moves
<1>2. QED
  BY <1>1 DEF AddTarget, Listings

LEMMA PullOk ==
  ASSUME NEW l \in Listings
  PROVE  /\ PullSource(l) \in Listings
         /\ PullSource(l).icon = l.icon /\ PullSource(l).shots = l.shots
         /\ PullSource(l).cats = l.cats \ {move.from}
BY DEF PullSource, Listings

\* The four update_many of a move: what each leaves of the two listings.
LEMMA MoveFacts ==
  ASSUME TypeInv, MoveApps
  PROVE  /\ move # NoMove /\ move \in Moves
         /\ app' \in App /\ app'.status = app.status /\ app'.review = app.review
         /\ asked' \in Listings \cup {NoDraft}
         /\ UNCHANGED <<categories, objects, made, requestVars, torn, retired>>
         /\ \/ /\ move.at = "addLive" /\ move'.at = "pullLive"
               /\ app'.live = AddTarget(app.live) /\ app'.draft = app.draft /\ asked' = asked
            \/ /\ move.at = "pullLive" /\ move'.at = "addDraft"
               /\ app'.live = PullSource(app.live) /\ app'.draft = app.draft /\ asked' = asked
            \/ /\ move.at = "addDraft" /\ move'.at = "pullDraft"
               /\ app'.live = app.live /\ app'.draft = OnDraft(app.draft, AddTarget)
               /\ asked' = OnDraft(asked, AddTarget)
            \/ /\ move.at = "pullDraft" /\ (move' = NoMove \/ move'.at = "remove")
               /\ app'.live = app.live /\ app'.draft = OnDraft(app.draft, PullSource)
               /\ asked' = OnDraft(asked, PullSource)
         /\ move' = NoMove \/ (move' \in Moves /\ move'.from = move.from /\ move'.to = move.to)
<1>0. /\ move # NoMove /\ move \in Moves /\ app \in App /\ asked \in Listings \cup {NoDraft}
      /\ UNCHANGED <<categories, objects, made, requestVars, torn, retired>>
  BY TypeFacts DEF MoveApps
<1>1. app.live \in Listings /\ (app.draft # NoDraft => app.draft \in Listings)
  BY <1>0 DEF App
<1>2. CASE move.at = "addLive"
  <2>1. /\ app' = [app EXCEPT !.live = AddTarget(app.live)]
        /\ move' = [move EXCEPT !.at = "pullLive"] /\ asked' = asked
    BY <1>0, <1>2 DEF MoveApps
  <2>2. AddTarget(app.live) \in Listings BY <1>0, <1>1, AddOk
  <2>3. /\ app' \in App /\ app'.live = AddTarget(app.live) /\ app'.draft = app.draft
        /\ app'.review = app.review /\ app'.status = app.status
    BY <1>0, <2>1, <2>2 DEF App
  <2>4. move' \in Moves /\ move'.at = "pullLive" /\ move'.from = move.from /\ move'.to = move.to
    BY <1>0, <2>1 DEF Moves, MoveStep
  <2>5. QED BY <1>0, <1>2, <2>1, <2>3, <2>4
<1>3. CASE move.at = "pullLive"
  <2>1. /\ app' = [app EXCEPT !.live = PullSource(app.live)]
        /\ move' = [move EXCEPT !.at = "addDraft"] /\ asked' = asked
    BY <1>0, <1>3 DEF MoveApps
  <2>2. PullSource(app.live) \in Listings BY <1>1, PullOk
  <2>3. /\ app' \in App /\ app'.live = PullSource(app.live) /\ app'.draft = app.draft
        /\ app'.review = app.review /\ app'.status = app.status
    BY <1>0, <2>1, <2>2 DEF App
  <2>4. move' \in Moves /\ move'.at = "addDraft" /\ move'.from = move.from /\ move'.to = move.to
    BY <1>0, <2>1 DEF Moves, MoveStep
  <2>5. QED BY <1>0, <1>3, <2>1, <2>3, <2>4
<1>4. CASE move.at = "addDraft"
  <2>1. /\ app' = [app EXCEPT !.draft = OnDraft(app.draft, AddTarget)]
        /\ asked' = OnDraft(asked, AddTarget)
        /\ move' = [move EXCEPT !.at = "pullDraft"]
    BY <1>0, <1>4 DEF MoveApps
  <2>2. /\ OnDraft(app.draft, AddTarget) \in Listings \cup {NoDraft}
        /\ OnDraft(asked, AddTarget) \in Listings \cup {NoDraft}
    BY <1>0, <1>1, AddOk DEF OnDraft
  <2>3. /\ app' \in App /\ app'.live = app.live /\ app'.draft = OnDraft(app.draft, AddTarget)
        /\ app'.review = app.review /\ app'.status = app.status
    BY <1>0, <2>1, <2>2 DEF App
  <2>4. move' \in Moves /\ move'.at = "pullDraft" /\ move'.from = move.from /\ move'.to = move.to
    BY <1>0, <2>1 DEF Moves, MoveStep
  <2>5. QED BY <1>0, <1>4, <2>1, <2>2, <2>3, <2>4
<1>5. CASE move.at = "pullDraft"
  <2>1. /\ app' = [app EXCEPT !.draft = OnDraft(app.draft, PullSource)]
        /\ asked' = OnDraft(asked, PullSource)
        /\ move' = AfterMove
    BY <1>0, <1>5 DEF MoveApps
  <2>2. /\ OnDraft(app.draft, PullSource) \in Listings \cup {NoDraft}
        /\ OnDraft(asked, PullSource) \in Listings \cup {NoDraft}
    BY <1>0, <1>1, PullOk DEF OnDraft
  <2>3. /\ app' \in App /\ app'.live = app.live /\ app'.draft = OnDraft(app.draft, PullSource)
        /\ app'.review = app.review /\ app'.status = app.status
    BY <1>0, <2>1, <2>2 DEF App
  <2>4. \/ move' = NoMove
        \/ move' \in Moves /\ move'.at = "remove" /\ move'.from = move.from /\ move'.to = move.to
    BY <1>0, <2>1 DEF AfterMove, Moves, MoveStep
  <2>5. QED BY <1>0, <1>5, <2>1, <2>2, <2>3, <2>4
<1>6. QED BY <1>2, <1>3, <1>4, <1>5 DEF MoveApps

\* A move changes no image, and leaves what is submitted submitted.
LEMMA MoveSame ==
  ASSUME TypeInv, MoveApps
  PROVE  /\ SameImages(app, app')
         /\ SubmittedIsCurrent => SubmittedIsCurrent'
<1>1. app.live \in Listings /\ (app.draft # NoDraft => app.draft \in Listings) /\ move # NoMove
  BY TypeFacts, MoveFacts DEF App
<1>2. /\ AddTarget(app.live).icon = app.live.icon /\ AddTarget(app.live).shots = app.live.shots
      /\ PullSource(app.live).icon = app.live.icon /\ PullSource(app.live).shots = app.live.shots
  BY <1>1, AddOk, PullOk
<1>3. app.draft # NoDraft =>
        /\ AddTarget(app.draft) # NoDraft /\ PullSource(app.draft) # NoDraft
        /\ AddTarget(app.draft).icon = app.draft.icon /\ AddTarget(app.draft).shots = app.draft.shots
        /\ PullSource(app.draft).icon = app.draft.icon /\ PullSource(app.draft).shots = app.draft.shots
  BY <1>1, AddOk, PullOk, NoDraftAssumption
<1>4. /\ app'.live.icon = app.live.icon /\ app'.live.shots = app.live.shots
      /\ app'.draft = app.draft \/ app'.draft = OnDraft(app.draft, AddTarget)
                                \/ app'.draft = OnDraft(app.draft, PullSource)
  BY <1>2, MoveFacts
<1>5. SameImages(app, app')
  BY <1>3, <1>4 DEF SameImages, OnDraft
<1>6. ASSUME SubmittedIsCurrent PROVE SubmittedIsCurrent'
  BY <1>6, MoveFacts DEF SubmittedIsCurrent
<1>7. QED BY <1>5, <1>6

\* The other steps of the curator leave the app alone.
LEMMA CuratorSteps ==
  ASSUME TypeInv, Curator
  PROVE  \/ MoveApps
         \/ /\ UNCHANGED <<app, objects, made, asked, requestVars, torn>>
            /\ \/ \E c \in Categories \ retired :
                    /\ CuratorFree /\ move' = NoMove
                    /\ categories' = categories \cup {c} /\ retired' = retired
               \/ \E m \in Moves :
                    /\ CuratorFree /\ move' = m /\ UNCHANGED <<categories, retired>>
                    /\ m.from \in categories /\ m.to \in categories
                    /\ m.at = "addLive" \/ (m.at = "remove" /\ m.from \notin Mentioned(app))
               \/ /\ move # NoMove /\ move.at = "remove" /\ move' = NoMove
                  /\ categories' = categories \ {move.from} /\ retired' = retired \cup {move.from}
               \/ move # NoMove /\ move' = NoMove /\ UNCHANGED <<categories, retired>>
<1>1. ASSUME NEW c \in Categories, CreateCategory(c)
      PROVE  /\ UNCHANGED <<app, objects, made, asked, requestVars, torn>>
             /\ CuratorFree /\ move' = NoMove /\ c \notin retired
             /\ categories' = categories \cup {c} /\ retired' = retired
  BY <1>1 DEF CreateCategory, CuratorFree
<1>2. ASSUME NEW m \in Moves, StartMove(m)
      PROVE  /\ UNCHANGED <<app, objects, made, asked, requestVars, torn>>
             /\ CuratorFree /\ move' = m /\ UNCHANGED <<categories, retired>>
  BY <1>2 DEF StartMove, listingVars
<1> DEFINE Started == \E m \in Moves :
             /\ StartMove(m) /\ m.from \in categories /\ m.to \in categories
             /\ m.at = "addLive" \/ (m.at = "remove" /\ m.from \notin Mentioned(app))
<1>3. ASSUME NEW c \in Categories, NEW d \in Categories, ReassignApps(c, d)
      PROVE  Started
  <2> DEFINE m == [from |-> c, to |-> d, delete |-> FALSE, at |-> "addLive"]
  <2>1. m \in Moves /\ m.from = c /\ m.to = d /\ m.at = "addLive"
    BY DEF Moves, MoveStep
  <2>2. StartMove(m) /\ c \in categories /\ d \in categories BY <1>3 DEF ReassignApps
  <2> HIDE DEF m
  <2>3. QED BY <2>1, <2>2
<1>4. ASSUME NEW c \in Categories, DeleteCategory(c)
      PROVE  Started
  <2>1. c \in categories BY <1>4 DEF DeleteCategory
  <2>2. CASE ~InUse(c)
    <3> DEFINE m == [from |-> c, to |-> c, delete |-> TRUE, at |-> "remove"]
    <3>1. m \in Moves /\ m.from = c /\ m.to = c /\ m.at = "remove"
      BY DEF Moves, MoveStep
    <3>2. c \notin Mentioned(app) BY <2>2 DEF InUse, Mentioned
    <3>3. StartMove(m) BY <1>4, <2>2 DEF DeleteCategory
    <3> HIDE DEF m
    <3>4. QED BY <2>1, <3>1, <3>2, <3>3
  <2>3. CASE InUse(c)
    <3>1. PICK d \in categories :
            StartMove([from |-> c, to |-> d, delete |-> TRUE, at |-> "addLive"])
      BY <1>4, <2>3 DEF DeleteCategory
    <3> DEFINE m == [from |-> c, to |-> d, delete |-> TRUE, at |-> "addLive"]
    <3>2. m \in Moves /\ m.from = c /\ m.to = d /\ m.at = "addLive"
      BY TypeFacts DEF Moves, MoveStep
    <3>3. StartMove(m) BY <3>1
    <3> HIDE DEF m
    <3>4. QED BY <2>1, <3>2, <3>3
  <2>4. QED BY <2>2, <2>3
<1>5. CASE RemoveCategory BY <1>5 DEF RemoveCategory
<1>6. CASE MoveAborted BY <1>6 DEF MoveAborted, listingVars
<1>7. Started =>
        /\ UNCHANGED <<app, objects, made, asked, requestVars, torn>>
        /\ \E m \in Moves :
             /\ CuratorFree /\ move' = m /\ UNCHANGED <<categories, retired>>
             /\ m.from \in categories /\ m.to \in categories
             /\ m.at = "addLive" \/ (m.at = "remove" /\ m.from \notin Mentioned(app))
  BY <1>2
<1> HIDE DEF Started
<1>8. QED BY <1>1, <1>3, <1>4, <1>5, <1>6, <1>7 DEF Curator

LEMMA CuratorFrame ==
  ASSUME TypeInv, Curator
  PROVE  /\ UNCHANGED <<objects, made, pc, op, snap, cand, torn>>
         /\ SameImages(app, app') /\ app'.status = app.status
         /\ app' \in App /\ asked' \in Listings \cup {NoDraft}
         /\ categories' \in SUBSET Categories /\ retired' \in SUBSET (Categories \ categories')
         /\ move' \in Moves \cup {NoMove}
         /\ SubmittedIsCurrent => SubmittedIsCurrent'
         /\ move = NoMove => app' = app
<1>1. CASE MoveApps
  BY <1>1, MoveFacts, MoveSame, TypeFacts DEF requestVars
<1>2. CASE ~MoveApps
  <2>1. UNCHANGED <<app, objects, made, asked, requestVars, torn>>
    BY <1>2, CuratorSteps
  <2>2. /\ categories' \in SUBSET Categories /\ retired' \in SUBSET (Categories \ categories')
        /\ move' \in Moves \cup {NoMove}
    <3>1. move # NoMove => move.from \in Categories BY TypeFacts DEF Moves
    <3>2. QED BY <1>2, <3>1, CuratorSteps, TypeFacts
  <2>3. SameImages(app, app') BY <2>1 DEF SameImages
  <2>4. SubmittedIsCurrent => SubmittedIsCurrent' BY <2>1 DEF SubmittedIsCurrent
  <2>5. QED BY <2>1, <2>2, <2>3, <2>4, TypeFacts DEF requestVars
<1>3. QED BY <1>1, <1>2

LEMMA CuratorTypes ==
  ASSUME TypeInv, Curator
  PROVE  TypeInv'
<1>1. /\ UNCHANGED <<objects, made, pc, op, snap, cand>>
      /\ app' \in App /\ asked' \in Listings \cup {NoDraft}
      /\ categories' \in SUBSET Categories /\ retired' \in SUBSET (Categories \ categories')
      /\ move' \in Moves \cup {NoMove}
  BY CuratorFrame
<1>2. MediaKeys(app') = MediaKeys(app) BY CuratorFrame, SameMedia
<1>3. CategoryTypeOK' BY <1>1, TypeFacts DEF CategoryTypeOK, ListingTypeOK, PcType
<1>4. \A r \in Requests : pc'[r] = "write" => DecidedOk(r)' BY <1>1, TypeFacts DEF DecidedOk
<1>5. QED BY <1>1, <1>2, <1>3, <1>4, TypeFacts DEF TypeInv

LEMMA InitFacts ==
  ASSUME CategoryInit
  PROVE  /\ app \in App /\ app.status = "draft" /\ app.review = "none" /\ app.draft = NoDraft
         /\ MediaKeys(app) = {} /\ Mentioned(app) \subseteq categories
         /\ categories \in SUBSET Categories /\ objects = {} /\ made = {} /\ asked = NoDraft
         /\ move = NoMove /\ retired = {} /\ pc = [r \in Requests |-> "idle"]
         /\ op = [r \in Requests |-> NoOp] /\ snap = [r \in Requests |-> NoSnapshot]
         /\ cand = [r \in Requests |-> {}]
<1>1. PICK cats \in SUBSET categories :
        app = [status |-> "draft", draft |-> NoDraft, review |-> "none", request |-> "none",
               live |-> [cats |-> cats, icon |-> NoMedia, shots |-> {}]]
  BY DEF CategoryInit, ListingInit
<1>2. /\ categories \in SUBSET Categories /\ objects = {} /\ made = {} /\ asked = NoDraft
      /\ move = NoMove /\ retired = {} /\ pc = [r \in Requests |-> "idle"]
      /\ op = [r \in Requests |-> NoOp] /\ snap = [r \in Requests |-> NoSnapshot]
      /\ cand = [r \in Requests |-> {}]
  BY DEF CategoryInit, ListingInit
<1>3. app \in App
  BY <1>1, <1>2 DEF App, Listings, AppStatus
<1>4. MediaKeys(app) = {} /\ Mentioned(app) \subseteq categories
  BY <1>1 DEF MediaKeys, ListingMedia, Mentioned
<1>5. QED BY <1>1, <1>2, <1>3, <1>4

LEMMA InitTypes == CategoryInit => TypeInv
<1> HAVE CategoryInit
<1>1. NoOp \in Ops /\ NoOp.kind \in Kinds
  BY DEF NoOp, Op, Ops, Kinds, AppStatus
<1>2. CategoryTypeOK
  BY <1>1, InitFacts DEF CategoryTypeOK, ListingTypeOK
<1>3. QED BY <1>1, <1>2, InitFacts DEF TypeInv

LEMMA NextTypes ==
  ASSUME TypeInv, [CategoryNext]_categoryVars
  PROVE  TypeInv'
<1>1. CASE ListingStep
  <2>1. UNCHANGED <<move, retired>> /\ ListingNext BY <1>1 DEF ListingStep
  <2>2. QED BY <2>1, ListingSteps, BeginsTypes, WriteTypes, LaterTypes
<1>2. CASE Curator BY <1>2, CuratorTypes
<1>3. CASE UNCHANGED categoryVars
  <2>1. UNCHANGED <<app, categories, objects, made, asked, pc, op, snap, cand, torn, move, retired>>
    BY <1>3 DEF categoryVars, listingVars, requestVars
  <2>2. CategoryTypeOK' BY <2>1, TypeFacts DEF CategoryTypeOK, ListingTypeOK, PcType
  <2>3. \A r \in Requests : pc'[r] = "write" => DecidedOk(r)'
    BY <2>1, TypeFacts DEF DecidedOk
  <2>4. QED BY <2>1, <2>2, <2>3, TypeFacts DEF TypeInv
<1>4. QED BY <1>1, <1>2, <1>3 DEF CategoryNext

LEMMA TypesAlways == CategorySpec => []TypeInv
<1>1. QED BY InitTypes, NextTypes, PTL DEF CategorySpec

-----------------------------------------------------------------------------
(***************************************************************************)
(* Images: while no two handlers that change the listings have both        *)
(* decided.                                                                *)
(***************************************************************************)

\* What no step of the others changes for q: what it will write or delete.
LEMMA SameWill ==
  ASSUME TypeInv, NEW q \in Requests, pc[q] = "write", SameImages(app, app'), app' \in App,
         op'[q] = op[q], snap'[q] = snap[q]
  PROVE  MediaKeys(Will(q)') = MediaKeys(Will(q))
<1>1. DecidedOk(q) /\ op[q] \in Ops /\ app \in App BY TypeFacts
<1>2. snap[q] \in App BY <1>1 DEF DecidedOk
<1> DEFINE x == Written(app, op[q], snap[q])
           y == Written(app', op[q], snap[q])
<1>3. SameImages(x, y) BY <1>1, <1>2, SameWritten DEF DecidedOk
<1>4. Will(q) = x /\ Will(q)' = y BY DEF Will
<1> HIDE DEF x, y
<1>5. QED BY <1>3, <1>4, SameMedia

LEMMA SameApp == \A a \in App : SameImages(a, a)
BY DEF SameImages

\* What a request may still delete is among its candidates.
LEMMA UselessOk ==
  ASSUME NEW q \in Requests
  PROVE  /\ Useless(q) \subseteq cand[q]
         /\ pc[q] \notin {"reread", "delete"} => Useless(q) = {}
BY DEF Useless

LEMMA BeginsImages ==
  ASSUME TypeInv, MediaInv, ContentApart', NEW r \in Requests, NEW o, NEW c, NEW new,
         Begins(r, o, c, new), UNCHANGED torn
  PROVE  MediaInv'
<1>1. /\ pc[r] = "idle" /\ objects' = objects \cup new /\ UNCHANGED app /\ Fresh(o, c, new)
      /\ pc'[r] = "write" /\ op'[r] = o /\ snap'[r] = app /\ cand'[r] = c
      /\ \A q \in Requests \ {r} :
           pc'[q] = pc[q] /\ op'[q] = op[q] /\ snap'[q] = snap[q] /\ cand'[q] = cand[q]
  BY BeginsFrame DEF Begins
<1>2. MediaKept' BY <1>1 DEF MediaInv, MediaKept
<1>3. \A q \in Requests \ {r} : (Content(q)' <=> Content(q)) /\ Will(q)' = Will(q) /\ Useless(q)' = Useless(q)
  BY <1>1 DEF Content, Deciding, Will, Useless
<1>4. Will(r)' = Written(app, o, app)
  BY <1>1 DEF Will
<1>5. Content(r)' <=> o.kind \in ContentOps
  BY <1>1 DEF Content, Deciding
<1>6. ASSUME Content(r)' PROVE WillOk(r)'
  <2>1. /\ MediaKeys(Will(r)') \subseteq MediaKeys(app) \cup new
        /\ MediaKeys(app) \subseteq MediaKeys(Will(r)') \cup c
    BY <1>1, <1>4 DEF Fresh
  <2>2. MediaKeys(Will(r)') \subseteq objects'
    BY <1>1, <2>1 DEF MediaInv, MediaKept
  <2>3. ASSUME NEW q \in Requests, pc'[q] \in {"reread", "delete"}
        PROVE  cand'[q] \cap MediaKeys(Will(r)') \subseteq MediaKeys(app)
    <3>1. q # r BY <1>1, <2>3
    <3>2. cand'[q] \subseteq made BY <1>1, <3>1, TypeFacts
    <3>3. new \cap made = {} BY <1>1 DEF Fresh
    <3>4. QED BY <2>1, <3>2, <3>3
  <2>4. QED BY <1>1, <2>1, <2>2, <2>3 DEF WillOk
<1>7. ASSUME NEW q \in Requests, Content(q)'
      PROVE  WillOk(q)'
  <2>1. CASE q = r BY <1>6, <1>7, <2>1
  <2>2. CASE q # r
    <3>1. WillOk(q) /\ Will(q)' = Will(q) BY <1>3, <1>7, <2>2 DEF MediaInv
    <3>2. \A p \in Requests : pc'[p] \in {"reread", "delete"} => p # r /\ pc[p] = pc'[p] /\ cand'[p] = cand[p]
      BY <1>1
    <3>3. QED BY <1>1, <2>2, <3>1, <3>2 DEF WillOk
  <2>3. QED BY <2>1, <2>2
<1>8. ASSUME NEW q \in Requests, pc'[q] = "delete"
      PROVE  Useless(q)' \cap MediaKeys(app)' = {}
  BY <1>1, <1>3, <1>8 DEF MediaInv
<1>9. ASSUME ~torn', NEW m \in objects'
      PROVE  Kept(m)' \/ Owed(m)'
  <2>1. CASE m \in objects
    <3>1. Kept(m) \/ Owed(m) BY <1>9, <2>1 DEF MediaInv
    <3>2. CASE m \in MediaKeys(app) BY <1>1, <3>2 DEF Kept
    <3>3. ASSUME NEW q \in Requests, Content(q), m \in MediaKeys(Will(q))
          PROVE  Kept(m)'
      <4>1. q # r BY <1>1, <3>3 DEF Content, Deciding
      <4>2. Content(q)' /\ Will(q)' = Will(q) BY <1>3, <3>3, <4>1
      <4>3. QED BY <3>3, <4>2 DEF Kept
    <3>4. ASSUME NEW q \in Requests, m \in Useless(q)
          PROVE  Owed(m)'
      <4>1. q # r BY <1>1, <3>4, UselessOk
      <4>2. QED BY <1>3, <3>4, <4>1 DEF Owed
    <3>5. QED BY <3>1, <3>2, <3>3, <3>4 DEF Kept, Owed
  <2>2. CASE m \in new
    <3>1. o.kind \in ContentOps /\ m \notin made BY <1>1, <2>2 DEF Fresh
    <3>2. m \in MediaKeys(Will(r)') \cup c BY <1>1, <1>4, <2>2 DEF Fresh
    <3>3. c \subseteq made BY <1>1, TypeFacts DEF Fresh
    <3>4. QED BY <1>5, <3>1, <3>2, <3>3 DEF Kept
  <2>3. QED BY <1>1, <1>9, <2>1, <2>2
<1>10. QED BY <1>2, <1>7, <1>8, <1>9 DEF MediaInv

\* A write of what leaves both listings alone.
LEMMA OtherWrite ==
  ASSUME TypeInv, NEW r \in Requests, Write(r), op[r].kind \notin ContentOps
  PROVE  SameImages(app, app') /\ cand[r] = {} /\ pc'[r] = "idle"
<1>1. DecidedOk(r) /\ op[r] \in Ops /\ snap[r] \in App /\ app \in App /\ app' = Will(r)
  BY WriteFacts, TypeFacts
<1>2. op[r].kind \notin {"none", "update", "publish", "discard"}
  BY <1>1 DEF DecidedOk, ContentOps
<1>3. Will(r).live = app.live /\ Will(r).draft = app.draft
  BY <1>1, <1>2, OtherOk DEF Will
<1>4. SameImages(app, app')
  BY <1>1, <1>3 DEF SameImages
<1>5. QED BY <1>1, <1>4, WriteFacts DEF DecidedOk

LEMMA WriteImages ==
  ASSUME TypeInv, MediaInv, ContentApart, NEW r \in Requests, Write(r), UNCHANGED torn
  PROVE  MediaInv'
<1>1. /\ pc[r] = "write" /\ app' = Will(r) /\ app' \in App /\ objects' = objects
      /\ pc'[r] # "write" /\ pc'[r] # "delete"
      /\ cand[r] # {} => pc'[r] = "reread" /\ cand'[r] = cand[r]
      /\ \A q \in Requests \ {r} :
           pc'[q] = pc[q] /\ op'[q] = op[q] /\ snap'[q] = snap[q] /\ cand'[q] = cand[q]
  BY WriteFacts, MovedFrame
<1>2. \A q \in Requests \ {r} : (Content(q)' <=> Content(q)) /\ Useless(q)' = Useless(q)
  BY <1>1 DEF Content, Deciding, Useless
<1>3. ~Content(r)' /\ Useless(r) = {}
  BY <1>1 DEF Content, Deciding, Useless
<1>4. CASE op[r].kind \in ContentOps
  <2>1. Content(r) /\ WillOk(r) BY <1>1, <1>4 DEF MediaInv, Content, Deciding
  <2>2. \A q \in Requests : ~Content(q)' BY <1>2, <1>3, <2>1 DEF ContentApart
  <2>3. MediaKept' BY <1>1, <2>1 DEF WillOk, MediaKept
  <2>4. ASSUME NEW q \in Requests, pc'[q] = "delete"
        PROVE  Useless(q)' \cap MediaKeys(app)' = {}
    <3>1. q # r /\ pc[q] = "delete" /\ Useless(q)' = Useless(q) BY <1>1, <1>2, <2>4
    <3>2. /\ Useless(q) \cap MediaKeys(app) = {}
          /\ cand[q] \cap MediaKeys(Will(r)) \subseteq MediaKeys(app)
      BY <2>1, <3>1 DEF MediaInv, WillOk
    <3>3. QED BY <1>1, <3>1, <3>2, UselessOk
  <2>5. ASSUME ~torn', NEW m \in objects'
        PROVE  Kept(m)' \/ Owed(m)'
    <3>1. Kept(m) \/ Owed(m) BY <1>1, <2>5 DEF MediaInv
    <3>2. CASE m \in MediaKeys(app)
      <4>1. m \in MediaKeys(Will(r)) \cup cand[r] BY <2>1, <3>2 DEF WillOk
      <4>2. CASE m \in MediaKeys(Will(r)) BY <1>1, <4>2 DEF Kept
      <4>3. CASE m \in cand[r]
        <5>1. pc'[r] = "reread" /\ cand'[r] = cand[r] BY <1>1, <4>3
        <5>2. m \in Useless(r)' BY <4>3, <5>1 DEF Useless
        <5>3. QED BY <5>2 DEF Owed
      <4>4. QED BY <4>1, <4>2, <4>3
    <3>3. ASSUME NEW q \in Requests, Content(q), m \in MediaKeys(Will(q))
          PROVE  Kept(m)'
      <4>1. q = r BY <2>1, <3>3 DEF ContentApart
      <4>2. QED BY <1>1, <3>3, <4>1 DEF Kept
    <3>4. ASSUME NEW q \in Requests, m \in Useless(q)
          PROVE  Owed(m)'
      <4>1. q # r BY <1>3, <3>4
      <4>2. QED BY <1>2, <3>4, <4>1 DEF Owed
    <3>5. QED BY <3>1, <3>2, <3>3, <3>4 DEF Kept, Owed
  <2>6. QED BY <2>2, <2>3, <2>4, <2>5 DEF MediaInv
<1>5. CASE op[r].kind \notin ContentOps
  <2>1. SameImages(app, app') /\ MediaKeys(app') = MediaKeys(app) /\ pc'[r] = "idle"
    BY <1>5, OtherWrite, SameMedia
  <2>2. ASSUME NEW q \in Requests \ {r}, Content(q)
        PROVE  MediaKeys(Will(q)') = MediaKeys(Will(q))
    BY <1>1, <2>1, <2>2, SameWill DEF Content, Deciding
  <2>3. ~Content(r) BY <1>5 DEF Content, Deciding
  <2>4. MediaKept' BY <1>1, <2>1 DEF MediaInv, MediaKept
  <2>5. ASSUME NEW q \in Requests, Content(q)'
        PROVE  WillOk(q)'
    <3>1. q # r /\ Content(q) BY <1>2, <1>3, <2>5
    <3>2. WillOk(q) /\ MediaKeys(Will(q)') = MediaKeys(Will(q)) /\ cand'[q] = cand[q]
      BY <1>1, <2>2, <3>1 DEF MediaInv
    <3>3. \A p \in Requests : pc'[p] \in {"reread", "delete"} => pc[p] = pc'[p] /\ cand'[p] = cand[p]
      BY <1>1, <2>1
    <3>4. QED BY <1>1, <2>1, <3>2, <3>3 DEF WillOk
  <2>6. ASSUME NEW q \in Requests, pc'[q] = "delete"
        PROVE  Useless(q)' \cap MediaKeys(app)' = {}
    BY <1>1, <1>2, <2>1, <2>6 DEF MediaInv
  <2>7. ASSUME ~torn', NEW m \in objects'
        PROVE  Kept(m)' \/ Owed(m)'
    <3>1. Kept(m) \/ Owed(m) BY <1>1, <2>7 DEF MediaInv
    <3>2. CASE m \in MediaKeys(app) BY <2>1, <3>2 DEF Kept
    <3>3. ASSUME NEW q \in Requests, Content(q), m \in MediaKeys(Will(q))
          PROVE  Kept(m)'
      <4>1. q # r /\ Content(q)' BY <1>2, <2>3, <3>3
      <4>2. QED BY <2>2, <3>3, <4>1 DEF Kept
    <3>4. ASSUME NEW q \in Requests, m \in Useless(q)
          PROVE  Owed(m)'
      BY <1>2, <1>3, <3>4 DEF Owed
    <3>5. QED BY <3>1, <3>2, <3>3, <3>4 DEF Kept, Owed
  <2>8. QED BY <2>4, <2>5, <2>6, <2>7 DEF MediaInv
<1>6. QED BY <1>4, <1>5

\* The second reading: what the app mentions by now stays.
LEMMA RereadImages ==
  ASSUME TypeInv, MediaInv, NEW r \in Requests, Reread(r), UNCHANGED torn
  PROVE  MediaInv'
<1>1. /\ pc[r] = "reread" /\ pc'[r] = "delete" /\ snap'[r] = app
      /\ UNCHANGED <<app, objects, cand, op>>
      /\ \A q \in Requests \ {r} : pc'[q] = pc[q] /\ snap'[q] = snap[q]
  BY TypeFacts DEF Reread, PcType
<1>2. \A q \in Requests : (Content(q)' <=> Content(q)) /\ (Content(q) => Will(q)' = Will(q))
  BY <1>1 DEF Content, Deciding, Will
<1>3. /\ Useless(r) = cand[r] /\ Useless(r)' = cand[r] \ MediaKeys(app)
      /\ \A q \in Requests \ {r} : Useless(q)' = Useless(q)
  BY <1>1 DEF Useless
<1>4. ASSUME NEW q \in Requests, Content(q)'
      PROVE  WillOk(q)'
  <2>1. WillOk(q) /\ Will(q)' = Will(q) BY <1>2, <1>4 DEF MediaInv
  <2>2. \A p \in Requests : pc'[p] \in {"reread", "delete"} => pc[p] \in {"reread", "delete"}
    BY <1>1
  <2>3. QED BY <1>1, <2>1, <2>2 DEF WillOk
<1>5. ASSUME NEW q \in Requests, pc'[q] = "delete"
      PROVE  Useless(q)' \cap MediaKeys(app)' = {}
  BY <1>1, <1>3, <1>5 DEF MediaInv
<1>6. ASSUME ~torn', NEW m \in objects'
      PROVE  Kept(m)' \/ Owed(m)'
  <2>1. Kept(m) \/ Owed(m) BY <1>1, <1>6 DEF MediaInv
  <2>2. CASE Kept(m) BY <1>1, <1>2, <2>2 DEF Kept
  <2>3. CASE m \in MediaKeys(app) BY <1>1, <2>3 DEF Kept
  <2>4. CASE Owed(m) /\ m \notin MediaKeys(app) BY <1>3, <2>4 DEF Owed
  <2>5. QED BY <2>1, <2>2, <2>3, <2>4
<1>7. QED BY <1>1, <1>4, <1>5, <1>6 DEF MediaInv, MediaKept

\* Neither the listings nor a handler that has decided mentions what goes.
LEMMA DeleteImages ==
  ASSUME TypeInv, MediaInv, NEW r \in Requests, DeleteUnreferenced(r), UNCHANGED torn
  PROVE  MediaInv'
<1>1. /\ pc[r] = "delete" /\ pc'[r] = "idle" /\ objects' = objects \ Useless(r) /\ UNCHANGED app
      /\ \A q \in Requests \ {r} :
           pc'[q] = pc[q] /\ op'[q] = op[q] /\ snap'[q] = snap[q] /\ cand'[q] = cand[q]
  BY TypeFacts DEF DeleteUnreferenced, Useless, End, PcType
<1>2. /\ ~Content(r) /\ ~Content(r)'
      /\ \A q \in Requests \ {r} :
           (Content(q)' <=> Content(q)) /\ Will(q)' = Will(q) /\ Useless(q)' = Useless(q)
  BY <1>1 DEF Content, Deciding, Will, Useless
<1>3. Useless(r) \cap MediaKeys(app) = {} BY <1>1 DEF MediaInv
<1>4. ASSUME NEW q \in Requests, Content(q)'
      PROVE  WillOk(q)'
  <2>1. q # r /\ WillOk(q) /\ Will(q)' = Will(q) /\ cand'[q] = cand[q]
    BY <1>1, <1>2, <1>4 DEF MediaInv
  <2>2. cand[r] \cap MediaKeys(Will(q)) \subseteq MediaKeys(app) BY <1>1, <2>1 DEF WillOk
  <2>3. Useless(r) \cap MediaKeys(Will(q)) = {} BY <1>3, <2>2, UselessOk
  <2>4. \A p \in Requests : pc'[p] \in {"reread", "delete"} => pc[p] = pc'[p] /\ cand'[p] = cand[p]
    BY <1>1
  <2>5. QED BY <1>1, <2>1, <2>3, <2>4 DEF WillOk
<1>5. ASSUME NEW q \in Requests, pc'[q] = "delete"
      PROVE  Useless(q)' \cap MediaKeys(app)' = {}
  BY <1>1, <1>2, <1>5 DEF MediaInv
<1>6. ASSUME ~torn', NEW m \in objects'
      PROVE  Kept(m)' \/ Owed(m)'
  <2>1. (Kept(m) \/ Owed(m)) /\ m \notin Useless(r) BY <1>1, <1>6 DEF MediaInv
  <2>2. CASE Kept(m) BY <1>1, <1>2, <2>2 DEF Kept
  <2>3. CASE Owed(m) BY <1>2, <2>1, <2>3 DEF Owed
  <2>4. QED BY <2>1, <2>2, <2>3
<1>7. QED BY <1>1, <1>3, <1>4, <1>5, <1>6 DEF MediaInv, MediaKept

LEMMA AbortImages ==
  ASSUME TypeInv, MediaInv, NEW r \in Requests, Abort(r)
  PROVE  MediaInv'
<1>1. /\ pc'[r] = "idle" /\ torn' /\ UNCHANGED <<app, objects>>
      /\ \A q \in Requests \ {r} :
           pc'[q] = pc[q] /\ op'[q] = op[q] /\ snap'[q] = snap[q] /\ cand'[q] = cand[q]
  BY TypeFacts DEF Abort, End, PcType
<1>2. /\ ~Content(r)'
      /\ \A q \in Requests \ {r} :
           (Content(q)' <=> Content(q)) /\ Will(q)' = Will(q) /\ Useless(q)' = Useless(q)
  BY <1>1 DEF Content, Deciding, Will, Useless
<1>3. ASSUME NEW q \in Requests, Content(q)'
      PROVE  WillOk(q)'
  <2>1. q # r /\ WillOk(q) /\ Will(q)' = Will(q) /\ cand'[q] = cand[q]
    BY <1>1, <1>2, <1>3 DEF MediaInv
  <2>2. \A p \in Requests : pc'[p] \in {"reread", "delete"} => pc[p] = pc'[p] /\ cand'[p] = cand[p]
    BY <1>1
  <2>3. QED BY <1>1, <2>1, <2>2 DEF WillOk
<1>4. ASSUME NEW q \in Requests, pc'[q] = "delete"
      PROVE  Useless(q)' \cap MediaKeys(app)' = {}
  BY <1>1, <1>2, <1>4 DEF MediaInv
<1>5. QED BY <1>1, <1>3, <1>4 DEF MediaInv, MediaKept

\* The curator changes no image, whatever the handlers are doing.
LEMMA CuratorImages ==
  ASSUME TypeInv, MediaInv, SameImages(app, app'), app' \in App,
         UNCHANGED <<objects, pc, op, snap, cand, torn>>
  PROVE  MediaInv'
<1>1. MediaKeys(app') = MediaKeys(app) BY SameMedia
<1>2. \A q \in Requests :
        /\ (Content(q)' <=> Content(q)) /\ Useless(q)' = Useless(q)
        /\ Content(q) => MediaKeys(Will(q)') = MediaKeys(Will(q))
  BY SameWill DEF Content, Deciding, Useless
<1>3. \A q \in Requests : Content(q)' => WillOk(q)'
  BY <1>1, <1>2 DEF MediaInv, WillOk
<1>4. \A q \in Requests : pc'[q] = "delete" => Useless(q)' \cap MediaKeys(app)' = {}
  BY <1>1, <1>2 DEF MediaInv
<1>5. \A m \in objects' : (Kept(m) \/ Owed(m)) => (Kept(m)' \/ Owed(m)')
  BY <1>1, <1>2 DEF Kept, Owed
<1>6. QED BY <1>1, <1>3, <1>4, <1>5 DEF MediaInv, MediaKept

LEMMA InitImages == CategoryInit => MediaInv
<1> HAVE CategoryInit
<1>1. MediaKeys(app) = {} /\ objects = {} /\ \A r \in Requests : pc[r] = "idle"
  BY InitFacts
<1>2. QED BY <1>1 DEF MediaInv, MediaKept, Content, Deciding

LEMMA NextImages ==
  ASSUME TypeInv, MediaInv, ContentApart, ContentApart', [CategoryNext]_categoryVars
  PROVE  MediaInv'
<1>1. CASE ListingStep
  <2>1. ListingNext BY <1>1 DEF ListingStep
  <2>2. QED BY <2>1, ListingSteps, BeginsImages, WriteImages, RereadImages, DeleteImages, AbortImages
<1>2. CASE Curator BY <1>2, CuratorFrame, CuratorImages
<1>3. CASE UNCHANGED categoryVars
  <2>1. UNCHANGED <<app, objects, pc, op, snap, cand, torn>>
    BY <1>3 DEF categoryVars, listingVars, requestVars
  <2>2. SameImages(app, app') /\ app' \in App BY <2>1, SameApp, TypeFacts
  <2>3. QED BY <2>1, <2>2, CuratorImages
<1>4. QED BY <1>1, <1>2, <1>3 DEF CategoryNext

LEMMA ImagesAlways == CategorySpec /\ []ContentApart => []MediaInv
<1>1. QED BY InitImages, NextImages, TypesAlways, PTL DEF CategorySpec

-----------------------------------------------------------------------------
(***************************************************************************)
(* When the curator works only while no handler of Listing runs.           *)
(***************************************************************************)

CuratorAlone == move # NoMove => NothingRunning

LEMMA NextAlone ==
  ASSUME TypeInv, CuratorAlone, ~Overlap, [CategoryNext]_categoryVars
  PROVE  CuratorAlone'
<1>1. CASE ListingStep BY <1>1 DEF ListingStep, CuratorAlone
<1>2. CASE Curator
  <2>1. pc' = pc BY <1>2, CuratorFrame
  <2>2. move' # NoMove => NothingRunning
    BY <1>2, CuratorSteps, MoveFacts DEF CuratorFree, CuratorAlone
  <2>3. QED BY <2>1, <2>2 DEF CuratorAlone, NothingRunning
<1>3. CASE UNCHANGED categoryVars
  BY <1>3 DEF categoryVars, listingVars, requestVars, CuratorAlone, NothingRunning
<1>4. QED BY <1>1, <1>2, <1>3 DEF CategoryNext

LEMMA AloneAlways == ASSUME ~Overlap PROVE CategorySpec => []CuratorAlone
<1>1. CategoryInit => CuratorAlone BY InitFacts DEF CuratorAlone
<1>2. QED BY <1>1, NextAlone, TypesAlways, PTL DEF CategorySpec

-----------------------------------------------------------------------------
(***************************************************************************)
(* Reviews.                                                                *)
(***************************************************************************)

LEMMA WriteSubmitted ==
  ASSUME TypeInv, SubmitInv, SubmitsApart, NEW r \in Requests, Write(r)
  PROVE  SubmitInv'
<1>1. /\ pc[r] = "write" /\ DecidedOk(r) /\ op[r] \in Ops /\ snap[r] \in App /\ app \in App
      /\ app' = Written(app, op[r], snap[r])
      /\ pc'[r] # "write"
      /\ \A q \in Requests \ {r} : pc'[q] = pc[q] /\ op'[q] = op[q] /\ snap'[q] = snap[q]
      /\ asked' = IF op[r].kind = "submit" THEN snap[r].draft
                  ELSE IF app'.review = "pending" THEN asked ELSE NoDraft
  BY WriteFacts, MovedFrame, TypeFacts DEF Will, Write
<1>2. ASSUME NEW q \in Requests, Deciding(q, {"submit"})'
      PROVE  snap'[q].draft = app'.draft
  <2>1. q # r /\ Deciding(q, {"submit"}) /\ snap'[q] = snap[q]
    BY <1>1, <1>2 DEF Deciding
  <2>2. ~Content(r) /\ snap[q].draft = app.draft
    BY <2>1 DEF SubmitsApart, SubmitInv
  <2>3. op[r].kind \notin {"none", "update", "publish", "discard"}
    BY <1>1, <2>2 DEF Content, Deciding, ContentOps, DecidedOk
  <2>4. Written(app, op[r], snap[r]).draft = app.draft
    BY <1>1, <2>3, OtherOk
  <2>5. QED BY <1>1, <2>1, <2>2, <2>4
<1>3. ASSUME app'.review = "pending"
      PROVE  app'.draft = asked'
  <2>1. CASE op[r].kind = "submit"
    <3>1. snap[r].draft = app.draft BY <1>1, <2>1 DEF SubmitInv, Deciding
    <3>2. Written(app, op[r], snap[r]).draft = app.draft BY <1>1, <2>1, OtherOk
    <3>3. QED BY <1>1, <2>1, <3>1, <3>2
  <2>2. CASE op[r].kind = "update"
    <3> DEFINE f == op[r].fields
    <3>1. app' = UpdateListing(app, snap[r], f) /\ f \in UpdateFields
      BY <1>1, <2>2 DEF Written, DecidedOk
    <3> HIDE DEF f
    <3>2. /\ UsesDraft(snap[r]) => UpdateListing(app, snap[r], f).review = "none"
          /\ ~UsesDraft(snap[r]) => /\ UpdateListing(app, snap[r], f).draft = app.draft
                                    /\ UpdateListing(app, snap[r], f).review = app.review
      BY <1>1, <3>1, UpdateOk
    <3>3. app'.draft = app.draft /\ app.review = "pending" BY <1>3, <3>1, <3>2
    <3>4. QED BY <1>1, <1>3, <2>2, <3>3 DEF SubmitInv, SubmittedIsCurrent
  <2>3. CASE op[r].kind \in {"publish", "discard", "reject", "withdraw"}
    <3>1. Written(app, op[r], snap[r]).review # "pending" BY <1>1, <2>3, OtherOk DEF DecidedOk
    <3>2. QED BY <1>1, <1>3, <3>1
  <2>4. CASE op[r].kind \in {"status", "ask", "refuse", "cancel"}
    <3> DEFINE o == op[r]
    <3>1. /\ app \in App /\ snap[r] \in App /\ o \in Ops
          /\ o.kind \notin {"none", "update", "publish", "discard"}
          /\ o.kind \in {"status", "ask", "refuse", "cancel"}
      BY <1>1, <2>4
    <3> HIDE DEF o
    <3>2. Written(app, o, snap[r]).review = app.review
      BY <3>1, OtherOk
    <3>3. Written(app, o, snap[r]).draft = app.draft
      BY <3>1, OtherOk
    <3>4. QED BY <1>1, <1>3, <2>4, <3>2, <3>3 DEF o, SubmitInv, SubmittedIsCurrent
  <2>5. QED BY <1>1, <2>1, <2>2, <2>3, <2>4 DEF Ops, Kinds, DecidedOk
<1>4. QED BY <1>2, <1>3 DEF SubmitInv, SubmittedIsCurrent

LEMMA NextSubmitted ==
  ASSUME TypeInv, SubmitInv, SubmitsApart, CuratorAlone, [CategoryNext]_categoryVars
  PROVE  SubmitInv'
<1>1. ASSUME NEW r \in Requests, NEW o, NEW c, NEW new, Begins(r, o, c, new)
      PROVE  SubmitInv'
  <2>1. /\ UNCHANGED <<app, asked>> /\ snap'[r] = app
        /\ \A q \in Requests \ {r} : pc'[q] = pc[q] /\ op'[q] = op[q] /\ snap'[q] = snap[q]
    BY <1>1, BeginsFrame DEF Begins
  <2>2. ASSUME NEW q \in Requests, Deciding(q, {"submit"})'
        PROVE  snap'[q].draft = app'.draft
    <3>1. CASE q = r BY <2>1, <3>1
    <3>2. CASE q # r BY <2>1, <2>2, <3>2 DEF SubmitInv, Deciding
    <3>3. QED BY <3>1, <3>2
  <2>3. QED BY <2>1, <2>2 DEF SubmitInv, SubmittedIsCurrent
<1>2. ASSUME NEW r \in Requests, Reread(r) \/ DeleteUnreferenced(r) \/ Abort(r)
      PROVE  SubmitInv'
  <2>1. /\ UNCHANGED <<app, asked>> /\ pc'[r] # "write"
        /\ \A q \in Requests \ {r} : pc'[q] = pc[q] /\ op'[q] = op[q] /\ snap'[q] = snap[q]
    BY <1>2, LaterFacts, MovedFrame
  <2>2. QED BY <2>1 DEF SubmitInv, SubmittedIsCurrent, Deciding
<1>3. CASE ListingStep
  <2>1. ListingNext BY <1>3 DEF ListingStep
  <2>2. QED BY <1>1, <1>2, <2>1, ListingSteps, WriteSubmitted
<1>4. CASE Curator
  <2>1. SubmittedIsCurrent' /\ UNCHANGED <<pc, op, snap>> /\ (move = NoMove => app' = app)
    BY <1>4, CuratorFrame DEF SubmitInv
  <2>2. CASE move = NoMove BY <2>1, <2>2 DEF SubmitInv, Deciding
  <2>3. CASE move # NoMove BY <2>1, <2>3 DEF SubmitInv, Deciding, CuratorAlone, NothingRunning
  <2>4. QED BY <2>2, <2>3
<1>5. CASE UNCHANGED categoryVars
  BY <1>5 DEF categoryVars, listingVars, requestVars, SubmitInv, SubmittedIsCurrent, Deciding
<1>6. QED BY <1>3, <1>4, <1>5 DEF CategoryNext

-----------------------------------------------------------------------------
(***************************************************************************)
(* What is visible.                                                        *)
(***************************************************************************)

\* Which writes change the status, and which the live listing.
LEMMA WriteVisible ==
  ASSUME TypeInv, NEW r \in Requests, Write(r)
  PROVE  /\ op[r].kind # "status" => app'.status = app.status
         /\ app'.live # app.live =>
              \/ op[r].kind = "publish"
              \/ Deciding(r, {"update"}) /\ ~UsesDraft(snap[r])
<1>1. /\ pc[r] = "write" /\ DecidedOk(r) /\ op[r] \in Ops /\ snap[r] \in App /\ app \in App
      /\ app' = Written(app, op[r], snap[r])
  BY WriteFacts, TypeFacts DEF Will
<1>2. CASE op[r].kind = "update"
  <2> DEFINE f == op[r].fields
  <2>1. app' = UpdateListing(app, snap[r], f) /\ f \in UpdateFields
    BY <1>1, <1>2 DEF Written, DecidedOk
  <2> HIDE DEF f
  <2>2. /\ UpdateListing(app, snap[r], f).status = app.status
        /\ UsesDraft(snap[r]) => UpdateListing(app, snap[r], f).live = app.live
    BY <1>1, <2>1, UpdateOk
  <2>3. QED BY <1>1, <1>2, <2>1, <2>2 DEF Deciding
<1>3. CASE op[r].kind # "update"
  <2>1. /\ op[r].kind # "status" => Written(app, op[r], snap[r]).status = app.status
        /\ op[r].kind # "publish" => Written(app, op[r], snap[r]).live = app.live
    BY <1>1, <1>3, OtherOk DEF DecidedOk
  <2>2. QED BY <1>1, <2>1
<1>4. QED BY <1>2, <1>3

LEMMA NextVisible ==
  ASSUME TypeInv, VisibleInv, StatusApart, [CategoryNext]_categoryVars
  PROVE  VisibleInv'
<1>1. ASSUME NEW r \in Requests, NEW o, NEW c, NEW new, Begins(r, o, c, new)
      PROVE  VisibleInv'
  <2>1. /\ UNCHANGED app /\ snap'[r] = app
        /\ \A q \in Requests \ {r} : pc'[q] = pc[q] /\ op'[q] = op[q] /\ snap'[q] = snap[q]
    BY <1>1, BeginsFrame DEF Begins
  <2>2. ASSUME NEW q \in Requests, Deciding(q, {"update"})', ~UsesDraft(snap'[q])
        PROVE  app'.status # "published"
    <3>1. CASE q = r BY <2>1, <2>2, <3>1 DEF UsesDraft
    <3>2. CASE q # r
      <4>1. Deciding(q, {"update"}) /\ ~UsesDraft(snap[q]) BY <2>1, <2>2, <3>2 DEF Deciding
      <4>2. QED BY <2>1, <4>1 DEF VisibleInv
    <3>3. QED BY <3>1, <3>2
  <2>3. QED BY <2>2 DEF VisibleInv
<1>2. ASSUME NEW r \in Requests, Write(r)
      PROVE  VisibleInv'
  <2>1. /\ pc[r] = "write" /\ pc'[r] # "write"
        /\ \A q \in Requests \ {r} : pc'[q] = pc[q] /\ op'[q] = op[q] /\ snap'[q] = snap[q]
    BY <1>2, WriteFacts, MovedFrame
  <2>2. ASSUME NEW q \in Requests, Deciding(q, {"update"})', ~UsesDraft(snap'[q])
        PROVE  app'.status # "published"
    <3>1. q # r /\ Deciding(q, {"update"}) /\ ~UsesDraft(snap[q]) BY <2>1, <2>2 DEF Deciding
    <3>2. op[r].kind # "status" BY <2>1, <3>1 DEF StatusApart, Deciding
    <3>3. app'.status = app.status BY <1>2, <3>2, WriteVisible
    <3>4. QED BY <3>1, <3>3 DEF VisibleInv
  <2>3. QED BY <2>2 DEF VisibleInv
<1>3. ASSUME NEW r \in Requests, Reread(r) \/ DeleteUnreferenced(r) \/ Abort(r)
      PROVE  VisibleInv'
  <2>1. /\ UNCHANGED app /\ pc'[r] # "write"
        /\ \A q \in Requests \ {r} : pc'[q] = pc[q] /\ op'[q] = op[q] /\ snap'[q] = snap[q]
    BY <1>3, LaterFacts, MovedFrame
  <2>2. QED BY <2>1 DEF VisibleInv, Deciding
<1>4. CASE ListingStep
  <2>1. ListingNext BY <1>4 DEF ListingStep
  <2>2. QED BY <1>1, <1>2, <1>3, <2>1, ListingSteps
<1>5. CASE Curator
  <2>1. UNCHANGED <<pc, op, snap>> /\ app'.status = app.status BY <1>5, CuratorFrame
  <2>2. QED BY <2>1 DEF VisibleInv, Deciding
<1>6. CASE UNCHANGED categoryVars
  BY <1>6 DEF categoryVars, listingVars, requestVars, VisibleInv, Deciding
<1>7. QED BY <1>4, <1>5, <1>6 DEF CategoryNext

\* What a step may do to what a visible app shows.
MayShow ==
  app.status = "published" /\ app'.live # app.live =>
    \/ \E r \in Requests : pc[r] = "write" /\ pc'[r] # "write" /\ op[r].kind = "publish"
    \/ move # NoMove /\ [app'.live EXCEPT !.cats = {}] = [app.live EXCEPT !.cats = {}]

LEMMA StepShows ==
  ASSUME TypeInv, VisibleInv, [CategoryNext]_categoryVars
  PROVE  [MayShow]_categoryVars
<1>1. SUFFICES ASSUME CategoryNext, app.status = "published", app'.live # app.live
               PROVE  \/ \E r \in Requests : pc[r] = "write" /\ pc'[r] # "write" /\ op[r].kind = "publish"
                      \/ /\ move # NoMove
                         /\ [app'.live EXCEPT !.cats = {}] = [app.live EXCEPT !.cats = {}]
  BY DEF MayShow
<1>2. CASE Curator
  <2>1. MoveApps BY <1>1, <1>2, CuratorSteps
  <2>2. move # NoMove /\ app.live \in Listings /\ app'.live \in Listings
    BY <2>1, MoveFacts, TypeFacts DEF App
  <2>3. app'.live.icon = app.live.icon /\ app'.live.shots = app.live.shots
    BY <2>1, MoveSame DEF SameImages
  <2>4. [app'.live EXCEPT !.cats = {}] = [app.live EXCEPT !.cats = {}]
    BY <2>2, <2>3 DEF Listings
  <2>5. QED BY <2>2, <2>4
<1>3. CASE ListingStep
  <2>1. PICK r \in Requests :
          \/ \E o, c, new : Begins(r, o, c, new)
          \/ Write(r)
          \/ Reread(r) \/ DeleteUnreferenced(r) \/ Abort(r)
    BY <1>3, ListingSteps DEF ListingStep
  <2>2. Write(r) BY <1>1, <2>1, LaterFacts DEF Begins
  <2>3. op[r].kind = "publish" BY <1>1, <2>2, WriteVisible DEF VisibleInv
  <2>4. pc[r] = "write" /\ pc'[r] # "write" BY <2>2, WriteFacts, MovedFrame
  <2>5. QED BY <2>3, <2>4
<1>4. QED BY <1>1, <1>2, <1>3 DEF CategoryNext

-----------------------------------------------------------------------------
(***************************************************************************)
(* Categories.                                                             *)
(***************************************************************************)

\* A move adds the target, which exists, before it pulls the source.
LEMMA MoveExists ==
  ASSUME TypeInv, ExistInv, MoveApps
  PROVE  /\ Mentioned(app') \subseteq categories
         /\ move' # NoMove => MoveOk'
<1>1. /\ MoveOk /\ move # NoMove /\ UNCHANGED <<categories, requestVars>>
      /\ app.live \in Listings /\ (app.draft # NoDraft => app.draft \in Listings)
      /\ app.live.cats \subseteq categories
      /\ app.draft # NoDraft => app.draft.cats \subseteq categories
  BY MoveFacts, TypeFacts DEF ExistInv, Mentioned, App
<1>2. /\ AddTarget(app.live).cats \subseteq app.live.cats \cup {move.to}
      /\ PullSource(app.live).cats = app.live.cats \ {move.from}
      /\ app.draft # NoDraft =>
           /\ AddTarget(app.draft).cats \subseteq app.draft.cats \cup {move.to}
           /\ PullSource(app.draft).cats = app.draft.cats \ {move.from}
  BY <1>1, AddOk, PullOk
<1>3. /\ app'.live.cats \subseteq categories
      /\ app'.draft # NoDraft => app'.draft.cats \subseteq categories
  BY <1>1, <1>2, MoveFacts DEF OnDraft, MoveOk
<1>4. ASSUME move' # NoMove PROVE MoveOk'
  <2>1. /\ move'.from = move.from /\ move'.to = move.to /\ NothingRunning'
        /\ move'.from \in categories' /\ move'.to \in categories'
    BY <1>1, <1>4, MoveFacts DEF MoveOk, NothingRunning, requestVars
  <2>2. CASE move.at = "addLive"
    <3>1. move'.at = "pullLive" BY <2>2, MoveFacts
    <3>2. QED BY <2>1, <3>1 DEF MoveOk
  <2>3. CASE move.at = "pullLive"
    <3>1. move'.at = "addDraft" /\ app'.live = PullSource(app.live) BY <2>3, MoveFacts
    <3>2. QED BY <1>2, <2>1, <3>1 DEF MoveOk
  <2>4. CASE move.at = "addDraft"
    <3>1. move'.at = "pullDraft" /\ app'.live = app.live BY <2>4, MoveFacts
    <3>2. move.from \notin app.live.cats BY <1>1, <2>4 DEF MoveOk
    <3>3. QED BY <2>1, <3>1, <3>2 DEF MoveOk
  <2>5. CASE move.at = "pullDraft"
    <3>1. /\ move'.at = "remove" /\ app'.live = app.live
          /\ app'.draft = OnDraft(app.draft, PullSource)
      BY <1>4, <2>5, MoveFacts
    <3>2. move.from \notin app.live.cats BY <1>1, <2>5 DEF MoveOk
    <3>3. move.from \notin Mentioned(app') BY <1>2, <3>1, <3>2 DEF Mentioned, OnDraft
    <3>4. QED BY <2>1, <3>1, <3>2, <3>3 DEF MoveOk
  <2>6. QED BY <2>2, <2>3, <2>4, <2>5, MoveFacts
<1>5. QED BY <1>3, <1>4 DEF Mentioned

LEMMA CuratorExists ==
  ASSUME TypeInv, ExistInv, ~Overlap, Curator
  PROVE  ExistInv'
<1>1. NothingRunning /\ UNCHANGED <<pc, op, snap>>
  <2>1. move = NoMove => CuratorFree BY CuratorSteps, MoveFacts
  <2>2. QED BY <2>1, CuratorFrame DEF CuratorFree, ExistInv, MoveOk
<1>2. /\ NothingRunning'
      /\ \A r \in Requests : pc'[r] # "write"
  BY <1>1 DEF NothingRunning
<1>3. CASE MoveApps
  <2>1. categories' = categories BY <1>3, MoveFacts
  <2>2. QED BY <1>2, <1>3, <2>1, MoveExists DEF ExistInv
<1>4. CASE ~MoveApps
  <2>1. UNCHANGED app /\ Mentioned(app) \subseteq categories BY <1>4, CuratorSteps DEF ExistInv
  <2>2. ASSUME NEW m \in Moves, move' = m, UNCHANGED categories,
               m.from \in categories, m.to \in categories,
               m.at = "addLive" \/ (m.at = "remove" /\ m.from \notin Mentioned(app))
        PROVE  MoveOk'
    BY <1>2, <2>1, <2>2 DEF MoveOk, Mentioned
  <2>3. move' # NoMove => MoveOk' BY <1>4, <2>2, CuratorSteps
  <2>4. Mentioned(app') \subseteq categories'
    BY <1>4, <2>1, CuratorSteps DEF ExistInv, MoveOk
  <2>5. QED BY <1>2, <2>3, <2>4 DEF ExistInv
<1>5. QED BY <1>3, <1>4

LEMMA NextExists ==
  ASSUME TypeInv, ExistInv, ~Overlap, [CategoryNext]_categoryVars
  PROVE  ExistInv'
<1>1. ASSUME NEW r \in Requests, NEW o, NEW c, NEW new, Begins(r, o, c, new), move' = NoMove
      PROVE  ExistInv'
  <2>1. /\ UNCHANGED <<app, categories>> /\ snap'[r] = app /\ op'[r] = o
        /\ CatsOf(o.fields) \subseteq categories
        /\ \A q \in Requests \ {r} : pc'[q] = pc[q] /\ op'[q] = op[q] /\ snap'[q] = snap[q]
    BY <1>1, BeginsFrame DEF Begins, Fresh
  <2>2. ASSUME NEW q \in Requests, pc'[q] = "write"
        PROVE  Mentioned(snap'[q]) \subseteq categories /\ CatsOf(op'[q].fields) \subseteq categories
    <3>1. CASE q = r BY <2>1, <3>1 DEF ExistInv
    <3>2. CASE q # r BY <2>1, <2>2, <3>2 DEF ExistInv
    <3>3. QED BY <3>1, <3>2
  <2>3. QED BY <1>1, <2>1, <2>2 DEF ExistInv
<1>2. ASSUME NEW r \in Requests, Write(r) \/ Reread(r) \/ DeleteUnreferenced(r) \/ Abort(r),
             move' = NoMove
      PROVE  ExistInv'
  <2>1. /\ UNCHANGED categories /\ pc'[r] # "write"
        /\ \A q \in Requests \ {r} : pc'[q] = pc[q] /\ op'[q] = op[q] /\ snap'[q] = snap[q]
    BY <1>2, WriteFacts, LaterFacts, MovedFrame
  <2>2. Mentioned(app') \subseteq categories
    <3>1. CASE Write(r)
      <4>1. /\ Mentioned(app') \subseteq Mentioned(app) \cup Mentioned(snap[r]) \cup CatsOf(op[r].fields)
            /\ pc[r] = "write"
        BY <3>1, WriteFacts
      <4>2. QED BY <4>1 DEF ExistInv
    <3>2. CASE ~Write(r)
      <4>1. UNCHANGED app BY <1>2, <3>2, LaterFacts
      <4>2. QED BY <4>1 DEF ExistInv
    <3>3. QED BY <3>1, <3>2
  <2>3. QED BY <1>2, <2>1, <2>2 DEF ExistInv
<1>3. CASE ListingStep
  <2>1. ListingNext /\ move' = NoMove BY <1>3 DEF ListingStep
  <2>2. QED BY <1>1, <1>2, <2>1, ListingSteps
<1>4. CASE Curator BY <1>4, CuratorExists
<1>5. CASE UNCHANGED categoryVars
  <2>1. UNCHANGED <<app, categories, pc, op, snap, move>>
    BY <1>5 DEF categoryVars, listingVars, requestVars
  <2>2. MoveOk' <=> MoveOk BY <2>1 DEF MoveOk, NothingRunning
  <2>3. QED BY <2>1, <2>2 DEF ExistInv
<1>6. QED BY <1>3, <1>4, <1>5 DEF CategoryNext

-----------------------------------------------------------------------------
(***************************************************************************)
(* One handler of Listing at a time.                                       *)
(***************************************************************************)

LEMMA StartsAlone ==
  ASSUME MaxBusy = 1, Admitted
  PROVE  NothingRunning
<1> DEFINE B == {q \in Requests : pc[q] # "idle"}
<1>1. IsFiniteSet(B)
  BY RequestsAssumption, FS_Subset
<1>2. Cardinality(B) \in Nat /\ Cardinality(B) < 1
  BY <1>1, FS_CardinalityType DEF Admitted
<1>3. Cardinality(B) = 0
  BY <1>2
<1>4. B = {}
  BY <1>1, <1>3, FS_EmptySet
<1>5. QED BY <1>4 DEF NothingRunning

LEMMA ReadsAlone ==
  ASSUME NEW r \in Requests, Reads(r)
  PROVE  Admitted
BY DEF Reads, UpdateApp, UploadIcon, AddScreenshot, SetScreenshots, SubmitListing,
       WithdrawListingReview, DiscardListing, WithdrawStatusRequest, RequestStatus,
       PublishListing, RejectListing, ApproveStatusRequest, RejectStatusRequest, SetStatus, Start

LEMMA NextOne ==
  ASSUME TypeInv, OneAtATime, MaxBusy = 1, [CategoryNext]_categoryVars
  PROVE  OneAtATime'
<1>1. CASE ListingStep
  <2>1. PICK r \in Requests :
          Reads(r) \/ Write(r) \/ Reread(r) \/ DeleteUnreferenced(r) \/ Abort(r)
    BY <1>1 DEF ListingStep, ListingNext
  <2>2. CASE Reads(r)
    <3>1. \A q \in Requests : pc[q] = "idle"
      BY <2>2, ReadsAlone, StartsAlone DEF NothingRunning
    <3>2. PICK o, c, new : Begins(r, o, c, new) BY <2>2, ReadsBegin
    <3>3. \A q \in Requests \ {r} : pc'[q] = pc[q] BY <3>2, BeginsFrame
    <3>4. QED BY <3>1, <3>3 DEF OneAtATime
  <2>3. CASE ~Reads(r)
    <3>1. pc[r] # "idle" /\ Moved(r) BY <2>1, <2>3, WriteFacts, LaterFacts
    <3>2. \A q \in Requests \ {r} : pc'[q] = pc[q] BY <3>1, MovedFrame
    <3>3. QED BY <3>1, <3>2 DEF OneAtATime
  <2>4. QED BY <2>2, <2>3
<1>2. CASE Curator
  <2>1. pc' = pc BY <1>2, CuratorFrame
  <2>2. QED BY <2>1 DEF OneAtATime
<1>3. CASE UNCHANGED categoryVars
  BY <1>3 DEF categoryVars, listingVars, requestVars, OneAtATime
<1>4. QED BY <1>1, <1>2, <1>3 DEF CategoryNext

LEMMA OneAlways == ASSUME MaxBusy = 1 PROVE CategorySpec => []OneAtATime
<1>1. CategoryInit => OneAtATime BY InitFacts DEF OneAtATime
<1>2. QED BY <1>1, NextOne, TypesAlways, PTL DEF CategorySpec

LEMMA OneIsApart == OneAtATime => ContentApart /\ SubmitsApart /\ StatusApart
<1> HAVE OneAtATime
<1>1. ContentApart BY DEF OneAtATime, ContentApart, Content, Deciding
<1>2. SubmitsApart BY DEF OneAtATime, SubmitsApart, Content, Deciding, ContentOps
<1>3. StatusApart BY DEF OneAtATime, StatusApart, Deciding
<1>4. QED BY <1>1, <1>2, <1>3

-----------------------------------------------------------------------------
(***************************************************************************)
(* The types, and what every handler that has decided holds, whatever      *)
(* overlaps: an operation never writes what is not a listing.              *)
(***************************************************************************)
THEOREM CategoryTypes == CategorySpec => []CategoryTypeOK
<1>1. TypeInv => CategoryTypeOK BY DEF TypeInv
<1>2. QED BY <1>1, TypesAlways, PTL

(***************************************************************************)
(* Every image that the live listing or its draft mentions is in the       *)
(* storage, wherever a handler was cut short: as long as no two handlers   *)
(* that change the listings have both read the app and not yet written.    *)
(* The second readings, the deletions, the reviews, the status and the     *)
(* moves of categories may all overlap them.                               *)
(***************************************************************************)
THEOREM ImagesKeptApart == CategorySpec /\ []ContentApart => []MediaKept
<1>1. MediaInv => MediaKept BY DEF MediaInv
<1>2. QED BY <1>1, ImagesAlways, PTL

(***************************************************************************)
(* And, unless a handler was cut short, the storage holds no other image   *)
(* of the app once all have ended: what a write makes useless is among its *)
(* candidates, or among those of a handler that has not deleted yet.       *)
(***************************************************************************)
THEOREM ImagesExactApart == CategorySpec /\ []ContentApart => []MediaExact
<1>1. ASSUME MediaInv PROVE MediaExact
  <2>1. SUFFICES ASSUME NothingRunning, ~torn PROVE objects = MediaKeys(app)
    BY DEF MediaExact
  <2>2. \A m \in objects : Kept(m) \/ Owed(m) BY <1>1, <2>1 DEF MediaInv
  <2>3. \A r \in Requests : ~Content(r) /\ Useless(r) = {}
    BY <2>1 DEF NothingRunning, Content, Deciding, Useless
  <2>4. objects \subseteq MediaKeys(app) BY <2>2, <2>3 DEF Kept, Owed
  <2>5. QED BY <1>1, <2>4 DEF MediaInv, MediaKept
<1>2. QED BY <1>1, ImagesAlways, PTL

(***************************************************************************)
(* The draft that waits for the admin is the one that was submitted: as    *)
(* long as no handler is about to change the listings while a submission   *)
(* is decided and not written.  (The curator waits for the handlers: a     *)
(* move between the two halves of a submission is not in the draft that    *)
(* the submission saw.)                                                    *)
(***************************************************************************)
THEOREM SubmissionApart ==
  ASSUME ~Overlap
  PROVE  CategorySpec /\ []SubmitsApart => []SubmittedIsCurrent
<1>1. CategoryInit => SubmitInv
  BY InitFacts DEF SubmitInv, SubmittedIsCurrent, Deciding
<1>2. SubmitInv => SubmittedIsCurrent BY DEF SubmitInv
<1>3. QED BY <1>1, <1>2, NextSubmitted, TypesAlways, AloneAlways, PTL DEF CategorySpec

(***************************************************************************)
(* What a visible app shows changes only with the publication of a draft   *)
(* by the admin, or with a move of its categories: as long as no change of *)
(* status is decided while an edit is decided and not written.  Without    *)
(* that, an edit that read the app while it was hidden writes the live     *)
(* listing of a visible app.                                               *)
(***************************************************************************)
THEOREM VisibleApart == CategorySpec /\ []StatusApart => VisibleReviewed
<1>1. CategoryInit => VisibleInv
  BY InitFacts DEF VisibleInv, Deciding
<1>2. CategorySpec /\ []StatusApart => []VisibleInv
  BY <1>1, NextVisible, TypesAlways, PTL DEF CategorySpec
<1>3. CategorySpec /\ []StatusApart => [][MayShow]_categoryVars
  BY <1>2, StepShows, TypesAlways, PTL DEF CategorySpec
<1>4. QED BY <1>3 DEF VisibleReviewed, MayShow

(***************************************************************************)
(* The categories that a listing mentions exist, wherever a deletion or a  *)
(* move stopped, and however the handlers of Listing overlap: the target   *)
(* is added before the source is pulled, and both are pulled before the    *)
(* category goes.  (The curator alone waits for the handlers.)             *)
(***************************************************************************)
THEOREM DeletionIsSafe ==
  ASSUME ~Overlap
  PROVE  CategorySpec => []CategoriesExist
<1>1. CategoryInit => ExistInv
  BY InitFacts DEF ExistInv
<1>2. TypeInv /\ ExistInv => CategoriesExist
  BY DEF TypeInv, ExistInv, CategoriesExist, ListedCategories, Mentioned
<1>3. QED BY <1>1, <1>2, NextExists, TypesAlways, PTL DEF CategorySpec

-----------------------------------------------------------------------------
(***************************************************************************)
(* One request at a time, as the run has it: the images that the listings  *)
(* mention are in the storage.                                             *)
(***************************************************************************)
THEOREM ImagesKept ==
  ASSUME MaxBusy = 1
  PROVE  CategorySpec => []MediaKept
<1>1. QED BY OneAlways, OneIsApart, ImagesKeptApart, PTL

(***************************************************************************)
(* One request at a time: and no other image, once all handlers ended.     *)
(***************************************************************************)
THEOREM ImagesExact ==
  ASSUME MaxBusy = 1
  PROVE  CategorySpec => []MediaExact
<1>1. QED BY OneAlways, OneIsApart, ImagesExactApart, PTL

(***************************************************************************)
(* One request at a time: the draft under review is the submitted one.     *)
(***************************************************************************)
THEOREM SubmissionIsCurrent ==
  ASSUME MaxBusy = 1, ~Overlap
  PROVE  CategorySpec => []SubmittedIsCurrent
<1>1. QED BY OneAlways, OneIsApart, SubmissionApart, PTL

(***************************************************************************)
(* One request at a time: an edit never reaches what is visible.           *)
(***************************************************************************)
THEOREM VisibleStaysReviewed ==
  ASSUME MaxBusy = 1
  PROVE  CategorySpec => VisibleReviewed
<1>1. QED BY OneAlways, OneIsApart, VisibleApart, PTL
=============================================================================
