----------------------------- MODULE Categories ------------------------------
(***************************************************************************)
(* The categories, next to the listing that mentions them: the admin       *)
(* creates and deletes categories and moves the apps of one to another     *)
(* (routers/admin_categories.py).                                          *)
(*                                                                         *)
(* A move is four update_many, on the live listings, then on the drafts:   *)
(* the target is added, then the source is pulled.  A deletion counts the  *)
(* apps that use the category, moves them, then deletes it.                *)
(***************************************************************************)
EXTENDS Listing

CONSTANTS
  NoMove,   \* no handler of this router is running
  Overlap   \* its handlers may overlap those of Listing

VARIABLES
  move,      \* the running handler: what it moves, and its next step
  retired    \* history: categories deleted so far (identifiers are not reused)

categoryVars == <<listingVars, move, retired>>

MoveStep == {"addLive", "pullLive", "addDraft", "pullDraft", "remove"}

Moves == [from : Categories, to : Categories, delete : BOOLEAN, at : MoveStep]

ASSUME NoMoveAssumption == NoMove \notin Moves

CategoryTypeOK ==
  /\ ListingTypeOK
  /\ move \in Moves \cup {NoMove}
  /\ retired \in SUBSET (Categories \ categories)

CategoryInit == ListingInit /\ move = NoMove /\ retired = {}

-----------------------------------------------------------------------------
CuratorFree == move = NoMove /\ (NothingRunning \/ Overlap)

CreateCategory(c) ==
  /\ CuratorFree
  /\ c \notin categories \cup retired
  /\ categories' = categories \cup {c}
  /\ UNCHANGED <<app, objects, made, asked, requestVars, torn, move, retired>>

StartMove(m) ==
  /\ CuratorFree
  /\ move' = m
  /\ UNCHANGED <<listingVars, retired>>

\* Both categories are looked up; nothing forbids that they are the same.
ReassignApps(c, d) ==
  /\ {c, d} \subseteq categories
  /\ StartMove([from |-> c, to |-> d, delete |-> FALSE, at |-> "addLive"])

\* The count covers the live listings and the drafts.
InUse(c) == c \in app.live.cats \/ (app.draft # NoDraft /\ c \in app.draft.cats)

\* Mutant of DeleteCategory: the drafts are not counted.
DeleteCategoryLiveOnly(c) ==
  /\ c \in categories
  /\ \/ /\ c \notin app.live.cats
        /\ StartMove([from |-> c, to |-> c, delete |-> TRUE, at |-> "remove"])
     \/ /\ c \in app.live.cats
        /\ \E d \in categories :
             StartMove([from |-> c, to |-> d, delete |-> TRUE, at |-> "addLive"])

DeleteCategory(c) ==
  /\ c \in categories
  /\ \/ /\ ~InUse(c)
        /\ StartMove([from |-> c, to |-> c, delete |-> TRUE, at |-> "remove"])
     \/ /\ InUse(c)
        /\ \E d \in categories :
             StartMove([from |-> c, to |-> d, delete |-> TRUE, at |-> "addLive"])

-----------------------------------------------------------------------------
(***************************************************************************)
(* _move_apps.                                                             *)
(***************************************************************************)

\* One update_many on a listing: its filter is the source category.
AddTarget(l) == IF move.from \in l.cats THEN [l EXCEPT !.cats = @ \cup {move.to}] ELSE l

PullSource(l) == [l EXCEPT !.cats = @ \ {move.from}]

OnDraft(d, F(_)) == IF d = NoDraft THEN NoDraft ELSE F(d)

AfterMove == IF move.delete THEN [move EXCEPT !.at = "remove"] ELSE NoMove

\* The admin's own moves do not make a submitted draft another one (asked).
MoveApps ==
  /\ move # NoMove
  /\ \/ /\ move.at = "addLive"
        /\ app' = [app EXCEPT !.live = AddTarget(@)]
        /\ move' = [move EXCEPT !.at = "pullLive"]
        /\ UNCHANGED asked
     \/ /\ move.at = "pullLive"
        /\ app' = [app EXCEPT !.live = PullSource(@)]
        /\ move' = [move EXCEPT !.at = "addDraft"]
        /\ UNCHANGED asked
     \/ /\ move.at = "addDraft"
        /\ app' = [app EXCEPT !.draft = OnDraft(@, AddTarget)]
        /\ asked' = OnDraft(asked, AddTarget)
        /\ move' = [move EXCEPT !.at = "pullDraft"]
     \/ /\ move.at = "pullDraft"
        /\ app' = [app EXCEPT !.draft = OnDraft(@, PullSource)]
        /\ asked' = OnDraft(asked, PullSource)
        /\ move' = AfterMove
  /\ UNCHANGED <<categories, objects, made, requestVars, torn, retired>>

RemoveCategory ==
  /\ move # NoMove /\ move.at = "remove"
  /\ categories' = categories \ {move.from}
  /\ retired' = retired \cup {move.from}
  /\ move' = NoMove
  /\ UNCHANGED <<app, objects, made, asked, requestVars, torn>>

\* The handler raises, or the process stops.
MoveAborted ==
  /\ move # NoMove
  /\ move' = NoMove
  /\ UNCHANGED <<listingVars, retired>>

Curator ==
  \/ \E c \in Categories :
       CreateCategory(c) \/ DeleteCategory(c) \/ \E d \in Categories : ReassignApps(c, d)
  \/ MoveApps \/ RemoveCategory \/ MoveAborted

ListingStep ==
  /\ ListingNext
  /\ move = NoMove \/ Overlap
  /\ UNCHANGED <<move, retired>>

CategoryNext == ListingStep \/ Curator

CategorySpec == CategoryInit /\ [][CategoryNext]_categoryVars

-----------------------------------------------------------------------------
ListedCategories ==
  app.live.cats \cup (IF app.draft = NoDraft THEN {} ELSE app.draft.cats)

(***************************************************************************)
(* "Safe deletion": when no handler is running, the categories that the    *)
(* live listing and its draft mention exist, wherever a deletion stopped.  *)
(* With the types.                                                         *)
(***************************************************************************)
CategoriesExist ==
  /\ CategoryTypeOK
  /\ NothingRunning => ListedCategories \subseteq categories

(***************************************************************************)
(* What a visible app shows changes only when the platform admin publishes *)
(* a draft, or moves its apps to another category: every other             *)
(* modification stays in the draft.                                        *)
(***************************************************************************)
VisibleReviewed ==
  [][app.status = "published" /\ app'.live # app.live =>
       \/ \E r \in Requests : pc[r] = "write" /\ pc'[r] # "write" /\ op[r].kind = "publish"
       \/ move # NoMove /\ [app'.live EXCEPT !.cats = {}] = [app.live EXCEPT !.cats = {}]
     ]_categoryVars
=============================================================================
