------------------------------- MODULE Catalog -------------------------------
(***************************************************************************)
(* What the client app is shown of one app of the store: the filters on    *)
(* the app and on its versions, and how each handler of the public API     *)
(* combines them.  The handlers of the console that change an app and its  *)
(* versions are modelled in Listing and Releases; here they are steps of   *)
(* the environment, reduced to the fields that the filters read.           *)
(*                                                                         *)
(* A version is "public" when it is published, stored and passed its scan: *)
(* a rescan of a published version hides it until it passes again.         *)
(***************************************************************************)
EXTENDS Integers, FiniteSets

CONSTANTS
  Versions,   \* versions of the app, on one platform
  CodeOf,     \* their version_code
  Emails,     \* e-mail addresses of clients
  NoEmail     \* an anonymous account, or no account

ASSUME CatalogAssumption ==
  /\ CodeOf \in [Versions -> Nat]
  /\ NoEmail \notin Emails

VARIABLES
  app,      \* status, account_suspended and testers of the app
  version   \* for each version: is it public, and its channel

catalogVars == <<app, version>>

CatalogTypeOK ==
  /\ app \in [status : {"draft", "published", "archived"}, suspended : BOOLEAN,
              testers : SUBSET Emails]
  /\ version \in [Versions -> [public : BOOLEAN, channel : {"production", "beta"}]]

-----------------------------------------------------------------------------
(***************************************************************************)
(* Filters.                                                                *)
(***************************************************************************)

PublicApp    == app.status = "published" /\ ~app.suspended
ReachableApp == app.status \in {"published", "draft"} /\ ~app.suspended
InTesting    == app.status = "draft" /\ ~app.suspended
IsTester(e)  == e \in app.testers
CanSee(e)    == ~app.suspended /\ (app.status = "published" \/ (InTesting /\ IsTester(e)))

Public  == {v \in Versions : version[v].public}
Beta(v) == version[v].channel = "beta"

\* channel_filter: the versions it lets through.
ChannelFilter(e) ==
  {v \in Versions : IF InTesting THEN Beta(v) ELSE IsTester(e) \/ ~Beta(v)}

Newest(vs) == {v \in vs : \A w \in vs : CodeOf[w] <= CodeOf[v]}

-----------------------------------------------------------------------------
(***************************************************************************)
(* What the handlers answer to a client whose account has the e-mail e.    *)
(***************************************************************************)

\* get_app: the versions of the app's page.
PageVersions(e) == IF ReachableApp /\ CanSee(e) THEN Public \cap ChannelFilter(e) ELSE {}

\* get_app_versions.
ListedVersions(e) == IF PublicApp THEN Public \cap ChannelFilter(e) ELSE {}

\* check_updates: the newest version, when it is newer than the one installed.
OfferedUpdates(e, code) ==
  LET candidates == {v \in Public : \/ Beta(v) /\ IsTester(e)
                                    \/ ~Beta(v) /\ ~InTesting}
  IN  IF ReachableApp /\ CanSee(e) THEN {v \in Newest(candidates) : CodeOf[v] > code} ELSE {}

\* _my_apps: no beta, except in a closed test.
MyLatest(e) ==
  IF ReachableApp /\ CanSee(e) THEN Newest({v \in Public : Beta(v) <=> InTesting}) ELSE {}

\* download_version: what it asks of the version, with or without a valid
\* token, and then of the app.
VersionServed(v, token) == v \in Public /\ (Beta(v) => token)

\* Mutant of AppServes: an app in closed test serves its production versions.
AppReachable(beta) == ReachableApp

AppServes(beta) == ReachableApp /\ (InTesting => beta)

Downloadable(v, token) == VersionServed(v, token) /\ AppServes(Beta(v))

-----------------------------------------------------------------------------
(***************************************************************************)
(* The console.                                                            *)
(***************************************************************************)

\* The status or the suspension of the account changes (Listing, Accounts).
SetStatus(s)  == app' = [app EXCEPT !.status = s] /\ UNCHANGED version
SetSuspended(b) == app' = [app EXCEPT !.suspended = b] /\ UNCHANGED version

\* set_testers.
SetTesters(ts) == app' = [app EXCEPT !.testers = ts] /\ UNCHANGED version

\* A version is published or passes a rescan; is archived or rescanned (Releases).
SetPublic(v, b) == version' = [version EXCEPT ![v].public = b] /\ UNCHANGED app

\* go_live of a live beta: it is promoted to production.
Promote(v) ==
  /\ version[v] = [public |-> TRUE, channel |-> "beta"]
  /\ version' = [version EXCEPT ![v].channel = "production"]
  /\ UNCHANGED app

ConsoleStep ==
  \/ \E s \in {"draft", "published", "archived"} \ {app.status} : SetStatus(s)
  \/ SetSuspended(~app.suspended)
  \/ \E ts \in SUBSET Emails \ {app.testers} : SetTesters(ts)
  \/ \E v \in Versions : Promote(v) \/ SetPublic(v, ~version[v].public)
=============================================================================
