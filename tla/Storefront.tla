----------------------------- MODULE Storefront -----------------------------
(***************************************************************************)
(* The public API seen by the devices of clients: they read the catalog,   *)
(* keep the download links it gives them, download, and their visits are   *)
(* counted.  Downloads and views are counted by several writes, between    *)
(* which a request may stop:                                               *)
(*                                                                         *)
(*   pc: idle -> download -> [insert -> version -> app ->] idle            *)
(*       idle -> view -> count -> idle                                     *)
(*                                                                         *)
(* A handler that only reads is one step.                                  *)
(***************************************************************************)
EXTENDS Clients

CONSTANTS
  TokenTtl,    \* BETA_TOKEN_TTL, in ticks of the clock
  ViewWindow,  \* VIEW_DEDUP, in ticks
  MaxClock,    \* bound: ticks
  MaxSteps     \* bound: requests of the devices and steps of the console

ASSUME StorefrontAssumption ==
  /\ TokenTtl \in Nat /\ ViewWindow \in Nat
  /\ IsFiniteSet(Devices) /\ IsFiniteSet(Versions)

VARIABLES
  clock, steps,
  links,     \* when the token that a device holds for a version expires (0: none)
  docs, counted, appCount,   \* download_stats and the two counters of downloads
  views, viewCount,          \* app_views, in the order of their insertion; counter
  given,     \* history: when a device last read the catalog as a tester, or a
             \* library that names a beta (0: never)
  lateBeta   \* history: devices that were let download a beta without, or
             \* longer than TokenTtl after

usageVars == <<docs, counted, appCount, views, viewCount>>
accessVars == <<links, given, lateBeta>>
storeVars == <<catalogVars, clientVars, clock, steps, accessVars, usageVars>>

StoreTypeOK ==
  /\ ClientsTypeOK
  /\ clock \in Nat /\ steps \in Nat
  /\ links \in [Devices -> [Versions -> Nat]]
  /\ docs \in [Versions -> Nat] /\ counted \in [Versions -> Nat]
  /\ appCount \in Nat /\ viewCount \in Nat
  /\ given \in [Devices -> Nat] /\ lateBeta \subseteq Devices

\* The app has its versions online, of either channel; no device has used the
\* store yet.
StoreInit ==
  /\ CatalogTypeOK
  /\ app \in [status : {"draft", "published"}, suspended : {FALSE}, testers : SUBSET Emails]
  /\ \A v \in Versions : version[v].public
  /\ ClientsInit
  /\ clock = 1 /\ steps = 0
  /\ links = [d \in Devices |-> [v \in Versions |-> 0]]
  /\ docs = [v \in Versions |-> 0] /\ counted = docs
  /\ appCount = 0 /\ viewCount = 0
  /\ views = <<>>
  /\ given = [d \in Devices |-> 0] /\ lateBeta = {}

-----------------------------------------------------------------------------
(***************************************************************************)
(* Reading the catalog.                                                    *)
(***************************************************************************)

\* Mutant of TokenAccepted: the end of the token is not looked at.
TokenForever(d, v) == links[d][v] # 0

\* verify_beta_token.
TokenAccepted(d, v) == links[d][v] >= clock

\* The version installed that _my_apps shows, as the library names it: neither
\* its state nor its channel is asked for.
Installed(d) ==
  IF SignedIn(d) /\ ReachableApp /\ CanSee(EmailOf(d)) THEN {users[session[d]].installed} \cap Versions ELSE {}

\* version_public: the link of a beta comes with a token that the device keeps.
ReadCatalog(d) ==
  LET e == EmailOf(d)
  IN  /\ pc[d] = "idle"
      /\ \E shown \in {PageVersions(e), ListedVersions(e), OfferedUpdates(e, 0), MyLatest(e) \cup Installed(d)} :
           links' = [links EXCEPT ![d] = [v \in Versions |->
                      IF v \in shown /\ Beta(v) THEN clock + TokenTtl ELSE links[d][v]]]
      /\ given' = IF IsTester(e) \/ \E v \in Installed(d) : Beta(v)
                  THEN [given EXCEPT ![d] = clock] ELSE given
      /\ UNCHANGED <<catalogVars, clientVars, clock, lateBeta, usageVars>>

-----------------------------------------------------------------------------
(***************************************************************************)
(* Downloads.                                                              *)
(***************************************************************************)

\* download_version: the version is read, and the token that comes with it, ...
Download(d, v) ==
  /\ VersionServed(v, TokenAccepted(d, v))
  /\ Begin(d, "download", [version |-> v, beta |-> Beta(v)])
  /\ lateBeta' = IF Beta(v) /\ (given[d] = 0 \/ clock > given[d] + TokenTtl)
                 THEN lateBeta \cup {d} ELSE lateBeta
  /\ UNCHANGED <<catalogVars, users, session, clock, links, given, usageVars>>

\* ... then its app; a download that resumes is not counted again.
DownloadApp(d) ==
  /\ pc[d] = "download"
  /\ IF AppServes(job[d].beta)
     THEN (pc' = [pc EXCEPT ![d] = "insert"] /\ UNCHANGED job) \/ End(d)
     ELSE End(d)
  /\ UNCHANGED <<catalogVars, users, session, clock, accessVars, usageVars>>

\* record_download.
InsertDownload(d) ==
  /\ pc[d] = "insert"
  /\ docs' = [docs EXCEPT ![job[d].version] = @ + 1]
  /\ pc' = [pc EXCEPT ![d] = "version"]
  /\ UNCHANGED <<counted, appCount, views, viewCount, job>>

\* Mutant of CountVersion: the app is counted here too, and again in its turn.
CountVersionAndApp(d) ==
  /\ pc[d] = "version"
  /\ counted' = [counted EXCEPT ![job[d].version] = @ + 1]
  /\ appCount' = appCount + 1
  /\ pc' = [pc EXCEPT ![d] = "app"]
  /\ UNCHANGED <<docs, views, viewCount, job>>

CountVersion(d) ==
  /\ pc[d] = "version"
  /\ counted' = [counted EXCEPT ![job[d].version] = @ + 1]
  /\ pc' = [pc EXCEPT ![d] = "app"]
  /\ UNCHANGED <<docs, appCount, views, viewCount, job>>

CountApp(d) ==
  /\ pc[d] = "app"
  /\ appCount' = appCount + 1
  /\ End(d)
  /\ UNCHANGED <<docs, counted, views, viewCount>>

-----------------------------------------------------------------------------
(***************************************************************************)
(* Views.                                                                  *)
(***************************************************************************)

\* track_view names the account, or the device; the web page its browser.
Visitor(d, source) ==
  IF source = "web" THEN <<"ip", d>>
  ELSE IF SignedIn(d) THEN <<"user", session[d]>> ELSE <<"device", d>>

SeenRecently(who) ==
  \E i \in DOMAIN views : views[i].visitor = who /\ views[i].at >= clock - ViewWindow

\* record_view, called by track_view and app_page: the views already inserted
\* are looked up, ...
View(d, source) ==
  LET who == Visitor(d, source)
  IN  /\ PublicApp
      /\ ~SeenRecently(who)
      /\ Begin(d, "view", [visitor |-> who])
      /\ UNCHANGED <<users, session, usageVars>>

\* ... and this one is inserted, then counted.
InsertView(d) ==
  /\ pc[d] = "view"
  /\ views' = Append(views, [visitor |-> job[d].visitor, at |-> clock])
  /\ pc' = [pc EXCEPT ![d] = "count"]
  /\ UNCHANGED <<docs, counted, appCount, viewCount, job>>

CountView(d) ==
  /\ pc[d] = "count"
  /\ viewCount' = viewCount + 1
  /\ End(d)
  /\ UNCHANGED <<docs, counted, appCount, views>>

UsageStep(d) ==
  \/ InsertDownload(d) \/ CountVersion(d) \/ CountApp(d) \/ InsertView(d) \/ CountView(d)

-----------------------------------------------------------------------------
(***************************************************************************)
(* Time, failures, and everything together.                                *)
(***************************************************************************)

Tick ==
  /\ clock < MaxClock
  /\ clock' = clock + 1
  /\ UNCHANGED <<catalogVars, clientVars, accessVars, usageVars>>

\* A request ends at one of its awaits: an exception, or a stop of the process.
RequestFails(d) ==
  /\ pc[d] # "idle"
  /\ End(d)
  /\ UNCHANGED <<catalogVars, users, session, clock, accessVars, usageVars>>

\* Requests that begin and steps of the console are counted, to bound the model.
Counted == steps < MaxSteps /\ steps' = steps + 1

StoreNext ==
  \/ \E d \in Devices :
       \/ /\ ClientStep(d)
          /\ IF pc[d] = "idle" THEN Counted ELSE UNCHANGED steps
          /\ UNCHANGED <<catalogVars, clock, accessVars, usageVars>>
       \/ /\ \E v \in Versions \cup {NoVersion} : PutLibrary(d, v)
          /\ Counted /\ UNCHANGED <<catalogVars, clock, accessVars, usageVars>>
       \/ ReadCatalog(d) /\ Counted
       \/ \E v \in Versions : Download(d, v) /\ Counted
       \/ DownloadApp(d) /\ UNCHANGED steps
       \/ \E source \in {"app", "web"} :
            View(d, source) /\ Counted /\ UNCHANGED <<catalogVars, clock, accessVars>>
       \/ UsageStep(d) /\ UNCHANGED <<catalogVars, users, session, clock, steps, accessVars>>
       \/ RequestFails(d) /\ UNCHANGED steps
  \/ \E u \in DOMAIN users, d \in Devices :
       RefuseToken(u, d) /\ Counted /\ UNCHANGED <<catalogVars, clock, accessVars, usageVars>>
  \/ ConsoleStep /\ Counted /\ UNCHANGED <<clientVars, clock, accessVars, usageVars>>
  \/ Tick /\ UNCHANGED steps

StoreSpec == StoreInit /\ [][StoreNext]_storeVars

-----------------------------------------------------------------------------
(***************************************************************************)
(* Properties.                                                             *)
(***************************************************************************)

(***************************************************************************)
(* The filters agree: a version that any handler offers to a client is     *)
(* accepted by download_version with the link it is given; without a token *)
(* it serves exactly what everybody is shown; and check_updates offers     *)
(* exactly the newest version of the page.                                 *)
(***************************************************************************)
FiltersAgree ==
  /\ \A e \in Emails \cup {NoEmail} :
       /\ \A v \in PageVersions(e) \cup ListedVersions(e) \cup MyLatest(e) : Downloadable(v, TRUE)
       /\ OfferedUpdates(e, 0) = {v \in Newest(PageVersions(e)) : CodeOf[v] > 0}
       /\ ListedVersions(e) \cup MyLatest(e) \subseteq PageVersions(e)
  /\ {v \in Versions : Downloadable(v, FALSE)} = PageVersions(NoEmail)

(***************************************************************************)
(* "A published beta is returned only to signed-in testers": a beta is let *)
(* go only to a device that read the catalog signed in as a tester, or a   *)
(* library that names a beta, no longer than the life of a token ago; so   *)
(* whoever leaves the list of testers, or the store, loses the betas in    *)
(* that time, whatever the console and the accounts do in the meantime.    *)
(***************************************************************************)
BetaConfined == lateBeta = {}

\* The downloads counted on their version: a pair for each.
CountedDownloads == UNION {{v} \X (1..counted[v]) : v \in Versions}

(***************************************************************************)
(* record_download counts the document, the version, then the app: when    *)
(* requests overlap or stop half-way, no counter runs ahead of what it     *)
(* counts.  The same for the views.                                        *)
(***************************************************************************)
CountersBehind ==
  /\ \A v \in Versions : counted[v] <= docs[v]
  /\ appCount <= Cardinality(CountedDownloads)
  /\ viewCount <= Len(views)

(***************************************************************************)
(* "One view per visitor and app every 30 minutes".  Not of two requests   *)
(* of a visitor that overlap: record_view looks the views up in a step, and*)
(* inserts its own in another.                                             *)
(***************************************************************************)
OneViewPerWindow ==
  \A i, j \in DOMAIN views :
    i < j /\ views[i].visitor = views[j].visitor => views[j].at > views[i].at + ViewWindow

(***************************************************************************)
(* "A token belongs to one device / account": whichever accounts a device  *)
(* goes through, its token is on one account at most, once.                *)
(***************************************************************************)
Holders(d) == {h \in (DOMAIN users) \X (1..MaxTokens) :
                 LET tokens == users[h[1]].tokens IN h[2] <= Len(tokens) /\ tokens[h[2]] = d}

TokensHeldOnce ==
  /\ StoreTypeOK
  /\ \A d \in Devices : Cardinality(Holders(d)) <= 1
  /\ \A u \in DOMAIN users : Len(users[u].tokens) <= MaxTokens

(***************************************************************************)
(* Accounts and identities stay apart, whatever devices sign in, register  *)
(* and delete their accounts in the meantime: an account has a device as   *)
(* long as it is anonymous, an e-mail from then on, and no two accounts    *)
(* share an e-mail or a device.                                            *)
(***************************************************************************)
IdentitiesApart ==
  \A u \in DOMAIN users : users[u].exists =>
    /\ users[u].anonymous <=> users[u].device # NoDevice
    /\ users[u].anonymous <=> users[u].email = NoEmail
    /\ \A w \in DOMAIN users : users[w].exists /\ w # u =>
         /\ users[u].email = users[w].email => users[u].email = NoEmail
         /\ users[u].device = users[w].device => users[u].device = NoDevice
=============================================================================
