# A TLA+ model of kaskad-backend

kaskad-backend is the server of an application store: developers upload versions of their apps from a console,
the server scans them, the platform admin reviews and publishes them, and clients download, rate and report them.
It is one asyncio process (FastAPI) over MongoDB and an object storage. There are no transactions: a handler reads a
document, decides, and after an `await` writes with an unconditional `$set`; several documents carry copies of
others; a queue of scans lives in memory; three loops run beside the requests; and any `await` may be the last one
of a handler (exception, stop of the process). Those four things are what the models are about.

1. [Inventory](#1-inventory) 2. [Modules and code](#2-modules-and-code) 3. [Runs](#3-runs-bounds-and-fairness)
4. [Proofs](#4-proofs) 5. [What the checks found](#5-what-the-checks-found) 6. [Left out, and the plan](#6-left-out-and-the-plan)

`PROJECT.json` maps each definition to its lines, lists the hazards of the code with the properties that watch them,
and gives for every property a plausible bug (a `Mutant of ...` operator next to the original) that breaks it.

## 1. Inventory

| Component | State | Operations | Correct when |
|---|---|---|---|
| Version workflow: `routers/admin_versions.py`, `services/releases.py`, `services/catalog.py` | `versions` (status, channel, review, date, scan), copy on `apps` (platforms, latest version) | edit, submit, reject, withdraw, publish (now, at a date), unschedule, archive, rescan; `publish_due` every 30 s | nothing online without a decision of the admin, one publication per decision, edits cancel submissions, the copy is exact, dates are kept |
| Scan queue: `services/scanning.py` (ScanQueue) | `asyncio.Queue`, one worker; `security_scan_status`, `auto_submit` | upload and rescan enqueue; worker; restart | no version forgotten, each gets a verdict and its automatic submission |
| Scan verdict: `scan_version`, `services/scanners/*` | report, `apk_info`, `android_package` | antivirus, format, signature, package, certificate | a pass means an engine answered; the passed APKs share a signer and a package |
| Uploads, storage, cleanup: `upload_version`, `services/storage.py`, `services/cleanup.py` | document, object, age of both | upload, undo of a failed one, hourly cleanup | confirmed uploads keep their file, leftovers go away |
| Listing and status: `routers/admin_apps.py`, `services/review.py` | `apps` (live fields, draft, review, status request), media objects | edit, upload of images, submit, publish, reject, withdraw, discard; status requests | visible listings change by review only, media follow the document |
| Categories: `routers/admin_categories.py` | `categories`, references on apps and drafts | create, delete, reassign | references exist |
| Reviews, ratings, reports, client accounts: `routers/reviews.py`, `routers/users.py`, `services/ratings.py` | `reviews`, `reports`, `users`, rating on `apps`, name on `reviews` | save, delete, hide, restore, report, resolve, rename, delete the account | copies are exact, hidden stays hidden, no orphan review |
| Developer accounts: `routers/admin_auth.py`, `services/accounts.py`, `services/auth.py`, `routers/admin_mfa.py`, `deps.py` | `accounts`, `admins`, `invitations`, `refresh_tokens`, name and suspension on `apps` | sign in and out, refresh, confirm, reset, invite, join, disable, suspend, rename, 2FA; `bootstrap` at startup | suspended and disabled members have no session, copies are exact, a required second factor is the owner's too |
| Two-factor sign-in: `routers/admin_mfa.py`, `services/mfa.py`, `core/totp.py` | on `admins`: key, pending key, last counter, hashes of recovery codes, `email_verified`; confirmation link | setup, enable, disable, new codes, second step of the login, reset by a manager, e-mail confirmation | a code opens one session, no session without a code |
| Login rate limiter: `core/ratelimit.py` | two maps of deques in memory, per address and per identifier | check, reset; empty after a restart | a team that signs in well is not blocked; `retry_after` is true |
| Public catalog and counters: `routers/public.py`, `services/catalog.py`, `services/stats.py` | `downloads`, `views`, `download_count` and `views_count` on `apps` and `versions` | app page, list of versions, updates, download, view | the handlers agree on who sees what; betas go to testers; counters are never ahead of the events |
| Client devices: `routers/users.py` | `users` (anonymous or e-mail, library, push tokens) | sign in, convert, register and remove tokens, library, delete | a push token is on one account; no two accounts share an e-mail or a device |
| API keys (partly), e-mails, activity log, web pages, i18n, seed | see `components` in PROJECT.json | | not modelled |

How they interact. *Shared documents*: a version is written by the console's handlers, the scheduler, the scan worker
and the uploader; an app by the listing handlers, the release handlers (catalog fields), the scan worker (package),
ratings, categories, counters and account suspension, each on fields of its own; an account of a client by its devices and by the
sender of notifications. *Calls*: upload and rescan enqueue a scan; the
scan calls `auto_submit`; publishing calls `go_live`, which calls `refresh_app_catalog_fields`. *Shared storage*: uploads and
cleanup; listing handlers and `delete_unreferenced`. *Process*: `lifespan` (main.py) starts and cancels the queue,
scheduler and cleanup together, and runs `bootstrap` first.

What is hard: overlapping handlers that decided on a version which has changed; the reservation `publishing`, which no
query ever looks for again; two server processes; exceptions between the writes of one handler; a stop that empties the
queue; the unique index as the only arbiter of two uploads; an unacknowledged write that was applied; a cleanup that reads
references and then deletes; denormalised copies refreshed in a later step; revocation of sessions member by member; a one-time code
checked on a snapshot and used up later; counters kept by two or three writes; links that outlive what they were given for.

## 2. Modules and code

Everywhere an actor has a step (`pc`, `step`, `worker`), the guards of the reading half are the early returns of the
handler on the snapshot it read, and each later write is one step which happens whatever the documents have
become. Python code without an `await` between is one step. Texts, mails, logs and
push messages are left out; where they can raise, an exception may end the handler at that point.

| Module | Models | Correspondence |
|---|---|---|
| `VersionStore` | the documents of one app's versions | one function per field; `shown` is the set of versions that the app's catalog fields describe (platforms and latest name are functions of it); `schedAt` is none, later or due |
| `Releases` | console handlers, `go_live`, `publish_due` | `UpdateVersion` ... `RescanVersion` read and build the `$set` (`doc`), `WriteVersion` applies it, `RefreshRead`/`RefreshWrite` are the two halves of `refresh_app_catalog_fields`, `Claim` is the `find_one_and_update`, `GoLiveRaises` and `Restore` its except branch, `PublishDueRaises` and `ClaimUnacknowledged` what no `try` of `publish_due` covers; the history `returned` counts publications made and then given back by that branch, `stranded` holds the reservations that a scheduler left behind |
| `ReleaseGate` | what the workflow promises, abstractly | a decision of the admin issues a permit; each publication spends one; where publications may fail (`MayFail`), one that was made may give its permit back |
| `Scanning` | queue, worker, `auto_submit`, restart | `TakeJob` is `queue.get()`, before any write; `JobRaises` the worker's `except`; `RescanLost` a rescan that raises between its write and its enqueue; `Restart` is `ScanQueue.start` |
| `Lifecycle` | `Releases` and `Scanning` on the same documents, in one process that stops as a whole | `ProcessStops` cuts every handler, the scheduler and the worker; `RescanStep` is `RescanUnqueued` of one with the `dropped` of the other |
| `ScanVerdict` | what the scan decides | a file is the record of what the scanners can find in it, with the *set* of the certificates of an APK, and what Authenticode says of an EXE or an MSI; `Antivirus`, `StaticAnalysis`, `CheckPackage`, `CheckCertificate`, `WriteVerdict`, `SetPackage` are the stages between two awaits |
| `UploadStore` | `upload_version` to its last except branch, `run_cleanup` | `MarkStored` and `DuplicateKey` meet the unique index; "lostAck" is a write that was applied and raised; `FindExpired` looks at the age of the document, whatever its handler does, and the history `givenUp` holds the uploads it took while they went on |
| `Listing` | live listing, draft, review, status request, images | `Reads` decides (role, guards), `Write` applies, `Reread` and `DeleteUnreferenced` are the second reading and the deletion |
| `Categories` | `admin_categories.py` on top of `Listing` | the four `update_many` of a move are four steps |
| `Reviews` | reviews, moderation, reports, client accounts | `Aggregate` and `StoreRating` are the halves of `refresh_rating` |
| `Accounts` | a developer account, its members and sessions | tokens are counted per member; `CopyToApps`, `Revoke` follow the account's write one by one; `Restart` is `bootstrap`; the second factor is on or off here |
| `RateLimiter` | `LoginRateLimiter` | `hits` holds both maps: the identifiers, and the one address `Ip`; `Pruned` is `_prune`, `CheckAttempt`/`RefuseAttempt` the ends of `check` |
| `SecondFactor` | one member's sign-in and second factor, and the links of its e-mails, on top of `RateLimiter` | a tick of `clock` is a TOTP period and the unit of the limiter's window; a handler reads, checks the code, and `SecondStepDone` or `WriteFactor` applies its `$set` with `Patch`; `link` is a confirmation link sent and not used, which `VerifyEmail` and `EmailVerified` use in two steps; its expiry after 48 hours is left out (it may be used at any time) |
| `Catalog` | the filters of the public handlers on one app's documents | one operator per filter (`PUBLIC_APP_FILTER`, `channel_filter`, `can_see_app`, ...) and per handler that lists versions |
| `Clients` | accounts of client devices | `AddPushToken` is the pull from everyone, `PushToken` the push to one; `RefuseToken` the sender's pull; `Register` reads and `RegisterWrite` converts or creates; `InstalledBy` is an account whose library names a beta |
| `Storefront` | `Catalog` and `Clients`, links and counters | `links` holds the end of each device's token; `ReadCatalog` joins the several reads of one page in one step; `Download` and `DownloadApp` are two reads, then three writes; `View` is a search, then two; `given` and `lateBeta` are histories of who was shown betas, and let have them |

`MC*` modules only instantiate these for TLC. The proofs are in `<module>Proofs`: `ReleasesProofs` has those about `Releases`, `Scanning`, the
refinement of `ReleaseGate` and the composition `Lifecycle`; `CategoriesProofs` those about `Listing`; `SecondFactorProofs` those about `RateLimiter`;
`StorefrontProofs` those about `Catalog` and `Clients`.

## 3. Runs, bounds and fairness

| Run | Question | Bounds, and why they are enough |
|---|---|---|
| `ReleasesSerial` | do handlers and scheduler keep every promise when requests do not overlap? | two versions (the catalog fields need two), one actor at a time (`MaxBusy = 1`), three decisions per version (`MaxDecisions`: now, at a date, promotion), no rescan (`MaxQueue = 0`; see 5) |
| `ReleasesFaults` | does one decision publish once, and does a due version leave the schedule, with exceptions and crashes? | one version, since no step of the reservation reads another; one request and two schedulers, two of them at a time (`MaxBusy = 2`); two decisions so that a second could hide a double use; one rescan |
| `ReleasesUnscanned` | violation: is every version that goes online scanned? | one version with one rescan is enough |
| `LifecycleSafety` | are reservations owned, and is everything online decided, with handlers, worker, exceptions and a stop? | one version, one request, one scheduler, one stop (`MaxCrashes`), one queued scan; exceptions anywhere, in the reservation and in the except branch included |
| `Scanning` | is a version ever forgotten by the queue? | two versions (one waits while the other is scanned), one stop, rescans while the queue is below `MaxQueued`, some of which raise before they are queued |
| `ScanVerdict` | what does a passed verdict guarantee? | three versions (a comparison is with one previous version only, so a third is needed for two signers to meet), eight kinds of file (`MCFiles`: two packages, APKs of one signer, of the other and of both, one unsigned, one that cannot be read, an EXE and an MSI with a signature to refuse, a wrong header and a threat that one engine sees), two engines; the listing is edited between scans only (`EditsDuringScan = FALSE`) |
| `Upload` | are confirmed uploads safe and leftovers removed? | two uploads that may share their slot; one failing cleanup (`MaxFailures`); two are enough for every pair of handler and cleanup steps; a document may grow old at any time after its insertion |
| `Categories` | do media, review and categories follow the listing, one handler at a time? | two images, two categories, both roles; `Overlap = FALSE`; one handler may stop half-way (`MayAbort`, remembered by `torn`) |
| `Reviews` | are the copies on apps and reviews exact? | two users on one app, two identifiers of reviews, one request at a time that may stop anywhere. Identifiers are not reused, so after two insertions only updates go on |
| `Accounts` | do sessions and copies follow the account? | an owner and an invited member, one app, two names, one request that may be cut anywhere, any number of restarts; at most `MaxTokens` refresh tokens per member, and `Issue` waits below it |
| `SignIn` | does each code open one session, and no password one without a code; does the limiter count what it should? | one request of the member at a time, beside a manager who resets the factor and a colleague who signs in from the same address; limits of 2, window of 2 ticks, `mfa_token` of 2, 4 ticks, at most two attempts that have not succeeded since a restart (`MaxFailures`), so that a limit is reached by one account or by two, attempts leave the window, tokens expire and codes come back within the tolerance; one key, two sets of one recovery code; the address confirmed or not at the start |
| `Storefront` | who is shown and served what, on which account is a push token, whose is an e-mail, do the counters stay behind? | two devices, one e-mail, a production and a beta version that the console may exchange, one push token; links of 1 tick and views of 1 in 3 ticks; 4 requests or steps of the console in all (`MaxSteps`), with overlaps and stops; a device may name any version in its library |

All runs but `SignIn` set `CHECK_DEADLOCK FALSE`: a bounded model stops where its bounds are exhausted, and the system may be idle.
Symmetry is used in safety runs only.

Fairness. `FairReleaseSpec`: a request runs to its end or is cut, `scheduler_loop` never stops looking, time passes; nobody is
obliged to ask anything. Strong fairness of the schedulers' work and of their claims says that `go_live` does not raise, nor the process stop, each
time it is retried: an assumption on the database and the host, for the retry of `publish_due` can promise nothing against one that always
fails. `FairScanSpec`: the worker task runs while the process does, and the container is restarted
(`restart: unless-stopped` in the compose files). `FairUploadSpec`: handlers advance until they end or die, the
cleanup loop runs again and again and fails a bounded number of times, files and documents age. Ageing needs strong fairness because the
model lets time pass only between two cleanups (the cutoff is computed once per cleanup). Nothing is assumed of how long a handler lasts.

What the properties say, by what they protect:

- *The admin decides*: `NothingWithoutAdmin`, `ImplementsGate`, `OnlyAdminUnpublishes`, `VisibleReviewed`.
- *A review is about what was submitted*: `SubmittedIsCurrent`, `PendingDecidable`, `HiddenStays`.
- *Copies are exact*: `CatalogFresh`, `RatingFresh`, `NamesCurrent`, `CopiesExact`, `MediaKept`, `MediaExact`, `CategoriesExist`, `NoOrphanReview`, `CountersBehind`.
- *Nothing is lost at a stop or an exception*: `ScheduledHasDate`, `ClaimHeld`, `NoLostScan`, `ConfirmedHasFile`, `ConfirmedIsFinal`.
- *It happens in the end*: `DueIsPublished`, `EveryScanEnds`, `AutoSubmitted`, `OrphansRemoved`.
- *Who gets in, what passes*: `SignedOut`, `OwnerProtected`, `PassedWasScanned`, `SameSigner`, `PackagesAgree`, `UsedOnce`, `SessionsPaid`,
  `TeamNotBlocked`, `RetryWorks`.
- *Who is given what*: `FiltersAgree`, `BetaConfined`, `TokensHeldOnce`, `IdentitiesApart`.
- *What the documentation says and the code does not do*: `OnlyScannedGoLive` (section 5).

The type invariant of a module is the first conjunct of one of its invariants, except `ReleaseTypeOK`, which no run checks: theorem `TypeCorrect` states it.

`TeamNotBlocked` and `SessionsPaid` compare the state with a ledger kept beside it (`failures`, `credit`): what the limiter still holds against
what really failed, and the sessions opened against the codes accepted. `BetaConfined` relates a download to the past of its link: the
last time the device read the catalog as a tester, or a library that names a beta, is at most the life of a token ago.

Several properties except what a failed handler left behind, and name it with a history variable (`dropped`, `unsent`,
`stale`, `halfNamed`, `torn`, `unrevoked`, `stranded`, `givenUp`): the exception is as narrow as the code allows, and ends when a later
handler repairs it, if one does (nothing repairs `stranded`, `unsent` and `givenUp`).

## 4. Proofs

Every invariant and every action property that a passing run checks is also a theorem about its specification, for all values of the constants.
Each theorem follows the same argument: an inductive invariant stronger than the property, true initially, kept by each
action, one lemma or one step per action. The tables name that invariant and what it adds, which is the reason why the property holds.

Assumptions on the constants are those of the modules (`ASSUME`): sets of requests, devices, tabs, versions or identifiers are finite where something is
counted, and the values for "nothing" (`NoJob`, `NoFile`, `NoReview`, `NoVersion`, ...) are none of the things they stand beside. They say nothing of the code.

Some theorems have a **hypothesis**, which is a promise that the code does not make: section 5 tells what happens without it. It is of one of two kinds.

- *Serial*: `MaxBusy = 1`, or one slot for requests (`OneSlot`), or one tab (`OneTab`), which is the bound of the run that checks the same property.
- *Apart*: the weakest condition found on *which* steps must not overlap, as a hypothesis `[]Apart` beside the specification, with any number of
  requests at work. The serial theorem of the same property is then a corollary: with one slot the condition always holds. The conditions are
  defined at the head of the part of the proofs which uses them:

| Hypothesis | What it excludes |
|---|---|
| `WorkApart` (releases) | two actors that have both decided, and not yet written, on *the same version*. Two on different versions, and any reading, queueing or refreshing, may overlap |
| `AccountsApart` (reviews) | a renaming or the deletion of a client account beside a review, a renaming or the deletion of *that* account |
| `AppsApart` (reviews) | two requests that will refresh the rating of *the same app* |
| `OwnerApart` (accounts) | the owner who removes the second factor, decided but not written, beside the `update_account` that requires it |
| `CopiesApart` (accounts) | a renaming beside another or a new app; a suspension, or its end, beside another or a new app |
| `ContentApart` (listing) | two requests that change the live listing or the draft (`update`, `publish`, `discard`), both decided and not yet written. Their second readings and deletions, every other operation and the moves of categories may overlap them |
| `SubmitsApart` (listing) | a submission decided and not yet written, beside one of those |
| `StatusApart` (listing) | an edit decided and not yet written, beside a change of status that is too |
| `CodesApart` (second factor) | two tabs of the member between the check of a code (second step, `mfa_disable`, new recovery codes) and the write that uses it up |
| `FactorApart` (second factor) | a sign-in of a member without second factor half-way, beside an `mfa_enable` decided and not yet written |
| `ViewsApart` (storefront) | two requests of *the same visitor* that have both looked for a recent view, and not yet inserted theirs |
| `SignInsApart` (accounts) | a sign-in (session, confirmation, new password, invitation) beside a suspension of the account, or beside a request that closes sessions of *the same member* |

None of these is idle: without its hypothesis, and with two requests (or tabs) at work, TLC refutes each of `OwnerProtected`, `CopiesExact`, `SignedOut`, `UsedOnce`,
`SessionsPaid`, `MediaKept`, `MediaExact`, `SubmittedIsCurrent`, `VisibleReviewed` and `OneViewPerWindow` with a behavior of at most nine states.
`~Overlap` is another one: the curator of `Categories` works only while no handler of `Listing` runs. Without it `CategoriesExist` fails in five states
(an edit checks that its categories exist, one of them is deleted, the edit is written), and `SubmittedIsCurrent` in eleven.

**Version workflow**: `Releases`, `Scanning`, `Lifecycle` (`ReleasesProofs`).

| Theorem | States | Hypothesis | Argument |
|---|---|---|---|
| `TypeCorrect` | `ReleaseTypeOK` | none | inductive as it is; one lemma for what a reading half does (`Begins`) |
| `AdminDecides` | `NothingWithoutAdmin` of `Releases` | none | between the guard of `publish_version` and its write the decision is visible in the actor only: `AdminInv` follows it in the actors, in the schedulers at work and in the catalog snapshot (`seen`) |
| `AdminDecidesAlways` | the same of `Lifecycle` | none | `AdminInv` again: the worker, `auto_submit` and a stop write documents that decide nothing |
| `PermitsCover` | `lives + holders + (1 if scheduled) <= decisions + returned` | none | counts the actors that hold a publication (`Holders`); each step moves one unit between the terms (`PermitsStep`) |
| `GateImplemented` | `ImplementsGate` | none | a step maps to `Decide`, `GoLive`, `GiveBack`, `Retire` or a stutter; `PermitsInv` is the guard of `GoLive`, `AdminInv` that of `Retire`, `RetryInv` that of `GiveBack` |
| `ClaimsAreHeld` | `ClaimHeld` of `Lifecycle` | none | `ClaimInv`: a scheduler about to write ends the reservation (`Publishing`), no other write touches a version that it holds, and whatever ends a scheduler there notes it (`stranded`) |
| `GateAlwaysImplemented` | `ImplementsGate` of `Lifecycle` | none | the same step by step; the worker, `auto_submit`, a stop and a restart are stutters of the gate |
| `DateKeptApart`, `DecidableApart`, `UnpublishedByAdminApart` | `ScheduledHasDate`, `PendingDecidable`, `OnlyAdminUnpublishes` | `[]WorkApart`, no exception in `go_live` | `FitsInv`: what an actor decided on its snapshot still fits the documents that it will write (`Fits`), which is exactly what an overlap on the same version breaks |
| `ScheduledKeepsDate`, `PendingStaysDecidable`, `AdminUnpublishes` | the same | serial, no exception | corollaries |
| `CatalogStaysFresh` | `CatalogFresh` | serial, no fault, no rescan (`MaxQueue = 0`) | `CatalogInv`: a write that changes what is public is followed by a refresh (`FitsCatalog`), and only what was scanned becomes public (`ScannedBefore`), since a verdict that comes later would change what is public without one |
| `OnlyScannedWithoutRescan` | `OnlyScannedGoLive` | no rescan (`MaxQueue = 0`) | `VerdictInv`: what is scheduled, and what an actor is about to publish, has passed. `rescan_version` is thus the only cause of the counterexample in section 5 |
| `NoScanForgotten` | `NoLostScan` of `Scanning` | none | `NoneLost`, with the queue as a sequence: whatever has no verdict is queued, in the worker, or dropped; a stop empties the first two and `Restart` finds all |
| `NoScanForgottenAlways` | the same of `Lifecycle` | none | `NoneLost` again: what a request makes pending again it queues in the same step, or it is `dropped` by the exception that comes between |

**Scan verdict** (`ScanVerdictProofs`) and **uploads** (`UploadStoreProofs`).

| Theorem | States | Hypothesis | Argument |
|---|---|---|---|
| `NothingPassesUnscanned` | `PassedWasScanned` | none | `VerdictInv`: at each stage (`JobAt`) a scan without errors has established what the earlier stages check, and a version that passed keeps it (`PassedAt`) |
| `OneSigner` | `SameSigner` | in the property: two uploaded APKs have the same certificates, or none in common (`SignersApart`) | the same invariant: an APK is compared with one previous version only, and one common certificate is enough; where signers do not mix, both suffice because the versions that passed agree already. Where they do, it is false (section 5) |
| `OnePackage` | `PackagesAgree` | the listing is not edited during a scan | `PackageInv`: between the comparison and the verdict the package of the app does not move |
| `ConfirmedKeepsFile` | `ConfirmedHasFile` | none (uploads in `givenUp` are aside in the property) | `UploadInv`: of the uploads that it did not give up while they went on, the cleanup holds only those that died, and files that no confirmed upload has |
| `ConfirmedStays` | `ConfirmedIsFinal` | the same | the same: `AbandonUpload` writes without looking, but only on uploads in `expired` |

**Listing and categories** (`CategoriesProofs`), **reviews** (`ReviewsProofs`), **accounts** (`AccountsProofs`).

| Theorem | States | Hypothesis | Argument |
|---|---|---|---|
| `CategoryTypes` | `CategoryTypeOK` | none | `TypeInv`: every request that has decided can be written on whatever the app has become (`DecidedOk`), and names only images that were made |
| `ImagesKeptApart`, `ImagesExactApart` | `MediaKept`, `MediaExact` | `[]ContentApart` | `MediaInv`: what the request about to change the listings will leave is stored, and what its write makes useless is among its candidates (`WillOk`); nobody who deletes has an image that only this request will show; every other image is owed by a request that has still to delete (`Owed`) |
| `SubmissionApart` | `SubmittedIsCurrent` | `[]SubmitsApart`, `~Overlap` | `SubmitInv`: a submission about to be written has read the draft as it is |
| `VisibleApart` | `VisibleReviewed` | `[]StatusApart` | `VisibleInv`: an edit that will write the live listing does so while the app is not visible |
| `DeletionIsSafe` | `CategoriesExist` | `~Overlap`, any number of requests | `ExistInv`: what requests have read or will set exists (nothing is deleted beside them), and a move that stopped has already added what it will replace (`MoveOk`) |
| `ImagesKept`, `ImagesExact`, `SubmissionIsCurrent`, `VisibleStaysReviewed` | the same properties | serial (`MaxBusy = 1`; `~Overlap` for the third) | corollaries |
| `HiddenReviewsStay` | `HiddenStays` | none | only the types of requests (`ReviewInv`): upsert and `update_many` do not set `hidden` |
| `RatingsApart` | `RatingFresh` | `[]AccountsApart`, `[]AppsApart` | `RatingInv`: a request will refresh every app that its write changes, what it has aggregated is still true when it stores it (`Covers`), and each rating is exact, noted as stale, or owed by a request at work (`OwesRating`) |
| `NamesApart`, `DeletionApart` | `NamesCurrent`, `NoOrphanReview` | `[]AccountsApart` | `AccountInv`: what a request has read of an account still holds (`AccountHolds`), names are exact or owed by a renaming, an account with reviews exists |
| `ReportsBounded` | `ReportedOnce`, a part of `NoOrphanReview` | none | `ReportInv`: reports that were written and those about to be written are together no more than the requests that may overlap |
| `RatingsExact`, `NamesExact`, `DeletionComplete` | the same three properties | serial | corollaries |
| `AccountTypes` | `AccountTypeOK` | none | `TypeInv`: a request that revokes still has members to do, and only requests at work have a job |
| `OwnerProtectedApart` | `OwnerProtected` | `[]OwnerApart` | `OwnerInv`: what `mfa_disable` and `update_account` read of the other's field still holds when they write (`OwnerHolds`) |
| `CopiesExactApart` | `CopiesExact` | `[]CopiesApart` | `CopiesInv`: the copies are exact, noted (`torn`), or about to be written by a request whose value is still that of the account (`CopyHolds`) |
| `SignedOutApart` | `SignedOut` | `[]SignInsApart` | `SessionsInv`: who is out has no session, or one noted (`unrevoked`) or about to be revoked; a request that lets a member in has read what is still so (`SessionHolds`); those who have not joined have no way in (`Outside`) |
| `CopiesFollow`, `DisabledAreOut`, `OwnerStaysProtected` | the same three properties | serial (`OneSlot`) | corollaries |

**Sign-in** (`SecondFactorProofs`) and **public API** (`StorefrontProofs`).

| Theorem | States | Hypothesis | Argument |
|---|---|---|---|
| `CodesApartUsedOnce` | `UsedOnce` | `[]CodesApart` | `CodesInv`: the document accepts no spent code (`Safe`), and a tab about to write leaves a safe document whether the member is as it read it or was reset by the manager meanwhile (`Ready`) |
| `FactorApartPaid` | `SessionsPaid` | `[]FactorApart` | `PaidInv`: the tabs about to open a session with a second factor are no more than the codes accepted and not yet spent on one (`credit`), and a sign-in without second factor goes on only while the member has none; the sessions of the confirmation link count on neither side (section 5) |
| `CodesUsedOnce`, `SessionsArePaid` | the same two properties | serial (`OneTab`) | corollaries |
| `TeamSignsIn` | `TeamNotBlocked` | none | `TeamInv`: from any tick on, the deque of the address has no more attempts than failed or wait for their answer. `reset` takes the *last* attempt, which may be another's: the count from every tick is what makes that harmless |
| `RetryTellsTruth` | `RetryWorks` | none | `LimitInv`: no overlap makes a deque longer than its limit, so the oldest attempt left is the one whose end opens a place; an account with no attempt left is answered from the oldest of the address, whose limit it is |
| `BetasReachTesters` | `BetaConfined` | none | `AccessInv`: a device holds a link only if it was shown a beta, as a tester or by a library, and its end is no later than that of one made at the last such time; the check of the token does the rest |
| `FiltersAlwaysAgree` | `FiltersAgree` | none | from the types alone (`FiltersAgreeTyped`): what is offered is served, by the words of each filter |
| `OneViewEach` | `OneViewPerWindow` | `[]ViewsApart` | `ViewInv`: a view that was let through is outside the window of every other of its visitor, and time only takes it farther |
| `CountersNeverAhead` | `CountersBehind` | none | `UsageInv`: what was counted and the requests about to count are together no more than the documents (`AtVersion`, `AtApp`, `AtCount`) |
| `IdentitiesStayApart` | `IdentitiesApart` | none | `IdentityInv`: every step leaves the identities alone or gives one account its own (`OwnIdentity`); for `register` that is the unique index, not the check before it |
| `TokensStayHeldOnce` | `TokensHeldOnce` | none beyond the model's: a device makes one request at a time | `TokensInv`: no token is held twice or by two accounts (`Alone`), and a token about to be pushed was pulled from every account (`Carries`). What `$pull` keeps of a list is a recursive function (`Without`); its three facts are proved by a least counterexample over the prefixes of the list |

Only model-checked: the liveness properties (`DueIsPublished`, `EveryScanEnds`, `AutoSubmitted`, `OrphansRemoved`), because fairness and ENABLED are out of
these provers' reach. `Lifecycle` is proved for the four properties that concern both of its parts (`NothingWithoutAdmin`, `ClaimHeld`,
`ImplementsGate`, `NoLostScan`); the other invariants are proved of one part, with the other one idle. Definitions that a
prover must expand avoid folds: `$set` is `Patch`, counts are cardinalities (`CountedDownloads`, `Failed`).

## 5. What the checks found

One disagreement between the code and its documentation is kept as a run:

- `ReleasesUnscanned`: *"A version can only be published after its scan has passed"* (src/README.md:54). `publish_due`
  looks at status and date only; `rescan_version` accepts a scheduled version. Schedule, rescan, and at the date the version goes
  `published` with a pending or failed scan (the public filters then hide it, but e-mails and pushes announce it).

The others were met while the runs were set up, and TLC shows most of them when the bound or the exception that they explain is taken away
(the lengths are those of its behaviors). First those in which the code does not do what a document or a comment says:

- *A date that is lost*: *"The version becomes `scheduled` and a background task publishes it at that time"* (src/README.md:349). If `go_live` raises after its first
  write, the except branch (releases.py:114) restores `scheduled` without the date that this write removed, and the version may be announced twice.
  With exceptions `ScheduledHasDate` fails in eleven states; it holds in `ReleasesSerial`, without them, and `ReleaseGate` has `GiveBack`.
- *A reservation left behind*: the same sentence. `find_one_and_update` (releases.py:104) is outside the `try`: applied but not acknowledged, it leaves `publishing`
  to nobody; so does the except branch when its own update fails, and a stop. No query looks for `publishing` again: a due version may stay there
  for ever, without any stop. `ClaimHeld` and `DueIsPublished` name these reservations (`stranded`) and hold for every other.
- *An archive that overlaps a publication*: *"Retirer une version en ligne est réservé aux admins complets"* (admin_versions.py:380). An editor's archive that was
  decided on a draft is written after the admin published it: with two requests `OnlyAdminUnpublishes` fails in seven states.
- *An automatic submission that is lost*: *"the version is submitted for review automatically as soon as its security scan passes"* (src/README.md:370). A stop, or an
  exception, between the verdict and `auto_submit` loses it: the restart queues only versions without a verdict. `AutoSubmitted` excepts those (`unsent`).
  `auto_submit` also writes its review over an archive that overlaps it.
- *Signers that mix*: *"Le certificat de signature doit être identique à celui des APK déjà validés"* (scanning.py:78). One certificate in common with the
  validated APK of the highest version code is enough (scanning.py:93), and that is not transitive: {A}, {A, B}, {B} all pass. Hence `SignersApart` in `SameSigner`.
- *A slow upload*: *"uploads interrupted for more than `ORPHAN_UPLOAD_MAX_AGE_HOURS`"* (src/README.md:401). The query of the cleanup (cleanup.py:22) looks at the age
  of the document only; a slow upload is given up while it goes on, and may confirm without its file (nine states), or be abandoned after it
  confirmed. `ConfirmedHasFile` and `ConfirmedIsFinal` leave those uploads aside (`givenUp`).
- *A session without a code*: *"sign-in in two steps (`mfa_token` valid 5 min, then a 6-digit code or a recovery code)"* (src/Functionnalities.md:59). `verify_email`
  (admin_auth.py:217-227) ends in `_session`, not in `session_or_challenge`, and its link stays good when the address is confirmed by a reset of the password
  instead: sign up, reset the password, turn two-factor on, open the first link. `SessionsPaid` is about the sessions of a password.
- *Views that overlap*: *"one view per visitor and app every 30 min"* (src/README.md:436). `record_view` looks, then inserts (stats.py:45-49): two overlapping
  views of one visitor are both counted (seven states). No run claims otherwise; theorem `OneViewEach` says that it takes such an overlap.

Then the limits of what the code promises nowhere in so many words:

- *A rescan and the catalog fields*: `rescan_version` makes a published version pending, and its verdict may be `failed`; neither calls
  `refresh_app_catalog_fields`, so the app's fields describe the version until another handler does. `CatalogFresh` is checked without rescans.
- *Overlapping requests on a version*: a handler that decided on a draft writes after the admin published (a developer archives an online version, changes its
  channel, an edit does not cancel the submission made meanwhile, two `refresh_app_catalog_fields` write in the opposite order).
  `CatalogFresh`, `PendingDecidable`, `ScheduledHasDate` and `OnlyAdminUnpublishes` hold for requests that do not overlap, which is what `ReleasesSerial` states;
  for the last three, requests on the same version are the only ones that matter (`WorkApart`, section 4).
- *Overlapping edits of a listing*: two edits of images may delete a file that one of them has just put in use; an edit decided before the
  admin published the app writes live fields that nobody reviewed; a submission overlapped by an edit is about another draft. Hence one handler at a time in the run of `Categories`, and
  `ContentApart`, `StatusApart` and `SubmitsApart` in its theorems, each of which excludes one of these three.
- *A package edited during a scan*: `_check_apk_consistency` compares with the package it read; if the listing is given another one before the verdict, a version of the old package
  passes under the new one. `PackagesAgree` is about listings edited between scans (`EditsDuringScan = FALSE`).
- *Reassigning a category to itself*: `$addToSet` does nothing, `$pull` removes it: the apps lose the category.
- *Ratings*: two overlapping `refresh_rating` may leave the older aggregate; a handler cut before it leaves the rating stale until the next one (`stale`).
- *Display names*: `update_me` copies a blank name as it is while new reviews fall back on a part of the e-mail address, so `NamesCurrent` leaves accounts without a name aside.
- *Confirmation link*: `verify_email` opens a session without looking at the suspension of the account. Its requests are refused, but a
  refresh token exists, so `SignedOut` excepts it.
- *One member's overlapping requests*: the counter or the recovery code is checked on the member that was read and used up in a later write, so two
  second steps at the same moment accept the same code twice (and `totp_last_counter` may go back). The run lets the member make one request at a
  time; the theorems only keep apart what uses a code up (`CodesApart`), and a sign-in without second factor from the moment one is switched on (`FactorApart`), whatever the manager does beside them.
- *The installed version of a library*: src/README.md:347 says a published beta is returned only to signed-in testers; `_my_apps` gives a fresh link for the installed version
  whatever its channel (users.py:136), and `put_library` accepts any version (users.py:197). In `BetaConfined` a library that names a beta therefore counts like a tester's catalog:
  whoever keeps one there keeps getting links; others lose the beta within the life of a token.
- *`retry_after` of an address*: the refusal for the limit of the address is computed from the attempts of the *account* when it has some (ratelimit.py:38). `RetryWorks` is about an account at its
  own limit, or without attempts of its own; for one with a few, below its limit, its oldest attempt may be older than all that the address still holds, and the client that
  waits is refused again (a behavior of nineteen states, in which two sign-ins forget another's attempts of the address).
- *A push token and two requests of one device*: a token is pulled from everyone, then pushed to one account. If a device overlaps its own requests
  the token can end on two; `TokensHeldOnce` is about devices that make one request at a time.
- *Others, not shown by a run*: two overlapping invitations to one address leave two links (admin_auth.py:564); `create_app` inserts the suspension it read (admin_apps.py:110); a stop
  during sign-up leaves an account without an owner (admin_auth.py:188); a refresh token issued while `revoke_all` runs survives it (services/auth.py:32).

## 6. Left out, and the plan

Not modelled, and why: cryptography (JWT signatures, the digits of TOTP codes, hashing), parsing of APK and PE files, e-mail and push texts, web pages,
lists and search of the catalog, aggregations of statistics, activity log, seed data: no state, or state that nothing else reads. They are about half of the
lines of the repository that no module maps.

State that could still be modelled: sign-up and its undo on a duplicate e-mail; roles of members; expiry dates and management of API keys; replies to reviews; favorites
and followed apps; installations (one upsert per device and app); multipart uploads and `.part` files.

Overlaps that the runs do not explore, because the property is known to fail there (see 5): two requests of one account of `Accounts`, two handlers of
one listing, two reviews of one app, two tabs of one member. The theorems say which of these overlaps are harmless (section 4, *apart*).

Next, proofs: that `Lifecycle` implements `Releases` and `Scanning` up to their environment, so that what is proved of the parts holds of the whole.
