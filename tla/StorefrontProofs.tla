-------------------------- MODULE StorefrontProofs --------------------------
(***************************************************************************)
(* What Storefront promises for any number of devices, versions, e-mails   *)
(* and requests: the filters of the handlers agree; betas reach testers,   *)
(* or those whose library names them, in time; a visitor whose views do not*)
(* overlap counts once in a window, and no counter runs ahead; no two      *)
(* accounts share an identity, or the token of a device.  Each promise has *)
(* an invariant of its own, on top of the one of access.                   *)
(***************************************************************************)
EXTENDS Storefront, FiniteSetTheorems, FunctionTheorems, SequenceTheorems, WellFoundedInduction, TLAPS

\* The part of the state that decides who is given a beta.  A device holds a
\* token only if it read the catalog as a tester, or a library that names a
\* beta, and the token ends no later than one made at the last such time would.
PerDevice == pc = [d \in Devices |-> pc[d]] /\ job = [d \in Devices |-> job[d]]

AccessInv ==
  /\ CatalogTypeOK
  /\ PerDevice
  /\ clock \in Nat /\ clock >= 1
  /\ links \in [Devices -> [Versions -> Nat]]
  /\ given \in [Devices -> Nat] /\ \A d \in Devices : given[d] <= clock
  /\ \A d \in Devices, v \in Versions : links[d][v] # 0 =>
       given[d] # 0 /\ links[d][v] <= given[d] + TokenTtl
  /\ lateBeta = {}

accessOnly == <<catalogVars, clock, accessVars>>

(***************************************************************************)
(* Whoever is shown a beta is a tester: four handlers, four filters.       *)
(***************************************************************************)
LEMMA ShownBetas ==
  ASSUME NEW e, NEW v \in Versions, Beta(v),
         v \in PageVersions(e) \cup ListedVersions(e) \cup MyLatest(e) \cup OfferedUpdates(e, 0)
  PROVE  IsTester(e)
<1>1. CASE v \in PageVersions(e)
  BY <1>1 DEF PageVersions, CanSee, ChannelFilter, InTesting
<1>2. CASE v \in ListedVersions(e)
  BY <1>2 DEF ListedVersions, PublicApp, ChannelFilter, InTesting
<1>3. CASE v \in MyLatest(e)
  BY <1>3 DEF MyLatest, CanSee, Newest, InTesting
<1>4. CASE v \in OfferedUpdates(e, 0)
  BY <1>4 DEF OfferedUpdates, Newest
<1> QED BY <1>1, <1>2, <1>3, <1>4

(***************************************************************************)
(* The state of the catalog keeps its type, whatever the console does.     *)
(***************************************************************************)
LEMMA ConsoleTyped == CatalogTypeOK /\ ConsoleStep => CatalogTypeOK'
<1> SUFFICES ASSUME CatalogTypeOK, ConsoleStep PROVE CatalogTypeOK'
  OBVIOUS
<1> USE DEF CatalogTypeOK
<1>1. ASSUME NEW s \in {"draft", "published", "archived"}, SetStatus(s) PROVE CatalogTypeOK'
  BY <1>1 DEF SetStatus
<1>2. CASE SetSuspended(~app.suspended)
  BY <1>2 DEF SetSuspended
<1>3. ASSUME NEW ts \in SUBSET Emails, SetTesters(ts) PROVE CatalogTypeOK'
  BY <1>3 DEF SetTesters
<1>4. ASSUME NEW v \in Versions, Promote(v) PROVE CatalogTypeOK'
  BY <1>4 DEF Promote
<1>5. ASSUME NEW v \in Versions, SetPublic(v, ~version[v].public) PROVE CatalogTypeOK'
  BY <1>5 DEF SetPublic
<1> QED BY <1>1, <1>2, <1>3, <1>4, <1>5 DEF ConsoleStep

(***************************************************************************)
(* A step that does not touch the access of any device keeps the invariant.*)
(***************************************************************************)
LEMMA OtherSteps == AccessInv /\ UNCHANGED accessOnly /\ PerDevice' => AccessInv'
BY DEF accessOnly, catalogVars, accessVars, AccessInv, CatalogTypeOK

\* Requests begin, go on and end.
LEMMA BeginPerDevice ==
  ASSUME PerDevice, NEW d \in Devices, NEW at, NEW j, Begin(d, at, j)
  PROVE  PerDevice'
BY DEF PerDevice, Begin

LEMMA EndPerDevice == ASSUME PerDevice, NEW d \in Devices, End(d) PROVE PerDevice'
BY DEF PerDevice, End

LEMMA MovePerDevice ==
  ASSUME PerDevice, NEW d \in Devices, NEW at,
         pc' = [pc EXCEPT ![d] = at], job' = job
  PROVE  PerDevice'
BY DEF PerDevice

LEMMA StayPerDevice == ASSUME PerDevice, UNCHANGED <<pc, job>> PROVE PerDevice'
BY DEF PerDevice

LEMMA ClientPerDevice ==
  ASSUME PerDevice, NEW d \in Devices, ClientStep(d) PROVE PerDevice'
<1>1. CASE LoginAnonymous(d) \/ Logout(d) \/ DeleteAccount(d) \/ RemovePushToken(d)
  BY <1>1, StayPerDevice DEF LoginAnonymous, Logout, DeleteAccount, RemovePushToken
<1>2. CASE RegisterWrite(d) \/ PushToken(d)
  BY <1>2, EndPerDevice DEF RegisterWrite, PushToken
<1>3. CASE AddPushToken(d)
  BY <1>3, BeginPerDevice DEF AddPushToken
<1>4. ASSUME NEW e \in Emails, Register(d, e) PROVE PerDevice'
  BY <1>4, BeginPerDevice DEF Register
<1>5. ASSUME NEW e \in Emails, Login(d, e) PROVE PerDevice'
  BY <1>5, StayPerDevice DEF Login
<1> QED BY <1>1, <1>2, <1>3, <1>4, <1>5 DEF ClientStep

LEMMA UsagePerDevice ==
  ASSUME PerDevice, NEW d \in Devices, UsageStep(d) PROVE PerDevice'
<1>1. CASE InsertDownload(d)
  BY <1>1, MovePerDevice DEF InsertDownload
<1>2. CASE CountVersion(d)
  BY <1>2, MovePerDevice DEF CountVersion
<1>3. CASE CountApp(d)
  BY <1>3, EndPerDevice DEF CountApp
<1>4. CASE InsertView(d)
  BY <1>4, MovePerDevice DEF InsertView
<1>5. CASE CountView(d)
  BY <1>5, EndPerDevice DEF CountView
<1> QED BY <1>1, <1>2, <1>3, <1>4, <1>5 DEF UsageStep

LEMMA AccessInit == StoreInit => AccessInv
BY DEF StoreInit, ClientsInit, AccessInv, PerDevice, CatalogTypeOK

(***************************************************************************)
(* The steps that give a device something: a link, a download that its     *)
(* link opens.                                                             *)
(***************************************************************************)
LEMMA ReadKeeps == ASSUME AccessInv, NEW d \in Devices, ReadCatalog(d) PROVE AccessInv'
<1> DEFINE e == EmailOf(d)
           reads == IsTester(e) \/ \E v \in Installed(d) : Beta(v)
<1>1. PICK shown \in {PageVersions(e), ListedVersions(e), OfferedUpdates(e, 0), MyLatest(e) \cup Installed(d)} :
        links' = [links EXCEPT ![d] = [v \in Versions |->
                    IF v \in shown /\ Beta(v) THEN clock + TokenTtl ELSE links[d][v]]]
  BY DEF ReadCatalog
<1>2. /\ UNCHANGED <<catalogVars, clock, lateBeta, pc, job>>
      /\ given' = IF reads THEN [given EXCEPT ![d] = clock] ELSE given
  BY DEF ReadCatalog, clientVars
<1>3. links' \in [Devices -> [Versions -> Nat]]
  BY <1>1, StorefrontAssumption DEF AccessInv
<1>4. ASSUME NEW v \in Versions, v \in shown, Beta(v) PROVE reads
  <2>1. CASE v \in Installed(d)
    BY <1>4, <2>1
  <2>2. CASE v \notin Installed(d)
    <3>1. v \in PageVersions(e) \cup ListedVersions(e) \cup MyLatest(e) \cup OfferedUpdates(e, 0)
      BY <1>4, <2>2
    <3> QED BY <3>1, <1>4, ShownBetas
  <2> QED BY <2>1, <2>2
<1> HIDE DEF reads
<1>5. /\ given' \in [Devices -> Nat]
      /\ \A p \in Devices : given[p] <= given'[p] /\ given'[p] <= clock
      /\ reads => given'[d] = clock
  BY <1>2 DEF AccessInv
<1>6. ASSUME NEW p \in Devices, NEW v \in Versions, links'[p][v] # 0
      PROVE  given'[p] # 0 /\ links'[p][v] <= given'[p] + TokenTtl
  <2>1. CASE p = d /\ v \in shown /\ Beta(v)
    <3>1. links'[p][v] = clock + TokenTtl
      BY <1>1, <2>1 DEF AccessInv
    <3> QED BY <3>1, <2>1, <1>4, <1>5, StorefrontAssumption DEF AccessInv
  <2>2. CASE ~(p = d /\ v \in shown /\ Beta(v))
    <3>1. links'[p][v] = links[p][v] /\ links[p][v] \in Nat
      BY <1>1, <2>2 DEF AccessInv
    <3>2. given[p] # 0 /\ links[p][v] <= given[p] + TokenTtl
      BY <3>1, <1>6 DEF AccessInv
    <3>3. given[p] \in Nat /\ given'[p] \in Nat /\ given[p] <= given'[p] /\ TokenTtl \in Nat
      BY <1>5, StorefrontAssumption DEF AccessInv
    <3> QED BY <3>1, <3>2, <3>3
  <2> QED BY <2>1, <2>2
<1>7. PerDevice'
  BY <1>2 DEF AccessInv, PerDevice
<1> QED BY <1>2, <1>3, <1>5, <1>6, <1>7 DEF AccessInv, CatalogTypeOK, catalogVars

LEMMA DownloadKeeps ==
  ASSUME AccessInv, NEW d \in Devices, NEW v \in Versions, Download(d, v) PROVE AccessInv'
<1>1. UNCHANGED <<catalogVars, clock, links, given>>
  BY DEF Download
<1>2. Beta(v) => given[d] # 0 /\ clock <= given[d] + TokenTtl
  <2> SUFFICES ASSUME Beta(v) PROVE given[d] # 0 /\ clock <= given[d] + TokenTtl
    OBVIOUS
  <2>1. links[d][v] >= clock /\ links[d][v] \in Nat /\ clock \in Nat /\ clock >= 1
    BY DEF Download, VersionServed, TokenAccepted, AccessInv
  <2>2. given[d] # 0 /\ links[d][v] <= given[d] + TokenTtl /\ given[d] \in Nat /\ TokenTtl \in Nat
    BY <2>1, StorefrontAssumption DEF AccessInv
  <2> QED BY <2>1, <2>2
<1>3. lateBeta' = {}
  <2>1. given[d] \in Nat /\ clock \in Nat /\ TokenTtl \in Nat /\ lateBeta = {}
    BY StorefrontAssumption DEF AccessInv
  <2>2. ~(Beta(v) /\ (given[d] = 0 \/ clock > given[d] + TokenTtl))
    BY <1>2, <2>1
  <2> QED BY <2>1, <2>2 DEF Download
<1>4. PerDevice'
  BY BeginPerDevice DEF Download, AccessInv
<1> QED BY <1>1, <1>3, <1>4 DEF AccessInv, CatalogTypeOK, catalogVars

LEMMA AccessNext == AccessInv /\ [StoreNext]_storeVars => AccessInv'
<1> SUFFICES ASSUME AccessInv, [StoreNext]_storeVars PROVE AccessInv'
  OBVIOUS
<1>0. PerDevice
  BY DEF AccessInv
<1>1. ASSUME NEW d \in Devices, ClientStep(d), UNCHANGED <<catalogVars, clock, accessVars>>
      PROVE  AccessInv'
  BY <1>0, <1>1, ClientPerDevice, OtherSteps DEF accessOnly, accessVars
<1>2. ASSUME NEW d \in Devices, ReadCatalog(d) PROVE AccessInv'
  BY <1>2, ReadKeeps
<1>3. ASSUME NEW d \in Devices, NEW v \in Versions, Download(d, v) PROVE AccessInv'
  BY <1>3, DownloadKeeps
<1>4. ASSUME NEW d \in Devices, DownloadApp(d) PROVE AccessInv'
  <2>1. UNCHANGED accessOnly
    BY <1>4 DEF DownloadApp, accessOnly
  <2>2. PerDevice'
    <3>1. CASE End(d)
      BY <1>0, <3>1, EndPerDevice
    <3>2. CASE pc' = [pc EXCEPT ![d] = "insert"] /\ job' = job
      BY <1>0, <3>2, MovePerDevice
    <3> QED BY <1>4, <3>1, <3>2 DEF DownloadApp
  <2> QED BY <2>1, <2>2, OtherSteps
<1>5. ASSUME NEW d \in Devices, NEW source \in {"app", "web"}, View(d, source),
             UNCHANGED <<catalogVars, clock, accessVars>>
      PROVE  AccessInv'
  <2>1. PerDevice'
    BY <1>0, <1>5, BeginPerDevice DEF View
  <2> QED BY <2>1, <1>5, OtherSteps DEF accessOnly, accessVars
<1>6. ASSUME NEW d \in Devices, UsageStep(d), UNCHANGED <<catalogVars, clock, accessVars>>
      PROVE  AccessInv'
  BY <1>0, <1>6, UsagePerDevice, OtherSteps DEF accessOnly, accessVars
<1>7. ASSUME NEW d \in Devices, RequestFails(d) PROVE AccessInv'
  <2>1. End(d) /\ UNCHANGED accessOnly
    BY <1>7 DEF RequestFails, accessOnly, accessVars
  <2> QED BY <1>0, <2>1, EndPerDevice, OtherSteps
<1>8. ASSUME NEW u, NEW d \in Devices, RefuseToken(u, d), UNCHANGED <<catalogVars, clock, accessVars>>
      PROVE  AccessInv'
  BY <1>0, <1>8, StayPerDevice, OtherSteps DEF RefuseToken, accessOnly, accessVars
<1>9. ASSUME ConsoleStep, UNCHANGED <<clientVars, clock, accessVars>> PROVE AccessInv'
  <2>1. CatalogTypeOK'
    BY <1>9, ConsoleTyped DEF AccessInv
  <2> QED BY <2>1, <1>9 DEF clientVars, accessVars, AccessInv, PerDevice
<1>10. CASE Tick
  BY <1>10 DEF Tick, AccessInv, PerDevice, catalogVars, clientVars, accessVars, CatalogTypeOK
<1>11. CASE UNCHANGED storeVars
  BY <1>0, <1>11, StayPerDevice, OtherSteps DEF storeVars, clientVars, accessVars, accessOnly
<1>12. ASSUME NEW d \in Devices, NEW v, PutLibrary(d, v), UNCHANGED <<catalogVars, clock, accessVars>>
       PROVE  AccessInv'
  BY <1>0, <1>12, StayPerDevice, OtherSteps DEF PutLibrary, accessOnly, accessVars
<1> QED
  BY <1>1, <1>2, <1>3, <1>4, <1>5, <1>6, <1>7, <1>8, <1>9, <1>10, <1>11, <1>12 DEF StoreNext

(***************************************************************************)
(* "A published beta is returned only to signed-in testers", or by a       *)
(* library that names it, for no longer than the life of a token: for any  *)
(* number of devices, versions and e-mails, and any steps of the console.  *)
(***************************************************************************)
THEOREM BetasReachTesters == StoreSpec => []BetaConfined
<1>1. AccessInv => BetaConfined
  BY DEF AccessInv, BetaConfined
<1> QED BY <1>1, AccessInit, AccessNext, PTL DEF StoreSpec

(***************************************************************************)
(* The four handlers that show versions and the one that serves them use   *)
(* filters that agree, in every state of the catalog.                      *)
(***************************************************************************)
LEMMA FiltersAgreeTyped == CatalogTypeOK => FiltersAgree
<1> SUFFICES ASSUME CatalogTypeOK PROVE FiltersAgree
  OBVIOUS
<1> USE DEF CatalogTypeOK
<1>1. ASSUME NEW e \in Emails \cup {NoEmail}
      PROVE  ListedVersions(e) \cup MyLatest(e) \subseteq PageVersions(e)
  <2>1. ListedVersions(e) \subseteq PageVersions(e)
    BY DEF ListedVersions, PageVersions, PublicApp, ReachableApp, CanSee
  <2>2. MyLatest(e) \subseteq PageVersions(e)
    BY DEF MyLatest, Newest, PageVersions, ChannelFilter, ReachableApp, CanSee, InTesting, Public, Beta, IsTester
  <2> QED BY <2>1, <2>2
<1>2. ASSUME NEW e \in Emails \cup {NoEmail}, NEW v \in PageVersions(e) PROVE Downloadable(v, TRUE)
  BY <1>2 DEF PageVersions, ChannelFilter, Downloadable, VersionServed, AppServes
<1>3. ASSUME NEW e \in Emails \cup {NoEmail}
      PROVE  OfferedUpdates(e, 0) = {v \in Newest(PageVersions(e)) : CodeOf[v] > 0}
  <2> DEFINE candidates == {v \in Public : (Beta(v) /\ IsTester(e)) \/ (~Beta(v) /\ ~InTesting)}
  <2>1. CASE ReachableApp /\ CanSee(e)
    <3>0. InTesting => IsTester(e)
      BY <2>1 DEF CanSee, InTesting
    <3>1. ASSUME NEW v \in Public PROVE v \in candidates <=> v \in ChannelFilter(e)
      <4>1. v \in Versions
        BY DEF Public
      <4>2. v \in candidates <=> (Beta(v) /\ IsTester(e)) \/ (~Beta(v) /\ ~InTesting)
        BY DEF Beta, IsTester, InTesting
      <4>3. v \in ChannelFilter(e) <=> (IF InTesting THEN Beta(v) ELSE IsTester(e) \/ ~Beta(v))
        BY <4>1 DEF ChannelFilter
      <4> QED BY <3>0, <4>2, <4>3 DEF Beta, IsTester, InTesting
    <3>2. PageVersions(e) = candidates
      BY <3>1, <2>1 DEF PageVersions
    <3> HIDE DEF candidates
    <3>3. OfferedUpdates(e, 0) = {v \in Newest(candidates) : CodeOf[v] > 0}
      BY <2>1, Zenon DEF OfferedUpdates, candidates
    <3> QED BY <3>2, <3>3
  <2>2. CASE ~(ReachableApp /\ CanSee(e))
    BY <2>2 DEF OfferedUpdates, PageVersions, Newest
  <2> QED BY <2>1, <2>2
<1>4. {v \in Versions : Downloadable(v, FALSE)} = PageVersions(NoEmail)
  <2>1. ~IsTester(NoEmail)
    BY CatalogAssumption DEF IsTester
  <2> QED BY <2>1 DEF Downloadable, VersionServed, AppServes, PageVersions, ChannelFilter, Public, ReachableApp, CanSee, InTesting
<1> QED BY <1>1, <1>2, <1>3, <1>4 DEF FiltersAgree

(***************************************************************************)
(* Every version shown can be downloaded with its link, and nothing else   *)
(* can be without one, for any number of versions, codes and e-mails.      *)
(***************************************************************************)
THEOREM FiltersAlwaysAgree == StoreSpec => []FiltersAgree
<1>1. AccessInv => FiltersAgree
  BY FiltersAgreeTyped DEF AccessInv
<1> QED BY <1>1, AccessInit, AccessNext, PTL DEF StoreSpec

-----------------------------------------------------------------------------
(***************************************************************************)
(* Lists that grow.                                                        *)
(***************************************************************************)
IsList(s, n) == n \in Nat /\ s = [i \in 1..n |-> s[i]]

LEMMA ListLength ==
  ASSUME NEW s, NEW n, IsList(s, n)
  PROVE  Len(s) = n /\ DOMAIN s = 1..n
<1> DEFINE S == {s[i] : i \in 1..n}
<1>1. s \in [1..n -> S] /\ n \in Nat /\ DOMAIN s = 1..n
  BY DEF IsList
<1> HIDE DEF S
<1>2. s \in Seq(S)
  BY <1>1, SeqDef
<1>3. Len(s) \in Nat /\ DOMAIN s = 1..Len(s)
  BY <1>2, LenProperties
<1>4. 1..Len(s) = 1..n
  BY <1>1, <1>3
<1>5. \A m \in Nat : 1..m = 1..n => m = n
  <2> SUFFICES ASSUME NEW m \in Nat, 1..m = 1..n PROVE m = n
    OBVIOUS
  <2>1. (m > 0 => m \in 1..n) /\ (n > 0 => n \in 1..m)
    BY <1>1
  <2> QED BY <1>1, <2>1
<1> QED BY <1>1, <1>3, <1>4, <1>5

LEMMA ListAppended ==
  ASSUME NEW s, NEW n, IsList(s, n), NEW x
  PROVE  /\ IsList(Append(s, x), n + 1) /\ n + 1 \in 1..(n + 1)
         /\ Append(s, x)[n + 1] = x
         /\ \A i \in 1..n : Append(s, x)[i] = s[i]
         /\ \A i \in 1..(n + 1) : i \in 1..n \/ i = n + 1
<1> DEFINE S == {s[i] : i \in 1..n} \cup {x}
           r == Append(s, x)
<1>1. s \in [1..n -> S] /\ n \in Nat /\ Len(s) = n /\ x \in S
  BY ListLength DEF IsList
<1> HIDE DEF S, r
<1>2. s \in Seq(S)
  BY <1>1, SeqDef
<1>3. /\ r \in Seq(S) /\ Len(r) = n + 1 /\ r[n + 1] = x
      /\ \A i \in 1..n : r[i] = s[i]
  BY <1>1, <1>2, AppendProperties DEF r
<1>4. r \in [1..(n + 1) -> S] /\ n + 1 \in Nat
  BY <1>1, <1>3, LenProperties
<1>5. IsList(r, n + 1)
  BY <1>4 DEF IsList
<1>6. n + 1 \in 1..(n + 1) /\ \A i \in 1..(n + 1) : i \in 1..n \/ i = n + 1
  BY <1>1
<1> QED BY <1>3, <1>5, <1>6 DEF r

-----------------------------------------------------------------------------
(***************************************************************************)
(* The steps that count nothing: no request gets further than what clients *)
(* ask of their account.                                                   *)
(***************************************************************************)
Stays(d) == pc'[d] = pc[d] /\ job'[d] = job[d]

Quiet ==
  /\ UNCHANGED usageVars /\ clock' \in {clock, clock + 1}
  /\ \A d \in Devices : Stays(d) \/ pc'[d] \in {"idle", "register", "push"}

LEMMA BeginQuiet ==
  ASSUME PerDevice, NEW d \in Devices, NEW at \in {"register", "push"}, NEW j, Begin(d, at, j)
  PROVE  \A p \in Devices : Stays(p) \/ pc'[p] \in {"idle", "register", "push"}
BY DEF PerDevice, Begin, Stays

LEMMA EndQuiet ==
  ASSUME PerDevice, NEW d \in Devices, End(d)
  PROVE  \A p \in Devices : Stays(p) \/ pc'[p] \in {"idle", "register", "push"}
BY DEF PerDevice, End, Stays

LEMMA ClientQuiet ==
  ASSUME PerDevice, NEW d \in Devices, ClientStep(d)
  PROVE  \A p \in Devices : Stays(p) \/ pc'[p] \in {"idle", "register", "push"}
<1>1. CASE LoginAnonymous(d) \/ Logout(d) \/ DeleteAccount(d) \/ RemovePushToken(d)
  BY <1>1 DEF LoginAnonymous, Logout, DeleteAccount, RemovePushToken, Stays
<1>2. CASE RegisterWrite(d) \/ PushToken(d)
  BY <1>2, EndQuiet DEF RegisterWrite, PushToken
<1>3. CASE AddPushToken(d)
  BY <1>3, BeginQuiet DEF AddPushToken
<1>4. ASSUME NEW e \in Emails, Register(d, e)
      PROVE  \A p \in Devices : Stays(p) \/ pc'[p] \in {"idle", "register", "push"}
  BY <1>4, BeginQuiet DEF Register
<1>5. ASSUME NEW e \in Emails, Login(d, e)
      PROVE  \A p \in Devices : Stays(p) \/ pc'[p] \in {"idle", "register", "push"}
  BY <1>5 DEF Login, Stays
<1> QED BY <1>1, <1>2, <1>3, <1>4, <1>5 DEF ClientStep

LEMMA StoreSteps ==
  ASSUME PerDevice, [StoreNext]_storeVars
  PROVE  \/ Quiet
         \/ \E d \in Devices, v \in Versions : Download(d, v)
         \/ \E d \in Devices : DownloadApp(d)
         \/ \E d \in Devices, source \in {"app", "web"} : View(d, source) /\ clock' = clock
         \/ \E d \in Devices : UsageStep(d) /\ clock' = clock
<1>1. ASSUME NEW d \in Devices, ClientStep(d), UNCHANGED <<clock, usageVars>> PROVE Quiet
  BY <1>1, ClientQuiet DEF Quiet
<1>2. ASSUME UNCHANGED <<clock, usageVars, pc, job>> PROVE Quiet
  BY <1>2 DEF Quiet, Stays
<1>3. ASSUME NEW d \in Devices, NEW v, PutLibrary(d, v), UNCHANGED <<clock, usageVars>> PROVE Quiet
  BY <1>2, <1>3 DEF PutLibrary
<1>4. ASSUME NEW d \in Devices, ReadCatalog(d) PROVE Quiet
  BY <1>2, <1>4 DEF ReadCatalog, clientVars
<1>5. ASSUME NEW d \in Devices, RequestFails(d) PROVE Quiet
  BY <1>5, EndQuiet DEF RequestFails, Quiet
<1>6. ASSUME NEW u, NEW d \in Devices, RefuseToken(u, d), UNCHANGED <<clock, usageVars>> PROVE Quiet
  BY <1>2, <1>6 DEF RefuseToken
<1>7. ASSUME UNCHANGED <<clientVars, clock, usageVars>> PROVE Quiet
  BY <1>2, <1>7 DEF clientVars
<1>8. CASE Tick
  BY <1>8 DEF Tick, Quiet, Stays, clientVars
<1>9. CASE UNCHANGED storeVars
  BY <1>2, <1>9 DEF storeVars, clientVars
<1> QED BY <1>1, <1>3, <1>4, <1>5, <1>6, <1>7, <1>8, <1>9 DEF StoreNext

-----------------------------------------------------------------------------
(***************************************************************************)
(* The views of a visitor.                                                 *)
(***************************************************************************)

\* A view that was let through is not in the window of any other of its
\* visitor, and will not be when it is inserted.
ViewInv ==
  /\ clock \in Nat
  /\ IsList(views, Len(views))
  /\ \A i \in 1..Len(views) : views[i].at \in Nat
  /\ \A d \in Devices : pc[d] = "view" =>
       \A i \in 1..Len(views) :
         views[i].visitor = job[d].visitor => views[i].at + ViewWindow < clock
  /\ OneViewPerWindow

\* No two requests have looked the views of the same visitor up, and are about
\* to insert one.
ViewsApart ==
  \A p, q \in Devices :
    pc[p] = "view" /\ pc[q] = "view" /\ job[p].visitor = job[q].visitor => p = q

LEMMA ViewInit == StoreInit => ViewInv
<1> SUFFICES ASSUME StoreInit PROVE ViewInv
  OBVIOUS
<1>1. clock = 1 /\ views = <<>> /\ \A d \in Devices : pc[d] = "idle"
  BY DEF StoreInit, ClientsInit
<1>2. Len(<<>>) = 0 /\ IsList(<<>>, 0)
  BY EmptySeq DEF IsList
<1> QED BY <1>1, <1>2 DEF ViewInv, OneViewPerWindow

\* No view is inserted, and none is let through.
LEMMA ViewKept ==
  ASSUME ViewInv, clock' \in {clock, clock + 1}, views' = views,
         \A d \in Devices : pc'[d] = "view" => pc[d] = "view" /\ job'[d] = job[d]
  PROVE  ViewInv'
<1>1. clock \in Nat /\ ViewWindow \in Nat
  BY StorefrontAssumption DEF ViewInv
<1>2. ASSUME NEW d \in Devices, pc'[d] = "view", NEW i \in 1..Len(views),
             views[i].visitor = job'[d].visitor
      PROVE  views[i].at + ViewWindow < clock'
  <2>1. views[i].at + ViewWindow < clock /\ views[i].at \in Nat
    BY <1>2 DEF ViewInv
  <2> QED BY <1>1, <2>1
<1> QED BY <1>1, <1>2 DEF ViewInv, OneViewPerWindow

LEMMA ViewLetThrough ==
  ASSUME PerDevice, ViewInv, NEW d \in Devices, NEW source, View(d, source), clock' = clock
  PROVE  ViewInv'
<1> DEFINE who == Visitor(d, source)
<1>1. /\ ~SeenRecently(who) /\ Begin(d, "view", [visitor |-> who]) /\ views' = views
  BY DEF View, usageVars
<1> HIDE DEF who
<1>2. /\ pc'[d] = "view" /\ job'[d].visitor = who
      /\ \A p \in Devices \ {d} : pc'[p] = pc[p] /\ job'[p] = job[p]
  BY <1>1 DEF Begin, PerDevice
<1>3. ASSUME NEW i \in 1..Len(views), views[i].visitor = who
      PROVE  views[i].at + ViewWindow < clock
  <2>1. views[i].at \in Nat /\ clock \in Nat /\ ViewWindow \in Nat /\ DOMAIN views = 1..Len(views)
    BY ListLength, StorefrontAssumption DEF ViewInv
  <2>2. ~(views[i].at >= clock - ViewWindow)
    BY <1>1, <1>3, <2>1 DEF SeenRecently
  <2> QED BY <2>1, <2>2
<1> QED BY <1>1, <1>2, <1>3 DEF ViewInv, OneViewPerWindow

LEMMA ViewInserted ==
  ASSUME PerDevice, ViewInv, ViewsApart, NEW d \in Devices, InsertView(d), clock' = clock
  PROVE  ViewInv'
<1> DEFINE n == Len(views)
           x == [visitor |-> job[d].visitor, at |-> clock]
<1>1. /\ pc[d] = "view" /\ views' = Append(views, x) /\ pc' = [pc EXCEPT ![d] = "count"] /\ job' = job
      /\ x.visitor = job[d].visitor /\ x.at = clock
  BY DEF InsertView
<1>2. clock \in Nat /\ ViewWindow \in Nat /\ n \in Nat /\ IsList(views, n)
  BY StorefrontAssumption DEF ViewInv, IsList
<1> HIDE DEF x, n
<1>3. /\ IsList(views', n + 1) /\ views'[n + 1] = x /\ n + 1 \in 1..(n + 1)
      /\ \A i \in 1..n : views'[i] = views[i]
      /\ \A i \in 1..(n + 1) : i \in 1..n \/ i = n + 1
  <2>1. /\ IsList(Append(views, x), n + 1) /\ n + 1 \in 1..(n + 1)
        /\ Append(views, x)[n + 1] = x
        /\ \A i \in 1..n : Append(views, x)[i] = views[i]
        /\ \A i \in 1..(n + 1) : i \in 1..n \/ i = n + 1
    BY ListAppended, <1>2 DEF n
  <2> QED BY <1>1, <2>1
<1>4. Len(views') = n + 1 /\ DOMAIN views' = 1..(n + 1) /\ DOMAIN views = 1..n
  BY <1>2, <1>3, ListLength
<1>5. pc'[d] = "count" /\ \A p \in Devices \ {d} : pc'[p] = pc[p]
  BY <1>1 DEF PerDevice
<1>6. \A i \in 1..(n + 1) : views'[i].at \in Nat
  BY <1>1, <1>2, <1>3 DEF ViewInv, n
<1>7. ASSUME NEW p \in Devices, pc'[p] = "view", NEW i \in 1..(n + 1),
             views'[i].visitor = job'[p].visitor
      PROVE  views'[i].at + ViewWindow < clock'
  <2>1. p # d /\ pc[p] = "view" /\ job[p].visitor # job[d].visitor
    BY <1>1, <1>5, <1>7 DEF ViewsApart
  <2>2. i # n + 1
    BY <1>1, <1>3, <1>7, <2>1
  <2> QED BY <1>1, <1>3, <1>7, <2>1, <2>2 DEF ViewInv, n
<1>8. ASSUME NEW i \in 1..(n + 1), NEW j \in 1..(n + 1), i < j,
             views'[i].visitor = views'[j].visitor
      PROVE  views'[j].at > views'[i].at + ViewWindow
  <2>1. i \in 1..n /\ views'[i] = views[i]
    BY <1>2, <1>3, <1>8
  <2>2. CASE j = n + 1
    <3>1. views[i].at + ViewWindow < clock
      BY <1>1, <1>3, <1>8, <2>1, <2>2 DEF ViewInv, n
    <3> QED BY <1>1, <1>2, <1>3, <1>6, <2>1, <2>2, <3>1
  <2>3. CASE j \in 1..n
    BY <1>3, <1>4, <1>8, <2>1, <2>3 DEF ViewInv, OneViewPerWindow
  <2> QED BY <1>3, <2>2, <2>3
<1>9. IsList(views', Len(views'))
  BY <1>3, <1>4
<1>10. OneViewPerWindow'
  BY <1>4, <1>8 DEF OneViewPerWindow
<1> QED BY <1>2, <1>4, <1>6, <1>7, <1>9, <1>10 DEF ViewInv

LEMMA ViewNext == PerDevice /\ ViewInv /\ ViewsApart /\ [StoreNext]_storeVars => ViewInv'
<1> SUFFICES ASSUME PerDevice, ViewInv, ViewsApart, [StoreNext]_storeVars PROVE ViewInv'
  OBVIOUS
<1>1. CASE Quiet
  BY <1>1, ViewKept DEF Quiet, Stays, usageVars
<1>2. ASSUME NEW d \in Devices, NEW v \in Versions, Download(d, v) PROVE ViewInv'
  BY <1>2, ViewKept DEF Download, Begin, PerDevice, usageVars
<1>3. ASSUME NEW d \in Devices, DownloadApp(d) PROVE ViewInv'
  BY <1>3, ViewKept DEF DownloadApp, End, PerDevice, usageVars
<1>4. ASSUME NEW d \in Devices, NEW source, View(d, source), clock' = clock PROVE ViewInv'
  BY <1>4, ViewLetThrough
<1>5. ASSUME NEW d \in Devices, UsageStep(d), clock' = clock PROVE ViewInv'
  <2>1. CASE InsertView(d)
    BY <1>5, <2>1, ViewInserted
  <2>2. CASE InsertDownload(d) \/ CountVersion(d)
    BY <1>5, <2>2, ViewKept DEF InsertDownload, CountVersion, PerDevice
  <2>3. CASE CountApp(d) \/ CountView(d)
    BY <1>5, <2>3, ViewKept DEF CountApp, CountView, End, PerDevice
  <2> QED BY <1>5, <2>1, <2>2, <2>3 DEF UsageStep
<1> QED BY <1>1, <1>2, <1>3, <1>4, <1>5, StoreSteps

(***************************************************************************)
(* "One view per visitor and app every 30 minutes", for any number of      *)
(* devices and any length of the window, whichever requests stop half-way, *)
(* in every run in which no two requests of a visitor are between their    *)
(* look-up and their insertion at the same moment, however long either is. *)
(***************************************************************************)
THEOREM OneViewEach == StoreSpec /\ []ViewsApart => []OneViewPerWindow
<1>1. AccessInv => PerDevice
  BY DEF AccessInv
<1>2. ViewInv => OneViewPerWindow
  BY DEF ViewInv
<1> QED BY <1>1, <1>2, AccessInit, AccessNext, ViewInit, ViewNext, PTL DEF StoreSpec

-----------------------------------------------------------------------------
(***************************************************************************)
(* The counters of downloads and views.                                    *)
(***************************************************************************)

\* The requests that still have a counter to raise: that of a version, that of
\* the app, or that of its views.
AtVersion(v) == {d \in Devices : pc[d] = "version" /\ job[d].version = v}
AtApp        == {d \in Devices : pc[d] = "app"}
AtCount      == {d \in Devices : pc[d] = "count"}

\* What was counted, with what is about to be, is no more than there is.
UsageInv ==
  /\ docs \in [Versions -> Nat] /\ counted \in [Versions -> Nat]
  /\ appCount \in Nat /\ viewCount \in Nat
  /\ IsList(views, Len(views))
  /\ IsFiniteSet(CountedDownloads)
  /\ \A d \in Devices : pc[d] \in {"download", "insert", "version"} => job[d].version \in Versions
  /\ \A v \in Versions : counted[v] + Cardinality(AtVersion(v)) <= docs[v]
  /\ appCount + Cardinality(AtApp) <= Cardinality(CountedDownloads)
  /\ viewCount + Cardinality(AtCount) <= Len(views)

LEMMA NoMore ==
  ASSUME NEW A, NEW B, IsFiniteSet(A), B \subseteq A
  PROVE  /\ Cardinality(A) \in Nat /\ Cardinality(B) \in Nat
         /\ Cardinality(B) <= Cardinality(A)
BY FS_Subset, FS_CardinalityType

LEMMA OneMore ==
  ASSUME NEW A, NEW B, NEW d, IsFiniteSet(A), B \subseteq A \cup {d}
  PROVE  /\ Cardinality(A) \in Nat /\ Cardinality(B) \in Nat
         /\ Cardinality(B) <= Cardinality(A) + 1
<1>1. /\ IsFiniteSet(A \cup {d}) /\ Cardinality(A) \in Nat
      /\ Cardinality(A \cup {d}) \in {Cardinality(A), Cardinality(A) + 1}
  BY FS_AddElement, FS_CardinalityType
<1>2. Cardinality(B) \in Nat /\ Cardinality(B) <= Cardinality(A \cup {d})
  BY <1>1, NoMore
<1> QED BY <1>1, <1>2

LEMMA OneLess ==
  ASSUME NEW A, NEW B, NEW d \in A, IsFiniteSet(A), B \subseteq A \ {d}
  PROVE  /\ Cardinality(A) \in Nat /\ Cardinality(B) \in Nat
         /\ Cardinality(B) + 1 <= Cardinality(A)
<1>1. /\ IsFiniteSet(A \ {d}) /\ Cardinality(A) \in Nat
      /\ Cardinality(A \ {d}) = Cardinality(A) - 1
  BY FS_RemoveElement, FS_CardinalityType
<1>2. Cardinality(B) \in Nat /\ Cardinality(B) <= Cardinality(A \ {d})
  BY <1>1, NoMore
<1> QED BY <1>1, <1>2

LEMMA AtFinite ==
  /\ \A v : IsFiniteSet(AtVersion(v)) /\ Cardinality(AtVersion(v)) \in Nat
  /\ IsFiniteSet(AtApp) /\ Cardinality(AtApp) \in Nat
  /\ IsFiniteSet(AtCount) /\ Cardinality(AtCount) \in Nat
<1>1. \A v : AtVersion(v) \subseteq Devices
  BY DEF AtVersion
<1>2. AtApp \subseteq Devices /\ AtCount \subseteq Devices
  BY DEF AtApp, AtCount
<1> QED BY <1>1, <1>2, StorefrontAssumption, FS_Subset, FS_CardinalityType

LEMMA UsageInit == StoreInit => UsageInv
<1> SUFFICES ASSUME StoreInit PROVE UsageInv
  OBVIOUS
<1>1. /\ views = <<>> /\ docs = [v \in Versions |-> 0] /\ counted = docs
      /\ appCount = 0 /\ viewCount = 0 /\ \A d \in Devices : pc[d] = "idle"
  BY DEF StoreInit, ClientsInit
<1>2. Len(<<>>) = 0 /\ IsList(<<>>, 0)
  BY EmptySeq DEF IsList
<1>3. CountedDownloads = {}
  BY <1>1 DEF CountedDownloads
<1>4. AtApp = {} /\ AtCount = {} /\ \A v : AtVersion(v) = {}
  BY <1>1 DEF AtApp, AtCount, AtVersion
<1>5. Cardinality({}) = 0 /\ IsFiniteSet({})
  BY FS_EmptySet
<1>6. \A v \in Versions : counted[v] = 0 /\ docs[v] = 0 /\ Cardinality(AtVersion(v)) = 0
  BY <1>1, <1>4, <1>5
<1>7. IsList(views, Len(views)) /\ Len(views) = 0
  BY <1>1, <1>2
<1> QED BY <1>1, <1>3, <1>4, <1>5, <1>6, <1>7 DEF UsageInv

\* No counter is raised, and nobody comes nearer to raising one.
LEMMA UsageKept ==
  ASSUME UsageInv, UNCHANGED usageVars,
         \A d \in Devices : \/ Stays(d)
                            \/ pc'[d] \in {"idle", "register", "push", "view"}
                            \/ pc'[d] \in {"download", "insert"} /\ job'[d].version \in Versions
  PROVE  UsageInv'
<1>1. AtApp' \subseteq AtApp /\ AtCount' \subseteq AtCount /\ \A v : AtVersion(v)' \subseteq AtVersion(v)
  BY DEF AtApp, AtCount, AtVersion, Stays
<1>2. /\ Cardinality(AtApp') \in Nat /\ Cardinality(AtApp') <= Cardinality(AtApp)
      /\ Cardinality(AtCount') \in Nat /\ Cardinality(AtCount') <= Cardinality(AtCount)
      /\ \A v : Cardinality(AtVersion(v)') \in Nat /\ Cardinality(AtVersion(v)') <= Cardinality(AtVersion(v))
  BY <1>1, AtFinite, NoMore
<1>3. CountedDownloads' = CountedDownloads
  BY DEF CountedDownloads, usageVars
<1>4. /\ \A v \in Versions : counted'[v] + Cardinality(AtVersion(v)') <= docs'[v]
      /\ appCount' + Cardinality(AtApp') <= Cardinality(CountedDownloads')
      /\ viewCount' + Cardinality(AtCount') <= Len(views')
  <2>1. \A v \in Versions : counted'[v] + Cardinality(AtVersion(v)') <= docs'[v]
    BY <1>2, AtFinite DEF UsageInv, usageVars
  <2>2. Cardinality(CountedDownloads) \in Nat /\ Len(views) \in Nat
    BY FS_CardinalityType DEF UsageInv, IsList
  <2>3. appCount' + Cardinality(AtApp') <= Cardinality(CountedDownloads')
    BY <1>2, <1>3, <2>2, AtFinite DEF UsageInv, usageVars
  <2>4. viewCount' + Cardinality(AtCount') <= Len(views')
    BY <1>2, <2>2, AtFinite DEF UsageInv, usageVars
  <2> QED BY <2>1, <2>3, <2>4
<1>5. \A d \in Devices : pc'[d] \in {"download", "insert", "version"} => job'[d].version \in Versions
  BY DEF UsageInv, Stays
<1> QED BY <1>3, <1>4, <1>5 DEF UsageInv, usageVars

LEMMA DownloadInserted ==
  ASSUME PerDevice, UsageInv, NEW d \in Devices, InsertDownload(d) PROVE UsageInv'
<1>1. PICK w \in Versions : w = job[d].version
  BY DEF InsertDownload, UsageInv
<1>2. /\ pc[d] = "insert" /\ docs' = [docs EXCEPT ![w] = @ + 1]
      /\ pc' = [pc EXCEPT ![d] = "version"] /\ UNCHANGED <<counted, appCount, views, viewCount, job>>
  BY <1>1 DEF InsertDownload
<1>3. /\ AtApp' \subseteq AtApp /\ AtCount' \subseteq AtCount
      /\ AtVersion(w)' \subseteq AtVersion(w) \cup {d}
      /\ \A v \in Versions \ {w} : AtVersion(v)' \subseteq AtVersion(v)
  BY <1>1, <1>2 DEF PerDevice, AtApp, AtCount, AtVersion
<1>4. /\ docs' \in [Versions -> Nat] /\ docs'[w] = docs[w] + 1
      /\ \A v \in Versions \ {w} : docs'[v] = docs[v]
  BY <1>2 DEF UsageInv
<1>5. \A p \in Devices : pc'[p] \in {"download", "insert", "version"} => job'[p].version \in Versions
  BY <1>1, <1>2 DEF UsageInv, PerDevice
<1>6. ASSUME NEW v \in Versions PROVE counted'[v] + Cardinality(AtVersion(v)') <= docs'[v]
  <2>1. counted[v] \in Nat /\ docs[v] \in Nat /\ counted[v] + Cardinality(AtVersion(v)) <= docs[v]
    BY DEF UsageInv
  <2>2. CASE v = w
    <3>1. Cardinality(AtVersion(w)') \in Nat /\ Cardinality(AtVersion(w)') <= Cardinality(AtVersion(w)) + 1
      BY <1>3, AtFinite, OneMore
    <3>2. AtVersion(v) = AtVersion(w) /\ AtVersion(v)' = AtVersion(w)'
      BY <2>2 DEF AtVersion
    <3> QED BY <1>2, <1>4, <2>1, <2>2, <3>1, <3>2, AtFinite
  <2>3. CASE v # w
    <3>1. Cardinality(AtVersion(v)') \in Nat /\ Cardinality(AtVersion(v)') <= Cardinality(AtVersion(v))
      BY <1>3, <2>3, AtFinite, NoMore
    <3> QED BY <1>2, <1>4, <2>1, <2>3, <3>1, AtFinite
  <2> QED BY <2>2, <2>3
<1>7. CountedDownloads' = CountedDownloads
  BY <1>2 DEF CountedDownloads
<1>8. Cardinality(CountedDownloads) \in Nat /\ Len(views) \in Nat
  BY FS_CardinalityType DEF UsageInv, IsList
<1>9. /\ Cardinality(AtApp') \in Nat /\ Cardinality(AtApp') <= Cardinality(AtApp)
      /\ Cardinality(AtCount') \in Nat /\ Cardinality(AtCount') <= Cardinality(AtCount)
  BY <1>3, AtFinite, NoMore
<1>10. appCount' + Cardinality(AtApp') <= Cardinality(CountedDownloads')
  BY <1>2, <1>7, <1>8, <1>9, AtFinite DEF UsageInv
<1>11. viewCount' + Cardinality(AtCount') <= Len(views')
  BY <1>2, <1>8, <1>9, AtFinite DEF UsageInv
<1> QED BY <1>2, <1>4, <1>5, <1>6, <1>7, <1>10, <1>11 DEF UsageInv

LEMMA VersionCounted ==
  ASSUME PerDevice, UsageInv, NEW d \in Devices, CountVersion(d) PROVE UsageInv'
<1>1. PICK w \in Versions : w = job[d].version
  BY DEF CountVersion, UsageInv
<1> DEFINE pair == <<w, counted[w] + 1>>
<1>2. /\ pc[d] = "version" /\ counted' = [counted EXCEPT ![w] = @ + 1]
      /\ pc' = [pc EXCEPT ![d] = "app"] /\ UNCHANGED <<docs, appCount, views, viewCount, job>>
  BY <1>1 DEF CountVersion
<1>3. /\ AtApp' \subseteq AtApp \cup {d} /\ AtCount' \subseteq AtCount
      /\ d \in AtVersion(w) /\ AtVersion(w)' \subseteq AtVersion(w) \ {d}
      /\ \A v \in Versions \ {w} : AtVersion(v)' \subseteq AtVersion(v)
  BY <1>1, <1>2 DEF PerDevice, AtApp, AtCount, AtVersion
<1>4. /\ counted' \in [Versions -> Nat] /\ counted'[w] = counted[w] + 1
      /\ \A v \in Versions \ {w} : counted'[v] = counted[v]
  BY <1>2 DEF UsageInv
<1>5. \A p \in Devices : pc'[p] \in {"download", "insert", "version"} => job'[p].version \in Versions
  BY <1>1, <1>2 DEF UsageInv, PerDevice
<1>6. ASSUME NEW v \in Versions PROVE counted'[v] + Cardinality(AtVersion(v)') <= docs'[v]
  <2>1. counted[v] \in Nat /\ docs[v] \in Nat /\ counted[v] + Cardinality(AtVersion(v)) <= docs[v]
    BY DEF UsageInv
  <2>2. CASE v = w
    <3>1. Cardinality(AtVersion(w)') \in Nat /\ Cardinality(AtVersion(w)') + 1 <= Cardinality(AtVersion(w))
      BY <1>3, AtFinite, OneLess
    <3>2. AtVersion(v) = AtVersion(w) /\ AtVersion(v)' = AtVersion(w)'
      BY <2>2 DEF AtVersion
    <3> QED BY <1>2, <1>4, <2>1, <2>2, <3>1, <3>2, AtFinite
  <2>3. CASE v # w
    <3>1. Cardinality(AtVersion(v)') \in Nat /\ Cardinality(AtVersion(v)') <= Cardinality(AtVersion(v))
      BY <1>3, <2>3, AtFinite, NoMore
    <3> QED BY <1>2, <1>4, <2>1, <2>3, <3>1, AtFinite
  <2> QED BY <2>2, <2>3
<1>7. CountedDownloads' = CountedDownloads \cup {pair} /\ pair \notin CountedDownloads
  <2>1. counted[w] \in Nat
    BY DEF UsageInv
  <2>2. \A v, n : <<v, n>> \in CountedDownloads <=> v \in Versions /\ n \in 1..counted[v]
    BY DEF CountedDownloads
  <2>3. \A v, n : <<v, n>> \in CountedDownloads' <=> v \in Versions /\ n \in 1..counted'[v]
    BY DEF CountedDownloads
  <2>4. \A x \in CountedDownloads \cup CountedDownloads' : x = <<x[1], x[2]>>
    BY DEF CountedDownloads
  <2>5. 1..counted'[w] = 1..counted[w] \cup {counted[w] + 1} /\ counted[w] + 1 \notin 1..counted[w]
    BY <1>4, <2>1
  <2>6. pair \in CountedDownloads' /\ pair \notin CountedDownloads
    BY <2>2, <2>3, <2>5
  <2>7. \A v, n : <<v, n>> \in CountedDownloads' <=> <<v, n>> \in CountedDownloads \/ <<v, n>> = pair
    BY <1>4, <2>2, <2>3, <2>5
  <2> QED BY <2>4, <2>6, <2>7
<1> HIDE DEF pair
<1>8. /\ Cardinality(CountedDownloads) \in Nat /\ IsFiniteSet(CountedDownloads')
      /\ Cardinality(CountedDownloads') = Cardinality(CountedDownloads) + 1
  BY <1>7, FS_AddElement, FS_CardinalityType DEF UsageInv
<1>9. /\ Cardinality(AtApp') \in Nat /\ Cardinality(AtApp') <= Cardinality(AtApp) + 1
  BY <1>3, AtFinite, OneMore
<1>10. Cardinality(AtCount') \in Nat /\ Cardinality(AtCount') <= Cardinality(AtCount)
  BY <1>3, AtFinite, NoMore
<1>11. appCount' + Cardinality(AtApp') <= Cardinality(CountedDownloads')
  BY <1>2, <1>8, <1>9, AtFinite DEF UsageInv
<1>12. viewCount' + Cardinality(AtCount') <= Len(views')
  <2>1. Len(views) \in Nat
    BY DEF UsageInv, IsList
  <2> QED BY <1>2, <1>10, <2>1, AtFinite DEF UsageInv
<1> QED BY <1>2, <1>4, <1>5, <1>6, <1>8, <1>11, <1>12 DEF UsageInv

\* The counter of the app or of its views is raised, or a view is inserted.
LEMMA OthersCounted ==
  ASSUME PerDevice, UsageInv, NEW d \in Devices, CountApp(d) \/ CountView(d) \/ InsertView(d)
  PROVE  UsageInv'
<1>1. UNCHANGED <<docs, counted>>
  BY DEF CountApp, CountView, InsertView
<1>2. /\ \A v : AtVersion(v)' \subseteq AtVersion(v)
      /\ \A p \in Devices : pc'[p] \in {"download", "insert", "version"} => job'[p].version \in Versions
  BY DEF CountApp, CountView, InsertView, End, PerDevice, AtVersion, UsageInv
<1>3. \A v \in Versions : counted'[v] + Cardinality(AtVersion(v)') <= docs'[v]
  <2> SUFFICES ASSUME NEW v \in Versions PROVE counted'[v] + Cardinality(AtVersion(v)') <= docs'[v]
    OBVIOUS
  <2>1. counted[v] \in Nat /\ docs[v] \in Nat /\ counted[v] + Cardinality(AtVersion(v)) <= docs[v]
    BY DEF UsageInv
  <2>2. Cardinality(AtVersion(v)') \in Nat /\ Cardinality(AtVersion(v)') <= Cardinality(AtVersion(v))
    BY <1>2, AtFinite, NoMore
  <2> QED BY <1>1, <2>1, <2>2, AtFinite
<1>4. CountedDownloads' = CountedDownloads /\ Cardinality(CountedDownloads) \in Nat /\ Len(views) \in Nat
  BY <1>1, FS_CardinalityType DEF CountedDownloads, UsageInv, IsList
<1>5. CASE CountApp(d)
  <2>1. appCount' = appCount + 1 /\ UNCHANGED <<views, viewCount>>
    BY <1>5 DEF CountApp
  <2>2. d \in AtApp /\ AtApp' \subseteq AtApp \ {d} /\ AtCount' \subseteq AtCount
    BY <1>5 DEF CountApp, End, PerDevice, AtApp, AtCount
  <2>3. Cardinality(AtApp') \in Nat /\ Cardinality(AtApp') + 1 <= Cardinality(AtApp)
    BY <2>2, AtFinite, OneLess
  <2>4. Cardinality(AtCount') \in Nat /\ Cardinality(AtCount') <= Cardinality(AtCount)
    BY <2>2, AtFinite, NoMore
  <2>5. appCount' + Cardinality(AtApp') <= Cardinality(CountedDownloads')
    BY <1>4, <2>1, <2>3, AtFinite DEF UsageInv
  <2>6. viewCount' + Cardinality(AtCount') <= Len(views')
    BY <1>4, <2>1, <2>4, AtFinite DEF UsageInv
  <2> QED BY <1>1, <1>2, <1>3, <1>4, <2>1, <2>5, <2>6 DEF UsageInv
<1>6. CASE CountView(d)
  <2>1. viewCount' = viewCount + 1 /\ UNCHANGED <<views, appCount>>
    BY <1>6 DEF CountView
  <2>2. d \in AtCount /\ AtCount' \subseteq AtCount \ {d} /\ AtApp' \subseteq AtApp
    BY <1>6 DEF CountView, End, PerDevice, AtApp, AtCount
  <2>3. Cardinality(AtCount') \in Nat /\ Cardinality(AtCount') + 1 <= Cardinality(AtCount)
    BY <2>2, AtFinite, OneLess
  <2>4. Cardinality(AtApp') \in Nat /\ Cardinality(AtApp') <= Cardinality(AtApp)
    BY <2>2, AtFinite, NoMore
  <2>5. appCount' + Cardinality(AtApp') <= Cardinality(CountedDownloads')
    BY <1>4, <2>1, <2>4, AtFinite DEF UsageInv
  <2>6. viewCount' + Cardinality(AtCount') <= Len(views')
    BY <1>4, <2>1, <2>3, AtFinite DEF UsageInv
  <2> QED BY <1>1, <1>2, <1>3, <1>4, <2>1, <2>5, <2>6 DEF UsageInv
<1>7. CASE InsertView(d)
  <2>1. UNCHANGED <<viewCount, appCount>>
    BY <1>7 DEF InsertView
  <2>2. AtCount' \subseteq AtCount \cup {d} /\ AtApp' \subseteq AtApp
    BY <1>7 DEF InsertView, PerDevice, AtApp, AtCount
  <2>3. Cardinality(AtCount') \in Nat /\ Cardinality(AtCount') <= Cardinality(AtCount) + 1
    BY <2>2, AtFinite, OneMore
  <2>4. Cardinality(AtApp') \in Nat /\ Cardinality(AtApp') <= Cardinality(AtApp)
    BY <2>2, AtFinite, NoMore
  <2>5. IsList(views', Len(views) + 1)
    BY <1>7, ListAppended DEF InsertView, UsageInv
  <2>6. Len(views') = Len(views) + 1
    BY <2>5, ListLength
  <2>7. appCount' + Cardinality(AtApp') <= Cardinality(CountedDownloads')
    BY <1>4, <2>1, <2>4, AtFinite DEF UsageInv
  <2>8. viewCount' + Cardinality(AtCount') <= Len(views')
    BY <1>4, <2>1, <2>3, <2>6, AtFinite DEF UsageInv
  <2> QED BY <1>1, <1>2, <1>3, <1>4, <2>1, <2>5, <2>6, <2>7, <2>8 DEF UsageInv
<1> QED BY <1>5, <1>6, <1>7

LEMMA UsageNext == PerDevice /\ UsageInv /\ [StoreNext]_storeVars => UsageInv'
<1> SUFFICES ASSUME PerDevice, UsageInv, [StoreNext]_storeVars PROVE UsageInv'
  OBVIOUS
<1>1. CASE Quiet
  BY <1>1, UsageKept DEF Quiet
<1>2. ASSUME NEW d \in Devices, NEW v \in Versions, Download(d, v) PROVE UsageInv'
  <2>1. /\ UNCHANGED usageVars /\ pc'[d] = "download" /\ job'[d].version = v
        /\ \A p \in Devices \ {d} : Stays(p)
    BY <1>2 DEF Download, Begin, PerDevice, Stays
  <2> QED BY <2>1, UsageKept
<1>3. ASSUME NEW d \in Devices, DownloadApp(d) PROVE UsageInv'
  <2>1. /\ UNCHANGED usageVars /\ \A p \in Devices \ {d} : Stays(p)
        /\ pc'[d] = "idle" \/ (pc'[d] = "insert" /\ job'[d] = job[d] /\ pc[d] = "download")
    BY <1>3 DEF DownloadApp, End, PerDevice, Stays
  <2> QED BY <2>1, UsageKept DEF UsageInv
<1>4. ASSUME NEW d \in Devices, NEW source, View(d, source) PROVE UsageInv'
  <2>1. UNCHANGED usageVars /\ pc'[d] = "view" /\ \A p \in Devices \ {d} : Stays(p)
    BY <1>4 DEF View, Begin, PerDevice, Stays
  <2> QED BY <2>1, UsageKept
<1>5. ASSUME NEW d \in Devices, UsageStep(d) PROVE UsageInv'
  BY <1>5, DownloadInserted, VersionCounted, OthersCounted DEF UsageStep
<1> QED BY <1>1, <1>2, <1>3, <1>4, <1>5, StoreSteps

(***************************************************************************)
(* However requests overlap or stop half-way, no counter of downloads or   *)
(* views runs ahead of what it counts, for any number of devices and       *)
(* versions.                                                               *)
(***************************************************************************)
THEOREM CountersNeverAhead == StoreSpec => []CountersBehind
<1>1. AccessInv => PerDevice
  BY DEF AccessInv
<1>2. UsageInv => CountersBehind
  <2> SUFFICES ASSUME UsageInv PROVE CountersBehind
    OBVIOUS
  <2>1. Cardinality(CountedDownloads) \in Nat /\ Len(views) \in Nat
    BY FS_CardinalityType DEF UsageInv, IsList
  <2>2. \A v \in Versions : counted[v] <= docs[v]
    BY AtFinite DEF UsageInv
  <2>3. appCount <= Cardinality(CountedDownloads) /\ viewCount <= Len(views)
    BY <2>1, AtFinite DEF UsageInv
  <2> QED BY <2>2, <2>3 DEF CountersBehind
<1> QED BY <1>1, <1>2, AccessInit, AccessNext, UsageInit, UsageNext, PTL DEF StoreSpec

-----------------------------------------------------------------------------
(***************************************************************************)
(* The accounts and their identities.                                      *)
(***************************************************************************)
IsUser(x) ==
  /\ DOMAIN x = {"exists", "anonymous", "email", "device", "installed", "tokens"}
  /\ x.exists \in BOOLEAN /\ x.anonymous \in BOOLEAN

SameIdentity(x, y) ==
  x.exists = y.exists /\ x.anonymous = y.anonymous /\ x.email = y.email /\ x.device = y.device

\* An account whose identity is its own among those of the list us.
OwnIdentity(x, us, others) ==
  x.exists =>
    /\ x.anonymous <=> x.device # NoDevice
    /\ x.anonymous <=> x.email = NoEmail
    /\ \A w \in others : us[w].exists =>
         /\ x.email = us[w].email => x.email = NoEmail
         /\ x.device = us[w].device => x.device = NoDevice

IdentityInv ==
  /\ IsList(users, Len(users))
  /\ \A u \in 1..Len(users) : IsUser(users[u])
  /\ \A d \in Devices : pc[d] = "register" => job[d].email \in Emails
  /\ IdentitiesApart

\* What becomes of the requests that register, whatever the step.
Registering == \A d \in Devices : pc'[d] = "register" => Stays(d) \/ job'[d].email \in Emails

\* The step leaves every account the identity that it had, ...
LEMMA IdentitiesKept ==
  ASSUME IdentityInv, Registering, IsList(users', Len(users)),
         \A u \in 1..Len(users) : IsUser(users'[u]) /\ SameIdentity(users'[u], users[u])
  PROVE  IdentityInv'
<1> DEFINE n == Len(users)
<1>1. Len(users') = n /\ DOMAIN users' = 1..n /\ DOMAIN users = 1..n
  BY ListLength DEF IdentityInv
<1>2. IdentitiesApart'
  BY <1>1 DEF IdentityInv, IdentitiesApart, SameIdentity
<1>3. \A d \in Devices : pc'[d] = "register" => job'[d].email \in Emails
  BY DEF IdentityInv, Registering, Stays
<1> QED BY <1>1, <1>2, <1>3 DEF IdentityInv

\* ... or gives one account a new one.
LEMMA IdentityChanged ==
  ASSUME IdentityInv, Registering, NEW n, IsList(users', n), NEW u \in 1..n,
         \A w \in (1..n) \ {u} : w \in 1..Len(users) /\ users'[w] = users[w],
         IsUser(users'[u]), OwnIdentity(users'[u], users, (1..n) \ {u})
  PROVE  IdentityInv'
<1>1. Len(users') = n /\ DOMAIN users' = 1..n /\ DOMAIN users = 1..Len(users)
  BY ListLength DEF IdentityInv
<1>2. IdentitiesApart'
  <2> SUFFICES ASSUME NEW v \in 1..n, users'[v].exists PROVE
        /\ users'[v].anonymous <=> users'[v].device # NoDevice
        /\ users'[v].anonymous <=> users'[v].email = NoEmail
        /\ \A w \in 1..n : users'[w].exists /\ w # v =>
             /\ users'[v].email = users'[w].email => users'[v].email = NoEmail
             /\ users'[v].device = users'[w].device => users'[v].device = NoDevice
    BY <1>1 DEF IdentitiesApart
  <2>1. CASE v = u
    BY <2>1 DEF OwnIdentity
  <2>2. CASE v # u
    <3>1. /\ v \in DOMAIN users /\ users'[v] = users[v]
          /\ \A w \in (1..n) \ {u} : w \in DOMAIN users /\ users'[w] = users[w]
      BY <1>1, <2>2
    <3>2. users'[u].exists =>
            /\ users'[v].email = users'[u].email => users'[v].email = NoEmail
            /\ users'[v].device = users'[u].device => users'[v].device = NoDevice
      BY <2>2, <3>1 DEF OwnIdentity
    <3> QED BY <3>1, <3>2 DEF IdentityInv, IdentitiesApart
  <2> QED BY <2>1, <2>2
<1>3. \A d \in Devices : pc'[d] = "register" => job'[d].email \in Emails
  BY DEF IdentityInv, Registering, Stays
<1>4. \A w \in 1..n : IsUser(users'[w])
  BY DEF IdentityInv
<1> QED BY <1>1, <1>2, <1>3, <1>4 DEF IdentityInv

\* What EXCEPT makes of an account.
LEMMA DeletedUser ==
  /\ IsUser(Deleted) /\ ~Deleted.exists /\ ~Deleted.anonymous
  /\ Deleted.email = NoEmail /\ Deleted.device = NoDevice
BY DEF Deleted, IsUser

LEMMA IdentityInit == StoreInit => IdentityInv
<1> SUFFICES ASSUME StoreInit PROVE IdentityInv
  OBVIOUS
<1>1. Len(<<>>) = 0 /\ IsList(<<>>, 0) /\ \A d \in Devices : pc[d] = "idle"
  BY EmptySeq DEF IsList, StoreInit, ClientsInit
<1>2. CASE users = <<>>
  BY <1>1, <1>2 DEF IdentityInv, IdentitiesApart
<1>3. ASSUME NEW e \in app.testers, NEW v, users = <<InstalledBy(e, v)>> PROVE IdentityInv
  <2>1. users = [i \in 1..1 |-> InstalledBy(e, v)] /\ IsList(users, 1)
    BY <1>3 DEF IsList
  <2>2. Len(users) = 1 /\ DOMAIN users = 1..1 /\ users[1] = InstalledBy(e, v) /\ 1..1 = {1}
    BY <2>1, ListLength
  <2>3. e \in Emails
    BY DEF StoreInit, CatalogTypeOK
  <2>4. /\ IsUser(users[1]) /\ users[1].exists /\ ~users[1].anonymous
        /\ users[1].email = e /\ users[1].device = NoDevice
    BY <2>2, DeletedUser DEF InstalledBy, IsUser
  <2>6. IdentitiesApart
    BY <2>2, <2>3, <2>4, CatalogAssumption DEF IdentitiesApart
  <2> QED BY <1>1, <2>1, <2>2, <2>4, <2>6 DEF IdentityInv
<1> QED BY <1>2, <1>3 DEF StoreInit, ClientsInit

-----------------------------------------------------------------------------
\* Steps that write a field of an account which is no part of its identity.
LEMMA InstalledKept ==
  ASSUME IdentityInv, Registering, NEW u, NEW v, users' = [users EXCEPT ![u].installed = v]
  PROVE  IdentityInv'
<1> DEFINE n == Len(users)
<1>1. IsList(users, n) /\ \A w \in 1..n : IsUser(users[w])
  BY DEF IdentityInv
<1> HIDE DEF n
<1>2. /\ IsList(users', n)
      /\ \A w \in 1..n : users'[w] = IF w = u THEN [users[u] EXCEPT !.installed = v] ELSE users[w]
  BY <1>1 DEF IsList
<1>3. \A w \in 1..n : IsUser(users'[w]) /\ SameIdentity(users'[w], users[w])
  BY <1>1, <1>2 DEF IsUser, SameIdentity
<1> QED BY <1>2, <1>3, IdentitiesKept DEF n

LEMMA TokensKept ==
  ASSUME IdentityInv, Registering, NEW u, NEW ts, users' = [users EXCEPT ![u].tokens = ts]
  PROVE  IdentityInv'
<1> DEFINE n == Len(users)
<1>1. IsList(users, n) /\ \A w \in 1..n : IsUser(users[w])
  BY DEF IdentityInv
<1> HIDE DEF n
<1>2. /\ IsList(users', n)
      /\ \A w \in 1..n : users'[w] = IF w = u THEN [users[u] EXCEPT !.tokens = ts] ELSE users[w]
  BY <1>1 DEF IsList
<1>3. \A w \in 1..n : IsUser(users'[w]) /\ SameIdentity(users'[w], users[w])
  BY <1>1, <1>2 DEF IsUser, SameIdentity
<1> QED BY <1>2, <1>3, IdentitiesKept DEF n

LEMMA UsersKept == ASSUME IdentityInv, Registering, users' = users PROVE IdentityInv'
BY IdentitiesKept DEF IdentityInv, SameIdentity

LEMMA PulledKept ==
  ASSUME IdentityInv, Registering, NEW d, PullEverywhere(d) PROVE IdentityInv'
<1> DEFINE n == Len(users)
<1>1. IsList(users, n) /\ DOMAIN users = 1..n /\ \A w \in 1..n : IsUser(users[w])
  BY ListLength DEF IdentityInv
<1> HIDE DEF n
<1>2. users' = [u \in 1..n |-> [users[u] EXCEPT !.tokens = Without(@, d)]]
  BY <1>1 DEF PullEverywhere
<1>3. /\ IsList(users', n)
      /\ \A w \in 1..n : users'[w] = [users[w] EXCEPT !.tokens = Without(@, d)]
  BY <1>1, <1>2 DEF IsList
<1>4. \A w \in 1..n : IsUser(users'[w]) /\ SameIdentity(users'[w], users[w])
  BY <1>1, <1>3 DEF IsUser, SameIdentity
<1> QED BY <1>3, <1>4, IdentitiesKept DEF n

-----------------------------------------------------------------------------
\* Steps that write the identity of one account, or create one.
LEMMA AddedApart ==
  ASSUME IdentityInv, Registering, NEW x, users' = Append(users, x),
         IsUser(x), OwnIdentity(x, users, DOMAIN users)
  PROVE  IdentityInv'
<1> DEFINE n == Len(users)
<1>1. IsList(users, n) /\ DOMAIN users = 1..n
  BY ListLength DEF IdentityInv
<1> HIDE DEF n
<1>2. /\ IsList(users', n + 1) /\ users'[n + 1] = x /\ n + 1 \in 1..(n + 1)
      /\ \A w \in 1..n : users'[w] = users[w]
      /\ \A w \in 1..(n + 1) : w \in 1..n \/ w = n + 1
  <2>1. /\ IsList(Append(users, x), n + 1) /\ n + 1 \in 1..(n + 1)
        /\ Append(users, x)[n + 1] = x
        /\ \A w \in 1..n : Append(users, x)[w] = users[w]
        /\ \A w \in 1..(n + 1) : w \in 1..n \/ w = n + 1
    BY ListAppended, <1>1 DEF n
  <2> QED BY <2>1, Zenon
<1>3. OwnIdentity(x, users, (1..(n + 1)) \ {n + 1})
  BY <1>1, <1>2 DEF OwnIdentity
<1>4. \A w \in (1..(n + 1)) \ {n + 1} : w \in 1..Len(users) /\ users'[w] = users[w]
  BY <1>2 DEF n
<1> QED BY <1>2, <1>3, <1>4, IdentityChanged

LEMMA ReplacedApart ==
  ASSUME IdentityInv, Registering, NEW u, NEW x, users' = [users EXCEPT ![u] = x],
         u \in DOMAIN users => IsUser(x) /\ OwnIdentity(x, users, DOMAIN users \ {u})
  PROVE  IdentityInv'
<1> DEFINE n == Len(users)
<1>1. IsList(users, n) /\ DOMAIN users = 1..n
  BY ListLength DEF IdentityInv
<1>2. CASE u \notin 1..n
  BY <1>1, <1>2, UsersKept DEF IsList
<1>3. CASE u \in 1..n
  <2> HIDE DEF n
  <2>1. IsList(users', n) /\ \A w \in 1..n : users'[w] = IF w = u THEN x ELSE users[w]
    BY <1>1 DEF IsList
  <2>2. IsUser(users'[u]) /\ OwnIdentity(users'[u], users, (1..n) \ {u})
    BY <1>1, <1>3, <2>1
  <2>3. \A w \in (1..n) \ {u} : w \in 1..Len(users) /\ users'[w] = users[w]
    BY <2>1 DEF n
  <2> QED BY <1>3, <2>1, <2>2, <2>3, IdentityChanged
<1> QED BY <1>2, <1>3

LEMMA AnonymousApart ==
  ASSUME IdentityInv, NEW d \in Devices, LoginAnonymous(d) PROVE IdentityInv'
<1> DEFINE mine == {u \in DOMAIN users : users[u].device = d}
           x == [Deleted EXCEPT !.exists = TRUE, !.anonymous = TRUE, !.device = d]
<1>1. Registering
  BY DEF LoginAnonymous, Registering, Stays
<1>2. CASE mine # {}
  BY <1>1, <1>2, UsersKept DEF LoginAnonymous
<1>3. CASE mine = {}
  <2>1. users' = Append(users, x)
    BY <1>3 DEF LoginAnonymous
  <2>2. IsUser(x) /\ x.exists /\ x.anonymous /\ x.email = NoEmail /\ x.device = d
    BY DeletedUser DEF IsUser
  <2> HIDE DEF x
  <2>4. d # NoDevice /\ \A w \in DOMAIN users : users[w].device # d
    BY <1>3, ClientsAssumption
  <2>5. OwnIdentity(x, users, DOMAIN users)
    BY <2>2, <2>4 DEF OwnIdentity
  <2> QED BY <1>1, <2>1, <2>2, <2>5, AddedApart
<1> QED BY <1>2, <1>3

LEMMA RegisteredApart ==
  ASSUME PerDevice, IdentityInv, NEW d \in Devices, RegisterWrite(d) PROVE IdentityInv'
<1> DEFINE e == job[d].email
           u == job[d].convert
           x == [Deleted EXCEPT !.exists = TRUE, !.email = e]
<1>1. Registering
  BY DEF RegisterWrite, End, PerDevice, Registering, Stays
<1>2. e \in Emails /\ e # NoEmail
  BY CatalogAssumption DEF RegisterWrite, IdentityInv
<1>3. CASE Owners(e) # {} \/ (u # 0 /\ ~users[u].exists)
  BY <1>1, <1>3, UsersKept DEF RegisterWrite
<1>4. CASE Owners(e) = {} /\ u # 0 /\ users[u].exists
  <2>1. users' = [users EXCEPT ![u] = Converted(users[u], e)]
    BY <1>4 DEF RegisterWrite
  <2>2. ASSUME u \in DOMAIN users
        PROVE  /\ IsUser(Converted(users[u], e))
               /\ OwnIdentity(Converted(users[u], e), users, DOMAIN users \ {u})
    <3> DEFINE y == Converted(users[u], e)
    <3>1. IsUser(users[u])
      BY <2>2, ListLength DEF IdentityInv
    <3>2. IsUser(y) /\ y.exists /\ ~y.anonymous /\ y.email = e /\ y.device = NoDevice
      BY <1>4, <3>1 DEF IsUser, Converted
    <3> HIDE DEF y
    <3>4. \A w \in DOMAIN users : users[w].exists => users[w].email # e
      BY <1>4 DEF Owners
    <3>5. OwnIdentity(y, users, DOMAIN users \ {u})
      BY <1>2, <3>2, <3>4 DEF OwnIdentity
    <3> QED BY <3>2, <3>5 DEF y
  <2> QED BY <1>1, <2>1, <2>2, ReplacedApart
<1>5. CASE Owners(e) = {} /\ u = 0
  <2>1. users' = Append(users, x)
    BY <1>5 DEF RegisterWrite
  <2>2. IsUser(x) /\ x.exists /\ ~x.anonymous /\ x.email = e /\ x.device = NoDevice
    BY DeletedUser DEF IsUser
  <2>3. \A w \in DOMAIN users : users[w].exists => users[w].email # e
    BY <1>5 DEF Owners
  <2> HIDE DEF x
  <2>5. OwnIdentity(x, users, DOMAIN users)
    BY <1>2, <2>2, <2>3 DEF OwnIdentity
  <2> QED BY <1>1, <2>1, <2>2, <2>5, AddedApart
<1> QED BY <1>3, <1>4, <1>5

LEMMA DeletedApart ==
  ASSUME IdentityInv, NEW d \in Devices, DeleteAccount(d) PROVE IdentityInv'
<1>1. Registering /\ users' = [users EXCEPT ![session[d]] = Deleted]
  BY DEF DeleteAccount, Registering, Stays
<1>2. IsUser(Deleted) /\ OwnIdentity(Deleted, users, DOMAIN users \ {session[d]})
  BY DeletedUser DEF OwnIdentity
<1> QED BY <1>1, <1>2, ReplacedApart

LEMMA ClientApart ==
  ASSUME PerDevice, IdentityInv, NEW d \in Devices, ClientStep(d) PROVE IdentityInv'
<1>1. CASE LoginAnonymous(d) \/ RegisterWrite(d) \/ DeleteAccount(d)
  BY <1>1, AnonymousApart, RegisteredApart, DeletedApart
<1>2. CASE Logout(d)
  BY <1>2, UsersKept DEF Logout, Registering, Stays
<1>3. ASSUME NEW e \in Emails, Register(d, e) PROVE IdentityInv'
  <2>1. Registering
    BY <1>3 DEF Register, Begin, PerDevice, Registering, Stays
  <2> QED BY <1>3, <2>1, UsersKept DEF Register
<1>4. ASSUME NEW e \in Emails, Login(d, e) PROVE IdentityInv'
  BY <1>4, UsersKept DEF Login, Registering, Stays
<1>5. CASE AddPushToken(d)
  <2>1. Registering /\ PullEverywhere(d)
    BY <1>5 DEF AddPushToken, Begin, PerDevice, Registering, Stays
  <2> QED BY <2>1, PulledKept
<1>6. CASE PushToken(d)
  <2> DEFINE u == job[d].account
  <2>1. Registering
    BY <1>6 DEF PushToken, End, PerDevice, Registering, Stays
  <2>2. CASE users[u].exists
    <3>1. users' = [users EXCEPT ![u].tokens = Sliced(Append(@, d))]
      BY <1>6, <2>2 DEF PushToken
    <3> QED BY <2>1, <3>1, TokensKept
  <2>3. CASE ~users[u].exists
    BY <1>6, <2>1, <2>3, UsersKept DEF PushToken
  <2> QED BY <2>2, <2>3
<1>7. CASE RemovePushToken(d)
  <2>1. Registering /\ users' = [users EXCEPT ![session[d]].tokens = Without(@, d)]
    BY <1>7 DEF RemovePushToken, Registering, Stays
  <2> QED BY <2>1, TokensKept
<1> QED BY <1>1, <1>2, <1>3, <1>4, <1>5, <1>6, <1>7 DEF ClientStep

\* No other step writes an account, but for put_library and the notifications.
LEMMA OthersRegistering ==
  ASSUME PerDevice, NEW d \in Devices,
         \/ \E v \in Versions : Download(d, v)
         \/ DownloadApp(d)
         \/ \E source \in {"app", "web"} : View(d, source)
         \/ UsageStep(d) /\ UNCHANGED users
         \/ RequestFails(d)
  PROVE  Registering /\ users' = users
<1>1. ASSUME NEW v \in Versions, Download(d, v) PROVE Registering /\ users' = users
  BY <1>1 DEF Download, Begin, PerDevice, Registering, Stays
<1>2. ASSUME DownloadApp(d) PROVE Registering /\ users' = users
  BY <1>2 DEF DownloadApp, End, PerDevice, Registering, Stays
<1>3. ASSUME NEW source \in {"app", "web"}, View(d, source) PROVE Registering /\ users' = users
  BY <1>3 DEF View, Begin, PerDevice, Registering, Stays
<1>4. ASSUME UsageStep(d) PROVE Registering
  BY <1>4 DEF UsageStep, InsertDownload, CountVersion, CountApp, InsertView, CountView, End,
              PerDevice, Registering, Stays
<1>5. ASSUME RequestFails(d) PROVE Registering /\ users' = users
  BY <1>5 DEF RequestFails, End, PerDevice, Registering, Stays
<1> QED BY <1>1, <1>2, <1>3, <1>4, <1>5

LEMMA IdentityNext == PerDevice /\ IdentityInv /\ [StoreNext]_storeVars => IdentityInv'
<1> SUFFICES ASSUME PerDevice, IdentityInv, [StoreNext]_storeVars PROVE IdentityInv'
  OBVIOUS
<1>1. ASSUME NEW d \in Devices, ClientStep(d) PROVE IdentityInv'
  BY <1>1, ClientApart
<1>2. ASSUME NEW d \in Devices, NEW v, PutLibrary(d, v) PROVE IdentityInv'
  BY <1>2, InstalledKept DEF PutLibrary, Registering, Stays
<1>3. ASSUME UNCHANGED <<users, pc, job>> PROVE IdentityInv'
  BY <1>3, UsersKept DEF Registering, Stays
<1>4. ASSUME NEW d \in Devices, ReadCatalog(d) PROVE IdentityInv'
  BY <1>3, <1>4 DEF ReadCatalog, clientVars
<1>5. ASSUME NEW d \in Devices,
             \/ \E v \in Versions : Download(d, v)
             \/ DownloadApp(d)
             \/ \E source \in {"app", "web"} : View(d, source)
             \/ UsageStep(d) /\ UNCHANGED users
             \/ RequestFails(d)
      PROVE  IdentityInv'
  BY <1>5, OthersRegistering, UsersKept
<1>6. ASSUME NEW u, NEW d \in Devices, RefuseToken(u, d) PROVE IdentityInv'
  <2>1. Registering /\ users' = [users EXCEPT ![u].tokens = Without(@, d)]
    BY <1>6 DEF RefuseToken, Registering, Stays
  <2> QED BY <2>1, TokensKept
<1>7. ASSUME UNCHANGED clientVars PROVE IdentityInv'
  BY <1>3, <1>7 DEF clientVars
<1>8. CASE Tick \/ UNCHANGED storeVars
  BY <1>7, <1>8 DEF Tick, storeVars
<1> QED BY <1>1, <1>2, <1>4, <1>5, <1>6, <1>7, <1>8 DEF StoreNext

(***************************************************************************)
(* Accounts and identities stay apart, for any number of devices and       *)
(* e-mails: only the unique index is there to refuse the second of two     *)
(* registrations that both saw the e-mail free.                            *)
(***************************************************************************)
THEOREM IdentitiesStayApart == StoreSpec => []IdentitiesApart
<1>1. AccessInv => PerDevice
  BY DEF AccessInv
<1>2. IdentityInv => IdentitiesApart
  BY DEF IdentityInv
<1> QED BY <1>1, <1>2, AccessInit, AccessNext, IdentityInit, IdentityNext, PTL DEF StoreSpec

-----------------------------------------------------------------------------
(***************************************************************************)
(* What $pull makes of a list.  The recursive definition is reasoned about *)
(* by its least counterexample: every set of naturals has a least element. *)
(***************************************************************************)
LEMMA LeastElement ==
  ASSUME NEW T, T \subseteq Nat, T # {}
  PROVE  \E x \in T : \A y \in T : x <= y
<1> DEFINE R == {ss \in Nat \X Nat : ss[1] < ss[2]}
<1>1. IsWellFoundedOn(R, Nat)
  BY NatLessThanWellFounded DEF OpToRel
<1>2. \A x, y \in Nat : y < x => <<y, x>> \in R
  OBVIOUS
<1> HIDE DEF R
<1>3. PICK x \in T : \A y \in T : <<y, x>> \notin R
  BY <1>1, WFMin
<1>4. ASSUME NEW y \in T PROVE x <= y
  <2>1. x \in Nat /\ y \in Nat /\ ~(y < x)
    BY <1>2, <1>3
  <2> QED BY <2>1
<1> QED BY <1>3, <1>4

\* Hence induction, on the numbers for which something holds.
LEMMA ByInduction ==
  ASSUME NEW G, 0 \in G, \A n \in Nat : n \in G => n + 1 \in G
  PROVE  Nat \subseteq G
<1> SUFFICES ASSUME Nat \ G # {} PROVE FALSE
  OBVIOUS
<1>1. PICK x \in Nat \ G : \A y \in Nat \ G : x <= y
  <2>1. Nat \ G \subseteq Nat
    OBVIOUS
  <2> QED BY <2>1, LeastElement
<1>2. x # 0 /\ x - 1 \in Nat /\ ~(x <= x - 1) /\ (x - 1) + 1 = x
  BY <1>1
<1> QED BY <1>1, <1>2

\* The list kept of the first n tokens, for each n up to m.
IsKept(kept, s, d, m) ==
  kept = [n \in 0..m |-> IF n = 0 THEN <<>>
                         ELSE IF s[n] = d THEN kept[n - 1] ELSE Append(kept[n - 1], s[n])]

LEMMA KeptExists == ASSUME NEW s, NEW d, NEW m \in Nat PROVE \E kept : IsKept(kept, s, d, m)
<1> DEFINE G == {n \in Nat : \E kept : IsKept(kept, s, d, n)}
<1>1. 0 \in G
  <2>1. IsKept([n \in {0} |-> <<>>], s, d, 0)
    BY DEF IsKept
  <2> QED BY <2>1
<1>2. ASSUME NEW n \in Nat, n \in G PROVE n + 1 \in G
  <2>1. PICK kept : IsKept(kept, s, d, n)
    BY <1>2
  <2> DEFINE last == IF s[n + 1] = d THEN kept[n] ELSE Append(kept[n], s[n + 1])
             more == [i \in 0..(n + 1) |-> IF i = n + 1 THEN last ELSE kept[i]]
  <2>2. ASSUME NEW i \in 0..(n + 1)
        PROVE  more[i] = IF i = 0 THEN <<>>
                         ELSE IF s[i] = d THEN more[i - 1] ELSE Append(more[i - 1], s[i])
    <3>1. CASE i = n + 1
      <4>1. more[i] = last /\ more[i - 1] = kept[n] /\ i # 0
        BY <3>1
      <4> QED BY <3>1, <4>1
    <3>2. CASE i \in 0..n
      <4>1. more[i] = kept[i] /\ (i # 0 => more[i - 1] = kept[i - 1] /\ i - 1 \in 0..n)
        BY <3>2
      <4>2. kept[i] = IF i = 0 THEN <<>>
                      ELSE IF s[i] = d THEN kept[i - 1] ELSE Append(kept[i - 1], s[i])
        BY <2>1, <3>2, Zenon DEF IsKept
      <4> HIDE DEF more, last
      <4> QED BY <4>1, <4>2
    <3> QED BY <3>1, <3>2
  <2>3. more = [i \in 0..(n + 1) |-> more[i]]
    OBVIOUS
  <2> HIDE DEF more
  <2>4. more = [i \in 0..(n + 1) |-> IF i = 0 THEN <<>>
                  ELSE IF s[i] = d THEN more[i - 1] ELSE Append(more[i - 1], s[i])]
    BY <2>2, <2>3
  <2>5. IsKept(more, s, d, n + 1)
    BY <2>4, Zenon DEF IsKept
  <2> QED BY <2>5
<1> HIDE DEF G
<1>3. m \in G
  BY <1>1, <1>2, ByInduction
<1> QED BY <1>3 DEF G

LEMMA KeptIs ==
  ASSUME NEW s, NEW d, Len(s) \in Nat
  PROVE  \E kept : IsKept(kept, s, d, Len(s)) /\ Without(s, d) = kept[Len(s)]
<1> DEFINE g == CHOOSE kept : kept = [n \in 0..Len(s) |-> IF n = 0 THEN <<>>
                  ELSE IF s[n] = d THEN kept[n - 1] ELSE Append(kept[n - 1], s[n])]
<1>1. Without(s, d) = g[Len(s)]
  BY DEF Without
<1>2. \E kept : IsKept(kept, s, d, Len(s))
  BY KeptExists
<1>3. g = [n \in 0..Len(s) |-> IF n = 0 THEN <<>>
             ELSE IF s[n] = d THEN g[n - 1] ELSE Append(g[n - 1], s[n])]
  BY <1>2 DEF IsKept
<1> QED BY <1>1, <1>3 DEF IsKept

\* A list of tokens that holds each of them once.
Once(s) == \A i, j \in 1..Len(s) : s[i] = s[j] => i = j

\* t keeps some of the tokens of s, each once.
Thinner(t, s) ==
  /\ t \in Seq(Devices) /\ Len(t) <= Len(s) /\ Once(t)
  /\ \A i \in 1..Len(t) : \E j \in 1..Len(s) : t[i] = s[j]

LEMMA PulledThinner ==
  ASSUME NEW s \in Seq(Devices), NEW d, Once(s)
  PROVE  /\ Thinner(Without(s, d), s)
         /\ \A i \in 1..Len(Without(s, d)) : Without(s, d)[i] # d
<1> DEFINE m == Len(s)
<1>1. m \in Nat /\ \A i \in 1..m : s[i] \in Devices
  BY LenProperties, ElementOfSeq
<1>2. PICK kept : IsKept(kept, s, d, m) /\ Without(s, d) = kept[m]
  BY <1>1, KeptIs
<1> HIDE DEF m
<1> DEFINE Good(t, n) ==
             /\ t \in Seq(Devices) /\ Len(t) <= n /\ Once(t)
             /\ \A i \in 1..Len(t) : t[i] # d /\ \E j \in 1..n : t[i] = s[j]
           G == {n \in Nat : n <= m => Good(kept[n], n)}
<1>3. 0 \in G
  <2>1. kept[0] = <<>>
    BY <1>1, <1>2 DEF IsKept
  <2>2. kept[0] \in Seq(Devices) /\ Len(kept[0]) = 0
    BY <2>1, EmptySeq
  <2> QED BY <2>2 DEF Once
<1>4. ASSUME NEW n \in Nat, n \in G PROVE n + 1 \in G
  <2> SUFFICES ASSUME n + 1 <= m PROVE Good(kept[n + 1], n + 1)
    OBVIOUS
  <2>1. Good(kept[n], n) /\ n + 1 \in 1..m /\ s[n + 1] \in Devices
    BY <1>1, <1>4
  <2>2. kept[n + 1] = IF s[n + 1] = d THEN kept[n] ELSE Append(kept[n], s[n + 1])
    <3>1. n + 1 \in 0..m /\ n + 1 # 0 /\ (n + 1) - 1 = n
      BY <1>1
    <3>2. \A i \in 0..m : kept[i] = IF i = 0 THEN <<>>
            ELSE IF s[i] = d THEN kept[i - 1] ELSE Append(kept[i - 1], s[i])
      BY <1>2, Zenon DEF IsKept
    <3> QED BY <3>1, <3>2
  <2> DEFINE t == kept[n]
             k == Len(t)
             x == s[n + 1]
  <2>3. CASE x = d
    BY <2>1, <2>2, <2>3, LenProperties
  <2>4. CASE x # d
    <3>1. /\ Append(t, x) \in Seq(Devices) /\ Len(Append(t, x)) = k + 1
          /\ \A i \in 1..k : Append(t, x)[i] = t[i]
          /\ Append(t, x)[k + 1] = x
      BY <2>1, AppendProperties
    <3>2. k \in Nat /\ k <= n
      BY <2>1, LenProperties
    <3>3. kept[n + 1] = Append(t, x)
      BY <2>2, <2>4
    <3> HIDE DEF t, k
    <3>4. \A i \in 1..k : t[i] # d /\ \E j \in 1..n : t[i] = s[j]
      BY <2>1 DEF t, k
    <3>5. \A i \in 1..k : t[i] # x
      <4>1. \A j \in 1..n : j \in 1..m /\ j # n + 1
        BY <1>1, <2>1
      <4> QED BY <2>1, <3>4, <4>1 DEF Once, m
    <3>6. \A i \in 1..(k + 1) : i \in 1..k \/ i = k + 1
      BY <3>2
    <3>7. Once(Append(t, x))
      <4>1. Once(t)
        BY <2>1 DEF t
      <4> QED BY <3>1, <3>5, <3>6, <4>1 DEF Once, k
    <3>8. ASSUME NEW i \in 1..(k + 1)
          PROVE  Append(t, x)[i] # d /\ \E j \in 1..(n + 1) : Append(t, x)[i] = s[j]
      <4>1. \A j \in 1..n : j \in 1..(n + 1)
        OBVIOUS
      <4> QED BY <2>4, <3>1, <3>4, <3>6, <4>1
    <3> QED BY <3>1, <3>2, <3>3, <3>7, <3>8
  <2> QED BY <2>3, <2>4
<1> HIDE DEF G, Good
<1>5. m \in G
  BY <1>1, <1>3, <1>4, ByInduction
<1>6. Good(kept[m], m)
  BY <1>1, <1>5 DEF G
<1> QED BY <1>2, <1>6 DEF Good, Thinner, m

-----------------------------------------------------------------------------
(***************************************************************************)
(* The accounts, their types, and the tokens that they hold.               *)
(***************************************************************************)

\* No token is held twice, nor by two accounts.
Alone ==
  \A u, w \in DOMAIN users : \A i \in DOMAIN users[u].tokens, j \in DOMAIN users[w].tokens :
    users[u].tokens[i] = users[w].tokens[j] => u = w /\ i = j

\* What a request has read: the account that it works on stays in the list.  A
\* token that is about to be pushed was pulled from every account.
Carries(d) ==
  /\ pc[d] = "idle" <=> job[d] = NoJob
  /\ pc[d] = "register" => job[d].email \in Emails /\ job[d].convert \in 0..Len(users)
  /\ pc[d] = "push" =>
       /\ job[d].account \in 1..Len(users)
       /\ \A u \in DOMAIN users : \A i \in DOMAIN users[u].tokens : users[u].tokens[i] # d

TokensInv ==
  /\ users \in Seq(Account)
  /\ session \in [Devices -> 0..Len(users)]
  /\ pc \in [Devices -> Steps]
  /\ job \in [Devices -> Jobs \cup {NoJob}]
  /\ \A d \in Devices : Carries(d)
  /\ \A u \in DOMAIN users : Len(users[u].tokens) <= MaxTokens
  /\ Alone

\* The accounts after a step that takes tokens from some, and gives none.
Thinned(us) ==
  /\ us \in Seq(Account) /\ Len(us) >= Len(users)
  /\ \A u \in 1..Len(us) : IF u \in 1..Len(users) THEN Thinner(us[u].tokens, users[u].tokens)
                                                  ELSE us[u].tokens = <<>>

\* What becomes of the requests that write no token.
Requests ==
  /\ session' \in [Devices -> 0..Len(users')]
  /\ pc' \in [Devices -> Steps]
  /\ job' \in [Devices -> Jobs \cup {NoJob}]
  /\ \A d \in Devices : Stays(d) \/ Carries(d)'

LEMMA AccountTokens ==
  ASSUME TokensInv, NEW u \in DOMAIN users
  PROVE  /\ u \in 1..Len(users) /\ users[u] \in Account
         /\ users[u].tokens \in Seq(Devices) /\ Len(users[u].tokens) \in Nat
         /\ DOMAIN users[u].tokens = 1..Len(users[u].tokens)
         /\ Once(users[u].tokens)
<1>1. u \in 1..Len(users) /\ users[u] \in Account
  BY LenProperties, ElementOfSeq DEF TokensInv
<1>2. users[u].tokens \in Seq(Devices)
  BY <1>1 DEF Account
<1>3. Len(users[u].tokens) \in Nat /\ DOMAIN users[u].tokens = 1..Len(users[u].tokens)
  BY <1>2, LenProperties
<1>4. Once(users[u].tokens)
  BY <1>3 DEF TokensInv, Alone, Once
<1> QED BY <1>1, <1>2, <1>3, <1>4

LEMMA SameThinner == ASSUME NEW s \in Seq(Devices), Once(s) PROVE Thinner(s, s)
<1>1. Len(s) \in Nat
  BY LenProperties
<1> QED BY <1>1 DEF Thinner

LEMMA NoneThinner == ASSUME NEW s \in Seq(Devices) PROVE Thinner(<<>>, s)
<1>1. Len(s) \in Nat /\ <<>> \in Seq(Devices) /\ Len(<<>>) = 0
  BY LenProperties, EmptySeq
<1> QED BY <1>1 DEF Thinner, Once

\* Accounts that only lose tokens keep the invariant.
LEMMA ThinnedKeeps ==
  ASSUME TokensInv, Thinned(users'), Requests PROVE TokensInv'
<1> DEFINE m == Len(users)
           n == Len(users')
<1>1. /\ m \in Nat /\ n \in Nat /\ m <= n /\ users' \in Seq(Account)
      /\ DOMAIN users = 1..m /\ DOMAIN users' = 1..n
  BY LenProperties DEF TokensInv, Thinned
<1>2. ASSUME NEW u \in 1..n
      PROVE  /\ users'[u].tokens \in Seq(Devices) /\ Len(users'[u].tokens) \in Nat
             /\ DOMAIN users'[u].tokens = 1..Len(users'[u].tokens)
             /\ Once(users'[u].tokens) /\ Len(users'[u].tokens) <= MaxTokens
             /\ \A i \in 1..Len(users'[u].tokens) :
                  u \in 1..m /\ \E j \in 1..Len(users[u].tokens) : users'[u].tokens[i] = users[u].tokens[j]
  <2>1. CASE u \in 1..m
    <3>1. Thinner(users'[u].tokens, users[u].tokens)
      BY <2>1 DEF Thinned
    <3>2. Len(users[u].tokens) \in Nat /\ Len(users[u].tokens) <= MaxTokens
      BY <1>1, <2>1, AccountTokens DEF TokensInv
    <3>3. users'[u].tokens \in Seq(Devices)
      BY <3>1 DEF Thinner
    <3>4. Len(users'[u].tokens) \in Nat /\ DOMAIN users'[u].tokens = 1..Len(users'[u].tokens)
      BY <3>3, LenProperties
    <3>5. MaxTokens \in Nat
      BY ClientsAssumption
    <3> QED BY <2>1, <3>1, <3>2, <3>3, <3>4, <3>5 DEF Thinner
  <2>2. CASE u \notin 1..m
    <3>1. users'[u].tokens = <<>>
      BY <2>2 DEF Thinned
    <3>2. <<>> \in Seq(Devices) /\ Len(<<>>) = 0 /\ DOMAIN <<>> = 1..0
      BY EmptySeq, LenProperties
    <3> QED BY <3>1, <3>2, ClientsAssumption DEF Once
  <2> QED BY <2>1, <2>2
<1>3. Alone'
  <2> SUFFICES ASSUME NEW u \in DOMAIN users', NEW w \in DOMAIN users',
                      NEW i \in DOMAIN users'[u].tokens, NEW j \in DOMAIN users'[w].tokens,
                      users'[u].tokens[i] = users'[w].tokens[j]
               PROVE  u = w /\ i = j
    BY DEF Alone
  <2>0. /\ u \in 1..n /\ i \in 1..Len(users'[u].tokens)
        /\ w \in 1..n /\ j \in 1..Len(users'[w].tokens)
    BY <1>1, <1>2
  <2>1. u \in DOMAIN users /\ w \in DOMAIN users
    BY <1>1, <1>2, <2>0
  <2>2. PICK k \in 1..Len(users[u].tokens) : users'[u].tokens[i] = users[u].tokens[k]
    BY <1>2, <2>0
  <2>3. PICK l \in 1..Len(users[w].tokens) : users'[w].tokens[j] = users[w].tokens[l]
    BY <1>2, <2>0
  <2>4. k \in DOMAIN users[u].tokens /\ l \in DOMAIN users[w].tokens
    BY <2>1, AccountTokens
  <2>5. u = w
    <3>1. Alone /\ users[u].tokens[k] = users[w].tokens[l]
      BY <2>2, <2>3 DEF TokensInv
    <3> QED BY <2>1, <2>4, <3>1 DEF Alone
  <2>6. Once(users'[u].tokens)
    BY <1>2, <2>0
  <2> QED BY <2>0, <2>5, <2>6 DEF Once
<1>4. ASSUME NEW d \in Devices PROVE Carries(d)'
  <2> SUFFICES ASSUME Stays(d) PROVE Carries(d)'
    BY DEF Requests
  <2>1. pc'[d] = pc[d] /\ job'[d] = job[d] /\ Carries(d)
    BY DEF Stays, TokensInv
  <2>2. pc[d] = "register" => job[d].convert \in 0..n
    BY <1>1, <2>1 DEF Carries
  <2>3. ASSUME pc[d] = "push", NEW u \in 1..n, NEW i \in 1..Len(users'[u].tokens)
        PROVE  users'[u].tokens[i] # d
    <3>1. PICK j \in 1..Len(users[u].tokens) : u \in 1..m /\ users'[u].tokens[i] = users[u].tokens[j]
      BY <1>2
    <3>2. j \in DOMAIN users[u].tokens
      BY <1>1, <3>1, AccountTokens
    <3> QED BY <1>1, <2>1, <2>3, <3>1, <3>2 DEF Carries
  <2>4. pc[d] = "push" => job[d].account \in 1..n
    BY <1>1, <2>1 DEF Carries
  <2> QED BY <1>1, <1>2, <2>1, <2>2, <2>3, <2>4 DEF Carries
<1> QED BY <1>1, <1>2, <1>3, <1>4 DEF TokensInv, Requests

-----------------------------------------------------------------------------
\* Requests that begin, go on and end, among those that push nothing.
LEMMA BeginRequests ==
  ASSUME TokensInv, NEW d \in Devices, NEW at \in Steps \ {"idle", "push"}, NEW j \in Jobs, Begin(d, at, j),
         at = "register" => j.email \in Emails /\ j.convert \in 0..Len(users'),
         session' \in [Devices -> 0..Len(users')]
  PROVE  Requests
<1>1. pc' = [pc EXCEPT ![d] = at] /\ job' = [job EXCEPT ![d] = j]
  BY DEF Begin
<1>2. /\ pc' \in [Devices -> Steps] /\ job' \in [Devices -> Jobs \cup {NoJob}]
      /\ pc'[d] = at /\ job'[d] = j /\ \A p \in Devices \ {d} : Stays(p)
  BY <1>1 DEF TokensInv, Stays, Steps
<1>3. Carries(d)'
  BY <1>2, NoJobAssumption DEF Carries
<1> QED BY <1>2, <1>3 DEF Requests, Steps

LEMMA EndRequests ==
  ASSUME TokensInv, NEW d \in Devices, End(d), session' \in [Devices -> 0..Len(users')]
  PROVE  Requests
<1>1. /\ pc' \in [Devices -> Steps] /\ job' \in [Devices -> Jobs \cup {NoJob}]
      /\ pc'[d] = "idle" /\ job'[d] = NoJob /\ \A p \in Devices \ {d} : Stays(p)
  BY DEF End, TokensInv, Stays, Steps
<1>2. Carries(d)'
  BY <1>1 DEF Carries
<1> QED BY <1>1, <1>2 DEF Requests, Steps

LEMMA MoveRequests ==
  ASSUME TokensInv, NEW d \in Devices, NEW at \in Steps \ {"idle", "register", "push"}, pc[d] # "idle",
         pc' = [pc EXCEPT ![d] = at], job' = job, session' \in [Devices -> 0..Len(users')]
  PROVE  Requests
<1>1. /\ pc' \in [Devices -> Steps] /\ job' \in [Devices -> Jobs \cup {NoJob}]
      /\ pc'[d] = at /\ job'[d] = job[d] /\ \A p \in Devices \ {d} : Stays(p)
  BY DEF TokensInv, Stays, Steps
<1>2. Carries(d)'
  BY <1>1 DEF Carries, TokensInv
<1> QED BY <1>1, <1>2 DEF Requests, Steps

LEMMA StayRequests ==
  ASSUME TokensInv, UNCHANGED <<pc, job>>, session' \in [Devices -> 0..Len(users')]
  PROVE  Requests
BY DEF TokensInv, Requests, Stays

-----------------------------------------------------------------------------
\* How the steps write the accounts: none, one, one more, or all of them.
LEMMA ThinnedSame == TokensInv /\ users' = users => Thinned(users')
<1> SUFFICES ASSUME TokensInv, users' = users PROVE Thinned(users')
  OBVIOUS
<1>1. Len(users) \in Nat /\ DOMAIN users = 1..Len(users)
  BY LenProperties DEF TokensInv
<1>2. \A u \in 1..Len(users) : Thinner(users[u].tokens, users[u].tokens)
  BY <1>1, AccountTokens, SameThinner
<1> QED BY <1>1, <1>2 DEF Thinned, TokensInv

LEMMA ThinnedOne ==
  ASSUME TokensInv, NEW u, NEW x, users' = [users EXCEPT ![u] = x],
         u \in DOMAIN users => x \in Account /\ Thinner(x.tokens, users[u].tokens)
  PROVE  Thinned(users') /\ Len(users') = Len(users)
<1>1. users \in Seq(Account) /\ Len(users) \in Nat /\ DOMAIN users = 1..Len(users)
  BY LenProperties DEF TokensInv
<1>2. CASE u \notin DOMAIN users
  <2>1. users' = users
    <3>1. users = [i \in 1..Len(users) |-> users[i]]
      BY <1>1, LenProperties
    <3> QED BY <1>1, <1>2, <3>1
  <2> QED BY <2>1, ThinnedSame
<1>3. CASE u \in DOMAIN users
  <2>1. /\ users' \in Seq(Account) /\ Len(users') = Len(users)
        /\ \A w \in 1..Len(users) : users'[w] = IF w = u THEN x ELSE users[w]
    BY <1>1, <1>3, ExceptSeq
  <2>2. \A w \in 1..Len(users) : Thinner(users[w].tokens, users[w].tokens)
    BY <1>1, AccountTokens, SameThinner
  <2> QED BY <1>1, <1>3, <2>1, <2>2 DEF Thinned
<1> QED BY <1>2, <1>3

LEMMA ThinnedMore ==
  ASSUME TokensInv, NEW x \in Account, x.tokens = <<>>, users' = Append(users, x)
  PROVE  Thinned(users') /\ Len(users') = Len(users) + 1
<1>1. users \in Seq(Account) /\ Len(users) \in Nat /\ DOMAIN users = 1..Len(users)
  BY LenProperties DEF TokensInv
<1>2. /\ users' \in Seq(Account) /\ Len(users') = Len(users) + 1
      /\ \A w \in 1..Len(users) : users'[w] = users[w]
      /\ users'[Len(users) + 1] = x
  BY <1>1, AppendProperties
<1>3. \A w \in 1..Len(users) : Thinner(users[w].tokens, users[w].tokens)
  BY <1>1, AccountTokens, SameThinner
<1>4. \A w \in 1..Len(users') : w \in 1..Len(users) \/ w = Len(users) + 1
  BY <1>1, <1>2
<1> QED BY <1>1, <1>2, <1>3, <1>4 DEF Thinned

\* Accounts written field by field.
LEMMA AccountFields ==
  ASSUME NEW x \in Account
  PROVE  /\ \A t \in Seq(Devices) : [x EXCEPT !.tokens = t] \in Account /\ [x EXCEPT !.tokens = t].tokens = t
         /\ \A v \in Versions \cup {NoVersion} :
              [x EXCEPT !.installed = v] \in Account /\ [x EXCEPT !.installed = v].tokens = x.tokens
         /\ \A e \in Emails : Converted(x, e) \in Account /\ Converted(x, e).tokens = x.tokens
BY DEF Account, Converted

LEMMA NewAccounts ==
  /\ Deleted \in Account /\ Deleted.tokens = <<>>
  /\ \A d \in Devices : LET x == [Deleted EXCEPT !.exists = TRUE, !.anonymous = TRUE, !.device = d]
                        IN  x \in Account /\ x.tokens = <<>>
  /\ \A e \in Emails : LET x == [Deleted EXCEPT !.exists = TRUE, !.email = e]
                       IN  x \in Account /\ x.tokens = <<>>
  /\ \A e \in Emails, v \in Versions : InstalledBy(e, v) \in Account /\ InstalledBy(e, v).tokens = <<>>
<1>1. <<>> \in Seq(Devices)
  BY EmptySeq
<1> QED BY <1>1 DEF Account, Deleted, InstalledBy

-----------------------------------------------------------------------------
\* The token of d is pulled from every account, then pushed to one.
LEMMA PulledEverywhere ==
  ASSUME TokensInv, NEW d \in Devices, PullEverywhere(d)
  PROVE  /\ Thinned(users') /\ Len(users') = Len(users)
         /\ \A u \in DOMAIN users' : \A i \in DOMAIN users'[u].tokens : users'[u].tokens[i] # d
<1> DEFINE m == Len(users)
           y(u) == [users[u] EXCEPT !.tokens = Without(users[u].tokens, d)]
<1>1. users \in Seq(Account) /\ m \in Nat /\ DOMAIN users = 1..m
  BY LenProperties DEF TokensInv
<1>2. users' = [u \in 1..m |-> y(u)]
  BY <1>1 DEF PullEverywhere
<1>3. ASSUME NEW u \in 1..m
      PROVE  /\ y(u) \in Account /\ Thinner(y(u).tokens, users[u].tokens)
             /\ \A i \in DOMAIN y(u).tokens : y(u).tokens[i] # d
  <2> DEFINE t == Without(users[u].tokens, d)
  <2>1. users[u] \in Account /\ users[u].tokens \in Seq(Devices) /\ Once(users[u].tokens)
    BY <1>1, AccountTokens
  <2>2. Thinner(t, users[u].tokens) /\ \A i \in 1..Len(t) : t[i] # d
    BY <2>1, PulledThinner
  <2> HIDE DEF t
  <2>3. t \in Seq(Devices) /\ DOMAIN t = 1..Len(t)
    BY <2>2, LenProperties DEF Thinner
  <2>4. y(u) \in Account /\ y(u).tokens = t
    BY <2>1, <2>3, AccountFields DEF t
  <2> HIDE DEF y
  <2> QED BY <2>2, <2>3, <2>4
<1> HIDE DEF y
<1>4. users' \in Seq(Account) /\ Len(users') = m /\ DOMAIN users' = 1..m /\ \A u \in 1..m : users'[u] = y(u)
  <2>1. users' \in [1..m -> Account] /\ IsList(users', m)
    BY <1>1, <1>2, <1>3 DEF IsList
  <2> QED BY <1>1, <1>2, <2>1, SeqDef, ListLength
<1> QED BY <1>1, <1>3, <1>4 DEF Thinned

\* The account that has it keeps the last MaxTokens of its tokens.
LEMMA SlicedLast ==
  ASSUME NEW s \in Seq(Devices), Len(s) <= MaxTokens, NEW d \in Devices
  PROVE  LET t == Sliced(Append(s, d))
         IN  /\ t \in Seq(Devices) /\ Len(t) \in Nat /\ Len(t) <= MaxTokens
             /\ \E k \in {0, 1} : /\ Len(t) = Len(s) + 1 - k
                                 /\ \A i \in 1..Len(t) : IF i + k = Len(s) + 1 THEN t[i] = d
                                                      ELSE i + k \in 1..Len(s) /\ t[i] = s[i + k]
<1> DEFINE r == Append(s, d)
           n == Len(s)
           k == IF n + 1 > MaxTokens THEN 1 ELSE 0
           t == SubSeq(r, k + 1, n + 1)
<1>1. /\ n \in Nat /\ r \in Seq(Devices) /\ Len(r) = n + 1 /\ r[n + 1] = d
      /\ \A i \in 1..n : r[i] = s[i]
  BY LenProperties, AppendProperties
<1>2. MaxTokens \in Nat \ {0} /\ n <= MaxTokens
  BY ClientsAssumption
<1>3. Sliced(r) = t
  <2>1. (IF Len(r) > MaxTokens THEN Len(r) - MaxTokens + 1 ELSE 1) = k + 1
    BY <1>1, <1>2
  <2> QED BY <1>1, <2>1, Zenon DEF Sliced
<1> HIDE DEF r, n
<1>4. \A i \in (k + 1)..(n + 1) : r[i] \in Devices
  <2>1. \A i \in (k + 1)..(n + 1) : i \in 1..Len(r)
    BY <1>1, <1>2
  <2> QED BY <1>1, <2>1, ElementOfSeq
<1>5. /\ t \in Seq(Devices) /\ Len(t) = n + 1 - k
      /\ \A i \in 1..(n + 1 - k) : t[i] = r[i + k]
  <2>1. k + 1 \in Int /\ n + 1 \in Int /\ k + 1 <= n + 1 /\ (n + 1) - (k + 1) + 1 = n + 1 - k
    BY <1>1, <1>2
  <2>2. /\ t \in Seq(Devices) /\ Len(t) = (n + 1) - (k + 1) + 1
        /\ \A i \in 1..((n + 1) - (k + 1) + 1) : t[i] = r[(k + 1) + i - 1]
    BY <1>4, <2>1, SubSeqProperties
  <2>3. \A i \in 1..(n + 1 - k) : (k + 1) + i - 1 = i + k
    BY <1>1
  <2> QED BY <2>1, <2>2, <2>3
<1>6. k \in {0, 1} /\ n + 1 - k \in Nat /\ n + 1 - k <= MaxTokens
  BY <1>1, <1>2
<1> HIDE DEF t, k
<1>7. ASSUME NEW i \in 1..(n + 1 - k)
      PROVE  IF i + k = n + 1 THEN t[i] = d ELSE i + k \in 1..n /\ t[i] = s[i + k]
  BY <1>1, <1>5, <1>6
<1> QED BY <1>3, <1>5, <1>6, <1>7 DEF r, n

LEMMA PushKeeps ==
  ASSUME TokensInv, NEW d \in Devices, PushToken(d) PROVE TokensInv'
<1> DEFINE u == job[d].account
           m == Len(users)
           s == users[u].tokens
           t == Sliced(Append(s, d))
<1>1. /\ pc[d] = "push" /\ End(d) /\ session' = session
      /\ u \in 1..m /\ \A w \in DOMAIN users : \A i \in DOMAIN users[w].tokens : users[w].tokens[i] # d
  BY DEF PushToken, TokensInv, Carries
<1>2. users \in Seq(Account) /\ m \in Nat /\ DOMAIN users = 1..m
  BY LenProperties DEF TokensInv
<1>3. CASE ~users[u].exists
  <2>1. users' = users
    BY <1>3 DEF PushToken
  <2>2. session' \in [Devices -> 0..Len(users')]
    BY <1>1, <2>1 DEF TokensInv
  <2> QED BY <1>1, <2>1, <2>2, ThinnedSame, EndRequests, ThinnedKeeps
<1>4. CASE users[u].exists
  <2> DEFINE x == [users[u] EXCEPT !.tokens = t]
  <2>1. users' = [users EXCEPT ![u] = x]
    BY <1>4 DEF PushToken
  <2>2. /\ users[u] \in Account /\ s \in Seq(Devices) /\ Len(s) \in Nat /\ DOMAIN s = 1..Len(s)
        /\ Len(s) <= MaxTokens /\ Once(s)
    BY <1>1, <1>2, AccountTokens DEF TokensInv
  <2>3. PICK k \in {0, 1} :
          /\ t \in Seq(Devices) /\ Len(t) \in Nat /\ Len(t) <= MaxTokens /\ Len(t) = Len(s) + 1 - k
          /\ \A i \in 1..Len(t) : IF i + k = Len(s) + 1 THEN t[i] = d ELSE i + k \in 1..Len(s) /\ t[i] = s[i + k]
    BY <2>2, SlicedLast
  <2>4. x \in Account /\ x.tokens = t
    BY <2>2, <2>3, AccountFields
  <2> HIDE DEF t, x, s, u
  <2>5. /\ users' \in Seq(Account) /\ Len(users') = m /\ DOMAIN users' = 1..m
        /\ \A w \in 1..m : users'[w] = IF w = u THEN x ELSE users[w]
    <3>1. /\ users' \in Seq(Account) /\ Len(users') = m
          /\ \A w \in 1..m : users'[w] = IF w = u THEN x ELSE users[w]
      BY <1>1, <1>2, <2>1, <2>4, ExceptSeq
    <3> QED BY <3>1, LenProperties
  <2>6. DOMAIN t = 1..Len(t)
    BY <2>3, LenProperties
  <2>7. session' \in [Devices -> 0..Len(users')]
    BY <1>1, <2>5 DEF TokensInv
  <2>8. /\ pc' \in [Devices -> Steps] /\ job' \in [Devices -> Jobs \cup {NoJob}]
        /\ pc'[d] = "idle" /\ job'[d] = NoJob /\ \A p \in Devices \ {d} : Stays(p)
    BY <1>1 DEF End, TokensInv, Stays, Steps
  <2>9. ASSUME NEW w \in DOMAIN users', NEW i \in DOMAIN users'[w].tokens
        PROVE  \/ w = u /\ i + k = Len(s) + 1 /\ users'[w].tokens[i] = d
               \/ /\ w \in DOMAIN users /\ (IF w = u THEN i + k ELSE i) \in DOMAIN users[w].tokens
                  /\ users'[w].tokens[i] = users[w].tokens[IF w = u THEN i + k ELSE i]
    <3>1. CASE w = u
      <4>1. users'[w].tokens = t /\ i \in 1..Len(t)
        BY <2>4, <2>5, <2>6, <3>1
      <4> QED BY <1>2, <2>2, <2>3, <2>5, <3>1, <4>1 DEF s
    <3>2. CASE w # u
      BY <1>2, <2>5, <3>2
    <3> QED BY <3>1, <3>2
  <2>10. Alone'
    <3> SUFFICES ASSUME NEW v \in DOMAIN users', NEW w \in DOMAIN users',
                        NEW i \in DOMAIN users'[v].tokens, NEW j \in DOMAIN users'[w].tokens,
                        users'[v].tokens[i] = users'[w].tokens[j]
                 PROVE  v = w /\ i = j
      BY DEF Alone
    <3> DEFINE a == IF v = u THEN i + k ELSE i
               b == IF w = u THEN j + k ELSE j
    <3>0. v \in 1..m /\ w \in 1..m /\ i \in Int /\ j \in Int
      <4>1. /\ v \in 1..m => DOMAIN users[v].tokens \subseteq Int
            /\ w \in 1..m => DOMAIN users[w].tokens \subseteq Int
        BY <1>2, AccountTokens
      <4> QED BY <2>4, <2>5, <2>6, <4>1
    <3>1. CASE users'[v].tokens[i] = d
      <4>1. v = u /\ i + k = Len(s) + 1
        BY <1>1, <2>9, <3>1
      <4>2. w = u /\ j + k = Len(s) + 1
        BY <1>1, <2>9, <3>1
      <4> QED BY <2>2, <3>0, <4>1, <4>2
    <3>2. CASE users'[v].tokens[i] # d
      <4>1. v \in DOMAIN users /\ a \in DOMAIN users[v].tokens /\ users'[v].tokens[i] = users[v].tokens[a]
        BY <2>9, <3>2
      <4>2. w \in DOMAIN users /\ b \in DOMAIN users[w].tokens /\ users'[w].tokens[j] = users[w].tokens[b]
        BY <2>9, <3>2
      <4>3. Alone /\ users[v].tokens[a] = users[w].tokens[b]
        BY <4>1, <4>2 DEF TokensInv
      <4> HIDE DEF a, b
      <4>4. v = w /\ a = b
        BY <4>1, <4>2, <4>3 DEF Alone
      <4> QED BY <3>0, <4>4 DEF a, b
    <3> QED BY <3>1, <3>2
  <2>11. ASSUME NEW p \in Devices PROVE Carries(p)'
    <3>1. CASE p = d
      BY <2>8, <3>1 DEF Carries
    <3>2. CASE p # d
      <4>1. pc'[p] = pc[p] /\ job'[p] = job[p] /\ Carries(p)
        BY <2>8, <3>2 DEF Stays, TokensInv
      <4>2. ASSUME pc[p] = "push", NEW w \in DOMAIN users', NEW i \in DOMAIN users'[w].tokens
            PROVE  users'[w].tokens[i] # p
        <5>1. CASE users'[w].tokens[i] = d
          BY <3>2, <5>1
        <5>2. CASE users'[w].tokens[i] # d
          BY <2>9, <4>1, <4>2, <5>2 DEF Carries
        <5> QED BY <5>1, <5>2
      <4> QED BY <2>5, <4>1, <4>2 DEF Carries
    <3> QED BY <3>1, <3>2
  <2>12. \A w \in DOMAIN users' : Len(users'[w].tokens) <= MaxTokens
    BY <1>2, <2>3, <2>4, <2>5 DEF TokensInv
  <2> QED BY <2>5, <2>7, <2>8, <2>10, <2>11, <2>12 DEF TokensInv
<1> QED BY <1>3, <1>4

LEMMA AddPushKeeps ==
  ASSUME TokensInv, NEW d \in Devices, AddPushToken(d) PROVE TokensInv'
<1>1. /\ SignedIn(d) /\ PullEverywhere(d) /\ session' = session
      /\ Begin(d, "push", [account |-> session[d]])
  BY DEF AddPushToken
<1>2. /\ Thinned(users') /\ Len(users') = Len(users)
      /\ \A u \in DOMAIN users' : \A i \in DOMAIN users'[u].tokens : users'[u].tokens[i] # d
  BY <1>1, PulledEverywhere
<1>3. Len(users) \in Nat /\ session[d] \in 1..Len(users)
  BY <1>1, LenProperties DEF SignedIn, TokensInv
<1>4. [account |-> session[d]] \in Jobs
  BY <1>3 DEF Jobs
<1>5. /\ pc' \in [Devices -> Steps] /\ job' \in [Devices -> Jobs \cup {NoJob}]
      /\ pc'[d] = "push" /\ job'[d] = [account |-> session[d]] /\ \A p \in Devices \ {d} : Stays(p)
  BY <1>1, <1>4 DEF Begin, TokensInv, Stays, Steps
<1>6. Carries(d)'
  BY <1>2, <1>3, <1>4, <1>5, NoJobAssumption DEF Carries
<1>7. session' \in [Devices -> 0..Len(users')]
  BY <1>1, <1>2 DEF TokensInv
<1>8. Requests
  BY <1>5, <1>6, <1>7 DEF Requests
<1> QED BY <1>2, <1>8, ThinnedKeeps

\* A step that writes one account, which loses tokens or none.
LEMMA OneKeeps ==
  ASSUME TokensInv, NEW u, NEW x, users' = [users EXCEPT ![u] = x], UNCHANGED <<session, pc, job>>,
         u \in DOMAIN users => x \in Account /\ Thinner(x.tokens, users[u].tokens)
  PROVE  TokensInv'
<1>1. Thinned(users') /\ Len(users') = Len(users)
  BY ThinnedOne
<1>2. session' \in [Devices -> 0..Len(users')]
  BY <1>1 DEF TokensInv
<1> QED BY <1>1, <1>2, StayRequests, ThinnedKeeps

LEMMA OnePulled ==
  ASSUME TokensInv, NEW u, NEW d, users' = [users EXCEPT ![u].tokens = Without(@, d)],
         UNCHANGED <<session, pc, job>>
  PROVE  TokensInv'
<1> DEFINE x == [users[u] EXCEPT !.tokens = Without(users[u].tokens, d)]
<1>1. ASSUME u \in DOMAIN users PROVE x \in Account /\ Thinner(x.tokens, users[u].tokens)
  <2>1. users[u] \in Account /\ users[u].tokens \in Seq(Devices) /\ Once(users[u].tokens)
    BY <1>1, AccountTokens
  <2>2. Thinner(Without(users[u].tokens, d), users[u].tokens)
    BY <2>1, PulledThinner
  <2> QED BY <2>1, <2>2, AccountFields DEF Thinner
<1>2. users' = [users EXCEPT ![u] = x]
  OBVIOUS
<1> HIDE DEF x
<1> QED BY <1>1, <1>2, OneKeeps

LEMMA LibraryKeeps ==
  ASSUME TokensInv, NEW d \in Devices, NEW v \in Versions \cup {NoVersion}, PutLibrary(d, v)
  PROVE  TokensInv'
<1> DEFINE u == session[d]
           x == [users[u] EXCEPT !.installed = v]
<1>1. ASSUME u \in DOMAIN users PROVE x \in Account /\ Thinner(x.tokens, users[u].tokens)
  <2>1. users[u] \in Account /\ users[u].tokens \in Seq(Devices) /\ Once(users[u].tokens)
    BY <1>1, AccountTokens
  <2>2. x \in Account /\ x.tokens = users[u].tokens
    BY <2>1, AccountFields
  <2> HIDE DEF x
  <2> QED BY <2>1, <2>2, SameThinner
<1>2. users' = [users EXCEPT ![u] = x] /\ UNCHANGED <<session, pc, job>>
  BY DEF PutLibrary
<1> HIDE DEF x
<1> QED BY <1>1, <1>2, OneKeeps

LEMMA DeleteKeeps ==
  ASSUME TokensInv, NEW d \in Devices, DeleteAccount(d) PROVE TokensInv'
<1>1. users' = [users EXCEPT ![session[d]] = Deleted] /\ UNCHANGED <<session, pc, job>>
  BY DEF DeleteAccount
<1>2. ASSUME session[d] \in DOMAIN users
      PROVE  Deleted \in Account /\ Thinner(Deleted.tokens, users[session[d]].tokens)
  BY <1>2, AccountTokens, NewAccounts, NoneThinner
<1> QED BY <1>1, <1>2, OneKeeps

LEMMA SessionKeeps ==
  ASSUME TokensInv, UNCHANGED <<users, pc, job>>, session' \in [Devices -> 0..Len(users)]
  PROVE  TokensInv'
BY ThinnedSame, StayRequests, ThinnedKeeps

LEMMA AnonymousKeeps ==
  ASSUME TokensInv, NEW d \in Devices, LoginAnonymous(d) PROVE TokensInv'
<1> DEFINE mine == {u \in DOMAIN users : users[u].device = d}
           x == [Deleted EXCEPT !.exists = TRUE, !.anonymous = TRUE, !.device = d]
<1>0. UNCHANGED <<pc, job>> /\ Len(users) \in Nat /\ DOMAIN users = 1..Len(users)
  BY LenProperties DEF LoginAnonymous, TokensInv
<1>1. CASE mine # {}
  <2>1. users' = users /\ session' = [session EXCEPT ![d] = CHOOSE u \in mine : TRUE]
    BY <1>1 DEF LoginAnonymous
  <2> DEFINE u == CHOOSE w \in mine : TRUE
  <2>2. u \in 1..Len(users) /\ session' = [session EXCEPT ![d] = u]
    <3>1. u \in mine
      BY <1>1
    <3>2. u \in DOMAIN users
      BY <3>1
    <3>3. session' = [session EXCEPT ![d] = u]
      BY <2>1
    <3> QED BY <1>0, <3>2, <3>3
  <2> HIDE DEF u, mine, x
  <2>3. session' \in [Devices -> 0..Len(users)]
    BY <1>0, <2>2 DEF TokensInv
  <2> QED BY <1>0, <2>1, <2>3, SessionKeeps
<1>2. CASE mine = {}
  <2>1. users' = Append(users, x) /\ session' = [session EXCEPT ![d] = Len(users) + 1]
    BY <1>2 DEF LoginAnonymous
  <2>2. x \in Account /\ x.tokens = <<>>
    BY NewAccounts
  <2> HIDE DEF x
  <2>3. Thinned(users') /\ Len(users') = Len(users) + 1
    BY <2>1, <2>2, ThinnedMore
  <2>4. session' \in [Devices -> 0..Len(users')]
    BY <1>0, <2>1, <2>3 DEF TokensInv
  <2> QED BY <1>0, <2>3, <2>4, StayRequests, ThinnedKeeps
<1> QED BY <1>1, <1>2

LEMMA RegisterKeeps ==
  ASSUME TokensInv, NEW d \in Devices, RegisterWrite(d) PROVE TokensInv'
<1> DEFINE e == job[d].email
           u == job[d].convert
           x == [Deleted EXCEPT !.exists = TRUE, !.email = e]
<1>0. /\ e \in Emails /\ u \in 0..Len(users) /\ End(d)
      /\ Len(users) \in Nat /\ DOMAIN users = 1..Len(users)
  BY LenProperties DEF RegisterWrite, TokensInv, Carries
<1>1. CASE Owners(e) # {} \/ (u # 0 /\ ~users[u].exists)
  <2>1. users' = users /\ session' = session
    BY <1>1 DEF RegisterWrite
  <2>2. session' \in [Devices -> 0..Len(users')]
    BY <2>1 DEF TokensInv
  <2> QED BY <1>0, <2>1, <2>2, ThinnedSame, EndRequests, ThinnedKeeps
<1>2. CASE ~(Owners(e) # {} \/ (u # 0 /\ ~users[u].exists)) /\ u # 0
  <2> DEFINE y == Converted(users[u], e)
  <2>1. users' = [users EXCEPT ![u] = y] /\ session' = session
    BY <1>2 DEF RegisterWrite
  <2>2. /\ users[u] \in Account /\ users[u].tokens \in Seq(Devices) /\ Once(users[u].tokens)
        /\ u \in DOMAIN users
    BY <1>0, <1>2, AccountTokens
  <2>3. y \in Account /\ y.tokens = users[u].tokens
    BY <1>0, <2>2, AccountFields
  <2> HIDE DEF y
  <2>4. Thinned(users') /\ Len(users') = Len(users)
    BY <2>1, <2>2, <2>3, SameThinner, ThinnedOne
  <2>5. session' \in [Devices -> 0..Len(users')]
    BY <2>1, <2>4 DEF TokensInv
  <2> QED BY <1>0, <2>4, <2>5, EndRequests, ThinnedKeeps
<1>3. CASE ~(Owners(e) # {} \/ (u # 0 /\ ~users[u].exists)) /\ u = 0
  <2>1. users' = Append(users, x) /\ session' = [session EXCEPT ![d] = Len(users) + 1]
    BY <1>3 DEF RegisterWrite
  <2>2. x \in Account /\ x.tokens = <<>>
    BY <1>0, NewAccounts
  <2> HIDE DEF x
  <2>3. Thinned(users') /\ Len(users') = Len(users) + 1
    BY <2>1, <2>2, ThinnedMore
  <2>4. session' \in [Devices -> 0..Len(users')]
    BY <1>0, <2>1, <2>3 DEF TokensInv
  <2> QED BY <1>0, <2>3, <2>4, EndRequests, ThinnedKeeps
<1> QED BY <1>1, <1>2, <1>3

LEMMA ClientKeeps ==
  ASSUME TokensInv, NEW d \in Devices, ClientStep(d) PROVE TokensInv'
<1>0. Len(users) \in Nat /\ DOMAIN users = 1..Len(users)
  BY LenProperties DEF TokensInv
<1>1. CASE LoginAnonymous(d) \/ RegisterWrite(d) \/ DeleteAccount(d) \/ AddPushToken(d) \/ PushToken(d)
  BY <1>1, AnonymousKeeps, RegisterKeeps, DeleteKeeps, AddPushKeeps, PushKeeps
<1>2. CASE RemovePushToken(d)
  BY <1>2, OnePulled DEF RemovePushToken
<1>3. CASE Logout(d)
  <2>1. session' \in [Devices -> 0..Len(users)]
    BY <1>0, <1>3 DEF Logout, TokensInv
  <2> QED BY <1>3, <2>1, SessionKeeps DEF Logout
<1>4. ASSUME NEW e \in Emails, Login(d, e) PROVE TokensInv'
  <2>1. PICK u \in Owners(e) : session' = [session EXCEPT ![d] = u]
    BY <1>4 DEF Login
  <2>2. session' \in [Devices -> 0..Len(users)]
    BY <1>0, <2>1 DEF Owners, TokensInv
  <2> QED BY <1>4, <2>2, SessionKeeps DEF Login
<1>5. ASSUME NEW e \in Emails, Register(d, e) PROVE TokensInv'
  <2> DEFINE u == IF SignedIn(d) /\ users[session[d]].anonymous THEN session[d] ELSE 0
             j == [email |-> e, convert |-> u]
  <2>1. Begin(d, "register", j) /\ UNCHANGED <<users, session>>
    BY <1>5 DEF Register
  <2>2. u \in 0..Len(users) /\ u \in Nat
    BY <1>0 DEF TokensInv
  <2> HIDE DEF u
  <2>3. j \in Jobs /\ j.email = e /\ j.convert = u
    BY <2>2 DEF Jobs
  <2> HIDE DEF j
  <2>4. session' \in [Devices -> 0..Len(users')]
    BY <2>1 DEF TokensInv
  <2>5. Requests
    BY <2>1, <2>2, <2>3, <2>4, BeginRequests DEF Steps
  <2> QED BY <2>1, <2>5, ThinnedSame, ThinnedKeeps
<1> QED BY <1>1, <1>2, <1>3, <1>4, <1>5 DEF ClientStep

\* The requests that touch no account.
LEMMA OthersKeep ==
  ASSUME TokensInv, UNCHANGED <<users, session>>, NEW d \in Devices,
         \/ \E at \in Steps \ {"idle", "push", "register"}, j \in Jobs : Begin(d, at, j)
         \/ End(d)
         \/ \E at \in Steps \ {"idle", "register", "push"} :
              pc[d] # "idle" /\ pc' = [pc EXCEPT ![d] = at] /\ job' = job
  PROVE  TokensInv'
<1>1. session' \in [Devices -> 0..Len(users')]
  BY DEF TokensInv
<1>2. Requests
  <2>1. ASSUME NEW at \in Steps \ {"idle", "push", "register"}, NEW j \in Jobs, Begin(d, at, j) PROVE Requests
    BY <1>1, <2>1, BeginRequests
  <2>2. CASE End(d)
    BY <1>1, <2>2, EndRequests
  <2>3. ASSUME NEW at \in Steps \ {"idle", "register", "push"}, pc[d] # "idle",
               pc' = [pc EXCEPT ![d] = at], job' = job
        PROVE  Requests
    BY <1>1, <2>3, MoveRequests
  <2> QED BY <2>1, <2>2, <2>3
<1> QED BY <1>2, ThinnedSame, ThinnedKeeps

LEMMA UsageKeepsTokens ==
  ASSUME TokensInv, UNCHANGED <<users, session>>, NEW d \in Devices, UsageStep(d) PROVE TokensInv'
<1>1. CASE InsertDownload(d)
  BY <1>1, OthersKeep DEF InsertDownload, Steps
<1>2. CASE CountVersion(d)
  BY <1>2, OthersKeep DEF CountVersion, Steps
<1>3. CASE InsertView(d)
  BY <1>3, OthersKeep DEF InsertView, Steps
<1>4. CASE CountApp(d) \/ CountView(d)
  BY <1>4, OthersKeep DEF CountApp, CountView
<1> QED BY <1>1, <1>2, <1>3, <1>4 DEF UsageStep

LEMMA TokensInit == StoreInit => TokensInv
<1> SUFFICES ASSUME StoreInit PROVE TokensInv
  OBVIOUS
<1>1. /\ session = [d \in Devices |-> 0] /\ pc = [d \in Devices |-> "idle"] /\ job = [d \in Devices |-> NoJob]
  BY DEF StoreInit, ClientsInit
<1>2. \/ users = <<>>
      \/ \E x \in Account : users = <<x>> /\ x.tokens = <<>>
  <2>1. ASSUME NEW e \in app.testers, NEW v \in Versions, users = <<InstalledBy(e, v)>>
        PROVE  \E x \in Account : users = <<x>> /\ x.tokens = <<>>
    <3>1. e \in Emails
      BY DEF StoreInit, CatalogTypeOK
    <3> QED BY <2>1, <3>1, NewAccounts
  <2> QED BY <2>1 DEF StoreInit, ClientsInit
<1>3. /\ users \in Seq(Account) /\ Len(users) \in Nat /\ DOMAIN users = 1..Len(users)
      /\ \A u \in DOMAIN users : users[u].tokens = <<>>
  <2>1. CASE users = <<>>
    BY <2>1, EmptySeq, LenProperties
  <2>2. CASE users # <<>>
    <3>1. PICK x \in Account : users = <<x>> /\ x.tokens = <<>>
      BY <1>2, <2>2
    <3>2. users = [i \in 1..1 |-> x] /\ 1 \in Nat
      BY <3>1
    <3>3. users \in [1..1 -> Account] /\ IsList(users, 1)
      BY <3>2 DEF IsList
    <3> QED BY <3>1, <3>2, <3>3, SeqDef, ListLength
  <2> QED BY <2>1, <2>2
<1>4. Len(<<>>) = 0 /\ DOMAIN <<>> = {}
  BY EmptySeq
<1>5. \A d \in Devices : Carries(d)
  BY <1>1 DEF Carries
<1>6. \A u \in DOMAIN users : DOMAIN users[u].tokens = {} /\ Len(users[u].tokens) <= MaxTokens
  BY <1>3, <1>4, ClientsAssumption
<1>7. Alone
  BY <1>6 DEF Alone
<1>8. session \in [Devices -> 0..Len(users)]
  BY <1>1, <1>3
<1> QED BY <1>1, <1>3, <1>5, <1>6, <1>7, <1>8 DEF TokensInv, Steps

LEMMA TokensNext == TokensInv /\ [StoreNext]_storeVars => TokensInv'
<1> SUFFICES ASSUME TokensInv, [StoreNext]_storeVars PROVE TokensInv'
  OBVIOUS
<1>1. ASSUME NEW d \in Devices, ClientStep(d) PROVE TokensInv'
  BY <1>1, ClientKeeps
<1>2. ASSUME NEW d \in Devices, NEW v \in Versions \cup {NoVersion}, PutLibrary(d, v) PROVE TokensInv'
  BY <1>2, LibraryKeeps
<1>3. ASSUME UNCHANGED clientVars PROVE TokensInv'
  BY <1>3, SessionKeeps DEF clientVars, TokensInv
<1>4. ASSUME NEW d \in Devices, ReadCatalog(d) PROVE TokensInv'
  BY <1>3, <1>4 DEF ReadCatalog
<1>5. ASSUME NEW d \in Devices, NEW v \in Versions, Download(d, v) PROVE TokensInv'
  <2>1. [version |-> v, beta |-> Beta(v)] \in Jobs
    BY DEF Jobs, Beta
  <2> QED BY <1>5, <2>1, OthersKeep DEF Download, Steps
<1>6. ASSUME NEW d \in Devices, DownloadApp(d) PROVE TokensInv'
  BY <1>6, OthersKeep DEF DownloadApp, Steps
<1>7. ASSUME NEW d \in Devices, NEW source \in {"app", "web"}, View(d, source) PROVE TokensInv'
  <2> DEFINE who == Visitor(d, source)
  <2>1. who \in {"user", "device", "ip"} \X (Devices \cup Nat)
    <3>1. session[d] \in Nat
      BY LenProperties DEF TokensInv
    <3> QED BY <3>1 DEF Visitor
  <2>2. Begin(d, "view", [visitor |-> who]) /\ UNCHANGED <<users, session>>
    BY <1>7 DEF View
  <2> HIDE DEF who
  <2>3. [visitor |-> who] \in Jobs
    BY <2>1 DEF Jobs
  <2> QED BY <2>2, <2>3, OthersKeep DEF Steps
<1>8. ASSUME NEW d \in Devices, UsageStep(d), UNCHANGED <<users, session>> PROVE TokensInv'
  BY <1>8, UsageKeepsTokens
<1>9. ASSUME NEW d \in Devices, RequestFails(d) PROVE TokensInv'
  BY <1>9, OthersKeep DEF RequestFails
<1>10. ASSUME NEW u \in DOMAIN users, NEW d \in Devices, RefuseToken(u, d) PROVE TokensInv'
  BY <1>10, OnePulled DEF RefuseToken
<1>11. CASE Tick \/ UNCHANGED storeVars
  BY <1>3, <1>11 DEF Tick, storeVars
<1> QED
  BY <1>1, <1>2, <1>3, <1>4, <1>5, <1>6, <1>7, <1>8, <1>9, <1>10, <1>11 DEF StoreNext

\* The rest of the types: what bounds the runs.
HistoryInv == steps \in Nat

LEMMA HistoryInit == StoreInit => HistoryInv
BY DEF StoreInit, HistoryInv

LEMMA HistoryNext == HistoryInv /\ [StoreNext]_storeVars => HistoryInv'
<1> SUFFICES ASSUME HistoryInv, [StoreNext]_storeVars PROVE HistoryInv'
  OBVIOUS
<1>1. steps' \in {steps, steps + 1}
  BY DEF StoreNext, Counted, storeVars
<1> QED BY <1>1 DEF HistoryInv

\* Each device has its token once, hence one holder at most.
LEMMA HeldOnce ==
  ASSUME TokensInv, NEW d \in Devices PROVE Cardinality(Holders(d)) <= 1
<1>1. CASE Holders(d) = {}
  BY <1>1, FS_EmptySet
<1>2. CASE Holders(d) # {}
  <2>1. PICK h \in Holders(d) : TRUE
    BY <1>2
  <2>2. ASSUME NEW x \in Holders(d)
        PROVE  /\ x = <<x[1], x[2]>> /\ x[1] \in DOMAIN users
               /\ x[2] \in DOMAIN users[x[1]].tokens /\ users[x[1]].tokens[x[2]] = d
    <3>1. /\ x \in (DOMAIN users) \X (1..MaxTokens)
          /\ x[2] <= Len(users[x[1]].tokens) /\ users[x[1]].tokens[x[2]] = d
      BY <2>2 DEF Holders
    <3>2. x = <<x[1], x[2]>> /\ x[1] \in DOMAIN users /\ x[2] \in 1..MaxTokens /\ MaxTokens \in Nat
      BY <3>1, ClientsAssumption
    <3>3. DOMAIN users[x[1]].tokens = 1..Len(users[x[1]].tokens) /\ Len(users[x[1]].tokens) \in Nat
      BY <3>2, AccountTokens
    <3> QED BY <3>1, <3>2, <3>3
  <2>3. \A x \in Holders(d) : x[1] = h[1] /\ x[2] = h[2]
    BY <2>1, <2>2 DEF TokensInv, Alone
  <2>4. Holders(d) = {h}
    BY <2>1, <2>2, <2>3
  <2>5. Cardinality({h}) = 1
    BY FS_Singleton
  <2> QED BY <2>4, <2>5
<1> QED BY <1>1, <1>2

(***************************************************************************)
(* "A token belongs to one device / account": for any number of devices    *)
(* and accounts, and any number of tokens that an account keeps, however   *)
(* the requests of the devices, the notifications and the ends of          *)
(* requests overlap; and every variable keeps its type.                    *)
(***************************************************************************)
THEOREM TokensStayHeldOnce == StoreSpec => []TokensHeldOnce
<1>1. AccessInv => PerDevice
  BY DEF AccessInv
<1>2. AccessInv /\ UsageInv /\ TokensInv /\ HistoryInv => TokensHeldOnce
  <2> SUFFICES ASSUME AccessInv, UsageInv, TokensInv, HistoryInv PROVE TokensHeldOnce
    OBVIOUS
  <2>1. ClientsTypeOK
    BY DEF ClientsTypeOK, AccessInv, TokensInv, Carries
  <2>2. StoreTypeOK
    BY <2>1 DEF StoreTypeOK, AccessInv, UsageInv, HistoryInv
  <2> QED BY <2>2, HeldOnce DEF TokensHeldOnce, TokensInv
<1> QED BY <1>1, <1>2, AccessInit, AccessNext, UsageInit, UsageNext, TokensInit, TokensNext,
           HistoryInit, HistoryNext, PTL DEF StoreSpec
=============================================================================
