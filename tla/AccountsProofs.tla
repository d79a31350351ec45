---------------------------- MODULE AccountsProofs ----------------------------
(***************************************************************************)
(* Proofs about Accounts, for any number of members, apps, names and       *)
(* requests.  The types hold whatever overlaps; each of the three          *)
(* properties needs that a few pairs of requests do not overlap, named     *)
(* here next to its invariant.  With one slot for requests none can.       *)
(***************************************************************************)
EXTENDS Accounts, TLAPS

StepOk(r) ==
  /\ pc[r] = "write" => job[r].kind # "session"
  /\ pc[r] = "copy" => job[r].kind \in {"suspend", "rename"}
  /\ pc[r] = "accept" => job[r].kind = "join"
  /\ pc[r] = "revoke" => job[r].kind \in {"reset", "member", "suspend", "mfa"}
  /\ pc[r] = "issue" => job[r].kind \in {"session", "verify", "reset", "join"}

RequestsOk ==
  /\ up \in BOOLEAN
  /\ pc \in [Requests -> {"idle", "write", "copy", "accept", "revoke", "issue"}]
  /\ job \in [Requests -> Jobs \cup {NoJob}]
  /\ \A r \in Requests :
       /\ pc[r] = "idle" <=> job[r] = NoJob
       /\ pc[r] = "revoke" => job[r].who # {}
       /\ StepOk(r)

DocumentsOk ==
  /\ account \in Account
  /\ apps \in [Apps -> Copy \cup {NoApp}]
  /\ invited \subseteq Members \ {Owner}
  /\ joined \subseteq Members /\ Owner \in joined
  /\ active \in [Members -> BOOLEAN]
  /\ verified \in [Members -> BOOLEAN]
  /\ mfa \in [Members -> {"off", "on"}]
  /\ challenged \subseteq Members
  /\ links \subseteq Members
  /\ tokens \in [Members -> 0..MaxTokens]
  /\ torn \subseteq {"name", "suspended"}
  /\ unrevoked \subseteq Members
  /\ ownerReset \in BOOLEAN

TypeInv == RequestsOk /\ DocumentsOk

(***************************************************************************)
(* The second factor of the owner: its removal by the owner and the        *)
(* request that makes it mandatory are not decided at once.                *)
(***************************************************************************)
Disabling(r) == /\ Writing(r, "mfa") /\ job[r].member = Owner
                /\ job[r].value = "off" /\ job[r].who = {}

Requiring(r) == Writing(r, "require") /\ job[r].value

OwnerApart == \A q, r \in Requests : ~(Disabling(q) /\ Requiring(r))

OwnerHolds(r) ==
  /\ Requiring(r) => mfa[Owner] = "on" \/ ownerReset
  /\ Disabling(r) => ~account.require2fa

OwnerInv == OwnerProtected /\ \A r \in Requests : OwnerHolds(r)

(***************************************************************************)
(* The copies on the apps: a renaming overlaps no other and no new app, a  *)
(* suspension (or its end) no other and no new app.                        *)
(***************************************************************************)
CopiesApart == \A q, r \in Requests :
  q # r /\ pc[q] # "idle" /\ pc[r] # "idle" =>
    /\ job[q].kind = "rename" => job[r].kind \notin {"rename", "app"}
    /\ job[q].kind = "suspend" => job[r].kind \notin {"suspend", "app"}

Copying(field) == \E r \in Requests : pc[r] = "copy" /\ job[r].field = field

\* What a request has read of the account still holds when it copies it.
CopyHolds(r) ==
  /\ Writing(r, "app") => job[r].value = account.name /\ ~account.suspended
  /\ pc[r] = "copy" => IF job[r].field = "name" THEN job[r].value = account.name
                       ELSE job[r].value = account.suspended

NamesCopied ==
  "name" \in torn \/ Copying("name") \/ \A a \in Created : apps[a].name = account.name

SuspensionCopied ==
  \/ "suspended" \in torn \/ Copying("suspended")
  \/ \A a \in Created : apps[a].suspended = account.suspended

CopiesInv == (\A r \in Requests : CopyHolds(r)) /\ NamesCopied /\ SuspensionCopied

(***************************************************************************)
(* The sessions: a request that lets a member in overlaps no suspension of *)
(* the account, and none that closes the sessions of the same member.      *)
(***************************************************************************)
Opening == {"session", "verify", "reset", "join"}
Closing == {"member", "mfa", "reset"}

SignInsApart == \A q, r \in Requests :
  q # r /\ pc[q] # "idle" /\ pc[r] # "idle" /\ job[r].kind \in Opening =>
    /\ job[q].kind = "suspend" => job[q].who = {}
    /\ job[q].kind \in Closing => job[q].who \cap job[r].who = {}

Revoking(m) ==
  \E r \in Requests : /\ pc[r] \in {"copy", "revoke"} /\ job[r].kind \in {"member", "suspend"}
                      /\ m \in job[r].who

\* What a request has read of the members still holds when it lets one in.
SessionHolds(r) ==
  /\ Writing(r, "suspend") => job[r].who = IF job[r].value THEN joined ELSE {}
  /\ Writing(r, "join") => ~account.suspended
  /\ pc[r] # "idle" /\ job[r].kind = "reset" =>
       ~account.suspended /\ \A m \in job[r].who : active[m]
  /\ pc[r] # "idle" /\ (job[r].kind # "join" \/ pc[r] # "write") => job[r].who \subseteq joined
  /\ pc[r] \in {"accept", "issue"} /\ job[r].kind \in {"session", "join"} =>
       \A m \in job[r].who : m \in unrevoked \/ (active[m] /\ ~account.suspended)
  /\ pc[r] = "issue" /\ job[r].kind = "verify" => \A m \in job[r].who : active[m]

SessionsKept == \A m \in joined \ unrevoked :
  ~active[m] \/ account.suspended => tokens[m] = 0 \/ Revoking(m)

\* Those who have not joined have no session and no way to one.
Outside ==
  /\ \A m \in Members \ joined : active[m] /\ tokens[m] = 0
  /\ challenged \subseteq joined /\ links \subseteq {Owner}
  /\ \A m \in Members \ {Owner} : verified[m]

SessionsInv == (\A r \in Requests : SessionHolds(r)) /\ SessionsKept /\ Outside

-----------------------------------------------------------------------------
(***************************************************************************)
(* The life of a request.                                                  *)
(***************************************************************************)

\* A step of r leaves the other requests where they are.
OthersStay(r) == \A q \in Requests \ {r} : pc'[q] = pc[q] /\ job'[q] = job[q]

LEMMA StartOk ==
  ASSUME RequestsOk, NEW r \in Requests, NEW at \in {"write", "issue"}, NEW j \in Jobs,
         at = "write" => j.kind # "session",
         at = "issue" => j.kind = "session", Start(r, at, j)
  PROVE  RequestsOk' /\ OthersStay(r) /\ pc[r] = "idle" /\ pc'[r] = at /\ job'[r] = j
BY NoneAssumption DEF RequestsOk, StepOk, Start, OthersStay

LEMMA EndOk ==
  ASSUME RequestsOk, NEW r \in Requests, End(r)
  PROVE  RequestsOk' /\ OthersStay(r) /\ pc'[r] = "idle"
BY NoneAssumption DEF RequestsOk, StepOk, End, OthersStay

LEMMA StepGoes ==
  ASSUME RequestsOk, NEW r \in Requests, pc[r] # "idle",
         NEW at \in {"copy", "accept", "revoke", "issue"}, Step(r, at),
         at = "copy" => job[r].kind \in {"suspend", "rename"},
         at = "accept" => job[r].kind = "join",
         at = "revoke" => job[r].kind \in {"reset", "member", "suspend", "mfa"} /\ job[r].who # {},
         at = "issue" => job[r].kind \in {"session", "verify", "reset", "join"}
  PROVE  RequestsOk' /\ OthersStay(r) /\ pc'[r] = at /\ job'[r] = job[r]
BY DEF RequestsOk, StepOk, Step, OthersStay

-----------------------------------------------------------------------------
(***************************************************************************)
(* What a request has decided when it starts.                              *)
(***************************************************************************)
Decided(r) ==
  /\ pc[r] = "idle" /\ RequestsOk' /\ OthersStay(r)
  /\ pc'[r] = "idle" \/ pc'[r] = "write" \/ pc'[r] = "issue"
  /\ pc'[r] = "write" =>
       /\ job'[r].kind = "verify" => job'[r].who \subseteq links
       /\ job'[r].kind \notin {"verify", "join"} => job'[r].who \subseteq joined
       /\ job'[r].kind = "reset" => ~account.suspended /\ \A m \in job'[r].who : active[m]
       /\ job'[r].kind = "suspend" => job'[r].who = IF job'[r].value THEN joined ELSE {}
       /\ job'[r].kind = "require" => (job'[r].value => mfa[Owner] = "on")
       /\ job'[r].kind = "mfa" => (job'[r].value = "off" /\ job'[r].who = {} => ~account.require2fa)
       /\ job'[r].kind = "app" => job'[r].value = account.name /\ ~account.suspended
       /\ job'[r].kind = "join" => ~account.suspended
  /\ pc'[r] = "issue" => job'[r].kind = "session" /\ \E m \in Members :
       /\ job'[r].who = {m}
       /\ \/ m \in joined \cup challenged /\ active[m] /\ ~account.suspended
          \/ tokens[m] > 0

\* Starting changes no document: at most a session or a link is used up, or a
\* code is asked for.
Untouched ==
  /\ UNCHANGED <<account, apps, invited, joined, active, verified, mfa, torn, unrevoked, ownerReset>>
  /\ challenged' \subseteq challenged \cup joined /\ links' \subseteq links
  /\ tokens' \in [Members -> 0..MaxTokens] /\ \A m \in Members : tokens'[m] <= tokens[m]

LEMMA LoginStarts ==
  ASSUME TypeInv, NEW r \in Requests, NEW m \in Members, Login(r, m)
  PROVE  Decided(r) /\ Untouched
<1>0. /\ UNCHANGED <<account, apps, invited, joined, active, verified, mfa, links, tokens,
                     torn, unrevoked, ownerReset>>
      /\ m \in joined /\ active[m] /\ ~account.suspended
  BY DEF Login, memberVars, historyVars
<1>1. tokens \in [Members -> 0..MaxTokens] /\ \A k \in Members : tokens[k] <= tokens[k]
  BY MaxTokensAssumption DEF TypeInv, DocumentsOk
<1>2. CASE mfa[m] = "on"
  <2>1. /\ challenged' = challenged \cup {m} /\ UNCHANGED <<up, pc, job>> /\ pc[r] = "idle"
    BY <1>2 DEF Login, requestVars
  <2>2. Untouched BY <1>0, <1>1, <2>1 DEF Untouched
  <2>3. Decided(r)
    BY <2>1 DEF Decided, OthersStay, TypeInv, RequestsOk, StepOk
  <2>4. QED BY <2>2, <2>3
<1>3. CASE mfa[m] # "on"
  <2> DEFINE j == [kind |-> "session", who |-> {m}]
  <2>1. j \in Jobs /\ j.kind = "session" /\ j.who = {m} BY DEF Jobs
  <2>2. Start(r, "issue", j) /\ UNCHANGED <<challenged, links, tokens>>
    BY <1>0, <1>3 DEF Login
  <2> HIDE DEF j
  <2>3. Decided(r) BY <1>0, <2>1, <2>2, StartOk DEF Decided, TypeInv
  <2>4. QED BY <1>0, <1>1, <2>2, <2>3 DEF Untouched
<1>4. QED BY <1>2, <1>3

\* A request that starts with a read and no write.
LEMMA OtherReadsDecide ==
  ASSUME TypeInv, NEW r \in Requests, NEW j \in Jobs, j.kind # "session", Start(r, "write", j),
         j.kind = "verify" => j.who \subseteq links,
         j.kind \notin {"verify", "join"} => j.who \subseteq joined,
         j.kind = "reset" => ~account.suspended /\ \A m \in j.who : active[m],
         j.kind = "suspend" => j.who = IF j.value THEN joined ELSE {},
         j.kind = "require" => (j.value => mfa[Owner] = "on"),
         j.kind = "mfa" => (j.value = "off" /\ j.who = {} => ~account.require2fa),
         j.kind = "app" => j.value = account.name /\ ~account.suspended,
         j.kind = "join" => ~account.suspended
  PROVE  Decided(r)
BY StartOk DEF Decided, TypeInv

LEMMA ReadsStart ==
  ASSUME TypeInv, NEW r \in Requests, Reads(r)
  PROVE  Decided(r) /\ Untouched
<1>0. /\ Owner \in joined /\ joined \subseteq Members /\ account \in Account
      /\ tokens \in [Members -> 0..MaxTokens] /\ \A k \in Members : tokens[k] <= tokens[k]
  BY MaxTokensAssumption DEF TypeInv, DocumentsOk
<1>1. UNCHANGED <<account, apps, memberVars, signInVars, historyVars>> => Untouched
  BY <1>0 DEF Untouched, memberVars, signInVars, historyVars
<1>2. ASSUME NEW m \in Members, LoginSecondStep(r, m)
      PROVE  Decided(r) /\ Untouched
  <2> DEFINE j == [kind |-> "session", who |-> {m}]
  <2>1. j \in Jobs /\ j.kind = "session" /\ j.who = {m} BY DEF Jobs
  <2>2. Start(r, "issue", j) /\ m \in challenged /\ active[m] /\ ~account.suspended
    BY <1>2 DEF LoginSecondStep
  <2> HIDE DEF j
  <2>3. Decided(r) BY <2>1, <2>2, StartOk DEF Decided, TypeInv
  <2>4. QED BY <1>1, <1>2, <2>3 DEF LoginSecondStep
<1>3. ASSUME NEW m \in Members, Refresh(r, m)
      PROVE  Decided(r) /\ Untouched
  <2> DEFINE j == [kind |-> "session", who |-> {m}]
  <2>1. j \in Jobs /\ j.kind = "session" /\ j.who = {m} BY DEF Jobs
  <2>2. /\ Start(r, "issue", j) /\ tokens[m] > 0 /\ tokens' = [tokens EXCEPT ![m] = tokens[m] - 1]
        /\ UNCHANGED <<account, apps, memberVars, challenged, links, historyVars>>
    BY <1>3 DEF Refresh
  <2>3. tokens' \in [Members -> 0..MaxTokens] /\ \A k \in Members : tokens'[k] <= tokens[k]
    BY <1>0, <2>2, MaxTokensAssumption
  <2> HIDE DEF j
  <2>4. Decided(r) BY <2>1, <2>2, StartOk DEF Decided, TypeInv
  <2>5. QED BY <2>2, <2>3, <2>4 DEF Untouched, memberVars, historyVars
<1>4. ASSUME NEW m \in Members, VerifyEmail(r, m)
      PROVE  Decided(r) /\ Untouched
  <2> DEFINE j == [kind |-> "verify", who |-> {m}]
  <2>1. j \in Jobs /\ j.kind = "verify" /\ j.who = {m} BY DEF Jobs
  <2>2. /\ Start(r, "write", j) /\ links' = links \ {m} /\ m \in links
        /\ UNCHANGED <<account, apps, memberVars, challenged, tokens, historyVars>>
    BY <1>4 DEF VerifyEmail
  <2> HIDE DEF j
  <2>3. Decided(r) BY <2>1, <2>2, OtherReadsDecide
  <2>4. QED BY <1>0, <2>2, <2>3 DEF Untouched, memberVars, historyVars
<1>5. ASSUME NEW m \in Members, ResetPassword(r, m)
      PROVE  Decided(r) /\ Untouched
  <2> DEFINE j == [kind |-> "reset", who |-> {m}]
  <2>1. j \in Jobs /\ j.kind = "reset" /\ j.who = {m}
    BY DEF Jobs
  <2>2. Start(r, "write", j) BY <1>5 DEF ResetPassword
  <2> HIDE DEF j
  <2>4. Decided(r) BY <1>5, <2>1, <2>2, OtherReadsDecide DEF ResetPassword
  <2>5. QED BY <1>1, <1>5, <2>4 DEF ResetPassword
<1>6. ASSUME NEW m \in Members, ResetMemberMfa(r, m)
      PROVE  Decided(r) /\ Untouched
  <2> DEFINE j == [kind |-> "mfa", who |-> {m}, member |-> m, value |-> "off"]
  <2>1. j \in Jobs /\ j.kind = "mfa" /\ j.who = {m}
    BY DEF Jobs
  <2>2. Start(r, "write", j) BY <1>6 DEF ResetMemberMfa
  <2> HIDE DEF j
  <2>4. Decided(r) BY <1>6, <2>1, <2>2, OtherReadsDecide DEF ResetMemberMfa
  <2>5. QED BY <1>1, <1>6, <2>4 DEF ResetMemberMfa
<1>7. ASSUME NEW m \in Members, AcceptInvitation(r, m)
      PROVE  Decided(r) /\ Untouched
  <2> DEFINE j == [kind |-> "join", who |-> {m}]
  <2>1. j \in Jobs /\ j.kind = "join" /\ j.who = {m}
    BY DEF Jobs
  <2>2. Start(r, "write", j) BY <1>7 DEF AcceptInvitation
  <2> HIDE DEF j
  <2>4. Decided(r) BY <1>7, <2>1, <2>2, OtherReadsDecide DEF AcceptInvitation
  <2>5. QED BY <1>1, <1>7, <2>4 DEF AcceptInvitation
<1>8. ASSUME NEW m \in Members, NEW value \in BOOLEAN, UpdateMember(r, m, value)
      PROVE  Decided(r) /\ Untouched
  <2> DEFINE j == [kind |-> "member", who |-> {m}, value |-> value]
  <2>1. j \in Jobs /\ j.kind = "member" /\ j.who = {m}
    BY DEF Jobs
  <2>2. Start(r, "write", j) BY <1>8 DEF UpdateMember
  <2> HIDE DEF j
  <2>4. Decided(r) BY <1>8, <2>1, <2>2, OtherReadsDecide DEF UpdateMember
  <2>5. QED BY <1>1, <1>8, <2>4 DEF UpdateMember
<1>9. ASSUME NEW m \in Members, NEW value \in {"off", "on"}, ChangeMfa(r, m, value)
      PROVE  Decided(r) /\ Untouched
  <2> DEFINE j == [kind |-> "mfa", who |-> {}, member |-> m, value |-> value]
  <2>1. j \in Jobs /\ j.kind = "mfa" /\ j.who = {} /\ j.value = value
    BY DEF Jobs
  <2>2. Start(r, "write", j) BY <1>9 DEF ChangeMfa
  <2>3. value = "off" => ~account.require2fa BY <1>9 DEF ChangeMfa
  <2> HIDE DEF j
  <2>4. Decided(r) BY <1>9, <2>1, <2>2, <2>3, OtherReadsDecide DEF ChangeMfa
  <2>5. QED BY <1>1, <1>9, <2>4 DEF ChangeMfa
<1>10. ASSUME NEW value \in BOOLEAN, SuspendAccount(r, value)
      PROVE  Decided(r) /\ Untouched
  <2> DEFINE j == [kind |-> "suspend", field |-> "suspended", value |-> value,
                   who |-> IF value THEN joined ELSE {}]
  <2>1. j \in Jobs /\ j.kind = "suspend" /\ j.who = (IF j.value THEN joined ELSE {})
        /\ j.who \subseteq joined
    BY <1>0 DEF Jobs
  <2>2. Start(r, "write", j) BY <1>10 DEF SuspendAccount
  <2> HIDE DEF j
  <2>4. Decided(r) BY <1>10, <2>1, <2>2, OtherReadsDecide DEF SuspendAccount
  <2>5. QED BY <1>1, <1>10, <2>4 DEF SuspendAccount
<1>11. ASSUME NEW value \in BOOLEAN, RequireMfa(r, value)
      PROVE  Decided(r) /\ Untouched
  <2> DEFINE j == [kind |-> "require", value |-> value, who |-> {}]
  <2>1. j \in Jobs /\ j.kind = "require" /\ j.who = {} /\ j.value = value
    BY DEF Jobs
  <2>2. Start(r, "write", j) BY <1>11 DEF RequireMfa
  <2>3. value => mfa[Owner] = "on" BY <1>11 DEF RequireMfa
  <2> HIDE DEF j
  <2>4. Decided(r) BY <1>11, <2>1, <2>2, <2>3, OtherReadsDecide DEF RequireMfa
  <2>5. QED BY <1>1, <1>11, <2>4 DEF RequireMfa
<1>12. ASSUME NEW n \in Names, RenameAccount(r, n)
      PROVE  Decided(r) /\ Untouched
  <2> DEFINE j == [kind |-> "rename", field |-> "name", value |-> n, who |-> {}]
  <2>1. j \in Jobs /\ j.kind = "rename" /\ j.who = {}
    BY DEF Jobs
  <2>2. Start(r, "write", j) BY <1>12 DEF RenameAccount
  <2> HIDE DEF j
  <2>4. Decided(r) BY <1>12, <2>1, <2>2, OtherReadsDecide DEF RenameAccount
  <2>5. QED BY <1>1, <1>12, <2>4 DEF RenameAccount
<1>13. ASSUME NEW a \in Apps, CreateApp(r, a)
      PROVE  Decided(r) /\ Untouched
  <2> DEFINE j == [kind |-> "app", who |-> {}, app |-> a, value |-> account.name]
  <2>1. j \in Jobs /\ j.kind = "app" /\ j.who = {} /\ j.value = account.name
    BY <1>0 DEF Jobs, Account
  <2>2. Start(r, "write", j) BY <1>13 DEF CreateApp
  <2>3. ~account.suspended BY <1>13 DEF CreateApp, KeyMayAct, MayAct
  <2> HIDE DEF j
  <2>4. Decided(r) BY <1>13, <2>1, <2>2, <2>3, OtherReadsDecide DEF CreateApp
  <2>5. QED BY <1>1, <1>13, <2>4 DEF CreateApp
<1>14. QED
  BY <1>2, <1>3, <1>4, <1>5, <1>6, <1>7, <1>8, <1>9, <1>10, <1>11, <1>12, <1>13, LoginStarts
  DEF Reads

-----------------------------------------------------------------------------
(***************************************************************************)
(* The types, whatever overlaps.                                           *)
(***************************************************************************)

\* The step of a request at work: it has written, and may go on with the same job.
GoesOn(r) ==
  /\ pc[r] # "idle" /\ RequestsOk' /\ OthersStay(r)
  /\ pc'[r] \in {"idle", "copy", "accept", "revoke", "issue"}
  /\ pc'[r] # "idle" =>
       /\ job'[r].kind = job[r].kind /\ job'[r].who \subseteq job[r].who
       /\ pc[r] # "revoke" => job'[r] = job[r]

LEMMA Busy ==
  ASSUME TypeInv, NEW r \in Requests, pc[r] # "idle"
  PROVE  RequestsOk /\ DocumentsOk /\ StepOk(r) /\ job[r] \in Jobs
BY DEF TypeInv, RequestsOk

LEMMA EndGoes ==
  ASSUME TypeInv, NEW r \in Requests, pc[r] # "idle", End(r)
  PROVE  GoesOn(r) /\ pc'[r] = "idle"
BY EndOk, Busy DEF GoesOn

\* Either the request goes on with the others, or it is done with m.
LEMMA RevokeGoes ==
  ASSUME TypeInv, NEW r \in Requests, NEW m \in Members, Revoke(r, m)
  PROVE  /\ GoesOn(r)
         /\ pc'[r] = "issue" => job[r].kind = "reset" /\ job'[r] = job[r]
         /\ pc'[r] # "idle" /\ job[r].kind # "reset" =>
              pc'[r] = "revoke" /\ job'[r].who = job[r].who \ {m}
         /\ pc'[r] = "idle" => job[r].kind = "reset" \/ job[r].who = {m}
         /\ challenged' = challenged \/ (job[r].kind = "reset" /\ challenged' = challenged \cup {m})
<1>0. pc[r] = "revoke" /\ m \in job[r].who
  BY DEF Revoke
<1>1. /\ job[r] \in Jobs /\ RequestsOk /\ job[r].kind \in {"reset", "member", "suspend", "mfa"}
  BY <1>0, Busy DEF StepOk
<1>2. CASE job[r].kind = "reset" /\ mfa[m] # "on"
  <2>1. Step(r, "issue") /\ challenged' = challenged BY <1>2 DEF Revoke
  <2>2. RequestsOk' /\ OthersStay(r) /\ pc'[r] = "issue" /\ job'[r] = job[r]
    BY <1>0, <1>1, <1>2, <2>1, StepGoes
  <2>3. QED BY <1>0, <1>2, <2>1, <2>2 DEF GoesOn
<1>3. CASE job[r].kind = "reset" /\ mfa[m] = "on"
  <2>1. End(r) /\ challenged' = challenged \cup {m} BY <1>3 DEF Revoke
  <2>2. QED BY <1>0, <1>3, <2>1, EndGoes
<1>4. CASE job[r].kind # "reset"
  <2>1. /\ challenged' = challenged
        /\ IF job[r].who = {m} THEN End(r)
           ELSE job' = [job EXCEPT ![r].who = @ \ {m}] /\ UNCHANGED <<up, pc>>
    BY <1>4 DEF Revoke
  <2>2. CASE job[r].who = {m} BY <1>0, <1>4, <2>1, <2>2, EndGoes
  <2>3. CASE job[r].who # {m}
    <3>1. job' = [job EXCEPT ![r].who = @ \ {m}] /\ UNCHANGED <<up, pc>>
      BY <2>1, <2>3
    <3>2. job'[r] = [job[r] EXCEPT !.who = job[r].who \ {m}]
      BY <1>1, <3>1 DEF RequestsOk
    <3>3. /\ job'[r] \in Jobs /\ job'[r].who # {} /\ job'[r].kind = job[r].kind
          /\ job'[r].who = job[r].who \ {m}
      BY <1>0, <1>1, <1>4, <2>3, <3>2 DEF Jobs
    <3>4. \A q \in Requests \ {r} : pc'[q] = pc[q] /\ job'[q] = job[q]
      BY <1>1, <3>1 DEF RequestsOk
    <3>5. job' \in [Requests -> Jobs \cup {NoJob}]
      BY <1>1, <3>1, <3>3, <3>4 DEF RequestsOk
    <3>6. ASSUME NEW q \in Requests
          PROVE  /\ pc'[q] = "idle" <=> job'[q] = NoJob
                 /\ pc'[q] = "revoke" => job'[q].who # {}
                 /\ StepOk(q)'
      BY <1>0, <1>1, <3>1, <3>3, <3>4, NoneAssumption DEF RequestsOk, StepOk
    <3>7. RequestsOk' BY <1>1, <3>1, <3>5, <3>6 DEF RequestsOk
    <3>8. pc'[r] = "revoke" BY <1>0, <3>1
    <3>9. GoesOn(r) BY <1>0, <3>3, <3>4, <3>7, <3>8 DEF GoesOn, OthersStay
    <3>10. QED BY <1>4, <2>1, <3>3, <3>8, <3>9
  <2>4. QED BY <2>2, <2>3
<1>5. QED BY <1>2, <1>3, <1>4

LEMMA WriteAccountGoes ==
  ASSUME TypeInv, NEW r \in Requests, WriteAccount(r)
  PROVE  /\ GoesOn(r) /\ job[r] \in Jobs /\ pc[r] = "write"
         /\ \/ job[r].kind = "require" /\ pc'[r] = "idle"
            \/ job[r].kind \in {"suspend", "rename"} /\ pc'[r] = "copy"
         /\ account' \in Account
         /\ account'.name = IF job[r].kind = "rename" THEN job[r].value ELSE account.name
         /\ account'.suspended = IF job[r].kind = "suspend" THEN job[r].value ELSE account.suspended
         /\ account'.require2fa = IF job[r].kind = "require" THEN job[r].value
                                  ELSE account.require2fa
         /\ UNCHANGED <<apps, invited, joined, active, verified, mfa, challenged, links, tokens,
                        torn, unrevoked, ownerReset>>
<1>1. /\ pc[r] = "write" /\ job[r].kind \in {"suspend", "rename", "require"}
      /\ account' = CASE job[r].kind = "suspend" -> [account EXCEPT !.suspended = job[r].value]
                      [] job[r].kind = "rename"  -> [account EXCEPT !.name = job[r].value]
                      [] job[r].kind = "require" -> [account EXCEPT !.require2fa = job[r].value]
      /\ IF job[r].kind = "require" THEN End(r) ELSE Step(r, "copy")
      /\ UNCHANGED <<apps, invited, joined, active, verified, mfa, challenged, links, tokens,
                     torn, unrevoked, ownerReset>>
  BY DEF WriteAccount, AccountWrite, Writing, memberVars, signInVars, historyVars
<1>2. account \in Account /\ job[r] \in Jobs /\ RequestsOk
  BY <1>1, Busy DEF DocumentsOk
<1>3. CASE job[r].kind = "require"
  <2>1. GoesOn(r) /\ pc'[r] = "idle" BY <1>1, <1>3, EndGoes
  <2>2. account' = [account EXCEPT !.require2fa = job[r].value] /\ job[r].value \in BOOLEAN
    BY <1>1, <1>2, <1>3 DEF Jobs
  <2>3. QED BY <1>1, <1>2, <1>3, <2>1, <2>2 DEF Account
<1>4. CASE job[r].kind \in {"suspend", "rename"}
  <2>1. RequestsOk' /\ OthersStay(r) /\ pc'[r] = "copy" /\ job'[r] = job[r]
    BY <1>1, <1>2, <1>4, StepGoes
  <2>2. GoesOn(r) BY <1>1, <2>1 DEF GoesOn
  <2>3. CASE job[r].kind = "suspend"
    <3>1. account' = [account EXCEPT !.suspended = job[r].value] /\ job[r].value \in BOOLEAN
      BY <1>1, <1>2, <2>3 DEF Jobs
    <3>2. QED BY <1>1, <1>2, <2>1, <2>2, <2>3, <3>1 DEF Account
  <2>4. CASE job[r].kind = "rename"
    <3>1. account' = [account EXCEPT !.name = job[r].value] /\ job[r].value \in Names
      BY <1>1, <1>2, <2>4 DEF Jobs
    <3>2. QED BY <1>1, <1>2, <2>1, <2>2, <2>4, <3>1 DEF Account
  <2>5. QED BY <1>4, <2>3, <2>4
<1>5. QED BY <1>1, <1>3, <1>4

LEMMA CopyToAppsGoes ==
  ASSUME TypeInv, NEW r \in Requests, CopyToApps(r)
  PROVE  /\ GoesOn(r) /\ job[r] \in Jobs /\ pc[r] = "copy"
         /\ IF job[r].who = {} THEN pc'[r] = "idle" ELSE pc'[r] = "revoke"
         /\ \/ job[r].kind = "rename" /\ job[r].field = "name" /\ job[r].value \in Names
               /\ job[r].who = {}
            \/ job[r].kind = "suspend" /\ job[r].field = "suspended" /\ job[r].value \in BOOLEAN
         /\ torn' = torn \ {job[r].field}
         /\ UNCHANGED <<account, invited, joined, active, verified, mfa, challenged, links, tokens,
                        unrevoked, ownerReset>>
         \* Every app keeps its copy, with the field written.
         /\ apps' \in [Apps -> Copy \cup {NoApp}] /\ Created' = Created
         /\ \A a \in Created :
              IF job[r].field = "name"
              THEN apps'[a].name = job[r].value /\ apps'[a].suspended = apps[a].suspended
              ELSE apps'[a].suspended = job[r].value /\ apps'[a].name = apps[a].name
<1>1. /\ pc[r] = "copy"
      /\ apps' = [a \in Apps |->
                    IF a \notin Created THEN NoApp
                    ELSE IF job[r].field = "name" THEN [apps[a] EXCEPT !.name = job[r].value]
                    ELSE [apps[a] EXCEPT !.suspended = job[r].value]]
      /\ torn' = torn \ {job[r].field}
      /\ IF job[r].who = {} THEN End(r) ELSE Step(r, "revoke")
      /\ UNCHANGED <<account, invited, joined, active, verified, mfa, challenged, links, tokens,
                     unrevoked, ownerReset>>
  BY DEF CopyToApps, memberVars, signInVars
<1>2. /\ job[r] \in Jobs /\ RequestsOk /\ DocumentsOk
      /\ \/ job[r].kind = "rename" /\ job[r].field = "name" /\ job[r].value \in Names
            /\ job[r].who = {}
         \/ job[r].kind = "suspend" /\ job[r].field = "suspended" /\ job[r].value \in BOOLEAN
  BY <1>1, Busy DEF StepOk, Jobs
<1>3. GoesOn(r) /\ IF job[r].who = {} THEN pc'[r] = "idle" ELSE pc'[r] = "revoke"
  <2>1. CASE job[r].who = {} BY <1>1, <2>1, EndGoes
  <2>2. CASE job[r].who # {}
    <3>1. RequestsOk' /\ OthersStay(r) /\ pc'[r] = "revoke" /\ job'[r] = job[r]
      BY <1>1, <1>2, <2>2, StepGoes
    <3>2. QED BY <1>1, <2>2, <3>1 DEF GoesOn
  <2>3. QED BY <2>1, <2>2
<1>4. \A a \in Apps : apps[a] \in Copy \cup {NoApp} /\ (a \in Created => apps[a] \in Copy)
  BY <1>2 DEF DocumentsOk, Created
<1>5. \A a \in Apps : IF a \notin Created THEN apps'[a] = NoApp
                      ELSE /\ apps'[a] \in Copy
                           /\ IF job[r].field = "name"
                              THEN /\ apps'[a].name = job[r].value
                                   /\ apps'[a].suspended = apps[a].suspended
                              ELSE /\ apps'[a].suspended = job[r].value
                                   /\ apps'[a].name = apps[a].name
  BY <1>1, <1>2, <1>4 DEF Copy
<1>6. apps' \in [Apps -> Copy \cup {NoApp}] BY <1>1, <1>5
<1>7. Created' = Created BY <1>5, NoneAssumption DEF Created
<1>8. Created \subseteq Apps BY DEF Created
<1>9. QED BY <1>1, <1>2, <1>3, <1>5, <1>6, <1>7, <1>8

LEMMA WriteMemberGoes ==
  ASSUME TypeInv, NEW r \in Requests, WriteMember(r)
  PROVE  /\ GoesOn(r) /\ pc[r] = "write" /\ job[r].kind = "member" /\ job[r].value \in BOOLEAN
         /\ IF job[r].value THEN pc'[r] = "idle" ELSE pc'[r] = "revoke"
         /\ \E m \in job[r].who : m \in Members /\ active' = [active EXCEPT ![m] = job[r].value]
         /\ UNCHANGED <<account, apps, invited, joined, verified, mfa, challenged, links, tokens,
                        torn, unrevoked, ownerReset>>
<1>1. /\ pc[r] = "write" /\ job[r].kind = "member"
      /\ IF job[r].value THEN End(r) ELSE Step(r, "revoke")
      /\ UNCHANGED <<account, apps, invited, joined, verified, mfa, challenged, links, tokens,
                     torn, unrevoked, ownerReset>>
  BY DEF WriteMember, Writing, signInVars, historyVars
<1>2. PICK m \in job[r].who : active' = [active EXCEPT ![m] = job[r].value]
  BY DEF WriteMember
<1>3. job[r].value \in BOOLEAN /\ job[r].who \subseteq Members /\ RequestsOk
  BY <1>1, Busy DEF Jobs
<1>4. GoesOn(r) /\ IF job[r].value THEN pc'[r] = "idle" ELSE pc'[r] = "revoke"
  <2>1. CASE job[r].value BY <1>1, <2>1, EndGoes
  <2>2. CASE ~job[r].value
    <3>1. RequestsOk' /\ OthersStay(r) /\ pc'[r] = "revoke" /\ job'[r] = job[r]
      BY <1>1, <1>2, <1>3, <2>2, StepGoes
    <3>2. QED BY <1>1, <2>2, <3>1 DEF GoesOn
  <2>3. QED BY <2>1, <2>2
<1>5. QED BY <1>1, <1>2, <1>3, <1>4

LEMMA WriteMfaGoes ==
  ASSUME TypeInv, NEW r \in Requests, WriteMfa(r)
  PROVE  /\ GoesOn(r) /\ pc[r] = "write" /\ job[r].kind = "mfa"
         /\ job[r].member \in Members /\ job[r].value \in {"off", "on"}
         /\ pc'[r] \in {"idle", "revoke"}
         /\ mfa' = [mfa EXCEPT ![job[r].member] = job[r].value]
         /\ ownerReset' = IF job[r].member # Owner THEN ownerReset
                          ELSE job[r].value # "on" /\ (ownerReset \/ job[r].who # {})
         /\ UNCHANGED <<account, apps, invited, joined, active, verified, challenged, links, tokens,
                        torn, unrevoked>>
<1>1. /\ pc[r] = "write" /\ job[r].kind = "mfa"
      /\ mfa' = [mfa EXCEPT ![job[r].member] = job[r].value]
      /\ ownerReset' = IF job[r].member # Owner THEN ownerReset
                       ELSE job[r].value # "on" /\ (ownerReset \/ job[r].who # {})
      /\ IF job[r].who = {} THEN End(r) ELSE Step(r, "revoke")
      /\ UNCHANGED <<account, apps, invited, joined, active, verified, challenged, links, tokens,
                     torn, unrevoked>>
  BY DEF WriteMfa, Writing, signInVars
<1>2. job[r].member \in Members /\ job[r].value \in {"off", "on"} /\ RequestsOk
  BY <1>1, Busy DEF Jobs
<1>3. GoesOn(r) /\ pc'[r] \in {"idle", "revoke"}
  <2>1. CASE job[r].who = {} BY <1>1, <2>1, EndGoes
  <2>2. CASE job[r].who # {}
    <3>1. RequestsOk' /\ OthersStay(r) /\ pc'[r] = "revoke" /\ job'[r] = job[r]
      BY <1>1, <1>2, <2>2, StepGoes
    <3>2. QED BY <1>1, <3>1 DEF GoesOn
  <2>3. QED BY <2>1, <2>2
<1>4. QED BY <1>1, <1>2, <1>3

LEMMA InsertAppGoes ==
  ASSUME TypeInv, NEW r \in Requests, InsertApp(r)
  PROVE  /\ GoesOn(r) /\ pc'[r] = "idle" /\ Writing(r, "app")
         /\ job[r].app \in Apps \ Created /\ job[r].value \in Names
         /\ apps' = [apps EXCEPT ![job[r].app] = [name |-> job[r].value, suspended |-> FALSE]]
         /\ UNCHANGED <<account, invited, joined, active, verified, mfa, challenged, links, tokens,
                        torn, unrevoked, ownerReset>>
<1>1. /\ pc[r] = "write" /\ job[r].kind = "app" /\ apps[job[r].app] = NoApp /\ End(r)
      /\ apps' = [apps EXCEPT ![job[r].app] = [name |-> job[r].value, suspended |-> FALSE]]
      /\ UNCHANGED <<account, invited, joined, active, verified, mfa, challenged, links, tokens,
                     torn, unrevoked, ownerReset>>
  BY DEF InsertApp, Writing, memberVars, signInVars, historyVars
<1>2. job[r].app \in Apps /\ job[r].value \in Names BY <1>1, Busy DEF Jobs
<1>3. QED BY <1>1, <1>2, EndGoes DEF Writing, Created

LEMMA VerifyWriteGoes ==
  ASSUME TypeInv, NEW r \in Requests, NEW m \in Members, VerifyWrite(r, m)
  PROVE  /\ GoesOn(r) /\ pc[r] = "write" /\ job[r].kind = "verify" /\ job[r].who = {m}
         /\ pc'[r] = "idle" \/ (pc'[r] = "issue" /\ active[m])
         /\ verified' = [verified EXCEPT ![m] = TRUE]
         /\ UNCHANGED <<account, apps, invited, joined, active, mfa, challenged, links, tokens,
                        torn, unrevoked, ownerReset>>
<1>1. /\ pc[r] = "write" /\ job[r].kind = "verify" /\ job[r].who = {m}
      /\ verified' = [verified EXCEPT ![m] = TRUE]
      /\ IF active[m] THEN Step(r, "issue") ELSE End(r)
      /\ UNCHANGED <<account, apps, invited, joined, active, mfa, challenged, links, tokens,
                     torn, unrevoked, ownerReset>>
  BY DEF VerifyWrite, signInVars, historyVars
<1>2. CASE ~active[m] BY <1>1, <1>2, EndGoes
<1>3. CASE active[m]
  <2>1. RequestsOk' /\ OthersStay(r) /\ pc'[r] = "issue" /\ job'[r] = job[r]
    BY <1>1, <1>3, Busy, StepGoes
  <2>2. QED BY <1>1, <1>3, <2>1 DEF GoesOn
<1>4. QED BY <1>2, <1>3

LEMMA ResetWriteGoes ==
  ASSUME TypeInv, NEW r \in Requests, NEW m \in Members, ResetWrite(r, m)
  PROVE  /\ GoesOn(r) /\ pc[r] = "write" /\ job[r].kind = "reset" /\ pc'[r] = "revoke"
         /\ verified' = [verified EXCEPT ![m] = TRUE]
         /\ UNCHANGED <<account, apps, invited, joined, active, mfa, challenged, links, tokens,
                        torn, unrevoked, ownerReset>>
<1>1. /\ pc[r] = "write" /\ job[r].kind = "reset" /\ job[r].who = {m}
      /\ verified' = [verified EXCEPT ![m] = TRUE] /\ Step(r, "revoke")
      /\ UNCHANGED <<account, apps, invited, joined, active, mfa, challenged, links, tokens,
                     torn, unrevoked, ownerReset>>
  BY DEF ResetWrite, signInVars, historyVars
<1>2. RequestsOk' /\ OthersStay(r) /\ pc'[r] = "revoke" /\ job'[r] = job[r]
  BY <1>1, Busy, StepGoes
<1>3. QED BY <1>1, <1>2 DEF GoesOn

LEMMA IssueGoes ==
  ASSUME TypeInv, NEW r \in Requests, NEW m \in Members, Issue(r, m)
  PROVE  /\ GoesOn(r) /\ pc[r] = "issue" /\ job[r].who = {m} /\ pc'[r] = "idle"
         /\ job[r].kind \in Opening
         /\ tokens' = [tokens EXCEPT ![m] = tokens[m] + 1] /\ tokens' \in [Members -> 0..MaxTokens]
         /\ unrevoked' = IF job[r].kind = "verify" /\ account.suspended
                         THEN unrevoked \cup {m} ELSE unrevoked
         /\ UNCHANGED <<account, apps, invited, joined, active, verified, mfa, challenged, links,
                        torn, ownerReset>>
<1>1. /\ pc[r] = "issue" /\ job[r].who = {m} /\ tokens[m] < MaxTokens /\ End(r)
      /\ tokens' = [tokens EXCEPT ![m] = tokens[m] + 1]
      /\ unrevoked' = IF job[r].kind = "verify" /\ account.suspended
                      THEN unrevoked \cup {m} ELSE unrevoked
      /\ UNCHANGED <<account, apps, invited, joined, active, verified, mfa, challenged, links,
                     torn, ownerReset>>
  BY DEF Issue, memberVars
<1>2. tokens' \in [Members -> 0..MaxTokens]
  BY <1>1, Busy, MaxTokensAssumption DEF DocumentsOk
<1>3. QED BY <1>1, <1>2, Busy, EndGoes DEF StepOk, Opening

LEMMA JoinGoes ==
  ASSUME TypeInv, NEW r \in Requests, NEW m \in Members, Join(r, m)
  PROVE  /\ GoesOn(r) /\ pc[r] = "write" /\ job[r].kind = "join" /\ job[r].who = {m}
         /\ pc'[r] = "idle" \/ (pc'[r] = "accept" /\ m \notin joined)
         /\ joined' = joined \cup {m}
         /\ UNCHANGED <<account, apps, invited, active, verified, mfa, challenged, links, tokens,
                        torn, unrevoked, ownerReset>>
<1>1. /\ pc[r] = "write" /\ job[r].kind = "join" /\ job[r].who = {m} /\ joined' = joined \cup {m}
      /\ IF m \in joined THEN End(r) ELSE Step(r, "accept")
      /\ UNCHANGED <<account, apps, invited, active, verified, mfa, challenged, links, tokens,
                     torn, unrevoked, ownerReset>>
  BY DEF Join, signInVars, historyVars
<1>2. CASE m \in joined BY <1>1, <1>2, EndGoes
<1>3. CASE m \notin joined
  <2>1. RequestsOk' /\ OthersStay(r) /\ pc'[r] = "accept" /\ job'[r] = job[r]
    BY <1>1, <1>3, Busy, StepGoes
  <2>2. QED BY <1>1, <1>3, <2>1 DEF GoesOn
<1>4. QED BY <1>2, <1>3

LEMMA CloseInvitationGoes ==
  ASSUME TypeInv, NEW r \in Requests, NEW m \in Members, CloseInvitation(r, m)
  PROVE  /\ GoesOn(r) /\ pc[r] = "accept" /\ job[r].kind = "join" /\ pc'[r] = "issue"
         /\ invited' = invited \ {m}
         /\ UNCHANGED <<account, apps, joined, active, verified, mfa, challenged, links, tokens,
                        torn, unrevoked, ownerReset>>
<1>1. /\ pc[r] = "accept" /\ job[r].who = {m} /\ Step(r, "issue") /\ invited' = invited \ {m}
      /\ UNCHANGED <<account, apps, joined, active, verified, mfa, challenged, links, tokens,
                     torn, unrevoked, ownerReset>>
  BY DEF CloseInvitation, signInVars, historyVars
<1>2. job[r].kind = "join" BY <1>1, Busy DEF StepOk
<1>3. RequestsOk' /\ OthersStay(r) /\ pc'[r] = "issue" /\ job'[r] = job[r]
  BY <1>1, <1>2, Busy, StepGoes
<1>4. QED BY <1>1, <1>2, <1>3 DEF GoesOn

LEMMA RevokeWrites ==
  ASSUME TypeInv, NEW r \in Requests, NEW m \in Members, Revoke(r, m)
  PROVE  /\ pc[r] = "revoke" /\ m \in job[r].who
         /\ job[r].kind \in {"reset", "member", "suspend", "mfa"}
         /\ tokens' = [tokens EXCEPT ![m] = 0] /\ unrevoked' = unrevoked \ {m}
         /\ tokens' \in [Members -> 0..MaxTokens]
         /\ UNCHANGED <<account, apps, invited, joined, active, verified, mfa, links, torn, ownerReset>>
<1>1. /\ pc[r] = "revoke" /\ m \in job[r].who
      /\ tokens' = [tokens EXCEPT ![m] = 0] /\ unrevoked' = unrevoked \ {m}
      /\ UNCHANGED <<account, apps, invited, joined, active, verified, mfa, links, torn, ownerReset>>
  BY DEF Revoke, memberVars
<1>2. QED BY <1>1, Busy, MaxTokensAssumption DEF StepOk, DocumentsOk

LEMMA WritesGo ==
  ASSUME TypeInv, NEW r \in Requests, Writes(r)
  PROVE  GoesOn(r) /\ DocumentsOk'
<1>1. DocumentsOk BY DEF TypeInv
<1>2. CASE WriteAccount(r) BY <1>1, <1>2, WriteAccountGoes DEF DocumentsOk
<1>3. CASE CopyToApps(r) BY <1>1, <1>3, CopyToAppsGoes DEF DocumentsOk
<1>4. CASE WriteMember(r) BY <1>1, <1>4, WriteMemberGoes DEF DocumentsOk
<1>5. CASE WriteMfa(r)
  <2>1. mfa' \in [Members -> {"off", "on"}] /\ ownerReset' \in BOOLEAN
    BY <1>1, <1>5, WriteMfaGoes DEF DocumentsOk
  <2>2. QED BY <1>1, <1>5, <2>1, WriteMfaGoes DEF DocumentsOk
<1>6. CASE InsertApp(r)
  <2> DEFINE new == [name |-> job[r].value, suspended |-> FALSE]
  <2>1. new \in Copy BY <1>6, InsertAppGoes DEF Copy
  <2> HIDE DEF new
  <2>2. apps' = [apps EXCEPT ![job[r].app] = new] BY <1>6, InsertAppGoes DEF new
  <2>3. QED BY <1>1, <1>6, <2>1, <2>2, InsertAppGoes DEF DocumentsOk
<1>7. ASSUME NEW m \in Members, VerifyWrite(r, m)
      PROVE  GoesOn(r) /\ DocumentsOk'
  BY <1>1, <1>7, VerifyWriteGoes DEF DocumentsOk
<1>8. ASSUME NEW m \in Members, ResetWrite(r, m)
      PROVE  GoesOn(r) /\ DocumentsOk'
  BY <1>1, <1>8, ResetWriteGoes DEF DocumentsOk
<1>9. ASSUME NEW m \in Members, Revoke(r, m)
      PROVE  GoesOn(r) /\ DocumentsOk'
  <2>1. challenged' \subseteq Members /\ unrevoked' \subseteq Members
    BY <1>1, <1>9, RevokeGoes, RevokeWrites DEF DocumentsOk
  <2>2. /\ tokens' \in [Members -> 0..MaxTokens] /\ GoesOn(r)
        /\ UNCHANGED <<account, apps, invited, joined, active, verified, mfa, links, torn, ownerReset>>
    BY <1>9, RevokeGoes, RevokeWrites
  <2>3. QED BY <1>1, <2>1, <2>2 DEF DocumentsOk
<1>10. ASSUME NEW m \in Members, Issue(r, m)
       PROVE  GoesOn(r) /\ DocumentsOk'
  <2>1. unrevoked' \subseteq Members
    BY <1>1, <1>10, IssueGoes DEF DocumentsOk
  <2>2. /\ tokens' \in [Members -> 0..MaxTokens] /\ GoesOn(r)
        /\ UNCHANGED <<account, apps, invited, joined, active, verified, mfa, challenged, links,
                       torn, ownerReset>>
    BY <1>10, IssueGoes
  <2>3. QED BY <1>1, <2>1, <2>2 DEF DocumentsOk
<1>11. ASSUME NEW m \in Members, Join(r, m)
       PROVE  GoesOn(r) /\ DocumentsOk'
  <2>1. joined' \subseteq Members /\ Owner \in joined'
    BY <1>1, <1>11, JoinGoes DEF DocumentsOk
  <2>2. /\ GoesOn(r)
        /\ UNCHANGED <<account, apps, invited, active, verified, mfa, challenged, links, tokens,
                       torn, unrevoked, ownerReset>>
    BY <1>11, JoinGoes
  <2>3. QED BY <1>1, <2>1, <2>2 DEF DocumentsOk
<1>12. ASSUME NEW m \in Members, CloseInvitation(r, m)
       PROVE  GoesOn(r) /\ DocumentsOk'
  BY <1>1, <1>12, CloseInvitationGoes DEF DocumentsOk
<1>13. QED
  BY <1>2, <1>3, <1>4, <1>5, <1>6, <1>7, <1>8, <1>9, <1>10, <1>11, <1>12 DEF Writes

\* A step of no request: a session, a link or an invitation less, or the link
\* or invitation of someone who may have one.
QuietStep ==
  /\ UNCHANGED <<account, apps, joined, active, verified, mfa, challenged, up, pc, job,
                 torn, unrevoked, ownerReset>>
  /\ invited' \subseteq Members \ {Owner}
  /\ links' \subseteq links \cup {m \in Members : ~verified[m]}
  /\ tokens' \in [Members -> 0..MaxTokens] /\ \A m \in Members : tokens'[m] <= tokens[m]

LEMMA QuietSteps ==
  ASSUME TypeInv,
         \/ \E m \in Members : Logout(m) \/ ResendVerification(m) \/ Invite(m) \/ RevokeInvitation(m)
         \/ UNCHANGED accountVars
  PROVE  QuietStep
<1>1. /\ invited \subseteq Members \ {Owner} /\ Owner \in joined
      /\ tokens \in [Members -> 0..MaxTokens] /\ \A k \in Members : tokens[k] <= tokens[k]
  BY MaxTokensAssumption DEF TypeInv, DocumentsOk
<1>2. ASSUME NEW m \in Members, Logout(m)
      PROVE  QuietStep
  <2>1. tokens[m] > 0 /\ tokens' = [tokens EXCEPT ![m] = tokens[m] - 1]
    BY <1>2 DEF Logout
  <2>2. tokens' \in [Members -> 0..MaxTokens] /\ \A k \in Members : tokens'[k] <= tokens[k]
    BY <1>1, <2>1, MaxTokensAssumption
  <2>3. QED
    BY <1>1, <1>2, <2>2 DEF QuietStep, Logout, memberVars, requestVars, historyVars
<1>3. ASSUME NEW m \in Members, ResendVerification(m)
      PROVE  QuietStep
  BY <1>1, <1>3 DEF QuietStep, ResendVerification, memberVars, requestVars, historyVars
<1>4. ASSUME NEW m \in Members, Invite(m) \/ RevokeInvitation(m)
      PROVE  QuietStep
  <2>1. invited' \subseteq Members \ {Owner}
    BY <1>1, <1>4 DEF Invite, RevokeInvitation
  <2>2. QED
    BY <1>1, <1>4, <2>1
    DEF QuietStep, Invite, RevokeInvitation, signInVars, requestVars, historyVars
<1>5. CASE UNCHANGED accountVars
  BY <1>1, <1>5 DEF QuietStep, accountVars, memberVars, signInVars, requestVars, historyVars
<1>6. QED BY <1>2, <1>3, <1>4, <1>5

\* Requests that end without a word: what those in S have not done is noted.
Cut(S) ==
  /\ RequestsOk' /\ \A q \in S : pc'[q] = "idle"
  /\ \A q \in Requests \ S : pc'[q] = pc[q] /\ job'[q] = job[q]
  /\ UNCHANGED <<account, apps, invited, joined, active, verified, mfa, challenged, links,
                 tokens, ownerReset>>
  /\ torn \subseteq torn' /\ torn' \subseteq {"name", "suspended"}
  /\ unrevoked \subseteq unrevoked' /\ unrevoked' \subseteq Members
  /\ \A q \in S : pc[q] = "copy" => job[q].field \in torn'
  /\ \A q \in S : \A m \in job[q].who :
       pc[q] \in {"copy", "revoke"} /\ job[q].kind \in {"member", "suspend"} => m \in unrevoked'

LEMMA Undone ==
  ASSUME TypeInv, NEW S \in SUBSET Requests, LeaveUndone(S)
  PROVE  /\ torn \subseteq torn' /\ torn' \subseteq {"name", "suspended"}
         /\ unrevoked \subseteq unrevoked' /\ unrevoked' \subseteq Members
         /\ \A q \in S : pc[q] = "copy" => job[q].field \in torn'
         /\ \A q \in S : \A m \in job[q].who :
              pc[q] \in {"copy", "revoke"} /\ job[q].kind \in {"member", "suspend"} => m \in unrevoked'
<1>1. \A q \in S : pc[q] = "copy" => job[q].field \in {"name", "suspended"}
  BY DEF TypeInv, RequestsOk, StepOk, Jobs
<1>2. \A q \in S : pc[q] \in {"copy", "revoke"} => job[q].who \subseteq Members
  BY DEF TypeInv, RequestsOk, Jobs
<1>3. torn' = torn \cup {job[r].field : r \in {q \in S : pc[q] = "copy"}}
  BY DEF LeaveUndone
<1>4. unrevoked' = unrevoked
        \cup UNION {job[r].who : r \in {q \in S : /\ pc[q] \in {"copy", "revoke"}
                                                  /\ job[q].kind \in {"member", "suspend"}}}
  BY DEF LeaveUndone
<1>5. torn \subseteq torn' /\ torn' \subseteq {"name", "suspended"}
  BY <1>1, <1>3 DEF TypeInv, DocumentsOk
<1>6. unrevoked \subseteq unrevoked' /\ unrevoked' \subseteq Members
  BY <1>2, <1>4 DEF TypeInv, DocumentsOk
<1>7. \A q \in S : pc[q] = "copy" => job[q].field \in torn'
  BY <1>3
<1>8. ASSUME NEW q \in S, NEW m \in job[q].who, pc[q] \in {"copy", "revoke"},
             job[q].kind \in {"member", "suspend"}
      PROVE  m \in unrevoked'
  BY <1>4, <1>8
<1>9. QED BY <1>5, <1>6, <1>7, <1>8

LEMMA AbortCuts ==
  ASSUME TypeInv, NEW r \in Requests, Abort(r)
  PROVE  Cut({r})
<1>1. /\ LeaveUndone({r}) /\ End(r)
      /\ UNCHANGED <<account, apps, invited, joined, active, verified, mfa, challenged, links,
                     tokens, ownerReset>>
  BY DEF Abort, memberVars, signInVars
<1>2. RequestsOk' /\ OthersStay(r) /\ pc'[r] = "idle" BY <1>1, EndOk DEF TypeInv
<1>3. QED BY <1>1, <1>2, Undone DEF Cut, OthersStay

LEMMA StopCuts ==
  ASSUME TypeInv, Stop
  PROVE  Cut(Requests)
<1>1. /\ up' = FALSE /\ pc' = [r \in Requests |-> "idle"] /\ job' = [r \in Requests |-> NoJob]
      /\ LeaveUndone(Requests)
      /\ UNCHANGED <<account, apps, invited, joined, active, verified, mfa, challenged, links,
                     tokens, ownerReset>>
  BY DEF Stop, memberVars, signInVars
<1>2. RequestsOk' BY <1>1 DEF RequestsOk, StepOk
<1>3. QED BY <1>1, <1>2, Undone DEF Cut

\* bootstrap copies both fields again, so nothing needs to be noted.
LEMMA RestartCopies ==
  ASSUME TypeInv, Restart
  PROVE  /\ RequestsOk' /\ torn' = {} /\ Created' = Created
         /\ apps' \in [Apps -> Copy \cup {NoApp}]
         /\ \A a \in Created : /\ apps'[a].name = account.name
                               /\ apps'[a].suspended = account.suspended
         /\ UNCHANGED <<account, invited, joined, active, verified, mfa, challenged, links, tokens,
                        pc, job, unrevoked, ownerReset>>
<1>1. /\ up' = TRUE /\ torn' = {}
      /\ apps' = [a \in Apps |->
                    IF a \in Created
                    THEN [name |-> account.name, suspended |-> account.suspended] ELSE NoApp]
      /\ UNCHANGED <<account, invited, joined, active, verified, mfa, challenged, links, tokens,
                     pc, job, unrevoked, ownerReset>>
  BY DEF Restart, memberVars, signInVars
<1>2. RequestsOk' BY <1>1 DEF TypeInv, RequestsOk, StepOk
<1> DEFINE copy == [name |-> account.name, suspended |-> account.suspended]
<1>3. copy \in Copy /\ copy.name = account.name /\ copy.suspended = account.suspended
  BY DEF TypeInv, DocumentsOk, Account, Copy
<1>4. \A a \in Apps : apps'[a] = IF a \in Created THEN copy ELSE NoApp
  BY <1>1
<1>5. apps' \in [Apps -> Copy \cup {NoApp}] BY <1>1, <1>3
<1> HIDE DEF copy
<1>6. Created' = Created BY <1>3, <1>4, NoneAssumption DEF Created
<1>7. QED BY <1>1, <1>2, <1>3, <1>4, <1>5, <1>6 DEF Created

\* The kinds of steps, as the invariants tell them apart.
LEMMA StepKinds ==
  ASSUME TypeInv, [AccountNext]_accountVars
  PROVE  \/ \E r \in Requests : \/ Reads(r) /\ Decided(r) /\ Untouched
                                \/ Writes(r) /\ GoesOn(r)
                                \/ Cut({r})
         \/ QuietStep \/ Cut(Requests) \/ Restart
BY ReadsStart, WritesGo, AbortCuts, StopCuts, QuietSteps DEF AccountNext

LEMMA TypesNext ==
  ASSUME TypeInv, [AccountNext]_accountVars
  PROVE  TypeInv'
<1>0. RequestsOk /\ DocumentsOk BY DEF TypeInv
<1>1. ASSUME NEW r \in Requests, Decided(r), Untouched
      PROVE  TypeInv'
  <2>1. challenged' \subseteq Members /\ links' \subseteq Members
    BY <1>0, <1>1 DEF Untouched, DocumentsOk
  <2>2. QED BY <1>0, <1>1, <2>1 DEF TypeInv, DocumentsOk, Decided, Untouched
<1>2. ASSUME NEW r \in Requests, Writes(r)
      PROVE  TypeInv'
  BY <1>2, WritesGo DEF TypeInv, GoesOn
<1>3. ASSUME NEW S \in SUBSET Requests, Cut(S)
      PROVE  TypeInv'
  BY <1>0, <1>3 DEF TypeInv, DocumentsOk, Cut
<1>4. CASE QuietStep
  <2>1. RequestsOk' BY <1>0, <1>4 DEF QuietStep, RequestsOk, StepOk
  <2>2. links' \subseteq Members BY <1>0, <1>4 DEF QuietStep, DocumentsOk
  <2>3. DocumentsOk' BY <1>0, <1>4, <2>2 DEF QuietStep, DocumentsOk
  <2>4. QED BY <2>1, <2>3 DEF TypeInv
<1>5. CASE Restart
  BY <1>0, <1>5, RestartCopies DEF TypeInv, DocumentsOk
<1>6. QED BY <1>1, <1>2, <1>3, <1>4, <1>5, StepKinds

LEMMA InitTypes == AccountInit => TypeInv
<1>1. SUFFICES ASSUME AccountInit PROVE TypeInv
  OBVIOUS
<1>2. RequestsOk
  BY <1>1 DEF AccountInit, RequestsOk, StepOk
<1>3. account \in Account
  <2>1. PICK n \in Names : account = [name |-> n, suspended |-> FALSE, require2fa |-> FALSE]
    BY <1>1 DEF AccountInit
  <2>2. QED BY <2>1 DEF Account
<1>4. tokens \in [Members -> 0..MaxTokens]
  BY <1>1, MaxTokensAssumption DEF AccountInit
<1>5. active \in [Members -> BOOLEAN] /\ verified \in [Members -> BOOLEAN]
  BY <1>1 DEF AccountInit
<1>6. mfa \in [Members -> {"off", "on"}] /\ apps \in [Apps -> Copy \cup {NoApp}]
  BY <1>1 DEF AccountInit
<1>7. DocumentsOk
  BY <1>1, <1>3, <1>4, <1>5, <1>6, OwnerAssumption DEF AccountInit, DocumentsOk
<1>8. QED BY <1>2, <1>7 DEF TypeInv

LEMMA TypesAlways == AccountSpec => []TypeInv
<1>1. TypeInv /\ [AccountNext]_accountVars => TypeInv' BY TypesNext
<1>2. QED BY <1>1, InitTypes, PTL DEF AccountSpec

(***************************************************************************)
(* Type correctness of the account, its members and the requests at work,  *)
(* whatever overlaps: a request that revokes still has members to do, and  *)
(* only those at work have a job.                                          *)
(***************************************************************************)
THEOREM AccountTypes == AccountSpec => []AccountTypeOK
<1>1. TypeInv => AccountTypeOK BY DEF TypeInv, RequestsOk, DocumentsOk, AccountTypeOK
<1>2. QED BY <1>1, TypesAlways, PTL

-----------------------------------------------------------------------------
(***************************************************************************)
(* The second factor of the owner.                                         *)
(***************************************************************************)

\* Only these two write what the invariant is about.
LEMMA FactorMoves ==
  ASSUME TypeInv, NEW r \in Requests, Writes(r), ~WriteMfa(r), ~WriteAccount(r)
  PROVE  UNCHANGED <<account, mfa, ownerReset>>
<1>1. ASSUME NEW m \in Members,
             \/ VerifyWrite(r, m) \/ ResetWrite(r, m) \/ Revoke(r, m) \/ Issue(r, m)
             \/ Join(r, m) \/ CloseInvitation(r, m)
      PROVE  UNCHANGED <<account, mfa, ownerReset>>
  BY <1>1, VerifyWriteGoes, ResetWriteGoes, RevokeWrites, IssueGoes, JoinGoes, CloseInvitationGoes
\* A case for each of the others.
<1>2. CASE CopyToApps(r) BY <1>2, CopyToAppsGoes
<1>3. CASE WriteMember(r) BY <1>3, WriteMemberGoes
<1>4. CASE InsertApp(r) BY <1>4, InsertAppGoes
<1>5. QED BY <1>1, <1>2, <1>3, <1>4 DEF Writes

\* The other requests still hold, when the factor and the rule move by r.
LEMMA OwnerFrame ==
  ASSUME OwnerInv, UNCHANGED <<account, mfa, ownerReset>>,
         \A q \in Requests : pc'[q] = "write" => pc[q] = "write" /\ job'[q] = job[q]
  PROVE  OwnerInv'
BY DEF OwnerInv, OwnerProtected, OwnerHolds, Disabling, Requiring, Writing

LEMMA WritesKeepOwner ==
  ASSUME TypeInv, OwnerInv, OwnerApart, NEW r \in Requests, Writes(r)
  PROVE  OwnerInv'
<1>1. GoesOn(r) BY WritesGo
<1>2. \A q \in Requests : pc'[q] = "write" => q # r /\ pc[q] = "write" /\ job'[q] = job[q]
  BY <1>1 DEF GoesOn, OthersStay
<1>3. \A q \in Requests : /\ Disabling(q)' => Disabling(q) /\ q # r
                          /\ Requiring(q)' => Requiring(q) /\ q # r
  BY <1>2 DEF Disabling, Requiring, Writing
<1>4. mfa \in [Members -> {"off", "on"}] BY DEF TypeInv, DocumentsOk
<1>5. CASE WriteMfa(r)
  <2>1. /\ Writing(r, "mfa") /\ account' = account
        /\ job[r].member \in Members /\ job[r].value \in {"off", "on"}
        /\ mfa'[Owner] = IF job[r].member = Owner THEN job[r].value ELSE mfa[Owner]
        /\ ownerReset' = IF job[r].member # Owner THEN ownerReset
                         ELSE job[r].value # "on" /\ (ownerReset \/ job[r].who # {})
    BY <1>4, <1>5, WriteMfaGoes, OwnerAssumption DEF Writing
  <2>2. CASE Disabling(r)
    <3>1. ~account'.require2fa BY <2>1, <2>2 DEF OwnerInv, OwnerHolds
    <3>2. \A q \in Requests : ~Requiring(q)' BY <1>3, <2>2 DEF OwnerApart
    <3>3. QED BY <3>1, <3>2 DEF OwnerInv, OwnerProtected, OwnerHolds
  <2>3. CASE ~Disabling(r)
    <3>1. mfa'[Owner] = "on" \/ ownerReset' \/ (mfa'[Owner] = mfa[Owner] /\ ownerReset' = ownerReset)
      BY <2>1, <2>3 DEF Disabling
    <3>2. QED BY <1>3, <2>1, <3>1 DEF OwnerInv, OwnerProtected, OwnerHolds
  <2>4. QED BY <2>2, <2>3
<1>6. CASE WriteAccount(r)
  <2>1. /\ UNCHANGED <<mfa, ownerReset>> /\ pc[r] = "write"
        /\ account'.require2fa = IF job[r].kind = "require" THEN job[r].value
                                 ELSE account.require2fa
    BY <1>6, WriteAccountGoes
  <2>2. CASE Requiring(r)
    <3>1. mfa'[Owner] = "on" \/ ownerReset' BY <2>1, <2>2 DEF OwnerInv, OwnerHolds
    <3>2. \A q \in Requests : ~Disabling(q)' BY <1>3, <2>2 DEF OwnerApart
    <3>3. QED BY <3>1, <3>2 DEF OwnerInv, OwnerProtected, OwnerHolds
  <2>3. CASE ~Requiring(r)
    <3>1. account'.require2fa => account.require2fa BY <2>1, <2>3 DEF Requiring, Writing
    <3>2. QED BY <1>3, <2>1, <3>1 DEF OwnerInv, OwnerProtected, OwnerHolds
  <2>4. QED BY <2>2, <2>3
<1>7. QED BY <1>2, <1>5, <1>6, FactorMoves, OwnerFrame

LEMMA ReadsKeepOwner ==
  ASSUME OwnerInv, NEW r \in Requests, Decided(r), Untouched
  PROVE  OwnerInv'
<1>1. UNCHANGED <<account, mfa, ownerReset>> BY DEF Untouched
<1>2. ASSUME NEW q \in Requests
      PROVE  OwnerHolds(q)'
  <2>1. CASE q = r
    BY <1>1, <2>1 DEF Decided, OwnerHolds, Requiring, Disabling, Writing
  <2>2. CASE q # r
    BY <1>1, <2>2 DEF Decided, OthersStay, OwnerInv, OwnerHolds, Requiring, Disabling, Writing
  <2>3. QED BY <2>1, <2>2
<1>3. QED BY <1>1, <1>2 DEF OwnerInv, OwnerProtected

LEMMA OwnerAlways == AccountSpec /\ []OwnerApart => []OwnerInv
<1>1. AccountInit => OwnerInv
  <2> SUFFICES ASSUME AccountInit PROVE OwnerInv
    OBVIOUS
  <2>1. PICK n \in Names : account = [name |-> n, suspended |-> FALSE, require2fa |-> FALSE]
    BY DEF AccountInit
  <2>2. ~account.require2fa /\ \A r \in Requests : pc[r] = "idle"
    BY <2>1 DEF AccountInit
  <2>3. QED BY <2>2 DEF OwnerInv, OwnerProtected, OwnerHolds, Requiring, Disabling, Writing
<1>2. TypeInv /\ OwnerInv /\ OwnerApart /\ [AccountNext]_accountVars => OwnerInv'
  <2> SUFFICES ASSUME TypeInv, OwnerInv, OwnerApart, [AccountNext]_accountVars
               PROVE  OwnerInv'
    OBVIOUS
  <2>1. ASSUME NEW S \in SUBSET Requests, Cut(S)
        PROVE  OwnerInv'
    BY <2>1, OwnerFrame DEF Cut
  <2>2. CASE QuietStep BY <2>2, OwnerFrame DEF QuietStep
  <2>3. CASE Restart BY <2>3, RestartCopies, OwnerFrame
  <2>4. QED BY <2>1, <2>2, <2>3, StepKinds, WritesKeepOwner, ReadsKeepOwner
<1>3. QED BY <1>1, <1>2, TypesAlways, PTL DEF AccountSpec

(***************************************************************************)
(* An account that requires the second factor has an owner who uses it,    *)
(* unless the platform admin has reset it since, at every step, if only    *)
(* update_account and the owner's mfa_disable have not both read before    *)
(* either writes: every other request may overlap them.                    *)
(***************************************************************************)
THEOREM OwnerProtectedApart == AccountSpec /\ []OwnerApart => []OwnerProtected
<1>1. OwnerInv => OwnerProtected BY DEF OwnerInv
<1>2. QED BY <1>1, OwnerAlways, PTL

-----------------------------------------------------------------------------
(***************************************************************************)
(* The copies on the apps.                                                 *)
(***************************************************************************)

LEMMA CopiesMove ==
  ASSUME TypeInv, NEW r \in Requests, Writes(r), ~CopyToApps(r), ~WriteAccount(r), ~InsertApp(r)
  PROVE  UNCHANGED <<account, apps, torn>> /\ pc[r] # "copy" /\ pc'[r] # "copy"
<1>1. ASSUME NEW m \in Members,
             \/ VerifyWrite(r, m) \/ ResetWrite(r, m) \/ Revoke(r, m) \/ Issue(r, m)
             \/ Join(r, m) \/ CloseInvitation(r, m)
      PROVE  UNCHANGED <<account, apps, torn>> /\ pc[r] # "copy" /\ pc'[r] # "copy"
  <2>1. CASE Revoke(r, m)
    <3>1. pc'[r] # "copy"
      BY <2>1, RevokeGoes, RevokeWrites DEF GoesOn, RequestsOk, StepOk
    <3>2. QED BY <2>1, <3>1, RevokeWrites
  <2>2. QED
    BY <1>1, <2>1, VerifyWriteGoes, ResetWriteGoes, IssueGoes, JoinGoes, CloseInvitationGoes
<1>2. CASE WriteMember(r) BY <1>2, WriteMemberGoes
<1>3. CASE WriteMfa(r) BY <1>3, WriteMfaGoes
<1>4. QED BY <1>1, <1>2, <1>3 DEF Writes

\* A request that does not copy, and the documents as they were.
LEMMA CopiesFrame ==
  ASSUME CopiesInv, UNCHANGED <<account, apps, torn>>,
         \A q \in Requests : /\ pc'[q] = "write" => pc[q] = "write" /\ job'[q] = job[q]
                             /\ pc[q] = "copy" \/ pc'[q] = "copy" =>
                                  pc'[q] = pc[q] /\ job'[q] = job[q]
  PROVE  CopiesInv'
<1>1. \A q \in Requests : CopyHolds(q)'
  BY DEF CopiesInv, CopyHolds, Writing
<1>2. NamesCopied' /\ SuspensionCopied'
  BY DEF CopiesInv, NamesCopied, SuspensionCopied, Copying, Created
<1>3. QED BY <1>1, <1>2 DEF CopiesInv

LEMMA OthersCopy ==
  ASSUME TypeInv, CopiesInv, CopiesApart, NEW r \in Requests, Writes(r), GoesOn(r),
         NEW q \in Requests, q # r
  PROVE  CopyHolds(q)'
<1>1. CopyHolds(q) /\ pc'[q] = pc[q] /\ job'[q] = job[q]
  BY DEF CopiesInv, GoesOn, OthersStay
<1>2. CASE UNCHANGED account BY <1>1, <1>2 DEF CopyHolds, Writing
<1>3. CASE WriteAccount(r)
  <2>1. /\ pc[r] # "idle"
        /\ account'.name = IF job[r].kind = "rename" THEN job[r].value ELSE account.name
        /\ account'.suspended = IF job[r].kind = "suspend" THEN job[r].value ELSE account.suspended
    BY <1>3, WriteAccountGoes DEF GoesOn
  <2>2. CASE Writing(q, "app")
    <3>1. job[r].kind \notin {"rename", "suspend"}
      BY <2>1, <2>2 DEF CopiesApart, Writing
    <3>2. QED BY <1>1, <2>1, <2>2, <3>1 DEF CopyHolds, Writing
  <2>3. CASE pc[q] = "copy"
    <3>1. \/ job[q].kind = "rename" /\ job[q].field = "name"
          \/ job[q].kind = "suspend" /\ job[q].field = "suspended"
      BY <2>3, Busy DEF StepOk, Jobs
    <3>2. job[r].kind # job[q].kind BY <2>1, <2>3, <3>1 DEF CopiesApart
    <3>3. QED BY <1>1, <2>1, <2>3, <3>1, <3>2 DEF CopyHolds, Writing
  <2>4. CASE pc[q] # "copy" /\ ~Writing(q, "app")
    BY <1>1, <2>4 DEF CopyHolds, Writing
  <2>5. QED BY <2>2, <2>3, <2>4
<1>4. QED BY <1>2, <1>3, CopiesMove, CopyToAppsGoes, InsertAppGoes

LEMMA CopyingStays ==
  ASSUME NEW r \in Requests, GoesOn(r), NEW field, Copying(field),
         ~(pc[r] = "copy" /\ job[r].field = field)
  PROVE  Copying(field)'
BY DEF Copying, GoesOn, OthersStay

LEMMA WritesKeepCopies ==
  ASSUME TypeInv, CopiesInv, CopiesApart, NEW r \in Requests, Writes(r)
  PROVE  CopiesInv'
<1>1. GoesOn(r) /\ CopyHolds(r) /\ NamesCopied /\ SuspensionCopied
  BY WritesGo DEF CopiesInv
<1>2. \A q \in Requests \ {r} : CopyHolds(q)' BY <1>1, OthersCopy
<1>3. CASE WriteAccount(r)
  <2>1. /\ UNCHANGED <<apps, torn>> /\ job[r] \in Jobs /\ pc[r] = "write"
        /\ \/ job[r].kind = "require" /\ pc'[r] = "idle"
           \/ job[r].kind \in {"suspend", "rename"} /\ pc'[r] = "copy" /\ job'[r] = job[r]
        /\ account'.name = IF job[r].kind = "rename" THEN job[r].value ELSE account.name
        /\ account'.suspended = IF job[r].kind = "suspend" THEN job[r].value ELSE account.suspended
    BY <1>3, WriteAccountGoes DEF GoesOn
  <2>2. /\ job[r].kind = "rename" => job[r].field = "name"
        /\ job[r].kind = "suspend" => job[r].field = "suspended"
    BY <2>1 DEF Jobs
  <2>3. CopyHolds(r)' BY <2>1, <2>2 DEF CopyHolds, Writing
  <2>4. NamesCopied'
    <3>1. CASE job[r].kind = "rename" BY <2>1, <2>2, <3>1 DEF NamesCopied, Copying
    <3>2. CASE job[r].kind # "rename"
      BY <1>1, <2>1, <3>2, CopyingStays DEF NamesCopied, Created
    <3>3. QED BY <3>1, <3>2
  <2>5. SuspensionCopied'
    <3>1. CASE job[r].kind = "suspend" BY <2>1, <2>2, <3>1 DEF SuspensionCopied, Copying
    <3>2. CASE job[r].kind # "suspend"
      BY <1>1, <2>1, <3>2, CopyingStays DEF SuspensionCopied, Created
    <3>3. QED BY <3>1, <3>2
  <2>6. QED BY <1>2, <2>3, <2>4, <2>5 DEF CopiesInv
<1>4. CASE CopyToApps(r)
  <2>1. /\ pc[r] = "copy" /\ account' = account /\ torn' = torn \ {job[r].field}
        /\ Created' = Created /\ job[r].field \in {"name", "suspended"}
        /\ pc'[r] \in {"idle", "revoke"}
        /\ \A a \in Created :
             IF job[r].field = "name"
             THEN apps'[a].name = job[r].value /\ apps'[a].suspended = apps[a].suspended
             ELSE apps'[a].suspended = job[r].value /\ apps'[a].name = apps[a].name
    BY <1>4, CopyToAppsGoes
  <2>2. CopyHolds(r)' BY <2>1 DEF CopyHolds, Writing
  <2>3. CASE job[r].field = "name"
    <3>1. \A a \in Created' : apps'[a].name = account'.name
      BY <1>1, <2>1, <2>3 DEF CopyHolds
    <3>2. NamesCopied' BY <3>1 DEF NamesCopied
    <3>3. SuspensionCopied'
      BY <1>1, <2>1, <2>3, CopyingStays DEF SuspensionCopied
    <3>4. QED BY <1>2, <2>2, <3>2, <3>3 DEF CopiesInv
  <2>4. CASE job[r].field = "suspended"
    <3>1. \A a \in Created' : apps'[a].suspended = account'.suspended
      BY <1>1, <2>1, <2>4 DEF CopyHolds
    <3>2. SuspensionCopied' BY <3>1 DEF SuspensionCopied
    <3>3. NamesCopied'
      BY <1>1, <2>1, <2>4, CopyingStays DEF NamesCopied
    <3>4. QED BY <1>2, <2>2, <3>2, <3>3 DEF CopiesInv
  <2>5. QED BY <2>1, <2>3, <2>4
\* The new app says what the account says: the name it read, and no suspension.
<1>5. CASE InsertApp(r)
  <2> DEFINE a == job[r].app
  <2>1. /\ Writing(r, "app") /\ a \in Apps \ Created /\ pc'[r] = "idle"
        /\ UNCHANGED <<account, torn>> /\ account.suspended \in BOOLEAN
        /\ apps \in [Apps -> Copy \cup {NoApp}]
    BY <1>5, InsertAppGoes DEF TypeInv, DocumentsOk, Account
  <2>2. apps'[a].name = account.name /\ apps'[a].suspended = account.suspended
    <3>1. job[r].value = account.name /\ account.suspended = FALSE
      BY <1>1, <2>1 DEF CopyHolds
    <3> DEFINE new == [name |-> job[r].value, suspended |-> FALSE]
    <3>2. new.name = account.name /\ new.suspended = account.suspended
      BY <3>1
    <3> HIDE DEF new
    <3>3. apps'[a] = new BY <1>5, <2>1, InsertAppGoes DEF new
    <3>4. QED BY <3>2, <3>3
  <2>3. \A b \in Created' : b = a \/ (b \in Created /\ apps'[b] = apps[b])
    BY <1>5, <2>1, InsertAppGoes DEF Created
  <2>4. CopyHolds(r)' BY <2>1 DEF CopyHolds, Writing
  <2> HIDE DEF a
  <2>5. NamesCopied'
    BY <1>1, <2>1, <2>2, <2>3, CopyingStays DEF NamesCopied, Writing
  <2>6. SuspensionCopied'
    BY <1>1, <2>1, <2>2, <2>3, CopyingStays DEF SuspensionCopied, Writing
  <2>7. QED BY <1>2, <2>4, <2>5, <2>6 DEF CopiesInv
<1>6. CASE ~WriteAccount(r) /\ ~CopyToApps(r) /\ ~InsertApp(r)
  <2>1. UNCHANGED <<account, apps, torn>> /\ pc[r] # "copy" /\ pc'[r] # "copy"
    BY <1>6, CopiesMove
  <2>2. QED BY <1>1, <2>1, CopiesFrame DEF GoesOn, OthersStay
<1>7. QED BY <1>3, <1>4, <1>5, <1>6

LEMMA ReadsKeepCopies ==
  ASSUME CopiesInv, NEW r \in Requests, Decided(r), Untouched
  PROVE  CopiesInv'
<1>1. UNCHANGED <<account, apps, torn>> BY DEF Untouched
<1>2. ASSUME NEW q \in Requests
      PROVE  CopyHolds(q)'
  <2>1. CASE q = r BY <1>1, <2>1 DEF Decided, CopyHolds, Writing
  <2>2. CASE q # r
    BY <1>1, <2>2 DEF Decided, OthersStay, CopiesInv, CopyHolds, Writing
  <2>3. QED BY <2>1, <2>2
<1>3. \A field : Copying(field) => Copying(field)'
  BY DEF Copying, Decided, OthersStay
<1>4. QED
  BY <1>1, <1>2, <1>3 DEF CopiesInv, NamesCopied, SuspensionCopied, Created

LEMMA CutsKeepCopies ==
  ASSUME CopiesInv, NEW S \in SUBSET Requests, Cut(S)
  PROVE  CopiesInv'
<1>1. ASSUME NEW q \in Requests
      PROVE  CopyHolds(q)'
  <2>1. CASE q \in S BY <2>1 DEF Cut, CopyHolds, Writing
  <2>2. CASE q \notin S BY <2>2 DEF Cut, CopiesInv, CopyHolds, Writing
  <2>3. QED BY <2>1, <2>2
<1>2. \A field : Copying(field) => field \in torn' \/ Copying(field)'
  BY DEF Copying, Cut
<1>3. UNCHANGED <<account, apps>> /\ torn \subseteq torn' BY DEF Cut
<1>4. QED
  BY <1>1, <1>2, <1>3 DEF CopiesInv, NamesCopied, SuspensionCopied, Created

LEMMA CopiesAlways == AccountSpec /\ []CopiesApart => []CopiesInv
<1>1. AccountInit => CopiesInv
  BY DEF AccountInit, CopiesInv, CopyHolds, Writing, NamesCopied, SuspensionCopied, Created
<1>2. TypeInv /\ CopiesInv /\ CopiesApart /\ [AccountNext]_accountVars => CopiesInv'
  <2> SUFFICES ASSUME TypeInv, CopiesInv, CopiesApart, [AccountNext]_accountVars
               PROVE  CopiesInv'
    OBVIOUS
  <2>1. CASE QuietStep BY <2>1, CopiesFrame DEF QuietStep
  <2>2. CASE Restart
    <3>1. NamesCopied' /\ SuspensionCopied'
      BY <2>2, RestartCopies DEF NamesCopied, SuspensionCopied
    <3>2. \A q \in Requests : CopyHolds(q)'
      BY <2>2, RestartCopies DEF CopiesInv, CopyHolds, Writing
    <3>3. QED BY <3>1, <3>2 DEF CopiesInv
  <2>3. QED BY <2>1, <2>2, StepKinds, WritesKeepCopies, ReadsKeepCopies, CutsKeepCopies
<1>3. QED BY <1>1, <1>2, TypesAlways, PTL DEF AccountSpec

(***************************************************************************)
(* What the catalog shows of the account on each app is what the account   *)
(* says, whenever no request is running, for any number of apps, members   *)
(* and names: WriteAccount and CopyToApps are two steps, whatever fails    *)
(* between them is noted in torn and mended by the startup copy.  When an  *)
(* app is created while the account is renamed or suspended it is false:   *)
(* the app keeps what it read.                                             *)
(***************************************************************************)
THEOREM CopiesExactApart == AccountSpec /\ []CopiesApart => []CopiesExact
<1>1. TypeInv /\ CopiesInv => CopiesExact
  <2> SUFFICES ASSUME TypeInv, CopiesInv, Quiet PROVE CopiesExact
    BY DEF CopiesExact
  <2>1. \A field : ~Copying(field) BY DEF Quiet, Copying
  <2>2. account.suspended \in BOOLEAN BY DEF TypeInv, DocumentsOk, Account
  <2>3. QED
    BY <2>1, <2>2 DEF CopiesInv, NamesCopied, SuspensionCopied, CopiesExact, Shown
<1>2. QED BY <1>1, TypesAlways, CopiesAlways, PTL

-----------------------------------------------------------------------------
(***************************************************************************)
(* The sessions.                                                           *)
(***************************************************************************)

\* What a step of r does to the members and to the suspension.
LEMMA MembersMove ==
  ASSUME TypeInv, NEW r \in Requests, SessionHolds(r), Writes(r)
  PROVE  /\ joined \subseteq joined' /\ (joined' # joined => job[r].kind = "join")
         /\ account'.suspended # account.suspended => job[r].kind = "suspend"
         /\ account'.suspended /\ ~account.suspended => job[r].who # {}
         /\ \A m \in Members : active[m] /\ ~active'[m] =>
              job[r].kind = "member" /\ m \in job[r].who
         /\ \A m \in unrevoked \ unrevoked' :
              job[r].kind \in Closing \cup {"suspend"} /\ m \in job[r].who
<1>0. active \in [Members -> BOOLEAN] /\ Owner \in joined
  BY DEF TypeInv, DocumentsOk
<1>1. CASE WriteAccount(r)
  <2>1. /\ pc[r] = "write" /\ job[r] \in Jobs
        /\ account'.suspended = IF job[r].kind = "suspend" THEN job[r].value ELSE account.suspended
        /\ UNCHANGED <<joined, active, unrevoked>>
    BY <1>1, WriteAccountGoes
  <2>2. account'.suspended /\ ~account.suspended => job[r].who # {}
    BY <1>0, <2>1 DEF SessionHolds, Writing
  <2>3. QED BY <2>1, <2>2
<1>2. CASE WriteMember(r)
  <2>1. PICK m \in job[r].who : m \in Members /\ active' = [active EXCEPT ![m] = job[r].value]
    BY <1>2, WriteMemberGoes
  <2>2. \A k \in Members : active[k] /\ ~active'[k] => k = m
    BY <1>0, <2>1
  <2>3. job[r].kind = "member" /\ UNCHANGED <<account, joined, unrevoked>>
    BY <1>2, WriteMemberGoes
  <2>4. QED BY <2>1, <2>2, <2>3
<1>3. ASSUME NEW m \in Members, Revoke(r, m)
      PROVE  /\ UNCHANGED <<account, joined, active>>
             /\ \A k \in unrevoked \ unrevoked' :
                  job[r].kind \in Closing \cup {"suspend"} /\ k \in job[r].who
  BY <1>3, RevokeWrites DEF Closing
<1>4. ASSUME NEW m \in Members, Issue(r, m)
      PROVE  UNCHANGED <<account, joined, active>> /\ unrevoked \subseteq unrevoked'
  BY <1>4, IssueGoes
<1>5. ASSUME NEW m \in Members, Join(r, m)
      PROVE  /\ UNCHANGED <<account, active, unrevoked>>
             /\ joined \subseteq joined' /\ job[r].kind = "join"
  BY <1>5, JoinGoes
<1>6. ASSUME NEW m \in Members, VerifyWrite(r, m) \/ ResetWrite(r, m) \/ CloseInvitation(r, m)
      PROVE  UNCHANGED <<account, joined, active, unrevoked>>
  BY <1>6, VerifyWriteGoes, ResetWriteGoes, CloseInvitationGoes
<1>7. CASE CopyToApps(r) \/ WriteMfa(r) \/ InsertApp(r)
  <2>1. UNCHANGED <<account, joined, active, unrevoked>>
    BY <1>7, CopyToAppsGoes, WriteMfaGoes, InsertAppGoes
  <2>2. QED BY <2>1
<1>8. QED BY <1>1, <1>2, <1>3, <1>4, <1>5, <1>6, <1>7 DEF Writes

\* Who overlaps a request that lets m in does not move what it has read.
LEMMA OthersLetIn ==
  ASSUME TypeInv, SessionsInv, SignInsApart, NEW r \in Requests, Writes(r),
         NEW q \in Requests, q # r
  PROVE  SessionHolds(q)'
<1>1. /\ SessionHolds(q) /\ pc'[q] = pc[q] /\ job'[q] = job[q] /\ pc[r] # "idle"
      /\ joined \subseteq joined' /\ (joined' # joined => job[r].kind = "join")
      /\ account'.suspended # account.suspended => job[r].kind = "suspend"
      /\ account'.suspended /\ ~account.suspended => job[r].who # {}
      /\ \A m \in Members : active[m] /\ ~active'[m] => job[r].kind = "member" /\ m \in job[r].who
      /\ \A m \in unrevoked \ unrevoked' :
           job[r].kind \in Closing \cup {"suspend"} /\ m \in job[r].who
  BY WritesGo, MembersMove DEF SessionsInv, GoesOn, OthersStay
<1>2. CASE pc[q] = "idle" BY <1>1, <1>2 DEF SessionHolds, Writing
<1>3. CASE pc[q] # "idle" /\ job[q].kind \notin Opening
  <2>1. Writing(q, "suspend") => job[q].who = IF job[q].value THEN joined' ELSE {}
    <3>1. CASE joined' = joined BY <1>1, <3>1 DEF SessionHolds
    <3>2. CASE joined' # joined
      <4>1. Writing(q, "suspend") => job[q].who = {}
        BY <1>1, <1>3, <3>2 DEF SignInsApart, Opening, Writing
      <4>2. Owner \in joined BY DEF TypeInv, DocumentsOk
      <4>3. QED BY <1>1, <4>1, <4>2 DEF SessionHolds
    <3>3. QED BY <3>1, <3>2
  <2>2. job[q].who \subseteq joined'
    BY <1>1, <1>3 DEF SessionHolds, Opening
  <2>3. job[q].kind \notin {"session", "verify", "reset", "join"} BY <1>3 DEF Opening
  <2>4. QED BY <1>1, <2>1, <2>2, <2>3 DEF SessionHolds, Writing
<1>4. CASE pc[q] # "idle" /\ job[q].kind \in Opening
  <2>1. /\ job[r].kind = "suspend" => job[r].who = {}
        /\ job[r].kind \in Closing => job[r].who \cap job[q].who = {}
    BY <1>1, <1>4 DEF SignInsApart
  <2>2. job[q] \in Jobs /\ job[q].who \subseteq Members /\ job[q].kind # "suspend"
    BY <1>4, Busy DEF Opening, Jobs
  <2>3. account'.suspended => account.suspended BY <1>1, <2>1
  <2>4. \A m \in job[q].who : /\ active[m] => active'[m]
                              /\ m \in unrevoked => m \in unrevoked'
    BY <1>1, <2>1, <2>2 DEF Closing
  <2>5. QED
    BY <1>1, <2>2, <2>3, <2>4 DEF SessionHolds, Writing
<1>5. QED BY <1>2, <1>3, <1>4

\* What r itself goes on with.
LEMMA StillLetsIn ==
  ASSUME TypeInv, SessionsInv, NEW r \in Requests, Writes(r)
  PROVE  SessionHolds(r)'
<1>1. /\ SessionHolds(r) /\ GoesOn(r) /\ StepOk(r) /\ Outside /\ RequestsOk'
      /\ pc'[r] # "write"
  BY WritesGo, Busy DEF SessionsInv, GoesOn
<1>2. CASE pc'[r] = "idle" BY <1>2 DEF SessionHolds, Writing
<1>3. ASSUME NEW m \in Members, VerifyWrite(r, m), pc'[r] # "idle"
      PROVE  SessionHolds(r)'
  <2>1. /\ job'[r] = job[r] /\ job[r].kind = "verify" /\ job[r].who = {m} /\ active'[m]
        /\ joined' = joined /\ pc[r] = "write"
    BY <1>1, <1>3, VerifyWriteGoes DEF GoesOn
  <2>2. QED BY <1>1, <2>1 DEF SessionHolds, Writing
<1>4. ASSUME NEW m \in Members, Join(r, m), pc'[r] # "idle"
      PROVE  SessionHolds(r)'
  <2>1. /\ job'[r] = job[r] /\ job[r].kind = "join" /\ job[r].who = {m} /\ m \notin joined
        /\ joined' = joined \cup {m} /\ pc[r] = "write" /\ UNCHANGED <<account, active>>
    BY <1>1, <1>4, JoinGoes DEF GoesOn
  <2>2. active[m] /\ ~account.suspended
    BY <1>1, <2>1 DEF SessionHolds, Writing, Outside
  <2>3. QED BY <1>1, <2>1, <2>2 DEF SessionHolds, Writing
<1>5. ASSUME NEW m \in Members, CloseInvitation(r, m), pc'[r] # "idle"
      PROVE  SessionHolds(r)'
  <2>1. /\ job'[r] = job[r] /\ job[r].kind = "join" /\ pc[r] = "accept" /\ pc'[r] = "issue"
        /\ UNCHANGED <<account, active, joined, unrevoked>>
    BY <1>1, <1>5, CloseInvitationGoes DEF GoesOn
  <2>2. QED BY <1>1, <2>1 DEF SessionHolds, Writing
<1>6. ASSUME NEW m \in Members, ResetWrite(r, m) \/ Revoke(r, m), pc'[r] # "idle"
      PROVE  SessionHolds(r)'
  <2>1. /\ job'[r].kind = job[r].kind /\ job'[r].who \subseteq job[r].who
        /\ pc[r] \in {"write", "revoke"} /\ pc'[r] \in {"revoke", "issue"}
        /\ pc'[r] = "issue" => job[r].kind = "reset"
        /\ job[r].kind \in {"reset", "member", "suspend", "mfa"}
        /\ UNCHANGED <<account, active, joined>>
    <3>1. CASE ResetWrite(r, m) BY <1>1, <1>6, <3>1, ResetWriteGoes DEF GoesOn
    <3>2. CASE Revoke(r, m)
      <4>1. pc'[r] \in {"revoke", "issue"} /\ (pc'[r] = "issue" => job[r].kind = "reset")
        BY <1>1, <1>6, <3>2, RevokeGoes, RevokeWrites DEF GoesOn, RequestsOk, StepOk
      <4>2. QED BY <1>1, <1>6, <3>2, <4>1, RevokeWrites DEF GoesOn
    <3>3. QED BY <1>6, <3>1, <3>2
  <2>2. QED BY <1>1, <1>6, <2>1 DEF SessionHolds, Writing
<1>7. CASE \/ WriteAccount(r) \/ CopyToApps(r) \/ WriteMember(r) \/ WriteMfa(r)
  <2>1. /\ job[r].kind \in {"suspend", "rename", "require", "member", "mfa"} /\ joined' = joined
        /\ pc[r] # "idle"
    BY <1>7, WriteAccountGoes, CopyToAppsGoes, WriteMemberGoes, WriteMfaGoes
  <2>2. pc'[r] # "idle" => job'[r].kind = job[r].kind /\ job'[r].who \subseteq job[r].who
    BY <1>1 DEF GoesOn
  <2>3. QED BY <1>1, <1>2, <2>1, <2>2 DEF SessionHolds, Writing
<1>8. CASE InsertApp(r) \/ \E m \in Members : Issue(r, m)
  BY <1>2, <1>8, InsertAppGoes, IssueGoes
<1>9. QED BY <1>2, <1>3, <1>4, <1>5, <1>6, <1>7, <1>8 DEF Writes

LEMMA RevokingStays ==
  ASSUME NEW r \in Requests, GoesOn(r), NEW m, Revoking(m),
         \/ ~(pc[r] \in {"copy", "revoke"} /\ job[r].kind \in {"member", "suspend"} /\ m \in job[r].who)
         \/ pc'[r] \in {"copy", "revoke"} /\ m \in job'[r].who
  PROVE  Revoking(m)'
<1>1. PICK q \in Requests : /\ pc[q] \in {"copy", "revoke"} /\ job[q].kind \in {"member", "suspend"}
                            /\ m \in job[q].who
  BY DEF Revoking
<1>2. CASE q # r BY <1>1, <1>2 DEF GoesOn, OthersStay, Revoking
<1>3. CASE q = r
  <2>1. pc'[r] \in {"copy", "revoke"} /\ m \in job'[r].who BY <1>1, <1>3
  <2>2. job'[r].kind = job[r].kind BY <2>1 DEF GoesOn
  <2>3. QED BY <1>1, <1>3, <2>1, <2>2 DEF Revoking
<1>4. QED BY <1>2, <1>3

\* Steps that take no session from the reach of whoever revokes it.
LEMMA SessionsFrame ==
  ASSUME SessionsKept, NEW r \in Requests, GoesOn(r),
         ~(pc[r] \in {"copy", "revoke"} /\ job[r].kind \in {"member", "suspend"}),
         UNCHANGED <<joined, active, tokens, unrevoked>>,
         account'.suspended => account.suspended
  PROVE  SessionsKept'
BY RevokingStays DEF SessionsKept

LEMMA WritesKeepSessions ==
  ASSUME TypeInv, SessionsInv, NEW r \in Requests, Writes(r)
  PROVE  SessionsKept'
<1>0. /\ SessionsKept /\ SessionHolds(r) /\ Outside /\ GoesOn(r) /\ StepOk(r)
      /\ DocumentsOk /\ account.suspended \in BOOLEAN
  BY WritesGo, Busy DEF SessionsInv, GoesOn, TypeInv, DocumentsOk, Account
<1>1. CASE WriteAccount(r)
  <2>1. /\ pc[r] = "write" /\ UNCHANGED <<joined, active, tokens, unrevoked>>
        /\ account'.suspended = IF job[r].kind = "suspend" THEN job[r].value ELSE account.suspended
        /\ job[r].kind = "suspend" => pc'[r] = "copy" /\ job'[r] = job[r]
    BY <1>1, WriteAccountGoes DEF GoesOn
  <2>2. CASE account'.suspended => account.suspended
    BY <1>0, <2>1, <2>2, SessionsFrame
  <2>3. CASE account'.suspended /\ ~account.suspended
    <3>1. job[r].kind = "suspend" /\ job[r].value BY <2>1, <2>3
    <3>2. job[r].who = joined BY <1>0, <2>1, <3>1 DEF SessionHolds, Writing
    <3>3. QED BY <2>1, <3>1, <3>2 DEF SessionsKept, Revoking
  <2>4. QED BY <2>2, <2>3
<1>2. CASE CopyToApps(r)
  <2>1. /\ UNCHANGED <<account, joined, active, tokens, unrevoked>> /\ pc[r] = "copy"
        /\ IF job[r].who = {} THEN pc'[r] = "idle" ELSE pc'[r] = "revoke"
        /\ pc'[r] = "revoke" => job'[r] = job[r]
    BY <1>2, CopyToAppsGoes DEF GoesOn
  <2>2. ASSUME NEW m, Revoking(m)
        PROVE  Revoking(m)'
    BY <1>0, <2>1, <2>2, RevokingStays
  <2>3. QED BY <1>0, <2>1, <2>2 DEF SessionsKept
\* Only m may be disabled by this step, and r still has its sessions to close.
<1>3. CASE WriteMember(r)
  <2>1. PICK m \in job[r].who : m \in Members /\ active' = [active EXCEPT ![m] = job[r].value]
    BY <1>3, WriteMemberGoes
  <2>2. /\ UNCHANGED <<account, joined, tokens, unrevoked>> /\ pc[r] = "write"
        /\ job[r].kind = "member" /\ job[r].value \in BOOLEAN
        /\ ~job[r].value => pc'[r] = "revoke" /\ job'[r] = job[r]
    BY <1>3, WriteMemberGoes DEF GoesOn
  <2>3. SUFFICES ASSUME NEW k \in joined \ unrevoked, ~active'[k] \/ account.suspended
                 PROVE  tokens[k] = 0 \/ Revoking(k)'
    BY <2>2 DEF SessionsKept
  <2>4. CASE k = m /\ ~job[r].value
    BY <2>1, <2>2, <2>4 DEF Revoking
  <2>5. CASE k # m \/ job[r].value
    <3>1. k \in Members BY <1>0, <2>3 DEF DocumentsOk
    <3>2. ~active[k] \/ account.suspended
      BY <1>0, <2>1, <2>3, <2>5, <3>1 DEF DocumentsOk
    <3>3. tokens[k] = 0 \/ Revoking(k) BY <1>0, <2>3, <3>2 DEF SessionsKept
    <3>4. QED BY <1>0, <2>2, <3>3, RevokingStays
  <2>6. QED BY <2>4, <2>5
<1>4. ASSUME NEW m \in Members, Revoke(r, m)
      PROVE  SessionsKept'
  <2>1. /\ UNCHANGED <<account, joined, active>> /\ pc[r] = "revoke" /\ m \in job[r].who
        /\ tokens' = [tokens EXCEPT ![m] = 0] /\ unrevoked' = unrevoked \ {m}
        /\ tokens \in [Members -> 0..MaxTokens]
    BY <1>0, <1>4, RevokeWrites DEF DocumentsOk
  <2>2. SUFFICES ASSUME NEW k \in joined \ unrevoked', ~active[k] \/ account.suspended
                 PROVE  tokens'[k] = 0 \/ Revoking(k)'
    BY <2>1 DEF SessionsKept
  <2>3. CASE k = m BY <2>1, <2>3
  <2>4. CASE k # m
    <3>1. k \in joined \ unrevoked /\ k \in Members /\ tokens'[k] = tokens[k]
      BY <1>0, <2>1, <2>2, <2>4 DEF DocumentsOk
    <3>2. tokens[k] = 0 \/ Revoking(k) BY <1>0, <2>2, <3>1 DEF SessionsKept
    <3>3. job[r].kind \in {"member", "suspend"} /\ k \in job[r].who =>
            pc'[r] = "revoke" /\ k \in job'[r].who
      BY <1>4, <2>4, RevokeGoes
    <3>4. QED BY <1>0, <3>1, <3>2, <3>3, RevokingStays
  <2>5. QED BY <2>3, <2>4
\* A way in ends with a token: its member may have one, or is noted.
<1>5. ASSUME NEW m \in Members, Issue(r, m)
      PROVE  SessionsKept'
  <2>1. /\ UNCHANGED <<account, joined, active>> /\ pc[r] = "issue" /\ job[r].who = {m}
        /\ tokens' = [tokens EXCEPT ![m] = tokens[m] + 1] /\ unrevoked \subseteq unrevoked'
        /\ job[r].kind = "verify" /\ account.suspended => m \in unrevoked'
        /\ tokens \in [Members -> 0..MaxTokens]
    BY <1>0, <1>5, IssueGoes DEF DocumentsOk
  <2>2. m \in unrevoked' \/ (active[m] /\ ~account.suspended)
    BY <1>0, <2>1 DEF SessionHolds, StepOk
  <2>3. SUFFICES ASSUME NEW k \in joined \ unrevoked', ~active[k] \/ account.suspended
                 PROVE  tokens'[k] = 0 \/ Revoking(k)'
    BY <2>1 DEF SessionsKept
  <2>4. k # m /\ k \in Members /\ tokens'[k] = tokens[k] /\ k \notin unrevoked
    BY <1>0, <2>1, <2>2, <2>3 DEF DocumentsOk
  <2>5. tokens[k] = 0 \/ Revoking(k) BY <1>0, <2>3, <2>4 DEF SessionsKept
  <2>6. QED BY <1>0, <2>1, <2>4, <2>5, RevokingStays
<1>6. ASSUME NEW m \in Members, Join(r, m)
      PROVE  SessionsKept'
  <2>1. /\ UNCHANGED <<account, active, tokens, unrevoked>> /\ pc[r] = "write"
        /\ joined' = joined \cup {m}
    BY <1>6, JoinGoes
  <2>2. SUFFICES ASSUME NEW k \in joined' \ unrevoked, ~active[k] \/ account.suspended
                 PROVE  tokens[k] = 0 \/ Revoking(k)'
    BY <2>1 DEF SessionsKept
  <2>3. CASE k \in joined
    <3>1. tokens[k] = 0 \/ Revoking(k) BY <1>0, <2>2, <2>3 DEF SessionsKept
    <3>2. QED BY <1>0, <2>1, <3>1, RevokingStays
  <2>4. CASE k \notin joined BY <1>0, <2>1, <2>4 DEF Outside
  <2>5. QED BY <2>3, <2>4
<1>7. ASSUME NEW m \in Members, VerifyWrite(r, m) \/ ResetWrite(r, m) \/ CloseInvitation(r, m)
      PROVE  SessionsKept'
  <2>1. UNCHANGED <<account, joined, active, tokens, unrevoked>> /\ pc[r] \in {"write", "accept"}
    BY <1>7, VerifyWriteGoes, ResetWriteGoes, CloseInvitationGoes
  <2>2. QED BY <1>0, <2>1, SessionsFrame
<1>8. CASE WriteMfa(r) \/ InsertApp(r)
  <2>1. UNCHANGED <<account, joined, active, tokens, unrevoked>> /\ pc[r] = "write"
    BY <1>8, WriteMfaGoes, InsertAppGoes DEF Writing
  <2>2. QED BY <1>0, <2>1, SessionsFrame
<1>9. QED BY <1>1, <1>2, <1>3, <1>4, <1>5, <1>6, <1>7, <1>8 DEF Writes

LEMMA WritesKeepOutside ==
  ASSUME TypeInv, SessionsInv, NEW r \in Requests, Writes(r)
  PROVE  Outside'
<1>0. /\ Outside /\ SessionHolds(r) /\ DocumentsOk
  BY DEF SessionsInv, TypeInv
<1>1. CASE WriteMember(r)
  <2>1. PICK m \in job[r].who : m \in Members /\ active' = [active EXCEPT ![m] = job[r].value]
    BY <1>1, WriteMemberGoes
  <2>2. /\ UNCHANGED <<joined, verified, challenged, links, tokens>>
        /\ pc[r] = "write" /\ job[r].kind = "member"
    BY <1>1, WriteMemberGoes
  <2>3. m \in joined BY <1>0, <2>1, <2>2 DEF SessionHolds
  <2>4. \A k \in Members \ joined : active'[k] = active[k]
    BY <1>0, <2>1, <2>3 DEF DocumentsOk
  <2>5. QED BY <1>0, <2>2, <2>4 DEF Outside
<1>2. ASSUME NEW m \in Members, VerifyWrite(r, m) \/ ResetWrite(r, m)
      PROVE  Outside'
  <2>1. /\ UNCHANGED <<joined, active, challenged, links, tokens>>
        /\ verified' = [verified EXCEPT ![m] = TRUE]
    BY <1>2, VerifyWriteGoes, ResetWriteGoes
  <2>2. QED BY <1>0, <2>1 DEF Outside, DocumentsOk
<1>3. ASSUME NEW m \in Members, Revoke(r, m)
      PROVE  Outside'
  <2>1. /\ UNCHANGED <<joined, active, verified, links>> /\ tokens' = [tokens EXCEPT ![m] = 0]
        /\ pc[r] = "revoke" /\ m \in job[r].who /\ job[r].kind # "join"
        /\ challenged' = challenged \/ challenged' = challenged \cup {m}
    BY <1>3, RevokeWrites, RevokeGoes
  <2>2. m \in joined BY <1>0, <2>1 DEF SessionHolds
  <2>3. \A k \in Members : tokens[k] = 0 => tokens'[k] = 0
    BY <1>0, <2>1 DEF DocumentsOk
  <2>4. QED BY <1>0, <2>1, <2>2, <2>3 DEF Outside
<1>4. ASSUME NEW m \in Members, Issue(r, m)
      PROVE  Outside'
  <2>1. /\ UNCHANGED <<joined, active, verified, challenged, links>>
        /\ tokens' = [tokens EXCEPT ![m] = tokens[m] + 1]
        /\ pc[r] = "issue" /\ job[r].who = {m}
    BY <1>4, IssueGoes
  <2>2. m \in joined BY <1>0, <2>1 DEF SessionHolds
  <2>3. \A k \in Members \ joined : tokens'[k] = tokens[k]
    BY <1>0, <2>1, <2>2 DEF DocumentsOk
  <2>4. QED BY <1>0, <2>1, <2>3 DEF Outside
<1>5. ASSUME NEW m \in Members, Join(r, m)
      PROVE  Outside'
  BY <1>0, <1>5, JoinGoes DEF Outside
<1>6. CASE WriteAccount(r) \/ CopyToApps(r) \/ WriteMfa(r) \/ InsertApp(r)
           \/ \E m \in Members : CloseInvitation(r, m)
  <2>1. UNCHANGED <<joined, active, verified, challenged, links, tokens>>
    BY <1>6, WriteAccountGoes, CopyToAppsGoes, WriteMfaGoes, InsertAppGoes, CloseInvitationGoes
  <2>2. QED BY <1>0, <2>1 DEF Outside
<1>7. QED BY <1>1, <1>2, <1>3, <1>4, <1>5, <1>6 DEF Writes

\* A member that still holds a token is active and not suspended, or is known
\* as one whose sessions were not revoked, or will be revoked by a request that
\* the new one would overlap.
LEMMA ReadsKeepSessions ==
  ASSUME TypeInv, SessionsInv, SignInsApart', NEW r \in Requests, Decided(r), Untouched
  PROVE  SessionsInv'
<1>0. /\ UNCHANGED <<account, joined, active, verified, unrevoked>> /\ DocumentsOk
      /\ SessionsKept /\ Outside /\ pc[r] = "idle"
      /\ \A q \in Requests \ {r} : pc'[q] = pc[q] /\ job'[q] = job[q]
  BY DEF Untouched, TypeInv, SessionsInv, Decided, OthersStay
<1>1. \A m \in Members : tokens[m] = 0 => tokens'[m] = 0
  <2>1. SUFFICES ASSUME NEW m \in Members, tokens[m] = 0 PROVE tokens'[m] = 0
    OBVIOUS
  <2>2. tokens'[m] \in Nat /\ tokens'[m] <= 0
    BY <2>1, MaxTokensAssumption DEF Untouched
  <2>3. QED BY <2>2
<1>2. ASSUME NEW q \in Requests
      PROVE  SessionHolds(q)'
  <2>1. CASE q # r
    BY <1>0, <2>1 DEF SessionsInv, SessionHolds, Writing
  <2>2. CASE q = r /\ pc'[r] = "idle" BY <2>2 DEF SessionHolds, Writing
  <2>3. CASE q = r /\ pc'[r] = "write"
    <3>1. job'[r].kind \notin {"join"} => job'[r].who \subseteq joined
      BY <1>0, <2>3 DEF Decided, Outside, DocumentsOk
    <3>2. QED BY <1>0, <2>3, <3>1 DEF SessionHolds, Writing, Decided
  <2>4. CASE q = r /\ pc'[r] = "issue"
    <3>1. PICK m \in Members :
            /\ job'[r].who = {m} /\ job'[r].kind = "session"
            /\ \/ m \in joined \cup challenged /\ active[m] /\ ~account.suspended
               \/ tokens[m] > 0
      BY <2>4 DEF Decided
    <3>2. m \in joined
      BY <1>0, <3>1 DEF Outside
    <3>3. ASSUME tokens[m] > 0
          PROVE  m \in unrevoked \/ (active[m] /\ ~account.suspended)
      <4>1. SUFFICES ASSUME m \notin unrevoked, ~active[m] \/ account.suspended PROVE FALSE
        BY <1>0 DEF DocumentsOk, Account
      <4>2. Revoking(m) BY <1>0, <3>2, <3>3, <4>1 DEF SessionsKept
      <4>3. PICK p \in Requests : /\ pc[p] \in {"copy", "revoke"} /\ m \in job[p].who
                                  /\ job[p].kind \in {"member", "suspend"}
        BY <4>2 DEF Revoking
      <4>4. p # r /\ pc'[p] = pc[p] /\ job'[p] = job[p] BY <1>0, <4>3
      <4>5. QED BY <2>4, <3>1, <4>3, <4>4 DEF SignInsApart, Opening, Closing
    <3>4. QED BY <1>0, <2>4, <3>1, <3>2, <3>3 DEF SessionHolds, Writing
  <2>5. QED BY <2>1, <2>2, <2>3, <2>4 DEF Decided
<1>3. SessionsKept'
  <2>1. \A m : Revoking(m) => Revoking(m)' BY <1>0 DEF Revoking
  <2>2. joined \subseteq Members BY <1>0 DEF DocumentsOk
  <2>3. QED BY <1>0, <1>1, <2>1, <2>2 DEF SessionsKept
<1>4. Outside'
  <2>1. challenged' \subseteq joined /\ links' \subseteq {Owner}
    BY <1>0 DEF Untouched, Outside
  <2>2. QED BY <1>0, <1>1, <2>1 DEF Outside
<1>5. QED BY <1>2, <1>3, <1>4 DEF SessionsInv

LEMMA CutsKeepSessions ==
  ASSUME TypeInv, SessionsInv, NEW S \in SUBSET Requests, Cut(S)
  PROVE  SessionsInv'
<1>0. /\ UNCHANGED <<account, joined, active, verified, challenged, links, tokens>>
      /\ unrevoked \subseteq unrevoked'
  BY DEF Cut
<1>1. ASSUME NEW q \in Requests
      PROVE  SessionHolds(q)'
  <2>1. CASE q \in S BY <2>1 DEF Cut, SessionHolds, Writing
  <2>2. CASE q \notin S
    <3>1. SessionHolds(q) /\ pc'[q] = pc[q] /\ job'[q] = job[q]
      BY <2>2 DEF Cut, SessionsInv
    <3>2. QED BY <1>0, <3>1 DEF SessionHolds, Writing
  <2>3. QED BY <2>1, <2>2
<1>2. \A m : Revoking(m) => m \in unrevoked' \/ Revoking(m)'
  BY DEF Revoking, Cut
<1>3. SessionsKept' /\ Outside'
  BY <1>0, <1>2 DEF SessionsInv, SessionsKept, Outside
<1>4. QED BY <1>1, <1>3 DEF SessionsInv

LEMMA QuietKeepsSessions ==
  ASSUME TypeInv, SessionsInv, QuietStep
  PROVE  SessionsInv'
<1>0. /\ UNCHANGED <<account, joined, active, verified, challenged, pc, job, unrevoked>>
      /\ joined \subseteq Members
  BY DEF QuietStep, TypeInv, DocumentsOk
<1>1. \A m \in Members : tokens[m] = 0 => tokens'[m] = 0
  <2>1. SUFFICES ASSUME NEW m \in Members, tokens[m] = 0 PROVE tokens'[m] = 0
    OBVIOUS
  <2>2. tokens'[m] \in Nat /\ tokens'[m] <= 0
    BY <2>1, MaxTokensAssumption DEF QuietStep
  <2>3. QED BY <2>2
<1>2. \A q \in Requests : SessionHolds(q)'
  BY <1>0 DEF SessionsInv, SessionHolds, Writing
<1>3. SessionsKept' BY <1>0, <1>1 DEF SessionsInv, SessionsKept, Revoking
<1>4. links' \subseteq {Owner}
  <2>1. links \subseteq {Owner} /\ \A m \in Members : ~verified[m] => m = Owner
    BY DEF SessionsInv, Outside
  <2>2. QED BY <2>1 DEF QuietStep
<1>5. Outside' BY <1>0, <1>1, <1>4 DEF SessionsInv, Outside
<1>6. QED BY <1>2, <1>3, <1>5 DEF SessionsInv

LEMMA SessionsAlways == AccountSpec /\ []SignInsApart => []SessionsInv
<1>1. AccountInit => SessionsInv
  <2> SUFFICES ASSUME AccountInit PROVE SessionsInv
    OBVIOUS
  <2>1. \A m \in Members : active[m] /\ tokens[m] = 0 /\ (m # Owner => verified[m])
    BY DEF AccountInit
  <2>2. challenged = {} /\ links = {Owner} /\ joined = {Owner} BY DEF AccountInit
  <2>3. SessionsKept BY <2>1, <2>2, OwnerAssumption DEF SessionsKept
  <2>4. Outside BY <2>1, <2>2 DEF Outside
  <2>5. \A r \in Requests : SessionHolds(r) BY DEF AccountInit, SessionHolds, Writing
  <2>6. QED BY <2>3, <2>4, <2>5 DEF SessionsInv
<1>2. TypeInv /\ SessionsInv /\ SignInsApart /\ SignInsApart' /\ [AccountNext]_accountVars
        => SessionsInv'
  <2> SUFFICES ASSUME TypeInv, SessionsInv, SignInsApart, SignInsApart', [AccountNext]_accountVars
               PROVE  SessionsInv'
    OBVIOUS
  <2>1. ASSUME NEW r \in Requests, Writes(r)
        PROVE  SessionsInv'
    <3>1. \A q \in Requests : SessionHolds(q)' BY <2>1, StillLetsIn, OthersLetIn
    <3>2. QED BY <2>1, <3>1, WritesKeepSessions, WritesKeepOutside DEF SessionsInv
  <2>2. CASE Restart
    <3>1. \A q \in Requests : SessionHolds(q)'
      BY <2>2, RestartCopies DEF SessionsInv, SessionHolds, Writing
    <3>2. SessionsKept' /\ Outside'
      BY <2>2, RestartCopies DEF SessionsInv, SessionsKept, Revoking, Outside
    <3>3. QED BY <3>1, <3>2 DEF SessionsInv
  <2>3. QED
    BY <2>1, <2>2, StepKinds, ReadsKeepSessions, CutsKeepSessions, QuietKeepsSessions
<1>3. QED BY <1>1, <1>2, TypesAlways, PTL DEF AccountSpec

(***************************************************************************)
(* Whoever is disabled, or whose account is suspended, holds no session    *)
(* once the requests are over, and gets none later; except the members     *)
(* that a failed request did not reach and those let in by a confirmation  *)
(* link.  What it needs is that no sign-in is half-way when the account is *)
(* suspended or its member disabled: a session whose issue_tokens comes    *)
(* after the revoke_all of another request stays.                          *)
(***************************************************************************)
THEOREM SignedOutApart == AccountSpec /\ []SignInsApart => []SignedOut
<1>1. TypeInv /\ SessionsInv => SignedOut
  <2> SUFFICES ASSUME TypeInv, SessionsInv PROVE SignedOut
    OBVIOUS
  <2>1. AccountTypeOK BY DEF TypeInv, RequestsOk, DocumentsOk, AccountTypeOK
  <2>2. Quiet => \A m : ~Revoking(m) BY DEF Quiet, Revoking
  <2>3. QED BY <2>1, <2>2 DEF SessionsInv, SessionsKept, SignedOut
<1>2. QED BY <1>1, TypesAlways, SessionsAlways, PTL

-----------------------------------------------------------------------------
(***************************************************************************)
(* One slot for requests: nothing overlaps.                                *)
(***************************************************************************)
OneSlot == \A q, r \in Requests : q = r

LEMMA OneSlotApart ==
  ASSUME OneSlot
  PROVE  OwnerApart /\ CopiesApart /\ SignInsApart
BY DEF OneSlot, OwnerApart, CopiesApart, SignInsApart, Disabling, Requiring, Writing

LEMMA ApartAlways ==
  ASSUME OneSlot
  PROVE  AccountSpec => [](OwnerApart /\ CopiesApart /\ SignInsApart)
BY OneSlotApart, PTL

(***************************************************************************)
(* With one request at a time, the bound of the run: the copies on the     *)
(* apps are those of the account whenever nothing runs.                    *)
(***************************************************************************)
THEOREM CopiesFollow ==
  ASSUME OneSlot
  PROVE  AccountSpec => []CopiesExact
BY ApartAlways, CopiesExactApart, PTL

(***************************************************************************)
(* With one request at a time, whoever is disabled or suspended is out:    *)
(* revoke_all comes after every issue_tokens of a sign-in decided before.  *)
(***************************************************************************)
THEOREM DisabledAreOut ==
  ASSUME OneSlot
  PROVE  AccountSpec => []SignedOut
BY ApartAlways, SignedOutApart, PTL

(***************************************************************************)
(* With one request at a time, what update_account and mfa_disable read of *)
(* the other's field is still so when they write.                          *)
(***************************************************************************)
THEOREM OwnerStaysProtected ==
  ASSUME OneSlot
  PROVE  AccountSpec => []OwnerProtected
BY ApartAlways, OwnerProtectedApart, PTL
=============================================================================
