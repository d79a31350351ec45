------------------------------ MODULE Accounts ------------------------------
(***************************************************************************)
(* A developer account of the console: its members and those it invites,   *)
(* their sessions and second factor, its suspension by the platform admin, *)
(* and the copy of its name and suspension that each of its apps carries   *)
(* for the public catalog.                                                 *)
(*                                                                         *)
(* A request is a chain of awaits, any of which may be the last one:       *)
(*                                                                         *)
(*   pc: idle -> [write -> [copy | accept ->] [revoke ->]*] [issue ->]     *)
(*       idle                                                              *)
(*                                                                         *)
(* A session is counted by its refresh token: access tokens last minutes   *)
(* and are refused by current_admin, which reads the account again. A      *)
(* link to reset a password is taken as one more way in.                   *)
(***************************************************************************)
EXTENDS FiniteSets, Integers

CONSTANTS
  Members, Owner,  \* members of the account, the platform admin is none of them
  Apps, Names, Requests,
  NoApp, NoJob,
  MaxTokens        \* bound: refresh tokens of a member, Issue waits below it

ASSUME OwnerAssumption == Owner \in Members
ASSUME MaxTokensAssumption == MaxTokens \in Nat \ {0}

VARIABLES
  account,     \* its document
  apps,        \* the copies on its apps
  invited,     \* those that hold a usable invitation
  joined, active, verified, mfa,  \* its members
  challenged,  \* members that hold an mfa_token
  links,       \* members that have a confirmation link not used yet
  tokens,      \* refresh tokens of each member
  up, pc, job,
  torn,        \* history: copies whose update did not run to its end
  unrevoked,   \* history: members whose sessions a request failed to revoke,
               \* or let in by a link while the account was suspended
  ownerReset   \* history: the admin reset the second factor of the owner

memberVars  == <<invited, joined, active, verified, mfa>>
signInVars  == <<challenged, links, tokens>>
requestVars == <<up, pc, job>>
historyVars == <<torn, unrevoked, ownerReset>>
accountVars == <<account, apps, memberVars, signInVars, requestVars, historyVars>>

Account == [name : Names, suspended : BOOLEAN, require2fa : BOOLEAN]
Created == {a \in Apps : apps[a] # NoApp}
Copy == [name : Names, suspended : BOOLEAN]

\* What a request is doing, and the members whose sessions it closes or opens.
Jobs ==
  [kind : {"session", "verify", "reset", "join"}, who : SUBSET Members]
  \cup [kind : {"member"}, who : SUBSET Members, value : BOOLEAN]
  \cup [kind : {"suspend"}, field : {"suspended"}, value : BOOLEAN, who : SUBSET Members]
  \cup [kind : {"rename"}, field : {"name"}, value : Names, who : {{}}]
  \cup [kind : {"require"}, value : BOOLEAN, who : {{}}]
  \cup [kind : {"mfa"}, who : SUBSET Members, member : Members, value : {"off", "on"}]
  \cup [kind : {"app"}, who : {{}}, app : Apps, value : Names]

ASSUME NoneAssumption == NoApp \notin Copy /\ NoJob \notin Jobs

AccountTypeOK ==
  /\ account \in Account
  /\ apps \in [Apps -> Copy \cup {NoApp}]
  /\ invited \subseteq Members \ {Owner}
  /\ joined \subseteq Members /\ Owner \in joined
  /\ active \in [Members -> BOOLEAN]
  /\ verified \in [Members -> BOOLEAN]
  /\ mfa \in [Members -> {"off", "on"}]
  /\ challenged \subseteq Members
  /\ links \subseteq Members
  /\ tokens \in [Members -> 0..MaxTokens]
  /\ up \in BOOLEAN
  /\ pc \in [Requests -> {"idle", "write", "copy", "accept", "revoke", "issue"}]
  /\ job \in [Requests -> Jobs \cup {NoJob}]
  /\ \A r \in Requests :
       (pc[r] = "idle" <=> job[r] = NoJob) /\ (pc[r] = "revoke" => job[r].who # {})
  /\ torn \subseteq {"name", "suspended"}
  /\ unrevoked \subseteq Members
  /\ ownerReset \in BOOLEAN

\* The owner has signed up and not yet confirmed.
AccountInit ==
  /\ account \in {[name |-> n, suspended |-> FALSE, require2fa |-> FALSE] : n \in Names}
  /\ apps = [a \in Apps |-> NoApp]
  /\ invited = {} /\ joined = {Owner}
  /\ active = [m \in Members |-> TRUE]
  /\ verified = [m \in Members |-> m # Owner]
  /\ mfa = [m \in Members |-> "off"]
  /\ challenged = {}
  /\ links = {Owner}
  /\ tokens = [m \in Members |-> 0]
  /\ up = TRUE
  /\ pc = [r \in Requests |-> "idle"]
  /\ job = [r \in Requests |-> NoJob]
  /\ torn = {} /\ unrevoked = {} /\ ownerReset = FALSE

-----------------------------------------------------------------------------
(***************************************************************************)
(* The life of a request.                                                  *)
(***************************************************************************)

Start(r, at, j) ==
  /\ up /\ pc[r] = "idle"
  /\ pc' = [pc EXCEPT ![r] = at]
  /\ job' = [job EXCEPT ![r] = j]
  /\ UNCHANGED up

Step(r, at) == pc' = [pc EXCEPT ![r] = at] /\ UNCHANGED <<up, job>>

End(r) ==
  /\ pc' = [pc EXCEPT ![r] = "idle"]
  /\ job' = [job EXCEPT ![r] = NoJob]
  /\ UNCHANGED up

\* What the requests in S leave undone.
LeaveUndone(S) ==
  /\ torn' = torn
       \cup {job[r].field : r \in {q \in S : pc[q] = "copy"}}
  /\ unrevoked' = unrevoked
       \cup UNION {job[r].who : r \in {q \in S : /\ pc[q] \in {"copy", "revoke"}
                                                 /\ job[q].kind \in {"member", "suspend"}}}

\* current_admin, for a member: active, not suspended, second factor set up if required.
MayAct(m) ==
  /\ m \in joined /\ active[m] /\ ~account.suspended
  /\ account.require2fa => mfa[m] = "on"

\* The paths open before a required second factor is set up.
MaySetUp(m) == m \in joined /\ active[m] /\ ~account.suspended

\* api_key_admin: a key has the rights of a developer, and no second factor.
KeyMayAct == ~account.suspended

\* require_team_manager, for the members of this account.
TeamManager == MayAct(Owner)

\* What the public catalog shows of the account's apps (once published).
Shown == {a \in Created : ~apps[a].suspended}

-----------------------------------------------------------------------------
(***************************************************************************)
(* Signing in.                                                             *)
(***************************************************************************)

\* Mutant of Login: the suspension of the account is not read.
LoginAnyAccount(r, m) ==
  /\ m \in joined /\ active[m] /\ verified[m]
  /\ IF mfa[m] = "on"
     THEN challenged' = challenged \cup {m} /\ up /\ pc[r] = "idle" /\ UNCHANGED requestVars
     ELSE Start(r, "issue", [kind |-> "session", who |-> {m}]) /\ UNCHANGED challenged
  /\ UNCHANGED <<account, apps, memberVars, links, tokens, historyVars>>

\* session_or_challenge: a session, or the request for a code.
Login(r, m) ==
  /\ m \in joined /\ active[m] /\ verified[m] /\ ~account.suspended
  /\ IF mfa[m] = "on"
     THEN challenged' = challenged \cup {m} /\ up /\ pc[r] = "idle" /\ UNCHANGED requestVars
     ELSE Start(r, "issue", [kind |-> "session", who |-> {m}]) /\ UNCHANGED challenged
  /\ UNCHANGED <<account, apps, memberVars, links, tokens, historyVars>>

LoginSecondStep(r, m) ==
  /\ m \in challenged /\ active[m] /\ mfa[m] = "on" /\ ~account.suspended
  /\ Start(r, "issue", [kind |-> "session", who |-> {m}])
  /\ UNCHANGED <<account, apps, memberVars, signInVars, historyVars>>

\* rotate_refresh_token: the token is consumed, then a new one issued.
Refresh(r, m) ==
  /\ tokens[m] > 0
  /\ tokens' = [tokens EXCEPT ![m] = @ - 1]
  /\ Start(r, "issue", [kind |-> "session", who |-> {m}])
  /\ UNCHANGED <<account, apps, memberVars, challenged, links, historyVars>>

\* logout, or the end of the token's life.
Logout(m) ==
  /\ up /\ tokens[m] > 0
  /\ tokens' = [tokens EXCEPT ![m] = @ - 1]
  /\ UNCHANGED <<account, apps, memberVars, challenged, links, requestVars, historyVars>>

\* resend_verification: the new link replaces the last.
ResendVerification(m) ==
  /\ up /\ ~verified[m]
  /\ links' = links \cup {m}
  /\ UNCHANGED <<account, apps, memberVars, challenged, tokens, requestVars, historyVars>>

\* The link is consumed first, whatever comes of the rest.
VerifyEmail(r, m) ==
  /\ m \in links
  /\ links' = links \ {m}
  /\ Start(r, "write", [kind |-> "verify", who |-> {m}])
  /\ UNCHANGED <<account, apps, memberVars, challenged, tokens, historyVars>>

\* The address is confirmed, and an active member is let in.
VerifyWrite(r, m) ==
  /\ pc[r] = "write" /\ job[r].kind = "verify" /\ job[r].who = {m}
  /\ verified' = [verified EXCEPT ![m] = TRUE]
  /\ IF active[m] THEN Step(r, "issue") ELSE End(r)
  /\ UNCHANGED <<account, apps, invited, joined, active, mfa, signInVars, historyVars>>

ResetPassword(r, m) ==
  /\ m \in joined /\ active[m] /\ ~account.suspended
  /\ Start(r, "write", [kind |-> "reset", who |-> {m}])
  /\ UNCHANGED <<account, apps, memberVars, signInVars, historyVars>>

ResetWrite(r, m) ==
  /\ pc[r] = "write" /\ job[r].kind = "reset" /\ job[r].who = {m}
  /\ verified' = [verified EXCEPT ![m] = TRUE]
  /\ Step(r, "revoke")
  /\ UNCHANGED <<account, apps, invited, joined, active, mfa, signInVars, historyVars>>

\* issue_tokens: the last step of every way in.
Issue(r, m) ==
  /\ pc[r] = "issue" /\ job[r].who = {m}
  /\ tokens[m] < MaxTokens
  /\ tokens' = [tokens EXCEPT ![m] = @ + 1]
  /\ unrevoked' = IF job[r].kind = "verify" /\ account.suspended
                  THEN unrevoked \cup {m} ELSE unrevoked
  /\ End(r)
  /\ UNCHANGED <<account, apps, memberVars, challenged, links, torn, ownerReset>>

-----------------------------------------------------------------------------
(***************************************************************************)
(* The account.                                                            *)
(***************************************************************************)

\* By the platform admin, or for the other members by the owner.
UpdateMember(r, m, value) ==
  /\ m \in joined
  /\ Start(r, "write", [kind |-> "member", who |-> {m}, value |-> value])
  /\ UNCHANGED <<account, apps, memberVars, signInVars, historyVars>>

SuspendAccount(r, value) ==
  /\ Start(r, "write", [kind |-> "suspend", field |-> "suspended", value |-> value,
                        who |-> IF value THEN joined ELSE {}])
  /\ UNCHANGED <<account, apps, memberVars, signInVars, historyVars>>

RenameAccount(r, n) ==
  /\ TeamManager
  /\ Start(r, "write", [kind |-> "rename", field |-> "name", value |-> n, who |-> {}])
  /\ UNCHANGED <<account, apps, memberVars, signInVars, historyVars>>

\* Mutant of RequireMfa: the owner's own second factor is not looked at.
RequireMfaAnyOwner(r, value) ==
  /\ TeamManager
  /\ Start(r, "write", [kind |-> "require", value |-> value, who |-> {}])
  /\ UNCHANGED <<account, apps, memberVars, signInVars, historyVars>>

\* update_account with require_2fa: the owner sets its own up first.
RequireMfa(r, value) ==
  /\ TeamManager
  /\ value => mfa[Owner] = "on"
  /\ Start(r, "write", [kind |-> "require", value |-> value, who |-> {}])
  /\ UNCHANGED <<account, apps, memberVars, signInVars, historyVars>>

\* mfa_enable, with a key made before (SecondFactor follows the pending key),
\* and mfa_disable.
ChangeMfa(r, m, value) ==
  /\ MaySetUp(m)
  /\ CASE value = "on"  -> mfa[m] = "off"
       [] value = "off" -> mfa[m] = "on" /\ ~account.require2fa
  /\ Start(r, "write", [kind |-> "mfa", who |-> {}, member |-> m, value |-> value])
  /\ UNCHANGED <<account, apps, memberVars, signInVars, historyVars>>

\* reset_member_mfa, by the same: it also closes the sessions of the member.
ResetMemberMfa(r, m) ==
  /\ m \in joined /\ mfa[m] = "on"
  /\ Start(r, "write", [kind |-> "mfa", who |-> {m}, member |-> m, value |-> "off"])
  /\ UNCHANGED <<account, apps, memberVars, signInVars, historyVars>>

\* create_invitation and resend_invitation: the new link replaces the last; an
\* exception on the way leaves no link that works.
Invite(m) ==
  /\ up /\ TeamManager /\ m \notin joined
  /\ invited' \in {invited \cup {m}, invited \ {m}}
  /\ UNCHANGED <<account, apps, joined, active, verified, mfa, signInVars, requestVars, historyVars>>

RevokeInvitation(m) ==
  /\ up /\ TeamManager /\ m \in invited \ joined
  /\ invited' = invited \ {m}
  /\ UNCHANGED <<account, apps, joined, active, verified, mfa, signInVars, requestVars, historyVars>>

AcceptInvitation(r, m) ==
  /\ m \in invited \ joined /\ ~account.suspended
  /\ Start(r, "write", [kind |-> "join", who |-> {m}])
  /\ UNCHANGED <<account, apps, memberVars, signInVars, historyVars>>

\* The new member, unless its address was taken in the meantime, ...
Join(r, m) ==
  /\ pc[r] = "write" /\ job[r].kind = "join" /\ job[r].who = {m}
  /\ joined' = joined \cup {m}
  /\ IF m \in joined THEN End(r) ELSE Step(r, "accept")
  /\ UNCHANGED <<account, apps, invited, active, verified, mfa, signInVars, historyVars>>

\* ... then its invitation is closed, and a session opened.
CloseInvitation(r, m) ==
  /\ pc[r] = "accept" /\ job[r].who = {m}
  /\ invited' = invited \ {m}
  /\ Step(r, "issue")
  /\ UNCHANGED <<account, apps, joined, active, verified, mfa, signInVars, historyVars>>

\* create_app, by some member or with an API key (which no second factor guards):
\* the name is read here.
CreateApp(r, a) ==
  /\ KeyMayAct \/ \E m \in Members : MayAct(m)
  /\ Start(r, "write", [kind |-> "app", who |-> {}, app |-> a, value |-> account.name])
  /\ UNCHANGED <<account, apps, memberVars, signInVars, historyVars>>

-----------------------------------------------------------------------------
(***************************************************************************)
(* The writes, in the order of each handler.                               *)
(***************************************************************************)

Writing(r, kind) == pc[r] = "write" /\ job[r].kind = kind

AccountWrite(r) ==
  /\ account' = CASE Writing(r, "suspend") -> [account EXCEPT !.suspended = job[r].value]
                  [] Writing(r, "rename")  -> [account EXCEPT !.name = job[r].value]
                  [] Writing(r, "require") -> [account EXCEPT !.require2fa = job[r].value]
  /\ IF job[r].kind = "require" THEN End(r) ELSE Step(r, "copy")
  /\ UNCHANGED <<apps, memberVars, signInVars, historyVars>>

WriteAccount(r) ==
  /\ \E kind \in {"suspend", "rename", "require"} : Writing(r, kind)
  /\ AccountWrite(r)

\* update_many on the apps of the account.
CopyToApps(r) ==
  /\ pc[r] = "copy"
  /\ apps' = [a \in Apps |->
                IF a \notin Created THEN NoApp
                ELSE IF job[r].field = "name" THEN [apps[a] EXCEPT !.name = job[r].value]
                ELSE [apps[a] EXCEPT !.suspended = job[r].value]]
  /\ torn' = torn \ {job[r].field}
  /\ IF job[r].who = {} THEN End(r) ELSE Step(r, "revoke")
  /\ UNCHANGED <<account, memberVars, signInVars, unrevoked, ownerReset>>

WriteMember(r) ==
  /\ Writing(r, "member")
  /\ \E m \in job[r].who : active' = [active EXCEPT ![m] = job[r].value]
  /\ IF job[r].value THEN End(r) ELSE Step(r, "revoke")
  /\ UNCHANGED <<account, apps, invited, joined, verified, mfa, signInVars, historyVars>>

WriteMfa(r) ==
  /\ Writing(r, "mfa")
  /\ mfa' = [mfa EXCEPT ![job[r].member] = job[r].value]
  /\ ownerReset' = IF job[r].member # Owner THEN ownerReset
                   ELSE job[r].value # "on" /\ (ownerReset \/ job[r].who # {})
  /\ IF job[r].who = {} THEN End(r) ELSE Step(r, "revoke")
  /\ UNCHANGED <<account, apps, invited, joined, active, verified, signInVars, torn, unrevoked>>

\* revoke_all, member after member.
Revoke(r, m) ==
  /\ pc[r] = "revoke" /\ m \in job[r].who
  /\ tokens' = [tokens EXCEPT ![m] = 0]
  /\ unrevoked' = unrevoked \ {m}
  /\ CASE job[r].kind = "reset" /\ mfa[m] # "on" -> Step(r, "issue") /\ UNCHANGED challenged
       [] job[r].kind = "reset" /\ mfa[m] = "on" -> End(r) /\ challenged' = challenged \cup {m}
       [] OTHER ->
            /\ IF job[r].who = {m} THEN End(r)
               ELSE job' = [job EXCEPT ![r].who = @ \ {m}] /\ UNCHANGED <<up, pc>>
            /\ UNCHANGED challenged
  /\ UNCHANGED <<account, apps, memberVars, links, torn, ownerReset>>

\* The suspension is not part of the new document.
InsertApp(r) ==
  /\ Writing(r, "app")
  /\ apps[job[r].app] = NoApp
  /\ apps' = [apps EXCEPT ![job[r].app] = [name |-> job[r].value, suspended |-> FALSE]]
  /\ End(r)
  /\ UNCHANGED <<account, memberVars, signInVars, historyVars>>

-----------------------------------------------------------------------------
(***************************************************************************)
(* Failures.                                                               *)
(***************************************************************************)

\* An exception ends the handler.
Abort(r) ==
  /\ pc[r] # "idle"
  /\ LeaveUndone({r})
  /\ End(r)
  /\ UNCHANGED <<account, apps, memberVars, signInVars, ownerReset>>

Stop ==
  /\ up /\ up' = FALSE
  /\ pc' = [r \in Requests |-> "idle"]
  /\ job' = [r \in Requests |-> NoJob]
  /\ LeaveUndone(Requests)
  /\ UNCHANGED <<account, apps, memberVars, signInVars, ownerReset>>

\* Mutant of Restart: bootstrap copies the name only.
RestartCopiesName ==
  /\ ~up /\ up' = TRUE
  /\ apps' = [a \in Apps |-> IF a \in Created THEN [apps[a] EXCEPT !.name = account.name] ELSE NoApp]
  /\ torn' = {}
  /\ UNCHANGED <<account, memberVars, signInVars, pc, job, unrevoked, ownerReset>>

\* bootstrap, before the first request: name and suspension copied again.
Restart ==
  /\ ~up /\ up' = TRUE
  /\ apps' = [a \in Apps |->
                IF a \in Created
                THEN [name |-> account.name, suspended |-> account.suspended] ELSE NoApp]
  /\ torn' = {}
  /\ UNCHANGED <<account, memberVars, signInVars, pc, job, unrevoked, ownerReset>>

-----------------------------------------------------------------------------
Reads(r) ==
  \/ \E m \in Members :
       \/ Login(r, m) \/ LoginSecondStep(r, m) \/ Refresh(r, m)
       \/ VerifyEmail(r, m) \/ ResetPassword(r, m) \/ ResetMemberMfa(r, m)
       \/ AcceptInvitation(r, m)
       \/ \E value \in BOOLEAN : UpdateMember(r, m, value)
       \/ \E value \in {"off", "on"} : ChangeMfa(r, m, value)
  \/ \E value \in BOOLEAN : SuspendAccount(r, value) \/ RequireMfa(r, value)
  \/ \E n \in Names : RenameAccount(r, n)
  \/ \E a \in Apps : apps[a] = NoApp /\ CreateApp(r, a)

Writes(r) ==
  \/ WriteAccount(r) \/ CopyToApps(r) \/ WriteMember(r) \/ WriteMfa(r) \/ InsertApp(r)
  \/ \E m \in Members : \/ VerifyWrite(r, m) \/ ResetWrite(r, m) \/ Revoke(r, m) \/ Issue(r, m)
                        \/ Join(r, m) \/ CloseInvitation(r, m)

AccountNext ==
  \/ \E r \in Requests : Reads(r) \/ Writes(r) \/ Abort(r)
  \/ \E m \in Members : Logout(m) \/ ResendVerification(m) \/ Invite(m) \/ RevokeInvitation(m)
  \/ Stop \/ Restart

AccountSpec == AccountInit /\ [][AccountNext]_accountVars

-----------------------------------------------------------------------------
Quiet == \A r \in Requests : pc[r] = "idle"

(***************************************************************************)
(* What the catalog shows of the account on each app is what the account   *)
(* says: after every request that ran to its end, and after every restart  *)
(* whatever a failed one left (the startup copy of bootstrap).             *)
(***************************************************************************)
CopiesExact ==
  up /\ Quiet =>
    /\ "name" \notin torn => \A a \in Created : apps[a].name = account.name
    /\ "suspended" \notin torn => Shown = IF account.suspended THEN {} ELSE Created

(***************************************************************************)
(* "Members are signed out and can no longer sign in": a disabled member,  *)
(* and every member of a suspended account, holds no refresh token once    *)
(* the request is over, nor gets one later. Excepted are the members a     *)
(* failed request did not reach, and those let in by a confirmation link,  *)
(* which does not look at the suspension.  With the types.                 *)
(***************************************************************************)
SignedOut ==
  /\ AccountTypeOK
  /\ Quiet => \A m \in joined \ unrevoked :
                ~active[m] \/ account.suspended => tokens[m] = 0

(***************************************************************************)
(* An account that requires the second factor has an owner who uses it     *)
(* (unless the platform admin has reset the owner's since): mfa_disable    *)
(* and update_account both see to it.                                      *)
(***************************************************************************)
OwnerProtected == account.require2fa => mfa[Owner] = "on" \/ ownerReset
=============================================================================
