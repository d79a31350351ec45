------------------------------- MODULE Clients -------------------------------
(***************************************************************************)
(* The accounts of the client app: an anonymous account per device, made   *)
(* on the device's first request and turned into an e-mail account by      *)
(* register, what their library says is installed, and the push tokens     *)
(* that they hold for the devices (a device has one token, and the token   *)
(* is named by its device).                                                *)
(*                                                                         *)
(* A device sends its requests one after the other; the requests of        *)
(* different devices overlap:                                              *)
(*                                                                         *)
(*   pc: idle -> register -> idle      idle -> push -> idle                *)
(***************************************************************************)
EXTENDS Catalog, Sequences

CONSTANTS
  Devices,     \* devices of clients
  NoDevice,    \* an account that belongs to no device
  NoVersion,   \* a library that names no version of the app
  NoJob,       \* an idle device asks for nothing
  MaxTokens    \* push tokens kept by an account (10)

ASSUME ClientsAssumption ==
  /\ NoDevice \notin Devices /\ NoVersion \notin Versions
  /\ MaxTokens \in Nat \ {0}

VARIABLES
  users,    \* the accounts, in the order they were created
  session,  \* the account each device is signed in to (0: none)
  pc, job   \* step of the request of each device, and what it has read

clientVars == <<users, session, pc, job>>

\* An account that was deleted keeps its place, and has neither e-mail nor device.
Deleted == [exists |-> FALSE, anonymous |-> FALSE, email |-> NoEmail, device |-> NoDevice,
            installed |-> NoVersion, tokens |-> <<>>]

Account ==
  [exists : BOOLEAN, anonymous : BOOLEAN, email : Emails \cup {NoEmail}, device : Devices \cup {NoDevice},
   installed : Versions \cup {NoVersion}, tokens : Seq(Devices)]

\* The steps of a request, and what they keep: register, add_push_token,
\* download, view.
Steps == {"idle", "register", "push", "download", "insert", "version", "app", "view", "count"}

Jobs ==
  [email : Emails, convert : Nat] \cup [account : Nat] \cup [version : Versions, beta : BOOLEAN]
    \cup [visitor : {"user", "device", "ip"} \X (Devices \cup Nat)]

ASSUME NoJobAssumption == NoJob \notin Jobs

ClientsTypeOK ==
  /\ CatalogTypeOK
  /\ users \in Seq(Account)
  /\ session \in [Devices -> 0..Len(users)]
  /\ pc \in [Devices -> Steps]
  /\ job \in [Devices -> Jobs \cup {NoJob}]
  /\ \A d \in Devices : pc[d] = "idle" <=> job[d] = NoJob

InstalledBy(e, v) == [Deleted EXCEPT !.exists = TRUE, !.email = e, !.installed = v]

\* No account yet, or the one of a tester whose library names a beta.
ClientsInit ==
  /\ \/ users = <<>> /\ app.testers = {}
     \/ \E e \in app.testers, v \in {w \in Versions : Beta(w)} : users = <<InstalledBy(e, v)>>
  /\ session = [d \in Devices |-> 0]
  /\ pc = [d \in Devices |-> "idle"]
  /\ job = [d \in Devices |-> NoJob]

-----------------------------------------------------------------------------
(***************************************************************************)
(* Requests.                                                               *)
(***************************************************************************)

\* current_user: the access token of d names an account that still exists.
SignedIn(d) == session[d] # 0 /\ users[session[d]].exists
EmailOf(d)  == IF SignedIn(d) THEN users[session[d]].email ELSE NoEmail

Begin(d, at, j) ==
  /\ pc[d] = "idle"
  /\ pc' = [pc EXCEPT ![d] = at]
  /\ job' = [job EXCEPT ![d] = j]

End(d) ==
  /\ pc' = [pc EXCEPT ![d] = "idle"]
  /\ job' = [job EXCEPT ![d] = NoJob]

Owners(e) == {u \in DOMAIN users : users[u].exists /\ users[u].email = e}

-----------------------------------------------------------------------------
(***************************************************************************)
(* Signing in.                                                             *)
(***************************************************************************)

\* login_anonymous: one upsert finds the device's account or creates it.
LoginAnonymous(d) ==
  LET mine == {u \in DOMAIN users : users[u].device = d}
  IN  /\ pc[d] = "idle"
      /\ IF mine # {}
         THEN session' = [session EXCEPT ![d] = CHOOSE u \in mine : TRUE] /\ UNCHANGED users
         ELSE /\ users' = Append(users, [Deleted EXCEPT !.exists = TRUE, !.anonymous = TRUE, !.device = d])
              /\ session' = [session EXCEPT ![d] = Len(users) + 1]
      /\ UNCHANGED <<pc, job>>

\* register: nobody has the e-mail yet; an anonymous account will be converted.
Register(d, e) ==
  /\ Owners(e) = {}
  /\ Begin(d, "register",
           [email |-> e, convert |-> IF SignedIn(d) /\ users[session[d]].anonymous THEN session[d] ELSE 0])
  /\ UNCHANGED <<users, session>>

\* A converted account has lost its device; its library and tokens are kept.
Converted(user, e) == [user EXCEPT !.email = e, !.anonymous = FALSE, !.device = NoDevice]

\* Mutant of RegisterWrite: the check of register is trusted.
RegisterUnchecked(d) ==
  LET e == job[d].email
      u == job[d].convert
  IN  /\ pc[d] = "register"
      /\ IF u # 0 /\ ~users[u].exists
         THEN UNCHANGED <<users, session>>
         ELSE IF u # 0
              THEN users' = [users EXCEPT ![u] = Converted(@, e)] /\ UNCHANGED session
              ELSE /\ users' = Append(users, [Deleted EXCEPT !.exists = TRUE, !.email = e])
                   /\ session' = [session EXCEPT ![d] = Len(users) + 1]
      /\ End(d)

\* The account is written, unless the unique index on e-mails refuses; an
\* account deleted in the meantime is not created again.
RegisterWrite(d) ==
  LET e == job[d].email
      u == job[d].convert
  IN  /\ pc[d] = "register"
      /\ IF Owners(e) # {} \/ (u # 0 /\ ~users[u].exists)
         THEN UNCHANGED <<users, session>>
         ELSE IF u # 0
              THEN users' = [users EXCEPT ![u] = Converted(@, e)] /\ UNCHANGED session
              ELSE /\ users' = Append(users, [Deleted EXCEPT !.exists = TRUE, !.email = e])
                   /\ session' = [session EXCEPT ![d] = Len(users) + 1]
      /\ End(d)

\* login, with the right password.
Login(d, e) ==
  /\ pc[d] = "idle" /\ Owners(e) # {}
  /\ session' = [session EXCEPT ![d] = CHOOSE u \in Owners(e) : TRUE]
  /\ UNCHANGED <<users, pc, job>>

\* The device forgets its session (logout).
Logout(d) ==
  /\ pc[d] = "idle" /\ session[d] # 0
  /\ session' = [session EXCEPT ![d] = 0]
  /\ UNCHANGED <<users, pc, job>>

\* delete_account (its reviews are in Reviews).
DeleteAccount(d) ==
  /\ pc[d] = "idle" /\ SignedIn(d)
  /\ users' = [users EXCEPT ![session[d]] = Deleted]
  /\ UNCHANGED <<session, pc, job>>

-----------------------------------------------------------------------------
(***************************************************************************)
(* The library and the push tokens.                                        *)
(***************************************************************************)

\* put_library: the version that the library says is installed.
PutLibrary(d, v) ==
  /\ pc[d] = "idle" /\ SignedIn(d)
  /\ users' = [users EXCEPT ![session[d]].installed = v]
  /\ UNCHANGED <<session, pc, job>>

\* $pull: the list without the token.
Without(tokens, d) ==
  LET kept[n \in 0..Len(tokens)] ==
        IF n = 0 THEN <<>>
        ELSE IF tokens[n] = d THEN kept[n - 1] ELSE Append(kept[n - 1], tokens[n])
  IN  kept[Len(tokens)]

\* Mutant of PullEverywhere: the token is pulled from the caller's account only.
PullMine(d) == users' = [users EXCEPT ![session[d]].tokens = Without(@, d)]

PullEverywhere(d) ==
  users' = [u \in DOMAIN users |-> [users[u] EXCEPT !.tokens = Without(@, d)]]

\* add_push_token: the token is pulled from every account, ...
AddPushToken(d) ==
  /\ SignedIn(d)
  /\ PullEverywhere(d)
  /\ Begin(d, "push", [account |-> session[d]])
  /\ UNCHANGED session

\* ... then pushed to the caller's, which keeps the last MaxTokens.
Sliced(tokens) == SubSeq(tokens, IF Len(tokens) > MaxTokens THEN Len(tokens) - MaxTokens + 1 ELSE 1, Len(tokens))

PushToken(d) ==
  LET u == job[d].account
  IN  /\ pc[d] = "push"
      /\ users' = IF users[u].exists
                  THEN [users EXCEPT ![u].tokens = Sliced(Append(@, d))]
                  ELSE users
      /\ End(d)
      /\ UNCHANGED session

\* remove_push_token, for the device's own token.
RemovePushToken(d) ==
  /\ pc[d] = "idle" /\ SignedIn(d)
  /\ users' = [users EXCEPT ![session[d]].tokens = Without(@, d)]
  /\ UNCHANGED <<session, pc, job>>

\* notify_new_version: the token that it read on the account u is refused by
\* FCM or APNs, and pulled; u may have changed in any way since.
RefuseToken(u, d) ==
  /\ d \in {users[u].tokens[i] : i \in DOMAIN users[u].tokens}
  /\ users' = [users EXCEPT ![u].tokens = Without(@, d)]
  /\ UNCHANGED <<session, pc, job>>

ClientStep(d) ==
  \/ LoginAnonymous(d) \/ RegisterWrite(d) \/ Logout(d) \/ DeleteAccount(d)
  \/ \E e \in Emails : Register(d, e) \/ Login(d, e)
  \/ AddPushToken(d) \/ PushToken(d) \/ RemovePushToken(d)
=============================================================================
