---------------------------- MODULE SecondFactor ----------------------------
(***************************************************************************)
(* The two-step sign-in of one member of the console: the life of the key  *)
(* of its authenticator app and of its recovery codes, the two steps of a  *)
(* login, the links received by e-mail that sign in, and the limiter of    *)
(* attempts.  Another member signs in from the same address, and a manager *)
(* may reset the factor.                                                   *)
(*                                                                         *)
(* A handler reads the member, decides on that snapshot, and $sets the     *)
(* fields it decided on in a later step:                                   *)
(*                                                                         *)
(*   pc: idle -> [write ->] [issue ->] idle                                *)
(***************************************************************************)
EXTENDS RateLimiter

CONSTANTS
  Tabs,            \* requests of the member that may overlap
  Manager,         \* the request of the owner, or of the platform admin
  RecoveryCodes,   \* codes of one set (10)
  TokenTtl,        \* life of an mfa_token, in ticks (a tick is a TOTP period)
  MaxClock, MaxSecrets, MaxSets,  \* bounds: ticks, keys and sets of codes made,
  MaxFailures      \* and attempts of all ticks that have not succeeded

ASSUME SecondFactorAssumption ==
  /\ {"password", "code"} \subseteq Identifiers
  /\ IsFiniteSet(Tabs)
  /\ Manager \notin Tabs
  /\ MaxClock \in Nat /\ MaxClock >= 2

VARIABLES
  member,    \* the fields of its document about the second factor
  verified,  \* email_verified
  link,      \* a confirmation link was sent and not used (it expires after
             \* email_verification_ttl_hours, at any time as far as we look)
  challenge, \* when its last mfa_token was issued (0: never)
  pc, job,
  secrets, sets,   \* keys and sets of recovery codes made so far
  spent,     \* history: codes accepted so far
  reused,    \* history: codes accepted again
  credit,    \* history: sign-ins accepted by a code, less the sessions opened
             \* by a password while two-step verification was on
  failures   \* history: attempts of each tick that did not succeed (so far)

historyVars == <<spent, reused, credit, failures>>
mailVars    == <<verified, link>>
factorVars  == <<member, mailVars, challenge, pc, job, secrets, sets, historyVars, limiterVars>>

Actors == Tabs \cup {Manager}

Totp(s, c)     == [kind |-> "totp", of |-> s, n |-> c]
Recovery(g, i) == [kind |-> "recovery", of |-> g, n |-> i]
RecoverySet(g) == {Recovery(g, i) : i \in 1..RecoveryCodes}

\* What the member can type: a code its app shows, showed or will show, a
\* recovery code it was given; anything else is wrong.
WrongCode == [kind |-> "wrong", of |-> 0, n |-> 0]
Codes == {Totp(s, c) : s \in 1..secrets, c \in (clock - 2)..(clock + 1)}
           \cup (UNION {RecoverySet(g) : g \in 1..sets}) \cup {WrongCode}

\* The document without a second factor; 0 stands for a field that is absent.
NoFactor == [on |-> FALSE, secret |-> 0, pending |-> 0, last |-> 0, recovery |-> {}]
NoJob == [kind |-> "none"]

\* The document m after an update_one {$set: set}.
Patch(m, set) == [f \in DOMAIN m |-> IF f \in DOMAIN set THEN set[f] ELSE m[f]]

FactorTypeOK ==
  /\ verified \in BOOLEAN /\ link \in BOOLEAN
  /\ member.on \in BOOLEAN /\ member.secret \in 0..secrets /\ member.pending \in 0..secrets
  /\ member.last \in 0..(MaxClock + 1)
  /\ member.recovery \subseteq UNION {RecoverySet(g) : g \in 1..sets}
  /\ challenge \in 0..clock
  /\ pc \in [Actors -> {"idle", "write", "issue"}]
  /\ \A p \in Actors : pc[p] = "idle" <=> job[p] = NoJob
  /\ \A k \in Keys : \A i \in DOMAIN hits[k] : hits[k][i] \in 1..clock

FactorInit ==
  /\ LimiterInit(2)
  /\ member = NoFactor
  /\ verified \in BOOLEAN /\ link = ~verified
  /\ challenge = 0
  /\ pc = [p \in Actors |-> "idle"]
  /\ job = [p \in Actors |-> NoJob]
  /\ secrets = 0 /\ sets = 0
  /\ spent = {} /\ reused = {} /\ credit = 0
  /\ failures = [t \in 1..MaxClock |-> 0]

-----------------------------------------------------------------------------
(***************************************************************************)
(* Codes.                                                                  *)
(***************************************************************************)

\* Mutant of Verifies: the last counter is not looked at.
VerifiesReplay(s, code, last) ==
  code.kind = "totp" /\ code.of = s /\ code.n \in (clock - 1)..(clock + 1)

\* totp.verify: one period of tolerance either way, no counter twice.
Verifies(s, code, last) ==
  /\ code.kind = "totp" /\ code.of = s
  /\ code.n \in (clock - 1)..(clock + 1)
  /\ code.n > last

\* _check_code on a snapshot m of the member.
Accepts(m, code) ==
  (m.secret # 0 /\ Verifies(m.secret, code, m.last)) \/ code \in m.recovery

\* The $set that uses an accepted code up.
Use(m, code) ==
  IF code.kind = "totp" THEN [last |-> code.n] ELSE [recovery |-> m.recovery \ {code}]

-----------------------------------------------------------------------------
(***************************************************************************)
(* The life of a request.                                                  *)
(***************************************************************************)

Begin(p, at, j) ==
  /\ pc[p] = "idle"
  /\ pc' = [pc EXCEPT ![p] = at]
  /\ job' = [job EXCEPT ![p] = j]

\* The attempts of the ticks ts that have not succeeded: a pair for each.
Failed(ts) == UNION {{t} \X (1..failures[t]) : t \in ts}

\* An attempt passes the limiter, and has not succeeded yet.
Attempt(id) ==
  /\ CheckAttempt(id)
  /\ Cardinality(Failed(1..clock)) < MaxFailures
  /\ failures' = [failures EXCEPT ![clock] = @ + 1]

Succeed(id, at) ==
  /\ ResetAttempts(id)
  /\ failures' = [failures EXCEPT ![at] = @ - 1]

-----------------------------------------------------------------------------
(***************************************************************************)
(* Signing in.                                                             *)
(***************************************************************************)

\* login with the right password of a confirmed address.
Login(t) ==
  /\ pc[t] = "idle" /\ verified
  /\ Attempt("password")
  /\ Begin(t, "write", [kind |-> "login", on |-> member.on, at |-> clock])
  /\ UNCHANGED <<member, mailVars, challenge, secrets, sets, spent, reused, credit, clock>>

\* A wrong password, an address that is not confirmed, or a wrong code of the
\* other member.
FailedAttempt(id) ==
  /\ Attempt(id)
  /\ UNCHANGED <<member, mailVars, challenge, pc, job, secrets, sets, spent, reused, credit, clock>>

Refused(id) ==
  /\ RefuseAttempt(id)
  /\ UNCHANGED <<member, mailVars, challenge, pc, job, secrets, sets, historyVars, clock>>

\* login ends: session_or_challenge opens a session, or gives an mfa_token
\* when the member that was read has a second factor.
LoginDone(t) ==
  /\ pc[t] = "write" /\ job[t].kind = "login"
  /\ Succeed("password", job[t].at)
  /\ IF job[t].on
     THEN /\ challenge' = clock
          /\ pc' = [pc EXCEPT ![t] = "idle"] /\ job' = [job EXCEPT ![t] = NoJob]
     ELSE /\ pc' = [pc EXCEPT ![t] = "issue"]
          /\ UNCHANGED <<challenge, job>>
  /\ UNCHANGED <<member, mailVars, secrets, sets, spent, reused, credit, clock>>

\* Mutant of ResetPassword: the link that was received is enough.
ResetPasswordOpens(t) ==
  /\ Begin(t, "issue", [kind |-> "link"])
  /\ verified' = TRUE
  /\ UNCHANGED <<member, link, challenge, secrets, sets, historyVars, limiterVars>>

\* reset_password, once its link is used: the password written, and the address
\* confirmed, the member is read again (the limiter of sign-ups guards the
\* links, not this one).  The link of the confirmation is left as it is.
ResetPassword(t) ==
  /\ pc[t] = "idle"
  /\ verified' = TRUE
  /\ IF member.on
     THEN challenge' = clock /\ UNCHANGED <<pc, job>>
     ELSE Begin(t, "issue", [kind |-> "link"]) /\ UNCHANGED challenge
  /\ UNCHANGED <<member, link, secrets, sets, historyVars, limiterVars>>

\* resend_verification reads an address to confirm, and removes its old link; ...
ResendVerification(t) ==
  /\ ~verified
  /\ Begin(t, "write", [kind |-> "resend"])
  /\ link' = FALSE
  /\ UNCHANGED <<member, verified, challenge, secrets, sets, historyVars, limiterVars>>

\* ... the new one is sent, whatever happened to the address meanwhile.
ResendDone(t) ==
  /\ pc[t] = "write" /\ job[t].kind = "resend"
  /\ link' = TRUE
  /\ pc' = [pc EXCEPT ![t] = "idle"] /\ job' = [job EXCEPT ![t] = NoJob]
  /\ UNCHANGED <<member, verified, challenge, secrets, sets, historyVars, limiterVars>>

\* verify_email: the link is used, ...
VerifyEmail(t) ==
  /\ link
  /\ Begin(t, "write", [kind |-> "verify"])
  /\ link' = FALSE
  /\ UNCHANGED <<member, verified, challenge, secrets, sets, historyVars, limiterVars>>

\* ... the address confirmed, and a session comes next, whatever the factor.
EmailVerified(t) ==
  /\ pc[t] = "write" /\ job[t].kind = "verify"
  /\ verified' = TRUE
  /\ pc' = [pc EXCEPT ![t] = "issue"]
  /\ UNCHANGED <<member, link, challenge, job, secrets, sets, historyVars, limiterVars>>

TokenValid == challenge # 0 /\ clock < challenge + TokenTtl

\* login_second_step: the code is checked on the member just read, ...
LoginSecondStep(t, code) ==
  /\ TokenValid /\ pc[t] = "idle"
  /\ Attempt("code")
  /\ IF member.on /\ Accepts(member, code)
     THEN Begin(t, "write", [kind |-> "session", set |-> Use(member, code), code |-> code, at |-> clock])
     ELSE UNCHANGED <<pc, job>>
  /\ UNCHANGED <<member, mailVars, challenge, secrets, sets, spent, reused, credit, clock>>

\* ... used up, and the attempts forgotten; the session comes next.
SecondStepDone(t) ==
  /\ pc[t] = "write" /\ job[t].kind = "session"
  /\ member' = Patch(member, job[t].set)
  /\ spent' = spent \cup {job[t].code}
  /\ reused' = reused \cup ({job[t].code} \cap spent)
  /\ credit' = credit + 1
  /\ Succeed("code", job[t].at)
  /\ pc' = [pc EXCEPT ![t] = "issue"]
  /\ UNCHANGED <<mailVars, challenge, job, secrets, sets, clock>>

\* _session.
Issue(t) ==
  /\ pc[t] = "issue"
  /\ credit' = IF member.on /\ job[t].kind # "verify" THEN credit - 1 ELSE credit
  /\ pc' = [pc EXCEPT ![t] = "idle"]
  /\ job' = [job EXCEPT ![t] = NoJob]
  /\ UNCHANGED <<member, mailVars, challenge, secrets, sets, spent, reused, failures, limiterVars>>

-----------------------------------------------------------------------------
(***************************************************************************)
(* The configuration, by the signed-in member.                             *)
(***************************************************************************)

\* mfa_setup: a key, pending until a code confirms it.
MfaSetup(t) ==
  /\ verified /\ ~member.on /\ secrets < MaxSecrets
  /\ secrets' = secrets + 1
  /\ Begin(t, "write", [kind |-> "set", set |-> [pending |-> secrets + 1], codes |-> {}])
  /\ UNCHANGED <<member, mailVars, challenge, sets, historyVars, limiterVars>>

\* mfa_enable: the key becomes the member's, with ten recovery codes.
MfaEnable(t, code) ==
  /\ ~member.on /\ member.pending # 0 /\ sets < MaxSets
  /\ Verifies(member.pending, code, 0)
  /\ sets' = sets + 1
  /\ Begin(t, "write", [kind |-> "set", codes |-> {code},
       set |-> [on |-> TRUE, secret |-> member.pending, pending |-> 0, last |-> code.n,
                recovery |-> RecoverySet(sets + 1)]])
  /\ UNCHANGED <<member, mailVars, challenge, secrets, historyVars, limiterVars>>

\* mfa_disable, where no rule makes the factor mandatory.
MfaDisable(t, code) ==
  /\ member.on /\ Accepts(member, code)
  /\ Begin(t, "write", [kind |-> "set", set |-> NoFactor, codes |-> {}])
  /\ UNCHANGED <<member, mailVars, challenge, secrets, sets, historyVars, limiterVars>>

\* mfa_new_recovery_codes: with a code of the app, not a recovery code.
MfaNewRecoveryCodes(t, code) ==
  /\ member.on /\ Verifies(member.secret, code, member.last) /\ sets < MaxSets
  /\ sets' = sets + 1
  /\ Begin(t, "write", [kind |-> "set", codes |-> {code},
       set |-> [recovery |-> RecoverySet(sets + 1), last |-> code.n]])
  /\ UNCHANGED <<member, mailVars, challenge, secrets, historyVars, limiterVars>>

\* reset_member_mfa.
ResetMemberMfa ==
  /\ member.on
  /\ Begin(Manager, "write", [kind |-> "set", set |-> NoFactor, codes |-> {}])
  /\ UNCHANGED <<member, mailVars, challenge, secrets, sets, historyVars, limiterVars>>

WriteFactor(p) ==
  /\ pc[p] = "write" /\ job[p].kind = "set"
  /\ member' = Patch(member, job[p].set)
  /\ spent' = spent \cup job[p].codes
  /\ reused' = reused \cup (job[p].codes \cap spent)
  /\ pc' = [pc EXCEPT ![p] = "idle"]
  /\ job' = [job EXCEPT ![p] = NoJob]
  /\ UNCHANGED <<mailVars, challenge, secrets, sets, credit, failures, limiterVars>>

-----------------------------------------------------------------------------
(***************************************************************************)
(* Time, exceptions and restarts.                                          *)
(***************************************************************************)

Tick ==
  /\ clock < MaxClock
  /\ clock' = clock + 1
  /\ UNCHANGED <<member, mailVars, challenge, pc, job, secrets, sets, historyVars, hits>>

\* A request ends at one of its awaits.
RequestFails(p) ==
  /\ pc[p] # "idle"
  /\ pc' = [pc EXCEPT ![p] = "idle"]
  /\ job' = [job EXCEPT ![p] = NoJob]
  /\ UNCHANGED <<member, mailVars, challenge, secrets, sets, historyVars, limiterVars>>

\* The process restarts: its requests are lost, its limiter is empty.
Restart ==
  /\ pc' = [p \in Actors |-> "idle"]
  /\ job' = [p \in Actors |-> NoJob]
  /\ ForgetAttempts
  /\ failures' = [t \in 1..MaxClock |-> 0]
  /\ UNCHANGED <<member, mailVars, challenge, secrets, sets, spent, reused, credit, clock>>

SignInNext ==
  \/ \E t \in Tabs :
       \/ Login(t) \/ LoginDone(t) \/ ResetPassword(t)
       \/ ResendVerification(t) \/ ResendDone(t) \/ VerifyEmail(t) \/ EmailVerified(t)
       \/ SecondStepDone(t) \/ Issue(t) \/ MfaSetup(t)
       \/ \E code \in Codes :
            \/ LoginSecondStep(t, code) \/ MfaEnable(t, code) \/ MfaDisable(t, code)
            \/ MfaNewRecoveryCodes(t, code)
  \/ ResetMemberMfa
  \/ \E p \in Actors : WriteFactor(p) \/ RequestFails(p)
  \/ \E id \in Identifiers \ {"code"} : FailedAttempt(id)
  \/ \E id \in Identifiers : Refused(id)
  \/ Tick \/ Restart

SignInSpec == FactorInit /\ [][SignInNext]_factorVars

-----------------------------------------------------------------------------
(***************************************************************************)
(* Properties.                                                             *)
(***************************************************************************)

(***************************************************************************)
(* "Codes can't be reused (last counter stored)" and "single-use recovery  *)
(* codes": a code is accepted once, to confirm the key, to sign in or to   *)
(* renew the recovery codes, as long as the member makes one request at a  *)
(* time, whatever a manager resets in the meantime.                        *)
(***************************************************************************)
UsedOnce == FactorTypeOK /\ reused = {}

(***************************************************************************)
(* With two-step verification on, no password is enough to open a session, *)
(* be it typed or chosen again from a received link: such a session is paid*)
(* by a code (session_or_challenge).  The link that confirms an address    *)
(* opens one without a code, and is apart.                                 *)
(***************************************************************************)
SessionsPaid == credit >= 0

(***************************************************************************)
(* "A team that often signs in from the same network must not block        *)
(* itself" (reset): the attempts counted for the address never outnumber   *)
(* those of the window that have not succeeded, whichever requests overlap.*)
(***************************************************************************)
TeamNotBlocked ==
  Len(Pruned(Ip)) <= Cardinality(Failed({t \in 1..clock : t > clock - Window}))

LimitOf(k) == IF k = Ip THEN MaxPerIp ELSE MaxAttempts

\* A place of the deque of k that is free at a later time, if nothing is added.
OpensAt(k, time) ==
  /\ time > clock
  /\ Cardinality({i \in DOMAIN hits[k] : hits[k][i] > time - Window}) < LimitOf(k)

(***************************************************************************)
(* retry_after tells the truth to an account at its own limit, and to one  *)
(* without an attempt of its own whose address is at its limit: it is      *)
(* positive, and once it has passed there is a place.  (To an account with *)
(* some attempts below its limit, the code answers from these although the *)
(* address is what refuses it.)                                            *)
(***************************************************************************)
RetryWorks ==
  \A id \in Identifiers :
    /\ Len(Pruned(id)) >= MaxAttempts => OpensAt(id, clock + RetryAfter(id))
    /\ Pruned(id) = <<>> /\ Len(Pruned(Ip)) >= MaxPerIp => OpensAt(Ip, clock + RetryAfter(id))
=============================================================================
