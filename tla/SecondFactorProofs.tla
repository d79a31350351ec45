------------------------- MODULE SecondFactorProofs -------------------------
(***************************************************************************)
(* The two-step sign-in, for any numbers of keys, sets of recovery codes,  *)
(* identifiers and ticks, whatever a manager resets and wherever requests  *)
(* end.  Codes are accepted once when no two requests of the member have   *)
(* checked one at the same moment; the sessions of a password are paid by  *)
(* a code when no sign-in is half-way while the factor is turned on; the   *)
(* limiter blocks nobody for what succeeded, and tells an account at its   *)
(* own limit the truth, whatever overlaps.                                 *)
(***************************************************************************)
EXTENDS SecondFactor, FiniteSetTheorems, FunctionTheorems, SequenceTheorems, TLAPS

-----------------------------------------------------------------------------
(***************************************************************************)
(* The state around the codes: clock, requests, limiter.                   *)
(***************************************************************************)

JobsOK ==
  /\ pc \in [Actors -> {"idle", "write", "issue"}]
  /\ job = [p \in Actors |-> job[p]]
  /\ \A p \in Actors : pc[p] = "idle" <=> job[p] = NoJob

HitsOK == hits \in [Keys -> Seq(1..clock)]

StateOK ==
  /\ clock \in Nat /\ clock >= 2 /\ clock <= MaxClock
  /\ secrets \in Nat /\ sets \in Nat
  /\ challenge \in 0..clock
  /\ verified \in BOOLEAN /\ link \in BOOLEAN
  /\ JobsOK
  /\ HitsOK

LEMMA BeginJobs ==
  ASSUME JobsOK, NEW p \in Actors, NEW at \in {"write", "issue"}, NEW j, j.kind # "none", Begin(p, at, j)
  PROVE  JobsOK'
<1>1. j # NoJob
  BY DEF NoJob
<1> QED BY <1>1 DEF JobsOK, Begin

\* What Begin does to the requests.
LEMMA Begun ==
  ASSUME JobsOK, NEW p \in Actors, NEW at, NEW j, Begin(p, at, j)
  PROVE  /\ pc'[p] = at /\ job'[p] = j
         /\ \A q \in Actors : q # p => pc'[q] = pc[q] /\ job'[q] = job[q]
BY DEF Begin, JobsOK

LEMMA EndJobs ==
  ASSUME JobsOK, NEW p \in Actors, pc' = [pc EXCEPT ![p] = "idle"], job' = [job EXCEPT ![p] = NoJob]
  PROVE  JobsOK'
BY DEF JobsOK

LEMMA IssueJobs ==
  ASSUME JobsOK, NEW p \in Actors, pc[p] = "write", pc' = [pc EXCEPT ![p] = "issue"], job' = job
  PROVE  JobsOK'
BY DEF JobsOK

(***************************************************************************)
(* The limiter only holds times that have passed.                          *)
(***************************************************************************)
LEMMA PrunedTyped ==
  ASSUME clock \in Nat, HitsOK, NEW k \in Keys
  PROVE  Pruned(k) \in Seq(1..clock)
<1> DEFINE old == {i \in DOMAIN hits[k] : hits[k][i] <= clock - Window}
<1>1. hits[k] \in Seq(1..clock) /\ Len(hits[k]) \in Nat /\ DOMAIN hits[k] = 1..Len(hits[k])
  BY DEF HitsOK
<1>2. IsFiniteSet(1..Len(hits[k])) /\ Cardinality(1..Len(hits[k])) = Len(hits[k])
  BY <1>1, FS_Interval
<1>3. Cardinality(old) \in Nat /\ Cardinality(old) <= Len(hits[k])
  BY <1>1, <1>2, FS_Subset, FS_CardinalityType
<1>4. ASSUME NEW n \in Nat, n <= Len(hits[k])
      PROVE  SubSeq(hits[k], n + 1, Len(hits[k])) \in Seq(1..clock)
  BY <1>1
<1> HIDE DEF old
<1>5. SubSeq(hits[k], Cardinality(old) + 1, Len(hits[k])) \in Seq(1..clock)
  BY <1>3, <1>4
<1> QED BY <1>5 DEF Pruned, old

LEMMA CheckHits ==
  ASSUME clock \in Nat, clock >= 2, HitsOK, NEW id, CheckAttempt(id), UNCHANGED clock
  PROVE  HitsOK'
<1>1. ASSUME NEW k \in Keys PROVE Append(Pruned(k), clock) \in Seq(1..clock)
  <2>1. clock \in 1..clock
    OBVIOUS
  <2> QED BY <2>1, PrunedTyped
<1> QED BY <1>1 DEF CheckAttempt, HitsOK

LEMMA RefuseHits ==
  ASSUME clock \in Nat, HitsOK, NEW id, RefuseAttempt(id), UNCHANGED clock
  PROVE  HitsOK'
BY PrunedTyped DEF RefuseAttempt, HitsOK

LEMMA ResetHits ==
  ASSUME clock \in Nat, HitsOK, NEW id \in Identifiers, ResetAttempts(id), UNCHANGED clock
  PROVE  HitsOK'
<1>1. Ip \in Keys /\ id \in Keys /\ id # Ip
  BY LimiterAssumption DEF Keys
<1>2. hits[Ip] # <<>> => SubSeq(hits[Ip], 1, Len(hits[Ip]) - 1) \in Seq(1..clock)
  <2> SUFFICES ASSUME hits[Ip] # <<>> PROVE SubSeq(hits[Ip], 1, Len(hits[Ip]) - 1) \in Seq(1..clock)
    OBVIOUS
  <2>1. hits[Ip] \in Seq(1..clock)
    BY <1>1 DEF HitsOK
  <2> QED BY <2>1
<1>3. <<>> \in Seq(1..clock)
  OBVIOUS
<1> QED BY <1>1, <1>2, <1>3 DEF ResetAttempts, HitsOK

LEMMA TickHits ==
  ASSUME clock \in Nat, HitsOK, hits' = hits, clock' = clock + 1
  PROVE  HitsOK'
<1>1. ASSUME NEW k \in Keys PROVE hits[k] \in Seq(1..(clock + 1))
  <2>1. hits[k] \in Seq(1..clock)
    BY DEF HitsOK
  <2> QED BY <2>1
<1> QED BY <1>1 DEF HitsOK

(***************************************************************************)
(* Every step keeps them.                                                  *)
(***************************************************************************)
LEMMA Actor == (\A t \in Tabs : t \in Actors) /\ Manager \in Actors
BY DEF Actors

LEMMA StateInit == FactorInit => StateOK
<1> SUFFICES ASSUME FactorInit PROVE StateOK
  OBVIOUS
<1>1. JobsOK
  BY DEF FactorInit, JobsOK
<1>2. HitsOK
  BY DEF FactorInit, LimiterInit, HitsOK
<1> QED BY <1>1, <1>2, SecondFactorAssumption DEF FactorInit, LimiterInit, StateOK

LEMMA SignInKeepsState ==
  ASSUME StateOK, NEW t \in Tabs,
         Login(t) \/ LoginDone(t) \/ ResetPassword(t) \/ SecondStepDone(t) \/ Issue(t)
           \/ \E code \in Codes : LoginSecondStep(t, code)
  PROVE  StateOK'
<1> USE SecondFactorAssumption DEF mailVars
<1>0. t \in Actors /\ "password" \in Identifiers /\ "code" \in Identifiers
  BY Actor
<1>1. CASE Login(t)
  <2>1. JobsOK'
    BY <1>0, <1>1, BeginJobs DEF Login, StateOK
  <2>2. HitsOK'
    BY <1>1, CheckHits DEF Login, Attempt, StateOK
  <2> QED BY <1>1, <2>1, <2>2 DEF Login, StateOK
<1>2. CASE LoginDone(t)
  <2>1. JobsOK'
    BY <1>0, <1>2, EndJobs, IssueJobs DEF LoginDone, StateOK
  <2>2. HitsOK'
    BY <1>0, <1>2, ResetHits DEF LoginDone, Succeed, StateOK
  <2> QED BY <1>2, <2>1, <2>2 DEF LoginDone, StateOK
<1>3. CASE ResetPassword(t)
  <2>1. JobsOK'
    <3>1. CASE member.on
      BY <1>3, <3>1 DEF ResetPassword, StateOK, JobsOK
    <3>2. CASE ~member.on
      BY <1>0, <1>3, <3>2, BeginJobs DEF ResetPassword, StateOK
    <3> QED BY <3>1, <3>2
  <2> QED BY <1>3, <2>1 DEF ResetPassword, limiterVars, StateOK, HitsOK
<1>4. CASE SecondStepDone(t)
  <2>1. JobsOK'
    BY <1>0, <1>4, IssueJobs DEF SecondStepDone, StateOK
  <2>2. HitsOK'
    BY <1>0, <1>4, ResetHits DEF SecondStepDone, Succeed, StateOK
  <2> QED BY <1>4, <2>1, <2>2 DEF SecondStepDone, StateOK
<1>5. CASE Issue(t)
  <2>1. JobsOK'
    BY <1>0, <1>5, EndJobs DEF Issue, StateOK
  <2> QED BY <1>5, <2>1 DEF Issue, limiterVars, StateOK, HitsOK
<1>6. ASSUME NEW code \in Codes, LoginSecondStep(t, code) PROVE StateOK'
  <2>1. JobsOK'
    <3>1. CASE UNCHANGED <<pc, job>>
      BY <3>1 DEF StateOK, JobsOK
    <3>2. CASE Begin(t, "write", [kind |-> "session", set |-> Use(member, code), code |-> code, at |-> clock])
      BY <1>0, <3>2, BeginJobs DEF StateOK
    <3> QED BY <1>6, <3>1, <3>2 DEF LoginSecondStep
  <2>2. HitsOK'
    BY <1>6, CheckHits DEF LoginSecondStep, Attempt, StateOK
  <2> QED BY <1>6, <2>1, <2>2 DEF LoginSecondStep, StateOK
<1> QED BY <1>1, <1>2, <1>3, <1>4, <1>5, <1>6

\* The steps of the confirmation of the address.
Mail(t) == ResendVerification(t) \/ ResendDone(t) \/ VerifyEmail(t) \/ EmailVerified(t)

\* They move their request only, and write nothing of the second factor.
LEMMA MailSteps ==
  ASSUME StateOK, NEW t \in Tabs, Mail(t)
  PROVE  /\ UNCHANGED <<member, challenge, secrets, sets, spent, reused, credit, failures, hits, clock>>
         /\ \A p \in Actors : p # t => pc'[p] = pc[p] /\ job'[p] = job[p]
         /\ \/ pc'[t] = "idle"
            \/ pc'[t] = "write" /\ job'[t].kind \in {"resend", "verify"}
            \/ pc'[t] = "issue" /\ job'[t].kind = "verify"
         /\ JobsOK'
<1>0. t \in Actors /\ JobsOK
  BY Actor DEF StateOK
<1>1. UNCHANGED <<member, challenge, secrets, sets, spent, reused, credit, failures, hits, clock>>
  BY DEF Mail, ResendVerification, ResendDone, VerifyEmail, EmailVerified, historyVars, limiterVars
<1>2. ASSUME NEW j, j.kind \in {"resend", "verify"}, Begin(t, "write", j)
      PROVE  /\ \A p \in Actors : p # t => pc'[p] = pc[p] /\ job'[p] = job[p]
             /\ pc'[t] = "write" /\ job'[t].kind \in {"resend", "verify"}
             /\ JobsOK'
  BY <1>0, <1>2, Begun, BeginJobs
<1>3. CASE ResendVerification(t)
  BY <1>1, <1>2, <1>3 DEF ResendVerification
<1>4. CASE VerifyEmail(t)
  BY <1>1, <1>2, <1>4 DEF VerifyEmail
<1>5. CASE ResendDone(t)
  BY <1>0, <1>1, <1>5, EndJobs DEF ResendDone, JobsOK
<1>6. CASE EmailVerified(t)
  <2>1. JobsOK'
    BY <1>0, <1>6, IssueJobs DEF EmailVerified
  <2> QED BY <1>0, <1>1, <1>6, <2>1 DEF EmailVerified, JobsOK
<1> QED BY <1>3, <1>4, <1>5, <1>6 DEF Mail

LEMMA MailKeepsState ==
  ASSUME StateOK, NEW t \in Tabs, Mail(t)
  PROVE  StateOK'
<1>1. verified' \in BOOLEAN /\ link' \in BOOLEAN
  BY DEF Mail, ResendVerification, ResendDone, VerifyEmail, EmailVerified, StateOK
<1> QED BY <1>1, MailSteps DEF StateOK, HitsOK

LEMMA ConfigurationKeepsState ==
  ASSUME StateOK,
         \/ ResetMemberMfa
         \/ \E p \in Actors : WriteFactor(p)
         \/ \E t \in Tabs : MfaSetup(t) \/ \E code \in Codes :
              MfaEnable(t, code) \/ MfaDisable(t, code) \/ MfaNewRecoveryCodes(t, code)
  PROVE  StateOK'
<1> USE DEF mailVars
<1>1. CASE ResetMemberMfa
  <2>1. JobsOK'
    BY <1>1, Actor, BeginJobs DEF ResetMemberMfa, StateOK
  <2> QED BY <1>1, <2>1 DEF ResetMemberMfa, limiterVars, StateOK, HitsOK
<1>2. ASSUME NEW p \in Actors, WriteFactor(p) PROVE StateOK'
  <2>1. JobsOK'
    BY <1>2, EndJobs DEF WriteFactor, StateOK
  <2> QED BY <1>2, <2>1 DEF WriteFactor, limiterVars, StateOK, HitsOK
<1>3. ASSUME NEW t \in Tabs, MfaSetup(t) PROVE StateOK'
  <2>1. JobsOK'
    BY <1>3, Actor, BeginJobs DEF MfaSetup, StateOK
  <2> QED BY <1>3, <2>1 DEF MfaSetup, limiterVars, StateOK, HitsOK
<1>4. ASSUME NEW t \in Tabs, NEW code \in Codes, MfaEnable(t, code) PROVE StateOK'
  <2>1. JobsOK'
    BY <1>4, Actor, BeginJobs DEF MfaEnable, StateOK
  <2> QED BY <1>4, <2>1 DEF MfaEnable, limiterVars, StateOK, HitsOK
<1>5. ASSUME NEW t \in Tabs, NEW code \in Codes, MfaDisable(t, code) PROVE StateOK'
  <2>1. JobsOK'
    BY <1>5, Actor, BeginJobs DEF MfaDisable, StateOK
  <2> QED BY <1>5, <2>1 DEF MfaDisable, limiterVars, StateOK, HitsOK
<1>6. ASSUME NEW t \in Tabs, NEW code \in Codes, MfaNewRecoveryCodes(t, code) PROVE StateOK'
  <2>1. JobsOK'
    BY <1>6, Actor, BeginJobs DEF MfaNewRecoveryCodes, StateOK
  <2> QED BY <1>6, <2>1 DEF MfaNewRecoveryCodes, limiterVars, StateOK, HitsOK
<1> QED BY <1>1, <1>2, <1>3, <1>4, <1>5, <1>6

LEMMA EnvironmentKeepsState ==
  ASSUME StateOK,
         \/ Tick \/ Restart
         \/ \E p \in Actors : RequestFails(p)
         \/ \E id \in Identifiers : FailedAttempt(id) \/ Refused(id)
  PROVE  StateOK'
<1> USE DEF mailVars
<1>1. CASE Tick
  <2>1. HitsOK'
    BY <1>1, TickHits DEF Tick, StateOK
  <2> QED BY <1>1, <2>1, SecondFactorAssumption DEF Tick, StateOK, JobsOK
<1>2. CASE Restart
  BY <1>2 DEF Restart, ForgetAttempts, StateOK, JobsOK, HitsOK
<1>3. ASSUME NEW p \in Actors, RequestFails(p) PROVE StateOK'
  <2>1. JobsOK'
    BY <1>3, EndJobs DEF RequestFails, StateOK
  <2> QED BY <1>3, <2>1 DEF RequestFails, limiterVars, StateOK, HitsOK
<1>4. ASSUME NEW id \in Identifiers, FailedAttempt(id) PROVE StateOK'
  <2>1. HitsOK'
    BY <1>4, CheckHits DEF FailedAttempt, Attempt, StateOK
  <2> QED BY <1>4, <2>1 DEF FailedAttempt, StateOK, JobsOK
<1>5. ASSUME NEW id \in Identifiers, Refused(id) PROVE StateOK'
  <2>1. HitsOK'
    BY <1>5, RefuseHits DEF Refused, StateOK
  <2> QED BY <1>5, <2>1 DEF Refused, StateOK, JobsOK
<1> QED BY <1>1, <1>2, <1>3, <1>4, <1>5

LEMMA StateNext == StateOK /\ [SignInNext]_factorVars => StateOK'
<1> SUFFICES ASSUME StateOK, [SignInNext]_factorVars PROVE StateOK'
  OBVIOUS
<1>1. CASE SignInNext
  BY <1>1, SignInKeepsState, MailKeepsState, ConfigurationKeepsState, EnvironmentKeepsState
  DEF SignInNext, Mail
<1>2. CASE UNCHANGED factorVars
  BY <1>2 DEF factorVars, mailVars, limiterVars, StateOK, JobsOK, HitsOK
<1> QED BY <1>1, <1>2

-----------------------------------------------------------------------------
(***************************************************************************)
(* Codes that were used.                                                   *)
(***************************************************************************)

\* Codes of the first k keys, and of the first g sets of recovery codes.
TotpCodes(k)     == [kind : {"totp"}, of : 1..k, n : Nat]
RecoveryOf(g)    == [kind : {"recovery"}, of : 1..g, n : 1..RecoveryCodes]

MemberOK(m, k, g) ==
  m \in [on : BOOLEAN, secret : 0..k, pending : 0..k, last : 0..(MaxClock + 1), recovery : SUBSET RecoveryOf(g)]

\* The member m does not accept any code of sp again, nor will it once its
\* pending key is confirmed.
Safe(m, sp) ==
  /\ \A c \in sp : c.kind = "totp" => c.of # m.pending /\ (c.of = m.secret => c.n <= m.last)
  /\ m.recovery \cap sp = {}
  /\ m.secret # 0 => m.secret # m.pending

\* The codes that a request will have used once it writes.
CodesOf(j) == IF j.kind = "session" THEN {j.code} ELSE j.codes

\* A request about to write: its codes are new, and neither the member nor one
\* that was reset in the meantime accepts them after the write.
ReadyFor(j, m, sp, k, g) ==
  /\ MemberOK(Patch(m, j.set), k, g)
  /\ Safe(Patch(m, j.set), sp \cup CodesOf(j))

Ready(j, m, sp, k, g) ==
  /\ CodesOf(j) \cap sp = {}
  /\ CodesOf(j) \subseteq TotpCodes(k) \cup RecoveryOf(g)
  /\ ReadyFor(j, m, sp, k, g) /\ ReadyFor(j, NoFactor, sp, k, g)

ResetJob == [kind |-> "set", set |-> NoFactor, codes |-> {}]

CodesInv ==
  /\ MemberOK(member, secrets, sets)
  /\ spent \subseteq TotpCodes(secrets) \cup RecoveryOf(sets)
  /\ Safe(member, spent)
  /\ reused = {}
  /\ \A t \in Tabs : pc[t] = "write" /\ job[t].kind \in {"session", "set"} =>
       Ready(job[t], member, spent, secrets, sets)
  /\ pc[Manager] = "write" => job[Manager] = ResetJob

(***************************************************************************)
(* What an update does to the document.                                    *)
(***************************************************************************)
LEMMA NoFactorOK == \A k, g \in Nat : MemberOK(NoFactor, k, g)
BY SecondFactorAssumption DEF MemberOK, NoFactor

LEMMA NoFactorSafe ==
  ASSUME NEW k \in Nat, NEW g \in Nat, NEW sp \in SUBSET (TotpCodes(k) \cup RecoveryOf(g))
  PROVE  Safe(NoFactor, sp)
BY DEF Safe, NoFactor, TotpCodes, RecoveryOf

Doc(on, secret, pending, last, recovery) ==
  [on |-> on, secret |-> secret, pending |-> pending, last |-> last, recovery |-> recovery]

LEMMA PatchLast ==
  ASSUME NEW k, NEW g, NEW m, MemberOK(m, k, g), NEW x
  PROVE  Patch(m, [last |-> x]) = Doc(m.on, m.secret, m.pending, x, m.recovery)
BY DEF Patch, MemberOK, Doc

LEMMA PatchRecovery ==
  ASSUME NEW k, NEW g, NEW m, MemberOK(m, k, g), NEW x
  PROVE  Patch(m, [recovery |-> x]) = Doc(m.on, m.secret, m.pending, m.last, x)
BY DEF Patch, MemberOK, Doc

LEMMA PatchPending ==
  ASSUME NEW k, NEW g, NEW m, MemberOK(m, k, g), NEW x
  PROVE  Patch(m, [pending |-> x]) = Doc(m.on, m.secret, x, m.last, m.recovery)
BY DEF Patch, MemberOK, Doc

LEMMA PatchBoth ==
  ASSUME NEW k, NEW g, NEW m, MemberOK(m, k, g), NEW x, NEW y
  PROVE  Patch(m, [recovery |-> x, last |-> y]) = Doc(m.on, m.secret, m.pending, y, x)
BY DEF Patch, MemberOK, Doc

LEMMA PatchReset ==
  ASSUME NEW k, NEW g, NEW m, MemberOK(m, k, g)
  PROVE  Patch(m, NoFactor) = NoFactor
BY DEF Patch, MemberOK, NoFactor

\* What Safe and MemberOK ask of the fields.
LEMMA DocSafe ==
  ASSUME NEW on, NEW secret, NEW pending, NEW last, NEW recovery, NEW sp,
         \A c \in sp : c.kind = "totp" => c.of # pending /\ (c.of = secret => c.n <= last),
         recovery \cap sp = {},
         secret # 0 => secret # pending
  PROVE  Safe(Doc(on, secret, pending, last, recovery), sp)
BY DEF Doc, Safe

LEMMA OffSafe ==
  ASSUME NEW pending, NEW last, NEW recovery, NEW sp,
         \A c \in sp : c.kind = "totp" => c.of # pending /\ (c.of = 0 => c.n <= last),
         recovery \cap sp = {}
  PROVE  Safe(Doc(FALSE, 0, pending, last, recovery), sp)
BY DEF Doc, Safe

LEMMA OnSafe ==
  ASSUME NEW secret, NEW last, NEW recovery, NEW sp,
         \A c \in sp : c.kind = "totp" => c.of # 0 /\ (c.of = secret => c.n <= last),
         recovery \cap sp = {}
  PROVE  Safe(Doc(TRUE, secret, 0, last, recovery), sp)
BY DEF Doc, Safe

LEMMA DocOK ==
  ASSUME NEW k, NEW g, NEW on \in BOOLEAN, NEW secret \in 0..k, NEW pending \in 0..k,
         NEW last \in 0..(MaxClock + 1), NEW recovery \in SUBSET RecoveryOf(g)
  PROVE  MemberOK(Doc(on, secret, pending, last, recovery), k, g)
BY DEF Doc, MemberOK

LEMMA MemberFields ==
  ASSUME NEW k, NEW g, NEW m, MemberOK(m, k, g)
  PROVE  /\ m.on \in BOOLEAN /\ m.secret \in 0..k /\ m.pending \in 0..k
         /\ m.last \in 0..(MaxClock + 1) /\ m.recovery \in SUBSET RecoveryOf(g)
BY DEF MemberOK

(***************************************************************************)
(* The keys and sets made later change nothing for a document, a code or a *)
(* request.                                                                *)
(***************************************************************************)
LEMMA MemberGrows ==
  ASSUME NEW k \in Nat, NEW g \in Nat, NEW k2 \in Nat, NEW g2 \in Nat, k <= k2, g <= g2,
         NEW m, MemberOK(m, k, g)
  PROVE  MemberOK(m, k2, g2)
<1>1. RecoveryOf(g) \subseteq RecoveryOf(g2)
  BY DEF RecoveryOf
<1> QED BY <1>1 DEF MemberOK

LEMMA CodesGrow ==
  ASSUME NEW k \in Nat, NEW g \in Nat, NEW k2 \in Nat, NEW g2 \in Nat, k <= k2, g <= g2
  PROVE  TotpCodes(k) \cup RecoveryOf(g) \subseteq TotpCodes(k2) \cup RecoveryOf(g2)
BY DEF TotpCodes, RecoveryOf

LEMMA ReadyGrows ==
  ASSUME NEW k \in Nat, NEW g \in Nat, NEW k2 \in Nat, NEW g2 \in Nat, k <= k2, g <= g2,
         NEW j, NEW m, NEW sp, Ready(j, m, sp, k, g)
  PROVE  Ready(j, m, sp, k2, g2)
BY MemberGrows, CodesGrow DEF Ready, ReadyFor

(***************************************************************************)
(* The requests that are about to use a code, or to change the factor.     *)
(***************************************************************************)
LEMMA TotpReady ==
  ASSUME NEW k \in Nat, NEW g \in Nat, NEW sp \in SUBSET (TotpCodes(k) \cup RecoveryOf(g)),
         NEW m, MemberOK(m, k, g), Safe(m, sp),
         NEW code \in TotpCodes(k), code.of = m.secret, code.n > m.last, code.n <= MaxClock + 1,
         NEW j, j.set = [last |-> code.n], CodesOf(j) = {code}
  PROVE  Ready(j, m, sp, k, g)
<1> DEFINE q == Doc(m.on, m.secret, m.pending, code.n, m.recovery)
           r == Doc(FALSE, 0, 0, code.n, {})
<1> USE SecondFactorAssumption
<1>1. code \notin sp
  BY DEF Safe, TotpCodes, MemberOK
<1>2. Patch(m, j.set) = q
  BY PatchLast
<1>3. Patch(NoFactor, j.set) = r
  <2>1. MemberOK(NoFactor, k, g)
    BY NoFactorOK
  <2>2. Patch(NoFactor, j.set) = Doc(NoFactor.on, NoFactor.secret, NoFactor.pending, code.n, NoFactor.recovery)
    BY <2>1, PatchLast
  <2> QED BY <2>2 DEF NoFactor
<1>4. MemberOK(q, k, g) /\ MemberOK(r, k, g)
  <2>1. code.n \in 0..(MaxClock + 1) /\ 0 \in 0..k /\ {} \in SUBSET RecoveryOf(g)
    BY DEF TotpCodes
  <2>2. MemberOK(q, k, g)
    BY <2>1, MemberFields, DocOK
  <2>3. MemberOK(r, k, g)
    BY <2>1, DocOK
  <2> QED BY <2>2, <2>3
<1>5. Safe(q, sp \cup {code})
  <2>1. \A c \in sp \cup {code} : c.kind = "totp" => c.of # m.pending /\ (c.of = m.secret => c.n <= code.n)
    <3>1. \A c \in sp : c.kind = "totp" => c.of # m.pending /\ (c.of = m.secret => c.n <= code.n)
      BY MemberFields DEF Safe, TotpCodes, RecoveryOf
    <3>2. code.of # m.pending /\ code.n <= code.n
      BY DEF Safe, TotpCodes
    <3> QED BY <3>1, <3>2
  <2>2. m.recovery \cap (sp \cup {code}) = {}
    BY MemberFields DEF Safe, TotpCodes, RecoveryOf
  <2>3. m.secret # 0 => m.secret # m.pending
    BY DEF Safe
  <2> QED BY <2>1, <2>2, <2>3, DocSafe
<1>6. Safe(r, sp \cup {code})
  <2>1. \A c \in sp \cup {code} : c.of # 0
    BY DEF TotpCodes, RecoveryOf
  <2> QED BY <2>1 DEF Safe, Doc
<1>7. {code} \cap sp = {} /\ {code} \subseteq TotpCodes(k) \cup RecoveryOf(g)
  BY <1>1, CodesGrow
<1> QED BY <1>2, <1>3, <1>4, <1>5, <1>6, <1>7 DEF Ready, ReadyFor

LEMMA RecoveryReady ==
  ASSUME NEW k \in Nat, NEW g \in Nat, NEW sp \in SUBSET (TotpCodes(k) \cup RecoveryOf(g)),
         NEW m, MemberOK(m, k, g), Safe(m, sp), NEW code \in m.recovery,
         NEW j, j.set = [recovery |-> m.recovery \ {code}], CodesOf(j) = {code}
  PROVE  Ready(j, m, sp, k, g)
<1> DEFINE q == Doc(m.on, m.secret, m.pending, m.last, m.recovery \ {code})
           r == Doc(FALSE, 0, 0, 0, m.recovery \ {code})
<1> USE SecondFactorAssumption
<1>1. code \in RecoveryOf(g) /\ code \notin sp
  BY DEF Safe, MemberOK
<1>2. Patch(m, j.set) = q
  BY PatchRecovery
<1>3. Patch(NoFactor, j.set) = r
  <2>1. MemberOK(NoFactor, k, g)
    BY NoFactorOK
  <2>2. Patch(NoFactor, j.set) = Doc(NoFactor.on, NoFactor.secret, NoFactor.pending, NoFactor.last, m.recovery \ {code})
    BY <2>1, PatchRecovery
  <2> QED BY <2>2 DEF NoFactor
<1>4. MemberOK(q, k, g) /\ MemberOK(r, k, g)
  <2>1. m.recovery \ {code} \in SUBSET RecoveryOf(g) /\ 0 \in 0..k /\ 0 \in 0..(MaxClock + 1)
    BY MemberFields
  <2>2. MemberOK(q, k, g)
    BY <2>1, MemberFields, DocOK
  <2>3. MemberOK(r, k, g)
    BY <2>1, DocOK
  <2> QED BY <2>2, <2>3
<1>5. Safe(q, sp \cup {code})
  <2>1. \A c \in sp \cup {code} : c.kind = "totp" => c.of # m.pending /\ (c.of = m.secret => c.n <= m.last)
    BY <1>1 DEF Safe, RecoveryOf
  <2>2. (m.recovery \ {code}) \cap (sp \cup {code}) = {}
    BY DEF Safe
  <2>3. m.secret # 0 => m.secret # m.pending
    BY DEF Safe
  <2> QED BY <2>1, <2>2, <2>3, DocSafe
<1>6. Safe(r, sp \cup {code})
  <2>1. \A c \in sp \cup {code} : c.kind = "totp" => c.of # 0 /\ (c.of = 0 => c.n <= 0)
    BY <1>1 DEF TotpCodes, RecoveryOf
  <2>2. (m.recovery \ {code}) \cap (sp \cup {code}) = {}
    BY DEF Safe
  <2> QED BY <2>1, <2>2, OffSafe
<1>7. {code} \cap sp = {} /\ {code} \subseteq TotpCodes(k) \cup RecoveryOf(g)
  BY <1>1, CodesGrow
<1> QED BY <1>2, <1>3, <1>4, <1>5, <1>6, <1>7 DEF Ready, ReadyFor

LEMMA SetupReady ==
  ASSUME NEW k \in Nat, NEW g \in Nat, NEW sp \in SUBSET (TotpCodes(k) \cup RecoveryOf(g)),
         NEW m, MemberOK(m, k, g), Safe(m, sp),
         NEW j, j.set = [pending |-> k + 1], CodesOf(j) = {}
  PROVE  Ready(j, m, sp, k + 1, g)
<1> DEFINE q == Doc(m.on, m.secret, k + 1, m.last, m.recovery)
           r == Doc(FALSE, 0, k + 1, 0, {})
<1> USE SecondFactorAssumption
<1>1. k + 1 \in Nat /\ MemberOK(m, k + 1, g)
  <2>1. k + 1 \in Nat /\ k <= k + 1 /\ g <= g
    OBVIOUS
  <2>2. MemberOK(m, k + 1, g)
    BY ONLY <2>1, MemberOK(m, k, g), k \in Nat, g \in Nat, MemberGrows
  <2> QED BY <2>1, <2>2
<1>2. Patch(m, j.set) = q
  BY PatchPending
<1>3. Patch(NoFactor, j.set) = r
  <2>1. MemberOK(NoFactor, k, g)
    BY NoFactorOK
  <2>2. Patch(NoFactor, j.set) = Doc(NoFactor.on, NoFactor.secret, k + 1, NoFactor.last, NoFactor.recovery)
    BY <2>1, PatchPending
  <2> QED BY <2>2 DEF NoFactor
<1>4. MemberOK(q, k + 1, g) /\ MemberOK(r, k + 1, g)
  <2>1. k + 1 \in 0..(k + 1) /\ 0 \in 0..(k + 1) /\ 0 \in 0..(MaxClock + 1) /\ {} \in SUBSET RecoveryOf(g)
    OBVIOUS
  <2>2. MemberOK(q, k + 1, g)
    BY <1>1, <2>1, MemberFields, DocOK
  <2>3. MemberOK(r, k + 1, g)
    BY <2>1, DocOK
  <2> QED BY <2>2, <2>3
<1>5. Safe(q, sp)
  <2>1. \A c \in sp : c.kind = "totp" => c.of # k + 1 /\ (c.of = m.secret => c.n <= m.last)
    BY DEF Safe, TotpCodes, RecoveryOf
  <2>2. m.recovery \cap sp = {} /\ (m.secret # 0 => m.secret # k + 1)
    BY MemberFields DEF Safe
  <2> QED BY <2>1, <2>2, DocSafe
<1>6. Safe(r, sp)
  <2>1. \A c \in sp : c.kind = "totp" => c.of # k + 1 /\ (c.of = 0 => c.n <= 0)
    BY DEF TotpCodes, RecoveryOf
  <2>2. {} \cap sp = {}
    OBVIOUS
  <2> QED BY <2>1, <2>2, OffSafe
<1>7. sp \cup {} = sp
  OBVIOUS
<1> QED BY <1>2, <1>3, <1>4, <1>5, <1>6, <1>7 DEF Ready, ReadyFor

\* A set of recovery codes made now holds none that was used.
LEMMA FreshSet ==
  ASSUME NEW k \in Nat, NEW g \in Nat, NEW sp \in SUBSET (TotpCodes(k) \cup RecoveryOf(g))
  PROVE  RecoverySet(g + 1) \subseteq RecoveryOf(g + 1) /\ RecoverySet(g + 1) \cap sp = {}
BY DEF RecoverySet, Recovery, RecoveryOf, TotpCodes

LEMMA NewCodesReady ==
  ASSUME NEW k \in Nat, NEW g \in Nat, NEW sp \in SUBSET (TotpCodes(k) \cup RecoveryOf(g)),
         NEW m, MemberOK(m, k, g), Safe(m, sp),
         NEW code \in TotpCodes(k), code.of = m.secret, code.n > m.last, code.n <= MaxClock + 1,
         NEW j, j.set = [recovery |-> RecoverySet(g + 1), last |-> code.n], CodesOf(j) = {code}
  PROVE  Ready(j, m, sp, k, g + 1)
<1> DEFINE q == Doc(m.on, m.secret, m.pending, code.n, RecoverySet(g + 1))
           r == Doc(FALSE, 0, 0, code.n, RecoverySet(g + 1))
<1> USE SecondFactorAssumption
<1>1. code \notin sp /\ RecoverySet(g + 1) \cap (sp \cup {code}) = {} /\ RecoverySet(g + 1) \subseteq RecoveryOf(g + 1)
  <2>1. code \notin sp
    BY DEF Safe, TotpCodes, MemberOK
  <2>2. code \notin RecoverySet(g + 1)
    BY DEF TotpCodes, RecoverySet, Recovery
  <2> QED BY <2>1, <2>2, FreshSet
<1>2. Patch(m, j.set) = q
  BY PatchBoth
<1>3. Patch(NoFactor, j.set) = r
  <2>1. MemberOK(NoFactor, k, g)
    BY NoFactorOK
  <2>2. Patch(NoFactor, j.set) = Doc(NoFactor.on, NoFactor.secret, NoFactor.pending, code.n, RecoverySet(g + 1))
    BY <2>1, PatchBoth
  <2> QED BY <2>2 DEF NoFactor
<1>4. MemberOK(q, k, g + 1) /\ MemberOK(r, k, g + 1)
  <2>1. /\ code.n \in 0..(MaxClock + 1) /\ 0 \in 0..k
        /\ RecoverySet(g + 1) \in SUBSET RecoveryOf(g + 1)
    BY <1>1 DEF TotpCodes
  <2>2. MemberOK(q, k, g + 1)
    BY <2>1, MemberFields, DocOK
  <2>3. MemberOK(r, k, g + 1)
    BY <2>1, DocOK
  <2> QED BY <2>2, <2>3
<1>5. Safe(q, sp \cup {code})
  <2>1. \A c \in sp \cup {code} : c.kind = "totp" => c.of # m.pending /\ (c.of = m.secret => c.n <= code.n)
    <3>1. \A c \in sp : c.kind = "totp" => c.of # m.pending /\ (c.of = m.secret => c.n <= code.n)
      BY MemberFields DEF Safe, TotpCodes, RecoveryOf
    <3>2. code.of # m.pending /\ code.n <= code.n
      BY DEF Safe, TotpCodes
    <3> QED BY <3>1, <3>2
  <2>2. m.secret # 0 => m.secret # m.pending
    BY DEF Safe
  <2> QED BY <1>1, <2>1, <2>2, DocSafe
<1>6. Safe(r, sp \cup {code})
  <2>1. \A c \in sp \cup {code} : c.kind = "totp" => c.of # 0 /\ (c.of = 0 => c.n <= code.n)
    BY DEF TotpCodes, RecoveryOf
  <2>2. RecoverySet(g + 1) \cap (sp \cup {code}) = {}
    BY <1>1
  <2> QED BY <2>1, <2>2, OffSafe
<1>7. {code} \cap sp = {} /\ {code} \subseteq TotpCodes(k) \cup RecoveryOf(g + 1)
  BY <1>1, CodesGrow
<1> QED BY <1>2, <1>3, <1>4, <1>5, <1>6, <1>7 DEF Ready, ReadyFor

LEMMA EnableReady ==
  ASSUME NEW k \in Nat, NEW g \in Nat, NEW sp \in SUBSET (TotpCodes(k) \cup RecoveryOf(g)),
         NEW m, MemberOK(m, k, g), Safe(m, sp),
         NEW code \in TotpCodes(k), code.of = m.pending, code.n <= MaxClock + 1,
         NEW j, j.set = Doc(TRUE, m.pending, 0, code.n, RecoverySet(g + 1)), CodesOf(j) = {code}
  PROVE  Ready(j, m, sp, k, g + 1)
<1> DEFINE q == Doc(TRUE, m.pending, 0, code.n, RecoverySet(g + 1))
<1> USE SecondFactorAssumption
<1>1. code \notin sp /\ RecoverySet(g + 1) \cap (sp \cup {code}) = {} /\ RecoverySet(g + 1) \subseteq RecoveryOf(g + 1)
  <2>1. code \notin sp
    BY DEF Safe, TotpCodes
  <2>2. code \notin RecoverySet(g + 1)
    BY DEF TotpCodes, RecoverySet, Recovery
  <2> QED BY <2>1, <2>2, FreshSet
<1>2. MemberOK(q, k, g + 1)
  <2>1. /\ code.n \in 0..(MaxClock + 1) /\ 0 \in 0..k /\ m.pending \in 0..k
        /\ RecoverySet(g + 1) \in SUBSET RecoveryOf(g + 1)
    BY <1>1, MemberFields DEF TotpCodes
  <2> QED BY <2>1, DocOK
<1>3. Safe(q, sp \cup {code})
  <2>1. \A c \in sp : c.kind = "totp" => c.of # 0 /\ c.of # m.pending
    BY DEF Safe, TotpCodes, RecoveryOf
  <2>2. code.of # 0 /\ code.n <= code.n
    BY DEF TotpCodes
  <2>3. \A c \in sp \cup {code} : c.kind = "totp" => c.of # 0 /\ (c.of = m.pending => c.n <= code.n)
    BY <2>1, <2>2
  <2> QED BY <1>1, <2>3, OnSafe
<1>4. Patch(m, j.set) = q /\ Patch(NoFactor, j.set) = q
  <2>1. MemberOK(NoFactor, k, g)
    BY NoFactorOK
  <2>2. Patch(NoFactor, q) = q
    BY <2>1 DEF Patch, MemberOK, Doc
  <2>3. Patch(m, q) = q
    BY DEF Patch, MemberOK, Doc
  <2> QED BY <2>2, <2>3
<1>5. {code} \cap sp = {} /\ {code} \subseteq TotpCodes(k) \cup RecoveryOf(g + 1)
  BY <1>1
<1> QED BY <1>2, <1>3, <1>4, <1>5 DEF Ready, ReadyFor

LEMMA ResetReady ==
  ASSUME NEW k \in Nat, NEW g \in Nat, NEW sp \in SUBSET (TotpCodes(k) \cup RecoveryOf(g)),
         NEW m, MemberOK(m, k, g), NEW j, j.set = NoFactor, CodesOf(j) = {}
  PROVE  Ready(j, m, sp, k, g)
<1>1. Patch(m, NoFactor) = NoFactor /\ Patch(NoFactor, NoFactor) = NoFactor
  BY NoFactorOK, PatchReset
<1>2. MemberOK(NoFactor, k, g) /\ Safe(NoFactor, sp)
  BY NoFactorOK, NoFactorSafe
<1> QED BY <1>1, <1>2 DEF Ready, ReadyFor

(***************************************************************************)
(* Every step keeps them, when no two requests of the member have both     *)
(* checked what they are about to write: logins, links and the opening of  *)
(* sessions may overlap them, and so may the manager.                      *)
(***************************************************************************)
Using(t) == pc[t] = "write" /\ job[t].kind \in {"session", "set"}

CodesApart == \A s, t \in Tabs : Using(s) /\ Using(t) => s = t

LEMMA CodesInit == FactorInit => CodesInv
<1> SUFFICES ASSUME FactorInit PROVE CodesInv
  OBVIOUS
<1>1. MemberOK(member, secrets, sets) /\ Safe(member, spent)
  BY NoFactorOK DEF FactorInit, Safe, NoFactor
<1>2. \A p \in Actors : pc[p] # "write"
  BY DEF FactorInit
<1> QED BY <1>1, <1>2, Actor DEF FactorInit, CodesInv

\* A step that leaves the document alone.
LEMMA CodesKept ==
  ASSUME StateOK, CodesInv, UNCHANGED <<member, spent, reused>>,
         secrets' \in Nat, sets' \in Nat, secrets <= secrets', sets <= sets',
         \A t \in Tabs : pc'[t] = "write" /\ job'[t].kind \in {"session", "set"} =>
           \/ (pc[t] = "write" /\ job'[t] = job[t])
           \/ Ready(job'[t], member, spent, secrets', sets'),
         pc'[Manager] = "write" =>
           \/ (pc[Manager] = "write" /\ job'[Manager] = job[Manager])
           \/ job'[Manager] = ResetJob
  PROVE  CodesInv'
<1> USE DEF StateOK
<1>1. MemberOK(member, secrets', sets')
  BY MemberGrows DEF CodesInv
<1>2. spent \subseteq TotpCodes(secrets') \cup RecoveryOf(sets')
  BY CodesGrow DEF CodesInv
<1>3. ASSUME NEW t \in Tabs, pc'[t] = "write", job'[t].kind \in {"session", "set"}
      PROVE  Ready(job'[t], member, spent, secrets', sets')
  <2>1. CASE pc[t] = "write" /\ job'[t] = job[t]
    <3>1. Ready(job'[t], member, spent, secrets, sets)
      BY <1>3, <2>1 DEF CodesInv
    <3> QED BY <3>1, ReadyGrows
  <2> QED BY <1>3, <2>1
<1> QED BY <1>1, <1>2, <1>3 DEF CodesInv

\* The write of a request of the member: no other is about to write.
LEMMA CodesWritten ==
  ASSUME StateOK, CodesInv, CodesApart, NEW t \in Tabs,
         pc[t] = "write", job[t].kind \in {"session", "set"}, pc'[t] # "write",
         \A p \in Actors \ {t} : pc'[p] = pc[p] /\ job'[p] = job[p],
         member' = Patch(member, job[t].set),
         spent' = spent \cup CodesOf(job[t]), reused' = reused \cup (CodesOf(job[t]) \cap spent),
         UNCHANGED <<secrets, sets>>
  PROVE  CodesInv'
<1>1. Ready(job[t], member, spent, secrets, sets)
  BY DEF CodesInv
<1>2. MemberOK(member', secrets, sets) /\ Safe(member', spent')
  BY <1>1 DEF Ready, ReadyFor
<1>3. spent' \subseteq TotpCodes(secrets) \cup RecoveryOf(sets) /\ reused' = {}
  BY <1>1 DEF Ready, CodesInv
<1>4. \A s \in Tabs : ~(pc'[s] = "write" /\ job'[s].kind \in {"session", "set"})
  BY Actor DEF CodesApart, Using
<1>5. pc'[Manager] = pc[Manager] /\ job'[Manager] = job[Manager]
  BY Actor, SecondFactorAssumption
<1> QED BY <1>2, <1>3, <1>4, <1>5 DEF CodesInv

\* The write of the manager: a request of the member may be about to write.
LEMMA CodesReset ==
  ASSUME StateOK, CodesInv, WriteFactor(Manager)
  PROVE  CodesInv'
<1> USE DEF StateOK
<1>1. job[Manager] = ResetJob
  BY DEF WriteFactor, CodesInv
<1>2. member' = NoFactor /\ spent' = spent /\ reused' = reused /\ UNCHANGED <<secrets, sets>>
  BY <1>1, PatchReset DEF WriteFactor, ResetJob, CodesInv
<1>3. MemberOK(NoFactor, secrets, sets) /\ Safe(NoFactor, spent)
  BY NoFactorOK, NoFactorSafe DEF CodesInv
<1>4. pc'[Manager] = "idle" /\ \A t \in Tabs : pc'[t] = pc[t] /\ job'[t] = job[t]
  BY Actor, SecondFactorAssumption DEF WriteFactor, JobsOK
<1>5. ASSUME NEW t \in Tabs, pc[t] = "write", job[t].kind \in {"session", "set"}
      PROVE  Ready(job[t], NoFactor, spent, secrets, sets)
  BY <1>5 DEF CodesInv, Ready
<1> QED BY <1>2, <1>3, <1>4, <1>5 DEF CodesInv

LEMMA VerifiedCode ==
  ASSUME StateOK, NEW code \in Codes, NEW s, NEW last, Verifies(s, code, last)
  PROVE  code \in TotpCodes(secrets) /\ code.of = s /\ code.n > last /\ code.n <= MaxClock + 1
<1>1. code.kind = "totp" /\ code.of = s /\ code.n > last
  BY DEF Verifies
<1>2. code \notin (UNION {RecoverySet(g) : g \in 1..sets}) \cup {WrongCode}
  BY <1>1 DEF RecoverySet, Recovery, WrongCode
<1>3. PICK s0 \in 1..secrets, c \in (clock - 2)..(clock + 1) : code = Totp(s0, c)
  BY <1>2 DEF Codes
<1>4. code = [kind |-> "totp", of |-> s0, n |-> c] /\ c \in Nat /\ c <= MaxClock + 1
  BY <1>3, SecondFactorAssumption DEF Totp, StateOK
<1> QED BY <1>1, <1>4 DEF TotpCodes

LEMMA AcceptedReady ==
  ASSUME StateOK, CodesInv, NEW code \in Codes, Accepts(member, code), NEW j,
         j.set = Use(member, code), CodesOf(j) = {code}
  PROVE  Ready(j, member, spent, secrets, sets)
<1>1. CASE code \in member.recovery
  <2>1. code.kind = "recovery"
    BY <1>1 DEF CodesInv, MemberOK, RecoveryOf
  <2>2. j.set = [recovery |-> member.recovery \ {code}]
    BY <2>1 DEF Use
  <2> QED BY <1>1, <2>2, RecoveryReady DEF CodesInv, StateOK
<1>2. CASE Verifies(member.secret, code, member.last)
  <2>1. j.set = [last |-> code.n]
    BY <1>2 DEF Use, Verifies
  <2> QED BY <1>2, <2>1, VerifiedCode, TotpReady DEF CodesInv, StateOK
<1> QED BY <1>1, <1>2 DEF Accepts

\* A request of the member begins: the others, and the manager's, do not move.
LEMMA CodesBegun ==
  ASSUME StateOK, CodesInv, NEW t \in Tabs, NEW j, NEW at \in {"write", "issue"}, Begin(t, at, j),
         UNCHANGED <<member, spent, reused>>,
         secrets' \in Nat, sets' \in Nat, secrets <= secrets', sets <= sets',
         at = "write" /\ j.kind \in {"session", "set"} => Ready(j, member, spent, secrets', sets')
  PROVE  CodesInv'
<1>1. t \in Actors /\ Manager # t
  BY Actor, SecondFactorAssumption
<1>2. /\ pc'[t] = at /\ job'[t] = j
      /\ \A q \in Actors : q # t => pc'[q] = pc[q] /\ job'[q] = job[q]
  BY <1>1, Begun DEF StateOK
<1>3. pc'[Manager] = pc[Manager] /\ job'[Manager] = job[Manager]
  BY <1>1, <1>2, Actor
<1>4. ASSUME NEW s \in Tabs, pc'[s] = "write", job'[s].kind \in {"session", "set"}
      PROVE  \/ (pc[s] = "write" /\ job'[s] = job[s])
             \/ Ready(job'[s], member, spent, secrets', sets')
  BY <1>2, <1>4, Actor
<1> QED BY <1>3, <1>4, CodesKept

LEMMA SignInKeepsCodes ==
  ASSUME StateOK, CodesInv, CodesApart, NEW t \in Tabs,
         Login(t) \/ LoginDone(t) \/ ResetPassword(t) \/ SecondStepDone(t) \/ Issue(t)
           \/ \E code \in Codes : LoginSecondStep(t, code)
  PROVE  CodesInv'
<1>0. t \in Actors /\ Manager \in Actors /\ Manager # t /\ secrets \in Nat /\ sets \in Nat
  BY Actor, SecondFactorAssumption DEF StateOK
<1>1. CASE Login(t)
  <2> DEFINE j == [kind |-> "login", on |-> member.on, at |-> clock]
  <2>1. Begin(t, "write", j) /\ j.kind \notin {"session", "set"}
    BY <1>1 DEF Login
  <2>2. UNCHANGED <<member, spent, reused, secrets, sets>>
    BY <1>1 DEF Login
  <2> HIDE DEF j
  <2> QED BY <1>0, <2>1, <2>2, CodesBegun
<1>2. CASE LoginDone(t)
  <2>1. \A p \in Actors : pc'[p] # pc[p] => pc'[p] # "write"
    BY <1>2 DEF LoginDone, StateOK, JobsOK
  <2>2. \A p \in Actors : pc'[p] = "write" => job'[p] = job[p]
    BY <1>2 DEF LoginDone, StateOK, JobsOK
  <2> QED BY <1>0, <1>2, <2>1, <2>2, Actor, CodesKept DEF LoginDone
<1>3. CASE ResetPassword(t)
  <2>1. UNCHANGED <<member, spent, reused, secrets, sets>>
    BY <1>3 DEF ResetPassword, historyVars
  <2>2. CASE member.on
    BY <1>0, <1>3, <2>1, <2>2, CodesKept DEF ResetPassword
  <2>3. CASE ~member.on
    <3>1. Begin(t, "issue", [kind |-> "link"])
      BY <1>3, <2>3 DEF ResetPassword
    <3> QED BY <1>0, <2>1, <3>1, CodesBegun
  <2> QED BY <2>2, <2>3
<1>4. CASE SecondStepDone(t)
  <2>1. pc'[t] # "write" /\ \A p \in Actors \ {t} : pc'[p] = pc[p] /\ job'[p] = job[p]
    BY <1>0, <1>4 DEF SecondStepDone, StateOK, JobsOK
  <2>2. CodesOf(job[t]) = {job[t].code}
    BY <1>4 DEF SecondStepDone, CodesOf
  <2> QED BY <1>4, <2>1, <2>2, CodesWritten DEF SecondStepDone
<1>5. CASE Issue(t)
  <2>1. \A p \in Actors : pc'[p] = "write" => pc[p] = "write" /\ job'[p] = job[p]
    BY <1>5 DEF Issue, StateOK, JobsOK
  <2> QED BY <1>0, <1>5, <2>1, Actor, CodesKept DEF Issue
<1>6. ASSUME NEW code \in Codes, LoginSecondStep(t, code) PROVE CodesInv'
  <2> DEFINE j == [kind |-> "session", set |-> Use(member, code), code |-> code, at |-> clock]
  <2>1. UNCHANGED <<member, spent, reused, secrets, sets>>
    BY <1>6 DEF LoginSecondStep
  <2>2. CASE Accepts(member, code) /\ Begin(t, "write", j)
    <3>1. j.set = Use(member, code) /\ CodesOf(j) = {code}
      BY DEF CodesOf
    <3> HIDE DEF j
    <3>2. Ready(j, member, spent, secrets, sets)
      BY <2>2, <3>1, AcceptedReady
    <3> QED BY <1>0, <2>1, <2>2, <3>2, CodesBegun
  <2>3. CASE UNCHANGED <<pc, job>>
    BY <1>0, <2>1, <2>3, CodesKept
  <2> QED BY <1>6, <2>2, <2>3 DEF LoginSecondStep
<1> QED BY <1>1, <1>2, <1>3, <1>4, <1>5, <1>6

LEMMA MailKeepsCodes ==
  ASSUME StateOK, CodesInv, NEW t \in Tabs, Mail(t)
  PROVE  CodesInv'
<1>1. UNCHANGED <<member, spent, reused, secrets, sets>> /\ secrets \in Nat /\ sets \in Nat
  BY MailSteps DEF StateOK
<1>2. \A s \in Tabs : pc'[s] = "write" /\ job'[s].kind \in {"session", "set"} =>
        pc[s] = "write" /\ job'[s] = job[s]
  BY MailSteps, Actor
<1>3. pc'[Manager] = pc[Manager] /\ job'[Manager] = job[Manager]
  BY MailSteps, Actor, SecondFactorAssumption
<1> QED BY <1>1, <1>2, <1>3, CodesKept

LEMMA ConfigurationKeepsCodes ==
  ASSUME StateOK, CodesInv, CodesApart,
         \/ ResetMemberMfa
         \/ \E p \in Actors : WriteFactor(p)
         \/ \E t \in Tabs : MfaSetup(t) \/ \E code \in Codes :
              MfaEnable(t, code) \/ MfaDisable(t, code) \/ MfaNewRecoveryCodes(t, code)
  PROVE  CodesInv'
<1>0. /\ secrets \in Nat /\ sets \in Nat /\ secrets + 1 \in Nat /\ sets + 1 \in Nat
      /\ MemberOK(member, secrets, sets) /\ Safe(member, spent)
      /\ spent \in SUBSET (TotpCodes(secrets) \cup RecoveryOf(sets))
  BY DEF StateOK, CodesInv
<1>1. CASE ResetMemberMfa
  <2>1. Begin(Manager, "write", ResetJob) /\ UNCHANGED <<member, spent, reused, secrets, sets>>
    BY <1>1 DEF ResetMemberMfa, historyVars, ResetJob
  <2>2. /\ pc'[Manager] = "write" /\ job'[Manager] = ResetJob
        /\ \A t \in Tabs : pc'[t] = pc[t] /\ job'[t] = job[t]
    BY <2>1, Begun, Actor, SecondFactorAssumption DEF StateOK
  <2> QED BY <1>0, <2>1, <2>2, CodesKept
<1>2. ASSUME NEW p \in Actors, WriteFactor(p) PROVE CodesInv'
  <2>1. CASE p = Manager
    BY <1>2, <2>1, CodesReset
  <2>2. CASE p \in Tabs
    <3>1. p # Manager /\ Manager \in Actors
      BY <2>2, Actor, SecondFactorAssumption
    <3>2. pc'[p] # "write" /\ \A q \in Actors \ {p} : pc'[q] = pc[q] /\ job'[q] = job[q]
      BY <1>2, <3>1 DEF WriteFactor, StateOK, JobsOK
    <3>3. CodesOf(job[p]) = job[p].codes
      BY <1>2 DEF WriteFactor, CodesOf
    <3> QED BY <1>2, <2>2, <3>2, <3>3, CodesWritten DEF WriteFactor
  <2> QED BY <2>1, <2>2 DEF Actors
<1>3. ASSUME NEW t \in Tabs, MfaSetup(t) PROVE CodesInv'
  <2> DEFINE j == [kind |-> "set", set |-> [pending |-> secrets + 1], codes |-> {}]
  <2>1. /\ Begin(t, "write", j) /\ UNCHANGED <<member, spent, reused, sets>>
        /\ secrets' = secrets + 1
    BY <1>3 DEF MfaSetup, historyVars
  <2>2. j.set = [pending |-> secrets + 1] /\ CodesOf(j) = {}
    BY DEF CodesOf
  <2> HIDE DEF j
  <2>3. Ready(j, member, spent, secrets + 1, sets)
    BY <1>0, <2>2, SetupReady
  <2> QED BY <1>0, <2>1, <2>3, CodesBegun
<1>4. ASSUME NEW t \in Tabs, NEW code \in Codes, MfaEnable(t, code) PROVE CodesInv'
  <2> DEFINE j == [kind |-> "set", codes |-> {code},
                   set |-> Doc(TRUE, member.pending, 0, code.n, RecoverySet(sets + 1))]
  <2>1. /\ Begin(t, "write", j) /\ UNCHANGED <<member, spent, reused, secrets>>
        /\ sets' = sets + 1
    BY <1>4 DEF MfaEnable, historyVars, Doc
  <2>2. j.set = Doc(TRUE, member.pending, 0, code.n, RecoverySet(sets + 1)) /\ CodesOf(j) = {code}
    BY DEF CodesOf
  <2>3. code \in TotpCodes(secrets) /\ code.of = member.pending /\ code.n <= MaxClock + 1
    BY <1>4, VerifiedCode DEF MfaEnable
  <2> HIDE DEF j
  <2>4. Ready(j, member, spent, secrets, sets + 1)
    BY <1>0, <2>2, <2>3, EnableReady
  <2> QED BY <1>0, <2>1, <2>4, CodesBegun
<1>5. ASSUME NEW t \in Tabs, NEW code \in Codes, MfaDisable(t, code) PROVE CodesInv'
  <2>1. Begin(t, "write", ResetJob) /\ UNCHANGED <<member, spent, reused, secrets, sets>>
    BY <1>5 DEF MfaDisable, historyVars, ResetJob
  <2>2. ResetJob.set = NoFactor /\ CodesOf(ResetJob) = {}
    BY DEF ResetJob, CodesOf
  <2>3. Ready(ResetJob, member, spent, secrets, sets)
    BY <1>0, <2>2, ResetReady
  <2> QED BY <1>0, <2>1, <2>3, CodesBegun
<1>6. ASSUME NEW t \in Tabs, NEW code \in Codes, MfaNewRecoveryCodes(t, code) PROVE CodesInv'
  <2> DEFINE j == [kind |-> "set", codes |-> {code},
                   set |-> [recovery |-> RecoverySet(sets + 1), last |-> code.n]]
  <2>1. /\ Begin(t, "write", j) /\ UNCHANGED <<member, spent, reused, secrets>>
        /\ sets' = sets + 1
    BY <1>6 DEF MfaNewRecoveryCodes, historyVars
  <2>2. j.set = [recovery |-> RecoverySet(sets + 1), last |-> code.n] /\ CodesOf(j) = {code}
    BY DEF CodesOf
  <2>3. /\ code \in TotpCodes(secrets) /\ code.of = member.secret
        /\ code.n > member.last /\ code.n <= MaxClock + 1
    BY <1>6, VerifiedCode DEF MfaNewRecoveryCodes
  <2> HIDE DEF j
  <2>4. Ready(j, member, spent, secrets, sets + 1)
    BY <1>0, <2>2, <2>3, NewCodesReady
  <2> QED BY <1>0, <2>1, <2>4, CodesBegun
<1> QED BY <1>1, <1>2, <1>3, <1>4, <1>5, <1>6

LEMMA EnvironmentKeepsCodes ==
  ASSUME StateOK, CodesInv,
         \/ Tick \/ Restart
         \/ \E p \in Actors : RequestFails(p)
         \/ \E id \in Identifiers : FailedAttempt(id) \/ Refused(id)
  PROVE  CodesInv'
<1>0. secrets \in Nat /\ sets \in Nat
  BY DEF StateOK
<1>1. UNCHANGED <<member, spent, reused, secrets, sets>>
  BY DEF Tick, Restart, RequestFails, FailedAttempt, Refused, historyVars
<1>2. \A p \in Actors : pc'[p] = "write" => pc[p] = "write" /\ job'[p] = job[p]
  BY DEF Tick, Restart, RequestFails, FailedAttempt, Refused, StateOK, JobsOK
<1> QED BY <1>0, <1>1, <1>2, Actor, CodesKept

LEMMA CodesNext == StateOK /\ CodesInv /\ CodesApart /\ [SignInNext]_factorVars => CodesInv'
<1> SUFFICES ASSUME StateOK, CodesInv, CodesApart, [SignInNext]_factorVars PROVE CodesInv'
  OBVIOUS
<1>1. CASE SignInNext
  BY <1>1, SignInKeepsCodes, MailKeepsCodes, ConfigurationKeepsCodes, EnvironmentKeepsCodes
  DEF SignInNext, Mail
<1>2. CASE UNCHANGED factorVars
  BY <1>2, CodesKept DEF factorVars, historyVars, StateOK
<1> QED BY <1>1, <1>2

\* The invariant implies the property.
LEMMA CodesTyped == StateOK /\ CodesInv => UsedOnce
<1> SUFFICES ASSUME StateOK, CodesInv PROVE UsedOnce
  OBVIOUS
<1>1. /\ member.on \in BOOLEAN /\ member.secret \in 0..secrets /\ member.pending \in 0..secrets
      /\ member.last \in 0..(MaxClock + 1) /\ member.recovery \subseteq RecoveryOf(sets)
  BY MemberFields DEF CodesInv
<1>2. RecoveryOf(sets) \subseteq UNION {RecoverySet(g) : g \in 1..sets}
  BY DEF RecoveryOf, RecoverySet, Recovery
<1>3. \A k \in Keys : \A i \in DOMAIN hits[k] : hits[k][i] \in 1..clock
  BY DEF StateOK, HitsOK
<1> QED BY <1>1, <1>2, <1>3 DEF UsedOnce, FactorTypeOK, StateOK, JobsOK, CodesInv

(***************************************************************************)
(* UsedOnce, of every run of the specification in which no two requests of *)
(* the member are between the check of a code and the write that uses it   *)
(* up (core/totp.py, routers/admin_mfa.py): the last counter, or the       *)
(* recovery codes that are left, refuse what was accepted, whatever a      *)
(* manager resets between the check and the write.                         *)
(***************************************************************************)
THEOREM CodesApartUsedOnce == SignInSpec /\ []CodesApart => []UsedOnce
<1>1. FactorInit => StateOK /\ CodesInv
  BY StateInit, CodesInit
<1>2. StateOK /\ CodesInv /\ CodesApart /\ [SignInNext]_factorVars => (StateOK /\ CodesInv)'
  BY StateNext, CodesNext
<1> QED BY <1>1, <1>2, CodesTyped, PTL DEF SignInSpec

\* One request of the member at a time, as in the run.
OneTab == \A s, t \in Tabs : s = t

(***************************************************************************)
(* In particular when the member makes one request at a time.              *)
(***************************************************************************)
THEOREM CodesUsedOnce ==
  ASSUME OneTab
  PROVE  SignInSpec => []UsedOnce
<1>1. CodesApart BY DEF OneTab, CodesApart
<1> QED BY <1>1, CodesApartUsedOnce, PTL

-----------------------------------------------------------------------------
(***************************************************************************)
(* The limiter: how many attempts the address has, from a tick on.         *)
(***************************************************************************)

\* The places of s that hold a time of t or later.
Since(s, t) == {i \in DOMAIN s : s[i] >= t}

Sorted(s) == \A i, j \in DOMAIN s : i < j => s[i] <= s[j]

\* A part of a sequence.
LEMMA SubSeqOf ==
  ASSUME NEW s \in Seq(Nat), NEW a \in Nat, NEW b \in Nat, 1 <= a, a <= b + 1, b <= Len(s)
  PROVE  LET r == SubSeq(s, a, b)
         IN  /\ r \in Seq(Nat) /\ Len(r) = b + 1 - a /\ DOMAIN r = 1..(b + 1 - a)
             /\ \A i \in 1..(b + 1 - a) : r[i] = s[i + a - 1]
<1> DEFINE r == SubSeq(s, a, b)
<1>0. Len(s) \in Nat
  BY LenProperties
<1>1. \A i \in a..b : s[i] \in Nat
  BY <1>0, ElementOfSeq
<1>2. /\ r \in Seq(Nat)
      /\ Len(r) = IF a <= b THEN b - a + 1 ELSE 0
      /\ \A i \in 1..(b - a + 1) : r[i] = s[a + i - 1]
  BY <1>1, SubSeqProperties
<1> HIDE DEF r
<1>3. Len(r) = b + 1 - a
  BY <1>2
<1>4. DOMAIN r = 1..(b + 1 - a)
  BY <1>2, <1>3, LenProperties
<1>5. ASSUME NEW i \in 1..(b + 1 - a) PROVE r[i] = s[i + a - 1]
  <2>1. i \in 1..(b - a + 1) /\ a + i - 1 = i + a - 1
    OBVIOUS
  <2> QED BY <1>2, <2>1
<1> QED BY <1>2, <1>3, <1>4, <1>5 DEF r

LEMMA SinceFinite ==
  ASSUME NEW s \in Seq(Nat), NEW t
  PROVE  /\ DOMAIN s = 1..Len(s) /\ Len(s) \in Nat
         /\ IsFiniteSet(DOMAIN s) /\ Cardinality(DOMAIN s) = Len(s)
         /\ IsFiniteSet(Since(s, t)) /\ Cardinality(Since(s, t)) \in Nat
<1>1. Len(s) \in Nat /\ DOMAIN s = 1..Len(s)
  BY LenProperties
<1>2. IsFiniteSet(DOMAIN s) /\ Cardinality(DOMAIN s) = Len(s)
  BY <1>1, FS_Interval
<1>3. Since(s, t) \in SUBSET DOMAIN s
  BY DEF Since
<1>4. IsFiniteSet(Since(s, t))
  BY <1>2, <1>3, FS_Subset
<1> QED BY <1>1, <1>2, <1>4, FS_CardinalityType

\* What _prune drops from the front is not counted any more; nothing is added.
LEMMA SinceDropped ==
  ASSUME NEW s \in Seq(Nat), NEW o \in 0..Len(s), NEW t \in Int
  PROVE  LET r == SubSeq(s, o + 1, Len(s))
         IN  /\ r \in Seq(Nat) /\ Len(r) = Len(s) - o
             /\ \A i \in 1..Len(r) : r[i] = s[i + o]
             /\ Sorted(s) => Sorted(r)
             /\ Cardinality(Since(r, t)) <= Cardinality(Since(s, t))
<1> DEFINE r == SubSeq(s, o + 1, Len(s))
<1>0. Len(s) \in Nat /\ DOMAIN s = 1..Len(s) /\ o \in Nat /\ o <= Len(s)
  BY LenProperties
<1>1. r \in Seq(Nat) /\ Len(r) = Len(s) - o /\ \A i \in 1..Len(r) : r[i] = s[i + o]
  <2>1. o + 1 \in Nat /\ 1 <= o + 1 /\ o + 1 <= Len(s) + 1 /\ Len(s) <= Len(s)
    BY <1>0
  <2>2. /\ r \in Seq(Nat) /\ Len(r) = Len(s) + 1 - (o + 1)
        /\ \A i \in 1..(Len(s) + 1 - (o + 1)) : r[i] = s[i + (o + 1) - 1]
    BY <1>0, <2>1, SubSeqOf
  <2> HIDE DEF r
  <2>3. Len(s) + 1 - (o + 1) = Len(s) - o
    <3>1. \A n \in Nat : n + 1 - (o + 1) = n - o
      BY <1>0
    <3> QED BY <1>0, <3>1
  <2>4. ASSUME NEW i \in 1..(Len(s) - o) PROVE r[i] = s[i + o]
    <3>1. i + (o + 1) - 1 = i + o
      BY <1>0
    <3> QED BY <2>2, <2>3, <3>1
  <2> QED BY <2>2, <2>3, <2>4
<1>2. DOMAIN r = 1..Len(r) /\ Len(r) \in Nat
  BY <1>1, LenProperties
<1> HIDE DEF r
<1>3. ASSUME Sorted(s) PROVE Sorted(r)
  <2> SUFFICES ASSUME NEW i \in 1..Len(r), NEW j \in 1..Len(r), i < j PROVE r[i] <= r[j]
    BY <1>2 DEF Sorted
  <2>1. i + o \in DOMAIN s /\ j + o \in DOMAIN s /\ i + o < j + o
    BY <1>0, <1>1
  <2> QED BY <1>1, <1>3, <2>1 DEF Sorted
<1>4. Cardinality(Since(r, t)) <= Cardinality(Since(s, t))
  <2> DEFINE f == [i \in Since(r, t) |-> i + o]
  <2>1. ASSUME NEW i \in Since(r, t) PROVE i + o \in Since(s, t) /\ i \in Nat
    BY <1>0, <1>1, <1>2 DEF Since
  <2>2. f \in [Since(r, t) -> Since(s, t)]
    BY <2>1
  <2>3. ASSUME NEW i \in Since(r, t), NEW j \in Since(r, t), f[i] = f[j] PROVE i = j
    BY <1>0, <2>1, <2>3
  <2>4. f \in Injection(Since(r, t), Since(s, t))
    BY <2>2, <2>3 DEF Injection, IsInjective
  <2>5. IsFiniteSet(Since(s, t))
    BY SinceFinite
  <2> QED BY <2>4, <2>5, FS_Injection
<1> QED BY <1>1, <1>3, <1>4 DEF r

LEMMA SinceAppended ==
  ASSUME NEW s \in Seq(Nat), NEW x \in Nat, NEW t \in Int
  PROVE  /\ Append(s, x) \in Seq(Nat)
         /\ Since(Append(s, x), t) = IF x >= t THEN Since(s, t) \cup {Len(s) + 1} ELSE Since(s, t)
         /\ Len(s) + 1 \notin Since(s, t)
         /\ (Sorted(s) /\ \A i \in DOMAIN s : s[i] <= x) => Sorted(Append(s, x))
<1> DEFINE r == Append(s, x)
<1>0. Len(s) \in Nat /\ DOMAIN s = 1..Len(s) /\ \A i \in DOMAIN s : s[i] \in Nat
  BY LenProperties, ElementOfSeq
<1>1. /\ r \in Seq(Nat) /\ Len(r) = Len(s) + 1 /\ r[Len(s) + 1] = x
      /\ \A i \in 1..Len(s) : r[i] = s[i]
  BY AppendProperties
<1>2. DOMAIN r = 1..(Len(s) + 1)
  BY <1>1, LenProperties
<1> HIDE DEF r
<1>3. \A i \in DOMAIN r : i \in DOMAIN s \/ i = Len(s) + 1
  BY <1>0, <1>2
<1>4. Since(r, t) = IF x >= t THEN Since(s, t) \cup {Len(s) + 1} ELSE Since(s, t)
  BY <1>0, <1>1, <1>2, <1>3 DEF Since
<1>5. (Sorted(s) /\ \A i \in DOMAIN s : s[i] <= x) => Sorted(r)
  BY <1>0, <1>1, <1>2, <1>3 DEF Sorted
<1>6. Len(s) + 1 \notin Since(s, t)
  BY <1>0 DEF Since
<1> QED BY <1>1, <1>4, <1>5, <1>6 DEF r

LEMMA SincePopped ==
  ASSUME NEW s \in Seq(Nat), s # <<>>, Sorted(s), NEW t \in Int
  PROVE  LET r == SubSeq(s, 1, Len(s) - 1)
         IN  /\ r \in Seq(Nat) /\ Sorted(r)
             /\ \/ /\ Len(s) \in Since(s, t) /\ Since(r, t) = Since(s, t) \ {Len(s)}
                \/ Since(r, t) = {}
<1> DEFINE r == SubSeq(s, 1, Len(s) - 1)
<1>0. /\ Len(s) \in Nat /\ Len(s) >= 1 /\ DOMAIN s = 1..Len(s)
      /\ \A i \in DOMAIN s : s[i] \in Nat
  BY LenProperties, ElementOfSeq, EmptySeq
<1>1. r \in Seq(Nat) /\ Len(r) = Len(s) - 1 /\ \A i \in 1..Len(r) : r[i] = s[i]
  <2>1. Len(s) - 1 \in Nat /\ 1 \in Nat /\ 1 <= 1 /\ 1 <= (Len(s) - 1) + 1 /\ Len(s) - 1 <= Len(s)
    BY <1>0
  <2>2. /\ r \in Seq(Nat) /\ Len(r) = (Len(s) - 1) + 1 - 1
        /\ \A i \in 1..((Len(s) - 1) + 1 - 1) : r[i] = s[i + 1 - 1]
    BY <2>1, SubSeqOf
  <2> HIDE DEF r
  <2>3. (Len(s) - 1) + 1 - 1 = Len(s) - 1
    BY <1>0
  <2>4. ASSUME NEW i \in 1..(Len(s) - 1) PROVE r[i] = s[i]
    <3>1. i + 1 - 1 = i
      OBVIOUS
    <3> QED BY <2>2, <2>3, <3>1
  <2> QED BY <2>2, <2>3, <2>4
<1>2. DOMAIN r = 1..(Len(s) - 1)
  BY <1>1, LenProperties
<1> HIDE DEF r
<1>3. \A i \in DOMAIN r : i \in DOMAIN s /\ i # Len(s) /\ r[i] = s[i]
  BY <1>0, <1>1, <1>2
<1>4. \A i \in DOMAIN s : i = Len(s) \/ i \in DOMAIN r
  BY <1>0, <1>2
<1>5. Sorted(r)
  BY <1>3 DEF Sorted
<1>6. CASE s[Len(s)] >= t
  <2>1. Len(s) \in Since(s, t)
    BY <1>0, <1>6 DEF Since
  <2>2. Since(r, t) = Since(s, t) \ {Len(s)}
    BY <1>3, <1>4 DEF Since
  <2> QED BY <1>1, <1>5, <2>1, <2>2 DEF r
<1>7. CASE ~(s[Len(s)] >= t)
  <2>1. ASSUME NEW i \in DOMAIN r PROVE ~(r[i] >= t)
    <3>1. i \in DOMAIN s /\ Len(s) \in DOMAIN s /\ i < Len(s) /\ r[i] = s[i]
      BY <1>0, <1>1, <1>2
    <3>2. s[i] <= s[Len(s)]
      BY <3>1 DEF Sorted
    <3> QED BY <1>0, <1>7, <3>1, <3>2
  <2> QED BY <1>1, <1>5, <2>1 DEF Since, r
<1> QED BY <1>6, <1>7

\* What is left of an account's attempts, or of the address's.
LEMMA PrunedIs ==
  ASSUME StateOK, NEW k \in Keys
  PROVE  \E o \in 0..Len(hits[k]) :
           /\ Pruned(k) = SubSeq(hits[k], o + 1, Len(hits[k]))
           /\ Len(hits[k]) - o = Cardinality(Since(hits[k], clock - Window + 1))
<1> DEFINE s == hits[k]
           old == {i \in DOMAIN s : s[i] <= clock - Window}
           recent == Since(s, clock - Window + 1)
<1>0. s \in Seq(Nat) /\ clock \in Nat /\ Window \in Nat
  <2>1. s \in Seq(1..clock) /\ clock \in Nat
    BY DEF StateOK, HitsOK
  <2>2. 1..clock \subseteq Nat
    BY <2>1
  <2> QED BY <2>1, <2>2, SeqMonotonic, LimiterAssumption
<1>1. /\ IsFiniteSet(DOMAIN s) /\ Cardinality(DOMAIN s) = Len(s) /\ Len(s) \in Nat
      /\ \A i \in DOMAIN s : s[i] \in Nat
  BY <1>0, SinceFinite, ElementOfSeq
<1>2. recent = DOMAIN s \ old /\ DOMAIN s \cap old = old
  BY <1>0, <1>1 DEF Since
<1>3. Cardinality(recent) = Len(s) - Cardinality(old)
  BY <1>1, <1>2, FS_Difference
<1>4. old \in SUBSET DOMAIN s
  OBVIOUS
<1> HIDE DEF old
<1>5. Cardinality(old) \in 0..Len(s)
  BY <1>1, <1>4, FS_Subset, FS_CardinalityType
<1>6. Pruned(k) = SubSeq(s, Cardinality(old) + 1, Len(s))
  BY DEF Pruned, old
<1>7. Len(s) - Cardinality(old) = Cardinality(recent)
  BY <1>1, <1>3, <1>5
<1> QED BY <1>5, <1>6, <1>7

-----------------------------------------------------------------------------
(***************************************************************************)
(* The attempts that have not succeeded.                                   *)
(***************************************************************************)

\* The ticks from t on.
From(t) == {u \in 1..MaxClock : u >= t}

\* The login or the second step of a request that has passed the limiter, and
\* will give its attempt back.
Waiting(p) == pc[p] = "write" /\ job[p].kind \in {"login", "session"}
WaitingAt(t) == {p \in Tabs : Waiting(p) /\ job[p].at = t}

\* Each of them counts among the attempts of its tick; from any tick on, the
\* address has no more attempts than have not succeeded.
TeamInv ==
  /\ failures \in [1..MaxClock -> Nat]
  /\ \A t \in 1..MaxClock : t > clock => failures[t] = 0
  /\ \A t \in 1..MaxClock : Cardinality(WaitingAt(t)) <= failures[t]
  /\ \A p \in Tabs : Waiting(p) => job[p].at \in 1..clock
  /\ Sorted(hits[Ip])
  /\ \A t \in Int : Cardinality(Since(hits[Ip], t)) <= Cardinality(Failed(From(t)))

LEMMA WaitingFinite == \A t : IsFiniteSet(WaitingAt(t)) /\ Cardinality(WaitingAt(t)) \in Nat
<1> TAKE t
<1>1. WaitingAt(t) \in SUBSET Tabs
  BY DEF WaitingAt
<1> QED BY <1>1, SecondFactorAssumption, FS_Subset, FS_CardinalityType

LEMMA FailedFinite ==
  ASSUME failures \in [1..MaxClock -> Nat], NEW t
  PROVE  IsFiniteSet(Failed(From(t))) /\ Cardinality(Failed(From(t))) \in Nat
<1> DEFINE U == {{u} \X (1..failures[u]) : u \in From(t)}
<1>1. IsFiniteSet(From(t))
  <2>1. IsFiniteSet(1..MaxClock) BY SecondFactorAssumption, FS_Interval
  <2>2. From(t) \in SUBSET (1..MaxClock) BY DEF From
  <2> QED BY <2>1, <2>2, FS_Subset
<1>2. IsFiniteSet(U)
  <2> DEFINE f == [u \in From(t) |-> {u} \X (1..failures[u])]
  <2>1. f \in Surjection(From(t), U)
    BY DEF Surjection
  <2> QED BY <1>1, <2>1, FS_Surjection
<1>3. \A T \in U : IsFiniteSet(T)
  <2> SUFFICES ASSUME NEW u \in From(t) PROVE IsFiniteSet({u} \X (1..failures[u]))
    OBVIOUS
  <2>1. failures[u] \in Nat BY DEF From
  <2>2. IsFiniteSet({u}) /\ IsFiniteSet(1..failures[u])
    <3>1. 1 \in Int /\ failures[u] \in Int BY <2>1
    <3> QED BY <3>1, FS_Singleton, FS_Interval
  <2> QED BY <2>2, FS_Product
<1>4. Failed(From(t)) = UNION U
  BY DEF Failed
<1> HIDE DEF U
<1> QED BY <1>2, <1>3, <1>4, FS_UNION, FS_CardinalityType

\* One more, or one less, at the tick c.
LEMMA FailedMore ==
  ASSUME failures \in [1..MaxClock -> Nat], NEW c \in 1..MaxClock,
         failures' = [failures EXCEPT ![c] = @ + 1], NEW t \in Int
  PROVE  Cardinality(Failed(From(t)))' =
           IF c >= t THEN Cardinality(Failed(From(t))) + 1 ELSE Cardinality(Failed(From(t)))
<1> DEFINE x == <<c, failures[c] + 1>>
<1>1. /\ failures'[c] = failures[c] + 1 /\ failures[c] \in Nat
      /\ \A u \in From(t) : u # c => failures'[u] = failures[u]
      /\ c \in From(t) <=> c >= t
  BY DEF From
<1>2. x \notin Failed(From(t))
  BY <1>1 DEF Failed
<1>3. CASE c >= t
  <2>1. 1..(failures[c] + 1) = 1..failures[c] \cup {failures[c] + 1}
    BY <1>1
  <2>2. Failed(From(t))' = Failed(From(t)) \cup {x}
    BY <1>1, <1>3, <2>1 DEF Failed
  <2> HIDE DEF x
  <2> QED BY <1>2, <1>3, <2>2, FailedFinite, FS_AddElement
<1>4. CASE ~(c >= t)
  BY <1>1, <1>4 DEF Failed
<1> QED BY <1>3, <1>4

LEMMA FailedLess ==
  ASSUME failures \in [1..MaxClock -> Nat], NEW c \in 1..MaxClock, failures[c] >= 1,
         failures' = [failures EXCEPT ![c] = @ - 1], NEW t \in Int
  PROVE  /\ Cardinality(Failed(From(t)))' =
              IF c >= t THEN Cardinality(Failed(From(t))) - 1 ELSE Cardinality(Failed(From(t)))
         /\ Cardinality(Failed(From(t)))' \in Nat
<1> DEFINE x == <<c, failures[c]>>
<1>1. /\ failures'[c] = failures[c] - 1 /\ failures[c] \in Nat
      /\ \A u \in From(t) : u # c => failures'[u] = failures[u]
      /\ c \in From(t) <=> c >= t
  BY DEF From
<1>2. CASE c >= t
  <2>1. 1..(failures[c] - 1) = (1..failures[c]) \ {failures[c]} /\ failures[c] \in 1..failures[c]
    BY <1>1
  <2>2. x \in Failed(From(t))
    BY <1>1, <1>2, <2>1 DEF Failed
  <2>3. Failed(From(t))' = Failed(From(t)) \ {x}
    BY <1>1, <1>2, <2>1 DEF Failed
  <2> HIDE DEF x
  <2> QED BY <1>2, <2>2, <2>3, FailedFinite, FS_RemoveElement, FS_CardinalityType
<1>3. CASE ~(c >= t)
  <2>1. \A u \in From(t) : failures'[u] = failures[u]
    BY <1>1, <1>3
  <2>2. Failed(From(t))' = Failed(From(t))
    BY <2>1 DEF Failed
  <2> QED BY <1>3, <2>2, FailedFinite
<1> QED BY <1>2, <1>3

LEMMA AddressTimes ==
  ASSUME StateOK
  PROVE  Ip \in Keys /\ hits[Ip] \in Seq(Nat) /\ \A i \in DOMAIN hits[Ip] : hits[Ip][i] \in 1..clock
<1>1. Ip \in Keys /\ hits[Ip] \in Seq(1..clock)
  BY DEF StateOK, HitsOK, Keys
<1>2. 1..clock \subseteq Nat
  BY DEF StateOK
<1> QED BY <1>1, <1>2, SeqMonotonic, LenProperties

\* Nothing is attempted, and no request starts to wait.
LEMMA TeamKept ==
  ASSUME StateOK, TeamInv, clock' \in {clock, clock + 1}, hits'[Ip] = hits[Ip], failures' = failures,
         \A p \in Tabs : Waiting(p)' => Waiting(p) /\ job'[p] = job[p]
  PROVE  TeamInv'
<1>1. clock \in Nat /\ clock' \in Nat /\ clock' >= clock
  BY DEF StateOK
<1>2. \A t \in 1..MaxClock : WaitingAt(t)' \in SUBSET WaitingAt(t)
  BY DEF WaitingAt
<1>3. \A t \in 1..MaxClock : Cardinality(WaitingAt(t))' <= failures'[t]
  <2> SUFFICES ASSUME NEW t \in 1..MaxClock PROVE Cardinality(WaitingAt(t))' <= failures'[t]
    OBVIOUS
  <2>1. /\ Cardinality(WaitingAt(t)') <= Cardinality(WaitingAt(t)) /\ IsFiniteSet(WaitingAt(t)')
    BY <1>2, WaitingFinite, FS_Subset
  <2>2. Cardinality(WaitingAt(t)') \in Nat /\ Cardinality(WaitingAt(t)) \in Nat
    BY <2>1, WaitingFinite, FS_CardinalityType
  <2>3. Cardinality(WaitingAt(t)) <= failures[t] /\ failures[t] \in Nat
    BY DEF TeamInv
  <2> QED BY <2>1, <2>2, <2>3
<1>4. \A p \in Tabs : Waiting(p)' => job'[p].at \in 1..clock'
  BY <1>1 DEF TeamInv
<1>5. \A t \in Int : Cardinality(Since(hits'[Ip], t)) <= Cardinality(Failed(From(t)))'
  BY DEF TeamInv, Failed
<1> QED BY <1>1, <1>3, <1>4, <1>5 DEF TeamInv

\* An attempt: it counts, for its tick and for the address; at most one
\* request waits for what it makes of it.
LEMMA TeamAttempts ==
  ASSUME StateOK, TeamInv, NEW id \in Identifiers, Attempt(id), clock' = clock, NEW q,
         q \in Tabs /\ Waiting(q)' => job'[q].at = clock,
         \A p \in Tabs \ {q} : Waiting(p)' => Waiting(p) /\ job'[p] = job[p]
  PROVE  TeamInv'
<1>0. /\ clock \in 1..MaxClock /\ clock \in Nat
      /\ Ip \in Keys /\ hits[Ip] \in Seq(Nat) /\ \A i \in DOMAIN hits[Ip] : hits[Ip][i] \in 1..clock
  BY AddressTimes, SecondFactorAssumption DEF StateOK
<1>1. /\ failures' = [failures EXCEPT ![clock] = @ + 1]
      /\ hits'[Ip] = Append(Pruned(Ip), clock)
  BY <1>0 DEF Attempt, CheckAttempt
<1>2. /\ failures \in [1..MaxClock -> Nat] /\ failures' \in [1..MaxClock -> Nat]
      /\ failures'[clock] = failures[clock] + 1
      /\ \A t \in 1..MaxClock : t # clock => failures'[t] = failures[t]
  BY <1>0, <1>1 DEF TeamInv
<1>3. ASSUME NEW t \in 1..MaxClock PROVE Cardinality(WaitingAt(t))' <= failures'[t]
  <2> DEFINE W == WaitingAt(t)
             more == IF t = clock THEN {q} ELSE {}
  <2>1. WaitingAt(t)' \subseteq W \cup more
    BY DEF WaitingAt
  <2>2. IsFiniteSet(W) /\ Cardinality(W) \in Nat /\ Cardinality(W) <= failures[t] /\ failures[t] \in Nat
    BY <1>2, WaitingFinite DEF TeamInv
  <2> HIDE DEF W
  <2>3. CASE t = clock
    <3>1. IsFiniteSet(W \cup {q}) /\ Cardinality(W \cup {q}) <= Cardinality(W) + 1
      <4>1. /\ IsFiniteSet(W \cup {q})
            /\ Cardinality(W \cup {q}) = IF q \in W THEN Cardinality(W) ELSE Cardinality(W) + 1
        BY <2>2, FS_AddElement
      <4>2. CASE q \in W
        BY <2>2, <4>1, <4>2
      <4>3. CASE q \notin W
        BY <2>2, <4>1, <4>3
      <4> QED BY <4>2, <4>3
    <3>2. WaitingAt(t)' \in SUBSET (W \cup {q})
      BY <2>1, <2>3
    <3>3. /\ Cardinality(WaitingAt(t)') <= Cardinality(W \cup {q})
          /\ Cardinality(WaitingAt(t)') \in Nat /\ Cardinality(W \cup {q}) \in Nat
      BY <3>1, <3>2, FS_Subset, FS_CardinalityType
    <3> QED BY <1>2, <2>2, <2>3, <3>1, <3>3
  <2>4. CASE t # clock
    <3>1. WaitingAt(t)' \in SUBSET W
      BY <2>1, <2>4
    <3>2. Cardinality(WaitingAt(t)') <= Cardinality(W) /\ Cardinality(WaitingAt(t)') \in Nat
      BY <2>2, <3>1, FS_Subset, FS_CardinalityType
    <3> QED BY <1>2, <2>2, <2>4, <3>2
  <2> QED BY <2>3, <2>4
<1>4. ASSUME NEW p \in Tabs, Waiting(p)' PROVE job'[p].at \in 1..clock'
  BY <1>0, <1>4 DEF TeamInv
<1>5. PICK o \in 0..Len(hits[Ip]) : Pruned(Ip) = SubSeq(hits[Ip], o + 1, Len(hits[Ip]))
  BY <1>0, PrunedIs
<1> DEFINE r == Pruned(Ip)
<1>6. /\ r \in Seq(Nat) /\ Sorted(r) /\ Len(r) = Len(hits[Ip]) - o
      /\ \A i \in 1..Len(r) : r[i] = hits[Ip][i + o]
      /\ \A t \in Int : Cardinality(Since(r, t)) <= Cardinality(Since(hits[Ip], t))
  BY <1>0, <1>5, SinceDropped DEF TeamInv
<1> HIDE DEF r
<1>7. \A i \in DOMAIN r : r[i] <= clock
  <2> SUFFICES ASSUME NEW i \in DOMAIN r PROVE r[i] <= clock
    OBVIOUS
  <2>1. DOMAIN r = 1..Len(r) /\ DOMAIN hits[Ip] = 1..Len(hits[Ip]) /\ Len(hits[Ip]) \in Nat
    BY <1>0, <1>6, LenProperties
  <2>2. i + o \in DOMAIN hits[Ip]
    BY <1>6, <2>1
  <2>3. r[i] \in 1..clock
    BY <1>0, <1>6, <2>1, <2>2
  <2> QED BY <1>0, <2>3
<1>8. Sorted(hits'[Ip])
  BY <1>0, <1>1, <1>6, <1>7, SinceAppended DEF r
<1>9. ASSUME NEW t \in Int
      PROVE  Cardinality(Since(hits'[Ip], t)) <= Cardinality(Failed(From(t)))'
  <2>1. /\ Cardinality(Since(r, t)) \in Nat /\ IsFiniteSet(Since(r, t))
        /\ Cardinality(Since(hits[Ip], t)) \in Nat /\ Cardinality(Failed(From(t))) \in Nat
    BY <1>0, <1>2, <1>6, SinceFinite, FailedFinite
  <2>2. Cardinality(Since(r, t)) <= Cardinality(Failed(From(t)))
    BY <1>6, <2>1 DEF TeamInv
  <2>3. Cardinality(Since(hits'[Ip], t)) =
          IF clock >= t THEN Cardinality(Since(r, t)) + 1 ELSE Cardinality(Since(r, t))
    <3>1. /\ Since(hits'[Ip], t) = IF clock >= t THEN Since(r, t) \cup {Len(r) + 1} ELSE Since(r, t)
          /\ Len(r) + 1 \notin Since(r, t)
      BY <1>0, <1>1, <1>6, SinceAppended DEF r
    <3> QED BY <2>1, <3>1, FS_AddElement
  <2>4. Cardinality(Failed(From(t)))' =
          IF clock >= t THEN Cardinality(Failed(From(t))) + 1 ELSE Cardinality(Failed(From(t)))
    BY <1>0, <1>1, <1>2, FailedMore
  <2> QED BY <1>0, <2>1, <2>2, <2>3, <2>4
<1>10. \A t \in 1..MaxClock : t > clock' => failures'[t] = 0
  BY <1>0, <1>2 DEF TeamInv
<1> QED BY <1>2, <1>3, <1>4, <1>8, <1>9, <1>10 DEF TeamInv

LEMMA TeamRefused ==
  ASSUME StateOK, TeamInv, NEW id \in Identifiers, RefuseAttempt(id),
         UNCHANGED <<clock, failures, pc, job>>
  PROVE  TeamInv'
<1>0. Ip \in Keys /\ hits[Ip] \in Seq(Nat) /\ failures \in [1..MaxClock -> Nat]
  BY AddressTimes DEF TeamInv
<1>1. hits'[Ip] = Pruned(Ip)
  BY <1>0 DEF RefuseAttempt
<1>2. PICK o \in 0..Len(hits[Ip]) : Pruned(Ip) = SubSeq(hits[Ip], o + 1, Len(hits[Ip]))
  BY <1>0, PrunedIs
<1>3. /\ hits'[Ip] \in Seq(Nat) /\ Sorted(hits'[Ip])
      /\ \A t \in Int : Cardinality(Since(hits'[Ip], t)) <= Cardinality(Since(hits[Ip], t))
  BY <1>0, <1>1, <1>2, SinceDropped DEF TeamInv
<1>4. ASSUME NEW t \in Int
      PROVE  Cardinality(Since(hits'[Ip], t)) <= Cardinality(Failed(From(t)))'
  <2>1. /\ Cardinality(Since(hits'[Ip], t)) \in Nat /\ Cardinality(Since(hits[Ip], t)) \in Nat
        /\ Cardinality(Failed(From(t))) \in Nat
    BY <1>0, <1>3, SinceFinite, FailedFinite
  <2>2. Cardinality(Failed(From(t)))' = Cardinality(Failed(From(t)))
    BY DEF Failed
  <2>3. Cardinality(Since(hits[Ip], t)) <= Cardinality(Failed(From(t)))
    BY DEF TeamInv
  <2> QED BY <1>3, <2>1, <2>2, <2>3
<1>5. \A t : WaitingAt(t)' = WaitingAt(t)
  BY DEF WaitingAt, Waiting
<1> QED BY <1>3, <1>4, <1>5 DEF TeamInv, Waiting

\* The request t is given its attempt back: the address loses its last one,
\* which may be another's.
LEMMA TeamSucceeds ==
  ASSUME StateOK, TeamInv, NEW id \in Identifiers, NEW q \in Tabs, Waiting(q), ~Waiting(q)',
         Succeed(id, job[q].at), clock' = clock,
         \A p \in Tabs : Waiting(p)' => Waiting(p) /\ job'[p] = job[p]
  PROVE  TeamInv'
<1> DEFINE a == job[q].at
<1>0. /\ Ip \in Keys /\ Ip # id /\ id \in Keys /\ hits[Ip] \in Seq(Nat)
      /\ failures \in [1..MaxClock -> Nat] /\ clock \in Nat /\ clock <= MaxClock /\ MaxClock \in Nat
  BY AddressTimes, LimiterAssumption, SecondFactorAssumption DEF TeamInv, StateOK, Keys
<1>1. a \in 1..clock /\ a \in 1..MaxClock
  BY <1>0 DEF TeamInv
<1>2. /\ failures' = [failures EXCEPT ![a] = @ - 1]
      /\ hits'[Ip] = IF hits[Ip] = <<>> THEN hits[Ip] ELSE SubSeq(hits[Ip], 1, Len(hits[Ip]) - 1)
  BY <1>0 DEF Succeed, ResetAttempts, StateOK, HitsOK
<1>3. q \in WaitingAt(a) /\ q \notin WaitingAt(a)'
  BY DEF WaitingAt
<1> HIDE DEF a
<1>4. failures[a] >= 1 /\ failures[a] \in Nat
  <2>1. IsFiniteSet(WaitingAt(a)) /\ Cardinality(WaitingAt(a)) \in Nat
    BY WaitingFinite
  <2>2. Cardinality(WaitingAt(a)) # 0
    BY <1>3, <2>1, FS_EmptySet
  <2>3. Cardinality(WaitingAt(a)) <= failures[a] /\ failures[a] \in Nat
    BY <1>0, <1>1 DEF TeamInv
  <2> QED BY <2>1, <2>2, <2>3
<1>5. /\ failures' \in [1..MaxClock -> Nat] /\ failures'[a] = failures[a] - 1
      /\ \A t \in 1..MaxClock : t # a => failures'[t] = failures[t]
  BY <1>0, <1>1, <1>2, <1>4
<1>6. ASSUME NEW t \in 1..MaxClock PROVE Cardinality(WaitingAt(t))' <= failures'[t]
  <2> DEFINE W == WaitingAt(t)
  <2>1. WaitingAt(t)' \in SUBSET W /\ q \notin WaitingAt(t)'
    BY DEF WaitingAt
  <2>2. IsFiniteSet(W) /\ Cardinality(W) \in Nat /\ Cardinality(W) <= failures[t] /\ failures[t] \in Nat
    BY <1>0, WaitingFinite DEF TeamInv
  <2>3. /\ IsFiniteSet(WaitingAt(t)') /\ Cardinality(WaitingAt(t)') <= Cardinality(W)
        /\ Cardinality(WaitingAt(t)') = Cardinality(W) => WaitingAt(t)' = W
    <3> HIDE DEF W
    <3> QED BY <2>1, <2>2, FS_Subset
  <2>4. Cardinality(WaitingAt(t)') \in Nat
    BY <2>3, FS_CardinalityType
  <2>5. CASE t = a
    <3>1. Cardinality(WaitingAt(t)') # Cardinality(W)
      BY <1>3, <2>1, <2>3, <2>5
    <3> HIDE DEF W
    <3> QED BY <1>5, <2>2, <2>3, <2>4, <2>5, <3>1
  <2>6. CASE t # a
    <3> HIDE DEF W
    <3> QED BY <1>5, <2>2, <2>3, <2>4, <2>6
  <2> QED BY <2>5, <2>6
<1>7. Sorted(hits'[Ip])
  BY <1>0, <1>2, SincePopped DEF TeamInv
<1>8. ASSUME NEW t \in Int
      PROVE  Cardinality(Since(hits'[Ip], t)) <= Cardinality(Failed(From(t)))'
  <2> DEFINE n == Cardinality(Since(hits[Ip], t))
             k == Cardinality(Failed(From(t)))
  <2>1. IsFiniteSet(Since(hits[Ip], t)) /\ n \in Nat /\ k \in Nat /\ n <= k
    BY <1>0, SinceFinite, FailedFinite DEF TeamInv
  <2>2. Cardinality(Failed(From(t)))' = IF a >= t THEN k - 1 ELSE k
    BY <1>0, <1>1, <1>2, <1>4, FailedLess
  <2>3. Cardinality(Failed(From(t)))' \in Nat
    BY <1>0, <1>1, <1>2, <1>4, FailedLess
  <2> HIDE DEF n, k
  <2>4. CASE Since(hits'[Ip], t) = {}
    BY <2>3, <2>4, FS_EmptySet
  <2>5. ASSUME Len(hits[Ip]) \in Since(hits[Ip], t),
               Since(hits'[Ip], t) = Since(hits[Ip], t) \ {Len(hits[Ip])}
        PROVE  Cardinality(Since(hits'[Ip], t)) <= Cardinality(Failed(From(t)))'
    <3>1. Cardinality(Since(hits'[Ip], t)) = n - 1
      BY <2>1, <2>5, FS_RemoveElement DEF n
    <3> QED BY <2>1, <2>2, <3>1
  <2>6. CASE hits[Ip] = <<>>
    <3>1. Since(hits'[Ip], t) = {}
      BY <1>2, <2>6 DEF Since
    <3> QED BY <2>4, <3>1
  <2> QED BY <1>0, <1>2, <2>4, <2>5, <2>6, SincePopped DEF TeamInv
<1>9. \A p \in Tabs : Waiting(p)' => job'[p].at \in 1..clock'
  BY DEF TeamInv
<1>10. \A t \in 1..MaxClock : t > clock' => failures'[t] = 0
  BY <1>0, <1>1, <1>5 DEF TeamInv
<1> QED BY <1>5, <1>6, <1>7, <1>8, <1>9, <1>10 DEF TeamInv

(***************************************************************************)
(* Each step is one of those.                                              *)
(***************************************************************************)
LEMMA SignInKeepsTeam ==
  ASSUME StateOK, TeamInv, NEW t \in Tabs,
         Login(t) \/ LoginDone(t) \/ ResetPassword(t) \/ SecondStepDone(t) \/ Issue(t)
           \/ \E code \in Codes : LoginSecondStep(t, code)
  PROVE  TeamInv'
<1>0. t \in Actors /\ {"password", "code"} \subseteq Identifiers /\ \A p \in Tabs : p \in Actors
  BY Actor, SecondFactorAssumption
<1>1. CASE Login(t)
  <2> DEFINE j == [kind |-> "login", on |-> member.on, at |-> clock]
  <2>1. Begin(t, "write", j) /\ Attempt("password") /\ clock' = clock
    BY <1>1 DEF Login
  <2>2. j.at = clock
    OBVIOUS
  <2> HIDE DEF j
  <2>3. job'[t].at = clock /\ \A p \in Tabs \ {t} : pc'[p] = pc[p] /\ job'[p] = job[p]
    BY <1>0, <2>1, <2>2, Begun DEF StateOK
  <2> QED BY <1>0, <2>1, <2>3, TeamAttempts DEF Waiting
<1>2. CASE LoginDone(t)
  <2>1. /\ Waiting(t) /\ pc'[t] # "write" /\ Succeed("password", job[t].at) /\ clock' = clock
        /\ \A p \in Tabs : p # t => pc'[p] = pc[p] /\ job'[p] = job[p]
    BY <1>0, <1>2 DEF LoginDone, StateOK, JobsOK, Waiting
  <2> QED BY <1>0, <2>1, TeamSucceeds DEF Waiting
<1>3. CASE ResetPassword(t)
  <2>1. UNCHANGED <<failures, hits, clock>>
    BY <1>3 DEF ResetPassword, historyVars, limiterVars
  <2>2. CASE UNCHANGED <<pc, job>>
    BY <2>1, <2>2, TeamKept DEF Waiting
  <2>3. CASE Begin(t, "issue", [kind |-> "link"])
    <3>1. pc'[t] # "write" /\ \A p \in Tabs \ {t} : pc'[p] = pc[p] /\ job'[p] = job[p]
      BY <1>0, <2>3, Begun DEF StateOK
    <3> QED BY <2>1, <3>1, TeamKept DEF Waiting
  <2> QED BY <1>3, <2>2, <2>3 DEF ResetPassword
<1>4. CASE SecondStepDone(t)
  <2>1. /\ Waiting(t) /\ pc'[t] # "write" /\ Succeed("code", job[t].at) /\ clock' = clock
        /\ \A p \in Tabs : p # t => pc'[p] = pc[p] /\ job'[p] = job[p]
    BY <1>0, <1>4 DEF SecondStepDone, StateOK, JobsOK, Waiting
  <2> QED BY <1>0, <2>1, TeamSucceeds DEF Waiting
<1>5. CASE Issue(t)
  <2>1. UNCHANGED <<failures, hits, clock>>
    BY <1>5 DEF Issue, limiterVars
  <2>2. pc'[t] # "write" /\ \A p \in Tabs : p # t => pc'[p] = pc[p] /\ job'[p] = job[p]
    BY <1>0, <1>5 DEF Issue, StateOK, JobsOK
  <2> QED BY <2>1, <2>2, TeamKept DEF Waiting
<1>6. ASSUME NEW code \in Codes, LoginSecondStep(t, code) PROVE TeamInv'
  <2> DEFINE j == [kind |-> "session", set |-> Use(member, code), code |-> code, at |-> clock]
  <2>1. Attempt("code") /\ clock' = clock /\ (Begin(t, "write", j) \/ UNCHANGED <<pc, job>>)
    BY <1>6 DEF LoginSecondStep
  <2>2. j.at = clock
    OBVIOUS
  <2> HIDE DEF j
  <2>3. CASE Begin(t, "write", j)
    <3>1. job'[t].at = clock /\ \A p \in Tabs \ {t} : pc'[p] = pc[p] /\ job'[p] = job[p]
      BY <1>0, <2>2, <2>3, Begun DEF StateOK
    <3> QED BY <1>0, <2>1, <3>1, TeamAttempts DEF Waiting
  <2>4. CASE UNCHANGED <<pc, job>>
    <3>1. Manager \notin Tabs /\ \A p \in Tabs : Waiting(p)' => Waiting(p) /\ job'[p] = job[p]
      BY <2>4, SecondFactorAssumption DEF Waiting
    <3> QED BY <1>0, <2>1, <3>1, TeamAttempts
  <2> QED BY <2>1, <2>3, <2>4
<1> QED BY <1>1, <1>2, <1>3, <1>4, <1>5, <1>6

LEMMA MailKeepsTeam ==
  ASSUME StateOK, TeamInv, NEW t \in Tabs, Mail(t)
  PROVE  TeamInv'
<1>1. UNCHANGED <<failures, hits, clock>>
  BY MailSteps
<1>2. \A p \in Tabs : Waiting(p)' => Waiting(p) /\ job'[p] = job[p]
  BY MailSteps, Actor DEF Waiting
<1> QED BY <1>1, <1>2, TeamKept

LEMMA OthersKeepTeam ==
  ASSUME StateOK, TeamInv,
         \/ ResetMemberMfa
         \/ \E p \in Actors : WriteFactor(p) \/ RequestFails(p)
         \/ \E t \in Tabs : MfaSetup(t) \/ \E code \in Codes :
              MfaEnable(t, code) \/ MfaDisable(t, code) \/ MfaNewRecoveryCodes(t, code)
  PROVE  TeamInv'
<1>1. UNCHANGED <<failures, hits, clock>>
  BY DEF ResetMemberMfa, WriteFactor, RequestFails, MfaSetup, MfaEnable, MfaDisable,
         MfaNewRecoveryCodes, historyVars, limiterVars
<1>2. CASE \E p \in Actors : WriteFactor(p) \/ RequestFails(p)
  <2>1. \A p \in Actors : pc'[p] = "write" => pc[p] = "write" /\ job'[p] = job[p]
    BY <1>2 DEF WriteFactor, RequestFails, StateOK, JobsOK
  <2> QED BY <1>1, <2>1, Actor, TeamKept DEF Waiting
<1>3. ASSUME NEW p \in Actors, NEW j, j.kind = "set", Begin(p, "write", j)
      PROVE  TeamInv'
  <2>1. job'[p] = j /\ \A q \in Actors : q # p => pc'[q] = pc[q] /\ job'[q] = job[q]
    BY <1>3, Begun DEF StateOK
  <2>2. \A q \in Tabs : Waiting(q)' => Waiting(q) /\ job'[q] = job[q]
    BY <1>3, <2>1, Actor DEF Waiting
  <2> QED BY <1>1, <2>2, TeamKept
<1>4. CASE ResetMemberMfa
  BY <1>3, <1>4, Actor DEF ResetMemberMfa
<1>5. ASSUME NEW t \in Tabs, MfaSetup(t) PROVE TeamInv'
  BY <1>3, <1>5, Actor DEF MfaSetup
<1>6. ASSUME NEW t \in Tabs, NEW code \in Codes, MfaEnable(t, code) PROVE TeamInv'
  BY <1>3, <1>6, Actor DEF MfaEnable
<1>7. ASSUME NEW t \in Tabs, NEW code \in Codes, MfaDisable(t, code) PROVE TeamInv'
  BY <1>3, <1>7, Actor DEF MfaDisable
<1>8. ASSUME NEW t \in Tabs, NEW code \in Codes, MfaNewRecoveryCodes(t, code) PROVE TeamInv'
  BY <1>3, <1>8, Actor DEF MfaNewRecoveryCodes
<1> QED BY <1>2, <1>4, <1>5, <1>6, <1>7, <1>8

LEMMA EnvironmentKeepsTeam ==
  ASSUME StateOK, TeamInv,
         Tick \/ Restart \/ \E id \in Identifiers : FailedAttempt(id) \/ Refused(id)
  PROVE  TeamInv'
<1>1. CASE Tick
  BY <1>1, TeamKept DEF Tick, historyVars, Waiting
<1>2. CASE Restart
  <2>1. /\ hits'[Ip] = <<>> /\ failures' = [t \in 1..MaxClock |-> 0]
        /\ \A p \in Tabs : ~Waiting(p)'
    BY <1>2, Actor DEF Restart, ForgetAttempts, Keys, Waiting
  <2>2. \A t : WaitingAt(t)' = {} /\ Since(hits'[Ip], t) = {} /\ Failed(From(t))' = {}
    BY <2>1 DEF WaitingAt, Since, Failed, From
  <2>3. Cardinality({}) = 0
    BY FS_EmptySet
  <2>4. failures' \in [1..MaxClock -> Nat] /\ \A t \in 1..MaxClock : failures'[t] = 0
    BY <2>1
  <2>5. Sorted(hits'[Ip])
    BY <2>1 DEF Sorted
  <2>6. \A t : Cardinality(WaitingAt(t))' = 0 /\ Cardinality(Since(hits'[Ip], t)) = 0
               /\ Cardinality(Failed(From(t)))' = 0
    BY <2>2, <2>3
  <2> QED BY <2>1, <2>4, <2>5, <2>6 DEF TeamInv
<1>3. ASSUME NEW id \in Identifiers, FailedAttempt(id) PROVE TeamInv'
  <2>1. Attempt(id) /\ clock' = clock /\ UNCHANGED <<pc, job>>
    BY <1>3 DEF FailedAttempt
  <2>2. Manager \notin Tabs /\ \A p \in Tabs : Waiting(p)' => Waiting(p) /\ job'[p] = job[p]
    BY <2>1, SecondFactorAssumption DEF Waiting
  <2> QED BY <2>1, <2>2, TeamAttempts
<1>4. ASSUME NEW id \in Identifiers, Refused(id) PROVE TeamInv'
  BY <1>4, TeamRefused DEF Refused, historyVars
<1> QED BY <1>1, <1>2, <1>3, <1>4

LEMMA TeamInit == FactorInit => TeamInv
<1> SUFFICES ASSUME FactorInit PROVE TeamInv
  OBVIOUS
<1>1. hits[Ip] = <<>> /\ failures = [t \in 1..MaxClock |-> 0] /\ \A p \in Tabs : ~Waiting(p)
  BY Actor DEF FactorInit, LimiterInit, Keys, Waiting
<1>2. \A t : WaitingAt(t) = {} /\ Since(hits[Ip], t) = {} /\ Failed(From(t)) = {}
  BY <1>1 DEF WaitingAt, Since, Failed, From
<1>3. Cardinality({}) = 0
  BY FS_EmptySet
<1>4. failures \in [1..MaxClock -> Nat] /\ \A t \in 1..MaxClock : failures[t] = 0
  BY <1>1
<1>5. Sorted(hits[Ip])
  BY <1>1 DEF Sorted
<1>6. \A t : Cardinality(WaitingAt(t)) = 0 /\ Cardinality(Since(hits[Ip], t)) = 0
             /\ Cardinality(Failed(From(t))) = 0
  BY <1>2, <1>3
<1> QED BY <1>1, <1>4, <1>5, <1>6 DEF TeamInv

LEMMA TeamNext == StateOK /\ TeamInv /\ [SignInNext]_factorVars => TeamInv'
<1> SUFFICES ASSUME StateOK, TeamInv, [SignInNext]_factorVars PROVE TeamInv'
  OBVIOUS
<1>1. CASE SignInNext
  BY <1>1, SignInKeepsTeam, MailKeepsTeam, OthersKeepTeam, EnvironmentKeepsTeam DEF SignInNext, Mail
<1>2. CASE UNCHANGED factorVars
  BY <1>2, TeamKept DEF factorVars, historyVars, limiterVars, StateOK, Waiting
<1> QED BY <1>1, <1>2

LEMMA TeamCounted == StateOK /\ TeamInv => TeamNotBlocked
<1> SUFFICES ASSUME StateOK, TeamInv PROVE TeamNotBlocked
  OBVIOUS
<1> DEFINE t == clock - Window + 1
           recent == {u \in 1..clock : u > clock - Window}
<1>0. /\ Ip \in Keys /\ hits[Ip] \in Seq(Nat) /\ failures \in [1..MaxClock -> Nat]
      /\ clock \in Nat /\ MaxClock \in Nat /\ clock <= MaxClock /\ Window \in Nat /\ t \in Int
  BY AddressTimes, LimiterAssumption, SecondFactorAssumption DEF TeamInv, StateOK
<1>1. PICK o \in 0..Len(hits[Ip]) :
        /\ Pruned(Ip) = SubSeq(hits[Ip], o + 1, Len(hits[Ip]))
        /\ Len(hits[Ip]) - o = Cardinality(Since(hits[Ip], t))
  BY <1>0, PrunedIs
<1>2. Len(Pruned(Ip)) = Cardinality(Since(hits[Ip], t))
  BY <1>0, <1>1, SinceDropped
<1>3. Failed(recent) = Failed(From(t))
  <2>1. recent = {u \in From(t) : u <= clock}
    BY <1>0 DEF From
  <2>2. \A u \in From(t) : u \notin recent => 1..failures[u] = {}
    <3> SUFFICES ASSUME NEW u \in From(t), u \notin recent PROVE 1..failures[u] = {}
      OBVIOUS
    <3>1. u \in 1..MaxClock /\ u > clock
      BY <1>0, <2>1 DEF From
    <3>2. failures[u] = 0
      BY <3>1 DEF TeamInv
    <3> QED BY <3>2
  <2> HIDE DEF recent
  <2> QED BY <2>1, <2>2 DEF Failed
<1>4. Cardinality(Since(hits[Ip], t)) <= Cardinality(Failed(From(t)))
  BY <1>0 DEF TeamInv
<1> QED BY <1>2, <1>3, <1>4 DEF TeamNotBlocked

(***************************************************************************)
(* TeamNotBlocked, of every run, whichever requests of the member overlap, *)
(* end or are lost (core/ratelimit.py): reset takes from the address its   *)
(* last attempt, not the one that succeeded, and yet the address never has *)
(* more attempts left than have failed or wait.                            *)
(***************************************************************************)
THEOREM TeamSignsIn == SignInSpec => []TeamNotBlocked
<1>1. FactorInit => StateOK /\ TeamInv
  BY StateInit, TeamInit
<1>2. StateOK /\ TeamInv /\ [SignInNext]_factorVars => (StateOK /\ TeamInv)'
  BY StateNext, TeamNext
<1> QED BY <1>1, <1>2, TeamCounted, PTL DEF SignInSpec

-----------------------------------------------------------------------------
(***************************************************************************)
(* The answer to an account at a limit.                                    *)
(***************************************************************************)
LimitInv == \A k \in Keys : Len(hits[k]) <= LimitOf(k)

LEMMA DequeTimes ==
  ASSUME StateOK, NEW k \in Keys
  PROVE  /\ hits[k] \in Seq(1..clock) /\ hits[k] \in Seq(Nat)
         /\ Len(hits[k]) \in Nat /\ DOMAIN hits[k] = 1..Len(hits[k])
         /\ LimitOf(k) \in Nat /\ LimitOf(k) >= 1 /\ Window \in Nat /\ Window >= 1 /\ clock \in Nat
<1>1. hits[k] \in Seq(1..clock)
  BY DEF StateOK, HitsOK
<1>2. 1..clock \subseteq Nat
  BY DEF StateOK
<1> QED BY <1>1, <1>2, SeqMonotonic, LenProperties, LimiterAssumption DEF StateOK, LimitOf

LEMMA AccountKey == \A id \in Identifiers : id \in Keys /\ id # Ip /\ LimitOf(id) = MaxAttempts
BY LimiterAssumption DEF Keys, LimitOf

LEMMA AddressKey == Ip \in Keys /\ LimitOf(Ip) = MaxPerIp
BY DEF Keys, LimitOf

LEMMA PrunedShorter ==
  ASSUME StateOK, NEW k \in Keys
  PROVE  /\ Pruned(k) \in Seq(1..clock) /\ Len(Pruned(k)) \in Nat
         /\ Len(Pruned(k)) <= Len(hits[k])
         /\ Len(Pruned(k)) = Len(hits[k]) => Pruned(k) = hits[k]
<1>0. hits[k] \in Seq(Nat) /\ hits[k] \in Seq(1..clock) /\ Len(hits[k]) \in Nat
  BY DequeTimes
<1>1. PICK o \in 0..Len(hits[k]) : Pruned(k) = SubSeq(hits[k], o + 1, Len(hits[k]))
  BY <1>0, PrunedIs
<1>2. /\ Len(Pruned(k)) = Len(hits[k]) - o
      /\ \A i \in 1..Len(Pruned(k)) : Pruned(k)[i] = hits[k][i + o]
  BY <1>0, <1>1, SinceDropped
<1>3. Pruned(k) \in Seq(1..clock)
  BY PrunedTyped DEF StateOK
<1>4. ASSUME o = 0 PROVE Pruned(k) = hits[k]
  <2>1. Len(Pruned(k)) = Len(hits[k])
    BY <1>0, <1>2, <1>4
  <2>2. \A i \in 1..Len(Pruned(k)) : i + o = i
    BY <1>0, <1>4
  <2>3. \A i \in 1..Len(Pruned(k)) : Pruned(k)[i] = hits[k][i]
    BY <1>2, <2>2
  <2> QED BY <1>0, <1>3, <2>1, <2>3, SeqEqual
<1> QED BY <1>0, <1>2, <1>3, <1>4

LEMMA CheckLimits ==
  ASSUME StateOK, LimitInv, NEW id \in Identifiers, CheckAttempt(id)
  PROVE  LimitInv'
<1> SUFFICES ASSUME NEW k \in Keys PROVE Len(hits'[k]) <= LimitOf(k)
  BY DEF LimitInv, LimitOf
<1>1. CASE k \in {id, Ip}
  <2>1. hits'[k] = Append(Pruned(k), clock) /\ Len(Pruned(k)) < LimitOf(k)
    BY <1>1, AccountKey, AddressKey DEF CheckAttempt, Allowed
  <2>2. Pruned(k) \in Seq(1..clock) /\ clock \in 1..clock /\ Len(Pruned(k)) \in Nat
    BY PrunedShorter DEF StateOK
  <2>3. Len(hits'[k]) = Len(Pruned(k)) + 1
    BY <2>1, <2>2, AppendProperties
  <2> QED BY <2>1, <2>2, <2>3, DequeTimes
<1>2. CASE k \notin {id, Ip}
  BY <1>2 DEF CheckAttempt, LimitInv
<1> QED BY <1>1, <1>2

LEMMA ResetLimits ==
  ASSUME StateOK, LimitInv, NEW id \in Identifiers, ResetAttempts(id)
  PROVE  LimitInv'
<1> SUFFICES ASSUME NEW k \in Keys PROVE Len(hits'[k]) <= LimitOf(k)
  BY DEF LimitInv, LimitOf
<1>0. id \in Keys /\ id # Ip /\ Ip \in Keys /\ hits \in [Keys -> Seq(1..clock)]
  BY AccountKey, AddressKey DEF StateOK, HitsOK
<1>1. Len(hits[k]) <= LimitOf(k) /\ LimitOf(k) \in Nat /\ Len(<<>>) = 0
  BY DequeTimes, EmptySeq DEF LimitInv
<1>2. CASE k = Ip /\ hits[Ip] # <<>>
  <2>1. hits'[k] = SubSeq(hits[Ip], 1, Len(hits[Ip]) - 1)
    BY <1>0, <1>2 DEF ResetAttempts
  <2>2. Len(hits[Ip]) \in Nat /\ Len(hits[Ip]) >= 1 /\ hits[Ip] \in Seq(Nat)
    BY <1>0, <1>2, DequeTimes, EmptySeq, LenProperties
  <2>3. Len(hits'[k]) = Len(hits[Ip]) - 1
    BY <2>1, <2>2, SubSeqProperties
  <2> QED BY <1>1, <1>2, <2>2, <2>3
<1>3. CASE ~(k = Ip /\ hits[Ip] # <<>>)
  <2>1. hits'[k] = <<>> \/ hits'[k] = hits[k]
    BY <1>0, <1>3 DEF ResetAttempts
  <2> QED BY <1>1, <2>1
<1> QED BY <1>2, <1>3

LEMMA LimitNext == StateOK /\ LimitInv /\ [SignInNext]_factorVars => LimitInv'
<1> SUFFICES ASSUME StateOK, LimitInv, [SignInNext]_factorVars PROVE LimitInv'
  OBVIOUS
<1>0. {"password", "code"} \subseteq Identifiers
  BY SecondFactorAssumption
<1>1. ASSUME NEW id \in Identifiers, CheckAttempt(id) PROVE LimitInv'
  BY <1>1, CheckLimits
<1>2. ASSUME NEW id \in Identifiers, RefuseAttempt(id) PROVE LimitInv'
  <2> SUFFICES ASSUME NEW k \in Keys PROVE Len(hits'[k]) <= LimitOf(k)
    BY DEF LimitInv, LimitOf
  <2>1. hits'[k] = Pruned(k) \/ hits'[k] = hits[k]
    BY <1>2 DEF RefuseAttempt
  <2>2. Len(hits[k]) <= LimitOf(k)
    BY DEF LimitInv
  <2> QED BY <2>1, <2>2, DequeTimes, PrunedShorter
<1>3. ASSUME NEW id \in Identifiers, ResetAttempts(id) PROVE LimitInv'
  BY <1>3, ResetLimits
<1>4. ASSUME UNCHANGED hits PROVE LimitInv'
  BY <1>4 DEF LimitInv, LimitOf
<1>5. CASE Restart
  <2>1. \A k \in Keys : hits'[k] = <<>>
    BY <1>5 DEF Restart, ForgetAttempts
  <2>2. Len(<<>>) = 0 /\ \A k \in Keys : LimitOf(k) \in Nat
    BY EmptySeq, DequeTimes
  <2> QED BY <2>1, <2>2 DEF LimitInv, LimitOf
<1>6. ASSUME NEW t \in Tabs,
             \/ Login(t) \/ LoginDone(t) \/ SecondStepDone(t)
             \/ \E code \in Codes : LoginSecondStep(t, code)
      PROVE  LimitInv'
  BY <1>0, <1>1, <1>3, <1>6 DEF Login, LoginDone, SecondStepDone, LoginSecondStep, Attempt, Succeed
<1>7. ASSUME NEW t \in Tabs,
             \/ ResetPassword(t) \/ Mail(t) \/ Issue(t) \/ MfaSetup(t)
             \/ \E code \in Codes : MfaEnable(t, code) \/ MfaDisable(t, code) \/ MfaNewRecoveryCodes(t, code)
      PROVE  LimitInv'
  BY <1>4, <1>7 DEF ResetPassword, Mail, ResendVerification, ResendDone, VerifyEmail, EmailVerified,
                    Issue, MfaSetup, MfaEnable, MfaDisable, MfaNewRecoveryCodes, limiterVars
<1>8. CASE ResetMemberMfa \/ (\E p \in Actors : WriteFactor(p) \/ RequestFails(p)) \/ Tick
  BY <1>4, <1>8 DEF ResetMemberMfa, WriteFactor, RequestFails, Tick, limiterVars
<1>9. ASSUME NEW id \in Identifiers, FailedAttempt(id) \/ Refused(id) PROVE LimitInv'
  BY <1>1, <1>2, <1>9 DEF FailedAttempt, Refused, Attempt
<1>10. CASE UNCHANGED factorVars
  BY <1>4, <1>10 DEF factorVars, limiterVars
<1> QED BY <1>5, <1>6, <1>7, <1>8, <1>9, <1>10 DEF SignInNext, Mail

(***************************************************************************)
(* The end of the oldest attempt left in a full deque opens a place in it. *)
(***************************************************************************)
LEMMA OldestOpens ==
  ASSUME StateOK, LimitInv, NEW k \in Keys, Len(Pruned(k)) >= LimitOf(k)
  PROVE  OpensAt(k, clock + (Window - (clock - Pruned(k)[1])))
<1> DEFINE s == hits[k]
<1>0. /\ s \in Seq(1..clock) /\ s \in Seq(Nat) /\ Len(s) \in Nat
      /\ DOMAIN s = 1..Len(s) /\ LimitOf(k) \in Nat /\ LimitOf(k) >= 1
      /\ Window \in Nat /\ clock \in Nat
  BY DequeTimes
<1>1. Pruned(k) = s /\ Len(s) = LimitOf(k)
  BY <1>0, PrunedShorter DEF LimitInv
<1>2. 1 \in DOMAIN s /\ s # <<>> /\ s[1] \in Nat
  BY <1>0, <1>1, ElementOfSeq, EmptySeq
<1>3. s[1] > clock - Window
  <2>1. Len(s) = Cardinality(Since(s, clock - Window + 1))
    <3>1. PICK o \in 0..Len(s) :
            /\ Pruned(k) = SubSeq(s, o + 1, Len(s))
            /\ Len(s) - o = Cardinality(Since(s, clock - Window + 1))
      BY <1>0, PrunedIs
    <3>2. Len(Pruned(k)) = Len(s) - o
      BY <1>0, <3>1, SinceDropped
    <3> QED BY <1>1, <3>1, <3>2
  <2>2. Since(s, clock - Window + 1) \in SUBSET DOMAIN s
    BY DEF Since
  <2>3. IsFiniteSet(DOMAIN s) /\ Cardinality(DOMAIN s) = Len(s)
    BY <1>0, SinceFinite
  <2> HIDE DEF s
  <2>4. 1 \in Since(s, clock - Window + 1)
    BY <1>2, <2>1, <2>2, <2>3, FS_Subset
  <2> QED BY <1>0, <1>2, <2>4 DEF Since
<1> DEFINE later == clock + (Window - (clock - s[1]))
<1>4. later > clock /\ later - Window = s[1]
  <2> DEFINE first == s[1]
  <2> HIDE DEF first
  <2>1. first \in Nat /\ first > clock - Window
    BY <1>2, <1>3 DEF first
  <2>2. /\ clock + (Window - (clock - first)) > clock
        /\ (clock + (Window - (clock - first))) - Window = first
    BY <1>0, <2>1
  <2> QED BY <2>2 DEF first
<1>5. Cardinality({i \in DOMAIN s : s[i] > s[1]}) < LimitOf(k)
  <2> DEFINE L == {i \in DOMAIN s : s[i] > s[1]}
  <2>1. L \in SUBSET (DOMAIN s \ {1})
    BY <1>2
  <2>2. IsFiniteSet(DOMAIN s) /\ Cardinality(DOMAIN s) = Len(s)
    BY <1>0, SinceFinite
  <2> HIDE DEF s, L
  <2>3. /\ IsFiniteSet(DOMAIN s \ {1}) /\ Cardinality(DOMAIN s \ {1}) = Len(s) - 1
    BY <1>2, <2>2, FS_RemoveElement
  <2>4. Cardinality(L) <= Len(s) - 1 /\ IsFiniteSet(L) /\ Cardinality(L) \in Nat
    BY <2>1, <2>3, FS_Subset, FS_CardinalityType
  <2>5. Cardinality(L) < LimitOf(k)
    BY <1>0, <1>1, <2>4
  <2> QED BY <2>5 DEF L
<1> HIDE DEF later
<1>6. {i \in DOMAIN s : s[i] > later - Window} = {i \in DOMAIN s : s[i] > s[1]}
  BY <1>4
<1>7. OpensAt(k, later)
  BY <1>4, <1>5, <1>6 DEF OpensAt
<1> QED BY <1>1, <1>7 DEF later

LEMMA RetryTold == StateOK /\ LimitInv => RetryWorks
<1> SUFFICES ASSUME StateOK, LimitInv, NEW id \in Identifiers
             PROVE  /\ Len(Pruned(id)) >= MaxAttempts => OpensAt(id, clock + RetryAfter(id))
                    /\ Pruned(id) = <<>> /\ Len(Pruned(Ip)) >= MaxPerIp
                         => OpensAt(Ip, clock + RetryAfter(id))
  BY DEF RetryWorks
<1>1. ASSUME Len(Pruned(id)) >= MaxAttempts PROVE OpensAt(id, clock + RetryAfter(id))
  <2>1. OpensAt(id, clock + (Window - (clock - Pruned(id)[1])))
    BY <1>1, AccountKey, OldestOpens
  <2>2. Pruned(id) # <<>>
    BY <1>1, EmptySeq, LimiterAssumption
  <2> QED BY <2>1, <2>2 DEF RetryAfter
<1>2. ASSUME Pruned(id) = <<>>, Len(Pruned(Ip)) >= MaxPerIp PROVE OpensAt(Ip, clock + RetryAfter(id))
  <2>1. OpensAt(Ip, clock + (Window - (clock - Pruned(Ip)[1])))
    BY <1>2, AddressKey, OldestOpens
  <2> QED BY <1>2, <2>1 DEF RetryAfter
<1> QED BY <1>1, <1>2

(***************************************************************************)
(* RetryWorks, of every run: no overlap of requests, reset or restart      *)
(* makes a deque longer than its limit, so that the oldest attempt left is *)
(* the one whose end opens a place (core/ratelimit.py).  It says nothing to*)
(* an account that has attempts, but not enough to be refused for them.    *)
(***************************************************************************)
THEOREM RetryTellsTruth == SignInSpec => []RetryWorks
<1>1. FactorInit => StateOK /\ LimitInv
  <2> SUFFICES ASSUME FactorInit PROVE StateOK /\ LimitInv
    OBVIOUS
  <2>1. \A k \in Keys : hits[k] = <<>>
    BY DEF FactorInit, LimiterInit
  <2>2. Len(<<>>) = 0 /\ \A k \in Keys : LimitOf(k) \in Nat
    BY EmptySeq, StateInit, DequeTimes
  <2> QED BY <2>1, <2>2, StateInit DEF LimitInv
<1>2. StateOK /\ LimitInv /\ [SignInNext]_factorVars => (StateOK /\ LimitInv)'
  BY StateNext, LimitNext
<1> QED BY <1>1, <1>2, RetryTold, PTL DEF SignInSpec

-----------------------------------------------------------------------------
(***************************************************************************)
(* The sessions that are opened.                                           *)
(***************************************************************************)

\* Requests about to open a session that a code has paid for, and those of a
\* password that need none since the member they read had no second factor.
Paying == {t \in Tabs : pc[t] = "issue" /\ job[t].kind = "session"}

Unpaid(t) == \/ pc[t] = "issue" /\ job[t].kind \notin {"session", "verify"}
             \/ pc[t] = "write" /\ job[t].kind = "login" /\ ~job[t].on

\* mfa_enable has checked the first code, and not yet turned the factor on.
SetsOn(j)   == j.kind = "set" /\ "on" \in DOMAIN j.set
Enabling(t) == pc[t] = "write" /\ SetsOn(job[t]) /\ job[t].set.on

\* No sign-in by a password alone is half-way when the factor is turned on.
FactorApart == \A s, t \in Tabs : ~(Unpaid(s) /\ Enabling(t))

\* What the write of a request does to the switch of the factor.
SwitchOK(j) ==
  /\ j.kind = "session" => "on" \notin DOMAIN j.set
  /\ SetsOn(j) => j.set.on \in BOOLEAN

(***************************************************************************)
(* There is an accepted code for each session about to be opened, as long  *)
(* as the factor is on; a sign-in that needs none is one of a member who   *)
(* has no second factor still.                                             *)
(***************************************************************************)
PaidInv ==
  /\ "on" \in DOMAIN member /\ member.on \in BOOLEAN
  /\ credit \in Nat /\ Cardinality(Paying) <= credit
  /\ \A t \in Tabs : Unpaid(t) => ~member.on
  /\ \A t \in Tabs : pc[t] = "write" => SwitchOK(job[t])
  /\ pc[Manager] = "write" => job[Manager] = ResetJob

LEMMA PayingCounts ==
  /\ IsFiniteSet(Paying) /\ Cardinality(Paying) \in Nat
  /\ \A S \in SUBSET Paying : IsFiniteSet(S) /\ Cardinality(S) <= Cardinality(Paying)
  /\ \A t \in Paying : Cardinality(Paying \ {t}) = Cardinality(Paying) - 1
  /\ \A t : t \notin Paying => Cardinality(Paying \cup {t}) = Cardinality(Paying) + 1
<1>1. IsFiniteSet(Tabs) /\ Paying \subseteq Tabs
  BY SecondFactorAssumption DEF Paying
<1>2. IsFiniteSet(Paying)
  BY <1>1, FS_Subset
<1> HIDE DEF Paying
<1> QED BY <1>2, FS_CardinalityType, FS_Subset, FS_AddElement, FS_RemoveElement

\* A step after which no more sessions are to be opened with a code.
LEMMA FewerPaying ==
  ASSUME PaidInv, Paying' \subseteq Paying, credit' = credit
  PROVE  credit' \in Nat /\ Cardinality(Paying') <= credit'
<1>1. Cardinality(Paying') <= Cardinality(Paying)
  BY PayingCounts
<1>2. IsFiniteSet(Paying') BY PayingCounts
<1>3. Cardinality(Paying') \in Nat BY <1>2, FS_CardinalityType
<1> HIDE DEF Paying
<1> QED BY <1>1, <1>3, PayingCounts DEF PaidInv

\* A step that opens nothing and pays for nothing: each request is where it
\* was, at its end, or has read the member as it is.
LEMMA PaidKept ==
  ASSUME PaidInv, credit' = credit,
         "on" \in DOMAIN member', member'.on \in BOOLEAN,
         \A t \in Tabs : Unpaid(t) => ~member'.on,
         \A t \in Tabs :
           \/ pc'[t] = "idle"
           \/ pc'[t] = pc[t] /\ job'[t] = job[t]
           \/ pc'[t] = "issue" /\ job'[t].kind # "session" /\ (job'[t].kind = "verify" \/ ~member'.on)
           \/ pc'[t] = "write" /\ SwitchOK(job'[t]) /\ (job'[t].kind = "login" => job'[t].on \/ ~member'.on),
         pc'[Manager] = "write" =>
           (pc[Manager] = "write" /\ job'[Manager] = job[Manager]) \/ job'[Manager] = ResetJob
  PROVE  PaidInv'
<1>1. Paying' \subseteq Paying
  BY DEF Paying
<1>2. credit' \in Nat /\ Cardinality(Paying') <= credit'
  BY <1>1, FewerPaying
<1>3. ASSUME NEW t \in Tabs, Unpaid(t)' PROVE ~member'.on
  BY <1>3 DEF Unpaid
<1>4. ASSUME NEW t \in Tabs, pc'[t] = "write" PROVE SwitchOK(job'[t])
  BY <1>4 DEF PaidInv
<1> QED BY <1>2, <1>3, <1>4 DEF PaidInv

\* A request of a tab begins, without writing the member.
LEMMA PaidBegun ==
  ASSUME StateOK, PaidInv, NEW t \in Tabs, NEW at, NEW j, Begin(t, at, j),
         member' = member, credit' = credit,
         \/ at = "issue" /\ j.kind # "session" /\ ~member.on
         \/ at = "write" /\ SwitchOK(j) /\ (j.kind = "login" => j.on \/ ~member.on)
  PROVE  PaidInv'
<1>1. t \in Actors /\ Manager \in Actors /\ Manager # t /\ \A s \in Tabs : s \in Actors
  BY Actor, SecondFactorAssumption
<1>2. /\ pc'[t] = at /\ job'[t] = j
      /\ \A q \in Actors : q # t => pc'[q] = pc[q] /\ job'[q] = job[q]
  BY <1>1, Begun DEF StateOK
<1>3. ASSUME NEW s \in Tabs
      PROVE  \/ pc'[s] = pc[s] /\ job'[s] = job[s]
             \/ pc'[s] = "issue" /\ job'[s].kind # "session" /\ ~member'.on
             \/ pc'[s] = "write" /\ SwitchOK(job'[s]) /\ (job'[s].kind = "login" => job'[s].on \/ ~member'.on)
  BY <1>1, <1>2
<1>4. pc'[Manager] = pc[Manager] /\ job'[Manager] = job[Manager]
  BY <1>1, <1>2
<1> QED BY <1>3, <1>4, PaidKept DEF PaidInv

\* A step after which the requests are where they were or idle.
LEMMA PaidEnds ==
  ASSUME PaidInv, member' = member, credit' = credit,
         \A p \in Actors : pc'[p] = "idle" \/ (pc'[p] = pc[p] /\ job'[p] = job[p])
  PROVE  PaidInv'
<1>1. \A t \in Tabs : pc'[t] = "idle" \/ (pc'[t] = pc[t] /\ job'[t] = job[t])
  BY Actor
<1>2. pc'[Manager] = "idle" \/ (pc'[Manager] = pc[Manager] /\ job'[Manager] = job[Manager])
  BY Actor
<1> QED BY <1>1, <1>2, PaidKept DEF PaidInv

LEMMA LoginKeepsPaid ==
  ASSUME StateOK, PaidInv, NEW t \in Tabs,
         Login(t) \/ LoginDone(t) \/ ResetPassword(t)
           \/ \E code \in Codes : LoginSecondStep(t, code)
  PROVE  PaidInv'
<1>0. t \in Actors
  BY Actor
<1>1. CASE Login(t)
  <2> DEFINE j == [kind |-> "login", on |-> member.on, at |-> clock]
  <2>1. Begin(t, "write", j) /\ member' = member /\ credit' = credit
    BY <1>1 DEF Login
  <2>2. SwitchOK(j) /\ (j.on \/ ~member.on)
    BY DEF SwitchOK, SetsOn
  <2> HIDE DEF j
  <2> QED BY <2>1, <2>2, PaidBegun
<1>2. CASE LoginDone(t)
  <2>1. /\ pc[t] = "write" /\ job[t].kind = "login" /\ member' = member /\ credit' = credit
        /\ IF job[t].on THEN pc'[t] = "idle" ELSE pc'[t] = "issue" /\ job'[t] = job[t]
        /\ \A p \in Actors : p # t => pc'[p] = pc[p] /\ job'[p] = job[p]
    BY <1>0, <1>2 DEF LoginDone, StateOK, JobsOK
  <2>2. pc'[t] = "idle" \/ (pc'[t] = "issue" /\ job'[t].kind # "session" /\ ~member'.on)
    <3>1. ~job[t].on => ~member.on
      BY <2>1 DEF PaidInv, Unpaid
    <3> QED BY <2>1, <3>1
  <2>3. \A p \in Tabs : p # t => pc'[p] = pc[p] /\ job'[p] = job[p]
    BY <2>1, Actor
  <2>4. pc'[Manager] = pc[Manager] /\ job'[Manager] = job[Manager]
    BY <2>1, Actor, SecondFactorAssumption
  <2> QED BY <2>1, <2>2, <2>3, <2>4, PaidKept DEF PaidInv
<1>3. CASE ResetPassword(t)
  <2>1. member' = member /\ credit' = credit
    BY <1>3 DEF ResetPassword, historyVars
  <2>2. CASE member.on
    BY <1>3, <2>1, <2>2, PaidEnds DEF ResetPassword
  <2>3. CASE ~member.on
    <3> DEFINE j == [kind |-> "link"]
    <3>1. Begin(t, "issue", j) /\ j.kind # "session"
      BY <1>3, <2>3 DEF ResetPassword
    <3> HIDE DEF j
    <3> QED BY <2>1, <2>3, <3>1, PaidBegun
  <2> QED BY <2>2, <2>3
<1>4. ASSUME NEW code \in Codes, LoginSecondStep(t, code) PROVE PaidInv'
  <2> DEFINE j == [kind |-> "session", set |-> Use(member, code), code |-> code, at |-> clock]
  <2>1. member' = member /\ credit' = credit /\ (Begin(t, "write", j) \/ UNCHANGED <<pc, job>>)
    BY <1>4 DEF LoginSecondStep
  <2>2. SwitchOK(j) /\ j.kind # "login"
    <3>1. "on" \notin DOMAIN Use(member, code)
      BY DEF Use
    <3> QED BY <3>1 DEF SwitchOK, SetsOn
  <2> HIDE DEF j
  <2>3. CASE Begin(t, "write", j)
    BY <2>1, <2>2, <2>3, PaidBegun
  <2>4. CASE UNCHANGED <<pc, job>>
    BY <2>1, <2>4, PaidEnds
  <2> QED BY <2>1, <2>3, <2>4
<1> QED BY <1>1, <1>2, <1>3, <1>4

\* The link of the confirmation pays for nothing, and is not asked to.
LEMMA MailKeepsPaid ==
  ASSUME StateOK, PaidInv, NEW t \in Tabs, Mail(t)
  PROVE  PaidInv'
<1>1. member' = member /\ credit' = credit
  BY MailSteps
<1>2. ASSUME NEW s \in Tabs
      PROVE  \/ pc'[s] = "idle"
             \/ pc'[s] = pc[s] /\ job'[s] = job[s]
             \/ pc'[s] = "issue" /\ job'[s].kind # "session" /\ (job'[s].kind = "verify" \/ ~member'.on)
             \/ pc'[s] = "write" /\ SwitchOK(job'[s]) /\ (job'[s].kind = "login" => job'[s].on \/ ~member'.on)
  <2>1. CASE s # t
    BY <2>1, MailSteps, Actor
  <2>2. CASE s = t
    <3>1. job'[t].kind \in {"resend", "verify"} => SwitchOK(job'[t]) /\ job'[t].kind # "login"
      BY DEF SwitchOK, SetsOn
    <3> QED BY <2>2, <3>1, MailSteps
  <2> QED BY <2>1, <2>2
<1>3. pc'[Manager] = pc[Manager] /\ job'[Manager] = job[Manager]
  BY MailSteps, Actor, SecondFactorAssumption
<1> QED BY <1>1, <1>2, <1>3, PaidKept DEF PaidInv

\* An accepted code pays for one session more, ...
LEMMA SecondStepPays ==
  ASSUME StateOK, PaidInv, NEW t \in Tabs, SecondStepDone(t)
  PROVE  PaidInv'
<1>0. t \in Actors /\ Manager \in Actors /\ Manager # t /\ \A s \in Tabs : s \in Actors
  BY Actor, SecondFactorAssumption
<1>1. /\ pc[t] = "write" /\ job[t].kind = "session" /\ pc'[t] = "issue" /\ job' = job
      /\ \A p \in Actors : p # t => pc'[p] = pc[p]
      /\ credit' = credit + 1 /\ member' = Patch(member, job[t].set)
  BY <1>0 DEF SecondStepDone, StateOK, JobsOK
<1>2. DOMAIN member' = DOMAIN member /\ member'.on = member.on
  <2>1. "on" \notin DOMAIN job[t].set /\ "on" \in DOMAIN member
    BY <1>1 DEF PaidInv, SwitchOK
  <2> QED BY <1>1, <2>1 DEF Patch
<1>3. Paying' = Paying \cup {t} /\ t \notin Paying
  BY <1>0, <1>1 DEF Paying
<1>4. credit' \in Nat /\ Cardinality(Paying') <= credit'
  <2>1. Cardinality(Paying') = Cardinality(Paying) + 1
    BY <1>3, PayingCounts
  <2> QED BY <1>1, <2>1, PayingCounts DEF PaidInv
<1>5. \A s \in Tabs : Unpaid(s)' => ~member'.on
  BY <1>0, <1>1, <1>2 DEF PaidInv, Unpaid
<1>6. \A s \in Tabs : pc'[s] = "write" => SwitchOK(job'[s])
  BY <1>0, <1>1 DEF PaidInv
<1>7. pc'[Manager] = "write" => job'[Manager] = ResetJob
  BY <1>0, <1>1 DEF PaidInv
<1> QED BY <1>2, <1>4, <1>5, <1>6, <1>7 DEF PaidInv

\* ... which is opened while the factor is on, or for nothing once it is off.
LEMMA IssueSpends ==
  ASSUME StateOK, PaidInv, NEW t \in Tabs, Issue(t)
  PROVE  PaidInv'
<1>0. t \in Actors /\ Manager \in Actors /\ \A s \in Tabs : s \in Actors
  BY Actor, SecondFactorAssumption
<1>1. /\ pc[t] = "issue" /\ pc'[t] = "idle" /\ member' = member
      /\ credit' = IF member.on /\ job[t].kind # "verify" THEN credit - 1 ELSE credit
      /\ \A p \in Actors : p # t => pc'[p] = pc[p] /\ job'[p] = job[p]
  BY <1>0 DEF Issue, StateOK, JobsOK
<1>2. CASE ~member.on \/ job[t].kind = "verify"
  <2>1. credit' = credit BY <1>1, <1>2 DEF PaidInv
  <2> QED BY <1>1, <2>1, PaidEnds
<1>3. CASE member.on /\ job[t].kind # "verify"
  <2>1. t \in Paying
    BY <1>1, <1>3 DEF PaidInv, Unpaid, Paying
  <2>2. Paying' = Paying \ {t}
    BY <1>0, <1>1 DEF Paying
  <2>3. credit' \in Nat /\ Cardinality(Paying') <= credit'
    <3>1. Cardinality(Paying') = Cardinality(Paying) - 1 /\ Cardinality(Paying') \in Nat
      <4>1. Cardinality(Paying') = Cardinality(Paying) - 1
        BY <2>1, <2>2, PayingCounts
      <4>2. IsFiniteSet(Paying')
        BY <2>2, PayingCounts
      <4> QED BY <4>1, <4>2, FS_CardinalityType
    <3>2. credit' = credit - 1 BY <1>1, <1>3
    <3> QED BY <3>1, <3>2, PayingCounts DEF PaidInv
  <2>4. \A s \in Tabs : Unpaid(s)' => ~member'.on
    BY <1>0, <1>1 DEF PaidInv, Unpaid
  <2>5. \A s \in Tabs : pc'[s] = "write" => SwitchOK(job'[s])
    BY <1>0, <1>1 DEF PaidInv
  <2>6. pc'[Manager] = "write" => job'[Manager] = ResetJob
    BY <1>0, <1>1 DEF PaidInv
  <2> QED BY <1>1, <2>3, <2>4, <2>5, <2>6 DEF PaidInv
<1>4. member.on \in BOOLEAN BY DEF PaidInv
<1> QED BY <1>2, <1>3, <1>4

\* The write of the configuration turns the factor on when no sign-in without
\* it is half-way.
LEMMA WriteKeepsPaid ==
  ASSUME StateOK, PaidInv, FactorApart, NEW p \in Actors, WriteFactor(p)
  PROVE  PaidInv'
<1>0. Manager \in Actors /\ \A s \in Tabs : s \in Actors
  BY Actor
<1>1. /\ pc[p] = "write" /\ job[p].kind = "set" /\ pc'[p] = "idle" /\ credit' = credit
      /\ \A q \in Actors : q # p => pc'[q] = pc[q] /\ job'[q] = job[q]
      /\ member' = Patch(member, job[p].set)
  BY DEF WriteFactor, StateOK, JobsOK
<1>2. SwitchOK(job[p]) /\ (p = Manager => job[p].set = NoFactor)
  <2>1. CASE p = Manager
    <3>1. job[p].set = NoFactor /\ job[p].kind = "set"
      BY <1>1, <2>1 DEF PaidInv, ResetJob
    <3>2. NoFactor.on \in BOOLEAN BY DEF NoFactor
    <3> QED BY <3>1, <3>2 DEF SwitchOK
  <2>2. CASE p \in Tabs
    BY <1>1, <2>2, SecondFactorAssumption DEF PaidInv
  <2> QED BY <2>1, <2>2 DEF Actors
<1>3. /\ "on" \in DOMAIN member' /\ member'.on \in BOOLEAN
      /\ member'.on => member.on \/ (SetsOn(job[p]) /\ job[p].set.on)
  <2>1. "on" \in DOMAIN member /\ member.on \in BOOLEAN
    BY DEF PaidInv
  <2>2. DOMAIN member' = DOMAIN member
    BY <1>1 DEF Patch
  <2>3. member'.on = IF "on" \in DOMAIN job[p].set THEN job[p].set.on ELSE member.on
    BY <1>1, <2>1 DEF Patch
  <2> QED BY <1>1, <1>2, <2>1, <2>2, <2>3 DEF SwitchOK, SetsOn
<1>4. ASSUME NEW t \in Tabs, Unpaid(t) PROVE ~member'.on
  <2>1. ~member.on BY <1>4 DEF PaidInv
  <2>2. CASE p = Manager
    BY <1>2, <1>3, <2>1, <2>2 DEF NoFactor
  <2>3. CASE p \in Tabs
    <3>1. ~Enabling(p) BY <1>4, <2>3 DEF FactorApart
    <3> QED BY <1>1, <1>3, <2>1, <3>1 DEF Enabling
  <2> QED BY <2>2, <2>3 DEF Actors
<1>5. \A s \in Tabs : pc'[s] = "idle" \/ (pc'[s] = pc[s] /\ job'[s] = job[s])
  BY <1>0, <1>1
<1>6. pc'[Manager] = "write" => pc[Manager] = "write" /\ job'[Manager] = job[Manager]
  BY <1>0, <1>1
<1> QED BY <1>1, <1>3, <1>4, <1>5, <1>6, PaidKept

\* Reading and deciding what the configuration will be.
LEMMA DecisionsKeepPaid ==
  ASSUME StateOK, PaidInv,
         \/ ResetMemberMfa
         \/ \E t \in Tabs : MfaSetup(t) \/ \E code \in Codes :
              MfaEnable(t, code) \/ MfaDisable(t, code) \/ MfaNewRecoveryCodes(t, code)
  PROVE  PaidInv'
<1>0. credit' = credit /\ member' = member
  BY DEF ResetMemberMfa, MfaSetup, MfaEnable, MfaDisable, MfaNewRecoveryCodes, historyVars
<1>1. ASSUME NEW t \in Tabs, NEW j, j.kind = "set", Begin(t, "write", j),
             "on" \in DOMAIN j.set => j.set.on \in BOOLEAN
      PROVE  PaidInv'
  <2>1. SwitchOK(j) /\ j.kind # "login"
    BY <1>1 DEF SwitchOK, SetsOn
  <2> QED BY <1>0, <1>1, <2>1, PaidBegun
<1>2. CASE ResetMemberMfa
  <2>1. Begin(Manager, "write", ResetJob)
    BY <1>2 DEF ResetMemberMfa, ResetJob
  <2>2. job'[Manager] = ResetJob /\ \A t \in Tabs : pc'[t] = pc[t] /\ job'[t] = job[t]
    BY <2>1, Begun, Actor, SecondFactorAssumption DEF StateOK
  <2> QED BY <1>0, <2>2, PaidKept DEF PaidInv
<1>3. ASSUME NEW t \in Tabs, MfaSetup(t) PROVE PaidInv'
  <2> DEFINE j == [kind |-> "set", set |-> [pending |-> secrets + 1], codes |-> {}]
  <2>1. Begin(t, "write", j) BY <1>3 DEF MfaSetup
  <2>2. j.kind = "set" /\ "on" \notin DOMAIN j.set OBVIOUS
  <2> HIDE DEF j
  <2> QED BY <1>1, <2>1, <2>2
<1>4. ASSUME NEW t \in Tabs, NEW code \in Codes, MfaEnable(t, code) PROVE PaidInv'
  <2> DEFINE j == [kind |-> "set", codes |-> {code},
                   set |-> [on |-> TRUE, secret |-> member.pending, pending |-> 0, last |-> code.n,
                            recovery |-> RecoverySet(sets + 1)]]
  <2>1. Begin(t, "write", j) BY <1>4 DEF MfaEnable
  <2>2. j.kind = "set" /\ j.set.on \in BOOLEAN OBVIOUS
  <2> HIDE DEF j
  <2> QED BY <1>1, <2>1, <2>2
<1>5. ASSUME NEW t \in Tabs, NEW code \in Codes, MfaDisable(t, code) PROVE PaidInv'
  <2>1. Begin(t, "write", ResetJob) BY <1>5 DEF MfaDisable, ResetJob
  <2>2. ResetJob.kind = "set" /\ ResetJob.set.on \in BOOLEAN BY DEF ResetJob, NoFactor
  <2> QED BY <1>1, <2>1, <2>2
<1>6. ASSUME NEW t \in Tabs, NEW code \in Codes, MfaNewRecoveryCodes(t, code) PROVE PaidInv'
  <2> DEFINE j == [kind |-> "set", codes |-> {code},
                   set |-> [recovery |-> RecoverySet(sets + 1), last |-> code.n]]
  <2>1. Begin(t, "write", j) BY <1>6 DEF MfaNewRecoveryCodes
  <2>2. j.kind = "set" /\ "on" \notin DOMAIN j.set OBVIOUS
  <2> HIDE DEF j
  <2> QED BY <1>1, <2>1, <2>2
<1> QED BY <1>2, <1>3, <1>4, <1>5, <1>6

LEMMA PaidNext == StateOK /\ PaidInv /\ FactorApart /\ [SignInNext]_factorVars => PaidInv'
<1> SUFFICES ASSUME StateOK, PaidInv, FactorApart, [SignInNext]_factorVars PROVE PaidInv'
  OBVIOUS
<1>1. ASSUME \/ Tick \/ Restart \/ UNCHANGED factorVars
             \/ \E p \in Actors : RequestFails(p)
             \/ \E id \in Identifiers : FailedAttempt(id) \/ Refused(id)
      PROVE  PaidInv'
  <2>1. member' = member /\ credit' = credit
    BY <1>1 DEF Tick, Restart, RequestFails, FailedAttempt, Refused, factorVars, historyVars
  <2>2. \A p \in Actors : pc'[p] = "idle" \/ (pc'[p] = pc[p] /\ job'[p] = job[p])
    BY <1>1 DEF Tick, Restart, RequestFails, FailedAttempt, Refused, factorVars, historyVars,
                StateOK, JobsOK
  <2> QED BY <2>1, <2>2, PaidEnds
<1> QED
  BY <1>1, LoginKeepsPaid, MailKeepsPaid, SecondStepPays, IssueSpends, WriteKeepsPaid, DecisionsKeepPaid
  DEF SignInNext, Mail

(***************************************************************************)
(* SessionsPaid, of every run in which no sign-in without the second       *)
(* factor is half-way when the member turns it on (session_or_challenge,   *)
(* in routers/admin_auth.py), whatever else overlaps: second steps at the  *)
(* same moment pay for a session each, and what a manager resets between   *)
(* the password and the session can only take the factor away.  The session*)
(* of a confirmed address (verify_email) is not one of those.              *)
(***************************************************************************)
THEOREM FactorApartPaid == SignInSpec /\ []FactorApart => []SessionsPaid
<1>1. FactorInit => StateOK /\ PaidInv
  <2> SUFFICES ASSUME FactorInit PROVE PaidInv
    BY StateInit
  <2>1. \A p \in Actors : pc[p] = "idle"
    BY DEF FactorInit
  <2>2. \A t \in Tabs : pc[t] = "idle"
    BY <2>1, Actor
  <2>3. pc[Manager] = "idle"
    BY <2>1, Actor
  <2>4. Paying = {}
    BY <2>2 DEF Paying
  <2>5. Cardinality(Paying) = 0
    BY <2>4, FS_EmptySet
  <2>6. "on" \in DOMAIN member /\ member.on \in BOOLEAN /\ credit = 0
    BY DEF FactorInit, NoFactor
  <2>7. \A t \in Tabs : ~Unpaid(t)
    BY <2>2 DEF Unpaid
  <2> QED BY <2>2, <2>3, <2>5, <2>6, <2>7 DEF PaidInv
<1>2. StateOK /\ PaidInv /\ FactorApart /\ [SignInNext]_factorVars => (StateOK /\ PaidInv)'
  BY StateNext, PaidNext
<1>3. PaidInv => SessionsPaid
  BY DEF PaidInv, SessionsPaid
<1> QED BY <1>1, <1>2, <1>3, PTL DEF SignInSpec

(***************************************************************************)
(* In particular when the member makes one request at a time.              *)
(***************************************************************************)
THEOREM SessionsArePaid ==
  ASSUME OneTab
  PROVE  SignInSpec => []SessionsPaid
<1>1. FactorApart
  <2> SUFFICES ASSUME NEW s \in Tabs, NEW t \in Tabs, Unpaid(s), Enabling(t) PROVE FALSE
    BY DEF FactorApart
  <2>1. s = t BY DEF OneTab
  <2> QED BY <2>1 DEF Unpaid, Enabling, SetsOn
<1> QED BY <1>1, FactorApartPaid, PTL
=============================================================================
