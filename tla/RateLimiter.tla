----------------------------- MODULE RateLimiter -----------------------------
(***************************************************************************)
(* LoginRateLimiter: attempts kept in memory, in a sliding window, per     *)
(* identifier (an account seen from one address) and for the address as a  *)
(* whole.  check and reset run between two awaits: each is one step of     *)
(* the handler that calls it.  One address is modelled: others have deques *)
(* of their own.                                                           *)
(***************************************************************************)
EXTENDS Integers, Sequences, FiniteSets

CONSTANTS
  Identifiers,   \* accounts, invitations... that requests name
  Ip,            \* the address they come from
  MaxAttempts,   \* max_attempts, per identifier
  MaxPerIp,      \* max_per_ip
  Window         \* window_seconds, in ticks of the clock

ASSUME LimiterAssumption ==
  /\ Ip \notin Identifiers
  /\ MaxAttempts \in Nat \ {0} /\ MaxPerIp \in Nat \ {0} /\ Window \in Nat \ {0}

VARIABLES
  clock,  \* time.monotonic() for the limiter, time.time() for the codes
  hits    \* _hits: the deque of each key, oldest attempt first

limiterVars == <<clock, hits>>

Keys == Identifiers \cup {Ip}

LimiterInit(start) ==
  /\ clock = start
  /\ hits = [k \in Keys |-> <<>>]

\* _prune: the attempts of k that are not older than the window.
Pruned(k) ==
  LET old == Cardinality({i \in DOMAIN hits[k] : hits[k][i] <= clock - Window})
  IN  SubSeq(hits[k], old + 1, Len(hits[k]))

\* check lets the attempt through.
Allowed(id) == Len(Pruned(id)) < MaxAttempts /\ Len(Pruned(Ip)) < MaxPerIp

\* check, called before the credentials are looked at: the attempt counts.
CheckAttempt(id) ==
  /\ Allowed(id)
  /\ hits' = [k \in Keys |-> IF k \in {id, Ip} THEN Append(Pruned(k), clock) ELSE hits[k]]

\* check refuses: nothing is counted, the old attempts are forgotten.
RefuseAttempt(id) ==
  /\ ~Allowed(id)
  /\ hits' = [k \in Keys |-> IF k \in {id, Ip} THEN Pruned(k) ELSE hits[k]]

\* Mutant of RetryAfter: rounded down (the + 1 is missing).
RetryAfterShort(id) ==
  LET first == IF Pruned(id) # <<>> THEN Pruned(id)[1] ELSE Pruned(Ip)[1]
  IN  Window - (clock - first) - 1

\* retry_after of a refusal: int(...) + 1 rounds it up to whole seconds, and
\* the ticks are exact.
RetryAfter(id) ==
  LET first == IF Pruned(id) # <<>> THEN Pruned(id)[1] ELSE Pruned(Ip)[1]
  IN  Window - (clock - first)

\* Mutant of ResetAttempts: the attempt that succeeded still counts for the address.
ResetAccount(id) == hits' = [hits EXCEPT ![id] = <<>>]

\* reset: the account's attempts are forgotten, and the last one of the address.
ResetAttempts(id) ==
  hits' = [hits EXCEPT ![id] = <<>>,
                       ![Ip] = IF @ = <<>> THEN @ ELSE SubSeq(@, 1, Len(@) - 1)]

\* The process restarts: the limiter keeps nothing.
ForgetAttempts == hits' = [k \in Keys |-> <<>>]
=============================================================================
