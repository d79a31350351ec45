----------------------------- MODULE ReleaseGate -----------------------------
(***************************************************************************)
(* What the release workflow promises, without its handlers, its scheduler *)
(* or its review states: a version becomes visible only by spending a      *)
(* permit, a permit is issued by one decision of the platform admin        *)
(* (publish now, publish at a date, promote a beta), and is spent at most  *)
(* once.  A permit may also be lost (unscheduled, overtaken), and, where   *)
(* publications may fail, given back by one that did.                      *)
(***************************************************************************)
EXTENDS Integers

CONSTANTS
  Versions,
  MayFail   \* a publication may fail after it was made

VARIABLES
  live,     \* versions online (status "published")
  past,     \* versions that have been published at least once
  permits   \* decisions of the admin about v that no publication has used yet

gateVars == <<live, past, permits>>

Init ==
  /\ live = {} /\ past = {}
  /\ permits = [v \in Versions |-> 0]

Decide(v) ==
  /\ permits' = [permits EXCEPT ![v] = @ + 1]
  /\ UNCHANGED <<live, past>>

\* A publication makes v visible; the promotion of a beta leaves it as it is.
GoLive(v) ==
  /\ permits[v] > 0
  /\ permits' = [permits EXCEPT ![v] = @ - 1]
  /\ live' \in {live, live \cup {v}}
  /\ past' = past \cup {v}

\* A failed publication is to be made again; v stays visible until it retires.
GiveBack(v) ==
  /\ MayFail /\ v \in past
  /\ permits' = [permits EXCEPT ![v] = @ + 1]
  /\ UNCHANGED <<live, past>>

Retire(v) ==
  /\ v \in live
  /\ live' = live \ {v}
  /\ UNCHANGED <<past, permits>>

Next == \E v \in Versions : Decide(v) \/ GoLive(v) \/ GiveBack(v) \/ Retire(v)

Spec == Init /\ [][Next]_gateVars
=============================================================================
