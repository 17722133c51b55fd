--------------------------- MODULE ReleaseLifecycle ---------------------------
(***************************************************************************)
(* What the registry promises about a version once it is submitted, as if  *)
(* every operation were one step: its payload is fixed, it gets a single   *)
(* verdict that is recorded against that payload, only an approval leads   *)
(* to publication, and deprecation is final.  Before submission the        *)
(* version belongs to the scan and anything may happen to it.              *)
(***************************************************************************)
CONSTANTS
  Versions,
  Payloads,       \* what may be frozen
  Nothing,        \* the payload of a version that is still open
  Evidence(_, _, _)  \* the review row for a version, a verdict and a payload

VARIABLES stage, payload, reviews
releaseVars == <<stage, payload, reviews>>

Init ==
  /\ stage = [v \in Versions |-> "open"]
  /\ payload = [v \in Versions |-> Nothing]
  /\ reviews = {}

Submit(v, p) ==
  /\ stage[v] = "open"
  /\ stage' = [stage EXCEPT ![v] = "submitted"]
  /\ payload' = [payload EXCEPT ![v] = p]
  /\ UNCHANGED reviews

Decide(v, verdict) ==
  /\ stage[v] = "submitted"
  /\ stage' = [stage EXCEPT ![v] = verdict]
  /\ reviews' = reviews \cup {Evidence(v, verdict, payload[v])}
  /\ UNCHANGED payload

Publish(v) ==
  /\ stage[v] = "approved"
  /\ Evidence(v, "approved", payload[v]) \in reviews
  /\ stage' = [stage EXCEPT ![v] = "published"]
  /\ UNCHANGED <<payload, reviews>>

Deprecate(v) ==
  /\ stage[v] = "published"
  /\ stage' = [stage EXCEPT ![v] = "deprecated"]
  /\ UNCHANGED <<payload, reviews>>

Next ==
  \E v \in Versions :
    \/ \E p \in Payloads : Submit(v, p)
    \/ \E verdict \in {"approved", "rejected"} : Decide(v, verdict)
    \/ Publish(v) \/ Deprecate(v)

Spec == Init /\ [][Next]_releaseVars
=============================================================================
