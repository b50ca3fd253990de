----------------------------- MODULE OffsetApply -----------------------------
(* What one call of apply_offset_targets promises its caller: the abstract     *)
(* specification of OffsetTransaction. The mutation lock is held around the    *)
(* call, so only its two ends are observable.                                  *)
EXTENDS OffsetOutcomes

VARIABLES
  offset,   \* the device's offsets
  prior,    \* and what they were at the call
  goal,     \* the requested offsets
  outcome   \* "none", "pending", or how the latest call ended

vars == <<offset, prior, goal, outcome>>

Init ==
  /\ offset \in Settings /\ prior = offset
  /\ goal \in Settings
  /\ outcome = "none"

Call ==
  /\ outcome # "pending"
  /\ outcome' = "pending"
  /\ goal' \in Settings
  /\ prior' = offset
  /\ UNCHANGED offset

Return ==
  /\ outcome = "pending"
  /\ \E r \in OffsetEnds(prior, goal) : outcome' = r.end /\ offset' = r.offsets
  /\ UNCHANGED <<prior, goal>>

\* The process dies inside the call.
Kill ==
  /\ outcome = "pending"
  /\ outcome' = "killed"
  /\ offset' \in Between(prior, goal)
  /\ UNCHANGED <<prior, goal>>

Next == Call \/ Return \/ Kill

Spec == Init /\ [][Next]_vars

=============================================================================
