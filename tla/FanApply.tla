------------------------------ MODULE FanApply ------------------------------
(* What one call of AcerHardware::apply_fan_setting promises its caller: the   *)
(* abstract specification of FanTransaction. The daemon and its helpers hold   *)
(* the mutation lock around the call, so only its two ends are observable.     *)
EXTENDS FanModes

VARIABLES
  setting,  \* the requested mode
  outcome,  \* "none", "pending", or how the latest call ended
  fans      \* the mode the machine was left in

vars == <<setting, outcome, fans>>

Init ==
  /\ setting \in FanMode
  /\ outcome = "none"
  /\ fans \in FanMode

Call ==
  /\ outcome # "pending"
  /\ outcome' = "pending"
  /\ setting' \in FanMode
  /\ UNCHANGED fans

\* No interface, or no Manual capability: nothing has been written.
Refuse ==
  /\ outcome = "pending"
  /\ outcome' = "refused"
  /\ UNCHANGED <<setting, fans>>

Return ==
  /\ outcome = "pending"
  /\ \E r \in ApplyOutcomes(setting) :
       /\ fans' = r.mode
       /\ outcome' = IF r.ok THEN "ok" ELSE IF r.fault THEN "unrecovered" ELSE "failed"
  /\ UNCHANGED setting

\* The process dies inside the call.
Kill ==
  /\ outcome = "pending"
  /\ outcome' = "killed"
  /\ fans' \in FanMode
  /\ UNCHANGED setting

Next == Call \/ Refuse \/ Return \/ Kill

Spec == Init /\ [][Next]_vars

=============================================================================
