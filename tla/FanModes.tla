------------------------------ MODULE FanModes ------------------------------
(* The fan mode of the machine as the daemon's sessions see it, and what one *)
(* call of AcerHardware::apply_fan_setting may leave behind. FanTransaction  *)
(* shows that the write/readback sequence of the code has these outcomes.    *)

(* "Auto": both channels under firmware control. "Maximum": both channels at  *)
(* full speed. "Manual": everything else, in particular a channel that holds  *)
(* a fixed setpoint and will not follow the temperature.                      *)
FanMode == {"Auto", "Manual", "Maximum"}

(* Verified, MutationRolledBack, MutationFailsafeMaximum, and                *)
(* MutationRecoveryFailed (or an interface that vanished), which is the only  *)
(* outcome that says nothing about the mode: it is counted as a fault.        *)
ApplyOutcomes(target) ==
  { [mode |-> target,    ok |-> TRUE,  fault |-> FALSE],
    [mode |-> "Auto",    ok |-> FALSE, fault |-> FALSE],
    [mode |-> "Maximum", ok |-> FALSE, fault |-> FALSE] }
    \cup [mode : FanMode, ok : {FALSE}, fault : {TRUE}]

=============================================================================
