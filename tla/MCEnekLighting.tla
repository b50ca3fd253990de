--------------------------- MODULE MCEnekLighting ---------------------------
(* TLC instances of EnekLighting: a keyboard of two zones and a logo of one.   *)
EXTENDS EnekLighting

TwoAndOne == [t \in {"keyboard", "logo"} |-> IF t = "keyboard" THEN 2 ELSE 1]

=============================================================================
