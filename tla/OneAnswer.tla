------------------------------ MODULE OneAnswer ------------------------------
(* What the window is promised for the requests it queues (queue_control_request *)
(* and apply_control_update): one at a time, carried out at most once, answered  *)
(* exactly once, and confirmed only when it was carried out. The abstract        *)
(* specification of ControlChannel.                                              *)
EXTENDS Naturals

CONSTANTS
  AskRequests,  \* the requests that the window makes
  AskSettings,  \* those among them that change a setting
  NoAsk

VARIABLES
  asked,     \* the request that waits for its answer, or NoAsk
  carried,   \* how often the daemon has carried out its setting
  verdict    \* "open", or what the answer will be: "confirmed", "failed"

askVars == <<asked, carried, verdict>>

AskInit ==
  /\ asked \in AskRequests
  /\ carried = 0
  /\ verdict \in {"open", "failed"}

\* A request may fail at once, without a worker.
Ask(r) ==
  /\ asked = NoAsk
  /\ asked' \in {r, NoAsk}
  /\ carried' = 0
  /\ verdict' = "open"

CarryOut ==
  /\ asked \in AskSettings /\ verdict = "open" /\ carried = 0
  /\ carried' = 1
  /\ UNCHANGED <<asked, verdict>>

Decide ==
  /\ asked # NoAsk /\ verdict = "open"
  /\ \/ verdict' = "failed"
     \/ verdict' = "confirmed" /\ (asked \in AskSettings => carried = 1)
  /\ UNCHANGED <<asked, carried>>

Answer ==
  /\ asked # NoAsk /\ verdict # "open"
  /\ asked' = NoAsk /\ verdict' = "open"
  /\ UNCHANGED carried

AskNext == (\E r \in AskRequests : Ask(r)) \/ CarryOut \/ Decide \/ Answer

AskSpec == AskInit /\ [][AskNext]_askVars

==============================================================================
