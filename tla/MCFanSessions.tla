---------------------------- MODULE MCFanSessions ----------------------------
(* TLC instances of FanSessions.                                              *)
EXTENDS FanSessions, TLC

\* Clients are interchangeable; used by the safety runs only.
ClientSymmetry == Permutations(Clients)

=============================================================================
