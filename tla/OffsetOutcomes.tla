--------------------------- MODULE OffsetOutcomes ---------------------------
(* What one offset transaction of the NVIDIA controller may leave behind.      *)
(* OffsetTransaction shows that the write/readback sequence of the code has    *)
(* these outcomes; ProfileTransaction composes them with the firmware profile. *)

CONSTANTS
  Entries,  \* the clock domains of all performance states
  Offsets   \* what an entry may be offset by

Settings == [Entries -> Offsets]

\* Every entry at its prior or its requested value.
Between(before, wanted) ==
  {s \in Settings : \A e \in Entries : s[e] \in {before[e], wanted[e]}}

\* "rolledback" may still leave one entry at the requested value: a setter that
\* reported a failure and took effect nevertheless.
BetweenOne(before, wanted) ==
  {before} \cup {[before EXCEPT ![e] = wanted[e]] : e \in Entries}

\* "error" comes before the first write; "failed" is an incomplete rollback.
OffsetEnds(before, wanted) ==
  [end : {"ok"}, offsets : {wanted}]
    \cup [end : {"error"}, offsets : {before}]
    \cup [end : {"rolledback"}, offsets : BetweenOne(before, wanted)]
    \cup [end : {"failed"}, offsets : Between(before, wanted)]

=============================================================================
