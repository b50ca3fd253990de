-------------------------- MODULE OffsetTransaction --------------------------
(* apply_offset_targets and rollback_after_failure of the NVIDIA controller,   *)
(* one device access at a time: snapshot, range check, write and readback of   *)
(* every entry that differs, a final snapshot, and the rollback in reverse.    *)
EXTENDS Integers

CONSTANTS
  Count,     \* entries in writing order: state by state, core before memory
  Offsets,   \* MHz
  Accepted   \* what the device's range admits

ASSUME OffsetAssumption == Count \in Nat /\ Accepted \subseteq Offsets

VARIABLES
  device,    \* "healthy" or "faulty"
  offset,    \* the device's offsets
  goal,      \* the requested offsets
  prior,     \* the snapshot at the beginning of the call
  place,     \* the part of the call in progress, or how it ended
  mutated,   \* entries on the rollback list
  flawed,    \* the rollback has met a failure
  refused    \* history: the setter of an entry reported a failure

call == <<device, goal>>
offsetVars == <<device, offset, goal, prior, place, mutated, flawed, refused>>

Entries == 1..Count
AllOffsets == [Entries -> Offsets]
InProgress == {"snapshot", "write", "read", "undo", "undoread"}

OffsetInit ==
  /\ device \in {"healthy", "faulty"}
  /\ offset \in AllOffsets /\ goal \in AllOffsets /\ prior = offset
  /\ place = "none" /\ mutated = {}
  /\ flawed = FALSE /\ refused = FALSE

-----------------------------------------------------------------------------

\* Writes ascend; the rollback list is undone in reverse.
First(e, set) == e \in set /\ \A d \in set : e <= d
Latest(e, set) == e \in set /\ \A d \in set : d <= e

\* Entries that already hold the requested offset are skipped.
Todo == {e \in Entries \ mutated : prior[e] # goal[e]}

\* The setter: a device that is not healthy may fail, with or without effect, or
\* accept and ignore the write.
Sets(e, value, ok) ==
  /\ device = "healthy" => ok
  /\ \/ offset' = [offset EXCEPT ![e] = value]
     \/ device = "faulty" /\ offset' = offset

BugTrustsAnswer(matches, ok) ==
  /\ device = "healthy" => ok
  /\ UNCHANGED offset
\* A readback: a device that answers tells the truth.
Confirms(matches, ok) ==
  /\ ok => matches
  /\ device = "healthy" => ok = matches
  /\ UNCHANGED offset

-----------------------------------------------------------------------------

AskOffsets ==
  /\ place \notin InProgress
  /\ goal' \in AllOffsets
  /\ place' = "snapshot" /\ mutated' = {} /\ flawed' = FALSE /\ refused' = FALSE
  /\ UNCHANGED <<device, offset, prior>>

\* The complete transaction is validated before the first write.
Validates == \A e \in Entries : goal[e] \in Accepted

Snapshot(ok) ==
  /\ place = "snapshot"
  /\ device = "healthy" => ok
  /\ prior' = offset
  /\ place' = IF ok /\ Validates THEN "write" ELSE "error"
  /\ UNCHANGED <<call, offset, mutated, flawed, refused>>

\* The setter may have changed the device even when its readback fails: the
\* entry is on the list before it is read back. A failed setter is not.
Lists(e, ok) == IF ok THEN mutated \cup {e} ELSE mutated

Write(ok) ==
  /\ place = "write"
  /\ \E e \in Entries :
       /\ First(e, Todo)
       /\ Sets(e, goal[e], ok)
       /\ mutated' = Lists(e, ok)
  /\ place' = IF ok THEN "read" ELSE "undo"
  /\ refused' = ~ok
  /\ UNCHANGED <<call, prior, flawed>>

ReadBack(ok) ==
  /\ place = "read"
  /\ \E e \in Entries : Latest(e, mutated) /\ Confirms(offset[e] = goal[e], ok)
  /\ place' = IF ok THEN "write" ELSE "undo"
  /\ UNCHANGED <<call, prior, mutated, flawed, refused>>

\* The final snapshot, compared entry by entry.
Verify(ok) ==
  /\ place = "write" /\ Todo = {}
  /\ Confirms(\A e \in Entries : offset[e] = goal[e], ok)
  /\ place' = IF ok THEN "ok" ELSE "undo"
  /\ UNCHANGED <<call, prior, mutated, flawed, refused>>

UndoWrite(ok) ==
  /\ place = "undo"
  /\ \E e \in Entries :
       /\ Latest(e, mutated)
       /\ Sets(e, prior[e], ok)
       /\ mutated' = IF ok THEN mutated ELSE mutated \ {e}
  /\ place' = IF ok THEN "undoread" ELSE "undo"
  /\ flawed' = (flawed \/ ~ok)
  /\ UNCHANGED <<call, prior, refused>>

UndoRead(ok) ==
  /\ place = "undoread"
  /\ \E e \in Entries :
       /\ Latest(e, mutated)
       /\ Confirms(offset[e] = prior[e], ok)
       /\ mutated' = mutated \ {e}
  /\ place' = "undo"
  /\ flawed' = (flawed \/ ~ok)
  /\ UNCHANGED <<call, prior, refused>>

Undone ==
  /\ place = "undo" /\ mutated = {}
  /\ place' = IF flawed THEN "failed" ELSE "rolledback"
  /\ UNCHANGED <<call, offset, prior, mutated, flawed, refused>>

Killed ==
  /\ place \in InProgress
  /\ place' = "killed" /\ mutated' = {}
  /\ prior' = IF place = "snapshot" THEN offset ELSE prior
  /\ UNCHANGED <<call, offset, flawed, refused>>

OffsetNext ==
  \/ AskOffsets \/ Undone \/ Killed
  \/ \E ok \in BOOLEAN :
       \/ Snapshot(ok) \/ Write(ok) \/ ReadBack(ok) \/ Verify(ok)
       \/ UndoWrite(ok) \/ UndoRead(ok)

OffsetSpec == OffsetInit /\ [][OffsetNext]_offsetVars

-----------------------------------------------------------------------------

OffsetTypeOK ==
  /\ device \in {"healthy", "faulty"}
  /\ offset \in AllOffsets /\ goal \in AllOffsets /\ prior \in AllOffsets
  /\ place \in InProgress \cup {"none", "ok", "error", "rolledback", "failed", "killed"}
  /\ mutated \in SUBSET Entries
  /\ flawed \in BOOLEAN /\ refused \in BOOLEAN

\* A device that obeys is never rolled back, whatever was set before.
HealthyDeviceObeys ==
  device = "healthy" => place \notin {"undo", "undoread", "rolledback", "failed"}

\* TransactionRolledBack means what it says, unless the setter itself had failed.
RolledBackRestores == place = "rolledback" /\ ~refused => offset = prior

\* No access changes the device unless every requested offset of the call is in
\* the device's range ("validate the complete transaction before the first").
NothingUnvalidated ==
  [][offset' # offset => \A e \in Entries : goal[e] \in Accepted]_offsetVars

\* "Every write is read back; any partial failure restores the snapshot."
RolledBackAlwaysRestores == place = "rolledback" => offset = prior

\* The caller's view: nothing of a call in progress is observable.
PriorAtCall == IF place = "snapshot" THEN offset ELSE prior
Abstract == INSTANCE OffsetApply WITH
  outcome <- IF place \in InProgress THEN "pending" ELSE place,
  offset <- IF place \in InProgress THEN PriorAtCall ELSE offset,
  prior <- PriorAtCall

\* The accesses to the device together are one call of OffsetApply: every entry
\* ends at its prior or its requested value, all of them as the result says.
ImplementsOffsetApply == Abstract!Spec

-----------------------------------------------------------------------------
(* The inductive invariant.                                                   *)

\* Entries the call has not touched, or has undone, hold their prior value.
Untouched ==
  /\ place \in {"write", "read"} =>
       \A e \in Entries \ mutated : offset[e] = prior[e]
  /\ place = "error" => offset = prior

\* Every entry is at its prior or its requested value.
OffsetsBetween ==
  place \in (InProgress \ {"snapshot"}) \cup {"rolledback", "failed", "killed"} =>
    \A e \in Entries : offset[e] \in {prior[e], goal[e]}

\* While the rollback is flawless, one entry at most has escaped it, and only
\* when the setter had failed.
EscapedAtMostOne ==
  /\ place \in {"undo", "undoread", "rolledback"} /\ ~flawed =>
       \E x \in Entries \cup {0} : \A e \in Entries \ mutated :
         offset[e] = prior[e] \/ (e = x /\ refused)
  /\ place \in {"snapshot", "write", "read"} => ~flawed /\ ~refused
  /\ place \in {"snapshot", "rolledback", "failed"} => mutated = {}
  /\ place = "rolledback" => ~flawed

\* What a device that obeys has taken over so far.
HealthySoFar ==
  device = "healthy" /\ place \in {"write", "read"} =>
    \A e \in mutated : offset[e] = goal[e]

Validated == place \in InProgress \ {"snapshot"} => Validates

Finished == place = "ok" => offset = goal

OffsetIInv ==
  /\ OffsetTypeOK /\ Untouched /\ OffsetsBetween /\ EscapedAtMostOne
  /\ HealthySoFar /\ Validated /\ Finished
  /\ HealthyDeviceObeys /\ RolledBackRestores

=============================================================================
