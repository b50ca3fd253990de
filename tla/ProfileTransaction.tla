------------------------- MODULE ProfileTransaction -------------------------
(* ProfileController::set_profile: the Acer firmware profile and the NVIDIA    *)
(* clock offsets change together, or both are restored. One action is one call *)
(* on one of the two control planes; the profile hotkey of the machine may     *)
(* change the firmware profile between and within them.                        *)
EXTENDS Naturals, Sequences, OffsetOutcomes

CONSTANTS
  Profiles,  \* firmware profiles, "turbo" among them
  KeyLimit   \* bound: presses of the profile hotkey

ASSUME ProfileAssumption ==
  /\ "turbo" \in Profiles
  /\ {"reset", "oem"} \subseteq Offsets
  /\ Entries # {}
  /\ KeyLimit \in Nat

VARIABLES
  firmware,     \* "healthy" or "faulty": the platform-profile interface
  gpu,          \* "healthy" or "faulty": NVML
  nvidia,       \* the exact offset capability: "available" or "unavailable"
  profile,      \* the firmware's profile
  offset,       \* the device's offsets
  target,       \* the requested profile
  prevProfile,  \* what the call found
  prevOffset,
  place,        \* the part of the call in progress, or how it ended
  step,         \* which of the planes is next
  failures,     \* a restore has failed
  keys,         \* presses so far
  pressed       \* history: a press since the program last read the profile

planes == <<profile, offset>>
call == <<nvidia, target>>
prev == <<prevProfile, prevOffset>>
vars == <<firmware, gpu, call, planes, prev, place, step, failures, keys, pressed>>

InProgress == {"read", "forward", "verify", "undo", "check"}
Ended == {"none", "error", "refused", "ok", "rolledback", "failed", "killed"}

Init ==
  /\ firmware \in {"healthy", "faulty"} /\ gpu \in {"healthy", "faulty"}
  /\ nvidia \in {"available", "unavailable"}
  /\ profile \in Profiles /\ offset \in Settings
  /\ target \in Profiles
  /\ prevProfile = profile /\ prevOffset = offset
  /\ place = "none" /\ step = 1 /\ failures = FALSE
  /\ keys = 0 /\ pressed = FALSE

-----------------------------------------------------------------------------

\* Turbo means the OEM offsets, every other profile means none.
OemTurbo == [e \in Entries |-> "oem"]
Reset == [e \in Entries |-> "reset"]
Wanted(t) == IF t = "turbo" THEN OemTurbo ELSE Reset

BugOverwrites(s) == FALSE
\* classify_offsets = CustomOrPartial: the user's own offsets, or what a broken
\* transaction left.
External(s) == s \notin {Reset, OemTurbo}

\* Clocks are raised only while the profile is Turbo.
BugOffsetsFirst(t) ==
  IF nvidia = "unavailable" THEN <<"profile">>
  ELSE IF t = "turbo" THEN <<"offsets", "profile">> ELSE <<"profile", "offsets">>
ForwardOrder(t) ==
  IF nvidia = "unavailable" THEN <<"profile">>
  ELSE IF t = "turbo" THEN <<"profile", "offsets">> ELSE <<"offsets", "profile">>
\* "Reverse the successful forward ordering."
UndoOrder(t) ==
  IF nvidia = "unavailable" THEN <<"profile">>
  ELSE IF t = "turbo" THEN <<"offsets", "profile">> ELSE <<"profile", "offsets">>

\* The hotkey, on a machine in profile p.
Press(p) ==
  /\ keys < KeyLimit
  /\ keys' = keys + 1 /\ pressed' = TRUE
  /\ profile' \in Profiles \ {p}

\* set_profile_raw writes and reads back. A faulty interface may fail with or
\* without effect, and ignore a write; a press before the readback fails it too.
SetProfile(p, ok) ==
  /\ \/ /\ firmware = "healthy" => ok
        /\ profile' \in IF ok THEN {p} ELSE {profile, p}
        /\ pressed' = (pressed /\ ~ok)
        /\ UNCHANGED keys
     \/ ~ok /\ Press(p)
  /\ UNCHANGED offset

\* apply_oem_turbo, reset_oem_offsets, restore_offsets.
SetOffsets(s, ok) ==
  /\ gpu = "healthy" => ok
  /\ \E r \in OffsetEnds(offset, s) : ok = (r.end = "ok") /\ offset' = r.offsets
  /\ UNCHANGED <<profile, keys, pressed>>

Set(plane, p, s, ok) ==
  \/ plane = "profile" /\ SetProfile(p, ok)
  \/ plane = "offsets" /\ SetOffsets(s, ok)

BugComparesOffsetsOnly(p, s) == nvidia = "available" => offset = s
Agree(p, s) == profile = p /\ (nvidia = "available" => offset = s)

\* Every plane the call uses obeys and answers.
Obeying == firmware = "healthy" /\ (nvidia = "available" => gpu = "healthy")

\* Both planes are read; an answer is the truth, no answer counts as a mismatch.
ReadsAgree(p, s, ok) ==
  /\ ok => Agree(p, s)
  /\ Obeying => ok = Agree(p, s)
  /\ pressed' = (pressed /\ ~ok)
  /\ UNCHANGED planes

-----------------------------------------------------------------------------

Begin ==
  /\ place \notin InProgress
  /\ target' \in Profiles
  /\ nvidia' \in {"available", "unavailable"}
  /\ place' = "read" /\ step' = 1 /\ failures' = FALSE
  /\ UNCHANGED <<firmware, gpu, planes, prev, keys, pressed>>

Read(ok) ==
  /\ place = "read"
  /\ Obeying => ok
  /\ prevProfile' = profile /\ prevOffset' = offset
  /\ pressed' = (pressed /\ ~ok)
  /\ place' = IF ~ok THEN "error"
              ELSE IF nvidia = "available" /\ External(offset) THEN "refused"
              ELSE "forward"
  /\ UNCHANGED <<firmware, gpu, call, planes, step, failures, keys>>

Forward(ok) ==
  /\ place = "forward"
  /\ Set(ForwardOrder(target)[step], target, Wanted(target), ok)
  /\ IF ~ok THEN place' = "undo" /\ step' = 1
     ELSE IF step = Len(ForwardOrder(target)) THEN place' = "verify" /\ step' = 1
     ELSE place' = place /\ step' = step + 1
  /\ UNCHANGED <<firmware, gpu, call, prev, failures>>

Verify(ok) ==
  /\ place = "verify"
  /\ ReadsAgree(target, Wanted(target), ok)
  /\ place' = IF ok THEN "ok" ELSE "undo"
  /\ UNCHANGED <<firmware, gpu, call, prev, step, failures, keys>>

BugStopsAtFailure(ok) == ~ok \/ step = Len(UndoOrder(target))
\* "Both restores are still attempted so one failed control plane cannot hide
\* the other one."
UndoEnds(ok) == step = Len(UndoOrder(target))

Undo(ok) ==
  /\ place = "undo"
  /\ Set(UndoOrder(target)[step], prevProfile, prevOffset, ok)
  /\ failures' = (failures \/ ~ok)
  /\ IF UndoEnds(ok)
       THEN place' = (IF failures' THEN "failed" ELSE "check") /\ step' = 1
       ELSE place' = place /\ step' = step + 1
  /\ UNCHANGED <<firmware, gpu, call, prev>>

\* Only when both restores were accepted.
Check(ok) ==
  /\ place = "check"
  /\ ReadsAgree(prevProfile, prevOffset, ok)
  /\ place' = IF ok THEN "rolledback" ELSE "failed"
  /\ UNCHANGED <<firmware, gpu, call, prev, step, failures, keys>>

Hotkey ==
  /\ Press(profile)
  /\ UNCHANGED <<firmware, gpu, call, offset, prev, place, step, failures>>

Writing(plane) ==
  \/ place = "forward" /\ ForwardOrder(target)[step] = plane
  \/ place = "undo" /\ UndoOrder(target)[step] = plane

\* The process dies, perhaps inside a write.
Killed ==
  /\ place \in InProgress
  /\ place' = "killed"
  /\ LET p == IF place = "forward" THEN target ELSE prevProfile
         s == IF place = "forward" THEN Wanted(target) ELSE prevOffset
     IN /\ profile' \in IF Writing("profile") THEN {profile, p} ELSE {profile}
        /\ offset' \in IF Writing("offsets") THEN Between(offset, s) ELSE {offset}
  /\ UNCHANGED <<firmware, gpu, call, prev, step, failures, keys, pressed>>

Next ==
  \/ Begin \/ Hotkey \/ Killed
  \/ \E ok \in BOOLEAN :
       Read(ok) \/ Forward(ok) \/ Verify(ok) \/ Undo(ok) \/ Check(ok)

Spec == Init /\ [][Next]_vars

-----------------------------------------------------------------------------

TypeOK ==
  /\ firmware \in {"healthy", "faulty"} /\ gpu \in {"healthy", "faulty"}
  /\ nvidia \in {"available", "unavailable"}
  /\ profile \in Profiles /\ offset \in Settings
  /\ target \in Profiles
  /\ prevProfile \in Profiles /\ prevOffset \in Settings
  /\ place \in InProgress \cup Ended
  /\ step \in {1, 2} /\ (place \in InProgress => step <= Len(ForwardOrder(target)))
  /\ failures \in BOOLEAN
  /\ keys \in 0..KeyLimit /\ pressed \in BOOLEAN

InForce(p, s) == profile = p /\ (nvidia = "available" => offset = s)

\* A profile that is reported as applied is what both planes have, unless the
\* hotkey was pressed after the final readback.
SuccessIsTruth == place = "ok" /\ ~pressed => InForce(target, Wanted(target))

\* "A firmware or driver that silently ignores a restore can never be reported
\* as rolled back."
RolledBackIsTruth ==
  place = "rolledback" /\ ~pressed => InForce(prevProfile, prevOffset)

\* When the rollback fails, the plane that obeys has been restored nevertheless.
HealthyPlaneRestored ==
  place = "failed" =>
    /\ firmware = "healthy" /\ ~pressed => profile = prevProfile
    /\ gpu = "healthy" /\ nvidia = "available" => offset = prevOffset

\* Undisturbed and on planes that obey, a request is neither rolled back nor
\* refused, unless the offsets are not the program's own.
HealthyMachineObeys ==
  Obeying /\ keys = 0 =>
    /\ place \notin {"undo", "check", "rolledback", "failed", "error"}
    /\ place = "refused" =>
         (\E e \in Entries : offset[e] # "oem") /\ (\E e \in Entries : offset[e] # "reset")

\* An offset that the program did not write is never overwritten, not even by a
\* rollback ("refusing to overwrite custom or partial NVIDIA offsets").
CustomOffsetsSurvive ==
  [][\A e \in Entries : offset[e] \notin {"reset", "oem"} => offset'[e] = offset[e]]_vars

\* Undisturbed and on planes that obey, no step, not even the last one before the
\* process dies, leaves raised clocks under a lower profile.
Sane(p, s) == (\E e \in Entries : s[e] = "oem") => p = "turbo"
RaisedClocksNeedTurbo ==
  [][Obeying /\ nvidia = "available" /\ keys' = 0 /\ Sane(profile, offset)
       => Sane(profile', offset')]_vars

-----------------------------------------------------------------------------
(* The inductive invariant.                                                   *)

Used == place \in {"forward", "verify", "undo", "check"}

\* The call has found offsets of its own, and each entry is one of them.
OwnOffsets ==
  Used /\ nvidia = "available" =>
    /\ \A e \in Entries : prevOffset[e] \in {"reset", "oem"}
    /\ \A e \in Entries : offset[e] \in {"reset", "oem"}

\* The plane that was restored first, or both of them: it is as the call found
\* it, if it obeys.
RestoredSoFar ==
  /\ place = "check" \/ (place = "undo" /\ step = 2 /\ UndoOrder(target)[1] = "profile") =>
       (firmware = "healthy" /\ ~pressed => profile = prevProfile)
  /\ (place = "check" /\ nvidia = "available")
       \/ (place = "undo" /\ step = 2 /\ UndoOrder(target)[1] = "offsets") =>
       (gpu = "healthy" => offset = prevOffset)

\* Every part of the call begins with the first plane, and failures are those of
\* the rollback.
FreshCall ==
  /\ place \in {"read", "verify", "check"} => step = 1
  /\ place \in {"read", "forward", "verify"} => ~failures

\* What an undisturbed call on obeying planes has set so far.
SetSoFar ==
  Obeying /\ keys = 0 =>
    /\ place = "forward" /\ step = 2 =>
         IF target = "turbo" THEN profile = target ELSE offset = Wanted(target)
    /\ place = "verify" => Agree(target, Wanted(target))

IInv ==
  /\ TypeOK /\ FreshCall /\ OwnOffsets /\ RestoredSoFar /\ SetSoFar
  /\ SuccessIsTruth /\ RolledBackIsTruth /\ HealthyPlaneRestored
  /\ HealthyMachineObeys

=============================================================================
