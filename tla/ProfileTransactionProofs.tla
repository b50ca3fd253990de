---------------------- MODULE ProfileTransactionProofs ----------------------
(* What ProfileTransaction's TLC run shows for two entries and three profiles, *)
(* proved for every set of clock domains and profiles, and any number of       *)
(* hotkey presses.                                                             *)
EXTENDS ProfileTransaction, TLAPS

-----------------------------------------------------------------------------
(* The operators the actions are built from.                                  *)

\* The order of the planes, forward and back.
LEMMA Orders ==
  ASSUME nvidia \in {"available", "unavailable"}
  PROVE  /\ nvidia = "unavailable" =>
              /\ ForwardOrder(target) = <<"profile">>
              /\ UndoOrder(target) = <<"profile">>
         /\ nvidia = "available" /\ target = "turbo" =>
              /\ ForwardOrder(target) = <<"profile", "offsets">>
              /\ UndoOrder(target) = <<"offsets", "profile">>
         /\ nvidia = "available" /\ target # "turbo" =>
              /\ ForwardOrder(target) = <<"offsets", "profile">>
              /\ UndoOrder(target) = <<"profile", "offsets">>
BY DEF ForwardOrder, UndoOrder

\* The plane that is next.
LEMMA NextPlane ==
  ASSUME TypeOK, place \in InProgress
  PROVE  /\ Len(ForwardOrder(target)) = IF nvidia = "unavailable" THEN 1 ELSE 2
         /\ Len(UndoOrder(target)) = Len(ForwardOrder(target))
         /\ ForwardOrder(target)[step] =
              IF nvidia = "unavailable" \/ (step = 1) = (target = "turbo")
                THEN "profile" ELSE "offsets"
         /\ UndoOrder(target)[step] =
              IF nvidia = "unavailable" \/ (step = 1) # (target = "turbo")
                THEN "profile" ELSE "offsets"
         /\ nvidia = "unavailable" => step = 1
         /\ UndoOrder(target)[1] =
              IF nvidia = "unavailable" \/ target # "turbo" THEN "profile" ELSE "offsets"
<1>0. /\ nvidia \in {"available", "unavailable"}
      /\ step \in {1, 2} /\ step <= Len(ForwardOrder(target))
  BY DEF TypeOK
<1>1. CASE nvidia = "unavailable"
  <2>1. ForwardOrder(target) = <<"profile">> /\ UndoOrder(target) = <<"profile">>
    BY <1>1, <1>0, Orders
  <2> QED
    BY <1>0, <1>1, <2>1
<1>2. CASE nvidia = "available" /\ target = "turbo"
  <2>1. /\ ForwardOrder(target) = <<"profile", "offsets">>
        /\ UndoOrder(target) = <<"offsets", "profile">>
    BY <1>2, <1>0, Orders
  <2> QED
    BY <1>0, <1>2, <2>1
<1>3. CASE nvidia = "available" /\ target # "turbo"
  <2>1. /\ ForwardOrder(target) = <<"offsets", "profile">>
        /\ UndoOrder(target) = <<"profile", "offsets">>
    BY <1>3, <1>0, Orders
  <2> QED
    BY <1>0, <1>3, <2>1
<1> QED
  BY <1>0, <1>1, <1>2, <1>3

\* Turbo means the OEM offsets everywhere, every other profile none.
LEMMA WantedOffsets ==
  ASSUME NEW t
  PROVE  /\ Wanted(t) \in Settings
         /\ \A e \in Entries : Wanted(t)[e] = IF t = "turbo" THEN "oem" ELSE "reset"
BY ProfileAssumption DEF Wanted, OemTurbo, Reset, Settings

\* What SetProfile promises.
LEMMA SetProfileEffect ==
  ASSUME TypeOK, NEW p \in Profiles, NEW ok \in BOOLEAN, SetProfile(p, ok)
  PROVE  /\ firmware = "healthy" => ok \/ (pressed' /\ keys' # 0)
         /\ ok => profile' = p
         /\ profile' \in {profile, p} \/ keys' # 0
         /\ profile' \in Profiles /\ pressed' \in BOOLEAN /\ keys' \in 0..KeyLimit
         /\ keys' = 0 => keys = 0
         /\ offset' = offset
<1>0. profile \in Profiles /\ pressed \in BOOLEAN /\ keys \in 0..KeyLimit
  BY DEF TypeOK
<1>1. offset' = offset
  BY DEF SetProfile
<1>2. CASE ~ok /\ Press(p)
  <2>1. keys' # 0 /\ keys' \in 0..KeyLimit /\ pressed' = TRUE /\ profile' \in Profiles
    BY <1>0, <1>2, ProfileAssumption DEF Press
  <2> QED
    BY <1>1, <1>2, <2>1
<1>3. CASE /\ firmware = "healthy" => ok
           /\ profile' \in IF ok THEN {p} ELSE {profile, p}
           /\ pressed' = (pressed /\ ~ok)
           /\ UNCHANGED keys
  <2>1. pressed' \in BOOLEAN
    BY <1>3
  <2> QED
    BY <1>0, <1>1, <1>3, <2>1
<1> QED
  BY <1>2, <1>3 DEF SetProfile

\* What the outcomes of an offset transaction have in common: every entry is at
\* its prior or its requested value, and "ok" means all of them are as requested.
LEMMA EndsBetween ==
  ASSUME NEW a \in Settings, NEW b \in Settings, NEW r \in OffsetEnds(a, b)
  PROVE  /\ r.offsets \in Settings
         /\ \A e \in Entries : r.offsets[e] \in {a[e], b[e]}
         /\ r.end = "ok" => r.offsets = b
<1>1. CASE r \in [end : {"ok"}, offsets : {b}]
  BY <1>1
<1>2. CASE r \in [end : {"error"}, offsets : {a}]
  BY <1>2
<1>3. CASE r \in [end : {"rolledback"}, offsets : BetweenOne(a, b)]
  <2>1. r.offsets \in BetweenOne(a, b) /\ r.end = "rolledback"
    BY <1>3
  <2>2. CASE r.offsets = a
    BY <2>1, <2>2
  <2>3. CASE \E d \in Entries : r.offsets = [a EXCEPT ![d] = b[d]]
    BY <2>1, <2>3 DEF Settings
  <2> QED
    BY <2>1, <2>2, <2>3 DEF BetweenOne
<1>4. CASE r \in [end : {"failed"}, offsets : Between(a, b)]
  BY <1>4 DEF Between
<1> QED
  BY <1>1, <1>2, <1>3, <1>4 DEF OffsetEnds

\* What SetOffsets promises.
LEMMA SetOffsetsEffect ==
  ASSUME TypeOK, NEW s \in Settings, NEW ok \in BOOLEAN, SetOffsets(s, ok)
  PROVE  /\ gpu = "healthy" => ok
         /\ ok => offset' = s
         /\ offset' \in Settings /\ \A e \in Entries : offset'[e] \in {offset[e], s[e]}
         /\ profile' = profile /\ pressed' = pressed /\ keys' = keys
<1>1. PICK r \in OffsetEnds(offset, s) : ok = (r.end = "ok") /\ offset' = r.offsets
  BY DEF SetOffsets
<1>2. offset \in Settings
  BY DEF TypeOK
<1>3. /\ r.offsets \in Settings
      /\ \A e \in Entries : r.offsets[e] \in {offset[e], s[e]}
      /\ r.end = "ok" => r.offsets = s
  BY <1>1, <1>2, EndsBetween
<1>4. gpu = "healthy" => ok
  BY DEF SetOffsets
<1>5. profile' = profile /\ pressed' = pressed /\ keys' = keys
  BY DEF SetOffsets
<1> QED
  BY <1>1, <1>3, <1>4, <1>5

\* A profile is not OEM and reset at once: offsets of the program itself are not
\* external, and there is an entry to tell.
LEMMA InternalOffsets ==
  ASSUME ~External(offset)
  PROVE  \A e \in Entries : offset[e] \in {"reset", "oem"}
BY DEF External, OemTurbo, Reset

\* What one call on either plane promises.
LEMMA SetEffect ==
  ASSUME TypeOK, NEW plane, NEW p \in Profiles, NEW s \in Settings,
         NEW ok \in BOOLEAN, Set(plane, p, s, ok)
  PROVE  /\ profile' \in Profiles /\ offset' \in Settings /\ pressed' \in BOOLEAN
         /\ keys' \in 0..KeyLimit /\ (keys' = 0 => keys = 0)
         /\ plane \in {"profile", "offsets"}
         /\ plane = "profile" =>
              /\ firmware = "healthy" => ok \/ (pressed' /\ keys' # 0)
              /\ ok => profile' = p
              /\ profile' \in {profile, p} \/ keys' # 0
              /\ offset' = offset
         /\ plane = "offsets" =>
              /\ gpu = "healthy" => ok
              /\ ok => offset' = s
              /\ \A e \in Entries : offset'[e] \in {offset[e], s[e]}
              /\ profile' = profile /\ pressed' = pressed /\ keys' = keys
<1>1. CASE plane = "profile" /\ SetProfile(p, ok)
  <2>1. offset \in Settings
    BY DEF TypeOK
  <2> QED
    BY <1>1, <2>1, SetProfileEffect
<1>2. CASE plane = "offsets" /\ SetOffsets(s, ok)
  <2>1. profile \in Profiles /\ pressed \in BOOLEAN /\ keys \in 0..KeyLimit
    BY DEF TypeOK
  <2> QED
    BY <1>2, <2>1, SetOffsetsEffect
<1> QED
  BY <1>1, <1>2 DEF Set

-----------------------------------------------------------------------------
(* The inductive invariant, one action at a time.                             *)

\* Before the first call nothing has been promised.
LEMMA InitEstablishesIInv == Init => IInv
<1> SUFFICES ASSUME Init PROVE IInv
  OBVIOUS
<1>1. place \in InProgress \cup Ended /\ place \notin InProgress
  BY DEF Init, InProgress, Ended
<1>2. keys \in 0..KeyLimit
  BY ProfileAssumption DEF Init
<1>3. failures \in BOOLEAN /\ pressed \in BOOLEAN
  BY DEF Init
<1>4. TypeOK
  BY <1>1, <1>2, <1>3 DEF Init, TypeOK
<1> QED
  BY <1>4 DEF Init, IInv, OwnOffsets, RestoredSoFar, SetSoFar, SuccessIsTruth,
              RolledBackIsTruth, HealthyPlaneRestored, HealthyMachineObeys, Used,
              FreshCall

\* A new call forgets what the previous one promised.
LEMMA BeginKeepsIInv ==
  ASSUME IInv, Begin
  PROVE  IInv'
<1>1. TypeOK'
  <2>1. nvidia' \in {"available", "unavailable"} /\ target' \in Profiles /\ step' = 1
    BY DEF Begin
  <2>2. Len(ForwardOrder(target))' \in {1, 2}
    BY <2>1 DEF ForwardOrder
  <2>3. (place \in InProgress => step <= Len(ForwardOrder(target)))'
    BY <2>1, <2>2
  <2>4. (place \in InProgress)'
    BY DEF Begin, InProgress
  <2>5. failures' \in BOOLEAN
    BY DEF Begin
  <2> QED
    BY <2>1, <2>3, <2>4, <2>5 DEF IInv, TypeOK, Begin, planes, prev
<1> QED
  BY <1>1 DEF Begin, IInv, OwnOffsets, RestoredSoFar, SetSoFar, SuccessIsTruth,
              RolledBackIsTruth, HealthyPlaneRestored, HealthyMachineObeys, Used,
              FreshCall

\* The first reading: foreign offsets end the call before any write.
LEMMA ReadKeepsIInv ==
  ASSUME IInv, NEW ok \in BOOLEAN, Read(ok)
  PROVE  IInv'
<1>0. /\ place = "read" /\ place' \in {"error", "refused", "forward"}
      /\ firmware' = firmware /\ gpu' = gpu /\ nvidia' = nvidia /\ target' = target
      /\ profile' = profile /\ offset' = offset /\ step' = step
      /\ failures' = failures /\ keys' = keys /\ prevProfile' = profile
      /\ prevOffset' = offset /\ pressed' \in BOOLEAN
  BY DEF Read, call, planes, IInv, TypeOK
<1>1. TypeOK'
  BY <1>0 DEF IInv, TypeOK, InProgress, Ended, ForwardOrder
<1>2. OwnOffsets'
  <2>1. place' = "forward" /\ nvidia = "available" => ~External(offset)
    BY DEF Read
  <2> QED
    BY <1>0, <2>1, InternalOffsets DEF OwnOffsets, Used
<1>3. RestoredSoFar' /\ SuccessIsTruth' /\ RolledBackIsTruth' /\ HealthyPlaneRestored'
  BY <1>0 DEF RestoredSoFar, SuccessIsTruth, RolledBackIsTruth, HealthyPlaneRestored
<1>4. SetSoFar' /\ FreshCall'
  BY <1>0 DEF SetSoFar, IInv, FreshCall
<1>5. HealthyMachineObeys'
  <2>1. Obeying => ok
    BY DEF Read
  <2>2. Obeying' = Obeying
    BY <1>0 DEF Obeying
  <2>3. ok => place' # "error"
    BY DEF Read
  <2>4. place' = "refused" => External(offset)
    BY <1>0 DEF Read
  <2>5. offset # OemTurbo => \E e \in Entries : offset[e] # "oem"
    BY DEF OemTurbo, IInv, TypeOK, Settings
  <2>6. offset # Reset => \E e \in Entries : offset[e] # "reset"
    BY DEF Reset, IInv, TypeOK, Settings
  <2> QED
    BY <1>0, <2>1, <2>2, <2>3, <2>4, <2>5, <2>6 DEF HealthyMachineObeys, External
<1> QED
  BY <1>1, <1>2, <1>3, <1>4, <1>5 DEF IInv

\* Either every plane is set and read back, or the rollback begins.
LEMMA ForwardKeepsIInv ==
  ASSUME IInv, NEW ok \in BOOLEAN, Forward(ok)
  PROVE  IInv'
<1> DEFINE plane == ForwardOrder(target)[step]
           n == Len(ForwardOrder(target))
<1>0. /\ place = "forward" /\ place \in InProgress /\ TypeOK
      /\ firmware' = firmware /\ gpu' = gpu /\ nvidia' = nvidia /\ target' = target
      /\ prevProfile' = prevProfile /\ prevOffset' = prevOffset
      /\ failures' = failures /\ ~failures
  BY DEF Forward, call, prev, IInv, FreshCall, InProgress
<1>1. /\ n = (IF nvidia = "unavailable" THEN 1 ELSE 2)
      /\ plane = (IF nvidia = "unavailable" \/ (step = 1) = (target = "turbo")
                    THEN "profile" ELSE "offsets")
      /\ nvidia = "unavailable" => step = 1
  BY <1>0, NextPlane
<1>2. Wanted(target) \in Settings
  BY WantedOffsets
<1>3. /\ profile' \in Profiles /\ offset' \in Settings /\ pressed' \in BOOLEAN
      /\ keys' \in 0..KeyLimit /\ (keys' = 0 => keys = 0)
      /\ plane \in {"profile", "offsets"}
      /\ plane = "profile" =>
           /\ firmware = "healthy" => ok \/ keys' # 0
           /\ ok => profile' = target
           /\ offset' = offset
      /\ plane = "offsets" =>
           /\ gpu = "healthy" => ok
           /\ ok => offset' = Wanted(target)
           /\ \A e \in Entries : offset'[e] \in {offset[e], Wanted(target)[e]}
           /\ profile' = profile
  <2>1. target \in Profiles /\ Set(plane, target, Wanted(target), ok)
    BY DEF Forward, IInv, TypeOK
  <2> HIDE DEF plane
  <2> QED
    BY <1>0, <1>2, <2>1, SetEffect
<1>4. step \in {1, 2} /\ nvidia \in {"available", "unavailable"}
  BY <1>0 DEF TypeOK
<1>5. \/ ~ok /\ place' = "undo" /\ step' = 1
      \/ ok /\ step = n /\ place' = "verify" /\ step' = 1
      \/ ok /\ step = 1 /\ nvidia = "available" /\ place' = "forward" /\ step' = 2
  BY <1>0, <1>1, <1>4 DEF Forward
<1>6. ForwardOrder(target)' = ForwardOrder(target)
  BY <1>0 DEF ForwardOrder
<1> HIDE DEF plane, n
<1>7. TypeOK'
  <2>1. step' \in {1, 2} /\ step' <= n
    BY <1>1, <1>4, <1>5
  <2>2. place' \in InProgress
    BY <1>5 DEF InProgress
  <2> QED
    BY <1>0, <1>3, <1>6, <2>1, <2>2 DEF TypeOK, n
<1>8. OwnOffsets'
  BY <1>0, <1>3, <1>5, WantedOffsets DEF OwnOffsets, Used, IInv
<1>9. SetSoFar'
  <2>1. Obeying' = Obeying
    BY <1>0 DEF Obeying
  <2>2. SUFFICES ASSUME Obeying, keys = 0, keys' = 0, ok
                 PROVE  SetSoFar'
    BY <1>0, <1>1, <1>3, <1>4, <1>5, <2>1 DEF SetSoFar, Obeying
  <2>3. CASE step = 1
    BY <1>0, <1>1, <1>3, <1>4, <1>5, <2>2, <2>3 DEF SetSoFar, Agree, Wanted
  <2>4. CASE step = 2
    BY <1>0, <1>1, <1>3, <1>4, <1>5, <2>2, <2>4 DEF SetSoFar, IInv, Agree, Wanted
  <2> QED
    BY <1>4, <2>3, <2>4
<1>10. HealthyMachineObeys'
  BY <1>0, <1>1, <1>3, <1>4, <1>5 DEF HealthyMachineObeys, Obeying
<1>11. FreshCall' /\ RestoredSoFar'
  BY <1>0, <1>5 DEF FreshCall, RestoredSoFar
<1>12. SuccessIsTruth' /\ RolledBackIsTruth' /\ HealthyPlaneRestored'
  BY <1>5 DEF SuccessIsTruth, RolledBackIsTruth, HealthyPlaneRestored
<1> QED
  BY <1>7, <1>8, <1>9, <1>10, <1>11, <1>12 DEF IInv

\* The final readback is the only way to report success.
LEMMA VerifyKeepsIInv ==
  ASSUME IInv, NEW ok \in BOOLEAN, Verify(ok)
  PROVE  IInv'
<1>0. /\ place = "verify" /\ place' = (IF ok THEN "ok" ELSE "undo")
      /\ firmware' = firmware /\ gpu' = gpu /\ nvidia' = nvidia /\ target' = target
      /\ prevProfile' = prevProfile /\ prevOffset' = prevOffset
      /\ profile' = profile /\ offset' = offset /\ pressed' \in BOOLEAN
      /\ failures' = failures /\ keys' = keys /\ step' = step /\ step = 1 /\ ~failures
  BY DEF Verify, ReadsAgree, call, prev, planes, IInv, TypeOK, FreshCall
<1>1. /\ ok => Agree(target, Wanted(target))
      /\ Obeying => ok = Agree(target, Wanted(target))
  BY DEF Verify, ReadsAgree
<1>2. TypeOK'
  <2>1. ForwardOrder(target)' = ForwardOrder(target)
    BY <1>0 DEF ForwardOrder
  <2>2. place \in InProgress /\ place' \in InProgress \cup Ended
    BY <1>0 DEF InProgress, Ended
  <2> QED
    BY <1>0, <2>1, <2>2 DEF IInv, TypeOK
<1>3. OwnOffsets'
  BY <1>0 DEF OwnOffsets, Used, IInv
<1>4. SuccessIsTruth'
  <2>1. Wanted(target)' = Wanted(target)
    BY <1>0 DEF Wanted, OemTurbo, Reset
  <2> QED
    BY <1>0, <1>1, <2>1 DEF SuccessIsTruth, InForce, Agree
<1>5. HealthyMachineObeys'
  <2>1. Obeying' = Obeying
    BY <1>0 DEF Obeying
  <2> QED
    BY <1>0, <1>1, <2>1 DEF HealthyMachineObeys, SetSoFar, IInv
<1>6. FreshCall' /\ RestoredSoFar' /\ SetSoFar' /\ RolledBackIsTruth' /\ HealthyPlaneRestored'
  BY <1>0 DEF FreshCall, RestoredSoFar, SetSoFar, RolledBackIsTruth, HealthyPlaneRestored
<1> QED
  BY <1>2, <1>3, <1>4, <1>5, <1>6 DEF IInv

\* Both planes are restored, whether or not the first one could be.
LEMMA UndoKeepsIInv ==
  ASSUME IInv, NEW ok \in BOOLEAN, Undo(ok)
  PROVE  IInv'
<1> DEFINE plane == UndoOrder(target)[step]
           n == Len(UndoOrder(target))
<1>0. /\ place = "undo" /\ place \in InProgress /\ TypeOK
      /\ firmware' = firmware /\ gpu' = gpu /\ nvidia' = nvidia /\ target' = target
      /\ prevProfile' = prevProfile /\ prevOffset' = prevOffset
      /\ failures' \in BOOLEAN
  BY DEF Undo, call, prev, IInv, InProgress, TypeOK
<1>1. /\ n = (IF nvidia = "unavailable" THEN 1 ELSE 2)
      /\ Len(ForwardOrder(target)) = n
      /\ plane = (IF nvidia = "unavailable" \/ (step = 1) # (target = "turbo")
                    THEN "profile" ELSE "offsets")
      /\ nvidia = "unavailable" => step = 1
      /\ UndoOrder(target)[1] =
           (IF nvidia = "unavailable" \/ target # "turbo" THEN "profile" ELSE "offsets")
  BY <1>0, NextPlane
<1>2. /\ profile' \in Profiles /\ offset' \in Settings /\ pressed' \in BOOLEAN
      /\ keys' \in 0..KeyLimit /\ (keys' = 0 => keys = 0)
      /\ plane \in {"profile", "offsets"}
      /\ plane = "profile" =>
           /\ firmware = "healthy" => ok \/ (pressed' /\ keys' # 0)
           /\ ok => profile' = prevProfile
           /\ offset' = offset
      /\ plane = "offsets" =>
           /\ gpu = "healthy" => ok
           /\ ok => offset' = prevOffset
           /\ \A e \in Entries : offset'[e] \in {offset[e], prevOffset[e]}
           /\ profile' = profile /\ pressed' = pressed
  <2>1. /\ prevProfile \in Profiles /\ prevOffset \in Settings
        /\ Set(plane, prevProfile, prevOffset, ok)
    BY DEF Undo, IInv, TypeOK
  <2> HIDE DEF plane
  <2> QED
    BY <1>0, <2>1, SetEffect
<1>3. step \in {1, 2} /\ nvidia \in {"available", "unavailable"}
  BY <1>0 DEF TypeOK
<1>4. \/ step = n /\ place' \in {"failed", "check"} /\ step' = 1
      \/ step = 1 /\ nvidia = "available" /\ place' = "undo" /\ step' = 2
  BY <1>0, <1>1, <1>3 DEF Undo, UndoEnds
<1>5. ForwardOrder(target)' = ForwardOrder(target) /\ UndoOrder(target)' = UndoOrder(target)
  BY <1>0 DEF ForwardOrder, UndoOrder
<1>6. /\ (UndoOrder(target)[1])' = UndoOrder(target)[1]
      /\ (Len(ForwardOrder(target)))' = n
  BY <1>1, <1>5
<1> HIDE DEF plane, n
<1>7. TypeOK'
  <2>1. step' \in {1, 2} /\ step' <= n
    BY <1>1, <1>3, <1>4
  <2>2. place' \in InProgress \cup Ended
    BY <1>4 DEF InProgress, Ended
  <2> QED
    BY <1>0, <1>2, <1>6, <2>1, <2>2 DEF TypeOK
<1>8. OwnOffsets'
  <2>1. (nvidia = "available") => \A e \in Entries :
           prevOffset[e] \in {"reset", "oem"} /\ offset[e] \in {"reset", "oem"}
    BY <1>0 DEF OwnOffsets, Used, IInv
  <2> QED
    BY <1>0, <1>2, <2>1 DEF OwnOffsets
<1> DEFINE ProfileBack == firmware = "healthy" /\ ~pressed' => profile' = prevProfile
           OffsetsBack == gpu = "healthy" => offset' = prevOffset
<1>9. plane = "profile" => ProfileBack
  BY <1>2
<1>10. plane = "offsets" => OffsetsBack
  BY <1>2
<1>11. step = 2 => ProfileBack /\ (nvidia = "available" => OffsetsBack)
  <2>1. CASE plane = "profile"
    BY <1>0, <1>1, <1>2, <1>9, <2>1 DEF RestoredSoFar, IInv
  <2>2. CASE plane = "offsets"
    BY <1>0, <1>1, <1>2, <1>10, <2>2 DEF RestoredSoFar, IInv
  <2> QED
    BY <1>2, <2>1, <2>2
<1>12. step = n => ProfileBack /\ (nvidia = "available" => OffsetsBack)
  BY <1>1, <1>3, <1>9, <1>11
<1>13. RestoredSoFar'
  <2>1. CASE step = n
    BY <1>0, <1>1, <1>4, <1>12, <2>1 DEF RestoredSoFar
  <2>2. CASE step # n
    BY <1>0, <1>1, <1>4, <1>6, <1>9, <1>10, <2>2 DEF RestoredSoFar
  <2> QED
    BY <2>1, <2>2
<1>14. HealthyPlaneRestored'
  BY <1>0, <1>4, <1>12 DEF HealthyPlaneRestored
<1>15. HealthyMachineObeys'
  <2>1. Obeying' = Obeying
    BY <1>0 DEF Obeying
  <2> QED
    BY <1>0, <1>2, <2>1 DEF HealthyMachineObeys, IInv
<1>16. FreshCall' /\ SetSoFar' /\ SuccessIsTruth' /\ RolledBackIsTruth'
  BY <1>4 DEF FreshCall, SetSoFar, SuccessIsTruth, RolledBackIsTruth
<1> QED
  BY <1>7, <1>8, <1>13, <1>14, <1>15, <1>16 DEF IInv

\* Only a readback of both planes reports a rollback.
LEMMA CheckKeepsIInv ==
  ASSUME IInv, NEW ok \in BOOLEAN, Check(ok)
  PROVE  IInv'
<1>0. /\ place = "check" /\ place' = (IF ok THEN "rolledback" ELSE "failed")
      /\ firmware' = firmware /\ gpu' = gpu /\ nvidia' = nvidia /\ target' = target
      /\ prevProfile' = prevProfile /\ prevOffset' = prevOffset
      /\ profile' = profile /\ offset' = offset /\ pressed' \in BOOLEAN
      /\ failures' = failures /\ keys' = keys /\ step' = step
  BY DEF Check, ReadsAgree, call, prev, planes, IInv, TypeOK
<1>1. /\ ok => Agree(prevProfile, prevOffset)
      /\ ~ok => pressed' = pressed
  BY DEF Check, ReadsAgree, IInv, TypeOK
<1>2. TypeOK'
  <2>1. ForwardOrder(target)' = ForwardOrder(target)
    BY <1>0 DEF ForwardOrder
  <2>2. place' \in InProgress \cup Ended /\ place' \notin InProgress
    BY <1>0 DEF InProgress, Ended
  <2> QED
    BY <1>0, <2>1, <2>2 DEF IInv, TypeOK
<1>3. RolledBackIsTruth'
  BY <1>0, <1>1 DEF RolledBackIsTruth, InForce, Agree
<1>4. HealthyPlaneRestored'
  BY <1>0, <1>1 DEF HealthyPlaneRestored, RestoredSoFar, IInv
<1>5. HealthyMachineObeys'
  <2>1. Obeying' = Obeying
    BY <1>0 DEF Obeying
  <2> QED
    BY <1>0, <2>1 DEF HealthyMachineObeys, IInv
<1>6. FreshCall' /\ RestoredSoFar' /\ SetSoFar' /\ SuccessIsTruth' /\ OwnOffsets'
  BY <1>0 DEF FreshCall, RestoredSoFar, SetSoFar, SuccessIsTruth, OwnOffsets, Used
<1> QED
  BY <1>2, <1>3, <1>4, <1>5, <1>6 DEF IInv

\* The hotkey ends every promise about the profile.
LEMMA HotkeyKeepsIInv ==
  ASSUME IInv, Hotkey
  PROVE  IInv'
<1>0. /\ place' = place /\ firmware' = firmware /\ gpu' = gpu /\ nvidia' = nvidia
      /\ target' = target /\ prevProfile' = prevProfile /\ prevOffset' = prevOffset
      /\ offset' = offset /\ failures' = failures /\ step' = step
      /\ profile' \in Profiles /\ pressed' = TRUE
      /\ keys' \in 0..KeyLimit /\ keys' # 0
  BY ProfileAssumption DEF Hotkey, Press, call, prev, IInv, TypeOK
<1>1. /\ ForwardOrder(target)' = ForwardOrder(target)
      /\ UndoOrder(target)' = UndoOrder(target)
  BY <1>0 DEF ForwardOrder, UndoOrder
<1>2. TypeOK'
  <2>1. pressed' \in BOOLEAN
    BY <1>0
  <2> QED
    BY <1>0, <1>1, <2>1 DEF IInv, TypeOK
<1>3. OwnOffsets' /\ FreshCall'
  BY <1>0 DEF OwnOffsets, FreshCall, Used, IInv
<1>4. RestoredSoFar'
  BY <1>0, <1>1 DEF RestoredSoFar, IInv
<1>5. HealthyPlaneRestored'
  BY <1>0 DEF HealthyPlaneRestored, IInv
<1>6. SetSoFar' /\ SuccessIsTruth' /\ RolledBackIsTruth' /\ HealthyMachineObeys'
  BY <1>0 DEF SetSoFar, SuccessIsTruth, RolledBackIsTruth, HealthyMachineObeys
<1> QED
  BY <1>2, <1>3, <1>4, <1>5, <1>6 DEF IInv

\* What the death of the process leaves is still made of known values.
LEMMA KilledKeepsIInv ==
  ASSUME IInv, Killed
  PROVE  IInv'
<1>0. /\ place' = "killed" /\ firmware' = firmware /\ gpu' = gpu /\ nvidia' = nvidia
      /\ target' = target /\ prevProfile' = prevProfile /\ prevOffset' = prevOffset
      /\ failures' = failures /\ step' = step /\ keys' = keys /\ pressed' = pressed
  BY DEF Killed, call, prev
<1>1. profile' \in Profiles
  BY DEF Killed, IInv, TypeOK
<1>2. offset' \in Settings
  BY DEF Killed, IInv, TypeOK, Between
<1>3. place' \in InProgress \cup Ended /\ place' \notin InProgress
  BY <1>0 DEF InProgress, Ended
<1>4. TypeOK'
  BY <1>0, <1>1, <1>2, <1>3 DEF IInv, TypeOK
<1> QED
  BY <1>0, <1>4 DEF IInv, OwnOffsets, Used, FreshCall, RestoredSoFar, SetSoFar,
     SuccessIsTruth, RolledBackIsTruth, HealthyPlaneRestored, HealthyMachineObeys

\* No step of a transaction, in whatever order and however it fails, breaks the
\* invariant.
THEOREM InductiveInvariant == Spec => []IInv
<1>1. IInv /\ [Next]_vars => IInv'
  <2> SUFFICES ASSUME IInv, [Next]_vars PROVE IInv'
    OBVIOUS
  <2>1. CASE UNCHANGED vars
    BY <2>1 DEF IInv, vars, call, planes, prev, TypeOK, FreshCall, OwnOffsets, Used,
       RestoredSoFar, SetSoFar, SuccessIsTruth, RolledBackIsTruth,
       HealthyPlaneRestored, HealthyMachineObeys, InForce, Agree, Obeying,
       ForwardOrder, UndoOrder, Wanted, OemTurbo, Reset
  <2>2. CASE Begin
    BY <2>2, BeginKeepsIInv
  <2>3. CASE Hotkey
    BY <2>3, HotkeyKeepsIInv
  <2>4. CASE Killed
    BY <2>4, KilledKeepsIInv
  <2>5. ASSUME NEW ok \in BOOLEAN,
               Read(ok) \/ Forward(ok) \/ Verify(ok) \/ Undo(ok) \/ Check(ok)
        PROVE  IInv'
    BY <2>5, ReadKeepsIInv, ForwardKeepsIInv, VerifyKeepsIInv, UndoKeepsIInv,
       CheckKeepsIInv
  <2> QED
    BY <2>1, <2>2, <2>3, <2>4, <2>5 DEF Next
<1> QED
  BY <1>1, InitEstablishesIInv, PTL DEF Spec

-----------------------------------------------------------------------------
(* What the run checks.                                                       *)

\* Type correctness, the positions within a transaction included.
THEOREM TypesAreKept == Spec => []TypeOK
<1>1. IInv => TypeOK
  BY DEF IInv
<1> QED
  BY <1>1, InductiveInvariant, PTL

\* What PROFILE reports as applied is in force on both planes.
THEOREM SuccessIsTrue == Spec => []SuccessIsTruth
<1>1. IInv => SuccessIsTruth
  BY DEF IInv
<1> QED
  BY <1>1, InductiveInvariant, PTL

\* What PROFILE reports as rolled back is as it was on both planes.
THEOREM RollbackIsTrue == Spec => []RolledBackIsTruth
<1>1. IInv => RolledBackIsTruth
  BY DEF IInv
<1> QED
  BY <1>1, InductiveInvariant, PTL

\* A plane that fails does not keep the other one from being restored.
THEOREM HealthyPlanesAreRestored == Spec => []HealthyPlaneRestored
<1>1. IInv => HealthyPlaneRestored
  BY DEF IInv
<1> QED
  BY <1>1, InductiveInvariant, PTL

\* On planes that obey, an undisturbed request is carried out.
THEOREM HealthyMachinesObey == Spec => []HealthyMachineObeys
<1>1. IInv => HealthyMachineObeys
  BY DEF IInv
<1> QED
  BY <1>1, InductiveInvariant, PTL

\* What one step does to the planes: the part of the transaction it is in
\* decides which of them it may change, and to what.
LEMMA PlaneSteps ==
  ASSUME IInv, [Next]_vars
  PROVE  \/ offset' = offset /\ (profile' = profile \/ keys' # 0)
         \/ /\ place = "forward"
            /\ \/ ForwardOrder(target)[step] = "profile"
                    /\ profile' \in {profile, target} /\ offset' = offset
               \/ ForwardOrder(target)[step] = "offsets" /\ profile' = profile
                    /\ \A e \in Entries : offset'[e] \in {offset[e], Wanted(target)[e]}
         \/ /\ place = "undo"
            /\ \/ offset' = offset
               \/ UndoOrder(target)[step] = "offsets"
                    /\ \A e \in Entries : offset'[e] \in {offset[e], prevOffset[e]}
<1>0. TypeOK
  BY DEF IInv
<1>1. CASE UNCHANGED vars
  BY <1>1 DEF vars, planes
<1>2. CASE Begin
  BY <1>2 DEF Begin, planes
<1>3. CASE Hotkey
  <2>1. keys' # 0
    BY <1>0, <1>3, ProfileAssumption DEF Hotkey, Press, TypeOK
  <2> QED
    BY <1>3, <2>1 DEF Hotkey
<1>4. CASE Killed
  <2>1. CASE place = "forward"
    <3>1. profile' \in {profile, target}
             /\ (ForwardOrder(target)[step] # "profile" => profile' = profile)
      BY <1>4, <2>1 DEF Killed, Writing
    <3>2. /\ ForwardOrder(target)[step] # "offsets" => offset' = offset
          /\ offset' = offset
               \/ \A e \in Entries : offset'[e] \in {offset[e], Wanted(target)[e]}
      BY <1>4, <2>1 DEF Killed, Writing, Between
    <3>3. place \in InProgress
      BY <1>4 DEF Killed
    <3>4. ForwardOrder(target)[step] \in {"profile", "offsets"}
      BY <1>0, <3>3, NextPlane
    <3> QED
      BY <2>1, <3>1, <3>2, <3>4
  <2>2. CASE place = "undo"
    <3>1. /\ UndoOrder(target)[step] # "offsets" => offset' = offset
          /\ offset' = offset
               \/ \A e \in Entries : offset'[e] \in {offset[e], prevOffset[e]}
      BY <1>4, <2>2 DEF Killed, Writing, Between
    <3> QED
      BY <2>2, <3>1
  <2>3. CASE place \notin {"forward", "undo"}
    BY <1>4, <2>3 DEF Killed, Writing
  <2> QED
    BY <2>1, <2>2, <2>3
<1>5. ASSUME NEW ok \in BOOLEAN, Read(ok) \/ Verify(ok) \/ Check(ok)
      PROVE  offset' = offset /\ profile' = profile
  BY <1>5 DEF Read, Verify, Check, ReadsAgree, planes
<1>6. ASSUME NEW ok \in BOOLEAN, Forward(ok)
      PROVE  /\ place = "forward"
             /\ \/ offset' = offset /\ keys' # 0
                \/ ForwardOrder(target)[step] = "profile"
                     /\ profile' \in {profile, target} /\ offset' = offset
                \/ ForwardOrder(target)[step] = "offsets" /\ profile' = profile
                     /\ \A e \in Entries : offset'[e] \in {offset[e], Wanted(target)[e]}
  <2> DEFINE plane == ForwardOrder(target)[step]
  <2>1. Set(plane, target, Wanted(target), ok) /\ target \in Profiles
    BY <1>0, <1>6 DEF Forward, TypeOK
  <2>2. Wanted(target) \in Settings /\ place = "forward"
    BY <1>6, WantedOffsets DEF Forward
  <2> HIDE DEF plane
  <2>3. \/ offset' = offset /\ keys' # 0
        \/ plane = "profile" /\ profile' \in {profile, target} /\ offset' = offset
        \/ plane = "offsets" /\ profile' = profile
             /\ \A e \in Entries : offset'[e] \in {offset[e], Wanted(target)[e]}
    BY <1>0, <2>1, <2>2, SetEffect
  <2> QED
    BY <2>2, <2>3 DEF plane
<1>7. ASSUME NEW ok \in BOOLEAN, Undo(ok)
      PROVE  /\ place = "undo"
             /\ \/ offset' = offset
                \/ UndoOrder(target)[step] = "offsets"
                     /\ \A e \in Entries : offset'[e] \in {offset[e], prevOffset[e]}
  <2> DEFINE plane == UndoOrder(target)[step]
  <2>1. /\ Set(plane, prevProfile, prevOffset, ok) /\ place = "undo"
        /\ prevProfile \in Profiles /\ prevOffset \in Settings
    BY <1>0, <1>7 DEF Undo, TypeOK
  <2> HIDE DEF plane
  <2>3. \/ offset' = offset
        \/ plane = "offsets" /\ \A e \in Entries : offset'[e] \in {offset[e], prevOffset[e]}
    BY <1>0, <2>1, SetEffect
  <2> QED
    BY <2>1, <2>3 DEF plane
<1> QED
  BY <1>1, <1>2, <1>3, <1>4, <1>5, <1>6, <1>7 DEF Next

\* Presses are only counted up.
LEMMA KeysGrow ==
  ASSUME IInv, [Next]_vars, keys' = 0
  PROVE  keys = 0
<1>0. TypeOK /\ keys \in Nat
  BY DEF IInv, TypeOK
<1>1. CASE UNCHANGED vars
  BY <1>1 DEF vars
<1>2. CASE Begin \/ Killed
  BY <1>2 DEF Begin, Killed
<1>3. CASE Hotkey
  BY <1>0, <1>3 DEF Hotkey, Press
<1>4. ASSUME NEW ok \in BOOLEAN, Read(ok) \/ Verify(ok) \/ Check(ok)
      PROVE  keys = 0
  BY <1>4 DEF Read, Verify, Check
<1>5. ASSUME NEW ok \in BOOLEAN, Forward(ok)
      PROVE  keys = 0
  <2> DEFINE plane == ForwardOrder(target)[step]
  <2>1. /\ Set(plane, target, Wanted(target), ok)
        /\ target \in Profiles /\ Wanted(target) \in Settings
    BY <1>0, <1>5, WantedOffsets DEF Forward, TypeOK
  <2> HIDE DEF plane
  <2> QED
    BY <1>0, <2>1, SetEffect
<1>6. ASSUME NEW ok \in BOOLEAN, Undo(ok)
      PROVE  keys = 0
  <2> DEFINE plane == UndoOrder(target)[step]
  <2>1. /\ Set(plane, prevProfile, prevOffset, ok)
        /\ prevProfile \in Profiles /\ prevOffset \in Settings
    BY <1>0, <1>6 DEF Undo, TypeOK
  <2> HIDE DEF plane
  <2> QED
    BY <1>0, <2>1, SetEffect
<1> QED
  BY <1>1, <1>2, <1>3, <1>4, <1>5, <1>6 DEF Next

\* An offset that is neither the OEM's nor zero is somebody else's, and is never
\* written.
THEOREM ForeignOffsetsSurvive == Spec => CustomOffsetsSurvive
<1>1. IInv /\ [Next]_vars =>
        [\A e \in Entries : offset[e] \notin {"reset", "oem"} => offset'[e] = offset[e]]_vars
  <2> SUFFICES ASSUME IInv, [Next]_vars, offset' # offset
               PROVE  \A e \in Entries : offset[e] \in {"reset", "oem"}
    OBVIOUS
  <2>1. place \in {"forward", "undo"}
    BY PlaneSteps
  <2>2. /\ place = "forward" => ForwardOrder(target)[step] = "offsets"
        /\ place = "undo" => UndoOrder(target)[step] = "offsets"
    BY PlaneSteps
  <2>3. TypeOK /\ place \in InProgress
    BY <2>1 DEF IInv, InProgress
  <2>4. nvidia = "available"
    BY <2>1, <2>2, <2>3, NextPlane DEF TypeOK
  <2> QED
    BY <2>1, <2>4 DEF IInv, OwnOffsets, Used
<1> QED
  BY <1>1, InductiveInvariant, PTL DEF Spec, CustomOffsetsSurvive

\* The order of the planes keeps raised clocks under Turbo at every step.
THEOREM RaisedClocksAreTurbo == Spec => RaisedClocksNeedTurbo
<1>1. IInv /\ [Next]_vars =>
        [Obeying /\ nvidia = "available" /\ keys' = 0 /\ Sane(profile, offset)
           => Sane(profile', offset')]_vars
  <2> SUFFICES ASSUME IInv, [Next]_vars, Obeying, nvidia = "available", keys' = 0,
                      Sane(profile, offset)
               PROVE  Sane(profile', offset')
    OBVIOUS
  <2>1. keys = 0
    BY KeysGrow
  <2>2. place # "undo"
    BY <2>1 DEF IInv, HealthyMachineObeys
  <2>3. CASE offset' = offset /\ profile' = profile
    BY <2>3 DEF Sane
  <2>4. CASE place = "forward"
    <3>1. TypeOK /\ place \in InProgress
      BY <2>4 DEF IInv, InProgress
    <3>2. ForwardOrder(target)[step] =
            (IF (step = 1) = (target = "turbo") THEN "profile" ELSE "offsets")
      BY <3>1, NextPlane
    <3>3. step \in {1, 2}
      BY <3>1 DEF TypeOK
    <3>4. step = 2 => IF target = "turbo" THEN profile = target
                                         ELSE offset = Wanted(target)
      BY <2>1, <2>4 DEF IInv, SetSoFar
    <3>5. CASE ForwardOrder(target)[step] = "profile"
      <4>1. profile' \in {profile, target} /\ offset' = offset
        BY <2>4, <3>5, PlaneSteps
      <4>2. CASE target = "turbo"
        BY <4>1, <4>2 DEF Sane
      <4>3. CASE target # "turbo"
        BY <3>2, <3>3, <3>4, <3>5, <4>1, <4>3, WantedOffsets DEF Sane
      <4> QED
        BY <4>2, <4>3
    <3>6. CASE ForwardOrder(target)[step] = "offsets"
      <4>1. profile' = profile
              /\ \A e \in Entries : offset'[e] \in {offset[e], Wanted(target)[e]}
        BY <2>4, <3>6, PlaneSteps
      <4>2. CASE target = "turbo"
        BY <3>2, <3>3, <3>4, <3>6, <4>1, <4>2 DEF Sane
      <4>3. CASE target # "turbo"
        BY <4>1, <4>3, WantedOffsets DEF Sane
      <4> QED
        BY <4>2, <4>3
    <3> QED
      BY <3>2, <3>5, <3>6
  <2> QED
    BY <2>2, <2>3, <2>4, PlaneSteps
<1> QED
  BY <1>1, InductiveInvariant, PTL DEF Spec, RaisedClocksNeedTurbo

=============================================================================
