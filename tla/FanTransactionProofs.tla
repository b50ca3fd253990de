------------------------ MODULE FanTransactionProofs ------------------------
(* Proofs about FanTransaction: its inductive invariant, that it implements    *)
(* FanApply, and that percentages survive the way through the PWM scale.       *)
EXTENDS FanTransaction, TLAPS

-----------------------------------------------------------------------------
(* The percent and PWM scales (percent_to_pwm, pwm_to_percent).               *)

\* The rounding comment of percent_to_pwm: the driver stores the percentage the
\* client asked for, for every percentage.
THEOREM DriverStoresRequest ==
  \A percent \in Percent :
    /\ PercentToPwm(percent) \in 0..PwmMax
    /\ DriverStores(PercentToPwm(percent)) = percent
  BY DEF Percent, PercentToPwm, DriverStores, PwmMax

\* The readback comparison in percent decides equality of the stored setpoints.
THEOREM ReadbackIsExact ==
  \A percent \in Percent : PwmToPercent(DriverShows(percent)) = percent
  BY DEF Percent, PwmToPercent, DriverShows, PwmMax

\* What a healthy channel holds and shows for a request.
LEMMA SetpointRoundTrip ==
  ASSUME NEW percent \in Percent
  PROVE  Arrives(percent) = percent /\ ReadBack(percent) = percent
  BY DriverStoresRequest, ReadbackIsExact DEF Arrives, ReadBack

-----------------------------------------------------------------------------
(* The steps of the call.                                                     *)

\* The accesses of a Manual request: Maximum on both channels, read back, before
\* the first setpoint; the setpoints again after the switch, then the readbacks.
LEMMA ManualSteps ==
  /\ Len(Mutation("Manual")) = 16
  /\ Mutation("Manual")[1] = Write(1, "Maximum")
  /\ Mutation("Manual")[2] = Write(2, "Maximum")
  /\ Mutation("Manual")[3] = Verify(1, "Maximum")
  /\ Mutation("Manual")[4] = Verify(2, "Maximum")
  /\ Mutation("Manual")[5] = Speed(1) /\ Mutation("Manual")[6] = Speed(2)
  /\ Mutation("Manual")[7] = Write(1, "Manual")
  /\ Mutation("Manual")[8] = Write(2, "Manual")
  /\ Mutation("Manual")[9] = Speed(1) /\ Mutation("Manual")[10] = Speed(2)
  /\ Mutation("Manual")[11] = VerifySpeed(1)
  /\ Mutation("Manual")[12] = VerifySpeed(2)
  /\ Mutation("Manual")[13] = Verify(1, "Manual")
  /\ Mutation("Manual")[14] = Verify(2, "Manual")
  /\ Mutation("Manual")[15] = Verify(1, "Manual")
  /\ Mutation("Manual")[16] = Verify(2, "Manual")
  BY DEF Mutation

\* The accesses of an Auto or Maximum request.
LEMMA ModeSteps ==
  ASSUME NEW s, s # "Manual"
  PROVE  /\ Len(Mutation(s)) = 6
         /\ Mutation(s)[1] = Write(1, s) /\ Mutation(s)[2] = Write(2, s)
         /\ Mutation(s)[3] = Verify(1, s) /\ Mutation(s)[4] = Verify(2, s)
         /\ Mutation(s)[5] = Verify(1, s) /\ Mutation(s)[6] = Verify(2, s)
  BY DEF Mutation

\* The accesses of the recovery.
LEMMA RecoverySteps ==
  ASSUME NEW m
  PROVE  /\ Recovery(m)[1] = Write(1, m) /\ Recovery(m)[2] = Write(2, m)
         /\ Recovery(m)[3] = Verify(1, m) /\ Recovery(m)[4] = Verify(2, m)
  BY DEF Recovery

\* What a step does to the machine and what its success says.
LEMMA WriteEffect ==
  ASSUME TypeOK, NEW c \in Channel, NEW m \in FanMode, NEW ok \in BOOLEAN,
         Perform(Write(c, m), ok)
  PROVE  /\ mode' \in [Channel -> FanMode] /\ duty' = duty
         /\ \A d \in Channel : mode'[d] = mode[d] \/ (d = c /\ mode'[d] = m)
         /\ c \in healthy => ok /\ mode'[c] = m
  BY DEF Perform, WriteMode, WriteSpeed, Check, Write, TypeOK

\* The daemon accepts no setpoint beyond the scale.
LEMMA SetpointsArePercentages == \A p \in Setpoints : p \in Percent
  BY SetpointsAssumption DEF Percent

\* What a write of a setpoint does; it counts once the channel is in Manual.
LEMMA SpeedEffect ==
  ASSUME TypeOK, NEW c \in Channel, NEW ok \in BOOLEAN,
         Perform(Speed(c), ok)
  PROVE  /\ duty' \in [Channel -> Percent] /\ mode' = mode
         /\ \A d \in Channel : duty'[d] = duty[d] \/ (d = c /\ duty'[d] = request[d])
         /\ c \in healthy => ok
         /\ c \in healthy /\ mode[c] = "Manual" => duty'[c] = request[c]
<1>1. request[c] \in Percent
  BY SetpointsArePercentages DEF TypeOK
<1>2. Arrives(request[c]) = request[c]
  BY <1>1, SetpointRoundTrip
<1> QED
  BY <1>1, <1>2 DEF Perform, WriteMode, WriteSpeed, Check, Speed, TypeOK

\* What a readback of the mode says.
LEMMA VerifyEffect ==
  ASSUME TypeOK, NEW c \in Channel, NEW m \in FanMode, NEW ok \in BOOLEAN,
         Perform(Verify(c, m), ok)
  PROVE  /\ mode' = mode /\ duty' = duty
         /\ ok => mode[c] = m
         /\ c \in healthy /\ mode[c] = m => ok
  BY DEF Perform, WriteMode, WriteSpeed, Check, Matches, Verify, machine

\* What a readback of the setpoint says, through the scale of the driver.
LEMMA VerifySpeedEffect ==
  ASSUME TypeOK, NEW c \in Channel, NEW ok \in BOOLEAN, Perform(VerifySpeed(c), ok)
  PROVE  /\ mode' = mode /\ duty' = duty
         /\ ok => duty[c] = request[c]
         /\ c \in healthy /\ duty[c] = request[c] => ok
<1>1. ReadBack(duty[c]) = duty[c]
  BY SetpointRoundTrip DEF TypeOK
<1> QED
  BY <1>1 DEF Perform, WriteMode, WriteSpeed, Check, Matches, VerifySpeed, machine

-----------------------------------------------------------------------------
(* The inductive invariant.                                                   *)

\* The mode of both channels is one of the reported modes.
LEMMA ModeOfIsFanMode ==
  ASSUME NEW m
  PROVE  FanModeOf(m) \in FanMode
  BY DEF FanModeOf, FanMode

\* Positions within a mutation.
LEMMA StepBounds ==
  ASSUME NEW s
  PROVE  /\ Len(Mutation(s)) = IF s = "Manual" THEN 16 ELSE 6
         /\ 1 \in 1..Len(Mutation(s))
         /\ \A i \in 1..4 : i \in 1..Len(Mutation(s))
<1>1. Len(Mutation(s)) = IF s = "Manual" THEN 16 ELSE 6
  BY ManualSteps, ModeSteps
<1>2. 1 \in 1..4 /\ \A i \in 1..4 : i \in 1..16 /\ i \in 1..6
  OBVIOUS
<1> QED
  BY <1>1, <1>2

\* Before the first call nothing has been promised.
LEMMA InitEstablishesIInv == Init => IInv
<1> SUFFICES ASSUME Init PROVE IInv
  OBVIOUS
<1>1. TypeOK
  <2>1. \A c \in Channel : duty[c] \in Percent
    BY SetpointsArePercentages DEF Init
  <2>2. failed \in BOOLEAN
    BY DEF Init
  <2>3. step \in 1..Len(Mutation(setting))
    BY StepBounds DEF Init
  <2>4. duty \in [Channel -> Percent]
    BY <2>1 DEF Init
  <2> QED
    BY <2>2, <2>3, <2>4, ModeOfIsFanMode DEF Init, TypeOK, InProgress
<1>2. phase = "idle"
  BY DEF Init
<1> QED
  BY <1>1, <1>2
     DEF IInv, MutationSoFar, ManualSoFar, RecoverySoFar, HealthyRecovery,
         HealthyMutation, NothingWritten, ResultIsTruth, VerifiedSetpoints,
         HealthyChannelIsSafe, HealthyMachineObeys

\* A new call forgets the previous one.
LEMMA BeginKeepsIInv ==
  ASSUME IInv, Begin
  PROVE  IInv'
<1>1. TypeOK'
  <2>1. failed' \in BOOLEAN
    BY DEF Begin
  <2>2. step' \in 1..Len(Mutation(setting'))
    BY StepBounds DEF Begin
  <2> QED
    BY <2>1, <2>2, ModeOfIsFanMode DEF IInv, Begin, TypeOK, machine, InProgress
<1>2. phase' = "mutate" /\ step' = 1 /\ before' = FanModeOf(mode)
  BY DEF Begin
<1>3. NothingWritten'
  BY <1>2 DEF NothingWritten, Begin, machine, FanModeOf
<1> QED
  BY <1>1, <1>2, <1>3
     DEF IInv, MutationSoFar, ManualSoFar, RecoverySoFar, HealthyRecovery,
         HealthyMutation, ResultIsTruth, VerifiedSetpoints,
         HealthyChannelIsSafe, HealthyMachineObeys

\* Refuse and Killed.
LEMMA EndsKeepIInv ==
  ASSUME IInv, Refuse \/ Killed
  PROVE  IInv'
<1>1. /\ phase' \in {"refused", "killed"} /\ step' \in {step, 1}
      /\ failed' \in BOOLEAN
      /\ UNCHANGED <<backend, healthy, setting, request, before, mode, duty>>
  BY DEF Refuse, Killed, IInv, TypeOK, call, machine
<1>2. TypeOK'
  BY <1>1, StepBounds DEF IInv, TypeOK, InProgress
<1> QED
  BY <1>1, <1>2
     DEF IInv, MutationSoFar, ManualSoFar, RecoverySoFar, HealthyRecovery,
         HealthyMutation, NothingWritten, ResultIsTruth, VerifiedSetpoints,
         HealthyChannelIsSafe, HealthyMachineObeys

\* A step of set_manual: success ensures what ManualSoFar and HealthyMutation
\* say of the next step.
LEMMA ManualStepEnsures ==
  ASSUME IInv, phase = "mutate", setting = "Manual", NEW ok \in BOOLEAN, Mutate(ok)
  PROVE  /\ mode' \in [Channel -> FanMode] /\ duty' \in [Channel -> Percent]
         /\ healthy = Channel => ok
         /\ ok /\ step = 16 => mode'[1] = "Manual" /\ mode'[2] = "Manual"
                              /\ duty'[1] = request[1] /\ duty'[2] = request[2]
         /\ ok /\ step # 16 => ManualSoFar' /\ HealthyMutation'
<1>1. step \in 1..16 /\ Perform(Mutation("Manual")[step], ok) /\ TypeOK
  BY StepBounds DEF IInv, TypeOK, Mutate
<1>2. UNCHANGED <<backend, healthy, setting, request, before>>
  BY DEF Mutate, call
<1>3. ok /\ step # 16 => phase' = "mutate" /\ step' = step + 1
  BY <1>1, StepBounds DEF Mutate
<1> USE DEF IInv, ManualSoFar, HealthyMutation, Channel
<1>4. CASE step \in {1, 2}
  <2>1. PICK c \in Channel : step = c /\ Perform(Write(c, "Maximum"), ok)
    BY <1>1, <1>4, ManualSteps
  <2> QED
    BY <1>1, <1>2, <1>3, <1>4, <2>1, WriteEffect DEF FanMode, TypeOK
<1>5. CASE step \in {3, 4}
  <2>1. PICK c \in Channel : step = c + 2 /\ Perform(Verify(c, "Maximum"), ok)
    BY <1>1, <1>5, ManualSteps
  <2> QED
    BY <1>1, <1>2, <1>3, <1>5, <2>1, VerifyEffect DEF FanMode, TypeOK
<1>6. CASE step \in {5, 6, 9, 10}
  <2>1. PICK c \in Channel : step \in {c + 4, c + 8} /\ Perform(Speed(c), ok)
    BY <1>1, <1>6, ManualSteps
  <2> QED
    BY <1>1, <1>2, <1>3, <1>6, <2>1, SpeedEffect DEF FanMode, TypeOK
<1>7. CASE step \in {7, 8}
  <2>1. PICK c \in Channel : step = c + 6 /\ Perform(Write(c, "Manual"), ok)
    BY <1>1, <1>7, ManualSteps
  <2> QED
    BY <1>1, <1>2, <1>3, <1>7, <2>1, WriteEffect DEF FanMode, TypeOK
<1>8. CASE step \in {11, 12}
  <2>1. PICK c \in Channel : step = c + 10 /\ Perform(VerifySpeed(c), ok)
    BY <1>1, <1>8, ManualSteps
  <2> QED
    BY <1>1, <1>2, <1>3, <1>8, <2>1, VerifySpeedEffect DEF FanMode, TypeOK
<1>9. CASE step \in {13, 14, 15, 16}
  <2>1. PICK c \in Channel : step \in {c + 12, c + 14} /\ Perform(Verify(c, "Manual"), ok)
    BY <1>1, <1>9, ManualSteps
  <2> QED
    BY <1>1, <1>2, <1>3, <1>9, <2>1, VerifyEffect DEF FanMode, TypeOK
<1> QED
  BY <1>1, <1>4, <1>5, <1>6, <1>7, <1>8, <1>9

\* One access of an Auto or Maximum request.
LEMMA ModeStepEnsures ==
  ASSUME IInv, phase = "mutate", setting # "Manual", NEW ok \in BOOLEAN, Mutate(ok)
  PROVE  /\ mode' \in [Channel -> FanMode] /\ duty' = duty
         /\ healthy = Channel => ok
         /\ ok /\ step = 6 => mode'[1] = setting /\ mode'[2] = setting
         /\ ok /\ step # 6 => MutationSoFar' /\ HealthyMutation'
<1>1. step \in 1..6 /\ Perform(Mutation(setting)[step], ok) /\ TypeOK
  BY StepBounds DEF IInv, TypeOK, Mutate
<1>2. UNCHANGED <<backend, healthy, setting, request, before>>
  BY DEF Mutate, call
<1>3. ok /\ step # 6 => phase' = "mutate" /\ step' = step + 1
  BY <1>1, StepBounds DEF Mutate
<1> USE DEF IInv, MutationSoFar, HealthyMutation, Channel
<1>4. CASE step \in {1, 2}
  <2>1. PICK c \in Channel : step = c /\ Perform(Write(c, setting), ok)
    BY <1>1, <1>4, ModeSteps
  <2> QED
    BY <1>1, <1>2, <1>3, <1>4, <2>1, WriteEffect DEF TypeOK
<1>5. CASE step \in 3..6
  <2>1. PICK c \in Channel : step \in {c + 2, c + 4} /\ Perform(Verify(c, setting), ok)
    BY <1>1, <1>5, ModeSteps
  <2> QED
    BY <1>1, <1>2, <1>3, <1>5, <2>1, VerifyEffect DEF TypeOK
<1> QED
  BY <1>1, <1>4, <1>5

\* One access of any request, and the failure that starts the recovery.
LEMMA MutateKeepsIInv ==
  ASSUME IInv, NEW ok \in BOOLEAN, Mutate(ok)
  PROVE  IInv'
<1>1. /\ phase = "mutate" /\ failed' = failed
      /\ UNCHANGED <<backend, healthy, setting, request, before>>
      /\ step \in 1..Len(Mutation(setting))
      /\ Len(Mutation(setting)) = IF setting = "Manual" THEN 16 ELSE 6
  BY StepBounds DEF Mutate, call, IInv, TypeOK
<1>2. mode' \in [Channel -> FanMode] /\ duty' \in [Channel -> Percent]
  BY <1>1, ManualStepEnsures, ModeStepEnsures DEF IInv, TypeOK
<1>3. TypeOK'
  BY <1>1, <1>2 DEF IInv, TypeOK, Mutate, InProgress
<1> USE DEF IInv, MutationSoFar, ManualSoFar, RecoverySoFar, HealthyRecovery,
            HealthyMutation, NothingWritten, ResultIsTruth, VerifiedSetpoints,
            HealthyChannelIsSafe, HealthyMachineObeys
<1>4. CASE ~ok
  <2>1. phase' = "auto" /\ step' = 1 /\ healthy' # Channel
    BY <1>1, <1>4, ManualStepEnsures, ModeStepEnsures DEF Mutate
  <2> QED
    BY <1>3, <2>1
<1>5. CASE ok /\ step = Len(Mutation(setting))
  <2>1. /\ phase' = "verified" /\ \A c \in Channel : mode'[c] = setting'
        /\ setting' = "Manual" => \A c \in Channel : duty'[c] = request'[c]
    BY <1>1, <1>5, ManualStepEnsures, ModeStepEnsures DEF Mutate, Channel
  <2> QED
    BY <1>3, <2>1 DEF AllIn
<1>6. CASE ok /\ step # Len(Mutation(setting))
  <2>1. phase' = "mutate" /\ step' # 1
    BY <1>1, <1>6 DEF Mutate
  <2>2. MutationSoFar' /\ ManualSoFar' /\ HealthyMutation'
    BY <1>1, <1>6, ManualStepEnsures, ModeStepEnsures
  <2> QED
    BY <1>3, <2>1, <2>2
<1> QED
  BY <1>4, <1>5, <1>6

\* One access of the recovery; the last one reports what has been reached.
LEMMA RecoverKeepsIInv ==
  ASSUME IInv, NEW ok \in BOOLEAN, Recover(ok)
  PROVE  IInv'
<1>1. /\ phase \in {"auto", "maximum"} /\ step \in 1..4
      /\ RecoveryMode \in FanMode /\ healthy # Channel
      /\ UNCHANGED <<backend, healthy, setting, request, before>>
      /\ Perform(Recovery(RecoveryMode)[step], ok) /\ TypeOK
  BY StepBounds DEF Recover, RecoveryMode, call, IInv, TypeOK, HealthyMachineObeys,
                    FanMode
\* A written channel that obeys has the mode; a readback that succeeds says so.
<1>2. /\ mode' \in [Channel -> FanMode] /\ duty' = duty
      /\ \A c \in Channel : step = c /\ c \in healthy => mode'[c] = RecoveryMode
      /\ \A c \in Channel : mode'[c] = mode[c] \/ (step = c /\ mode'[c] = RecoveryMode)
      /\ \A c \in Channel : step = c + 2 /\ ok => mode'[c] = RecoveryMode
  <2>1. CASE step \in {1, 2}
    <3>1. PICK c \in Channel : step = c /\ Perform(Write(c, RecoveryMode), ok)
      BY <1>1, <2>1, RecoverySteps DEF Channel
    <3> QED
      BY <1>1, <3>1, WriteEffect DEF Channel, TypeOK
  <2>2. CASE step \in {3, 4}
    <3>1. PICK c \in Channel : step = c + 2 /\ Perform(Verify(c, RecoveryMode), ok)
      BY <1>1, <2>2, RecoverySteps DEF Channel
    <3> QED
      BY <1>1, <3>1, VerifyEffect DEF Channel, TypeOK
  <2> QED
    BY <1>1, <2>1, <2>2
<1>3. TypeOK'
  <2>1. failed' \in BOOLEAN
    BY <1>1 DEF Recover, TypeOK
  <2>2. step' \in 1..4
    BY <1>1 DEF Recover
  <2>3. step' \in 1..Len(Mutation(setting'))
    BY <1>1, <2>2, StepBounds
  <2> QED
    BY <1>1, <1>2, <2>1, <2>2, <2>3 DEF TypeOK, Recover, InProgress
<1> USE DEF IInv, MutationSoFar, ManualSoFar, RecoverySoFar, HealthyRecovery,
            HealthyMutation, NothingWritten, ResultIsTruth, VerifiedSetpoints,
            HealthyChannelIsSafe, HealthyMachineObeys
<1>4. CASE GivesUp(ok)
  <2>1. CASE phase = "auto"
    <3>1. phase' = "maximum" /\ step' = 1
      BY <1>4, <2>1 DEF Recover
    <3> QED
      BY <1>1, <1>3, <3>1
  <2>2. CASE phase = "maximum"
    <3>1. phase' = "unrecovered" /\ step > 1
      BY <1>4, <2>2 DEF Recover, GivesUp
    <3>2. \A c \in healthy : mode'[c] = "Maximum"
      BY <1>1, <1>2, <2>2, <3>1 DEF RecoveryMode, TypeOK, Channel
    <3> QED
      BY <1>1, <1>3, <3>1, <3>2
  <2> QED
    BY <1>1, <2>1, <2>2
<1>5. CASE ~GivesUp(ok) /\ step = 4
  <2>1. phase' = IF phase = "auto" THEN "rolledback" ELSE "failsafe"
    BY <1>5 DEF Recover
  <2>2. ok
    BY <1>5 DEF GivesUp
  <2>3. \A c \in Channel : mode'[c] = RecoveryMode
    BY <1>1, <1>2, <1>5, <2>2 DEF Channel, RecoveryMode
  <2> QED
    BY <1>1, <1>3, <2>1, <2>3 DEF AllIn, RecoveryMode
<1>6. CASE ~GivesUp(ok) /\ step # 4
  <2>1. phase' = phase /\ step' = step + 1
    BY <1>6 DEF Recover
  <2>2. step = 3 => ok
    BY <1>6 DEF GivesUp
  <2>3. RecoverySoFar'
    BY <1>1, <1>2, <2>1, <2>2 DEF RecoveryMode, Channel
  <2>4. HealthyRecovery'
    BY <1>1, <1>2, <2>1 DEF RecoveryMode, Channel
  <2> QED
    BY <1>1, <1>3, <2>1, <2>3, <2>4
<1> QED
  BY <1>4, <1>5, <1>6

\* The inductive invariant of the transaction.
THEOREM InductiveInvariant == Spec => []IInv
<1>1. IInv /\ [Next]_vars => IInv'
  <2> SUFFICES ASSUME IInv, [Next]_vars PROVE IInv'
    OBVIOUS
  <2>1. CASE Begin \/ Refuse \/ Killed
    BY <2>1, BeginKeepsIInv, EndsKeepIInv
  <2>2. CASE \E ok \in BOOLEAN : Mutate(ok) \/ Recover(ok)
    BY <2>2, MutateKeepsIInv, RecoverKeepsIInv
  <2>3. CASE UNCHANGED vars
    BY <2>3 DEF vars, call, machine, IInv, TypeOK, MutationSoFar, ManualSoFar,
                RecoverySoFar, HealthyRecovery, HealthyMutation, NothingWritten, ResultIsTruth,
                VerifiedSetpoints, HealthyChannelIsSafe, HealthyMachineObeys,
                AllIn, RecoveryMode
  <2> QED
    BY <2>1, <2>2, <2>3 DEF Next
<1> QED
  BY <1>1, InitEstablishesIInv, PTL DEF Spec

\* A reported setpoint is the firmware's setpoint (verify_pwm_percent).
THEOREM SetpointsAreVerified == Spec => []VerifiedSetpoints
<1>1. IInv => VerifiedSetpoints
  BY DEF IInv
<1> QED
  BY <1>1, InductiveInvariant, PTL

\* A broken channel does not keep the other one from Maximum
\* (force_mode_unchecked attempts both writes).
THEOREM HealthyChannelsAreSafe == Spec => []HealthyChannelIsSafe
<1>1. IInv => HealthyChannelIsSafe
  BY DEF IInv
<1> QED
  BY <1>1, InductiveInvariant, PTL

\* On a machine that obeys every request is confirmed, for all percentages.
THEOREM HealthyMachinesObey == Spec => []HealthyMachineObeys
<1>1. IInv => HealthyMachineObeys
  BY DEF IInv
<1> QED
  BY <1>1, InductiveInvariant, PTL

\* No channel enters Manual while the other is under firmware automation
\* (set_manual's "firmware-safe sequence").
THEOREM ManualIsSymmetric == Spec => NoHalfManual
<1>1. ASSUME IInv, [Next]_vars, NEW c \in Channel, mode[c] # "Manual",
             mode'[c] = "Manual", NEW d \in Channel
      PROVE  mode[d] # "Auto"
  <2>1. CASE Begin \/ Refuse \/ Killed \/ UNCHANGED vars
    BY <1>1, <2>1 DEF Begin, Refuse, Killed, vars, machine
  <2>2. ASSUME NEW ok \in BOOLEAN, Recover(ok) PROVE FALSE
    <3>1. /\ phase \in {"auto", "maximum"} /\ step \in 1..4 /\ RecoveryMode # "Manual"
          /\ RecoveryMode \in FanMode /\ Perform(Recovery(RecoveryMode)[step], ok)
          /\ TypeOK
      BY <1>1, <2>2 DEF Recover, RecoveryMode, IInv, TypeOK, FanMode
    <3>2. CASE step \in {1, 2}
      <4>1. PICK e \in Channel : Perform(Write(e, RecoveryMode), ok)
        BY <3>1, <3>2, RecoverySteps DEF Channel
      <4> QED
        BY <1>1, <3>1, <4>1, WriteEffect
    <3>3. CASE step \in {3, 4}
      <4>1. PICK e \in Channel : Perform(Verify(e, RecoveryMode), ok)
        BY <3>1, <3>3, RecoverySteps DEF Channel
      <4> QED
        BY <1>1, <3>1, <4>1, VerifyEffect
    <3> QED
      BY <3>1, <3>2, <3>3
  <2>3. ASSUME NEW ok \in BOOLEAN, Mutate(ok), setting # "Manual" PROVE FALSE
    <3>1. /\ phase = "mutate" /\ step \in 1..6 /\ setting \in FanMode
          /\ Perform(Mutation(setting)[step], ok) /\ TypeOK
      BY <1>1, <2>3, StepBounds DEF Mutate, IInv, TypeOK
    <3>2. CASE step \in {1, 2}
      <4>1. PICK e \in Channel : Perform(Write(e, setting), ok)
        BY <2>3, <3>1, <3>2, ModeSteps DEF Channel
      <4> QED
        BY <1>1, <2>3, <3>1, <4>1, WriteEffect
    <3>3. CASE step \in 3..6
      <4>1. PICK e \in Channel : Perform(Verify(e, setting), ok)
        BY <2>3, <3>1, <3>3, ModeSteps DEF Channel
      <4> QED
        BY <1>1, <3>1, <4>1, VerifyEffect
    <3> QED
      BY <3>1, <3>2, <3>3
  <2>4. ASSUME NEW ok \in BOOLEAN, Mutate(ok), setting = "Manual" PROVE mode[d] # "Auto"
    <3>1. /\ phase = "mutate" /\ step \in 1..16
          /\ Perform(Mutation("Manual")[step], ok) /\ TypeOK
      BY <1>1, <2>4, StepBounds DEF Mutate, IInv, TypeOK
    <3>2. CASE step > 4
      BY <1>1, <2>4, <3>1, <3>2 DEF IInv, ManualSoFar
    <3>3. CASE step \in {1, 2}
      <4>1. PICK e \in Channel : Perform(Write(e, "Maximum"), ok)
        BY <3>1, <3>3, ManualSteps DEF Channel
      <4> QED
        BY <1>1, <3>1, <4>1, WriteEffect DEF FanMode
    <3>4. CASE step \in {3, 4}
      <4>1. PICK e \in Channel : Perform(Verify(e, "Maximum"), ok)
        BY <3>1, <3>4, ManualSteps DEF Channel
      <4> QED
        BY <1>1, <3>1, <4>1, VerifyEffect DEF FanMode
    <3> QED
      BY <3>1, <3>2, <3>3, <3>4
  <2> QED
    BY <1>1, <2>1, <2>2, <2>3, <2>4 DEF Next
<1>2. IInv /\ [Next]_vars =>
        [\A c \in Channel :
           mode[c] # "Manual" /\ mode'[c] = "Manual"
             => \A d \in Channel : mode[d] # "Auto"]_vars
  BY <1>1
<1> QED
  BY <1>2, InductiveInvariant, PTL DEF NoHalfManual, Spec

-----------------------------------------------------------------------------
(* Refinement.                                                                *)

\* FanApply's copies of the definitions of FanModes.
LEMMA SameFanModes ==
  /\ Abstract!FanMode = FanMode
  /\ \A s : Abstract!ApplyOutcomes(s) = ApplyOutcomes(s)
  BY DEF Abstract!FanMode, FanMode, Abstract!ApplyOutcomes, ApplyOutcomes

\* The result a call reports is one FanApply admits for the mode it left.
LEMMA ResultIsAdmitted ==
  ASSUME NEW s \in FanMode, NEW m \in FanMode, NEW out,
         \/ out = "ok" /\ m = s
         \/ out = "failed" /\ m \in {"Auto", "Maximum"}
         \/ out = "unrecovered"
  PROVE  \E r \in ApplyOutcomes(s) :
           /\ m = r.mode
           /\ out = IF r.ok THEN "ok" ELSE IF r.fault THEN "unrecovered" ELSE "failed"
<1> USE DEF ApplyOutcomes
<1>1. CASE out = "ok" /\ m = s
  <2> WITNESS [mode |-> s, ok |-> TRUE, fault |-> FALSE] \in ApplyOutcomes(s)
  <2> QED
    BY <1>1
<1>2. CASE out = "failed" /\ m = "Auto"
  <2> WITNESS [mode |-> "Auto", ok |-> FALSE, fault |-> FALSE] \in ApplyOutcomes(s)
  <2> QED
    BY <1>2
<1>3. CASE out = "failed" /\ m = "Maximum"
  <2> WITNESS [mode |-> "Maximum", ok |-> FALSE, fault |-> FALSE] \in ApplyOutcomes(s)
  <2> QED
    BY <1>3
<1>4. CASE out = "unrecovered"
  <2> WITNESS [mode |-> m, ok |-> FALSE, fault |-> TRUE] \in ApplyOutcomes(s)
  <2> QED
    BY <1>4
<1> QED
  BY <1>1, <1>2, <1>3, <1>4

\* A call in progress is invisible to its caller.
LEMMA ProgressIsStutter ==
  ASSUME IInv, \E ok \in BOOLEAN : Mutate(ok) \/ Recover(ok), phase' \in InProgress
  PROVE  UNCHANGED Abstract!vars
<1>1. phase \in InProgress /\ setting' = setting /\ before' = before
  BY DEF Mutate, Recover, call, InProgress
<1> QED
  BY <1>1 DEF Abstract!vars, Outcome, Fans

\* The end of a call is FanApply's Return.
LEMMA EndIsReturn ==
  ASSUME IInv, IInv', \E ok \in BOOLEAN : Mutate(ok) \/ Recover(ok),
         phase' \notin InProgress
  PROVE  Abstract!Return
<1>1. /\ phase \in InProgress /\ setting' = setting /\ setting \in FanMode
      /\ phase' \in {"verified", "rolledback", "failsafe", "unrecovered"}
  BY DEF Mutate, Recover, call, InProgress, IInv, TypeOK
<1>2. Fans' \in FanMode
  BY <1>1, ModeOfIsFanMode DEF Fans, InProgress
<1>3. \/ Outcome' = "ok" /\ Fans' = setting
      \/ Outcome' = "failed" /\ Fans' \in {"Auto", "Maximum"}
      \/ Outcome' = "unrecovered"
  BY <1>1 DEF Outcome, Fans, InProgress, IInv, ResultIsTruth, AllIn, FanModeOf,
              Channel, FanMode
<1>4. \E r \in ApplyOutcomes(setting) :
        /\ Fans' = r.mode
        /\ Outcome' = IF r.ok THEN "ok" ELSE IF r.fault THEN "unrecovered" ELSE "failed"
  BY <1>1, <1>2, <1>3, ResultIsAdmitted
<1>5. Outcome = "pending"
  BY <1>1 DEF Outcome
<1> QED
  BY <1>1, <1>4, <1>5, SameFanModes DEF Abstract!Return

\* apply_fan_setting with all its steps is one atomic call of FanApply, which is
\* the fan write the sessions of the daemon are modelled with.
THEOREM TransactionImplementsFanApply == Spec => ImplementsFanApply
<1>1. ASSUME Init PROVE Abstract!Init
  <2>1. phase = "idle" /\ setting \in FanMode
    BY <1>1 DEF Init
  <2>2. Outcome = "none" /\ Fans = FanModeOf(mode)
    BY <2>1 DEF Outcome, Fans, InProgress
  <2> QED
    BY <2>1, <2>2, ModeOfIsFanMode, SameFanModes DEF Abstract!Init
<1>2. IInv /\ IInv' /\ [Next]_vars => [Abstract!Next]_(Abstract!vars)
  <2> SUFFICES ASSUME IInv, IInv', [Next]_vars
               PROVE  Abstract!Next \/ UNCHANGED Abstract!vars
    OBVIOUS
  <2>1. CASE Begin
    <3>1. /\ phase \notin InProgress /\ phase # "pending" /\ phase' = "mutate"
          /\ setting' \in FanMode /\ before' = FanModeOf(mode)
      BY <2>1 DEF Begin, IInv, TypeOK, InProgress
    <3>2. Outcome # "pending" /\ Outcome' = "pending"
      BY <3>1 DEF Outcome, InProgress
    <3>3. Fans' = Fans
      BY <3>1 DEF Fans, InProgress
    <3> QED
      BY <3>1, <3>2, <3>3, SameFanModes DEF Abstract!Next, Abstract!Call
  <2>2. CASE Refuse
    <3>1. /\ phase = "mutate" /\ phase' = "refused" /\ setting' = setting
          /\ before = FanModeOf(mode) /\ mode' = mode
      BY <2>2 DEF Refuse, call, machine, IInv, NothingWritten
    <3>2. Outcome = "pending" /\ Outcome' = "refused"
      BY <3>1 DEF Outcome, InProgress
    <3>3. Fans' = Fans
      BY <3>1 DEF Fans, InProgress, FanModeOf
    <3> QED
      BY <3>1, <3>2, <3>3 DEF Abstract!Next, Abstract!Refuse
  <2>3. CASE Killed
    <3>1. phase \in InProgress /\ phase' = "killed" /\ setting' = setting
      BY <2>3 DEF Killed, call
    <3>2. Outcome = "pending" /\ Outcome' = "killed"
      BY <3>1 DEF Outcome, InProgress
    <3>3. Fans' \in FanMode
      BY <3>1 DEF Fans, InProgress, FanModeOf, FanMode
    <3> QED
      BY <3>1, <3>2, <3>3, SameFanModes DEF Abstract!Next, Abstract!Kill
  <2>4. CASE \E ok \in BOOLEAN : Mutate(ok) \/ Recover(ok)
    BY <2>4, ProgressIsStutter, EndIsReturn DEF Abstract!Next
  <2>5. CASE UNCHANGED vars
    BY <2>5 DEF vars, call, machine, Abstract!vars, Outcome, Fans
  <2> QED
    BY <2>1, <2>2, <2>3, <2>4, <2>5 DEF Next
<1> QED
  BY <1>1, <1>2, InductiveInvariant, PTL DEF Spec, ImplementsFanApply, Abstract!Spec

=============================================================================
