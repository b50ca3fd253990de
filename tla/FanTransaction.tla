--------------------------- MODULE FanTransaction ---------------------------
(* AcerHardware::apply_fan_setting, one sysfs access at a time: the writes and *)
(* readbacks of a mutation on both fan channels, the recovery to Auto when any *)
(* of them fails, and the recovery to Maximum when that fails too.             *)
EXTENDS Integers, Sequences, FanModes, PwmScale

CONSTANT Setpoints  \* percentages a client may ask for

ASSUME SetpointsAssumption == Setpoints \subseteq 20..100

VARIABLES
  backend,  \* "KernelPwm" or "AcerGamingWmi"
  healthy,  \* channels whose interface obeys and answers
  setting,  \* the requested mode
  request,  \* the requested percentage of each channel
  phase,    \* "idle", the part of the call in progress, or how it ended
  step,     \* next step of that part
  failed,   \* force_mode_unchecked has seen a failed write
  mode,     \* firmware: mode of each channel
  duty,     \* firmware: fixed setpoint of each channel, in percent
  before    \* history: the machine's mode at the call

machine == <<mode, duty>>
call == <<backend, healthy, setting, request, before>>
vars == <<call, phase, step, failed, machine>>

Channel == {1, 2}
InProgress == {"mutate", "auto", "maximum"}

FanModeOf(modes) ==
  IF \A c \in Channel : modes[c] = "Auto" THEN "Auto"
  ELSE IF \A c \in Channel : modes[c] = "Maximum" THEN "Maximum" ELSE "Manual"

Init ==
  /\ backend \in {"KernelPwm", "AcerGamingWmi"}
  /\ healthy \in SUBSET Channel
  /\ setting \in FanMode
  /\ request \in [Channel -> Setpoints]
  /\ phase = "idle" /\ step = 1 /\ failed = FALSE
  /\ mode \in [Channel -> FanMode]
  /\ duty \in [Channel -> Setpoints]
  /\ before = FanModeOf(mode)

-----------------------------------------------------------------------------
(* The steps of each part of the call.                                        *)

Write(c, m) == [op |-> "write", channel |-> c, mode |-> m]
Verify(c, m) == [op |-> "verify", channel |-> c, mode |-> m]
Speed(c) == [op |-> "speed", channel |-> c, mode |-> "Manual"]
VerifySpeed(c) == [op |-> "verifyspeed", channel |-> c, mode |-> "Manual"]

BugSkipsSecondReadback(s) ==
  IF s = "Manual"
    THEN << Write(1, "Maximum"), Write(2, "Maximum"),
            Speed(1), Speed(2), Write(1, "Manual"), Write(2, "Manual"),
            Speed(1), Speed(2), VerifySpeed(1), VerifySpeed(2),
            Verify(1, "Manual") >>
    ELSE << Write(1, s), Write(2, s), Verify(1, s) >>

\* set_manual or set_both_modes, then read_verified_fan_state.
Mutation(s) ==
  IF s = "Manual"
    THEN << Write(1, "Maximum"), Write(2, "Maximum"),
            Verify(1, "Maximum"), Verify(2, "Maximum"),
            Speed(1), Speed(2),
            Write(1, "Manual"), Write(2, "Manual"),
            Speed(1), Speed(2), VerifySpeed(1), VerifySpeed(2),
            Verify(1, "Manual"), Verify(2, "Manual"),
            Verify(1, "Manual"), Verify(2, "Manual") >>
    ELSE << Write(1, s), Write(2, s), Verify(1, s), Verify(2, s),
            Verify(1, s), Verify(2, s) >>

\* force_mode_unchecked.
Recovery(m) == << Write(1, m), Write(2, m), Verify(1, m), Verify(2, m) >>

-----------------------------------------------------------------------------
(* The firmware behind the sysfs files.                                       *)

\* The setpoint that arrives when a percentage is written, and the percentage
\* that is read back from it.
Arrives(percent) ==
  IF backend = "KernelPwm" THEN DriverStores(PercentToPwm(percent)) ELSE percent
ReadBack(stored) ==
  IF backend = "KernelPwm" THEN PwmToPercent(DriverShows(stored)) ELSE stored

\* A write to a channel that is not healthy may fail, with or without effect,
\* or succeed without effect.
WriteMode(s, ok) ==
  /\ s.op = "write"
  /\ s.channel \in healthy => ok
  /\ \/ mode' = [mode EXCEPT ![s.channel] = s.mode]
     \/ s.channel \notin healthy /\ mode' = mode
  /\ UNCHANGED duty

\* The firmware keeps a setpoint it receives outside Manual to itself, or not.
WriteSpeed(s, ok) ==
  /\ s.op = "speed"
  /\ s.channel \in healthy => ok
  /\ \/ duty' = [duty EXCEPT ![s.channel] = Arrives(request[s.channel])]
     \/ (s.channel \notin healthy \/ mode[s.channel] # "Manual") /\ duty' = duty
  /\ UNCHANGED mode

Matches(s) == IF s.op = "verify" THEN mode[s.channel] = s.mode
                                 ELSE ReadBack(duty[s.channel]) = request[s.channel]

\* A read that answers tells the truth.
Check(s, ok) ==
  /\ s.op \in {"verify", "verifyspeed"}
  /\ ok => Matches(s)
  /\ s.channel \in healthy => ok = Matches(s)
  /\ UNCHANGED machine

Perform(s, ok) == WriteMode(s, ok) \/ WriteSpeed(s, ok) \/ Check(s, ok)

-----------------------------------------------------------------------------

Begin ==
  /\ phase \notin InProgress
  /\ setting' \in FanMode
  /\ request' \in [Channel -> Setpoints]
  /\ before' = FanModeOf(mode)
  /\ phase' = "mutate" /\ step' = 1 /\ failed' = FALSE
  /\ UNCHANGED <<backend, healthy, machine>>

\* No interface, no Manual capability, or no temperature for the watchdog.
Refuse ==
  /\ phase = "mutate" /\ step = 1
  /\ phase' = "refused"
  /\ UNCHANGED <<call, step, failed, machine>>

\* The first error ends the mutation.
Mutate(ok) ==
  /\ phase = "mutate"
  /\ Perform(Mutation(setting)[step], ok)
  /\ IF ~ok THEN phase' = "auto" /\ step' = 1
     ELSE IF step = Len(Mutation(setting)) THEN phase' = "verified" /\ step' = 1
     ELSE phase' = phase /\ step' = step + 1
  /\ UNCHANGED <<call, failed>>

RecoveryMode == IF phase = "auto" THEN "Auto" ELSE "Maximum"

BugStopsAtFirstWrite(ok) == failed \/ ~ok

\* Both writes are attempted even when the first one fails; then an error, or
\* the first failed readback, ends this recovery.
GivesUp(ok) == (failed \/ ~ok) /\ step > 1

Recover(ok) ==
  /\ phase \in {"auto", "maximum"}
  /\ Perform(Recovery(RecoveryMode)[step], ok)
  /\ IF GivesUp(ok)
       THEN /\ phase' = IF phase = "auto" THEN "maximum" ELSE "unrecovered"
            /\ step' = 1 /\ failed' = FALSE
     ELSE IF step = 4
       THEN /\ phase' = IF phase = "auto" THEN "rolledback" ELSE "failsafe"
            /\ step' = 1 /\ failed' = FALSE
     ELSE phase' = phase /\ step' = step + 1 /\ failed' = (failed \/ ~ok)
  /\ UNCHANGED call

\* The process dies between two accesses.
Killed ==
  /\ phase \in InProgress
  /\ phase' = "killed" /\ step' = 1 /\ failed' = FALSE
  /\ UNCHANGED <<call, machine>>

Next ==
  \/ Begin \/ Refuse \/ Killed
  \/ \E ok \in BOOLEAN : Mutate(ok) \/ Recover(ok)

Spec == Init /\ [][Next]_vars

-----------------------------------------------------------------------------

TypeOK ==
  /\ backend \in {"KernelPwm", "AcerGamingWmi"}
  /\ healthy \in SUBSET Channel
  /\ setting \in FanMode
  /\ request \in [Channel -> Setpoints]
  /\ phase \in InProgress \cup {"idle", "refused", "verified", "rolledback",
                                "failsafe", "unrecovered", "killed"}
  /\ step \in 1..Len(Mutation(setting))
  /\ phase \in {"auto", "maximum"} => step <= 4
  /\ failed \in BOOLEAN
  /\ mode \in [Channel -> FanMode]
  /\ duty \in [Channel -> Percent]
  /\ before \in FanMode

\* The call as FanApply sees it: its intermediate states are not observable.
Outcome ==
  IF phase \in InProgress THEN "pending"
  ELSE IF phase = "idle" THEN "none"
  ELSE IF phase = "verified" THEN "ok"
  ELSE IF phase \in {"rolledback", "failsafe"} THEN "failed" ELSE phase
Fans == IF phase \in InProgress THEN before ELSE FanModeOf(mode)

Abstract == INSTANCE FanApply WITH outcome <- Outcome, fans <- Fans

\* Callers see one atomic step with the outcomes of FanModes (ApplyOutcomes):
\* what the call reports about both channels is what the firmware does.

ImplementsFanApply == Abstract!Spec

\* A setpoint that is reported as applied is the one the firmware holds, on
\* both channels, whatever the rounding between percent and PWM.
VerifiedSetpoints ==
  phase = "verified" /\ setting = "Manual" =>
    \A c \in Channel : mode[c] = "Manual" /\ duty[c] = request[c]

\* "Firmware-safe sequence": no channel enters Manual while firmware automation
\* still governs the other one.
NoHalfManual ==
  [][\A c \in Channel :
       mode[c] # "Manual" /\ mode'[c] = "Manual" => \A d \in Channel : mode[d] # "Auto"]_vars

\* One broken channel does not keep the other at a fixed setpoint: when all
\* recovery has failed, a channel that obeys is at Maximum.
HealthyChannelIsSafe ==
  phase = "unrecovered" => \A c \in healthy : mode[c] = "Maximum"

\* On a machine that obeys, no request is rolled back: the setpoints survive the
\* way through the driver and the firmware's cache.
HealthyMachineObeys == healthy = Channel => phase \notin {"auto", "maximum"}

-----------------------------------------------------------------------------
(* The inductive invariant: what each step of the call has already ensured.   *)

AllIn(m) == \A c \in Channel : mode[c] = m

\* Readbacks that later steps of the mutation do not disturb.
MutationSoFar ==
  phase = "mutate" /\ setting # "Manual" =>
    /\ step > 3 => mode[1] = setting
    /\ step > 4 => mode[2] = setting

ManualSoFar ==
  phase = "mutate" /\ setting = "Manual" =>
    /\ step = 4 => mode[1] = "Maximum"
    /\ step > 4 => \A c \in Channel : mode[c] \in {"Maximum", "Manual"}
    /\ step > 11 => duty[1] = request[1]
    /\ step > 12 => duty[2] = request[2]
    /\ step > 13 => mode[1] = "Manual"
    /\ step > 14 => mode[2] = "Manual"

RecoverySoFar ==
  phase \in {"auto", "maximum"} /\ step > 3 => mode[1] = RecoveryMode

\* What a channel that obeys has reached.
HealthyRecovery ==
  phase = "maximum" =>
    /\ 1 \in healthy /\ step > 1 => mode[1] = "Maximum"
    /\ 2 \in healthy /\ step > 2 => mode[2] = "Maximum"

HealthyMutation ==
  phase = "mutate" /\ healthy = Channel =>
    IF setting = "Manual"
      THEN /\ step \in 2..7 => mode[1] = "Maximum"
           /\ step \in 3..8 => mode[2] = "Maximum"
           /\ step > 7 => mode[1] = "Manual"
           /\ step > 8 => mode[2] = "Manual"
           /\ step > 9 => duty[1] = request[1]
           /\ step > 10 => duty[2] = request[2]
      ELSE /\ step > 1 => mode[1] = setting
           /\ step > 2 => mode[2] = setting

NothingWritten == phase = "mutate" /\ step = 1 => before = FanModeOf(mode)

\* What the call's result says of the machine.
ResultIsTruth ==
  /\ phase = "verified" => AllIn(setting)
  /\ phase = "rolledback" => AllIn("Auto")
  /\ phase = "failsafe" => AllIn("Maximum")

IInv ==
  /\ TypeOK
  /\ MutationSoFar /\ ManualSoFar /\ RecoverySoFar
  /\ HealthyRecovery /\ HealthyMutation
  /\ NothingWritten /\ ResultIsTruth
  /\ VerifiedSetpoints /\ HealthyChannelIsSafe /\ HealthyMachineObeys

=============================================================================
