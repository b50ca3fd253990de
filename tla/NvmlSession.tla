----------------------------- MODULE NvmlSession -----------------------------
(* When the application opens and closes NVML on a GPU that ought to sleep:    *)
(* TelemetryReader's lifecycle, once per telemetry sample, against the runtime *)
(* power management of the device and its other users.                         *)
EXTENDS Naturals

CONSTANTS
  IdleRelease,   \* NVIDIA_IDLE_RELEASE_SAMPLES
  ReopenHoldoff, \* NVIDIA_IDLE_REOPEN_HOLDOFF_SAMPLES
  RetryMax,      \* NVIDIA_RETRY_MAX_SAMPLES
  SlowRefresh,   \* NVIDIA_SLOW_REFRESH_SAMPLES
  UsageShown,    \* whether the kernel exposes runtime_usage
  IdleShown,     \* whether NVML tells utilisation and P-state
  Faults         \* whether calls to the driver and samples may fail

ASSUME NvmlAssumption ==
  /\ IdleRelease \in Nat \ {0} /\ ReopenHoldoff \in Nat /\ SlowRefresh \in Nat
  /\ RetryMax \in Nat \ {0}
  /\ UsageShown \subseteq BOOLEAN /\ IdleShown \subseteq BOOLEAN /\ Faults \in BOOLEAN

VARIABLES
  dgpu,      \* the device: power state, other users, what it shows
  reader,   \* TelemetryReader
  quiet     \* history: idle releases since anything happened at the device

nvmlVars == <<dgpu, reader, quiet>>

\* "moving" stands for suspending, resuming and unknown states.
Statuses == {"absent", "active", "moving", "suspended", "unsupported"}
PermitsLiveNvml(status) == status \in {"active", "unsupported"}

\* runtime_usage is zero: no other user, and an open session that is not counted.
Unused == dgpu.user = "none" /\ ~(reader.open /\ dgpu.counts)

------------------------------------------------------------------------------
(* SampleBackoff and NvidiaIdleLifecycle.                                   *)

RetryDefault == [wait |-> 0, delay |-> 1]

Failure(retry) ==
  [wait |-> retry.delay,
   delay |-> IF 2 * retry.delay > RetryMax THEN RetryMax ELSE 2 * retry.delay]

Armed == [idle |-> 0, holdoff |-> 0, armed |-> TRUE]

BugObserve(life, canSuspend, idle) ==
  IF ~canSuspend THEN [life |-> Armed, release |-> FALSE]
  ELSE IF ~idle THEN [life |-> [life EXCEPT !.idle = 0, !.armed = TRUE], release |-> FALSE]
  ELSE IF life.idle + 1 < IdleRelease
  THEN [life |-> [life EXCEPT !.idle = @ + 1], release |-> FALSE]
  ELSE [life |-> [idle |-> 0, holdoff |-> ReopenHoldoff, armed |-> TRUE],
        release |-> TRUE]

\* observe_live_sample: the new lifecycle, and whether to release the session.
Observe(life, canSuspend, idle) ==
  IF ~canSuspend THEN [life |-> Armed, release |-> FALSE]
  ELSE IF ~idle THEN [life |-> [life EXCEPT !.idle = 0, !.armed = TRUE], release |-> FALSE]
  ELSE IF ~life.armed THEN [life |-> life, release |-> FALSE]
  ELSE IF life.idle + 1 < IdleRelease
  THEN [life |-> [life EXCEPT !.idle = @ + 1], release |-> FALSE]
  ELSE [life |-> [idle |-> 0, holdoff |-> ReopenHoldoff, armed |-> FALSE],
        release |-> TRUE]

------------------------------------------------------------------------------
(* TelemetryReader.                                                         *)

Closed(r) == [r EXCEPT !.open = FALSE, !.slow = 0, !.retry = RetryDefault]

\* drop_nvidia_for_runtime_state
Dropped(r, known) ==
  [Closed(r) EXCEPT !.life = Armed, !.known = known, !.canSuspend = FALSE]

\* lose_nvidia_session
Lost(r) ==
  [r EXCEPT !.open = FALSE, !.slow = 0, !.life = Armed, !.retry = Failure(@)]

\* What a sample wants once the device may be opened: its session, its holdoff or
\* its back-off may stand against opening one.
Wanted(r) ==
  IF r.open THEN [r EXCEPT !.phase = "slow"]
  ELSE IF r.life.holdoff > 0
  THEN [r EXCEPT !.phase = "slow", !.life.holdoff = @ - 1]
  ELSE IF r.retry.wait > 1 THEN [r EXCEPT !.phase = "slow", !.retry.wait = @ - 1]
  ELSE [r EXCEPT !.phase = "open", !.retry.wait = 0]

\* refresh_nvidia_lifecycle up to the discovery. A device that was not known is a
\* new one: what is left of an earlier session is given up.
Look ==
  /\ reader.phase = "rest"
  /\ LET seen == [reader EXCEPT !.phase = "slow", !.known = TRUE,
                    !.canSuspend = dgpu.status = "active",
                    !.life = IF reader.known THEN @ ELSE Armed]
     IN reader' =
          IF ~PermitsLiveNvml(dgpu.status)
          THEN Dropped(seen, dgpu.status # "absent")
          ELSE IF dgpu.status = "active" /\ dgpu.shows /\ Unused
          THEN [Closed(seen) EXCEPT !.life = Armed]
          ELSE Wanted(IF reader.known THEN seen ELSE Closed(seen))
  /\ UNCHANGED <<dgpu, quiet>>

\* discover_nvidia: it wakes a device that has meanwhile gone to sleep.
Discover ==
  /\ reader.phase = "open"
  /\ \/ /\ dgpu.status # "absent"
        /\ reader' = [reader EXCEPT !.phase = "slow", !.open = TRUE,
                                    !.retry = RetryDefault]
        /\ dgpu' = [dgpu EXCEPT !.status = IF @ = "suspended" THEN "moving" ELSE @]
     \/ /\ Faults \/ dgpu.status = "absent"
        /\ reader' = [reader EXCEPT !.phase = "slow", !.slow = 0,
                                    !.retry = Failure(@)]
        /\ UNCHANGED dgpu
  /\ UNCHANGED quiet

\* refresh_nvidia_slow
RefreshSlow ==
  /\ reader.phase = "slow"
  /\ \/ /\ reader' = [reader EXCEPT !.phase = "live",
             !.slow = IF ~reader.open THEN 0
                      ELSE IF @ > 0 THEN @ - 1 ELSE SlowRefresh]
        /\ UNCHANGED quiet
     \/ /\ Faults /\ reader.open /\ reader.slow = 0
        /\ reader' = [Lost(reader) EXCEPT !.phase = "live"]
        /\ quiet' = 0
  /\ UNCHANGED dgpu

\* The live part of a sample: the session may turn out to be lost, the sample may
\* fail before it gets there, and an idle streak may end with a release.
Measure ==
  /\ reader.phase = "live"
  /\ \/ /\ ~reader.open \/ Faults
        /\ reader' = [reader EXCEPT !.phase = "rest"]
        /\ UNCHANGED quiet
     \/ /\ Faults /\ reader.open
        /\ reader' = [Lost(reader) EXCEPT !.phase = "rest"]
        /\ quiet' = 0
     \/ /\ reader.open
        /\ LET seen == Observe(reader.life, reader.canSuspend,
                               dgpu.exact /\ dgpu.user # "busy")
               kept == [reader EXCEPT !.phase = "rest", !.life = seen.life]
           IN /\ reader' = IF seen.release THEN Closed(kept) ELSE kept
              /\ quiet' = IF seen.release THEN quiet + 1 ELSE quiet
  /\ UNCHANGED dgpu

\* invalidate_nvidia_session, after a resume of the machine.
Invalidate ==
  /\ reader.phase = "rest"
  /\ reader' = [Lost(reader) EXCEPT !.retry = RetryDefault]
  /\ quiet' = 0
  /\ UNCHANGED dgpu

------------------------------------------------------------------------------
(* The device and its other users.                                          *)

Suspends ==
  /\ Unused
  /\ \/ dgpu.status = "active" /\ dgpu' = [dgpu EXCEPT !.status = "moving"]
     \/ dgpu.status = "moving" /\ dgpu' = [dgpu EXCEPT !.status = "suspended"]

Resumes ==
  \/ dgpu.status = "suspended" /\ ~Unused /\ dgpu' = [dgpu EXCEPT !.status = "moving"]
  \/ dgpu.status = "moving" /\ ~Unused /\ dgpu' = [dgpu EXCEPT !.status = "active"]

Replugged ==
  \/ dgpu.status = "active" /\ dgpu' = [dgpu EXCEPT !.status = "absent", !.user = "none"]
  \/ dgpu.status = "absent" /\ dgpu' = [dgpu EXCEPT !.status = "active"]

UserChanges ==
  /\ dgpu.status # "absent"
  /\ \E user \in {"none", "idle", "busy"} \ {dgpu.user} :
       dgpu' = [dgpu EXCEPT !.user = user]

PowerManagement == (Suspends \/ Resumes) /\ quiet' = 0 /\ UNCHANGED reader
Outside == (Replugged \/ UserChanges) /\ quiet' = 0 /\ UNCHANGED reader

------------------------------------------------------------------------------

NvmlInit ==
  /\ dgpu \in [status : {"active", "unsupported"}, user : {"none", "idle", "busy"},
              shows : UsageShown, counts : BOOLEAN, exact : IdleShown]
  /\ reader = [phase |-> "rest", open |-> FALSE, known |-> FALSE, canSuspend |-> FALSE,
               life |-> Armed, retry |-> RetryDefault, slow |-> 0]
  /\ quiet = 0

Sample == Look \/ Discover \/ RefreshSlow \/ Measure

NvmlNext == Sample \/ Invalidate \/ PowerManagement \/ Outside

\* The telemetry thread samples once a second; the kernel suspends a device that
\* has no user.
NvmlSpec == NvmlInit /\ [][NvmlNext]_nvmlVars
FairNvmlSpec ==
  /\ NvmlSpec
  /\ WF_nvmlVars(Sample)
  /\ WF_nvmlVars(PowerManagement)

------------------------------------------------------------------------------

NvmlTypeOK ==
  /\ dgpu \in [status : Statuses, user : {"none", "idle", "busy"}, shows : UsageShown,
              counts : BOOLEAN, exact : IdleShown]
  /\ reader \in
       [phase : {"rest", "open", "slow", "live"}, open : BOOLEAN, known : BOOLEAN,
        canSuspend : BOOLEAN, slow : 0..SlowRefresh,
        life : [idle : 0..IdleRelease - 1, holdoff : 0..ReopenHoldoff, armed : BOOLEAN],
        retry : [wait : 0..RetryMax, delay : 1..RetryMax]]
  /\ quiet \in Nat

\* While nothing happens at the GPU, NVML is closed at most once: the driver leaks
\* an eventfd with every cycle (sample).
NoFlapping == quiet <= 1

\* A GPU that has no other user any more goes to sleep.
UnusedGpuSleeps ==
  <>[](dgpu.user = "none" /\ dgpu.status \notin {"absent", "unsupported"})
    => []<>(dgpu.status = "suspended")

------------------------------------------------------------------------------
(* Why NVML does not flap: after a release that nothing has followed at the    *)
(* GPU, the next sample either has to stay away from it or waits for activity. *)

\* A device that the next sample does not open.
StaysClosed == ~PermitsLiveNvml(dgpu.status) \/ (dgpu.shows /\ dgpu.user = "none")

ReleasedOnce ==
  quiet > 0 =>
    /\ quiet = 1 /\ dgpu.exact /\ dgpu.user # "busy" /\ dgpu.status # "unsupported"
    /\ StaysClosed => ~reader.open /\ reader.phase # "open"
    /\ ~StaysClosed => reader.known /\ reader.canSuspend /\ ~reader.life.armed

\* Only a device that was known and active can be let go to sleep.
SuspendsWhenKnown ==
  reader.canSuspend => reader.known /\ dgpu.status # "unsupported"

NvmlIInv == NvmlTypeOK /\ ReleasedOnce /\ SuspendsWhenKnown

==============================================================================
