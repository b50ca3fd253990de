--------------------------- MODULE NvidiaReconcile ---------------------------
(* GPU clock offsets do not survive suspend. The --resume helper records the   *)
(* intent to reconcile them in a marker file and tries at once; the daemon     *)
(* retries as long as the marker exists. Both hold the mutation lock, and a    *)
(* suspend may freeze either between any two steps. On the reference model.    *)
EXTENDS Naturals

CONSTANTS
  SleepLimit,   \* bound: suspends
  ChangeLimit,  \* bound: changes of the driver and the GPU, deaths of a process
  FaultLimit    \* bound: failing calls

ASSUME ReconcileAssumption ==
  SleepLimit \in Nat /\ ChangeLimit \in Nat /\ FaultLimit \in Nat

VARIABLES
  up,        \* the service runs
  active,    \* maintenance.active: an ordinary command has been seen
  due,       \* next_nvidia_reconciliation has been reached
  session,   \* a polling client's hardware: "none", "fresh" or "stale"
  work,      \* the reconciliation or PROFILE in progress in the daemon
  job,       \* on whose behalf: "main", "client" or "profile"
  lock,      \* holder of the mutation lock: "free", "daemon" or "resume"
  marker,    \* NVIDIA_RESUME_PENDING exists
  hook,      \* a reload of the service is queued
  helper,    \* the --resume process
  gpu,       \* "awake" or "asleep" (RTD3)
  nvml,      \* "available" or "unavailable"
  custom,    \* the offsets are the user's own
  lost,      \* a suspend has dropped the offsets, and nobody has set them since
  forgotten, \* history: the latest loss could not be recorded
  sleeps, changes, faults

daemon == <<up, active, due, session, work, job>>
resume == <<hook, helper>>
machine == <<gpu, nvml, custom>>
loss == <<lost, forgotten>>
bounds == <<sleeps, changes, faults>>
vars == <<daemon, resume, lock, marker, machine, loss, bounds>>

Init ==
  /\ up = TRUE /\ active = FALSE /\ due = TRUE
  /\ session = "none" /\ work = "idle" /\ job = "main"
  /\ lock = "free" /\ marker = FALSE
  /\ hook = FALSE /\ helper = "idle"
  /\ gpu \in {"awake", "asleep"} /\ nvml \in {"available", "unavailable"}
  /\ custom \in BOOLEAN
  /\ lost = FALSE /\ forgotten = FALSE
  /\ sleeps = 0 /\ changes = 0 /\ faults = 0

\* What fails is counted; what the machine decides is not.
Faultless(ok) ==
  IF ok THEN UNCHANGED faults ELSE faults < FaultLimit /\ faults' = faults + 1
Changed == changes < ChangeLimit /\ changes' = changes + 1

\* The guard is dropped with its process, or at the end of the transaction.
Release(holder) == lock' = IF lock = holder THEN "free" ELSE lock

\* reconcile_reference_profile and PROFILE: a set_profile with NVML, of offsets
\* the program may overwrite.
Settles == nvml = "available" /\ ~custom
Repaired(done) ==
  /\ lost' = (lost /\ ~done)
  /\ forgotten' = (forgotten /\ ~done)

-----------------------------------------------------------------------------
(* The daemon. Its runtime mutex is held over a whole reconciliation or        *)
(* PROFILE, so that one of them is in progress at a time.                      *)

\* The first ordinary command activates the maintenance.
Connect ==
  /\ up /\ session = "none" /\ work = "idle"
  /\ session' = "fresh" /\ active' = TRUE
  /\ UNCHANGED <<up, due, work, job, resume, lock, marker, machine, loss, bounds>>

Disconnect ==
  /\ session # "none" /\ work = "idle"
  /\ session' = "none"
  /\ UNCHANGED <<up, active, due, work, job, resume, lock, marker, machine, loss, bounds>>

\* One second after a success, thirty seconds after a failure.
RetryTime ==
  /\ up /\ ~due /\ work = "idle"
  /\ due' = TRUE
  /\ UNCHANGED <<up, active, session, work, job, resume, lock, marker, machine, loss, bounds>>

\* record_reconciliation.
Recorded == due' = FALSE

\* The main loop discovers the hardware anew, a client's thread polls with its own.
Poll(by, ok) ==
  /\ up /\ active /\ marker /\ due /\ work = "idle"
  /\ by = "client" => session # "none" /\ ok
  /\ Faultless(ok)
  /\ IF ok /\ gpu = "awake"
       THEN work' = "locking" /\ job' = by /\ UNCHANGED due
       ELSE Recorded /\ UNCHANGED <<work, job>>
  /\ UNCHANGED <<up, active, session, resume, lock, marker, machine, loss, sleeps, changes>>

Profile ==
  /\ up /\ session # "none" /\ work = "idle"
  /\ work' = "locking" /\ job' = "profile"
  /\ UNCHANGED <<up, active, due, session, resume, lock, marker, machine, loss, bounds>>

\* Under the lock, the marker and the GPU are looked at again.
StillPending == marker /\ gpu = "awake"

\* A PROFILE refreshes the hardware of its session; refresh and transaction fail
\* together in Apply.
Lock ==
  /\ work = "locking" /\ lock = "free"
  /\ IF job = "profile" \/ StillPending
       THEN work' = "locked" /\ lock' = "daemon" /\ UNCHANGED due
       ELSE work' = "idle" /\ Recorded /\ UNCHANGED lock
  /\ session' = IF job = "profile" THEN "fresh" ELSE session
  /\ UNCHANGED <<up, active, job, resume, marker, machine, loss, bounds>>

\* MUTATION_LOCK_TIMEOUT.
LockBusy ==
  /\ work = "locking" /\ lock = "resume"
  /\ work' = "idle"
  /\ IF job = "profile" THEN UNCHANGED due ELSE Recorded
  /\ UNCHANGED <<up, active, session, job, resume, lock, marker, machine, loss, bounds>>

BugRemovesAnyway(done) == "applied"
\* The marker goes only after a success with NVML.
After(done) == IF done THEN "applied" ELSE "idle"

\* Opening NVML wakes the GPU.
Apply(ok) ==
  /\ work = "locked"
  /\ Faultless(ok)
  /\ LET done == ok /\ Settles /\ (job = "client" => session = "fresh")
     IN /\ Repaired(done)
        /\ work' = After(done)
        /\ IF work' = "idle" THEN Release("daemon") ELSE UNCHANGED lock
        /\ IF work' = "idle" /\ job # "profile" THEN Recorded ELSE UNCHANGED due
  /\ gpu' = "awake"
  /\ UNCHANGED <<up, active, session, job, resume, marker, nvml, custom, sleeps, changes>>

Remove(ok) ==
  /\ work = "applied"
  /\ Faultless(ok)
  /\ marker' = (marker /\ ~ok)
  /\ work' = "idle" /\ Release("daemon")
  /\ IF job = "profile" THEN UNCHANGED due ELSE Recorded
  /\ UNCHANGED <<up, active, session, job, resume, machine, loss, sleeps, changes>>

\* A stop or a crash, and the next activation of the socket.
DaemonStops ==
  /\ up /\ Changed
  /\ up' = FALSE /\ active' = FALSE /\ due' = TRUE /\ session' = "none"
  /\ work' = "idle" /\ job' = "main"
  /\ Release("daemon")
  /\ UNCHANGED <<resume, marker, machine, loss, sleeps, faults>>

DaemonStarts ==
  /\ ~up
  /\ up' = TRUE
  /\ UNCHANGED <<active, due, session, work, job, resume, lock, marker, machine, loss, bounds>>

-----------------------------------------------------------------------------
(* resume_after_sleep, run by systemctl reload.                               *)

\* systemd starts a queued reload when no other one is running; the reload of a
\* stopped service fails.
ResumeStarts ==
  /\ hook /\ helper = "idle"
  /\ hook' = FALSE
  /\ helper' = IF up THEN "waiting" ELSE "idle"
  /\ forgotten' = (forgotten \/ ~up)
  /\ UNCHANGED <<daemon, lock, marker, machine, lost, bounds>>

ResumeLocks ==
  /\ helper = "waiting" /\ lock = "free"
  /\ helper' = "locked" /\ lock' = "resume"
  /\ UNCHANGED <<daemon, hook, marker, machine, loss, bounds>>

ResumeBusy ==
  /\ helper = "waiting" /\ lock = "daemon"
  /\ helper' = "idle" /\ forgotten' = TRUE
  /\ UNCHANGED <<daemon, hook, lock, marker, machine, lost, bounds>>

BugRecordsAfterwards(ok) == UNCHANGED marker
\* "Record intent before trying NVML."
Records(ok) == marker' = (marker \/ ok)

\* Discovery and the fans come first, and any failure ends the helper.
ResumeRecords(ok) ==
  /\ helper = "locked"
  /\ Faultless(ok)
  /\ Records(ok)
  /\ helper' = IF ok THEN "recorded" ELSE "idle"
  /\ IF ok THEN UNCHANGED lock ELSE Release("resume")
  /\ forgotten' = (forgotten \/ ~ok)
  /\ UNCHANGED <<daemon, hook, machine, lost, sleeps, changes>>

\* A failure, or a GPU that sleeps, is left to the daemon.
ResumeApplies(ok) ==
  /\ helper = "recorded"
  /\ Faultless(ok)
  /\ LET done == ok /\ Settles /\ gpu = "awake"
     IN Repaired(done) /\ helper' = IF done THEN "applied" ELSE "tail"
  /\ UNCHANGED <<daemon, hook, lock, marker, machine, sleeps, changes>>

ResumeRemoves(ok) ==
  /\ helper = "applied"
  /\ Faultless(ok)
  /\ marker' = (marker /\ ~ok)
  /\ helper' = IF ok THEN "tail" ELSE "idle"
  /\ IF ok THEN UNCHANGED lock ELSE Release("resume")
  /\ UNCHANGED <<daemon, hook, machine, loss, sleeps, changes>>

\* The lighting, and the end of the process.
ResumeEnds ==
  /\ helper = "tail"
  /\ helper' = "idle" /\ Release("resume")
  /\ UNCHANGED <<daemon, hook, marker, machine, loss, bounds>>

ResumeDies ==
  /\ helper # "idle" /\ Changed
  /\ helper' = "idle" /\ Release("resume")
  /\ forgotten' = (forgotten \/ helper \in {"waiting", "locked"})
  /\ UNCHANGED <<daemon, hook, marker, machine, lost, sleeps, faults>>

-----------------------------------------------------------------------------
(* The machine.                                                               *)

\* A suspend and the wake after it, with every process frozen where it is. The
\* hook queues a reload if the service is active.
Sleep ==
  /\ sleeps < SleepLimit /\ sleeps' = sleeps + 1
  /\ lost' = TRUE /\ forgotten' = ~up
  /\ hook' = (hook \/ up)
  /\ gpu' \in {"awake", "asleep"} /\ nvml' \in {"available", "unavailable"}
  /\ custom' \in {custom, FALSE}
  /\ UNCHANGED <<daemon, helper, lock, marker, changes, faults>>

\* Runtime power management, and driver reloads around it.
GpuChanges ==
  /\ Changed
  /\ \/ gpu' \in {"awake", "asleep"} \ {gpu} /\ UNCHANGED nvml
     \/ nvml' \in {"available", "unavailable"} \ {nvml} /\ UNCHANGED gpu
  /\ UNCHANGED <<daemon, resume, lock, marker, custom, loss, sleeps, faults>>

DriverReload ==
  /\ session = "fresh" /\ Changed
  /\ session' = "stale"
  /\ UNCHANGED <<up, active, due, work, job, resume, lock, marker, machine, loss, sleeps, faults>>

-----------------------------------------------------------------------------

WorkStep ==
  \/ Lock \/ LockBusy
  \/ \E ok \in BOOLEAN : Apply(ok) \/ Remove(ok)

ResumeStep ==
  \/ ResumeStarts \/ ResumeLocks \/ ResumeBusy \/ ResumeEnds
  \/ \E ok \in BOOLEAN : ResumeRecords(ok) \/ ResumeApplies(ok) \/ ResumeRemoves(ok)

MainPoll == \E ok \in BOOLEAN : Poll("main", ok)
ClientPoll == \E ok \in BOOLEAN : Poll("client", ok)

Next ==
  \/ Connect \/ Disconnect \/ RetryTime \/ MainPoll \/ ClientPoll \/ Profile
  \/ WorkStep \/ DaemonStops \/ DaemonStarts
  \/ ResumeStep \/ ResumeDies
  \/ Sleep \/ GpuChanges \/ DriverReload

Spec == Init /\ [][Next]_vars

\* Work in progress ends, time passes, systemd starts what is queued. The main
\* loop polls every second whatever the clients do; that it finds the retry time
\* reached infinitely often is enough, since a client polls no faster.
Fairness ==
  /\ WF_vars(WorkStep) /\ WF_vars(RetryTime) /\ WF_vars(DaemonStarts)
  /\ WF_vars(ResumeStep)
  /\ SF_vars(MainPoll)

FairSpec == Spec /\ Fairness

-----------------------------------------------------------------------------

TypeOK ==
  /\ up \in BOOLEAN /\ active \in BOOLEAN /\ due \in BOOLEAN
  /\ session \in {"none", "fresh", "stale"}
  /\ work \in {"idle", "locking", "locked", "applied"}
  /\ job \in {"main", "client", "profile"}
  /\ lock \in {"free", "daemon", "resume"}
  /\ marker \in BOOLEAN
  /\ hook \in BOOLEAN
  /\ helper \in {"idle", "waiting", "locked", "recorded", "applied", "tail"}
  /\ lock = "daemon" <=> work \in {"locked", "applied"}
  /\ lock = "resume" <=> helper \notin {"idle", "waiting"}
  /\ gpu \in {"awake", "asleep"} /\ nvml \in {"available", "unavailable"}
  /\ custom \in BOOLEAN /\ lost \in BOOLEAN /\ forgotten \in BOOLEAN
  /\ sleeps \in 0..SleepLimit /\ changes \in 0..ChangeLimit /\ faults \in 0..FaultLimit

\* A loss that a helper could record is never dropped: somebody has it on file or
\* is about to put it there, whatever the other side removes meanwhile.
LossIsRemembered ==
  lost => marker \/ hook \/ helper \in {"waiting", "locked"} \/ forgotten

\* A deferred reconciliation opens NVML, and so wakes the GPU, only for a marker
\* that still exists.
DeferredWorkIsPending == work = "locked" /\ job # "profile" => marker

\* Where reconciliation is possible for good, what was lost is set again.
Favourable == up /\ active /\ gpu = "awake" /\ nvml = "available" /\ ~custom
LossIsRepaired == <>[]Favourable => (lost ~> ~lost \/ forgotten)

\* "... a transient failure must not silently lose the PHN16-72 offset reconciliation."
SleepIsRemembered ==
  lost /\ up => marker \/ hook \/ helper \in {"waiting", "locked"}

-----------------------------------------------------------------------------
(* The inductive invariant.                                                   *)

\* Whoever is about to remove the marker leaves behind somebody who knows of a
\* later loss.
RemovalIsSafe ==
  lost /\ (work = "applied" \/ helper = "applied") =>
    hook \/ helper = "waiting" \/ forgotten

IInv == TypeOK /\ LossIsRemembered /\ DeferredWorkIsPending /\ RemovalIsSafe

=============================================================================
