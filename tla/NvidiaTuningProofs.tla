------------------------- MODULE NvidiaTuningProofs -------------------------
(* Proofs about the custom offsets of the NVIDIA GPU: what a suspend leaves of *)
(* them (NvidiaReconcile), whatever the number of suspends, changes and faults, *)
(* and the calls that write them (OffsetTransaction), for any number of entries *)
(* and any offsets, which implement OffsetApply.                               *)
EXTENDS NvidiaReconcile, OffsetTransaction, TLAPS

-----------------------------------------------------------------------------
(* After a suspend: IInv is inductive.                                        *)

\* The invariant holds when the service starts with nothing pending.
LEMMA InitEstablishes == Init => IInv
  <1> SUFFICES ASSUME Init PROVE IInv
    OBVIOUS
  <1>1. 0 \in 0..SleepLimit /\ 0 \in 0..ChangeLimit /\ 0 \in 0..FaultLimit
    BY ReconcileAssumption
  <1>2. custom \in BOOLEAN
    BY DEF Init
  <1>3. TypeOK
    BY <1>1, <1>2 DEF Init, TypeOK
  <1>4. LossIsRemembered /\ DeferredWorkIsPending /\ RemovalIsSafe
    BY DEF Init, LossIsRemembered, DeferredWorkIsPending, RemovalIsSafe
  <1> QED BY <1>3, <1>4 DEF IInv

\* A stuttering step, a failed call and a counted change keep the counters bounded.
LEMMA CountersAreBounded ==
  ASSUME TypeOK
  PROVE  /\ \A ok \in BOOLEAN : Faultless(ok) => faults' \in 0..FaultLimit
         /\ Changed => changes' \in 0..ChangeLimit
  BY ReconcileAssumption DEF TypeOK, Faultless, Changed

\* The sessions and the clock of the daemon touch neither marker nor lock.
LEMMA SessionsPreserve ==
  ASSUME IInv, Connect \/ Disconnect \/ RetryTime \/ DaemonStarts
  PROVE  IInv'
  <1>1. TypeOK'
    <2>1. active' \in BOOLEAN /\ due' \in BOOLEAN /\ up' \in BOOLEAN
      BY DEF IInv, TypeOK, Connect, Disconnect, RetryTime, DaemonStarts
    <2>2. custom' \in BOOLEAN /\ lost' \in BOOLEAN /\ forgotten' \in BOOLEAN
          /\ marker' \in BOOLEAN /\ hook' \in BOOLEAN
      BY DEF IInv, TypeOK, Connect, Disconnect, RetryTime, DaemonStarts,
             resume, machine, loss
    <2> QED
      BY <2>1, <2>2 DEF IInv, TypeOK, Connect, Disconnect, RetryTime, DaemonStarts,
             resume, machine, bounds
  <1>2. (LossIsRemembered /\ DeferredWorkIsPending /\ RemovalIsSafe)'
    BY DEF IInv, TypeOK, LossIsRemembered, DeferredWorkIsPending, RemovalIsSafe,
           Connect, Disconnect, RetryTime, DaemonStarts, resume, machine, loss, bounds
  <1> QED BY <1>1, <1>2 DEF IInv

\* Asking for the lock changes neither marker nor lock.
LEMMA RequestsPreserve ==
  ASSUME IInv, MainPoll \/ ClientPoll \/ Profile
  PROVE  IInv'
  <1>1. CASE MainPoll \/ ClientPoll
    <2>1. PICK by \in {"main", "client"}, ok \in BOOLEAN : Poll(by, ok)
      BY <1>1 DEF MainPoll, ClientPoll
    <2>2. faults' \in 0..FaultLimit
      BY <2>1, CountersAreBounded DEF Poll, IInv
    <2>3. due' \in BOOLEAN
      BY <2>1 DEF Poll, Recorded, IInv, TypeOK
    <2>4. (job' \in {"main", "client", "profile"}) /\ work' \in {"idle", "locking"}
      BY <2>1 DEF Poll, IInv, TypeOK
    <2>5. TypeOK'
      <3>1. work = "idle" /\ lock # "daemon"
        BY <2>1 DEF Poll, IInv, TypeOK
      <3>2. UNCHANGED <<up, active, session, hook, helper, lock, marker, gpu, nvml,
                        custom, lost, forgotten, sleeps, changes>>
        BY <2>1 DEF Poll, resume, machine, loss
      <3> QED BY <2>2, <2>3, <2>4, <3>1, <3>2 DEF IInv, TypeOK
    <2>6. (LossIsRemembered /\ DeferredWorkIsPending /\ RemovalIsSafe)'
      BY <2>1 DEF Poll, IInv, TypeOK, LossIsRemembered, DeferredWorkIsPending,
                  RemovalIsSafe, resume, machine, loss
    <2> QED BY <2>5, <2>6 DEF IInv
  <1>2. CASE Profile
    BY <1>2 DEF Profile, IInv, TypeOK, LossIsRemembered, DeferredWorkIsPending,
                RemovalIsSafe, resume, machine, loss, bounds
  <1> QED BY <1>1, <1>2

\* The marker that is read under the lock stays until the lock is released.
LEMMA LockPreserves ==
  ASSUME IInv, Lock \/ LockBusy
  PROVE  IInv'
  <1>1. TypeOK'
    <2>1. /\ due' \in BOOLEAN /\ work' \in {"idle", "locked"}
          /\ lock' = "daemon" <=> work' = "locked"
          /\ lock' = "resume" <=> lock = "resume"
          /\ lock' \in {"free", "daemon", "resume"}
          /\ session' \in {"none", "fresh", "stale"}
      BY DEF IInv, TypeOK, Lock, LockBusy, Recorded
    <2>2. UNCHANGED <<up, active, job, hook, helper, marker, gpu, nvml, custom,
                      lost, forgotten, sleeps, changes, faults>>
      BY DEF Lock, LockBusy, resume, machine, loss, bounds
    <2> QED BY <2>1, <2>2 DEF IInv, TypeOK
  <1>2. (LossIsRemembered /\ DeferredWorkIsPending /\ RemovalIsSafe)'
    BY DEF IInv, TypeOK, LossIsRemembered, DeferredWorkIsPending, RemovalIsSafe,
           Lock, LockBusy, StillPending, resume, machine, loss, bounds
  <1> QED BY <1>1, <1>2 DEF IInv

\* Only a repair leads on to the removal of the marker, and it ends the loss.
LEMMA ApplyPreserves ==
  ASSUME IInv, NEW ok \in BOOLEAN, Apply(ok)
  PROVE  IInv'
  <1>1. PICK done \in BOOLEAN :
          /\ Repaired(done)
          /\ work' = IF done THEN "applied" ELSE "idle"
          /\ lock' = IF done THEN "daemon" ELSE "free"
          /\ due' \in BOOLEAN
    <2>1. lock = "daemon"
      BY DEF Apply, IInv, TypeOK
    <2> DEFINE done == ok /\ Settles /\ (job = "client" => session = "fresh")
    <2>2. done \in BOOLEAN
      OBVIOUS
    <2> QED
      BY <2>1, <2>2 DEF Apply, After, Release, Recorded, IInv, TypeOK
  <1>2. faults' \in 0..FaultLimit
    BY CountersAreBounded DEF Apply, IInv
  <1>3. /\ work = "locked" /\ gpu' = "awake"
        /\ UNCHANGED <<up, active, session, job, hook, helper, marker, nvml,
                       custom, sleeps, changes>>
    BY DEF Apply, resume
  <1>4. lost' \in BOOLEAN /\ forgotten' \in BOOLEAN
    BY <1>1 DEF Repaired, IInv, TypeOK
  <1>5. TypeOK'
    BY <1>1, <1>2, <1>3, <1>4 DEF IInv, TypeOK
  <1>6. (LossIsRemembered /\ DeferredWorkIsPending /\ RemovalIsSafe)'
    BY <1>1, <1>3 DEF Repaired, IInv, TypeOK, LossIsRemembered,
                      DeferredWorkIsPending, RemovalIsSafe
  <1> QED BY <1>5, <1>6 DEF IInv

\* A suspend after the repair has left a reload behind that records the new loss.
LEMMA RemovePreserves ==
  ASSUME IInv, NEW ok \in BOOLEAN, Remove(ok)
  PROVE  IInv'
  <1>1. faults' \in 0..FaultLimit
    BY CountersAreBounded DEF Remove, IInv
  <1>2. TypeOK'
    <2>1. lock = "daemon"
      BY DEF Remove, IInv, TypeOK
    <2>2. work' = "idle" /\ lock' = "free" /\ marker' \in BOOLEAN /\ due' \in BOOLEAN
      BY <2>1 DEF Remove, Release, Recorded, IInv, TypeOK
    <2>3. UNCHANGED <<up, active, session, job, hook, helper, gpu, nvml, custom, lost,
                      forgotten, sleeps, changes>>
      BY DEF Remove, resume, machine, loss
    <2> QED BY <1>1, <2>1, <2>2, <2>3 DEF IInv, TypeOK
  <1>3. (LossIsRemembered /\ DeferredWorkIsPending /\ RemovalIsSafe)'
    BY DEF Remove, IInv, TypeOK, LossIsRemembered, DeferredWorkIsPending,
           RemovalIsSafe, resume, machine, loss
  <1> QED BY <1>2, <1>3 DEF IInv

\* A daemon that dies leaves the marker where it is.
LEMMA StopPreserves ==
  ASSUME IInv, DaemonStops
  PROVE  IInv'
  <1>1. changes' \in 0..ChangeLimit
    BY CountersAreBounded DEF DaemonStops, IInv
  <1>2. TypeOK'
    <2>1. /\ up' \in BOOLEAN /\ active' \in BOOLEAN /\ due' \in BOOLEAN
          /\ session' = "none" /\ work' = "idle" /\ job' = "main"
          /\ lock' \in {"free", "resume"} /\ (lock' = "resume" <=> lock = "resume")
      BY DEF DaemonStops, Release, IInv, TypeOK
    <2>2. UNCHANGED <<marker, hook, helper, gpu, nvml, custom, lost, forgotten, sleeps, faults>>
      BY DEF DaemonStops, resume, machine, loss
    <2> QED BY <1>1, <2>1, <2>2 DEF IInv, TypeOK
  <1>3. (LossIsRemembered /\ DeferredWorkIsPending /\ RemovalIsSafe)'
    BY DEF DaemonStops, IInv, LossIsRemembered, DeferredWorkIsPending,
           RemovalIsSafe, resume, machine, loss
  <1> QED BY <1>2, <1>3 DEF IInv

\* A reload that cannot run, or loses the race for the lock, forgets the loss.
LEMMA HelperStartPreserves ==
  ASSUME IInv, ResumeStarts \/ ResumeLocks \/ ResumeBusy \/ ResumeEnds
  PROVE  IInv'
  <1>1. TypeOK'
    <2>1. /\ hook' \in BOOLEAN /\ forgotten' \in BOOLEAN /\ lost' \in BOOLEAN
          /\ marker' \in BOOLEAN
      BY DEF IInv, TypeOK, ResumeStarts, ResumeLocks, ResumeBusy, ResumeEnds, loss
    <2>2. /\ helper' \in {"idle", "waiting", "locked", "recorded", "applied", "tail"}
          /\ lock' \in {"free", "daemon", "resume"}
          /\ lock' = "daemon" <=> lock = "daemon"
          /\ lock' = "resume" <=> helper' \notin {"idle", "waiting"}
      BY DEF IInv, TypeOK, ResumeStarts, ResumeLocks, ResumeBusy, ResumeEnds, Release
    <2>3. UNCHANGED <<up, active, due, session, work, job, gpu, nvml, custom, sleeps,
                      changes, faults>>
      BY DEF ResumeStarts, ResumeLocks, ResumeBusy, ResumeEnds, daemon, machine, bounds
    <2> QED BY <2>1, <2>2, <2>3 DEF IInv, TypeOK
  <1>2. (LossIsRemembered /\ DeferredWorkIsPending /\ RemovalIsSafe)'
    BY DEF IInv, TypeOK, LossIsRemembered, DeferredWorkIsPending, RemovalIsSafe,
           ResumeStarts, ResumeLocks, ResumeBusy, ResumeEnds,
           daemon, machine, loss, bounds
  <1> QED BY <1>1, <1>2 DEF IInv

\* The helper records the loss or forgets it.
LEMMA HelperRecordPreserves ==
  ASSUME IInv, NEW ok \in BOOLEAN, ResumeRecords(ok)
  PROVE  IInv'
  <1>1. faults' \in 0..FaultLimit
    BY CountersAreBounded DEF ResumeRecords, IInv
  <1>2. marker' = (marker \/ ok) /\ forgotten' = (forgotten \/ ~ok)
    BY DEF ResumeRecords, Records
  <1>3. marker' \in BOOLEAN /\ forgotten' \in BOOLEAN
    BY <1>2 DEF IInv, TypeOK
  <1>4. TypeOK'
    BY <1>1, <1>3 DEF ResumeRecords, Release, IInv, TypeOK, daemon, machine
  <1>5. (LossIsRemembered /\ DeferredWorkIsPending /\ RemovalIsSafe)'
    BY <1>2 DEF ResumeRecords, IInv, TypeOK, LossIsRemembered,
                DeferredWorkIsPending, RemovalIsSafe, daemon, machine
  <1> QED BY <1>4, <1>5 DEF IInv

\* What the helper cannot repair stays on file.
LEMMA HelperApplyPreserves ==
  ASSUME IInv, NEW ok \in BOOLEAN, ResumeApplies(ok)
  PROVE  IInv'
  <1>1. PICK done \in BOOLEAN :
          Repaired(done) /\ helper' = IF done THEN "applied" ELSE "tail"
    BY DEF ResumeApplies
  <1>2. faults' \in 0..FaultLimit
    BY CountersAreBounded DEF ResumeApplies, IInv
  <1>3. /\ helper = "recorded"
        /\ UNCHANGED <<daemon, hook, lock, marker, machine, sleeps, changes>>
    BY DEF ResumeApplies
  <1>4. lost' \in BOOLEAN /\ forgotten' \in BOOLEAN
    BY <1>1 DEF Repaired, IInv, TypeOK
  <1>5. TypeOK'
    BY <1>1, <1>2, <1>3, <1>4 DEF IInv, TypeOK, daemon, machine
  <1>6. (LossIsRemembered /\ DeferredWorkIsPending /\ RemovalIsSafe)'
    BY <1>1, <1>3 DEF Repaired, IInv, TypeOK, LossIsRemembered,
                      DeferredWorkIsPending, RemovalIsSafe, daemon, machine
  <1> QED BY <1>5, <1>6 DEF IInv

\* The helper removes the marker under the lock, of no work of the daemon's.
LEMMA HelperRemovePreserves ==
  ASSUME IInv, NEW ok \in BOOLEAN, ResumeRemoves(ok)
  PROVE  IInv'
  <1>1. faults' \in 0..FaultLimit
    BY CountersAreBounded DEF ResumeRemoves, IInv
  <1>2. TypeOK'
    BY <1>1 DEF ResumeRemoves, Release, IInv, TypeOK, daemon, machine, loss
  <1>3. (LossIsRemembered /\ DeferredWorkIsPending /\ RemovalIsSafe)'
    BY DEF ResumeRemoves, IInv, TypeOK, LossIsRemembered, DeferredWorkIsPending,
           RemovalIsSafe, daemon, machine, loss
  <1> QED BY <1>2, <1>3 DEF IInv

\* A helper that dies before it has recorded the loss forgets it.
LEMMA HelperDeathPreserves ==
  ASSUME IInv, ResumeDies
  PROVE  IInv'
  <1>1. changes' \in 0..ChangeLimit
    BY CountersAreBounded DEF ResumeDies, IInv
  <1>2. forgotten' = (forgotten \/ helper \in {"waiting", "locked"})
    BY DEF ResumeDies
  <1>3. forgotten' \in BOOLEAN
    BY <1>2 DEF IInv, TypeOK
  <1>4. TypeOK'
    BY <1>1, <1>3 DEF ResumeDies, Release, IInv, TypeOK, daemon, machine
  <1>5. (LossIsRemembered /\ DeferredWorkIsPending /\ RemovalIsSafe)'
    BY <1>2 DEF ResumeDies, IInv, TypeOK, LossIsRemembered, DeferredWorkIsPending,
                RemovalIsSafe, daemon, machine
  <1> QED BY <1>4, <1>5 DEF IInv

\* A suspend queues a reload, or nobody runs who could have recorded it.
LEMMA MachinePreserves ==
  ASSUME IInv, Sleep \/ GpuChanges \/ DriverReload
  PROVE  IInv'
  <1>1. CASE Sleep
    <2>1. sleeps' \in 0..SleepLimit
      BY <1>1, ReconcileAssumption DEF Sleep, IInv, TypeOK
    <2>2. forgotten' = ~up /\ hook' = (hook \/ up) /\ custom' \in BOOLEAN
      BY <1>1 DEF Sleep, IInv, TypeOK
    <2>3. forgotten' \in BOOLEAN /\ hook' \in BOOLEAN
      BY <2>2 DEF IInv, TypeOK
    <2>4. TypeOK'
      BY <1>1, <2>1, <2>2, <2>3 DEF Sleep, IInv, TypeOK, daemon
    <2>5. (LossIsRemembered /\ DeferredWorkIsPending /\ RemovalIsSafe)'
      BY <1>1, <2>2 DEF Sleep, IInv, TypeOK, LossIsRemembered,
                        DeferredWorkIsPending, RemovalIsSafe, daemon
    <2> QED BY <2>4, <2>5 DEF IInv
  <1>2. CASE GpuChanges \/ DriverReload
    <2>1. changes' \in 0..ChangeLimit
      BY <1>2, CountersAreBounded DEF GpuChanges, DriverReload, IInv
    <2>2. TypeOK'
      BY <1>2, <2>1 DEF GpuChanges, DriverReload, IInv, TypeOK, daemon, resume,
                        machine, loss
    <2>3. (LossIsRemembered /\ DeferredWorkIsPending /\ RemovalIsSafe)'
      BY <1>2 DEF GpuChanges, DriverReload, IInv, LossIsRemembered,
                  DeferredWorkIsPending, RemovalIsSafe, daemon, resume, machine, loss
    <2> QED BY <2>2, <2>3 DEF IInv
  <1> QED BY <1>1, <1>2

\* Every step of the daemon, the helper and the machine keeps the invariant.
LEMMA NextPreserves == IInv /\ [Next]_vars => IInv'
  <1> SUFFICES ASSUME IInv, [Next]_vars PROVE IInv'
    OBVIOUS
  <1>1. CASE UNCHANGED vars
    BY <1>1 DEF vars, daemon, resume, machine, loss, bounds, IInv, TypeOK,
                LossIsRemembered, DeferredWorkIsPending, RemovalIsSafe
  <1>2. CASE Connect \/ Disconnect \/ RetryTime \/ DaemonStarts
    BY <1>2, SessionsPreserve
  <1>3. CASE MainPoll \/ ClientPoll \/ Profile
    BY <1>3, RequestsPreserve
  <1>4. CASE WorkStep
    BY <1>4, LockPreserves, ApplyPreserves, RemovePreserves DEF WorkStep
  <1>5. CASE DaemonStops
    BY <1>5, StopPreserves
  <1>6. CASE ResumeStep
    BY <1>6, HelperStartPreserves, HelperRecordPreserves, HelperApplyPreserves,
       HelperRemovePreserves DEF ResumeStep
  <1>7. CASE ResumeDies
    BY <1>7, HelperDeathPreserves
  <1>8. CASE Sleep \/ GpuChanges \/ DriverReload
    BY <1>8, MachinePreserves
  <1> QED
    BY <1>1, <1>2, <1>3, <1>4, <1>5, <1>6, <1>7, <1>8 DEF Next

\* The inductive invariant holds in every behaviour of the reconciliation.
THEOREM ReconcileInvariant == Spec => []IInv
  BY InitEstablishes, NextPreserves, PTL DEF Spec

\* Every variable keeps its type, and the lock is held by exactly who works under it.
THEOREM TypesAreKept == Spec => []TypeOK
  <1>1. IInv => TypeOK
    BY DEF IInv
  <1> QED BY <1>1, ReconcileInvariant, PTL

\* A loss that the --resume helper could record stays on file, however suspends,
\* repairs and removals of the marker by daemon and helper interleave.
THEOREM LossIsNeverDropped == Spec => []LossIsRemembered
  <1>1. IInv => LossIsRemembered
    BY DEF IInv
  <1> QED BY <1>1, ReconcileInvariant, PTL

\* The daemon opens NVML for a deferred reconciliation only while the marker
\* still asks for one: the check before the lock may be out of date, the one
\* under it is not.
THEOREM WakesAreWanted == Spec => []DeferredWorkIsPending
  <1>1. IInv => DeferredWorkIsPending
    BY DEF IInv
  <1> QED BY <1>1, ReconcileInvariant, PTL

-----------------------------------------------------------------------------
(* The inductive invariant, action by action.                                 *)

\* Before the first call nothing has been promised.
LEMMA InitEstablishesIInv == OffsetInit => OffsetIInv
  BY DEF OffsetInit, OffsetIInv, OffsetTypeOK, Untouched, OffsetsBetween, EscapedAtMostOne,
         HealthySoFar, Validated, Finished, HealthyDeviceObeys, RolledBackRestores, InProgress

\* A new call forgets everything about the previous one.
LEMMA BeginKeepsIInv ==
  ASSUME OffsetIInv, AskOffsets
  PROVE  OffsetIInv'
  BY DEF AskOffsets, OffsetIInv, OffsetTypeOK, Untouched, OffsetsBetween, EscapedAtMostOne,
         HealthySoFar, Validated, Finished, HealthyDeviceObeys, RolledBackRestores, InProgress

\* The snapshot is the device.
LEMMA SnapshotKeepsIInv ==
  ASSUME OffsetIInv, NEW ok \in BOOLEAN, Snapshot(ok)
  PROVE  OffsetIInv'
<1>1. /\ prior' = offset /\ offset' = offset /\ mutated' = {} /\ mutated = {}
      /\ place' \in {"write", "error"} /\ ~flawed /\ ~refused
      /\ UNCHANGED <<device, goal, flawed, refused>>
  BY DEF Snapshot, call, OffsetIInv, EscapedAtMostOne
<1>2. place' = "write" => Validates'
  BY <1>1 DEF Snapshot, Validates
<1> QED
  BY <1>1, <1>2
     DEF OffsetIInv, OffsetTypeOK, Untouched, OffsetsBetween, EscapedAtMostOne,
         HealthySoFar, Validated, Finished, HealthyDeviceObeys, RolledBackRestores, InProgress

\* The entry that is written is not on the list yet, and the one that is read
\* back has just been written.
LEMMA WriteKeepsIInv ==
  ASSUME OffsetIInv, NEW ok \in BOOLEAN, Write(ok)
  PROVE  OffsetIInv'
<1>1. PICK e \in Entries : First(e, Todo) /\ Sets(e, goal[e], ok) /\ mutated' = Lists(e, ok)
  BY DEF Write
<1>2. /\ place = "write" /\ UNCHANGED <<device, goal, prior, flawed>>
      /\ place' = (IF ok THEN "read" ELSE "undo") /\ refused' = ~ok /\ ~flawed /\ ~refused
      /\ e \notin mutated /\ OffsetTypeOK /\ Validates
  BY <1>1 DEF Write, call, OffsetIInv, EscapedAtMostOne, First, Todo, Validated, InProgress
<1>3. /\ offset' \in AllOffsets
      /\ \A d \in Entries : d # e => offset'[d] = offset[d]
      /\ offset'[e] \in {offset[e], goal[e]}
      /\ device = "healthy" => ok /\ offset'[e] = goal[e]
  BY <1>1, <1>2 DEF Sets, OffsetTypeOK, AllOffsets
<1>4. \A d \in Entries \ mutated : offset[d] = prior[d]
  BY <1>2 DEF OffsetIInv, Untouched
<1>5. \A d \in Entries \ mutated : d # e => offset'[d] = prior'[d]
  BY <1>2, <1>3, <1>4
<1>6. mutated' = IF ok THEN mutated \cup {e} ELSE mutated
  BY <1>1 DEF Lists
<1>7. OffsetTypeOK'
  BY <1>1, <1>2, <1>3, <1>6 DEF OffsetTypeOK, InProgress
<1>8. Untouched' /\ EscapedAtMostOne'
  BY <1>1, <1>2, <1>5, <1>6 DEF Untouched, EscapedAtMostOne
<1>9. OffsetsBetween'
  BY <1>2, <1>3, <1>4, <1>1 DEF OffsetIInv, OffsetsBetween, InProgress
<1>10. HealthySoFar'
  BY <1>1, <1>2, <1>3, <1>6 DEF OffsetIInv, HealthySoFar, OffsetTypeOK
<1>11. Validated'
  BY <1>2 DEF Validated, Validates
<1> QED
  BY <1>2, <1>3, <1>7, <1>8, <1>9, <1>10, <1>11
     DEF OffsetIInv, Finished, HealthyDeviceObeys, RolledBackRestores

\* Readback and final snapshot: an obeying device confirms what was written.
LEMMA ReadsKeepIInv ==
  ASSUME OffsetIInv, NEW ok \in BOOLEAN, ReadBack(ok) \/ Verify(ok)
  PROVE  OffsetIInv'
<1>1. /\ UNCHANGED <<device, goal, offset, prior, mutated, flawed, refused>>
      /\ place \in {"write", "read"} /\ ~flawed /\ ~refused /\ Validates
      /\ place' \in {"write", "ok", "undo"}
      /\ place' = "write" => place = "read"
  BY DEF ReadBack, Verify, Confirms, call, OffsetIInv, EscapedAtMostOne, Validated, InProgress
<1>2. device = "healthy" => place' # "undo"
  <2>1. CASE ReadBack(ok)
    BY <2>1 DEF ReadBack, Confirms, Latest, OffsetIInv, HealthySoFar
  <2>2. CASE Verify(ok)
    <3>1. \A e \in Entries : e \in mutated \/ prior[e] = goal[e]
      BY <2>2 DEF Verify, Todo
    <3>2. device = "healthy" => \A e \in Entries : offset[e] = goal[e]
      BY <2>2, <3>1 DEF Verify, OffsetIInv, HealthySoFar, Untouched
    <3> QED
      BY <2>2, <3>2 DEF Verify, Confirms
  <2> QED
    BY <2>1, <2>2
<1>3. place' = "ok" => offset = goal
  <2>1. place' = "ok" => \A e \in Entries : offset[e] = goal[e]
    BY DEF ReadBack, Verify, Confirms
  <2> QED
    BY <2>1 DEF OffsetIInv, OffsetTypeOK, AllOffsets
<1>4. OffsetTypeOK'
  BY <1>1 DEF OffsetIInv, OffsetTypeOK, InProgress
<1>5. Untouched' /\ EscapedAtMostOne' /\ OffsetsBetween' /\ HealthySoFar' /\ Validated'
  BY <1>1 DEF OffsetIInv, Untouched, EscapedAtMostOne, OffsetsBetween, HealthySoFar, Validated,
              Validates, InProgress
<1> QED
  BY <1>1, <1>2, <1>3, <1>4, <1>5
     DEF OffsetIInv, Finished, HealthyDeviceObeys, RolledBackRestores

\* One entry of the rollback list is restored, or the rollback is flawed.
LEMMA UndoKeepsIInv ==
  ASSUME OffsetIInv, NEW ok \in BOOLEAN, UndoWrite(ok) \/ UndoRead(ok)
  PROVE  OffsetIInv'
<1>1. /\ UNCHANGED <<device, goal, prior, refused>> /\ OffsetTypeOK /\ Validates
      /\ place \in {"undo", "undoread"} /\ place' \in {"undo", "undoread"}
      /\ flawed' = (flawed \/ ~ok) /\ device = "faulty"
  BY DEF UndoWrite, UndoRead, call, OffsetIInv, OffsetTypeOK, Validated, InProgress,
         HealthyDeviceObeys
<1>2. PICK e \in mutated :
        /\ offset' \in AllOffsets
        /\ \A d \in Entries : d # e => offset'[d] = offset[d]
        /\ offset'[e] \in {offset[e], prior[e]}
        /\ mutated' \in {mutated, mutated \ {e}}
        /\ ok /\ mutated' # mutated => offset'[e] = prior[e]
  BY <1>1 DEF UndoWrite, UndoRead, Latest, Sets, Confirms, OffsetTypeOK, AllOffsets
<1>3. OffsetTypeOK'
  BY <1>1, <1>2 DEF OffsetTypeOK, InProgress
<1>4. EscapedAtMostOne'
  <2>1. ASSUME ~flawed'
        PROVE  \E x \in Entries \cup {0} : \A d \in Entries \ mutated' :
                 offset'[d] = prior'[d] \/ (d = x /\ refused')
    <3>1. PICK x \in Entries \cup {0} : \A d \in Entries \ mutated :
            offset[d] = prior[d] \/ (d = x /\ refused)
      BY <1>1, <2>1 DEF OffsetIInv, EscapedAtMostOne
    <3>2. \A d \in Entries \ mutated' : offset'[d] = prior'[d] \/ (d = x /\ refused')
      <4>1. ok /\ UNCHANGED <<prior, refused>>
        BY <1>1, <2>1
      <4>2. \A d \in Entries \ mutated : offset'[d] = offset[d]
        BY <1>2
      <4>3. mutated' # mutated => mutated' = mutated \ {e} /\ offset'[e] = prior[e]
        BY <1>2, <4>1
      <4> QED
        BY <3>1, <4>1, <4>2, <4>3
    <3> QED
      BY <3>2
  <2> QED
    BY <1>1, <2>1 DEF EscapedAtMostOne
<1>5. OffsetsBetween'
  BY <1>1, <1>2 DEF OffsetIInv, OffsetsBetween, InProgress, OffsetTypeOK
<1> QED
  BY <1>1, <1>3, <1>4, <1>5
     DEF OffsetIInv, Untouched, HealthySoFar, Validated, Validates, Finished,
         HealthyDeviceObeys, RolledBackRestores

\* An empty list means that every entry is restored.
LEMMA EndsKeepIInv ==
  ASSUME OffsetIInv, Undone \/ Killed
  PROVE  OffsetIInv'
<1>1. CASE Undone
  <2>1. /\ UNCHANGED <<device, goal, offset, prior, mutated, flawed, refused>>
        /\ place = "undo" /\ mutated = {} /\ OffsetTypeOK /\ device = "faulty"
        /\ place' = IF flawed THEN "failed" ELSE "rolledback"
    BY <1>1 DEF Undone, call, OffsetIInv, OffsetTypeOK, HealthyDeviceObeys
  <2>2. place' = "rolledback" /\ ~refused => offset = prior
    <3>1. place' = "rolledback" /\ ~refused => \A e \in Entries : offset[e] = prior[e]
      BY <2>1 DEF OffsetIInv, EscapedAtMostOne
    <3> QED
      BY <2>1, <3>1 DEF OffsetTypeOK, AllOffsets
  <2>3. OffsetTypeOK'
    BY <2>1 DEF OffsetTypeOK
  <2>4. EscapedAtMostOne' /\ OffsetsBetween'
    BY <2>1 DEF OffsetIInv, EscapedAtMostOne, OffsetsBetween, InProgress
  <2> QED
    BY <2>1, <2>2, <2>3, <2>4
       DEF OffsetIInv, Untouched, HealthySoFar, Validated, Finished, InProgress,
           HealthyDeviceObeys, RolledBackRestores
<1>2. CASE Killed
  <2>1. /\ UNCHANGED <<device, goal, offset, flawed, refused>>
        /\ place \in InProgress /\ place' = "killed" /\ mutated' = {} /\ OffsetTypeOK
        /\ prior' = IF place = "snapshot" THEN offset ELSE prior
    BY <1>2 DEF Killed, call, OffsetIInv
  <2>2. OffsetTypeOK'
    BY <2>1 DEF OffsetTypeOK
  <2>3. OffsetsBetween'
    BY <2>1 DEF OffsetIInv, OffsetsBetween, OffsetTypeOK
  <2> QED
    BY <2>1, <2>2, <2>3
       DEF OffsetIInv, Untouched, EscapedAtMostOne, HealthySoFar, Validated, Finished, InProgress,
           HealthyDeviceObeys, RolledBackRestores
<1> QED
  BY <1>1, <1>2

\* The inductive invariant of the offset transaction.
THEOREM OffsetInvariant == OffsetSpec => []OffsetIInv
<1>1. OffsetIInv /\ [OffsetNext]_offsetVars => OffsetIInv'
  <2> SUFFICES ASSUME OffsetIInv, [OffsetNext]_offsetVars PROVE OffsetIInv'
    OBVIOUS
  <2>1. CASE AskOffsets \/ Undone \/ Killed
    BY <2>1, BeginKeepsIInv, EndsKeepIInv
  <2>2. ASSUME NEW ok \in BOOLEAN,
               \/ Snapshot(ok) \/ Write(ok) \/ ReadBack(ok) \/ Verify(ok)
               \/ UndoWrite(ok) \/ UndoRead(ok)
        PROVE  OffsetIInv'
    BY <2>2, SnapshotKeepsIInv, WriteKeepsIInv, ReadsKeepIInv, UndoKeepsIInv
  <2>3. CASE UNCHANGED offsetVars
    BY <2>3
       DEF offsetVars, call, OffsetIInv, OffsetTypeOK, Untouched, OffsetsBetween, EscapedAtMostOne,
           HealthySoFar, Validated, Validates, Finished, HealthyDeviceObeys,
           RolledBackRestores
  <2> QED
    BY <2>1, <2>2, <2>3 DEF OffsetNext
<1> QED
  BY <1>1, InitEstablishesIInv, PTL DEF OffsetSpec

\* A device that obeys is never rolled back (apply_offset_targets).
THEOREM HealthyDevicesObey == OffsetSpec => []HealthyDeviceObeys
<1>1. OffsetIInv => HealthyDeviceObeys
  BY DEF OffsetIInv
<1> QED
  BY <1>1, OffsetInvariant, PTL

\* TransactionRolledBack without a failed setter has restored every entry
\* (rollback_after_failure).
THEOREM RollbackRestores == OffsetSpec => []RolledBackRestores
<1>1. OffsetIInv => RolledBackRestores
  BY DEF OffsetIInv
<1> QED
  BY <1>1, OffsetInvariant, PTL

\* Nothing is written for a request with an offset out of range, and nothing is
\* undone for one either.
THEOREM OnlyValidatedRequestsWrite == OffsetSpec => NothingUnvalidated
<1>1. OffsetIInv /\ [OffsetNext]_offsetVars =>
        [offset' # offset => \A e \in Entries : goal[e] \in Accepted]_offsetVars
  BY DEF OffsetNext, AskOffsets, Snapshot, Write, ReadBack, Verify, UndoWrite, UndoRead,
         Undone, Killed, Confirms, OffsetIInv, Validated, Validates, InProgress, offsetVars
<1> QED
  BY <1>1, OffsetInvariant, PTL DEF OffsetSpec, NothingUnvalidated

-----------------------------------------------------------------------------
(* Refinement.                                                                *)


\* The two modules agree on what a setting is.
LEMMA SameSettings ==
  /\ Abstract!Settings = AllOffsets
  /\ \A s, t : Abstract!Between(s, t) =
                 {u \in AllOffsets : \A e \in Entries : u[e] \in {s[e], t[e]}}
  /\ \A s, t : Abstract!BetweenOne(s, t) = {s} \cup {[s EXCEPT ![e] = t[e]] : e \in Entries}
  BY DEF Abstract!Settings, AllOffsets, Abstract!Between, Abstract!BetweenOne

\* A flawless rollback leaves one of the settings BetweenOne admits.
LEMMA RolledBackIsBetweenOne ==
  ASSUME OffsetIInv, Undone, ~flawed
  PROVE  offset \in Abstract!BetweenOne(prior, goal)
<1>1. /\ place = "undo" /\ mutated = {} /\ OffsetTypeOK
      /\ \A e \in Entries : offset[e] \in {prior[e], goal[e]}
  BY DEF Undone, OffsetIInv, OffsetsBetween, InProgress
<1>2. PICK x \in Entries \cup {0} : \A e \in Entries : offset[e] = prior[e] \/ e = x
  BY <1>1 DEF OffsetIInv, EscapedAtMostOne
<1>3. CASE \A e \in Entries : offset[e] = prior[e]
  <2>1. offset = prior
    BY <1>1, <1>3 DEF OffsetTypeOK, AllOffsets
  <2> QED
    BY <2>1, SameSettings
<1>4. CASE \E e \in Entries : offset[e] # prior[e]
  <2>1. x \in Entries /\ offset[x] = goal[x]
    BY <1>1, <1>2, <1>4
  <2>2. offset = [prior EXCEPT ![x] = goal[x]]
    BY <1>1, <1>2, <2>1 DEF OffsetTypeOK, AllOffsets
  <2> QED
    BY <2>1, <2>2, SameSettings
<1> QED
  BY <1>3, <1>4

\* The end of a call is OffsetApply's Return.
LEMMA EndIsReturn ==
  ASSUME OffsetIInv, place \in InProgress, place' \in {"ok", "error", "rolledback", "failed"},
         goal' = goal, PriorAtCall' = PriorAtCall,
         \/ place' = "ok" /\ offset' = goal
         \/ place' = "error" /\ offset' = PriorAtCall
         \/ place' = "rolledback" /\ offset' \in Abstract!BetweenOne(PriorAtCall, goal)
         \/ place' = "failed" /\ offset' \in Abstract!Between(PriorAtCall, goal)
  PROVE  Abstract!Next
<1> DEFINE r == [end |-> place', offsets |-> offset']
<1>1. r \in Abstract!OffsetEnds(PriorAtCall, goal)
  <2>1. CASE place' = "ok" /\ offset' = goal
    BY <2>1 DEF Abstract!OffsetEnds
  <2>2. CASE place' = "error" /\ offset' = PriorAtCall
    BY <2>2 DEF Abstract!OffsetEnds
  <2>3. CASE place' = "rolledback" /\ offset' \in Abstract!BetweenOne(PriorAtCall, goal)
    BY <2>3 DEF Abstract!OffsetEnds
  <2>4. CASE place' = "failed" /\ offset' \in Abstract!Between(PriorAtCall, goal)
    BY <2>4 DEF Abstract!OffsetEnds
  <2> QED
    BY <2>1, <2>2, <2>3, <2>4
<1>2. place' \notin InProgress
  BY DEF InProgress
<1> QED
  BY <1>1, <1>2 DEF Abstract!Next, Abstract!Return

\* apply_offset_targets with all its steps is one atomic call of OffsetApply,
\* which is what the profile transaction composes.
THEOREM TransactionImplementsOffsetApply == OffsetSpec => ImplementsOffsetApply
<1>1. ASSUME OffsetInit PROVE Abstract!Init
  BY <1>1, SameSettings DEF OffsetInit, Abstract!Init, PriorAtCall, InProgress
<1>2. OffsetIInv /\ OffsetIInv' /\ [OffsetNext]_offsetVars => [Abstract!Next]_(Abstract!vars)
  <2> SUFFICES ASSUME OffsetIInv, OffsetIInv', [OffsetNext]_offsetVars
               PROVE  Abstract!Next \/ UNCHANGED Abstract!vars
    OBVIOUS
  <2>1. CASE AskOffsets
    <3>1. /\ place \notin InProgress /\ place # "pending" /\ place' = "snapshot"
          /\ offset' = offset /\ goal' \in AllOffsets /\ place # "snapshot"
      BY <2>1 DEF AskOffsets, OffsetIInv, OffsetTypeOK, InProgress
    <3>2. place' \in InProgress
      BY <3>1 DEF InProgress
    <3> QED
      BY <3>1, <3>2, SameSettings DEF Abstract!Next, Abstract!Call, PriorAtCall
  <2>2. ASSUME NEW ok \in BOOLEAN,
               \/ Snapshot(ok) \/ Write(ok) \/ ReadBack(ok) \/ Verify(ok)
               \/ UndoWrite(ok) \/ UndoRead(ok)
        PROVE  Abstract!Next \/ UNCHANGED Abstract!vars
    <3>1. /\ place \in InProgress /\ goal' = goal /\ PriorAtCall' = PriorAtCall
          /\ place' \in InProgress \cup {"ok", "error"}
          /\ place' = "error" => offset' = PriorAtCall
      BY <2>2 DEF Snapshot, Write, ReadBack, Verify, UndoWrite, UndoRead, call,
                  PriorAtCall, InProgress
    <3>2. CASE place' \in InProgress
      BY <3>1, <3>2 DEF Abstract!vars
    <3>3. CASE place' \in {"ok", "error"}
      BY <3>1, <3>3, EndIsReturn DEF OffsetIInv, Finished
    <3> QED
      BY <3>1, <3>2, <3>3
  <2>3. CASE Undone
    <3>1. /\ place = "undo" /\ place' = (IF flawed THEN "failed" ELSE "rolledback")
          /\ goal' = goal /\ PriorAtCall = prior /\ PriorAtCall' = prior /\ offset' = offset
      BY <2>3 DEF Undone, call, PriorAtCall
    <3>2. offset \in Abstract!Between(prior, goal)
      BY <3>1, SameSettings DEF OffsetIInv, OffsetTypeOK, OffsetsBetween, InProgress
    <3>3. ~flawed => offset \in Abstract!BetweenOne(prior, goal)
      BY <2>3, RolledBackIsBetweenOne
    <3> QED
      BY <3>1, <3>2, <3>3, EndIsReturn DEF InProgress
  <2>4. CASE Killed
    <3>1. /\ place \in InProgress /\ place' = "killed" /\ place' \notin InProgress
          /\ goal' = goal /\ offset' = offset /\ PriorAtCall' = PriorAtCall
      BY <2>4 DEF Killed, call, PriorAtCall, InProgress
    <3>2. offset \in Abstract!Between(PriorAtCall, goal)
      BY <3>1, SameSettings DEF OffsetIInv, OffsetTypeOK, OffsetsBetween, PriorAtCall, Untouched
    <3> QED
      BY <3>1, <3>2 DEF Abstract!Next, Abstract!Kill
  <2>5. CASE UNCHANGED offsetVars
    BY <2>5 DEF offsetVars, call, Abstract!vars, PriorAtCall
  <2> QED
    BY <2>1, <2>2, <2>3, <2>4, <2>5 DEF OffsetNext
<1> QED
  BY <1>1, <1>2, OffsetInvariant, PTL DEF OffsetSpec, ImplementsOffsetApply, Abstract!Spec

=============================================================================
