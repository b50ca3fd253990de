---------------------------- MODULE GuiTelemetry ----------------------------
(* The application's view of profile and GPU offsets: the telemetry thread with   *)
(* its slow cache of the offsets, the slot between the thread and the UI, the     *)
(* confirmation of a PROFILE command and its reconciliation with the samples, and *)
(* the refresh of the capabilities that follows a resume of the laptop.           *)
EXTENDS Naturals

CONSTANTS
  OffsetRefresh,    \* NVIDIA_SLOW_REFRESH_SAMPLES
  Grace,            \* PROFILE_SYNC_GRACE_SAMPLES
  Debounce,         \* PROFILE_MISMATCH_DEBOUNCE_SAMPLES
  UiStalls,         \* whether the UI may leave an update for longer than a second
  ReaderFails,      \* whether a sample or a discovery may fail
  Selections,       \* bound: profiles that the user selects
  Disturbances,     \* bound: changes by others, and PROFILE commands that fail
  Wakes             \* bound: resumes of the laptop

ASSUME ViewAssumption ==
  OffsetRefresh \in Nat /\ Grace \in Nat /\ Debounce \in Nat \ {0}
    /\ UiStalls \subseteq BOOLEAN /\ ReaderFails \in BOOLEAN
    /\ Selections \in Nat /\ Disturbances \in Nat /\ Wakes \in Nat

\* What the view lets pass covers the age of the cached offsets: 12 + 2 samples against
\* the 10 between two reads, the sample that reads and the first that agrees again.
ASSUME PatienceAssumption == OffsetRefresh + 2 <= Grace + Debounce

\* Quiet profiles share the offsets of Balanced.
ViewProfiles == {"balanced", "turbo"}
Expected(p) == IF p = "turbo" THEN "raised" ELSE "zero"

VARIABLES
  laptop,   \* profile and offsets in force, and how often others changed them
  inWorker,  \* the request in the control worker
  sampler,   \* the telemetry thread and its TelemetryReader
  slot,      \* TelemetrySlot: the latest update the UI has not taken
  view,      \* AppState, and whether its thread stalls
  turns      \* bounds: selections and resumes so far

viewVars == <<laptop, inWorker, sampler, slot, view, turns>>

NoJob == [kind |-> "none"]
NoUpdate == [kind |-> "none"]

\* Offsets that differ between the clock states have no single value to show.
Readback(offsets) == IF offsets = "half" THEN {"half", "unknown"} ELSE {offsets}

------------------------------------------------------------------------------
(* The control worker.                                                      *)

\* queue_control_request: one request at a time.
Queued(kind, profile) ==
  /\ ~view.busy
  /\ inWorker' = [kind |-> kind, profile |-> profile, end |-> "none"]

\* The two futures of the UI run between two events of the user.
UserSelects(p) ==
  /\ slot = NoUpdate /\ turns.selections < Selections
  /\ turns' = [turns EXCEPT !.selections = @ + 1]
  /\ Queued("profile", p)
  /\ view' = [view EXCEPT !.busy = TRUE]
  /\ UNCHANGED <<laptop, sampler, slot>>

\* The next step of a PROFILE command, in the order of set_profile.
Planes(m, p) ==
  LET offsets == IF m.offsets = "half" THEN Expected(p) ELSE "half"
      settled == m.offsets = Expected(p)
  IN IF p = "turbo" /\ m.profile # p THEN [m EXCEPT !.profile = p]
     ELSE IF ~settled THEN [m EXCEPT !.offsets = offsets]
     ELSE [m EXCEPT !.profile = p]

Done(m, p) == m.profile = p /\ m.offsets = Expected(p)

Works ==
  /\ inWorker # NoJob /\ inWorker.end = "none"
  /\ IF inWorker.kind = "profile" /\ ~Done(laptop, inWorker.profile)
     THEN laptop' = Planes(laptop, inWorker.profile) /\ UNCHANGED inWorker
     ELSE inWorker' = [inWorker EXCEPT !.end = "ok"] /\ UNCHANGED laptop
  /\ UNCHANGED <<sampler, slot, view, turns>>

\* A PROFILE fails on its way, and its rollback may fail too.
WorkFails ==
  /\ inWorker # NoJob /\ inWorker.end = "none" /\ inWorker.kind = "profile"
  /\ laptop.disturbed < Disturbances
  /\ inWorker' = [inWorker EXCEPT !.end = "failed"]
  /\ \E p \in ViewProfiles, o \in {"zero", "half", "raised"} :
       laptop' = [profile |-> p, offsets |-> o, disturbed |-> laptop.disturbed + 1]
  /\ UNCHANGED <<sampler, slot, view, turns>>

Settled == [target |-> "none", grace |-> 0, mismatch |-> 0]

\* apply_control_update: a confirmed profile is awaited in the samples, a failed one
\* is not.
Answers ==
  /\ inWorker # NoJob /\ inWorker.end # "none"
  /\ view' =
       [view EXCEPT !.busy = FALSE, !.warned = FALSE,
          !.profile = IF inWorker.kind = "profile" /\ inWorker.end = "ok"
                      THEN inWorker.profile ELSE @,
          !.sync = IF inWorker.kind # "profile" THEN @
                   ELSE IF inWorker.end = "failed" THEN Settled
                   ELSE [target |-> inWorker.profile, grace |-> Grace, mismatch |-> 0]]
  /\ inWorker' = NoJob
  /\ UNCHANGED <<laptop, sampler, slot, turns>>

------------------------------------------------------------------------------
(* The telemetry thread.                                                    *)

\* What a pass of the loop begins with: a resume closes NVML and asks for a refresh.
Awake(s) ==
  IF s.woken THEN [s EXCEPT !.woken = FALSE, !.refresh = TRUE, !.cache = "unknown",
                            !.slow = 0]
  ELSE s

\* A second has passed; an idle UI has taken the last update by then.
PassBegins == sampler.phase = "rest" /\ (slot = NoUpdate \/ view.stalls)

\* refresh_nvidia_slow, if NVML is open; a sleeping GPU keeps it closed.
RefreshCache ==
  /\ PassBegins
  /\ LET s == [Awake(sampler) EXCEPT !.phase = "sample"]
     IN \/ sampler' = [s EXCEPT !.cache = "unknown", !.slow = 0]
        \/ s.slow > 0 /\ sampler' = [s EXCEPT !.slow = @ - 1]
        \/ /\ s.slow = 0
           /\ \E read \in Readback(laptop.offsets) :
                sampler' = [s EXCEPT !.cache = read, !.slow = OffsetRefresh]
  /\ UNCHANGED <<laptop, inWorker, slot, view, turns>>

\* publish_latest replaces an update that was not taken.
Published(update) == slot' = update /\ UNCHANGED <<laptop, inWorker, view, turns>>

\* The profile is read last.
TakeSample ==
  /\ sampler.phase = "sample"
  /\ Published([kind |-> "sample", profile |-> laptop.profile,
                offsets |-> sampler.cache, refresh |-> sampler.refresh])
  /\ sampler' = [sampler EXCEPT !.phase = "rest", !.refresh = FALSE]

\* A failed sample or discovery keeps the wish for a refresh.
SampleFails ==
  /\ ReaderFails
  /\ \/ sampler.phase = "sample" /\ sampler' = [sampler EXCEPT !.phase = "rest"]
     \/ PassBegins /\ sampler' = Awake(sampler)
  /\ Published([kind |-> "error", refresh |-> FALSE])

------------------------------------------------------------------------------
(* The UI.                                                                  *)

\* How a sample's offsets fit its profile.
Differs(s) == s.offsets # "unknown" /\ s.offsets # Expected(s.profile)

\* The mismatch is shown, once it has lasted.
Debounced(v, s) ==
  IF v.sync.mismatch + 1 < Debounce THEN [v EXCEPT !.sync.mismatch = @ + 1]
  ELSE [v EXCEPT !.sync.mismatch = Debounce, !.warned = TRUE, !.profile = s.profile]

BugJudged(v, s) ==
  IF v.busy THEN v
  ELSE IF Differs(s) THEN Debounced([v EXCEPT !.sync.target = "none"], s)
  ELSE [v EXCEPT !.profile = s.profile, !.warned = FALSE, !.sync = Settled]

\* reconcile_profile_telemetry: a confirmed profile outlasts samples of older offsets
\* for its grace.
Judged(v, s) ==
  LET expired == [v EXCEPT !.sync = Settled]
      waits == v.sync.target # "none" /\ (v.sync.target # s.profile \/ Differs(s))
  IN IF v.busy THEN v
     ELSE IF waits /\ v.sync.grace > 0 THEN [v EXCEPT !.sync.grace = @ - 1]
     ELSE IF Differs(s) THEN Debounced(IF waits THEN expired ELSE v, s)
     ELSE [v EXCEPT !.profile = s.profile, !.warned = FALSE, !.sync = Settled]

\* A refresh that found the worker busy would be forgotten.
BugPending(s) == s.refresh

\* pending_capability_refresh, once an update is received.
Pending(s) == view.pending \/ s.refresh

Seen == IF slot.kind = "sample" THEN Judged(view, slot) ELSE view

\* The future that receives the updates: with a sample, a pending refresh is queued
\* if the worker is free.
ReceivesAndRefreshes ==
  /\ slot.kind = "sample" /\ Pending(slot)
  /\ Queued("refresh", "none")
  /\ view' = [Seen EXCEPT !.pending = FALSE, !.busy = TRUE]
  /\ slot' = NoUpdate
  /\ UNCHANGED <<laptop, sampler, turns>>

Receives ==
  /\ slot # NoUpdate
  /\ slot.kind = "sample" => ~Pending(slot) \/ view.busy
  /\ view' = [Seen EXCEPT !.pending = Pending(slot)]
  /\ slot' = NoUpdate
  /\ UNCHANGED <<laptop, inWorker, sampler, turns>>

------------------------------------------------------------------------------
(* The laptop.                                                              *)

\* The profile key, or another tool's offsets.
Disturbed ==
  /\ laptop.disturbed < Disturbances
  /\ \E p \in ViewProfiles, o \in {"zero", "half", "raised"} :
       laptop' = [profile |-> p, offsets |-> o, disturbed |-> laptop.disturbed + 1]
  /\ UNCHANGED <<inWorker, sampler, slot, view, turns>>

\* The event loop's Resumed event sets the flag of the telemetry thread.
Resumed ==
  /\ turns.wakes < Wakes
  /\ turns' = [turns EXCEPT !.wakes = @ + 1]
  /\ sampler' = [sampler EXCEPT !.woken = TRUE]
  /\ UNCHANGED <<laptop, inWorker, slot, view>>

------------------------------------------------------------------------------

ViewInit ==
  /\ laptop = [profile |-> "balanced", offsets |-> "zero", disturbed |-> 0]
  /\ inWorker = NoJob
  /\ sampler = [phase |-> "rest", cache |-> "unknown", slow |-> 0,
                woken |-> FALSE, refresh |-> FALSE]
  /\ slot = NoUpdate
  /\ view \in [profile : {"balanced"}, sync : {Settled}, warned : {FALSE},
               busy : {FALSE}, pending : {FALSE}, stalls : UiStalls]
  /\ turns = [selections |-> 0, wakes |-> 0]

ViewNext ==
  \/ \E p \in ViewProfiles : UserSelects(p)
  \/ Works \/ WorkFails \/ Answers
  \/ RefreshCache \/ TakeSample \/ SampleFails
  \/ ReceivesAndRefreshes \/ Receives
  \/ Disturbed \/ Resumed

ViewSpec == ViewInit /\ [][ViewNext]_viewVars

\* The two threads and the UI run on, and some samples succeed.
FairViewSpec ==
  /\ ViewSpec
  /\ WF_viewVars(Works) /\ WF_viewVars(Answers)
  /\ SF_viewVars(RefreshCache) /\ SF_viewVars(TakeSample)
  /\ WF_viewVars(Receives) /\ SF_viewVars(ReceivesAndRefreshes)

------------------------------------------------------------------------------

\* The application never claims that the GPU offsets do not fit the profile on a
\* laptop whose profile and offsets only its own successful commands have changed.
NoFalseMismatch == view.warned => laptop.disturbed > 0 \/ view.stalls

\* A resume of the laptop is followed by a refresh of the capabilities, although
\* the flag passes through two threads and the worker may be busy.
ResumeRefreshes ==
  sampler.woken ~> view.stalls \/ (inWorker.kind = "refresh" /\ ~sampler.woken)

------------------------------------------------------------------------------
(* Why there is no false mismatch: the inductive invariant counts the samples *)
(* that may still disagree and compares them with the patience of the view.   *)

Cached == {"unknown", "zero", "half", "raised"}
Samples ==
  [kind : {"sample"}, profile : ViewProfiles, offsets : Cached, refresh : BOOLEAN]
Jobs ==
  [kind : {"profile"}, profile : ViewProfiles, end : {"none", "ok", "failed"}] \cup
  [kind : {"refresh"}, profile : {"none"}, end : {"none", "ok", "failed"}]
AppViews ==
  [profile : ViewProfiles,
   sync : [target : ViewProfiles \cup {"none"}, grace : 0..Grace, mismatch : 0..Debounce],
   warned : BOOLEAN, busy : BOOLEAN, pending : BOOLEAN, stalls : BOOLEAN]

ViewTypeOK ==
  /\ laptop \in [profile : ViewProfiles, offsets : Cached \ {"unknown"}, disturbed : Nat]
  /\ inWorker \in Jobs \cup {NoJob}
  /\ sampler \in [phase : {"rest", "sample"}, cache : Cached, slow : 0..OffsetRefresh,
                  woken : BOOLEAN, refresh : BOOLEAN]
  /\ slot \in Samples \cup {NoUpdate, [kind |-> "error", refresh |-> FALSE]}
  /\ view \in AppViews
  /\ turns \in [selections : Nat, wakes : Nat]

\* Nobody else has changed anything, and the UI keeps up.
Calm == laptop.disturbed = 0 /\ ~view.stalls

\* A sample that does not fit what the view expects.
Misfits(s, sync) == Differs(s) \/ sync.target \notin {"none", s.profile}

Stale == sampler.cache \notin {"unknown", laptop.offsets}

\* The samples still to come that may not fit: the one that is being taken and those
\* before the cache is read again.
LaterMisfits ==
  IF Stale THEN sampler.slow + (IF sampler.phase = "sample" THEN 1 ELSE 0) ELSE 0
MisfitsAhead ==
  (IF slot.kind = "sample" /\ Misfits(slot, view.sync) THEN 1 ELSE 0) + LaterMisfits

\* The samples that the view lets pass before it warns.
Patience(sync) ==
  (IF sync.target = "none" THEN 0 ELSE sync.grace) + (Debounce - 1 - sync.mismatch)

\* One sample at a time is on its way, with the offsets that are cached.
OneSample ==
  /\ slot.kind = "sample" => sampler.phase = "rest" /\ slot.offsets = sampler.cache
  /\ sampler.phase = "sample" => slot = NoUpdate

PatienceSuffices ==
  IF inWorker.kind = "profile"
  THEN inWorker.end = "none" \/ (inWorker.end = "ok" /\ Done(laptop, inWorker.profile))
  ELSE /\ laptop.offsets = Expected(laptop.profile)
       /\ view.sync.target \in {"none", laptop.profile}
       /\ MisfitsAhead <= Patience(view.sync)

ViewIInv ==
  /\ ViewTypeOK
  /\ view.busy <=> inWorker # NoJob
  /\ Calm => ~view.warned /\ OneSample /\ PatienceSuffices

==============================================================================
