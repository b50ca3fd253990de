---------------------------- MODULE EnekLighting ----------------------------
(* The ENEK5130 lighting controller and the cache of the last applied looks.   *)
(* LIGHTING APPLY writes both under the mutation lock. The --resume helper     *)
(* restores the controller from the cache under that lock, the first command   *)
(* of a daemon restores it without, and CAPS asks the controller without. To   *)
(* ask selects a target first; an answer is about whatever is selected.        *)
EXTENDS Naturals

CONSTANTS
  Targets,     \* the keyboard and the cover logo
  Zones,       \* zone_count of each target
  Colours,
  Dark,        \* the colour of a zone that is off
  None,        \* no look
  SleepLimit,  \* bound: suspends
  FaultLimit   \* bound: failing calls and deaths of a process

Looks(t) == [1..Zones[t] -> Colours]

ASSUME LightingAssumption ==
  /\ Zones \in [Targets -> 1..16]
  /\ Dark \in Colours
  /\ \A t \in Targets : None \notin Looks(t)
  /\ SleepLimit \in Nat /\ FaultLimit \in Nat

Actors == {"daemon", "resume"}

VARIABLES
  selected,  \* the target the controller answers for
  lit,       \* what each zone shows
  cache,     \* ENEK_LIGHTING_CACHE
  damaged,   \* the file does not parse
  up,        \* the service runs
  active,    \* maintenance.active
  hook,      \* a reload of the service is queued
  lock,      \* holder of the mutation lock, or "free"
  task,      \* what an actor is at
  step,      \* and where
  discovering, \* discover_all, or apply
  request,   \* the looks it is to apply
  todo,      \* targets still to be queried, or to be written
  found,     \* targets that have answered
  target, zone,
  spoiled,   \* history: targets for which a call of this task failed
  accepted,  \* history: the last look of a successful APPLY
  unsaved,   \* history: its targets whose look did not reach the file
  cut,       \* history: a save was cut short
  sleeps, faults

controller == <<selected, lit>>
file == <<cache, damaged, accepted, unsaved, cut>>
service == <<up, active, hook, lock>>
job == <<task, step, discovering, request, todo, found, target, zone, spoiled>>
vars == <<controller, file, service, job, sleeps, faults>>

Nothing == [t \in Targets |-> None]
Unlit == [t \in Targets |-> [z \in 1..Zones[t] |-> Dark]]

Init ==
  /\ selected \in Targets
  /\ lit = Unlit
  /\ cache = Nothing /\ damaged = FALSE
  /\ up = TRUE /\ active = FALSE /\ hook = FALSE /\ lock = "free"
  /\ task = [a \in Actors |-> "none"]
  /\ step = [a \in Actors |-> "idle"]
  /\ discovering = [a \in Actors |-> FALSE]
  /\ request = [a \in Actors |-> Nothing]
  /\ todo = [a \in Actors |-> {}]
  /\ found = [a \in Actors |-> {}]
  /\ target = [a \in Actors |-> None]
  /\ zone = [a \in Actors |-> 1]
  /\ spoiled = [a \in Actors |-> {}]
  /\ accepted = Nothing /\ unsaved = {} /\ cut = FALSE
  /\ sleeps = 0 /\ faults = 0

Faultless(ok) ==
  IF ok THEN UNCHANGED faults ELSE faults < FaultLimit /\ faults' = faults + 1

-----------------------------------------------------------------------------
(* A restore, a CAPS or an APPLY. The runtime mutex allows the daemon one at a *)
(* time, and systemd runs one --resume at a time.                              *)

Begin(a, t, s, requests) ==
  /\ task' = [task EXCEPT ![a] = t]
  /\ step' = [step EXCEPT ![a] = s]
  /\ request' = [request EXCEPT ![a] = requests]
  /\ discovering' = [discovering EXCEPT ![a] = TRUE]
  /\ todo' = [todo EXCEPT ![a] = Targets]
  /\ UNCHANGED <<found, target, zone, spoiled>>

\* RuntimeMaintenance::activate, before the daemon's first ordinary command.
Activate ==
  /\ up /\ ~active /\ step["daemon"] = "idle"
  /\ active' = TRUE
  /\ Begin("daemon", "restore", "load", Nothing)
  /\ UNCHANGED <<controller, file, up, hook, lock, sleeps, faults>>

Caps ==
  /\ up /\ active /\ step["daemon"] = "idle"
  /\ Begin("daemon", "caps", "select", Nothing)
  /\ UNCHANGED <<controller, file, service, sleeps, faults>>

\* LIGHTING POWER looks for its device too, and is refused by this controller.
Power ==
  /\ up /\ active /\ step["daemon"] = "idle" /\ lock = "free"
  /\ lock' = "daemon"
  /\ Begin("daemon", "power", "select", Nothing)
  /\ UNCHANGED <<controller, file, up, active, hook, sleeps, faults>>

BugApplyUnlocked == TRUE
LockFree == lock = "free"
Apply(t, look) ==
  /\ up /\ active /\ step["daemon"] = "idle" /\ LockFree
  /\ lock' = "daemon"
  /\ Begin("daemon", "apply", "select", [Nothing EXCEPT ![t] = look])
  /\ UNCHANGED <<controller, file, up, active, hook, sleeps, faults>>

\* The fans and NVIDIA come first. A reload that fails there, finds the lock busy
\* or the service stopped restores nothing.
Resume ==
  /\ hook /\ step["resume"] = "idle"
  /\ hook' = FALSE
  /\ \/ UNCHANGED <<job, lock>>
     \/ /\ up /\ lock = "free" /\ lock' = "resume"
        /\ Begin("resume", "restore", "load", Nothing)
  /\ UNCHANGED <<controller, file, up, active, sleeps, faults>>

Load(a) ==
  /\ step[a] = "load"
  /\ LET requests == IF damaged THEN Nothing ELSE cache
     IN /\ request' = [request EXCEPT ![a] = requests]
        /\ step' = [step EXCEPT ![a] = IF requests = Nothing THEN "done" ELSE "select"]
  /\ UNCHANGED <<controller, file, service, task, discovering, todo, found, target,
                 zone, spoiled, sleeps, faults>>

\* The target is done with, and what is next. Each request is for a target that was
\* found; a restore goes on to the next target whatever became of this one.
BugStopsAtFailure(a, t, fails) == IF fails THEN {} ELSE todo[a] \ {t}
Remaining(a, t, fails) == todo[a] \ {t}
Proceed(a, t, fails) ==
  LET answered == IF fails THEN found[a] ELSE found[a] \union {t}
      left == Remaining(a, t, fails)
      wanted == {u \in answered : request[a][u] # None}
      over == discovering[a] /\ left = {}
  IN /\ found' = [found EXCEPT ![a] = IF discovering[a] THEN answered ELSE @]
     /\ discovering' = [discovering EXCEPT ![a] = @ /\ ~over]
     /\ todo' = [todo EXCEPT ![a] = IF over THEN wanted ELSE left]
     /\ step' = [step EXCEPT ![a] = IF todo'[a] = {} THEN "done" ELSE "select"]
     /\ spoiled' = [spoiled EXCEPT ![a] = IF fails THEN @ \union {t} ELSE @]

\* Discovery cannot open the node or read its A1 list: no target is found.
Undiscovered(a) ==
  /\ step[a] = "select" /\ discovering[a] /\ todo[a] = Targets
  /\ Faultless(FALSE)
  /\ step' = [step EXCEPT ![a] = "done"]
  /\ discovering' = [discovering EXCEPT ![a] = FALSE]
  /\ todo' = [todo EXCEPT ![a] = {}]
  /\ spoiled' = [spoiled EXCEPT ![a] = Targets]
  /\ UNCHANGED <<controller, file, service, task, request, found, target, zone, sleeps>>

\* A2: discovery and apply alike select the target they ask about.
Select(a, t, ok) ==
  /\ step[a] = "select" /\ t \in todo[a]
  /\ Faultless(ok)
  /\ IF ok
       THEN /\ selected' = t
            /\ target' = [target EXCEPT ![a] = t]
            /\ step' = [step EXCEPT ![a] = "query"]
            /\ UNCHANGED <<discovering, todo, found, spoiled>>
       ELSE Proceed(a, t, TRUE) /\ UNCHANGED <<selected, target>>
  /\ UNCHANGED <<lit, file, service, task, request, zone, sleeps>>

\* A3. parse_target_capabilities refuses an answer about another target.
Query(a, ok) ==
  /\ step[a] = "query"
  /\ Faultless(ok)
  /\ LET fails == ~ok \/ selected # target[a]
     IN IF discovering[a] \/ fails
          THEN Proceed(a, target[a], fails) /\ UNCHANGED zone
          ELSE /\ step' = [step EXCEPT ![a] = "report"]
               /\ zone' = [zone EXCEPT ![a] = 1]
               /\ UNCHANGED <<discovering, todo, found, spoiled>>
  /\ UNCHANGED <<controller, file, service, task, request, target, sleeps>>

\* One report for a look of one colour, else one report per zone.
Uniform(look) == \A y, z \in DOMAIN look : look[y] = look[z]
Reported(look, shown, z) ==
  IF Uniform(look) THEN look ELSE [shown EXCEPT ![z] = look[z]]
LastReport(look, z) == Uniform(look) \/ z + 1 \notin DOMAIN look

\* A4. A report that fails may have been heard. An APPLY whose last report was
\* accepted goes on to the file.
Report(a, ok) ==
  LET t == target[a]
      look == request[a][t]
      accepts == ok /\ task[a] = "apply" /\ LastReport(look, zone[a])
  IN /\ step[a] = "report"
     /\ Faultless(ok)
     /\ \/ lit' = [lit EXCEPT ![t] = Reported(look, @, zone[a])]
        \/ ~ok /\ UNCHANGED lit
     /\ accepted' = IF accepts THEN [accepted EXCEPT ![t] = look] ELSE accepted
     /\ unsaved' = IF accepts THEN unsaved \union {t} ELSE unsaved
     /\ \/ /\ ok /\ ~LastReport(look, zone[a])
           /\ zone' = [zone EXCEPT ![a] = @ + 1]
           /\ UNCHANGED <<step, discovering, todo, found, spoiled>>
        \/ /\ accepts
           /\ step' = [step EXCEPT ![a] = "save"]
           /\ UNCHANGED <<zone, discovering, todo, found, spoiled>>
        \/ /\ ~accepts /\ (ok => LastReport(look, zone[a]))
           /\ Proceed(a, t, ~ok)
           /\ UNCHANGED zone
  /\ UNCHANGED <<selected, cache, damaged, cut, service, task, request, target, sleeps>>

\* save_cached_lighting_at reads the file, truncates it and writes it anew; that it
\* fails is a warning.
Truncate(a, ok) ==
  /\ step[a] = "save"
  /\ Faultless(ok)
  /\ LET truncates == ok /\ ~damaged
     IN /\ damaged' = (damaged \/ truncates)
        /\ step' = [step EXCEPT ![a] = IF truncates THEN "write" ELSE "done"]
  /\ UNCHANGED <<controller, cache, accepted, unsaved, cut, service, task, discovering,
                 request, todo, found, target, zone, spoiled, sleeps>>

BugForgetsOthers(t, look) == [Nothing EXCEPT ![t] = look]
\* retain and push: the other targets keep their looks.
Merged(t, look) == [cache EXCEPT ![t] = look]

Write(a, ok) ==
  /\ step[a] = "write"
  /\ Faultless(ok)
  /\ damaged' = ~ok
  /\ cut' = (cut \/ ~ok)
  /\ cache' = IF ok THEN Merged(target[a], request[a][target[a]]) ELSE cache
  /\ unsaved' = IF ok THEN unsaved \ {target[a]} ELSE unsaved
  /\ step' = [step EXCEPT ![a] = "done"]
  /\ UNCHANGED <<controller, accepted, service, task, discovering, request, todo, found,
                 target, zone, spoiled, sleeps>>

Released(a) == IF lock = a THEN "free" ELSE lock

\* The command or the process ends, and with it the guard and all it held.
Idle(a) ==
  /\ lock' = Released(a)
  /\ task' = [task EXCEPT ![a] = "none"]
  /\ step' = [step EXCEPT ![a] = "idle"]
  /\ discovering' = [discovering EXCEPT ![a] = FALSE]
  /\ request' = [request EXCEPT ![a] = Nothing]
  /\ todo' = [todo EXCEPT ![a] = {}]
  /\ found' = [found EXCEPT ![a] = {}]
  /\ target' = [target EXCEPT ![a] = None]
  /\ zone' = [zone EXCEPT ![a] = 1]
  /\ spoiled' = [spoiled EXCEPT ![a] = {}]

End(a) ==
  /\ step[a] = "done"
  /\ Idle(a)
  /\ UNCHANGED <<controller, file, up, active, hook, sleeps, faults>>

-----------------------------------------------------------------------------
(* The rest of the machine.                                                   *)

Dies(a) ==
  /\ faults < FaultLimit /\ faults' = faults + 1
  /\ Idle(a)
  /\ cut' = (cut \/ step[a] = "write")
  /\ UNCHANGED <<controller, cache, damaged, accepted, unsaved, hook, sleeps>>

DaemonDies ==
  /\ up /\ up' = FALSE /\ active' = FALSE
  /\ Dies("daemon")

ResumeDies ==
  /\ step["resume"] # "idle"
  /\ Dies("resume")
  /\ UNCHANGED <<up, active>>

DaemonStarts ==
  /\ ~up /\ up' = TRUE
  /\ UNCHANGED <<controller, file, active, hook, lock, job, sleeps, faults>>

\* A suspend, which the controller may or may not survive with its looks. It
\* spoils whatever is under way.
Sleep ==
  /\ sleeps < SleepLimit /\ sleeps' = sleeps + 1
  /\ selected' \in Targets /\ lit' \in {lit, Unlit}
  /\ hook' = (hook \/ up)
  /\ spoiled' = [a \in Actors |-> IF step[a] = "idle" THEN {} ELSE Targets]
  /\ UNCHANGED <<file, up, active, lock, task, step, discovering, request, todo, found,
                 target, zone, faults>>

-----------------------------------------------------------------------------

Next ==
  \/ Activate \/ Caps \/ Power \/ Resume
  \/ \E t \in Targets : \E look \in Looks(t) : Apply(t, look)
  \/ \E a \in Actors :
       \/ Load(a) \/ Undiscovered(a) \/ End(a)
       \/ \E ok \in BOOLEAN :
            \/ \E t \in Targets : Select(a, t, ok)
            \/ Query(a, ok) \/ Report(a, ok) \/ Truncate(a, ok) \/ Write(a, ok)
  \/ DaemonDies \/ DaemonStarts \/ ResumeDies
  \/ Sleep

Spec == Init /\ [][Next]_vars

-----------------------------------------------------------------------------

Entry(t) == Looks(t) \union {None}
Entries == {c \in [Targets -> UNION {Entry(t) : t \in Targets}] :
              \A t \in Targets : c[t] \in Entry(t)}

TypeOK ==
  /\ selected \in Targets
  /\ lit \in Entries /\ \A t \in Targets : lit[t] # None
  /\ cache \in Entries /\ accepted \in Entries
  /\ damaged \in BOOLEAN /\ cut \in BOOLEAN /\ unsaved \subseteq Targets
  /\ up \in BOOLEAN /\ active \in BOOLEAN /\ hook \in BOOLEAN
  /\ lock \in Actors \union {"free"}
  /\ task \in [Actors -> {"none", "restore", "caps", "power", "apply"}]
  /\ step \in [Actors -> {"idle", "load", "select", "query", "report", "save",
                          "write", "done"}]
  /\ discovering \in [Actors -> BOOLEAN]
  /\ request \in [Actors -> Entries]
  /\ todo \in [Actors -> SUBSET Targets] /\ found \in [Actors -> SUBSET Targets]
  /\ target \in [Actors -> Targets \union {None}]
  /\ zone \in [Actors -> 1..16]
  /\ lock = "daemon" <=> task["daemon"] \in {"power", "apply"}
  /\ lock = "resume" <=> task["resume"] # "none"
  /\ spoiled \in [Actors -> SUBSET Targets]
  /\ sleeps \in 0..SleepLimit /\ faults \in 0..FaultLimit

\* Two processes that write the same target at the same time write the same look,
\* although a restore of the daemon holds no lock: no look is mixed with another.
NoMixedLooks ==
  \A a, b \in Actors :
    step[a] = "report" /\ step[b] = "report" /\ target[a] = target[b] =>
      request[a][target[a]] = request[b][target[b]]

\* No load meets a half-written file, unless a save was cut short before.
LoadsSeeWholeFiles ==
  \A a \in Actors : step[a] = "load" => ~damaged \/ cut

\* The file names the last look the controller accepted, of every target.
CacheIsLastAccepted ==
  ~damaged => \A t \in Targets \ unsaved : cache[t] = accepted[t]

\* A restore has restored what did not fail on its own: one target that fails, or
\* whose query another process disturbs, does not keep it from the other.
Restored(a, excused) ==
  step[a] = "done" /\ task[a] = "restore" =>
    \A t \in Targets \ excused : request[a][t] # None => lit[t] = request[a][t]
RestoresTheRest == \A a \in Actors : Restored(a, spoiled[a])

\* "... so fan safety, lighting and optional NVIDIA state are restored after resume."
ResumeRestores == Restored("resume", {})

-----------------------------------------------------------------------------
(* The inductive invariant.                                                   *)

StepsFitTasks ==
  /\ task["resume"] \in {"none", "restore"}
  /\ \A a \in Actors :
       /\ task[a] = "none" <=> step[a] = "idle"
       /\ step[a] = "load" => task[a] = "restore" /\ discovering[a] /\ todo[a] = Targets
       /\ step[a] \in {"save", "write"} => task[a] = "apply"
       /\ step[a] \in {"query", "report", "save", "write"} => target[a] \in todo[a]
       /\ step[a] \in {"report", "save", "write"} => ~discovering[a]
       /\ step[a] = "report" => zone[a] \in 1..Zones[target[a]]
       /\ ~discovering[a] => \A t \in todo[a] : request[a][t] # None
       /\ task[a] \in {"caps", "power"} => request[a] = Nothing

\* What a restore has read is what the file says until it ends.
RestoresCarryTheCache ==
  \A a \in Actors :
    task[a] = "restore" /\ request[a] # Nothing => request[a] = cache

OnlyWritersDamage == damaged => cut \/ step["daemon"] = "write"

\* A save that is under way has its look from the APPLY.
SavesFollowApply ==
  /\ step["daemon"] \in {"save", "write"} =>
       accepted[target["daemon"]] = request["daemon"][target["daemon"]]
  /\ ~damaged \/ step["daemon"] = "write" =>
       \A t \in Targets \ unsaved : cache[t] = accepted[t]

\* How far a restore has come with a target that nothing has spoiled.
Underway(a, t) ==
  /\ discovering[a] => t \in found[a] \union todo[a]
  /\ ~discovering[a] => t \in todo[a] \/ lit[t] = request[a][t]
  /\ step[a] = "report" /\ target[a] = t =>
       \A z \in 1..(zone[a] - 1) : lit[t][z] = request[a][t][z]
  /\ step[a] = "done" => lit[t] = request[a][t]
RestoresProgress ==
  \A a \in Actors : task[a] = "restore" =>
    \A t \in Targets \ spoiled[a] : request[a][t] # None => Underway(a, t)

IInv ==
  /\ TypeOK /\ StepsFitTasks /\ RestoresCarryTheCache /\ OnlyWritersDamage
  /\ SavesFollowApply /\ RestoresProgress

=============================================================================
