---------------------------- MODULE LightingProofs ----------------------------
(* The lighting, for any devices, zones and colours: the controller and those   *)
(* who report to it (EnekLighting), under any number of suspends and faults,    *)
(* the requests of the window's editor (LightingEditor), and the transactions   *)
(* of the kernel module's zoned keyboard (KernelRgb).                           *)
EXTENDS EnekLighting, LightingEditor, KernelRgb, SequenceTheorems, WellFoundedInduction, TLAPS

-----------------------------------------------------------------------------
(* Looks and tables of looks.                                                 *)

\* Looking up, changing and clearing an entry of a table.
LEMMA TablesOfLooks ==
  /\ \A c \in Entries, t \in Targets : c[t] \in Entry(t)
  /\ \A c \in Entries, t \in Targets : \A x \in Entry(t) :
       /\ [c EXCEPT ![t] = x] \in Entries
       /\ [c EXCEPT ![t] = x][t] = x
       /\ \A u \in Targets \ {t} : [c EXCEPT ![t] = x][u] = c[u]
  /\ Nothing \in Entries /\ \A t \in Targets : Nothing[t] = None
  <1>1. ASSUME NEW c \in Entries, NEW t \in Targets PROVE c[t] \in Entry(t)
    BY DEF Entries
  <1>2. ASSUME NEW c \in Entries, NEW t \in Targets, NEW x \in Entry(t)
        PROVE  /\ [c EXCEPT ![t] = x] \in Entries
               /\ [c EXCEPT ![t] = x][t] = x
               /\ \A u \in Targets \ {t} : [c EXCEPT ![t] = x][u] = c[u]
    <2> DEFINE All == UNION {Entry(u) : u \in Targets}
    <2>1. c \in [Targets -> All]
      BY DEF Entries
    <2>2. x \in All
      OBVIOUS
    <2>3. [c EXCEPT ![t] = x] \in [Targets -> All]
      <3> HIDE DEF All
      <3> QED BY <2>1, <2>2
    <2>4. /\ [c EXCEPT ![t] = x][t] = x
          /\ \A u \in Targets \ {t} : [c EXCEPT ![t] = x][u] = c[u]
      <3> HIDE DEF All
      <3> QED BY <2>1
    <2>5. \A u \in Targets : [c EXCEPT ![t] = x][u] \in Entry(u)
      BY <2>4, <1>1
    <2> QED BY <2>3, <2>4, <2>5 DEF Entries
  <1>3. Nothing \in Entries /\ \A t \in Targets : Nothing[t] = None
    <2>1. \A t \in Targets : None \in Entry(t)
      BY DEF Entry
    <2>2. Nothing \in [Targets -> UNION {Entry(t) : t \in Targets}]
      BY <2>1 DEF Nothing
    <2>3. \A t \in Targets : Nothing[t] = None
      BY DEF Nothing
    <2> QED BY <2>1, <2>2, <2>3 DEF Entries
  <1> QED BY <1>1, <1>2, <1>3

\* A report changes a look into a look, and keeps what agrees with the request.
LEMMA ReportsAreLooks ==
  ASSUME NEW t \in Targets, NEW asked \in Looks(t), NEW shown \in Looks(t),
         NEW z \in 1..Zones[t], Zones[t] \in 1..16
  PROVE  /\ Reported(asked, shown, z) \in Looks(t)
         /\ \A y \in 1..Zones[t] :
              shown[y] = asked[y] => Reported(asked, shown, z)[y] = asked[y]
         /\ Reported(asked, shown, z)[z] = asked[z]
         /\ shown = asked => Reported(asked, shown, z) = asked
         /\ Uniform(asked) => Reported(asked, shown, z) = asked
         /\ ~LastReport(asked, z) => z + 1 \in 1..Zones[t]
         /\ LastReport(asked, z) /\ ~Uniform(asked) => z = Zones[t]
         /\ asked # None
  <1>1. DOMAIN asked = 1..Zones[t]
    BY DEF Looks
  <1>2. Reported(asked, shown, z) \in Looks(t)
    BY DEF Reported, Looks
  <1>3. \A y \in 1..Zones[t] :
          shown[y] = asked[y] => Reported(asked, shown, z)[y] = asked[y]
    BY DEF Reported, Looks
  <1>4. Reported(asked, shown, z)[z] = asked[z]
    BY DEF Reported, Looks
  <1>5. shown = asked => Reported(asked, shown, z) = asked
    BY DEF Reported, Looks
  <1>6. Uniform(asked) => Reported(asked, shown, z) = asked
    BY DEF Reported
  <1>7. ~LastReport(asked, z) => z + 1 \in 1..Zones[t]
    BY <1>1 DEF LastReport
  <1>8. LastReport(asked, z) /\ ~Uniform(asked) => z = Zones[t]
    BY <1>1 DEF LastReport
  <1>9. asked # None
    BY LightingAssumption
  <1> QED BY <1>2, <1>3, <1>4, <1>5, <1>6, <1>7, <1>8, <1>9

\* Two looks that show every zone alike are the same look.
LEMMA LooksAgree ==
  ASSUME NEW t \in Targets, NEW shown \in Looks(t), NEW asked \in Looks(t),
         \A y \in 1..Zones[t] : shown[y] = asked[y]
  PROVE  shown = asked
  <1>1. shown = [y \in 1..Zones[t] |-> shown[y]]
    BY DEF Looks
  <1>2. asked = [y \in 1..Zones[t] |-> asked[y]]
    BY DEF Looks
  <1> QED BY <1>1, <1>2, Zenon

-----------------------------------------------------------------------------
(* The invariant, pointwise.                                                  *)

\* A process starts a task with everything to be discovered.
LEMMA BeginFacts ==
  ASSUME IInv, NEW a \in Actors, NEW t, NEW s, NEW requests \in Entries,
         t \in {"restore", "caps", "power", "apply"}, s \in {"load", "select"},
         Begin(a, t, s, requests)
  PROVE  /\ task' \in [Actors -> {"none", "restore", "caps", "power", "apply"}]
         /\ step' \in [Actors -> {"idle", "load", "select", "query", "report", "save",
                                  "write", "done"}]
         /\ discovering' \in [Actors -> BOOLEAN]
         /\ request' \in [Actors -> Entries]
         /\ todo' \in [Actors -> SUBSET Targets]
         /\ UNCHANGED <<found, target, zone, spoiled>>
         /\ task'[a] = t /\ step'[a] = s /\ request'[a] = requests
         /\ discovering'[a] /\ todo'[a] = Targets
         /\ \A b \in Actors \ {a} :
              /\ task'[b] = task[b] /\ step'[b] = step[b]
              /\ request'[b] = request[b]
              /\ discovering'[b] = discovering[b] /\ todo'[b] = todo[b]
  BY DEF Begin, IInv, TypeOK

\* The start of a task keeps the invariant, provided that its lock is right: a
\* restore starts with nothing, an APPLY under the lock.
LEMMA BeginPreserves ==
  ASSUME IInv, NEW a \in Actors, NEW t, NEW s, NEW requests \in Entries,
         step[a] = "idle",
         Begin(a, t, s, requests),
         \/ t = "restore" /\ s = "load" /\ requests = Nothing
         \/ t \in {"caps", "power"} /\ s = "select" /\ requests = Nothing
         \/ t = "apply" /\ s = "select",
         a = "resume" => t = "restore",
         lock' = (IF a = "resume" \/ t \in {"power", "apply"} THEN a ELSE lock),
         lock' # lock => lock = "free",
         up' \in BOOLEAN, active' \in BOOLEAN, hook' \in BOOLEAN,
         UNCHANGED <<controller, file, sleeps, faults>>
  PROVE  IInv'
  <1>0. UNCHANGED <<selected, lit, cache, damaged, accepted, unsaved, cut>>
    BY DEF controller, file
  <1>1. t \in {"restore", "caps", "power", "apply"} /\ s \in {"load", "select"}
    OBVIOUS
  <1>2. TypeOK'
    BY <1>0, <1>1, BeginFacts DEF IInv, TypeOK, StepsFitTasks, Actors
  <1>3. StepsFitTasks'
    BY <1>0, <1>1, BeginFacts DEF IInv, TypeOK, StepsFitTasks, Actors, Nothing
  <1>4. RestoresCarryTheCache'
    BY <1>0, <1>1, BeginFacts DEF IInv, RestoresCarryTheCache, Nothing
  <1>5. OnlyWritersDamage'
    BY <1>0, <1>1, BeginFacts DEF IInv, OnlyWritersDamage, Actors
  <1>6. SavesFollowApply'
    BY <1>0, <1>1, BeginFacts DEF IInv, SavesFollowApply, Actors
  <1>7. RestoresProgress'
    BY <1>0, <1>1, BeginFacts DEF IInv, RestoresProgress, Underway, TypeOK
  <1> QED BY <1>2, <1>3, <1>4, <1>5, <1>6, <1>7 DEF IInv

\* The service and the bounds have no part in the rest of the invariant.
LEMMA ServicePreserves ==
  ASSUME IInv, UNCHANGED <<controller, file, job, lock>>,
         up' \in BOOLEAN, active' \in BOOLEAN, hook' \in BOOLEAN,
         sleeps' \in 0..SleepLimit, faults' \in 0..FaultLimit
  PROVE  IInv'
  <1>0. UNCHANGED <<selected, lit, cache, damaged, accepted, unsaved, cut, task, step,
                    discovering, request, todo, found, target, zone, spoiled, lock>>
    BY DEF controller, file, job
  <1>1. TypeOK'
    BY <1>0 DEF IInv, TypeOK
  <1>2. StepsFitTasks'
    BY <1>0 DEF IInv, StepsFitTasks
  <1>3. RestoresCarryTheCache' /\ OnlyWritersDamage' /\ SavesFollowApply'
    BY <1>0 DEF IInv, RestoresCarryTheCache, OnlyWritersDamage, SavesFollowApply
  <1>4. RestoresProgress'
    BY <1>0 DEF IInv, RestoresProgress, Underway
  <1> QED BY <1>1, <1>2, <1>3, <1>4 DEF IInv

\* Commands and the helper begin.
LEMMA StartsPreserve ==
  ASSUME IInv,
         \/ Activate \/ Caps \/ Power
         \/ Resume
         \/ \E t \in Targets : \E asked \in Looks(t) : Apply(t, asked)
  PROVE  IInv'
  <1>1. "daemon" \in Actors /\ "resume" \in Actors
    BY DEF Actors
  <1>2. Nothing \in Entries
    BY TablesOfLooks
  <1>3. CASE Activate
    BY <1>1, <1>2, <1>3, BeginPreserves DEF Activate, IInv, TypeOK
  <1>4. CASE Caps
    BY <1>1, <1>2, <1>4, BeginPreserves DEF Caps, IInv, TypeOK, service
  <1>5. CASE Power
    BY <1>1, <1>2, <1>5, BeginPreserves DEF Power, IInv, TypeOK
  <1>6. ASSUME NEW t \in Targets, NEW asked \in Looks(t), Apply(t, asked) PROVE IInv'
    <2>1. [Nothing EXCEPT ![t] = asked] \in Entries
      BY TablesOfLooks DEF Entry
    <2> QED BY <1>1, <2>1, <1>6, BeginPreserves DEF Apply, LockFree, IInv, TypeOK
  <1>7. CASE Resume
    <2>1. CASE UNCHANGED <<job, lock>>
      BY <1>7, <2>1, ServicePreserves DEF Resume, IInv, TypeOK
    <2>2. CASE up /\ lock = "free" /\ lock' = "resume" /\
               Begin("resume", "restore", "load", Nothing)
      BY <1>1, <1>2, <1>7, <2>2, BeginPreserves DEF Resume, IInv, TypeOK
    <2> QED BY <1>7, <2>1, <2>2 DEF Resume
  <1> QED BY <1>3, <1>4, <1>5, <1>6, <1>7

\* The file is read whole, or not at all.
LEMMA LoadPreserves ==
  ASSUME IInv, NEW a \in Actors, Load(a)
  PROVE  IInv'
  <1>0. /\ UNCHANGED <<selected, lit, cache, damaged, accepted, unsaved, cut, task,
                       discovering, todo, found, target, zone, spoiled, up, active,
                       hook, lock, sleeps, faults>>
        /\ step[a] = "load"
    BY DEF Load, controller, file, service
  <1>1. PICK requests \in {Nothing, cache} :
          /\ request' = [request EXCEPT ![a] = requests]
          /\ step' = [step EXCEPT ![a] = IF requests = Nothing THEN "done" ELSE "select"]
    BY DEF Load
  <1>2. requests \in Entries
    BY <1>1, TablesOfLooks DEF IInv, TypeOK
  <1>3. /\ request' \in [Actors -> Entries]
        /\ step' \in [Actors -> {"idle", "load", "select", "query", "report", "save",
                                 "write", "done"}]
        /\ request'[a] = requests
        /\ step'[a] = IF requests = Nothing THEN "done" ELSE "select"
        /\ \A b \in Actors \ {a} : request'[b] = request[b] /\ step'[b] = step[b]
    BY <1>1, <1>2 DEF IInv, TypeOK
  <1>4. TypeOK'
    BY <1>0, <1>3 DEF IInv, TypeOK
  <1>5. StepsFitTasks'
    BY <1>0, <1>3 DEF IInv, TypeOK, StepsFitTasks
  <1>6. RestoresCarryTheCache'
    BY <1>0, <1>1, <1>3 DEF IInv, RestoresCarryTheCache
  <1>7. OnlyWritersDamage' /\ SavesFollowApply'
    <2>1. step["daemon"] = "load" => step'["daemon"] \notin {"save", "write"}
      BY <1>3 DEF Actors
    <2>2. "daemon" # a => step'["daemon"] = step["daemon"] /\ request'["daemon"] = request["daemon"]
      BY <1>3 DEF Actors
    <2> QED BY <1>0, <2>1, <2>2 DEF IInv, OnlyWritersDamage, SavesFollowApply
  <1>8. RestoresProgress'
    <2> SUFFICES ASSUME NEW b \in Actors, task[b] = "restore",
                        NEW t \in Targets \ spoiled[b], request'[b][t] # None
                 PROVE  Underway(b, t)'
      BY <1>0 DEF RestoresProgress
    <2>1. CASE b # a
      BY <1>0, <1>3, <2>1 DEF IInv, RestoresProgress, Underway
    <2>2. CASE b = a
      <3>1. requests # Nothing
        BY <1>3, <2>2, TablesOfLooks
      <3> QED BY <1>0, <1>3, <2>2, <3>1 DEF IInv, StepsFitTasks, Underway
    <2> QED BY <2>1, <2>2
  <1> QED BY <1>4, <1>5, <1>6, <1>7, <1>8 DEF IInv

\* What Proceed leaves of a discovery and of an apply.
LEMMA ProceedFacts ==
  ASSUME IInv, NEW a \in Actors, NEW t \in todo[a], NEW fails \in BOOLEAN,
         Proceed(a, t, fails)
  PROVE  /\ found' \in [Actors -> SUBSET Targets]
         /\ todo' \in [Actors -> SUBSET Targets]
         /\ spoiled' \in [Actors -> SUBSET Targets]
         /\ discovering' \in [Actors -> BOOLEAN]
         /\ step' \in [Actors -> {"idle", "load", "select", "query", "report", "save",
                                  "write", "done"}]
         /\ \A b \in Actors \ {a} :
              /\ found'[b] = found[b] /\ todo'[b] = todo[b] /\ step'[b] = step[b]
              /\ spoiled'[b] = spoiled[b] /\ discovering'[b] = discovering[b]
         /\ step'[a] = IF todo'[a] = {} THEN "done" ELSE "select"
         /\ spoiled'[a] = spoiled[a] \union (IF fails THEN {t} ELSE {})
         /\ discovering'[a] => discovering[a] /\ todo'[a] = todo[a] \ {t} /\ todo'[a] # {}
         /\ discovering[a] =>
              found'[a] = found[a] \union (IF fails THEN {} ELSE {t})
         /\ discovering[a] /\ ~discovering'[a] =>
              todo[a] = {t} /\ todo'[a] = {u \in found'[a] : request[a][u] # None}
         /\ ~discovering[a] => ~discovering'[a] /\ todo'[a] = todo[a] \ {t}
  <1> DEFINE answered == IF fails THEN found[a] ELSE found[a] \union {t}
             rest == todo[a] \ {t}
             wanted == {u \in answered : request[a][u] # None}
             over == discovering[a] /\ rest = {}
  <1>1. /\ found' = [found EXCEPT ![a] = IF discovering[a] THEN answered ELSE @]
        /\ discovering' = [discovering EXCEPT ![a] = @ /\ ~over]
        /\ todo' = [todo EXCEPT ![a] = IF over THEN wanted ELSE rest]
        /\ step' = [step EXCEPT ![a] = IF todo'[a] = {} THEN "done" ELSE "select"]
        /\ spoiled' = [spoiled EXCEPT ![a] = IF fails THEN @ \union {t} ELSE @]
    BY DEF Proceed, Remaining
  <1>2. answered \subseteq Targets /\ rest \subseteq Targets /\ wanted \subseteq Targets
    BY DEF IInv, TypeOK
  <1> HIDE DEF answered, rest, wanted, over
  <1>3. /\ found' \in [Actors -> SUBSET Targets]
        /\ found'[a] = IF discovering[a] THEN answered ELSE found[a]
        /\ \A b \in Actors \ {a} : found'[b] = found[b]
    BY <1>1, <1>2 DEF IInv, TypeOK
  <1>4. /\ todo' \in [Actors -> SUBSET Targets]
        /\ todo'[a] = IF over THEN wanted ELSE rest
        /\ \A b \in Actors \ {a} : todo'[b] = todo[b]
    BY <1>1, <1>2 DEF IInv, TypeOK
  <1>5. /\ step' \in [Actors -> {"idle", "load", "select", "query", "report", "save",
                                 "write", "done"}]
        /\ step'[a] = IF todo'[a] = {} THEN "done" ELSE "select"
        /\ \A b \in Actors \ {a} : step'[b] = step[b]
    BY <1>1 DEF IInv, TypeOK
  <1>6. t \in Targets
    BY DEF IInv, TypeOK
  <1>7. /\ spoiled' \in [Actors -> SUBSET Targets]
        /\ spoiled'[a] = spoiled[a] \union (IF fails THEN {t} ELSE {})
        /\ \A b \in Actors \ {a} : spoiled'[b] = spoiled[b]
    BY <1>1, <1>6 DEF IInv, TypeOK
  <1>8. over \in BOOLEAN
    BY DEF over, IInv, TypeOK
  <1>9. /\ discovering' \in [Actors -> BOOLEAN]
        /\ discovering'[a] <=> discovering[a] /\ ~over
        /\ \A b \in Actors \ {a} : discovering'[b] = discovering[b]
    BY <1>1, <1>8 DEF IInv, TypeOK
  <1> QED
    BY <1>3, <1>4, <1>5, <1>7, <1>9 DEF answered, rest, wanted, over

\* Whoever reports on a target of a restore reports the look the restore wants.
LEMMA ReportsAgree ==
  ASSUME IInv, NEW a \in Actors, NEW b \in Actors, NEW t \in Targets,
         task[b] = "restore", request[b][t] # None,
         step[a] = "report", target[a] = t
  PROVE  request[a][t] = request[b][t]
  <1>1. request[a][t] # None /\ task[a] # "none"
    BY DEF IInv, StepsFitTasks
  <1>2. request[a] # Nothing /\ request[b] # Nothing
    BY <1>1, TablesOfLooks
  <1>3. task[a] \in {"restore", "apply"}
    BY <1>1, <1>2 DEF IInv, TypeOK, StepsFitTasks
  <1>4. CASE task[a] = "restore"
    BY <1>2, <1>4 DEF IInv, RestoresCarryTheCache
  <1>5. CASE task[a] = "apply"
    <2>1. a = "daemon" /\ lock = "daemon"
      BY <1>5 DEF IInv, TypeOK, StepsFitTasks, Actors
    <2>2. b = "resume" => lock = "resume"
      BY DEF IInv, TypeOK
    <2> QED BY <2>1, <2>2 DEF Actors
  <1> QED BY <1>3, <1>4, <1>5

\* A target is left behind, and the next one or the end follows.
LEMMA ProceedPreserves ==
  ASSUME IInv, NEW a \in Actors, NEW t \in todo[a], NEW fails \in BOOLEAN,
         Proceed(a, t, fails),
         step[a] \in {"select", "query", "report"},
         UNCHANGED <<cache, damaged, accepted, unsaved, cut, service, task, request,
                     target, zone, sleeps>>,
         selected' \in Targets, faults' \in 0..FaultLimit,
         lit' \in Entries, \A u \in Targets : lit'[u] # None,
         ~discovering[a] /\ ~fails /\ task[a] = "restore" /\ t \notin spoiled[a] =>
           lit'[t] = request[a][t],
         \A b \in Actors, u \in Targets :
           task[b] = "restore" /\ request[b][u] # None /\ u \notin spoiled'[b] =>
             /\ lit[u] = request[b][u] => lit'[u] = request[b][u]
             /\ step[b] = "report" /\ target[b] = u =>
                  \A z \in 1..(zone[b] - 1) :
                    lit[u][z] = request[b][u][z] => lit'[u][z] = request[b][u][z]
  PROVE  IInv'
  <1>0. UNCHANGED <<up, active, hook, lock>>
    BY DEF service
  <1>1. TypeOK'
    BY <1>0, ProceedFacts DEF IInv, TypeOK
  <1>2. StepsFitTasks'
    <2> SUFFICES ASSUME NEW b \in Actors
                 PROVE  /\ task[b] = "none" <=> step'[b] = "idle"
                        /\ step'[b] = "load" =>
                             task[b] = "restore" /\ discovering'[b] /\ todo'[b] = Targets
                        /\ step'[b] \in {"save", "write"} => task[b] = "apply"
                        /\ step'[b] \in {"query", "report", "save", "write"} =>
                             target[b] \in todo'[b]
                        /\ step'[b] \in {"report", "save", "write"} => ~discovering'[b]
                        /\ step'[b] = "report" => zone[b] \in 1..Zones[target[b]]
                        /\ ~discovering'[b] => \A u \in todo'[b] : request[b][u] # None
      BY DEF IInv, StepsFitTasks
    <2>1. CASE b # a
      BY <2>1, ProceedFacts DEF IInv, StepsFitTasks
    <2>2. CASE b = a
      <3>1. step'[a] \in {"done", "select"}
        BY ProceedFacts
      <3>2. ~discovering'[a] => \A u \in todo'[a] : request[a][u] # None
        BY ProceedFacts DEF IInv, StepsFitTasks
      <3> QED BY <2>2, <3>1, <3>2 DEF IInv, StepsFitTasks
    <2> QED BY <2>1, <2>2
  <1>3. RestoresCarryTheCache'
    BY DEF IInv, RestoresCarryTheCache
  <1>4. "daemon" \in Actors /\ (a = "daemon" => step'["daemon"] \in {"select", "done"})
        /\ (a # "daemon" => step'["daemon"] = step["daemon"])
    BY ProceedFacts DEF Actors
  <1>5. OnlyWritersDamage' /\ SavesFollowApply'
    BY <1>4 DEF IInv, OnlyWritersDamage, SavesFollowApply
  <1>6. RestoresProgress'
    <2> SUFFICES ASSUME NEW b \in Actors, task[b] = "restore",
                        NEW u \in Targets \ spoiled'[b], request[b][u] # None
                 PROVE  Underway(b, u)'
      BY DEF RestoresProgress
    <2>1. u \notin spoiled[b]
      BY ProceedFacts
    <2>2. Underway(b, u)
      BY <2>1 DEF IInv, RestoresProgress
    <2>3. CASE b # a
      BY <2>2, <2>3, ProceedFacts DEF Underway
    <2>4. CASE b = a
      <3>1. step'[a] # "report" /\ (step'[a] = "done" => todo'[a] = {})
        BY ProceedFacts
      <3>2. fails => u # t
        <4>1. spoiled'[a] = spoiled[a] \union (IF fails THEN {t} ELSE {})
          BY ProceedFacts
        <4> QED BY <2>4, <4>1
      <3>3. CASE discovering'[a]
        <4>1. discovering[a] /\ todo'[a] = todo[a] \ {t} /\ todo'[a] # {}
          BY <3>3, ProceedFacts
        <4>2. u \in found'[a] \union todo'[a]
          BY <2>2, <2>4, <3>2, <4>1, ProceedFacts DEF Underway
        <4>3. step'[a] = "select"
          BY <4>1, ProceedFacts
        <4> QED BY <2>4, <3>3, <4>2, <4>3 DEF Underway
      <3>4. CASE discovering[a] /\ ~discovering'[a]
        <4>1. u \in todo'[a]
          BY <2>2, <2>4, <3>2, <3>4, ProceedFacts DEF Underway
        <4> QED BY <2>4, <3>1, <3>4, <4>1 DEF Underway
      <3>5. CASE ~discovering[a]
        <4>1. u \in todo'[a] \/ lit'[u] = request[a][u]
          BY <2>2, <2>4, <3>2, <3>5, ProceedFacts DEF Underway
        <4>2. ~discovering'[a]
          BY <3>5, ProceedFacts
        <4> QED BY <2>4, <3>1, <4>1, <4>2 DEF Underway
      <3>6. discovering[a] \in BOOLEAN /\ discovering'[a] \in BOOLEAN
        BY ProceedFacts DEF IInv, TypeOK
      <3> QED BY <3>3, <3>4, <3>5, <3>6
    <2> QED BY <2>3, <2>4
  <1> QED BY <1>1, <1>2, <1>3, <1>5, <1>6 DEF IInv

\* A failing call is counted within its bound.
LEMMA FaultsAreBounded ==
  ASSUME IInv, NEW ok \in BOOLEAN, Faultless(ok)
  PROVE  faults' \in 0..FaultLimit
  BY LightingAssumption DEF Faultless, IInv, TypeOK

\* A discovery that fails spoils every target.
LEMMA UndiscoveredPreserves ==
  ASSUME IInv, NEW a \in Actors, Undiscovered(a)
  PROVE  IInv'
  <1>0. /\ UNCHANGED <<selected, lit, cache, damaged, accepted, unsaved, cut, up, active,
                       hook, lock, task, request, found, target, zone, sleeps>>
        /\ step[a] = "select"
    BY DEF Undiscovered, controller, file, service
  <1>1. /\ step' \in [Actors -> {"idle", "load", "select", "query", "report", "save",
                                 "write", "done"}]
        /\ discovering' \in [Actors -> BOOLEAN]
        /\ todo' \in [Actors -> SUBSET Targets] /\ spoiled' \in [Actors -> SUBSET Targets]
        /\ step'[a] = "done" /\ discovering'[a] = FALSE
        /\ todo'[a] = {} /\ spoiled'[a] = Targets
        /\ \A b \in Actors \ {a} :
             /\ step'[b] = step[b] /\ discovering'[b] = discovering[b]
             /\ todo'[b] = todo[b] /\ spoiled'[b] = spoiled[b]
    BY DEF Undiscovered, IInv, TypeOK
  <1>2. faults' \in 0..FaultLimit
    BY FaultsAreBounded DEF Undiscovered
  <1>3. TypeOK'
    BY <1>0, <1>1, <1>2 DEF IInv, TypeOK
  <1>4. StepsFitTasks'
    BY <1>0, <1>1 DEF IInv, StepsFitTasks
  <1>5. RestoresCarryTheCache' /\ OnlyWritersDamage' /\ SavesFollowApply'
    <2>1. \/ step'["daemon"] = step["daemon"]
          \/ step["daemon"] = "select" /\ step'["daemon"] = "done"
      BY <1>0, <1>1 DEF Actors
    <2> QED
      BY <1>0, <2>1 DEF IInv, RestoresCarryTheCache, OnlyWritersDamage, SavesFollowApply
  <1>6. RestoresProgress'
    BY <1>0, <1>1 DEF IInv, RestoresProgress, Underway
  <1> QED BY <1>3, <1>4, <1>5, <1>6 DEF IInv

\* A selection changes no lights.
LEMMA SelectPreserves ==
  ASSUME IInv, NEW a \in Actors, NEW t \in Targets, NEW ok \in BOOLEAN, Select(a, t, ok)
  PROVE  IInv'
  <1>0. /\ UNCHANGED <<lit, cache, damaged, accepted, unsaved, cut, up, active, hook,
                       lock, task, request, zone, sleeps>>
        /\ step[a] = "select" /\ t \in todo[a] /\ faults' \in 0..FaultLimit
    BY FaultsAreBounded DEF Select, file, service
  <1>1. CASE ok
    <2>1. /\ selected' = t
          /\ target' = [target EXCEPT ![a] = t]
          /\ step' = [step EXCEPT ![a] = "query"]
          /\ UNCHANGED <<discovering, todo, found, spoiled>>
      BY <1>1 DEF Select
    <2>2. /\ target' \in [Actors -> Targets \union {None}] /\ target'[a] = t
          /\ step' \in [Actors -> {"idle", "load", "select", "query", "report", "save",
                                   "write", "done"}] /\ step'[a] = "query"
          /\ \A b \in Actors \ {a} : target'[b] = target[b] /\ step'[b] = step[b]
      BY <2>1 DEF IInv, TypeOK
    <2>3. TypeOK'
      BY <1>0, <2>1, <2>2 DEF IInv, TypeOK
    <2>4. StepsFitTasks'
      BY <1>0, <2>1, <2>2 DEF IInv, StepsFitTasks
    <2>5. RestoresCarryTheCache'
      BY <1>0 DEF IInv, RestoresCarryTheCache
    <2>6. "daemon" = a => step'["daemon"] = "query" /\ step["daemon"] = "select"
      BY <1>0, <2>2
    <2>7. "daemon" # a => step'["daemon"] = step["daemon"] /\ target'["daemon"] = target["daemon"]
      BY <2>2 DEF Actors
    <2>8. OnlyWritersDamage' /\ SavesFollowApply'
      BY <1>0, <2>6, <2>7 DEF IInv, OnlyWritersDamage, SavesFollowApply
    <2>9. RestoresProgress'
      BY <1>0, <2>1, <2>2 DEF IInv, RestoresProgress, Underway
    <2> QED BY <2>3, <2>4, <2>5, <2>8, <2>9 DEF IInv
  <1>2. CASE ~ok
    <2>1. Proceed(a, t, TRUE) /\ UNCHANGED <<selected, target, service>>
      BY <1>2 DEF Select
    <2>2. selected' \in Targets /\ lit' \in Entries /\ \A u \in Targets : lit'[u] # None
      BY <1>0, <2>1 DEF IInv, TypeOK
    <2> QED BY <1>0, <2>1, <2>2, ProceedPreserves
  <1> QED BY <1>1, <1>2

\* A refused or failed answer gives the target up; a good one leads to the first report.
LEMMA QueryPreserves ==
  ASSUME IInv, NEW a \in Actors, NEW ok \in BOOLEAN, Query(a, ok)
  PROVE  IInv'
  <1> DEFINE fails == ~ok \/ selected # target[a]
  <1>0. /\ UNCHANGED <<selected, lit, cache, damaged, accepted, unsaved, cut, service, up,
                       active, hook, lock, task, request, target, sleeps>>
        /\ step[a] = "query" /\ faults' \in 0..FaultLimit
    BY FaultsAreBounded DEF Query, file, service, controller
  <1>1. target[a] \in todo[a] /\ target[a] \in Targets
    BY <1>0 DEF IInv, StepsFitTasks, TypeOK
  <1>2. CASE discovering[a] \/ fails
    <2>1. Proceed(a, target[a], fails) /\ UNCHANGED zone
      BY <1>2 DEF Query
    <2>2. fails \in BOOLEAN
      OBVIOUS
    <2>3. ~discovering[a] => fails
      BY <1>2
    <2>4. selected' \in Targets /\ lit' \in Entries /\ \A u \in Targets : lit'[u] # None
      BY <1>0 DEF IInv, TypeOK
    <2> HIDE DEF fails
    <2> QED BY <1>0, <1>1, <2>1, <2>2, <2>3, <2>4, ProceedPreserves
  <1>3. CASE ~(discovering[a] \/ fails)
    <2>1. /\ step' = [step EXCEPT ![a] = "report"]
          /\ zone' = [zone EXCEPT ![a] = 1]
          /\ UNCHANGED <<discovering, todo, found, spoiled>>
      BY <1>3 DEF Query
    <2>2. /\ step' \in [Actors -> {"idle", "load", "select", "query", "report", "save",
                                   "write", "done"}] /\ step'[a] = "report"
          /\ zone' \in [Actors -> 1..16] /\ zone'[a] = 1
          /\ \A b \in Actors \ {a} : zone'[b] = zone[b] /\ step'[b] = step[b]
      BY <2>1 DEF IInv, TypeOK
    <2>3. TypeOK'
      BY <1>0, <2>1, <2>2 DEF IInv, TypeOK
    <2>4. 1 \in 1..Zones[target[a]]
      BY <1>1, LightingAssumption
    <2>5. StepsFitTasks'
      BY <1>0, <1>3, <2>1, <2>2, <2>4 DEF IInv, StepsFitTasks
    <2>6. RestoresCarryTheCache'
      BY <1>0 DEF IInv, RestoresCarryTheCache
    <2>7. "daemon" = a => step'["daemon"] = "report" /\ step["daemon"] = "query"
      BY <1>0, <2>2
    <2>8. "daemon" # a => step'["daemon"] = step["daemon"]
      BY <2>2 DEF Actors
    <2>9. OnlyWritersDamage' /\ SavesFollowApply'
      BY <1>0, <2>7, <2>8 DEF IInv, OnlyWritersDamage, SavesFollowApply
    <2>10. RestoresProgress'
      BY <1>0, <2>1, <2>2 DEF IInv, RestoresProgress, Underway
    <2> QED BY <2>3, <2>5, <2>6, <2>9, <2>10 DEF IInv
  <1> QED BY <1>2, <1>3

\* Truncating and writing the file is an APPLY's alone.
LEMMA SavePreserves ==
  ASSUME IInv, NEW a \in Actors, NEW ok \in BOOLEAN, Truncate(a, ok) \/ Write(a, ok)
  PROVE  IInv'
  <1>0. /\ UNCHANGED <<selected, lit, accepted, up, active, hook, lock, task, discovering,
                       request, todo, found, target, zone, spoiled, sleeps>>
        /\ step[a] \in {"save", "write"} /\ faults' \in 0..FaultLimit
    BY FaultsAreBounded DEF Truncate, Write, service, controller
  <1>1. /\ task[a] = "apply" /\ a = "daemon" /\ lock = "daemon"
        /\ task["resume"] = "none" /\ target[a] \in todo[a] /\ target[a] \in Targets
        /\ request[a][target[a]] # None
    BY <1>0 DEF IInv, StepsFitTasks, TypeOK, Actors
  <1>2. /\ step' \in [Actors -> {"idle", "load", "select", "query", "report", "save",
                                 "write", "done"}]
        /\ step'[a] \in {"write", "done"}
        /\ \A b \in Actors \ {a} : step'[b] = step[b]
    <2>1. PICK s \in {"write", "done"} : step' = [step EXCEPT ![a] = s]
      BY DEF Truncate, Write
    <2> QED BY <2>1 DEF IInv, TypeOK
  <1>3. /\ damaged' \in BOOLEAN /\ cut' \in BOOLEAN /\ unsaved' \in SUBSET Targets
        /\ cache' \in Entries
    <2>1. CASE Truncate(a, ok)
      BY <2>1 DEF Truncate, IInv, TypeOK
    <2>2. CASE Write(a, ok)
      <3>1. request[a][target[a]] \in Entry(target[a])
        BY <1>1, TablesOfLooks DEF IInv, TypeOK
      <3>2. Merged(target[a], request[a][target[a]]) \in Entries
        BY <1>1, <3>1, TablesOfLooks DEF Merged, IInv, TypeOK
      <3>3. damaged' = ~ok /\ cut' = (cut \/ ~ok)
        BY <2>2 DEF Write
      <3>4. unsaved' \in SUBSET Targets /\ cache' \in Entries
        BY <2>2, <3>2 DEF Write, IInv, TypeOK
      <3>5. cut' \in BOOLEAN /\ damaged' \in BOOLEAN
        BY <3>3 DEF IInv, TypeOK
      <3> QED BY <3>4, <3>5
    <2> QED BY <2>1, <2>2
  <1>4. TypeOK'
    BY <1>0, <1>2, <1>3 DEF IInv, TypeOK
  <1>5. StepsFitTasks'
    BY <1>0, <1>1, <1>2 DEF IInv, StepsFitTasks
  <1>6. \A b \in Actors : task[b] # "restore"
    BY <1>1 DEF Actors
  <1>7. RestoresCarryTheCache' /\ RestoresProgress'
    BY <1>0, <1>6 DEF RestoresCarryTheCache, RestoresProgress
  <1>8. OnlyWritersDamage' /\ SavesFollowApply'
    <2>1. CASE Truncate(a, ok)
      <3>1. /\ UNCHANGED <<cache, unsaved, cut>> /\ step["daemon"] = "save"
            /\ damaged' = (damaged \/ (ok /\ ~damaged))
            /\ step' = [step EXCEPT ![a] = IF ok /\ ~damaged THEN "write" ELSE "done"]
        BY <1>1, <2>1 DEF Truncate
      <3>2. step'["daemon"] = IF ok /\ ~damaged THEN "write" ELSE "done"
        BY <1>1, <3>1 DEF IInv, TypeOK
      <3>3. CASE ok /\ ~damaged
        <4>1. step'["daemon"] = "write" /\ damaged'
          BY <3>1, <3>2, <3>3
        <4> QED BY <1>0, <3>1, <3>3, <4>1 DEF IInv, OnlyWritersDamage, SavesFollowApply
      <3>4. CASE ~(ok /\ ~damaged)
        <4>1. step'["daemon"] = "done" /\ (damaged' <=> damaged)
          BY <3>1, <3>2, <3>4
        <4> QED BY <1>0, <3>1, <4>1 DEF IInv, OnlyWritersDamage, SavesFollowApply
      <3> QED BY <3>3, <3>4
    <2>2. CASE Write(a, ok)
      <3>1. /\ step["daemon"] = "write" /\ step'["daemon"] = "done"
            /\ damaged' = ~ok /\ cut' = (cut \/ ~ok)
        BY <1>1, <2>2 DEF Write, IInv, TypeOK
      <3>2. OnlyWritersDamage'
        BY <3>1 DEF OnlyWritersDamage
      <3>3. SavesFollowApply'
        <4> SUFFICES ASSUME ok, NEW t \in Targets \ unsaved'
                     PROVE  cache'[t] = accepted[t]
          BY <1>0, <3>1 DEF SavesFollowApply
        <4>1. /\ cache' = [cache EXCEPT ![target[a]] = request[a][target[a]]]
              /\ unsaved' = unsaved \ {target[a]}
          BY <2>2 DEF Write, Merged
        <4>2. request[a][target[a]] \in Entry(target[a]) /\ cache \in Entries
          BY <1>1, TablesOfLooks DEF IInv, TypeOK
        <4>3. CASE t = target[a]
          BY <1>1, <3>1, <4>1, <4>2, <4>3, TablesOfLooks DEF IInv, SavesFollowApply
        <4>4. CASE t # target[a]
          <5>1. cache'[t] = cache[t]
            BY <1>1, <4>1, <4>2, <4>4, TablesOfLooks
          <5>2. t \notin unsaved
            BY <4>1, <4>4
          <5> QED BY <3>1, <5>1, <5>2 DEF IInv, SavesFollowApply
        <4> QED BY <4>3, <4>4
      <3> QED BY <3>2, <3>3
    <2> QED BY <2>1, <2>2
  <1> QED BY <1>4, <1>5, <1>7, <1>8 DEF IInv

\* A report changes the lights of its target towards its look.
LEMMA ReportPreserves ==
  ASSUME IInv, NEW a \in Actors, NEW ok \in BOOLEAN, Report(a, ok)
  PROVE  IInv'
  <1> DEFINE t == target[a]
             asked == request[a][t]
             z == zone[a]
             shown == Reported(asked, lit[t], z)
             accepts == ok /\ task[a] = "apply" /\ LastReport(asked, z)
  <1>1. /\ step[a] = "report" /\ faults' \in 0..FaultLimit
        /\ UNCHANGED <<selected, cache, damaged, cut, service, task, request, target,
                       sleeps, up, active, hook, lock>>
        /\ lit' \in {lit, [lit EXCEPT ![t] = shown]}
        /\ ok => lit' = [lit EXCEPT ![t] = shown]
        /\ accepted' = IF accepts THEN [accepted EXCEPT ![t] = asked] ELSE accepted
        /\ unsaved' = IF accepts THEN unsaved \union {t} ELSE unsaved
        /\ \/ /\ ok /\ ~LastReport(asked, z)
              /\ zone' = [zone EXCEPT ![a] = @ + 1]
              /\ UNCHANGED <<step, discovering, todo, found, spoiled>>
           \/ /\ accepts
              /\ step' = [step EXCEPT ![a] = "save"]
              /\ UNCHANGED <<zone, discovering, todo, found, spoiled>>
           \/ /\ ~accepts /\ (ok => LastReport(asked, z))
              /\ Proceed(a, t, ~ok)
              /\ UNCHANGED zone
    BY FaultsAreBounded DEF Report, service
  <1>2. /\ t \in todo[a] /\ t \in Targets /\ asked # None /\ z \in 1..Zones[t]
        /\ ~discovering[a] /\ task[a] # "none"
    BY <1>1 DEF IInv, StepsFitTasks, TypeOK
  <1>3. lit[t] \in Looks(t) /\ asked \in Looks(t) /\ Zones[t] \in 1..16
    BY <1>2, TablesOfLooks, LightingAssumption DEF IInv, TypeOK, Entry
  <1> HIDE DEF t, asked, z, shown, accepts
  <1>4. /\ shown \in Looks(t) /\ shown \in Entry(t) /\ shown # None
        /\ \A y \in 1..Zones[t] : lit[t][y] = asked[y] => shown[y] = asked[y]
        /\ shown[z] = asked[z]
        /\ lit[t] = asked => shown = asked
        /\ Uniform(asked) => shown = asked
        /\ ~LastReport(asked, z) => z + 1 \in 1..Zones[t]
        /\ LastReport(asked, z) /\ ~Uniform(asked) => z = Zones[t]
    <2>1. shown \in Looks(t)
      BY <1>2, <1>3, ReportsAreLooks DEF shown
    <2>2. shown # None /\ shown \in Entry(t)
      BY <1>2, <2>1, LightingAssumption DEF Entry
    <2>3. /\ \A y \in 1..Zones[t] :
               lit[t][y] = asked[y] => Reported(asked, lit[t], z)[y] = asked[y]
          /\ Reported(asked, lit[t], z)[z] = asked[z]
          /\ lit[t] = asked => Reported(asked, lit[t], z) = asked
          /\ Uniform(asked) => Reported(asked, lit[t], z) = asked
          /\ ~LastReport(asked, z) => z + 1 \in 1..Zones[t]
          /\ LastReport(asked, z) /\ ~Uniform(asked) => z = Zones[t]
      <3>1. z \in 1..Zones[t] /\ t \in Targets
        BY <1>2
      <3>2. lit[t] = asked => Reported(asked, lit[t], z) = asked
        BY <1>3, <3>1, ReportsAreLooks
      <3>3. Uniform(asked) => Reported(asked, lit[t], z) = asked
        BY <1>3, <3>1, ReportsAreLooks
      <3>4. ~LastReport(asked, z) => z + 1 \in 1..Zones[t]
        BY <1>3, <3>1, ReportsAreLooks
      <3>5. LastReport(asked, z) /\ ~Uniform(asked) => z = Zones[t]
        BY <1>3, <3>1, ReportsAreLooks
      <3>6. Reported(asked, lit[t], z)[z] = asked[z]
        BY <1>3, <3>1 DEF Reported, Looks
      <3>7. \A y \in 1..Zones[t] :
              lit[t][y] = asked[y] => Reported(asked, lit[t], z)[y] = asked[y]
        BY <1>3, <3>1 DEF Reported, Looks
      <3> QED BY <3>2, <3>3, <3>4, <3>5, <3>6, <3>7
    <2> QED BY <2>1, <2>2, <2>3 DEF shown
  <1>5. /\ lit' \in Entries /\ (\A u \in Targets : lit'[u] # None)
        /\ \A u \in Targets \ {t} : lit'[u] = lit[u]
        /\ lit'[t] \in {lit[t], shown} /\ (ok => lit'[t] = shown)
    <2>1. lit \in Entries /\ \A u \in Targets : lit[u] # None
      BY DEF IInv, TypeOK
    <2>2. CASE lit' = [lit EXCEPT ![t] = shown]
      <3>1. /\ [lit EXCEPT ![t] = shown] \in Entries
            /\ [lit EXCEPT ![t] = shown][t] = shown
            /\ \A u \in Targets \ {t} : [lit EXCEPT ![t] = shown][u] = lit[u]
        <4>1. t \in Targets /\ shown \in Entry(t)
          BY <1>2, <1>4
        <4> QED BY <2>1, <4>1, TablesOfLooks
      <3> QED BY <1>4, <2>1, <2>2, <3>1
    <2>3. CASE lit' = lit /\ ~ok
      BY <2>1, <2>3
    <2> QED BY <1>1, <2>2, <2>3
  <1>6. ASSUME NEW b \in Actors, task[b] = "restore", request[b][t] # None
        PROVE  request[b][t] = asked
    BY <1>1, <1>2, <1>6, ReportsAgree DEF asked, t
  <1>7. ASSUME NEW b \in Actors, NEW u \in Targets, task[b] = "restore",
               request[b][u] # None
        PROVE  /\ lit[u] = request[b][u] => lit'[u] = request[b][u]
               /\ \A y \in 1..Zones[u] :
                    lit[u][y] = request[b][u][y] => lit'[u][y] = request[b][u][y]
    <2>1. CASE u = t
      BY <1>4, <1>5, <1>6, <1>7, <2>1
    <2>2. CASE u # t
      BY <1>5, <2>2
    <2> QED BY <2>1, <2>2
  <1>8. a \in Actors /\ (a = "daemon" => step["daemon"] = "report")
    BY <1>1
  <1>9. CASE ok /\ ~LastReport(asked, z) /\ zone' = [zone EXCEPT ![a] = @ + 1]
             /\ UNCHANGED <<step, discovering, todo, found, spoiled>>
    <2>1. /\ zone' \in [Actors -> 1..16] /\ zone'[a] = z + 1
          /\ \A b \in Actors \ {a} : zone'[b] = zone[b]
      BY <1>3, <1>4, <1>9 DEF IInv, TypeOK, z
    <2>2. UNCHANGED <<accepted, unsaved>>
      BY <1>1, <1>9 DEF accepts
    <2>3. TypeOK'
      BY <1>1, <1>5, <1>9, <2>1, <2>2 DEF IInv, TypeOK
    <2>4. StepsFitTasks'
      BY <1>1, <1>4, <1>9, <2>1 DEF IInv, StepsFitTasks, t
    <2>5. RestoresCarryTheCache' /\ OnlyWritersDamage' /\ SavesFollowApply'
      BY <1>1, <1>9, <2>2 DEF IInv, RestoresCarryTheCache, OnlyWritersDamage,
                              SavesFollowApply
    <2>6. RestoresProgress'
      <3> SUFFICES ASSUME NEW b \in Actors, task[b] = "restore",
                          NEW u \in Targets \ spoiled[b], request[b][u] # None
                   PROVE  Underway(b, u)'
        BY <1>1, <1>9 DEF RestoresProgress
      <3>1. Underway(b, u)
        BY DEF IInv, RestoresProgress
      <3>2. lit[u] = request[b][u] => lit'[u] = request[b][u]
        BY <1>7
      <3>3. ASSUME step[b] = "report", target[b] = u, NEW y \in 1..(zone'[b] - 1)
            PROVE  lit'[u][y] = request[b][u][y]
        <4>1. zone[b] \in 1..Zones[u] /\ Zones[u] \in 1..16
          BY <3>3, LightingAssumption DEF IInv, StepsFitTasks
        <4>2. CASE y \in 1..(zone[b] - 1)
          <5>1. lit[u][y] = request[b][u][y]
            BY <3>1, <3>3, <4>2 DEF Underway
          <5>2. y \in 1..Zones[u]
            BY <4>1, <4>2
          <5> QED BY <1>7, <5>1, <5>2
        <4>3. CASE y \notin 1..(zone[b] - 1)
          <5>1. b = a
            BY <2>1, <3>3, <4>3
          <5>2. zone[b] = z /\ u = t /\ request[b][u] = asked
            BY <3>3, <5>1 DEF z, t, asked
          <5>3. y = z
            BY <2>1, <3>3, <4>1, <4>3, <5>1, <5>2
          <5> QED BY <1>4, <1>5, <1>9, <5>2, <5>3
        <4> QED BY <4>2, <4>3
      <3>4. UNCHANGED <<discovering, found, todo, step, request, target>>
        BY <1>1, <1>9
      <3> QED BY <3>1, <3>2, <3>3, <3>4 DEF Underway
    <2> QED BY <2>3, <2>4, <2>5, <2>6 DEF IInv
  <1>10. CASE accepts /\ step' = [step EXCEPT ![a] = "save"]
              /\ UNCHANGED <<zone, discovering, todo, found, spoiled>>
    <2>1. /\ step' \in [Actors -> {"idle", "load", "select", "query", "report", "save",
                                   "write", "done"}] /\ step'[a] = "save"
          /\ \A b \in Actors \ {a} : step'[b] = step[b]
      BY <1>10 DEF IInv, TypeOK
    <2>2. task[a] = "apply" /\ a = "daemon" /\ task["resume"] = "none"
      BY <1>10 DEF accepts, IInv, TypeOK, StepsFitTasks, Actors
    <2>3. /\ accepted' \in Entries /\ unsaved' \in SUBSET Targets
          /\ accepted'[t] = asked
          /\ \A u \in Targets \ {t} : accepted'[u] = accepted[u]
          /\ unsaved' = unsaved \union {t}
      <3>1. asked \in Entry(t) /\ t \in Targets
        BY <1>2, <1>3 DEF Entry
      <3>2. accepted \in Entries /\ unsaved \in SUBSET Targets
        BY DEF IInv, TypeOK
      <3>3. /\ [accepted EXCEPT ![t] = asked] \in Entries
            /\ [accepted EXCEPT ![t] = asked][t] = asked
            /\ \A u \in Targets \ {t} : [accepted EXCEPT ![t] = asked][u] = accepted[u]
        BY <3>1, <3>2, TablesOfLooks
      <3>4. accepted' = [accepted EXCEPT ![t] = asked] /\ unsaved' = unsaved \union {t}
        BY <1>1, <1>10
      <3> QED BY <3>1, <3>2, <3>3, <3>4
    <2>4. TypeOK'
      BY <1>1, <1>5, <1>10, <2>1, <2>3 DEF IInv, TypeOK
    <2>5. StepsFitTasks'
      BY <1>1, <1>10, <2>1, <2>2 DEF IInv, StepsFitTasks
    <2>6. \A b \in Actors : task[b] # "restore"
      BY <2>2 DEF Actors
    <2>7. RestoresCarryTheCache' /\ RestoresProgress'
      BY <1>1, <2>6 DEF RestoresCarryTheCache, RestoresProgress
    <2>8. step["daemon"] = "report" /\ step'["daemon"] = "save"
      BY <1>1, <2>1, <2>2
    <2>9. OnlyWritersDamage'
      BY <1>1, <2>8 DEF IInv, OnlyWritersDamage
    <2>10. SavesFollowApply'
      <3>1. accepted'[target["daemon"]] = request["daemon"][target["daemon"]]
        BY <2>2, <2>3 DEF t, asked
      <3> QED BY <1>1, <2>3, <2>8, <3>1 DEF IInv, SavesFollowApply
    <2> QED BY <2>4, <2>5, <2>7, <2>9, <2>10 DEF IInv
  <1>11. CASE ~accepts /\ (ok => LastReport(asked, z)) /\ Proceed(a, t, ~ok) /\ UNCHANGED zone
    <2>1. UNCHANGED <<accepted, unsaved>>
      BY <1>1, <1>11
    <2>2. ASSUME ok, task[a] = "restore", t \notin spoiled[a]
          PROVE  lit'[t] = request[a][t]
      <3>1. lit'[t] = shown /\ request[a][t] = asked
        BY <1>5, <2>2 DEF t, asked
      <3>2. CASE Uniform(asked)
        BY <1>4, <3>1, <3>2
      <3>3. CASE ~Uniform(asked)
        <4>1. z = Zones[t]
          BY <1>4, <1>11, <2>2, <3>3
        <4>2. Underway(a, t)
          BY <1>2, <2>2, <3>1 DEF IInv, RestoresProgress
        <4>3. \A y \in 1..(z - 1) : lit[t][y] = asked[y]
          BY <1>1, <3>1, <4>2 DEF Underway, t, z
        <4>4. \A y \in 1..Zones[t] : shown[y] = asked[y]
          BY <1>3, <1>4, <4>1, <4>3
        <4>5. shown = asked
          <5>1. t \in Targets /\ shown \in Looks(t) /\ asked \in Looks(t)
            BY <1>2, <1>3, <1>4
          <5> QED BY <4>4, <5>1, LooksAgree
        <4> QED BY <3>1, <4>5
      <3> QED BY <3>2, <3>3
    <2>3. ASSUME NEW b \in Actors, NEW u \in Targets,
                 task[b] = "restore", request[b][u] # None
          PROVE  /\ lit[u] = request[b][u] => lit'[u] = request[b][u]
                 /\ step[b] = "report" /\ target[b] = u =>
                      \A y \in 1..(zone[b] - 1) :
                        lit[u][y] = request[b][u][y] => lit'[u][y] = request[b][u][y]
      <3>1. step[b] = "report" /\ target[b] = u =>
              zone[b] \in 1..Zones[u] /\ Zones[u] \in 1..16
        BY LightingAssumption DEF IInv, StepsFitTasks
      <3>2. step[b] = "report" /\ target[b] = u =>
              \A y \in 1..(zone[b] - 1) : y \in 1..Zones[u]
        BY <3>1
      <3> QED BY <1>7, <2>3, <3>2
    <2>4. PICK fails \in BOOLEAN : fails = ~ok
      OBVIOUS
    <2>5. Proceed(a, t, fails) /\ (~fails => ok)
      BY <1>11, <2>4
    <2>6. /\ selected' \in Targets /\ faults' \in 0..FaultLimit
          /\ UNCHANGED <<cache, damaged, accepted, unsaved, cut, service, task, request,
                         target, zone, sleeps>>
      BY <1>1, <1>11, <2>1 DEF IInv, TypeOK
    <2> QED
      BY <1>1, <1>2, <1>5, <2>2, <2>3, <2>5, <2>6, ProceedPreserves
  <1> QED BY <1>1, <1>9, <1>10, <1>11

\* The end of a task, in time or not, gives up its lock and all it held.
LEMMA IdlePreserves ==
  ASSUME IInv, NEW a \in Actors, Idle(a),
         UNCHANGED <<selected, lit, cache, damaged, accepted, unsaved, sleeps>>,
         up' \in BOOLEAN, active' \in BOOLEAN, hook' \in BOOLEAN,
         faults' \in 0..FaultLimit,
         cut' \in BOOLEAN, cut => cut', step[a] = "write" => cut'
  PROVE  IInv'
  <1>1. /\ task' \in [Actors -> {"none", "restore", "caps", "power", "apply"}]
        /\ step' \in [Actors -> {"idle", "load", "select", "query", "report", "save",
                                 "write", "done"}]
        /\ discovering' \in [Actors -> BOOLEAN]
        /\ todo' \in [Actors -> SUBSET Targets] /\ found' \in [Actors -> SUBSET Targets]
        /\ target' \in [Actors -> Targets \union {None}]
        /\ zone' \in [Actors -> 1..16]
        /\ spoiled' \in [Actors -> SUBSET Targets]
        /\ task'[a] = "none" /\ step'[a] = "idle" /\ todo'[a] = {}
    BY DEF Idle, IInv, TypeOK
  <1>2. request' \in [Actors -> Entries] /\ request'[a] = Nothing
    BY TablesOfLooks DEF Idle, IInv, TypeOK
  <1>3. \A b \in Actors \ {a} :
          /\ task'[b] = task[b] /\ step'[b] = step[b] /\ discovering'[b] = discovering[b]
          /\ request'[b] = request[b] /\ todo'[b] = todo[b] /\ found'[b] = found[b]
          /\ target'[b] = target[b] /\ zone'[b] = zone[b] /\ spoiled'[b] = spoiled[b]
    BY DEF Idle, IInv, TypeOK
  <1>4. lock' = IF lock = a THEN "free" ELSE lock
    BY DEF Idle, Released
  <1>5. TypeOK'
    <2>1. /\ lock' = "daemon" <=> task'["daemon"] \in {"power", "apply"}
          /\ lock' = "resume" <=> task'["resume"] # "none"
          /\ lock' \in Actors \union {"free"}
      BY <1>1, <1>3, <1>4 DEF IInv, TypeOK, Actors
    <2> QED BY <1>1, <1>2, <2>1 DEF IInv, TypeOK
  <1>6. StepsFitTasks'
    BY <1>1, <1>2, <1>3 DEF IInv, StepsFitTasks, Actors
  <1>7. RestoresCarryTheCache'
    BY <1>1, <1>3 DEF IInv, RestoresCarryTheCache
  <1>8. a = "daemon" => step'["daemon"] = "idle"
    BY <1>1
  <1>9. a # "daemon" => /\ step'["daemon"] = step["daemon"]
                        /\ request'["daemon"] = request["daemon"]
                        /\ target'["daemon"] = target["daemon"]
    BY <1>3 DEF Actors
  <1>10. OnlyWritersDamage'
    BY <1>8, <1>9 DEF IInv, OnlyWritersDamage
  <1>11. SavesFollowApply'
    BY <1>8, <1>9 DEF IInv, SavesFollowApply
  <1>12. RestoresProgress'
    <2> SUFFICES ASSUME NEW b \in Actors \ {a}, task[b] = "restore"
                 PROVE  \A t \in Targets \ spoiled[b] :
                          request[b][t] # None => Underway(b, t)'
      BY <1>1, <1>3 DEF RestoresProgress
    <2> QED BY <1>3 DEF IInv, RestoresProgress, Underway
  <1> QED BY <1>5, <1>6, <1>7, <1>10, <1>11, <1>12 DEF IInv

\* A death is counted, and cuts a save short that has truncated the file.
LEMMA DeathPreserves ==
  ASSUME IInv, DaemonDies \/ ResumeDies
  PROVE  IInv'
  <1>1. PICK a \in Actors : Dies(a)
    BY DEF DaemonDies, ResumeDies, Actors
  <1>2. faults' \in 0..FaultLimit
    BY <1>1, LightingAssumption DEF Dies, IInv, TypeOK
  <1>3. cut' = (cut \/ step[a] = "write") /\ Idle(a)
    BY <1>1 DEF Dies
  <1>4. cut' \in BOOLEAN /\ (cut => cut') /\ (step[a] = "write" => cut')
    BY <1>3 DEF IInv, TypeOK
  <1>5. /\ UNCHANGED <<selected, lit, cache, damaged, accepted, unsaved, sleeps>>
        /\ up' \in BOOLEAN /\ active' \in BOOLEAN /\ hook' \in BOOLEAN
    BY <1>1 DEF Dies, DaemonDies, ResumeDies, controller, IInv, TypeOK
  <1> QED BY <1>2, <1>3, <1>4, <1>5, IdlePreserves

\* A task that is done ends.
LEMMA EndPreserves ==
  ASSUME IInv, NEW a \in Actors, End(a)
  PROVE  IInv'
  <1>1. /\ Idle(a) /\ step[a] = "done"
        /\ UNCHANGED <<selected, lit, cache, damaged, accepted, unsaved, cut, sleeps,
                       up, active, hook, faults>>
    BY DEF End, controller, file
  <1>2. /\ cut' \in BOOLEAN /\ (cut => cut') /\ (step[a] = "write" => cut')
        /\ up' \in BOOLEAN /\ active' \in BOOLEAN /\ hook' \in BOOLEAN
        /\ faults' \in 0..FaultLimit
    BY <1>1 DEF IInv, TypeOK
  <1> QED BY <1>1, <1>2, IdlePreserves

\* A suspend spoils the restores under way.
LEMMA SleepPreserves ==
  ASSUME IInv, Sleep
  PROVE  IInv'
  <1>0. UNCHANGED <<cache, damaged, accepted, unsaved, cut, up, active, lock, task, step,
                    discovering, request, todo, found, target, zone, faults>>
    BY DEF Sleep, file
  <1>1. Unlit \in Entries /\ \A t \in Targets : Unlit[t] # None
    <2>1. \A t \in Targets : Unlit[t] \in Looks(t)
      BY LightingAssumption DEF Unlit, Looks
    <2>2. \A t \in Targets : Unlit[t] \in Entry(t) /\ Unlit[t] # None
      BY <2>1, LightingAssumption DEF Entry
    <2>3. Unlit \in [Targets -> UNION {Entry(t) : t \in Targets}]
      BY <2>2 DEF Unlit
    <2> QED BY <2>2, <2>3 DEF Entries
  <1>2. /\ lit' \in Entries /\ (\A t \in Targets : lit'[t] # None)
        /\ selected' \in Targets
        /\ spoiled' \in [Actors -> SUBSET Targets]
    BY <1>1 DEF Sleep, IInv, TypeOK
  <1>3. sleeps' \in 0..SleepLimit
    BY LightingAssumption DEF Sleep, IInv, TypeOK
  <1>4. hook' \in BOOLEAN
    BY DEF Sleep, IInv, TypeOK
  <1>5. TypeOK'
    BY <1>0, <1>2, <1>3, <1>4 DEF IInv, TypeOK
  <1>6. StepsFitTasks'
    BY <1>0 DEF IInv, StepsFitTasks
  <1>7. RestoresCarryTheCache' /\ OnlyWritersDamage' /\ SavesFollowApply'
    BY <1>0 DEF IInv, RestoresCarryTheCache, OnlyWritersDamage, SavesFollowApply
  <1>8. \A a \in Actors : task[a] = "restore" => spoiled'[a] = Targets
    BY DEF Sleep, IInv, StepsFitTasks
  <1>9. RestoresProgress'
    BY <1>0, <1>8 DEF RestoresProgress
  <1> QED BY <1>5, <1>6, <1>7, <1>9 DEF IInv

-----------------------------------------------------------------------------
(* The theorems.                                                              *)

\* The machine starts with nothing lit, applied or cached.
LEMMA InitEstablishes == Init => IInv
  <1> SUFFICES ASSUME Init PROVE IInv
    OBVIOUS
  <1>1. Unlit \in Entries /\ \A t \in Targets : Unlit[t] # None
    <2>1. \A t \in Targets : Unlit[t] \in Looks(t)
      BY LightingAssumption DEF Unlit, Looks
    <2>2. \A t \in Targets : Unlit[t] \in Entry(t) /\ Unlit[t] # None
      BY <2>1, LightingAssumption DEF Entry
    <2>3. Unlit \in [Targets -> UNION {Entry(t) : t \in Targets}]
      BY <2>2 DEF Unlit
    <2> QED BY <2>2, <2>3 DEF Entries
  <1>2. Nothing \in Entries
    BY TablesOfLooks
  <1>3. 0 \in 0..SleepLimit /\ 0 \in 0..FaultLimit
    BY LightingAssumption
  <1>4. TypeOK
    <2>1. /\ selected \in Targets
          /\ lit \in Entries /\ \A t \in Targets : lit[t] # None
          /\ cache \in Entries /\ accepted \in Entries
          /\ damaged \in BOOLEAN /\ cut \in BOOLEAN /\ unsaved \subseteq Targets
      BY <1>1, <1>2 DEF Init
    <2>2. /\ up \in BOOLEAN /\ active \in BOOLEAN /\ hook \in BOOLEAN
          /\ lock \in Actors \union {"free"}
          /\ sleeps \in 0..SleepLimit /\ faults \in 0..FaultLimit
      BY <1>3 DEF Init
    <2>3. /\ task \in [Actors -> {"none", "restore", "caps", "power", "apply"}]
          /\ step \in [Actors -> {"idle", "load", "select", "query", "report", "save",
                                  "write", "done"}]
          /\ discovering \in [Actors -> BOOLEAN]
      BY DEF Init
    <2>4. /\ request \in [Actors -> Entries]
          /\ target \in [Actors -> Targets \union {None}]
      BY <1>2 DEF Init
    <2>5. /\ todo \in [Actors -> SUBSET Targets] /\ found \in [Actors -> SUBSET Targets]
          /\ spoiled \in [Actors -> SUBSET Targets]
      BY DEF Init
    <2>6. zone \in [Actors -> 1..16]
      BY DEF Init
    <2>7. /\ lock = "daemon" <=> task["daemon"] \in {"power", "apply"}
          /\ lock = "resume" <=> task["resume"] # "none"
      BY DEF Init, Actors
    <2> QED BY <2>1, <2>2, <2>3, <2>4, <2>5, <2>6, <2>7 DEF TypeOK
  <1>5. StepsFitTasks
    BY DEF Init, StepsFitTasks, Actors
  <1>6. RestoresCarryTheCache /\ RestoresProgress
    BY DEF Init, RestoresCarryTheCache, RestoresProgress
  <1>7. OnlyWritersDamage /\ SavesFollowApply
    BY DEF Init, OnlyWritersDamage, SavesFollowApply, Actors
  <1> QED BY <1>4, <1>5, <1>6, <1>7 DEF IInv

\* Every step of the two processes and of the machine keeps the invariant.
LEMMA NextPreserves == IInv /\ [Next]_vars => IInv'
  <1> SUFFICES ASSUME IInv, [Next]_vars PROVE IInv'
    OBVIOUS
  <1>1. CASE UNCHANGED vars
    BY <1>1, ServicePreserves DEF vars, service, IInv, TypeOK
  <1>2. CASE \/ Activate \/ Caps \/ Power \/ Resume
             \/ \E t \in Targets : \E asked \in Looks(t) : Apply(t, asked)
    BY <1>2, StartsPreserve
  <1>3. CASE \E a \in Actors : Load(a) \/ Undiscovered(a) \/ End(a)
    BY <1>3, LoadPreserves, UndiscoveredPreserves, EndPreserves
  <1>4. CASE \E a \in Actors, ok \in BOOLEAN : \E t \in Targets : Select(a, t, ok)
    BY <1>4, SelectPreserves
  <1>5. CASE \E a \in Actors, ok \in BOOLEAN : Query(a, ok) \/ Report(a, ok)
    BY <1>5, QueryPreserves, ReportPreserves
  <1>6. CASE \E a \in Actors, ok \in BOOLEAN : Truncate(a, ok) \/ Write(a, ok)
    BY <1>6, SavePreserves
  <1>7. CASE DaemonDies \/ ResumeDies
    BY <1>7, DeathPreserves
  <1>8. CASE DaemonStarts
    BY <1>8, ServicePreserves DEF DaemonStarts, IInv, TypeOK
  <1>9. CASE Sleep
    BY <1>9, SleepPreserves
  <1> QED
    BY <1>1, <1>2, <1>3, <1>4, <1>5, <1>6, <1>7, <1>8, <1>9 DEF Next

\* The inductive invariant holds in every behaviour.
THEOREM LookInvariant == Spec => []IInv
  BY InitEstablishes, NextPreserves, PTL DEF Spec

\* Every variable keeps its type, and the lock is held by exactly the APPLY or the
\* helper that works under it.
THEOREM TypesAreKept == Spec => []TypeOK
  <1>1. IInv => TypeOK
    BY DEF IInv
  <1> QED BY <1>1, LookInvariant, PTL

\* Two processes that report on the same target report the same look: the restore
\* that RuntimeMaintenance::activate makes without the mutation lock does no harm.
THEOREM LooksAreNotMixed == Spec => []NoMixedLooks
  <1>1. IInv => NoMixedLooks
    <2> SUFFICES ASSUME IInv, NEW a \in Actors, NEW b \in Actors, a # b,
                        step[a] = "report", step[b] = "report", target[a] = target[b]
                 PROVE  request[a][target[a]] = request[b][target[b]]
      BY DEF NoMixedLooks
    <2>1. /\ target[a] \in Targets /\ request[a][target[a]] # None
          /\ request[b][target[b]] # None
      BY DEF IInv, StepsFitTasks, TypeOK
    <2>2. task["resume"] = "restore" /\ (a = "resume" \/ b = "resume")
      BY DEF IInv, StepsFitTasks, Actors
    <2> QED BY <2>1, <2>2, ReportsAgree
  <1> QED BY <1>1, LookInvariant, PTL

\* No process reads a file that another one is writing.
THEOREM LoadsAreWhole == Spec => []LoadsSeeWholeFiles
  <1>1. IInv => LoadsSeeWholeFiles
    <2> SUFFICES ASSUME IInv, NEW a \in Actors, step[a] = "load", damaged
                 PROVE  cut
      BY DEF LoadsSeeWholeFiles
    <2>1. CASE a = "daemon"
      BY <2>1 DEF IInv, OnlyWritersDamage
    <2>2. CASE a = "resume"
      <3>1. lock = "resume"
        BY <2>2 DEF IInv, TypeOK, StepsFitTasks
      <3>2. step["daemon"] # "write"
        BY <3>1 DEF IInv, TypeOK, StepsFitTasks, Actors
      <3> QED BY <3>2 DEF IInv, OnlyWritersDamage
    <2> QED BY <2>1, <2>2 DEF Actors
  <1> QED BY <1>1, LookInvariant, PTL

\* The cache names the look the controller accepted last, of every target, unless
\* that look did not reach the file.
THEOREM CacheIsCurrent == Spec => []CacheIsLastAccepted
  <1>1. IInv => CacheIsLastAccepted
    BY DEF IInv, SavesFollowApply, CacheIsLastAccepted
  <1> QED BY <1>1, LookInvariant, PTL

\* A restore has restored every target of which no call failed.
THEOREM RestoresAreThorough == Spec => []RestoresTheRest
  <1>1. IInv => RestoresTheRest
    BY DEF IInv, RestoresProgress, Underway, RestoresTheRest, Restored
  <1> QED BY <1>1, LookInvariant, PTL

-----------------------------------------------------------------------------
(* The requests of the editor.                                                *)

\* What is known of a lighting device.
LEMMA LightIs ==
  ASSUME devices \in Machines, NEW d \in Lights
  PROVE  /\ d.id \in DeviceIds /\ d.id \in STRING /\ d # NoItem /\ DeviceOf(d.id) = d
         /\ d.zones \in 1 .. Len(DefaultTints) /\ Len(DefaultTints) \in Nat
         /\ d.modes \subseteq Modes
         /\ d.readable \in BOOLEAN /\ (d.readable <=> IsReadableKeyboard(d))
         /\ d.backend \in {"zoned-wmi", "enek5130"}
         /\ d.backend = "zoned-wmi" <=> d.readable
         /\ \A e \in Lights : e.id = d.id => e = d
         /\ \A e \in Lights : d.readable /\ e.readable => e = d
<1>1. PICK i \in DOMAIN devices : d = devices[i]
  BY DEF Lights
<1>2. /\ d.zones \in 1 .. Len(DefaultTints) /\ d.modes \subseteq Modes
      /\ d.id \in STRING /\ d # NoItem
      /\ d.backend \in {"zoned-wmi", "enek5130"} /\ d.readable \in BOOLEAN
      /\ d.backend = "zoned-wmi" <=> d.readable
      /\ d.readable => d.target = "keyboard"
  BY <1>1, EditorAssumption
<1>3. \A j \in DOMAIN devices : /\ d.id = devices[j].id => i = j
                                /\ d.readable /\ devices[j].readable => i = j
  BY <1>1, EditorAssumption
<1>4. d.id \in DeviceIds
  BY <1>1 DEF DeviceIds
<1>5. \A e \in Lights : (e.id = d.id => e = d) /\ (d.readable /\ e.readable => e = d)
  BY <1>1, <1>3 DEF Lights
<1>6. DeviceOf(d.id) = d
  BY <1>5 DEF DeviceOf, Lights
<1>7. Len(DefaultTints) \in Nat
  BY EditorAssumption
<1>8. d.readable <=> IsReadableKeyboard(d)
  BY <1>2 DEF IsReadableKeyboard
<1> QED
  BY <1>2, <1>4, <1>5, <1>6, <1>7, <1>8

\* Every id is a device's.
LEMMA IdIsOf ==
  ASSUME devices \in Machines, NEW id \in DeviceIds
  PROVE  DeviceOf(id) \in Lights /\ DeviceOf(id).id = id
<1>1. PICK i \in DOMAIN devices : id = devices[i].id
  BY DEF DeviceIds
<1>2. devices[i] \in Lights
  BY DEF Lights
<1> QED
  BY <1>1, <1>2, LightIs

\* A device has an id that no other device has.
LEMMA DeviceById ==
  ASSUME devices \in Machines, NEW i \in DOMAIN devices
  PROVE  DeviceOf(devices[i].id) = devices[i]
BY EditorAssumption DEF DeviceOf

\* A request takes as many colours from the editor as its device has zones.
LEMMA ColoursFit ==
  ASSUME devices \in Machines, NEW i \in DOMAIN devices, NEW colours
  PROVE  Len(SubSeq(colours, 1, devices[i].zones)) = devices[i].zones
<1> DEFINE n == devices[i].zones
<1>1. n \in Int /\ 1 <= n
  <2>1. devices[i] \in Lights
    BY DEF Lights
  <2> QED
    BY <2>1, LightIs
<1>2. \A k \in 1 .. n : colours[k] \in {colours[j] : j \in 1 .. n}
  OBVIOUS
<1> QED
  BY <1>1, <1>2, SubSeqProperties

\* What every press has to show of the request it sends.
LEMMA SentKeeps ==
  ASSUME EditorIInv, NEW i \in DOMAIN devices, NEW sent,
         {"kind", "answer"} \subseteq DOMAIN sent, sent.answer = "none",
         sent = [f \in DOMAIN sent |-> sent[f]],
         sent.id = devices[i].id, Accepts(devices[i], sent),
         Sends(sent)
  PROVE  EditorIInv'
BY DEF EditorIInv, AnswerOK, RequestFits, Sends

\* The fields of a request for a look.
LEMMA LightingRequest ==
  ASSUME NEW d, NEW mode, NEW speed, NEW colours, NEW wells
  PROVE  LET r == lighting_request(d, mode, speed, colours, wells)
         IN /\ {"kind", "answer"} \subseteq DOMAIN r /\ r.answer = "none"
            /\ r = [f \in DOMAIN r |-> r[f]]
            /\ r.kind = "apply" /\ r.id = d.id /\ r.mode = mode /\ r.speed = speed
            /\ r.zones = wells
BY DEF lighting_request

\* A static look with the device's colours is one it takes.
LEMMA StaticFits ==
  ASSUME EditorIInv, NEW i \in DOMAIN devices, NEW colours, NEW brush,
         "static" \in devices[i].modes,
         Sends(lighting_request(devices[i], "static", 0, brush,
                                SubSeq(colours, 1, devices[i].zones)))
  PROVE  EditorIInv'
<1> DEFINE d == devices[i]
           z == SubSeq(colours, 1, d.zones)
           r == lighting_request(d, "static", 0, brush, z)
<1>1. Len(z) = d.zones
  BY ColoursFit DEF EditorIInv
<1> HIDE DEF z
<1>2. /\ {"kind", "answer"} \subseteq DOMAIN r /\ r.answer = "none"
      /\ r = [f \in DOMAIN r |-> r[f]]
      /\ r.kind = "apply" /\ r.id = d.id /\ r.mode = "static" /\ r.zones = z
  BY LightingRequest
<1> HIDE DEF r
<1>3. Accepts(d, r)
  BY <1>1, <1>2 DEF Accepts
<1> QED
  BY <1>2, <1>3, SentKeeps DEF r, z

\* An effect, or nothing at all, is sent without colours of zones.
LEMMA EffectFits ==
  ASSUME EditorIInv, NEW i \in DOMAIN devices, NEW mode, NEW brush, mode # "static",
         (IF mode = "off" THEN "static" ELSE mode) \in devices[i].modes,
         Sends(lighting_request(devices[i], mode, EffectSpeed(mode), brush, <<>>))
  PROVE  EditorIInv'
<1> DEFINE d == devices[i]
           r == lighting_request(d, mode, EffectSpeed(mode), brush, <<>>)
<1>1. /\ {"kind", "answer"} \subseteq DOMAIN r /\ r.answer = "none"
      /\ r = [f \in DOMAIN r |-> r[f]]
      /\ r.kind = "apply" /\ r.id = d.id /\ r.mode = mode /\ r.speed = EffectSpeed(mode)
      /\ r.zones = <<>>
  BY LightingRequest
<1> HIDE DEF r
<1>2. Accepts(d, r)
  BY <1>1 DEF Accepts, EffectSpeed
<1> QED
  BY <1>1, <1>2, SentKeeps DEF r

\* Power is what the zoned keyboard has a call for.
LEMMA PowerFits ==
  ASSUME EditorIInv, NEW i \in DOMAIN devices, NEW on, TypedPower(devices[i]),
         Sends(PowerRequest(devices[i], on))
  PROVE  EditorIInv'
<1> DEFINE r == PowerRequest(devices[i], on)
<1>1. /\ {"kind", "answer"} \subseteq DOMAIN r /\ r.answer = "none"
      /\ r = [f \in DOMAIN r |-> r[f]]
      /\ r.kind = "power" /\ r.id = devices[i].id
  BY DEF PowerRequest
<1> HIDE DEF r
<1>2. Accepts(devices[i], r)
  BY <1>1 DEF Accepts, TypedPower, IsReadableKeyboard
<1> QED
  BY <1>1, <1>2, SentKeeps DEF r

\* Nothing is under way at first.
LEMMA EditorInitEstablishes == EditorInit => EditorIInv
BY DEF EditorInit, EditorIInv, AnswerOK, RequestFits, NoRequest

\* Each press of the user.
LEMMA PressKeeps ==
  ASSUME EditorIInv, NEW i \in DOMAIN devices,
         \/ PressOn(devices[i]) \/ PressOff(devices[i])
         \/ \E mode \in devices[i].modes : PressMode(devices[i], mode)
         \/ \E b \in 1 .. Full : MovesSlider(devices[i], b)
         \/ \E z \in 1 .. devices[i].zones, c \in Tints : CommitsColour(devices[i], z, c)
  PROVE  EditorIInv'
<1> DEFINE d == devices[i]
<1>0. ASSUME devices' = devices, flight' = flight PROVE EditorIInv'
  BY <1>0 DEF EditorIInv, AnswerOK, RequestFits
<1>1. CASE PressOn(d)
  <2>1. CASE Sends(PowerRequest(d, TRUE)) /\ TypedPower(d)
    BY <2>1, PowerFits
  <2>2. CASE Sends(StaticRequest(d)) /\ "static" \in d.modes
    BY <2>2, StaticFits DEF StaticRequest, ColoursOf
  <2> QED
    BY <1>1, <2>1, <2>2 DEF PressOn
<1>2. CASE PressOff(d)
  <2>1. CASE Sends(PowerRequest(d, FALSE)) /\ TypedPower(d)
    BY <2>1, PowerFits
  <2>2. CASE Sends(lighting_request(d, "off", 0, editor.zones, <<>>)) /\ "static" \in d.modes
    <3>1. Sends(lighting_request(d, "off", EffectSpeed("off"), editor.zones, <<>>))
      BY <2>2 DEF EffectSpeed
    <3> QED
      BY <2>2, <3>1, EffectFits
  <2> QED
    BY <1>2, <2>1, <2>2 DEF PressOff
<1>3. ASSUME NEW mode \in d.modes, PressMode(d, mode) PROVE EditorIInv'
  <2>0. mode # "off"
    <3>1. d \in Lights /\ "off" \notin Modes
      BY DEF Lights, Modes
    <3> QED
      BY <1>3, <3>1, LightIs DEF EditorIInv
  <2>1. CASE mode = "static"
    <3>1. Sends(StaticRequest(d)) /\ "static" \in d.modes
      BY <1>3, <2>1 DEF PressMode
    <3> QED
      BY <3>1, StaticFits DEF StaticRequest, ColoursOf
  <2>2. CASE mode # "static"
    <3>1. Sends(lighting_request(d, mode, EffectSpeed(mode), editor.zones, <<>>))
      BY <1>3, <2>2 DEF PressMode
    <3> QED
      BY <2>0, <2>2, <3>1, EffectFits
  <2> QED
    BY <2>1, <2>2
<1>4. ASSUME NEW b, MovesSlider(d, b) PROVE EditorIInv'
  BY <1>0, <1>4 DEF MovesSlider
<1>5. ASSUME NEW z, NEW c, CommitsColour(d, z, c) PROVE EditorIInv'
  <2> DEFINE colours == [editor.zones EXCEPT ![z] = c]
  <2>1. \/ Sends(lighting_request(d, "static", 0, colours, SubSeq(colours, 1, d.zones)))
        \/ devices' = devices /\ flight' = flight
    BY <1>5 DEF CommitsColour
  <2>2. "static" \in d.modes
    BY <1>5 DEF CommitsColour
  <2> HIDE DEF colours
  <2> QED
    BY <1>0, <2>1, <2>2, StaticFits
<1> QED
  BY <1>1, <1>2, <1>3, <1>4, <1>5

\* The daemon answers a request once, and never refuses it.
LEMMA ServingKeeps ==
  ASSUME EditorIInv, Serves \/ ServingFails
  PROVE  EditorIInv'
<1>1. /\ flight.kind \in {"apply", "power"} /\ flight.answer = "none" /\ flight # NoRequest
      /\ devices' = devices
  BY DEF Serves, ServingFails, NoRequest
<1>2. PICK i \in DOMAIN devices : devices[i].id = flight.id /\ Accepts(devices[i], flight)
  BY <1>1 DEF EditorIInv, RequestFits
<1>3. DeviceOf(flight.id) = devices[i]
  BY <1>2, DeviceById DEF EditorIInv
<1>4. /\ flight = [f \in DOMAIN flight |-> flight[f]]
      /\ {"kind", "answer"} \subseteq DOMAIN flight
  BY <1>1 DEF EditorIInv, AnswerOK
<1>5. CASE Serves
  <2>1. PICK state : flight' = [flight EXCEPT !.answer = "done", !.state = state]
    BY <1>2, <1>3, <1>5 DEF Serves
  <2>2. /\ flight'.answer = "done" /\ DOMAIN flight' = DOMAIN flight
        /\ flight' = [f \in DOMAIN flight' |-> flight'[f]]
    BY <1>4, <2>1
  <2> QED
    BY <1>1, <1>4, <2>2 DEF EditorIInv, AnswerOK, RequestFits
<1>6. CASE ServingFails
  <2>1. flight' = [flight EXCEPT !.answer = "failed"]
    BY <1>6 DEF ServingFails
  <2>2. /\ flight'.answer = "failed" /\ DOMAIN flight' = DOMAIN flight
        /\ flight' = [f \in DOMAIN flight' |-> flight'[f]]
    BY <1>4, <2>1
  <2> QED
    BY <1>1, <1>4, <2>2 DEF EditorIInv, AnswerOK, RequestFits
<1> QED
  BY <1>5, <1>6

\* A refresh is no request for a device.
LEMMA RefreshKeeps ==
  ASSUME EditorIInv, Refreshes \/ ReadsCaps \/ ReadsKeyboard \/ RefreshFails
  PROVE  EditorIInv'
<1>0. devices' = devices
  BY DEF Refreshes, ReadsCaps, ReadsKeyboard, RefreshFails
<1>1. CASE Refreshes
  <2>1. flight' = [kind |-> "refresh", answer |-> "none", caps |-> NoCaps, read |-> NoItem]
    BY <1>1 DEF Refreshes
  <2> QED
    BY <1>0, <2>1 DEF EditorIInv, AnswerOK, RequestFits
<1>2. CASE ReadsCaps \/ ReadsKeyboard \/ RefreshFails
  <2>0. flight.kind = "refresh" /\ flight.answer = "none"
    BY <1>2 DEF ReadsCaps, ReadsKeyboard, RefreshFails
  <2>1. flight.kind = "refresh" /\ flight.answer = "none" /\ flight # NoRequest
    BY <2>0 DEF NoRequest
  <2>2. /\ flight = [f \in DOMAIN flight |-> flight[f]]
        /\ {"kind", "answer"} \subseteq DOMAIN flight
    BY <2>1 DEF EditorIInv, AnswerOK
  <2>3. \E caps : flight' = [flight EXCEPT !.caps = caps]
        \/ \E read : flight' = [flight EXCEPT !.answer = "done", !.read = read]
        \/ flight' = [flight EXCEPT !.answer = "done"]
        \/ flight' = [flight EXCEPT !.answer = "failed"]
    BY <1>2 DEF ReadsCaps, ReadsKeyboard, RefreshFails
  <2>4. /\ flight' = [f \in DOMAIN flight' |-> flight'[f]]
        /\ DOMAIN flight' = DOMAIN flight
        /\ flight'.kind = "refresh" /\ flight'.answer \in {"none", "done", "failed"}
    BY <2>1, <2>2, <2>3
  <2> QED
    BY <1>0, <2>2, <2>4 DEF EditorIInv, AnswerOK, RequestFits
<1> QED
  BY <1>1, <1>2

\* Every step keeps the invariant.
LEMMA EditorNextKeeps ==
  ASSUME EditorIInv, [EditorNext]_editorVars
  PROVE  EditorIInv'
<1>0. ASSUME devices' = devices, flight' = flight PROVE EditorIInv'
  BY <1>0 DEF EditorIInv, AnswerOK, RequestFits
<1>1. ASSUME NEW i, ClickTab(i) PROVE EditorIInv'
  BY <1>0, <1>1 DEF ClickTab
<1>2. CASE Answers
  BY <1>2 DEF Answers, EditorIInv, AnswerOK, RequestFits, NoRequest
<1>3. ASSUME NEW id, OthersChange(id) PROVE EditorIInv'
  BY <1>0, <1>3 DEF OthersChange
<1>4. CASE UNCHANGED editorVars
  BY <1>0, <1>4 DEF editorVars
<1>5. CASE EditorNext
  BY <1>1, <1>2, <1>3, <1>5, PressKeeps, RefreshKeeps, ServingKeeps DEF EditorNext
<1> QED
  BY <1>4, <1>5

\* The inductive invariant of the editor holds in every behaviour.
THEOREM RequestInvariant == EditorSpec => []EditorIInv
<1> QED
  BY EditorInitEstablishes, EditorNextKeeps, PTL DEF EditorSpec

\* Whatever list of devices a refresh has shown since the tab was chosen, a request that the
\* window makes is one that the backend of its device takes (app.rs, ControlDock;
\* lighting.rs, LightingController::apply and set_power).
THEOREM NothingIsRefused == EditorSpec => []RequestsAreAccepted
<1>1. EditorIInv => RequestsAreAccepted
  BY DEF EditorIInv, AnswerOK, RequestsAreAccepted, NoRequest
<1> QED
  BY <1>1, RequestInvariant, PTL

-----------------------------------------------------------------------------
(* What the editor shows and has in its draft.                                *)

\* A set of natural numbers has a least one.
LEMMA LeastIsOne ==
  ASSUME NEW S, S \subseteq Nat, S # {}
  PROVE  Min(S) \in S
<1>1. PICK m \in S : \A k \in S : <<k, m>> \notin OpToRel(<, Nat)
  BY WFMin, NatLessThanWellFounded, Zenon
<1>2. \A k \in S : ~(k < m)
  BY <1>1, Zenon DEF OpToRel
<1>3. \A k \in S : m <= k
  BY <1>2
<1> QED
  BY <1>3 DEF Min

\* The keyboard that is preferred is one of the list.
LEMMA PreferredLies ==
  ASSUME NEW X, NEW list \in Seq(X)
  PROVE  preferred_lighting_index(list) \in 0 .. Len(list)
<1> DEFINE I == {i \in 1 .. Len(list) : IsReadableKeyboard(list[i])}
           J == {i \in 1 .. Len(list) : list[i].target = "keyboard"}
<1>1. Len(list) \in Nat
  OBVIOUS
<1>2. I \subseteq 1 .. Len(list) /\ J \subseteq 1 .. Len(list)
  OBVIOUS
<1>3. SelectInSeq(list, IsReadableKeyboard) = IF I # {} THEN Min(I) ELSE 0
  BY DEF SelectInSeq
<1>4. SelectInSeq(list, LAMBDA d : d.target = "keyboard") = IF J # {} THEN Min(J) ELSE 0
  BY DEF SelectInSeq
<1> HIDE DEF I, J
<1>5. I \subseteq Nat /\ J \subseteq Nat
  BY <1>1, <1>2
<1>6. I # {} => Min(I) \in I
  BY <1>5, LeastIsOne
<1>7. J # {} => Min(J) \in J
  BY <1>5, LeastIsOne
<1> QED
  BY <1>1, <1>2, <1>3, <1>4, <1>6, <1>7 DEF preferred_lighting_index

\* The tabs show the devices of the list, in another order.
LEMMA TabsAreListed ==
  ASSUME NEW X, NEW caps \in Seq(X) \cup {NoCaps}
  PROVE  Tabs(caps) \in Seq(X)
<1> DEFINE list == IF caps = NoCaps THEN <<>> ELSE caps
           p == preferred_lighting_index(list)
<1>1. list \in Seq(X)
  OBVIOUS
<1>2. p \in 0 .. Len(list)
  BY <1>1, PreferredLies
<1>3. Tabs(caps) = IF p < 2 THEN list ELSE [list EXCEPT ![1] = list[p], ![p] = list[1]]
  BY DEF Tabs
<1> HIDE DEF list, p
<1> QED
  BY <1>1, <1>2, <1>3

\* The device that is selected is one of the list.
LEMMA SelectedIsListed ==
  ASSUME NEW X, NEW v, v.caps \in Seq(X) \cup {NoCaps}, NEW index \in Nat \ {0}
  PROVE  /\ Selected(v, index) \in X \cup {NoItem}
         /\ index \in DOMAIN Tabs(v.caps) => Selected(v, index) = Tabs(v.caps)[index]
<1> DEFINE tabs == Tabs(v.caps)
<1>1. tabs \in Seq(X)
  BY TabsAreListed
<1>2. Selected(v, index) = IF tabs = <<>> THEN NoItem
                           ELSE tabs[IF index > Len(tabs) THEN Len(tabs) ELSE index]
  BY DEF Selected
<1> HIDE DEF tabs
<1>3. tabs # <<>> => Len(tabs) \in Nat \ {0} /\ DOMAIN tabs = 1 .. Len(tabs)
  BY <1>1
<1> QED
  BY <1>1, <1>2, <1>3 DEF tabs

\* The colours of a draft, and where they come from.
LEMMA DraftIsWells ==
  ASSUME NEW seed \in Seq(Hues)
  PROVE  /\ Draft(seed) \in Wells
         /\ \A z \in DOMAIN DefaultTints : z <= Len(seed) => Draft(seed)[z] = seed[z]
<1>1. DefaultTints \in [DOMAIN DefaultTints -> Hues] /\ DOMAIN DefaultTints = 1 .. Len(DefaultTints)
  BY EditorAssumption DEF Hues
<1>2. Len(DefaultTints) \in Nat /\ Len(seed) \in Nat /\ DOMAIN seed = 1 .. Len(seed)
  BY EditorAssumption
<1>3. \A i \in DOMAIN DefaultTints :
        (IF i <= Len(seed) THEN seed[i] ELSE DefaultTints[i]) \in Hues
  BY <1>1, <1>2
<1> QED
  BY <1>1, <1>3 DEF Draft, Wells

\* The colours of the wells are a sequence with a colour for every zone.
LEMMA WellsAreSeq ==
  ASSUME NEW w \in Wells
  PROVE  /\ w \in Seq(Hues) /\ Len(w) = Len(DefaultTints) /\ Draft(w) = w
         /\ DOMAIN w = 1 .. Len(DefaultTints) /\ Len(DefaultTints) \in Nat
<1>1. DOMAIN DefaultTints = 1 .. Len(DefaultTints) /\ Len(DefaultTints) \in Nat
  BY EditorAssumption
<1>2. w \in [1 .. Len(DefaultTints) -> Hues]
  BY <1>1 DEF Wells
<1>3. w \in Seq(Hues) /\ Len(w) = Len(DefaultTints) /\ DOMAIN w = 1 .. Len(DefaultTints)
  BY <1>1, <1>2
<1>4. Draft(w) = [i \in 1 .. Len(DefaultTints) |-> w[i]]
  BY <1>1, <1>3 DEF Draft
<1>5. Draft(w) = w
  BY <1>2, <1>4
<1> QED
  BY <1>1, <1>3, <1>5

\* A readback has the colours of all wells.
LEMMA ReadbackIs ==
  ASSUME NEW s \in States
  PROVE  LET read == keyboard_editor_readback(s)
         IN /\ read \in [brightness : 0 .. Full, zones : Wells]
            /\ read.brightness = s.brightness
            /\ s.mode # "breathing" => read.zones = s.zones
<1>1. /\ s.zones \in Wells /\ s.color \in Hues /\ s.brightness \in 0 .. Full
  BY DEF States
<1>2. [s.zones EXCEPT ![1] = s.color] \in Wells
  BY <1>1 DEF Wells
<1> QED
  BY <1>1, <1>2 DEF keyboard_editor_readback

\* What the editor has observed is the readback of the device that is selected.
LEMMA ObservedIs ==
  ASSUME devices \in Machines, NEW v \in Apps, NEW e \in Editors
  PROVE  LET d == Selected(v, e.index)
             read == keyboard_editor_readback(v.lighting)
         IN /\ d \in Lights \cup {NoItem}
            /\ Observed(v, e) \in Readings \cup {NoItem}
            /\ Observed(v, e) # NoItem <=> d # NoItem /\ Readable(v, d)
            /\ Observed(v, e) # NoItem =>
                 d \in Lights /\ Observed(v, e) = [id |-> d.id, read |-> read]
<1> DEFINE d == Selected(v, e.index)
           read == keyboard_editor_readback(v.lighting)
<1>1. /\ v.caps \in Seq(Lights) \cup {NoCaps} /\ v.lighting \in States
      /\ e.index \in Nat \ {0}
  BY DEF Apps, Editors, Lists
<1>2. d \in Lights \cup {NoItem}
  BY <1>1, SelectedIsListed
<1>3. read \in [brightness : 0 .. Full, zones : Wells]
  BY <1>1, ReadbackIs
<1>4. Observed(v, e) = IF d # NoItem /\ Readable(v, d) THEN [id |-> d.id, read |-> read]
                       ELSE NoItem
  BY DEF Observed
<1>5. d # NoItem => d.id \in STRING
  BY <1>2, LightIs
<1> HIDE DEF d, read
<1>6. d # NoItem => [id |-> d.id, read |-> read] \in Readings
  BY <1>3, <1>5 DEF Readings
<1>7. NoItem \notin Readings
  BY EditorAssumption
<1> QED
  BY <1>2, <1>4, <1>6, <1>7 DEF d, read

\* What is rendered is an editor whose observation is the one it has seen.
LEMMA RenderedIs ==
  ASSUME devices \in Machines, NEW v \in Apps, NEW e \in Editors
  PROVE  LET f == Rendered(v, e)
             seen == Observed(v, e)
         IN /\ f \in Editors /\ f.observed = seen /\ f.index = e.index
            /\ Observed(v, f) = seen
            /\ ~Reseeds(v, e) => /\ f.brightness = e.brightness /\ f.zones = e.zones
                                 /\ f.dirty = e.dirty
            /\ Reseeds(v, e) =>
                 /\ seen # NoItem /\ f.zones = seen.read.zones /\ ~f.dirty
                 /\ seen.read.brightness > 0 => f.brightness = seen.read.brightness
                 /\ seen.read.brightness <= 0 => f.brightness = e.brightness
<1> DEFINE f == Rendered(v, e)
           seen == Observed(v, e)
<1>1. seen \in Readings \cup {NoItem}
  BY ObservedIs
<1>2. Reseeds(v, e) <=> seen # e.observed /\ seen # NoItem
  BY DEF Reseeds
<1>3. CASE ~Reseeds(v, e)
  <2>1. f = [e EXCEPT !.observed = seen]
    BY <1>3 DEF Rendered
  <2> HIDE DEF f, seen
  <2>2. /\ f \in Editors /\ f.observed = seen /\ f.index = e.index
        /\ f.brightness = e.brightness /\ f.zones = e.zones /\ f.dirty = e.dirty
    BY <1>1, <2>1 DEF Editors
  <2>3. Observed(v, f) = seen
    BY <2>2 DEF Observed, seen
  <2> QED
    BY <1>3, <2>2, <2>3 DEF f, seen
<1>4. CASE Reseeds(v, e)
  <2>1. f = [e EXCEPT !.observed = seen, !.dirty = FALSE, !.zones = Draft(seen.read.zones),
                      !.brightness = IF seen.read.brightness > 0 THEN seen.read.brightness
                                     ELSE @]
    BY <1>4 DEF Rendered
  <2>2. seen # NoItem /\ seen \in Readings
    BY <1>1, <1>2, <1>4
  <2> HIDE DEF f, seen
  <2>3. seen.read.zones \in Wells /\ seen.read.brightness \in 0 .. Full
    BY <2>2 DEF Readings
  <2>4. Draft(seen.read.zones) = seen.read.zones
    BY <2>3, WellsAreSeq
  <2> DEFINE b == IF seen.read.brightness > 0 THEN seen.read.brightness ELSE e.brightness
  <2>5. e.brightness \in 0 .. Full
    BY DEF Editors
  <2>6. b \in 0 .. Full
    BY <2>3, <2>5
  <2>7. f = [e EXCEPT !.observed = seen, !.dirty = FALSE, !.zones = seen.read.zones,
                      !.brightness = b]
    BY <2>1, <2>4
  <2>8. /\ seen.read.brightness > 0 => b = seen.read.brightness
        /\ seen.read.brightness <= 0 => b = e.brightness
    BY <2>3 DEF Full
  <2> HIDE DEF b
  <2>9. /\ f \in Editors /\ f.observed = seen /\ f.index = e.index
        /\ f.zones = seen.read.zones /\ ~f.dirty /\ f.brightness = b
    BY <2>2, <2>3, <2>6, <2>7 DEF Editors
  <2>10. Observed(v, f) = seen
    BY <2>9 DEF Observed, seen
  <2> QED
    BY <1>4, <2>2, <2>9, <2>10, <2>8 DEF f, seen
<1> QED
  BY <1>3, <1>4

\* What a change that the dock shows leaves behind.
LEMMA ShowsIs ==
  ASSUME devices \in Machines, NEW v \in Apps, NEW e \in Editors, NEW then \in Pasts,
         Shows(v, e, then), devices' = devices
  PROVE  /\ app' = v /\ editor' \in Editors /\ past' \in Pasts
         /\ ObservedIsShown'
         /\ editor'.observed = Observed(v, e) /\ editor'.index = e.index
         /\ past'.altered = then.altered /\ past'.read = then.read
         /\ ~Reseeds(v, e) =>
              /\ past' = then /\ editor'.brightness = e.brightness
              /\ editor'.zones = e.zones /\ editor'.dirty = e.dirty
         /\ Reseeds(v, e) =>
              /\ Selected(v, e.index) \in Lights /\ Readable(v, Selected(v, e.index))
              /\ past'.of = Selected(v, e.index).id
              /\ DraftIsObserved(Selected(v, e.index))'
<1> DEFINE d == Selected(v, e.index)
<1>1. app' = v /\ editor' = Rendered(v, e)
  BY DEF Shows
<1>2. past' = IF Reseeds(v, e) THEN [then EXCEPT !.of = d.id, !.behind = FALSE] ELSE then
  BY DEF Shows
<1>3. Reseeds(v, e) => d \in Lights /\ Readable(v, d)
  BY ObservedIs DEF Reseeds
<1> HIDE DEF d
<1>4. Reseeds(v, e) => d.id \in DeviceIds
  BY <1>3, LightIs
<1>5. past' \in Pasts /\ past'.altered = then.altered /\ past'.read = then.read
      /\ (Reseeds(v, e) => past'.of = d.id)
  BY <1>2, <1>4 DEF Pasts
<1>6. /\ editor' \in Editors /\ editor'.observed = Observed(v, e) /\ editor'.index = e.index
      /\ Observed(v, editor') = Observed(v, e)
      /\ ~Reseeds(v, e) => /\ editor'.brightness = e.brightness /\ editor'.zones = e.zones
                           /\ editor'.dirty = e.dirty
      /\ Reseeds(v, e) =>
           /\ Observed(v, e) # NoItem /\ editor'.zones = Observed(v, e).read.zones
           /\ Observed(v, e).read.brightness > 0 =>
                editor'.brightness = Observed(v, e).read.brightness
  BY <1>1, RenderedIs
<1>7. ObservedIsShown'
  BY <1>1, <1>6 DEF ObservedIsShown
<1>8. Reseeds(v, e) => DraftIsObserved(d)'
  BY <1>6 DEF DraftIsObserved, DraftIs
<1> QED
  BY <1>1, <1>2, <1>3, <1>5, <1>6, <1>7, <1>8 DEF d

\* The request under way is one of four kinds.
LEMMA FlightIs ==
  ASSUME ViewTypeOK
  PROVE  /\ flight = NoRequest <=> flight.kind = "none"
         /\ flight.kind = "apply" => flight \in Applies
         /\ flight.kind = "power" => flight \in Powers
         /\ flight.kind = "refresh" => flight \in Reads
         /\ flight.kind \in {"none", "apply", "power", "refresh"}
BY DEF ViewTypeOK, NoRequest, Applies, Powers, Reads

\* Nothing comes while nothing is under way.
LEMMA NothingComes ==
  ASSUME flight = NoRequest, NEW d
  PROVE  ~Acted(d) /\ ~Tells(d) /\ ~Coming(d)
BY DEF NoRequest, Acted, Tells, Coming

\* A draft that a readback has replaced is the readback.
LEMMA ReseededDraft ==
  ASSUME devices \in Machines, NEW v \in Apps, NEW e \in Editors, NEW then \in Pasts,
         Shows(v, e, then), devices' = devices, Reseeds(v, e),
         LightingIsTrue', RequestIsOwn'
  PROVE  DraftIsOwn'
<1> DEFINE s == Selected(v, e.index)
<1>1. /\ app' = v /\ s \in Lights /\ Readable(v, s) /\ past'.of = s.id
      /\ DraftIsObserved(s)'
  BY ShowsIs
<1>2. s.readable /\ Readable(app, s)' /\ app'.lighting.available
  BY <1>1 DEF Readable
<1> HIDE DEF s
<1>3. Lights' = Lights
  BY DEF Lights
<1>4. s.id \in past'.read
  BY <1>1, <1>2, <1>3 DEF LightingIsTrue
<1>5. ~(Acted(s) /\ IsStatic /\ ~flight.readable)'
  BY <1>1, <1>2, <1>3 DEF RequestIsOwn, IsStatic
<1> SUFFICES ASSUME NEW d \in Lights, Clean(d)'
             PROVE  /\ (DraftIsObserved(d) \/ (Acted(d) /\ DraftIsRequested(d)))'
                    /\ (Acted(d) /\ IsStatic /\ ~flight.readable => DraftIsRequested(d))'
                    /\ (~Acted(d) /\ d.id \notin past.read =>
                          \A r \in app.last : r.id = d.id /\ r.mode = "static" =>
                             DraftIs(r.brightness, r.zones, d))'
  BY <1>3 DEF DraftIsOwn
<1>6. d = s
  BY <1>1, LightIs DEF Clean
<1> QED
  BY <1>1, <1>4, <1>5, <1>6

\* What is remembered of a device is one look, with a colour for each of its zones.
LEMMA RememberedIs ==
  ASSUME ViewTypeOK, RememberedIsTrue, devices \in Machines,
         NEW d \in Lights, NEW r \in LastApplied(app, d)
  PROVE  /\ r \in app.last /\ r \in Remembered /\ r.id = d.id
         /\ \A q \in LastApplied(app, d) : q = r
         /\ (CHOOSE q \in LastApplied(app, d) : TRUE) = r
         /\ r.mode = "static" => Len(r.zones) = d.zones
<1>1. r \in app.last /\ r.id = d.id
  BY DEF LastApplied
<1>2. r \in Remembered
  BY <1>1 DEF ViewTypeOK, Apps
<1>3. \A q \in LastApplied(app, d) : q = r
  BY <1>1 DEF LastApplied, RememberedIsTrue
<1>4. (CHOOSE q \in LastApplied(app, d) : TRUE) = r
  BY <1>3
<1> QED
  BY <1>1, <1>2, <1>3, <1>4 DEF RememberedIsTrue

\* The draft that a tab starts with: what was read back, or what is remembered.
LEMMA DraftFor ==
  ASSUME ViewTypeOK, RememberedIsTrue, devices \in Machines, NEW d \in Lights
  PROVE  LET draft == lighting_draft_for_device(d, app)
             read == keyboard_editor_readback(app.lighting)
         IN /\ draft.brightness \in 0 .. Full /\ draft.zones \in Seq(Hues)
            /\ Readable(app, d) => draft = read
            /\ ~Readable(app, d) =>
                 \A r \in LastApplied(app, d) : r.mode = "static" =>
                   draft.brightness = r.brightness /\ draft.zones = r.zones
<1> DEFINE draft == lighting_draft_for_device(d, app)
<1>1. CASE Readable(app, d)
  <2>1. draft = keyboard_editor_readback(app.lighting)
    BY <1>1 DEF lighting_draft_for_device
  <2>2. app.lighting \in States
    BY DEF ViewTypeOK, Apps
  <2>3. draft.brightness \in 0 .. Full /\ draft.zones \in Wells
    BY <2>1, <2>2, ReadbackIs
  <2> QED
    BY <1>1, <2>1, <2>3, WellsAreSeq
<1>2. CASE ~Readable(app, d) /\ LastApplied(app, d) = {}
  <2>1. draft = [brightness |-> Full, zones |-> DefaultTints]
    BY <1>2 DEF lighting_draft_for_device
  <2>2. DefaultTints \in Seq(Hues)
    BY EditorAssumption DEF Hues
  <2> QED
    BY <1>2, <2>1, <2>2 DEF Full
<1>3. CASE ~Readable(app, d) /\ LastApplied(app, d) # {}
  <2>1. PICK r \in LastApplied(app, d) : TRUE
    BY <1>3
  <2>2. /\ r \in Remembered /\ \A q \in LastApplied(app, d) : q = r
        /\ (CHOOSE q \in LastApplied(app, d) : TRUE) = r
        /\ r.mode = "static" => Len(r.zones) = d.zones
    BY RememberedIs
  <2>3. draft = [brightness |-> r.brightness,
                 zones |-> IF r.zones = <<>> THEN <<r.color>> ELSE r.zones]
    BY <1>3, <2>2 DEF lighting_draft_for_device
  <2>4. /\ r.brightness \in 0 .. Full /\ r.zones \in Seq(Hues) /\ r.color \in Hues
    BY <2>2 DEF Remembered
  <2>5. r.mode = "static" => r.zones # <<>>
    BY <2>2, LightIs
  <2> HIDE DEF draft
  <2>6. draft.brightness \in 0 .. Full /\ draft.zones \in Seq(Hues)
    BY <2>3, <2>4
  <2> QED
    BY <1>3, <2>2, <2>3, <2>5, <2>6 DEF draft
<1> QED
  BY <1>1, <1>2, <1>3

\* The user clicks a tab.
LEMMA ClickKeeps ==
  ASSUME EditorIInv, ViewIsTrue, NEW i \in DOMAIN Tabs(app.caps), ClickTab(i)
  PROVE  ViewIsTrue'
<1> DEFINE d == Tabs(app.caps)[i]
           draft == lighting_draft_for_device(d, app)
           e == [editor EXCEPT !.open = TRUE, !.index = i, !.dirty = FALSE,
                               !.brightness = draft.brightness, !.zones = Draft(draft.zones)]
           then == [past EXCEPT !.of = d.id, !.behind = flight # NoRequest]
<1>0. /\ devices \in Machines /\ ViewTypeOK /\ LightingIsTrue /\ RequestIsOwn /\ AnswerIsTrue
      /\ RememberedIsTrue /\ app \in Apps /\ editor \in Editors /\ past \in Pasts /\ LooksOK
  BY DEF EditorIInv, ViewIsTrue, ViewTypeOK
<1>1. Shows(app, e, then) /\ UNCHANGED <<devices, look, flight, left>>
  BY DEF ClickTab
<1>2. Tabs(app.caps) \in Seq(Lights)
  BY <1>0, TabsAreListed DEF Apps, Lists
<1>3. d \in Lights /\ i \in Nat \ {0}
  BY <1>2
<1>4. Selected(app, i) = d
  BY <1>0, <1>3, SelectedIsListed DEF Apps, Lists
<1>5. /\ draft.brightness \in 0 .. Full /\ draft.zones \in Seq(Hues)
      /\ Readable(app, d) => draft = keyboard_editor_readback(app.lighting)
      /\ ~Readable(app, d) =>
           \A r \in LastApplied(app, d) : r.mode = "static" =>
             draft.brightness = r.brightness /\ draft.zones = r.zones
  BY <1>0, <1>3, DraftFor
<1>6. /\ Draft(draft.zones) \in Wells
      /\ \A z \in DOMAIN DefaultTints : z <= Len(draft.zones) => Draft(draft.zones)[z] = draft.zones[z]
  BY <1>5, DraftIsWells
<1>7. d.id \in DeviceIds /\ d # NoItem /\ d.zones \in 1 .. Len(DefaultTints)
      /\ Len(DefaultTints) \in Nat /\ DOMAIN DefaultTints = 1 .. Len(DefaultTints)
  BY <1>0, <1>3, LightIs, EditorAssumption
<1> HIDE DEF d, draft
<1>8. e \in Editors /\ e.index = i /\ e.brightness = draft.brightness
      /\ e.zones = Draft(draft.zones)
  BY <1>0, <1>3, <1>5, <1>6 DEF Editors
<1>9. then \in Pasts /\ then.of = d.id /\ (then.behind <=> flight # NoRequest)
      /\ then.altered = past.altered /\ then.read = past.read
  BY <1>0, <1>7 DEF Pasts
<1> HIDE DEF e, then
<1>10. /\ app' = app /\ editor' \in Editors /\ past' \in Pasts /\ ObservedIsShown'
       /\ editor'.observed = Observed(app, e)
       /\ past'.altered = past.altered /\ past'.read = past.read
       /\ ~Reseeds(app, e) => /\ past' = then /\ editor'.brightness = e.brightness
                              /\ editor'.zones = e.zones
  BY <1>0, <1>1, <1>8, <1>9, ShowsIs
<1>11. ViewTypeOK'
  BY <1>0, <1>1, <1>10 DEF ViewTypeOK, LooksOK, Lights, DeviceIds, Apps, Lists, Remembered, Pasts,
       Applies, Powers, Reads
<1>12. LightingIsTrue' /\ RequestIsOwn' /\ AnswerIsTrue' /\ RememberedIsTrue'
  <2>1. Lights' = Lights /\ look' = look /\ flight' = flight /\ app' = app
        /\ past'.altered = past.altered /\ past'.read = past.read
    BY <1>1, <1>10 DEF Lights
  <2> QED
    BY <1>0, <2>1 DEF LightingIsTrue, RequestIsOwn, AnswerIsTrue, RememberedIsTrue, Agrees,
         Describes, Acted, Tells, Coming, Readable
<1>13. DraftIsOwn'
  <2>1. CASE Reseeds(app, e)
    BY <1>0, <1>1, <1>8, <1>9, <1>12, <2>1, ReseededDraft
  <2>2. CASE ~Reseeds(app, e)
    <3>0. Lights' = Lights
      BY <1>1 DEF Lights
    <3> SUFFICES ASSUME NEW l \in Lights, Clean(l)'
                 PROVE  /\ (DraftIsObserved(l) \/ (Acted(l) /\ DraftIsRequested(l)))'
                        /\ (Acted(l) /\ IsStatic /\ ~flight.readable => DraftIsRequested(l))'
                        /\ (~Acted(l) /\ l.id \notin past.read =>
                              \A r \in app.last : r.id = l.id /\ r.mode = "static" =>
                                 DraftIs(r.brightness, r.zones, l))'
      BY <3>0 DEF DraftIsOwn
    <3>1. l.id = d.id /\ flight = NoRequest
      BY <1>9, <1>10, <2>2 DEF Clean
    <3>2. l = d
      BY <1>0, <1>3, <3>1, LightIs
    <3>3. ~Acted(l)'
      BY <1>1, <3>1, NothingComes DEF Acted
    <3>4. editor'.brightness = draft.brightness /\ editor'.zones = Draft(draft.zones)
      BY <1>8, <1>10, <2>2
    <3>5. CASE Readable(app, d)
      <4>1. draft = keyboard_editor_readback(app.lighting) /\ draft.zones \in Wells
        BY <1>0, <1>5, <3>5, ReadbackIs DEF Apps
      <4>2. editor'.zones = draft.zones
        BY <3>4, <4>1, WellsAreSeq
      <4>3. Selected(app, e.index) = d
        BY <1>4, <1>8
      <4>4. editor'.observed = [id |-> d.id, read |-> draft]
        BY <1>0, <1>7, <1>8, <1>10, <3>5, <4>1, <4>3, ObservedIs
      <4>5. DraftIsObserved(l)'
        BY <3>4, <4>2, <4>4 DEF DraftIsObserved, DraftIs
      <4>6. d.id \in past'.read
        BY <1>0, <1>3, <1>10, <3>5 DEF LightingIsTrue, Readable
      <4> QED
        BY <3>2, <3>3, <4>5, <4>6
    <3>6. CASE ~Readable(app, d)
      <4>1. editor'.observed = NoItem
        BY <1>0, <1>4, <1>8, <1>10, <3>6, ObservedIs
      <4>2. DraftIsObserved(l)'
        BY <4>1 DEF DraftIsObserved
      <4>3. ASSUME NEW r \in app'.last, r.id = l.id, r.mode = "static"
            PROVE  DraftIs(r.brightness, r.zones, l)'
        <5>1. r \in LastApplied(app, d)
          BY <1>10, <3>2, <4>3 DEF LastApplied
        <5>2. Len(r.zones) = d.zones
          BY <1>0, <1>3, <4>3, <5>1, RememberedIs
        <5>3. draft.brightness = r.brightness /\ draft.zones = r.zones
          BY <1>5, <3>6, <4>3, <5>1
        <5>4. \A z \in 1 .. d.zones : Draft(draft.zones)[z] = r.zones[z]
          BY <1>6, <1>7, <5>2, <5>3
        <5> QED
          BY <3>2, <3>4, <5>3, <5>4 DEF DraftIs
      <4> QED
        BY <3>3, <4>2, <4>3
    <3> QED
      BY <3>5, <3>6
  <2> QED
    BY <2>1, <2>2
<1> QED
  BY <1>10, <1>11, <1>12, <1>13 DEF ViewIsTrue

\* A request that the user makes says nothing of any device yet.
LEMMA SentKeepsView ==
  ASSUME EditorIInv, ViewIsTrue, flight = NoRequest, NEW d \in Lights,
         NEW sent \in Applies \cup Powers, sent.id = d.id, sent.answer = "none", Sends(sent),
         sent.kind = "power" => d.readable,
         sent.kind = "apply" => /\ sent.readable = Readable(app, d)
                                /\ sent.mode = "static" => Len(sent.zones) = d.zones
                                /\ sent.mode = "off" => ~d.readable,
         editor' \in Editors, editor'.index = editor.index, editor'.observed = editor.observed,
         past' \in Pasts, past'.altered = past.altered, past'.read = past.read,
         DraftIsOwn'
  PROVE  ViewIsTrue'
<1>1. /\ flight' = sent /\ devices' = devices /\ look' = look /\ app' = app
      /\ left' = [left EXCEPT !.presses = @ - 1] /\ left.presses > 0
  BY DEF Sends, Acts
<1>2. /\ devices \in Machines /\ ViewTypeOK /\ LightingIsTrue /\ RememberedIsTrue
      /\ ObservedIsShown /\ LooksOK /\ app \in Apps /\ left \in [presses : Nat, disturbances : Nat]
  BY DEF EditorIInv, ViewIsTrue, ViewTypeOK
<1>3. Lights' = Lights /\ DeviceIds' = DeviceIds
  BY <1>1 DEF Lights, DeviceIds
<1>4. left' \in [presses : Nat, disturbances : Nat]
  BY <1>1, <1>2
<1>5. LooksOK' /\ app' \in Apps'
  BY <1>1, <1>2, <1>3 DEF LooksOK, Apps, Lists, Remembered
<1>6. flight' \in ({NoRequest} \cup Applies \cup Powers \cup Reads)'
  BY <1>1, <1>3 DEF Applies, Powers
<1>7. past' \in Pasts'
  BY <1>3 DEF Pasts
<1>8. ViewTypeOK'
  BY <1>4, <1>5, <1>6, <1>7 DEF ViewTypeOK, Editors
<1>9. sent.kind \in {"apply", "power"}
  BY DEF Applies, Powers
<1>10. \A l \in Lights : ~Coming(l) /\ ~Coming(l)' /\ ~Tells(l)'
  BY <1>1, <1>9, NothingComes DEF Coming, Tells
<1>11. LightingIsTrue' /\ RememberedIsTrue'
  BY <1>1, <1>2, <1>3, <1>10 DEF LightingIsTrue, RememberedIsTrue, Agrees, Describes
<1>12. RequestIsOwn'
  <2> SUFFICES ASSUME NEW l \in Lights, Acted(l)'
               PROVE  /\ sent.kind = "power" => l.readable
                      /\ sent.kind = "apply" =>
                           /\ sent.readable = Readable(app, l)'
                           /\ sent.mode = "static" => Len(sent.zones) = l.zones
                           /\ sent.mode = "off" => ~l.readable
    BY <1>1, <1>3 DEF RequestIsOwn
  <2>1. l = d
    BY <1>1, <1>2, LightIs DEF Acted
  <2> QED
    BY <1>1, <2>1 DEF Readable
<1>13. AnswerIsTrue'
  BY <1>1, <1>3, <1>9, <1>10 DEF AnswerIsTrue
<1>14. ObservedIsShown'
  BY <1>1, <1>2 DEF ObservedIsShown, Observed, Selected, Readable
<1> QED
  BY <1>8, <1>11, <1>12, <1>13, <1>14 DEF ViewIsTrue

\* A request leaves a clean draft what it was, and the colours it has of it are the draft's.
LEMMA SentDraft ==
  ASSUME EditorIInv, ViewIsTrue, flight = NoRequest, NEW d \in Lights,
         UNCHANGED <<devices, app, editor, past>>, flight'.id = d.id,
         IsStatic' => DraftIsRequested(d)'
  PROVE  DraftIsOwn'
<1>1. devices \in Machines /\ DraftIsOwn /\ Lights' = Lights
  BY DEF EditorIInv, ViewIsTrue, Lights
<1> SUFFICES ASSUME NEW l \in Lights, Clean(l)'
             PROVE  /\ (DraftIsObserved(l) \/ (Acted(l) /\ DraftIsRequested(l)))'
                    /\ (Acted(l) /\ IsStatic /\ ~flight.readable => DraftIsRequested(l))'
                    /\ (~Acted(l) /\ l.id \notin past.read =>
                          \A r \in app.last : r.id = l.id /\ r.mode = "static" =>
                             DraftIs(r.brightness, r.zones, l))'
  BY <1>1 DEF DraftIsOwn
<1>2. Clean(l) /\ ~Acted(l)
  BY NothingComes DEF Clean
<1>3. DraftIsObserved(l)
  BY <1>1, <1>2 DEF DraftIsOwn
<1>4. DraftIsObserved(l)'
  BY <1>3 DEF DraftIsObserved, DraftIs
<1>5. (Acted(l) /\ IsStatic => DraftIsRequested(l))'
  <2> SUFFICES ASSUME Acted(l)', IsStatic' PROVE DraftIsRequested(l)'
    OBVIOUS
  <2>1. l = d
    BY <1>1, LightIs DEF Acted
  <2> QED
    BY <2>1
<1>6. l.id \notin past.read => \A r \in app.last : r.id = l.id /\ r.mode = "static" =>
                                   DraftIs(r.brightness, r.zones, l)
  BY <1>1, <1>2 DEF DraftIsOwn
<1> QED
  BY <1>4, <1>5, <1>6 DEF DraftIs

\* The fields of a request for a look.
LEMMA RequestIs ==
  ASSUME ViewTypeOK, devices \in Machines, NEW d \in Lights,
         NEW mode \in Modes \cup {"off"}, NEW speed \in {0, 5},
         NEW colours \in Wells, NEW wells \in Seq(Hues)
  PROVE  LET r == lighting_request(d, mode, speed, colours, wells)
         IN /\ r \in Applies /\ r.id = d.id /\ r.answer = "none" /\ r.kind = "apply"
            /\ r.readable = Readable(app, d) /\ r.mode = mode /\ r.zones = wells
            /\ r.brightness = editor.brightness
<1>0. DOMAIN DefaultTints = 1 .. Len(DefaultTints)
  BY EditorAssumption
<1>1. d.id \in DeviceIds /\ d.readable \in BOOLEAN /\ 1 \in DOMAIN DefaultTints
  BY <1>0, LightIs
<1>2. colours[1] \in Hues
  BY <1>1 DEF Wells
<1>3. editor.brightness \in 0 .. Full /\ app.lighting.available \in BOOLEAN
  BY DEF ViewTypeOK, Editors, Apps, States
<1>4. Readable(app, d) \in BOOLEAN
  BY <1>1, <1>3 DEF Readable
<1> QED
  BY <1>1, <1>2, <1>3, <1>4 DEF lighting_request, Applies, AnswersOf

\* The colours of the zones of a device, out of those of all wells.
LEMMA ZonesOfWells ==
  ASSUME devices \in Machines, NEW d \in Lights, NEW w \in Wells
  PROVE  LET s == SubSeq(w, 1, d.zones)
         IN /\ s \in Seq(Hues) /\ Len(s) = d.zones
            /\ \A z \in 1 .. d.zones : s[z] = w[z]
<1>1. d.zones \in 1 .. Len(DefaultTints) /\ Len(DefaultTints) \in Nat
  BY LightIs
<1>2. w \in Seq(Hues) /\ Len(w) = Len(DefaultTints)
  BY WellsAreSeq
<1>3. d.zones \in Nat /\ \A z \in 1 .. d.zones : w[z] \in Hues
  BY <1>1, <1>2
<1> HIDE DEF Hues
<1> QED
  BY <1>3, SubSeqProperties

\* A static request with the editor's colours keeps what is known.
LEMMA StaticKeepsView ==
  ASSUME EditorIInv, ViewIsTrue, flight = NoRequest, NEW d \in Lights,
         Sends(StaticRequest(d)), UNCHANGED <<editor, past>>
  PROVE  ViewIsTrue'
<1> DEFINE s == ColoursOf(d)
           r == StaticRequest(d)
<1>1. /\ devices \in Machines /\ ViewTypeOK /\ editor \in Editors /\ editor.zones \in Wells
      /\ past \in Pasts
  BY DEF EditorIInv, ViewIsTrue, ViewTypeOK, Editors
<1>2. s \in Seq(Hues) /\ Len(s) = d.zones /\ \A z \in 1 .. d.zones : s[z] = editor.zones[z]
  BY <1>1, ZonesOfWells DEF ColoursOf
<1>3. r = lighting_request(d, "static", 0, editor.zones, s)
  BY DEF StaticRequest
<1> HIDE DEF s, r
<1>4. /\ r \in Applies /\ r.id = d.id /\ r.answer = "none" /\ r.kind = "apply"
      /\ r.readable = Readable(app, d) /\ r.mode = "static" /\ r.zones = s
      /\ r.brightness = editor.brightness
  BY <1>1, <1>2, <1>3, RequestIs DEF Modes
<1>5. Sends(r) /\ flight' = r /\ devices' = devices /\ app' = app
  BY DEF Sends, r
<1>6. DraftIsRequested(d)'
  BY <1>2, <1>4, <1>5 DEF DraftIsRequested, DraftIs, IsStatic
<1>7. DraftIsOwn'
  BY <1>4, <1>5, <1>6, SentDraft
<1> QED
  BY <1>1, <1>2, <1>4, <1>5, <1>7, SentKeepsView

\* So does an effect or power that the user asks for.
LEMMA OtherKeepsView ==
  ASSUME EditorIInv, ViewIsTrue, flight = NoRequest, NEW d \in Lights,
         NEW sent, Sends(sent), UNCHANGED <<editor, past>>,
         \/ \E mode \in (Modes \cup {"off"}) \ {"static"}, speed \in {0, 5} :
              /\ sent = lighting_request(d, mode, speed, editor.zones, <<>>)
              /\ mode = "off" => ~d.readable
         \/ d.readable /\ \E on \in BOOLEAN : sent = PowerRequest(d, on)
  PROVE  ViewIsTrue'
<1>1. /\ devices \in Machines /\ ViewTypeOK /\ editor \in Editors /\ editor.zones \in Wells
      /\ past \in Pasts
  BY DEF EditorIInv, ViewIsTrue, ViewTypeOK, Editors
<1>2. d.id \in DeviceIds
  BY <1>1, LightIs
<1>3. /\ sent \in Applies \cup Powers /\ sent.id = d.id /\ sent.answer = "none"
      /\ sent.kind = "power" => d.readable
      /\ sent.kind = "apply" => /\ sent.readable = Readable(app, d) /\ sent.mode # "static"
                                /\ sent.mode = "off" => ~d.readable
  <2>1. ASSUME NEW mode \in (Modes \cup {"off"}) \ {"static"}, NEW speed \in {0, 5},
               sent = lighting_request(d, mode, speed, editor.zones, <<>>),
               mode = "off" => ~d.readable
        PROVE  <1>3!:
    <3> DEFINE nothing == <<>>
    <3>1. nothing \in Seq(Hues) /\ mode \in Modes \cup {"off"}
      OBVIOUS
    <3>2. sent = lighting_request(d, mode, speed, editor.zones, nothing)
      BY <2>1
    <3> HIDE DEF nothing
    <3>3. /\ sent \in Applies /\ sent.id = d.id /\ sent.answer = "none" /\ sent.kind = "apply"
          /\ sent.readable = Readable(app, d) /\ sent.mode = mode
      <4> DEFINE r == lighting_request(d, mode, speed, editor.zones, nothing)
      <4>1. /\ r \in Applies /\ r.id = d.id /\ r.answer = "none" /\ r.kind = "apply"
            /\ r.readable = Readable(app, d) /\ r.mode = mode
        BY <1>1, <3>1, RequestIs
      <4> QED
        BY <3>2, <4>1
    <3> QED
      BY <2>1, <3>3
  <2>2. ASSUME NEW on \in BOOLEAN, sent = PowerRequest(d, on), d.readable
        PROVE  <1>3!:
    BY <1>2, <2>2 DEF PowerRequest, Powers, AnswersOf
  <2> QED
    BY <2>1, <2>2
<1>4. flight' = sent /\ devices' = devices /\ app' = app
  BY DEF Sends
<1>5. ~IsStatic'
  BY <1>3, <1>4 DEF IsStatic
<1>6. DraftIsOwn'
  BY <1>3, <1>4, <1>5, SentDraft
<1> QED
  BY <1>1, <1>3, <1>4, <1>6, SentKeepsView

\* The buttons and the modes.
LEMMA ButtonsKeepView ==
  ASSUME EditorIInv, ViewIsTrue, NEW d \in Lights,
         PressOn(d) \/ PressOff(d) \/ \E mode \in d.modes : PressMode(d, mode)
  PROVE  ViewIsTrue'
<1>1. d.modes \subseteq Modes /\ (d.readable <=> IsReadableKeyboard(d))
  BY LightIs DEF EditorIInv
<1>2. CASE PressOn(d)
  <2>1. /\ flight = NoRequest /\ UNCHANGED <<editor, past>>
        /\ \/ TypedPower(d) /\ Sends(PowerRequest(d, TRUE))
           \/ Sends(StaticRequest(d))
    BY <1>2 DEF PressOn, Enabled
  <2>2. CASE TypedPower(d) /\ Sends(PowerRequest(d, TRUE))
    <3> DEFINE r == PowerRequest(d, TRUE)
    <3>1. d.readable /\ \E on \in BOOLEAN : r = PowerRequest(d, on)
      BY <1>1, <2>2 DEF TypedPower
    <3>2. Sends(r)
      BY <2>2
    <3> HIDE DEF r
    <3> QED
      BY <2>1, <3>1, <3>2, OtherKeepsView
  <2> QED
    BY <2>1, <2>2, StaticKeepsView
<1>3. CASE PressOff(d)
  <2>1. /\ flight = NoRequest /\ UNCHANGED <<editor, past>>
        /\ \/ TypedPower(d) /\ Sends(PowerRequest(d, FALSE))
           \/ ~TypedPower(d) /\ Sends(lighting_request(d, "off", 0, editor.zones, <<>>))
    BY <1>3 DEF PressOff, Enabled
  <2>2. CASE TypedPower(d) /\ Sends(PowerRequest(d, FALSE))
    <3> DEFINE r == PowerRequest(d, FALSE)
    <3>1. d.readable /\ \E on \in BOOLEAN : r = PowerRequest(d, on)
      BY <1>1, <2>2 DEF TypedPower
    <3>2. Sends(r)
      BY <2>2
    <3> HIDE DEF r
    <3> QED
      BY <2>1, <3>1, <3>2, OtherKeepsView
  <2>3. CASE ~TypedPower(d) /\ Sends(lighting_request(d, "off", 0, editor.zones, <<>>))
    <3> DEFINE r == lighting_request(d, "off", 0, editor.zones, <<>>)
    <3>1. \E mode \in (Modes \cup {"off"}) \ {"static"}, speed \in {0, 5} :
            /\ r = lighting_request(d, mode, speed, editor.zones, <<>>)
            /\ mode = "off" => ~d.readable
      BY <1>1, <2>3 DEF TypedPower
    <3>2. Sends(r)
      BY <2>3
    <3> HIDE DEF r
    <3> QED
      BY <2>1, <3>1, <3>2, OtherKeepsView
  <2> QED
    BY <2>1, <2>2, <2>3
<1>4. ASSUME NEW mode \in d.modes, PressMode(d, mode) PROVE ViewIsTrue'
  <2>1. flight = NoRequest /\ UNCHANGED <<editor, past>>
    BY <1>4 DEF PressMode, Enabled
  <2>2. CASE mode = "static"
    BY <1>4, <2>1, <2>2, StaticKeepsView DEF PressMode
  <2>3. CASE mode # "static"
    <3> DEFINE r == lighting_request(d, mode, EffectSpeed(mode), editor.zones, <<>>)
    <3>1. Sends(r)
      BY <1>4, <2>3 DEF PressMode
    <3>2. mode \in (Modes \cup {"off"}) \ {"static"} /\ mode # "off"
      BY <1>1, <2>3 DEF Modes
    <3>3. EffectSpeed(mode) \in {0, 5}
      BY DEF EffectSpeed
    <3>4. \E m \in (Modes \cup {"off"}) \ {"static"}, speed \in {0, 5} :
            /\ r = lighting_request(d, m, speed, editor.zones, <<>>)
            /\ m = "off" => ~d.readable
      BY <3>2, <3>3
    <3> HIDE DEF r
    <3> QED
      BY <2>1, <3>1, <3>4, OtherKeepsView
  <2> QED
    BY <2>2, <2>3
<1> QED
  BY <1>2, <1>3, <1>4

\* An edit that no request goes with leaves everything else as it was; the draft is no
\* longer clean.
LEMMA EditKeepsView ==
  ASSUME EditorIInv, ViewIsTrue, Acts, UNCHANGED <<devices, look, app, flight>>,
         editor' \in Editors, editor'.index = editor.index, editor'.observed = editor.observed,
         past' \in Pasts, past'.altered = past.altered, past'.read = past.read,
         editor'.dirty \/ past'.behind
  PROVE  ViewIsTrue'
<1>1. /\ ViewTypeOK /\ LightingIsTrue /\ RequestIsOwn /\ AnswerIsTrue /\ RememberedIsTrue
      /\ ObservedIsShown /\ LooksOK /\ app \in Apps /\ left \in [presses : Nat, disturbances : Nat]
      /\ flight \in {NoRequest} \cup Applies \cup Powers \cup Reads
  BY DEF ViewIsTrue, ViewTypeOK
<1>2. Lights' = Lights /\ DeviceIds' = DeviceIds
  BY DEF Lights, DeviceIds
<1>3. left' \in [presses : Nat, disturbances : Nat]
  BY <1>1 DEF Acts
<1>4. ViewTypeOK'
  BY <1>1, <1>2, <1>3 DEF ViewTypeOK, LooksOK, Apps, Lists, Remembered, Editors, Pasts, Applies,
       Powers, Reads
<1>5. LightingIsTrue' /\ RequestIsOwn' /\ AnswerIsTrue' /\ RememberedIsTrue'
  BY <1>1, <1>2 DEF LightingIsTrue, RequestIsOwn, AnswerIsTrue, RememberedIsTrue, Agrees,
       Describes, Acted, Tells, Coming, Readable
<1>6. ObservedIsShown'
  BY <1>1 DEF ObservedIsShown, Observed, Selected, Readable
<1>7. DraftIsOwn'
  BY DEF DraftIsOwn, Clean
<1> QED
  BY <1>4, <1>5, <1>6, <1>7 DEF ViewIsTrue

\* The slider.
LEMMA SliderKeepsView ==
  ASSUME EditorIInv, ViewIsTrue, NEW d \in Lights, NEW b \in 1 .. Full, MovesSlider(d, b)
  PROVE  ViewIsTrue'
<1>1. editor \in Editors /\ past \in Pasts /\ past' = past
  BY DEF ViewIsTrue, ViewTypeOK, MovesSlider
<1>2. editor' = [editor EXCEPT !.brightness = b, !.dirty = TRUE]
  BY DEF MovesSlider
<1>3. b \in 0 .. Full
  BY DEF Full
<1>4. /\ editor' \in Editors /\ editor'.index = editor.index
      /\ editor'.observed = editor.observed /\ editor'.dirty
  BY <1>1, <1>2, <1>3 DEF Editors
<1>5. Acts /\ UNCHANGED <<devices, look, app, flight>>
  BY DEF MovesSlider
<1> QED
  BY <1>1, <1>4, <1>5, EditKeepsView

\* Power is shown or not.
LEMMA PowerIsShown ==
  ASSUME NEW d
  PROVE  DisplayedPower(d) \in BOOLEAN
<1> DEFINE remembered == \E r \in LastApplied(app, d) : r.mode # "off"
           shown == app.lighting.brightness > 0
<1>1. remembered \in BOOLEAN /\ shown \in BOOLEAN
  OBVIOUS
<1>2. DisplayedPower(d) = IF Readable(app, d) THEN shown ELSE remembered
  BY DEF DisplayedPower
<1> HIDE DEF remembered, shown
<1> QED
  BY <1>1, <1>2, Zenon

\* A colour that is chosen: the device it is sent to is the one whose draft is clean, or
\* the draft is not clean.
LEMMA ColourKeepsView ==
  ASSUME EditorIInv, ViewIsTrue, NEW d \in Lights, NEW z \in 1 .. d.zones, NEW c \in Tints,
         CommitsColour(d, z, c)
  PROVE  ViewIsTrue'
<1> DEFINE colours == [editor.zones EXCEPT ![z] = c]
           s == SubSeq(colours, 1, d.zones)
           r == lighting_request(d, "static", 0, colours, s)
           shown == DisplayedPower(d)
<1>1. /\ devices \in Machines /\ ViewTypeOK /\ editor \in Editors /\ editor.zones \in Wells
      /\ past \in Pasts
  BY DEF EditorIInv, ViewIsTrue, ViewTypeOK, Editors
<1>2. colours \in Wells
  BY <1>1 DEF Wells, Hues
<1>3. s \in Seq(Hues) /\ Len(s) = d.zones /\ \A k \in 1 .. d.zones : s[k] = colours[k]
  BY <1>1, <1>2, ZonesOfWells
<1>4. shown \in BOOLEAN
  BY PowerIsShown
<1>5. /\ editor' = [editor EXCEPT !.zones = colours, !.dirty = @ \/ ~shown]
      /\ \/ /\ flight = NoRequest /\ shown /\ Sends(r)
            /\ past' = [past EXCEPT !.behind = @ \/ past.of # d.id]
         \/ /\ Acts /\ UNCHANGED <<devices, look, app, flight>>
            /\ past' = [past EXCEPT !.behind = @ \/ shown]
  BY DEF CommitsColour, Enabled
<1>6. "static" \in Modes \cup {"off"} /\ 0 \in {0, 5}
  BY DEF Modes
<1>7. /\ r \in Applies /\ r.id = d.id /\ r.answer = "none" /\ r.kind = "apply"
      /\ r.readable = Readable(app, d) /\ r.mode = "static" /\ r.zones = s
      /\ r.brightness = editor.brightness
  <2> HIDE DEF colours, s
  <2> QED
    BY <1>1, <1>2, <1>3, <1>6, RequestIs
<1> HIDE DEF colours, s, r, shown
<1>8. /\ editor' \in Editors /\ editor'.index = editor.index
      /\ editor'.observed = editor.observed /\ editor'.zones = colours
      /\ editor'.brightness = editor.brightness /\ (editor'.dirty <=> editor.dirty \/ ~shown)
  BY <1>1, <1>2, <1>4, <1>5 DEF Editors
<1>9. CASE Acts /\ UNCHANGED <<devices, look, app, flight>>
           /\ past' = [past EXCEPT !.behind = @ \/ shown]
  <2>1. /\ past' \in Pasts /\ past'.altered = past.altered /\ past'.read = past.read
        /\ (past'.behind <=> past.behind \/ shown)
    BY <1>1, <1>4, <1>9 DEF Pasts
  <2> QED
    BY <1>8, <1>9, <2>1, EditKeepsView
<1>10. CASE flight = NoRequest /\ shown /\ Sends(r)
            /\ past' = [past EXCEPT !.behind = @ \/ past.of # d.id]
  <2>1. /\ past' \in Pasts /\ past'.altered = past.altered /\ past'.read = past.read
        /\ (past'.behind <=> past.behind \/ past.of # d.id) /\ past'.of = past.of
    BY <1>1, <1>10 DEF Pasts
  <2>2. /\ flight' = r /\ devices' = devices /\ app' = app
    BY <1>10 DEF Sends
  <2>3. Acted(d)' /\ DraftIsRequested(d)'
    BY <1>3, <1>7, <1>8, <2>2 DEF DraftIsRequested, DraftIs, IsStatic, Acted
  <2>4. DraftIsOwn'
    <3>1. Lights' = Lights
      BY <2>2 DEF Lights
    <3>2. \A l \in Lights : Clean(l)' => l = d
      BY <1>1, <2>1, LightIs DEF Clean
    <3> QED
      BY <2>3, <3>1, <3>2 DEF DraftIsOwn
  <2> QED
    BY <1>3, <1>7, <1>8, <1>10, <2>1, <2>4, SentKeepsView
<1> QED
  BY <1>5, <1>9, <1>10

\* The draft is what it was when only the answer to the request has changed.
LEMMA DraftStays ==
  ASSUME DraftIsOwn, UNCHANGED <<devices, app>>,
         editor'.brightness = editor.brightness, editor'.zones = editor.zones,
         editor'.dirty = editor.dirty, editor'.observed = editor.observed,
         past'.of = past.of, past'.behind = past.behind, past'.read = past.read,
         \/ flight.kind \notin {"apply", "power"} /\ flight'.kind \notin {"apply", "power"}
         \/ /\ flight'.kind = flight.kind /\ flight'.id = flight.id
            /\ flight.kind = "apply" =>
                 /\ flight'.mode = flight.mode /\ flight'.readable = flight.readable
                 /\ flight'.brightness = flight.brightness /\ flight'.zones = flight.zones
  PROVE  DraftIsOwn'
<1>1. Lights' = Lights
  BY DEF Lights
<1> SUFFICES ASSUME NEW l \in Lights, Clean(l)'
             PROVE  /\ (DraftIsObserved(l) \/ (Acted(l) /\ DraftIsRequested(l)))'
                    /\ (Acted(l) /\ IsStatic /\ ~flight.readable => DraftIsRequested(l))'
                    /\ (~Acted(l) /\ l.id \notin past.read =>
                          \A r \in app.last : r.id = l.id /\ r.mode = "static" =>
                             DraftIs(r.brightness, r.zones, l))'
  BY <1>1 DEF DraftIsOwn
<1>2. Clean(l)
  BY DEF Clean
<1>3. /\ DraftIsObserved(l) \/ (Acted(l) /\ DraftIsRequested(l))
      /\ Acted(l) /\ IsStatic /\ ~flight.readable => DraftIsRequested(l)
      /\ ~Acted(l) /\ l.id \notin past.read =>
           \A r \in app.last : r.id = l.id /\ r.mode = "static" =>
              DraftIs(r.brightness, r.zones, l)
  BY <1>2 DEF DraftIsOwn
<1>4. DraftIsObserved(l) => DraftIsObserved(l)'
  BY DEF DraftIsObserved, DraftIs
<1>5. Acted(l)' <=> Acted(l)
  BY DEF Acted
<1>6. Acted(l) /\ IsStatic' => IsStatic /\ flight'.readable = flight.readable
  BY DEF Acted, IsStatic
<1>7. Acted(l) /\ DraftIsRequested(l) => DraftIsRequested(l)'
  BY DEF Acted, DraftIsRequested, IsStatic, DraftIs
<1>8. \A r \in app.last : DraftIs(r.brightness, r.zones, l) => DraftIs(r.brightness, r.zones, l)'
  BY DEF DraftIs
<1> QED
  BY <1>3, <1>4, <1>5, <1>6, <1>7, <1>8

\* The devices are a list of themselves, and what is left of it without one is a list too.
LEMMA DevicesAreListed ==
  ASSUME devices \in Machines
  PROVE  devices \in Lists /\ \A i \in DOMAIN devices : Without(devices, i) \in Lists
<1>1. devices \in Seq(Lights)
  BY EditorAssumption DEF Lights
<1>2. \A i \in DOMAIN devices : Without(devices, i) \in Seq(Lights)
  <2> SUFFICES ASSUME NEW i \in 1 .. Len(devices) PROVE Without(devices, i) \in Seq(Lights)
    BY <1>1
  <2>1. Len(devices) - 1 \in Nat
    BY <1>1
  <2>2. \A j \in 1 .. Len(devices) - 1 :
          (IF j < i THEN devices[j] ELSE devices[j + 1]) \in Lights
    BY <1>1
  <2> QED
    BY <2>1, <2>2 DEF Without
<1> QED
  BY <1>1, <1>2 DEF Lists

\* Nothing was told by a refresh that has read nothing.
LEMMA UnreadTellsNothing ==
  ASSUME ViewTypeOK, AnswerIsTrue, flight.kind = "refresh", flight.answer = "none"
  PROVE  flight \in Reads /\ flight.read = NoItem /\ \A d : ~Coming(d) /\ ~Acted(d)
BY FlightIs DEF AnswerIsTrue, Coming, Tells, Acted

\* A step of a refresh that does not read the keyboard.
LEMMA RefreshKeepsView ==
  ASSUME EditorIInv, ViewIsTrue, Refreshes \/ ReadsCaps \/ RefreshFails
  PROVE  ViewIsTrue'
<1>0. UNCHANGED <<devices, look, app, editor, past>>
  BY DEF Refreshes, ReadsCaps, RefreshFails
<1>1. /\ ViewTypeOK /\ LightingIsTrue /\ AnswerIsTrue /\ RememberedIsTrue
      /\ ObservedIsShown /\ DraftIsOwn /\ LooksOK /\ app \in Apps /\ editor \in Editors
      /\ past \in Pasts /\ left \in [presses : Nat, disturbances : Nat]
      /\ devices \in Machines
  BY DEF EditorIInv, ViewIsTrue, ViewTypeOK
<1>2. Lights' = Lights /\ DeviceIds' = DeviceIds
  BY <1>0 DEF Lights, DeviceIds
<1>3. left' \in [presses : Nat, disturbances : Nat]
  BY <1>1 DEF Refreshes, ReadsCaps, RefreshFails, Acts, Disturbs
<1>4. /\ flight' \in Reads /\ flight'.kind = "refresh" /\ flight'.read = NoItem
      /\ flight.kind \in {"none", "refresh"} /\ \A d : ~Coming(d)
  <2>1. CASE Refreshes
    <3>1. /\ flight = NoRequest
          /\ flight' = [kind |-> "refresh", answer |-> "none", caps |-> NoCaps, read |-> NoItem]
      BY <2>1 DEF Refreshes
    <3>2. flight' \in Reads /\ flight'.kind = "refresh" /\ flight'.read = NoItem
      BY <3>1 DEF Reads, AnswersOf
    <3> QED
      BY <3>1, <3>2, NothingComes DEF NoRequest
  <2>2. CASE ReadsCaps \/ RefreshFails
    <3>1. flight.kind = "refresh" /\ flight.answer = "none"
      BY <2>2 DEF ReadsCaps, RefreshFails
    <3>2. flight \in Reads /\ flight.read = NoItem /\ \A d : ~Coming(d) /\ ~Acted(d)
      BY <1>1, <3>1, UnreadTellsNothing
    <3>3. \/ \E caps \in Lists : flight' = [flight EXCEPT !.caps = caps]
          \/ flight' = [flight EXCEPT !.answer = "failed"]
      BY <1>1, <2>2, DevicesAreListed DEF ReadsCaps, RefreshFails
    <3>4. flight' \in Reads /\ flight'.kind = "refresh" /\ flight'.read = NoItem
      BY <3>1, <3>2, <3>3 DEF Reads, AnswersOf
    <3> QED
      BY <3>1, <3>2, <3>4
  <2> QED
    BY <2>1, <2>2
<1>5. \A d : ~Coming(d)' /\ ~Tells(d)' /\ ~Acted(d)'
  BY <1>4 DEF Coming, Tells, Acted
<1>6. flight' \in ({NoRequest} \cup Applies \cup Powers \cup Reads)'
  BY <1>2, <1>4 DEF Reads, Lists
<1>7. ViewTypeOK'
  BY <1>0, <1>1, <1>2, <1>3, <1>6 DEF ViewTypeOK, LooksOK, Apps, Lists, Remembered, Editors, Pasts
<1>8. LightingIsTrue' /\ RememberedIsTrue'
  BY <1>0, <1>1, <1>2, <1>4, <1>5 DEF LightingIsTrue, RememberedIsTrue, Agrees, Describes
<1>9. RequestIsOwn' /\ AnswerIsTrue'
  BY <1>2, <1>4, <1>5 DEF RequestIsOwn, AnswerIsTrue
<1>10. ObservedIsShown'
  BY <1>0, <1>1 DEF ObservedIsShown, Observed, Selected, Readable
<1>11. DraftIsOwn'
  <2>1. flight.kind \notin {"apply", "power"} /\ flight'.kind \notin {"apply", "power"}
    BY <1>4
  <2> QED
    BY <1>0, <1>1, <2>1, DraftStays
<1> QED
  BY <1>7, <1>8, <1>9, <1>10, <1>11 DEF ViewIsTrue

\* What the firmware says is what the device does.
LEMMA FirmwareIs ==
  ASSUME devices \in Machines, devices' = devices, LooksOK', NEW d \in Lights,
         NEW s, s = Firmware(d)
  PROVE  /\ s \in States /\ s # NoItem /\ s.available
         /\ s.mode = look'[d.id].mode /\ s.brightness = look'[d.id].brightness
         /\ \A z \in 1 .. d.zones : s.zones[z] = look'[d.id].zones[z]
<1> DEFINE l == look'[d.id]
<1>1. Lights' = Lights /\ DeviceIds' = DeviceIds /\ Displays' = Displays
  BY DEF Lights, DeviceIds, Displays
<1>2. look' \in [DeviceIds -> Displays] /\ d.id \in DeviceIds
      /\ d.zones \in 1 .. Len(DefaultTints) /\ Len(DefaultTints) \in Nat
      /\ DOMAIN DefaultTints = 1 .. Len(DefaultTints)
  BY <1>1, LightIs, EditorAssumption DEF LooksOK
<1>3. l \in Displays /\ Len(l.zones) >= d.zones
  BY <1>1, <1>2 DEF LooksOK
<1> HIDE DEF l
<1>4. l.zones \in Seq(Hues) /\ l.mode \in Modes /\ l.brightness \in 0 .. Full /\ l.color \in Hues
  BY <1>3 DEF Displays
<1>5. /\ Draft(l.zones) \in Wells
      /\ \A z \in DOMAIN DefaultTints : z <= Len(l.zones) => Draft(l.zones)[z] = l.zones[z]
  BY <1>4, DraftIsWells
<1>6. s = [available |-> TRUE, mode |-> l.mode, brightness |-> l.brightness,
           color |-> l.color, zones |-> Draft(l.zones)]
  BY DEF Firmware, l
<1>7. s \in States /\ s.available
  BY <1>4, <1>5, <1>6 DEF States
<1>8. s # NoItem
  BY <1>7, EditorAssumption
<1>9. \A z \in 1 .. d.zones : Draft(l.zones)[z] = l.zones[z]
  <2> SUFFICES ASSUME NEW z \in 1 .. d.zones PROVE Draft(l.zones)[z] = l.zones[z]
    OBVIOUS
  <2>1. z \in DOMAIN DefaultTints /\ z <= Len(l.zones)
    BY <1>2, <1>3, <1>4
  <2> QED
    BY <1>5, <2>1
<1> QED
  BY <1>6, <1>7, <1>8, <1>9 DEF l

\* The draft and the look that the window starts with.
LEMMA DefaultIs ==
  /\ DefaultTints \in Wells /\ DefaultLighting \in States
  /\ \A a \in BOOLEAN : [DefaultLighting EXCEPT !.available = a] \in States
<1>1. /\ DefaultTints \in [1 .. Len(DefaultTints) -> Hues]
      /\ DOMAIN DefaultTints = 1 .. Len(DefaultTints) /\ 1 \in 1 .. Len(DefaultTints)
  BY EditorAssumption DEF Hues
<1>2. DefaultTints \in Wells /\ DefaultTints[1] \in Hues
  BY <1>1 DEF Wells
<1>3. \A a \in BOOLEAN : [DefaultLighting EXCEPT !.available = a] =
        [available |-> a, mode |-> "static", brightness |-> Full, color |-> DefaultTints[1],
         zones |-> DefaultTints]
  BY DEF DefaultLighting
<1>4. \A a \in BOOLEAN : [DefaultLighting EXCEPT !.available = a] \in States
  <2> SUFFICES ASSUME NEW a \in BOOLEAN PROVE [DefaultLighting EXCEPT !.available = a] \in States
    OBVIOUS
  <2> DEFINE s == [DefaultLighting EXCEPT !.available = a]
             tints == DefaultTints
             tint == DefaultTints[1]
  <2>1. s = [available |-> a, mode |-> "static", brightness |-> Full, color |-> tint,
             zones |-> tints]
    BY <1>3
  <2>2. tint \in Hues /\ tints \in Wells
    BY <1>2
  <2> HIDE DEF s, tint, tints
  <2>3. s \in States
    BY <2>1, <2>2 DEF States, Modes, Full
  <2> QED
    BY <2>3 DEF s
<1>5. DefaultLighting \in States
  BY <1>2 DEF DefaultLighting, States, Modes, Full
<1> QED
  BY <1>2, <1>4, <1>5

\* The keyboard is read back, or the refresh goes on without it.
LEMMA ReadingKeepsView ==
  ASSUME OneKeyboard, EditorIInv, ViewIsTrue, ReadsKeyboard
  PROVE  ViewIsTrue'
<1> DEFINE listed == {flight.caps[i] : i \in DOMAIN flight.caps}
           zoned == {d \in listed : IsReadableKeyboard(d)}
           some == \E i \in DOMAIN flight.caps : flight.caps[i].target = "keyboard"
           blank == [DefaultLighting EXCEPT !.available = some]
<1>0. /\ UNCHANGED <<devices, look, app, editor>>
      /\ flight.kind = "refresh" /\ flight.answer = "none" /\ flight.caps # NoCaps
  BY DEF ReadsKeyboard
<1>1. /\ ViewTypeOK /\ LightingIsTrue /\ AnswerIsTrue /\ RememberedIsTrue
      /\ ObservedIsShown /\ DraftIsOwn /\ LooksOK /\ app \in Apps /\ editor \in Editors
      /\ past \in Pasts /\ left \in [presses : Nat, disturbances : Nat]
      /\ devices \in Machines
  BY DEF EditorIInv, ViewIsTrue, ViewTypeOK
<1>2. Lights' = Lights /\ DeviceIds' = DeviceIds
  BY <1>0 DEF Lights, DeviceIds
<1>3. flight \in Reads /\ flight.read = NoItem /\ \A d : ~Coming(d) /\ ~Acted(d)
  BY <1>0, <1>1, UnreadTellsNothing
<1>4. flight.caps \in Seq(Lights) /\ listed \subseteq Lights
  <2>1. flight.caps \in Seq(Lights)
    BY <1>0, <1>3 DEF Reads, Lists
  <2> QED
    BY <2>1
<1>5. /\ \/ /\ zoned = {} /\ flight' = [flight EXCEPT !.answer = "done", !.read = blank]
            /\ UNCHANGED <<left, past>>
         \/ \E d \in zoned : /\ flight' = [flight EXCEPT !.answer = "done", !.read = Firmware(d)]
                             /\ past' = [past EXCEPT !.altered = @ \ {d.id}]
                             /\ UNCHANGED left
         \/ zoned # {} /\ Disturbs /\ flight' = [flight EXCEPT !.answer = "done"]
            /\ UNCHANGED past
  BY DEF ReadsKeyboard
<1>6. left' \in [presses : Nat, disturbances : Nat]
  <2>1. left' = left \/ Disturbs
    BY <1>5
  <2> QED
    BY <1>1, <2>1 DEF Disturbs
<1>7. LooksOK'
  BY <1>0, <1>1, <1>2 DEF LooksOK
\* What has to be shown of each of the ways.
<1>8. ASSUME past' \in Pasts, past'.of = past.of, past'.behind = past.behind,
             past'.read = past.read, flight' \in Reads, flight'.kind = "refresh",
             LightingIsTrue', RememberedIsTrue', AnswerIsTrue'
      PROVE  ViewIsTrue'
  <2>1. flight' \in ({NoRequest} \cup Applies \cup Powers \cup Reads)'
    BY <1>2, <1>8 DEF Reads, Lists
  <2>2. ViewTypeOK'
    BY <1>0, <1>1, <1>2, <1>6, <1>7, <1>8, <2>1 DEF ViewTypeOK, Apps, Lists, Remembered, Editors, Pasts
  <2>3. RequestIsOwn'
    BY <1>8 DEF RequestIsOwn, Acted
  <2>4. ObservedIsShown'
    BY <1>0, <1>1 DEF ObservedIsShown, Observed, Selected, Readable
  <2>5. flight.kind \notin {"apply", "power"} /\ flight'.kind \notin {"apply", "power"}
    BY <1>0, <1>8
  <2>6. DraftIsOwn'
    BY <1>0, <1>1, <1>8, <2>5, DraftStays
  <2> QED
    BY <1>8, <2>2, <2>3, <2>4, <2>6 DEF ViewIsTrue
<1>9. CASE zoned = {} /\ flight' = [flight EXCEPT !.answer = "done", !.read = blank]
           /\ UNCHANGED <<left, past>>
  <2>1. some \in BOOLEAN
    OBVIOUS
  <2>2. blank \in States /\ blank.available = some
    BY <2>1, DefaultIs DEF DefaultLighting
  <2>3. \A d \in Lights : d.readable => ~some /\ \A i \in DOMAIN flight.caps : flight.caps[i] # d
    <3> SUFFICES ASSUME NEW d \in Lights, d.readable, NEW i \in DOMAIN flight.caps
                 PROVE  flight.caps[i].target # "keyboard" /\ flight.caps[i] # d
      OBVIOUS
    <3>1. flight.caps[i] \in Lights /\ flight.caps[i] \in listed
      BY <1>4
    <3>2. flight.caps[i].target = "keyboard" => flight.caps[i] = d
      BY <1>1, <3>1 DEF OneKeyboard, Lights
    <3>3. IsReadableKeyboard(d)
      BY <1>1, LightIs
    <3>4. flight.caps[i] # d
      BY <1>9, <3>1, <3>3
    <3> QED
      BY <3>2, <3>4
  <2> HIDE DEF some, blank
  <2>4. /\ flight' \in Reads /\ flight'.kind = "refresh" /\ flight'.caps = flight.caps
        /\ flight'.read = blank /\ flight'.answer = "done"
    BY <1>0, <1>3, <1>9, <2>2 DEF Reads, AnswersOf
  <2>5. \A d \in Lights : ~Tells(d)'
    BY <1>2, <2>3, <2>4 DEF Tells
  <2>6. \A d \in Lights : ~Coming(d)'
    BY <2>4, <2>5 DEF Coming, Acted
  <2>7. LightingIsTrue' /\ RememberedIsTrue'
    BY <1>0, <1>1, <1>2, <1>3, <1>9, <2>6 DEF LightingIsTrue, RememberedIsTrue, Agrees, Describes
  <2>8. AnswerIsTrue'
    BY <1>0, <1>2, <2>2, <2>3, <2>4, <2>5 DEF AnswerIsTrue, Acted
  <2> QED
    BY <1>1, <1>2, <1>8, <1>9, <2>4, <2>7, <2>8 DEF Pasts
<1>10. ASSUME NEW d \in zoned, flight' = [flight EXCEPT !.answer = "done", !.read = Firmware(d)],
              past' = [past EXCEPT !.altered = @ \ {d.id}]
       PROVE  ViewIsTrue'
  <2>0. PICK s : s = Firmware(d)
    OBVIOUS
  <2>1. d \in Lights /\ d \in listed /\ IsReadableKeyboard(d)
    BY <1>4
  <2>2. /\ s \in States /\ s # NoItem /\ s.available
        /\ s.mode = look[d.id].mode /\ s.brightness = look[d.id].brightness
        /\ \A z \in 1 .. d.zones : s.zones[z] = look[d.id].zones[z]
    BY <1>0, <1>1, <1>7, <2>0, <2>1, FirmwareIs
  <2>3. /\ flight' \in Reads /\ flight'.kind = "refresh" /\ flight'.caps = flight.caps
        /\ flight'.read = s /\ flight'.answer = "done"
    BY <1>0, <1>3, <1>10, <2>0, <2>2 DEF Reads, AnswersOf
  <2>4. /\ past' \in Pasts /\ past'.of = past.of /\ past'.behind = past.behind
        /\ past'.read = past.read /\ past'.altered = past.altered \ {d.id}
    BY <1>1, <1>10 DEF Pasts
  <2>5. d.readable /\ Tells(d)'
    <3>1. d.readable /\ \E i \in DOMAIN flight.caps : flight.caps[i] = d
      BY <2>1 DEF IsReadableKeyboard
    <3> QED
      BY <2>2, <2>3, <3>1 DEF Tells
  <2>6. \A l \in Lights : l # d => ~l.readable /\ l.id # d.id /\ ~Tells(l)' /\ ~Coming(l)'
    <3> SUFFICES ASSUME NEW l \in Lights, l # d
                 PROVE  ~l.readable /\ l.id # d.id /\ ~Tells(l)' /\ ~Coming(l)'
      OBVIOUS
    <3>1. ~l.readable /\ l.id # d.id
      BY <1>1, <2>1, <2>5, LightIs
    <3> QED
      BY <2>3, <3>1 DEF Tells, Coming, Acted
  <2>7. Coming(d)' /\ ~Acted(d)'
    BY <2>3, <2>5 DEF Coming, Acted
  <2>8. LightingIsTrue'
    BY <1>0, <1>1, <1>2, <2>4, <2>6, <2>7 DEF LightingIsTrue
  <2>9. RememberedIsTrue'
    <3> SUFFICES ASSUME NEW r \in app.last, NEW l \in Lights, r.id = l.id
                 PROVE  /\ r.mode = "static" => Len(r.zones) = l.zones
                        /\ l.id \notin past'.altered \cup past'.read /\ ~Coming(l)' => Describes(r, l)'
      BY <1>0, <1>1, <1>2 DEF RememberedIsTrue
    <3>1. r.mode = "static" => Len(r.zones) = l.zones
      BY <1>1 DEF RememberedIsTrue
    <3>2. CASE l # d
      <4>1. l.id \notin past'.altered \cup past'.read => l.id \notin past.altered \cup past.read
        BY <2>4, <2>6, <3>2
      <4>2. l.id \notin past.altered \cup past.read => Describes(r, l)
        BY <1>1, <1>3 DEF RememberedIsTrue
      <4> QED
        BY <1>0, <3>1, <4>1, <4>2 DEF Describes
    <3> QED
      BY <2>7, <3>1, <3>2
  <2>10. AnswerIsTrue'
    <3>1. Agrees(s, d)'
      BY <1>0, <2>2 DEF Agrees
    <3>2. \A l \in Lights : ~Acted(l)'
      BY <2>3 DEF Acted
    <3> QED
      BY <1>0, <1>2, <2>2, <2>3, <2>5, <2>6, <3>1, <3>2 DEF AnswerIsTrue
  <2> QED
    BY <1>8, <2>3, <2>4, <2>8, <2>9, <2>10
<1>11. CASE zoned # {} /\ Disturbs /\ flight' = [flight EXCEPT !.answer = "done"]
            /\ UNCHANGED past
  <2>1. /\ flight' \in Reads /\ flight'.kind = "refresh" /\ flight'.read = NoItem
    BY <1>0, <1>3, <1>11 DEF Reads, AnswersOf
  <2>2. \A d : ~Coming(d)' /\ ~Tells(d)' /\ ~Acted(d)'
    BY <2>1 DEF Coming, Tells, Acted
  <2>3. LightingIsTrue' /\ RememberedIsTrue'
    BY <1>0, <1>1, <1>2, <1>3, <1>11, <2>2 DEF LightingIsTrue, RememberedIsTrue, Agrees, Describes
  <2>4. AnswerIsTrue'
    BY <2>1, <2>2 DEF AnswerIsTrue
  <2> QED
    BY <1>1, <1>2, <1>8, <1>11, <2>1, <2>3, <2>4 DEF Pasts
<1> HIDE DEF zoned, blank
<1> QED
  BY <1>5, <1>9, <1>10, <1>11

\* What was stored is the look, with the brightness that comes back with the power.
LEMMA StoredIs ==
  ASSUME NEW old \in Displays, NEW new \in Displays
  PROVE  LET s == Stored(old, new)
         IN /\ s \in Displays /\ s.mode = new.mode /\ s.brightness = new.brightness
            /\ s.zones = new.zones
<1> DEFINE saved == IF new.brightness > 0 THEN new.brightness
                    ELSE IF old.brightness > 0 THEN old.brightness ELSE new.saved
<1>1. saved \in 0 .. Full
  BY DEF Displays
<1>2. Stored(old, new) = [new EXCEPT !.saved = saved]
  BY DEF Stored
<1> HIDE DEF saved
<1> QED
  BY <1>1, <1>2 DEF Displays

\* What a request makes of a device is what it asks for.
LEMMA ShapedIs ==
  ASSUME devices \in Machines, LooksOK, NEW d \in Lights, NEW r \in Applies \cup Powers,
         r.kind = "apply" => /\ r.mode = "static" => Len(r.zones) = d.zones
                             /\ r.mode = "off" => ~d.readable
  PROVE  LET s == Shaped(d, r)
         IN /\ s \in Displays /\ Len(s.zones) >= d.zones
            /\ r.kind = "apply" =>
                 /\ s.mode = IF r.mode = "off" THEN "static" ELSE r.mode
                 /\ s.brightness = IF r.mode = "off" THEN 0 ELSE r.brightness
                 /\ r.mode = "static" => \A z \in 1 .. d.zones : s.zones[z] = r.zones[z]
<1> DEFINE old == look[d.id]
<1>1. /\ d.id \in DeviceIds /\ d.zones \in 1 .. Len(DefaultTints) /\ Len(DefaultTints) \in Nat
      /\ d.readable \in BOOLEAN /\ d.backend \in {"zoned-wmi", "enek5130"}
      /\ (d.backend = "zoned-wmi" <=> d.readable)
  BY LightIs
<1>2. old \in Displays /\ Len(old.zones) >= d.zones
  BY <1>1 DEF LooksOK
<1> DEFINE new == CASE r.kind = "power" -> SetPower(old, r.enabled)
                    [] r.kind = "apply" /\ r.mode = "off" ->
                         IF d.backend = "enek5130" THEN Blank(old, d) ELSE SetPower(old, FALSE)
                    [] r.kind = "apply" /\ r.mode = "static" -> SetZones(old, d, r)
                    [] OTHER -> SetEffect(old, r)
<1>3. Shaped(d, r) = Stored(old, new)
  BY DEF Shaped
<1>4. d.zones \in Nat
  BY <1>1
<1>5. /\ new \in Displays /\ Len(new.zones) >= d.zones
      /\ r.kind = "apply" =>
           /\ new.mode = IF r.mode = "off" THEN "static" ELSE r.mode
           /\ new.brightness = IF r.mode = "off" THEN 0 ELSE r.brightness
           /\ r.mode = "static" => \A z \in 1 .. d.zones : new.zones[z] = r.zones[z]
  <2>1. CASE r.kind = "power"
    <3>1. new = SetPower(old, r.enabled)
      BY <2>1
    <3> DEFINE b == IF ~r.enabled THEN 0 ELSE IF old.brightness > 0 THEN old.brightness ELSE old.saved
    <3> HIDE DEF new, old
    <3>2. new = [old EXCEPT !.brightness = b]
      BY <3>1 DEF SetPower
    <3>3. b \in 0 .. Full
      BY <1>2 DEF Displays, Full
    <3> HIDE DEF b
    <3>4. new \in Displays /\ new.zones = old.zones
      BY <1>2, <3>2, <3>3 DEF Displays
    <3> QED
      BY <1>2, <2>1, <3>4
  <2>2. CASE r.kind = "apply" /\ r.mode = "off"
    <3>1. new = Blank(old, d)
      BY <1>1, <2>2
    <3> DEFINE none == [i \in 1 .. d.zones |-> NoTint]
    <3>2. none \in Seq(Hues) /\ Len(none) = d.zones
      BY <1>4 DEF Hues
    <3> HIDE DEF new, old
    <3>3. new = [old EXCEPT !.mode = "static", !.brightness = 0, !.zones = none]
      BY <3>1 DEF Blank
    <3> HIDE DEF none
    <3>4. /\ new \in Displays /\ new.zones = none /\ new.mode = "static" /\ new.brightness = 0
      <4>1. "static" \in Modes /\ 0 \in 0 .. Full
        BY DEF Modes, Full
      <4> QED
        BY <1>2, <3>2, <3>3, <4>1 DEF Displays
    <3> QED
      BY <1>4, <2>2, <3>2, <3>4
  <2>3. CASE r.kind = "apply" /\ r.mode = "static"
    <3>1. new = SetZones(old, d, r)
      BY <2>3
    <3>2. r \in Applies /\ Len(r.zones) = d.zones
      BY <2>3 DEF Powers
    <3>3. r.zones \in Seq(Hues) /\ r.color \in Hues /\ r.brightness \in 0 .. Full
      BY <3>2 DEF Applies
    <3> DEFINE wells == [i \in 1 .. d.zones |-> IF r.zones = <<>> THEN r.color
                                                ELSE IF Len(r.zones) = 1 THEN r.zones[1]
                                                ELSE r.zones[i]]
    <3>4. r.zones # <<>> /\ \A i \in 1 .. d.zones : r.zones[i] \in Hues
      BY <1>1, <3>2, <3>3
    <3>5. \A i \in 1 .. d.zones : wells[i] = r.zones[i]
      BY <1>1, <3>2, <3>4
    <3>6. wells \in Seq(Hues) /\ Len(wells) = d.zones
      BY <1>4, <3>4, <3>5
    <3> HIDE DEF new, old
    <3>7. new = [old EXCEPT !.mode = "static", !.brightness = r.brightness, !.zones = wells]
      BY <3>1 DEF SetZones
    <3> HIDE DEF wells
    <3>8. /\ new \in Displays /\ new.zones = wells /\ new.mode = "static"
          /\ new.brightness = r.brightness
      BY <1>2, <3>3, <3>6, <3>7 DEF Displays, Modes
    <3> QED
      BY <1>4, <2>3, <3>5, <3>6, <3>8
  <2>4. CASE r.kind = "apply" /\ r.mode \notin {"off", "static"}
    <3>1. new = SetEffect(old, r)
      BY <2>4
    <3>2. r \in Applies
      BY <2>4 DEF Powers
    <3>3. r.mode \in Modes /\ r.color \in Hues /\ r.brightness \in 0 .. Full
      BY <2>4, <3>2 DEF Applies
    <3> HIDE DEF new, old
    <3>4. new = [old EXCEPT !.mode = r.mode, !.brightness = r.brightness, !.color = r.color]
      BY <3>1 DEF SetEffect
    <3>5. /\ new \in Displays /\ new.zones = old.zones /\ new.mode = r.mode
          /\ new.brightness = r.brightness
      BY <1>2, <3>3, <3>4 DEF Displays
    <3> QED
      BY <1>2, <2>4, <3>5
  <2>5. r.kind \in {"apply", "power"}
    BY DEF Applies, Powers
  <2> QED
    BY <2>1, <2>2, <2>3, <2>4, <2>5
<1> HIDE DEF new, old
<1> QED
  BY <1>2, <1>3, <1>5, StoredIs

\* Who asks for something asks for it of a device.
LEMMA RequestIsOf ==
  ASSUME EditorIInv, ViewTypeOK, RequestIsOwn, flight.kind \in {"apply", "power"}
  PROVE  LET d == DeviceOf(flight.id)
         IN /\ d \in Lights /\ d.id = flight.id /\ Acted(d) /\ flight \in Applies \cup Powers
            /\ flight.kind = "power" => d.readable
            /\ flight.kind = "apply" =>
                 /\ flight.readable = Readable(app, d)
                 /\ flight.mode = "static" => Len(flight.zones) = d.zones
                 /\ flight.mode = "off" => ~d.readable
            /\ \A e \in Lights : e # d => ~Acted(e)
<1> DEFINE d == DeviceOf(flight.id)
<1>1. flight \in Applies \cup Powers /\ flight.id \in DeviceIds
  BY FlightIs DEF Applies, Powers
<1>2. d \in Lights /\ d.id = flight.id
  BY <1>1, IdIsOf DEF EditorIInv
<1> HIDE DEF d
<1>3. Acted(d)
  BY <1>2 DEF Acted
<1>4. \A e \in Lights : e # d => ~Acted(e)
  BY <1>2, LightIs DEF EditorIInv, Acted
<1>5. /\ flight.kind = "power" => d.readable
      /\ flight.kind = "apply" =>
           /\ flight.readable = Readable(app, d)
           /\ flight.mode = "static" => Len(flight.zones) = d.zones
           /\ flight.mode = "off" => ~d.readable
  BY <1>2, <1>3 DEF RequestIsOwn
<1> QED
  BY <1>1, <1>2, <1>3, <1>4, <1>5 DEF d

\* The daemon carries a request out.
LEMMA ServingKeepsView ==
  ASSUME EditorIInv, ViewIsTrue, Serves
  PROVE  ViewIsTrue'
<1>1. /\ ViewTypeOK /\ LightingIsTrue /\ RequestIsOwn /\ AnswerIsTrue /\ RememberedIsTrue
      /\ ObservedIsShown /\ DraftIsOwn /\ LooksOK /\ app \in Apps /\ editor \in Editors
      /\ past \in Pasts /\ left \in [presses : Nat, disturbances : Nat]
      /\ devices \in Machines
  BY DEF EditorIInv, ViewIsTrue, ViewTypeOK
<1>2. /\ flight.kind \in {"apply", "power"} /\ flight.answer = "none"
      /\ UNCHANGED <<devices, app, editor, left>>
  BY DEF Serves
<1>0. PICK d : d = DeviceOf(flight.id)
  OBVIOUS
<1>3. /\ d \in Lights /\ d.id = flight.id /\ Acted(d) /\ flight \in Applies \cup Powers
      /\ flight.kind = "power" => d.readable
      /\ flight.kind = "apply" =>
           /\ flight.readable = Readable(app, d)
           /\ flight.mode = "static" => Len(flight.zones) = d.zones
           /\ flight.mode = "off" => ~d.readable
      /\ \A e \in Lights : e # d => ~Acted(e)
  BY <1>0, <1>1, <1>2, RequestIsOf
<1>4. Accepts(d, flight)
  <2>1. PICK i \in DOMAIN devices : devices[i].id = flight.id /\ Accepts(devices[i], flight)
    BY <1>2 DEF EditorIInv, RequestFits
  <2>2. devices[i] \in Lights
    BY DEF Lights
  <2> QED
    BY <1>1, <1>3, <2>1, <2>2, LightIs
<1>5. /\ look' = [look EXCEPT ![d.id] = Shaped(d, flight)]
      /\ flight' = [flight EXCEPT !.answer = "done",
                                  !.state = IF d.readable THEN Firmware(d) ELSE NoItem]
      /\ past' = [past EXCEPT !.altered = @ \ {d.id}]
  BY <1>0, <1>4 DEF Serves
<1> DEFINE s == Shaped(d, flight)
<1>6. Lights' = Lights /\ DeviceIds' = DeviceIds /\ d.id \in DeviceIds
  BY <1>1, <1>2, <1>3, LightIs DEF Lights, DeviceIds
<1>7. /\ s \in Displays /\ Len(s.zones) >= d.zones
      /\ flight.kind = "apply" =>
           /\ s.mode = IF flight.mode = "off" THEN "static" ELSE flight.mode
           /\ s.brightness = IF flight.mode = "off" THEN 0 ELSE flight.brightness
           /\ flight.mode = "static" => \A z \in 1 .. d.zones : s.zones[z] = flight.zones[z]
  BY <1>1, <1>3, ShapedIs
<1> HIDE DEF s
<1>8. /\ look'[d.id] = s /\ look' \in [DeviceIds -> Displays]
      /\ \A l \in Lights : l # d => l.id # d.id /\ look'[l.id] = look[l.id]
  <2>1. look \in [DeviceIds -> Displays] /\ look' = [look EXCEPT ![d.id] = s]
    BY <1>1, <1>5 DEF LooksOK, s
  <2>2. \A l \in Lights : l # d => l.id # d.id
    BY <1>1, <1>3, LightIs
  <2>3. \A l \in Lights : l.id \in DeviceIds
    BY <1>1, LightIs
  <2> QED
    BY <1>6, <1>7, <2>1, <2>2, <2>3
<1>9. LooksOK'
  BY <1>1, <1>6, <1>7, <1>8 DEF LooksOK, Displays
<1>10. PICK firm : firm = Firmware(d)
  OBVIOUS
<1>11. /\ firm \in States /\ firm # NoItem /\ firm.available
       /\ firm.mode = s.mode /\ firm.brightness = s.brightness
       /\ \A z \in 1 .. d.zones : firm.zones[z] = s.zones[z]
  BY <1>1, <1>2, <1>3, <1>8, <1>9, <1>10, FirmwareIs
<1>12. PICK state \in States \cup {NoItem} : state = IF d.readable THEN firm ELSE NoItem
  BY <1>11
<1>13. flight' = [flight EXCEPT !.answer = "done", !.state = state]
  BY <1>5, <1>10, <1>12
<1>14. /\ flight' \in Applies \cup Powers /\ flight'.kind = flight.kind
       /\ flight'.id = flight.id /\ flight'.answer = "done" /\ flight'.state = state
       /\ flight.kind = "apply" =>
            /\ flight'.mode = flight.mode /\ flight'.readable = flight.readable
            /\ flight'.brightness = flight.brightness /\ flight'.zones = flight.zones
  <2>1. CASE flight \in Applies
    BY <1>13, <2>1 DEF Applies, AnswersOf
  <2>2. CASE flight \in Powers
    BY <1>13, <2>2 DEF Powers, AnswersOf
  <2> QED
    BY <1>3, <2>1, <2>2
<1>15. /\ past' \in Pasts /\ past'.of = past.of /\ past'.behind = past.behind
       /\ past'.read = past.read /\ past'.altered = past.altered \ {d.id}
  BY <1>1, <1>5 DEF Pasts
<1>16. flight' \in ({NoRequest} \cup Applies \cup Powers \cup Reads)'
  BY <1>6, <1>14 DEF Applies, Powers
<1>17. ViewTypeOK'
  BY <1>1, <1>2, <1>6, <1>9, <1>15, <1>16 DEF ViewTypeOK, Apps, Lists, Remembered, Editors, Pasts
<1>18. /\ \A l \in Lights : Acted(l)' <=> Acted(l)
       /\ \A l : ~Tells(l) /\ ~Tells(l)' /\ ~Coming(l)
       /\ Coming(d)'
       /\ \A l \in Lights : l # d => ~Coming(l)'
  BY <1>2, <1>3, <1>14 DEF Acted, Tells, Coming
<1>19. LightingIsTrue'
  <2> SUFFICES ASSUME NEW l \in Lights, l.readable, app.lighting.available
               PROVE  /\ l.id \in past'.read
                      /\ l.id \notin past'.altered /\ ~Coming(l)' => Agrees(app.lighting, l)'
    BY <1>2, <1>6 DEF LightingIsTrue
  <2>1. l.id \in past'.read
    BY <1>1, <1>15 DEF LightingIsTrue
  <2>2. CASE l # d
    <3>1. l.id \notin past'.altered => Agrees(app.lighting, l)
      BY <1>1, <1>8, <1>15, <1>18, <2>2 DEF LightingIsTrue
    <3> QED
      BY <1>2, <1>8, <2>1, <2>2, <3>1 DEF Agrees
  <2> QED
    BY <1>18, <2>1, <2>2
<1>20. RememberedIsTrue'
  <2> SUFFICES ASSUME NEW r \in app.last, NEW l \in Lights, r.id = l.id
               PROVE  /\ r.mode = "static" => Len(r.zones) = l.zones
                      /\ l.id \notin past'.altered \cup past'.read /\ ~Coming(l)' => Describes(r, l)'
    BY <1>1, <1>2, <1>6 DEF RememberedIsTrue
  <2>1. r.mode = "static" => Len(r.zones) = l.zones
    BY <1>1 DEF RememberedIsTrue
  <2>2. CASE l # d
    <3>1. l.id \notin past'.altered \cup past'.read => Describes(r, l)
      BY <1>1, <1>8, <1>15, <1>18, <2>2 DEF RememberedIsTrue
    <3> QED
      BY <1>8, <2>1, <2>2, <3>1 DEF Describes
  <2> QED
    BY <1>18, <2>1, <2>2
<1>21. RequestIsOwn'
  BY <1>1, <1>2, <1>6, <1>14, <1>18 DEF RequestIsOwn, Readable
<1>22. AnswerIsTrue'
  <2>1. d.readable => /\ flight'.state # NoItem /\ flight'.state.available
                      /\ Agrees(flight.state, d)'
    BY <1>8, <1>11, <1>12, <1>14 DEF Agrees
  <2>2. flight.kind = "apply" => Describes(flight, d)'
    BY <1>7, <1>8, <1>14 DEF Describes
  <2>3. flight.kind = "apply" /\ flight.mode = "static" /\ d.readable =>
           /\ flight'.state.mode = "static" /\ flight'.state.brightness = flight'.brightness
           /\ \A z \in 1 .. d.zones : flight'.state.zones[z] = flight'.zones[z]
    BY <1>7, <1>11, <1>12, <1>14
  <2>4. \A l \in Lights : Acted(l)' => l = d
    BY <1>3, <1>18
  <2> QED
    BY <1>2, <1>6, <1>14, <1>18, <2>1, <2>2, <2>3, <2>4 DEF AnswerIsTrue
<1>23. ObservedIsShown'
  BY <1>1, <1>2 DEF ObservedIsShown, Observed, Selected, Readable
<1>24. DraftIsOwn'
  BY <1>1, <1>2, <1>14, <1>15, DraftStays
<1> QED
  BY <1>17, <1>19, <1>20, <1>21, <1>22, <1>23, <1>24 DEF ViewIsTrue

\* What a device shows is changed, and that is remembered.
LEMMA AlteredIs ==
  ASSUME LooksOK, past \in Pasts, devices \in Machines, NEW d \in Lights, devices' = devices,
         \/ UNCHANGED <<look, past>>
         \/ /\ \E b \in 0 .. Full : look' = [look EXCEPT ![d.id].brightness = b]
            /\ past' = [past EXCEPT !.altered = @ \cup {d.id}]
         \/ /\ \E mode \in Modes : look' = [look EXCEPT ![d.id].mode = mode]
            /\ past' = [past EXCEPT !.altered = @ \cup {d.id}]
  PROVE  /\ LooksOK' /\ past' \in Pasts /\ past'.of = past.of /\ past'.behind = past.behind
         /\ past'.read = past.read /\ past.altered \subseteq past'.altered
         /\ \A l \in Lights : l.id \notin past'.altered => look'[l.id] = look[l.id]
<1>1. Lights' = Lights /\ DeviceIds' = DeviceIds /\ d.id \in DeviceIds
  BY LightIs DEF Lights, DeviceIds
<1>2. look \in [DeviceIds -> Displays] /\ \A l \in Lights : Len(look[l.id].zones) >= l.zones
  BY DEF LooksOK
<1>3. \A l \in Lights : l.id \in DeviceIds
  BY LightIs
<1>4. CASE UNCHANGED <<look, past>>
  BY <1>1, <1>2, <1>4 DEF LooksOK, Displays
<1>5. ASSUME NEW new \in Displays, new.zones = look[d.id].zones,
             look' = [look EXCEPT ![d.id] = new], past' = [past EXCEPT !.altered = @ \cup {d.id}]
      PROVE  /\ LooksOK' /\ past' \in Pasts /\ past'.of = past.of /\ past'.behind = past.behind
             /\ past'.read = past.read /\ past.altered \subseteq past'.altered
             /\ \A l \in Lights : l.id \notin past'.altered => look'[l.id] = look[l.id]
  <2>1. look' \in [DeviceIds -> Displays]
    BY <1>1, <1>2, <1>5
  <2>2. \A l \in Lights : look'[l.id].zones = look[l.id].zones
                          /\ (l.id # d.id => look'[l.id] = look[l.id])
    BY <1>1, <1>2, <1>3, <1>5
  <2>3. LooksOK'
    BY <1>1, <1>2, <2>1, <2>2 DEF LooksOK, Displays
  <2>4. /\ past' \in Pasts /\ past'.of = past.of /\ past'.behind = past.behind
        /\ past'.read = past.read /\ past'.altered = past.altered \cup {d.id}
    BY <1>1, <1>5 DEF Pasts
  <2> QED
    BY <2>2, <2>3, <2>4
<1>6. ASSUME NEW b \in 0 .. Full, look' = [look EXCEPT ![d.id].brightness = b],
             past' = [past EXCEPT !.altered = @ \cup {d.id}]
      PROVE  /\ LooksOK' /\ past' \in Pasts /\ past'.of = past.of /\ past'.behind = past.behind
             /\ past'.read = past.read /\ past.altered \subseteq past'.altered
             /\ \A l \in Lights : l.id \notin past'.altered => look'[l.id] = look[l.id]
  <2> DEFINE new == [look[d.id] EXCEPT !.brightness = b]
  <2>1. new \in Displays /\ new.zones = look[d.id].zones
    BY <1>1, <1>2, <1>6 DEF Displays
  <2>2. look' = [look EXCEPT ![d.id] = new]
    BY <1>6
  <2> HIDE DEF new
  <2> QED
    BY <1>5, <1>6, <2>1, <2>2
<1>7. ASSUME NEW mode \in Modes, look' = [look EXCEPT ![d.id].mode = mode],
             past' = [past EXCEPT !.altered = @ \cup {d.id}]
      PROVE  /\ LooksOK' /\ past' \in Pasts /\ past'.of = past.of /\ past'.behind = past.behind
             /\ past'.read = past.read /\ past.altered \subseteq past'.altered
             /\ \A l \in Lights : l.id \notin past'.altered => look'[l.id] = look[l.id]
  <2> DEFINE new == [look[d.id] EXCEPT !.mode = mode]
  <2>1. new \in Displays /\ new.zones = look[d.id].zones
    <3>1. PICK old \in Displays : old = look[d.id]
      BY <1>1, <1>2
    <3>2. new = [old EXCEPT !.mode = mode]
      BY <3>1
    <3> HIDE DEF new
    <3>3. new \in Displays /\ new.zones = old.zones
      BY <3>2 DEF Displays
    <3> QED
      BY <3>1, <3>3
  <2>2. look' = [look EXCEPT ![d.id] = new]
    BY <1>7
  <2> HIDE DEF new
  <2> QED
    BY <1>5, <1>7, <2>1, <2>2
<1> QED
  BY <1>4, <1>6, <1>7

\* What is shown and remembered stays true of the devices that have not been changed.
LEMMA StillTrue ==
  ASSUME LightingIsTrue, RememberedIsTrue, UNCHANGED <<devices, app>>,
         past'.read = past.read, past.altered \subseteq past'.altered,
         \A l \in Lights : l.id \notin past'.altered => look'[l.id] = look[l.id],
         \A l \in Lights : Coming(l) => Coming(l)'
  PROVE  LightingIsTrue' /\ RememberedIsTrue'
<1>1. Lights' = Lights
  BY DEF Lights
<1>2. \A l \in Lights : \A s : l.id \notin past'.altered =>
        (Agrees(s, l) => Agrees(s, l)') /\ (Describes(s, l) => Describes(s, l)')
  BY DEF Agrees, Describes
<1>3. LightingIsTrue'
  BY <1>1, <1>2 DEF LightingIsTrue
<1>4. RememberedIsTrue'
  BY <1>1, <1>2 DEF RememberedIsTrue
<1> QED
  BY <1>3, <1>4

\* A request that fails may have changed the device, and says nothing of it.
LEMMA FailingKeepsView ==
  ASSUME EditorIInv, ViewIsTrue, ServingFails
  PROVE  ViewIsTrue'
<1>1. /\ ViewTypeOK /\ LightingIsTrue /\ RequestIsOwn /\ AnswerIsTrue /\ RememberedIsTrue
      /\ ObservedIsShown /\ DraftIsOwn /\ LooksOK /\ app \in Apps /\ editor \in Editors
      /\ past \in Pasts /\ left \in [presses : Nat, disturbances : Nat]
      /\ devices \in Machines
  BY DEF EditorIInv, ViewIsTrue, ViewTypeOK
<1>2. /\ flight.kind \in {"apply", "power"} /\ flight.answer = "none"
      /\ UNCHANGED <<devices, app, editor>> /\ flight' = [flight EXCEPT !.answer = "failed"]
      /\ Disturbs
  BY DEF ServingFails
<1>0. PICK d : d = DeviceOf(flight.id)
  OBVIOUS
<1>3. /\ d \in Lights /\ d.id = flight.id /\ flight \in Applies \cup Powers
  BY <1>0, <1>1, <1>2, RequestIsOf
<1>4. Lights' = Lights /\ DeviceIds' = DeviceIds /\ d.id \in DeviceIds
  BY <1>1, <1>2, <1>3, LightIs DEF Lights, DeviceIds
<1>5. /\ flight' \in Applies \cup Powers /\ flight'.kind = flight.kind
      /\ flight'.id = flight.id /\ flight'.answer = "failed"
      /\ flight.kind = "apply" =>
           /\ flight'.mode = flight.mode /\ flight'.readable = flight.readable
           /\ flight'.brightness = flight.brightness /\ flight'.zones = flight.zones
  <2>1. CASE flight \in Applies
    BY <1>2, <2>1 DEF Applies, AnswersOf
  <2>2. CASE flight \in Powers
    BY <1>2, <2>2 DEF Powers, AnswersOf
  <2> QED
    BY <1>3, <2>1, <2>2
<1>6. \A l : ~Coming(l) /\ ~Coming(l)' /\ ~Tells(l)'
  BY <1>2, <1>5 DEF Coming, Tells
<1>7. \/ UNCHANGED <<look, past>>
      \/ /\ \E b \in 0 .. Full : look' = [look EXCEPT ![d.id].brightness = b]
         /\ past' = [past EXCEPT !.altered = @ \cup {d.id}]
  <2>1. \/ UNCHANGED <<look, past>>
        \/ /\ look' = [look EXCEPT ![flight.id].brightness = IF @ = Full THEN 1 ELSE Full]
           /\ past' = [past EXCEPT !.altered = @ \cup {flight.id}]
    BY <1>0, <1>3 DEF ServingFails
  <2>2. 1 \in 0 .. Full /\ Full \in 0 .. Full
    BY DEF Full
  <2> QED
    BY <1>3, <2>1, <2>2
<1>8. LooksOK' /\ past' \in Pasts /\ past'.of = past.of /\ past'.behind = past.behind
      /\ past'.read = past.read /\ past.altered \subseteq past'.altered
      /\ \A l \in Lights : l.id \notin past'.altered => look'[l.id] = look[l.id]
  BY <1>1, <1>2, <1>3, <1>7, AlteredIs
<1>9. left' \in [presses : Nat, disturbances : Nat]
  BY <1>1, <1>2 DEF Disturbs
<1>10. flight' \in ({NoRequest} \cup Applies \cup Powers \cup Reads)'
  BY <1>4, <1>5 DEF Applies, Powers
<1>11. ViewTypeOK'
  BY <1>1, <1>2, <1>4, <1>8, <1>9, <1>10 DEF ViewTypeOK, Apps, Lists, Remembered, Editors, Pasts
<1>12. LightingIsTrue' /\ RememberedIsTrue'
  BY <1>1, <1>2, <1>4, <1>6, <1>8, StillTrue
<1>13. RequestIsOwn'
  BY <1>1, <1>2, <1>4, <1>5 DEF RequestIsOwn, Readable, Acted
<1>14. AnswerIsTrue'
  BY <1>2, <1>5, <1>6 DEF AnswerIsTrue
<1>15. ObservedIsShown'
  BY <1>1, <1>2 DEF ObservedIsShown, Observed, Selected, Readable
<1>16. DraftIsOwn'
  BY <1>1, <1>2, <1>5, <1>8, DraftStays
<1> QED
  BY <1>11, <1>12, <1>13, <1>14, <1>15, <1>16 DEF ViewIsTrue

\* Somebody else changes what a device shows.
LEMMA OthersKeepView ==
  ASSUME EditorIInv, ViewIsTrue, NEW id \in DeviceIds, OthersChange(id)
  PROVE  ViewIsTrue'
<1>1. /\ ViewTypeOK /\ LightingIsTrue /\ RequestIsOwn /\ AnswerIsTrue /\ RememberedIsTrue
      /\ ObservedIsShown /\ DraftIsOwn /\ LooksOK /\ app \in Apps /\ editor \in Editors
      /\ past \in Pasts /\ left \in [presses : Nat, disturbances : Nat]
      /\ flight \in {NoRequest} \cup Applies \cup Powers \cup Reads /\ devices \in Machines
  BY DEF EditorIInv, ViewIsTrue, ViewTypeOK
<1>2. UNCHANGED <<devices, app, editor, flight>> /\ Disturbs
  BY DEF OthersChange
<1>0. PICK d \in Lights : d.id = id
  BY <1>1, IdIsOf
<1>4. Lights' = Lights /\ DeviceIds' = DeviceIds /\ d.id \in DeviceIds
  BY <1>0, <1>2 DEF Lights, DeviceIds
<1>7. \/ /\ \E b \in 0 .. Full : look' = [look EXCEPT ![d.id].brightness = b]
         /\ past' = [past EXCEPT !.altered = @ \cup {d.id}]
      \/ /\ \E mode \in Modes : look' = [look EXCEPT ![d.id].mode = mode]
         /\ past' = [past EXCEPT !.altered = @ \cup {d.id}]
  <2>1. \/ look' = [look EXCEPT ![id] = [look[id] EXCEPT !.brightness = 0]]
        \/ look' = [look EXCEPT ![id] = [look[id] EXCEPT !.mode = "neon"]]
    BY DEF OthersChange
  <2>2. past' = [past EXCEPT !.altered = @ \cup {id}]
    BY DEF OthersChange
  <2>3. 0 \in 0 .. Full /\ "neon" \in Modes
    BY DEF Full, Modes
  <2> QED
    BY <1>0, <2>1, <2>2, <2>3
<1>8. LooksOK' /\ past' \in Pasts /\ past'.of = past.of /\ past'.behind = past.behind
      /\ past'.read = past.read /\ past.altered \subseteq past'.altered
      /\ \A l \in Lights : l.id \notin past'.altered => look'[l.id] = look[l.id]
  BY <1>1, <1>2, <1>7, AlteredIs
<1>9. left' \in [presses : Nat, disturbances : Nat]
  BY <1>1, <1>2 DEF Disturbs
<1>10. flight' \in ({NoRequest} \cup Applies \cup Powers \cup Reads)'
  BY <1>1, <1>2, <1>4 DEF Applies, Powers, Reads, Lists
<1>11. ViewTypeOK'
  BY <1>1, <1>2, <1>4, <1>8, <1>9, <1>10 DEF ViewTypeOK, Apps, Lists, Remembered, Editors, Pasts
<1>12. \A l \in Lights : Coming(l) => Coming(l)'
  BY <1>2 DEF Coming, Tells, Acted
<1>13. LightingIsTrue' /\ RememberedIsTrue'
  BY <1>1, <1>2, <1>4, <1>8, <1>12, StillTrue
<1>14. RequestIsOwn'
  BY <1>1, <1>2, <1>4 DEF RequestIsOwn, Readable, Acted
<1>15. AnswerIsTrue'
  <2>1. \A l \in Lights : \A s : l.id \notin past'.altered =>
          (Agrees(s, l) => Agrees(s, l)') /\ (Describes(s, l) => Describes(s, l)')
    BY <1>8 DEF Agrees, Describes
  <2> QED
    BY <1>1, <1>2, <1>4, <1>8, <2>1 DEF AnswerIsTrue, Acted, Tells
<1>16. ObservedIsShown'
  BY <1>1, <1>2 DEF ObservedIsShown, Observed, Selected, Readable
<1>17. DraftIsOwn'
  BY <1>1, <1>2, <1>8, DraftStays
<1> QED
  BY <1>11, <1>13, <1>14, <1>15, <1>16, <1>17 DEF ViewIsTrue

\* A request or a refresh that went wrong leaves everything as it was shown.
LEMMA FailureKeepsView ==
  ASSUME EditorIInv, ViewIsTrue, Answers, ~Succeeds
  PROVE  ViewIsTrue'
<1> DEFINE then == [past EXCEPT !.behind = @ \/ (~Succeeds /\ flight.kind # "refresh"),
                                !.read = IF Succeeds THEN ReadSince ELSE @]
<1>1. /\ ViewTypeOK /\ LightingIsTrue /\ RequestIsOwn /\ AnswerIsTrue /\ RememberedIsTrue
      /\ ObservedIsShown /\ DraftIsOwn /\ LooksOK /\ app \in Apps /\ editor \in Editors
      /\ past \in Pasts /\ left \in [presses : Nat, disturbances : Nat]
      /\ devices \in Machines
  BY DEF EditorIInv, ViewIsTrue, ViewTypeOK
<1>2. /\ flight.kind # "none" /\ flight.answer # "none" /\ flight' = NoRequest
      /\ UNCHANGED <<devices, look, left>> /\ Shows(app, editor, then)
  BY DEF Answers
<1>3. then = [past EXCEPT !.behind = @ \/ flight.kind # "refresh"]
  BY <1>1 DEF Pasts
<1> HIDE DEF then
<1>4. /\ then \in Pasts /\ then.of = past.of /\ then.altered = past.altered
      /\ then.read = past.read /\ (then.behind <=> past.behind \/ flight.kind # "refresh")
  BY <1>1, <1>3 DEF Pasts
<1>5. ~Reseeds(app, editor)
  BY <1>1 DEF Reseeds, ObservedIsShown
<1>6. /\ app' = app /\ editor' \in Editors /\ past' = then /\ ObservedIsShown'
      /\ editor'.observed = editor.observed
      /\ editor'.brightness = editor.brightness /\ editor'.zones = editor.zones
      /\ editor'.dirty = editor.dirty
  <2>1. Observed(app, editor) = editor.observed
    BY <1>1 DEF ObservedIsShown
  <2> QED
    BY <1>1, <1>2, <1>4, <1>5, <2>1, ShowsIs
<1>7. Lights' = Lights /\ DeviceIds' = DeviceIds
  BY <1>2 DEF Lights, DeviceIds
<1>8. \A l \in Lights : ~Coming(l)
  <2> SUFFICES ASSUME NEW l \in Lights, Coming(l) PROVE FALSE
    OBVIOUS
  <2>1. CASE Tells(l)
    <3>1. flight.kind = "refresh" /\ flight.answer = "done"
      BY <1>1, <2>1 DEF Tells, AnswerIsTrue
    <3> QED
      BY <3>1 DEF Succeeds
  <2>2. CASE Acted(l) /\ flight.answer = "done"
    <3>1. flight.kind \in {"apply", "power"} /\ (l.readable => flight.state # NoItem)
      BY <1>1, <2>2 DEF Acted, AnswerIsTrue
    <3>2. flight.kind = "power" \/ (flight.kind = "apply" /\ flight.readable) => l.readable
      BY <1>1, <2>2 DEF RequestIsOwn, Readable
    <3> QED
      BY <2>2, <3>1, <3>2 DEF Succeeds
  <2> QED
    BY <2>1, <2>2 DEF Coming
<1>9. ViewTypeOK'
  BY <1>1, <1>2, <1>4, <1>6, <1>7 DEF ViewTypeOK, LooksOK, Apps, Lists, Remembered, Editors, Pasts
<1>10. LightingIsTrue' /\ RememberedIsTrue'
  BY <1>1, <1>2, <1>4, <1>6, <1>7, <1>8 DEF LightingIsTrue, RememberedIsTrue, Agrees, Describes
<1>11. RequestIsOwn' /\ AnswerIsTrue'
  BY <1>2, NothingComes DEF RequestIsOwn, AnswerIsTrue, NoRequest, Acted, Tells
<1>12. DraftIsOwn'
  <2>1. CASE flight.kind = "refresh"
    <3>1. flight'.kind \notin {"apply", "power"} /\ flight.kind \notin {"apply", "power"}
      BY <1>2, <2>1 DEF NoRequest
    <3>2. past'.behind = past.behind
      BY <1>1, <1>3, <1>6, <2>1 DEF Pasts
    <3> QED
      BY <1>1, <1>2, <1>4, <1>6, <3>1, <3>2, DraftStays
  <2>2. CASE flight.kind # "refresh"
    BY <1>4, <1>6, <2>2 DEF DraftIsOwn, Clean
  <2> QED
    BY <2>1, <2>2
<1> QED
  BY <1>6, <1>9, <1>10, <1>11, <1>12 DEF ViewIsTrue

\* What is shown when an answer was taken, and what has to be shown of it.
LEMMA AnswerIsShown ==
  ASSUME EditorIInv, ViewIsTrue, Answers, NEW v \in Apps, NEW then \in Pasts,
         Shows(v, editor, then), then.altered = past.altered,
         LightingIsTrue', RememberedIsTrue',
         ~Reseeds(v, editor) => DraftIsOwn'
  PROVE  ViewIsTrue'
<1>1. /\ ViewTypeOK /\ LooksOK /\ editor \in Editors
      /\ left \in [presses : Nat, disturbances : Nat] /\ devices \in Machines
  BY DEF EditorIInv, ViewIsTrue, ViewTypeOK
<1>2. flight' = NoRequest /\ UNCHANGED <<devices, look, left>>
  BY DEF Answers
<1>3. /\ app' = v /\ editor' \in Editors /\ past' \in Pasts /\ ObservedIsShown'
  BY <1>1, <1>2, ShowsIs
<1>4. Lights' = Lights /\ DeviceIds' = DeviceIds
  BY <1>2 DEF Lights, DeviceIds
<1>5. ViewTypeOK'
  BY <1>1, <1>2, <1>3, <1>4 DEF ViewTypeOK, LooksOK, Apps, Lists, Remembered, Editors, Pasts
<1>6. RequestIsOwn' /\ AnswerIsTrue'
  BY <1>2, NothingComes DEF RequestIsOwn, AnswerIsTrue, NoRequest, Acted, Tells
<1>7. Reseeds(v, editor) => DraftIsOwn'
  BY <1>1, <1>2, <1>6, ReseededDraft
<1> QED
  BY <1>3, <1>5, <1>6, <1>7 DEF ViewIsTrue

\* Nothing of the history is disturbed by an answer that was taken.
LEMMA TakenIs ==
  ASSUME ViewTypeOK, Succeeds, Answers, NEW ids, ids = ReadSince, ids \subseteq DeviceIds
  PROVE  \E then \in Pasts :
           /\ then.of = past.of /\ then.behind = past.behind /\ then.altered = past.altered
           /\ then.read = ids /\ Shows(Applied, editor, then)
<1> DEFINE then == [past EXCEPT !.behind = @ \/ (~Succeeds /\ flight.kind # "refresh"),
                                !.read = IF Succeeds THEN ReadSince ELSE @]
<1>1. Shows(Applied, editor, then)
  BY DEF Answers
<1>2. past \in Pasts
  BY DEF ViewTypeOK
<1>3. (past.behind \/ (~Succeeds /\ flight.kind # "refresh")) = past.behind
  BY <1>2 DEF Pasts
<1>4. then = [past EXCEPT !.read = ids]
  BY <1>2, <1>3 DEF Pasts
<1> HIDE DEF then
<1>5. /\ then \in Pasts /\ then.of = past.of /\ then.behind = past.behind
      /\ then.altered = past.altered /\ then.read = ids
  BY <1>2, <1>4 DEF Pasts
<1> QED
  BY <1>1, <1>5

\* A refresh is shown.
LEMMA DiscoveryKeepsView ==
  ASSUME EditorIInv, ViewIsTrue, Answers, Succeeds, flight.kind = "refresh"
  PROVE  ViewIsTrue'
<1> DEFINE listed == {flight.caps[i] : i \in DOMAIN flight.caps}
           told == IF flight.read = NoItem THEN {}
                   ELSE {d.id : d \in {e \in ToSet(flight.caps) : IsReadableKeyboard(e)}}
<1>1. /\ ViewTypeOK /\ LightingIsTrue /\ AnswerIsTrue /\ RememberedIsTrue /\ ObservedIsShown
      /\ DraftIsOwn /\ app \in Apps /\ editor \in Editors /\ past \in Pasts
      /\ devices \in Machines
  BY DEF EditorIInv, ViewIsTrue, ViewTypeOK
<1>2. flight' = NoRequest /\ UNCHANGED <<devices, look, left>>
  BY DEF Answers
<1>3. flight \in Reads
  BY <1>1, FlightIs
<1>4. ReadSince = past.read \cup told
  BY DEF ReadSince
<1>5. Lights' = Lights
  BY <1>2 DEF Lights
\* The devices that were told of are those of the list that can be read.
<1>6. told \subseteq DeviceIds /\ \A d \in Lights : Tells(d) => d.id \in told
  <2>1. CASE flight.read = NoItem
    BY <2>1 DEF Tells
  <2>2. CASE flight.read # NoItem
    <3>1. flight.caps \in Seq(Lights)
      BY <1>1, <1>3, <2>2 DEF AnswerIsTrue, Reads, Lists
    <3>2. listed \subseteq Lights
      BY <3>1
    <3>3. told = {d.id : d \in {e \in listed : IsReadableKeyboard(e)}}
      BY <2>2 DEF ToSet
    <3>4. \A d \in Lights : d.id \in DeviceIds /\ (d.readable <=> IsReadableKeyboard(d))
      BY <1>1, LightIs
    <3>5. \A d \in Lights : Tells(d) => d.readable /\ d \in listed
      BY DEF Tells
    <3> HIDE DEF listed, told
    <3> QED
      BY <3>2, <3>3, <3>4, <3>5
  <2> QED
    BY <2>1, <2>2
<1> HIDE DEF told
<1>7. PICK ids : ids = past.read \cup told
  OBVIOUS
<1>8. ids = ReadSince /\ ids \subseteq DeviceIds
  BY <1>1, <1>4, <1>6, <1>7 DEF Pasts
<1>9. PICK then \in Pasts :
        /\ then.of = past.of /\ then.behind = past.behind /\ then.altered = past.altered
        /\ then.read = ids /\ Shows(Applied, editor, then)
  BY <1>1, <1>8, TakenIs
<1>10. PICK v : v = Discovered
  OBVIOUS
<1>11. /\ v \in Apps /\ v.last = app.last
       /\ v.lighting = IF flight.read = NoItem THEN app.lighting ELSE flight.read
       /\ Shows(v, editor, then)
  <2>1. Applied = v
    BY <1>10 DEF Applied
  <2>2. flight.caps \in Lists \cup {NoCaps} /\ flight.read \in States \cup {NoItem}
    BY <1>3 DEF Reads
  <2>3. PICK shown : shown = IF flight.read = NoItem THEN app.lighting ELSE flight.read
    OBVIOUS
  <2>4. shown \in States
    BY <1>1, <2>2, <2>3 DEF Apps
  <2>5. v = [app EXCEPT !.caps = flight.caps, !.lighting = shown]
    BY <1>10, <2>3 DEF Discovered
  <2>6. v \in Apps /\ v.last = app.last /\ v.lighting = shown
    BY <1>1, <2>2, <2>4, <2>5 DEF Apps
  <2> QED
    BY <1>9, <2>1, <2>3, <2>6
<1>12. /\ app' = v /\ past'.read = ids /\ past'.altered = past.altered
       /\ ~Reseeds(v, editor) =>
            /\ past' = then /\ editor'.brightness = editor.brightness
            /\ editor'.zones = editor.zones /\ editor'.dirty = editor.dirty
       /\ editor'.observed = Observed(v, editor)
  BY <1>1, <1>2, <1>9, <1>11, ShowsIs
<1>13. \A l \in Lights : ~Acted(l) /\ ~Acted(l)' /\ ~Coming(l)' /\ (Coming(l) <=> Tells(l))
  BY <1>2 DEF Acted, Coming, Tells, NoRequest
<1>14. LightingIsTrue'
  <2> SUFFICES ASSUME NEW l \in Lights, l.readable, v.lighting.available
               PROVE  /\ l.id \in ids
                      /\ l.id \notin past.altered => Agrees(v.lighting, l)
    BY <1>2, <1>5, <1>12 DEF LightingIsTrue, Agrees
  <2>1. CASE flight.read = NoItem
    <3>1. ~Coming(l) /\ v.lighting = app.lighting
      BY <1>11, <1>13, <2>1 DEF Tells
    <3> QED
      BY <1>1, <1>7, <3>1 DEF LightingIsTrue
  <2>2. CASE flight.read # NoItem
    <3>1. v.lighting = flight.read
      BY <1>11, <2>2
    <3>2. Tells(l)
      BY <1>1, <2>2, <3>1 DEF AnswerIsTrue
    <3>3. l.id \in ids
      BY <1>6, <1>7, <3>2
    <3> QED
      BY <1>1, <3>1, <3>2, <3>3 DEF AnswerIsTrue
  <2> QED
    BY <2>1, <2>2
<1>15. RememberedIsTrue'
  <2> SUFFICES ASSUME NEW r \in app.last, NEW l \in Lights, r.id = l.id
               PROVE  /\ r.mode = "static" => Len(r.zones) = l.zones
                      /\ l.id \notin past.altered \cup ids => Describes(r, l)
    BY <1>1, <1>2, <1>5, <1>11, <1>12 DEF RememberedIsTrue, Describes
  <2>1. l.id \notin ids => l.id \notin past.read /\ ~Coming(l)
    BY <1>6, <1>7, <1>13
  <2> QED
    BY <1>1, <2>1 DEF RememberedIsTrue
<1>16. ASSUME ~Reseeds(v, editor) PROVE DraftIsOwn'
  <2> SUFFICES ASSUME NEW l \in Lights, Clean(l)'
               PROVE  /\ DraftIsObserved(l)'
                      /\ l.id \notin past'.read =>
                            \A r \in app'.last : r.id = l.id /\ r.mode = "static" =>
                               DraftIs(r.brightness, r.zones, l)'
    BY <1>5, <1>13 DEF DraftIsOwn
  <2>1. Clean(l)
    BY <1>9, <1>12, <1>16 DEF Clean
  <2>2. /\ DraftIsObserved(l)
        /\ l.id \notin past.read => \A r \in app.last : r.id = l.id /\ r.mode = "static" =>
                                        DraftIs(r.brightness, r.zones, l)
    BY <1>1, <1>13, <2>1 DEF DraftIsOwn
  <2>3. editor'.observed \in {editor.observed, NoItem}
    BY <1>12, <1>16 DEF Reseeds
  <2>4. DraftIsObserved(l)'
    BY <1>12, <1>16, <2>2, <2>3 DEF DraftIsObserved, DraftIs
  <2> QED
    BY <1>7, <1>11, <1>12, <1>16, <2>2, <2>4 DEF DraftIs
<1> QED
  BY <1>9, <1>11, <1>14, <1>15, <1>16, AnswerIsShown

\* The state that the zoned keyboard has answered is shown.
LEMMA StateKeepsView ==
  ASSUME EditorIInv, ViewIsTrue, Answers, Succeeds,
         flight.kind = "power" \/ (flight.kind = "apply" /\ flight.readable)
  PROVE  ViewIsTrue'
<1>1. /\ ViewTypeOK /\ LightingIsTrue /\ AnswerIsTrue /\ RememberedIsTrue /\ ObservedIsShown
      /\ RequestIsOwn /\ DraftIsOwn /\ app \in Apps /\ editor \in Editors /\ past \in Pasts
      /\ devices \in Machines
  BY DEF EditorIInv, ViewIsTrue, ViewTypeOK
<1>2. flight' = NoRequest /\ UNCHANGED <<devices, look, left>>
  BY DEF Answers
<1>3. PICK d : d = DeviceOf(flight.id)
  OBVIOUS
<1>4. /\ d \in Lights /\ d.id = flight.id /\ Acted(d) /\ flight \in Applies \cup Powers
      /\ d.readable /\ \A e \in Lights : e # d => ~Acted(e)
  BY <1>1, <1>3, RequestIsOf DEF Readable
<1>5. /\ flight.answer = "done" /\ flight.state # NoItem /\ flight.state.available
      /\ d.id \notin past.altered => Agrees(flight.state, d)
      /\ IsStatic => /\ flight.state.mode = "static"
                     /\ flight.state.brightness = flight.brightness
                     /\ \A z \in 1 .. d.zones : flight.state.zones[z] = flight.zones[z]
  BY <1>1, <1>4 DEF Succeeds, AnswerIsTrue, IsStatic
<1>6. flight.state \in States
  BY <1>4, <1>5 DEF Applies, Powers
<1>7. d.id \in DeviceIds /\ Lights' = Lights
  BY <1>1, <1>2, <1>4, LightIs DEF Lights
<1>8. PICK ids : ids = past.read \cup {d.id}
  OBVIOUS
<1>9. ids = ReadSince /\ ids \subseteq DeviceIds
  BY <1>1, <1>4, <1>7, <1>8 DEF ReadSince, Pasts
<1>10. PICK then \in Pasts :
         /\ then.of = past.of /\ then.behind = past.behind /\ then.altered = past.altered
         /\ then.read = ids /\ Shows(Applied, editor, then)
  BY <1>1, <1>9, TakenIs
<1>11. PICK v : v = [app EXCEPT !.lighting = flight.state]
  OBVIOUS
<1>12. /\ v \in Apps /\ v.last = app.last /\ v.lighting = flight.state
       /\ Shows(v, editor, then)
  <2>1. Applied = v
    BY <1>11 DEF Applied
  <2>2. v \in Apps /\ v.last = app.last /\ v.lighting = flight.state
    BY <1>1, <1>6, <1>11 DEF Apps
  <2> QED
    BY <1>10, <2>1, <2>2
<1>13. /\ app' = v /\ past'.read = ids /\ past'.altered = past.altered
       /\ ~Reseeds(v, editor) =>
            /\ past' = then /\ editor'.brightness = editor.brightness
            /\ editor'.zones = editor.zones /\ editor'.dirty = editor.dirty
       /\ editor'.observed = Observed(v, editor)
  BY <1>1, <1>2, <1>10, <1>12, ShowsIs
<1>14. \A l \in Lights : /\ ~Acted(l)' /\ ~Coming(l)'
                         /\ l # d => ~Acted(l) /\ ~Coming(l) /\ l.id # d.id /\ ~l.readable
  <2>1. \A l \in Lights : ~Acted(l)' /\ ~Coming(l)'
    BY <1>2 DEF Acted, Coming, Tells, NoRequest
  <2>2. \A l \in Lights : l # d => ~Acted(l) /\ ~Coming(l)
    BY <1>4 DEF Coming, Tells
  <2>3. \A l \in Lights : l # d => l.id # d.id /\ ~l.readable
    BY <1>1, <1>4, LightIs
  <2> QED
    BY <2>1, <2>2, <2>3
<1>15. LightingIsTrue'
  <2> SUFFICES ASSUME NEW l \in Lights, l.readable
               PROVE  l.id \in ids /\ (l.id \notin past.altered => Agrees(v.lighting, l))
    BY <1>2, <1>7, <1>13 DEF LightingIsTrue, Agrees
  <2>1. l = d
    BY <1>14
  <2> QED
    BY <1>5, <1>8, <1>12, <2>1
<1>16. RememberedIsTrue'
  <2> SUFFICES ASSUME NEW r \in app.last, NEW l \in Lights, r.id = l.id
               PROVE  /\ r.mode = "static" => Len(r.zones) = l.zones
                      /\ l.id \notin past.altered \cup ids => Describes(r, l)
    BY <1>1, <1>2, <1>7, <1>12, <1>13 DEF RememberedIsTrue, Describes
  <2>1. l.id \notin ids => l.id \notin past.read /\ ~Coming(l)
    BY <1>8, <1>14
  <2> QED
    BY <1>1, <2>1 DEF RememberedIsTrue
<1>17. ASSUME ~Reseeds(v, editor) PROVE DraftIsOwn'
  <2> SUFFICES ASSUME NEW l \in Lights, Clean(l)'
               PROVE  /\ DraftIsObserved(l)'
                      /\ l.id \notin past'.read =>
                            \A r \in app'.last : r.id = l.id /\ r.mode = "static" =>
                               DraftIs(r.brightness, r.zones, l)'
    BY <1>7, <1>14 DEF DraftIsOwn
  <2>1. Clean(l)
    BY <1>10, <1>13, <1>17 DEF Clean
  <2>2. /\ DraftIsObserved(l) \/ (Acted(l) /\ DraftIsRequested(l))
        /\ ~Acted(l) /\ l.id \notin past.read =>
             \A r \in app.last : r.id = l.id /\ r.mode = "static" =>
                DraftIs(r.brightness, r.zones, l)
    BY <1>1, <2>1 DEF DraftIsOwn
  <2>3. editor'.observed \in {editor.observed, NoItem}
    BY <1>13, <1>17 DEF Reseeds
  <2>4. DraftIsObserved(l)'
    <3>1. CASE DraftIsObserved(l)
      BY <1>13, <1>17, <2>3, <3>1 DEF DraftIsObserved, DraftIs
    <3>2. CASE Acted(l) /\ DraftIsRequested(l)
      <4>1. l = d
        BY <1>14, <3>2
      <4>2. /\ IsStatic /\ editor.brightness = flight.brightness
            /\ \A z \in 1 .. d.zones : editor.zones[z] = flight.zones[z]
        BY <3>2, <4>1 DEF DraftIsRequested, DraftIs
      <4>3. /\ keyboard_editor_readback(flight.state).brightness = editor.brightness
            /\ \A z \in 1 .. d.zones :
                 keyboard_editor_readback(flight.state).zones[z] = editor.zones[z]
        BY <1>5, <1>6, <4>2, ReadbackIs
      <4>4. editor'.observed # NoItem =>
               editor'.observed.read = keyboard_editor_readback(flight.state)
        BY <1>1, <1>12, <1>13, ObservedIs
      <4> QED
        BY <1>13, <1>17, <4>1, <4>3, <4>4 DEF DraftIsObserved, DraftIs
    <3> QED
      BY <2>2, <3>1, <3>2
  <2>5. l.id \notin past'.read => l # d /\ l.id \notin past.read
    BY <1>8, <1>13
  <2> QED
    BY <1>12, <1>13, <1>14, <1>17, <2>2, <2>4, <2>5 DEF DraftIs
<1> QED
  BY <1>10, <1>12, <1>15, <1>16, <1>17, AnswerIsShown

\* The request to a device that cannot be read is remembered.
LEMMA MemoryKeepsView ==
  ASSUME EditorIInv, ViewIsTrue, Answers, Succeeds, flight.kind = "apply", ~flight.readable
  PROVE  ViewIsTrue'
<1>1. /\ ViewTypeOK /\ LightingIsTrue /\ AnswerIsTrue /\ RememberedIsTrue /\ ObservedIsShown
      /\ RequestIsOwn /\ DraftIsOwn /\ app \in Apps /\ editor \in Editors /\ past \in Pasts
      /\ devices \in Machines
  BY DEF EditorIInv, ViewIsTrue, ViewTypeOK
<1>2. flight' = NoRequest /\ UNCHANGED <<devices, look, left>>
  BY DEF Answers
<1>3. PICK d : d = DeviceOf(flight.id)
  OBVIOUS
<1>4. /\ d \in Lights /\ d.id = flight.id /\ Acted(d) /\ ~Readable(app, d)
      /\ flight.mode = "static" => Len(flight.zones) = d.zones
      /\ \A e \in Lights : e # d => ~Acted(e)
  BY <1>1, <1>3, RequestIsOf
<1>5. flight \in Applies /\ flight.answer = "done"
  BY <1>1, FlightIs DEF Succeeds
<1>6. d.id \notin past.altered => Describes(flight, d)
  BY <1>1, <1>4, <1>5 DEF AnswerIsTrue
<1>7. d.id \in DeviceIds /\ Lights' = Lights
  BY <1>1, <1>2, <1>4, LightIs DEF Lights
<1>8. PICK ids : ids = past.read \ {d.id}
  OBVIOUS
<1>9. ids = ReadSince /\ ids \subseteq DeviceIds
  BY <1>1, <1>4, <1>7, <1>8 DEF ReadSince, Pasts
<1>10. PICK then \in Pasts :
         /\ then.of = past.of /\ then.behind = past.behind /\ then.altered = past.altered
         /\ then.read = ids /\ Shows(Applied, editor, then)
  BY <1>1, <1>9, TakenIs
<1>11. PICK new : new = LastRequest
  OBVIOUS
<1>12. /\ new \in Remembered /\ new.id = d.id /\ new.mode = flight.mode
       /\ new.brightness = flight.brightness /\ new.zones = flight.zones
  BY <1>4, <1>5, <1>11 DEF LastRequest, Remembered, Applies
<1>13. PICK last : last = {r \in app.last : r.id # d.id} \cup {new}
  OBVIOUS
<1>14. PICK v : v = [app EXCEPT !.last = last]
  OBVIOUS
<1>15. /\ v \in Apps /\ v.last = last /\ v.lighting = app.lighting /\ v.caps = app.caps
       /\ Shows(v, editor, then)
  <2>1. Applied = v
    BY <1>4, <1>11, <1>13, <1>14 DEF Applied, Retained
  <2>2. last \subseteq Remembered
    BY <1>1, <1>12, <1>13 DEF Apps
  <2>3. v \in Apps /\ v.last = last /\ v.lighting = app.lighting /\ v.caps = app.caps
    BY <1>1, <1>14, <2>2 DEF Apps
  <2> QED
    BY <1>10, <2>1, <2>3
<1>16. ~Reseeds(v, editor) /\ Observed(v, editor) = editor.observed
  BY <1>1, <1>15 DEF Reseeds, ObservedIsShown, Observed, Selected, Readable
<1>17. /\ app' = v /\ past' = then /\ editor'.brightness = editor.brightness
       /\ editor'.zones = editor.zones /\ editor'.dirty = editor.dirty
       /\ editor'.observed = editor.observed
  BY <1>1, <1>2, <1>10, <1>15, <1>16, ShowsIs
<1>18. \A l \in Lights : /\ ~Acted(l)' /\ ~Coming(l)'
                         /\ l # d => ~Acted(l) /\ ~Coming(l) /\ l.id # d.id
  <2>1. \A l \in Lights : ~Acted(l)' /\ ~Coming(l)'
    BY <1>2 DEF Acted, Coming, Tells, NoRequest
  <2>2. \A l \in Lights : l # d => ~Acted(l) /\ ~Coming(l)
    BY <1>4 DEF Coming, Tells
  <2>3. \A l \in Lights : l # d => l.id # d.id
    BY <1>1, <1>4, LightIs
  <2> QED
    BY <2>1, <2>2, <2>3
<1>19. LightingIsTrue'
  <2> SUFFICES ASSUME NEW l \in Lights, l.readable, app.lighting.available
               PROVE  l.id \in ids /\ (l.id \notin past.altered => Agrees(app.lighting, l))
    BY <1>2, <1>7, <1>10, <1>15, <1>17 DEF LightingIsTrue, Agrees
  <2>1. l # d
    BY <1>4 DEF Readable
  <2> QED
    BY <1>1, <1>8, <1>18, <2>1 DEF LightingIsTrue
<1>20. RememberedIsTrue'
  <2>1. \A r, q \in last : q.id = r.id => q = r
    BY <1>1, <1>12, <1>13 DEF RememberedIsTrue
  <2> SUFFICES ASSUME NEW r \in last, NEW l \in Lights, r.id = l.id
               PROVE  /\ r.mode = "static" => Len(r.zones) = l.zones
                      /\ l.id \notin past.altered \cup ids => Describes(r, l)
    BY <1>2, <1>7, <1>10, <1>15, <1>17, <2>1 DEF RememberedIsTrue, Describes
  <2>2. CASE r = new
    <3>1. l = d
      BY <1>12, <1>18, <2>2
    <3>2. Describes(flight, d) => Describes(r, l)
      BY <1>12, <2>2, <3>1 DEF Describes
    <3> QED
      BY <1>4, <1>6, <1>12, <2>2, <3>1, <3>2
  <2>3. CASE r # new
    <3>1. r \in app.last /\ l # d
      BY <1>13, <2>3
    <3>2. l.id \notin ids => l.id \notin past.read
      BY <1>8, <1>18, <3>1
    <3> QED
      BY <1>1, <1>18, <3>1, <3>2 DEF RememberedIsTrue
  <2> QED
    BY <2>2, <2>3
<1>21. DraftIsOwn'
  <2> SUFFICES ASSUME NEW l \in Lights, Clean(l)'
               PROVE  /\ DraftIsObserved(l)'
                      /\ l.id \notin ids =>
                            \A r \in last : r.id = l.id /\ r.mode = "static" =>
                               DraftIs(r.brightness, r.zones, l)'
    BY <1>7, <1>10, <1>15, <1>17, <1>18 DEF DraftIsOwn
  <2>1. Clean(l)
    BY <1>10, <1>17 DEF Clean
  <2>2. /\ DraftIsObserved(l) \/ (Acted(l) /\ DraftIsRequested(l))
        /\ Acted(l) /\ IsStatic /\ ~flight.readable => DraftIsRequested(l)
        /\ ~Acted(l) /\ l.id \notin past.read =>
             \A r \in app.last : r.id = l.id /\ r.mode = "static" =>
                DraftIs(r.brightness, r.zones, l)
    BY <1>1, <2>1 DEF DraftIsOwn
  <2>3. CASE l = d
    <3>1. editor.observed # NoItem => editor.observed.id # d.id
      <4> SUFFICES ASSUME editor.observed # NoItem, editor.observed.id = d.id PROVE FALSE
        OBVIOUS
      <4> DEFINE s == Selected(app, editor.index)
      <4>1. s \in Lights /\ Readable(app, s) /\ editor.observed.id = s.id
        BY <1>1, ObservedIs DEF ObservedIsShown
      <4>2. s = d
        BY <1>1, <1>4, <4>1, LightIs
      <4> QED
        BY <1>4, <4>1, <4>2
    <3>2. DraftIsObserved(l)'
      BY <1>17, <2>3, <3>1 DEF DraftIsObserved
    <3>3. ASSUME NEW r \in last, r.id = l.id, r.mode = "static"
          PROVE  DraftIs(r.brightness, r.zones, l)'
      <4>1. r = new
        BY <1>13, <2>3, <3>3
      <4>2. DraftIsRequested(l)
        BY <1>4, <1>12, <2>2, <2>3, <3>3, <4>1 DEF IsStatic
      <4> QED
        BY <1>12, <1>17, <4>1, <4>2 DEF DraftIsRequested, DraftIs
    <3> QED
      BY <3>2, <3>3
  <2>4. CASE l # d
    <3>1. ~Acted(l) /\ l.id # d.id
      BY <1>18, <2>4
    <3>2. DraftIsObserved(l)'
      BY <1>17, <2>2, <3>1 DEF DraftIsObserved, DraftIs
    <3>3. l.id \notin ids => l.id \notin past.read
      BY <1>8, <3>1
    <3>4. \A r \in last : r.id = l.id => r \in app.last
      BY <1>12, <1>13, <3>1
    <3> QED
      BY <1>17, <2>2, <3>1, <3>2, <3>3, <3>4 DEF DraftIs
  <2> QED
    BY <2>3, <2>4
<1> QED
  BY <1>10, <1>15, <1>19, <1>20, <1>21, AnswerIsShown

\* Nothing is known, shown or under way at first.
LEMMA ViewInitEstablishes == EditorInit => ViewIsTrue
<1> SUFFICES ASSUME EditorInit PROVE ViewIsTrue
  OBVIOUS
<1>1. /\ devices \in Machines /\ flight = NoRequest
      /\ app = [caps |-> NoCaps, lighting |-> DefaultLighting, last |-> {}]
      /\ editor = [open |-> FALSE, index |-> 1, brightness |-> Full, zones |-> DefaultTints,
                   dirty |-> FALSE, observed |-> NoItem]
      /\ left = [presses |-> Presses, disturbances |-> Disturbances]
      /\ past = [of |-> NoItem, behind |-> FALSE, altered |-> DeviceIds, read |-> {}]
  BY DEF EditorInit
<1>2. DefaultTints \in Wells /\ DefaultLighting \in States
  BY DefaultIs
<1>3. app \in Apps
  <2> HIDE DEF States
  <2> QED
    BY <1>1, <1>2 DEF Apps
<1>4. editor \in Editors
  BY <1>1, <1>2 DEF Editors, Full
<1>5. past \in Pasts
  BY <1>1 DEF Pasts
<1>6. left \in [presses : Nat, disturbances : Nat]
  BY <1>1, EditorAssumption
<1>7. LooksOK
  <2>1. PICK md \in {"static", "breathing"}, b \in {0, Full}, c \in Tints :
          look = [id \in DeviceIds |-> [mode |-> md, brightness |-> b, color |-> c,
                                        saved |-> Full, zones |-> [i \in DOMAIN DefaultTints |-> c]]]
    BY DEF EditorInit
  <2> DEFINE wells == [i \in DOMAIN DefaultTints |-> c]
             shown == [mode |-> md, brightness |-> b, color |-> c, saved |-> Full, zones |-> wells]
  <2>2. wells \in Wells /\ c \in Hues
    BY DEF Wells, Hues
  <2>3. wells \in Seq(Hues) /\ Len(wells) = Len(DefaultTints)
    BY <2>2, WellsAreSeq
  <2> HIDE DEF wells
  <2>4. shown \in Displays /\ shown.zones = wells
    BY <2>2, <2>3 DEF Displays, Modes, Full
  <2>5. look = [id \in DeviceIds |-> shown]
    BY <2>1 DEF wells
  <2> HIDE DEF shown
  <2>6. \A d \in Lights : d.id \in DeviceIds /\ d.zones <= Len(DefaultTints)
    <3> SUFFICES ASSUME NEW d \in Lights PROVE d.id \in DeviceIds /\ d.zones <= Len(DefaultTints)
      OBVIOUS
    <3> QED
      BY <1>1, LightIs
  <2>7. \A d \in Lights : d.zones \in Int
    <3> SUFFICES ASSUME NEW d \in Lights PROVE d.zones \in Int
      OBVIOUS
    <3> QED
      BY <1>1, LightIs
  <2> QED
    BY <2>3, <2>4, <2>5, <2>6, <2>7 DEF LooksOK
<1>8. ViewTypeOK
  BY <1>1, <1>3, <1>4, <1>5, <1>6, <1>7 DEF ViewTypeOK
<1>9. ~app.lighting.available /\ app.last = {}
  BY <1>1 DEF DefaultLighting
<1>10. \A d : ~Acted(d) /\ ~Tells(d)
  BY <1>1, NothingComes
<1>11. LightingIsTrue /\ RememberedIsTrue /\ RequestIsOwn
  BY <1>9, <1>10 DEF LightingIsTrue, RememberedIsTrue, RequestIsOwn
<1>12. AnswerIsTrue
  BY <1>1, <1>10 DEF AnswerIsTrue, NoRequest
<1>13. ObservedIsShown
  BY <1>1, <1>9 DEF ObservedIsShown, Observed, Readable
<1>14. DraftIsOwn
  BY <1>1, <1>9, <1>10 DEF DraftIsOwn, DraftIsObserved
<1> QED
  BY <1>8, <1>11, <1>12, <1>13, <1>14 DEF ViewIsTrue

\* Every step keeps the window true to the devices.
LEMMA ViewNextKeeps ==
  ASSUME OneKeyboard, EditorIInv, ViewIsTrue, [EditorNext]_editorVars
  PROVE  ViewIsTrue'
<1>1. ASSUME NEW i \in DOMAIN Tabs(app.caps), ClickTab(i) PROVE ViewIsTrue'
  BY <1>1, ClickKeeps
<1>2. ASSUME NEW i \in DOMAIN devices,
             \/ PressOn(devices[i]) \/ PressOff(devices[i])
             \/ \E mode \in devices[i].modes : PressMode(devices[i], mode)
             \/ \E b \in 1 .. Full : MovesSlider(devices[i], b)
             \/ \E z \in 1 .. devices[i].zones, c \in Tints : CommitsColour(devices[i], z, c)
      PROVE  ViewIsTrue'
  <2>1. PICK d \in Lights : d = devices[i]
    BY DEF Lights
  <2> QED
    BY <1>2, <2>1, ButtonsKeepView, SliderKeepsView, ColourKeepsView
<1>3. CASE Refreshes \/ ReadsCaps \/ RefreshFails
  BY <1>3, RefreshKeepsView
<1>4. CASE ReadsKeyboard
  BY <1>4, ReadingKeepsView
<1>5. CASE Serves \/ ServingFails
  BY <1>5, ServingKeepsView, FailingKeepsView
<1>6. CASE Answers
  <2>1. CASE ~Succeeds
    BY <1>6, <2>1, FailureKeepsView
  <2>2. CASE Succeeds
    <3>1. flight.kind \in {"apply", "power", "refresh"}
      BY <1>6, FlightIs DEF ViewIsTrue, Answers
    <3>2. CASE flight.kind = "refresh"
      BY <1>6, <2>2, <3>2, DiscoveryKeepsView
    <3>3. CASE flight.kind = "power" \/ (flight.kind = "apply" /\ flight.readable)
      BY <1>6, <2>2, <3>3, StateKeepsView
    <3>4. CASE flight.kind = "apply" /\ ~flight.readable
      BY <1>6, <2>2, <3>4, MemoryKeepsView
    <3> QED
      BY <3>1, <3>2, <3>3, <3>4
  <2> QED
    BY <2>1, <2>2
<1>7. ASSUME NEW id \in DeviceIds, OthersChange(id) PROVE ViewIsTrue'
  BY <1>7, OthersKeepView
<1>8. CASE UNCHANGED editorVars
  BY <1>8 DEF editorVars, ViewIsTrue, ViewTypeOK, LooksOK, Apps, Lists, Remembered, Editors, Pasts,
     Applies, Powers, Reads, Lights, DeviceIds, LightingIsTrue, RequestIsOwn, AnswerIsTrue,
     RememberedIsTrue, ObservedIsShown, Observed, Selected, Readable, DraftIsOwn, Clean,
     DraftIsObserved, DraftIs, DraftIsRequested, IsStatic, Acted, Tells, Coming, Agrees, Describes
<1>9. CASE EditorNext
  BY <1>1, <1>2, <1>3, <1>4, <1>5, <1>6, <1>7, <1>9 DEF EditorNext
<1> QED
  BY <1>8, <1>9

\* What the window shows, remembers and has in its draft is what the devices do, in every
\* behaviour of a machine without a second keyboard beside the zoned one.
THEOREM ViewInvariant ==
  ASSUME OneKeyboard
  PROVE  EditorSpec => [](EditorIInv /\ ViewIsTrue)
<1>1. EditorInit => EditorIInv /\ ViewIsTrue
  BY EditorInitEstablishes, ViewInitEstablishes
<1>2. EditorIInv /\ ViewIsTrue /\ [EditorNext]_editorVars => (EditorIInv /\ ViewIsTrue)'
  BY OneKeyboard, EditorNextKeeps, ViewNextKeeps
<1> QED
  BY <1>1, <1>2, PTL DEF EditorSpec

\* What is shown of a device that nobody else has changed and that nothing is under way for
\* is what the device does, read back or remembered, whatever has failed, gone missing from
\* the list or come back in between (app.rs, ControlDock and apply_control_update).
THEOREM WhatIsShownIsTrue ==
  ASSUME OneKeyboard
  PROVE  EditorSpec => []ShownIsTrue
<1>1. EditorIInv /\ ViewIsTrue => ShownIsTrue
  <2> SUFFICES ASSUME EditorIInv, ViewIsTrue, NEW d, d = Selected(app, editor.index),
                      Quiet(d), IsKnown(d)
               PROVE  /\ DisplayedPower(d) = (look[d.id].brightness > 0) \/ Astray(d)
                      /\ DisplayedMode(d) = look[d.id].mode
    BY DEF ShownIsTrue
  <2>1. /\ ViewTypeOK /\ LightingIsTrue /\ RememberedIsTrue /\ devices \in Machines
        /\ app \in Apps /\ editor \in Editors
    BY DEF EditorIInv, ViewIsTrue, ViewTypeOK
  <2>2. d \in Lights
    BY <2>1, ObservedIs DEF Quiet
  <2>3. ~Coming(d) /\ d.id \notin past.altered /\ (d.id \in past.read => Readable(app, d))
    BY NothingComes DEF Quiet
  <2>4. CASE Readable(app, d)
    <3>1. Agrees(app.lighting, d)
      BY <2>1, <2>2, <2>3, <2>4 DEF LightingIsTrue, Readable
    <3> QED
      BY <2>4, <3>1 DEF Agrees, DisplayedPower, DisplayedMode
  <2>5. CASE ~Readable(app, d)
    <3>1. PICK r \in LastApplied(app, d) : TRUE
      BY <2>5 DEF IsKnown
    <3>2. /\ r \in app.last /\ r.id = d.id /\ \A q \in LastApplied(app, d) : q = r
          /\ (CHOOSE q \in LastApplied(app, d) : TRUE) = r /\ r.brightness \in 0 .. Full
      BY <2>1, <2>2, RememberedIs DEF Remembered
    <3>3. Describes(r, d)
      BY <2>1, <2>2, <2>3, <2>5, <3>2 DEF RememberedIsTrue
    <3>4. DisplayedMode(d) = look[d.id].mode
      BY <2>5, <3>2, <3>3 DEF DisplayedMode, Describes
    <3>5. DisplayedPower(d) <=> r.mode # "off"
      BY <2>5, <3>1, <3>2 DEF DisplayedPower
    <3>6. (r.mode # "off" <=> look[d.id].brightness > 0) \/ r.brightness = 0
      BY <3>2, <3>3 DEF Describes, Full
    <3>7. r.brightness = 0 => Astray(d)
      BY <2>5, <3>1 DEF Astray
    <3> QED
      BY <3>4, <3>5, <3>6, <3>7, PowerIsShown
  <2> QED
    BY <2>4, <2>5
<1> QED
  BY <1>1, ViewInvariant, PTL

\* The draft of a device that is lit in static colours, without changes of its own, is the
\* look of that device: a press of one control leaves the others as they are, unless an edit
\* was made while a request was under way or for another device, or a request has failed
\* (app.rs, ControlDock).
THEOREM CleanDraftsAreTheLook ==
  ASSUME OneKeyboard
  PROVE  EditorSpec => []CleanDraftIsTheLook
<1>1. EditorIInv /\ ViewIsTrue => CleanDraftIsTheLook
  <2> SUFFICES ASSUME EditorIInv, ViewIsTrue, NEW d, d = Selected(app, editor.index),
                      Quiet(d), IsKnown(d), Clean(d),
                      look[d.id].mode = "static", look[d.id].brightness > 0
               PROVE  /\ editor.brightness = look[d.id].brightness
                      /\ \A z \in 1 .. d.zones : editor.zones[z] = look[d.id].zones[z]
    BY DEF CleanDraftIsTheLook, Clean
  <2>1. /\ ViewTypeOK /\ LightingIsTrue /\ RememberedIsTrue /\ devices \in Machines
        /\ app \in Apps /\ editor \in Editors /\ ObservedIsShown /\ DraftIsOwn
    BY DEF EditorIInv, ViewIsTrue, ViewTypeOK
  <2>2. d \in Lights
    BY <2>1, ObservedIs DEF Quiet
  <2>3. /\ ~Coming(d) /\ ~Acted(d) /\ d.id \notin past.altered
        /\ d.id \in past.read => Readable(app, d)
    BY NothingComes DEF Quiet
  <2>4. CASE Readable(app, d)
    <3>1. Agrees(app.lighting, d) /\ app.lighting \in States
      BY <2>1, <2>2, <2>3, <2>4 DEF LightingIsTrue, Readable, Apps
    <3>2. /\ editor.observed # NoItem
          /\ editor.observed = [id |-> d.id, read |-> keyboard_editor_readback(app.lighting)]
      BY <2>1, <2>2, <2>4, LightIs, ObservedIs DEF ObservedIsShown
    <3>3. /\ keyboard_editor_readback(app.lighting).brightness = app.lighting.brightness
          /\ keyboard_editor_readback(app.lighting).zones = app.lighting.zones
      BY <3>1, ReadbackIs DEF Agrees
    <3>4. DraftIsObserved(d)
      BY <2>1, <2>2, <2>3 DEF DraftIsOwn
    <3>5. DraftIs(app.lighting.brightness, app.lighting.zones, d)
      BY <3>1, <3>2, <3>3, <3>4 DEF DraftIsObserved, Agrees
    <3> QED
      BY <3>1, <3>5 DEF DraftIs, Agrees
  <2>5. CASE ~Readable(app, d)
    <3>1. PICK r \in LastApplied(app, d) : TRUE
      BY <2>5 DEF IsKnown
    <3>2. r \in app.last /\ r.id = d.id
      BY <3>1 DEF LastApplied
    <3>3. Describes(r, d)
      BY <2>1, <2>2, <2>3, <2>5, <3>2 DEF RememberedIsTrue
    <3>4. r.mode = "static"
      BY <3>3 DEF Describes
    <3>5. DraftIs(r.brightness, r.zones, d)
      BY <2>1, <2>2, <2>3, <2>5, <3>2, <3>4 DEF DraftIsOwn
    <3> QED
      BY <3>3, <3>4, <3>5 DEF DraftIs, Describes
  <2> QED
    BY <2>4, <2>5
<1> QED
  BY <1>1, ViewInvariant, PTL

-----------------------------------------------------------------------------
(* The zoned keyboard of the kernel module: records, reads and looks.         *)

\* A colour in the static record goes with no other quirk.
LEMMA GlobalIsAlone ==
  ASSUME light.quirks \in Quirks, Global
  PROVE  light.quirks = {"global"}
BY DEF Quirks, Global

\* What the firmware holds.
LEMMA LightFacts ==
  ASSUME RgbTypeOK
  PROVE  /\ light = [quirks |-> light.quirks, effect |-> light.effect, zones |-> light.zones]
         /\ light.quirks \in Quirks /\ light.effect \in Effect
         /\ light.zones \in [ZoneIds -> Shades]
BY DEF RgbTypeOK

\* The fields of a record, and of the colours of the zones.
LEMMA Fields ==
  /\ \A e \in Effect : /\ e.mode \in {"static", "wave"} /\ e.level \in Levels
                       /\ e.colour \in Shades /\ e.odd \in BOOLEAN
                       /\ e = [mode |-> e.mode, level |-> e.level, colour |-> e.colour,
                               odd |-> e.odd]
  /\ \A z \in ZoneStates : /\ z = [colours |-> z.colours, level |-> z.level]
                           /\ z.colours \in [ZoneIds -> Shades] /\ z.level \in Levels
                           /\ z.colours[1] \in Shades /\ z.colours[2] \in Shades
BY DEF Effect, ZoneStates, ZoneIds

\* Zones are told apart by their two colours.
LEMMA ZonesDiffer ==
  ASSUME NEW c \in [ZoneIds -> Shades], NEW d \in [ZoneIds -> Shades], c[1] = d[1], c[2] = d[2]
  PROVE  c = d
BY DEF ZoneIds

\* The static record of some zones.
LEMMA StaticRecord ==
  ASSUME NEW z \in ZoneStates
  PROVE  /\ StaticEffect(z) \in Written
         /\ StaticEffect(z).mode = "static" /\ StaticEffect(z).level = z.level
         /\ ~StaticEffect(z).odd
         /\ StaticEffect(z).colour = IF Global THEN z.colours[1] ELSE Black
<1>1. StaticEffect(z) = [mode |-> "static", level |-> z.level, odd |-> FALSE,
                         colour |-> IF Global THEN z.colours[1] ELSE Black]
  BY DEF StaticEffect
<1>2. z.level \in Levels /\ z.colours[1] \in Shades /\ Black \in Shades
  BY Fields DEF Shades
<1> QED
  BY <1>1, <1>2 DEF Written, Effect

\* What is read of the zones.
LEMMA ZonesRead ==
  ASSUME RgbTypeOK
  PROVE  /\ ReadZones(light) \in ZoneStates
         /\ ReadZones(light).level = light.effect.level
         /\ IF Global /\ light.effect.mode = "static"
            THEN /\ ReadZones(light).colours[1] = light.effect.colour
                 /\ ReadZones(light).colours[2] = Black
            ELSE ReadZones(light).colours = light.zones
<1>1. light.effect.level \in Levels /\ light.effect.colour \in Shades /\ Black \in Shades
      /\ light.zones \in [ZoneIds -> Shades]
  BY LightFacts, Fields DEF Shades
<1>2. CASE Global /\ light.effect.mode = "static"
  <2>1. ReadZones(light) = [colours |-> [z \in ZoneIds |-> IF z = 1 THEN light.effect.colour
                                                                   ELSE Black],
                            level |-> light.effect.level]
    BY <1>2 DEF ReadZones, Global
  <2> QED
    BY <1>1, <1>2, <2>1 DEF ZoneStates, ZoneIds
<1>3. CASE ~(Global /\ light.effect.mode = "static")
  <2>1. ReadZones(light) = [colours |-> light.zones, level |-> light.effect.level]
    BY <1>3 DEF ReadZones, Global
  <2> QED
    BY <1>1, <1>3, <2>1 DEF ZoneStates
<1> QED
  BY <1>2, <1>3

\* What a store would write back is a record that the driver writes.
LEMMA SnapshotIsWritten ==
  ASSUME RgbTypeOK
  PROVE  /\ Snapshot \in Written
         /\ IF light.effect.odd THEN Snapshot = StaticEffect(ReadZones(light))
                                ELSE Snapshot = light.effect
BY LightFacts, ZonesRead, StaticRecord DEF Snapshot, Written

-----------------------------------------------------------------------------
(* The calls of a transaction, and how far they have come.                   *)

\* The calls of a queue.
LEMMA CallsAre ==
  /\ \A e \in Written, b \in BOOLEAN :
       /\ [call |-> "effect", effect |-> e, zoned |-> b] \in RgbCalls
       /\ [call |-> "check", effect |-> e, zoned |-> b] \in RgbCalls
  /\ \A i \in ZoneIds, c \in Shades : ZoneCall(i, c) \in RgbCalls
  /\ Enable \in RgbCalls
BY DEF RgbCalls, ZoneCall

\* The fields of a call.
LEMMA CallFields ==
  ASSUME NEW call \in RgbCalls
  PROVE  /\ call.call \in {"effect", "check", "zone", "enable"}
         /\ call.call \in {"effect", "check"} =>
              call.effect \in Written /\ call.zoned \in BOOLEAN
         /\ call.call = "zone" => call.zone \in ZoneIds /\ call.colour \in Shades
<1>1. CASE call \in [call : {"effect", "check"}, effect : Written, zoned : BOOLEAN]
  BY <1>1
<1>2. CASE call \in [call : {"zone"}, zone : ZoneIds, colour : Shades]
  BY <1>2
<1>3. CASE call = Enable
  BY <1>3 DEF Enable
<1> QED
  BY <1>1, <1>2, <1>3 DEF RgbCalls

\* Calls are made from the front of the queue.
LEMMA Queues ==
  ASSUME NEW a, NEW b, NEW c, NEW d, NEW e, NEW f
  PROVE  /\ Head(<<a>>) = a /\ Tail(<<a>>) = <<>>
         /\ Head(<<a, b>>) = a /\ Tail(<<a, b>>) = <<b>>
         /\ Head(<<a, b, c>>) = a /\ Tail(<<a, b, c>>) = <<b, c>>
         /\ Head(<<a, b, c, d>>) = a /\ Tail(<<a, b, c, d>>) = <<b, c, d>>
         /\ Head(<<a, b, c, d, e>>) = a /\ Tail(<<a, b, c, d, e>>) = <<b, c, d, e>>
         /\ Head(<<a, b, c, d, e, f>>) = a /\ Tail(<<a, b, c, d, e, f>>) = <<b, c, d, e, f>>
OBVIOUS

\* The queue of asense_write_zones.
LEMMA WriteZonesBegins ==
  ASSUME RgbTypeOK, NEW z \in ZoneStates, light'.quirks = light.quirks,
         rgb'.todo = WriteZones(z)
  PROVE  ZonesLeft(z)' /\ rgb'.todo \in Seq(RgbCalls)
<1>1. /\ Enable \in RgbCalls /\ Paint(z, 1) \in RgbCalls /\ Paint(z, 2) \in RgbCalls
      /\ Commit(z) \in RgbCalls /\ Check(z) \in RgbCalls
  <2>1. Commit(z) = [call |-> "effect", effect |-> StaticEffect(z), zoned |-> ~Global]
    BY DEF EffectCall, Commit
  <2>2. StaticEffect(z) \in Written /\ (~Global) \in BOOLEAN
    BY StaticRecord
  <2>3. 1 \in ZoneIds /\ 2 \in ZoneIds /\ z.colours[1] \in Shades /\ z.colours[2] \in Shades
    BY Fields DEF ZoneIds
  <2> QED
    BY <2>1, <2>2, <2>3, CallsAre DEF Paint, Check
<1>2. /\ Paint(z, 1)' = Paint(z, 1) /\ Paint(z, 2)' = Paint(z, 2) /\ Commit(z)' = Commit(z)
      /\ Check(z)' = Check(z) /\ Global' = Global
  BY DEF Global, StaticEffect, EffectCall, ZoneCall, Paint, Commit, Check
<1>3. CASE Global
  <2>1. rgb'.todo = <<Commit(z), Check(z)>>
    BY <1>3 DEF WriteZones
  <2>2. Painted(z, 1)' /\ Painted(z, 2)'
    BY <1>2, <1>3 DEF Painted
  <2>3. <<Commit(z), Check(z)>> \in Seq(RgbCalls)
    BY <1>1
  <2> QED
    BY <1>2, <2>1, <2>2, <2>3 DEF ZonesLeft
<1>4. CASE ~Global
  <2>1. \/ rgb'.todo = <<Enable, Enable, Paint(z, 1), Paint(z, 2), Commit(z), Check(z)>>
        \/ rgb'.todo = <<Paint(z, 1), Paint(z, 2), Commit(z), Check(z)>>
    BY <1>4 DEF WriteZones
  <2>2. /\ <<Enable, Enable, Paint(z, 1), Paint(z, 2), Commit(z), Check(z)>> \in Seq(RgbCalls)
        /\ <<Paint(z, 1), Paint(z, 2), Commit(z), Check(z)>> \in Seq(RgbCalls)
    BY <1>1
  <2>3. Enable' = Enable
    BY DEF Enable
  <2> QED
    BY <1>2, <1>4, <2>1, <2>2, <2>3 DEF ZonesLeft
<1> QED
  BY <1>3, <1>4

\* What the firmware makes of a call.
LEMMA CarriesTyped ==
  ASSUME RgbTypeOK, NEW call \in RgbCalls, Carries(call)
  PROVE  /\ light' \in [quirks : Quirks, effect : Effect, zones : [ZoneIds -> Shades]]
         /\ light'.quirks = light.quirks
         /\ call.call = "zone" =>
              light'.effect = light.effect
              /\ light'.zones = [light.zones EXCEPT ![call.zone] = call.colour]
         /\ call.call = "effect" =>
              light'.zones = light.zones /\ Took(call.effect, call.zoned)'
         /\ call.call \notin {"zone", "effect"} => light' = light
<1>0. /\ light = [quirks |-> light.quirks, effect |-> light.effect, zones |-> light.zones]
      /\ light.quirks \in Quirks /\ light.effect \in Effect
      /\ light.zones \in [ZoneIds -> Shades]
  BY LightFacts
<1>1. CASE call.call = "zone"
  <2>1. light' = [light EXCEPT !.zones[call.zone] = call.colour]
    BY <1>1 DEF Carries
  <2>2. call.zone \in ZoneIds /\ call.colour \in Shades
    BY <1>1, CallFields
  <2>3. light' = [quirks |-> light.quirks, effect |-> light.effect,
                  zones |-> [light.zones EXCEPT ![call.zone] = call.colour]]
    BY <1>0, <2>1
  <2>4. [light.zones EXCEPT ![call.zone] = call.colour] \in [ZoneIds -> Shades]
    BY <1>0, <2>2
  <2> QED
    BY <1>0, <1>1, <2>3, <2>4
<1>2. CASE call.call = "effect"
  <2>0. call.effect \in Written /\ call.zoned \in BOOLEAN
    BY <1>2, CallFields
  <2>1. PICK odd \in BOOLEAN, shade \in Shades :
          /\ odd => "stale" \in light.quirks /\ call.effect.mode = "static"
          /\ \/ shade = call.effect.colour
             \/ "shadow" \in light.quirks /\ call.zoned /\ shade = light.zones[1]
          /\ light' = [light EXCEPT !.effect = [call.effect EXCEPT !.odd = odd, !.colour = shade]]
    BY <1>2 DEF Carries
  <2>2. /\ call.effect \in Effect
        /\ call.effect = [mode |-> call.effect.mode, level |-> call.effect.level,
                          colour |-> call.effect.colour, odd |-> call.effect.odd]
        /\ call.effect.mode \in {"static", "wave"} /\ call.effect.level \in Levels
        /\ call.effect.colour \in Shades
    BY <2>0, Fields DEF Written
  <2>5. /\ light'.quirks = light.quirks /\ light'.zones = light.zones
        /\ light' = [quirks |-> light.quirks, effect |-> light'.effect, zones |-> light.zones]
        /\ light'.effect = [mode |-> call.effect.mode, level |-> call.effect.level,
                            colour |-> shade, odd |-> odd]
    BY <1>0, <2>1, <2>2
  <2>6. light'.effect \in Effect
    BY <2>1, <2>2, <2>5 DEF Effect
  <2>7. Took(call.effect, call.zoned)'
    <3>1. odd => "stale" \in light.quirks /\ call.effect.mode = "static"
      BY <2>1
    <3>2. shade = call.effect.colour \/ (call.zoned /\ "shadow" \in light.quirks)
      BY <2>1
    <3> QED
      BY <2>5, <3>1, <3>2 DEF Took
  <2> QED
    BY <1>0, <1>2, <2>5, <2>6, <2>7
<1>3. CASE call.call \notin {"zone", "effect"}
  <2>1. light' = light
    BY <1>3 DEF Carries
  <2> QED
    BY <1>0, <1>3, <2>1
<1> QED
  BY <1>1, <1>2, <1>3

\* One more call of an effect.
LEMMA EffectGoesOn ==
  ASSUME RgbTypeOK, NEW e \in Written, EffectLeft(e), rgb.todo # <<>>,
         Carries(Head(rgb.todo)), rgb'.todo = Tail(rgb.todo)
  PROVE  /\ EffectLeft(e)' /\ rgb'.todo = <<>> /\ light'.zones = light.zones
         /\ Head(rgb.todo).call = "effect"
<1>1. rgb.todo = <<EffectCall(e)>>
  BY DEF EffectLeft
<1>2. Head(rgb.todo) = EffectCall(e) /\ rgb'.todo = <<>>
  BY <1>1, Queues
<1>3. EffectCall(e) = [call |-> "effect", effect |-> e, zoned |-> FALSE]
  BY DEF EffectCall
<1>4. EffectCall(e) \in RgbCalls
  BY <1>3, CallsAre
<1>5. Took(e, FALSE)' /\ light'.zones = light.zones
  <2>1. Carries(EffectCall(e))
    BY <1>2
  <2>2. EffectCall(e).call = "effect" /\ EffectCall(e).effect = e /\ EffectCall(e).zoned = FALSE
    BY <1>3
  <2> HIDE <1>3
  <2>3. Took(EffectCall(e).effect, EffectCall(e).zoned)' /\ light'.zones = light.zones
    BY <1>4, <2>1, <2>2, CarriesTyped
  <2>4. EffectCall(e)' = EffectCall(e)
    BY DEF EffectCall
  <2> QED
    BY <2>2, <2>3, <2>4 DEF Took
<1>6. EffectLeft(e)'
  BY <1>2, <1>5 DEF EffectLeft
<1>7. Head(rgb.todo).call = "effect"
  BY <1>2, <1>3
<1> QED
  BY <1>2, <1>5, <1>6, <1>7

\* The fields of the calls of asense_write_zones.
LEMMA ZoneCalls ==
  ASSUME RgbTypeOK, NEW z \in ZoneStates
  PROVE  /\ Enable \in RgbCalls /\ Enable.call = "enable"
         /\ \A i \in {1, 2} : /\ Paint(z, i) \in RgbCalls /\ Paint(z, i).call = "zone"
                              /\ Paint(z, i).zone = i /\ Paint(z, i).colour = z.colours[i]
         /\ Commit(z) \in RgbCalls /\ Commit(z).call = "effect"
         /\ Commit(z).effect = StaticEffect(z) /\ Commit(z).zoned = ~Global
         /\ Check(z) \in RgbCalls /\ Check(z).call = "check"
         /\ Check(z).effect = StaticEffect(z) /\ Check(z).zoned = ~Global
<1>1. Commit(z) = [call |-> "effect", effect |-> StaticEffect(z), zoned |-> ~Global]
  BY DEF EffectCall, Commit
<1>2. Check(z) = [call |-> "check", effect |-> StaticEffect(z), zoned |-> ~Global]
  BY DEF Check
<1>3. StaticEffect(z) \in Written /\ (~Global) \in BOOLEAN
  BY StaticRecord
<1>4. \A i \in {1, 2} : i \in ZoneIds /\ z.colours[i] \in Shades
  BY Fields DEF ZoneIds
<1>5. \A i \in {1, 2} : Paint(z, i) = [call |-> "zone", zone |-> i, colour |-> z.colours[i]]
  BY DEF Paint, ZoneCall
<1>6. Enable \in RgbCalls /\ Enable.call = "enable"
  BY CallsAre DEF Enable
<1>7. Commit(z) \in RgbCalls /\ Check(z) \in RgbCalls
  BY <1>1, <1>2, <1>3, CallsAre
<1>8. /\ Commit(z).call = "effect" /\ Commit(z).effect = StaticEffect(z)
      /\ Commit(z).zoned = ~Global
  BY <1>1
<1>9. /\ Check(z).call = "check" /\ Check(z).effect = StaticEffect(z)
      /\ Check(z).zoned = ~Global
  BY <1>2
<1>10. \A i \in {1, 2} : Paint(z, i) \in RgbCalls
  BY <1>4, CallsAre DEF Paint
<1>11. \A i \in {1, 2} : /\ Paint(z, i).call = "zone" /\ Paint(z, i).zone = i
                         /\ Paint(z, i).colour = z.colours[i]
  BY <1>5
<1> QED
  BY <1>6, <1>7, <1>8, <1>9, <1>10, <1>11

\* What comes of each of these calls.
LEMMA ZoneCallsCarry ==
  ASSUME RgbTypeOK, NEW z \in ZoneStates
  PROVE  /\ Carries(Enable) => light' = light
         /\ \A i \in {1, 2} : Carries(Paint(z, i)) =>
              /\ light'.zones = [light.zones EXCEPT ![i] = z.colours[i]]
              /\ light'.quirks = light.quirks
         /\ Carries(Commit(z)) =>
              /\ light'.zones = light.zones /\ light'.quirks = light.quirks
              /\ Took(StaticEffect(z), ~Global)'
<1>1. ASSUME Carries(Enable) PROVE light' = light
  <2>1. Enable \in RgbCalls /\ Enable.call = "enable"
    BY ZoneCalls
  <2> QED
    BY <1>1, <2>1, CarriesTyped
<1>2. ASSUME NEW i \in {1, 2}, Carries(Paint(z, i))
      PROVE  /\ light'.zones = [light.zones EXCEPT ![i] = z.colours[i]]
             /\ light'.quirks = light.quirks
  <2>1. /\ Paint(z, i) \in RgbCalls /\ Paint(z, i).call = "zone"
        /\ Paint(z, i).zone = i /\ Paint(z, i).colour = z.colours[i]
    BY ZoneCalls
  <2>2. /\ light'.zones = [light.zones EXCEPT ![Paint(z, i).zone] = Paint(z, i).colour]
        /\ light'.quirks = light.quirks
    BY <1>2, <2>1, CarriesTyped
  <2> QED
    BY <2>1, <2>2
<1>3. ASSUME Carries(Commit(z))
      PROVE  /\ light'.zones = light.zones /\ light'.quirks = light.quirks
             /\ Took(StaticEffect(z), ~Global)'
  <2>1. PICK call \in RgbCalls :
          /\ call = Commit(z) /\ call.call = "effect"
          /\ call.effect = StaticEffect(z) /\ call.zoned = ~Global
    BY ZoneCalls
  <2>2. /\ light'.zones = light.zones /\ light'.quirks = light.quirks
        /\ Took(call.effect, call.zoned)'
    BY <1>3, <2>1, CarriesTyped
  <2>3. StaticEffect(z)' = StaticEffect(z) /\ Global' = Global
    BY <2>2 DEF Global, StaticEffect
  <2> QED
    BY <2>1, <2>2, <2>3 DEF Took
<1> QED
  BY <1>1, <1>2, <1>3

\* The names of what is written do not change with the record.
LEMMA ZoneCallsStay ==
  ASSUME NEW z, light'.quirks = light.quirks
  PROVE  /\ Enable' = Enable /\ Global' = Global /\ StaticEffect(z)' = StaticEffect(z)
         /\ Paint(z, 1)' = Paint(z, 1) /\ Paint(z, 2)' = Paint(z, 2)
         /\ Commit(z)' = Commit(z) /\ Check(z)' = Check(z)
BY DEF Enable, Global, StaticEffect, EffectCall, ZoneCall, Paint, Commit, Check

\* One more call of asense_write_zones.
LEMMA ZonesGoOn ==
  ASSUME RgbTypeOK, NEW z \in ZoneStates, ZonesLeft(z), rgb.todo # <<>>,
         Head(rgb.todo).call # "check",
         Carries(Head(rgb.todo)), rgb'.todo = Tail(rgb.todo)
  PROVE  ZonesLeft(z)'
<1> DEFINE call == Head(rgb.todo)
<1>0. /\ light.zones \in [ZoneIds -> Shades] /\ 1 \in ZoneIds /\ 2 \in ZoneIds
  BY LightFacts DEF ZoneIds
<1>1. CASE rgb.todo = <<Enable, Enable, Paint(z, 1), Paint(z, 2), Commit(z), Check(z)>> /\ ~Global
  <2>1. call = Enable
        /\ rgb'.todo = <<Enable, Paint(z, 1), Paint(z, 2), Commit(z), Check(z)>>
    BY <1>1, Queues
  <2>2. light' = light
    BY <2>1, ZoneCallsCarry
  <2> QED
    BY <1>1, <2>1, <2>2, ZoneCallsStay DEF ZonesLeft
<1>2. CASE rgb.todo = <<Enable, Paint(z, 1), Paint(z, 2), Commit(z), Check(z)>> /\ ~Global
  <2>1. call = Enable /\ rgb'.todo = <<Paint(z, 1), Paint(z, 2), Commit(z), Check(z)>>
    BY <1>2, Queues
  <2>2. light' = light
    BY <2>1, ZoneCallsCarry
  <2> QED
    BY <1>2, <2>1, <2>2, ZoneCallsStay DEF ZonesLeft
<1>3. CASE rgb.todo = <<Paint(z, 1), Paint(z, 2), Commit(z), Check(z)>> /\ ~Global
  <2>1. call = Paint(z, 1) /\ rgb'.todo = <<Paint(z, 2), Commit(z), Check(z)>>
    BY <1>3, Queues
  <2>2. /\ light'.zones = [light.zones EXCEPT ![1] = z.colours[1]]
        /\ light'.quirks = light.quirks
    BY <2>1, ZoneCallsCarry
  <2>3. Painted(z, 1)'
    BY <1>0, <2>2 DEF Painted
  <2> QED
    BY <1>3, <2>1, <2>2, <2>3, ZoneCallsStay DEF ZonesLeft
<1>4. CASE rgb.todo = <<Paint(z, 2), Commit(z), Check(z)>> /\ ~Global /\ Painted(z, 1)
  <2>1. call = Paint(z, 2) /\ rgb'.todo = <<Commit(z), Check(z)>>
    BY <1>4, Queues
  <2>2. /\ light'.zones = [light.zones EXCEPT ![2] = z.colours[2]]
        /\ light'.quirks = light.quirks
    BY <2>1, ZoneCallsCarry
  <2>3. Painted(z, 1)' /\ Painted(z, 2)'
    BY <1>0, <1>4, <2>2, ZoneCallsStay DEF Painted
  <2> QED
    BY <2>1, <2>2, <2>3, ZoneCallsStay DEF ZonesLeft
<1>5. CASE rgb.todo = <<Commit(z), Check(z)>> /\ Painted(z, 1) /\ Painted(z, 2)
  <2>1. call = Commit(z) /\ rgb'.todo = <<Check(z)>>
    BY <1>5, Queues
  <2>2. /\ light'.zones = light.zones /\ light'.quirks = light.quirks
        /\ Took(StaticEffect(z), ~Global)'
    BY <2>1, ZoneCallsCarry
  <2>3. Painted(z, 1)' /\ Painted(z, 2)'
    BY <1>5, <2>2, ZoneCallsStay DEF Painted
  <2> QED
    BY <2>1, <2>2, <2>3, ZoneCallsStay DEF ZonesLeft
<1>6. CASE rgb.todo = <<Check(z)>>
  BY <1>6, Queues, ZoneCalls
<1> QED
  BY <1>1, <1>2, <1>3, <1>4, <1>5, <1>6 DEF ZonesLeft

\* The record that was written is the one that is read back, as the quirks allow.
LEMMA TookMatches ==
  ASSUME RgbTypeOK, NEW e \in Written, NEW zoned \in BOOLEAN, NEW asked,
         Took(e, zoned), zoned => asked /\ e.mode = "static"
  PROVE  Matches(e, light.effect, asked)
<1>1. ~e.odd
  BY DEF Written
<1>2. ReadValid(light.effect)
  BY DEF ReadValid, Took
<1> QED
  BY <1>1, <1>2 DEF Matches, Took

\* The readback after asense_write_zones' commit is passed.
LEMMA CheckIsPassed ==
  ASSUME RgbTypeOK, NEW z \in ZoneStates, ZonesLeft(z), rgb.todo # <<>>,
         Head(rgb.todo).call = "check"
  PROVE  /\ rgb.todo = <<Check(z)>> /\ Head(rgb.todo) = Check(z) /\ Tail(rgb.todo) = <<>>
         /\ Painted(z, 1) /\ Painted(z, 2) /\ Took(StaticEffect(z), ~Global)
         /\ Matches(Head(rgb.todo).effect, light.effect, Head(rgb.todo).zoned)
<1>1. rgb.todo = <<Check(z)>> /\ Painted(z, 1) /\ Painted(z, 2) /\ Took(StaticEffect(z), ~Global)
  BY Queues, ZoneCalls DEF ZonesLeft
<1>2. Head(rgb.todo) = Check(z) /\ Tail(rgb.todo) = <<>>
  BY <1>1, Queues
<1>3. Matches(StaticEffect(z), light.effect, ~Global)
  <2>1. StaticEffect(z) \in Written /\ StaticEffect(z).mode = "static" /\ (~Global) \in BOOLEAN
    BY StaticRecord
  <2> QED
    BY <1>1, <2>1, TookMatches
<1> QED
  BY <1>1, <1>2, <1>3, ZoneCalls

\* A way without trouble ends where the readback expects it.
LEMMA WayIsConfirmed ==
  ASSUME RgbTypeOK, rgb.expect.effect \in Written, OnTheWay, rgb.todo = <<>>
  PROVE  /\ Matches(rgb.expect.effect, light.effect, rgb.expect.zoned)
         /\ rgb.expect.zones # {} => ReadZones(light) \in rgb.expect.zones
<1> DEFINE e == rgb.expect.effect
           w == ReadZones(light)
<1>0. /\ w \in ZoneStates /\ w.level = light.effect.level
      /\ IF Global /\ light.effect.mode = "static"
         THEN w.colours[1] = light.effect.colour /\ w.colours[2] = Black
         ELSE w.colours = light.zones
      /\ light.zones \in [ZoneIds -> Shades]
  BY ZonesRead, LightFacts
<1> HIDE DEF w
<1>1. ASSUME NEW z \in ZoneStates, z.colours[1] = w.colours[1], z.colours[2] = w.colours[2],
             z.level = w.level
      PROVE  w = z
  <2>1. w.colours = z.colours
    BY <1>0, <1>1, Fields, ZonesDiffer
  <2> QED
    BY <1>0, <1>1, <2>1, Fields
<1>2. ASSUME NEW z \in ZoneStates, Fits(z), e = StaticEffect(z), rgb.expect.zoned,
             rgb.expect.zones = {z}, ZonesLeft(z)
      PROVE  Matches(e, light.effect, rgb.expect.zoned) /\ w = z
  <2>1. Painted(z, 1) /\ Painted(z, 2) /\ Took(StaticEffect(z), ~Global)
    BY <1>2 DEF ZonesLeft
  <2>2. /\ StaticEffect(z) \in Written /\ StaticEffect(z).mode = "static"
        /\ StaticEffect(z).level = z.level
        /\ StaticEffect(z).colour = IF Global THEN z.colours[1] ELSE Black
    BY StaticRecord
  <2>3. Matches(e, light.effect, rgb.expect.zoned)
    BY <1>2, <2>1, <2>2, TookMatches
  <2>4. light.effect.mode = "static" /\ light.effect.level = z.level
        /\ (Global => light.effect.colour = z.colours[1])
    BY <2>1, <2>2 DEF Took
  <2>5. z.colours[1] = w.colours[1] /\ z.colours[2] = w.colours[2] /\ z.level = w.level
    BY <1>0, <1>2, <2>1, <2>4 DEF Painted, Fits
  <2> QED
    BY <1>1, <2>3, <2>5
<1>3. ASSUME EffectLeft(e)
      PROVE  /\ Matches(e, light.effect, rgb.expect.zoned)
             /\ light.effect.mode = e.mode /\ light.effect.level = e.level
             /\ light.effect.colour = e.colour
  <2>0. PICK f \in Written : f = e
    OBVIOUS
  <2>1. EffectLeft(f) /\ <<EffectCall(f)>> # <<>>
    BY <1>3, <2>0
  <2>2. Took(f, FALSE)
    BY <2>1 DEF EffectLeft
  <2>3. Matches(f, light.effect, rgb.expect.zoned)
    BY <2>2, TookMatches
  <2> QED
    BY <2>0, <2>2, <2>3 DEF Took
<1>4. ASSUME NEW z \in ZoneStates, EffectLeft(e), z.level = e.level,
             IF Global /\ e.mode = "static"
             THEN z.colours[1] = e.colour /\ z.colours[2] = Black
             ELSE z.colours = light.zones
      PROVE  w = z
  <2>1. z.colours[1] = w.colours[1] /\ z.colours[2] = w.colours[2] /\ z.level = w.level
    BY <1>0, <1>3, <1>4
  <2> QED
    BY <1>1, <2>1
<1> QED
  BY <1>2, <1>3, <1>4 DEF OnTheWay, w

\* A call that is carried out is a step on the way.
LEMMA WayGoesOn ==
  ASSUME RgbTypeOK, rgb.expect.effect \in Written, OnTheWay, rgb.todo # <<>>,
         Head(rgb.todo) \in RgbCalls,
         rgb'.todo = Tail(rgb.todo), rgb'.expect = rgb.expect,
         IF Head(rgb.todo).call = "check" THEN light' = light ELSE Carries(Head(rgb.todo))
  PROVE  /\ OnTheWay'
         /\ Head(rgb.todo).call = "check" =>
              Matches(Head(rgb.todo).effect, light.effect, Head(rgb.todo).zoned)
<1>0. light'.quirks = light.quirks
  BY CarriesTyped
<1>1. ASSUME NEW z \in ZoneStates, Fits(z), rgb.expect.effect = StaticEffect(z),
             rgb.expect.zoned, rgb.expect.zones = {z}, ZonesLeft(z)
      PROVE  /\ OnTheWay'
             /\ Head(rgb.todo).call = "check" =>
                  Matches(Head(rgb.todo).effect, light.effect, Head(rgb.todo).zoned)
  <2>0. StaticEffect(z)' = StaticEffect(z) /\ Global' = Global /\ Check(z)' = Check(z)
    BY <1>0, ZoneCallsStay
  <2>1. CASE Head(rgb.todo).call # "check"
    <3>1. ZonesLeft(z)'
      BY <1>1, <2>1, ZonesGoOn
    <3> QED
      BY <1>1, <2>0, <2>1, <3>1 DEF OnTheWay, Fits
  <2>2. CASE Head(rgb.todo).call = "check"
    <3>1. /\ Tail(rgb.todo) = <<>> /\ Painted(z, 1) /\ Painted(z, 2)
          /\ Took(StaticEffect(z), ~Global)
          /\ Matches(Head(rgb.todo).effect, light.effect, Head(rgb.todo).zoned)
      BY <1>1, <2>2, CheckIsPassed
    <3>2. ZonesLeft(z)'
      BY <2>0, <2>2, <3>1 DEF ZonesLeft, Painted, Took
    <3> QED
      BY <1>1, <2>0, <3>1, <3>2 DEF OnTheWay, Fits
  <2> QED
    BY <2>1, <2>2
<1>2. ASSUME NEW e \in Written, e = rgb.expect.effect, EffectLeft(e),
             \/ rgb.expect.zones = {}
             \/ \E z \in ZoneStates :
                  /\ rgb.expect.zones = {z} /\ z.level = e.level
                  /\ IF Global /\ e.mode = "static"
                     THEN z.colours[1] = e.colour /\ z.colours[2] = Black
                     ELSE z.colours = light.zones
      PROVE  /\ OnTheWay'
             /\ Head(rgb.todo).call = "check" =>
                  Matches(Head(rgb.todo).effect, light.effect, Head(rgb.todo).zoned)
  <2>1. Head(rgb.todo).call = "effect"
    <3>1. rgb.todo = <<EffectCall(e)>>
      BY <1>2 DEF EffectLeft
    <3>2. Head(rgb.todo) = EffectCall(e)
      BY <3>1, Queues
    <3> QED
      BY <3>2 DEF EffectCall
  <2>2. EffectLeft(e)' /\ light'.zones = light.zones
    BY <1>2, <2>1, EffectGoesOn
  <2>3. Global' = Global
    BY <1>0 DEF Global
  <2> QED
    BY <1>2, <2>1, <2>2, <2>3 DEF OnTheWay, Fits
<1> QED
  BY <1>1, <1>2 DEF OnTheWay

-----------------------------------------------------------------------------
(* What a step leaves as it was.                                             *)

\* What the keyboard shows is named by its effect record and the zones read with it.
LEMMA LooksAreOf ==
  ASSUME RgbTypeOK
  PROVE  Look(light) = LookOf(light.effect, ReadZones(light).colours)
BY ZonesRead, LightFacts, Fields DEF Look, LookOf, Global

\* The cache is as good as it was: neither it nor the quirks of the firmware change.
LEMMA CacheStays ==
  ASSUME CacheIsConfirmed, light'.quirks = light.quirks, rgb'.cache = rgb.cache,
         rgb'.valid = rgb.valid, was'.confirmed = was.confirmed
  PROVE  CacheIsConfirmed'
<1>1. Global' = Global
  BY DEF Global
<1>2. StaticEffect(rgb.cache.zones)' = StaticEffect(rgb.cache.zones)
  BY DEF StaticEffect, Global
<1>3. Replayed' = Replayed
  BY <1>2 DEF Replayed
<1> QED
  BY <1>1, <1>3 DEF CacheIsConfirmed, LookOf, Fits

\* What a resume replays is the same as long as the cache is.
LEMMA ReplayStays ==
  ASSUME ReplayIsExpected, light'.quirks = light.quirks, rgb'.cache = rgb.cache,
         rgb'.valid = rgb.valid, rgb'.expect = rgb.expect
  PROVE  ReplayIsExpected'
<1>1. StaticEffect(rgb.cache.zones)' = StaticEffect(rgb.cache.zones)
  BY DEF StaticEffect, Global
<1>2. Replayed' = Replayed
  BY <1>1 DEF Replayed
<1> QED
  BY <1>2 DEF ReplayIsExpected

\* What the store began with is known as long as it is not written over.
LEMMA BeforeStays ==
  ASSUME BeforeIsKnown, light'.quirks = light.quirks, rgb'.before = rgb.before,
         was'.look = was.look,
         rgb'.stage = "change" /\ rgb'.kind = "effect" =>
           /\ rgb.stage = "change" /\ rgb.kind = "effect" /\ light'.zones = light.zones
           /\ rgb'.todo = rgb.todo \/ rgb'.todo = <<>>
           /\ rgb'.expect = rgb.expect
  PROVE  BeforeIsKnown'
<1>1. PICK z \in ZoneStates, e \in Written : z = rgb.before.zones /\ e = rgb.before.effect
  BY DEF BeforeIsKnown
<1>2. rgb'.before.zones = z /\ rgb'.before.effect = e
  BY <1>1
<1>3. Global' = Global
  BY DEF Global
<1>4. was'.look = LookOf(e, z.colours)'
  BY <1>1, <1>3 DEF BeforeIsKnown, LookOf
<1>5. ASSUME rgb'.stage = "change", rgb'.kind = "effect"
      PROVE  /\ Painted(z, 1)' /\ Painted(z, 2)'
             /\ rgb'.todo \in {<<EffectCall(rgb.expect.effect)>>, <<>>}
             /\ rgb'.expect = rgb.expect
  <2>1. Painted(z, 1) /\ Painted(z, 2) /\ rgb.todo \in {<<EffectCall(rgb.expect.effect)>>, <<>>}
    BY <1>1, <1>5 DEF BeforeIsKnown
  <2> QED
    BY <1>3, <1>5, <2>1 DEF Painted
<1> QED
  BY <1>2, <1>4, <1>5 DEF BeforeIsKnown, EffectCall

\* One more call of asense_write_zones, or the readback at its end.
LEMMA ZonesStep ==
  ASSUME RgbTypeOK, NEW z \in ZoneStates, ZonesLeft(z), rgb.todo # <<>>,
         rgb'.todo = Tail(rgb.todo),
         IF Head(rgb.todo).call = "check" THEN light' = light ELSE Carries(Head(rgb.todo))
  PROVE  ZonesLeft(z)'
<1>1. CASE Head(rgb.todo).call # "check"
  BY <1>1, ZonesGoOn
<1>2. CASE Head(rgb.todo).call = "check"
  <2>1. /\ Tail(rgb.todo) = <<>> /\ Painted(z, 1) /\ Painted(z, 2)
        /\ Took(StaticEffect(z), ~Global)
    BY <1>2, CheckIsPassed
  <2>2. light' = light
    BY <1>2
  <2> QED
    BY <2>1, <2>2, ZoneCallsStay DEF ZonesLeft, Painted, Took
<1> QED
  BY <1>1, <1>2

\* The next call, and what is left after it.
LEMMA NextCall ==
  ASSUME RgbTypeOK, rgb.todo # <<>>
  PROVE  Head(rgb.todo) \in RgbCalls /\ Tail(rgb.todo) \in Seq(RgbCalls)
BY HeadTailProperties DEF RgbTypeOK

\* The call of an effect store is carried out: the zones stay as they are.
LEMMA EffectStoreCalls ==
  ASSUME RgbTypeOK, ExpectIsWritten, rgb.todo # <<>>,
         rgb.todo \in {<<EffectCall(rgb.expect.effect)>>, <<>>}
  PROVE  /\ Head(rgb.todo).call = "effect" /\ Tail(rgb.todo) = <<>>
         /\ Carries(Head(rgb.todo)) => light'.zones = light.zones
<1>1. PICK e \in Written : e = rgb.expect.effect
  BY DEF ExpectIsWritten
<1>2. rgb.todo = <<EffectCall(e)>>
  BY <1>1
<1>3. Head(rgb.todo) = EffectCall(e) /\ Tail(rgb.todo) = <<>>
  BY <1>2, Queues
<1>4. EffectCall(e) \in RgbCalls /\ EffectCall(e).call = "effect"
  BY CallsAre DEF EffectCall
<1>5. Carries(Head(rgb.todo)) => light'.zones = light.zones
  BY <1>3, <1>4, CarriesTyped
<1> QED
  BY <1>3, <1>4, <1>5

\* A call that is carried out keeps the invariant, and so does a readback that is passed.
LEMMA GoingOnKeeps ==
  ASSUME RgbIInv, Busy, rgb.todo # <<>>, rgb' = [rgb EXCEPT !.todo = Tail(@)], was' = was,
         IF Head(rgb.todo).call = "check" THEN light' = light ELSE Carries(Head(rgb.todo))
  PROVE  RgbIInv'
<1>0. RgbShape /\ RgbTypeOK /\ CacheIsConfirmed /\ ExpectIsWritten
  BY DEF RgbIInv
<1>1. Head(rgb.todo) \in RgbCalls /\ Tail(rgb.todo) \in Seq(RgbCalls)
  BY <1>0, NextCall
<1>2. /\ rgb'.stage = rgb.stage /\ rgb'.kind = rgb.kind /\ rgb'.todo = Tail(rgb.todo)
      /\ rgb'.expect = rgb.expect /\ rgb'.before = rgb.before /\ rgb'.trouble = rgb.trouble
      /\ rgb'.valid = rgb.valid /\ rgb'.cache = rgb.cache /\ rgb'.last = rgb.last
      /\ RgbShape'
  BY <1>0 DEF RgbShape
<1>3. /\ light' \in [quirks : Quirks, effect : Effect, zones : [ZoneIds -> Shades]]
      /\ light'.quirks = light.quirks
  BY <1>0, <1>1, CarriesTyped, LightFacts DEF RgbTypeOK
<1>4. Global' = Global
  BY <1>3 DEF Global
<1>5. RgbTypeOK'
  BY <1>0, <1>1, <1>2, <1>3 DEF RgbTypeOK
<1>6. CacheIsConfirmed'
  BY <1>0, <1>2, <1>3, CacheStays
<1>7. ExpectIsWritten'
  BY <1>0, <1>2 DEF ExpectIsWritten
<1>8. ASSUME rgb.stage \in {"change", "resume"}, rgb.trouble = 0
      PROVE  OnTheWay'
  <2>1. OnTheWay /\ rgb.expect.effect \in Written
    BY <1>0, <1>8 DEF RgbIInv, ExpectIsWritten
  <2> QED
    BY <1>0, <1>1, <1>2, <2>1, WayGoesOn
<1>9. ASSUME rgb.stage \in {"undoZones", "undoEffect"}
      PROVE  OnTheWayBack'
  <2>0. OnTheWayBack /\ BeforeIsKnown
    BY <1>9 DEF RgbIInv
  <2>1. PICK z \in ZoneStates, e \in Written : z = rgb.before.zones /\ e = rgb.before.effect
    BY <2>0 DEF BeforeIsKnown
  <2>2. ASSUME rgb.trouble = 1, rgb.stage = "undoZones"
        PROVE  ZonesLeft(z)'
    <3>1. ZonesLeft(z)
      BY <2>0, <2>1, <2>2 DEF OnTheWayBack
    <3> QED
      BY <1>0, <1>2, <3>1, ZonesStep
  <2>3. ASSUME rgb.trouble = 1, rgb.stage = "undoEffect"
        PROVE  EffectLeft(e)' /\ Painted(z, 1)' /\ Painted(z, 2)'
    <3>1. EffectLeft(e) /\ Painted(z, 1) /\ Painted(z, 2)
      BY <2>0, <2>1, <2>3 DEF OnTheWayBack
    <3>2. rgb.todo = <<EffectCall(e)>>
      BY <3>1 DEF EffectLeft
    <3>3. Head(rgb.todo) = EffectCall(e)
      BY <3>2, Queues
    <3>4. Head(rgb.todo).call = "effect"
      BY <3>3 DEF EffectCall
    <3>5. EffectLeft(e)' /\ light'.zones = light.zones
      BY <1>0, <1>2, <3>1, <3>4, EffectGoesOn
    <3> QED
      BY <1>4, <3>1, <3>5 DEF Painted
  <2>4. rgb'.before.zones = z /\ rgb'.before.effect = e
    BY <1>2, <2>1
  <2> QED
    BY <1>2, <1>9, <2>0, <2>2, <2>3, <2>4 DEF OnTheWayBack
<1>10. ASSUME rgb.stage \in {"change", "undoZones", "undoEffect"}
       PROVE  BeforeIsKnown'
  <2>0. BeforeIsKnown
    BY <1>10 DEF RgbIInv
  <2>1. ASSUME rgb.stage = "change", rgb.kind = "effect"
        PROVE  light'.zones = light.zones /\ rgb'.todo = <<>>
    BY <1>0, <1>2, <2>0, <2>1, EffectStoreCalls DEF BeforeIsKnown
  <2>2. was'.look = was.look
    OBVIOUS
  <2> QED
    BY <1>2, <1>3, <2>0, <2>1, <2>2, BeforeStays
<1>11. ASSUME rgb.stage = "resume" PROVE ReplayIsExpected'
  BY <1>2, <1>3, <1>11, ReplayStays DEF RgbIInv
<1>12. Busy' = Busy
  BY <1>2 DEF Busy
<1> QED
  BY <1>2, <1>5, <1>6, <1>7, <1>8, <1>9, <1>10, <1>11, <1>12 DEF RgbIInv

-----------------------------------------------------------------------------
(* A step that fails, and the way back.                                      *)

\* The state that a step left, but for the trouble that was counted.
After(r, t) == rgb' = [r EXCEPT !.trouble = t]

\* Where a step that fails leads.
LEMMA UndoLeads ==
  ASSUME RgbShape, NEW t, After(Undo(rgb), t), was' = was
  PROVE  /\ RgbShape'
         /\ rgb'.trouble = t /\ rgb'.valid = rgb.valid /\ rgb'.cache = rgb.cache
         /\ rgb'.last = rgb.last
         /\ rgb.stage = "change" /\ rgb.kind # "effect" =>
              /\ rgb'.stage = "undoZones" /\ rgb'.todo = WriteZones(rgb.before.zones)
              /\ rgb'.expect = rgb.expect /\ rgb'.before = rgb.before
         /\ (rgb.stage = "change" /\ rgb.kind = "effect") \/ rgb.stage = "undoZones" =>
              /\ rgb'.stage = "undoEffect" /\ rgb'.todo = <<EffectCall(rgb.before.effect)>>
              /\ rgb'.expect = rgb.expect /\ rgb'.before = rgb.before
         /\ rgb.stage \notin {"change", "undoZones"} =>
              rgb'.stage = "idle" /\ rgb'.todo = <<>> /\ rgb'.result = "error"
<1>1. CASE rgb.stage = "change" /\ rgb.kind # "effect"
  <2>1. Undo(rgb) = [stage |-> "undoZones", kind |-> rgb.kind,
                      todo |-> WriteZones(rgb.before.zones),
                      expect |-> rgb.expect, before |-> rgb.before, result |-> rgb.result,
                      trouble |-> rgb.trouble, valid |-> rgb.valid, cache |-> rgb.cache,
                      last |-> rgb.last]
    BY <1>1 DEF Undo, RgbShape
  <2>2. After([stage |-> "undoZones", kind |-> rgb.kind, todo |-> WriteZones(rgb.before.zones),
                      expect |-> rgb.expect, before |-> rgb.before, result |-> rgb.result,
                      trouble |-> rgb.trouble, valid |-> rgb.valid, cache |-> rgb.cache,
                      last |-> rgb.last], t)
    BY <2>1
  <2>3. rgb' = [stage |-> "undoZones", kind |-> rgb.kind, todo |-> WriteZones(rgb.before.zones),
                      expect |-> rgb.expect, before |-> rgb.before, result |-> rgb.result,
                      trouble |-> t, valid |-> rgb.valid, cache |-> rgb.cache,
                      last |-> rgb.last]
    BY <2>2 DEF After
  <2> QED
    BY <1>1, <2>3 DEF RgbShape
<1>2. CASE (rgb.stage = "change" /\ rgb.kind = "effect") \/ rgb.stage = "undoZones"
  <2>1. Undo(rgb) = [stage |-> "undoEffect", kind |-> rgb.kind,
                      todo |-> <<EffectCall(rgb.before.effect)>>,
                      expect |-> rgb.expect, before |-> rgb.before, result |-> rgb.result,
                      trouble |-> rgb.trouble, valid |-> rgb.valid, cache |-> rgb.cache,
                      last |-> rgb.last]
    BY <1>2 DEF Undo, RgbShape
  <2>2. After([stage |-> "undoEffect", kind |-> rgb.kind,
                      todo |-> <<EffectCall(rgb.before.effect)>>,
                      expect |-> rgb.expect, before |-> rgb.before, result |-> rgb.result,
                      trouble |-> rgb.trouble, valid |-> rgb.valid, cache |-> rgb.cache,
                      last |-> rgb.last], t)
    BY <2>1
  <2>3. rgb' = [stage |-> "undoEffect", kind |-> rgb.kind,
                      todo |-> <<EffectCall(rgb.before.effect)>>,
                      expect |-> rgb.expect, before |-> rgb.before, result |-> rgb.result,
                      trouble |-> t, valid |-> rgb.valid, cache |-> rgb.cache,
                      last |-> rgb.last]
    BY <2>2 DEF After
  <2> QED
    BY <1>2, <2>3 DEF RgbShape
<1>3. CASE rgb.stage \notin {"change", "undoZones"}
  <2>1. Undo(rgb) = [stage |-> "idle", kind |-> "none", todo |-> <<>>,
                      expect |-> {}, before |-> {}, result |-> "error",
                      trouble |-> rgb.trouble, valid |-> rgb.valid, cache |-> rgb.cache,
                      last |-> rgb.last]
    BY <1>3 DEF Undo, Ended, RgbShape
  <2>2. After([stage |-> "idle", kind |-> "none", todo |-> <<>>,
                      expect |-> {}, before |-> {}, result |-> "error",
                      trouble |-> rgb.trouble, valid |-> rgb.valid, cache |-> rgb.cache,
                      last |-> rgb.last], t)
    BY <2>1
  <2>3. rgb' = [stage |-> "idle", kind |-> "none", todo |-> <<>>,
                      expect |-> {}, before |-> {}, result |-> "error",
                      trouble |-> t, valid |-> rgb.valid, cache |-> rgb.cache,
                      last |-> rgb.last]
    BY <2>2 DEF After
  <2> QED
    BY <1>3, <2>3 DEF RgbShape
<1> QED
  BY <1>1, <1>2, <1>3

\* A step that fails keeps the invariant: what the first failure leaves behind is what
\* the way back starts from.
LEMMA UndoKeeps ==
  ASSUME RgbIInv, Busy, NEW t \in 1..RgbTrouble, After(Undo(rgb), t),
         was' = was, light'.quirks = light.quirks,
         light' \in [quirks : Quirks, effect : Effect, zones : [ZoneIds -> Shades]],
         t = 1 /\ rgb.stage = "change" /\ rgb.kind = "effect" => light'.zones = light.zones,
         t = 1 /\ rgb.stage = "undoZones" =>
           light' = light /\ rgb.trouble = 1 /\ rgb.todo = <<>>
  PROVE  RgbIInv'
<1>0. RgbShape /\ RgbTypeOK /\ CacheIsConfirmed /\ ExpectIsWritten
  BY DEF RgbIInv
<1>1. /\ RgbShape'
      /\ rgb'.trouble = t /\ rgb'.valid = rgb.valid /\ rgb'.cache = rgb.cache
      /\ rgb'.last = rgb.last /\ was'.stores = was.stores /\ was'.look = was.look
      /\ was'.confirmed = was.confirmed
  BY <1>0, UndoLeads DEF RgbShape
<1>2. CacheIsConfirmed'
  BY <1>0, <1>1, CacheStays
<1>3. Global' = Global
  BY DEF Global
<1>4. CASE rgb.stage = "change" /\ rgb.kind # "effect"
  <2>1. /\ rgb'.stage = "undoZones" /\ rgb'.todo = WriteZones(rgb.before.zones)
        /\ rgb'.expect = rgb.expect /\ rgb'.before = rgb.before
    BY <1>0, <1>4, UndoLeads
  <2>2. BeforeIsKnown
    BY <1>4 DEF RgbIInv
  <2>3. PICK z \in ZoneStates : z = rgb.before.zones
    BY <2>2 DEF BeforeIsKnown
  <2>4. ZonesLeft(z)' /\ rgb'.todo \in Seq(RgbCalls)
    BY <1>0, <2>1, <2>3, WriteZonesBegins
  <2>5. OnTheWayBack'
    BY <1>1, <2>1, <2>3, <2>4 DEF OnTheWayBack
  <2>6. BeforeIsKnown'
    BY <1>1, <2>1, <2>2, BeforeStays
  <2>7. RgbTypeOK'
    BY <1>0, <1>1, <2>1, <2>4 DEF RgbTypeOK
  <2>8. ExpectIsWritten'
    BY <1>0, <2>1 DEF ExpectIsWritten
  <2> QED
    BY <1>1, <1>2, <2>1, <2>5, <2>6, <2>7, <2>8 DEF RgbIInv
<1>5. CASE (rgb.stage = "change" /\ rgb.kind = "effect") \/ rgb.stage = "undoZones"
  <2>1. /\ rgb'.stage = "undoEffect" /\ rgb'.todo = <<EffectCall(rgb.before.effect)>>
        /\ rgb'.expect = rgb.expect /\ rgb'.before = rgb.before
    BY <1>0, <1>5, UndoLeads
  <2>2. BeforeIsKnown
    BY <1>5 DEF RgbIInv
  <2>3. PICK z \in ZoneStates, e \in Written : z = rgb.before.zones /\ e = rgb.before.effect
    BY <2>2 DEF BeforeIsKnown
  <2>4. rgb'.todo = <<EffectCall(e)>> /\ rgb'.before.zones = z /\ rgb'.before.effect = e
    BY <2>1, <2>3
  <2>5. EffectCall(e) \in RgbCalls /\ EffectCall(e)' = EffectCall(e)
    BY CallsAre DEF EffectCall
  <2>6. rgb'.todo \in Seq(RgbCalls) /\ EffectLeft(e)'
    <3>1. <<EffectCall(e)>> \in Seq(RgbCalls)
      BY <2>5
    <3> QED
      BY <2>4, <2>5, <3>1 DEF EffectLeft
  <2>7. ASSUME t = 1
        PROVE  Painted(z, 1)' /\ Painted(z, 2)'
    <3>1. CASE rgb.stage = "undoZones"
      <4>1. OnTheWayBack /\ rgb.trouble = 1 /\ rgb.todo = <<>> /\ light' = light
        BY <2>7, <3>1 DEF RgbIInv
      <4>2. ZonesLeft(z)
        BY <2>3, <3>1, <4>1 DEF OnTheWayBack
      <4>3. Painted(z, 1) /\ Painted(z, 2)
        BY <4>1, <4>2 DEF ZonesLeft
      <4> QED
        BY <1>3, <4>1, <4>3 DEF Painted
    <3>2. CASE rgb.stage = "change" /\ rgb.kind = "effect"
      <4>1. Painted(z, 1) /\ Painted(z, 2)
        BY <2>2, <2>3, <3>2 DEF BeforeIsKnown
      <4>2. light'.zones = light.zones
        BY <2>7, <3>2
      <4> QED
        BY <1>3, <4>1, <4>2 DEF Painted
    <3> QED
      BY <1>5, <3>1, <3>2
  <2>8. OnTheWayBack'
    BY <1>1, <2>1, <2>4, <2>6, <2>7 DEF OnTheWayBack
  <2>9. BeforeIsKnown'
    BY <1>1, <2>1, <2>2, BeforeStays
  <2>10. RgbTypeOK'
    BY <1>0, <1>1, <2>1, <2>6 DEF RgbTypeOK
  <2>11. ExpectIsWritten'
    BY <1>0, <2>1 DEF ExpectIsWritten
  <2> QED
    BY <1>1, <1>2, <2>1, <2>8, <2>9, <2>10, <2>11 DEF RgbIInv
<1>6. CASE rgb.stage \notin {"change", "undoZones"}
  <2>1. rgb'.stage = "idle" /\ rgb'.todo = <<>>
    BY <1>0, <1>6, UndoLeads
  <2>2. RgbTypeOK'
    BY <1>0, <1>1, <2>1 DEF RgbTypeOK
  <2> QED
    BY <1>1, <1>2, <2>1, <2>2 DEF RgbIInv, Busy
<1> QED
  BY <1>4, <1>5, <1>6

\* Trouble has come before a readback that is not passed.
LEMMA CheckFailsAfterTrouble ==
  ASSUME RgbIInv, Busy, rgb.todo # <<>>, Head(rgb.todo).call = "check",
         ~Matches(Head(rgb.todo).effect, light.effect, Head(rgb.todo).zoned)
  PROVE  /\ rgb.trouble > 0
         /\ rgb.stage \in {"undoZones", "undoEffect"} => rgb.trouble > 1
<1>0. RgbTypeOK /\ ExpectIsWritten /\ rgb.trouble \in Nat
  BY DEF RgbIInv, RgbTypeOK
<1>1. ASSUME rgb.stage \in {"change", "resume"}, rgb.trouble = 0
      PROVE  FALSE
  <2>0. OnTheWay /\ rgb.expect.effect \in Written
    BY <1>0, <1>1 DEF RgbIInv, ExpectIsWritten
  <2>1. ASSUME NEW z \in ZoneStates, ZonesLeft(z) PROVE FALSE
    BY <1>0, <2>1, CheckIsPassed
  <2>2. ASSUME NEW e \in Written, EffectLeft(e) PROVE FALSE
    <3>1. Head(rgb.todo) = EffectCall(e)
      BY <2>2, Queues DEF EffectLeft
    <3> QED
      BY <3>1 DEF EffectCall
  <2>3. PICK e \in Written : e = rgb.expect.effect
    BY <2>0
  <2>4. ~EffectLeft(rgb.expect.effect)
    BY <2>2, <2>3
  <2> QED
    BY <2>0, <2>1, <2>4 DEF OnTheWay
<1>2. ASSUME rgb.stage \in {"undoZones", "undoEffect"}
      PROVE  rgb.trouble > 1
  <2>0. OnTheWayBack /\ BeforeIsKnown
    BY <1>2 DEF RgbIInv
  <2>1. PICK z \in ZoneStates, e \in Written : z = rgb.before.zones /\ e = rgb.before.effect
    BY <2>0 DEF BeforeIsKnown
  <2>2. ~ZonesLeft(z)
    BY <1>0, CheckIsPassed
  <2>3. ~EffectLeft(e)
    <3>1. ASSUME EffectLeft(e) PROVE FALSE
      <4>1. Head(rgb.todo) = EffectCall(e)
        BY <3>1, Queues DEF EffectLeft
      <4> QED
        BY <4>1 DEF EffectCall
    <3> QED
      BY <3>1
  <2>4. rgb.trouble # 1
    BY <1>2, <2>0, <2>1, <2>2, <2>3 DEF OnTheWayBack
  <2> QED
    BY <1>0, <2>0, <2>4 DEF OnTheWayBack
<1> QED
  BY <1>0, <1>1, <1>2 DEF Busy

\* Every field of a state of rgb, by name.
Named(r) == r = [stage |-> r.stage, kind |-> r.kind, todo |-> r.todo, expect |-> r.expect,
                 before |-> r.before, result |-> r.result, trouble |-> r.trouble,
                 valid |-> r.valid, cache |-> r.cache, last |-> r.last]

\* Undo counts no trouble of its own.
LEMMA UndoCountsNothing ==
  ASSUME RgbShape
  PROVE  Named(Undo(rgb)) /\ Undo(rgb).trouble = rgb.trouble
<1>1. CASE rgb.stage = "change" /\ rgb.kind # "effect"
  <2>1. Undo(rgb) = [stage |-> "undoZones", kind |-> rgb.kind,
                      todo |-> WriteZones(rgb.before.zones),
                      expect |-> rgb.expect, before |-> rgb.before, result |-> rgb.result,
                      trouble |-> rgb.trouble, valid |-> rgb.valid, cache |-> rgb.cache,
                      last |-> rgb.last]
    BY <1>1 DEF Undo, RgbShape
  <2> QED
    BY <2>1 DEF Named
<1>2. CASE (rgb.stage = "change" /\ rgb.kind = "effect") \/ rgb.stage = "undoZones"
  <2>1. Undo(rgb) = [stage |-> "undoEffect", kind |-> rgb.kind,
                      todo |-> <<EffectCall(rgb.before.effect)>>,
                      expect |-> rgb.expect, before |-> rgb.before, result |-> rgb.result,
                      trouble |-> rgb.trouble, valid |-> rgb.valid, cache |-> rgb.cache,
                      last |-> rgb.last]
    BY <1>2 DEF Undo, RgbShape
  <2> QED
    BY <2>1 DEF Named
<1>3. CASE rgb.stage \notin {"change", "undoZones"}
  <2>1. Undo(rgb) = [stage |-> "idle", kind |-> "none", todo |-> <<>>,
                      expect |-> {}, before |-> {}, result |-> "error",
                      trouble |-> rgb.trouble, valid |-> rgb.valid, cache |-> rgb.cache,
                      last |-> rgb.last]
    BY <1>3 DEF Undo, Ended, RgbShape
  <2> QED
    BY <2>1 DEF Named
<1> QED
  BY <1>1, <1>2, <1>3

\* A step that fails, with and without trouble of its own.
LEMMA UndoIsAfter ==
  ASSUME RgbShape
  PROVE  /\ rgb' = Undo(rgb) => After(Undo(rgb), rgb.trouble)
         /\ rgb' = Troubled(Undo(rgb)) => After(Undo(rgb), rgb.trouble + 1)
<1>1. ASSUME NEW r, Named(r), r.trouble = rgb.trouble
      PROVE  /\ rgb' = r => After(r, rgb.trouble)
             /\ rgb' = Troubled(r) => After(r, rgb.trouble + 1)
  <2>1. r = [r EXCEPT !.trouble = rgb.trouble]
    BY <1>1 DEF Named
  <2>2. Troubled(r) = [r EXCEPT !.trouble = rgb.trouble + 1]
    BY <1>1 DEF Troubled
  <2> QED
    BY <2>1, <2>2 DEF After
<1> QED
  BY <1>1, UndoCountsNothing

\* A call keeps the invariant, whether it takes effect or a readback refuses it.
LEMMA CallKeeps ==
  ASSUME RgbIInv, Call
  PROVE  RgbIInv'
<1>0. RgbShape /\ RgbTypeOK /\ Busy /\ rgb.todo # <<>> /\ was' = was
  BY DEF RgbIInv, Call
<1>1. CASE /\ IF Head(rgb.todo).call = "check" THEN light' = light ELSE Carries(Head(rgb.todo))
           /\ rgb' = [rgb EXCEPT !.todo = Tail(@)]
  BY <1>0, <1>1, GoingOnKeeps
<1>2. CASE /\ Head(rgb.todo).call = "check" /\ light' = light /\ rgb' = Undo(rgb)
           /\ ~Matches(Head(rgb.todo).effect, light.effect, Head(rgb.todo).zoned)
  <2>1. rgb.trouble > 0 /\ (rgb.stage \in {"undoZones", "undoEffect"} => rgb.trouble > 1)
    BY <1>0, <1>2, CheckFailsAfterTrouble
  <2>2. rgb.trouble \in 1..RgbTrouble
    BY <1>0, <2>1, RgbAssumption DEF RgbTypeOK
  <2>3. After(Undo(rgb), rgb.trouble)
    BY <1>0, <1>2, UndoIsAfter
  <2>4. light \in [quirks : Quirks, effect : Effect, zones : [ZoneIds -> Shades]]
    BY <1>0 DEF RgbTypeOK
  <2>5. PICK t \in 1..RgbTrouble : t = rgb.trouble
    BY <2>2
  <2>6. After(Undo(rgb), t) /\ light'.quirks = light.quirks /\ light'.zones = light.zones
    BY <1>2, <2>3, <2>5
  <2>7. t = 1 => rgb.stage # "undoZones"
    BY <2>1, <2>5
  <2> QED
    BY <1>0, <1>2, <2>4, <2>6, <2>7, UndoKeeps
<1> QED
  BY <1>1, <1>2 DEF Call

\* A call that fails keeps it, whatever of it has taken effect, and so does one that the
\* firmware ignores.
LEMMA CallFailsKeeps ==
  ASSUME RgbIInv, CallFails
  PROVE  RgbIInv'
<1>0. /\ RgbShape /\ RgbTypeOK /\ CacheIsConfirmed /\ ExpectIsWritten
      /\ Busy /\ rgb.todo # <<>> /\ MayGoWrong /\ was' = was
  BY DEF RgbIInv, CallFails
<1>1. /\ rgb.trouble \in Nat /\ rgb.trouble + 1 \in 1..RgbTrouble
      /\ rgb.stage \in {"undoZones", "undoEffect"} => rgb.trouble > 0
  BY <1>0, RgbAssumption DEF RgbIInv, MayGoWrong, RgbTypeOK, OnTheWayBack
<1>2. PICK t \in 1..RgbTrouble : t = rgb.trouble + 1
  BY <1>1
<1>3. Head(rgb.todo) \in RgbCalls /\ Tail(rgb.todo) \in Seq(RgbCalls)
  BY <1>0, NextCall
<1>4. CASE rgb' = Troubled(Undo(rgb)) /\ (Carries(Head(rgb.todo)) \/ UNCHANGED light)
  <2>1. After(Undo(rgb), t)
    BY <1>0, <1>2, <1>4, UndoIsAfter
  <2>2. /\ light'.quirks = light.quirks
        /\ light' \in [quirks : Quirks, effect : Effect, zones : [ZoneIds -> Shades]]
    BY <1>0, <1>3, <1>4, CarriesTyped DEF RgbTypeOK
  <2>3. ASSUME rgb.stage = "change", rgb.kind = "effect" PROVE light'.zones = light.zones
    <3>1. rgb.todo \in {<<EffectCall(rgb.expect.effect)>>, <<>>}
      BY <2>3 DEF RgbIInv, BeforeIsKnown
    <3> QED
      BY <1>0, <1>4, <3>1, EffectStoreCalls
  <2>4. t = 1 => rgb.stage # "undoZones"
    BY <1>1, <1>2
  <2> QED
    BY <1>0, <2>1, <2>2, <2>3, <2>4, UndoKeeps
<1>5. CASE /\ Head(rgb.todo).call \in {"effect", "zone"} /\ UNCHANGED light
           /\ rgb' = Troubled([rgb EXCEPT !.todo = Tail(@)])
  <2>1. /\ rgb'.stage = rgb.stage /\ rgb'.kind = rgb.kind /\ rgb'.todo = Tail(rgb.todo)
        /\ rgb'.expect = rgb.expect /\ rgb'.before = rgb.before /\ rgb'.trouble = t
        /\ rgb'.valid = rgb.valid /\ rgb'.cache = rgb.cache /\ rgb'.last = rgb.last
        /\ RgbShape'
    BY <1>0, <1>2, <1>5 DEF RgbShape, Troubled
  <2>2. light' = light
    BY <1>5
  <2>3. RgbTypeOK'
    BY <1>0, <1>3, <2>1, <2>2 DEF RgbTypeOK
  <2>4. CacheIsConfirmed'
    BY <1>0, <2>1, <2>2, CacheStays
  <2>5. ExpectIsWritten'
    BY <1>0, <2>1 DEF ExpectIsWritten
  <2>6. ASSUME rgb.stage \in {"undoZones", "undoEffect"} PROVE OnTheWayBack'
    BY <1>1, <1>2, <2>1, <2>6 DEF OnTheWayBack
  <2>7. ASSUME rgb.stage \in {"change", "undoZones", "undoEffect"} PROVE BeforeIsKnown'
    <3>1. BeforeIsKnown
      BY <2>7 DEF RgbIInv
    <3>2. rgb.stage = "change" /\ rgb.kind = "effect" => rgb'.todo = <<>>
      BY <1>0, <2>1, <3>1, EffectStoreCalls DEF BeforeIsKnown
    <3>3. was'.look = was.look /\ light'.quirks = light.quirks /\ light'.zones = light.zones
      BY <1>0, <2>2
    <3> QED
      BY <2>1, <3>1, <3>2, <3>3, BeforeStays
  <2>8. ASSUME rgb.stage = "resume" PROVE ReplayIsExpected'
    BY <2>1, <2>2, <2>8, ReplayStays DEF RgbIInv
  <2>9. Busy' = Busy /\ rgb'.trouble # 0
    BY <2>1 DEF Busy
  <2> QED
    BY <2>1, <2>3, <2>4, <2>5, <2>6, <2>7, <2>8, <2>9 DEF RgbIInv
<1> QED
  BY <1>4, <1>5 DEF CallFails

\* The readback of the whole state confirms the way that met no trouble.
LEMMA ReadbackFailsAfterTrouble ==
  ASSUME RgbIInv, rgb.stage \in {"change", "resume"}, rgb.todo = <<>>, rgb.trouble = 0
  PROVE  /\ Matches(rgb.expect.effect, light.effect, rgb.expect.zoned)
         /\ rgb.expect.zones # {} => ReadZones(light) \in rgb.expect.zones
<1>1. RgbTypeOK /\ rgb.expect.effect \in Written /\ OnTheWay
  BY DEF RgbIInv, Busy, ExpectIsWritten
<1> QED
  BY <1>1, WayIsConfirmed

\* A step that fails and calls nothing keeps the invariant.
LEMMA QuietUndoKeeps ==
  ASSUME RgbIInv, Busy, UNCHANGED <<light, was>>, NEW t \in 1..RgbTrouble, After(Undo(rgb), t),
         t = 1 /\ rgb.stage = "undoZones" => rgb.trouble = 1 /\ rgb.todo = <<>>
  PROVE  RgbIInv'
<1>1. light' = light /\ was' = was
  OBVIOUS
<1>2. light' \in [quirks : Quirks, effect : Effect, zones : [ZoneIds -> Shades]]
  BY <1>1 DEF RgbIInv, RgbTypeOK
<1> QED
  BY <1>1, <1>2, UndoKeeps

\* The readback that is passed fills the cache with what was confirmed.
LEMMA CommitKeeps ==
  ASSUME RgbIInv, rgb.stage \in {"change", "resume"},
         Matches(rgb.expect.effect, light.effect, rgb.expect.zoned),
         rgb' = Committed(rgb), was' = [was EXCEPT !.confirmed = Look(light)], light' = light
  PROVE  RgbIInv'
<1>0. RgbShape /\ RgbTypeOK /\ ExpectIsWritten
  BY DEF RgbIInv, Busy
<1>1. /\ rgb'.stage = "idle" /\ rgb'.todo = <<>> /\ rgb'.trouble = rgb.trouble
      /\ rgb'.valid = TRUE
      /\ rgb'.cache = [effect |-> light.effect, zones |-> ReadZones(light)]
      /\ rgb'.last = IF rgb.kind \in {"effect", "zones"} /\ rgb.expect.effect.level > 0
                     THEN rgb.expect.effect.level ELSE rgb.last
      /\ rgb' = [stage |-> rgb'.stage, kind |-> rgb'.kind, todo |-> rgb'.todo,
                 expect |-> rgb'.expect, before |-> rgb'.before, result |-> rgb'.result,
                 trouble |-> rgb'.trouble, valid |-> rgb'.valid, cache |-> rgb'.cache,
                 last |-> rgb'.last]
  BY <1>0 DEF RgbShape, Committed, Ended
<1>2. /\ was'.confirmed = Look(light) /\ was'.stores = was.stores
      /\ was' = [look |-> was'.look, confirmed |-> was'.confirmed, stores |-> was'.stores]
  BY <1>0 DEF RgbShape
<1>3. RgbShape'
  BY <1>1, <1>2 DEF RgbShape
<1>4. /\ light.effect \in Effect /\ light.quirks \in Quirks /\ ReadZones(light) \in ZoneStates
      /\ light.zones \in [ZoneIds -> Shades]
  BY <1>0, LightFacts, ZonesRead
<1>5. rgb'.last \in Levels \ {0}
  <2>1. rgb.expect.effect.level \in Levels /\ rgb.last \in Levels \ {0}
    BY <1>0, Fields DEF ExpectIsWritten, Written, RgbTypeOK
  <2> QED
    BY <1>1, <2>1
<1>6. RgbTypeOK'
  BY <1>0, <1>1, <1>2, <1>4, <1>5 DEF RgbTypeOK
<1>7. PICK z \in ZoneStates, e \in Effect : z = ReadZones(light) /\ e = light.effect
  BY <1>4
<1>8. rgb'.cache.zones = z /\ rgb'.cache.effect = e /\ light'.effect = e
  BY <1>1, <1>7
<1>9. Global' = Global /\ StaticEffect(z)' = StaticEffect(z)
  BY ZoneCallsStay
<1>10. Replayed' = IF e.mode = "static" THEN StaticEffect(z) ELSE e
  BY <1>8, <1>9 DEF Replayed
<1>11. e.mode = "static" => Replayed' \in Written /\ Fits(z)
  BY <1>7, <1>10, StaticRecord, <1>0, ZonesRead DEF Fits
<1>12. e.mode # "static" => Replayed' \in Written
  <2>1. e.mode # "static" => ~e.odd
    BY <1>7 DEF Matches
  <2> QED
    BY <1>7, <1>10, <2>1 DEF Written
<1>13. Look(light) = LookOf(e, z.colours)
  BY <1>0, <1>7, LooksAreOf
<1>14. LookOf(e, z.colours) = LookOf(IF e.mode = "static" THEN StaticEffect(z) ELSE e, z.colours)
  <2>1. CASE e.mode = "static"
    <3>1. /\ StaticEffect(z).mode = "static" /\ StaticEffect(z).level = z.level
          /\ StaticEffect(z).colour = IF Global THEN z.colours[1] ELSE Black
      BY StaticRecord
    <3>2. z.level = e.level /\ (Global => z.colours[1] = e.colour)
      BY <1>0, <1>7, <2>1, ZonesRead
    <3> QED
      BY <2>1, <3>1, <3>2 DEF LookOf
  <2>2. CASE e.mode # "static"
    BY <2>2
  <2> QED
    BY <2>1, <2>2
<1>15. CacheIsConfirmed'
  <2>1. PICK r \in Written : r = IF e.mode = "static" THEN StaticEffect(z) ELSE e
    BY <1>10, <1>11, <1>12
  <2>2. Replayed' = r /\ was'.confirmed = LookOf(r, z.colours)
    BY <1>2, <1>10, <1>13, <1>14, <2>1
  <2>3. LookOf(r, z.colours)' = LookOf(r, z.colours) /\ Fits(z)' = Fits(z)
    BY <1>9 DEF LookOf, Fits
  <2> QED
    BY <1>8, <1>11, <2>2, <2>3 DEF CacheIsConfirmed
<1> QED
  BY <1>1, <1>3, <1>6, <1>15 DEF RgbIInv, Busy

\* The readback keeps the invariant, whichever way it goes.
LEMMA VerifyKeeps ==
  ASSUME RgbIInv, Verify \/ VerifyFails \/ RolledBack
  PROVE  RgbIInv'
<1>0. RgbShape /\ RgbTypeOK /\ rgb.trouble \in 0..RgbTrouble
  BY DEF RgbIInv, RgbTypeOK
<1>1. CASE /\ rgb.stage \in {"change", "resume"} /\ light' = light
           /\ Matches(rgb.expect.effect, light.effect, rgb.expect.zoned)
           /\ rgb' = Committed(rgb) /\ was' = [was EXCEPT !.confirmed = Look(light)]
  BY <1>1, CommitKeeps
<1>2. CASE /\ rgb.stage \in {"change", "resume"} /\ UNCHANGED <<light, was>> /\ rgb.todo = <<>>
           /\ rgb' = Undo(rgb)
           /\ ~(/\ Matches(rgb.expect.effect, light.effect, rgb.expect.zoned)
                /\ rgb.expect.zones # {} => ReadZones(light) \in rgb.expect.zones)
  <2>1. rgb.trouble # 0
    BY <1>2, ReadbackFailsAfterTrouble
  <2>2. PICK t \in 1..RgbTrouble : t = rgb.trouble
    BY <1>0, <2>1, RgbAssumption
  <2>3. After(Undo(rgb), t)
    BY <1>0, <1>2, <2>2, UndoIsAfter
  <2>4. Busy /\ rgb.stage # "undoZones"
    BY <1>2 DEF Busy
  <2> QED
    BY <1>2, <2>3, <2>4, QuietUndoKeeps
<1>3. CASE VerifyFails
  <2>1. /\ rgb.stage \in {"change", "resume"} /\ UNCHANGED <<light, was>> /\ MayGoWrong
        /\ rgb' = Troubled(Undo(rgb))
    BY <1>3 DEF VerifyFails
  <2>2. PICK t \in 1..RgbTrouble : t = rgb.trouble + 1
    BY <1>0, <2>1, RgbAssumption DEF MayGoWrong
  <2>3. After(Undo(rgb), t)
    BY <1>0, <2>1, <2>2, UndoIsAfter
  <2>4. Busy /\ rgb.stage # "undoZones"
    BY <2>1 DEF Busy
  <2> QED
    BY <2>1, <2>3, <2>4, QuietUndoKeeps
<1>4. CASE RolledBack
  <2>1. /\ rgb.stage \in {"undoZones", "undoEffect"} /\ rgb.todo = <<>>
        /\ UNCHANGED <<light, was>> /\ rgb' = Undo(rgb)
    BY <1>4 DEF RolledBack
  <2>2. PICK t \in 1..RgbTrouble : t = rgb.trouble
    BY <1>0, <2>1, RgbAssumption DEF RgbIInv, OnTheWayBack
  <2>3. After(Undo(rgb), t)
    BY <1>0, <2>1, <2>2, UndoIsAfter
  <2>4. Busy
    BY <2>1 DEF Busy
  <2> QED
    BY <2>1, <2>2, <2>3, <2>4, QuietUndoKeeps
<1> QED
  BY <1>1, <1>2, <1>3, <1>4 DEF Verify

-----------------------------------------------------------------------------
(* Sleep, the keys of the keyboard, and the stores.                          *)

\* Sleep keeps what was confirmed, whatever the lights come back with.
LEMMA SuspendKeeps ==
  ASSUME RgbIInv, Suspend
  PROVE  RgbIInv'
<1>0. /\ RgbShape /\ RgbTypeOK /\ CacheIsConfirmed /\ rgb.stage = "idle"
      /\ rgb' = [rgb EXCEPT !.stage = "asleep"] /\ was' = was
  BY DEF RgbIInv, Suspend
<1>1. /\ rgb'.stage = "asleep" /\ rgb'.todo = rgb.todo /\ rgb'.trouble = rgb.trouble
      /\ rgb'.valid = rgb.valid /\ rgb'.cache = rgb.cache /\ rgb'.last = rgb.last /\ RgbShape'
  BY <1>0 DEF RgbShape
<1>2. /\ light'.quirks = light.quirks
      /\ light' \in [quirks : Quirks, effect : Effect, zones : [ZoneIds -> Shades]]
  <2>1. CASE light' = light
    BY <1>0, <2>1 DEF RgbTypeOK
  <2>2. CASE light' = [light EXCEPT
          !.zones = [z \in ZoneIds |-> Black],
          !.effect = [mode |-> "static", level |-> 1, colour |-> Black, odd |-> FALSE]]
    <3>1. light' = [quirks |-> light.quirks, zones |-> [z \in ZoneIds |-> Black],
                    effect |-> [mode |-> "static", level |-> 1, colour |-> Black, odd |-> FALSE]]
      BY <1>0, <2>2, LightFacts
    <3>2. 1 \in Levels /\ Black \in Shades /\ light.quirks \in Quirks
      BY <1>0, LightFacts, RgbAssumption DEF Levels, Shades
    <3>3. /\ [mode |-> "static", level |-> 1, colour |-> Black, odd |-> FALSE] \in Effect
          /\ [z \in ZoneIds |-> Black] \in [ZoneIds -> Shades]
      BY <3>2 DEF Effect
    <3> QED
      BY <3>1, <3>2, <3>3
  <2> QED
    BY <2>1, <2>2 DEF Suspend
<1>3. RgbTypeOK'
  BY <1>0, <1>1, <1>2 DEF RgbTypeOK
<1>4. CacheIsConfirmed'
  BY <1>0, <1>1, <1>2, CacheStays
<1> QED
  BY <1>1, <1>3, <1>4 DEF RgbIInv, Busy

\* A resume sets out to write the look that was confirmed last, if there is one.
LEMMA ResumeKeeps ==
  ASSUME RgbIInv, RgbResume
  PROVE  RgbIInv'
<1>0. /\ RgbShape /\ RgbTypeOK /\ CacheIsConfirmed /\ rgb.stage = "asleep"
      /\ light' = light /\ was' = [was EXCEPT !.look = Look(light)]
  BY DEF RgbIInv, RgbResume
<1>1. /\ was'.stores = was.stores /\ was'.confirmed = was.confirmed
      /\ was' = [look |-> was'.look, confirmed |-> was'.confirmed, stores |-> was'.stores]
  BY <1>0 DEF RgbShape
<1>2. CASE ~rgb.valid
  <2>1. rgb' = [rgb EXCEPT !.stage = "idle"]
    BY <1>2 DEF RgbResume
  <2>2. /\ rgb'.stage = "idle" /\ rgb'.todo = rgb.todo /\ rgb'.trouble = rgb.trouble
        /\ rgb'.valid = rgb.valid /\ rgb'.cache = rgb.cache /\ rgb'.last = rgb.last /\ RgbShape'
    BY <1>0, <1>1, <2>1 DEF RgbShape
  <2>3. RgbTypeOK'
    BY <1>0, <1>1, <2>2 DEF RgbTypeOK
  <2>4. CacheIsConfirmed'
    BY <1>0, <1>1, <2>2, CacheStays
  <2> QED
    BY <2>2, <2>3, <2>4 DEF RgbIInv, Busy
<1>3. CASE rgb.valid
  <2>1. /\ rgb'.stage = "resume" /\ rgb'.trouble = 0
        /\ rgb'.valid = rgb.valid /\ rgb'.cache = rgb.cache /\ rgb'.last = rgb.last /\ RgbShape'
        /\ rgb'.todo = IF rgb.cache.effect.mode = "static" THEN WriteZones(rgb.cache.zones)
                       ELSE <<EffectCall(Replayed)>>
        /\ rgb'.expect = [effect |-> Replayed, zoned |-> rgb.cache.effect.mode = "static",
                          zones |-> IF rgb.cache.effect.mode = "static" THEN {rgb.cache.zones}
                                                                        ELSE {}]
    <3>1. rgb' = [rgb EXCEPT
            !.stage = "resume", !.kind = "resume", !.trouble = 0, !.result = "none",
            !.todo = IF rgb.cache.effect.mode = "static" THEN WriteZones(rgb.cache.zones)
                     ELSE <<EffectCall(Replayed)>>,
            !.expect = [effect |-> Replayed, zoned |-> rgb.cache.effect.mode = "static",
                        zones |-> IF rgb.cache.effect.mode = "static" THEN {rgb.cache.zones}
                                                                      ELSE {}]]
      BY <1>3 DEF RgbResume, Replayed
    <3> QED
      BY <1>0, <1>1, <3>1 DEF RgbShape
  <2>2. Replayed \in Written /\ (rgb.cache.effect.mode = "static" => Fits(rgb.cache.zones))
    BY <1>0, <1>3 DEF CacheIsConfirmed
  <2>3. rgb'.cache = rgb.cache /\ Replayed' = Replayed /\ Global' = Global
    BY <1>0, <2>1 DEF Replayed, StaticEffect, Global
  <2>4. PICK e \in Written, z \in ZoneStates : e = Replayed /\ z = rgb.cache.zones
    BY <1>0, <2>2 DEF RgbTypeOK
  <2>5. /\ rgb'.expect.effect = e /\ rgb'.expect.zoned = (rgb.cache.effect.mode = "static")
        /\ rgb'.expect.zones = IF rgb.cache.effect.mode = "static" THEN {z} ELSE {}
    BY <2>1, <2>4
  <2>6. rgb'.todo \in Seq(RgbCalls) /\ OnTheWay'
    <3>1. CASE rgb.cache.effect.mode = "static"
      <4>1. rgb'.todo = WriteZones(z)
        BY <2>1, <2>4, <3>1
      <4>2. ZonesLeft(z)' /\ rgb'.todo \in Seq(RgbCalls)
        BY <1>0, <4>1, WriteZonesBegins
      <4>3. e = StaticEffect(z)' /\ Fits(z)'
        BY <1>0, <2>2, <2>3, <2>4, <3>1 DEF Replayed, Fits, StaticEffect
      <4> QED
        BY <2>5, <3>1, <4>2, <4>3 DEF OnTheWay
    <3>2. CASE rgb.cache.effect.mode # "static"
      <4>1. rgb'.todo = <<EffectCall(e)>>
        BY <2>1, <2>4, <3>2
      <4>2. EffectCall(e) \in RgbCalls /\ EffectCall(e)' = EffectCall(e)
        BY CallsAre DEF EffectCall
      <4>3. <<EffectCall(e)>> \in Seq(RgbCalls)
        BY <4>2
      <4>4. EffectLeft(e)'
        BY <4>1, <4>2 DEF EffectLeft
      <4> QED
        BY <2>5, <3>2, <4>1, <4>3, <4>4 DEF OnTheWay
    <3> QED
      BY <3>1, <3>2
  <2>7. RgbTypeOK'
    BY <1>0, <1>1, <2>1, <2>6, RgbAssumption DEF RgbTypeOK
  <2>8. CacheIsConfirmed'
    BY <1>0, <1>1, <2>1, CacheStays
  <2>9. ExpectIsWritten' /\ ReplayIsExpected'
    BY <1>3, <2>1, <2>3, <2>4, <2>5 DEF ExpectIsWritten, ReplayIsExpected
  <2> QED
    BY <2>1, <2>6, <2>7, <2>8, <2>9 DEF RgbIInv
<1> QED
  BY <1>2, <1>3

\* A key of the keyboard is trouble for a transaction on its way, and nothing else.
LEMMA HotkeyKeeps ==
  ASSUME RgbIInv, Hotkey
  PROVE  RgbIInv'
<1>0. /\ RgbShape /\ RgbTypeOK /\ CacheIsConfirmed /\ was' = was /\ rgb.trouble \in Nat
      /\ Busy => MayGoWrong
      /\ rgb' = IF Busy THEN Troubled(rgb) ELSE rgb
  BY DEF RgbIInv, RgbTypeOK, Hotkey
<1>1. /\ rgb'.stage = rgb.stage /\ rgb'.kind = rgb.kind /\ rgb'.todo = rgb.todo
      /\ rgb'.expect = rgb.expect /\ rgb'.before = rgb.before
      /\ rgb'.valid = rgb.valid /\ rgb'.cache = rgb.cache /\ rgb'.last = rgb.last
      /\ RgbShape'
  BY <1>0 DEF RgbShape, Troubled
<1>2. IF Busy THEN rgb'.trouble = rgb.trouble + 1 ELSE rgb'.trouble = rgb.trouble
  BY <1>0 DEF RgbShape, Troubled
<1>3. /\ light'.quirks = light.quirks /\ light'.zones = light.zones
      /\ light' \in [quirks : Quirks, effect : Effect, zones : [ZoneIds -> Shades]]
  <2>1. PICK level \in Levels : light' = [light EXCEPT !.effect.level = level]
    BY DEF Hotkey
  <2>2. /\ light = [quirks |-> light.quirks, effect |-> light.effect, zones |-> light.zones]
        /\ light.quirks \in Quirks /\ light.effect \in Effect
        /\ light.zones \in [ZoneIds -> Shades]
    BY <1>0, LightFacts
  <2>3. light' = [quirks |-> light.quirks, zones |-> light.zones,
                  effect |-> [light.effect EXCEPT !.level = level]]
    BY <2>1, <2>2
  <2>4. [light.effect EXCEPT !.level = level] \in Effect
    BY <2>2 DEF Effect
  <2> QED
    BY <2>2, <2>3, <2>4
<1>4. rgb'.trouble \in 0..RgbTrouble
  BY <1>0, <1>2, RgbAssumption DEF MayGoWrong, RgbTypeOK
<1>5. RgbTypeOK'
  BY <1>0, <1>1, <1>3, <1>4 DEF RgbTypeOK
<1>6. CacheIsConfirmed'
  BY <1>0, <1>1, <1>3, CacheStays
<1>7. Busy => ExpectIsWritten'
  BY <1>1 DEF RgbIInv, ExpectIsWritten
<1>8. ASSUME rgb.stage \in {"undoZones", "undoEffect"} PROVE OnTheWayBack'
  <2>1. rgb.trouble > 0 /\ Busy
    BY <1>8 DEF RgbIInv, OnTheWayBack, Busy
  <2> QED
    BY <1>0, <1>2, <2>1 DEF OnTheWayBack
<1>9. ASSUME rgb.stage \in {"change", "undoZones", "undoEffect"} PROVE BeforeIsKnown'
  <2>1. BeforeIsKnown /\ was'.look = was.look
    BY <1>0, <1>9 DEF RgbIInv
  <2> QED
    BY <1>1, <1>3, <2>1, BeforeStays
<1>10. ASSUME rgb.stage = "resume" PROVE ReplayIsExpected'
  BY <1>1, <1>3, <1>10, ReplayStays DEF RgbIInv
<1>11. Busy' = Busy /\ (Busy => rgb'.trouble # 0)
  BY <1>0, <1>1, <1>2 DEF Busy
<1>12. rgb.stage \in {"change", "resume"} => Busy
  BY DEF Busy
<1> QED
  BY <1>1, <1>5, <1>6, <1>7, <1>8, <1>9, <1>10, <1>11, <1>12 DEF RgbIInv

\* The state before a store, as it is read under the lock.
LEMMA BeforeIsRead ==
  ASSUME RgbTypeOK
  PROVE  /\ Look([light EXCEPT !.effect = Snapshot])
              = LookOf(Snapshot, ReadZones(light).colours)
         /\ ReadValid(light.effect) /\ Global => Snapshot = light.effect
         /\ ~Global => ReadZones(light).colours = light.zones
<1>1. /\ light = [quirks |-> light.quirks, effect |-> light.effect, zones |-> light.zones]
      /\ Snapshot \in Written
  BY LightFacts, SnapshotIsWritten
<1>2. [light EXCEPT !.effect = Snapshot]
        = [quirks |-> light.quirks, effect |-> Snapshot, zones |-> light.zones]
  BY <1>1
<1>3. ~Global => ReadZones(light).colours = light.zones
  BY ZonesRead
<1>4. Snapshot.mode \in {"static", "wave"}
  BY <1>1, Fields DEF Written
<1>5. Look([quirks |-> light.quirks, effect |-> Snapshot, zones |-> light.zones])
        = LookOf(Snapshot, ReadZones(light).colours)
  BY <1>3, <1>4 DEF Look, LookOf, Global
<1>6. ReadValid(light.effect) /\ Global => Snapshot = light.effect
  BY GlobalIsAlone, LightFacts, SnapshotIsWritten DEF ReadValid
<1> QED
  BY <1>2, <1>3, <1>5, <1>6

\* A store begins with what it will write, and with what it would write back.
LEMMA StartKeeps ==
  ASSUME RgbIInv, NEW kind, NEW calls, NEW expect, NEW last \in Levels \ {0},
         Start(kind, calls, expect, last), calls \in Seq(RgbCalls), ExpectIsWritten', OnTheWay',
         kind = "effect" => rgb'.todo = <<EffectCall(rgb'.expect.effect)>>
  PROVE  RgbIInv'
<1>0. /\ RgbShape /\ RgbTypeOK /\ CacheIsConfirmed /\ light' = light
      /\ was.stores < RgbStores
  BY DEF RgbIInv, Start
<1>1. /\ rgb'.stage = "change" /\ rgb'.kind = kind /\ rgb'.todo = calls
      /\ rgb'.before = [effect |-> Snapshot, zones |-> ReadZones(light)]
      /\ rgb'.last = last /\ rgb'.trouble = 0
      /\ rgb'.valid = rgb.valid /\ rgb'.cache = rgb.cache
      /\ rgb' = [stage |-> rgb'.stage, kind |-> rgb'.kind, todo |-> rgb'.todo,
                 expect |-> rgb'.expect, before |-> rgb'.before, result |-> rgb'.result,
                 trouble |-> rgb'.trouble, valid |-> rgb'.valid, cache |-> rgb'.cache,
                 last |-> rgb'.last]
  BY <1>0 DEF Start, RgbShape
<1>2. /\ was'.look = Look([light EXCEPT !.effect = Snapshot])
      /\ was'.stores = was.stores + 1 /\ was'.confirmed = was.confirmed
      /\ was' = [look |-> was'.look, confirmed |-> was'.confirmed, stores |-> was'.stores]
  BY <1>0 DEF Start, RgbShape
<1>3. RgbShape'
  BY <1>1, <1>2 DEF RgbShape
<1>4. was'.stores \in 0..RgbStores
  BY <1>0, <1>2, RgbAssumption DEF RgbTypeOK
<1>5. RgbTypeOK'
  BY <1>0, <1>1, <1>4, RgbAssumption DEF RgbTypeOK
<1>6. CacheIsConfirmed'
  BY <1>0, <1>1, <1>2, CacheStays
<1>7. PICK e \in Written, z \in ZoneStates : e = Snapshot /\ z = ReadZones(light)
  BY <1>0, SnapshotIsWritten, ZonesRead
<1>8. rgb'.before.effect = e /\ rgb'.before.zones = z /\ was'.look = LookOf(e, z.colours)
  BY <1>0, <1>1, <1>2, <1>7, BeforeIsRead
<1>9. Painted(z, 1) /\ Painted(z, 2)
  BY <1>0, <1>7, BeforeIsRead DEF Painted
<1>10. /\ Painted(z, 1)' /\ Painted(z, 2)' /\ was'.look = LookOf(e, z.colours)'
  BY <1>0, <1>8, <1>9 DEF Painted, LookOf, Global
<1>11. BeforeIsKnown'
  BY <1>1, <1>8, <1>10 DEF BeforeIsKnown
<1> QED
  BY <1>1, <1>3, <1>5, <1>6, <1>11 DEF RgbIInv

\* A store of `effect`.
LEMMA EffectStoreKeeps ==
  ASSUME RgbIInv, EffectStore
  PROVE  RgbIInv'
<1>1. PICK mode \in {"static", "wave"}, level \in Levels, colour \in Shades :
        Start("effect",
              <<EffectCall([mode |-> mode, level |-> level, colour |-> colour, odd |-> FALSE])>>,
              [effect |-> [mode |-> mode, level |-> level, colour |-> colour, odd |-> FALSE],
               zoned |-> FALSE, zones |-> {}], rgb.last)
  BY DEF EffectStore
<1>2. [mode |-> mode, level |-> level, colour |-> colour, odd |-> FALSE] \in Written
  BY DEF Written, Effect
<1>3. PICK e \in Written :
        e = [mode |-> mode, level |-> level, colour |-> colour, odd |-> FALSE]
  BY <1>2
<1>4. Start("effect", <<EffectCall(e)>>, [effect |-> e, zoned |-> FALSE, zones |-> {}], rgb.last)
  BY <1>1, <1>3
<1>5. EffectCall(e) \in RgbCalls /\ EffectCall(e)' = EffectCall(e)
  BY CallsAre DEF EffectCall
<1>6. <<EffectCall(e)>> \in Seq(RgbCalls)
  BY <1>5
<1>7. /\ rgb'.todo = <<EffectCall(e)>>
      /\ rgb'.expect = [effect |-> e, zoned |-> FALSE, zones |-> {}]
  BY <1>4 DEF Start, RgbIInv, RgbShape
<1>8. rgb'.expect.effect = e /\ rgb'.expect.zones = {} /\ rgb'.todo = <<EffectCall(e)>>
  BY <1>7
<1>9. EffectLeft(e)'
  BY <1>5, <1>8 DEF EffectLeft
<1>10. OnTheWay' /\ ExpectIsWritten'
  BY <1>8, <1>9 DEF OnTheWay, ExpectIsWritten
<1>11. rgb.last \in Levels \ {0}
  BY DEF RgbIInv, RgbTypeOK
<1> QED
  BY <1>4, <1>6, <1>8, <1>10, <1>11, StartKeeps

\* A store that writes some zones: `zones`, and `power` when static lights are turned on.
LEMMA WritingZonesKeeps ==
  ASSUME RgbIInv, NEW kind \in {"zones", "power"}, NEW z \in ZoneStates, Fits(z),
         NEW last \in Levels \ {0},
         Start(kind, WriteZones(z),
               [effect |-> StaticEffect(z), zoned |-> TRUE, zones |-> {z}], last)
  PROVE  RgbIInv'
<1>1. PICK e, calls : e \in Written /\ e = StaticEffect(z) /\ calls = WriteZones(z)
  BY StaticRecord
<1>2. Start(kind, calls, [effect |-> e, zoned |-> TRUE, zones |-> {z}], last)
  BY <1>1
<1>3. /\ rgb'.todo = calls /\ light' = light
      /\ rgb'.expect = [effect |-> e, zoned |-> TRUE, zones |-> {z}]
  BY <1>2 DEF Start, RgbIInv, RgbShape
<1>4. rgb'.expect.effect = e /\ rgb'.expect.zoned /\ rgb'.expect.zones = {z}
  BY <1>3
<1>5. ZonesLeft(z)' /\ calls \in Seq(RgbCalls)
  BY <1>1, <1>3, WriteZonesBegins DEF RgbIInv
<1>6. e = StaticEffect(z)' /\ Fits(z)'
  BY <1>1, <1>3, ZoneCallsStay DEF Fits
<1>7. OnTheWay' /\ ExpectIsWritten'
  BY <1>1, <1>4, <1>5, <1>6 DEF OnTheWay, ExpectIsWritten
<1> QED
  BY <1>2, <1>5, <1>7, StartKeeps

\* A store of `zones`.
LEMMA ZonesStoreKeeps ==
  ASSUME RgbIInv, ZonesStore
  PROVE  RgbIInv'
<1>1. PICK colours \in [ZoneIds -> Shades], level \in Levels :
        /\ Global => colours[2] = Black
        /\ Start("zones", WriteZones([colours |-> colours, level |-> level]),
                 [effect |-> StaticEffect([colours |-> colours, level |-> level]),
                  zoned |-> TRUE, zones |-> {[colours |-> colours, level |-> level]}], rgb.last)
  BY DEF ZonesStore
<1>2. PICK z \in ZoneStates : z = [colours |-> colours, level |-> level]
  BY DEF ZoneStates
<1>3. z.colours = colours
  BY <1>2
<1>4. Fits(z)
  BY <1>1, <1>3 DEF Fits
<1>5. Start("zones", WriteZones(z),
            [effect |-> StaticEffect(z), zoned |-> TRUE, zones |-> {z}], rgb.last)
  BY <1>1, <1>2
<1>6. rgb.last \in Levels \ {0}
  BY DEF RgbIInv, RgbTypeOK
<1> QED
  BY <1>4, <1>5, <1>6, WritingZonesKeeps

\* A store of `power`: off keeps the brightness, on writes a static state as zones.
LEMMA PowerStoreKeeps ==
  ASSUME RgbIInv, PowerStore
  PROVE  RgbIInv'
<1>0. RgbShape /\ RgbTypeOK /\ rgb.last \in Levels \ {0}
  BY DEF RgbIInv, RgbTypeOK
<1>a. PICK on \in BOOLEAN :
      \E level, z, e, last :
        /\ level = IF ~on THEN 0 ELSE IF Snapshot.level = 0 THEN rgb.last ELSE Snapshot.level
        /\ z = [ReadZones(light) EXCEPT !.level = level]
        /\ e = IF Snapshot.mode = "static" THEN StaticEffect(z)
               ELSE [Snapshot EXCEPT !.level = level]
        /\ last = IF ~on /\ Snapshot.level > 0 THEN Snapshot.level ELSE rgb.last
        /\ Start("power",
                 IF on /\ Snapshot.mode = "static" THEN WriteZones(z) ELSE <<EffectCall(e)>>,
                 [effect |-> e, zoned |-> Snapshot.mode = "static", zones |-> {z}], last)
  BY DEF PowerStore
<1>1. PICK level, z, e, last :
        /\ level = IF ~on THEN 0 ELSE IF Snapshot.level = 0 THEN rgb.last ELSE Snapshot.level
        /\ z = [ReadZones(light) EXCEPT !.level = level]
        /\ e = IF Snapshot.mode = "static" THEN StaticEffect(z)
               ELSE [Snapshot EXCEPT !.level = level]
        /\ last = IF ~on /\ Snapshot.level > 0 THEN Snapshot.level ELSE rgb.last
        /\ Start("power",
                 IF on /\ Snapshot.mode = "static" THEN WriteZones(z) ELSE <<EffectCall(e)>>,
                 [effect |-> e, zoned |-> Snapshot.mode = "static", zones |-> {z}], last)
  BY <1>a
<1>2. /\ Snapshot \in Written /\ Snapshot.level \in Levels /\ Snapshot.mode \in {"static", "wave"}
      /\ ReadZones(light) \in ZoneStates /\ ReadValid(light.effect) /\ light' = light
  BY <1>0, <1>1, SnapshotIsWritten, ZonesRead, Fields DEF Written, Start
<1>3. level \in Levels /\ last \in Levels \ {0} /\ 0 \in Levels
  <2>1. 0 \in Levels /\ \A n \in Levels : n > 0 => n # 0
    BY RgbAssumption DEF Levels
  <2> QED
    BY <1>0, <1>1, <1>2, <2>1
<1>4. z \in ZoneStates /\ z.level = level /\ z.colours = ReadZones(light).colours
  BY <1>1, <1>2, <1>3 DEF ZoneStates
<1>5. Global /\ Snapshot.mode = "static" => z.colours[2] = Black
  BY <1>0, <1>2, <1>4, BeforeIsRead, ZonesRead
<1>6. CASE on /\ Snapshot.mode = "static"
  <2>1. Start("power", WriteZones(z),
              [effect |-> StaticEffect(z), zoned |-> TRUE, zones |-> {z}], last)
    BY <1>1, <1>6
  <2> QED
    BY <1>3, <1>4, <1>5, <1>6, <2>1, WritingZonesKeeps DEF Fits
<1>7. CASE ~(on /\ Snapshot.mode = "static")
  <2>1. e \in Written /\ e.level = level
        /\ (e.mode = "static" => Snapshot.mode = "static" /\ e = StaticEffect(z))
        /\ e.mode = Snapshot.mode
    <3>1. CASE Snapshot.mode = "static"
      BY <1>1, <1>4, <3>1, StaticRecord
    <3>2. CASE Snapshot.mode = "wave"
      <4>1. e = [Snapshot EXCEPT !.level = level]
        BY <1>1, <3>2
      <4>2. e \in Written /\ e.level = level /\ e.mode = "wave"
        BY <1>2, <1>3, <3>2, <4>1 DEF Written, Effect
      <4> QED
        BY <3>2, <4>2
    <3> QED
      BY <1>2, <3>1, <3>2
  <2>2. Start("power", <<EffectCall(e)>>,
              [effect |-> e, zoned |-> Snapshot.mode = "static", zones |-> {z}], last)
    BY <1>1, <1>7
  <2>3. IF Global /\ e.mode = "static"
        THEN z.colours[1] = e.colour /\ z.colours[2] = Black
        ELSE z.colours = light.zones
    <3>1. CASE Global /\ e.mode = "static"
      BY <1>4, <1>5, <2>1, <3>1, StaticRecord
    <3>2. CASE ~Global
      BY <1>0, <1>4, <3>2, BeforeIsRead
    <3>3. CASE Global /\ e.mode # "static"
      BY <1>0, <1>2, <1>4, <2>1, <3>3, BeforeIsRead, ZonesRead
    <3> QED
      BY <3>1, <3>2, <3>3
  <2>4. PICK f \in Written, y \in ZoneStates : f = e /\ y = z
    BY <1>4, <2>1
  <2>5. Start("power", <<EffectCall(f)>>,
              [effect |-> f, zoned |-> Snapshot.mode = "static", zones |-> {y}], last)
    BY <2>2, <2>4
  <2>6. EffectCall(f) \in RgbCalls /\ EffectCall(f)' = EffectCall(f)
    BY CallsAre DEF EffectCall
  <2>7. <<EffectCall(f)>> \in Seq(RgbCalls)
    BY <2>6
  <2>8. /\ rgb'.todo = <<EffectCall(f)>>
        /\ rgb'.expect = [effect |-> f, zoned |-> Snapshot.mode = "static", zones |-> {y}]
    BY <1>0, <2>5 DEF Start, RgbShape
  <2>9. rgb'.expect.effect = f /\ rgb'.expect.zones = {y}
    BY <2>8
  <2>10. EffectLeft(f)'
    BY <2>6, <2>8 DEF EffectLeft
  <2>11. IF Global' /\ f.mode = "static"
         THEN y.colours[1] = f.colour /\ y.colours[2] = Black
         ELSE y.colours = light'.zones
    BY <1>2, <2>3, <2>4 DEF Global
  <2>12. y.level = f.level
    BY <1>4, <2>1, <2>4
  <2>13. OnTheWay' /\ ExpectIsWritten'
    BY <2>9, <2>10, <2>11, <2>12 DEF OnTheWay, ExpectIsWritten
  <2> QED
    BY <1>3, <2>5, <2>7, <2>13, StartKeeps
<1> QED
  BY <1>6, <1>7

-----------------------------------------------------------------------------
(* The invariant, and how stores and resumes end.                            *)

\* A probe caches only a record that could be written (asense_probe_gaming).
LEMMA RgbInitEstablishes ==
  ASSUME RgbInit
  PROVE  RgbIInv
<1>1. light \in [quirks : Quirks, zones : {[z \in ZoneIds |-> Black]},
                 effect : [mode : {"static", "wave"}, level : {1}, colour : {Black},
                           odd : BOOLEAN]]
  BY DEF RgbInit
<1>2. 1 \in Levels /\ 1 \in Levels \ {0} /\ Black \in Shades
  BY RgbAssumption DEF Levels, Shades
<1>3. /\ light = [quirks |-> light.quirks, zones |-> light.zones, effect |-> light.effect]
      /\ light.quirks \in Quirks /\ light.zones = [z \in ZoneIds |-> Black]
      /\ light.effect \in [mode : {"static", "wave"}, level : {1}, colour : {Black},
                           odd : BOOLEAN]
  BY <1>1
<1>4. light.effect \in Effect /\ light.zones \in [ZoneIds -> Shades] /\ light.effect.level = 1
  BY <1>2, <1>3 DEF Effect
<1>5. light \in [quirks : Quirks, effect : Effect, zones : [ZoneIds -> Shades]]
  BY <1>3, <1>4
<1>6. /\ ReadZones(light) \in ZoneStates
      /\ IF light.effect.odd THEN Snapshot = StaticEffect(ReadZones(light))
                             ELSE Snapshot = light.effect
      /\ ReadZones(light).colours[2] = Black
      /\ ReadZones(light).level = light.effect.level
      /\ (Global /\ light.effect.mode = "static" =>
            ReadZones(light).colours[1] = light.effect.colour)
      /\ (~(Global /\ light.effect.mode = "static") => ReadZones(light).colours = light.zones)
  <2>1. CASE Global /\ light.effect.mode = "static"
    <3>1. ReadZones(light) = [colours |-> [z \in ZoneIds |-> IF z = 1 THEN light.effect.colour
                                                                     ELSE Black],
                              level |-> light.effect.level]
      BY <2>1 DEF ReadZones, Global
    <3>2. light.effect.colour \in Shades /\ light.effect.level \in Levels /\ Black \in Shades
      BY <1>2, <1>3, <1>4
    <3> QED
      BY <2>1, <3>1, <3>2 DEF ZoneStates, ZoneIds, Snapshot
  <2>2. CASE ~(Global /\ light.effect.mode = "static")
    <3>1. ReadZones(light) = [colours |-> light.zones, level |-> light.effect.level]
      BY <2>2 DEF ReadZones, Global
    <3>2. light.zones[2] = Black /\ light.effect.level \in Levels
      BY <1>2, <1>3, <1>4 DEF ZoneIds
    <3> QED
      BY <1>4, <2>2, <3>1, <3>2 DEF ZoneStates, Snapshot
  <2> QED
    BY <2>1, <2>2
<1>7. /\ rgb = [stage |-> "idle", kind |-> "none", todo |-> <<>>, expect |-> {}, before |-> {},
               result |-> "none", trouble |-> 0, valid |-> ~light.effect.odd,
               cache |-> [effect |-> Snapshot, zones |-> ReadZones(light)], last |-> 1]
      /\ was = [look |-> Look(light), confirmed |-> Look(light), stores |-> 0]
  BY <1>4 DEF RgbInit
<1>8. RgbShape
  <2>1. /\ rgb.stage = "idle" /\ rgb.kind = "none" /\ rgb.todo = <<>> /\ rgb.expect = {}
        /\ rgb.before = {} /\ rgb.result = "none" /\ rgb.trouble = 0
        /\ rgb.cache = [effect |-> Snapshot, zones |-> ReadZones(light)] /\ rgb.last = 1
    BY <1>7
  <2>2. rgb.valid = (~light.effect.odd)
    BY <1>7
  <2> QED
    BY <1>7, <2>1, <2>2 DEF RgbShape
<1>9. Snapshot \in Effect
  BY <1>4, <1>6, StaticRecord DEF Written
<1>10. RgbTypeOK
  BY <1>2, <1>5, <1>6, <1>7, <1>9, RgbAssumption DEF RgbTypeOK
<1>11. CacheIsConfirmed
  <2>1. SUFFICES ASSUME ~light.effect.odd
                 PROVE  /\ was.confirmed = LookOf(Replayed, rgb.cache.zones.colours)
                        /\ Replayed \in Written
                        /\ rgb.cache.effect.mode = "static" => Fits(rgb.cache.zones)
    <3>1. rgb.valid = (~light.effect.odd)
      BY <1>7
    <3> QED
      BY <3>1 DEF CacheIsConfirmed
  <2>2. PICK z \in ZoneStates, e \in Effect : z = ReadZones(light) /\ e = light.effect
    BY <1>4, <1>6
  <2>3. rgb.cache.effect = e /\ rgb.cache.zones = z /\ was.confirmed = Look(light)
    BY <1>6, <1>7, <2>1, <2>2
  <2>4. e \in Written /\ Fits(z)
    BY <1>6, <2>1, <2>2 DEF Written, Fits
  <2>5. Look(light) = LookOf(e, z.colours)
    BY <1>10, <2>2, LooksAreOf
  <2>6. CASE e.mode = "static"
    <3>1. Replayed = StaticEffect(z) /\ e.level = z.level
          /\ (Global => z.colours[1] = e.colour)
      BY <1>6, <2>2, <2>3, <2>6 DEF Replayed
    <3>2. LookOf(e, z.colours) = LookOf(StaticEffect(z), z.colours)
      BY <2>6, <3>1, StaticRecord DEF LookOf
    <3> QED
      BY <2>3, <2>4, <2>5, <3>1, <3>2, StaticRecord
  <2>7. CASE e.mode # "static"
    <3>1. Replayed = e
      BY <2>3, <2>7 DEF Replayed
    <3> QED
      BY <2>3, <2>4, <2>5, <2>7, <3>1
  <2> QED
    BY <2>6, <2>7
<1> QED
  BY <1>7, <1>8, <1>10, <1>11 DEF RgbIInv, Busy

\* Every operation of the zoned keyboard keeps the invariant.
LEMMA RgbNextKeeps ==
  ASSUME RgbIInv, [RgbNext]_rgbVars
  PROVE  RgbIInv'
<1>1. CASE EffectStore
  BY <1>1, EffectStoreKeeps
<1>2. CASE ZonesStore
  BY <1>2, ZonesStoreKeeps
<1>3. CASE PowerStore
  BY <1>3, PowerStoreKeeps
<1>4. CASE Call
  BY <1>4, CallKeeps
<1>5. CASE CallFails
  BY <1>5, CallFailsKeeps
<1>6. CASE Verify \/ VerifyFails \/ RolledBack
  BY <1>6, VerifyKeeps
<1>7. CASE Suspend
  BY <1>7, SuspendKeeps
<1>8. CASE RgbResume
  BY <1>8, ResumeKeeps
<1>9. CASE Hotkey
  BY <1>9, HotkeyKeeps
<1>10. CASE UNCHANGED rgbVars
  <2>1. light' = light /\ rgb' = rgb /\ was' = was
    BY <1>10 DEF rgbVars
  <2>2. Global' = Global /\ Replayed' = Replayed
    BY <2>1 DEF Global, Replayed, StaticEffect
  <2>3. \A z : ZonesLeft(z)' = ZonesLeft(z)
    BY <2>1, <2>2 DEF ZonesLeft, Painted, Took, StaticEffect, EffectCall, ZoneCall, Paint, Commit,
                      Check, Enable
  <2>4. \A e : EffectLeft(e)' = EffectLeft(e)
    BY <2>1 DEF EffectLeft, EffectCall, Took
  <2>5. /\ RgbShape' = RgbShape /\ RgbTypeOK' = RgbTypeOK /\ Busy' = Busy
        /\ ExpectIsWritten' = ExpectIsWritten
    BY <2>1 DEF RgbShape, RgbTypeOK, Busy, ExpectIsWritten
  <2>6. CacheIsConfirmed' = CacheIsConfirmed /\ ReplayIsExpected' = ReplayIsExpected
    BY <2>1, <2>2 DEF CacheIsConfirmed, ReplayIsExpected, LookOf, Fits
  <2>7. \A z, i : Painted(z, i)' = Painted(z, i)
    BY <2>1, <2>2 DEF Painted
  <2>8. BeforeIsKnown' = BeforeIsKnown
    BY <2>1, <2>2, <2>7 DEF BeforeIsKnown, LookOf, EffectCall
  <2>9. OnTheWayBack' = OnTheWayBack
    BY <2>1, <2>3, <2>4, <2>7 DEF OnTheWayBack
  <2>10. OnTheWay' = OnTheWay
    BY <2>1, <2>2, <2>3, <2>4 DEF OnTheWay, Fits, StaticEffect
  <2> QED
    BY <2>1, <2>5, <2>6, <2>8, <2>9, <2>10 DEF RgbIInv
<1> QED
  BY <1>1, <1>2, <1>3, <1>4, <1>5, <1>6, <1>7, <1>8, <1>9, <1>10 DEF RgbNext

\* What a transaction of the kernel module has done, and what it still has to do, is known
\* between any two of its firmware calls (asense_write_zones, effect_store, zones_store,
\* power_store, asense_restore_cached).
THEOREM RgbInvariant == RgbSpec => []RgbIInv
<1>1. RgbInit => RgbIInv
  BY RgbInitEstablishes
<1>2. RgbIInv /\ [RgbNext]_rgbVars => RgbIInv'
  BY RgbNextKeeps
<1> QED
  BY <1>1, <1>2, PTL DEF RgbSpec

\* What the readback confirms is the look that was asked for.
LEMMA ConfirmedIsWanted ==
  ASSUME RgbTypeOK, ExpectIsWritten,
         Matches(rgb.expect.effect, light.effect, rgb.expect.zoned),
         rgb.expect.zones # {} => ReadZones(light) \in rgb.expect.zones
  PROVE  Look(light) = Wanted
<1> DEFINE e == rgb.expect.effect
<1>1. /\ e.mode = light.effect.mode /\ e.level = light.effect.level
      /\ \/ e.mode = "static" /\ "shadow" \in light.quirks
         \/ e.colour = light.effect.colour
  BY DEF Matches
<1>2. e.mode \in {"static", "wave"} /\ light.quirks \in Quirks
  BY LightFacts, Fields DEF ExpectIsWritten, Written
<1> HIDE DEF e
<1>3. CASE e.mode = "wave"
  BY <1>1, <1>3 DEF Look, Wanted, e
<1>4. CASE e.mode = "static" /\ Global
  <2>1. e.colour = light.effect.colour
    BY <1>1, <1>2, <1>4, GlobalIsAlone
  <2> QED
    BY <1>1, <1>4, <2>1 DEF Look, Wanted, Global, e
<1>5. CASE e.mode = "static" /\ ~Global
  <2>1. rgb.expect.zones # {} => (CHOOSE z \in rgb.expect.zones : TRUE).colours = light.zones
    <3>1. SUFFICES ASSUME rgb.expect.zones # {}
                   PROVE  (CHOOSE z \in rgb.expect.zones : TRUE).colours = light.zones
      OBVIOUS
    <3>2. PICK z \in ZoneStates : rgb.expect.zones = {z}
      BY <3>1 DEF ExpectIsWritten
    <3>3. (CHOOSE y \in {z} : TRUE) = z /\ ReadZones(light) = z
      BY <3>2
    <3>4. ReadZones(light).colours = light.zones
      BY <1>5, ZonesRead
    <3> QED
      BY <3>2, <3>3, <3>4
  <2> QED
    BY <1>1, <1>5, <2>1 DEF Look, Wanted, Global, e
<1> QED
  BY <1>2, <1>3, <1>4, <1>5

\* What the readback confirms after a resume is the look that was confirmed last.
LEMMA ReplayIsWanted ==
  ASSUME RgbTypeOK, ReplayIsExpected, CacheIsConfirmed
  PROVE  Wanted = was.confirmed
<1>1. /\ was.confirmed = LookOf(Replayed, rgb.cache.zones.colours) /\ Replayed \in Written
      /\ rgb.expect.effect = Replayed
      /\ rgb.expect.zones = IF rgb.cache.effect.mode = "static" THEN {rgb.cache.zones} ELSE {}
  BY DEF ReplayIsExpected, CacheIsConfirmed
<1>2. PICK e \in Written, z \in ZoneStates : e = Replayed /\ z = rgb.cache.zones
  BY <1>1 DEF RgbTypeOK
<1>3. e.mode \in {"static", "wave"}
  BY Fields DEF Written
<1>4. CASE rgb.cache.effect.mode = "static"
  <2>1. e.mode = "static"
    BY <1>2, <1>4, StaticRecord DEF Replayed
  <2>2. rgb.expect.zones = {z} /\ (CHOOSE y \in {z} : TRUE) = z /\ rgb.expect.effect = e
    BY <1>1, <1>2, <1>4
  <2>3. Wanted = [mode |-> "static", level |-> e.level,
                  colours |-> IF Global THEN e.colour ELSE z.colours]
    BY <2>1, <2>2 DEF Wanted
  <2> QED
    BY <1>1, <1>2, <2>1, <2>3 DEF LookOf
<1>5. CASE rgb.cache.effect.mode # "static"
  <2>1. e = rgb.cache.effect /\ e.mode = "wave" /\ rgb.expect.effect = e
    BY <1>1, <1>2, <1>3, <1>5 DEF Replayed
  <2>2. Wanted = [mode |-> "wave", level |-> e.level, colours |-> e.colour]
    BY <2>1 DEF Wanted
  <2> QED
    BY <1>1, <1>2, <2>1, <2>2 DEF LookOf
<1> QED
  BY <1>4, <1>5

\* A way back that met no more trouble has led to where the store began.
LEMMA WayBackLeads ==
  ASSUME RgbTypeOK, OnTheWayBack, BeforeIsKnown, rgb.stage = "undoEffect", rgb.todo = <<>>,
         rgb.trouble <= 1
  PROVE  Look(light) = was.look
<1>1. PICK z \in ZoneStates, e \in Written : z = rgb.before.zones /\ e = rgb.before.effect
  BY DEF BeforeIsKnown
<1>2. rgb.trouble = 1
  BY DEF OnTheWayBack, RgbTypeOK
<1>3. EffectLeft(e) /\ Painted(z, 1) /\ Painted(z, 2)
  BY <1>1, <1>2 DEF OnTheWayBack
<1>4. <<EffectCall(e)>> # <<>>
  OBVIOUS
<1>5. Took(e, FALSE)
  BY <1>3, <1>4 DEF EffectLeft
<1>6. light.effect.mode = e.mode /\ light.effect.level = e.level /\ light.effect.colour = e.colour
  BY <1>5 DEF Took
<1>7. ~Global => light.zones = z.colours
  BY <1>3, LightFacts, Fields, ZonesDiffer DEF Painted
<1>8. was.look = LookOf(e, z.colours) /\ e.mode \in {"static", "wave"}
  BY <1>1, Fields DEF BeforeIsKnown, Written
<1> QED
  BY <1>6, <1>7, <1>8 DEF Look, LookOf, Global

\* Where a transaction ends: the readback that is passed, or the last step of the way back.
LEMMA TransactionsEnd ==
  ASSUME RgbIInv, Busy, [RgbNext]_rgbVars, rgb'.stage = "idle"
  PROVE  \/ /\ rgb.stage \in {"change", "resume"} /\ light' = light
            /\ Matches(rgb.expect.effect, light.effect, rgb.expect.zoned)
            /\ rgb.expect.zones # {} => ReadZones(light) \in rgb.expect.zones
            /\ rgb'.result = "ok"
         \/ /\ rgb.stage \in {"undoEffect", "resume"}
            /\ rgb'.result = "error"
            /\ rgb'.trouble > 0
            /\ rgb.stage = "undoEffect" /\ rgb'.trouble <= 1 =>
                 light' = light /\ rgb.todo = <<>> /\ rgb.trouble <= 1
<1>0. RgbShape /\ RgbTypeOK /\ rgb.stage # "idle" /\ rgb.stage # "asleep" /\ rgb.trouble \in Nat
  BY DEF RgbIInv, RgbTypeOK, Busy
<1>1. ASSUME rgb'.stage # rgb.stage, NEW t, After(Undo(rgb), t), was' = was
      PROVE  /\ rgb.stage \in {"undoEffect", "resume"} /\ rgb'.result = "error"
             /\ rgb'.trouble = t
  BY <1>0, <1>1, UndoLeads DEF Busy
<1>2. CASE EffectStore \/ ZonesStore \/ PowerStore
  BY <1>0, <1>2 DEF EffectStore, ZonesStore, PowerStore, Start
<1>3. CASE Call
  <2>1. CASE rgb' = [rgb EXCEPT !.todo = Tail(@)]
    <3>1. rgb'.stage = rgb.stage
      BY <1>0, <2>1 DEF RgbShape
    <3> QED
      BY <1>0, <3>1
  <2>2. CASE /\ Head(rgb.todo).call = "check" /\ rgb' = Undo(rgb)
             /\ ~Matches(Head(rgb.todo).effect, light.effect, Head(rgb.todo).zoned)
    <3>1. rgb.trouble > 0 /\ (rgb.stage \in {"undoZones", "undoEffect"} => rgb.trouble > 1)
      BY <1>3, <2>2, CheckFailsAfterTrouble DEF Call
    <3>2. After(Undo(rgb), rgb.trouble) /\ was' = was
      BY <1>0, <1>3, <2>2, UndoIsAfter DEF Call
    <3>3. PICK t \in Nat : t = rgb.trouble
      BY <1>0
    <3>4. rgb.stage \in {"undoEffect", "resume"} /\ rgb'.result = "error" /\ rgb'.trouble = t
      BY <1>0, <1>1, <3>2, <3>3
    <3> QED
      BY <3>1, <3>3, <3>4
  <2> QED
    BY <1>3, <2>1, <2>2 DEF Call
<1>4. CASE CallFails
  <2>1. CASE rgb' = Troubled(Undo(rgb))
    <3>1. After(Undo(rgb), rgb.trouble + 1) /\ was' = was
      BY <1>0, <1>4, <2>1, UndoIsAfter DEF CallFails
    <3>2. PICK t \in Nat : t = rgb.trouble + 1
      BY <1>0
    <3>3. rgb.stage \in {"undoEffect", "resume"} /\ rgb'.result = "error" /\ rgb'.trouble = t
      BY <1>0, <1>1, <3>1, <3>2
    <3>4. rgb.stage = "undoEffect" => rgb.trouble > 0
      BY DEF RgbIInv, OnTheWayBack
    <3> QED
      BY <1>0, <3>2, <3>3, <3>4
  <2>2. CASE rgb' = Troubled([rgb EXCEPT !.todo = Tail(@)])
    <3>1. rgb'.stage = rgb.stage
      BY <1>0, <2>2 DEF RgbShape, Troubled
    <3> QED
      BY <1>0, <3>1
  <2> QED
    BY <1>4, <2>1, <2>2 DEF CallFails
<1>5. CASE Verify
  <2>1. CASE /\ Matches(rgb.expect.effect, light.effect, rgb.expect.zoned)
             /\ rgb.expect.zones # {} => ReadZones(light) \in rgb.expect.zones
             /\ rgb' = Committed(rgb)
    <3>1. rgb'.result = "ok"
      BY <1>0, <2>1 DEF RgbShape, Committed, Ended
    <3>2. rgb.stage \in {"change", "resume"} /\ light' = light
      BY <1>5 DEF Verify
    <3> QED
      BY <2>1, <3>1, <3>2
  <2>2. CASE /\ ~(/\ Matches(rgb.expect.effect, light.effect, rgb.expect.zoned)
                  /\ rgb.expect.zones # {} => ReadZones(light) \in rgb.expect.zones)
             /\ rgb' = Undo(rgb) /\ UNCHANGED was
    <3>1. After(Undo(rgb), rgb.trouble) /\ was' = was /\ rgb.stage \in {"change", "resume"}
      BY <1>0, <1>5, <2>2, UndoIsAfter DEF Verify
    <3>2. rgb.trouble # 0
      BY <1>5, <2>2, ReadbackFailsAfterTrouble DEF Verify
    <3>3. PICK t \in Nat : t = rgb.trouble
      BY <1>0
    <3>4. rgb.stage \in {"undoEffect", "resume"} /\ rgb'.result = "error" /\ rgb'.trouble = t
      BY <1>0, <1>1, <3>1, <3>3
    <3> QED
      BY <3>1, <3>2, <3>3, <3>4
  <2> QED
    BY <1>5, <2>1, <2>2 DEF Verify
<1>6. CASE VerifyFails
  <2>1. /\ After(Undo(rgb), rgb.trouble + 1) /\ was' = was /\ rgb.stage \in {"change", "resume"}
    BY <1>0, <1>6, UndoIsAfter DEF VerifyFails
  <2>2. PICK t \in Nat : t = rgb.trouble + 1
    BY <1>0
  <2>3. rgb.stage \in {"undoEffect", "resume"} /\ rgb'.result = "error" /\ rgb'.trouble = t
    BY <1>0, <1>1, <2>1, <2>2
  <2> QED
    BY <1>0, <2>1, <2>2, <2>3
<1>7. CASE RolledBack
  <2>1. /\ After(Undo(rgb), rgb.trouble) /\ was' = was /\ light' = light /\ rgb.todo = <<>>
        /\ rgb.stage \in {"undoZones", "undoEffect"}
    BY <1>0, <1>7, UndoIsAfter DEF RolledBack
  <2>2. PICK t \in Nat : t = rgb.trouble
    BY <1>0
  <2>3. rgb.stage \in {"undoEffect", "resume"} /\ rgb'.result = "error" /\ rgb'.trouble = t
    BY <1>0, <1>1, <2>1, <2>2
  <2>4. rgb.trouble > 0
    BY <2>1 DEF RgbIInv, OnTheWayBack
  <2> QED
    BY <2>1, <2>2, <2>3, <2>4
<1>8. CASE Suspend \/ RgbResume
  BY <1>0, <1>8 DEF Suspend, RgbResume
<1>9. CASE Hotkey
  <2>1. rgb'.stage = rgb.stage
    BY <1>0, <1>9 DEF Hotkey, RgbShape, Troubled
  <2> QED
    BY <1>0, <2>1
<1>10. CASE UNCHANGED rgbVars
  BY <1>0, <1>10 DEF rgbVars
<1> QED
  BY <1>2, <1>3, <1>4, <1>5, <1>6, <1>7, <1>8, <1>9, <1>10 DEF RgbNext

\* A store ends with the whole look it was asked for, or, with no more than one thing gone
\* wrong, with the look before it: a zone, a commit or a readback that fails leaves no mixture
\* (effect_store, zones_store and power_store with their rollbacks).
THEOREM StoresEndWhole == RgbSpec => StoreEndsWhole
<1>1. ASSUME RgbIInv, [RgbNext]_rgbVars, rgb.stage \in {"change", "undoZones", "undoEffect"},
             rgb'.stage = "idle"
      PROVE  \/ rgb'.result = "ok" /\ Look(light') = Wanted
             \/ /\ rgb'.result = "error"
                /\ rgb'.trouble <= 1 => Look(light') = was.look
  <2>0. Busy /\ RgbTypeOK /\ ExpectIsWritten
    BY <1>1 DEF RgbIInv, Busy
  <2>1. CASE /\ light' = light /\ rgb'.result = "ok"
             /\ Matches(rgb.expect.effect, light.effect, rgb.expect.zoned)
             /\ rgb.expect.zones # {} => ReadZones(light) \in rgb.expect.zones
    <3>1. Look(light) = Wanted
      BY <2>0, <2>1, ConfirmedIsWanted
    <3>2. Look(light') = Look(light)
      BY <2>1
    <3> QED
      BY <2>1, <3>1, <3>2
  <2>2. CASE /\ rgb.stage = "undoEffect" /\ rgb'.result = "error"
             /\ rgb'.trouble <= 1 => light' = light /\ rgb.todo = <<>> /\ rgb.trouble <= 1
    <3>1. OnTheWayBack /\ BeforeIsKnown
      BY <1>1, <2>2 DEF RgbIInv
    <3>2. ASSUME rgb'.trouble <= 1 PROVE Look(light') = was.look
      <4>1. light' = light /\ rgb.todo = <<>> /\ rgb.trouble <= 1
        BY <2>2, <3>2
      <4>2. Look(light) = was.look
        BY <2>0, <2>2, <3>1, <4>1, WayBackLeads
      <4> QED
        BY <4>1, <4>2
    <3> QED
      BY <2>2, <3>2
  <2> QED
    BY <1>1, <2>0, <2>1, <2>2, TransactionsEnd
<1>2. RgbIInv /\ [RgbNext]_rgbVars =>
        [/\ rgb.stage \in {"change", "undoZones", "undoEffect"} /\ rgb'.stage = "idle"
         => \/ rgb'.result = "ok" /\ Look(light') = Wanted
            \/ /\ rgb'.result = "error"
               /\ rgb'.trouble <= 1 => Look(light') = was.look]_rgbVars
  BY <1>1
<1> QED
  BY <1>2, RgbInvariant, PTL DEF RgbSpec, StoreEndsWhole

\* A resume that meets no trouble ends with the look that was confirmed last, whatever stores
\* have failed since (asense_restore_cached writes what the cache holds).
THEOREM ResumesRestore == RgbSpec => ResumeRestoresLast
<1>1. ASSUME RgbIInv, [RgbNext]_rgbVars, rgb.stage = "resume", rgb'.stage = "idle",
             rgb'.trouble = 0
      PROVE  rgb'.result = "ok" /\ Look(light') = was.confirmed
  <2>0. Busy /\ RgbTypeOK /\ ExpectIsWritten /\ ReplayIsExpected /\ CacheIsConfirmed
    BY <1>1 DEF RgbIInv, Busy
  <2>1. /\ light' = light /\ rgb'.result = "ok"
        /\ Matches(rgb.expect.effect, light.effect, rgb.expect.zoned)
        /\ rgb.expect.zones # {} => ReadZones(light) \in rgb.expect.zones
    BY <1>1, <2>0, TransactionsEnd
  <2>2. Look(light) = Wanted /\ Wanted = was.confirmed
    BY <2>0, <2>1, ConfirmedIsWanted, ReplayIsWanted
  <2> QED
    BY <2>1, <2>2
<1>2. RgbIInv /\ [RgbNext]_rgbVars =>
        [rgb.stage = "resume" /\ rgb'.stage = "idle" /\ rgb'.trouble = 0
         => rgb'.result = "ok" /\ Look(light') = was.confirmed]_rgbVars
  BY <1>1
<1> QED
  BY <1>2, RgbInvariant, PTL DEF RgbSpec, ResumeRestoresLast

===============================================================================
