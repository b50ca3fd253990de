------------------------------ MODULE AcerProofs ------------------------------
(* Proofs about the Acer hardware: which files its controls are found in, for any *)
(* machine (HardwareDiscovery), and the stores of its platform settings, for any  *)
(* second writer and any number of troubles (PlatformSettings).                   *)
EXTENDS HardwareDiscovery, PlatformSettings, FiniteSetTheorems, TLAPS

-------------------------------------------------------------------------------
(* The hwmon device is found by what it is.                                      *)

\* New numbers for all devices are different numbers for different devices.
LEMMA RenumberingIsOneToOne ==
  ASSUME NEW p \in Permutation, NEW n \in Numbers, NEW o \in Numbers, p[n] = p[o]
  PROVE  n = o
  <1>1. p \in Surjection(Numbers, Numbers)
    BY DEF Permutation, Surjection
  <1>2. IsFiniteSet(Numbers) /\ Cardinality(Numbers) = Cardinality(Numbers)
    BY NumbersAssumption
  <1>3. p \in Injection(Numbers, Numbers)
    BY <1>1, <1>2, FS_SurjSameCardinalityImpliesInj
  <1> QED BY <1>3 DEF Injection, IsInjective

\* A device keeps its files and so its rank under another number.
LEMMA RankGoesAlong ==
  ASSUME NEW m \in Machine, NEW p \in Permutation
  PROVE  LET r == Renumbered(m, p)
         IN /\ r.acer = m.acer /\ \A n \in Numbers : r.hwmon[n] = m.hwmon[p[n]]
            /\ Candidates(r) = {n \in Numbers : p[n] \in Candidates(m)}
            /\ \A n \in Numbers : Rank(r, n) = Rank(m, p[n])
  <1> DEFINE r == Renumbered(m, p)
  <1>1. r.acer = m.acer /\ \A n \in Numbers : r.hwmon[n] = m.hwmon[p[n]]
    BY DEF Renumbered, Machine
  <1>2. \A n \in Numbers : p[n] \in Numbers
    BY DEF Permutation
  <1> HIDE DEF r
  <1>3. Candidates(r) = {n \in Numbers : p[n] \in Candidates(m)}
    BY <1>1, <1>2 DEF Candidates
  <1>4. \A n \in Numbers : Rank(r, n) = Rank(m, p[n])
    BY <1>1, <1>2 DEF Rank
  <1> QED BY <1>1, <1>3, <1>4 DEF r

Best(m) == {n \in Candidates(m) : \A o \in Candidates(m) : Rank(m, o) <= Rank(m, n)}

\* Of the candidates, the same devices are the best ones under other numbers.
LEMMA BestGoesAlong ==
  ASSUME NEW m \in Machine, NEW p \in Permutation
  PROVE  Best(Renumbered(m, p)) = {n \in Numbers : p[n] \in Best(m)}
  <1> DEFINE r == Renumbered(m, p)
  <1>1. /\ Candidates(r) = {n \in Numbers : p[n] \in Candidates(m)}
        /\ \A n \in Numbers : Rank(r, n) = Rank(m, p[n])
    BY RankGoesAlong
  <1>2. /\ \A n \in Numbers : p[n] \in Numbers /\ \E o \in Numbers : p[o] = n
        /\ Candidates(m) \subseteq Numbers
    BY DEF Permutation, Candidates
  <1> HIDE DEF r
  <1>3. ASSUME NEW n \in Numbers
        PROVE  n \in Best(r) <=> p[n] \in Best(m)
    <2>1. ASSUME n \in Best(r), NEW o \in Candidates(m)
          PROVE  Rank(m, o) <= Rank(m, p[n])
      <3>1. PICK q \in Numbers : p[q] = o
        BY <1>2
      <3>2. q \in Candidates(r)
        BY <1>1, <3>1
      <3> QED BY <1>1, <2>1, <3>1, <3>2 DEF Best
    <2>2. n \in Best(r) => p[n] \in Candidates(m)
      BY <1>1 DEF Best
    <2>3. ASSUME p[n] \in Best(m), NEW o \in Candidates(r)
          PROVE  Rank(r, o) <= Rank(r, n)
      BY <1>1, <2>3 DEF Best
    <2>4. p[n] \in Best(m) => n \in Candidates(r)
      BY <1>1 DEF Best
    <2> QED BY <2>1, <2>2, <2>3, <2>4 DEF Best
  <1>4. Best(r) \subseteq Numbers
    BY DEF Best, Candidates
  <1> QED BY <1>3, <1>4 DEF r

\* The device that is written to is the one candidate that no other outranks.
LEMMA DeviceIsTheBest ==
  ASSUME NEW m
  PROVE  /\ discover_acer_hwmon(m) # NoDevice =>
              Best(m) = {discover_acer_hwmon(m)} /\ discover_acer_hwmon(m) \in Candidates(m)
         /\ \A n : Best(m) = {n} => discover_acer_hwmon(m) = n
         /\ (\A n : Best(m) # {n}) => discover_acer_hwmon(m) = NoDevice
  <1> DEFINE found == discover_acer_hwmon(m)
  <1>1. found = IF \E n \in Best(m) : Best(m) = {n} THEN CHOOSE n \in Best(m) : TRUE
                ELSE NoDevice
    BY DEF discover_acer_hwmon, Best
  <1>2. Best(m) \subseteq Candidates(m)
    BY DEF Best
  <1> HIDE DEF found
  <1>3. ASSUME NEW n, Best(m) = {n}
        PROVE  found = n /\ n \in Candidates(m)
    BY <1>1, <1>2, <1>3
  <1>4. (\A n : Best(m) # {n}) => found = NoDevice
    BY <1>1
  <1> QED BY <1>3, <1>4 DEF found

\* The same device is found, whatever the numbers.
LEMMA FoundGoesAlong ==
  ASSUME NEW m \in Machine, NEW p \in Permutation
  PROVE  LET n == discover(m).hwmon
             o == discover(Renumbered(m, p)).hwmon
         IN (n = NoDevice) = (o = NoDevice) /\ (n # NoDevice => p[o] = n)
  <1> DEFINE r == Renumbered(m, p)
             n == discover_acer_hwmon(m)
             o == discover_acer_hwmon(r)
  <1>1. /\ r.acer = m.acer
        /\ discover(m).hwmon = IF m.acer THEN n ELSE NoDevice
        /\ discover(r).hwmon = IF r.acer THEN o ELSE NoDevice
    BY RankGoesAlong DEF discover
  <1>2. /\ Best(r) = {q \in Numbers : p[q] \in Best(m)}
        /\ Best(m) \subseteq Numbers
        /\ \A q \in Numbers : p[q] \in Numbers /\ \E u \in Numbers : p[u] = q
        /\ NoDevice \notin Numbers
    BY BestGoesAlong, NoDeviceAssumption DEF Best, Candidates, Permutation
  <1>3. ASSUME n # NoDevice
        PROVE  o \in Numbers /\ p[o] = n
    <2>1. Best(m) = {n} /\ n \in Numbers
      BY <1>2, <1>3, DeviceIsTheBest
    <2>2. PICK u \in Numbers : p[u] = n
      BY <1>2, <2>1
    <2>3. \A q \in Numbers : p[q] = n => q = u
      BY <2>2, RenumberingIsOneToOne
    <2> HIDE DEF n, r
    <2>4. Best(r) = {u}
      BY <1>2, <2>1, <2>2, <2>3
    <2> QED BY <2>2, <2>4, DeviceIsTheBest
  <1>4. ASSUME o # NoDevice
        PROVE  n # NoDevice
    <2>1. Best(r) = {o} /\ o \in Numbers
      BY <1>2, <1>4, DeviceIsTheBest
    <2> HIDE DEF o, r
    <2>2. \A q \in Best(m) : q = p[o]
      BY <1>2, <2>1
    <2>3. Best(m) = {p[o]} /\ p[o] \in Numbers
      BY <1>2, <2>1, <2>2
    <2> QED BY <1>2, <2>3, DeviceIsTheBest
  <1> HIDE DEF n, o, r
  <1>5. (n = NoDevice) = (o = NoDevice) /\ (n # NoDevice => p[o] = n)
    BY <1>2, <1>3, <1>4
  <1>6. LET a == discover(m).hwmon
            b == discover(r).hwmon
        IN (a = NoDevice) = (b = NoDevice) /\ (a # NoDevice => p[b] = a)
    BY <1>1, <1>5
  <1> QED BY <1>6 DEF r

\* A setting that is announced for a machine passes the checks before its first
\* write, and the fans that it sets can be read back.
LEMMA AnnouncedPassesTheChecks ==
  ASSUME system \in Machine
  PROVE  AnnouncedIsAccepted
  <1> DEFINE h == discover(system)
             n == h.hwmon
             kernel == KernelFans(system.hwmon[n])
             gaming == GamingFans(system, n)
             Exposed == /\ \A f \in Fan : read_fan_channel(h, system, f).readable
                        /\ fan_control_exposed(h, system)
             Watched == n # NoDevice /\ manual_watchdog_available(system.hwmon[n])
  <1>1. /\ h.acer = system.acer
        /\ h.fans = discover_fans(system, n)
        /\ h.profiles = discover_profiles(system)
    BY DEF discover
  <1>2. /\ h.fans = NoFans \/ h.fans = kernel \/ h.fans = gaming
        /\ h.fans # NoFans => h.acer
        /\ h.fans # NoFans /\ h.fans # gaming => n # NoDevice
    BY <1>1 DEF discover_fans
  <1> HIDE DEF h
  <1>3. ASSUME h.fans # NoFans, h.fans = kernel, n # NoDevice
        PROVE  Exposed /\ (h.fans.manual => Watched)
    <2>1. /\ \A f \in Fan : system.hwmon[n].mode[f] \in {"mode", "enxio"}
          /\ h.fans.backend = "KernelPwm"
          /\ h.fans.manual => manual_watchdog_available(system.hwmon[n])
      <3>1. \A f \in Fan : system.hwmon[n].mode[f] \in {"mode", "enxio"}
        BY <1>3 DEF KernelFans
      <3>2. kernel = [backend |-> "KernelPwm",
                      manual |-> /\ manual_watchdog_available(system.hwmon[n])
                                 /\ \A f \in Fan : system.hwmon[n].duty[f] = "value"]
        BY <1>3 DEF KernelFans
      <3> HIDE DEF kernel
      <3>3. h.fans.backend = "KernelPwm"
        BY <1>3, <3>2
      <3>4. h.fans.manual => manual_watchdog_available(system.hwmon[n])
        BY <1>3, <3>2
      <3> QED BY <3>1, <3>3, <3>4
    <2>2. \A f \in Fan : read_fan_channel(h, system, f).readable
      BY <2>1 DEF read_fan_channel
    <2>3. fan_control_exposed(h, system)
      BY <1>2, <1>3, <2>1 DEF fan_control_exposed, Present, Fan
    <2> QED BY <1>3, <2>1, <2>2, <2>3
  <1>4. ASSUME h.fans # NoFans, h.fans = gaming
        PROVE  Exposed /\ (h.fans.manual => Watched)
    <2>1. /\ system.fans # NoDevice /\ \A f \in Fan : system.fans.mode[f] = "mode"
          /\ h.fans.backend = "AcerGamingWmi"
          /\ h.fans.manual => /\ n # NoDevice /\ manual_watchdog_available(system.hwmon[n])
                              /\ \A f \in Fan : system.fans.speed[f] = "value"
      BY <1>4 DEF GamingFans, NoFans
    <2>2. \A f \in Fan : read_fan_channel(h, system, f).readable
      BY <2>1 DEF read_fan_channel
    <2>3. fan_control_exposed(h, system)
      BY <1>2, <1>4, <2>1 DEF fan_control_exposed, Present, Fan
    <2> QED BY <2>1, <2>2, <2>3
  <1>5. h.fans # NoFans => Exposed /\ (h.fans.manual => Watched)
    BY <1>2, <1>3, <1>4
  <1>6. h.fans.manual => h.fans # NoFans
    BY DEF NoFans
  <1>7. \A c \in ProfileChoices(h, system) : c.selectable => AcceptsProfile(h, system, c.raw)
    BY DEF ProfileChoices, AcceptsProfile
  <1>8. /\ h.fans # NoFans => \A s \in {"Auto", "Maximum"} : AcceptsFan(h, system, s)
        /\ h.fans.manual => AcceptsFan(h, system, "Manual")
    BY <1>2, <1>5, <1>6 DEF AcceptsFan
  <1>9. LET caps == capabilities(h, system)
        IN /\ caps.choices = ProfileChoices(h, system)
           /\ caps.auto = (h.fans # NoFans) /\ caps.manual = h.fans.manual
    BY DEF capabilities
  <1> QED BY <1>5, <1>7, <1>8, <1>9 DEF AnnouncedIsAccepted, h

\* A machine stays one while drivers come, go and get other numbers.
LEMMA MachineStaysOne ==
  ASSUME system \in Machine, [DiscoveryNext]_system
  PROVE  system' \in Machine
  <1>1. CASE Reload
    <2>1. PICK p \in Permutation : system' = Renumbered(system, p)
      BY <1>1 DEF Reload
    <2>2. [n \in Numbers |-> system.hwmon[p[n]]] \in [Numbers -> Chips \cup {NoDevice}]
      BY DEF Machine, Permutation
    <2> QED BY <2>1, <2>2 DEF Renumbered, Machine
  <1>2. CASE Rebind
    BY <1>2 DEF Rebind, Machine
  <1> QED BY <1>1, <1>2 DEF DiscoveryNext

-------------------------------------------------------------------------------
(* What the module promises.                                                     *)

\* Which hwmon device discover drives the fans through does not depend on the
\* numbers that the kernel gave its devices, through every reload of a driver and
\* every device that comes or goes.
THEOREM WriterIsTheDevice == DiscoverySpec => []WriterIsNoAccident
  <1>1. DiscoveryInit => system \in Machine
    BY DEF DiscoveryInit
  <1>2. system \in Machine /\ [DiscoveryNext]_system => (system \in Machine)'
    BY MachineStaysOne
  <1>3. system \in Machine => WriterIsNoAccident
    BY FoundGoesAlong DEF WriterIsNoAccident
  <1> QED BY <1>1, <1>2, <1>3, PTL DEF DiscoverySpec

\* What capabilities announces of a machine's fans and profiles is what the checks
\* before the first write accept, and every fan that can be set can be read back.
THEOREM AnnouncedWorks == DiscoverySpec => []AnnouncedIsAccepted
  <1>1. DiscoveryInit => system \in Machine
    BY DEF DiscoveryInit
  <1>2. system \in Machine /\ [DiscoveryNext]_system => (system \in Machine)'
    BY MachineStaysOne
  <1>3. system \in Machine => AnnouncedIsAccepted
    BY AnnouncedPassesTheChecks
  <1> QED BY <1>1, <1>2, <1>3, PTL DEF DiscoverySpec

-------------------------------------------------------------------------------
(* A platform setting: SettingIInv is inductive.                                 *)

\* What a stage puts into the mailbox.
LEMMA StagesCommand ==
  ASSUME NEW e, NEW s \in Stores(e)
  PROVE  /\ Command(s).attr = s.attr /\ s.attr \in Attributes
         /\ Command(s).act \in {"get", "set", "gate"} /\ Command(s).value \in Values
         /\ s.stage \in {"show", "previous", "actual", "undoCheck"} => Command(s).act = "get"
         /\ s.stage \in {"write", "undo"} => Command(s).act = "set"
         /\ s.stage \in {"gate", "undoGate"} => Command(s).act = "gate"
         /\ s.stage \in {"write", "gate"} => Command(s).value = s.value
         /\ s.stage \in {"undo", "undoGate"} => Command(s).value = s.prev
  BY DEF Command, Stores, Stages, Ended

\* A setting belongs to one device, and the logo's gate to the logo's.
LEMMA SettingsApart ==
  /\ \A a \in Attributes : Endpoint(a) \in Endpoints /\ a # "gate"
  /\ \A a \in Attributes : Gated(a) => a = "rear_logo" /\ ~Direct(a) /\ ~Checked(a)
  /\ NoEndpoint \notin Endpoints
  BY DEF Attributes, Endpoint, Endpoints, Gated, Direct, Checked, NoEndpoint

\* The firmware executes a command: what it sets is set, and nothing else.
LEMMA ExecutedSets ==
  ASSUME SettingTypeOK, NEW c, c.attr \in Attributes, c.value \in Values,
         c.act \in {"get", "set", "gate"}
  PROVE  /\ Executed(c) \in [Attributes \cup {"gate"} -> Values]
         /\ c.act = "get" => Executed(c) = firmware
         /\ c.act = "set" => Executed(c)[c.attr] = c.value
         /\ c.act = "gate" => Executed(c)["gate"] = c.value
         /\ \A x \in Attributes : x # c.attr \/ c.act # "set" => Executed(c)[x] = firmware[x]
         /\ c.act # "gate" => Executed(c)["gate"] = firmware["gate"]
  <1>1. CASE c.act = "get"
    BY <1>1 DEF Executed, SettingTypeOK
  <1>2. CASE c.act = "set"
    <2>1. Executed(c) = [firmware EXCEPT ![c.attr] = c.value]
      BY <1>2 DEF Executed
    <2> QED BY <1>2, <2>1, SettingsApart DEF SettingTypeOK
  <1>3. CASE c.act = "gate"
    <2>1. Executed(c) = [firmware EXCEPT !["gate"] = c.value]
      BY <1>3 DEF Executed
    <2> QED BY <1>3, <2>1, SettingsApart DEF SettingTypeOK
  <1> QED BY <1>1, <1>2, <1>3

\* A store that goes to another stage gives up its place and keeps the rest.
LEMMA StageMoves ==
  ASSUME NEW e, NEW s \in Stores(e), NEW g \in Stages \cup Ended
  PROVE  /\ At(s, g) \in Stores(e) /\ At(s, g).stage = g /\ At(s, g).placed = FALSE
         /\ At(s, g).attr = s.attr /\ At(s, g).value = s.value /\ At(s, g).prev = s.prev
         /\ At(s, g).doubt = s.doubt /\ At(s, g).before = s.before /\ At(s, g).level = s.level
  BY DEF At, Stores

\* What a store has become after a call that went well and returned v.
Advanced(s, t, v) ==
  /\ t.placed = FALSE
  /\ t.attr = s.attr /\ t.doubt = s.doubt /\ t.before = s.before /\ t.level = s.level
  /\ s.stage # "show" => t.value = s.value
  /\ s.stage # "previous" => t.prev = s.prev
  /\ s.stage = "show" => t.stage = "done" /\ t.value = v
  /\ s.stage = "previous" =>
       /\ t.prev = v
       /\ \/ t.stage = "done" /\ v = s.value /\ Direct(s.attr)
          \/ t.stage = "actual" /\ v = s.value /\ Checked(s.attr)
          \/ t.stage = "write"
  /\ s.stage = "write" => t.stage = IF Gated(s.attr) THEN "gate" ELSE "actual"
  /\ s.stage = "gate" => t.stage = "actual"
  /\ s.stage = "actual" => t.stage = IF v = s.value THEN "done" ELSE "undo"
  /\ s.stage = "undo" => t.stage = IF Gated(s.attr) THEN "undoGate" ELSE "undoCheck"
  /\ s.stage = "undoGate" => t.stage = "undoCheck"
  /\ s.stage = "undoCheck" => t.stage = "failed"

\* The stage after a call that went well.
LEMMA StageSucceeds ==
  ASSUME NEW e, NEW s \in Stores(e), s.stage \in Stages, NEW v \in Values
  PROVE  Succeed(s, v) \in Stores(e) /\ Advanced(s, Succeed(s, v), v)
  <1>1. CASE s.stage = "show"
    <2>1. [s EXCEPT !.value = v] \in Stores(e)
      BY DEF Stores
    <2>2. Succeed(s, v) = At([s EXCEPT !.value = v], "done")
      BY <1>1 DEF Succeed
    <2> QED BY <1>1, <2>1, <2>2 DEF At, Stores, Ended, Advanced
  <1>2. CASE s.stage = "previous"
    <2> DEFINE u == [s EXCEPT !.prev = v]
               g == IF v = s.value /\ Direct(s.attr) THEN "done"
                    ELSE IF v = s.value /\ Checked(s.attr) THEN "actual" ELSE "write"
    <2>1. /\ u \in Stores(e) /\ u.prev = v
          /\ u.attr = s.attr /\ u.doubt = s.doubt /\ u.before = s.before /\ u.level = s.level
          /\ u.value = s.value
      BY DEF Stores
    <2>2. Succeed(s, v) = At(u, g)
      BY <1>2 DEF Succeed
    <2>3. g \in Stages \cup Ended
      BY DEF Stages, Ended
    <2>4. \/ g = "done" /\ v = s.value /\ Direct(s.attr)
          \/ g = "actual" /\ v = s.value /\ Checked(s.attr)
          \/ g = "write"
      OBVIOUS
    <2> HIDE DEF u, g
    <2>5. LET t == At(u, g)
          IN /\ t \in Stores(e) /\ t.stage = g /\ t.placed = FALSE
             /\ t.attr = u.attr /\ t.value = u.value /\ t.prev = u.prev
             /\ t.doubt = u.doubt /\ t.before = u.before /\ t.level = u.level
      BY <2>1, <2>3, StageMoves
    <2>6. Advanced(s, At(u, g), v)
      BY <1>2, <2>1, <2>4, <2>5 DEF Advanced
    <2> QED BY <2>2, <2>5, <2>6
  <1>3. CASE s.stage \in {"write", "gate", "actual", "undo", "undoGate", "undoCheck"}
    <2> DEFINE g == CASE s.stage = "write" -> IF Gated(s.attr) THEN "gate" ELSE "actual"
                      [] s.stage = "gate" -> "actual"
                      [] s.stage = "actual" -> IF v = s.value THEN "done" ELSE "undo"
                      [] s.stage = "undo" -> IF Gated(s.attr) THEN "undoGate" ELSE "undoCheck"
                      [] s.stage = "undoGate" -> "undoCheck"
                      [] OTHER -> "failed"
    <2>1. /\ s.stage = "write" => g = IF Gated(s.attr) THEN "gate" ELSE "actual"
          /\ s.stage = "gate" => g = "actual"
          /\ s.stage = "actual" => g = IF v = s.value THEN "done" ELSE "undo"
          /\ s.stage = "undo" => g = IF Gated(s.attr) THEN "undoGate" ELSE "undoCheck"
          /\ s.stage = "undoGate" => g = "undoCheck"
          /\ s.stage = "undoCheck" => g = "failed"
      OBVIOUS
    <2>2. Succeed(s, v) = At(s, g)
      BY <1>3 DEF Succeed, Fail
    <2>3. g \in Stages \cup Ended
      BY DEF Stages, Ended
    <2> HIDE DEF g
    <2>4. LET t == At(s, g)
          IN /\ t \in Stores(e) /\ t.stage = g /\ t.placed = FALSE
             /\ t.attr = s.attr /\ t.value = s.value /\ t.prev = s.prev
             /\ t.doubt = s.doubt /\ t.before = s.before /\ t.level = s.level
      BY <2>3, StageMoves
    <2>5. Advanced(s, At(s, g), v)
      BY <1>3, <2>1, <2>4 DEF Advanced
    <2> QED BY <2>2, <2>4, <2>5
  <1> QED BY <1>1, <1>2, <1>3 DEF Stages

\* What a store has become after a call that failed.
Fallen(s, t) ==
  /\ t.placed = FALSE
  /\ t.attr = s.attr /\ t.value = s.value /\ t.prev = s.prev /\ t.doubt = s.doubt
  /\ t.before = s.before /\ t.level = s.level
  /\ t.stage = IF s.stage \in {"write", "gate", "actual"} THEN "undo" ELSE "failed"

\* The stage after a call that failed.
LEMMA StageFails ==
  ASSUME NEW e, NEW s \in Stores(e)
  PROVE  Fail(s) \in Stores(e) /\ Fallen(s, Fail(s))
  <1> DEFINE g == IF s.stage \in {"write", "gate", "actual"} THEN "undo" ELSE "failed"
  <1>1. g \in Stages \cup Ended
    BY DEF Stages, Ended
  <1>2. Fail(s) = At(s, g)
    BY DEF Fail
  <1> HIDE DEF g
  <1>3. LET t == At(s, g)
        IN /\ t \in Stores(e) /\ t.stage = g /\ t.placed = FALSE
           /\ t.attr = s.attr /\ t.value = s.value /\ t.prev = s.prev /\ t.doubt = s.doubt
           /\ t.before = s.before /\ t.level = s.level
    BY <1>1, StageMoves
  <1> QED BY <1>2, <1>3 DEF g, Fallen

\* What a firmware call leaves behind: of the store that called, one of three
\* outcomes, and of the firmware, what the command sets or nothing.
Outcome(e) ==
  LET s == store[e]
      c == Command(s)
      d == [s EXCEPT !.doubt = @ + 1]
  IN \/ /\ firmware' = Executed(c)
        /\ store'[e] = Succeed(s, firmware[s.attr])
        /\ troubles' = troubles
     \/ /\ troubles < SettingTrouble /\ troubles' = troubles + 1
        /\ firmware' = firmware \/ firmware' = Executed(c)
        /\ store'[e] = Fail(d)
     \/ /\ troubles < SettingTrouble /\ troubles' = troubles + 1
        /\ c.act # "get" /\ firmware' = firmware
        /\ store'[e] = Succeed(d, firmware[s.attr])

\* A call that is carried out is that of its holder, and has one of the outcomes.
LEMMA RunHasAnOutcome ==
  ASSUME SettingIInv, NEW e \in Endpoints, Run(e)
  PROVE  /\ store[e] \in Stores(e) /\ store[e].stage \in Stages /\ SoFar(store[e])
         /\ Outcome(e)
         /\ DOMAIN store' = Endpoints
         /\ \A f \in Endpoints : f # e => store'[f] = store[f]
         /\ mail'.holder = NoEndpoint /\ mail'.command = mail.command
         /\ mail' \in [holder : Endpoints \cup {NoEndpoint},
                       command : [attr : Attributes, act : {"get", "set", "gate"},
                                  value : Values]]
         /\ mail.holder = e /\ setter' = setter
  <1> DEFINE s == store[e]
             d == [s EXCEPT !.doubt = @ + 1]
  <1>1. s.stage \notin Ended \cup {"none"} /\ s.placed
    BY DEF Run, Calling
  <1>2. s \in Stores(e) /\ s # NoStore
    BY <1>1 DEF SettingIInv, SettingTypeOK, NoStore
  <1>3. s.stage \in Stages
    BY <1>1, <1>2 DEF Stores
  <1>4. mail.holder = e /\ mail.command = Command(s)
    BY <1>1 DEF SettingIInv, MailIsMine, Calling
  <1>5. Command(s).attr = s.attr
    BY <1>2, StagesCommand
  <1>6. DOMAIN store = Endpoints
    BY DEF SettingIInv, SettingTypeOK
  <1>7. \E t : store' = [store EXCEPT ![e] = t]
    BY DEF Run
  <1>8. DOMAIN store' = Endpoints /\ \A f \in Endpoints : f # e => store'[f] = store[f]
    BY <1>6, <1>7
  <1>9. /\ mail'.holder = NoEndpoint /\ mail'.command = mail.command
        /\ mail' \in [holder : Endpoints \cup {NoEndpoint},
                      command : [attr : Attributes, act : {"get", "set", "gate"},
                                 value : Values]]
    BY DEF Run, SettingIInv, SettingTypeOK
  <1>10. Outcome(e)
    <2>1. CASE /\ firmware' = Executed(Command(s))
               /\ store' = [store EXCEPT ![e] = Succeed(s, firmware[s.attr])]
               /\ UNCHANGED troubles
      BY <1>6, <2>1 DEF Outcome
    <2>2. CASE /\ troubles < SettingTrouble /\ troubles' = troubles + 1
               /\ firmware' \in {firmware, Executed(Command(s))}
               /\ store' = [store EXCEPT ![e] = Fail(d)]
      BY <1>6, <2>2 DEF Outcome
    <2>3. CASE /\ troubles < SettingTrouble /\ troubles' = troubles + 1
               /\ Command(s).act # "get" /\ firmware' = firmware
               /\ store' = [store EXCEPT ![e] = Succeed(d, firmware[s.attr])]
      BY <1>6, <2>3 DEF Outcome
    <2> QED BY <1>4, <1>5, <2>1, <2>2, <2>3 DEF Run
  <1>11. SoFar(s) /\ setter' = setter
    BY <1>2 DEF SettingIInv, Run
  <1> QED BY <1>2, <1>3, <1>4, <1>8, <1>9, <1>10, <1>11

\* A call changes the setting of its own store at most, and only a call for the
\* gate changes the gate.
LEMMA RunTouchesItsOwn ==
  ASSUME SettingIInv, NEW e \in Endpoints, Run(e)
  PROVE  LET s == store[e]
         IN /\ firmware' \in [Attributes \cup {"gate"} -> Values]
            /\ troubles' \in 0 .. SettingTrouble
            /\ \A x \in Attributes : x # s.attr \/ s.stage \notin {"write", "undo"} =>
                 firmware'[x] = firmware[x]
            /\ s.stage \notin {"gate", "undoGate"} => firmware'["gate"] = firmware["gate"]
  <1> DEFINE s == store[e]
             c == Command(s)
  <1>1. s \in Stores(e) /\ s.stage \in Stages /\ Outcome(e) /\ SettingTypeOK
    BY RunHasAnOutcome DEF SettingIInv
  <1>2. /\ c.attr = s.attr /\ s.attr \in Attributes
        /\ c.act \in {"get", "set", "gate"} /\ c.value \in Values
        /\ s.stage \notin {"write", "undo"} => c.act # "set"
        /\ s.stage \notin {"gate", "undoGate"} => c.act # "gate"
    BY <1>1, StagesCommand DEF Stages
  <1>3. firmware' = firmware \/ firmware' = Executed(c)
    BY <1>1 DEF Outcome
  <1>4. troubles' \in 0 .. SettingTrouble
    BY <1>1, SettingAssumption DEF Outcome, SettingTypeOK
  <1> HIDE DEF c
  <1>5. /\ Executed(c) \in [Attributes \cup {"gate"} -> Values]
        /\ \A x \in Attributes : x # c.attr \/ c.act # "set" => Executed(c)[x] = firmware[x]
        /\ c.act # "gate" => Executed(c)["gate"] = firmware["gate"]
    BY <1>1, <1>2, ExecutedSets
  <1> QED BY <1>1, <1>2, <1>3, <1>4, <1>5 DEF SettingTypeOK

\* The three outcomes of a call, in terms of the setting before and after it and of
\* the gate after it.
Moved(s, t, was, is, gate) ==
  LET well == t.doubt = s.doubt
  IN /\ t.placed = FALSE
     /\ t.attr = s.attr /\ t.before = s.before /\ t.level = s.level
     /\ t.doubt = s.doubt \/ t.doubt = s.doubt + 1
     /\ s.stage # "show" => t.value = s.value
     /\ s.stage # "previous" => t.prev = s.prev
     /\ s.stage = "show" =>
          \/ well /\ t.stage = "done" /\ t.value = was
          \/ t.stage = "failed"
     /\ s.stage = "previous" =>
          \/ /\ well /\ t.prev = was
             /\ \/ t.stage = "done" /\ t.prev = s.value /\ Direct(s.attr)
                \/ t.stage = "actual" /\ t.prev = s.value /\ Checked(s.attr)
                \/ t.stage = "write"
          \/ ~well /\ t.stage = "failed"
     /\ s.stage = "write" =>
          \/ /\ well => is = s.value
             /\ t.stage = IF Gated(s.attr) THEN "gate" ELSE "actual"
          \/ ~well /\ t.stage = "undo"
     /\ s.stage = "gate" =>
          \/ /\ well => gate = s.value
             /\ t.stage = "actual"
          \/ ~well /\ t.stage = "undo"
     /\ s.stage = "actual" =>
          \/ well /\ t.stage = IF was = s.value THEN "done" ELSE "undo"
          \/ ~well /\ t.stage = "undo"
     /\ s.stage = "undo" =>
          \/ /\ well => is = s.prev
             /\ t.stage = IF Gated(s.attr) THEN "undoGate" ELSE "undoCheck"
          \/ ~well /\ t.stage = "failed"
     /\ s.stage = "undoGate" =>
          \/ /\ well => gate = s.prev
             /\ t.stage = "undoCheck"
          \/ ~well /\ t.stage = "failed"
     /\ s.stage = "undoCheck" => t.stage = "failed"

\* What such a call makes of its store, and of what the firmware holds.
LEMMA RunMovesTheStore ==
  ASSUME SettingIInv, NEW e \in Endpoints, Run(e)
  PROVE  /\ store'[e] \in Stores(e) /\ store'[e] # NoStore
         /\ Moved(store[e], store'[e], firmware[store[e].attr], firmware'[store[e].attr],
                  firmware'["gate"])
  <1> DEFINE s == store[e]
             t == store'[e]
             c == Command(s)
             v == firmware[s.attr]
             d == [s EXCEPT !.doubt = @ + 1]
  <1>1. s \in Stores(e) /\ s.stage \in Stages /\ Outcome(e) /\ SettingTypeOK
    BY RunHasAnOutcome DEF SettingIInv
  <1>2. /\ c.attr = s.attr /\ s.attr \in Attributes
        /\ c.act \in {"get", "set", "gate"} /\ c.value \in Values
        /\ s.stage \in {"show", "previous", "actual", "undoCheck"} => c.act = "get"
        /\ s.stage \in {"write", "undo"} => c.act = "set"
        /\ s.stage \in {"gate", "undoGate"} => c.act = "gate"
        /\ s.stage \in {"write", "gate"} => c.value = s.value
        /\ s.stage \in {"undo", "undoGate"} => c.value = s.prev
    BY <1>1, StagesCommand
  <1>3. /\ d \in Stores(e) /\ d.stage = s.stage /\ d.doubt = s.doubt + 1 /\ d.attr = s.attr
        /\ d.value = s.value /\ d.prev = s.prev /\ d.before = s.before /\ d.level = s.level
        /\ s.doubt \in Nat /\ v \in Values
    BY <1>1, <1>2 DEF Stores, SettingTypeOK
  <1>4. \A u : u \in Stores(e) => u # NoStore
    BY DEF Stores, NoStore, Stages, Ended
  <1>5. /\ c.act = "set" => Executed(c)[s.attr] = c.value
        /\ c.act = "gate" => Executed(c)["gate"] = c.value
    BY <1>1, <1>2, ExecutedSets
  <1>6. \/ firmware' = Executed(c) /\ t = Succeed(s, v)
        \/ t = Fail(d)
        \/ c.act # "get" /\ t = Succeed(d, v)
    BY <1>1 DEF Outcome
  <1> DEFINE is == firmware'[s.attr]
             gate == firmware'["gate"]
  <1>7. ASSUME firmware' = Executed(c), t = Succeed(s, v)
        PROVE  t \in Stores(e) /\ Moved(s, t, v, is, gate)
    <2>1. t \in Stores(e) /\ Advanced(s, t, v)
      BY <1>1, <1>3, <1>7, StageSucceeds
    <2>2. /\ s.stage \in {"write", "undo"} => is = c.value
          /\ s.stage \in {"gate", "undoGate"} => gate = c.value
      BY <1>2, <1>5, <1>7
    <2> HIDE DEF c, d, v, s, t, is, gate
    <2> QED BY <1>1, <1>2, <1>3, <2>1, <2>2 DEF Advanced, Moved, Stages
  <1>8. ASSUME t = Fail(d)
        PROVE  t \in Stores(e) /\ Moved(s, t, v, is, gate)
    <2>1. t \in Stores(e) /\ Fallen(d, t)
      BY <1>3, <1>8, StageFails
    <2> HIDE DEF c, d, v, s, t, is, gate
    <2> QED BY <1>1, <1>3, <2>1 DEF Fallen, Moved, Stages
  <1>9. ASSUME c.act # "get", t = Succeed(d, v)
        PROVE  t \in Stores(e) /\ Moved(s, t, v, is, gate)
    <2>1. t \in Stores(e) /\ Advanced(d, t, v)
      BY <1>1, <1>3, <1>9, StageSucceeds
    <2> HIDE DEF c, d, v, s, t, is, gate
    <2> QED BY <1>1, <1>2, <1>3, <1>9, <2>1 DEF Advanced, Moved, Stages
  <1> QED BY <1>4, <1>6, <1>7, <1>8, <1>9

\* A firmware call leaves the store that called where SoFar says, and ends it whole.
LEMMA RunIsWhole ==
  ASSUME SettingIInv, NEW e \in Endpoints, Run(e)
  PROVE  SoFar(store[e])' /\ StoreEnds(e)
  <1> DEFINE s == store[e]
             t == store'[e]
             was == firmware[s.attr]
             is == firmware'[s.attr]
             had == firmware["gate"]
             gate == firmware'["gate"]
  <1>1. s \in Stores(e) /\ s.stage \in Stages /\ SoFar(s)
    BY RunHasAnOutcome
  <1>2. t \in Stores(e) /\ Moved(s, t, was, is, gate)
    BY RunMovesTheStore
  <1>3. /\ s.stage \notin {"write", "undo"} => is = was
        /\ s.stage \notin {"gate", "undoGate"} => gate = had
    BY <1>1, RunTouchesItsOwn DEF Stores
  <1>4. /\ s.doubt \in Nat /\ t.doubt \in Nat /\ s.attr \in Attributes
        /\ t.attr = s.attr
    BY <1>1, <1>2 DEF Stores, Moved
  <1>5. Gated(s.attr) => ~Direct(s.attr) /\ ~Checked(s.attr)
    BY <1>4, SettingsApart
  <1>6. /\ s.stage \in {"gate", "undoGate"} => Gated(s.attr)
        /\ s.stage \in {"previous", "write"} =>
             /\ s.doubt = 0 /\ was = s.before
             /\ Gated(s.attr) /\ s.level => had = s.before
        /\ s.stage \in {"write", "gate", "actual", "undo", "undoGate", "undoCheck"} =>
             s.prev = s.before
        /\ s.stage \in {"gate", "actual"} /\ s.doubt = 0 => was = s.value
        /\ s.stage = "actual" /\ s.doubt = 0 /\ Gated(s.attr) => had = s.value
        /\ s.stage \in {"undo", "undoGate", "undoCheck"} => s.doubt > 0
        /\ s.stage \in {"undoGate", "undoCheck"} /\ s.doubt = 1 => was = s.before
        /\ s.stage = "undoCheck" /\ s.doubt = 1 /\ Gated(s.attr) => had = s.before
    BY <1>1 DEF SoFar
  <1> DEFINE Reached ==
        /\ t.stage \in {"gate", "undoGate"} => Gated(t.attr)
        /\ t.stage \in {"previous", "write"} =>
             /\ t.doubt = 0 /\ is = t.before
             /\ Gated(t.attr) /\ t.level => gate = t.before
        /\ t.stage \in {"write", "gate", "actual", "undo", "undoGate", "undoCheck"} =>
             t.prev = t.before
        /\ t.stage \in {"gate", "actual"} /\ t.doubt = 0 => is = t.value
        /\ t.stage = "actual" /\ t.doubt = 0 /\ Gated(t.attr) => gate = t.value
        /\ t.stage \in {"undo", "undoGate", "undoCheck"} => t.doubt > 0
        /\ t.stage \in {"undoGate", "undoCheck"} /\ t.doubt = 1 => is = t.before
        /\ t.stage = "undoCheck" /\ t.doubt = 1 /\ Gated(t.attr) => gate = t.before
             Ends ==
        s.stage # "show" /\ t.stage \in Ended =>
          /\ t.stage = "done" /\ t.doubt = 0 => is = s.value /\ (Gated(s.attr) => gate = s.value)
          /\ t.stage = "failed" => t.doubt > 0
          /\ t.stage = "failed" /\ t.doubt = 1 =>
               is = s.before /\ (Gated(s.attr) /\ s.level => gate = s.before)
  <1>7. Reached /\ Ends
    <2> HIDE DEF s, t, was, is, had, gate
    <2>1. CASE s.stage = "show"
      BY <1>2, <1>4, <2>1 DEF Moved
    <2>2. CASE s.stage = "previous"
      BY <1>2, <1>3, <1>4, <1>5, <1>6, <2>2 DEF Moved, Ended
    <2>3. CASE s.stage = "write"
      BY <1>2, <1>3, <1>4, <1>5, <1>6, <2>3 DEF Moved, Ended
    <2>4. CASE s.stage = "gate"
      BY <1>2, <1>3, <1>4, <1>5, <1>6, <2>4 DEF Moved, Ended
    <2>5. CASE s.stage = "actual"
      BY <1>2, <1>3, <1>4, <1>5, <1>6, <2>5 DEF Moved, Ended
    <2>6. CASE s.stage = "undo"
      BY <1>2, <1>3, <1>4, <1>5, <1>6, <2>6 DEF Moved, Ended
    <2>7. CASE s.stage = "undoGate"
      BY <1>2, <1>3, <1>4, <1>5, <1>6, <2>7 DEF Moved, Ended
    <2>8. CASE s.stage = "undoCheck"
      BY <1>2, <1>3, <1>4, <1>5, <1>6, <2>8 DEF Moved, Ended
    <2> QED BY <1>1, <2>1, <2>2, <2>3, <2>4, <2>5, <2>6, <2>7, <2>8 DEF Stages
  <1>8. SoFar(store[e])'
    BY <1>4, <1>7 DEF SoFar
  <1>9. StoreEnds(e)
    BY <1>7 DEF StoreEnds
  <1> QED BY <1>8, <1>9

\* It disturbs no store of another device.
LEMMA RunSparesTheOthers ==
  ASSUME SettingIInv, NEW e \in Endpoints, Run(e),
         NEW f \in Endpoints, f # e, store[f] # NoStore
  PROVE  SoFar(store[f])'
  <1>1. /\ store[e] \in Stores(e) /\ SoFar(store[e]) /\ store'[f] = store[f]
        /\ store[f] \in Stores(f) /\ SoFar(store[f])
    BY RunHasAnOutcome DEF SettingIInv, SettingTypeOK
  <1>2. /\ store[e].attr \in Attributes /\ Endpoint(store[e].attr) = e
        /\ store[f].attr \in Attributes /\ Endpoint(store[f].attr) = f
    BY <1>1 DEF Stores
  <1>3. firmware'[store[f].attr] = firmware[store[f].attr]
    BY <1>2, RunTouchesItsOwn
  <1>4. Gated(store[f].attr) => firmware'["gate"] = firmware["gate"]
    <2>1. SUFFICES ASSUME Gated(store[f].attr) PROVE firmware'["gate"] = firmware["gate"]
      OBVIOUS
    <2>2. ~Gated(store[e].attr)
      BY <1>2, <2>1, SettingsApart
    <2>3. store[e].stage \notin {"gate", "undoGate"}
      BY <1>1, <2>2 DEF SoFar
    <2> QED BY <2>3, RunTouchesItsOwn
  <1> QED BY <1>1, <1>3, <1>4 DEF SoFar

\* A firmware call keeps the invariant.
LEMMA RunKeeps ==
  ASSUME SettingIInv, NEW e \in Endpoints, Run(e)
  PROVE  SettingIInv'
  <1>1. /\ store[e] \in Stores(e) /\ store[e].stage \in Stages /\ DOMAIN store' = Endpoints
        /\ \A f \in Endpoints : f # e => store'[f] = store[f]
        /\ mail'.holder = NoEndpoint /\ mail'.command = mail.command /\ mail.holder = e
        /\ mail' \in [holder : Endpoints \cup {NoEndpoint},
                      command : [attr : Attributes, act : {"get", "set", "gate"},
                                 value : Values]]
        /\ setter' = setter
    BY RunHasAnOutcome
  <1>2. /\ store'[e] \in Stores(e) /\ store'[e] # NoStore /\ store'[e].placed = FALSE
        /\ store'[e].attr = store[e].attr
        /\ store[e].stage = "show" =>
             /\ store'[e].stage \in Ended
             /\ store'[e].stage = "done" => store'[e].value = firmware[store[e].attr]
    BY RunMovesTheStore DEF Moved, Ended
  <1>3. SettingTypeOK'
    <2>1. firmware' \in [Attributes \cup {"gate"} -> Values] /\ troubles' \in 0 .. SettingTrouble
      BY RunTouchesItsOwn
    <2>2. \A f \in Endpoints : store'[f] = NoStore \/ store'[f] \in Stores(f)
      BY <1>1, <1>2 DEF SettingIInv, SettingTypeOK
    <2> QED BY <1>1, <2>1, <2>2 DEF SettingIInv, SettingTypeOK
  <1>4. MailIsMine'
    <2>1. ASSUME NEW f \in Endpoints
          PROVE  ~(Calling(f)' /\ store'[f].placed)
      BY <1>1, <1>2, <2>1 DEF SettingIInv, MailIsMine, Calling
    <2> QED BY <1>1, <2>1, SettingsApart DEF MailIsMine
  <1>5. ASSUME NEW f \in Endpoints, store'[f] # NoStore
        PROVE  SoFar(store[f])'
    BY <1>1, <1>5, RunIsWhole, RunSparesTheOthers
  <1>6. ReadbackIsTrue'
    <2> SUFFICES ASSUME setter # NoSetter
                 PROVE  LET s == store'[Endpoint(setter.attr)]
                        IN /\ setter.phase \in {"told", "error"} => s = NoStore
                           /\ setter.phase = "readback" /\ s # NoStore =>
                                /\ s.attr = setter.attr /\ s.stage \in {"show"} \cup Ended
                                /\ s.stage = "done" => s.value = firmware'[s.attr]
      BY <1>1 DEF ReadbackIsTrue
    <2> DEFINE f == Endpoint(setter.attr)
    <2>1. setter.attr \in Attributes /\ f \in Endpoints
      BY SettingsApart DEF SettingIInv, SettingTypeOK, Setters
    <2>2. /\ setter.phase \in {"told", "error"} => store[f] = NoStore
          /\ setter.phase = "readback" /\ store[f] # NoStore =>
               /\ store[f].attr = setter.attr /\ store[f].stage \in {"show"} \cup Ended
               /\ store[f].stage = "done" => store[f].value = firmware[store[f].attr]
      BY DEF SettingIInv, ReadbackIsTrue
    <2>3. store[e] # NoStore /\ store[e].stage \notin Ended
      BY <1>1 DEF Stages, Ended, NoStore, Stores
    <2>4. CASE f = e
      <3>1. CASE setter.phase = "readback"
        <4>1. store[e].stage = "show" /\ store[e].attr = setter.attr
          BY <2>2, <2>3, <2>4, <3>1
        <4>2. firmware'[setter.attr] = firmware[setter.attr]
          BY <2>1, <4>1, RunTouchesItsOwn
        <4> QED BY <1>2, <2>4, <3>1, <4>1, <4>2
      <3> QED BY <2>2, <2>3, <2>4, <3>1
    <2>5. CASE f # e
      <3>1. firmware'[setter.attr] = firmware[setter.attr]
        BY <1>1, <2>1, <2>5, RunTouchesItsOwn DEF Stores
      <3> QED BY <1>1, <2>1, <2>2, <2>5, <3>1
    <2> QED BY <2>4, <2>5
  <1> QED BY <1>3, <1>4, <1>5, <1>6 DEF SettingIInv

\* A store that begins holds no place in the mailbox and knows what was there.
LEMMA EnterBegins ==
  ASSUME NEW a \in Attributes, NEW v \in Values, NEW stage \in {"previous", "show"},
         SettingTypeOK
  PROVE  /\ Enter(a, v, stage) \in Stores(Endpoint(a)) /\ Enter(a, v, stage) # NoStore
         /\ Enter(a, v, stage).stage = stage /\ Enter(a, v, stage).attr = a
         /\ Enter(a, v, stage).placed = FALSE /\ SoFar(Enter(a, v, stage))
  <1> DEFINE s == Enter(a, v, stage)
  <1>1. /\ s.stage = stage /\ s.attr = a /\ s.placed = FALSE /\ s.doubt = 0
        /\ s.before = firmware[a] /\ s.level = (firmware.gate = firmware.rear_logo)
    BY DEF Enter
  <1>2. firmware[a] \in Values /\ (firmware.gate = firmware.rear_logo) \in BOOLEAN
    BY DEF SettingTypeOK
  <1>3. s \in Stores(Endpoint(a))
    BY <1>2 DEF Enter, Stores, Stages
  <1>4. s # NoStore
    BY <1>1 DEF NoStore
  <1> HIDE DEF s
  <1>5. SoFar(s)
    BY <1>1, SettingsApart DEF SoFar
  <1> QED BY <1>1, <1>3, <1>4, <1>5 DEF s

\* A store begins on a free device; it is the reading of the setter, or not on the
\* device that the setter reads.
Begins(a, v, stage) ==
  /\ store[Endpoint(a)] = NoStore
  /\ store' = [store EXCEPT ![Endpoint(a)] = Enter(a, v, stage)]
  /\ firmware' = firmware /\ mail' = mail /\ troubles' = troubles
  /\ \/ setter' = NoSetter
     \/ /\ setter' \in Setters
        /\ \/ setter'.phase = "store"
           \/ setter' = setter /\ Endpoint(setter.attr) # Endpoint(a)
           \/ setter'.phase = "readback" /\ setter'.attr = a /\ stage = "show"

\* A store or a read that begins keeps the invariant.
LEMMA BeginningKeeps ==
  ASSUME SettingIInv, NEW a \in Attributes, NEW v \in Values,
         NEW stage \in {"previous", "show"}, Begins(a, v, stage)
  PROVE  SettingIInv'
  <1> DEFINE e == Endpoint(a)
             new == Enter(a, v, stage)
  <1>1. /\ new \in Stores(e) /\ new # NoStore /\ new.stage = stage /\ new.attr = a
        /\ new.placed = FALSE /\ SoFar(new)
    <2>1. SettingTypeOK
      BY DEF SettingIInv
    <2>2. new.stage = stage /\ new.attr = a /\ new.placed = FALSE
      BY DEF Enter
    <2>3. new \in Stores(e) /\ new # NoStore
      BY <2>1, EnterBegins
    <2>4. SoFar(new)
      BY <2>1, EnterBegins
    <2> QED BY <2>2, <2>3, <2>4
  <1>2. /\ e \in Endpoints /\ DOMAIN store' = Endpoints /\ store'[e] = new
        /\ \A f \in Endpoints : f # e => store'[f] = store[f]
        /\ firmware' = firmware /\ mail' = mail /\ troubles' = troubles
        /\ store[e] = NoStore
    BY SettingsApart DEF SettingIInv, SettingTypeOK, Begins
  <1>3. \/ setter' = NoSetter
        \/ /\ setter' \in Setters
           /\ \/ setter'.phase = "store"
              \/ setter' = setter /\ Endpoint(setter.attr) # e
              \/ setter'.phase = "readback" /\ setter'.attr = a /\ stage = "show"
    BY DEF Begins
  <1> HIDE DEF new, e
  <1>4. SettingTypeOK'
    <2>1. \A f \in Endpoints : store'[f] = NoStore \/ store'[f] \in Stores(f)
      BY <1>1, <1>2 DEF SettingIInv, SettingTypeOK
    <2> QED BY <1>2, <1>3, <2>1 DEF SettingIInv, SettingTypeOK
  <1>5. MailIsMine'
    <2>1. mail.holder # e
      <3>1. ~Calling(e)
        BY <1>2 DEF Calling, NoStore
      <3> QED BY <1>2, <3>1 DEF SettingIInv, MailIsMine
    <2>2. ASSUME NEW f \in Endpoints
          PROVE  /\ Calling(f)' /\ store'[f].placed <=> mail.holder = f
                 /\ mail.holder = f => mail.command = Command(store'[f])
      BY <1>1, <1>2, <2>1 DEF SettingIInv, MailIsMine, Calling
    <2> QED BY <1>2, <2>2 DEF MailIsMine
  <1>6. \A f \in Endpoints : store'[f] # NoStore => SoFar(store[f])'
    BY <1>1, <1>2 DEF SettingIInv, SoFar
  <1>7. ReadbackIsTrue'
    <2> SUFFICES ASSUME setter' # NoSetter
                 PROVE  LET s == store'[Endpoint(setter'.attr)]
                        IN /\ setter'.phase \in {"told", "error"} => s = NoStore
                           /\ setter'.phase = "readback" /\ s # NoStore =>
                                /\ s.attr = setter'.attr /\ s.stage \in {"show"} \cup Ended
                                /\ s.stage = "done" => s.value = firmware'[s.attr]
      BY DEF ReadbackIsTrue
    <2>1. CASE setter'.phase = "store"
      BY <2>1
    <2>2. CASE setter' = setter /\ Endpoint(setter.attr) # e
      <3>1. Endpoint(setter.attr) \in Endpoints
        BY <2>2, SettingsApart DEF SettingIInv, SettingTypeOK, Setters
      <3>2. store'[Endpoint(setter.attr)] = store[Endpoint(setter.attr)]
        BY <1>2, <2>2, <3>1
      <3> QED BY <1>2, <2>2, <3>2 DEF SettingIInv, ReadbackIsTrue
    <2>3. CASE setter'.phase = "readback" /\ setter'.attr = a /\ stage = "show"
      BY <1>1, <1>2, <2>3 DEF e
    <2> QED BY <1>3, <2>1, <2>2, <2>3
  <1> QED BY <1>4, <1>5, <1>6, <1>7 DEF SettingIInv

\* A call that is placed keeps the invariant.
LEMMA PlaceKeeps ==
  ASSUME SettingIInv, NEW e \in Endpoints, Place(e)
  PROVE  SettingIInv'
  <1> DEFINE s == store[e]
             t == [s EXCEPT !.placed = TRUE]
  <1>1. /\ s.stage \notin Ended \cup {"none"} /\ s.placed = FALSE /\ mail.holder = NoEndpoint
        /\ mail' = [holder |-> e, command |-> Command(s)]
        /\ store' = [store EXCEPT ![e].placed = TRUE]
        /\ firmware' = firmware /\ setter' = setter /\ troubles' = troubles
    <2>1. ~s.placed
      BY DEF Place
    <2>2. s \in Stores(e)
      BY DEF Place, Calling, SettingIInv, SettingTypeOK, NoStore
    <2> QED BY <2>1, <2>2 DEF Place, Calling, TransactionLock, Stores
  <1>2. s \in Stores(e) /\ s # NoStore
    BY <1>1 DEF SettingIInv, SettingTypeOK, NoStore
  <1>3. /\ t \in Stores(e) /\ t # NoStore /\ t.placed = TRUE /\ t.stage = s.stage
        /\ t.attr = s.attr /\ t.value = s.value /\ t.prev = s.prev /\ t.doubt = s.doubt
        /\ t.before = s.before /\ t.level = s.level
    <2>1. t \in Stores(e)
      BY <1>2 DEF Stores
    <2>2. \A u : u \in Stores(e) => u # NoStore
      BY DEF Stores, NoStore, Stages, Ended
    <2> QED BY <1>2, <2>1, <2>2 DEF Stores
  <1>4. /\ DOMAIN store' = Endpoints /\ store'[e] = t
        /\ \A f \in Endpoints : f # e => store'[f] = store[f]
    BY <1>1 DEF SettingIInv, SettingTypeOK
  <1>5. /\ Command(s).attr \in Attributes /\ Command(s).act \in {"get", "set", "gate"}
        /\ Command(s).value \in Values
    BY <1>2, StagesCommand
  <1>6. Command(t) = Command(s)
    BY <1>3 DEF Command
  <1>7. Command(s) = [attr |-> Command(s).attr, act |-> Command(s).act,
                      value |-> Command(s).value]
    BY DEF Command
  <1> HIDE DEF s, t
  <1>8. SettingTypeOK'
    <2>1. \A f \in Endpoints : store'[f] = NoStore \/ store'[f] \in Stores(f)
      BY <1>3, <1>4 DEF SettingIInv, SettingTypeOK
    <2>2. mail' \in [holder : Endpoints \cup {NoEndpoint},
                     command : [attr : Attributes, act : {"get", "set", "gate"},
                                value : Values]]
      BY <1>1, <1>5, <1>7
    <2> QED BY <1>1, <1>4, <2>1, <2>2 DEF SettingIInv, SettingTypeOK
  <1>9. MailIsMine'
    <2>1. ASSUME NEW f \in Endpoints
          PROVE  /\ Calling(f)' /\ store'[f].placed <=> mail'.holder = f
                 /\ mail'.holder = f => mail'.command = Command(store'[f])
      <3>1. CASE f = e
        BY <1>1, <1>3, <1>4, <1>6, <3>1 DEF Calling, s
      <3>2. CASE f # e
        <4>1. ~(Calling(f) /\ store[f].placed)
          BY <1>1, SettingsApart DEF SettingIInv, MailIsMine
        <4> QED BY <1>1, <1>4, <3>2, <4>1 DEF Calling
      <3> QED BY <3>1, <3>2
    <2> QED BY <2>1 DEF MailIsMine
  <1>10. \A f \in Endpoints : store'[f] # NoStore => SoFar(store[f])'
    BY <1>1, <1>2, <1>3, <1>4 DEF SettingIInv, SoFar, s
  <1>11. ReadbackIsTrue'
    <2> SUFFICES ASSUME setter # NoSetter
                 PROVE  LET u == store'[Endpoint(setter.attr)]
                        IN /\ setter.phase \in {"told", "error"} => u = NoStore
                           /\ setter.phase = "readback" /\ u # NoStore =>
                                /\ u.attr = setter.attr /\ u.stage \in {"show"} \cup Ended
                                /\ u.stage = "done" => u.value = firmware[u.attr]
      BY <1>1 DEF ReadbackIsTrue
    <2>1. Endpoint(setter.attr) \in Endpoints
      BY SettingsApart DEF SettingIInv, SettingTypeOK, Setters
    <2> QED BY <1>1, <1>2, <1>3, <1>4, <2>1 DEF SettingIInv, ReadbackIsTrue, Ended, s
  <1> QED BY <1>8, <1>9, <1>10, <1>11 DEF SettingIInv

\* A file operation that returns frees its device.
LEMMA ReturnKeeps ==
  ASSUME SettingIInv, NEW e \in Endpoints, Return(e)
  PROVE  /\ SettingIInv'
         /\ setter.phase # "told" /\ setter'.phase = "told" =>
              firmware'[setter.attr] = setter.value
  <1> DEFINE s == store[e]
             mine == setter # NoSetter /\ Endpoint(setter.attr) = e
             next == IF s.stage = "failed" THEN "error"
                     ELSE IF setter.phase = "store" THEN "readback"
                     ELSE IF s.value = setter.value THEN "told" ELSE "error"
             after == [setter EXCEPT !.phase = next]
  <1>1. /\ s.stage \in Ended /\ s # NoStore
        /\ setter' = IF mine THEN after ELSE setter
        /\ firmware' = firmware /\ mail' = mail /\ troubles' = troubles
    BY DEF Return, NoStore, Ended
  <1>2. /\ DOMAIN store' = Endpoints /\ store'[e] = NoStore
        /\ \A f \in Endpoints : f # e => store'[f] = store[f]
    BY DEF Return, SettingIInv, SettingTypeOK
  <1>3. s \in Stores(e)
    BY <1>1 DEF SettingIInv, SettingTypeOK
  <1>4. mine => /\ after \in Setters
                /\ after.attr = setter.attr /\ after.phase = next /\ after # NoSetter
    <2>1. next \in {"store", "readback", "told", "error"}
      OBVIOUS
    <2>2. ASSUME mine
          PROVE  setter \in Setters
      BY <2>2 DEF SettingIInv, SettingTypeOK, Setters
    <2> HIDE DEF s, next, mine
    <2>3. ASSUME mine
          PROVE  /\ after \in Setters
                 /\ after.attr = setter.attr /\ after.phase = next
      BY <2>1, <2>2, <2>3 DEF Setters
    <2> HIDE DEF after
    <2> QED BY <2>1, <2>3 DEF NoSetter
  <1>5. mine => /\ setter.phase \in {"store", "readback"}
                /\ setter.phase = "readback" =>
                     /\ s.attr = setter.attr
                     /\ s.stage = "done" => s.value = firmware[setter.attr]
    <2>1. mine => setter.phase \in {"store", "readback", "told", "error"}
      BY DEF SettingIInv, SettingTypeOK, Setters
    <2> QED BY <1>1, <2>1 DEF SettingIInv, ReadbackIsTrue
  <1> HIDE DEF s, after
  <1>6. SettingTypeOK'
    <2>1. \A f \in Endpoints : store'[f] = NoStore \/ store'[f] \in Stores(f)
      BY <1>2 DEF SettingIInv, SettingTypeOK
    <2> HIDE DEF mine
    <2> QED BY <1>1, <1>2, <1>4, <2>1 DEF SettingIInv, SettingTypeOK, Setters
  <1>7. MailIsMine'
    <2>1. mail.holder # e
      <3>1. ~Calling(e)
        BY <1>1 DEF Calling, s
      <3> QED BY <3>1 DEF SettingIInv, MailIsMine
    <2>2. ~Calling(e)'
      BY <1>2 DEF Calling, NoStore
    <2>3. ASSUME NEW f \in Endpoints
          PROVE  /\ Calling(f)' /\ store'[f].placed <=> mail.holder = f
                 /\ mail.holder = f => mail.command = Command(store'[f])
      BY <1>1, <1>2, <2>1, <2>2 DEF SettingIInv, MailIsMine, Calling
    <2> QED BY <1>1, <2>3 DEF MailIsMine
  <1>8. \A f \in Endpoints : store'[f] # NoStore => SoFar(store[f])'
    BY <1>1, <1>2 DEF SettingIInv, SoFar
  <1>9. ReadbackIsTrue'
    <2>1. CASE mine
      BY <1>1, <1>2, <1>4, <2>1 DEF ReadbackIsTrue
    <2>2. CASE ~mine
      <3>1. setter # NoSetter => /\ Endpoint(setter.attr) \in Endpoints
                                 /\ Endpoint(setter.attr) # e
        BY <2>2, SettingsApart DEF SettingIInv, SettingTypeOK, Setters
      <3> QED BY <1>1, <1>2, <2>2, <3>1 DEF SettingIInv, ReadbackIsTrue
    <2> QED BY <2>1, <2>2
  <1>10. setter.phase # "told" /\ setter'.phase = "told" =>
           firmware'[setter.attr] = setter.value
    <2>1. ASSUME setter.phase # "told", setter'.phase = "told"
          PROVE  mine /\ next = "told"
      BY <1>1, <1>4, <2>1
    <2>2. s.stage = "failed" \/ s.stage = "done"
      BY <1>1 DEF Ended
    <2> QED BY <1>1, <1>5, <2>1, <2>2
  <1> QED BY <1>6, <1>7, <1>8, <1>9, <1>10 DEF SettingIInv

\* A setting that is answered keeps the invariant.
LEMMA AnsweredKeeps ==
  ASSUME SettingIInv, Answered
  PROVE  SettingIInv'
  <1>1. /\ setter' = NoSetter /\ firmware' = firmware /\ mail' = mail /\ store' = store
        /\ troubles' = troubles
    BY DEF Answered
  <1>2. SettingTypeOK'
    BY <1>1 DEF SettingIInv, SettingTypeOK
  <1>3. MailIsMine'
    BY <1>1 DEF SettingIInv, MailIsMine, Calling
  <1>4. \A f \in Endpoints : store'[f] # NoStore => SoFar(store[f])'
    BY <1>1 DEF SettingIInv, SoFar
  <1>5. ReadbackIsTrue'
    BY <1>1 DEF ReadbackIsTrue
  <1> QED BY <1>2, <1>3, <1>4, <1>5 DEF SettingIInv

\* The setter, its readback and the second writer begin on a free device.
LEMMA BeginningsKeep ==
  ASSUME SettingIInv
  PROVE  /\ \A a \in Attributes, v \in Values : Set(a, v) \/ OtherWrites(a, v) => SettingIInv'
         /\ Reread => SettingIInv'
  <1>1. ASSUME NEW a \in Attributes, NEW v \in Values, Set(a, v)
        PROVE  SettingIInv'
    <2>1. /\ store[Endpoint(a)] = NoStore
          /\ store' = [store EXCEPT ![Endpoint(a)] = Enter(a, v, "previous")]
          /\ UNCHANGED <<firmware, mail, troubles>>
          /\ setter' = [phase |-> "store", attr |-> a, value |-> v]
      BY <1>1 DEF Set
    <2>2. /\ setter' \in Setters
          /\ setter'.phase = "store"
      BY <2>1 DEF Setters
    <2> QED BY <2>1, <2>2, BeginningKeeps DEF Begins
  <1>2. ASSUME NEW a \in Attributes, NEW v \in Values, OtherWrites(a, v)
        PROVE  SettingIInv'
    <2>1. /\ store[Endpoint(a)] = NoStore
          /\ store' = [store EXCEPT ![Endpoint(a)] = Enter(a, v, "previous")]
          /\ UNCHANGED <<firmware, mail, troubles>>
          /\ setter' = setter
          /\ setter # NoSetter => Endpoint(setter.attr) # Endpoint(a)
      BY <1>2 DEF OtherWrites
    <2>2. \/ setter' = NoSetter
          \/ setter' \in Setters
      BY <2>1 DEF SettingIInv, SettingTypeOK
    <2> QED BY <2>1, <2>2, BeginningKeeps DEF Begins
  <1>3. ASSUME Reread
        PROVE  SettingIInv'
    <2> DEFINE a == setter.attr
               v == setter.value
    <2>1. /\ store[Endpoint(a)] = NoStore
          /\ store' = [store EXCEPT ![Endpoint(a)] = Enter(a, v, "show")]
          /\ UNCHANGED <<firmware, mail, troubles>>
          /\ setter' = setter /\ setter.phase = "readback"
      BY <1>3 DEF Reread
    <2>2. setter \in Setters
      BY <2>1 DEF SettingIInv, SettingTypeOK, NoSetter
    <2>3. a \in Attributes /\ v \in Values
      BY <2>2 DEF Setters
    <2> QED BY <2>1, <2>2, <2>3, BeginningKeeps DEF Begins
  <1> QED BY <1>1, <1>2, <1>3

\* No store has begun, and nothing has gone wrong.
LEMMA SettingInitEstablishes == SettingInit => SettingIInv
  <1> SUFFICES ASSUME SettingInit PROVE SettingIInv
    OBVIOUS
  <1>1. SettingTypeOK
    <2>1. \A e \in Endpoints : store[e] = NoStore
      BY DEF SettingInit
    <2>2. firmware \in [Attributes \cup {"gate"} -> Values]
      BY DEF SettingInit, Values
    <2>3. mail \in [holder : Endpoints \cup {NoEndpoint},
                    command : [attr : Attributes, act : {"get", "set", "gate"},
                               value : Values]]
      BY DEF SettingInit, Values, Attributes
    <2> QED BY <2>1, <2>2, <2>3, SettingAssumption DEF SettingInit, SettingTypeOK
  <1>2. MailIsMine
    BY SettingsApart DEF SettingInit, MailIsMine, Calling, NoStore
  <1>3. ReadbackIsTrue
    BY DEF SettingInit, ReadbackIsTrue
  <1> QED BY <1>1, <1>2, <1>3 DEF SettingInit, SettingIInv

\* Every step of the settings keeps the invariant.
LEMMA SettingNextKeeps ==
  SettingIInv /\ [SettingNext]_settingVars => SettingIInv'
  <1> SUFFICES ASSUME SettingIInv, [SettingNext]_settingVars PROVE SettingIInv'
    OBVIOUS
  <1>1. CASE \E e \in Endpoints : Place(e) \/ Run(e) \/ Return(e)
    BY <1>1, PlaceKeeps, RunKeeps, ReturnKeeps
  <1>2. CASE \/ \E a \in Attributes \ OthersWrite, v \in Values : Set(a, v)
             \/ \E a \in OthersWrite, v \in Values : OtherWrites(a, v)
             \/ Reread
    BY <1>2, BeginningsKeep, SettingAssumption
  <1>3. CASE Answered
    BY <1>3, AnsweredKeeps
  <1>4. CASE UNCHANGED settingVars
    <2>1. /\ setter' = setter /\ firmware' = firmware /\ mail' = mail /\ store' = store
          /\ troubles' = troubles
      BY <1>4 DEF settingVars
    <2>2. SettingTypeOK'
      BY <2>1 DEF SettingIInv, SettingTypeOK
    <2>3. MailIsMine'
      BY <2>1 DEF SettingIInv, MailIsMine, Calling
    <2>4. \A f \in Endpoints : store'[f] # NoStore => SoFar(store[f])'
      BY <2>1 DEF SettingIInv, SoFar
    <2>5. ReadbackIsTrue'
      BY <2>1 DEF SettingIInv, ReadbackIsTrue
    <2> QED BY <2>2, <2>3, <2>4, <2>5 DEF SettingIInv
  <1> QED BY <1>1, <1>2, <1>3, <1>4 DEF SettingNext

\* Each store is where its calls have brought it, its command stays in the mailbox
\* until the firmware has it, and a setter reads back its own file: through every
\* order of the calls of three WMI devices (asense_wmi_transaction_lock).
THEOREM SettingInvariant == SettingSpec => []SettingIInv
  BY SettingInitEstablishes, SettingNextKeeps, PTL DEF SettingSpec

\* A step other than a firmware call ends no store.
LEMMA OnlyRunsEndStores ==
  ASSUME SettingIInv, [SettingNext]_settingVars, NEW e \in Endpoints,
         \A f \in Endpoints : ~Run(f)
  PROVE  StoreEnds(e)
  <1> SUFFICES ASSUME Calling(e) PROVE store'[e].stage \notin Ended
    BY DEF StoreEnds
  <1>1. DOMAIN store = Endpoints /\ store[e].stage \notin Ended /\ store[e] # NoStore
    BY DEF SettingIInv, SettingTypeOK, Calling, NoStore
  <1>2. ASSUME NEW f \in Endpoints, Place(f)
        PROVE  store'[e].stage \notin Ended
    <2>1. store' = [store EXCEPT ![f].placed = TRUE]
      BY <1>2 DEF Place
    <2>2. store[e] \in Stores(e)
      BY <1>1 DEF SettingIInv, SettingTypeOK
    <2> QED BY <1>1, <2>1, <2>2 DEF Stores
  <1>3. ASSUME NEW f \in Endpoints, Return(f)
        PROVE  store'[e].stage \notin Ended
    BY <1>1, <1>3 DEF Return, NoStore, Ended
  <1>4. ASSUME NEW a \in Attributes, NEW v \in Values, Set(a, v) \/ OtherWrites(a, v)
        PROVE  store'[e].stage \notin Ended
    BY <1>1, <1>4 DEF Set, OtherWrites
  <1>5. ASSUME Reread \/ Answered \/ UNCHANGED settingVars
        PROVE  store'[e].stage \notin Ended
    BY <1>1, <1>5 DEF Reread, Answered, settingVars
  <1> QED BY <1>2, <1>3, <1>4, <1>5, SettingAssumption DEF SettingNext

\* A step other than a file operation's return tells nothing.
LEMMA OnlyReturnsTell ==
  ASSUME SettingIInv, [SettingNext]_settingVars, \A f \in Endpoints : ~Return(f)
  PROVE  setter.phase # "told" => setter'.phase # "told"
  <1>1. CASE \E e \in Endpoints : Place(e) \/ Run(e)
    BY <1>1 DEF Place, Run
  <1>2. CASE \E a \in Attributes, v \in Values : Set(a, v) \/ OtherWrites(a, v)
    BY <1>2 DEF Set, OtherWrites
  <1>3. CASE Reread \/ Answered \/ UNCHANGED settingVars
    BY <1>3 DEF Reread, Answered, NoSetter, settingVars
  <1> QED BY <1>1, <1>2, <1>3, SettingAssumption DEF SettingNext

\* Whatever firmware calls go wrong, and in whatever order the devices call, a
\* setter of PlatformControls that succeeds has set what was asked for, and a store
\* of the kernel module that fails after a single trouble has undone all it did.
THEOREM SettingsAreWhole == SettingSpec => SettingsEndWhole
  <1> DEFINE Whole ==
        /\ \A e \in Endpoints : StoreEnds(e)
        /\ setter.phase # "told" /\ setter'.phase = "told" =>
             firmware'[setter.attr] = setter.value
  <1>1. ASSUME SettingIInv, [SettingNext]_settingVars
        PROVE  Whole
    <2>1. ASSUME NEW f \in Endpoints, Run(f)
          PROVE  Whole
      <3>1. StoreEnds(f)
        BY <1>1, <2>1, RunIsWhole
      <3>2. \A e \in Endpoints : e # f => store'[e] = store[e] /\ setter' = setter
        BY <1>1, <2>1, RunHasAnOutcome
      <3>3. ASSUME NEW e \in Endpoints, e # f
            PROVE  StoreEnds(e)
        BY <3>2, <3>3 DEF StoreEnds, Calling
      <3>4. setter' = setter
        BY <2>1 DEF Run
      <3> QED BY <3>1, <3>3, <3>4
    <2>2. ASSUME \A f \in Endpoints : ~Run(f)
          PROVE  Whole
      <3>1. \A e \in Endpoints : StoreEnds(e)
        BY <1>1, <2>2, OnlyRunsEndStores
      <3>2. setter.phase # "told" /\ setter'.phase = "told" =>
              firmware'[setter.attr] = setter.value
        BY <1>1, ReturnKeeps, OnlyReturnsTell
      <3> QED BY <3>1, <3>2
    <2> QED BY <2>1, <2>2
  <1>2. SettingIInv /\ [SettingNext]_settingVars => [Whole]_settingVars
    BY <1>1
  <1>3. SettingSpec => [][Whole]_settingVars
    BY <1>2, SettingInvariant, PTL DEF SettingSpec
  <1> QED BY <1>3 DEF SettingsEndWhole

=============================================================================
