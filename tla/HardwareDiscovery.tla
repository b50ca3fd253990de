-------------------------- MODULE HardwareDiscovery --------------------------
(* Which of the system's files the program takes for its fan and profile        *)
(* controls, what it announces of them, and what it accepts.                     *)
(* A file is what a read of it gives: "mode" (0, 1 or 2), "value", "odd" (text   *)
(* outside its range), "enxio" (the driver has no value), "error" or "missing".  *)
EXTENDS Integers, FiniteSets, FiniteSetsExt

CONSTANTS Numbers,    \* the numbers that hwmon devices and profile handlers get
          Chips,      \* the hwmon devices that a number may stand for
          Handlers,   \* what a platform-profile entry may be
          FanGroups,  \* what the Gaming-WMI group may hold
          Offered,    \* the sets of profiles that a machine may offer
          NoDevice

ASSUME NumbersAssumption == Numbers \subseteq Nat /\ IsFiniteSet(Numbers)
ASSUME NoDeviceAssumption ==
  NoDevice \notin Numbers /\ NoDevice \notin {"Kernel", "KernelPwm", "AcerGamingWmi"}

VARIABLE system

Fan == 1 .. 2
Sensor == 1 .. 3

-------------------------------------------------------------------------------
(* The hwmon device.                                                             *)

Present(file) == file # "missing"

\* More files, more of what an Acer device has.
Score(chip) ==
  Cardinality({f \in Fan : Present(chip.mode[f])})
    + Cardinality({f \in Fan : Present(chip.duty[f])})
    + Cardinality({s \in Sensor : Present(chip.temp[s])})

Candidates(m) ==
  {n \in Numbers : /\ m.hwmon[n] # NoDevice
                   /\ m.hwmon[n].name = "acer" /\ m.hwmon[n].driver # "foreign"}

Rank(m, n) == (IF m.hwmon[n].driver = "acer" THEN 100 ELSE 0) + Score(m.hwmon[n])

BugTakesTheFirst(m) ==
  LET best == {n \in Candidates(m) : \A o \in Candidates(m) : Rank(m, o) <= Rank(m, n)}
  IN IF best = {} THEN NoDevice ELSE Min(best)

\* Two equal candidates are none.
discover_acer_hwmon(m) ==
  LET best == {n \in Candidates(m) : \A o \in Candidates(m) : Rank(m, o) <= Rank(m, n)}
  IN IF \E n \in best : best = {n} THEN CHOOSE n \in best : TRUE ELSE NoDevice

Role(fan) == IF fan = 1 THEN "cpu" ELSE "gpu"

\* The first sensor with the role's label, or the one with the fan's own number.
TemperatureOf(chip, fan) ==
  LET labelled == {s \in Sensor : chip.label[s] = Role(fan) /\ Present(chip.temp[s])}
  IN IF labelled = {} THEN fan ELSE Min(labelled)

manual_watchdog_available(chip) ==
  \A f \in Fan : chip.temp[TemperatureOf(chip, f)] = "value"

-------------------------------------------------------------------------------
(* The interfaces.                                                               *)

NoFans == [backend |-> NoDevice, manual |-> FALSE]

BugTrustsSetpoints(chip) ==
  IF \A f \in Fan : chip.mode[f] \in {"mode", "enxio"}
  THEN [backend |-> "KernelPwm", manual |-> \A f \in Fan : chip.duty[f] = "value"]
  ELSE NoFans

KernelFans(chip) ==
  IF \A f \in Fan : chip.mode[f] \in {"mode", "enxio"}
  THEN [backend |-> "KernelPwm",
        manual |-> /\ manual_watchdog_available(chip)
                   /\ \A f \in Fan : chip.duty[f] = "value"]
  ELSE NoFans

GamingFans(m, n) ==
  IF m.fans # NoDevice /\ \A f \in Fan : m.fans.mode[f] = "mode"
  THEN [backend |-> "AcerGamingWmi",
        manual |-> /\ n # NoDevice /\ manual_watchdog_available(m.hwmon[n])
                   /\ \A f \in Fan : m.fans.speed[f] = "value"]
  ELSE NoFans

discover_fans(m, n) ==
  IF ~m.acer THEN NoFans
  ELSE IF n # NoDevice /\ KernelFans(m.hwmon[n]) # NoFans THEN KernelFans(m.hwmon[n])
  ELSE GamingFans(m, n)

NoProfiles == [backend |-> NoDevice, turbo |-> FALSE]

\* Entries whose files are incomplete, or without a name of their own, are none.
AcerHandlers(m) == {n \in Numbers : m.handlers[n] \in {"acer-wmi", "acer"}}

discover_profiles(m) ==
  IF AcerHandlers(m) # {}
  THEN [backend |-> "Kernel", turbo |-> m.handlers[Min(AcerHandlers(m))] = "acer-wmi"]
  ELSE IF m.legacy THEN [backend |-> "Kernel", turbo |-> FALSE]
  ELSE IF m.acer /\ m.gaming THEN [backend |-> "AcerGamingWmi", turbo |-> TRUE]
  ELSE NoProfiles

discover(m) ==
  LET n == IF m.acer THEN discover_acer_hwmon(m) ELSE NoDevice
  IN [acer |-> m.acer, reference |-> m.acer /\ m.reference, hwmon |-> n,
      fans |-> discover_fans(m, n), profiles |-> discover_profiles(m)]

-------------------------------------------------------------------------------
(* What is announced.                                                            *)

KnownProfiles == {"low-power", "quiet", "balanced", "balanced-performance", "performance"}

performance_is_turbo(h) == h.reference \/ h.profiles.turbo

ProfileChoices(h, m) ==
  IF h.profiles = NoProfiles THEN {}
  ELSE {[raw |-> raw,
         label |-> IF performance_is_turbo(h) /\ raw = "performance" THEN "Turbo" ELSE raw,
         selectable |-> /\ h.acer /\ raw # "custom"
                        /\ h.reference => raw \in KnownProfiles] : raw \in m.choices}

capabilities(h, m) ==
  [choices |-> ProfileChoices(h, m), backend |-> h.fans.backend,
   auto |-> h.fans # NoFans, manual |-> h.fans.manual, maximum |-> h.fans # NoFans]

\* Files of a fan control, usable or not.
fan_control_exposed(h, m) ==
  /\ h.acer
  /\ \/ h.hwmon # NoDevice /\ \E f \in Fan : Present(m.hwmon[h.hwmon].mode[f])
     \/ m.fans # NoDevice /\ \E f \in Fan : Present(m.fans.mode[f])

-------------------------------------------------------------------------------
(* What is accepted: the checks before the first write.                          *)

AcceptsFan(h, m, setting) ==
  /\ h.acer /\ h.fans # NoFans
  /\ setting = "Manual" => /\ h.fans.manual
                           /\ h.hwmon # NoDevice /\ manual_watchdog_available(m.hwmon[h.hwmon])

AcceptsProfile(h, m, raw) ==
  h.acer /\ h.profiles # NoProfiles /\ raw \in m.choices

\* A channel's mode and setpoint; a mode that the kernel driver cannot give is unknown.
read_fan_channel(h, m, f) ==
  IF h.fans.backend = "KernelPwm"
  THEN LET chip == m.hwmon[h.hwmon]
       IN [readable |-> chip.mode[f] \in {"mode", "enxio"},
           mode |-> chip.mode[f] = "mode", duty |-> chip.duty[f] = "value"]
  ELSE IF h.fans.backend = "AcerGamingWmi"
  THEN [readable |-> /\ m.fans.mode[f] = "mode"
                     /\ h.fans.manual => m.fans.speed[f] = "value",
        mode |-> TRUE, duty |-> h.fans.manual]
  ELSE [readable |-> TRUE, mode |-> FALSE, duty |-> FALSE]

-------------------------------------------------------------------------------
Machine ==
  [acer : BOOLEAN, reference : BOOLEAN, hwmon : [Numbers -> Chips \cup {NoDevice}],
   handlers : [Numbers -> Handlers], legacy : BOOLEAN, gaming : BOOLEAN,
   fans : FanGroups, choices : Offered]

DiscoveryInit == system \in Machine

\* A driver is loaded again: its devices get other numbers.
Renumbered(m, p) ==
  [m EXCEPT !.hwmon = [n \in Numbers |-> m.hwmon[p[n]]]]

Permutation == {p \in [Numbers -> Numbers] : \A n \in Numbers : \E o \in Numbers : p[o] = n}

Reload == \E p \in Permutation : system' = Renumbered(system, p)

\* A driver is bound or unbound, or a file begins or ceases to give a value.
Rebind ==
  \E n \in Numbers, c \in Chips \cup {NoDevice} : system' = [system EXCEPT !.hwmon[n] = c]

DiscoveryNext == Reload \/ Rebind

DiscoverySpec == DiscoveryInit /\ [][DiscoveryNext]_system

-------------------------------------------------------------------------------
(* Which device the fans are driven through is a matter of what the devices are, *)
(* never of the numbers that they happen to have.                                *)
WriterIsNoAccident ==
  LET n == discover(system).hwmon
  IN \A p \in Permutation :
       LET o == discover(Renumbered(system, p)).hwmon
       IN (n = NoDevice) = (o = NoDevice) /\ (n # NoDevice => p[o] = n)

(* While the machine stays as it is, a setting or a profile that is announced as *)
(* possible is not refused, and every fan that can be set can be read back.      *)
AnnouncedIsAccepted ==
  LET h == discover(system)
      caps == capabilities(h, system)
  IN /\ caps.auto => \A s \in {"Auto", "Maximum"} : AcceptsFan(h, system, s)
     /\ caps.manual => AcceptsFan(h, system, "Manual")
     /\ \A c \in caps.choices : c.selectable => AcceptsProfile(h, system, c.raw)
     /\ caps.auto => \A f \in Fan : read_fan_channel(h, system, f).readable
     /\ caps.auto => fan_control_exposed(h, system)

===============================================================================
