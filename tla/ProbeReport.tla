------------------------------ MODULE ProbeReport ------------------------------
(* A report: the client asks the daemon for what only the daemon may read, reads *)
(* the rest itself, and publishes the whole only if it is accepted. Drivers come *)
(* and go in the meantime.                                                       *)
EXTENDS ProbeLocal

CONSTANTS ReportMachines,   \* the machines that a report may find
          ChangedMachines,  \* what they may become while it is made
          DriverChanges     \* and how often

\* What a machine's files may hold.
MachineFiles(m) ==
  /\ DiagnosticFiles(m) /\ LocalFiles(m) /\ m.hidraw \in HidFiles
  /\ {"profile", "profile_raw", "offered", "diagnostic", "fans", "rpm", "hwmon", "settings", "dmi",
      "uname", "os_release", "supplies", "modules", "wmi", "hidraw"} \subseteq DOMAIN m

ASSUME ReportAssumption ==
  /\ DriverChanges \in Nat /\ MaxChoices <= 8
  /\ \A m \in ReportMachines : MachineFiles(m)
  /\ \A m \in ChangedMachines : MachineFiles(m)

VARIABLES machine,  \* the machine as it is
          daemon,   \* the daemon's part: what it has read, and its answer
          probe     \* the client's part

reportVars == <<machine, daemon, probe>>

-------------------------------------------------------------------------------
(* From the daemon's evidence to the report's.                                   *)

map_reason(reason) ==
  IF reason = "IncompleteInterface" THEN "IncompleteControlInterface" ELSE reason

map_observation(read, source) ==
  [source |-> source, is |-> read.is,
   value |-> IF read.is = "absent" THEN map_reason(read.value) ELSE read.value]

map_profile(profile) ==
  LET present == profile.transport.is = "value"
      from == IF present THEN profile.transport.value.source ELSE "ProfileDiscovery"
      known == present /\ profile.transport.value.backend = "GamingWmi"
  IN [transport |-> map_observation(profile.transport, from),
      current |-> map_observation(profile.current, from),
      choices |-> map_observation(profile.choices,
                                  IF known THEN "KnownGamingWmiCommands" ELSE from),
      bitmap |-> Sourced("GamingWmiSupportedProfiles", Absent("NotExposed"))]

map_fans(fans) ==
  [control |-> map_observation(fans.control, "FanDiscovery"),
   pwm |-> [i \in DOMAIN fans.channels |->
              LET c == fans.channels[i]
              IN [channel |-> c.channel, unit |-> c.unit,
                  setpoint |-> map_observation(c.setpoint, c.source),
                  mode |-> map_observation(c.mode, c.source)]],
   rpm |-> [i \in DOMAIN fans.rpm |->
              [fans.rpm[i] EXCEPT !.read = map_observation(@, "AcerHwmon")]],
   temperatures |-> [i \in DOMAIN fans.temperatures |->
              [fans.temperatures[i] EXCEPT !.read = map_observation(@, "AcerHwmon")]]]

map_platform(platform) ==
  [transport |-> map_observation(platform.transport, "PlatformDiscovery"),
   fields |-> [i \in DOMAIN platform.fields |->
                 [platform.fields[i] EXCEPT !.read = map_observation(@, platform.fields[i].source)]]]

map_hid(hid) ==
  [hid EXCEPT !.driver = map_observation(@, "HidDriver"),
              !.descriptor = map_observation(@, "HidReportDescriptor"),
              !.a1 = IF hid.a1.is = "none" THEN @ ELSE map_observation(@, "HidFeatureA1")]

\* Without an answer every part of it is missing for the same reason.
WithoutAnswer(read) ==
  [profile |-> [transport |-> Sourced("ProfileDiscovery", read),
                current |-> Sourced("ProfileDiscovery", read),
                choices |-> Sourced("ProfileDiscovery", read),
                bitmap |-> Sourced("GamingWmiSupportedProfiles", read)],
   fans |-> [control |-> Sourced("FanDiscovery", read), pwm |-> <<>>, rpm |-> <<>>,
             temperatures |-> <<>>],
   platform |-> [transport |-> Sourced("PlatformDiscovery", read),
                 fields |-> [i \in DOMAIN FieldOrder |->
                   [name |-> FieldOrder[i], source |-> FieldSource[i], exposed |-> FALSE,
                    expected |-> FALSE, read |-> Sourced(FieldSource[i], read)]]],
   lighting |-> <<>>, hid |-> <<>>]

map_daemon_diagnostics(told) ==
  IF told.is # "value" THEN WithoutAnswer(told)
  ELSE [profile |-> map_profile(told.value.profile), fans |-> map_fans(told.value.fans),
        platform |-> map_platform(told.value.platform), lighting |-> told.value.lighting,
        hid |-> [i \in DOMAIN told.value.hid |-> map_hid(told.value.hid[i])]]

-------------------------------------------------------------------------------
(* What a report may hold of it: the same evidence, judged once more.            *)

\* A token or a byte means what the other side takes it for.
profile_name_for_raw(encoding, raw) ==
  IF encoding = "U8Hex" THEN profile_for_gaming_raw(raw) ELSE profile_for_command(raw, TRUE)

BugTurboOnly(transport) == FALSE

\* A kernel handler's own performance may be less than Turbo.
generic_performance(transport) ==
  transport.is = "value" /\ transport.value.backend = "Kernel"

SameMeaning(transport, encoding, raw, name) ==
  \/ profile_name_for_raw(encoding, raw) = name
  \/ /\ generic_performance(transport) /\ encoding = "AsciiToken"
     /\ raw = "performance" /\ name = "Performance"

schema_profile(profile) ==
  /\ validate_observation(profile.transport, Anything)
  /\ validate_observation(profile.current, LAMBDA c :
       c.raw # "odd" /\ SameMeaning(profile.transport, c.encoding, c.raw, c.profile))
  /\ validate_observation(profile.choices, LAMBDA choices :
       /\ Cardinality(choices) <= 8
       /\ \A c \in choices :
            /\ SameMeaning(profile.transport, "AsciiToken", c.command, c.profile)
            /\ c.raw # NoRaw => profile_for_gaming_raw(c.raw) = c.profile)
  /\ validate_observation(profile.bitmap, Anything)

FanUnit == [AcerHwmon |-> "Pwm255", GamingWmiFan |-> "Percent"]

schema_inputs(inputs, Valid(_)) ==
  /\ \A i \in DOMAIN inputs : /\ IsText(inputs[i].label)
                              /\ validate_observation(inputs[i].read, Valid)
                              /\ inputs[i].read.source = "AcerHwmon"
  /\ validate_channel_order([i \in DOMAIN inputs |-> inputs[i].channel])

schema_fans(fans) ==
  /\ validate_observation(fans.control, Anything)
  /\ validate_channels(fans.pwm)
  /\ \A i \in DOMAIN fans.pwm :
       /\ fans.pwm[i].mode.source = fans.pwm[i].setpoint.source
       /\ fans.pwm[i].setpoint.source \in DOMAIN FanUnit
       /\ fans.pwm[i].unit = FanUnit[fans.pwm[i].setpoint.source]
  /\ schema_inputs(fans.rpm, Anything)
  /\ schema_inputs(fans.temperatures, LAMBDA v : v # "hot")

schema_platform(platform) ==
  /\ validate_platform(platform)
  /\ \A i \in DOMAIN platform.fields : platform.fields[i].read.source = platform.fields[i].source

\* The targets are read once more from the payload that is kept.
a1_targets_from_payload(payload) ==
  Ascending(Range(SubSeq(payload, 3, 2 + payload[2])))

schema_hid(hid) ==
  /\ validate_hid(hid)
  /\ hid.driver.source = "HidDriver" /\ hid.descriptor.source = "HidReportDescriptor"
  /\ hid.a1.is # "none" =>
       /\ hid.a1.source = "HidFeatureA1"
       /\ validate_observation(hid.a1, LAMBDA a1 :
            /\ 2 + a1.payload[2] <= Len(a1.payload)
            /\ a1.targets = a1_targets_from_payload(a1.payload))

schema_lighting(lighting) ==
  /\ \A i \in DOMAIN lighting : lighting[i].zones \in 1 .. 32
  /\ Len(lighting) <= 1

validate_report(r) ==
  /\ validate_observation(r.identity, Anything)
  /\ validate_machine(r.machine) /\ validate_power(r.power) /\ validate_drivers(r.drivers)
  /\ schema_profile(r.told.profile) /\ schema_fans(r.told.fans)
  /\ schema_platform(r.told.platform) /\ schema_lighting(r.told.lighting)
  /\ \A i \in DOMAIN r.told.hid : schema_hid(r.told.hid[i])
  /\ \A i \in 1 .. Len(r.told.hid) - 1 :
       LexLess(Identity(r.told.hid[i]), Identity(r.told.hid[i + 1]))

-------------------------------------------------------------------------------
(* The daemon's part: section after section, then the answer.                    *)

Sections == <<"profile", "fans", "platform", "lighting", "hid">>

collect_section(m, section) ==
  CASE section = "profile" -> collect_profile(m)
    [] section = "fans" -> collect_fans(m)
    [] section = "platform" -> collect_platform(m)
    [] section = "lighting" -> collect_lighting(m)
    [] section = "hid" -> collect_hid(m.hidraw)

NotCollecting == [next |-> 0, seen |-> <<>>]

Collect ==
  /\ daemon.next \in DOMAIN Sections
  /\ daemon' = [next |-> daemon.next + 1,
                seen |-> Append(daemon.seen, collect_section(machine, Sections[daemon.next]))]
  /\ UNCHANGED <<machine, probe>>

Diagnostics ==
  [schema |-> DiagnosticSchema, profile |-> daemon.seen[1], fans |-> daemon.seen[2],
   platform |-> daemon.seen[3], lighting |-> daemon.seen[4], hid |-> daemon.seen[5]]

-------------------------------------------------------------------------------
(* The client's part.                                                            *)

BugTransportIsAbsence(how) ==
  CASE how \in {"no socket", "no listener"} -> Absent("DaemonUnavailable")
    [] how = "timeout" -> Error("Protocol", "Timeout")
    [] how = "incompatible" -> Error("Protocol", "Incompatible")
    [] how = "connected" -> Value("daemon")

\* Only a socket that is not there is a daemon that is not there.
daemon_error(how) ==
  CASE how = "no socket" -> Absent("DaemonUnavailable")
    [] how = "no listener" -> Error("Open", "Io")
    [] how = "timeout" -> Error("Protocol", "Timeout")
    [] how = "incompatible" -> Error("Protocol", "Incompatible")
    [] how = "connected" -> Value("daemon")

control_probe_error(how) ==
  CASE how = "broken" -> Error("Protocol", "Io")
    [] how = "timeout" -> Error("Protocol", "Timeout")
    [] how = "refused" -> Error("Protocol", "Incompatible")

Unasked ==
  [at |-> "start", how |-> "none", identity |-> Absent("none"), told |-> Absent("none"),
   local |-> <<>>, report |-> <<>>]

Connect ==
  /\ probe.at = "start"
  /\ \E how \in {"connected", "no socket", "no listener", "timeout", "incompatible"} :
       /\ probe' = [probe EXCEPT !.at = IF how = "connected" THEN "waiting" ELSE "machine",
                                 !.how = how, !.identity = daemon_error(how),
                                 !.told = daemon_error(how)]
       /\ daemon' = IF how = "connected" THEN [NotCollecting EXCEPT !.next = 1] ELSE daemon
  /\ UNCHANGED machine

\* What the daemon accepts the client accepts: they judge alike.
Answered ==
  /\ probe.at = "waiting" /\ daemon.next = Len(Sections) + 1
  /\ probe' = [probe EXCEPT !.at = "machine",
                            !.told = IF validate(Diagnostics) THEN Value(Diagnostics)
                                                              ELSE control_probe_error("refused")]
  /\ UNCHANGED <<machine, daemon>>

\* The daemon may be too slow, or gone.
Unanswered ==
  /\ probe.at = "waiting"
  /\ \E how \in {"timeout", "broken"} :
       probe' = [probe EXCEPT !.at = "machine", !.told = control_probe_error(how)]
  /\ daemon' = NotCollecting /\ UNCHANGED machine

ReadsMachine ==
  /\ probe.at = "machine"
  /\ probe' = [probe EXCEPT !.at = "power", !.local = <<collect_machine(machine)>>]
  /\ UNCHANGED <<machine, daemon>>

ReadsOr(at, next, read) ==
  /\ probe.at = at
  /\ probe' = IF read.failed THEN [probe EXCEPT !.at = "failed"]
              ELSE [probe EXCEPT !.at = next, !.local = Append(@, read.evidence)]
  /\ UNCHANGED <<machine, daemon>>

ReadsPower == ReadsOr("power", "drivers", collect_power(machine))
ReadsDrivers == ReadsOr("drivers", "complete", collect_drivers(machine))

Compiled ==
  [identity |-> Sourced("ControlSocket", probe.identity), machine |-> probe.local[1],
   power |-> probe.local[2], drivers |-> probe.local[3],
   told |-> map_daemon_diagnostics(probe.told)]

Publish ==
  /\ probe.at = "complete"
  /\ probe' = [probe EXCEPT !.at = IF validate_report(Compiled) THEN "published" ELSE "refused",
                            !.report = <<Compiled>>]
  /\ UNCHANGED <<machine, daemon>>

\* A driver is loaded or unloaded, a device plugged in or a firmware call fails.
MachineChanges ==
  /\ machine.changes < DriverChanges /\ probe.at \notin {"start", "failed", "refused", "published"}
  /\ \E m \in ChangedMachines : machine' = [m EXCEPT !.changes = machine.changes + 1]
  /\ UNCHANGED <<daemon, probe>>

Done == probe.at \in {"failed", "refused", "published"} /\ UNCHANGED reportVars

ReportInit == machine \in ReportMachines /\ daemon = NotCollecting /\ probe = Unasked

ReportNext ==
  \/ Collect \/ Connect \/ Answered \/ Unanswered \/ ReadsMachine \/ ReadsPower
  \/ ReadsDrivers \/ Publish \/ MachineChanges \/ Done

ReportSpec == ReportInit /\ [][ReportNext]_reportVars

-------------------------------------------------------------------------------
BadReading(fans) ==
  \E i \in DOMAIN fans.temperatures :
    \/ fans.temperatures[i].label = "control"
    \/ fans.temperatures[i].read = Value("hot")

BadLabel(fans) == \E i \in DOMAIN fans.temperatures : fans.temperatures[i].label = "slash"

BadName(local) ==
  \/ \E part \in {"dmi", "kernel", "os"} : local[1][part].value = "slash"
  \/ \E i \in DOMAIN local[3].modules : local[3].modules[i].version.value \in {"slash", "spaced"}
  \/ \E i \in DOMAIN local[3].wmi : local[3].wmi[i].owner.value \in {"slash", "spaced", "control"}

(* The evidence is judged three times, by the daemon, the client and the report.  *)
(* Whatever a machine's files hold and however its drivers come and go while they *)
(* are read, the judges find nothing wrong with it but a temperature or a name    *)
(* that no report may hold.                                                       *)
OnlyReadingsAreRefused ==
  /\ probe.at # "start" /\ daemon.next = Len(Sections) + 1 =>
       validate(Diagnostics) \/ BadReading(daemon.seen[2])
  /\ probe.at = "refused" =>
       \/ BadName(probe.local)
       \/ probe.told.is = "value" /\ BadLabel(probe.told.value.fans)

(* A report says that something is absent only on the word of the daemon, or when *)
(* there is no daemon; a daemon that was silent, broken or refused is an error of *)
(* every part that it should have given.                                          *)
SilenceIsNotAbsence ==
  \A i \in DOMAIN probe.report :
    LET told == probe.report[i].told
        absent == \/ told.profile.transport.is = "absent"
                  \/ told.fans.control.is = "absent"
                  \/ told.platform.transport.is = "absent"
    IN absent => probe.how = "no socket" \/ probe.told.is = "value"

\* What makes it so: the client says that the daemon is absent only for want of a socket, and
\* nothing that it was told changes once the report is compiled.
ProbeShape ==
  probe = [at |-> probe.at, how |-> probe.how, identity |-> probe.identity,
           told |-> probe.told, local |-> probe.local, report |-> probe.report]
AbsenceIsTold ==
  probe.at # "start" /\ probe.told.is = "absent" => probe.how = "no socket"
ReportIsLast == probe.report # <<>> => probe.at \in {"refused", "published"}
ReportIInv == ProbeShape /\ AbsenceIsTold /\ ReportIsLast /\ SilenceIsNotAbsence

Blurred(read) == <<read.is, IF read.is = "error" THEN "any" ELSE read.value>>

\* What is kept of an inventory when errors are not told apart.
Outline(inventory) ==
  [i \in DOMAIN inventory |->
     [inventory[i] EXCEPT !.driver = Blurred(@), !.descriptor = Blurred(@), !.a1 = Blurred(@)]]

(* The numbers of the hidraw functions are an accident of their order; a report   *)
(* names the same devices with the same evidence whatever they are, as long as    *)
(* there are no more of them than are looked at.                                  *)
InventoryIsNoAccident ==
  probe.at = "start" /\ Cardinality({n \in HidNumbers :
                          machine.hidraw[n].uevent \in Range(Roles)}) <= MaxCandidates =>
    LET outline == Outline(collect_hid(machine.hidraw))
    IN \A p \in {p \in [HidNumbers -> HidNumbers] : Range(p) = HidNumbers} :
         Outline(collect_hid([n \in HidNumbers |-> machine.hidraw[p[n]]])) = outline

================================================================================
