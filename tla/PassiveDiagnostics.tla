-------------------------- MODULE PassiveDiagnostics --------------------------
(* What the daemon reads of a machine for a report, and what it accepts as such  *)
(* a report. The machine is the one of the discovery, with the files that only a *)
(* report reads.                                                                 *)
EXTENDS HardwareDiscovery, PassiveHid

CONSTANT MaxChoices  \* MAX_PROFILE_CHOICES

ASSUME DiagnosticsAssumption == MaxChoices \in Nat

\* A file of the discovery's machine as a file that is read.
AsFile(class) ==
  CASE class = "missing" -> NoFile
    [] class \in {"error", "enxio"} -> Unread("failing")
    [] class \notin {"missing", "error", "enxio"} -> Text(class)

\* A text that is no number is an error of its own.
read_number(class) ==
  read_value(AsFile(class), LAMBDA text : IF text = "odd" THEN Malformed ELSE Value(text))

-------------------------------------------------------------------------------
(* The profile.                                                                  *)

profile_for_command(command, turbo) ==
  CASE command = "low-power" -> "Eco"
    [] command = "quiet" -> "Quiet"
    [] command = "balanced" -> "Balanced"
    [] command = "balanced-performance" -> "Performance"
    [] command = "performance" -> IF turbo THEN "Turbo" ELSE "Performance"
    [] OTHER -> "none"

GamingRaw ==
  [c \in KnownProfiles |->
     CASE c = "quiet" -> "00" [] c = "balanced" -> "01" [] c = "performance" -> "05"
       [] c = "balanced-performance" -> "04" [] c = "low-power" -> "06"]

profile_for_gaming_raw(raw) ==
  CASE raw = "00" -> "Quiet" [] raw = "01" -> "Balanced" [] raw = "04" -> "Performance"
    [] raw = "05" -> "Turbo" [] raw = "06" -> "Eco" [] OTHER -> "none"

\* "odd" is a text that is neither a token nor a byte.
read_profile_current(file, source, encoding, turbo) ==
  read_value(file, LAMBDA text :
    IF text = "odd" THEN Malformed
    ELSE Value([source |-> source, encoding |-> encoding, raw |-> text,
                profile |-> IF encoding = "U8Hex" THEN profile_for_gaming_raw(text)
                                                  ELSE profile_for_command(text, turbo)]))

\* One unknown name, none at all or too many, and none of the choices is reported.
read_profile_choices(file, backend, turbo) ==
  read_value(file, LAMBDA commands :
    IF \/ \E c \in commands : profile_for_command(c, turbo) = "none"
       \/ Cardinality(commands) \notin 1 .. MaxChoices
    THEN Malformed
    ELSE Value({[command |-> c, profile |-> profile_for_command(c, turbo),
                 raw |-> IF backend = "GamingWmi" THEN GamingRaw[c] ELSE NoRaw] : c \in commands}))

KernelProfile(m) == AcerHandlers(m) # {} \/ m.legacy

\* A machine that cannot be discovered has no Turbo.
collect_profile(m) ==
  LET turbo == ~m.unverified /\ performance_is_turbo(discover(m))
  IN IF KernelProfile(m)
     THEN [transport |-> Value([source |-> "KernelPlatformProfile", backend |-> "Kernel"]),
           current |-> read_profile_current(m.profile, "KernelPlatformProfile", "AsciiToken", turbo),
           choices |-> read_profile_choices(m.offered, "Kernel", turbo)]
     ELSE IF ~m.diagnostics /\ ~m.production
     THEN LET nothing == Absent("NotExposed")
          IN [transport |-> nothing, current |-> nothing, choices |-> nothing]
     ELSE [transport |-> Value([source |-> "GamingWmiProfile", backend |-> "GamingWmi"]),
           current |->
             IF m.diagnostics
             THEN read_profile_current(m.profile_raw, "GamingWmiProfile", "U8Hex", TRUE)
             ELSE read_profile_current(m.profile, "GamingWmiProfile", "AsciiToken", TRUE),
           choices |-> IF m.production THEN read_profile_choices(m.offered, "GamingWmi", TRUE)
                                       ELSE Absent("NotExposed")]

-------------------------------------------------------------------------------
(* The fans.                                                                     *)

\* What the commands would accept, never what the files alone suggest.
FanControlRead(m) ==
  LET fans == discover(m).fans
      n == discover_acer_hwmon(m)
      exposed == \/ m.diagnostics
                 \/ m.fans # NoDevice /\ \A f \in Fan : Present(m.fans.mode[f])
                 \/ n # NoDevice /\ \E f \in Fan : \/ Present(m.hwmon[n].duty[f])
                                               \/ Present(m.hwmon[n].mode[f])
  IN IF m.unverified THEN Error("Read", "Io")
     ELSE IF fans = NoFans
     THEN Absent(IF exposed THEN "IncompleteInterface" ELSE "NotExposed")
     ELSE Value([backend |-> fans.backend, manual |-> fans.manual])

Channels(source, unit, setpoint, modes) ==
  [f \in Fan |-> [channel |-> f, source |-> source, unit |-> unit,
                  setpoint |-> read_number(setpoint[f]), mode |-> read_number(modes[f])]]

\* Two complete mode files are preferred, then what there is.
FanChannels(m, n) ==
  LET kernel == Channels("AcerHwmon", "Pwm255", m.hwmon[n].duty, m.hwmon[n].mode)
      diagnostic == Channels("GamingWmiFan", "Percent", m.diagnostic.speed, m.diagnostic.mode)
      complete == n # NoDevice /\ \A f \in Fan : Present(m.hwmon[n].mode[f])
      gaming == m.fans # NoDevice /\ \A f \in Fan : Present(m.fans.mode[f])
      partial == n # NoDevice /\ \E f \in Fan : \/ Present(m.hwmon[n].duty[f])
                                            \/ Present(m.hwmon[n].mode[f])
  IN CASE complete -> kernel
       [] ~complete /\ gaming ->
            IF m.diagnostics THEN diagnostic
            ELSE Channels("GamingWmiFan", "Percent", m.fans.speed, m.fans.mode)
       [] ~complete /\ ~gaming /\ partial -> kernel
       [] ~complete /\ ~gaming /\ ~partial -> IF m.diagnostics THEN diagnostic ELSE <<>>

read_label(text) == IF text \in {"none", "empty", "long"} THEN "fallback" ELSE text

Inputs(file, label) ==
  LET s == Ascending({c \in DOMAIN file : Present(file[c])})
  IN [i \in DOMAIN s |-> [channel |-> s[i], label |-> read_label(label[s[i]]),
                          read |-> read_number(file[s[i]])]]

collect_fans(m) ==
  LET n == discover_acer_hwmon(m)
  IN [control |-> FanControlRead(m), channels |-> FanChannels(m, n),
      rpm |-> IF n = NoDevice THEN <<>>
              ELSE Inputs(m.rpm, [c \in DOMAIN m.rpm |-> "none"]),
      temperatures |-> IF n = NoDevice THEN <<>>
                       ELSE Inputs(m.hwmon[n].temp, m.hwmon[n].label)]

-------------------------------------------------------------------------------
(* The platform's settings. A group's raw file gives the firmware's answer, cut  *)
(* into the fields that are looked at; <<>> stands for a text that is no answer. *)

ScalarOrMalformed(text, decoded) == IF text = <<>> THEN Malformed ELSE decoded

Flag(b) == Value([type |-> "bool", on |-> b])
Threshold(t) == Value([type |-> "usb-threshold", threshold |-> t])
Logo(enabled, brightness) ==
  Value([type |-> "rear-logo", enabled |-> enabled, brightness |-> brightness])

\* <<status, mode, threshold>>
decode_usb_raw(raw) ==
  ScalarOrMalformed(raw,
    IF raw[1] # 0 \/ raw[2] \notin {15, 31} \/ raw[3] \notin {10, 20, 30} THEN InvalidRaw
    ELSE Threshold(IF raw[2] = 15 THEN raw[3] ELSE 0))

\* One of the scalars that are known, or another one.
decode_timeout_raw(raw) ==
  ScalarOrMalformed(raw,
    IF raw[1] \notin {"uninitialized", "off", "on"} THEN InvalidRaw ELSE Flag(raw[1] = "on"))
decode_boot_sound_raw(raw) ==
  ScalarOrMalformed(raw,
    IF raw[1] \notin {"off", "on"} THEN InvalidRaw ELSE Flag(raw[1] = "on"))

\* <<valid, enabled>>
decode_lcd_raw(raw) ==
  ScalarOrMalformed(raw, IF raw[1] = 0 THEN InvalidRaw ELSE Flag(raw[2] # 0))

\* <<status, brightness, enabled>>
decode_logo_raw(raw) ==
  ScalarOrMalformed(raw,
    IF raw[1] # 0 \/ raw[2] > 100 \/ raw[3] > 1 THEN InvalidRaw ELSE Logo(raw[3] = 1, raw[2]))

\* The texts of the settings themselves, as numbers.
decode_bool_text(text) ==
  ScalarOrMalformed(text, IF text[1] \in {0, 1} THEN Flag(text[1] = 1) ELSE Malformed)
decode_usb_text(text) ==
  ScalarOrMalformed(text,
    IF text[1] \in {0, 10, 20, 30} THEN Threshold(text[1]) ELSE Malformed)
decode_logo_text(text) ==
  ScalarOrMalformed(text,
    IF text[1] > 100 \/ text[2] > 1 THEN Malformed ELSE Logo(text[2] = 1, text[1]))

\* The order that a report has to have, and the source of each field.
FieldOrder == <<"BatteryLimit", "BatteryCalibration", "UsbOffCharging", "KeyboardTimeout",
                "BootSound", "LcdOverride", "RearLogo">>
FieldSource == <<"AsenseBattery", "AsenseBattery", "AsenseApge", "AsenseApge",
                 "AsenseRgb", "AsenseRgb", "AsenseRgb">>

\* <<the settings that the firmware supports, the limit, the calibration>>
platform_battery_field(i, raw_read, normal) ==
  [name |-> FieldOrder[i], source |-> "AsenseBattery", exposed |-> IsFile(normal),
   expected |-> raw_read.is # "absent" \/ IsFile(normal),
   read |-> IF raw_read.is = "absent" /\ IsFile(normal)
            THEN read_value(normal, decode_bool_text)
            ELSE Decoded(raw_read, LAMBDA raw : ScalarOrMalformed(raw,
                   IF i \in raw[1] THEN Flag(raw[i + 1] # 0) ELSE Absent("NotApplicable")))]

platform_field(i, raw, normal, raw_read, normal_read) ==
  [name |-> FieldOrder[i], source |-> FieldSource[i], exposed |-> IsFile(normal),
   expected |-> IsFile(raw) \/ IsFile(normal),
   read |-> IF IsFile(raw) THEN raw_read
            ELSE IF IsFile(normal) THEN normal_read ELSE Absent("NotExposed")]

\* m.settings holds each setting's raw file and its own.
collect_platform(m) ==
  LET Raw(i) == m.settings[i].raw
      Own(i) == m.settings[i].normal
      Field(i, DecodeRaw(_), DecodeText(_)) ==
        platform_field(i, Raw(i), Own(i), read_value(Raw(i), DecodeRaw),
                       read_value(Own(i), DecodeText))
      battery == read_text(Raw(1))
      some == \E i \in DOMAIN FieldOrder : IsFile(Raw(i)) \/ IsFile(Own(i))
  IN [transport |-> IF m.diagnostics \/ m.rgb \/ some
                    THEN Value([source |-> "PlatformDiscovery"]) ELSE Absent("NotExposed"),
      fields |->
        <<platform_battery_field(1, battery, Own(1)),
          platform_battery_field(2, battery, Own(2)),
          Field(3, decode_usb_raw, decode_usb_text),
          Field(4, decode_timeout_raw, decode_bool_text),
          Field(5, decode_boot_sound_raw, decode_bool_text),
          Field(6, decode_lcd_raw, decode_bool_text),
          Field(7, decode_logo_raw, decode_logo_text)>>]

-------------------------------------------------------------------------------
(* The lighting, and the whole.                                                  *)

\* One to four zones, as a mask without gaps.
zoned_wmi_zone_count(mask) ==
  CASE mask = 1 -> 1 [] mask = 3 -> 2 [] mask = 7 -> 3 [] mask = 15 -> 4 [] OTHER -> 0

collect_lighting(m) ==
  LET mask == read_text(m.zone_mask)
      zones == IF mask.is = "value" THEN zoned_wmi_zone_count(mask.value) ELSE 0
      Readable(file) == file.is = "text" /\ file.text # ""
  IN IF m.rgb /\ (\A f \in {m.power, m.effect, m.zones} : IsFile(f)) /\ zones # 0
     THEN <<[id |-> "zoned-wmi-keyboard", zones |-> zones,
             state_readable |-> \A f \in {m.power, m.effect, m.zones} : Readable(f)]>>
     ELSE <<>>

DiagnosticSchema == 2

\* What the files may hold. The kernel module gives no fan speed above 100 per cent, and a
\* device without a driver of its own is an Acer one or a foreign one.
Numbered(files) == IsFiniteSet(DOMAIN files) /\ DOMAIN files \subseteq Nat
DiagnosticFiles(m) ==
  /\ ReadEnds(m.profile) /\ ReadEnds(m.profile_raw)
  /\ ReadEnds(m.offered) /\ (m.offered.is = "text" => IsFiniteSet(m.offered.text))
  /\ \A f \in Fan : /\ m.diagnostic.speed[f] # "hot"
                    /\ m.fans # NoDevice => m.fans.speed[f] # "hot"
  /\ Numbered(m.rpm)
  /\ \A n \in Numbers : m.hwmon[n] # NoDevice =>
       Numbered(m.hwmon[n].temp) /\ m.hwmon[n].driver \in {"acer", "none", "foreign"}
  /\ \A i \in DOMAIN FieldOrder : ReadEnds(m.settings[i].raw) /\ ReadEnds(m.settings[i].normal)
  /\ \A file \in {m.settings[7].raw, m.settings[7].normal} :
       file.is = "text" /\ file.text # <<>> => file.text[1] \in Nat /\ file.text[2] \in Nat

-------------------------------------------------------------------------------
(* What is accepted, by the daemon before it answers and by the client after.    *)

\* A label is text without control characters.
validate_label(label) == label # "control"

validate_profile(profile) ==
  /\ validate_observation(profile.transport, LAMBDA t : TRUE)
  /\ validate_observation(profile.current, LAMBDA c : c.raw # "odd")
  /\ validate_observation(profile.choices, LAMBDA choices :
       /\ Cardinality(choices) <= MaxChoices
       /\ \A a, b \in choices : a.command = b.command => a = b)

validate_channels(channels) ==
  /\ \A i \in DOMAIN channels :
       /\ validate_observation(channels[i].setpoint, LAMBDA v :
            channels[i].unit = "Percent" => v # "hot")
       /\ validate_observation(channels[i].mode, LAMBDA v : TRUE)
  /\ validate_channel_order([i \in DOMAIN channels |-> channels[i].channel])

\* "hot" stands for a number beyond the bounds of its kind.
validate_inputs(inputs, Valid(_)) ==
  /\ \A i \in DOMAIN inputs : /\ validate_label(inputs[i].label)
                              /\ validate_observation(inputs[i].read, Valid)
  /\ validate_channel_order([i \in DOMAIN inputs |-> inputs[i].channel])

validate_fans(fans) ==
  /\ validate_observation(fans.control, LAMBDA c : TRUE)
  /\ validate_channels(fans.channels)
  /\ validate_inputs(fans.rpm, LAMBDA v : TRUE)
  /\ validate_inputs(fans.temperatures, LAMBDA v : v # "hot")

validate_setting(value) ==
  CASE value.type = "bool" -> TRUE
    [] value.type = "usb-threshold" -> value.threshold \in {0, 10, 20, 30}
    [] value.type = "rear-logo" -> value.brightness <= 100

validate_platform(platform) ==
  /\ validate_observation(platform.transport, LAMBDA t : TRUE)
  /\ Len(platform.fields) = Len(FieldOrder)
  /\ \A i \in DOMAIN FieldOrder :
       /\ platform.fields[i].name = FieldOrder[i]
       /\ platform.fields[i].source = FieldSource[i]
       /\ validate_observation(platform.fields[i].read, validate_setting)

validate_lighting(lighting) ==
  /\ Len(lighting) <= 1
  /\ \A i \in DOMAIN lighting : /\ lighting[i].id = "zoned-wmi-keyboard"
                                /\ lighting[i].zones \in 1 .. 4

\* An older daemon knows neither this schema nor the USB candidates.
validate(d) ==
  /\ d.schema \in {1, DiagnosticSchema}
  /\ d.schema = 1 =>
       \A i \in DOMAIN d.hid : d.hid[i].role # "DarfonLightingCandidate"
  /\ validate_profile(d.profile)
  /\ validate_fans(d.fans)
  /\ validate_platform(d.platform)
  /\ validate_lighting(d.lighting)
  /\ validate_inventory(d.hid)

===============================================================================
