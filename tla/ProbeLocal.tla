------------------------------ MODULE ProbeLocal ------------------------------
(* What a report's own process reads of the machine, without the daemon: its     *)
(* names, its power supplies and the drivers that own the interfaces.            *)
EXTENDS PassiveDiagnostics

CONSTANT MaxSupplies,   \* MAX_POWER_ITEMS
         MaxInstances   \* MAX_ITEMS

ASSUME LocalAssumption == MaxSupplies \in Nat /\ MaxInstances \in Nat

\* An observation of a report names where it is from.
Sourced(source, read) == [source |-> source, is |-> read.is, value |-> read.value]

\* Texts are told apart by what a check looks at: "slash" begins like a path, "spaced" is
\* more than one word, "control" holds a control character, "long" is beyond the bound.
decode_observation(text) ==
  CASE text = "empty" -> Absent("NotExposed")
    [] text = "long" -> Error("Decode", "Oversize")
    [] text = "control" -> Malformed
    [] text \notin {"empty", "long", "control"} -> Value(text)

read_text_observation(file) ==
  CASE file.is = "missing" -> Absent("NotExposed")
    [] file.is = "binary" -> Malformed
    [] file.is \notin {"missing", "binary"} -> Decoded(read_bounded(file), decode_observation)

-------------------------------------------------------------------------------
(* The machine's names.                                                          *)

\* Outside quotes there are no spaces, inside them every escape is finished.
os_release_value(entry) ==
  CASE entry \in {"no key", "empty"} -> Absent("NotExposed")
    [] entry \in {"unquoted space", "unfinished", "control"} -> Malformed
    [] entry = "long" -> Error("Decode", "Oversize")
    [] entry \in {"plain", "slash", "spaced"} -> Value(entry)

collect_os_release(file) ==
  CASE file.is = "missing" -> Absent("NotExposed")
    [] file.is = "binary" -> Malformed
    [] file.is \notin {"missing", "binary"} -> Decoded(read_bounded(file), os_release_value)

\* m.dmi stands for each of the four texts, m.uname for both of the kernel's, m.os_release
\* for either of its keys: they are read and judged alike.
collect_machine(m) ==
  [dmi |-> Sourced("Dmi", read_text_observation(m.dmi)),
   kernel |-> Sourced("Uname", read_text_observation(m.uname)),
   os |-> Sourced("OsRelease", collect_os_release(m.os_release))]

-------------------------------------------------------------------------------
(* The power supplies.                                                           *)

Failed == [failed |-> TRUE]
Collected(evidence) == [failed |-> FALSE, evidence |-> evidence]

read_bool_observation(file) ==
  Decoded(read_text_observation(file),
          LAMBDA text : IF text \in {"0", "1"} THEN Value(text) ELSE Malformed)

read_battery_status(file) ==
  Decoded(read_text_observation(file),
          LAMBDA text : Value(IF text \in {"Charging", "Discharging", "Full", "Not charging"}
                              THEN text ELSE "Unknown"))

\* A percentage; anything else is an error of its own.
read_capacity(file) ==
  Decoded(read_text_observation(file),
          LAMBDA text : IF text = "percent" THEN Value(text) ELSE Malformed)

Sides == {"Mains", "USB", "USB_C", "USB_PD"}
OfKind(supplies, kinds) ==
  LET KindOf(s) == read_text_observation(s.type)
      known == Ascending({i \in DOMAIN supplies : /\ KindOf(supplies[i]).is = "value"
                                                 /\ KindOf(supplies[i]).value \in kinds})
  IN [k \in {k \in DOMAIN known : k <= MaxSupplies} |-> supplies[known[k]]]

\* A supply whose type cannot be read fails the whole, one without a type is left out.
collect_power(m) ==
  LET ac == OfKind(m.supplies, Sides)
      batteries == OfKind(m.supplies, {"Battery"})
  IN IF m.supply_dir = "missing" THEN Collected([ac |-> <<>>, batteries |-> <<>>])
     ELSE IF m.supply_dir # "there" THEN Failed
     ELSE IF \E i \in DOMAIN m.supplies : read_text_observation(m.supplies[i].type).is = "error"
     THEN Failed
     ELSE Collected(
       [ac |-> [i \in DOMAIN ac |->
                  [ordinal |-> i,
                   online |-> Sourced("PowerSupply", read_bool_observation(ac[i].online))]],
        batteries |-> [i \in DOMAIN batteries |->
                  [ordinal |-> i,
                   present |-> Sourced("PowerSupply", read_bool_observation(batteries[i].online)),
                   status |-> Sourced("PowerSupply", read_battery_status(batteries[i].status)),
                   capacity |-> Sourced("PowerSupply", read_capacity(batteries[i].capacity))]]])

-------------------------------------------------------------------------------
(* The drivers.                                                                  *)

ModuleNames == <<"acer_wmi", "asense_rgb">>

collect_module(module) ==
  LET loaded == CASE module.dir = "there" -> Value(TRUE)
                  [] module.dir = "missing" -> Value(FALSE)
                  [] module.dir = "failing" -> Error("Discover", "Io")
  IN [loaded |-> Sourced("ModuleSysfs", loaded),
      version |-> Sourced("ModuleSysfs",
        IF module.dir = "there" THEN read_text_observation(module.version)
                                ELSE Absent("NotExposed"))]

\* A link's last part, in lower case; only its length is judged here.
read_driver_owner(link) ==
  CASE link.is = "missing" -> Absent("NotExposed")
    [] link.is = "failing" -> Error("Read", "Io")
    [] link.is = "binary" -> Malformed
    [] link.is = "text" -> IF link.text \in {"empty", "long"} THEN Error("Decode", "Oversize")
                                                              ELSE Value(link.text)

\* The instances of one GUID have one owner, or it is an error; the first one counts.
combine_owners(owners) ==
  LET Known == {i \in DOMAIN owners : owners[i].is = "value"}
      Differs(i) == \E j \in Known : j < i /\ owners[i].value # owners[j].value
      Stops == {i \in DOMAIN owners : \/ owners[i].is = "error"
                                      \/ owners[i].is = "value" /\ Differs(i)}
  IN IF Stops # {}
     THEN IF owners[Min(Stops)].is = "error" THEN owners[Min(Stops)]
                                             ELSE Error("Verify", "InvalidValue")
     ELSE IF Known = {} THEN Absent("NotExposed") ELSE owners[Min(Known)]

\* The groups of each GUID, by their place in the order that a report has to have.
GroupOrder == <<"asense_diagnostics", "asense_rgb", "rgb_zoned", "gaming_fan",
                "gaming_profile", "asense_battery", "asense_apge">>
KnownGroups == <<{1, 2, 3, 4, 5}, {1, 6}, {1, 7}>>

\* m.wmi is a sequence of instances for each of the three GUIDs.
WmiEvidence(instances, known) ==
  [instances |-> Len(instances),
   owner |-> Sourced("WmiDriver",
               combine_owners([i \in DOMAIN instances |-> read_driver_owner(instances[i].driver)])),
   groups |-> Ascending({g \in known : \E i \in DOMAIN instances : g \in instances[i].groups})]

collect_wmi(m) ==
  LET guids == Ascending({g \in 1 .. 3 : m.wmi[g] # <<>>})
  IN IF m.wmi_dir = "missing" THEN Collected(<<>>)
     ELSE IF m.wmi_dir # "there" \/ \E g \in 1 .. 3 : Len(m.wmi[g]) > MaxInstances THEN Failed
     ELSE Collected([i \in DOMAIN guids |-> WmiEvidence(m.wmi[guids[i]], KnownGroups[guids[i]])])

\* Without a link to its driver, a device's name stands for it.
collect_hwmon_owner(m) ==
  LET n == discover_acer_hwmon(m)
  IN Sourced("HwmonDriver",
       IF n = NoDevice THEN Absent("NotExposed")
       ELSE Value(IF m.hwmon[n].driver = "none" THEN m.hwmon[n].name ELSE m.hwmon[n].driver))

collect_drivers(m) ==
  IF collect_wmi(m).failed THEN Failed
  ELSE Collected([modules |-> [i \in DOMAIN ModuleNames |-> collect_module(m.modules[i])],
                  wmi |-> collect_wmi(m).evidence, hwmon_owner |-> collect_hwmon_owner(m)])

\* What the files may hold.
Listed(s) == Len(s) \in Nat /\ s = [i \in 1 .. Len(s) |-> s[i]]
LocalFiles(m) ==
  /\ ReadEnds(m.dmi) /\ ReadEnds(m.uname) /\ ReadEnds(m.os_release)
  /\ m.os_release.is = "text" =>
       m.os_release.text \in {"no key", "empty", "unquoted space", "unfinished", "control",
                              "long", "plain", "slash", "spaced"}
  /\ Listed(m.supplies)
  /\ \A i \in DOMAIN m.supplies :
       /\ ReadEnds(m.supplies[i].type) /\ ReadEnds(m.supplies[i].online)
       /\ ReadEnds(m.supplies[i].status) /\ ReadEnds(m.supplies[i].capacity)
  /\ \A i \in DOMAIN ModuleNames : /\ m.modules[i].dir \in {"there", "missing", "failing"}
                                  /\ ReadEnds(m.modules[i].version)
  /\ \A g \in DOMAIN KnownGroups :
       /\ Listed(m.wmi[g])
       /\ \A i \in DOMAIN m.wmi[g] :
            m.wmi[g][i].driver.is \in {"missing", "failing", "binary", "text"}

-------------------------------------------------------------------------------
(* What a report may hold of it.                                                 *)

\* A text does not begin like a path; a token is one word.
IsText(text) == text \notin {"empty", "long", "control", "slash"}
IsToken(text) == IsText(text) /\ text # "spaced"

validate_machine(machine) ==
  \A part \in {"dmi", "kernel", "os"} : validate_observation(machine[part], IsText)

Anything(v) == TRUE

validate_power(power) ==
  /\ Len(power.ac) <= MaxSupplies /\ Len(power.batteries) <= MaxSupplies
  /\ \A i \in DOMAIN power.ac :
       power.ac[i].ordinal = i /\ validate_observation(power.ac[i].online, Anything)
  /\ \A i \in DOMAIN power.batteries :
       /\ power.batteries[i].ordinal = i
       /\ validate_observation(power.batteries[i].present, Anything)
       /\ validate_observation(power.batteries[i].status, Anything)
       /\ validate_observation(power.batteries[i].capacity, LAMBDA c : c = "percent")

validate_drivers(drivers) ==
  /\ Len(drivers.modules) = 2
  /\ \A i \in DOMAIN drivers.modules :
       /\ validate_observation(drivers.modules[i].loaded, Anything)
       /\ validate_observation(drivers.modules[i].version, IsToken)
  /\ Len(drivers.wmi) <= 3
  /\ \A i \in DOMAIN drivers.wmi :
       /\ drivers.wmi[i].instances \in 1 .. MaxInstances
       /\ validate_observation(drivers.wmi[i].owner, IsToken)
       /\ Len(drivers.wmi[i].groups) <= Len(GroupOrder)
       /\ validate_channel_order(drivers.wmi[i].groups)
  /\ validate_observation(drivers.hwmon_owner, IsToken)

===============================================================================
