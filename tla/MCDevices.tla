------------------------------ MODULE MCDevices -------------------------------
(* The two lighting backends, of which a machine has one, its graphics card and   *)
(* the report of its hardware, side by side: a behaviour uses one of the four and *)
(* the others stay as they are.                                                   *)
EXTENDS MCEnekLighting, KernelRgb, NvidiaDevice, ProbeReport

VARIABLE used  \* "enek5130", "zoned", "card" or "report"

-------------------------------------------------------------------------------
(* Cards of three kinds, and a driver that offers everything, some, or nothing.   *)

Card(id, status) == [id |-> id, exact |-> id = "exact", status |-> status]
FewCards ==
  {Card("exact", "active"), Card("exact", "suspended"), Card("other", "active"),
   Card("third", "unsupported")}

Functions == {"states", "offsets", "set"} \cup {Calls[i] : i \in DOMAIN Calls}
Library(loaded, has, odd, states) ==
  [loaded |-> loaded, has |-> has, states |-> states,
   answers |-> [f \in Functions |-> IF f \in odd THEN "failed" ELSE "value"]]
FewLibraries ==
  {Library(FALSE, {}, {}, {}), Library(TRUE, Functions, {}, ExpectedStates),
   Library(TRUE, Functions \ {"set", "limit"}, {"temperature"}, {0, 8})}

-------------------------------------------------------------------------------
(* The machines that are reported: each is a usual one with a part that is not.   *)

A1Collection(count, id) ==
  <<[kind |-> "UsagePage", value |-> 65280, long |-> FALSE],
    [kind |-> "Usage", value |-> 1, long |-> FALSE],
    [kind |-> "Collection", value |-> 1, long |-> FALSE],
    [kind |-> "ReportId", value |-> id, long |-> FALSE],
    [kind |-> "ReportSize", value |-> 8, long |-> FALSE],
    [kind |-> "ReportCount", value |-> count, long |-> FALSE],
    [kind |-> "Feature", value |-> 2, long |-> FALSE],
    [kind |-> "EndCollection", value |-> 0, long |-> FALSE]>>

Descriptor(items, hash) == Text([items |-> items, hash |-> hash])
Hid(uevent, driver, descriptor, node) ==
  [uevent |-> uevent, driver |-> driver, descriptor |-> descriptor, node |-> node]

Whole == Descriptor(A1Collection(5, ReportTargetList), 7)
Enek(node) == Hid("Enek5130Lighting", Text(1), Whole, node)
NoHid == Hid("other", NoFile, NoFile, NoFile)

HidDevices ==
  {Enek(Text(<<161, 3, 9, 4, 9, 0>>)), Enek(Text(<<161, 2, 4, 9>>)), Enek(Text(<<161, 9>>)),
   Enek(Unread("denied")),
   Hid("Enek5130Lighting", NoFile, Whole, Text(<<161, 2, 4, 9>>)),
   Hid("Enek5130Lighting", Text(NoToken),
       Descriptor(A1Collection(5, ReportTargetList) \o A1Collection(2, 3), 8), Text(<<3, 1>>)),
   Hid("AcerEcHidPowerCandidate", Text(2), Unread("failing"), NoFile),
   Hid("DarfonLightingCandidate", Unread("failing"),
       Descriptor(SubSeq(A1Collection(5, 4), 1, 7), 9), NoFile),
   Hid("DarfonLightingCandidate", Text(2), Descriptor(A1Collection(70000, 4), 10), NoFile)}

\* One more than are looked at, now and then.
Inventories ==
  {h \in [HidNumbers -> HidDevices \cup {NoHid}] : h[3] \in {NoHid, Enek(Unread("denied"))}}

Setting(raw, normal) == [raw |-> raw, normal |-> normal]
UsualSettings ==
  <<Setting(Text(<<{1, 2}, 80, 0>>), NoFile), Setting(NoFile, Text(<<0>>)),
    Setting(Text(<<0, 15, 20>>), NoFile), Setting(Text(<<"off">>), NoFile),
    Setting(Text(<<"on">>), NoFile), Setting(Text(<<1, 1>>), NoFile),
    Setting(Text(<<0, 100, 1>>), NoFile)>>

AChip(name, driver, modes, duties, label, temp) ==
  [name |-> name, driver |-> driver, mode |-> modes, duty |-> duties, label |-> label,
   temp |-> temp]
UsualChip ==
  AChip("acer", "acer", <<"mode", "enxio">>, <<"value", "error">>, <<"cpu", "none", "long">>,
        <<"value", "odd", "value">>)

Link(text) == [is |-> "text", text |-> text]
UsualMachine ==
  [changes |-> 0, acer |-> TRUE, reference |-> FALSE,
   hwmon |-> [n \in Numbers |-> IF n = 0 THEN UsualChip ELSE NoDevice],
   handlers |-> [n \in Numbers |-> IF n = 1 THEN "acer-wmi" ELSE "foreign"],
   legacy |-> FALSE, gaming |-> TRUE, fans |-> NoDevice, choices |-> {"quiet", "performance"},
   unverified |-> FALSE, diagnostics |-> TRUE, production |-> TRUE, rgb |-> TRUE,
   profile |-> Text("performance"), profile_raw |-> Text("05"),
   offered |-> Text({"quiet", "performance"}),
   diagnostic |-> [speed |-> <<"value", "odd">>, mode |-> <<"mode", "error">>],
   rpm |-> <<"value", "missing", "error">>,
   settings |-> UsualSettings, zone_mask |-> Text(15), power |-> Text("on"),
   effect |-> Text("static"), zones |-> Text(""),
   dmi |-> Text("plain"), uname |-> Text("plain"), os_release |-> Text("plain"),
   supply_dir |-> "there",
   supplies |-> <<[type |-> Text("Mains"), online |-> Text("1"), status |-> NoFile,
                   capacity |-> NoFile],
                  [type |-> Text("Battery"), online |-> Text("odd"), status |-> Text("Charging"),
                   capacity |-> Text("percent")]>>,
   modules |-> <<[dir |-> "there", version |-> Text("plain")],
                 [dir |-> "missing", version |-> NoFile]>>,
   wmi_dir |-> "there",
   wmi |-> <<<<[driver |-> Link("plain"), groups |-> {1, 4}],
               [driver |-> Link("plain"), groups |-> {2}]>>, <<>>,
             <<[driver |-> NoFile, groups |-> {7}]>>>>,
   hidraw |-> [n \in HidNumbers |-> NoHid]]

WithoutKernel == [UsualMachine EXCEPT !.handlers = [n \in Numbers |-> "foreign"]]
WithoutDriver == [WithoutKernel EXCEPT !.hwmon = [n \in Numbers |-> NoDevice]]

Awkward(T) == {NoFile, Unread("directory"), Unread("denied"), Unread("oversize"), T}

OddProfiles ==
  {[base EXCEPT !.profile = p, !.profile_raw = r, !.offered = o,
                !.diagnostics = d, !.production = ~d, !.gaming = ~d, !.reference = f] :
     base \in {UsualMachine, WithoutKernel}, p \in {Text("performance"), Text("odd")},
     r \in {Text("04"), Text("odd"), Text("ff")},
     o \in {Text({"performance", "balanced-performance", "quiet"}), Text({"quiet", "own"}),
            Text({}), NoFile},
     d \in BOOLEAN, f \in BOOLEAN}
  \cup {[UsualMachine EXCEPT !.unverified = TRUE, !.profile = p] :
          p \in Awkward(Text("performance"))}
  \cup {[WithoutKernel EXCEPT !.legacy = TRUE, !.offered = o] : o \in Awkward(Text({"quiet"}))}

OddFans ==
  {[base EXCEPT !.hwmon[0] = c, !.fans = g, !.diagnostics = d, !.unverified = u] :
     base \in {UsualMachine, WithoutKernel},
     c \in {NoDevice,
            AChip("acer", "none", <<"mode", "missing">>, <<"value", "missing">>,
                  <<"none", "gpu", "none">>, <<"value", "value", "missing">>),
            AChip("acer", "acer", <<"missing", "missing">>, <<"missing", "missing">>,
                  <<"control", "empty", "none">>, <<"value", "error", "missing">>),
            AChip("acer", "acer", <<"mode", "mode">>, <<"value", "value">>,
                  <<"slash", "none", "none">>, <<"value", "value", "missing">>),
            AChip("acer", "acer", <<"mode", "mode">>, <<"value", "value">>,
                  <<"cpu", "gpu", "none">>, <<"hot", "value", "missing">>)},
     g \in {NoDevice, [mode |-> <<"mode", "mode">>, speed |-> <<"value", "value">>],
            [mode |-> <<"mode", "missing">>, speed |-> <<"value", "odd">>]},
     d \in BOOLEAN, u \in BOOLEAN}

OddSettings ==
  UNION {{[UsualMachine EXCEPT !.settings[i] = Setting(r, n), !.diagnostics = FALSE] :
            r \in {NoFile, Unread("denied"), Text(<<>>)} \cup Texts,
            n \in {NoFile, Text(<<10, 1>>), Text(<<1, 7>>)}} :
         <<i, Texts>> \in
           {<<1, {Text(<<{2}, 80, 0>>)}>>, <<2, {}>>,
            <<3, {Text(<<0, 31, 20>>), Text(<<1, 15, 20>>)}>>,
            <<4, {Text(<<"uninitialized">>), Text(<<"other">>)}>>,
            <<5, {Text(<<"uninitialized">>)}>>, <<6, {Text(<<0, 0>>)}>>,
            <<7, {Text(<<0, 101, 1>>), Text(<<0, 30, 2>>)}>>}}
  \cup {[UsualMachine EXCEPT !.rgb = r, !.zone_mask = z, !.effect = e] :
          r \in BOOLEAN, z \in {Text(1), Text(3), Text(7), Text(5), Unread("binary")},
          e \in {NoFile, Text("")}}

Names == {Text("plain"), Text("slash"), Text("spaced"), Text("control"), Text("long"),
          Text("empty"), NoFile, Unread("binary"), Unread("denied"), Unread("oversize"),
          Unread("directory")}

OddNames ==
  {[UsualMachine EXCEPT !.dmi = t] : t \in Names}
  \cup {[UsualMachine EXCEPT !.uname = t] : t \in {Text("slash"), Text("control")}}
  \cup {[UsualMachine EXCEPT !.os_release = t] :
          t \in Names \cup {Text("no key"), Text("unquoted space"), Text("unfinished")}}
  \cup {[UsualMachine EXCEPT !.modules[2] = [dir |-> d, version |-> t]] :
          d \in {"there", "missing", "failing"}, t \in Names}
  \cup {[UsualMachine EXCEPT !.wmi[1][2].driver = l] :
          l \in {NoFile, Unread("failing"), Unread("binary"), Link("other"), Link("slash"),
                 Link("spaced"), Link("empty"), Link("control")}}
  \cup {[UsualMachine EXCEPT !.wmi_dir = d] : d \in {"missing", "failing"}}
  \cup {[UsualMachine EXCEPT !.wmi[3] = [i \in 1 .. 3 |-> @[1]]]}

OddSupplies ==
  {[UsualMachine EXCEPT !.supply_dir = d] : d \in {"missing", "failing"}}
  \cup {[UsualMachine EXCEPT !.supplies[1].type = t] :
          t \in {Text("Battery"), Text("USB_C"), Text("UPS"), NoFile, Unread("denied")}}
  \cup {[UsualMachine EXCEPT !.supplies[2].status = s, !.supplies[2].capacity = c] :
          s \in {Text("odd"), NoFile, Unread("binary")}, c \in {Text("odd"), Unread("failing")}}

OddHids == {[UsualMachine EXCEPT !.hidraw = h] : h \in Inventories}

FewReportMachines ==
  {UsualMachine, WithoutKernel, WithoutDriver, [WithoutDriver EXCEPT !.acer = FALSE]}
  \cup OddProfiles \cup OddFans \cup OddSettings \cup OddNames \cup OddSupplies \cup OddHids

\* What the drivers are while they are loaded again, and after.
FewChangedMachines ==
  {UsualMachine, WithoutDriver, [WithoutDriver EXCEPT !.acer = FALSE, !.diagnostics = FALSE]}

-------------------------------------------------------------------------------
DevicesInit ==
  /\ used \in {"enek5130", "zoned", "card", "report"}
  /\ Init /\ (used # "enek5130" => selected = "keyboard")
  /\ RgbInit
  /\ used # "zoned" =>
       light.quirks = {} /\ light.effect.mode = "static" /\ ~light.effect.odd
  /\ CardInit
  /\ used # "card" => slots = [b \in Buses |-> NoCard] /\ ~library.loaded
  /\ IF used = "report" THEN ReportInit
     ELSE machine = NoDevice /\ daemon = NotCollecting /\ probe = [Unasked EXCEPT !.at = "unused"]
  /\ system = NoDevice

DevicesNext ==
  /\ UNCHANGED <<used, system>>
  /\ \/ used = "enek5130" /\ Next /\ UNCHANGED <<rgbVars, cardVars, reportVars>>
     \/ used = "zoned" /\ RgbNext /\ UNCHANGED <<vars, cardVars, reportVars>>
     \/ used = "card" /\ CardNext /\ UNCHANGED <<vars, rgbVars, reportVars>>
     \/ used = "report" /\ ReportNext /\ UNCHANGED <<vars, rgbVars, cardVars>>

DevicesSpec ==
  DevicesInit /\ [][DevicesNext]_<<used, vars, rgbVars, cardVars, reportVars, system>>

================================================================================
