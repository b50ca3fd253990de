-------------------------------- MODULE MCParts --------------------------------
(* Parts that share no state, side by side: the fans, the platform settings, the  *)
(* graphics card's power, the window's size and the discovery of the hardware. A  *)
(* behaviour uses one of them and the others stay as they are.                    *)
EXTENDS FanTransaction, PlatformSettings, NvmlSession, AspectResize, HardwareDiscovery

VARIABLE used

Parts == {"fans", "platform", "gpu", "window", "discovery"}

Chip(name, driver, modes, duties, label, temp) ==
  [name |-> name, driver |-> driver, mode |-> modes, duty |-> duties, label |-> label,
   temp |-> temp]
BothModes == <<"mode", "mode">>
BothValues == <<"value", "value">>
NoLabels == <<"none", "none", "none">>
TwoTemps == <<"value", "value", "missing">>

\* The driver's device without setpoints, with a sensor missing for one role, and with an
\* odd sensor; one whose driver is not known; one that only calls itself acer; another's.
FewChips ==
  {Chip("acer", "acer", <<"mode", "enxio">>, BothValues, <<"cpu", "none", "gpu">>,
        <<"value", "value", "value">>),
   Chip("acer", "acer", BothModes, <<"value", "enxio">>, <<"gpu", "cpu", "none">>, TwoTemps),
   Chip("acer", "acer", BothModes, BothValues, NoLabels, <<"value", "odd", "missing">>),
   Chip("acer", "none", <<"mode", "odd">>, BothValues, NoLabels, TwoTemps),
   Chip("acer", "foreign", BothModes, BothValues, NoLabels, TwoTemps),
   Chip("other", "foreign", BothModes, BothValues, NoLabels, TwoTemps)}

FewGroups ==
  {NoDevice, [mode |-> BothModes, speed |-> BothValues],
   [mode |-> BothModes, speed |-> <<"value", "odd">>],
   [mode |-> <<"mode", "missing">>, speed |-> BothValues]}

FewSets == {{"quiet", "performance", "custom"}, {"balanced", "max-power"}}

BareMachine ==
  [acer |-> FALSE, reference |-> FALSE, hwmon |-> [n \in Numbers |-> NoDevice],
   handlers |-> [n \in Numbers |-> "foreign"], legacy |-> FALSE, gaming |-> FALSE,
   fans |-> NoDevice, choices |-> {}]

PartsInit ==
  /\ used \in Parts
  /\ Init
  /\ used # "fans" =>
       /\ backend = "KernelPwm" /\ healthy = Channel /\ setting = "Auto"
       /\ request = [c \in Channel |-> 20]
       /\ mode = [c \in Channel |-> "Auto"] /\ duty = request
  /\ SettingInit
  /\ NvmlInit
  /\ used # "gpu" =>
       dgpu = [status |-> "active", user |-> "none", shows |-> TRUE, counts |-> TRUE,
               exact |-> TRUE]
  /\ AspectInit
  /\ IF used = "discovery" THEN DiscoveryInit ELSE system = BareMachine

\* Nobody touches the window any more.
Untouched == AtRest /\ timers = {} /\ UNCHANGED resizeVars

DraggedSizes == {[width |-> 700, height |-> 900]}
OwnSize == [width |-> 640, height |-> 800]

PartsNext ==
  /\ UNCHANGED used
  /\ \/ used = "fans" /\ Next /\ UNCHANGED <<settingVars, nvmlVars, resizeVars>>
     \/ used = "platform" /\ SettingNext /\ UNCHANGED <<vars, nvmlVars, resizeVars>>
     \/ used = "gpu" /\ NvmlNext /\ UNCHANGED <<vars, settingVars, resizeVars>>
     \/ used = "window" /\ (AspectNext \/ Untouched)
        /\ UNCHANGED <<vars, settingVars, nvmlVars>>
     \/ used = "discovery" /\ DiscoveryNext
        /\ UNCHANGED <<vars, settingVars, nvmlVars, resizeVars>>
  /\ used # "discovery" => UNCHANGED system

\* The fairness of the window, while a behaviour uses it.
PartsFairness ==
  /\ WF_resizeVars(used = "window" /\ DragEnds)
  /\ WF_resizeVars(used = "window" /\ (Grants \/ Overrules))
  /\ WF_resizeVars(used = "window" /\ Constrains)
  /\ WF_resizeVars(used = "window" /\ HandleEvent)
  /\ WF_resizeVars(used = "window" /\ IdleCallback)
  /\ \A g \in 0 .. Timers - 1 : WF_resizeVars(used = "window" /\ Timeout(g))

PartsSpec ==
  /\ PartsInit /\ [][PartsNext]_<<used, vars, settingVars, nvmlVars, resizeVars, system>>
  /\ PartsFairness

================================================================================
