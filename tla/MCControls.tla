------------------------------ MODULE MCControls ------------------------------
(* A change of the profile and the editing of the lighting, side by side: a     *)
(* behaviour does one of them and the other stays as it is.                     *)
EXTENDS ProfileTransaction, LightingEditor

VARIABLE edits

-------------------------------------------------------------------------------
(* The cover's logo beside the keyboard, of the one backend or of the other.    *)

Light(id, backend, part, zones, modes) ==
  [id |-> id, backend |-> backend, target |-> part, zones |-> zones, modes |-> modes,
   readable |-> backend = "zoned-wmi"]
Logo == Light("logo", "enek5130", "logo", 1, {"static"})
FewMachines ==
  {<<Logo, Light("zoned", "zoned-wmi", "keyboard", 2, {"static", "breathing", "neon"})>>,
   <<Logo, Light("keyboard", "enek5130", "keyboard", 2, {"static", "neon"})>>}
RedAndBlue == <<"red", "blue">>

-------------------------------------------------------------------------------
ControlsInit ==
  /\ edits \in BOOLEAN
  /\ Init
  /\ edits => /\ firmware = "healthy" /\ gpu = "healthy" /\ nvidia = "unavailable"
              /\ profile = "quiet" /\ target = "quiet" /\ offset = Reset
  /\ EditorInit
  /\ ~edits => /\ devices[2].id = "zoned"
               /\ look["zoned"].mode = "static" /\ look["zoned"].brightness = 0
               /\ look["zoned"].color = "red"

\* No device has been found, and nobody may ask again.
NoTabs ==
  Tabs(app.caps) = <<>> /\ left.presses = 0 /\ flight = NoRequest /\ UNCHANGED editorVars

ControlsNext ==
  /\ UNCHANGED edits
  /\ \/ ~edits /\ Next /\ UNCHANGED editorVars
     \/ edits /\ (EditorNext \/ NoTabs) /\ UNCHANGED vars

ControlsSpec == ControlsInit /\ [][ControlsNext]_<<edits, vars, editorVars>>

===============================================================================
