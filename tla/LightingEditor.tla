--------------------------- MODULE LightingEditor ---------------------------
(***************************************************************************)
(* The lighting editor of the window and the daemon that carries out its   *)
(* requests (src/app.rs, src/control.rs, src/daemon.rs, src/lighting.rs).  *)
(* The editor holds one draft for all devices. It is loaded when a device's*)
(* tab is clicked and when a readback changes, and what a press sends is   *)
(* made of it and of the device that is selected at that time. The list of *)
(* devices is read anew with every refresh, and a target that did not      *)
(* answer is missing from it. The zoned keyboard can be read back, the     *)
(* others are shown as they were last set.                                 *)
(*                                                                         *)
(* Colours are values of Tints, brightness is 0, 1 or Full. The queue of   *)
(* the window's worker is ControlChannel, the reports to the controller    *)
(* are EnekLighting and the kernel's stores KernelRgb: here a request is   *)
(* one step of the daemon.                                                 *)
(***************************************************************************)
EXTENDS Integers, SequencesExt

CONSTANTS
  Machines,       \* sets of lighting devices, each a sequence in the order of the ids
  Tints,          \* the colours a user picks
  DefaultTints,   \* the colours of the zones of a draft that starts from nothing
  Presses,        \* bound: edits and requests of the user
  Disturbances,   \* bound: calls that fail, targets that do not answer, other writers
  NoCaps, NoItem  \* model values: not read yet, none

Modes == {"static", "breathing", "neon"}
Full == 2
NoTint == "unlit"
Hues == Tints \cup {NoTint}
Wells == [DOMAIN DefaultTints -> Hues]
States == [available : BOOLEAN, mode : Modes, brightness : 0 .. Full, color : Hues,
           zones : Wells]
Readings == [id : STRING, read : [brightness : 0 .. Full, zones : Wells]]

\* Every device has an id of its own, at most as many zones as the editor has wells, and is
\* switched off by a request, not by a mode that its list offers. The zoned keyboard is the
\* one that can be read.
ASSUME EditorAssumption ==
  /\ DefaultTints \in Seq(Tints) \ {<<>>}
  /\ \A m \in Machines :
       /\ m \in Seq({m[j] : j \in DOMAIN m})
       /\ \A i \in DOMAIN m :
            /\ m[i].zones \in 1 .. Len(DefaultTints) /\ m[i].modes \subseteq Modes
            /\ m[i].id \in STRING /\ m[i] # NoItem
            /\ \A j \in DOMAIN m : m[i].id = m[j].id => i = j
            /\ m[i].backend \in {"zoned-wmi", "enek5130"} /\ m[i].readable \in BOOLEAN
            /\ m[i].backend = "zoned-wmi" <=> m[i].readable
            /\ m[i].readable =>
                 m[i].target = "keyboard" /\ \A j \in DOMAIN m : m[j].readable => i = j
  /\ NoItem \notin States /\ NoItem \notin Readings
  /\ Presses \in Nat /\ Disturbances \in Nat

VARIABLES
  devices,   \* the machine's lighting devices
  look,      \* what each device shows
  app,       \* AppState: capabilities, lighting, last_applied_lighting
  editor,    \* the signals of ControlDock
  flight,    \* the request that is not answered yet
  left,      \* presses and disturbances that are left
  past       \* history: whose draft the editor holds, what has disturbed it, who was read

editorVars == <<devices, look, app, editor, flight, left, past>>

DeviceIds == {devices[i].id : i \in DOMAIN devices}
DeviceOf(id) == CHOOSE d \in {devices[i] : i \in DOMAIN devices} : d.id = id

(***************************************************************************)
(* What the window shows                                                   *)
(***************************************************************************)
DefaultLighting ==
  [available |-> FALSE, mode |-> "static", brightness |-> Full, color |-> DefaultTints[1],
   zones |-> DefaultTints]

IsReadableKeyboard(d) == d.target = "keyboard" /\ d.backend = "zoned-wmi" /\ d.readable

preferred_lighting_index(list) ==
  LET readable == SelectInSeq(list, IsReadableKeyboard)
  IN IF readable > 0 THEN readable ELSE SelectInSeq(list, LAMBDA d : d.target = "keyboard")

\* The devices in the order of their tabs.
Tabs(caps) ==
  LET list == IF caps = NoCaps THEN <<>> ELSE caps
      p == preferred_lighting_index(list)
  IN IF p < 2 THEN list ELSE [list EXCEPT ![1] = list[p], ![p] = list[1]]

Selected(v, index) ==
  LET tabs == Tabs(v.caps)
  IN IF tabs = <<>> THEN NoItem
     ELSE tabs[IF index > Len(tabs) THEN Len(tabs) ELSE index]

\* lighting_zone_draft
Draft(seed) ==
  [i \in DOMAIN DefaultTints |-> IF i <= Len(seed) THEN seed[i] ELSE DefaultTints[i]]

keyboard_editor_readback(state) ==
  [brightness |-> state.brightness,
   zones |-> IF state.mode = "breathing" THEN [state.zones EXCEPT ![1] = state.color]
             ELSE state.zones]

Readable(v, d) == d.readable /\ v.lighting.available
LastApplied(v, d) == {r \in v.last : r.id = d.id}

\* Bug: what was last applied to a device that cannot be read is forgotten.
BugForgetsApplied(d, v) ==
  IF Readable(v, d) THEN keyboard_editor_readback(v.lighting)
  ELSE [brightness |-> Full, zones |-> DefaultTints]

lighting_draft_for_device(d, v) ==
  IF Readable(v, d) THEN keyboard_editor_readback(v.lighting)
  ELSE IF LastApplied(v, d) # {}
       THEN LET r == CHOOSE r \in LastApplied(v, d) : TRUE
            IN [brightness |-> r.brightness,
                zones |-> IF r.zones = <<>> THEN <<r.color>> ELSE r.zones]
       ELSE [brightness |-> Full, zones |-> DefaultTints]

\* What the editor does when the dock is rendered again: a readback that differs from the
\* one it has seen replaces the draft, but a brightness of 0 does not replace another.
Observed(v, e) ==
  LET d == Selected(v, e.index)
  IN IF d # NoItem /\ Readable(v, d)
     THEN [id |-> d.id, read |-> keyboard_editor_readback(v.lighting)] ELSE NoItem

Reseeds(v, e) == Observed(v, e) \notin {e.observed, NoItem}

Rendered(v, e) ==
  LET seen == Observed(v, e)
  IN IF ~Reseeds(v, e) THEN [e EXCEPT !.observed = seen]
     ELSE [e EXCEPT !.observed = seen, !.dirty = FALSE, !.zones = Draft(seen.read.zones),
                    !.brightness = IF seen.read.brightness > 0 THEN seen.read.brightness ELSE @]

IsKnown(d) == Readable(app, d) \/ LastApplied(app, d) # {}
DisplayedPower(d) ==
  IF Readable(app, d) THEN app.lighting.brightness > 0
  ELSE \E r \in LastApplied(app, d) : r.mode # "off"
DisplayedMode(d) ==
  IF Readable(app, d) THEN app.lighting.mode
  ELSE LET r == CHOOSE r \in LastApplied(app, d) : TRUE
       IN IF r.mode = "off" THEN "static" ELSE r.mode

(***************************************************************************)
(* The user                                                                *)
(***************************************************************************)
NoRequest == [kind |-> "none"]
Enabled == app.caps # NoCaps /\ flight = NoRequest
ColoursOf(d) == SubSeq(editor.zones, 1, d.zones)

\* The editor as the dock shows it after the change, and whose draft it holds then.
Shows(v, e, then) ==
  /\ app' = v
  /\ editor' = Rendered(v, e)
  /\ past' = IF Reseeds(v, e)
             THEN [then EXCEPT !.of = Selected(v, e.index).id, !.behind = FALSE]
             ELSE then

\* The tab of the fans is another one, on which nothing of the editor changes.
ClickTab(i) ==
  LET d == Tabs(app.caps)[i]
      draft == lighting_draft_for_device(d, app)
  IN /\ Shows(app,
              [editor EXCEPT !.open = TRUE, !.index = i, !.dirty = FALSE,
                             !.brightness = draft.brightness, !.zones = Draft(draft.zones)],
              [past EXCEPT !.of = d.id, !.behind = flight # NoRequest])
     /\ UNCHANGED <<devices, look, flight, left>>

Editing(d) == editor.open /\ d = Selected(app, editor.index) /\ d # NoItem

\* control_busy and HealthState::Applying last until the answer is shown.
Acts == left.presses > 0 /\ left' = [left EXCEPT !.presses = @ - 1]
Sends(request) ==
  /\ Acts
  /\ flight' = request
  /\ UNCHANGED <<devices, look, app>>

lighting_request(d, mode, speed, colours, zones) ==
  [kind |-> "apply", id |-> d.id, readable |-> Readable(app, d), mode |-> mode,
   brightness |-> editor.brightness, speed |-> speed, color |-> colours[1], zones |-> zones,
   answer |-> "none", state |-> NoItem]
StaticRequest(d) == lighting_request(d, "static", 0, editor.zones, ColoursOf(d))

\* Bug: every keyboard is given the command that only the zoned one has.
BugEveryKeyboard(d) == d.target = "keyboard"
TypedPower(d) == IsReadableKeyboard(d)
PowerRequest(d, enabled) ==
  [kind |-> "power", id |-> d.id, enabled |-> enabled, answer |-> "none", state |-> NoItem]

PressOn(d) ==
  /\ Editing(d) /\ Enabled /\ "static" \in d.modes
  /\ Sends(IF TypedPower(d) /\ ~editor.dirty THEN PowerRequest(d, TRUE) ELSE StaticRequest(d))
  /\ UNCHANGED <<editor, past>>

PressOff(d) ==
  /\ Editing(d) /\ Enabled /\ "static" \in d.modes
  /\ Sends(IF TypedPower(d) THEN PowerRequest(d, FALSE)
           ELSE lighting_request(d, "off", 0, editor.zones, <<>>))
  /\ UNCHANGED <<editor, past>>

EffectSpeed(mode) == IF mode = "neon" THEN 5 ELSE 0
PressMode(d, mode) ==
  /\ Editing(d) /\ Enabled /\ mode \in d.modes
  /\ Sends(IF mode = "static" THEN StaticRequest(d)
           ELSE lighting_request(d, mode, EffectSpeed(mode), editor.zones, <<>>))
  /\ UNCHANGED <<editor, past>>

\* The slider begins at 1 and is disabled while a request is under way.
MovesSlider(d, b) ==
  /\ Editing(d) /\ Enabled /\ Acts
  /\ editor' = [editor EXCEPT !.brightness = b, !.dirty = TRUE]
  /\ UNCHANGED <<devices, look, app, flight, past>>

\* The colour wells are never disabled: a colour that is chosen while a request is under
\* way is neither sent nor, on a lit device, marked as a change.
CommitsColour(d, z, c) ==
  LET colours == [editor.zones EXCEPT ![z] = c]
      sends == Enabled /\ DisplayedPower(d)
  IN /\ Editing(d) /\ "static" \in d.modes /\ colours # editor.zones
     /\ editor' = [editor EXCEPT !.zones = colours, !.dirty = @ \/ ~DisplayedPower(d)]
     /\ IF sends
        THEN /\ Sends(lighting_request(d, "static", 0, colours, SubSeq(colours, 1, d.zones)))
             /\ past' = [past EXCEPT !.behind = @ \/ past.of # d.id]
        ELSE /\ Acts
             /\ past' = [past EXCEPT !.behind = @ \/ DisplayedPower(d)]
             /\ UNCHANGED <<devices, look, app, flight>>

\* After a resume, from the platform page, and once at the start.
Refreshes ==
  /\ flight = NoRequest
  /\ IF app.caps = NoCaps THEN UNCHANGED left ELSE Acts
  /\ flight' = [kind |-> "refresh", answer |-> "none", caps |-> NoCaps, read |-> NoItem]
  /\ UNCHANGED <<devices, look, app, editor, past>>

(***************************************************************************)
(* The daemon                                                              *)
(***************************************************************************)
\* What a request makes of a device. The zoned keyboard keeps the colours of its zones under
\* an effect, and remembers while it is dark how bright it was.
Stored(old, new) ==
  [new EXCEPT !.saved = IF new.brightness > 0 THEN new.brightness
                        ELSE IF old.brightness > 0 THEN old.brightness ELSE @]
SetPower(old, on) ==
  [old EXCEPT !.brightness = IF ~on THEN 0 ELSE IF @ > 0 THEN @ ELSE old.saved]
SetZones(old, d, r) ==
  [old EXCEPT !.mode = "static", !.brightness = r.brightness,
              !.zones = [i \in 1 .. d.zones |-> IF r.zones = <<>> THEN r.color
                                                ELSE IF Len(r.zones) = 1 THEN r.zones[1]
                                                ELSE r.zones[i]]]
SetEffect(old, r) == [old EXCEPT !.mode = r.mode, !.brightness = r.brightness, !.color = r.color]
Blank(old, d) ==
  [old EXCEPT !.mode = "static", !.brightness = 0, !.zones = [i \in 1 .. d.zones |-> NoTint]]

Shaped(d, r) ==
  LET old == look[d.id]
  IN Stored(old,
       CASE r.kind = "power" -> SetPower(old, r.enabled)
         [] r.kind = "apply" /\ r.mode = "off" ->
              IF d.backend = "enek5130" THEN Blank(old, d) ELSE SetPower(old, FALSE)
         [] r.kind = "apply" /\ r.mode = "static" -> SetZones(old, d, r)
         [] OTHER -> SetEffect(old, r))

\* LightingController::apply and set_power: what each backend takes.
Accepts(d, r) ==
  IF r.kind = "power" THEN d.backend = "zoned-wmi" /\ d.target = "keyboard"
  ELSE /\ d.backend = "enek5130" =>
            (IF r.mode = "off" THEN "static" ELSE r.mode) \in d.modes
       /\ r.mode = "static" => Len(r.zones) \in {0, 1, d.zones}
       /\ d.backend = "zoned-wmi" /\ r.mode \notin {"off", "static"} =>
            r.zones = <<>> /\ (r.mode = "breathing" => r.speed = 0)

Firmware(d) == [available |-> TRUE, mode |-> look'[d.id].mode,
                brightness |-> look'[d.id].brightness, color |-> look'[d.id].color,
                zones |-> Draft(look'[d.id].zones)]

\* The device is looked for anew; the answer of the zoned keyboard is its state.
Serves ==
  LET d == DeviceOf(flight.id)
  IN /\ flight.kind \in {"apply", "power"} /\ flight.answer = "none"
     /\ IF Accepts(d, flight)
        THEN /\ look' = [look EXCEPT ![d.id] = Shaped(d, flight)]
             /\ flight' = [flight EXCEPT !.answer = "done",
                                         !.state = IF d.readable THEN Firmware(d) ELSE NoItem]
             /\ past' = [past EXCEPT !.altered = @ \ {d.id}]
        ELSE flight' = [flight EXCEPT !.answer = "refused"] /\ UNCHANGED <<look, past>>
     /\ UNCHANGED <<devices, app, editor, left>>

Disturbs ==
  left.disturbances > 0 /\ left' = [left EXCEPT !.disturbances = @ - 1]

\* The lock is busy, the device does not answer, or a write fails half way.
ServingFails ==
  LET d == DeviceOf(flight.id)
  IN /\ flight.kind \in {"apply", "power"} /\ flight.answer = "none" /\ Disturbs
     /\ \/ UNCHANGED <<look, past>>
        \/ /\ look' = [look EXCEPT ![d.id].brightness = IF @ = Full THEN 1 ELSE Full]
           /\ past' = [past EXCEPT !.altered = @ \cup {d.id}]
     /\ flight' = [flight EXCEPT !.answer = "failed"]
     /\ UNCHANGED <<devices, app, editor>>

\* RemoveAt of SequencesExt, without the concatenation.
Without(list, i) == [j \in 1 .. Len(list) - 1 |-> IF j < i THEN list[j] ELSE list[j + 1]]

\* CAPS: a target whose queries fail is not in the list.
ReadsCaps ==
  /\ flight.kind = "refresh" /\ flight.answer = "none" /\ flight.caps = NoCaps
  /\ \/ flight' = [flight EXCEPT !.caps = devices] /\ UNCHANGED left
     \/ \E i \in DOMAIN devices :
          flight' = [flight EXCEPT !.caps = Without(devices, i)] /\ Disturbs
  /\ UNCHANGED <<devices, look, app, editor, past>>

\* keyboard_lighting_snapshot: RGB GET where the list has the zoned keyboard. If that fails,
\* the rest of the refresh is shown all the same.
ReadsKeyboard ==
  LET zoned == {d \in {flight.caps[i] : i \in DOMAIN flight.caps} : IsReadableKeyboard(d)}
      some == \E i \in DOMAIN flight.caps : flight.caps[i].target = "keyboard"
  IN /\ flight.kind = "refresh" /\ flight.answer = "none" /\ flight.caps # NoCaps
     /\ UNCHANGED <<devices, look, app, editor>>
     /\ \/ /\ zoned = {}
           /\ flight' = [flight EXCEPT !.answer = "done",
                                       !.read = [DefaultLighting EXCEPT !.available = some]]
           /\ UNCHANGED <<left, past>>
        \/ \E d \in zoned :
             /\ flight' = [flight EXCEPT !.answer = "done", !.read = Firmware(d)]
             /\ past' = [past EXCEPT !.altered = @ \ {d.id}]
             /\ UNCHANGED left
        \/ /\ zoned # {} /\ Disturbs
           /\ flight' = [flight EXCEPT !.answer = "done"]
           /\ UNCHANGED past

RefreshFails ==
  /\ flight.kind = "refresh" /\ flight.answer = "none" /\ Disturbs
  /\ flight' = [flight EXCEPT !.answer = "failed"]
  /\ UNCHANGED <<devices, look, app, editor, past>>

(***************************************************************************)
(* The answer                                                              *)
(***************************************************************************)
\* An answer that should carry the keyboard's state and does not is an error too.
Succeeds ==
  /\ flight.answer = "done"
  /\ flight.kind = "power" \/ (flight.kind = "apply" /\ flight.readable) => flight.state # NoItem

\* apply_capability_snapshot: a state that could not be read stays as it was shown.
Discovered ==
  [app EXCEPT !.caps = flight.caps, !.lighting = IF flight.read = NoItem THEN @ ELSE flight.read]

LastRequest == [id |-> flight.id, mode |-> flight.mode, color |-> flight.color,
                brightness |-> flight.brightness, zones |-> flight.zones]

\* Bug: a remembered request is not replaced by the next one for its device.
BugKeepsBoth(last) == last \cup {LastRequest}
Retained(last) == {r \in last : r.id # flight.id} \cup {LastRequest}

\* A readable device's state is shown, any other device's request is remembered.
Applied ==
  CASE flight.kind = "refresh" -> Discovered
    [] flight.kind = "power" \/ (flight.kind = "apply" /\ flight.readable) ->
         [app EXCEPT !.lighting = flight.state]
    [] OTHER -> [app EXCEPT !.last = Retained(@)]

\* The devices whose state has been read since a request of theirs was last remembered.
ReadSince ==
  CASE flight.kind = "refresh" ->
         past.read \cup (IF flight.read = NoItem THEN {}
                        ELSE {d.id : d \in {e \in ToSet(flight.caps) : IsReadableKeyboard(e)}})
    [] flight.kind = "power" \/ (flight.kind = "apply" /\ flight.readable) ->
         past.read \cup {flight.id}
    [] OTHER -> past.read \ {flight.id}

Answers ==
  /\ flight.kind # "none" /\ flight.answer # "none"
  /\ Shows(IF Succeeds THEN Applied ELSE app, editor,
           [past EXCEPT !.behind = @ \/ (~Succeeds /\ flight.kind # "refresh"),
                        !.read = IF Succeeds THEN ReadSince ELSE @])
  /\ flight' = NoRequest
  /\ UNCHANGED <<devices, look, left>>

\* The keyboard's own keys, another client of the daemon, the restore after a suspend.
OthersChange(id) ==
  /\ Disturbs
  /\ \E new \in {[look[id] EXCEPT !.brightness = 0], [look[id] EXCEPT !.mode = "neon"]} :
       new # look[id] /\ look' = [look EXCEPT ![id] = new]
  /\ past' = [past EXCEPT !.altered = @ \cup {id}]
  /\ UNCHANGED <<devices, app, editor, flight>>

(***************************************************************************)
(* Specification                                                           *)
(***************************************************************************)
EditorInit ==
  /\ devices \in Machines
  /\ \E md \in {"static", "breathing"}, b \in {0, Full}, c \in Tints :
       look = [id \in DeviceIds |-> [mode |-> md, brightness |-> b, color |-> c, saved |-> Full,
                                    zones |-> [i \in DOMAIN DefaultTints |-> c]]]
  /\ app = [caps |-> NoCaps, lighting |-> DefaultLighting, last |-> {}]
  /\ editor = [open |-> FALSE, index |-> 1, brightness |-> Full, zones |-> DefaultTints,
               dirty |-> FALSE, observed |-> NoItem]
  /\ flight = NoRequest
  /\ left = [presses |-> Presses, disturbances |-> Disturbances]
  /\ past = [of |-> NoItem, behind |-> FALSE, altered |-> DeviceIds, read |-> {}]

EditorNext ==
  \/ \E i \in DOMAIN Tabs(app.caps) : ClickTab(i)
  \/ \E d \in {devices[i] : i \in DOMAIN devices} :
       \/ PressOn(d) \/ PressOff(d)
       \/ \E mode \in d.modes : PressMode(d, mode)
       \/ \E b \in 1 .. Full : MovesSlider(d, b)
       \/ \E z \in 1 .. d.zones, c \in Tints : CommitsColour(d, z, c)
  \/ Refreshes \/ ReadsCaps \/ ReadsKeyboard \/ RefreshFails
  \/ Serves \/ ServingFails \/ Answers
  \/ \E id \in DeviceIds : OthersChange(id)

EditorSpec == EditorInit /\ [][EditorNext]_editorVars

(***************************************************************************)
(* Properties                                                              *)
(***************************************************************************)
\* Whatever the list of devices has become since the tab was chosen, a request that the
\* window makes is one its device takes: as many colours as it has zones, a mode it has, a
\* speed that goes with the mode, power where there is a call for it (lighting.rs).
RequestsAreAccepted == flight.kind # "none" => flight.answer # "refused"

\* What makes it so: a request that nobody has served yet is one that the device of its id
\* takes, whatever is selected by now.
AnswerOK ==
  flight = NoRequest \/ (/\ flight = [f \in DOMAIN flight |-> flight[f]]
                        /\ {"kind", "answer"} \subseteq DOMAIN flight
                        /\ flight.answer \in {"none", "done", "failed"})
RequestFits ==
  flight.kind \in {"apply", "power"} /\ flight.answer = "none" =>
    \E i \in DOMAIN devices : devices[i].id = flight.id /\ Accepts(devices[i], flight)
EditorIInv == devices \in Machines /\ AnswerOK /\ RequestFits

\* Nothing is under way for the device, and what the window knows of it is the newest it had:
\* a request that was remembered is kept when the device can be read again, and is shown once
\* more when it no longer can.
Quiet(d) ==
  /\ flight = NoRequest /\ d # NoItem /\ d.id \notin past.altered
  /\ d.id \in past.read => Readable(app, d)

\* What the window says of a device it knows is what the device does, whether it was read
\* back or only remembered, unless somebody else has changed it since or a write failed half
\* way (app.rs, ControlDock and apply_control_update). A remembered look of brightness 0 is
\* shown as on: such a request is made when the draft of a dark keyboard has gone astray.
Astray(d) == ~Readable(app, d) /\ \E r \in LastApplied(app, d) : r.brightness = 0
ShownIsTrue ==
  LET d == Selected(app, editor.index)
  IN Quiet(d) /\ IsKnown(d) =>
       /\ DisplayedPower(d) = (look[d.id].brightness > 0) \/ Astray(d)
       /\ DisplayedMode(d) = look[d.id].mode

\* A draft without changes of its own is the look of the device it is shown for, so that a
\* press of one control leaves the others as they are: unless it is another device's, an edit
\* was made while a request was under way or went to the device that has taken the tab's
\* place, or a request has failed (app.rs, ControlDock).
CleanDraftIsTheLook ==
  LET d == Selected(app, editor.index)
  IN Quiet(d) /\ IsKnown(d) /\ past.of = d.id /\ ~past.behind /\ ~editor.dirty
     /\ look[d.id].mode = "static" /\ look[d.id].brightness > 0 =>
       /\ editor.brightness = look[d.id].brightness
       /\ \A z \in 1 .. d.zones : editor.zones[z] = look[d.id].zones[z]

\* What a press sends to a device is that device's draft. It is not: the tab that was chosen
\* becomes another device's when a target is missing from a refreshed list, and the draft of
\* the one stays in the editor of the other.
DraftsAreKeptPerTarget ==
  [][flight = NoRequest /\ flight'.kind = "apply" => past.of = flight'.id]_editorVars

(***************************************************************************)
(* What makes it so                                                        *)
(***************************************************************************)
\* No machine has a second keyboard beside the zoned one.
OneKeyboard ==
  \A m \in Machines : \A i, j \in DOMAIN m :
    m[i].readable /\ m[j].target = "keyboard" => i = j

Lights == {devices[i] : i \in DOMAIN devices}
Lists == Seq(Lights)
Displays == [mode : Modes, brightness : 0 .. Full, color : Hues, saved : 0 .. Full,
          zones : Seq(Hues)]
Remembered == [id : DeviceIds, mode : Modes \cup {"off"}, color : Hues,
               brightness : 0 .. Full, zones : Seq(Hues)]
AnswersOf == {"none", "done", "failed"}
Applies ==
  [kind : {"apply"}, id : DeviceIds, readable : BOOLEAN, mode : Modes \cup {"off"},
   brightness : 0 .. Full, speed : {0, 5}, color : Hues, zones : Seq(Hues),
   answer : AnswersOf, state : States \cup {NoItem}]
Powers ==
  [kind : {"power"}, id : DeviceIds, enabled : BOOLEAN, answer : AnswersOf,
   state : States \cup {NoItem}]
Reads ==
  [kind : {"refresh"}, answer : AnswersOf, caps : Lists \cup {NoCaps},
   read : States \cup {NoItem}]

Apps == [caps : Lists \cup {NoCaps}, lighting : States, last : SUBSET Remembered]
Editors == [open : BOOLEAN, index : Nat \ {0}, brightness : 0 .. Full, zones : Wells,
            dirty : BOOLEAN, observed : Readings \cup {NoItem}]
Pasts == [of : DeviceIds \cup {NoItem}, behind : BOOLEAN, altered : SUBSET DeviceIds,
          read : SUBSET DeviceIds]

LooksOK ==
  look \in [DeviceIds -> Displays] /\ \A d \in Lights : Len(look[d.id].zones) >= d.zones
ViewTypeOK ==
  /\ LooksOK /\ app \in Apps /\ editor \in Editors /\ past \in Pasts
  /\ flight \in {NoRequest} \cup Applies \cup Powers \cup Reads
  /\ left \in [presses : Nat, disturbances : Nat]

Agrees(state, d) ==
  /\ state.mode = look[d.id].mode /\ state.brightness = look[d.id].brightness
  /\ \A z \in 1 .. d.zones : state.zones[z] = look[d.id].zones[z]
Describes(r, d) ==
  /\ look[d.id].mode = IF r.mode = "off" THEN "static" ELSE r.mode
  /\ look[d.id].brightness = IF r.mode = "off" THEN 0 ELSE r.brightness
  /\ r.mode = "static" => \A z \in 1 .. d.zones : r.zones[z] = look[d.id].zones[z]

\* The request under way is for the device, or brings the device's state.
Acted(d) == flight.kind \in {"apply", "power"} /\ flight.id = d.id
Tells(d) ==
  /\ flight.kind = "refresh" /\ flight.read # NoItem
  /\ d.readable /\ \E i \in DOMAIN flight.caps : flight.caps[i] = d
Coming(d) == Tells(d) \/ (Acted(d) /\ flight.answer = "done")

LightingIsTrue ==
  \A d \in Lights : d.readable /\ app.lighting.available =>
    /\ d.id \in past.read
    /\ d.id \notin past.altered /\ ~Coming(d) => Agrees(app.lighting, d)

RequestIsOwn ==
  \A d \in Lights : Acted(d) =>
    /\ flight.kind = "power" => d.readable
    /\ flight.kind = "apply" =>
         /\ flight.readable = Readable(app, d)
         /\ flight.mode = "static" => Len(flight.zones) = d.zones
         /\ flight.mode = "off" => ~d.readable

AnswerIsTrue ==
  /\ flight.kind = "refresh" /\ flight.read # NoItem =>
       flight.answer = "done" /\ flight.caps # NoCaps
  /\ \A d \in Lights :
       /\ Acted(d) /\ flight.answer = "done" =>
            /\ d.readable => flight.state # NoItem /\ flight.state.available
            /\ d.id \notin past.altered =>
                 /\ d.readable => Agrees(flight.state, d)
                 /\ flight.kind = "apply" => Describes(flight, d)
            /\ flight.kind = "apply" /\ flight.mode = "static" /\ d.readable =>
                 /\ flight.state.mode = "static"
                 /\ flight.state.brightness = flight.brightness
                 /\ \A z \in 1 .. d.zones : flight.state.zones[z] = flight.zones[z]
       /\ Tells(d) =>
            flight.read.available /\ (d.id \notin past.altered => Agrees(flight.read, d))
       /\ flight.kind = "refresh" /\ flight.read # NoItem /\ d.readable /\ ~Tells(d) =>
            ~flight.read.available

RememberedIsTrue ==
  \A r \in app.last :
    /\ \A q \in app.last : q.id = r.id => q = r
    /\ \A d \in Lights : r.id = d.id =>
         /\ r.mode = "static" => Len(r.zones) = d.zones
         /\ d.id \notin past.altered \cup past.read /\ ~Coming(d) => Describes(r, d)

ObservedIsShown == editor.observed = Observed(app, editor)

\* The draft is the device's own and has no changes of its own.
Clean(d) == past.of = d.id /\ ~past.behind /\ ~editor.dirty
DraftIs(brightness, zones, d) ==
  editor.brightness = brightness /\ \A z \in 1 .. d.zones : editor.zones[z] = zones[z]
DraftIsObserved(d) ==
  LET read == editor.observed.read
  IN editor.observed # NoItem /\ editor.observed.id = d.id =>
       DraftIs(IF read.brightness > 0 THEN read.brightness ELSE editor.brightness, read.zones, d)
IsStatic == flight.kind = "apply" /\ flight.mode = "static"
DraftIsRequested(d) == IsStatic /\ DraftIs(flight.brightness, flight.zones, d)

DraftIsOwn ==
  \A d \in Lights : Clean(d) =>
    /\ DraftIsObserved(d) \/ (Acted(d) /\ DraftIsRequested(d))
    /\ Acted(d) /\ IsStatic /\ ~flight.readable => DraftIsRequested(d)
    /\ ~Acted(d) /\ d.id \notin past.read =>
         \A r \in app.last : r.id = d.id /\ r.mode = "static" => DraftIs(r.brightness, r.zones, d)

ViewIsTrue ==
  /\ ViewTypeOK /\ LightingIsTrue /\ RequestIsOwn /\ AnswerIsTrue /\ RememberedIsTrue
  /\ ObservedIsShown /\ DraftIsOwn

=============================================================================
