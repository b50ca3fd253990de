------------------------------ MODULE KernelRgb ------------------------------
(* The zoned keyboard of the kernel module: the stores of `effect`, `zones` and  *)
(* `power` as transactions of firmware calls with their rollback, the cache that *)
(* a resume replays, and the quirks of the firmware (asense_rgb_policy.h).       *)
EXTENDS Naturals, Sequences

CONSTANTS
  RgbColours, \* colours a user asks for
  Black,      \* the colour of records that carry none
  Brightest,  \* the highest brightness
  RgbTrouble, \* bound: failing or ignored calls and hotkeys per transaction
  RgbStores   \* bound: stores of one behaviour

ASSUME RgbAssumption ==
  /\ Black \notin RgbColours /\ RgbTrouble \in Nat \ {0} /\ RgbStores \in Nat
  /\ Brightest \in Nat \ {0}

Shades == RgbColours \cup {Black}
Levels == 0..Brightest
ZoneIds == 1..2

Effect == [mode : {"static", "wave"}, level : Levels, colour : Shades, odd : BOOLEAN]
ZoneStates == [colours : [ZoneIds -> Shades], level : Levels]

\* asense_zoned_quirks: PHN16-72, PHN14-51, AN17-51, AN14-41, AN16-51.
Quirks == {{"preamble"}, {}, {"stale", "shadow"}, {"boot"}, {"global"}}

VARIABLES
  light,    \* the firmware: [quirks, effect, zones]
  rgb,      \* struct asense_rgb with the transaction that holds its lock
  was       \* history: the look before this transaction, the last confirmed one

rgbVars == <<light, rgb, was>>

Global == "global" \in light.quirks

------------------------------------------------------------------------------
(* asense_rgb_policy.h. An `odd` record is one that the firmware reports and *)
(* the driver would not write: stale parameters, or the record after a boot. *)

ReadValid(e) ==
  \/ ~e.odd
  \/ "stale" \in light.quirks /\ e.mode = "static"
  \/ "boot" \in light.quirks /\ e.mode = "wave" /\ e.colour = Black

StaticEffect(z) ==
  [mode |-> "static", level |-> z.level, odd |-> FALSE,
   colour |-> IF Global THEN z.colours[1] ELSE Black]

Matches(expected, actual, zoned) ==
  /\ ~expected.odd /\ ReadValid(actual)
  /\ expected.mode = actual.mode /\ expected.level = actual.level
  /\ ("stale" \in light.quirks /\ expected.mode = "static") \/ ~actual.odd
  /\ \/ zoned /\ expected.mode = "static" /\ "shadow" \in light.quirks
     \/ expected.colour = actual.colour

------------------------------------------------------------------------------
(* Firmware calls.                                                          *)

\* asense_read_rgb_state: a global static colour stands in the effect record.
ReadZones(l) ==
  [colours |-> IF "global" \in l.quirks /\ l.effect.mode = "static"
               THEN [z \in ZoneIds |-> IF z = 1 THEN l.effect.colour ELSE Black]
               ELSE l.zones,
   level |-> l.effect.level]

\* asense_snapshot_rgb_state: an odd record is never replayed.
Snapshot ==
  IF light.effect.odd THEN StaticEffect(ReadZones(light)) ELSE light.effect

EffectCall(e) == [call |-> "effect", effect |-> e, zoned |-> FALSE]
ZoneCall(z, c) == [call |-> "zone", zone |-> z, colour |-> c]

\* asense_write_zones; "check" reads the static commit back.
Enable == [call |-> "enable"]
Paint(z, i) == ZoneCall(i, z.colours[i])
Commit(z) == [EffectCall(StaticEffect(z)) EXCEPT !.zoned = ~Global]
Check(z) == [call |-> "check", effect |-> StaticEffect(z), zoned |-> ~Global]
WriteZones(z) ==
  IF Global THEN <<Commit(z), Check(z)>>
  ELSE IF "preamble" \in light.quirks
  THEN <<Enable, Enable, Paint(z, 1), Paint(z, 2), Commit(z), Check(z)>>
  ELSE <<Paint(z, 1), Paint(z, 2), Commit(z), Check(z)>>

\* What the firmware makes of a call: AN17-51 keeps old parameters in a static
\* record, and shows a colour of the zones in it.
Carries(call) ==
  \/ call.call = "zone" /\ light' = [light EXCEPT !.zones[call.zone] = call.colour]
  \/ /\ call.call = "effect"
     /\ \E odd \in BOOLEAN, shade \in Shades :
          /\ odd => "stale" \in light.quirks /\ call.effect.mode = "static"
          /\ \/ shade = call.effect.colour
             \/ "shadow" \in light.quirks /\ call.zoned /\ shade = light.zones[1]
          /\ light' = [light EXCEPT !.effect = [call.effect EXCEPT !.odd = odd, !.colour = shade]]
  \/ call.call \notin {"zone", "effect"} /\ UNCHANGED light

\* What the keyboard shows.
Look(l) ==
  IF l.effect.mode = "wave"
  THEN [mode |-> "wave", level |-> l.effect.level, colours |-> l.effect.colour]
  ELSE [mode |-> "static", level |-> l.effect.level,
        colours |-> IF "global" \in l.quirks THEN l.effect.colour ELSE l.zones]

------------------------------------------------------------------------------
(* Transactions. `expect` is what the last readback is compared with.       *)

Ended(r, result) ==
  [r EXCEPT !.stage = "idle", !.kind = "none", !.todo = <<>>, !.expect = {}, !.before = {},
            !.result = result]

\* The state before is read under the lock; without it nothing is written.
Start(kind, todo, expect, last) ==
  /\ rgb.stage = "idle" /\ was.stores < RgbStores
  /\ ReadValid(light.effect)
  /\ rgb' = [rgb EXCEPT
       !.stage = "change", !.kind = kind, !.todo = todo, !.expect = expect,
       !.before = [effect |-> Snapshot, zones |-> ReadZones(light)],
       !.last = last, !.trouble = 0, !.result = "none"]
  /\ was' = [was EXCEPT !.look = Look([light EXCEPT !.effect = Snapshot]),
                         !.stores = @ + 1]
  /\ UNCHANGED light

EffectStore ==
  \E mode \in {"static", "wave"}, level \in Levels, colour \in Shades :
    LET e == [mode |-> mode, level |-> level, colour |-> colour, odd |-> FALSE]
    IN Start("effect", <<EffectCall(e)>>,
             [effect |-> e, zoned |-> FALSE, zones |-> {}],
             rgb.last)

ZonesStore ==
  \E colours \in [ZoneIds -> Shades], level \in Levels :
    LET z == [colours |-> colours, level |-> level]
    IN /\ Global => colours[2] = Black
       /\ Start("zones", WriteZones(z),
                [effect |-> StaticEffect(z), zoned |-> TRUE, zones |-> {z}],
                rgb.last)

\* Off keeps the brightness for the next On; a static state is rewritten as zones.
PowerStore ==
  \E on \in BOOLEAN :
    LET old == Snapshot
        level == IF ~on THEN 0 ELSE IF old.level = 0 THEN rgb.last ELSE old.level
        z == [ReadZones(light) EXCEPT !.level = level]
        e == IF old.mode = "static" THEN StaticEffect(z)
             ELSE [old EXCEPT !.level = level]
    IN Start("power",
             IF on /\ old.mode = "static" THEN WriteZones(z) ELSE <<EffectCall(e)>>,
             [effect |-> e, zoned |-> old.mode = "static", zones |-> {z}],
             IF ~on /\ old.level > 0 THEN old.level ELSE rgb.last)

BugUndo(r) ==
  IF r.stage = "change" /\ r.kind # "effect"
  THEN [r EXCEPT !.stage = "undoZones", !.todo = WriteZones(r.before.zones)]
  ELSE IF r.stage = "change"
  THEN [r EXCEPT !.stage = "undoEffect", !.todo = <<EffectCall(r.before.effect)>>]
  ELSE Ended(r, "error")

\* A step of a store has failed: the zones are rolled back, then the effect, and
\* the effect also when the zones could not be. A resume has nothing to undo.
Undo(r) ==
  IF r.stage = "change" /\ r.kind # "effect"
  THEN [r EXCEPT !.stage = "undoZones", !.todo = WriteZones(r.before.zones)]
  ELSE IF r.stage \in {"change", "undoZones"}
  THEN [r EXCEPT !.stage = "undoEffect", !.todo = <<EffectCall(r.before.effect)>>]
  ELSE Ended(r, "error")

Busy == rgb.stage \in {"change", "undoZones", "undoEffect", "resume"}

\* One thing may go wrong on the way to the new state, and more on the way back.
MayGoWrong ==
  rgb.trouble < IF rgb.stage \in {"change", "resume"} THEN 1 ELSE RgbTrouble

Troubled(r) == [r EXCEPT !.trouble = @ + 1]

\* The next call of the transaction is carried out.
Call ==
  /\ Busy /\ rgb.todo # <<>>
  /\ LET call == Head(rgb.todo)
         done == [rgb EXCEPT !.todo = Tail(@)]
     IN IF call.call = "check"
        THEN /\ rgb' = IF Matches(call.effect, light.effect, call.zoned)
                       THEN done ELSE Undo(rgb)
             /\ UNCHANGED light
        ELSE Carries(call) /\ rgb' = done
  /\ UNCHANGED was

\* It fails, before or after it took effect, or the firmware ignores it.
CallFails ==
  /\ Busy /\ rgb.todo # <<>> /\ MayGoWrong
  /\ LET call == Head(rgb.todo)
     IN \/ rgb' = Troubled(Undo(rgb)) /\ (Carries(call) \/ UNCHANGED light)
        \/ /\ call.call \in {"effect", "zone"}
           /\ rgb' = Troubled([rgb EXCEPT !.todo = Tail(@)])
           /\ UNCHANGED light
  /\ UNCHANGED was

BugCommitted(r) ==
  [Ended(r, "ok") EXCEPT
     !.valid = TRUE,
     !.cache = IF r.kind = "power" THEN @
               ELSE [effect |-> light.effect, zones |-> ReadZones(light)],
     !.last = IF r.kind \in {"effect", "zones"} /\ r.expect.effect.level > 0
              THEN r.expect.effect.level ELSE @]

Committed(r) ==
  [Ended(r, "ok") EXCEPT
     !.valid = TRUE,
     !.cache = [effect |-> light.effect, zones |-> ReadZones(light)],
     !.last = IF r.kind \in {"effect", "zones"} /\ r.expect.effect.level > 0
              THEN r.expect.effect.level ELSE @]

\* The readback of the whole state, then the cache.
Verify ==
  /\ rgb.stage \in {"change", "resume"} /\ rgb.todo = <<>>
  /\ IF /\ Matches(rgb.expect.effect, light.effect, rgb.expect.zoned)
        /\ rgb.expect.zones # {} => ReadZones(light) \in rgb.expect.zones
     THEN /\ rgb' = Committed(rgb)
          /\ was' = [was EXCEPT !.confirmed = Look(light)]
     ELSE rgb' = Undo(rgb) /\ UNCHANGED was
  /\ UNCHANGED light

VerifyFails ==
  /\ rgb.stage \in {"change", "resume"} /\ rgb.todo = <<>>
  /\ MayGoWrong
  /\ rgb' = Troubled(Undo(rgb))
  /\ UNCHANGED <<light, was>>

RolledBack ==
  /\ rgb.stage \in {"undoZones", "undoEffect"} /\ rgb.todo = <<>>
  /\ rgb' = Undo(rgb)
  /\ UNCHANGED <<light, was>>

------------------------------------------------------------------------------
(* Sleep, and the firmware's own keys.                                      *)

\* Suspend waits for the lock; the lights come back as the firmware starts them.
Suspend ==
  /\ rgb.stage = "idle"
  /\ rgb' = [rgb EXCEPT !.stage = "asleep"]
  /\ \/ UNCHANGED light
     \/ light' = [light EXCEPT
          !.zones = [z \in ZoneIds |-> Black],
          !.effect = [mode |-> "static", level |-> 1, colour |-> Black, odd |-> FALSE]]
  /\ UNCHANGED was

RgbResume ==
  /\ rgb.stage = "asleep"
  /\ IF ~rgb.valid THEN rgb' = [rgb EXCEPT !.stage = "idle"]
     ELSE LET static == rgb.cache.effect.mode = "static"
              e == IF static THEN StaticEffect(rgb.cache.zones) ELSE rgb.cache.effect
          IN rgb' = [rgb EXCEPT
               !.stage = "resume", !.kind = "resume", !.trouble = 0, !.result = "none",
               !.todo = IF static THEN WriteZones(rgb.cache.zones) ELSE <<EffectCall(e)>>,
               !.expect = [effect |-> e, zoned |-> static,
                           zones |-> IF static THEN {rgb.cache.zones} ELSE {}]]
  /\ was' = [was EXCEPT !.look = Look(light)]
  /\ UNCHANGED light

\* A key of the keyboard changes the brightness behind the driver's back.
Hotkey ==
  /\ rgb.stage # "asleep"
  /\ Busy => MayGoWrong
  /\ rgb' = IF Busy THEN Troubled(rgb) ELSE rgb
  /\ \E level \in Levels : light' = [light EXCEPT !.effect.level = level]
  /\ UNCHANGED was

------------------------------------------------------------------------------

\* asense_probe_gaming: only a record that could be written is cached.
RgbInit ==
  /\ light \in [quirks : Quirks, zones : {[z \in ZoneIds |-> Black]},
                effect : [mode : {"static", "wave"}, level : {1}, colour : {Black},
                          odd : BOOLEAN]]
  /\ ReadValid(light.effect)
  /\ rgb = [stage |-> "idle", kind |-> "none", todo |-> <<>>, expect |-> {}, before |-> {},
            result |-> "none", trouble |-> 0, valid |-> ~light.effect.odd,
            cache |-> [effect |-> Snapshot, zones |-> ReadZones(light)],
            last |-> IF light.effect.level = 0 THEN Brightest ELSE light.effect.level]
  /\ was = [look |-> Look(light), confirmed |-> Look(light), stores |-> 0]

RgbNext ==
  \/ EffectStore \/ ZonesStore \/ PowerStore
  \/ Call \/ CallFails \/ Verify \/ VerifyFails \/ RolledBack
  \/ Suspend \/ RgbResume \/ Hotkey

RgbSpec == RgbInit /\ [][RgbNext]_rgbVars

------------------------------------------------------------------------------

RgbShape ==
  /\ rgb = [stage |-> rgb.stage, kind |-> rgb.kind, todo |-> rgb.todo, expect |-> rgb.expect,
            before |-> rgb.before, result |-> rgb.result, trouble |-> rgb.trouble,
            valid |-> rgb.valid, cache |-> rgb.cache, last |-> rgb.last]
  /\ was = [look |-> was.look, confirmed |-> was.confirmed, stores |-> was.stores]

Written == {e \in Effect : ~e.odd}
RgbCalls ==
  [call : {"effect", "check"}, effect : Written, zoned : BOOLEAN]
  \cup [call : {"zone"}, zone : ZoneIds, colour : Shades] \cup {Enable}

RgbTypeOK ==
  /\ light \in [quirks : Quirks, effect : Effect, zones : [ZoneIds -> Shades]]
  /\ rgb.stage \in {"idle", "change", "undoZones", "undoEffect", "resume", "asleep"}
  /\ rgb.todo \in Seq(RgbCalls)
  /\ rgb.cache \in [effect : Effect, zones : ZoneStates]
  /\ rgb.last \in Levels \ {0} /\ rgb.trouble \in 0..RgbTrouble
  /\ was.stores \in 0..RgbStores

(* What makes a store and a resume end as they should.                            *)

\* The firmware has taken the record, as far as its quirks let it.
Took(e, zoned) ==
  /\ light.effect.mode = e.mode /\ light.effect.level = e.level
  /\ light.effect.odd => "stale" \in light.quirks /\ e.mode = "static"
  /\ light.effect.colour = e.colour \/ (zoned /\ "shadow" \in light.quirks)

EffectLeft(e) ==
  \/ rgb.todo = <<EffectCall(e)>>
  \/ rgb.todo = <<>> /\ Took(e, FALSE)

Painted(z, i) == Global \/ light.zones[i] = z.colours[i]

\* What is left of asense_write_zones, and that what is not left has been done.
ZonesLeft(z) ==
  \/ /\ ~Global
     /\ \/ rgb.todo = <<Enable, Enable, Paint(z, 1), Paint(z, 2), Commit(z), Check(z)>>
        \/ rgb.todo = <<Enable, Paint(z, 1), Paint(z, 2), Commit(z), Check(z)>>
        \/ rgb.todo = <<Paint(z, 1), Paint(z, 2), Commit(z), Check(z)>>
        \/ rgb.todo = <<Paint(z, 2), Commit(z), Check(z)>> /\ Painted(z, 1)
  \/ /\ Painted(z, 1) /\ Painted(z, 2)
     /\ \/ rgb.todo = <<Commit(z), Check(z)>>
        \/ rgb.todo \in {<<Check(z)>>, <<>>} /\ Took(StaticEffect(z), ~Global)

\* A colour in the static record leaves no second zone.
Fits(z) == z \in ZoneStates /\ (Global => z.colours[2] = Black)

\* Nothing has gone wrong on the way to what is expected.
OnTheWay ==
  LET e == rgb.expect.effect
  IN \/ \E z \in ZoneStates :
          /\ Fits(z) /\ e = StaticEffect(z) /\ rgb.expect.zoned /\ rgb.expect.zones = {z}
          /\ ZonesLeft(z)
     \/ /\ EffectLeft(e)
        /\ \/ rgb.expect.zones = {}
           \/ \E z \in ZoneStates :
                /\ rgb.expect.zones = {z} /\ z.level = e.level
                /\ IF Global /\ e.mode = "static"
                   THEN z.colours[1] = e.colour /\ z.colours[2] = Black
                   ELSE z.colours = light.zones

\* The way back is taken only after trouble, and with no more of it leads to where the
\* store began.
OnTheWayBack ==
  /\ rgb.trouble > 0
  /\ rgb.trouble = 1 =>
       IF rgb.stage = "undoZones" THEN ZonesLeft(rgb.before.zones)
       ELSE /\ EffectLeft(rgb.before.effect)
            /\ Painted(rgb.before.zones, 1) /\ Painted(rgb.before.zones, 2)

\* The look of an effect and zones.
LookOf(e, colours) ==
  [mode |-> e.mode, level |-> e.level,
   colours |-> IF e.mode = "wave" \/ Global THEN e.colour ELSE colours]

BeforeIsKnown ==
  /\ rgb.before.effect \in Written /\ rgb.before.zones \in ZoneStates
  /\ was.look = LookOf(rgb.before.effect, rgb.before.zones.colours)
  /\ rgb.stage = "change" /\ rgb.kind = "effect" =>
       /\ Painted(rgb.before.zones, 1) /\ Painted(rgb.before.zones, 2)
       /\ rgb.todo \in {<<EffectCall(rgb.expect.effect)>>, <<>>}

\* What a resume writes, and that it is the look that was confirmed last.
Replayed ==
  IF rgb.cache.effect.mode = "static" THEN StaticEffect(rgb.cache.zones) ELSE rgb.cache.effect
CacheIsConfirmed ==
  rgb.valid =>
    /\ was.confirmed = LookOf(Replayed, rgb.cache.zones.colours)
    /\ Replayed \in Written
    /\ rgb.cache.effect.mode = "static" => Fits(rgb.cache.zones)

ReplayIsExpected ==
  /\ rgb.valid /\ rgb.expect.effect = Replayed
  /\ rgb.expect.zones = IF rgb.cache.effect.mode = "static" THEN {rgb.cache.zones} ELSE {}

ExpectIsWritten ==
  /\ rgb.expect.effect \in Written
  /\ rgb.expect.zones # {} => \E z \in ZoneStates : rgb.expect.zones = {z}

RgbIInv ==
  /\ RgbShape /\ RgbTypeOK /\ CacheIsConfirmed
  /\ Busy => ExpectIsWritten
  /\ rgb.stage \in {"change", "resume"} /\ rgb.trouble = 0 => OnTheWay
  /\ rgb.stage \in {"undoZones", "undoEffect"} => OnTheWayBack
  /\ rgb.stage \in {"change", "undoZones", "undoEffect"} => BeforeIsKnown
  /\ rgb.stage = "resume" => ReplayIsExpected

\* What a store asked for, as a look.
Wanted ==
  LET e == rgb.expect.effect
  IN IF e.mode = "wave"
     THEN [mode |-> "wave", level |-> e.level, colours |-> e.colour]
     ELSE [mode |-> "static", level |-> e.level,
           colours |-> IF Global THEN e.colour
                       ELSE IF rgb.expect.zones = {} THEN light.zones
                       ELSE (CHOOSE z \in rgb.expect.zones : TRUE).colours]

\* A store ends with the whole look it was asked for, or with the one before it if
\* no more than one thing went wrong (zones_store, power_store, effect_store).
StoreEndsWhole ==
  [][/\ rgb.stage \in {"change", "undoZones", "undoEffect"} /\ rgb'.stage = "idle"
     => \/ rgb'.result = "ok" /\ Look(light') = Wanted
        \/ /\ rgb'.result = "error"
           /\ rgb'.trouble <= 1 => Look(light') = was.look]_rgbVars

\* After a resume without trouble the keyboard shows what was confirmed last.
ResumeRestoresLast ==
  [][rgb.stage = "resume" /\ rgb'.stage = "idle" /\ rgb'.trouble = 0
     => rgb'.result = "ok" /\ Look(light') = was.confirmed]_rgbVars

==============================================================================
