-------------------------- MODULE PlatformSettings --------------------------
(* A platform setting on its way to the firmware: PlatformControls writes a sysfs *)
(* file and reads it back; the kernel module turns the store into a transaction   *)
(* of firmware calls with a rollback; all calls of its three WMI devices share    *)
(* one mailbox. A second writer uses the files of another device meanwhile. The   *)
(* state that ends a successful setter is a further read of every file, and       *)
(* changes nothing.                                                               *)
EXTENDS Naturals

CONSTANTS
  OthersWrite,   \* the files that the second writer stores to
  SettingTrouble \* bound: firmware calls that go wrong

Endpoints == {"gaming", "battery", "apge"}
NoEndpoint == "none"

\* A file of each kind. A direct store ends at once when nothing changes; a checked
\* one reads the setting again even then; the logo is always written, in two calls.
Attributes == {"battery_limit", "usb_charging", "fan_mode", "boot_sound", "rear_logo"}
Endpoint(a) ==
  CASE a = "battery_limit" -> "battery"
    [] a = "usb_charging" -> "apge"
    [] OTHER -> "gaming"
Direct(a) == a \in {"battery_limit", "usb_charging", "fan_mode"}
Checked(a) == a = "boot_sound"
Gated(a) == a = "rear_logo"

\* Two values tell what was there from what is asked for.
Values == {"old", "new"}

ASSUME SettingAssumption == OthersWrite \subseteq Attributes /\ SettingTrouble \in Nat

VARIABLES
  firmware,  \* the settings, and the power gate of the logo
  mail,      \* the mailbox: the command in it and the device that holds its lock
  store,     \* per device: the store or show that holds the device's lock
  setter,    \* the setter of PlatformControls that runs in the daemon
  troubles   \* firmware calls that went wrong

settingVars == <<firmware, mail, store, setter, troubles>>

NoStore == [stage |-> "none"]
NoSetter == [phase |-> "none"]
Ended == {"done", "failed"}

------------------------------------------------------------------------------
(* The files of the kernel module.                                          *)

\* The lock of the device is taken.
Enter(a, v, stage) ==
  [stage |-> stage, attr |-> a, value |-> v, prev |-> v, placed |-> FALSE,
   doubt |-> 0, before |-> firmware[a], level |-> firmware.gate = firmware.rear_logo]

\* The command of a stage.
Command(s) ==
  [attr |-> s.attr,
   act |-> CASE s.stage \in {"show", "previous", "actual", "undoCheck"} -> "get"
             [] s.stage \in {"write", "undo"} -> "set"
             [] OTHER -> "gate",
   value |-> IF s.stage \in {"undo", "undoGate"} THEN s.prev ELSE s.value]

\* A lock of its own for every device would leave the mailbox open.
BugTransactionLock(e) == TRUE

\* asense_wmi_transaction_lock
TransactionLock(e) == mail.holder = NoEndpoint

Calling(e) == store[e].stage \notin Ended \cup {"none"}

Place(e) ==
  /\ Calling(e) /\ ~store[e].placed
  /\ TransactionLock(e)
  /\ mail' = [holder |-> e, command |-> Command(store[e])]
  /\ store' = [store EXCEPT ![e].placed = TRUE]
  /\ UNCHANGED <<firmware, setter, troubles>>

\* What the firmware makes of the command in the mailbox.
Executed(c) ==
  CASE c.act = "set" -> [firmware EXCEPT ![c.attr] = c.value]
    [] c.act = "gate" -> [firmware EXCEPT !.gate = c.value]
    [] OTHER -> firmware

At(s, stage) == [s EXCEPT !.stage = stage, !.placed = FALSE]

\* The readback is forgotten among the reasons for a rollback.
BugFail(s) ==
  At(s, IF s.stage \in {"write", "gate"} THEN "undo" ELSE "failed")

\* A call of the store failed, or a readback differs: the rollback begins or ends.
Fail(s) ==
  At(s, IF s.stage \in {"write", "gate", "actual"} THEN "undo" ELSE "failed")

\* The next stage after a call that went well and returned `value`.
Succeed(s, value) ==
  CASE s.stage = "show" -> At([s EXCEPT !.value = value], "done")
    [] s.stage = "previous" ->
         At([s EXCEPT !.prev = value],
            IF value = s.value /\ Direct(s.attr) THEN "done"
            ELSE IF value = s.value /\ Checked(s.attr) THEN "actual" ELSE "write")
    [] s.stage = "write" -> At(s, IF Gated(s.attr) THEN "gate" ELSE "actual")
    [] s.stage = "gate" -> At(s, "actual")
    [] s.stage = "actual" -> IF value = s.value THEN At(s, "done") ELSE Fail(s)
    [] s.stage = "undo" -> At(s, IF Gated(s.attr) THEN "undoGate" ELSE "undoCheck")
    [] s.stage = "undoGate" -> At(s, "undoCheck")
    [] OTHER -> At(s, "failed")

\* asense_wmi_call and its relatives: the firmware executes what is in the mailbox.
\* A call that goes wrong fails, with or without effect, or is ignored.
Run(e) ==
  /\ Calling(e) /\ store[e].placed
  /\ LET c == mail.command
         doubted == [store[e] EXCEPT !.doubt = @ + 1]
     IN \/ /\ firmware' = Executed(c)
           /\ store' = [store EXCEPT ![e] = Succeed(store[e], firmware[c.attr])]
           /\ UNCHANGED troubles
        \/ /\ troubles < SettingTrouble
           /\ troubles' = troubles + 1
           /\ \/ /\ firmware' \in {firmware, Executed(c)}
                 /\ store' = [store EXCEPT ![e] = Fail(doubted)]
              \/ /\ c.act # "get"
                 /\ UNCHANGED firmware
                 /\ store' = [store EXCEPT ![e] = Succeed(doubted, firmware[c.attr])]
  /\ mail' = [mail EXCEPT !.holder = NoEndpoint]
  /\ UNCHANGED setter

------------------------------------------------------------------------------
(* PlatformControls.                                                        *)

\* A setter writes its file.
Set(a, v) ==
  /\ setter = NoSetter /\ store[Endpoint(a)] = NoStore
  /\ setter' = [phase |-> "store", attr |-> a, value |-> v]
  /\ store' = [store EXCEPT ![Endpoint(a)] = Enter(a, v, "previous")]
  /\ UNCHANGED <<firmware, mail, troubles>>

\* It reads the file after a store that went well.
Reread ==
  /\ setter.phase = "readback" /\ store[Endpoint(setter.attr)] = NoStore
  /\ store' = [store EXCEPT ![Endpoint(setter.attr)] =
                 Enter(setter.attr, setter.value, "show")]
  /\ UNCHANGED <<firmware, mail, setter, troubles>>

\* The file operation returns; the readback has to be what was asked for.
Return(e) ==
  /\ store[e].stage \in Ended
  /\ IF setter # NoSetter /\ Endpoint(setter.attr) = e
     THEN setter' = [setter EXCEPT !.phase =
            IF store[e].stage = "failed" THEN "error"
            ELSE IF setter.phase = "store" THEN "readback"
            ELSE IF store[e].value = setter.value THEN "told" ELSE "error"]
     ELSE UNCHANGED setter
  /\ store' = [store EXCEPT ![e] = NoStore]
  /\ UNCHANGED <<firmware, mail, troubles>>

Answered ==
  /\ setter.phase \in {"told", "error"}
  /\ setter' = NoSetter
  /\ UNCHANGED <<firmware, mail, store, troubles>>

------------------------------------------------------------------------------
(* Another writer, on a device that the daemon does not use at the moment.  *)

OtherWrites(a, v) ==
  /\ store[Endpoint(a)] = NoStore
  /\ setter # NoSetter => Endpoint(setter.attr) # Endpoint(a)
  /\ store' = [store EXCEPT ![Endpoint(a)] = Enter(a, v, "previous")]
  /\ UNCHANGED <<firmware, mail, setter, troubles>>

------------------------------------------------------------------------------

SettingInit ==
  /\ firmware = [s \in Attributes \cup {"gate"} |-> "old"]
  /\ mail = [holder |-> NoEndpoint,
             command |-> [attr |-> "rear_logo", act |-> "get", value |-> "old"]]
  /\ store = [e \in Endpoints |-> NoStore]
  /\ setter = NoSetter
  /\ troubles = 0

SettingNext ==
  \/ \E e \in Endpoints : Place(e) \/ Run(e) \/ Return(e)
  \/ \E a \in Attributes \ OthersWrite, v \in Values : Set(a, v)
  \/ \E a \in OthersWrite, v \in Values : OtherWrites(a, v)
  \/ Reread
  \/ Answered

SettingSpec == SettingInit /\ [][SettingNext]_settingVars

------------------------------------------------------------------------------

\* A store is whole: when it ends well without a call that went wrong, its value is
\* in force, and the logo's gate with it; when it ends with an error after a single
\* one, the setting is what it was before, and so is the gate, if the two agreed.
StoreEnds(e) ==
  LET s == store[e]
      t == store'[e]
  IN Calling(e) /\ s.stage # "show" /\ t.stage \in Ended =>
       /\ t.stage = "done" /\ t.doubt = 0 =>
            firmware'[s.attr] = s.value /\ (Gated(s.attr) => firmware'.gate = s.value)
       /\ t.stage = "failed" => t.doubt > 0
       /\ t.stage = "failed" /\ t.doubt = 1 =>
            /\ firmware'[s.attr] = s.before
            /\ Gated(s.attr) /\ s.level => firmware'.gate = s.before

\* Whatever goes wrong, the daemon reports a setting as set only if it is, and no
\* store leaves half of itself behind, although the devices call the firmware in
\* any order through one mailbox (asense_rgb.c:186).
SettingsEndWhole ==
  [][/\ \A e \in Endpoints : StoreEnds(e)
     /\ setter.phase # "told" /\ setter'.phase = "told" =>
          firmware'[setter.attr] = setter.value]_settingVars

------------------------------------------------------------------------------
(* Why it holds.                                                             *)

Stages == {"show", "previous", "write", "gate", "actual", "undo", "undoGate", "undoCheck"}

Stores(e) ==
  [stage : Stages \cup Ended, attr : {a \in Attributes : Endpoint(a) = e}, value : Values,
   prev : Values, placed : BOOLEAN, doubt : Nat, before : Values, level : BOOLEAN]

Setters ==
  [phase : {"store", "readback", "told", "error"}, attr : Attributes, value : Values]

SettingTypeOK ==
  /\ firmware \in [Attributes \cup {"gate"} -> Values]
  /\ mail \in [holder : Endpoints \cup {NoEndpoint},
               command : [attr : Attributes, act : {"get", "set", "gate"}, value : Values]]
  /\ DOMAIN store = Endpoints
  /\ \A e \in Endpoints : store[e] = NoStore \/ store[e] \in Stores(e)
  /\ \/ setter = NoSetter
     \/ setter \in Setters
  /\ troubles \in 0 .. SettingTrouble

\* Who holds the mailbox finds the command there that it placed.
MailIsMine ==
  \A e \in Endpoints :
    /\ Calling(e) /\ store[e].placed <=> mail.holder = e
    /\ mail.holder = e => mail.command = Command(store[e])

\* Until the write the setting is as it was; what went well since has its effect,
\* and one trouble before the rollback is no trouble in it.
SoFar(s) ==
  LET is == firmware[s.attr]
  IN /\ s.stage \in {"gate", "undoGate"} => Gated(s.attr)
     /\ s.stage \in {"previous", "write"} =>
          /\ s.doubt = 0 /\ is = s.before
          /\ Gated(s.attr) /\ s.level => firmware.gate = s.before
     /\ s.stage \in {"write", "gate", "actual", "undo", "undoGate", "undoCheck"} =>
          s.prev = s.before
     /\ s.stage \in {"gate", "actual"} /\ s.doubt = 0 => is = s.value
     /\ s.stage = "actual" /\ s.doubt = 0 /\ Gated(s.attr) => firmware.gate = s.value
     /\ s.stage \in {"undo", "undoGate", "undoCheck"} => s.doubt > 0
     /\ s.stage \in {"undoGate", "undoCheck"} /\ s.doubt = 1 => is = s.before
     /\ s.stage = "undoCheck" /\ s.doubt = 1 /\ Gated(s.attr) => firmware.gate = s.before

\* The readback of a setter is of its own file, and of what is in force.
ReadbackIsTrue ==
  setter # NoSetter =>
    LET s == store[Endpoint(setter.attr)]
    IN /\ setter.phase \in {"told", "error"} => s = NoStore
       /\ setter.phase = "readback" /\ s # NoStore =>
            /\ s.attr = setter.attr /\ s.stage \in {"show"} \cup Ended
            /\ s.stage = "done" => s.value = firmware[s.attr]

SettingIInv ==
  /\ SettingTypeOK
  /\ MailIsMine
  /\ \A e \in Endpoints : store[e] # NoStore => SoFar(store[e])
  /\ ReadbackIsTrue

==============================================================================
