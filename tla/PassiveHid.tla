------------------------------ MODULE PassiveHid ------------------------------
(* The HID devices that a report names: which of the hidraw functions are read,  *)
(* what their report descriptors say, and which of several equal ones is kept.   *)
EXTENDS Observations, Integers, FiniteSets, FiniteSetsExt, SequencesExt

CONSTANTS HidNumbers,     \* the numbers of the hidraw functions
          MaxCandidates,  \* MAX_HID_CANDIDATES
          MaxTargets,     \* MAX_A1_TARGETS
          MaxDepth,       \* MAX_HID_STACK_DEPTH
          MaxReports,     \* MAX_FEATURE_REPORTS
          MaxBytes,       \* MAX_FEATURE_REPORT_BYTES
          MaxPayload      \* MAX_FEATURE_PAYLOAD_BYTES

ASSUME HidAssumption ==
  /\ HidNumbers \subseteq Nat /\ IsFiniteSet(HidNumbers)
  /\ {MaxCandidates, MaxTargets, MaxDepth, MaxReports, MaxBytes, MaxPayload} \subseteq Nat \ {0}

ReportTargetList == 161

\* The allow-list, in the order of the roles.
Roles == <<"Enek5130Lighting", "AcerEcHidPowerCandidate", "DarfonLightingCandidate">>
BusOf(role) == IF role = "DarfonLightingCandidate" THEN "Usb" ELSE "I2c"
RoleIndex(role) == CHOOSE i \in DOMAIN Roles : Roles[i] = role

-------------------------------------------------------------------------------
(* A report descriptor: a sequence of items, each of a kind and with a value.    *)

Unset == <<>>
Pages == 65536

EmptyGlobal == [page |-> Unset, size |-> Unset, count |-> Unset, id |-> 0]

EmptyParser ==
  [global |-> EmptyGlobal, saved |-> <<>>, collections |-> <<>>, usage |-> Unset,
   bits |-> <<>>, usages |-> {}, bare |-> FALSE, error |-> "none"]

Fails(s, class) == [s EXCEPT !.error = class]

\* A usage of four bytes names its page.
usage_from_item(page, item) ==
  IF item.long /\ item.value >= Pages
  THEN <<item.value \div Pages, item.value % Pages>>
  ELSE IF page # Unset /\ item.value < Pages THEN <<page[1], item.value>> ELSE Unset

GlobalItem(s, item) ==
  CASE item.kind = "UsagePage" ->
         IF item.value < Pages THEN [s EXCEPT !.global.page = <<item.value>>]
                               ELSE Fails(s, "InvalidValue")
    [] item.kind = "ReportSize" -> [s EXCEPT !.global.size = <<item.value>>]
    [] item.kind = "ReportCount" -> [s EXCEPT !.global.count = <<item.value>>]
    [] item.kind = "ReportId" ->
         IF item.value \in 1 .. 255 THEN [s EXCEPT !.global.id = item.value]
                                    ELSE Fails(s, "InvalidValue")
    [] item.kind = "Push" ->
         IF Len(s.saved) = MaxDepth THEN Fails(s, "Oversize")
                                    ELSE [s EXCEPT !.saved = Append(@, s.global)]
    [] item.kind = "Pop" ->
         IF s.saved = <<>> THEN Fails(s, "InvalidValue")
                           ELSE [s EXCEPT !.global = Last(s.saved), !.saved = Front(@)]

Parent(s) == IF s.collections = <<>> THEN Unset ELSE Last(s.collections)

\* An application collection takes the usage before it, the others their parent's.
OpenCollection(s, item) ==
  IF Len(s.collections) = MaxDepth THEN Fails(s, "Oversize")
  ELSE [s EXCEPT !.collections =
                   Append(@, IF item.value = 1 /\ Parent(s) = Unset THEN s.usage ELSE Parent(s)),
                 !.usage = Unset]

CloseCollection(s) ==
  IF s.collections = <<>> THEN Fails(s, "InvalidValue")
  ELSE [s EXCEPT !.collections = Front(@), !.usage = Unset]

\* A feature field adds to the report that the current ID names.
Feature(s) ==
  IF s.global.size = Unset \/ s.global.count = Unset THEN Fails(s, "InvalidValue")
  ELSE LET added == s.global.size[1] * s.global.count[1]
           id == s.global.id
           before == IF id \in DOMAIN s.bits THEN s.bits[id] ELSE 0
           bits == [i \in DOMAIN s.bits \cup {id} |->
                      IF i = id THEN before + added ELSE s.bits[i]]
           counted == [s EXCEPT !.bits = bits, !.usage = Unset]
       IN IF added = 0 THEN Fails(s, "InvalidValue")
          ELSE IF Cardinality(DOMAIN bits) > MaxReports THEN Fails(s, "Oversize")
          ELSE IF Parent(s) = Unset THEN [counted EXCEPT !.bare = TRUE]
          ELSE [counted EXCEPT !.usages = @ \cup {Parent(s)}]

Globals == {"UsagePage", "ReportSize", "ReportCount", "ReportId", "Push", "Pop"}

ParseItem(s, item) ==
  CASE s.error # "none" -> s
    [] s.error = "none" /\ item.kind \in {"Long", "Cut"} -> Fails(s, "InvalidValue")
    [] s.error = "none" /\ item.kind \in Globals -> GlobalItem(s, item)
    [] s.error = "none" /\ item.kind = "Usage" ->
         IF s.usage = Unset THEN [s EXCEPT !.usage = usage_from_item(s.global.page, item)] ELSE s
    [] s.error = "none" /\ item.kind = "Collection" -> OpenCollection(s, item)
    [] s.error = "none" /\ item.kind = "EndCollection" -> CloseCollection(s)
    [] s.error = "none" /\ item.kind = "Feature" -> Feature(s)
    [] s.error = "none" /\ item.kind = "OtherMain" -> [s EXCEPT !.usage = Unset]
    [] s.error = "none" /\ item.kind = "Other" -> s

\* What an item may be.
Items ==
  [kind : Globals \cup {"Usage", "Collection", "EndCollection", "Feature", "OtherMain", "Other",
                       "Long", "Cut"},
   value : Nat, long : BOOLEAN]

\* A report's ID is a byte of it.
ReportBytes(id, bits) == (bits + 7) \div 8 + (IF id # 0 THEN 1 ELSE 0)

\* What the state after the last item amounts to.
Reports(bits) ==
  LET ids == Ascending(DOMAIN bits)
  IN [i \in DOMAIN ids |-> [id |-> ids[i], bytes |-> ReportBytes(ids[i], bits[ids[i]])]]
Geometry(s, reports) ==
  IF s.error # "none" THEN Error("Decode", s.error)
  ELSE IF s.saved # <<>> \/ s.collections # <<>> THEN Malformed
  ELSE IF \E i \in DOMAIN reports : reports[i].bytes > MaxBytes THEN Error("Decode", "Oversize")
  ELSE Value([feature_reports |-> reports,
              usage |-> IF ~s.bare /\ Cardinality(s.usages) = 1
                        THEN CHOOSE u \in s.usages : TRUE ELSE Unset])

Judged(s) == Geometry(s, Reports(s.bits))
parse_report_descriptor(items) == Judged(FoldLeft(ParseItem, EmptyParser, items))

-------------------------------------------------------------------------------
(* One function.                                                                 *)

\* The file's text is the descriptor and the hash of its bytes.
read_descriptor(file) ==
  LET Parsed(text) ==
        IF text.items = <<>> THEN Malformed
        ELSE Decoded(parse_report_descriptor(text.items),
                     LAMBDA parsed : Value([hash |-> text.hash, usage |-> parsed.usage,
                                            feature_reports |-> parsed.feature_reports]))
  IN Decoded(read_bounded(file), Parsed)

parse_a1_payload(requested, payload) ==
  IF Len(payload) < 2 \/ Len(payload) > requested THEN Malformed
  ELSE IF payload[1] # ReportTargetList THEN Malformed
  ELSE IF payload[2] > MaxTargets THEN Error("Decode", "Oversize")
  ELSE IF 2 + payload[2] > Len(payload) THEN Malformed
  ELSE Value([requested |-> requested, payload |-> payload,
              targets |-> Ascending(Range(SubSeq(payload, 3, 2 + payload[2])))])

\* What the device answers is never more than what was asked for.
read_feature_report(node, requested) ==
  Decoded(read_bounded(node),
          LAMBDA payload : IF Len(payload) \notin 1 .. requested
                           THEN Error("Read", "InvalidValue") ELSE Value(payload))

read_a1(node, requested) ==
  IF requested < 2 THEN Malformed
  ELSE IF requested > MaxPayload THEN Error("Decode", "Oversize")
  ELSE Decoded(read_feature_report(node, requested),
               LAMBDA payload : parse_a1_payload(requested, payload))

NoA1 == [is |-> "none", value |-> Unset]

TargetList(role, descriptor, node) ==
  LET Lists == {r \in Range(descriptor.value.feature_reports) : r.id = ReportTargetList}
  IN IF role # "Enek5130Lighting" THEN NoA1
     ELSE IF descriptor.is # "value" THEN Absent("IncompleteInterface")
     ELSE IF Lists = {} THEN Absent("IncompleteInterface")
     ELSE read_a1(node, (CHOOSE r \in Lists : TRUE).bytes)

\* Drivers are numbered; no token is 0.
NoToken == 0

read_driver(link) ==
  CASE link.is = "missing" -> Absent("NotExposed")
    [] link.is = "text" -> IF link.text = NoToken THEN Malformed ELSE Value(link.text)
    [] link.is = "failing" -> Error("Read", "Io")

Candidate(device, descriptor) ==
  [role |-> device.uevent, bus |-> BusOf(device.uevent),
   usage |-> IF descriptor.is = "value" THEN descriptor.value.usage ELSE Unset,
   driver |-> read_driver(device.driver), descriptor |-> descriptor,
   a1 |-> TargetList(device.uevent, descriptor, device.node)]

collect_candidate(device) == Candidate(device, read_descriptor(device.descriptor))

\* What a function's files may hold; descriptors of one hash are one descriptor.
HidFunctions ==
  [uevent : STRING, driver : [is : {"missing", "failing"}] \cup [is : {"text"}, text : Nat],
   descriptor : Files([items : Seq(Items), hash : Nat]), node : Files(Seq(Nat))]
SameHash(left, right) ==
  /\ left.descriptor.is = "text" /\ right.descriptor.is = "text"
  /\ left.descriptor.text.hash = right.descriptor.text.hash
HidFiles ==
  {hidraw \in [HidNumbers -> HidFunctions] :
     \A m, n \in HidNumbers :
       SameHash(hidraw[m], hidraw[n]) =>
         hidraw[m].descriptor.text.items = hidraw[n].descriptor.text.items}

-------------------------------------------------------------------------------
(* The inventory.                                                                *)

descriptor_hash(hid) == IF hid.descriptor.is = "value" THEN hid.descriptor.value.hash ELSE 0

\* What two functions of one device have in common; no usage comes first.
Identity(hid) ==
  LET usage == IF hid.usage = Unset THEN <<0, 0>> ELSE <<1 + hid.usage[1], 1 + hid.usage[2]>>
  IN <<RoleIndex(hid.role), usage[1], usage[2], descriptor_hash(hid)>>

observation_quality(read) ==
  CASE read.is = "value" -> 2 [] read.is = "error" -> 1 [] read.is \in {"absent", "none"} -> 0

evidence_quality(hid) ==
  <<observation_quality(hid.descriptor), observation_quality(hid.a1),
    observation_quality(hid.driver)>>

\* The shorter of two equal beginnings comes first.
LexLess(a, b) ==
  \/ Len(a) < Len(b) /\ SubSeq(b, 1, Len(a)) = a
  \/ \E i \in DOMAIN a \cap DOMAIN b : a[i] < b[i] /\ \A j \in 1 .. i - 1 : a[j] = b[j]

a1_payload(hid) == IF hid.a1.is = "value" THEN hid.a1.value.payload ELSE <<>>
driver_value(hid) == IF hid.driver.is = "value" THEN <<hid.driver.value>> ELSE <<>>

BugFirstComes(left, right) == FALSE

\* Of two equal ones the one with more evidence, then by what the evidence is.
Preferred(left, right) ==
  LET l == evidence_quality(left)
      r == evidence_quality(right)
  IN \/ LexLess(r, l)
     \/ l = r /\ LexLess(a1_payload(left), a1_payload(right))
     \/ l = r /\ a1_payload(left) = a1_payload(right)
        /\ LexLess(driver_value(left), driver_value(right))

\* In the order of their numbers, and no more of them than the bound.
CandidateNumbers(hidraw) ==
  LET all == Ascending({n \in HidNumbers : hidraw[n].uevent \in Range(Roles)})
  IN SubSeq(all, 1, IF Len(all) > MaxCandidates THEN MaxCandidates ELSE Len(all))

\* One of each, in the order of what they are.
Best(found, equal) ==
  found[CHOOSE i \in equal :
          \A j \in equal \ {i} :
             \/ Preferred(found[i], found[j])
             \/ i < j /\ ~Preferred(found[j], found[i])]
OneOfEach(found) ==
  LET all == {Identity(found[i]) : i \in DOMAIN found}
      ids == Ordered(all, {p \in all \X all : LexLess(p[1], p[2])})
  IN [k \in DOMAIN ids |-> Best(found, {i \in DOMAIN found : Identity(found[i]) = ids[k]})]

Inventory(hidraw, numbers) ==
  OneOfEach([i \in DOMAIN numbers |-> collect_candidate(hidraw[numbers[i]])])
collect_hid(hidraw) == Inventory(hidraw, CandidateNumbers(hidraw))

-------------------------------------------------------------------------------
(* What is accepted as an inventory.                                             *)

validate_geometry(reports) ==
  /\ Len(reports) <= MaxReports
  /\ \A i \in DOMAIN reports : reports[i].bytes \in 1 .. MaxBytes
  /\ \A i \in 1 .. Len(reports) - 1 : reports[i].id < reports[i + 1].id

validate_a1(a1) ==
  /\ a1.requested \in 2 .. MaxPayload
  /\ Len(a1.payload) \in 2 .. a1.requested
  /\ a1.payload[1] = ReportTargetList
  /\ Len(a1.targets) <= MaxTargets
  /\ validate_channel_order(a1.targets)

validate_hid(hid) ==
  /\ hid.bus = BusOf(hid.role)
  /\ validate_observation(hid.driver, LAMBDA driver : driver # NoToken)
  /\ validate_observation(hid.descriptor, LAMBDA d : validate_geometry(d.feature_reports))
  /\ IF hid.role = "Enek5130Lighting"
     THEN hid.a1.is # "none" /\ validate_observation(hid.a1, validate_a1)
     ELSE hid.a1.is = "none"

validate_inventory(inventory) ==
  /\ Len(inventory) <= MaxCandidates
  /\ \A i \in DOMAIN inventory : validate_hid(inventory[i])
  /\ \A i \in 1 .. Len(inventory) - 1 :
       LexLess(Identity(inventory[i]), Identity(inventory[i + 1]))

===============================================================================
