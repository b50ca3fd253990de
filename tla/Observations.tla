---------------------------- MODULE Observations ----------------------------
(* What reading one file for a report gives: a value, that there is nothing to   *)
(* read, or an error. A file is a record of how it can be read and of its text.  *)
EXTENDS Integers, Sequences, FiniteSets

NoRaw == "none"
Value(v) == [is |-> "value", value |-> v]
Absent(reason) == [is |-> "absent", value |-> reason]
Error(stage, class) ==
  [is |-> "error", value |-> [stage |-> stage, class |-> class, raw |-> NoRaw]]
Malformed == Error("Decode", "InvalidValue")
\* The one error that keeps what was read.
InvalidRaw ==
  [is |-> "error",
   value |-> [stage |-> "Decode", class |-> "InvalidValue", raw |-> "ScalarHex"]]

Text(t) == [is |-> "text", text |-> t]
Unread(how) == [is |-> how]
NoFile == Unread("missing")
Files(texts) ==
  [is : {"missing", "directory", "denied", "failing", "oversize"}]
    \cup [is : {"text"}, text : texts]
\* A read of a file ends in one of these ways.
ReadEnds(file) ==
  file.is \in {"text", "missing", "directory", "denied", "failing", "oversize", "binary"}
IsFile(file) == file.is \notin {"missing", "directory"}

\* Only the text of a readable file is a value.
read_text(file) ==
  CASE file.is = "text" -> Value(file.text)
    [] file.is \in {"missing", "directory"} -> Absent("NotExposed")
    [] file.is = "denied" -> Error("Read", "PermissionDenied")
    [] file.is = "failing" -> Error("Read", "Io")
    [] file.is = "oversize" -> Error("Read", "Oversize")
    [] file.is = "binary" -> Malformed

\* The other way of reading: the file has to be there, its bytes may be any.
read_bounded(file) ==
  CASE file.is = "text" -> Value(file.text)
    [] file.is = "missing" -> Error("Open", "NotFound")
    [] file.is = "denied" -> Error("Open", "PermissionDenied")
    [] file.is = "oversize" -> Error("Read", "Oversize")
    [] file.is \in {"directory", "failing"} -> Error("Read", "Io")

\* A value is decoded, anything else stays what it is.
Decoded(read, Decode(_)) == IF read.is = "value" THEN Decode(read.value) ELSE read
read_value(file, Decode(_)) == Decoded(read_text(file), Decode)

\* Only a bounded scalar may be kept with an error.
validate_error(error) == error.raw \in {NoRaw, "ScalarHex"}

validate_observation(read, Valid(_)) ==
  CASE read.is = "value" -> Valid(read.value)
    [] read.is = "absent" -> TRUE
    [] read.is = "error" -> validate_error(read.value)

\* The elements of a finite set in a strict order: each has as many before it as its place says.
Ordered(S, before) ==
  [i \in 1 .. Cardinality(S) |->
     CHOOSE x \in S : Cardinality({y \in S : <<y, x>> \in before}) = i - 1]
Ascending(S) == Ordered(S, {p \in S \X S : p[1] < p[2]})

\* Numbers that increase, in the order of a sequence.
validate_channel_order(s) == \A i \in 1 .. Len(s) - 1 : s[i] < s[i + 1]

=============================================================================
