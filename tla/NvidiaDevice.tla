----------------------------- MODULE NvidiaDevice -----------------------------
(* How the program finds a graphics card, opens it and reads it call by call for *)
(* a sample, and which card it may tune. When it opens and closes the card is    *)
(* NvmlSession's; here it may do so at any sample. The driver may go, and a card *)
(* be taken out or put in, between any two calls: whoever holds a handle from    *)
(* before is then told so by every call.                                         *)
EXTENDS Integers, Sequences, FiniteSets

CONSTANTS Buses,     \* PCI addresses, as numbers
          Home,      \* the address of the reference model's card
          Cards,     \* NVIDIA display controllers, each with its runtime state
          Libraries, \* what a driver's library may offer
          NoCard, NoHandle

Ids == {c.id : c \in Cards}
Sessions == [bus : Buses, id : Ids, exact : BOOLEAN, alive : BOOLEAN, states : SUBSET Nat,
             authorized : BOOLEAN]

ASSUME NvidiaAssumption ==
  /\ Buses \subseteq Nat /\ Home \in Buses
  /\ NoCard \notin Cards /\ \A c \in Cards : c.id # NoCard /\ c.exact \in BOOLEAN
  /\ \A l \in Libraries : l.states \subseteq Nat
  /\ NoHandle \notin Sessions

VARIABLES slots,   \* the card at each address, or NoCard
          library, \* one of Libraries
          handle,  \* the telemetry's session
          view,    \* what the reader keeps, and what it shows of a sample
          tuner,   \* the session that sets offsets
          tuned    \* history: the cards whose offsets were set, with the states

cardVars == <<slots, library, handle, view, tuner, tuned>>

-------------------------------------------------------------------------------
(* The card, and a session with it.                                              *)

Displays == {b \in Buses : slots[b] # NoCard}

\* The exact card comes first, then the known address, then the lowest one.
Before(b, c) ==
  \/ slots[b].exact /\ ~slots[c].exact
  \/ slots[b].exact = slots[c].exact /\ (b = Home \/ (c # Home /\ b < c))

discover_nvidia_pci_device == CHOOSE b \in Displays : \A c \in Displays \ {b} : Before(b, c)

permits_live_nvml(card) == card.status \in {"active", "unsupported"}

\* The offsets of every state can be read, of both clocks, or there are no states.
probe_supported_states ==
  IF \A f \in {"states", "offsets"} : f \in library.has /\ library.answers[f] = "value"
  THEN library.states ELSE {}

OpenedAt(b, states, authorized) ==
  [bus |-> b, id |-> slots[b].id, exact |-> slots[b].exact, alive |-> TRUE,
   states |-> states, authorized |-> authorized]

\* What NVML says when the driver or the card that it was opened for is gone.
Gone == {"uninitialized", "driver not loaded", "gpu is lost", "reset required",
         "version mismatch", "not ready"}

\* A function may be missing from the library, or not be there for this card.
Gives(s, function) ==
  IF function \notin library.has THEN {"missing"}
  ELSE IF ~s.alive THEN Gone ELSE {library.answers[function]}

BugOnlyUnloads(answer) == answer \in {"uninitialized", "driver not loaded"}
invalidates_session(answer) == answer \in Gone

-------------------------------------------------------------------------------
(* A sample. The reader keeps the card's identity and what it has read of it.    *)

LiveCalls ==
  <<"temperature", "utilization", "power", "pstate", "memory", "clocks", "clocks">>
\* The first that fails ends the power's part; its draw alone may be missing.
PowerCalls == <<"power", "limit", "default", "constraints", "reasons">>
Calls == LiveCalls \o PowerCalls

NothingShown == [live |-> NoCard, power |-> FALSE, static |-> NoCard, offsets |-> NoCard]

\* dead: history, a call of this sample was told that its session is gone;
\* swapped: history, some address got another card while a sample was being taken, and no
\* later look has told another card since.
NoView ==
  [at |-> "rest", bus |-> 0, id |-> NoCard, static |-> NoCard, offsets |-> NoCard, done |-> 0,
   power |-> TRUE, lost |-> FALSE, dead |-> FALSE, swapped |-> FALSE, shown |-> NothingShown]

\* lose_nvidia_session
Forgotten(v) == [v EXCEPT !.static = NoCard, !.offsets = NoCard]

BugComparesAddress(b) == view.bus # b
IdentityChanged(b) == view.bus # b \/ view.id # slots[b].id

\* A card that is not there or not awake loses its session; another card loses what was
\* kept of the one before as well.
LookAtCard ==
  /\ view.at = "rest"
  /\ LET b == discover_nvidia_pci_device
         changed == IdentityChanged(b)
         known == [NoView EXCEPT !.at = "slow", !.bus = b, !.id = slots[b].id,
                                 !.static = IF changed THEN NoCard ELSE view.static,
                                 !.swapped = ~changed /\ view.swapped]
     IN IF Displays = {}
        THEN view' = [NoView EXCEPT !.at = "slow"] /\ handle' = NoHandle
        ELSE IF ~permits_live_nvml(slots[b])
        THEN view' = known /\ handle' = NoHandle
        ELSE \/ \* it is closed: idle for long enough, or another one's
                view' = known /\ handle' = NoHandle
             \/ /\ handle # NoHandle /\ ~changed
                /\ view' = [known EXCEPT !.offsets = view.offsets]
                /\ UNCHANGED handle
             \/ /\ handle = NoHandle \/ changed
                /\ view' = [known EXCEPT !.at = "open"]
                /\ handle' = NoHandle
  /\ UNCHANGED <<slots, library, tuner, tuned>>

\* discover_telemetry: any card, for reading only; what does not change is read once.
ReaderIsAuthorized == FALSE

OpenCard ==
  /\ view.at = "open"
  /\ IF slots[view.bus] # NoCard /\ library.loaded
     THEN /\ handle' = OpenedAt(view.bus, probe_supported_states, ReaderIsAuthorized)
          /\ view' = [view EXCEPT !.at = "slow",
                                  !.static = IF @ = NoCard THEN slots[view.bus].id ELSE @]
     ELSE view' = [Forgotten(view) EXCEPT !.at = "slow"] /\ UNCHANGED handle
  /\ UNCHANGED <<slots, library, tuner, tuned>>

\* refresh_nvidia_slow, at the samples when it is due.
ReadOffsets ==
  /\ view.at = "slow"
  /\ \/ view' = [view EXCEPT !.at = "calls"] /\ UNCHANGED handle
     \/ /\ handle # NoHandle /\ handle.states # {}
        /\ \E answer \in Gives(handle, "offsets") :
             LET told == [view EXCEPT !.at = "calls", !.dead = answer \in Gone,
                            !.offsets = IF answer = "value" THEN handle.id ELSE NoCard]
             IN IF invalidates_session(answer)
                THEN view' = Forgotten(told) /\ handle' = NoHandle
                ELSE view' = told /\ UNCHANGED handle
  /\ UNCHANGED <<slots, library, tuner, tuned>>

\* live_telemetry and power_telemetry, one call after the other.
ReadMetric ==
  LET i == view.done + 1
      in_power == i > Len(LiveCalls)
  IN /\ view.at = "calls" /\ handle # NoHandle /\ i <= Len(Calls)
     /\ \E answer \in IF in_power /\ ~view.power THEN {"not asked"} ELSE Gives(handle, Calls[i]) :
          view' = [view EXCEPT
            !.done = i,
            !.lost = @ \/ invalidates_session(answer),
            !.dead = @ \/ answer \in Gone,
            !.power = @ /\ (in_power =>
                              \/ answer = "value"
                              \/ Calls[i] = "power" /\ answer \in {"missing", "unsupported"})]
     /\ UNCHANGED <<slots, library, handle, tuner, tuned>>

\* A session that turns out to be gone shows nothing of what was read through it.
ShowSample ==
  /\ view.at = "calls" /\ (handle = NoHandle \/ view.done = Len(Calls))
  /\ LET rested == [view EXCEPT !.at = "rest", !.done = 0, !.power = TRUE, !.lost = FALSE]
     IN IF view.lost
        THEN view' = Forgotten(rested) /\ handle' = NoHandle
        ELSE /\ view' = [rested EXCEPT !.shown =
                  IF handle = NoHandle THEN [NothingShown EXCEPT !.offsets = view.offsets]
                  ELSE [live |-> handle.id, power |-> view.power, static |-> view.static,
                        offsets |-> view.offsets]]
             /\ UNCHANGED handle
  /\ UNCHANGED <<slots, library, tuner, tuned>>

-------------------------------------------------------------------------------
(* The session that tunes: only for the exact card, with exactly its states.     *)

ExpectedStates == {0, 3, 4, 5, 8}

OpenTuner ==
  /\ tuner = NoHandle /\ library.loaded /\ Displays # {}
  /\ LET b == discover_nvidia_pci_device
     IN /\ slots[b].exact
        /\ {"states", "offsets", "set"} \subseteq library.has
        /\ probe_supported_states = ExpectedStates
        /\ tuner' = OpenedAt(b, ExpectedStates, TRUE)
  /\ UNCHANGED <<slots, library, handle, view, tuned>>

\* apply_oem_turbo, reset_oem_offsets and restore_offsets all begin alike; a session that
\* was opened for reading has the same operations.
TuneCard ==
  /\ \E s \in {tuner, handle} \ {NoHandle} :
       /\ s.authorized /\ "value" \in Gives(s, "set")
       /\ tuned' = tuned \cup {[exact |-> s.exact, states |-> s.states]}
  /\ UNCHANGED <<slots, library, handle, view, tuner>>

CloseTuner ==
  tuner # NoHandle /\ tuner' = NoHandle /\ UNCHANGED <<slots, library, handle, view, tuned>>

-------------------------------------------------------------------------------
(* The machine.                                                                  *)

CutOff(s) == IF s = NoHandle THEN s ELSE [s EXCEPT !.alive = FALSE]

\* The driver is unloaded, or loaded again as another one.
DriverReloads ==
  /\ library' \in Libraries \ {library}
  /\ handle' = CutOff(handle) /\ tuner' = CutOff(tuner)
  /\ UNCHANGED <<slots, view, tuned>>

IdAt(b) == IF slots[b] = NoCard THEN NoCard ELSE slots[b].id

\* The reference model's card is soldered; it sleeps and wakes like any other.
CardChanges ==
  /\ \E b \in Buses, c \in Cards \cup {NoCard} :
       /\ c # slots[b]
       /\ (slots[b] # NoCard /\ slots[b].exact) = (c # NoCard /\ c.exact)
       /\ slots' = [slots EXCEPT ![b] = c]
       /\ LET swapped == IdAt(b) # IF c = NoCard THEN NoCard ELSE c.id
              Held(s) == IF s # NoHandle /\ s.bus = b /\ swapped THEN CutOff(s) ELSE s
          IN /\ handle' = Held(handle) /\ tuner' = Held(tuner)
             /\ view' = [view EXCEPT !.swapped = @ \/ (swapped /\ view.at # "rest")]
  /\ UNCHANGED <<library, tuned>>

-------------------------------------------------------------------------------
CardInit ==
  /\ slots \in [Buses -> Cards \cup {NoCard}]
  /\ \A b \in Displays : slots[b].exact => b = Home
  /\ library \in Libraries
  /\ handle = NoHandle /\ view = NoView /\ tuner = NoHandle /\ tuned = {}

ReaderNext == LookAtCard \/ OpenCard \/ ReadOffsets \/ ReadMetric \/ ShowSample
TunerNext == OpenTuner \/ TuneCard \/ CloseTuner
MachineNext == DriverReloads \/ CardChanges
CardNext == ReaderNext \/ TunerNext \/ MachineNext

CardSpec == CardInit /\ [][CardNext]_cardVars

-------------------------------------------------------------------------------
(* Properties.                                                                   *)

\* Whatever card is awake or first in the list, only the exact card is ever tuned, and only
\* with its own states: a session that was opened for reading, whose library offers the same
\* functions, never sets an offset (ensure_mutation_authorized).
TunedIsExact == \A t \in tuned : t.exact /\ t.states = ExpectedStates

\* A sample in which any call was told that the driver or the card is gone shows nothing that
\* was read of the card, in that sample or kept from an earlier one, and its session is closed
\* (sample, lose_nvidia_session).
DeadSampleShowsNothing ==
  view.at = "rest" /\ view.dead => view.shown = NothingShown /\ handle = NoHandle

\* What a sample shows together is of one card, whatever was replaced between the samples: the
\* model and limits kept from before are never shown with another card's values. (Replaced
\* while a sample is being taken it is noticed by the next one, unless it is put back by then.)
OneCardIsShown ==
  view.at = "rest" /\ ~view.swapped =>
    LET shown == {view.shown[part] : part \in {"live", "static", "offsets"}} \ {NoCard}
    IN \A one, other \in shown : one = other

-------------------------------------------------------------------------------
(* The inductive invariant: what each step of a sample has already ensured.      *)

Known == Ids \cup {NoCard}

Views ==
  [at : {"rest", "open", "slow", "calls"}, bus : Nat, id : Known, static : Known,
   offsets : Known, done : Nat, power : BOOLEAN, lost : BOOLEAN, dead : BOOLEAN,
   swapped : BOOLEAN, shown : [live : Known, power : BOOLEAN, static : Known, offsets : Known]]

CardTypeOK ==
  /\ slots \in [Buses -> Cards \cup {NoCard}] /\ library \in Libraries
  /\ handle \in Sessions \cup {NoHandle} /\ tuner \in Sessions \cup {NoHandle}
  /\ view \in Views

\* Only the exact card has a session that may tune.
SessionsAreSound ==
  /\ \A b \in Displays : slots[b].exact => b = Home
  /\ handle # NoHandle => ~handle.authorized
  /\ tuner # NoHandle => tuner.exact /\ tuner.states = ExpectedStates

\* A sample keeps in mind that it was told, and shows nothing before its end.
SampleIsSound ==
  /\ view.at # "rest" => view.shown = NothingShown
  /\ view.at = "open" => handle = NoHandle /\ view.bus \in Buses
  /\ view.at \in {"open", "slow"} => ~view.dead /\ ~view.lost
  /\ view.at = "calls" /\ view.dead => view.lost \/ handle = NoHandle
  /\ handle = NoHandle => view.offsets = NoCard

\* Everything that is kept is of the card that was looked at.
KeptIsOfOneCard ==
  ~view.swapped =>
    /\ {view.static, view.offsets, view.shown.live, view.shown.static, view.shown.offsets}
         \subseteq {NoCard, view.id}
    /\ handle # NoHandle => handle.id = view.id
    /\ view.at = "open" => slots[view.bus] # NoCard /\ slots[view.bus].id = view.id

CardIInv ==
  /\ CardTypeOK /\ SessionsAreSound /\ SampleIsSound /\ KeptIsOfOneCard
  /\ TunedIsExact /\ DeadSampleShowsNothing

===============================================================================
