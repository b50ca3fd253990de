---------------------------- MODULE EvidenceProofs ----------------------------
(* What the application says of the machine, for any addresses, cards, libraries  *)
(* and numbers of samples: what is shown together is of one card, whenever the    *)
(* driver or a card goes (NvidiaDevice), NVML is closed once while it is quiet    *)
(* (NvmlSession), a daemon's silence is no absence, and what is read of a machine  *)
(* is accepted but for a reading that no report may hold (ProbeReport).            *)
EXTENDS NvidiaDevice, NvmlSession, ProbeReport, Integers, FiniteSetTheorems,
        WellFoundedInduction, TLAPS

\* Any addresses have a lowest one.
LEMMA LowestAddress ==
  ASSUME NEW S, S \subseteq Buses, S # {}
  PROVE  \E b \in S : \A c \in S \ {b} : b < c
  <1>1. S \subseteq Nat
    BY NvidiaAssumption
  <1>2. PICK b \in S : \A c \in S : ~(<<c, b>> \in OpToRel(<, Nat))
    BY <1>1, NatLessThanWellFounded, WFMin, Zenon
  <1>3. \A c \in S : ~(c < b)
    BY <1>1, <1>2 DEF OpToRel
  <1> QED BY <1>1, <1>3

\* The ranking always finds a card when there is one.
LEMMA RankingFinds ==
  ASSUME CardTypeOK, SessionsAreSound, Displays # {}
  PROVE  discover_nvidia_pci_device \in Displays
  <1>1. Displays \subseteq Buses
    BY DEF Displays
  <1>2. \A b \in Displays : slots[b].exact \in BOOLEAN
    BY NvidiaAssumption DEF CardTypeOK, Displays
  <1>3. \E b \in Displays : \A c \in Displays \ {b} : Before(b, c)
    <2>1. CASE Home \in Displays
      <3>1. \A c \in Displays \ {Home} : ~slots[c].exact
        BY DEF SessionsAreSound
      <3> QED BY <2>1, <3>1, <1>2 DEF Before
    <2>2. CASE Home \notin Displays
      <3>1. PICK b \in Displays : \A c \in Displays \ {b} : b < c
        BY <1>1, LowestAddress
      <3>2. \A c \in Displays : ~slots[c].exact /\ c # Home
        BY <2>2 DEF SessionsAreSound
      <3>3. \A c \in Displays \ {b} : Before(b, c)
        BY <3>1, <3>2, <1>2 DEF Before
      <3> QED BY <3>3
    <2> QED BY <2>1, <2>2
  <1> QED BY <1>3 DEF discover_nvidia_pci_device

\* A session is opened with the identity of the card at its address.
LEMMA OpenedIsOfTheCard ==
  ASSUME CardTypeOK, NEW b \in Displays, NEW states \in SUBSET Nat, NEW authorized \in BOOLEAN
  PROVE  /\ OpenedAt(b, states, authorized) \in Sessions
         /\ OpenedAt(b, states, authorized).id = slots[b].id
         /\ OpenedAt(b, states, authorized).exact = slots[b].exact
         /\ OpenedAt(b, states, authorized).states = states
         /\ OpenedAt(b, states, authorized).authorized = authorized
  BY NvidiaAssumption DEF CardTypeOK, OpenedAt, Sessions, Ids, Displays

\* The states that are probed are the library's, or none.
LEMMA ProbedAreStates ==
  ASSUME CardTypeOK
  PROVE  probe_supported_states \in SUBSET Nat
  BY NvidiaAssumption DEF CardTypeOK, probe_supported_states

\* A session that is cut off is the same session.
LEMMA CutOffKeeps ==
  ASSUME NEW s \in Sessions \cup {NoHandle}
  PROVE  /\ CutOff(s) \in Sessions \cup {NoHandle}
         /\ CutOff(s) = NoHandle <=> s = NoHandle
         /\ s # NoHandle =>
              /\ CutOff(s).id = s.id /\ CutOff(s).exact = s.exact
              /\ CutOff(s).states = s.states /\ CutOff(s).authorized = s.authorized
  BY NvidiaAssumption DEF CutOff, Sessions

\* The invariant holds before anything was looked at.
LEMMA CardInitEstablishes == CardInit => CardIInv
  <1> SUFFICES ASSUME CardInit PROVE CardIInv
    OBVIOUS
  <1>1. CardTypeOK
    BY DEF CardInit, CardTypeOK, NoView, NothingShown, Views, Known
  <1>2. SessionsAreSound /\ TunedIsExact
    BY DEF CardInit, SessionsAreSound, TunedIsExact
  <1>3. SampleIsSound /\ DeadSampleShowsNothing
    BY DEF CardInit, SampleIsSound, DeadSampleShowsNothing, NoView
  <1>4. KeptIsOfOneCard
    BY DEF CardInit, KeptIsOfOneCard, NoView, NothingShown
  <1> QED BY <1>1, <1>2, <1>3, <1>4 DEF CardIInv

\* A look keeps only what is of the card it finds.
LEMMA LookAtCardPreserves ==
  ASSUME CardIInv, LookAtCard
  PROVE  CardIInv'
  <1> DEFINE b == discover_nvidia_pci_device
             static == IF IdentityChanged(b) THEN NoCard ELSE view.static
             swapped == ~IdentityChanged(b) /\ view.swapped
             known == [NoView EXCEPT !.at = "slow", !.bus = b, !.id = slots[b].id,
                                     !.static = static, !.swapped = swapped]
  <1>1. view.at = "rest" /\ UNCHANGED <<slots, library, tuner, tuned>>
    BY DEF LookAtCard
  <1>2. \/ Displays = {} /\ view' = [NoView EXCEPT !.at = "slow"] /\ handle' = NoHandle
        \/ Displays # {} /\ view' = known /\ handle' = NoHandle
        \/ /\ Displays # {} /\ handle # NoHandle /\ ~IdentityChanged(b)
           /\ view' = [known EXCEPT !.offsets = view.offsets] /\ handle' = handle
        \/ Displays # {} /\ view' = [known EXCEPT !.at = "open"] /\ handle' = NoHandle
    BY DEF LookAtCard
  <1>3. ASSUME Displays = {}, view' = [NoView EXCEPT !.at = "slow"], handle' = NoHandle
        PROVE  CardIInv'
    BY <1>1, <1>3 DEF CardIInv, CardTypeOK, SessionsAreSound, SampleIsSound, KeptIsOfOneCard,
         TunedIsExact, DeadSampleShowsNothing, Displays, NoView, NothingShown, Views, Known
  <1>4. ASSUME Displays # {}
        PROVE  CardIInv'
    <2>1. b \in Displays /\ b \in Buses /\ b \in Nat /\ slots[b] # NoCard /\ slots[b].id \in Known
      BY <1>4, RankingFinds, NvidiaAssumption DEF CardIInv, CardTypeOK, Displays, Ids, Known
    <2>2. ~IdentityChanged(b) =>
            view.id = slots[b].id /\ static = view.static /\ swapped = view.swapped
      <3>1. ~IdentityChanged(b) => view.id = slots[b].id
        BY DEF IdentityChanged
      <3>2. view.swapped \in BOOLEAN
        BY DEF CardIInv, CardTypeOK, Views
      <3> QED BY <3>1, <3>2
    <2>3. IdentityChanged(b) => static = NoCard /\ swapped = FALSE
      OBVIOUS
    <2>4. static \in Known /\ view.offsets \in Known /\ swapped \in BOOLEAN
      BY DEF CardIInv, CardTypeOK, Views, Known
    <2> HIDE DEF static, swapped, b
    <2>5. /\ known \in Views
          /\ known.at = "slow" /\ known.bus = b /\ known.id = slots[b].id
          /\ known.static = static /\ known.offsets = NoCard /\ known.swapped = swapped
          /\ known.dead = FALSE /\ known.lost = FALSE /\ known.shown = NothingShown
      BY <2>1, <2>4 DEF NoView, NothingShown, Views, Known
    <2> HIDE DEF known
    <2>6. /\ view' \in Views /\ view'.at \in {"slow", "open"}
          /\ view'.bus = b /\ view'.id = slots[b].id /\ view'.static = static
          /\ view'.swapped = swapped /\ view'.dead = FALSE /\ view'.lost = FALSE
          /\ view'.shown = NothingShown
      BY <1>2, <1>4, <2>4, <2>5 DEF Views
    <2>7. \/ handle' = NoHandle /\ view'.offsets = NoCard
          \/ /\ handle' = handle /\ handle # NoHandle /\ ~IdentityChanged(b)
             /\ view'.offsets = view.offsets /\ view'.at = "slow"
      BY <1>2, <1>4, <2>4, <2>5 DEF Views
    <2>8. CardTypeOK' /\ SessionsAreSound' /\ TunedIsExact'
      BY <1>1, <2>6, <2>7 DEF CardIInv, CardTypeOK, SessionsAreSound, TunedIsExact, Displays
    <2>9. SampleIsSound' /\ DeadSampleShowsNothing'
      BY <2>1, <2>6, <2>7 DEF SampleIsSound, DeadSampleShowsNothing
    <2>10. KeptIsOfOneCard'
      <3>1. /\ view'.shown.live = NoCard /\ view'.shown.static = NoCard
            /\ view'.shown.offsets = NoCard
        BY <2>6 DEF NothingShown
      <3>2. slots' = slots
        BY <1>1
      <3> QED
        BY <2>1, <2>2, <2>3, <2>6, <2>7, <3>1, <3>2 DEF CardIInv, KeptIsOfOneCard
    <2> QED BY <2>8, <2>9, <2>10 DEF CardIInv
  <1> QED BY <1>2, <1>3, <1>4

\* Forgetting what was read of a card leaves the rest of the view as it is.
LEMMA ForgottenIsAView ==
  ASSUME NEW v \in Views
  PROVE  /\ Forgotten(v) \in Views
         /\ Forgotten(v).static = NoCard /\ Forgotten(v).offsets = NoCard
         /\ Forgotten(v).at = v.at /\ Forgotten(v).id = v.id
         /\ Forgotten(v).swapped = v.swapped /\ Forgotten(v).shown = v.shown
         /\ Forgotten(v).dead = v.dead /\ Forgotten(v).lost = v.lost
  <1>1. NoCard \in Known
    BY DEF Known
  <1>2. Forgotten(v) \in Views
    BY <1>1 DEF Forgotten, Views
  <1>3. /\ Forgotten(v).static = NoCard /\ Forgotten(v).offsets = NoCard
        /\ Forgotten(v).at = v.at /\ Forgotten(v).id = v.id
    BY DEF Forgotten, Views
  <1>4. /\ Forgotten(v).swapped = v.swapped /\ Forgotten(v).shown = v.shown
        /\ Forgotten(v).dead = v.dead /\ Forgotten(v).lost = v.lost
    BY DEF Forgotten, Views
  <1> QED BY <1>2, <1>3, <1>4

\* What is opened is the card that was looked at, unless it was swapped since.
LEMMA OpenCardPreserves ==
  ASSUME CardIInv, OpenCard
  PROVE  CardIInv'
  <1>1. view.at = "open" /\ handle = NoHandle /\ UNCHANGED <<slots, library, tuner, tuned>>
    BY DEF OpenCard, CardIInv, SampleIsSound
  <1>2. CASE slots[view.bus] # NoCard /\ library.loaded
    <2>1. view.bus \in Displays
      BY <1>1, <1>2 DEF CardIInv, SampleIsSound, Displays
    <2>2. /\ handle' = OpenedAt(view.bus, probe_supported_states, FALSE)
          /\ view' = [view EXCEPT !.at = "slow",
                        !.static = IF @ = NoCard THEN slots[view.bus].id ELSE @]
      BY <1>2 DEF OpenCard, ReaderIsAuthorized
    <2>3. handle' \in Sessions /\ handle'.id = slots[view.bus].id /\ ~handle'.authorized
      BY <2>1, <2>2, OpenedIsOfTheCard, ProbedAreStates DEF CardIInv
    <2>4. slots[view.bus].id \in Ids
      BY <2>1, NvidiaAssumption DEF CardIInv, CardTypeOK, Displays, Ids
    <2>5. handle' # NoHandle
      BY <2>3, NvidiaAssumption
    <2>6. CardTypeOK' /\ SessionsAreSound' /\ TunedIsExact'
      BY <1>1, <2>2, <2>3, <2>4 DEF CardIInv, CardTypeOK, SessionsAreSound, TunedIsExact,
           Displays, Views, Known
    <2>7. SampleIsSound' /\ DeadSampleShowsNothing'
      BY <1>1, <2>2, <2>5 DEF CardIInv, CardTypeOK, SampleIsSound, DeadSampleShowsNothing, Views
    <2>8. KeptIsOfOneCard'
      <3>1. view \in Views
        BY DEF CardIInv, CardTypeOK
      <3>2. /\ view'.id = view.id /\ view'.swapped = view.swapped /\ view'.at = "slow"
            /\ view'.offsets = view.offsets /\ view'.shown = view.shown
        BY <2>2, <3>1 DEF Views
      <3>3. view'.static = IF view.static = NoCard THEN slots[view.bus].id ELSE view.static
        BY <2>2, <3>1 DEF Views
      <3> QED
        BY <1>1, <2>3, <2>5, <3>2, <3>3 DEF CardIInv, KeptIsOfOneCard
    <2> QED BY <2>6, <2>7, <2>8 DEF CardIInv
  <1>3. CASE ~(slots[view.bus] # NoCard /\ library.loaded)
    <2>1. view' = [Forgotten(view) EXCEPT !.at = "slow"] /\ handle' = handle
      BY <1>3 DEF OpenCard
    <2>2. /\ view \in Views /\ view.shown = NothingShown /\ ~view.dead /\ ~view.lost
      BY <1>1 DEF CardIInv, CardTypeOK, SampleIsSound
    <2>3. view' \in Views
      BY <2>1, <2>2, ForgottenIsAView DEF Views
    <2>4. /\ view'.at = "slow" /\ view'.id = view.id /\ view'.swapped = view.swapped
          /\ view'.shown = NothingShown /\ ~view'.dead /\ ~view'.lost
          /\ view'.static = NoCard /\ view'.offsets = NoCard
      <3>1. /\ view'.at = "slow" /\ view'.id = Forgotten(view).id
            /\ view'.swapped = Forgotten(view).swapped
            /\ view'.shown = Forgotten(view).shown /\ view'.dead = Forgotten(view).dead
            /\ view'.lost = Forgotten(view).lost /\ view'.static = Forgotten(view).static
            /\ view'.offsets = Forgotten(view).offsets
        BY <2>1, <2>2, ForgottenIsAView DEF Views
      <3> QED BY <2>2, <3>1, ForgottenIsAView
    <2>5. CardTypeOK' /\ SessionsAreSound' /\ TunedIsExact'
      BY <1>1, <2>1, <2>3 DEF CardIInv, CardTypeOK, SessionsAreSound, TunedIsExact, Displays
    <2>6. SampleIsSound' /\ DeadSampleShowsNothing'
      BY <2>4 DEF SampleIsSound, DeadSampleShowsNothing
    <2>7. KeptIsOfOneCard'
      BY <2>1, <2>4, <1>1 DEF KeptIsOfOneCard, NothingShown
    <2> QED BY <2>5, <2>6, <2>7 DEF CardIInv
  <1> QED BY <1>2, <1>3

\* Offsets that were read are the open card's, and a session that is gone is closed.
LEMMA ReadOffsetsPreserves ==
  ASSUME CardIInv, ReadOffsets
  PROVE  CardIInv'
  <1>1. view.at = "slow" /\ UNCHANGED <<slots, library, tuner, tuned>>
    BY DEF ReadOffsets
  <1>2. view \in Views /\ ~view.dead /\ ~view.lost /\ view.shown = NothingShown
    BY <1>1 DEF CardIInv, CardTypeOK, SampleIsSound
  <1>3. CASE view' = [view EXCEPT !.at = "calls"] /\ UNCHANGED handle
    BY <1>1, <1>2, <1>3 DEF CardIInv, CardTypeOK, SessionsAreSound, SampleIsSound,
       KeptIsOfOneCard, TunedIsExact, DeadSampleShowsNothing, Displays, Views
  <1>4. ASSUME handle # NoHandle,
               NEW answer \in Gives(handle, "offsets"),
               NEW dead \in BOOLEAN, dead <=> answer \in Gone,
               NEW offsets \in {NoCard, handle.id},
               NEW told, told = [view EXCEPT !.at = "calls", !.dead = dead, !.offsets = offsets],
               \/ dead /\ view' = Forgotten(told) /\ handle' = NoHandle
               \/ ~dead /\ view' = told /\ UNCHANGED handle
        PROVE  CardIInv'
    <2>1. handle \in Sessions /\ handle.id \in Known
      BY <1>4, NvidiaAssumption DEF CardIInv, CardTypeOK, Sessions, Known
    <2>2. offsets \in Known
      BY <1>4, <2>1 DEF Known
    <2>3. /\ view' \in Views /\ view'.at = "calls" /\ view'.swapped = view.swapped
          /\ view'.id = view.id /\ view'.shown = NothingShown
          /\ view'.dead => handle' = NoHandle
          /\ handle' = NoHandle => view'.offsets = NoCard
          /\ view'.static \in {NoCard, view.static} /\ view'.offsets \in {NoCard, handle.id}
      <3>1. told \in Views /\ told.at = "calls" /\ told.offsets = offsets
        BY <1>2, <1>4, <2>1, <2>2 DEF Views
      <3>2. told.dead = dead /\ told.shown = NothingShown
        BY <1>2, <1>4, <2>1, <2>2 DEF Views
      <3>3. told.id = view.id /\ told.static = view.static /\ told.swapped = view.swapped
        BY <1>2, <1>4, <2>1, <2>2 DEF Views
      <3>4. CASE dead /\ view' = Forgotten(told) /\ handle' = NoHandle
        BY <3>1, <3>2, <3>3, <3>4, ForgottenIsAView
      <3>5. CASE ~dead /\ view' = told /\ UNCHANGED handle
        BY <1>4, <3>1, <3>2, <3>3, <3>5
      <3> QED BY <1>4, <3>4, <3>5
    <2>4. handle' \in {handle, NoHandle}
      BY <1>4
    <2>5. CardTypeOK' /\ SessionsAreSound' /\ TunedIsExact'
      BY <1>1, <2>3, <2>4 DEF CardIInv, CardTypeOK, SessionsAreSound, TunedIsExact, Displays
    <2>6. SampleIsSound' /\ DeadSampleShowsNothing'
      BY <2>3 DEF SampleIsSound, DeadSampleShowsNothing
    <2>7. KeptIsOfOneCard'
      BY <1>1, <1>2, <2>3, <2>4 DEF CardIInv, KeptIsOfOneCard, NothingShown
    <2> QED BY <2>5, <2>6, <2>7 DEF CardIInv
  <1>5. ASSUME NEW answer \in Gives(handle, "offsets"), handle # NoHandle,
               LET told == [view EXCEPT !.at = "calls", !.dead = answer \in Gone,
                              !.offsets = IF answer = "value" THEN handle.id ELSE NoCard]
               IN IF answer \in Gone
                  THEN view' = Forgotten(told) /\ handle' = NoHandle
                  ELSE view' = told /\ UNCHANGED handle
        PROVE  CardIInv'
    <2>1. (answer \in Gone) \in BOOLEAN
      OBVIOUS
    <2>2. (IF answer = "value" THEN handle.id ELSE NoCard) \in {NoCard, handle.id}
      OBVIOUS
    <2> QED BY <1>4, <1>5, <2>1, <2>2, Zenon
  <1> QED BY <1>3, <1>5 DEF ReadOffsets, invalidates_session

\* A call that is told that the session is gone is kept in mind.
LEMMA ReadMetricPreserves ==
  ASSUME CardIInv, ReadMetric
  PROVE  CardIInv'
  <1>1. /\ view.at = "calls" /\ handle # NoHandle
        /\ UNCHANGED <<slots, library, handle, tuner, tuned>>
    BY DEF ReadMetric
  <1>2. view \in Views /\ view.shown = NothingShown /\ (view.dead => view.lost)
    BY <1>1 DEF CardIInv, CardTypeOK, SampleIsSound
  <1>3. PICK dead \in BOOLEAN, lost \in BOOLEAN, power \in BOOLEAN :
          /\ dead => view.dead \/ lost
          /\ view.lost => lost
          /\ view' = [view EXCEPT !.done = view.done + 1, !.lost = lost, !.dead = dead,
                                  !.power = power]
    <2>1. PICK answer :
            \E power \in BOOLEAN :
              view' = [view EXCEPT !.done = view.done + 1, !.lost = view.lost \/ answer \in Gone,
                                   !.dead = view.dead \/ answer \in Gone, !.power = power]
      BY Zenon DEF ReadMetric, invalidates_session
    <2>2. /\ (view.lost \/ answer \in Gone) \in BOOLEAN
          /\ (view.dead \/ answer \in Gone) \in BOOLEAN
      OBVIOUS
    <2>3. /\ view.dead \/ answer \in Gone => view.dead \/ (view.lost \/ answer \in Gone)
          /\ view.lost => view.lost \/ answer \in Gone
      OBVIOUS
    <2> QED BY <2>1, <2>2, <2>3, Zenon
  <1>4. /\ view' \in Views /\ view'.at = "calls" /\ view'.swapped = view.swapped
        /\ view'.id = view.id /\ view'.static = view.static /\ view'.offsets = view.offsets
        /\ view'.shown = NothingShown /\ (view'.dead => view'.lost)
    <2>1. view' \in Views
      <3>1. view.done + 1 \in Nat
        BY <1>2 DEF Views
      <3>2. ASSUME NEW v \in Views, NEW n \in Nat
            PROVE  [v EXCEPT !.done = n, !.power = power] \in Views
        BY DEF Views
      <3>3. ASSUME NEW v \in Views
            PROVE  [v EXCEPT !.lost = lost, !.dead = dead] \in Views
        BY DEF Views
      <3>4. view' = [[view EXCEPT !.done = view.done + 1, !.power = power]
                       EXCEPT !.lost = lost, !.dead = dead]
        BY <1>2, <1>3 DEF Views
      <3> QED BY <1>2, <3>1, <3>2, <3>3, <3>4
    <2>2. /\ view'.at = "calls" /\ view'.swapped = view.swapped
          /\ view'.id = view.id /\ view'.static = view.static /\ view'.offsets = view.offsets
      BY <1>1, <1>2, <1>3 DEF Views
    <2>3. view'.shown = NothingShown
      BY <1>1, <1>2, <1>3 DEF Views
    <2>4. view'.dead = dead /\ view'.lost = lost
      BY <1>1, <1>2, <1>3 DEF Views
    <2> QED BY <2>1, <2>2, <2>3, <2>4, <1>2, <1>3
  <1>5. CardTypeOK' /\ SessionsAreSound' /\ TunedIsExact'
    BY <1>1, <1>4 DEF CardIInv, CardTypeOK, SessionsAreSound, TunedIsExact, Displays
  <1>6. SampleIsSound' /\ DeadSampleShowsNothing'
    BY <1>1, <1>4 DEF SampleIsSound, DeadSampleShowsNothing
  <1>7. KeptIsOfOneCard'
    BY <1>1, <1>2, <1>4 DEF CardIInv, KeptIsOfOneCard
  <1> QED BY <1>5, <1>6, <1>7 DEF CardIInv

\* What is shown is what is kept, and nothing of a session that is gone.
LEMMA ShowSamplePreserves ==
  ASSUME CardIInv, ShowSample
  PROVE  CardIInv'
  <1> DEFINE rested == [view EXCEPT !.at = "rest", !.done = 0, !.power = TRUE, !.lost = FALSE]
             open == [live |-> handle.id, power |-> view.power, static |-> view.static,
                      offsets |-> view.offsets]
             closed == [NothingShown EXCEPT !.offsets = view.offsets]
  <1>1. view.at = "calls" /\ UNCHANGED <<slots, library, tuner, tuned>>
    BY DEF ShowSample
  <1>2. view \in Views /\ view.shown = NothingShown
    BY <1>1 DEF CardIInv, CardTypeOK, SampleIsSound
  <1>3. /\ rested \in Views /\ rested.at = "rest" /\ rested.swapped = view.swapped
        /\ rested.id = view.id /\ rested.static = view.static
        /\ rested.offsets = view.offsets /\ rested.dead = view.dead
    BY <1>2 DEF Views
  <1>4. rested.shown = NothingShown
    BY <1>2 DEF Views
  <1>5. \/ view.lost /\ view' = Forgotten(rested) /\ handle' = NoHandle
        \/ /\ ~view.lost /\ handle = NoHandle /\ handle' = handle
           /\ view' = [rested EXCEPT !.shown = closed]
        \/ /\ ~view.lost /\ handle # NoHandle /\ handle' = handle
           /\ view' = [rested EXCEPT !.shown = open]
    BY DEF ShowSample
  <1>6. /\ handle # NoHandle =>
             open \in [live : Known, power : BOOLEAN, static : Known, offsets : Known]
        /\ closed \in [live : Known, power : BOOLEAN, static : Known, offsets : Known]
    BY <1>2, NvidiaAssumption DEF CardIInv, CardTypeOK, Views, Sessions, Known, NothingShown
  <1>7. /\ closed.live = NoCard /\ closed.static = NoCard /\ closed.offsets = view.offsets
        /\ open.live = handle.id /\ open.static = view.static /\ open.offsets = view.offsets
    BY DEF NothingShown
  <1> HIDE DEF rested, open, closed
  <1>8. CASE view.lost /\ view' = Forgotten(rested) /\ handle' = NoHandle
    <2>1. /\ view' \in Views /\ view'.at = "rest" /\ view'.swapped = view.swapped
          /\ view'.id = view.id /\ view'.static = NoCard /\ view'.offsets = NoCard
          /\ view'.shown = NothingShown
      BY <1>3, <1>4, <1>8 DEF Forgotten, Views, Known
    <2>2. CardTypeOK' /\ SessionsAreSound' /\ TunedIsExact'
      BY <1>1, <1>8, <2>1 DEF CardIInv, CardTypeOK, SessionsAreSound, TunedIsExact, Displays
    <2>3. SampleIsSound' /\ DeadSampleShowsNothing'
      BY <1>8, <2>1 DEF SampleIsSound, DeadSampleShowsNothing
    <2>4. KeptIsOfOneCard'
      BY <1>8, <2>1 DEF KeptIsOfOneCard, NothingShown
    <2> QED BY <2>2, <2>3, <2>4 DEF CardIInv
  <1>9. ASSUME ~view.lost, handle' = handle,
               NEW shown, view' = [rested EXCEPT !.shown = shown],
               shown \in [live : Known, power : BOOLEAN, static : Known, offsets : Known],
               handle = NoHandle => shown = closed,
               handle # NoHandle => shown = open
        PROVE  CardIInv'
    <2>1. /\ view' \in Views /\ view'.at = "rest" /\ view'.swapped = view.swapped
          /\ view'.id = view.id /\ view'.static = view.static /\ view'.offsets = view.offsets
          /\ view'.dead = view.dead /\ view'.shown = shown
      BY <1>3, <1>9 DEF Views
    <2>2. CardTypeOK' /\ SessionsAreSound' /\ TunedIsExact'
      BY <1>1, <1>9, <2>1 DEF CardIInv, CardTypeOK, SessionsAreSound, TunedIsExact, Displays
    <2>3. SampleIsSound'
      BY <1>9, <2>1 DEF CardIInv, SampleIsSound
    <2>4. DeadSampleShowsNothing'
      <3>1. view.dead => handle = NoHandle /\ view.offsets = NoCard
        BY <1>1, <1>9 DEF CardIInv, SampleIsSound
      <3>2. view.offsets = NoCard => closed = NothingShown
        <4>1. ASSUME NEW s \in [live : Known, power : BOOLEAN, static : Known, offsets : Known],
                     s.offsets = NoCard
              PROVE  [s EXCEPT !.offsets = NoCard] = s
          BY <4>1
        <4>2. /\ NothingShown \in [live : Known, power : BOOLEAN, static : Known, offsets : Known]
              /\ NothingShown.offsets = NoCard
          BY DEF NothingShown, Known
        <4> QED BY <4>1, <4>2, Zenon DEF closed
      <3> QED BY <1>9, <2>1, <3>1, <3>2 DEF DeadSampleShowsNothing
    <2>5. KeptIsOfOneCard'
      BY <1>1, <1>7, <1>9, <2>1 DEF CardIInv, KeptIsOfOneCard
    <2> QED BY <2>2, <2>3, <2>4, <2>5 DEF CardIInv
  <1> QED BY <1>5, <1>6, <1>8, <1>9, Zenon

\* Only the exact card gets a session that may tune, and it tunes its own states.
LEMMA TunerPreserves ==
  ASSUME CardIInv, TunerNext
  PROVE  CardIInv'
  <1>1. UNCHANGED <<slots, library, handle, view>>
    BY DEF TunerNext, OpenTuner, TuneCard, CloseTuner
  <1>2. CASE OpenTuner
    <2> DEFINE b == discover_nvidia_pci_device
    <2>1. b \in Displays
      BY <1>2, RankingFinds DEF CardIInv, OpenTuner
    <2>2. slots[b].exact /\ tuner' = OpenedAt(b, ExpectedStates, TRUE) /\ tuned' = tuned
      BY <1>2 DEF OpenTuner
    <2>3. ExpectedStates \in SUBSET Nat
      BY DEF ExpectedStates
    <2> HIDE DEF b
    <2>4. tuner' \in Sessions /\ tuner'.exact /\ tuner'.states = ExpectedStates
      BY <2>1, <2>2, <2>3, OpenedIsOfTheCard DEF CardIInv
    <2> QED
      BY <1>1, <2>2, <2>4 DEF CardIInv, CardTypeOK, SessionsAreSound, SampleIsSound,
         KeptIsOfOneCard, TunedIsExact, DeadSampleShowsNothing, Displays
  <1>3. CASE TuneCard
    <2>1. PICK s \in {tuner, handle} \ {NoHandle} :
            s.authorized /\ tuned' = tuned \cup {[exact |-> s.exact, states |-> s.states]}
      BY <1>3 DEF TuneCard
    <2>2. s.exact /\ s.states = ExpectedStates
      BY <2>1 DEF CardIInv, SessionsAreSound
    <2>3. TunedIsExact'
      BY <2>1, <2>2 DEF CardIInv, TunedIsExact, ExpectedStates
    <2>4. tuner' = tuner
      BY <1>3 DEF TuneCard
    <2> QED
      BY <1>1, <2>3, <2>4 DEF CardIInv, CardTypeOK, SessionsAreSound, SampleIsSound,
         KeptIsOfOneCard, DeadSampleShowsNothing, Displays
  <1>4. CASE CloseTuner
    BY <1>1, <1>4 DEF CardIInv, CardTypeOK, SessionsAreSound, SampleIsSound,
       KeptIsOfOneCard, TunedIsExact, DeadSampleShowsNothing, Displays, CloseTuner
  <1> QED BY <1>2, <1>3, <1>4 DEF TunerNext

\* When the driver goes, every session is the same session, cut off.
LEMMA DriverReloadsPreserves ==
  ASSUME CardIInv, DriverReloads
  PROVE  CardIInv'
  <1>1. /\ library' \in Libraries /\ UNCHANGED <<slots, view, tuned>>
        /\ handle' = CutOff(handle) /\ tuner' = CutOff(tuner)
    BY DEF DriverReloads
  <1>2. handle \in Sessions \cup {NoHandle} /\ tuner \in Sessions \cup {NoHandle}
    BY DEF CardIInv, CardTypeOK
  <1>3. /\ handle' \in Sessions \cup {NoHandle} /\ (handle' = NoHandle <=> handle = NoHandle)
        /\ handle # NoHandle => handle'.id = handle.id /\ handle'.authorized = handle.authorized
    BY <1>1, <1>2, CutOffKeeps
  <1>4. /\ tuner' \in Sessions \cup {NoHandle} /\ (tuner' = NoHandle <=> tuner = NoHandle)
        /\ tuner # NoHandle => tuner'.exact = tuner.exact /\ tuner'.states = tuner.states
    BY <1>1, <1>2, CutOffKeeps
  <1>5. CardTypeOK' /\ SessionsAreSound' /\ TunedIsExact'
    BY <1>1, <1>3, <1>4 DEF CardIInv, CardTypeOK, SessionsAreSound, TunedIsExact, Displays
  <1>6. SampleIsSound' /\ DeadSampleShowsNothing' /\ KeptIsOfOneCard'
    BY <1>1, <1>3 DEF CardIInv, SampleIsSound, DeadSampleShowsNothing, KeptIsOfOneCard
  <1> QED BY <1>5, <1>6 DEF CardIInv

\* A card may go, come or sleep; another card in the middle of a sample is remembered.
LEMMA CardChangesPreserves ==
  ASSUME CardIInv, CardChanges
  PROVE  CardIInv'
  <1>1. PICK b \in Buses, c \in Cards \cup {NoCard} :
          /\ (slots[b] # NoCard /\ slots[b].exact) = (c # NoCard /\ c.exact)
          /\ slots' = [slots EXCEPT ![b] = c]
          /\ LET swapped == IdAt(b) # IF c = NoCard THEN NoCard ELSE c.id
                 Held(s) == IF s # NoHandle /\ s.bus = b /\ swapped THEN CutOff(s) ELSE s
             IN /\ handle' = Held(handle) /\ tuner' = Held(tuner)
                /\ view' = [view EXCEPT !.swapped = @ \/ (swapped /\ view.at # "rest")]
    BY Zenon DEF CardChanges
  <1> DEFINE swapped == IdAt(b) # IF c = NoCard THEN NoCard ELSE c.id
             marked == view.swapped \/ (swapped /\ view.at # "rest")
  <1>2. UNCHANGED <<library, tuned>>
    BY DEF CardChanges
  <1>3. slots' \in [Buses -> Cards \cup {NoCard}]
    BY <1>1 DEF CardIInv, CardTypeOK
  <1>4. handle \in Sessions \cup {NoHandle} /\ tuner \in Sessions \cup {NoHandle}
    BY DEF CardIInv, CardTypeOK
  <1>5. handle' \in {handle, CutOff(handle)} /\ tuner' \in {tuner, CutOff(tuner)}
    BY <1>1
  <1>6. /\ handle' \in Sessions \cup {NoHandle} /\ (handle' = NoHandle <=> handle = NoHandle)
        /\ handle # NoHandle => handle'.id = handle.id /\ handle'.authorized = handle.authorized
    BY <1>4, <1>5, CutOffKeeps
  <1>7. /\ tuner' \in Sessions \cup {NoHandle} /\ (tuner' = NoHandle <=> tuner = NoHandle)
        /\ tuner # NoHandle => tuner'.exact = tuner.exact /\ tuner'.states = tuner.states
    BY <1>4, <1>5, CutOffKeeps
  <1>8. \A d \in Displays' : slots'[d].exact => d = Home
    BY <1>1, <1>3 DEF CardIInv, CardTypeOK, SessionsAreSound, Displays
  <1>9. view' = [view EXCEPT !.swapped = marked] /\ marked \in BOOLEAN /\ view \in Views
    BY <1>1 DEF CardIInv, CardTypeOK, Views
  <1> HIDE DEF marked
  <1>10. /\ view' \in Views /\ view'.at = view.at /\ view'.bus = view.bus /\ view'.id = view.id
         /\ view'.static = view.static /\ view'.offsets = view.offsets
    BY <1>9 DEF Views
  <1>11. view'.dead = view.dead /\ view'.lost = view.lost /\ view'.shown = view.shown
    BY <1>9 DEF Views
  <1>12. ~view'.swapped => ~view.swapped /\ (~swapped \/ view.at = "rest")
    BY <1>9 DEF Views, marked
  <1>13. CardTypeOK' /\ SessionsAreSound' /\ TunedIsExact'
    BY <1>2, <1>3, <1>6, <1>7, <1>8, <1>10
       DEF CardIInv, CardTypeOK, SessionsAreSound, TunedIsExact
  <1>14. SampleIsSound' /\ DeadSampleShowsNothing'
    BY <1>6, <1>10, <1>11 DEF CardIInv, SampleIsSound, DeadSampleShowsNothing
  <1>15. KeptIsOfOneCard'
    <2>1. ASSUME ~view'.swapped, view.at = "open"
          PROVE  slots'[view.bus] # NoCard /\ slots'[view.bus].id = view.id
      <3>1. view.bus \in Buses /\ slots[view.bus] # NoCard /\ slots[view.bus].id = view.id
        BY <1>12, <2>1 DEF CardIInv, SampleIsSound, KeptIsOfOneCard
      <3>2. CASE view.bus # b
        BY <1>1, <3>1, <3>2 DEF CardIInv, CardTypeOK
      <3>3. CASE view.bus = b
        <4>1. ~swapped
          BY <1>12, <2>1
        <4>2. view.id # NoCard
          BY <3>1, NvidiaAssumption DEF CardIInv, CardTypeOK
        <4>3. slots'[b] = c
          BY <1>1 DEF CardIInv, CardTypeOK
        <4> QED BY <3>1, <3>3, <4>1, <4>2, <4>3 DEF IdAt
      <3> QED BY <3>2, <3>3
    <2> QED BY <1>6, <1>10, <1>11, <1>12, <2>1 DEF CardIInv, KeptIsOfOneCard
  <1> QED BY <1>13, <1>14, <1>15 DEF CardIInv

\* CardIInv holds in every state: no sample ever mixes sessions or cards by accident.
THEOREM InductiveInvariant == CardSpec => []CardIInv
  <1>1. CardInit => CardIInv
    BY CardInitEstablishes
  <1>2. CardIInv /\ [CardNext]_cardVars => CardIInv'
    <2> SUFFICES ASSUME CardIInv, [CardNext]_cardVars PROVE CardIInv'
      OBVIOUS
    <2>1. CASE ReaderNext
      BY <2>1, LookAtCardPreserves, OpenCardPreserves, ReadOffsetsPreserves,
         ReadMetricPreserves, ShowSamplePreserves DEF ReaderNext
    <2>2. CASE TunerNext
      BY <2>2, TunerPreserves
    <2>3. CASE MachineNext
      BY <2>3, DriverReloadsPreserves, CardChangesPreserves DEF MachineNext
    <2>4. CASE UNCHANGED cardVars
      BY <2>4 DEF CardIInv, CardTypeOK, SessionsAreSound, SampleIsSound, KeptIsOfOneCard,
         TunedIsExact, DeadSampleShowsNothing, Displays, cardVars
    <2> QED BY <2>1, <2>2, <2>3, <2>4 DEF CardNext
  <1> QED BY <1>1, <1>2, PTL DEF CardSpec

\* Only the exact card is ever tuned, and only with its own states (discover, discover_telemetry,
\* ensure_mutation_authorized): the reader's session, opened for any card, never sets an offset.
THEOREM OnlyTheExactCardIsTuned == CardSpec => []TunedIsExact
  BY InductiveInvariant, PTL DEF CardIInv

\* A sample in which any call was told that the session is gone shows nothing of the card,
\* and its session is closed (sample, lose_nvidia_session).
THEOREM DeadSampleIsEmpty == CardSpec => []DeadSampleShowsNothing
  BY InductiveInvariant, PTL DEF CardIInv

\* What a sample shows together is of one card (update_identity, lose_nvidia_session).
THEOREM SampleIsOfOneCard == CardSpec => []OneCardIsShown
  <1>1. CardIInv => OneCardIsShown
    BY DEF CardIInv, KeptIsOfOneCard, OneCardIsShown
  <1> QED BY <1>1, InductiveInvariant, PTL

------------------------------------------------------------------------------
(* NVML is closed once while nothing happens at the GPU (NvmlSession).           *)

Lives == [idle : 0..IdleRelease - 1, holdoff : 0..ReopenHoldoff, armed : BOOLEAN]
Retries == [wait : 0..RetryMax, delay : 1..RetryMax]
Readers ==
  [phase : {"rest", "open", "slow", "live"}, open : BOOLEAN, known : BOOLEAN,
   canSuspend : BOOLEAN, slow : 0..SlowRefresh, life : Lives, retry : Retries]

\* SampleBackoff and NvidiaIdleLifecycle keep their ranges.
LEMMA FailureIsTyped ==
  ASSUME NEW retry \in Retries
  PROVE  Failure(retry) \in Retries
  <1>1. RetryMax \in Nat \ {0} /\ retry.delay \in 1..RetryMax
    BY NvmlAssumption DEF Retries
  <1>2. (IF 2 * retry.delay > RetryMax THEN RetryMax ELSE 2 * retry.delay) \in 1..RetryMax
    BY <1>1
  <1>3. retry.delay \in 0..RetryMax
    BY <1>1
  <1> QED BY <1>2, <1>3 DEF Failure, Retries

\* Both start in their ranges.
LEMMA DefaultsAreTyped == Armed \in Lives /\ RetryDefault \in Retries
  BY NvmlAssumption DEF Armed, RetryDefault, Lives, Retries

\* A device that cannot suspend or is busy is not released, and neither is one that has
\* been released before.
LEMMA ObservedIsTyped ==
  ASSUME NEW life \in Lives, NEW canSuspend \in BOOLEAN, NEW idle \in BOOLEAN
  PROVE  LET seen == Observe(life, canSuspend, idle)
         IN /\ seen.life \in Lives /\ seen.release \in BOOLEAN
            /\ seen.release => canSuspend /\ idle /\ life.armed /\ ~seen.life.armed
            /\ canSuspend /\ idle /\ ~life.armed => seen.life = life
  <1> DEFINE seen == Observe(life, canSuspend, idle)
             Fits(o) == /\ o.life \in Lives /\ o.release \in BOOLEAN
                        /\ o.release => canSuspend /\ idle /\ life.armed /\ ~o.life.armed
                        /\ canSuspend /\ idle /\ ~life.armed => o.life = life
  <1> SUFFICES Fits(seen)
    OBVIOUS
  <1>1. /\ IdleRelease \in Nat \ {0} /\ ReopenHoldoff \in Nat /\ 0 \in 0..IdleRelease - 1
        /\ life.idle \in 0..IdleRelease - 1
    BY NvmlAssumption DEF Lives
  <1>2. CASE ~canSuspend
    <2>1. seen = [life |-> Armed, release |-> FALSE]
      BY <1>2 DEF Observe
    <2> HIDE DEF seen
    <2>3. Fits(seen)
      BY <1>2, <2>1, DefaultsAreTyped
    <2> QED BY <2>3 DEF seen
  <1>3. CASE canSuspend /\ ~idle
    <2> DEFINE l == [life EXCEPT !.idle = 0, !.armed = TRUE]
    <2>1. seen = [life |-> l, release |-> FALSE]
      BY <1>3 DEF Observe
    <2>2. l \in Lives
      BY <1>1 DEF Lives
    <2> HIDE DEF seen, l
    <2>3. Fits(seen)
      BY <1>3, <2>1, <2>2
    <2> QED BY <2>3 DEF seen
  <1>4. CASE canSuspend /\ idle /\ ~life.armed
    <2>1. seen = [life |-> life, release |-> FALSE]
      BY <1>4 DEF Observe
    <2> HIDE DEF seen
    <2>3. Fits(seen)
      BY <1>4, <2>1
    <2> QED BY <2>3 DEF seen
  <1>5. CASE canSuspend /\ idle /\ life.armed /\ life.idle + 1 < IdleRelease
    <2> DEFINE l == [life EXCEPT !.idle = @ + 1]
    <2>1. seen = [life |-> l, release |-> FALSE]
      BY <1>5 DEF Observe
    <2>2. l \in Lives
      BY <1>1, <1>5 DEF Lives
    <2> HIDE DEF seen, l
    <2>3. Fits(seen)
      BY <1>5, <2>1, <2>2
    <2> QED BY <2>3 DEF seen
  <1>6. CASE canSuspend /\ idle /\ life.armed /\ ~(life.idle + 1 < IdleRelease)
    <2> DEFINE l == [idle |-> 0, holdoff |-> ReopenHoldoff, armed |-> FALSE]
    <2>1. seen = [life |-> l, release |-> TRUE]
      BY <1>6 DEF Observe
    <2>2. l \in Lives /\ ~l.armed
      BY <1>1 DEF Lives
    <2> HIDE DEF seen, l
    <2>3. Fits(seen)
      BY <1>6, <2>1, <2>2
    <2> QED BY <2>3 DEF seen
  <1> QED BY <1>2, <1>3, <1>4, <1>5, <1>6

\* Giving a session up keeps the rest of the reader.
LEMMA ClosedIsTyped ==
  ASSUME NEW r \in Readers
  PROVE  /\ Closed(r) \in Readers /\ ~Closed(r).open /\ Closed(r).phase = r.phase
         /\ Closed(r).life = r.life /\ Closed(r).known = r.known
         /\ Closed(r).canSuspend = r.canSuspend
  <1>1. 0 \in 0..SlowRefresh
    BY NvmlAssumption
  <1> DEFINE c == Closed(r)
  <1>2. c = [r EXCEPT !.open = FALSE, !.slow = 0, !.retry = RetryDefault]
    BY DEF Closed
  <1> HIDE DEF c
  <1>3. c \in Readers
    BY <1>1, <1>2, DefaultsAreTyped DEF Readers
  <1>4. /\ ~c.open /\ c.phase = r.phase /\ c.life = r.life /\ c.known = r.known
        /\ c.canSuspend = r.canSuspend
    BY <1>2 DEF Readers
  <1> QED BY <1>3, <1>4 DEF c

\* Neither does losing it.
LEMMA LostIsTyped ==
  ASSUME NEW r \in Readers
  PROVE  /\ Lost(r) \in Readers /\ Lost(r).known = r.known
         /\ Lost(r).canSuspend = r.canSuspend
  <1>1. 0 \in 0..SlowRefresh /\ Failure(r.retry) \in Retries
    BY NvmlAssumption, FailureIsTyped DEF Readers
  <1> DEFINE c == Lost(r)
             retry == Failure(r.retry)
  <1>2. c = [r EXCEPT !.open = FALSE, !.slow = 0, !.life = Armed, !.retry = retry]
    BY DEF Lost
  <1>3. retry \in Retries
    BY <1>1
  <1> HIDE DEF c, retry
  <1>4. c \in Readers
    BY <1>1, <1>2, <1>3, DefaultsAreTyped DEF Readers
  <1>5. c.known = r.known /\ c.canSuspend = r.canSuspend
    BY <1>2 DEF Readers
  <1> QED BY <1>4, <1>5 DEF c

\* A device that must not be touched leaves no session.
LEMMA DroppedIsTyped ==
  ASSUME NEW r \in Readers, NEW known \in BOOLEAN
  PROVE  /\ Dropped(r, known) \in Readers /\ ~Dropped(r, known).open
         /\ Dropped(r, known).phase = r.phase /\ ~Dropped(r, known).canSuspend
  <1> DEFINE c == Closed(r)
             d == Dropped(r, known)
  <1>1. d = [c EXCEPT !.life = Armed, !.known = known, !.canSuspend = FALSE]
    BY DEF Dropped
  <1>2. c \in Readers /\ ~c.open /\ c.phase = r.phase
    BY ClosedIsTyped
  <1> HIDE DEF c, d
  <1>3. d \in Readers
    BY <1>1, <1>2, DefaultsAreTyped DEF Readers
  <1>4. ~d.open /\ d.phase = r.phase /\ ~d.canSuspend
    BY <1>1, <1>2 DEF Readers
  <1> QED BY <1>3, <1>4 DEF d

\* What stands against opening a session does not arm its lifecycle again.
LEMMA WantedIsTyped ==
  ASSUME NEW r \in Readers
  PROVE  /\ Wanted(r) \in Readers /\ Wanted(r).phase \in {"slow", "open"}
         /\ Wanted(r).open = r.open /\ Wanted(r).known = r.known
         /\ Wanted(r).canSuspend = r.canSuspend /\ Wanted(r).life.armed = r.life.armed
         /\ Wanted(r).phase = "open" => ~r.open
  <1> DEFINE w == Wanted(r)
  <1>1. /\ r.life \in Lives /\ r.retry \in Retries /\ r.open \in BOOLEAN
        /\ ReopenHoldoff \in Nat /\ RetryMax \in Nat
    BY NvmlAssumption DEF Readers
  <1>2. CASE r.open
    <2>1. w = [r EXCEPT !.phase = "slow"]
      BY <1>2 DEF Wanted
    <2> HIDE DEF w
    <2> QED BY <2>1 DEF Readers, w
  <1>3. CASE ~r.open /\ r.life.holdoff > 0
    <2> DEFINE l == [r.life EXCEPT !.holdoff = @ - 1]
    <2>1. w = [r EXCEPT !.phase = "slow", !.life = l]
      BY <1>3 DEF Wanted
    <2>2. l \in Lives /\ l.armed = r.life.armed
      BY <1>1, <1>3 DEF Lives
    <2> HIDE DEF w, l
    <2> QED BY <2>1, <2>2 DEF Readers, w
  <1>4. CASE ~r.open /\ ~(r.life.holdoff > 0) /\ r.retry.wait > 1
    <2> DEFINE t == [r.retry EXCEPT !.wait = @ - 1]
    <2>1. w = [r EXCEPT !.phase = "slow", !.retry = t]
      BY <1>4 DEF Wanted
    <2>2. t \in Retries
      BY <1>1, <1>4 DEF Retries
    <2> HIDE DEF w, t
    <2> QED BY <2>1, <2>2 DEF Readers, w
  <1>5. CASE ~r.open /\ ~(r.life.holdoff > 0) /\ ~(r.retry.wait > 1)
    <2> DEFINE t == [r.retry EXCEPT !.wait = 0]
    <2>1. w = [r EXCEPT !.phase = "open", !.retry = t]
      BY <1>5 DEF Wanted
    <2>2. t \in Retries
      BY <1>1 DEF Retries
    <2> HIDE DEF w, t
    <2> QED BY <1>5, <2>1, <2>2 DEF Readers, w
  <1> QED BY <1>2, <1>3, <1>4, <1>5

\* What the steps use of the invariant.
LEMMA NvmlFacts ==
  ASSUME NvmlIInv
  PROVE  /\ reader \in Readers /\ reader.life \in Lives /\ quiet \in Nat
         /\ dgpu \in [status : Statuses, user : {"none", "idle", "busy"}, shows : UsageShown,
                      counts : BOOLEAN, exact : IdleShown]
         /\ dgpu.shows \in BOOLEAN /\ dgpu.exact \in BOOLEAN
         /\ reader.known \in BOOLEAN /\ reader.canSuspend \in BOOLEAN /\ reader.open \in BOOLEAN
  <1>1. /\ reader \in Readers /\ quiet \in Nat
        /\ dgpu \in [status : Statuses, user : {"none", "idle", "busy"}, shows : UsageShown,
                     counts : BOOLEAN, exact : IdleShown]
    BY DEF NvmlIInv, NvmlTypeOK, Readers, Lives, Retries
  <1>2. dgpu.shows \in BOOLEAN /\ dgpu.exact \in BOOLEAN
    BY <1>1, NvmlAssumption
  <1>3. /\ reader.life \in Lives /\ reader.known \in BOOLEAN /\ reader.canSuspend \in BOOLEAN
        /\ reader.open \in BOOLEAN
    BY <1>1 DEF Readers
  <1> QED BY <1>1, <1>2, <1>3

\* A step at whose end nothing counts as quiet.
LEMMA LoudKeeps ==
  ASSUME NvmlIInv, reader' \in Readers, quiet' = 0,
         dgpu' \in [status : Statuses, user : {"none", "idle", "busy"}, shows : UsageShown,
                   counts : BOOLEAN, exact : IdleShown],
         reader'.canSuspend => reader'.known /\ dgpu'.status # "unsupported"
  PROVE  NvmlIInv'
  <1>1. NvmlTypeOK'
    BY DEF NvmlTypeOK, Readers, Lives, Retries
  <1>2. ReleasedOnce'
    BY DEF ReleasedOnce
  <1> QED BY <1>1, <1>2 DEF NvmlIInv, SuspendsWhenKnown

\* A step of the reader that leaves the device and the count alone.
LEMMA ReaderKeeps ==
  ASSUME NvmlIInv, reader' \in Readers, UNCHANGED <<dgpu, quiet>>,
         reader'.canSuspend => reader'.known /\ dgpu.status # "unsupported",
         quiet > 0 /\ StaysClosed => ~reader'.open /\ reader'.phase # "open",
         quiet > 0 /\ ~StaysClosed =>
           reader'.known /\ reader'.canSuspend /\ ~reader'.life.armed
  PROVE  NvmlIInv'
  <1>1. dgpu' = dgpu /\ quiet' = quiet
    OBVIOUS
  <1>2. NvmlTypeOK'
    BY <1>1, NvmlFacts DEF NvmlTypeOK, Readers, Lives, Retries
  <1>3. StaysClosed' <=> StaysClosed
    BY <1>1 DEF StaysClosed, PermitsLiveNvml
  <1>4. ReleasedOnce'
    BY <1>1, <1>3 DEF ReleasedOnce, NvmlIInv
  <1>5. SuspendsWhenKnown'
    BY <1>1 DEF SuspendsWhenKnown
  <1> QED BY <1>2, <1>4, <1>5 DEF NvmlIInv

\* The first look at the device (refresh_nvidia_lifecycle).
LEMMA LookKeeps ==
  ASSUME NvmlIInv, Look
  PROVE  NvmlIInv'
  <1> DEFINE life == IF reader.known THEN reader.life ELSE Armed
             can == dgpu.status = "active"
             seen == [reader EXCEPT !.phase = "slow", !.known = TRUE, !.canSuspend = can,
                                    !.life = life]
  <1>1. UNCHANGED <<dgpu, quiet>> /\ reader.phase = "rest"
    BY DEF Look
  <1>2. life \in Lives /\ can \in BOOLEAN
    BY NvmlFacts, DefaultsAreTyped
  <1>3. \/ /\ ~PermitsLiveNvml(dgpu.status)
           /\ reader' = Dropped(seen, dgpu.status # "absent")
        \/ /\ dgpu.status = "active" /\ dgpu.shows /\ Unused
           /\ reader' = [Closed(seen) EXCEPT !.life = Armed]
        \/ /\ PermitsLiveNvml(dgpu.status)
           /\ ~(dgpu.status = "active" /\ dgpu.shows /\ Unused)
           /\ reader' = Wanted(IF reader.known THEN seen ELSE Closed(seen))
    BY DEF Look
  <1>4. quiet > 0 => quiet = 1 /\ dgpu.status # "unsupported"
    BY DEF NvmlIInv, ReleasedOnce
  <1> HIDE DEF life
  <1>5. /\ seen \in Readers /\ seen.phase = "slow" /\ seen.known /\ seen.canSuspend = can
        /\ seen.life = life /\ seen.open = reader.open
    <2> HIDE DEF can
    <2> QED BY <1>2, NvmlFacts DEF Readers
  <1> HIDE DEF seen
  <1>6. CASE ~PermitsLiveNvml(dgpu.status) /\ reader' = Dropped(seen, dgpu.status # "absent")
    <2>1. /\ reader' \in Readers /\ ~reader'.open /\ reader'.phase = "slow"
          /\ ~reader'.canSuspend
      BY <1>5, <1>6, DroppedIsTyped
    <2> QED BY <1>1, <1>6, <2>1, ReaderKeeps DEF StaysClosed
  <1>7. CASE /\ dgpu.status = "active" /\ dgpu.shows /\ Unused
             /\ reader' = [Closed(seen) EXCEPT !.life = Armed]
    <2> DEFINE c == Closed(seen)
    <2>1. /\ c \in Readers /\ ~c.open /\ c.phase = "slow" /\ c.known /\ reader' = [c EXCEPT !.life = Armed]
      BY <1>5, <1>7, ClosedIsTyped
    <2> HIDE DEF c
    <2>2. reader' \in Readers /\ ~reader'.open /\ reader'.phase = "slow" /\ reader'.known
      BY <2>1, DefaultsAreTyped DEF Readers
    <2>3. StaysClosed
      BY <1>7 DEF StaysClosed, Unused
    <2> QED BY <1>1, <1>7, <2>2, <2>3, ReaderKeeps
  <1>8. CASE /\ PermitsLiveNvml(dgpu.status)
             /\ ~(dgpu.status = "active" /\ dgpu.shows /\ Unused)
             /\ reader' = Wanted(IF reader.known THEN seen ELSE Closed(seen))
    <2> DEFINE r == IF reader.known THEN seen ELSE Closed(seen)
    <2>1. r \in Readers /\ r.life = life /\ r.known /\ r.canSuspend = can
      BY <1>5, ClosedIsTyped
    <2>2. reader' = Wanted(r)
      BY <1>8
    <2> HIDE DEF r
    <2>3. /\ reader' \in Readers /\ reader'.known /\ reader'.canSuspend = can
          /\ reader'.life.armed = life.armed
      BY <2>1, <2>2, WantedIsTyped
    <2>4. quiet > 0 => ~StaysClosed
      <3>1. ASSUME quiet > 0, StaysClosed
            PROVE  FALSE
        <4>1. ~reader.open /\ dgpu.status = "active"
          BY <1>4, <1>8, <3>1 DEF NvmlIInv, ReleasedOnce, PermitsLiveNvml
        <4>2. dgpu.shows /\ dgpu.user = "none"
          BY <1>8, <3>1 DEF StaysClosed
        <4> QED BY <1>8, <4>1, <4>2 DEF Unused
      <3> QED BY <3>1
    <2>5. quiet > 0 => can /\ ~life.armed
      BY <1>4, <1>8, <2>4 DEF NvmlIInv, ReleasedOnce, PermitsLiveNvml, life
    <2> QED BY <1>1, <2>3, <2>4, <2>5, ReaderKeeps
  <1> QED BY <1>3, <1>6, <1>7, <1>8

\* A discovery wakes a sleeping device, which is no quiet one then.
LEMMA DiscoverKeeps ==
  ASSUME NvmlIInv, Discover
  PROVE  NvmlIInv'
  <1>1. reader.phase = "open" /\ quiet' = quiet
    BY DEF Discover
  <1>2. quiet > 0 => ~StaysClosed
    BY <1>1 DEF NvmlIInv, ReleasedOnce
  <1>3. /\ SuspendsWhenKnown /\ RetryDefault \in Retries /\ Failure(reader.retry) \in Retries
        /\ 0 \in 0..SlowRefresh
    BY NvmlFacts, NvmlAssumption, FailureIsTyped, DefaultsAreTyped DEF NvmlIInv, Readers
  <1>4. CASE reader' = [reader EXCEPT !.phase = "slow", !.open = TRUE, !.retry = RetryDefault]
             /\ dgpu' = [dgpu EXCEPT !.status = IF @ = "suspended" THEN "moving" ELSE @]
    <2>1. /\ reader' \in Readers /\ reader'.known = reader.known
          /\ reader'.canSuspend = reader.canSuspend /\ reader'.life = reader.life
      BY <1>3, <1>4, NvmlFacts DEF Readers
    <2>2. /\ dgpu' \in [status : Statuses, user : {"none", "idle", "busy"},
                        shows : UsageShown, counts : BOOLEAN, exact : IdleShown]
          /\ dgpu'.status = "unsupported" => dgpu.status = "unsupported"
      BY <1>4, NvmlFacts DEF Statuses
    <2>3. CASE quiet = 0
      BY <1>1, <1>3, <2>1, <2>2, <2>3, LoudKeeps DEF SuspendsWhenKnown
    <2>4. CASE quiet > 0
      <3>1. dgpu.status # "suspended"
        BY <1>2, <2>4 DEF StaysClosed, PermitsLiveNvml
      <3>2. dgpu' = dgpu
        BY <1>4, <3>1, NvmlFacts
      <3>3. reader.known /\ reader.canSuspend /\ ~reader.life.armed
        BY <1>2, <2>4 DEF NvmlIInv, ReleasedOnce
      <3> QED
        BY <1>1, <1>2, <1>3, <2>1, <2>4, <3>2, <3>3, ReaderKeeps DEF SuspendsWhenKnown
    <2> QED BY <2>3, <2>4, NvmlFacts
  <1>5. CASE /\ reader' = [reader EXCEPT !.phase = "slow", !.slow = 0,
                                         !.retry = Failure(@)]
             /\ UNCHANGED dgpu
    <2> DEFINE retry == Failure(reader.retry)
    <2>1. retry \in Retries /\ reader' = [reader EXCEPT !.phase = "slow", !.slow = 0, !.retry = retry]
      BY <1>3, <1>5
    <2> HIDE DEF retry
    <2>2. /\ reader' \in Readers /\ reader'.known = reader.known
          /\ reader'.canSuspend = reader.canSuspend /\ reader'.life = reader.life
      BY <1>3, <2>1, NvmlFacts DEF Readers
    <2>3. quiet > 0 => reader.known /\ reader.canSuspend /\ ~reader.life.armed
      BY <1>2 DEF NvmlIInv, ReleasedOnce
    <2> QED
      BY <1>1, <1>2, <1>3, <1>5, <2>2, <2>3, ReaderKeeps DEF SuspendsWhenKnown
  <1> QED BY <1>4, <1>5 DEF Discover

\* A slow refresh may find the session lost.
LEMMA SlowKeeps ==
  ASSUME NvmlIInv, RefreshSlow
  PROVE  NvmlIInv'
  <1>1. SuspendsWhenKnown /\ ReleasedOnce /\ UNCHANGED dgpu
    BY DEF NvmlIInv, RefreshSlow
  <1>2. CASE reader' = [Lost(reader) EXCEPT !.phase = "live"] /\ quiet' = 0
    <2> DEFINE c == Lost(reader)
    <2>1. /\ c \in Readers /\ c.known = reader.known /\ c.canSuspend = reader.canSuspend
          /\ reader' = [c EXCEPT !.phase = "live"]
      BY <1>2, LostIsTyped, NvmlFacts
    <2> HIDE DEF c
    <2>2. /\ reader' \in Readers /\ reader'.known = reader.known
          /\ reader'.canSuspend = reader.canSuspend
      BY <2>1 DEF Readers
    <2> QED BY <1>1, <1>2, <2>2, NvmlFacts, LoudKeeps DEF SuspendsWhenKnown
  <1>3. CASE /\ reader' = [reader EXCEPT !.phase = "live",
                   !.slow = IF ~reader.open THEN 0
                            ELSE IF @ > 0 THEN @ - 1 ELSE SlowRefresh]
             /\ UNCHANGED quiet
    <2> DEFINE slow == IF ~reader.open THEN 0
                       ELSE IF reader.slow > 0 THEN reader.slow - 1 ELSE SlowRefresh
    <2>1. reader' = [reader EXCEPT !.phase = "live", !.slow = slow]
      BY <1>3
    <2>2. slow \in 0..SlowRefresh
      BY NvmlFacts, NvmlAssumption DEF Readers
    <2> HIDE DEF slow
    <2>3. /\ reader' \in Readers /\ reader'.known = reader.known /\ reader'.open = reader.open
          /\ reader'.canSuspend = reader.canSuspend /\ reader'.life = reader.life
          /\ reader'.phase = "live"
      BY <2>1, <2>2, NvmlFacts DEF Readers
    <2> QED BY <1>1, <1>3, <2>3, ReaderKeeps DEF SuspendsWhenKnown, ReleasedOnce
  <1> QED BY <1>2, <1>3 DEF RefreshSlow

\* A second release would need a lifecycle that activity has armed again.
LEMMA MeasureKeeps ==
  ASSUME NvmlIInv, Measure
  PROVE  NvmlIInv'
  <1>1. SuspendsWhenKnown /\ ReleasedOnce /\ UNCHANGED dgpu
    BY DEF NvmlIInv, Measure
  <1>2. CASE reader' = [Lost(reader) EXCEPT !.phase = "rest"] /\ quiet' = 0
    <2> DEFINE c == Lost(reader)
    <2>1. /\ c \in Readers /\ c.known = reader.known /\ c.canSuspend = reader.canSuspend
          /\ reader' = [c EXCEPT !.phase = "rest"]
      BY <1>2, LostIsTyped, NvmlFacts
    <2> HIDE DEF c
    <2>2. /\ reader' \in Readers /\ reader'.known = reader.known
          /\ reader'.canSuspend = reader.canSuspend
      BY <2>1 DEF Readers
    <2> QED BY <1>1, <1>2, <2>2, NvmlFacts, LoudKeeps DEF SuspendsWhenKnown
  <1>3. CASE reader' = [reader EXCEPT !.phase = "rest"] /\ UNCHANGED quiet
    <2>1. /\ reader' \in Readers /\ reader'.known = reader.known /\ reader'.open = reader.open
          /\ reader'.canSuspend = reader.canSuspend /\ reader'.life = reader.life
          /\ reader'.phase = "rest"
      BY <1>3, NvmlFacts DEF Readers
    <2> QED BY <1>1, <1>3, <2>1, ReaderKeeps DEF SuspendsWhenKnown, ReleasedOnce
  <1> DEFINE idle == dgpu.exact /\ dgpu.user # "busy"
             seen == Observe(reader.life, reader.canSuspend, idle)
             kept == [reader EXCEPT !.phase = "rest", !.life = seen.life]
  <1>4. CASE /\ reader.open
             /\ reader' = IF seen.release THEN Closed(kept) ELSE kept
             /\ quiet' = IF seen.release THEN quiet + 1 ELSE quiet
    <2>1. idle \in BOOLEAN
      BY NvmlFacts
    <2>2. /\ seen.life \in Lives /\ seen.release \in BOOLEAN
          /\ seen.release => reader.canSuspend /\ idle /\ reader.life.armed /\ ~seen.life.armed
          /\ reader.canSuspend /\ idle /\ ~reader.life.armed => seen.life = reader.life
      <3> HIDE DEF idle
      <3> QED BY <2>1, NvmlFacts, ObservedIsTyped
    <2> HIDE DEF seen
    <2>3. /\ kept \in Readers /\ kept.phase = "rest" /\ kept.life = seen.life
          /\ kept.open = reader.open /\ kept.known = reader.known
          /\ kept.canSuspend = reader.canSuspend
      BY <2>2, NvmlFacts DEF Readers
    <2> HIDE DEF kept
    <2>4. quiet > 0 => ~StaysClosed /\ idle /\ reader.canSuspend /\ ~reader.life.armed
                       /\ reader.known
      BY <1>1, <1>4 DEF ReleasedOnce
    <2>5. CASE seen.release
      <3>1. quiet = 0 /\ quiet' = 1
        BY <1>4, <2>2, <2>4, <2>5, NvmlFacts
      <3>2. /\ reader' \in Readers /\ ~reader'.open /\ reader'.phase = "rest"
            /\ reader'.known /\ reader'.canSuspend /\ ~reader'.life.armed
        BY <1>1, <1>4, <2>2, <2>3, <2>5, ClosedIsTyped DEF SuspendsWhenKnown
      <3>3. NvmlTypeOK'
        BY <1>1, <3>1, <3>2, NvmlFacts DEF NvmlTypeOK, Readers, Lives, Retries
      <3>4. dgpu.exact /\ dgpu.user # "busy" /\ dgpu.status # "unsupported"
        BY <1>1, <2>2, <2>5 DEF SuspendsWhenKnown
      <3>5. ReleasedOnce' /\ SuspendsWhenKnown'
        BY <1>1, <3>1, <3>2, <3>4 DEF ReleasedOnce, SuspendsWhenKnown
      <3> QED BY <3>3, <3>5 DEF NvmlIInv
    <2>6. CASE ~seen.release
      <3>1. quiet' = quiet /\ reader' = kept
        BY <1>4, <2>6
      <3>2. quiet > 0 => ~StaysClosed /\ reader'.known /\ reader'.canSuspend
                         /\ ~reader'.life.armed
        BY <2>2, <2>3, <2>4, <3>1
      <3> QED
        BY <1>1, <2>3, <3>1, <3>2, ReaderKeeps DEF SuspendsWhenKnown
    <2> QED BY <2>2, <2>5, <2>6
  <1> QED BY <1>2, <1>3, <1>4 DEF Measure

\* A resume of the machine starts over.
LEMMA InvalidateKeeps ==
  ASSUME NvmlIInv, Invalidate
  PROVE  NvmlIInv'
  <1> DEFINE c == Lost(reader)
  <1>1. /\ SuspendsWhenKnown /\ dgpu' = dgpu /\ quiet' = 0
        /\ c \in Readers /\ c.known = reader.known /\ c.canSuspend = reader.canSuspend
        /\ reader' = [c EXCEPT !.retry = RetryDefault]
    BY LostIsTyped, NvmlFacts DEF NvmlIInv, Invalidate
  <1> HIDE DEF c
  <1>2. /\ reader' \in Readers /\ reader'.known = reader.known
        /\ reader'.canSuspend = reader.canSuspend
    BY <1>1, DefaultsAreTyped DEF Readers
  <1> QED BY <1>1, <1>2, NvmlFacts, LoudKeeps DEF SuspendsWhenKnown

\* What happens at the device is no quiet.
LEMMA OutsideKeeps ==
  ASSUME NvmlIInv, PowerManagement \/ Outside
  PROVE  NvmlIInv'
  <1>1. SuspendsWhenKnown /\ quiet' = 0 /\ reader' = reader
    BY DEF NvmlIInv, PowerManagement, Outside
  <1>2. /\ dgpu' \in [status : Statuses, user : {"none", "idle", "busy"},
                      shows : UsageShown, counts : BOOLEAN, exact : IdleShown]
        /\ dgpu'.status = "unsupported" => dgpu.status = "unsupported"
    <2>1. CASE Suspends \/ Resumes
      BY <2>1, NvmlFacts DEF Suspends, Resumes, Statuses
    <2>2. CASE Replugged \/ UserChanges
      BY <2>2, NvmlFacts DEF Replugged, UserChanges, Statuses
    <2> QED BY <2>1, <2>2 DEF PowerManagement, Outside
  <1> QED BY <1>1, <1>2, NvmlFacts, LoudKeeps DEF SuspendsWhenKnown

\* After a release that nothing has followed at the device, the reader stays away from it,
\* or keeps its session with a lifecycle that only activity arms (observe_live_sample).
THEOREM NvmlInvariant == NvmlSpec => []NvmlIInv
  <1>1. NvmlInit => NvmlIInv
    <2> SUFFICES ASSUME NvmlInit PROVE NvmlIInv
      OBVIOUS
    <2>1. /\ reader = [phase |-> "rest", open |-> FALSE, known |-> FALSE, canSuspend |-> FALSE,
                       life |-> Armed, retry |-> RetryDefault, slow |-> 0]
          /\ quiet = 0
      BY DEF NvmlInit
    <2>2. 0 \in 0..SlowRefresh
      BY NvmlAssumption
    <2>3. reader \in Readers /\ ~reader.canSuspend
      BY <2>1, <2>2, DefaultsAreTyped DEF Readers
    <2>4. dgpu \in [status : Statuses, user : {"none", "idle", "busy"}, shows : UsageShown,
                    counts : BOOLEAN, exact : IdleShown]
      BY DEF NvmlInit, Statuses
    <2>5. NvmlTypeOK
      BY <2>1, <2>3, <2>4 DEF NvmlTypeOK, Readers, Lives, Retries
    <2> QED BY <2>1, <2>3, <2>5 DEF NvmlIInv, ReleasedOnce, SuspendsWhenKnown
  <1>2. NvmlIInv /\ [NvmlNext]_nvmlVars => NvmlIInv'
    <2>1. ASSUME NvmlIInv, UNCHANGED nvmlVars PROVE NvmlIInv'
      BY <2>1 DEF NvmlIInv, NvmlTypeOK, ReleasedOnce, SuspendsWhenKnown, StaysClosed,
         PermitsLiveNvml, nvmlVars
    <2> QED
      BY <2>1, LookKeeps, DiscoverKeeps, SlowKeeps, MeasureKeeps, InvalidateKeeps, OutsideKeeps
         DEF NvmlNext, Sample
  <1> QED BY <1>1, <1>2, PTL DEF NvmlSpec

\* However long nothing happens at the GPU, NVML is closed at most once, for any numbers
\* of idle samples, holdoff and back-off.
THEOREM ReleaseIsOnce == NvmlSpec => []NoFlapping
  <1>1. NvmlIInv => NoFlapping
    BY NvmlFacts DEF NvmlIInv, ReleasedOnce, NoFlapping
  <1> QED BY <1>1, NvmlInvariant, PTL

------------------------------------------------------------------------------
(* The report.                                                                *)

\* What the report says of a daemon that has not answered: one reason for every part.
LEMMA MissingAnswers ==
  ASSUME NEW told, told.is # "value"
  PROVE  LET parts == map_daemon_diagnostics(told)
         IN /\ parts.profile.transport.is = told.is
            /\ parts.fans.control.is = told.is
            /\ parts.platform.transport.is = told.is
BY DEF map_daemon_diagnostics, WithoutAnswer, Sourced

\* Nothing has been asked at first.
LEMMA ReportInitEstablishes == ReportInit => ReportIInv
BY DEF ReportInit, Unasked, ReportIInv, ProbeShape, AbsenceIsTold, ReportIsLast,
       SilenceIsNotAbsence

\* A step that leaves the report as it is.
LEMMA UnreportedKeeps ==
  ASSUME ReportIInv, ProbeShape', AbsenceIsTold', probe.report = <<>>, probe'.report = <<>>
  PROVE  ReportIInv'
BY DEF ReportIInv, ReportIsLast, SilenceIsNotAbsence

\* The calls to the daemon.
LEMMA AskingKeeps ==
  ASSUME ReportIInv, Connect \/ Answered \/ Unanswered
  PROVE  ReportIInv'
<1>0. ProbeShape /\ probe.at \in {"start", "waiting"} /\ probe.report = <<>>
  <2>1. ProbeShape /\ ReportIsLast
    BY DEF ReportIInv
  <2>2. probe.at = "start" \/ probe.at = "waiting"
    BY DEF Connect, Answered, Unanswered
  <2> QED
    BY <2>1, <2>2 DEF ReportIsLast
<1>1. CASE Connect
  <2>1. PICK how \in {"connected", "no socket", "no listener", "timeout", "incompatible"} :
          probe' = [probe EXCEPT !.at = IF how = "connected" THEN "waiting" ELSE "machine",
                                 !.how = how, !.identity = daemon_error(how),
                                 !.told = daemon_error(how)]
    BY <1>1 DEF Connect
  <2>2. daemon_error(how).is = "absent" => how = "no socket"
    BY DEF daemon_error, Absent, Error, Value
  <2>3. ProbeShape' /\ probe'.how = how /\ probe'.told = daemon_error(how)
        /\ probe'.report = <<>>
    BY <1>0, <2>1 DEF ProbeShape
  <2> QED
    BY <1>0, <2>2, <2>3, UnreportedKeeps DEF AbsenceIsTold
<1>2. CASE Answered \/ Unanswered
  <2>1. PICK told : /\ probe' = [probe EXCEPT !.at = "machine", !.told = told]
                    /\ told.is # "absent"
    <3>1. CASE Answered
      <4>1. \A v : Value(v).is # "absent"
        BY DEF Value
      <4>2. control_probe_error("refused").is # "absent"
        BY DEF control_probe_error, Error
      <4> QED
        BY <3>1, <4>1, <4>2 DEF Answered
    <3>2. CASE Unanswered
      <4>1. \A how \in {"timeout", "broken"} : control_probe_error(how).is # "absent"
        BY DEF control_probe_error, Error
      <4> QED
        BY <3>2, <4>1 DEF Unanswered
    <3> QED
      BY <1>2, <3>1, <3>2
  <2>2. ProbeShape' /\ probe'.told = told /\ probe'.report = <<>>
    BY <1>0, <2>1 DEF ProbeShape
  <2> QED
    BY <1>0, <2>1, <2>2, UnreportedKeeps DEF AbsenceIsTold
<1> QED
  BY <1>1, <1>2

\* What the client reads itself.
LEMMA ReadingKeeps ==
  ASSUME ReportIInv, ReadsMachine \/ ReadsPower \/ ReadsDrivers
  PROVE  ReportIInv'
<1>1. /\ ProbeShape /\ AbsenceIsTold /\ probe.report = <<>> /\ probe.at # "start"
  <2>1. ProbeShape /\ ReportIsLast /\ AbsenceIsTold
    BY DEF ReportIInv
  <2>2. probe.at = "machine" \/ probe.at = "power" \/ probe.at = "drivers"
    BY DEF ReadsMachine, ReadsPower, ReadsDrivers, ReadsOr
  <2> QED
    BY <2>1, <2>2 DEF ReportIsLast
<1>2. \E at, local : probe' = [probe EXCEPT !.at = at, !.local = local]
  <2>1. CASE ReadsMachine
    BY <2>1 DEF ReadsMachine
  <2>2. ASSUME NEW at, NEW next, NEW read, ReadsOr(at, next, read)
        PROVE  \E a, local : probe' = [probe EXCEPT !.at = a, !.local = local]
    <3>1. CASE read.failed
      <4>1. probe' = [probe EXCEPT !.at = "failed", !.local = probe.local]
        BY <1>1, <2>2, <3>1 DEF ReadsOr, ProbeShape
      <4> QED
        BY <4>1
    <3>2. CASE ~read.failed
      BY <2>2, <3>2 DEF ReadsOr
    <3> QED
      BY <3>1, <3>2
  <2> QED
    BY <2>1, <2>2 DEF ReadsPower, ReadsDrivers
<1>3. /\ ProbeShape' /\ probe'.told = probe.told /\ probe'.how = probe.how
      /\ probe'.report = <<>>
  BY <1>1, <1>2 DEF ProbeShape
<1> QED
  BY <1>1, <1>3, UnreportedKeeps DEF AbsenceIsTold

\* The report is made of what the client was told.
LEMMA PublishingKeeps ==
  ASSUME ReportIInv, Publish
  PROVE  ReportIInv'
<1>0. ProbeShape /\ AbsenceIsTold /\ probe.at = "complete"
  BY DEF ReportIInv, Publish
<1>1. PICK at \in {"published", "refused"} :
        probe' = [probe EXCEPT !.at = at, !.report = <<Compiled>>]
  BY DEF Publish
<1>2. /\ ProbeShape' /\ probe'.at = at /\ probe'.how = probe.how /\ probe'.told = probe.told
      /\ probe'.report = <<Compiled>>
  BY <1>0, <1>1 DEF ProbeShape
<1>3. AbsenceIsTold' /\ ReportIsLast'
  BY <1>0, <1>2 DEF AbsenceIsTold, ReportIsLast
<1>4. Compiled.told = map_daemon_diagnostics(probe.told)
  BY DEF Compiled
<1>5. SilenceIsNotAbsence'
  <2>1. probe.told.is # "value" /\ probe.told.is # "absent" =>
          /\ Compiled.told.profile.transport.is # "absent"
          /\ Compiled.told.fans.control.is # "absent"
          /\ Compiled.told.platform.transport.is # "absent"
    BY <1>4, MissingAnswers
  <2>2. probe.told.is = "absent" => probe.how = "no socket"
    BY <1>0 DEF AbsenceIsTold
  <2>3. \A i \in DOMAIN probe'.report : probe'.report[i] = Compiled
    BY <1>2
  <2> QED
    BY <1>2, <2>1, <2>2, <2>3 DEF SilenceIsNotAbsence
<1> QED
  BY <1>2, <1>3, <1>5 DEF ReportIInv

\* Every step keeps the invariant.
LEMMA ReportNextKeeps ==
  ASSUME ReportIInv, [ReportNext]_reportVars
  PROVE  ReportIInv'
<1>1. CASE UNCHANGED probe
  BY <1>1 DEF ReportIInv, ProbeShape, AbsenceIsTold, ReportIsLast, SilenceIsNotAbsence
<1>2. Collect \/ MachineChanges \/ Done \/ UNCHANGED reportVars => UNCHANGED probe
  BY DEF Collect, MachineChanges, Done, reportVars
<1> QED
  BY <1>1, <1>2, AskingKeeps, ReadingKeeps, PublishingKeeps DEF ReportNext

\* The inductive invariant of the report holds in every behaviour.
THEOREM ReportInvariant == ReportSpec => []ReportIInv
BY ReportInitEstablishes, ReportNextKeeps, PTL DEF ReportSpec

\* A report says that something is absent only on the word of the daemon, or when there is no
\* socket to ask it at (probe.rs, collect_daemon_context and daemon_error).
THEOREM SilenceIsAnError == ReportSpec => []SilenceIsNotAbsence
<1>1. ReportIInv => SilenceIsNotAbsence
  BY DEF ReportIInv
<1> QED
  BY <1>1, ReportInvariant, PTL

-------------------------------------------------------------------------------
(* Finite sets in order.                                                          *)

\* A strict order of all of a set's elements.
Orders(R, S) ==
  /\ \A x \in S : <<x, x>> \notin R
  /\ \A x, y \in S : x # y => <<x, y>> \in R \/ <<y, x>> \in R
  /\ \A x, y, z \in S : <<x, y>> \in R /\ <<y, z>> \in R => <<x, z>> \in R

\* A finite set that is ordered is listed from the first to the last, and whole.
LEMMA OrderedLists ==
  ASSUME NEW S, IsFiniteSet(S), NEW R, Orders(R, S)
  PROVE  /\ Cardinality(S) \in Nat
         /\ Ordered(S, R) \in [1 .. Cardinality(S) -> S]
         /\ \A i, j \in 1 .. Cardinality(S) :
              i < j => <<Ordered(S, R)[i], Ordered(S, R)[j]>> \in R
         /\ \A x \in S : \E i \in 1 .. Cardinality(S) : Ordered(S, R)[i] = x
<1> DEFINE n == Cardinality(S)
           Below(x) == {y \in S : <<y, x>> \in R}
           rank == [x \in S |-> Cardinality(Below(x))]
<1>0. /\ \A x \in S : <<x, x>> \notin R
      /\ \A x, y \in S : x # y => <<x, y>> \in R \/ <<y, x>> \in R
      /\ \A x, y, z \in S : <<x, y>> \in R /\ <<y, z>> \in R => <<x, z>> \in R
  BY DEF Orders
<1>1. n \in Nat
  BY FS_CardinalityType
<1>2. \A x \in S : IsFiniteSet(Below(x)) /\ rank[x] \in 0 .. n - 1
  <2> SUFFICES ASSUME NEW x \in S PROVE IsFiniteSet(Below(x)) /\ Cardinality(Below(x)) \in 0 .. n - 1
    OBVIOUS
  <2>1. IsFiniteSet(S \ {x}) /\ Cardinality(S \ {x}) = n - 1
    BY FS_RemoveElement
  <2>2. Below(x) \in SUBSET (S \ {x})
    BY <1>0
  <2> HIDE DEF Below, n
  <2>3. IsFiniteSet(Below(x)) /\ Cardinality(Below(x)) <= n - 1
    BY <2>1, <2>2, FS_Subset
  <2>4. Cardinality(Below(x)) \in Nat
    BY <2>3, FS_CardinalityType
  <2> QED BY <1>1, <2>3, <2>4
<1>3. \A x, y \in S : <<x, y>> \in R => rank[x] < rank[y]
  <2> SUFFICES ASSUME NEW x \in S, NEW y \in S, <<x, y>> \in R
               PROVE  Cardinality(Below(x)) < Cardinality(Below(y))
    OBVIOUS
  <2>1. Below(x) \cup {x} \in SUBSET Below(y)
    BY <1>0
  <2>2. x \notin Below(x)
    BY <1>0
  <2>3. IsFiniteSet(Below(x)) /\ IsFiniteSet(Below(y))
    BY <1>2
  <2>4. Cardinality(Below(x) \cup {x}) = Cardinality(Below(x)) + 1
    BY <2>2, <2>3, FS_AddElement
  <2>5. Cardinality(Below(x) \cup {x}) <= Cardinality(Below(y))
    BY <2>1, <2>3, FS_Subset
  <2>6. Cardinality(Below(x)) \in Nat /\ Cardinality(Below(y)) \in Nat
    BY <2>3, FS_CardinalityType
  <2> QED BY <2>4, <2>5, <2>6
<1> HIDE DEF Below
<1>4. rank \in Injection(S, 0 .. n - 1)
  <2>1. rank \in [S -> 0 .. n - 1]
    BY <1>2
  <2> HIDE DEF rank
  <2>2. \A x, y \in S : rank[x] = rank[y] => x = y
    <3> SUFFICES ASSUME NEW x \in S, NEW y \in S, x # y PROVE rank[x] # rank[y]
      OBVIOUS
    <3>1. rank[x] \in Int /\ rank[y] \in Int
      BY <1>2
    <3>2. <<x, y>> \in R \/ <<y, x>> \in R
      BY <1>0
    <3> QED BY <1>3, <3>1, <3>2
  <2> QED BY <2>1, <2>2 DEF Injection, IsInjective
<1>5. rank \in Surjection(S, 0 .. n - 1)
  <2>1. IsFiniteSet(0 .. n - 1) /\ Cardinality(0 .. n - 1) = n
    <3>1. 0 \in Int /\ n - 1 \in Int
      BY <1>1
    <3> HIDE DEF n
    <3> QED BY <1>1, <3>1, FS_Interval
  <2> QED BY <1>4, <2>1, FS_Injection
<1>6. ASSUME NEW i \in 1 .. n
      PROVE  Ordered(S, R)[i] \in S /\ rank[Ordered(S, R)[i]] = i - 1
  <2>0. i - 1 \in 0 .. n - 1
    BY <1>1
  <2>1. \E x \in S : Cardinality(Below(x)) = i - 1
    <3>1. \A k \in 0 .. n - 1 : \E x \in S : rank[x] = k
      BY <1>5 DEF Surjection
    <3> QED BY <2>0, <3>1
  <2>2. Ordered(S, R)[i] = CHOOSE x \in S : Cardinality(Below(x)) = i - 1
    BY DEF Ordered, Below
  <2> QED BY <2>1, <2>2
<1>7. Ordered(S, R) \in [1 .. n -> S]
  <2> DEFINE At(i) == CHOOSE x \in S : Cardinality({y \in S : <<y, x>> \in R}) = i - 1
  <2>1. Ordered(S, R) = [i \in 1 .. n |-> At(i)]
    BY DEF Ordered
  <2> HIDE DEF At, rank, n
  <2> QED BY <1>6, <2>1
<1>8. ASSUME NEW i \in 1 .. n, NEW j \in 1 .. n, i < j
      PROVE  <<Ordered(S, R)[i], Ordered(S, R)[j]>> \in R
  <2>1. PICK x \in S : x = Ordered(S, R)[i] /\ rank[x] = i - 1
    BY <1>6
  <2>2. PICK y \in S : y = Ordered(S, R)[j] /\ rank[y] = j - 1
    BY <1>6
  <2> HIDE DEF rank
  <2>3. rank[x] < rank[y] /\ x # y
    BY <1>1, <1>8, <2>1, <2>2
  <2>4. rank[x] \in Int /\ rank[y] \in Int
    BY <1>2
  <2>5. <<y, x>> \notin R
    BY <1>3, <2>3, <2>4
  <2> QED BY <1>0, <2>1, <2>2, <2>3, <2>5
<1>9. ASSUME NEW x \in S
      PROVE  \E i \in 1 .. n : Ordered(S, R)[i] = x
  <2> DEFINE i == rank[x] + 1
  <2>1. rank[x] \in 0 .. n - 1
    BY <1>2
  <2> HIDE DEF rank
  <2>2. i \in 1 .. n
    BY <1>1, <2>1
  <2>3. rank[Ordered(S, R)[i]] = rank[x] /\ Ordered(S, R)[i] \in S
    BY <2>1, <2>2, <1>6
  <2>4. Ordered(S, R)[i] = x
    BY <1>4, <2>3 DEF Injection, IsInjective
  <2> QED BY <2>2, <2>4
<1> QED
  BY <1>1, <1>7, <1>8, <1>9

\* In particular a finite set of numbers is listed from the least to the greatest.
LEMMA AscendingLists ==
  ASSUME NEW S, IsFiniteSet(S), S \subseteq Int
  PROVE  /\ Cardinality(S) \in Nat
         /\ Ascending(S) \in [1 .. Cardinality(S) -> S]
         /\ Len(Ascending(S)) = Cardinality(S)
         /\ \A i, j \in 1 .. Cardinality(S) : i < j => Ascending(S)[i] < Ascending(S)[j]
         /\ \A x \in S : \E i \in 1 .. Cardinality(S) : Ascending(S)[i] = x
<1> DEFINE R == {p \in S \X S : p[1] < p[2]}
<1>1. \A x, y \in S : <<x, y>> \in R <=> x < y
  OBVIOUS
<1>2. Orders(R, S)
  <2> HIDE DEF R
  <2>1. \A x \in S : x \in Int
    OBVIOUS
  <2> QED BY <1>1, <2>1 DEF Orders
<1>3. Ascending(S) = Ordered(S, R)
  BY DEF Ascending
<1> HIDE DEF R
<1>4. /\ Cardinality(S) \in Nat
      /\ Ordered(S, R) \in [1 .. Cardinality(S) -> S]
      /\ \A i, j \in 1 .. Cardinality(S) :
           i < j => <<Ordered(S, R)[i], Ordered(S, R)[j]>> \in R
      /\ \A x \in S : \E i \in 1 .. Cardinality(S) : Ordered(S, R)[i] = x
  BY <1>2, OrderedLists
<1>5. Len(Ascending(S)) = Cardinality(S)
  BY <1>3, <1>4
<1>6. \A i, j \in 1 .. Cardinality(S) : i < j => Ascending(S)[i] < Ascending(S)[j]
  BY <1>1, <1>3, <1>4
<1> QED
  BY <1>3, <1>4, <1>5, <1>6

\* The greatest of a few numbers is one of them.
LEMMA GreatestIsThere ==
  ASSUME NEW S, IsFiniteSet(S), S \subseteq Int, S # {}
  PROVE  Max(S) \in S
<1> DEFINE n == Cardinality(S)
           m == Ascending(S)[n]
<1>1. /\ n \in Nat
      /\ Ascending(S) \in [1 .. n -> S]
      /\ \A i, j \in 1 .. n : i < j => Ascending(S)[i] < Ascending(S)[j]
      /\ \A x \in S : \E i \in 1 .. n : Ascending(S)[i] = x
  BY AscendingLists
<1>2. n \in 1 .. n
  BY <1>1, FS_EmptySet
<1> HIDE DEF n
<1>3. m \in S
  BY <1>1, <1>2
<1>4. \A x \in S : m >= x
  <2> SUFFICES ASSUME NEW x \in S PROVE m >= x
    OBVIOUS
  <2>1. PICK i \in 1 .. n : Ascending(S)[i] = x
    BY <1>1
  <2>2. i = n \/ i < n
    BY <1>1
  <2>3. x \in Int /\ m \in Int
    BY <1>3
  <2> QED BY <1>1, <1>2, <2>1, <2>2, <2>3
<1> QED
  BY <1>3, <1>4 DEF Max

-------------------------------------------------------------------------------
(* The descriptor's parser.                                                      *)

\* The IDs of reports are finitely many.
LEMMA BytesAreFinite == IsFiniteSet(0 .. 255)
<1>1. 0 \in Int /\ 255 \in Int
  OBVIOUS
<1> QED
  BY <1>1, FS_Interval

\* The parser between two items.
Usages == {Unset} \cup (Nat \X Nat)
Boxes == {Unset} \cup {<<n>> : n \in Nat}
GlobalStates == [page : Boxes, size : Boxes, count : Boxes, id : 0 .. 255]
Parsers ==
  [global : GlobalStates, saved : Seq(GlobalStates), collections : Seq(Usages), usage : Usages,
   bits : UNION {[ids -> Nat \ {0}] : ids \in SUBSET (0 .. 255)}, usages : SUBSET (Nat \X Nat),
   bare : BOOLEAN, error : {"none", "InvalidValue", "Oversize"}]

\* A stack without its top, and its top.
LEMMA LastAndFront ==
  ASSUME NEW T, NEW s \in Seq(T), s # <<>>
  PROVE  s[Len(s)] \in T /\ SubSeq(s, 1, Len(s) - 1) \in Seq(T)
OBVIOUS

\* Between two items the parser is what it may be, and has no more reports than are kept.
ParserOK(s) == s \in Parsers /\ Cardinality(DOMAIN s.bits) <= MaxReports

\* It begins so.
LEMMA EmptyParserIsOK == ParserOK(EmptyParser)
<1>1. EmptyGlobal \in GlobalStates
  BY DEF EmptyGlobal, GlobalStates, Boxes, Unset
<1>2. <<>> \in UNION {[ids -> Nat \ {0}] : ids \in SUBSET (0 .. 255)}
  <2>1. <<>> \in [{} -> Nat \ {0}] /\ {} \in SUBSET (0 .. 255)
    OBVIOUS
  <2> QED BY <2>1
<1> DEFINE Bits == UNION {[ids -> Nat \ {0}] : ids \in SUBSET (0 .. 255)}
<1> HIDE DEF Bits
<1>6. <<>> \in Bits
  BY <1>2 DEF Bits
<1>7. Parsers =
        [global : GlobalStates, saved : Seq(GlobalStates), collections : Seq(Usages),
         usage : Usages, bits : Bits, usages : SUBSET (Nat \X Nat), bare : BOOLEAN,
         error : {"none", "InvalidValue", "Oversize"}]
  BY DEF Parsers, Bits
<1>8. <<>> \in Seq(GlobalStates) /\ <<>> \in Seq(Usages) /\ Unset \in Usages
  BY DEF Usages
<1>3. EmptyParser \in Parsers
  BY <1>1, <1>6, <1>7, <1>8 DEF EmptyParser
<1>4. DOMAIN EmptyParser.bits = {}
  BY DEF EmptyParser
<1>5. MaxReports \in Nat
  BY HidAssumption
<1> QED
  BY <1>3, <1>4, <1>5, FS_EmptySet DEF ParserOK

\* An item that fails leaves the rest as it is.
LEMMA FailingKeeps ==
  ASSUME NEW s, ParserOK(s), NEW class \in {"InvalidValue", "Oversize"}
  PROVE  ParserOK(Fails(s, class))
BY DEF ParserOK, Fails, Parsers

\* Page, size, count and ID of what follows, and the stack of them.
LEMMA GlobalsKeep ==
  ASSUME NEW s, ParserOK(s), NEW item \in Items, item.kind \in Globals
  PROVE  ParserOK(GlobalItem(s, item))
<1>1. s \in Parsers /\ s.global \in GlobalStates /\ s.saved \in Seq(GlobalStates)
  BY DEF ParserOK, Parsers
<1>2. ParserOK(Fails(s, "InvalidValue")) /\ ParserOK(Fails(s, "Oversize"))
  BY FailingKeeps
<1>3. ASSUME NEW g \in GlobalStates PROVE ParserOK([s EXCEPT !.global = g])
  BY <1>1, <1>3 DEF ParserOK, Parsers
<1>4. item.value \in Nat /\ <<item.value>> \in Boxes
  BY DEF Items, Boxes
<1>5. CASE item.kind = "UsagePage"
  <2>1. [s.global EXCEPT !.page = <<item.value>>] \in GlobalStates
    BY <1>1, <1>4 DEF GlobalStates
  <2> QED BY <1>2, <1>3, <1>5, <2>1 DEF GlobalItem
<1>6. CASE item.kind = "ReportSize"
  <2>1. [s.global EXCEPT !.size = <<item.value>>] \in GlobalStates
    BY <1>1, <1>4 DEF GlobalStates
  <2> QED BY <1>2, <1>3, <1>6, <2>1 DEF GlobalItem
<1>7. CASE item.kind = "ReportCount"
  <2>1. [s.global EXCEPT !.count = <<item.value>>] \in GlobalStates
    BY <1>1, <1>4 DEF GlobalStates
  <2> QED BY <1>2, <1>3, <1>7, <2>1 DEF GlobalItem
<1>8. CASE item.kind = "ReportId"
  <2>1. ASSUME item.value \in 1 .. 255
        PROVE  [s.global EXCEPT !.id = item.value] \in GlobalStates
    <3>1. item.value \in 0 .. 255
      BY <2>1
    <3> QED BY <1>1, <3>1 DEF GlobalStates
  <2> QED BY <1>2, <1>3, <1>8, <2>1 DEF GlobalItem
<1>9. CASE item.kind = "Push"
  <2>1. Append(s.saved, s.global) \in Seq(GlobalStates)
    BY <1>1
  <2>2. ParserOK([s EXCEPT !.saved = Append(@, s.global)])
    BY <1>1, <2>1 DEF ParserOK, Parsers
  <2> QED BY <1>2, <1>9, <2>2 DEF GlobalItem
<1>10. CASE item.kind = "Pop"
  <2>1. s.saved # <<>> => Last(s.saved) \in GlobalStates /\ Front(s.saved) \in Seq(GlobalStates)
    BY <1>1, LastAndFront DEF Last, Front
  <2>2. s.saved # <<>> => ParserOK([s EXCEPT !.global = Last(s.saved), !.saved = Front(@)])
    BY <1>1, <2>1 DEF ParserOK, Parsers
  <2> QED BY <1>2, <1>10, <2>2 DEF GlobalItem
<1> QED
  BY <1>5, <1>6, <1>7, <1>8, <1>9, <1>10 DEF Globals

\* Collections and the usages that they hand down.
LEMMA CollectionsKeep ==
  ASSUME NEW s, ParserOK(s), NEW item \in Items
  PROVE  /\ ParserOK(OpenCollection(s, item))
         /\ ParserOK(CloseCollection(s))
         /\ ParserOK([s EXCEPT !.usage = Unset])
         /\ ParserOK([s EXCEPT !.usage = usage_from_item(s.global.page, item)])
<1>1. /\ s \in Parsers /\ s.collections \in Seq(Usages) /\ s.usage \in Usages
      /\ s.global.page \in Boxes
  BY DEF ParserOK, Parsers, GlobalStates
<1>2. ParserOK(Fails(s, "InvalidValue")) /\ ParserOK(Fails(s, "Oversize"))
  BY FailingKeeps
<1>3. Unset \in Usages
  BY DEF Usages
<1>4. ASSUME NEW u \in Usages PROVE ParserOK([s EXCEPT !.usage = u])
  BY <1>1, <1>4 DEF ParserOK, Parsers
<1>5. ASSUME NEW c \in Seq(Usages)
      PROVE  ParserOK([s EXCEPT !.collections = c, !.usage = Unset])
  BY <1>1, <1>3, <1>5 DEF ParserOK, Parsers
<1>6. Parent(s) \in Usages
  BY <1>1, <1>3, LastAndFront DEF Parent, Last
<1>7. usage_from_item(s.global.page, item) \in Usages
  <2>1. item.value \in Nat
    BY DEF Items
  <2>2. item.value \div Pages \in Nat /\ item.value % Pages \in Nat
    BY <2>1 DEF Pages
  <2>3. s.global.page # Unset => s.global.page[1] \in Nat
    BY <1>1 DEF Boxes
  <2>4. \A a, b \in Nat : <<a, b>> \in Usages
    BY DEF Usages
  <2> QED BY <1>3, <2>1, <2>2, <2>3, <2>4 DEF usage_from_item
<1>8. ParserOK(OpenCollection(s, item))
  <2>1. \A u \in Usages : Append(s.collections, u) \in Seq(Usages)
    BY <1>1
  <2>2. \A u \in Usages :
          ParserOK([s EXCEPT !.collections = Append(@, u), !.usage = Unset])
    BY <1>5, <2>1
  <2> QED BY <1>1, <1>2, <1>6, <2>2 DEF OpenCollection
<1>9. ParserOK(CloseCollection(s))
  <2>1. s.collections # <<>> => Front(s.collections) \in Seq(Usages)
    BY <1>1, LastAndFront DEF Front
  <2> QED BY <1>2, <1>5, <2>1 DEF CloseCollection
<1> QED
  BY <1>3, <1>4, <1>7, <1>8, <1>9

\* A field of a feature report, which has at least one bit.
LEMMA FeatureKeeps ==
  ASSUME NEW s, ParserOK(s)
  PROVE  ParserOK(Feature(s))
<1> DEFINE added == s.global.size[1] * s.global.count[1]
           id == s.global.id
           before == IF id \in DOMAIN s.bits THEN s.bits[id] ELSE 0
           bits == [i \in DOMAIN s.bits \cup {id} |->
                      IF i = id THEN before + added ELSE s.bits[i]]
           counted == [s EXCEPT !.bits = bits, !.usage = Unset]
           Bits == UNION {[ids -> Nat \ {0}] : ids \in SUBSET (0 .. 255)}
<1>1. /\ s \in Parsers /\ s.global \in GlobalStates /\ s.bits \in Bits
      /\ s.collections \in Seq(Usages) /\ s.usages \in SUBSET (Nat \X Nat)
  BY DEF ParserOK, Parsers
<1>2. ParserOK(Fails(s, "InvalidValue")) /\ ParserOK(Fails(s, "Oversize"))
  BY FailingKeeps
<1>3. CASE s.global.size = Unset \/ s.global.count = Unset
  BY <1>2, <1>3 DEF Feature
<1>4. CASE ~(s.global.size = Unset \/ s.global.count = Unset)
  <2>1. added \in Nat
    <3>1. s.global.size[1] \in Nat /\ s.global.count[1] \in Nat
      BY <1>1, <1>4 DEF GlobalStates, Boxes
    <3>2. \A a, b \in Nat : a * b \in Nat
      OBVIOUS
    <3> QED BY <3>1, <3>2
  <2>2. CASE added = 0
    BY <1>2, <1>4, <2>2 DEF Feature
  <2>3. CASE added # 0
    <3>1. bits \in Bits
      <4>1. id \in 0 .. 255
        BY <1>1 DEF GlobalStates
      <4>2. PICK ids \in SUBSET (0 .. 255) : s.bits \in [ids -> Nat \ {0}]
        BY <1>1
      <4> HIDE DEF added, id
      <4>3. before \in Nat
        BY <4>2
      <4>4. before + added \in Nat \ {0}
        BY <2>1, <2>3, <4>3
      <4> HIDE DEF before
      <4>5. bits \in [ids \cup {id} -> Nat \ {0}]
        BY <4>2, <4>4
      <4>6. ids \cup {id} \in SUBSET (0 .. 255)
        BY <4>1
      <4> HIDE DEF bits
      <4> QED BY <4>5, <4>6
    <3>2. CASE Cardinality(DOMAIN bits) > MaxReports
      BY <1>2, <1>4, <2>3, <3>2 DEF Feature
    <3>3. CASE ~(Cardinality(DOMAIN bits) > MaxReports)
      <4>1. Cardinality(DOMAIN bits) <= MaxReports
        <5>1. IsFiniteSet(DOMAIN bits)
          <6>1. PICK ids \in SUBSET (0 .. 255) : bits \in [ids -> Nat \ {0}]
            BY <3>1
          <6>2. IsFiniteSet(0 .. 255)
            BY BytesAreFinite
          <6>3. DOMAIN bits \in SUBSET (0 .. 255)
            BY <6>1
          <6> HIDE DEF bits
          <6> QED BY <6>2, <6>3, FS_Subset
        <5>2. Cardinality(DOMAIN bits) \in Nat
          BY <5>1, FS_CardinalityType
        <5> HIDE DEF bits
        <5> QED BY <3>3, <5>2, HidAssumption
      <4>2. Parent(s) # Unset => Parent(s) \in Nat \X Nat
        <5>1. Parent(s) \in Usages
          BY <1>1, LastAndFront DEF Parent, Last, Usages
        <5> QED BY <5>1 DEF Usages
      <4>3. Unset \in Usages
        BY DEF Usages
      <4>6. Feature(s) = IF Parent(s) = Unset THEN [counted EXCEPT !.bare = TRUE]
                         ELSE [counted EXCEPT !.usages = @ \cup {Parent(s)}]
        BY <1>4, <2>3, <3>3 DEF Feature
      <4> HIDE DEF bits
      <4>4. counted \in Parsers
        BY <1>1, <3>1, <4>3 DEF Parsers
      <4>5. counted.bits = bits /\ counted.usages = s.usages
        BY <1>1 DEF Parsers
      <4> HIDE DEF counted
      <4>7. CASE Parent(s) = Unset
        <5>1. [counted EXCEPT !.bare = TRUE] \in Parsers
          BY <4>4 DEF Parsers
        <5>2. [counted EXCEPT !.bare = TRUE].bits = bits
          BY <4>4, <4>5 DEF Parsers
        <5> QED BY <4>1, <4>6, <4>7, <5>1, <5>2 DEF ParserOK
      <4>8. CASE Parent(s) # Unset
        <5>1. s.usages \cup {Parent(s)} \in SUBSET (Nat \X Nat)
          BY <1>1, <4>2, <4>8
        <5>2. [counted EXCEPT !.usages = @ \cup {Parent(s)}] \in Parsers
          BY <4>4, <4>5, <5>1 DEF Parsers
        <5>3. [counted EXCEPT !.usages = @ \cup {Parent(s)}].bits = bits
          BY <4>4, <4>5 DEF Parsers
        <5> QED BY <4>1, <4>6, <4>8, <5>2, <5>3 DEF ParserOK
      <4> QED BY <4>7, <4>8
    <3> QED BY <3>2, <3>3
  <2> QED BY <2>2, <2>3
<1> QED
  BY <1>3, <1>4

\* So every item keeps it.
LEMMA ItemsKeep ==
  ASSUME NEW s, ParserOK(s), NEW item \in Items
  PROVE  ParserOK(ParseItem(s, item))
<1> DEFINE Kinds == Globals \cup {"Usage", "Collection", "EndCollection", "Feature", "OtherMain",
                                "Other", "Long", "Cut"}
<1>1. s.error \in {"none", "InvalidValue", "Oversize"}
  BY DEF ParserOK, Parsers
<1>2. item.kind \in Kinds
  BY DEF Items
<1>3. ParserOK(Fails(s, "InvalidValue"))
  BY FailingKeeps
<1>4. item.kind \in Globals => ParserOK(GlobalItem(s, item))
  BY GlobalsKeep
<1>5. /\ ParserOK(OpenCollection(s, item))
      /\ ParserOK(CloseCollection(s))
      /\ ParserOK([s EXCEPT !.usage = Unset])
      /\ ParserOK([s EXCEPT !.usage = usage_from_item(s.global.page, item)])
  BY CollectionsKeep
<1>6. ParserOK(Feature(s))
  BY FeatureKeeps
<1>7. CASE s.error # "none"
  BY <1>7 DEF ParseItem
<1>8. CASE s.error = "none" /\ item.kind \in Globals
  BY <1>4, <1>8 DEF ParseItem, Globals
<1>9. CASE s.error = "none" /\ item.kind \in Kinds \ Globals
  BY <1>3, <1>5, <1>6, <1>9 DEF ParseItem, Globals
<1> QED
  BY <1>1, <1>2, <1>7, <1>8, <1>9

-------------------------------------------------------------------------------
(* All of a descriptor's items. The fold takes the items from the last to the     *)
(* first, so it is a function on the sets of places; that there is such a one is  *)
(* shown for the sets of few places first.                                        *)

\* What the fold is at a set of places, from what it is at the smaller ones.
Parsed(items, f, s) ==
  IF s = {} THEN EmptyParser ELSE ParseItem(f[s \ {Max(s)}], items[Max(s)])

\* Without the last place there is one place less.
LEMMA WithoutTheLast ==
  ASSUME NEW n \in Nat, NEW s \in SUBSET (1 .. n)
  PROVE  /\ IsFiniteSet(s) /\ Cardinality(s) \in 0 .. n
         /\ s # {} => /\ Max(s) \in s /\ s \ {Max(s)} \in SUBSET (1 .. n)
                      /\ Cardinality(s) # 0
                      /\ Cardinality(s \ {Max(s)}) = Cardinality(s) - 1
<1>1. IsFiniteSet(1 .. n) /\ Cardinality(1 .. n) = n
  <2>1. 1 \in Int /\ n \in Int
    OBVIOUS
  <2> QED BY <2>1, FS_Interval
<1>2. IsFiniteSet(s) /\ Cardinality(s) <= n
  BY <1>1, FS_Subset
<1>3. Cardinality(s) \in Nat
  BY <1>2, FS_CardinalityType
<1>4. ASSUME s # {}
      PROVE  Max(s) \in s /\ Cardinality(s \ {Max(s)}) = Cardinality(s) - 1
  <2>1. s \subseteq Int
    OBVIOUS
  <2>2. Max(s) \in s
    BY <1>2, <1>4, <2>1, GreatestIsThere
  <2> QED BY <1>2, <2>2, FS_RemoveElement
<1>5. s # {} => Cardinality(s) # 0
  BY <1>2, FS_EmptySet
<1>6. s \ {Max(s)} \in SUBSET (1 .. n)
  OBVIOUS
<1>7. Cardinality(s) \in 0 .. n
  BY <1>2, <1>3
<1> QED
  BY <1>2, <1>4, <1>5, <1>6, <1>7

\* There is such a function.
LEMMA ParsedExists ==
  ASSUME NEW n \in Nat, NEW items
  PROVE  \E f : f = [s \in SUBSET (1 .. n) |-> Parsed(items, f, s)]
<1> DEFINE Few(k) == {s \in SUBSET (1 .. n) : Cardinality(s) <= k}
           Is(f, k) == f = [s \in Few(k) |-> Parsed(items, f, s)]
           Bad == {k \in Nat : ~ \E f : Is(f, k)}
<1>1. \E f : Is(f, 0)
  <2> DEFINE f == [s \in Few(0) |-> EmptyParser]
  <2>1. \A s \in Few(0) : s = {}
    <3> SUFFICES ASSUME NEW s \in Few(0) PROVE s = {}
      OBVIOUS
    <3>1. Cardinality(s) \in 0 .. n /\ (s # {} => Cardinality(s) # 0)
      BY WithoutTheLast
    <3> QED BY <3>1
  <2>2. \A s \in Few(0) : Parsed(items, f, s) = EmptyParser
    BY <2>1 DEF Parsed
  <2>3. Is(f, 0)
    BY <2>2
  <2> QED BY <2>3
<1>2. ASSUME NEW k \in Nat, k > 0, \E f : Is(f, k - 1)
      PROVE  \E f : Is(f, k)
  <2> PICK g : Is(g, k - 1)
    BY <1>2
  <2> DEFINE h == [s \in Few(k) |-> Parsed(items, g, s)]
  <2>1. \A s \in Few(k - 1) : s \in Few(k) /\ h[s] = g[s]
    <3> SUFFICES ASSUME NEW s \in Few(k - 1) PROVE s \in Few(k) /\ h[s] = g[s]
      OBVIOUS
    <3>1. Cardinality(s) \in 0 .. n
      BY WithoutTheLast
    <3>2. s \in Few(k)
      BY <3>1
    <3>3. g[s] = Parsed(items, g, s)
      OBVIOUS
    <3> HIDE DEF Few
    <3> QED BY <3>2, <3>3
  <2>2. \A s \in Few(k) : s # {} => s \ {Max(s)} \in Few(k - 1)
    <3> SUFFICES ASSUME NEW s \in Few(k), s # {} PROVE s \ {Max(s)} \in Few(k - 1)
      OBVIOUS
    <3>1. /\ Cardinality(s) \in 0 .. n /\ s \ {Max(s)} \in SUBSET (1 .. n)
          /\ Cardinality(s \ {Max(s)}) = Cardinality(s) - 1
      BY WithoutTheLast
    <3> QED BY <3>1
  <2> HIDE DEF h, Few
  <2>3. \A s \in Few(k) : Parsed(items, h, s) = Parsed(items, g, s)
    BY <2>1, <2>2 DEF Parsed
  <2>4. h = [s \in Few(k) |-> Parsed(items, g, s)]
    BY DEF h
  <2>5. Is(h, k)
    BY <2>3, <2>4
  <2> QED BY <2>5
<1>3. Bad = {}
  <2> SUFFICES ASSUME Bad # {} PROVE FALSE
    OBVIOUS
  <2>1. \E x \in Bad : \A y \in Bad : ~ (<<y, x>> \in OpToRel(<, Nat))
    <3>1. Bad \subseteq Nat
      OBVIOUS
    <3> HIDE DEF Bad
    <3> QED BY <3>1, WFMin, NatLessThanWellFounded
  <2>2. PICK k \in Bad : \A y \in Bad : ~ (y < k)
    <3> HIDE DEF Bad
    <3>1. Bad \subseteq Nat
      BY DEF Bad
    <3> QED BY <2>1, <3>1 DEF OpToRel
  <2> HIDE DEF Is
  <2>3. k \in Nat /\ k # 0 /\ k - 1 \notin Bad
    <3>1. k \in Nat
      OBVIOUS
    <3>2. k # 0
      BY <1>1
    <3>3. k - 1 \in Nat /\ k - 1 < k
      BY <3>1, <3>2
    <3> HIDE DEF Bad
    <3> QED BY <2>2, <3>1, <3>2, <3>3
  <2>4. k > 0 /\ k - 1 \in Nat
    BY <2>3
  <2>5. \E f : Is(f, k - 1)
    BY <2>3, <2>4
  <2> QED BY <1>2, <2>3, <2>4, <2>5
<1>4. PICK f : Is(f, n)
  BY <1>3
<1>5. Few(n) = SUBSET (1 .. n)
  <2>1. \A s \in SUBSET (1 .. n) : Cardinality(s) <= n
    <3> SUFFICES ASSUME NEW s \in SUBSET (1 .. n) PROVE Cardinality(s) <= n
      OBVIOUS
    <3>1. Cardinality(s) \in 0 .. n
      BY WithoutTheLast
    <3> QED BY <3>1
  <2> QED BY <2>1
<1> HIDE DEF Few
<1> QED
  BY <1>4, <1>5

\* Whatever its items are, the parser ends as it may.
LEMMA DescriptorsParse ==
  ASSUME NEW items \in Seq(Items)
  PROVE  ParserOK(FoldLeft(ParseItem, EmptyParser, items))
<1> DEFINE n == Len(items)
           Is(f) == f = [s \in SUBSET (1 .. n) |-> Parsed(items, f, s)]
           parsed == CHOOSE f : Is(f)
<1>1. n \in Nat /\ DOMAIN items = 1 .. n /\ \A i \in 1 .. n : items[i] \in Items
  OBVIOUS
<1> HIDE DEF n
<1>2. Is(parsed)
  <2>1. \E f : Is(f)
    BY <1>1, ParsedExists
  <2> HIDE DEF Is
  <2> QED BY <2>1
<1>3. FoldLeft(ParseItem, EmptyParser, items) = parsed[1 .. n]
  BY <1>1 DEF FoldLeft, MapThenFoldSet, Parsed
<1> HIDE DEF parsed
<1> DEFINE Bad == {k \in Nat : \E s \in SUBSET (1 .. n) : Cardinality(s) = k /\ ~ParserOK(parsed[s])}
<1>4. Bad = {}
  <2> SUFFICES ASSUME Bad # {} PROVE FALSE
    OBVIOUS
  <2>1. Bad \subseteq Nat
    OBVIOUS
  <2>2. PICK k \in Bad : \A y \in Bad : ~ (y < k)
    <3> HIDE DEF Bad
    <3>1. \E x \in Bad : \A y \in Bad : ~ (<<y, x>> \in OpToRel(<, Nat))
      BY <2>1, WFMin, NatLessThanWellFounded
    <3> QED BY <2>1, <3>1 DEF OpToRel
  <2>3. PICK s \in SUBSET (1 .. n) : Cardinality(s) = k /\ ~ParserOK(parsed[s])
    OBVIOUS
  <2>4. parsed[s] = Parsed(items, parsed, s)
    BY <1>2
  <2> DEFINE last == Max(s)
             rest == s \ {last}
  <2>5. s # {}
    BY <2>3, <2>4, EmptyParserIsOK DEF Parsed
  <2>6. /\ last \in s /\ rest \in SUBSET (1 .. n)
        /\ Cardinality(s) \in 0 .. n /\ Cardinality(s) # 0
        /\ Cardinality(rest) = Cardinality(s) - 1
    BY <1>1, <2>5, WithoutTheLast
  <2>7. parsed[s] = ParseItem(parsed[rest], items[last])
    BY <2>4, <2>5 DEF Parsed
  <2> HIDE DEF last, rest
  <2>8. ~ParserOK(parsed[rest])
    BY <1>1, <2>3, <2>6, <2>7, ItemsKeep
  <2>9. Cardinality(rest) \in Nat /\ Cardinality(rest) < k
    BY <1>1, <2>3, <2>6
  <2>10. Cardinality(rest) \in Bad
    BY <2>6, <2>8, <2>9
  <2> HIDE DEF Bad
  <2> QED BY <2>2, <2>9, <2>10
<1>5. ParserOK(parsed[1 .. n])
  <2>1. Cardinality(1 .. n) \in Nat
    <3>1. 1 .. n \in SUBSET (1 .. n)
      OBVIOUS
    <3>2. Cardinality(1 .. n) \in 0 .. n
      BY <1>1, <3>1, WithoutTheLast
    <3> QED BY <3>2
  <2> QED BY <1>4, <2>1
<1> QED
  BY <1>3, <1>5

\* One sequence comes before another at the end of what they have in common.
Splits(a, b, k) ==
  /\ k \in 0 .. Len(a) /\ k < Len(b)
  /\ \A j \in 1 .. k : a[j] = b[j]
  /\ k = Len(a) \/ a[k + 1] < b[k + 1]

\* That is what it is to be less.
LEMMA LessSplits ==
  ASSUME NEW a \in Seq(Int), NEW b \in Seq(Int)
  PROVE  LexLess(a, b) <=> \E k \in Nat : Splits(a, b, k)
<1>0. /\ Len(a) \in Nat /\ Len(b) \in Nat
      /\ DOMAIN a = 1 .. Len(a) /\ DOMAIN b = 1 .. Len(b)
  OBVIOUS
<1>1. ASSUME Len(a) < Len(b), SubSeq(b, 1, Len(a)) = a
      PROVE  Splits(a, b, Len(a))
  <2>1. \A j \in 1 .. Len(a) : SubSeq(b, 1, Len(a))[j] = b[j]
    BY <1>0, <1>1
  <2> QED BY <1>0, <1>1, <2>1 DEF Splits
<1>2. ASSUME NEW i \in DOMAIN a \cap DOMAIN b, a[i] < b[i], \A j \in 1 .. i - 1 : a[j] = b[j]
      PROVE  i - 1 \in Nat /\ Splits(a, b, i - 1)
  BY <1>0, <1>2 DEF Splits
<1>3. ASSUME NEW k \in Nat, Splits(a, b, k)
      PROVE  LexLess(a, b)
  <2>1. CASE k = Len(a)
    <3>1. SubSeq(b, 1, Len(a)) = a
      BY <1>0, <1>3, <2>1 DEF Splits
    <3> QED BY <1>3, <2>1, <3>1 DEF Splits, LexLess
  <2>2. CASE k # Len(a)
    <3>0. k \in 0 .. Len(a) /\ k < Len(b) /\ (k = Len(a) \/ a[k + 1] < b[k + 1])
      BY <1>3 DEF Splits
    <3>4. k < Len(a)
      <4>1. k \in 0 .. Len(a) /\ Len(a) \in Nat /\ k # Len(a)
        BY <1>0, <2>2, <3>0
      <4> QED BY <4>1
    <3>5. a[k + 1] < b[k + 1]
      BY <2>2, <3>0, Zenon
    <3>1. k < Len(a) /\ k < Len(b) /\ a[k + 1] < b[k + 1]
      BY <3>0, <3>4, <3>5, Zenon
    <3>2. k + 1 \in DOMAIN a \cap DOMAIN b
      BY <1>0, <3>1
    <3>3. \A j \in 1 .. (k + 1) - 1 : a[j] = b[j]
      <4>1. (k + 1) - 1 = k
        OBVIOUS
      <4> QED BY <1>3, <4>1 DEF Splits
    <3> QED BY <3>1, <3>2, <3>3 DEF LexLess
  <2> QED BY <2>1, <2>2
<1> QED
  BY <1>0, <1>1, <1>2, <1>3 DEF LexLess

\* Nothing is less than itself.
LEMMA LexIrreflexive ==
  ASSUME NEW a \in Seq(Int)
  PROVE  ~LexLess(a, a)
<1>1. \A k \in Nat : ~Splits(a, a, k)
  <2> SUFFICES ASSUME NEW k \in Nat, Splits(a, a, k) PROVE FALSE
    OBVIOUS
  <2>1. k < Len(a) /\ k + 1 \in 1 .. Len(a) /\ a[k + 1] < a[k + 1]
    BY DEF Splits
  <2>2. a[k + 1] \in Int
    BY <2>1
  <2> QED BY <2>1, <2>2
<1> QED
  BY <1>1, LessSplits

\* Less than less is less.
LEMMA LexTransitive ==
  ASSUME NEW a \in Seq(Int), NEW b \in Seq(Int), NEW c \in Seq(Int),
         LexLess(a, b), LexLess(b, c)
  PROVE  LexLess(a, c)
<1>1. PICK k \in Nat : Splits(a, b, k)
  BY LessSplits
<1>2. PICK m \in Nat : Splits(b, c, m)
  BY LessSplits
<1>0. /\ Len(a) \in Nat /\ Len(b) \in Nat /\ Len(c) \in Nat
      /\ \A i \in 1 .. Len(a) : a[i] \in Int
      /\ \A i \in 1 .. Len(b) : b[i] \in Int
      /\ \A i \in 1 .. Len(c) : c[i] \in Int
  OBVIOUS
<1>3. CASE k < m
  <2>1. Splits(a, c, k)
    BY <1>0, <1>1, <1>2, <1>3 DEF Splits
  <2> QED BY <2>1, LessSplits
<1>4. CASE k = m
  <2>1. Splits(a, c, k)
    BY <1>0, <1>1, <1>2, <1>4 DEF Splits
  <2> QED BY <2>1, LessSplits
<1>5. CASE m < k
  <2>1. Splits(a, c, m)
    BY <1>0, <1>1, <1>2, <1>5 DEF Splits
  <2> QED BY <2>1, LessSplits
<1> QED
  BY <1>3, <1>4, <1>5

\* Of two different sequences one is less.
LEMMA LexTotal ==
  ASSUME NEW a \in Seq(Int), NEW b \in Seq(Int), a # b
  PROVE  LexLess(a, b) \/ LexLess(b, a)
<1>0. /\ Len(a) \in Nat /\ Len(b) \in Nat
      /\ \A i \in 1 .. Len(a) : a[i] \in Int
      /\ \A i \in 1 .. Len(b) : b[i] \in Int
  OBVIOUS
<1> DEFINE Off == {k \in Nat : \/ k = Len(a) \/ k = Len(b)
                               \/ k < Len(a) /\ k < Len(b) /\ a[k + 1] # b[k + 1]}
<1>1. PICK k \in Off : \A m \in Off : ~(m < k)
  <2>1. Off \subseteq Nat /\ Off # {}
    BY <1>0
  <2> HIDE DEF Off
  <2>2. \E x \in Off : \A y \in Off : ~ (<<y, x>> \in OpToRel(<, Nat))
    BY <2>1, WFMin, NatLessThanWellFounded
  <2> QED BY <2>1, <2>2 DEF OpToRel
<1>2. k \in Nat /\ k <= Len(a) /\ k <= Len(b)
  BY <1>0, <1>1
<1>3. ASSUME NEW j \in 1 .. k PROVE a[j] = b[j]
  <2>1. j - 1 \in Nat /\ j - 1 < k
    BY <1>2
  <2>2. j - 1 \notin Off
    <3> HIDE DEF Off
    <3> QED BY <1>1, <2>1
  <2> QED BY <1>0, <1>2, <2>1, <2>2
<1>4. CASE k < Len(a) /\ k < Len(b)
  <2>1. a[k + 1] # b[k + 1]
    BY <1>4
  <2>2. a[k + 1] < b[k + 1] \/ b[k + 1] < a[k + 1]
    BY <1>0, <1>2, <1>4, <2>1
  <2>3. Splits(a, b, k) \/ Splits(b, a, k)
    BY <1>0, <1>2, <1>3, <1>4, <2>2 DEF Splits
  <2> QED BY <1>2, <2>3, LessSplits
<1>5. CASE k = Len(a) /\ k < Len(b)
  <2>1. Splits(a, b, k)
    BY <1>0, <1>2, <1>3, <1>5 DEF Splits
  <2> QED BY <1>2, <2>1, LessSplits
<1>6. CASE k = Len(b) /\ k < Len(a)
  <2>1. Splits(b, a, k)
    BY <1>0, <1>2, <1>3, <1>6 DEF Splits
  <2> QED BY <1>2, <2>1, LessSplits
<1>7. ~(k = Len(a) /\ k = Len(b))
  BY <1>3
<1> QED
  BY <1>0, <1>2, <1>4, <1>5, <1>6, <1>7

-------------------------------------------------------------------------------
(* Which of several equal ones is kept.                                           *)

\* What the choice is made by, and two devices between which it makes no difference.
Weighs(c) ==
  {evidence_quality(c), a1_payload(c), driver_value(c)} \subseteq Seq(Int)
Even(c, d) ==
  /\ evidence_quality(c) = evidence_quality(d)
  /\ a1_payload(c) = a1_payload(d) /\ driver_value(c) = driver_value(d)

\* The preference is an order, of all that it makes a difference between.
LEMMA PreferenceOrders ==
  ASSUME NEW x, Weighs(x), NEW y, Weighs(y)
  PROVE  /\ ~Preferred(x, x)
         /\ Preferred(x, y) \/ Preferred(y, x) \/ Even(x, y)
         /\ Preferred(x, y) => ~Preferred(y, x)
<1> DEFINE q(c) == evidence_quality(c)
           a(c) == a1_payload(c)
           d(c) == driver_value(c)
<1>1. /\ q(x) \in Seq(Int) /\ a(x) \in Seq(Int) /\ d(x) \in Seq(Int)
      /\ q(y) \in Seq(Int) /\ a(y) \in Seq(Int) /\ d(y) \in Seq(Int)
  BY DEF Weighs
<1>2. \A s \in Seq(Int) : ~LexLess(s, s)
  BY LexIrreflexive
<1>3. \A s, t \in Seq(Int) : s # t => LexLess(s, t) \/ LexLess(t, s)
  BY LexTotal
<1>4. \A s, t \in Seq(Int) : LexLess(s, t) => ~LexLess(t, s)
  BY <1>2, LexTransitive
<1>5. \A l, r : Preferred(l, r) <=>
        \/ LexLess(q(r), q(l))
        \/ q(l) = q(r) /\ LexLess(a(l), a(r))
        \/ q(l) = q(r) /\ a(l) = a(r) /\ LexLess(d(l), d(r))
  BY DEF Preferred
<1>6. Even(x, y) <=> q(x) = q(y) /\ a(x) = a(y) /\ d(x) = d(y)
  BY DEF Even
<1> HIDE DEF q, a, d
<1>7. ~Preferred(x, x)
  BY <1>1, <1>2, <1>5
<1>8. Preferred(x, y) \/ Preferred(y, x) \/ Even(x, y)
  BY <1>1, <1>3, <1>5, <1>6
<1>9. Preferred(x, y) => ~Preferred(y, x)
  BY <1>1, <1>2, <1>4, <1>5
<1> QED
  BY <1>7, <1>8, <1>9

\* And it is transitive.
LEMMA PreferenceGoesOn ==
  ASSUME NEW x, Weighs(x), NEW y, Weighs(y), NEW z, Weighs(z)
  PROVE  /\ Preferred(x, y) /\ Preferred(y, z) => Preferred(x, z)
         /\ Even(x, y) => /\ Preferred(x, z) <=> Preferred(y, z)
                          /\ Preferred(z, x) <=> Preferred(z, y)
<1> DEFINE q(c) == evidence_quality(c)
           a(c) == a1_payload(c)
           d(c) == driver_value(c)
<1>1. /\ q(x) \in Seq(Int) /\ a(x) \in Seq(Int) /\ d(x) \in Seq(Int)
      /\ q(y) \in Seq(Int) /\ a(y) \in Seq(Int) /\ d(y) \in Seq(Int)
      /\ q(z) \in Seq(Int) /\ a(z) \in Seq(Int) /\ d(z) \in Seq(Int)
  BY DEF Weighs
<1>2. \A s, t, u \in Seq(Int) : LexLess(s, t) /\ LexLess(t, u) => LexLess(s, u)
  BY LexTransitive
<1>3. \A l, r : Preferred(l, r) <=>
        \/ LexLess(q(r), q(l))
        \/ q(l) = q(r) /\ LexLess(a(l), a(r))
        \/ q(l) = q(r) /\ a(l) = a(r) /\ LexLess(d(l), d(r))
  BY DEF Preferred
<1>4. Even(x, y) <=> q(x) = q(y) /\ a(x) = a(y) /\ d(x) = d(y)
  BY DEF Even
<1> HIDE DEF q, a, d
<1>5. Preferred(x, y) /\ Preferred(y, z) => Preferred(x, z)
  BY <1>1, <1>2, <1>3
<1>6. Even(x, y) => /\ Preferred(x, z) <=> Preferred(y, z)
                    /\ Preferred(z, x) <=> Preferred(z, y)
  BY <1>3, <1>4
<1> QED
  BY <1>5, <1>6, Zenon

\* To none of its equals is another one preferred over the one that is kept.
LEMMA BestIsBest ==
  ASSUME NEW found, NEW equal, equal # {}, IsFiniteSet(equal), equal \subseteq Int,
         \A i \in equal : Weighs(found[i])
  PROVE  \E i \in equal : /\ Best(found, equal) = found[i]
                          /\ \A j \in equal : ~Preferred(found[j], found[i])
<1> DEFINE P(i, j) == Preferred(found[i], found[j])
           E(i, j) == Even(found[i], found[j])
           Goes(i, j) == P(i, j) \/ (i < j /\ ~P(j, i))
           R == {p \in equal \X equal : Goes(p[1], p[2])}
           n == Cardinality(equal)
<1>1. \A i, j \in equal : <<i, j>> \in R <=> Goes(i, j)
  OBVIOUS
<1>2. \A i, j \in equal : ~P(i, i) /\ (P(i, j) \/ P(j, i) \/ E(i, j)) /\ (P(i, j) => ~P(j, i))
  BY PreferenceOrders
<1>3. \A i, j, k \in equal : /\ P(i, j) /\ P(j, k) => P(i, k)
                             /\ E(i, j) => (P(i, k) <=> P(j, k)) /\ (P(k, i) <=> P(k, j))
  BY PreferenceGoesOn
<1>4. \A i \in equal : i \in Int
  OBVIOUS
<1> HIDE DEF P, E, R
<1>5. Orders(R, equal)
  <2>1. \A i \in equal : ~Goes(i, i)
    BY <1>2, <1>4
  <2>2. \A i, j \in equal : i # j => Goes(i, j) \/ Goes(j, i)
    BY <1>2, <1>4
  <2>3. \A i, j, k \in equal : Goes(i, j) /\ Goes(j, k) => Goes(i, k)
    <3> SUFFICES ASSUME NEW i \in equal, NEW j \in equal, NEW k \in equal,
                        Goes(i, j), Goes(j, k)
                 PROVE  Goes(i, k)
      OBVIOUS
    <3>1. CASE P(i, j)
      <4>1. CASE P(j, k)
        BY <1>3, <3>1, <4>1
      <4>2. CASE ~P(j, k)
        <5>1. E(j, k)
          BY <1>2, <4>2
        <5> QED BY <1>3, <3>1, <5>1
      <4> QED BY <4>1, <4>2
    <3>2. CASE ~P(i, j)
      <4>1. E(i, j) /\ i < j
        BY <1>2, <3>2
      <4>2. CASE P(j, k)
        BY <1>3, <4>1, <4>2
      <4>3. CASE ~P(j, k)
        <5>1. E(j, k) /\ j < k
          BY <1>2, <4>3
        <5>2. ~P(k, j) /\ ~P(k, i)
          BY <1>2, <1>3, <4>1, <4>3
        <5> QED BY <1>4, <4>1, <5>1, <5>2
      <4> QED BY <4>2, <4>3
    <3> QED BY <3>1, <3>2
  <2> HIDE DEF Goes
  <2> QED BY <1>1, <2>1, <2>2, <2>3 DEF Orders
<1>6. /\ n \in Nat
      /\ Ordered(equal, R) \in [1 .. n -> equal]
      /\ \A i, j \in 1 .. n : i < j => <<Ordered(equal, R)[i], Ordered(equal, R)[j]>> \in R
      /\ \A x \in equal : \E i \in 1 .. n : Ordered(equal, R)[i] = x
  BY <1>5, OrderedLists
<1>7. n # 0
  BY FS_EmptySet
<1> DEFINE first == Ordered(equal, R)[1]
<1> HIDE DEF n
<1>8. first \in equal /\ \A j \in equal \ {first} : Goes(first, j)
  <2>1. 1 \in 1 .. n
    BY <1>6, <1>7
  <2>2. first \in equal
    BY <1>6, <2>1
  <2>3. ASSUME NEW j \in equal, j # first PROVE <<first, j>> \in R
    <3>1. PICK m \in 1 .. n : Ordered(equal, R)[m] = j
      BY <1>6
    <3>2. 1 < m
      BY <2>3, <3>1
    <3> QED BY <1>6, <2>1, <3>1, <3>2
  <2> HIDE DEF first, Goes
  <2> QED BY <1>1, <2>2, <2>3
<1> DEFINE Wins(i) == \A j \in equal \ {i} : Goes(i, j)
           best == CHOOSE i \in equal : Wins(i)
<1>9. best \in equal /\ Wins(best)
  <2>1. \E i \in equal : Wins(i)
    BY <1>8
  <2> HIDE DEF Wins
  <2> QED BY <2>1
<1>10. Best(found, equal) = found[best]
  BY DEF Best, P
<1> HIDE DEF best
<1>11. \A j \in equal : ~P(j, best)
  BY <1>2, <1>9
<1> QED
  BY <1>9, <1>10, <1>11 DEF P

\* The three observations of a candidate.
LEMMA DescriptorsRead ==
  ASSUME NEW d \in HidFunctions
  PROVE  LET r == read_descriptor(d.descriptor)
             whole == parse_report_descriptor(d.descriptor.text.items)
         IN /\ r.is \in {"value", "error"}
            /\ r.is = "value" =>
                 /\ d.descriptor.is = "text" /\ d.descriptor.text.hash \in Nat
                 /\ r.value = [hash |-> d.descriptor.text.hash, usage |-> whole.value.usage,
                               feature_reports |-> whole.value.feature_reports]
                 /\ r.value.usage \in Usages
<1> DEFINE file == d.descriptor
           parser == FoldLeft(ParseItem, EmptyParser, file.text.items)
           whole == parse_report_descriptor(file.text.items)
           r == read_descriptor(file)
<1>1. \/ file \in [is : {"missing", "directory", "denied", "failing", "oversize"}]
      \/ file \in [is : {"text"}, text : [items : Seq(Items), hash : Nat]]
  BY DEF HidFunctions, Files
<1>2. CASE file \in [is : {"missing", "directory", "denied", "failing", "oversize"}]
  <2>1. read_bounded(file).is = "error" /\ file.is # "text"
    BY <1>2 DEF read_bounded, Error, Value
  <2>2. r.is = "error"
    BY <2>1 DEF read_descriptor, Decoded
  <2> QED BY <2>1, <2>2
<1>3. CASE file \in [is : {"text"}, text : [items : Seq(Items), hash : Nat]]
  <2>1. /\ file.is = "text" /\ file.text.items \in Seq(Items) /\ file.text.hash \in Nat
        /\ read_bounded(file) = Value(file.text)
    BY <1>3 DEF read_bounded
  <2>2. r = IF file.text.items = <<>> THEN Malformed
            ELSE IF whole.is = "value"
                 THEN Value([hash |-> file.text.hash, usage |-> whole.value.usage,
                             feature_reports |-> whole.value.feature_reports])
                 ELSE whole
    BY <2>1 DEF read_descriptor, Decoded, Value
  <2>3. whole = Geometry(parser, Reports(parser.bits))
    BY DEF parse_report_descriptor, Judged
  <2>4. parser \in Parsers
    BY <2>1, DescriptorsParse DEF ParserOK
  <2>5. parser.usages \subseteq Nat \X Nat
    BY <2>4 DEF Parsers
  <2> HIDE DEF parser
  <2>6. /\ whole.is \in {"value", "error"}
        /\ whole.is = "value" => whole.value.usage \in Usages
    <3>1. ASSUME Cardinality(parser.usages) = 1
          PROVE  (CHOOSE u \in parser.usages : TRUE) \in Usages
      <4>1. parser.usages # {}
        BY <3>1, FS_EmptySet
      <4> QED BY <2>5, <4>1 DEF Usages
    <3> DEFINE usage == IF ~parser.bare /\ Cardinality(parser.usages) = 1
                        THEN CHOOSE u \in parser.usages : TRUE ELSE Unset
    <3>2. usage \in Usages
      BY <3>1 DEF Usages
    <3>3. \/ whole.is = "error"
          \/ whole = Value([feature_reports |-> Reports(parser.bits), usage |-> usage])
      BY <2>3 DEF Geometry, Error, Malformed
    <3> HIDE DEF usage, whole
    <3> QED BY <3>2, <3>3 DEF Value
  <2> HIDE DEF whole
  <2>7. CASE r.is = "value"
    <3>1. /\ whole.is = "value"
          /\ r = Value([hash |-> file.text.hash, usage |-> whole.value.usage,
                        feature_reports |-> whole.value.feature_reports])
      BY <2>2, <2>7 DEF Malformed, Error
    <3> QED BY <2>1, <2>6, <2>7, <3>1 DEF Value, whole
  <2>8. CASE r.is # "value"
    <3>1. r.is \in {"value", "error"}
      BY <2>2, <2>6 DEF Malformed, Error, Value
    <3> QED BY <2>8, <3>1
  <2> QED BY <2>7, <2>8
<1> QED
  BY <1>1, <1>2, <1>3

\* The list of targets is the same for the same payload and the same request.
Targets(requested, payload) ==
  [requested |-> requested, payload |-> payload,
   targets |-> Ascending(Range(SubSeq(payload, 3, 2 + payload[2])))]

\* A target list that is read is that of its payload and of the request for it.
LEMMA TargetsRead ==
  ASSUME NEW role, NEW descriptor, NEW node \in Files(Seq(Nat))
  PROVE  LET a1 == TargetList(role, descriptor, node)
             lists == {r \in Range(descriptor.value.feature_reports) : r.id = ReportTargetList}
         IN /\ a1.is \in {"none", "absent", "value", "error"}
            /\ a1.is = "none" => a1 = NoA1
            /\ a1.is = "absent" => a1 = Absent("IncompleteInterface")
            /\ a1.is = "none" <=> role # "Enek5130Lighting"
            /\ a1.is = "value" =>
                 /\ descriptor.is = "value" /\ a1.value.payload \in Seq(Nat)
                 /\ a1.value = Targets((CHOOSE r \in lists : TRUE).bytes, a1.value.payload)
<1> DEFINE a1 == TargetList(role, descriptor, node)
           lists == {r \in Range(descriptor.value.feature_reports) : r.id = ReportTargetList}
           requested == (CHOOSE r \in lists : TRUE).bytes
           answer == read_a1(node, requested)
<1>1. a1 = IF role # "Enek5130Lighting" THEN NoA1
           ELSE IF descriptor.is # "value" THEN Absent("IncompleteInterface")
           ELSE IF lists = {} THEN Absent("IncompleteInterface")
           ELSE answer
  BY DEF TargetList
<1>2. /\ answer.is \in {"value", "error"}
      /\ answer.is = "value" => /\ answer.value.payload \in Seq(Nat)
                                /\ answer.value = Targets(requested, answer.value.payload)
  <2> HIDE DEF requested
  <2>1. \A payload : /\ parse_a1_payload(requested, payload).is \in {"value", "error"}
                     /\ parse_a1_payload(requested, payload).is = "value" =>
                          parse_a1_payload(requested, payload) = Value(Targets(requested, payload))
    BY DEF parse_a1_payload, Targets, Malformed, Error, Value
  <2>2. read_bounded(node).is = "error" \/ \E p \in Seq(Nat) : read_bounded(node) = Value(p)
    BY DEF Files, read_bounded, Error
  <2>3. \/ read_feature_report(node, requested).is = "error"
        \/ \E p \in Seq(Nat) : read_feature_report(node, requested) = Value(p)
    BY <2>2 DEF read_feature_report, Decoded, Error, Value
  <2>4. \/ answer.is = "error"
        \/ \E p \in Seq(Nat) : answer = parse_a1_payload(requested, p)
    BY <2>3 DEF read_a1, Decoded, Malformed, Error, Value
  <2>5. CASE \E p \in Seq(Nat) : answer = parse_a1_payload(requested, p)
    <3>1. PICK p \in Seq(Nat) : answer = parse_a1_payload(requested, p)
      BY <2>5
    <3>2. Value(Targets(requested, p)).value = Targets(requested, p)
      BY DEF Value
    <3>3. Targets(requested, p).payload = p
      BY DEF Targets
    <3> QED BY <2>1, <3>1, <3>2, <3>3
  <2> QED BY <2>4, <2>5
<1> HIDE DEF answer, requested
<1>3. /\ NoA1.is = "none" /\ Absent("IncompleteInterface").is = "absent"
  BY DEF NoA1, Absent
<1> HIDE DEF a1
<1>4. /\ a1.is \in {"none", "absent", "value", "error"}
      /\ a1.is = "none" => a1 = NoA1
      /\ a1.is = "absent" => a1 = Absent("IncompleteInterface")
      /\ a1.is = "none" <=> role # "Enek5130Lighting"
      /\ a1.is = "value" => /\ descriptor.is = "value" /\ a1.value.payload \in Seq(Nat)
                            /\ a1.value = Targets(requested, a1.value.payload)
  BY <1>1, <1>2, <1>3
<1> QED
  BY <1>4 DEF a1, requested

\* The driver is named, missing or unreadable.
LEMMA DriversRead ==
  ASSUME NEW d \in HidFunctions
  PROVE  LET r == read_driver(d.driver)
         IN /\ r.is \in {"value", "absent", "error"}
            /\ r.is = "absent" => r = Absent("NotExposed")
            /\ r.is = "value" => r.value \in Nat
BY DEF HidFunctions, read_driver, Absent, Malformed, Error, Value

\* What a device has in common with its like: its role, its usage and its descriptor's hash.
UsageNumbers(usage) == IF usage = Unset THEN <<0, 0>> ELSE <<1 + usage[1], 1 + usage[2]>>
RoleNumber(h) == RoleIndex(h.role)
PageNumber(h) == UsageNumbers(h.usage)[1]
UsageNumber(h) == UsageNumbers(h.usage)[2]
\* A device's identity is four numbers.
LEMMA IdentityIsFour ==
  ASSUME NEW h
  PROVE  Identity(h) = <<RoleNumber(h), PageNumber(h), UsageNumber(h), descriptor_hash(h)>>
BY DEF Identity, UsageNumbers, RoleNumber, PageNumber, UsageNumber

\* The roles are told apart by their places.
LEMMA RolesDiffer ==
  /\ \A r \in Range(Roles) : RoleIndex(r) \in 1 .. 3 /\ Roles[RoleIndex(r)] = r
  /\ \A q, r \in Range(Roles) : RoleIndex(q) = RoleIndex(r) => q = r
<1>1. DOMAIN Roles = 1 .. 3
  BY DEF Roles
<1>2. \A r \in Range(Roles) : RoleIndex(r) \in 1 .. 3 /\ Roles[RoleIndex(r)] = r
  <2> SUFFICES ASSUME NEW r \in Range(Roles)
               PROVE  RoleIndex(r) \in 1 .. 3 /\ Roles[RoleIndex(r)] = r
    OBVIOUS
  <2>1. \E i \in DOMAIN Roles : Roles[i] = r
    BY DEF Range
  <2>2. RoleIndex(r) \in DOMAIN Roles /\ Roles[RoleIndex(r)] = r
    BY <2>1 DEF RoleIndex
  <2> QED BY <1>1, <2>2
<1> QED
  BY <1>2

\* A device whose files are those of a HID function, and what is read of it.
Allowed(d) == d \in HidFunctions /\ d.uevent \in Range(Roles)

\* Its candidate can be put in order and weighed.
LEMMA CandidatesWeigh ==
  ASSUME NEW d, Allowed(d)
  PROVE  LET c == collect_candidate(d)
         IN /\ c = [role |-> d.uevent, bus |-> c.bus, usage |-> c.usage, driver |-> c.driver,
                    descriptor |-> c.descriptor, a1 |-> c.a1]
            /\ c.bus = BusOf(d.uevent) /\ c.usage \in Usages
            /\ c.driver = read_driver(d.driver)
            /\ c.descriptor = read_descriptor(d.descriptor)
            /\ c.a1 = TargetList(d.uevent, c.descriptor, d.node)
            /\ c.usage = IF c.descriptor.is = "value" THEN c.descriptor.value.usage ELSE Unset
            /\ Identity(c) \in Seq(Int) /\ Weighs(c)
<1> DEFINE c == collect_candidate(d)
<1>1. d \in HidFunctions /\ d.uevent \in Range(Roles) /\ d.node \in Files(Seq(Nat))
  BY DEF Allowed, HidFunctions
<1>2. /\ c = [role |-> d.uevent, bus |-> c.bus, usage |-> c.usage, driver |-> c.driver,
             descriptor |-> c.descriptor, a1 |-> c.a1]
      /\ c.role = d.uevent /\ c.bus = BusOf(d.uevent)
      /\ c.driver = read_driver(d.driver)
      /\ c.descriptor = read_descriptor(d.descriptor)
      /\ c.a1 = TargetList(d.uevent, c.descriptor, d.node)
      /\ c.usage = IF c.descriptor.is = "value" THEN c.descriptor.value.usage ELSE Unset
  BY DEF collect_candidate, Candidate
<1> HIDE DEF c
<1>3. /\ c.descriptor.is \in {"value", "error"}
      /\ c.descriptor.is = "value" => c.descriptor.value.usage \in Usages
      /\ c.descriptor.is = "value" => c.descriptor.value.hash \in Nat
  <2>1. c.descriptor.is \in {"value", "error"}
    BY <1>1, <1>2, DescriptorsRead
  <2>2. CASE c.descriptor.is = "value"
    <3>2. /\ c.descriptor.value.usage \in Usages
          /\ d.descriptor.text.hash \in Nat
          /\ \E b, e : c.descriptor.value
                         = [hash |-> d.descriptor.text.hash, usage |-> b, feature_reports |-> e]
      BY <1>1, <1>2, <2>2, DescriptorsRead
    <3>3. c.descriptor.value.hash = d.descriptor.text.hash
      BY <3>2
    <3> QED BY <2>1, <3>2, <3>3
  <2> QED BY <2>1, <2>2
<1>4. c.usage \in Usages
  BY <1>2, <1>3 DEF Usages
<1>5. /\ c.a1.is \in {"none", "absent", "value", "error"}
      /\ c.a1.is = "value" => c.a1.value.payload \in Seq(Nat)
  BY <1>1, <1>2, TargetsRead
<1>6. /\ c.driver.is \in {"value", "absent", "error"}
      /\ c.driver.is = "value" => c.driver.value \in Nat
  BY <1>1, <1>2, DriversRead
<1>7. Identity(c) \in Seq(Int)
  <2>1. PageNumber(c) \in Int /\ UsageNumber(c) \in Int
    BY <1>4 DEF PageNumber, UsageNumber, UsageNumbers, Usages, Unset
  <2>2. RoleNumber(c) \in Int
    BY <1>1, <1>2, RolesDiffer DEF RoleNumber
  <2>3. descriptor_hash(c) \in Int
    BY <1>3 DEF descriptor_hash
  <2>4. \A a1, a2, a3, a4 \in Int : <<a1, a2, a3, a4>> \in Seq(Int)
    OBVIOUS
  <2> QED BY <2>1, <2>2, <2>3, <2>4, IdentityIsFour
<1>8. Weighs(c)
  <2>1. evidence_quality(c) \in Seq(Int)
    BY <1>3, <1>5, <1>6 DEF evidence_quality, observation_quality
  <2>2. a1_payload(c) \in Seq(Int)
    <3>1. Seq(Nat) \subseteq Seq(Int)
      OBVIOUS
    <3> QED BY <1>5, <3>1 DEF a1_payload
  <2>3. driver_value(c) \in Seq(Int)
    BY <1>6 DEF driver_value
  <2> QED BY <2>1, <2>2, <2>3 DEF Weighs
<1> QED
  BY <1>2, <1>4, <1>7, <1>8 DEF c

\* What an outline keeps of one device.
Kept(c) == [c EXCEPT !.driver = Blurred(@), !.descriptor = Blurred(@), !.a1 = Blurred(@)]

\* Kept blurs the three readings of a device, and keeps its role, bus and usage.
LEMMA KeptIs ==
  ASSUME NEW role, NEW bus, NEW usage, NEW driver, NEW descriptor, NEW a1
  PROVE  Kept([role |-> role, bus |-> bus, usage |-> usage, driver |-> driver,
               descriptor |-> descriptor, a1 |-> a1])
         = [role |-> role, bus |-> bus, usage |-> usage, driver |-> Blurred(driver),
            descriptor |-> Blurred(descriptor), a1 |-> Blurred(a1)]
<1> DEFINE r == [role |-> role, bus |-> bus, usage |-> usage, driver |-> driver,
                 descriptor |-> descriptor, a1 |-> a1]
           One(x) == [role |-> role, bus |-> bus, usage |-> usage, driver |-> x,
                      descriptor |-> descriptor, a1 |-> a1]
           Two(x, y) == [role |-> role, bus |-> bus, usage |-> usage, driver |-> x,
                         descriptor |-> y, a1 |-> a1]
           Three(x, y, z) == [role |-> role, bus |-> bus, usage |-> usage, driver |-> x,
                              descriptor |-> y, a1 |-> z]
<1>1. r.driver = driver /\ r.descriptor = descriptor /\ r.a1 = a1
  OBVIOUS
<1>4. ASSUME NEW x PROVE [r EXCEPT !.driver = x] = One(x)
  OBVIOUS
<1>5. ASSUME NEW x, NEW y PROVE [One(x) EXCEPT !.descriptor = y] = Two(x, y)
  OBVIOUS
<1>6. ASSUME NEW x, NEW y, NEW z PROVE [Two(x, y) EXCEPT !.a1 = z] = Three(x, y, z)
  OBVIOUS
<1>2. ASSUME NEW x, NEW y, NEW z
      PROVE  [r EXCEPT !.driver = x, !.descriptor = y, !.a1 = z] = Three(x, y, z)
  <2> HIDE DEF r, One, Two, Three
  <2> QED BY <1>4, <1>5, <1>6
<1>3. Kept(r) = [r EXCEPT !.driver = Blurred(r.driver), !.descriptor = Blurred(r.descriptor),
                          !.a1 = Blurred(r.a1)]
  BY DEF Kept
<1>7. Kept(r) = Three(Blurred(driver), Blurred(descriptor), Blurred(a1))
  <2> HIDE DEF r, Three
  <2> QED BY <1>1, <1>2, <1>3
<1> QED
  BY <1>7

\* Two like devices between which the preference makes no difference are outlined alike.
LEMMA EvenIsAlike ==
  ASSUME NEW d, Allowed(d), NEW e, Allowed(e),
         SameHash(d, e) => d.descriptor.text.items = e.descriptor.text.items,
         Identity(collect_candidate(d)) = Identity(collect_candidate(e)),
         Even(collect_candidate(d), collect_candidate(e))
  PROVE  Kept(collect_candidate(d)) = Kept(collect_candidate(e))
<1> DEFINE c == collect_candidate(d)
           k == collect_candidate(e)
<1>1. /\ c = [role |-> d.uevent, bus |-> c.bus, usage |-> c.usage, driver |-> c.driver,
             descriptor |-> c.descriptor, a1 |-> c.a1]
      /\ c.bus = BusOf(d.uevent) /\ c.usage \in Usages
      /\ c.driver = read_driver(d.driver)
      /\ c.descriptor = read_descriptor(d.descriptor)
      /\ c.a1 = TargetList(d.uevent, c.descriptor, d.node)
  BY CandidatesWeigh
<1>2. /\ k = [role |-> e.uevent, bus |-> k.bus, usage |-> k.usage, driver |-> k.driver,
             descriptor |-> k.descriptor, a1 |-> k.a1]
      /\ k.bus = BusOf(e.uevent) /\ k.usage \in Usages
      /\ k.driver = read_driver(e.driver)
      /\ k.descriptor = read_descriptor(e.descriptor)
      /\ k.a1 = TargetList(e.uevent, k.descriptor, e.node)
  BY CandidatesWeigh
<1>3. Identity(c) = Identity(k) /\ Even(c, k)
  OBVIOUS
<1>0. /\ d \in HidFunctions /\ d.uevent \in Range(Roles) /\ d.node \in Files(Seq(Nat))
      /\ e \in HidFunctions /\ e.uevent \in Range(Roles) /\ e.node \in Files(Seq(Nat))
  BY DEF Allowed, HidFunctions
<1> HIDE DEF c, k
<1>4. c.role = d.uevent /\ k.role = e.uevent
  BY <1>1, <1>2
<1>5. /\ RoleNumber(c) = RoleNumber(k)
      /\ PageNumber(c) = PageNumber(k) /\ UsageNumber(c) = UsageNumber(k)
      /\ descriptor_hash(c) = descriptor_hash(k)
  <2>1. \A h : /\ Identity(h)[1] = RoleNumber(h) /\ Identity(h)[2] = PageNumber(h)
               /\ Identity(h)[3] = UsageNumber(h) /\ Identity(h)[4] = descriptor_hash(h)
    BY IdentityIsFour
  <2> QED BY <1>3, <2>1
<1>6. d.uevent = e.uevent /\ c.bus = k.bus
  BY <1>0, <1>1, <1>2, <1>4, <1>5, RolesDiffer DEF RoleNumber
<1>7. c.usage = k.usage
  BY <1>1, <1>2, <1>5 DEF PageNumber, UsageNumber, UsageNumbers, Usages, Unset
<1>8. /\ observation_quality(c.descriptor) = observation_quality(k.descriptor)
      /\ observation_quality(c.a1) = observation_quality(k.a1)
      /\ observation_quality(c.driver) = observation_quality(k.driver)
      /\ a1_payload(c) = a1_payload(k) /\ driver_value(c) = driver_value(k)
  BY <1>3 DEF Even, evidence_quality
<1>9. Blurred(c.driver) = Blurred(k.driver)
  <2>1. /\ c.driver.is \in {"value", "absent", "error"}
        /\ k.driver.is \in {"value", "absent", "error"}
        /\ c.driver.is = "absent" => c.driver = Absent("NotExposed")
        /\ k.driver.is = "absent" => k.driver = Absent("NotExposed")
    BY <1>0, <1>1, <1>2, DriversRead
  <2>2. c.driver.is = k.driver.is
    BY <1>8, <2>1 DEF observation_quality
  <2>3. c.driver.is = "value" => c.driver.value = k.driver.value
    BY <1>8, <2>2 DEF driver_value
  <2> QED BY <2>1, <2>2, <2>3 DEF Blurred
<1>10. /\ c.descriptor.is = k.descriptor.is
       /\ c.descriptor.is = "value" => c.descriptor.value = k.descriptor.value
       /\ c.descriptor.is \in {"value", "error"}
  <2>1. c.descriptor.is \in {"value", "error"} /\ k.descriptor.is \in {"value", "error"}
    BY <1>0, <1>1, <1>2, DescriptorsRead
  <2>2. c.descriptor.is = k.descriptor.is
    BY <1>8, <2>1 DEF observation_quality
  <2>3. ASSUME c.descriptor.is = "value"
        PROVE  c.descriptor.value = k.descriptor.value
    <3> DEFINE Reading(items, hash) ==
                 [hash |-> hash, usage |-> parse_report_descriptor(items).value.usage,
                  feature_reports |-> parse_report_descriptor(items).value.feature_reports]
    <3>1. /\ d.descriptor.is = "text" /\ e.descriptor.is = "text"
          /\ c.descriptor.value = Reading(d.descriptor.text.items, d.descriptor.text.hash)
          /\ k.descriptor.value = Reading(e.descriptor.text.items, e.descriptor.text.hash)
      BY <1>0, <1>1, <1>2, <2>2, <2>3, DescriptorsRead
    <3>2. c.descriptor.value.hash = k.descriptor.value.hash
      BY <1>5, <2>2, <2>3 DEF descriptor_hash
    <3>3. d.descriptor.text.hash = e.descriptor.text.hash
      BY <3>1, <3>2
    <3>4. d.descriptor.text.items = e.descriptor.text.items
      BY <3>1, <3>3 DEF SameHash
    <3> HIDE DEF Reading
    <3> QED BY <3>1, <3>3, <3>4
  <2> QED BY <2>1, <2>2, <2>3
<1>11. Blurred(c.a1) = Blurred(k.a1)
  <2> DEFINE Lists(v) == {r \in Range(v.feature_reports) : r.id = ReportTargetList}
             Bytes(v) == (CHOOSE r \in Lists(v) : TRUE).bytes
  <2>1. /\ c.a1.is \in {"none", "absent", "value", "error"}
        /\ c.a1.is = "none" => c.a1 = NoA1
        /\ c.a1.is = "absent" => c.a1 = Absent("IncompleteInterface")
        /\ c.a1.is = "none" <=> d.uevent # "Enek5130Lighting"
        /\ c.a1.is = "value" => /\ c.descriptor.is = "value"
                                /\ c.a1.value = Targets(Bytes(c.descriptor.value), c.a1.value.payload)
    BY <1>0, <1>1, TargetsRead
  <2>2. /\ k.a1.is \in {"none", "absent", "value", "error"}
        /\ k.a1.is = "none" => k.a1 = NoA1
        /\ k.a1.is = "absent" => k.a1 = Absent("IncompleteInterface")
        /\ k.a1.is = "none" <=> e.uevent # "Enek5130Lighting"
        /\ k.a1.is = "value" => /\ k.descriptor.is = "value"
                                /\ k.a1.value = Targets(Bytes(k.descriptor.value), k.a1.value.payload)
    BY <1>0, <1>2, TargetsRead
  <2> HIDE DEF Bytes
  <2>3. c.a1.is = k.a1.is
    BY <1>6, <1>8, <2>1, <2>2 DEF observation_quality
  <2>4. c.a1.is = "value" => c.a1.value = k.a1.value
    <3>1. c.a1.is = "value" => c.a1.value.payload = k.a1.value.payload
      BY <1>8, <2>3 DEF a1_payload
    <3> QED BY <1>10, <2>1, <2>2, <2>3, <3>1
  <2>5. c.a1.is \in {"none", "absent"} => c.a1 = k.a1
    BY <2>1, <2>2, <2>3
  <2> QED BY <2>1, <2>3, <2>4, <2>5 DEF Blurred
<1>12. Blurred(c.descriptor) = Blurred(k.descriptor)
  BY <1>10 DEF Blurred
<1>13. Kept(c) = [role |-> d.uevent, bus |-> c.bus, usage |-> c.usage,
                  driver |-> Blurred(c.driver), descriptor |-> Blurred(c.descriptor),
                  a1 |-> Blurred(c.a1)]
  <2> DEFINE all == [role |-> d.uevent, bus |-> c.bus, usage |-> c.usage, driver |-> c.driver,
                     descriptor |-> c.descriptor, a1 |-> c.a1]
  <2>1. c = all
    BY <1>1
  <2>2. Kept(all) = [role |-> d.uevent, bus |-> c.bus, usage |-> c.usage,
                     driver |-> Blurred(c.driver), descriptor |-> Blurred(c.descriptor),
                     a1 |-> Blurred(c.a1)]
    BY KeptIs
  <2> HIDE DEF all
  <2> QED BY <2>1, <2>2
<1>14. Kept(k) = [role |-> e.uevent, bus |-> k.bus, usage |-> k.usage,
                  driver |-> Blurred(k.driver), descriptor |-> Blurred(k.descriptor),
                  a1 |-> Blurred(k.a1)]
  <2> DEFINE all == [role |-> e.uevent, bus |-> k.bus, usage |-> k.usage, driver |-> k.driver,
                     descriptor |-> k.descriptor, a1 |-> k.a1]
  <2>1. k = all
    BY <1>2
  <2>2. Kept(all) = [role |-> e.uevent, bus |-> k.bus, usage |-> k.usage,
                     driver |-> Blurred(k.driver), descriptor |-> Blurred(k.descriptor),
                     a1 |-> Blurred(k.a1)]
    BY KeptIs
  <2> HIDE DEF all
  <2> QED BY <2>1, <2>2
<1>15. Kept(c) = Kept(k)
  BY <1>6, <1>7, <1>9, <1>11, <1>12, <1>13, <1>14
<1> QED
  BY <1>15 DEF c, k

-------------------------------------------------------------------------------
(* The inventory.                                                                 *)

\* Identities are ordered.
LEMMA IdentitiesOrder ==
  ASSUME NEW A, A \subseteq Seq(Int)
  PROVE  Orders({p \in A \X A : LexLess(p[1], p[2])}, A)
<1> DEFINE R == {p \in A \X A : LexLess(p[1], p[2])}
<1>1. \A a, b \in A : <<a, b>> \in R <=> LexLess(a, b)
  OBVIOUS
<1>2. /\ \A a \in A : ~LexLess(a, a)
      /\ \A a, b \in A : a # b => LexLess(a, b) \/ LexLess(b, a)
      /\ \A a, b, c \in A : LexLess(a, b) /\ LexLess(b, c) => LexLess(a, c)
  BY LexIrreflexive, LexTotal, LexTransitive
<1> HIDE DEF R
<1>3. Orders(R, A)
  BY <1>1, <1>2 DEF Orders
<1> QED
  BY <1>3 DEF R

\* Candidates that an outline tells apart when the preference does, and a listing of them all.
Comparable(K) ==
  /\ \A c \in K : Identity(c) \in Seq(Int) /\ Weighs(c)
  /\ \A c, d \in K : Identity(c) = Identity(d) /\ Even(c, d) => Kept(c) = Kept(d)
ListsAll(f, n, K) ==
  n \in Nat /\ f \in [1 .. n -> K] /\ \A c \in K : \E i \in 1 .. n : f[i] = c

\* One of each, from whatever order they were found in.
LEMMA OneOfEachIsTheSame ==
  ASSUME NEW K, Comparable(K), NEW f, NEW m, ListsAll(f, m, K), NEW g, NEW n, ListsAll(g, n, K)
  PROVE  Outline(OneOfEach(f)) = Outline(OneOfEach(g))
<1>0. /\ \A c \in K : Identity(c) \in Seq(Int) /\ Weighs(c)
      /\ \A c, d \in K : Identity(c) = Identity(d) /\ Even(c, d) => Kept(c) = Kept(d)
      /\ m \in Nat /\ f \in [1 .. m -> K] /\ \A c \in K : \E i \in 1 .. m : f[i] = c
      /\ n \in Nat /\ g \in [1 .. n -> K] /\ \A c \in K : \E i \in 1 .. n : g[i] = c
  BY DEF Comparable, ListsAll
<1> DEFINE A == {Identity(c) : c \in K}
           ids == Ordered(A, {p \in A \X A : LexLess(p[1], p[2])})
           N == Cardinality(A)
           EqF(k) == {i \in DOMAIN f : Identity(f[i]) = ids[k]}
           EqG(k) == {i \in DOMAIN g : Identity(g[i]) = ids[k]}
<1>1. {Identity(f[i]) : i \in DOMAIN f} = A /\ {Identity(g[i]) : i \in DOMAIN g} = A
  BY <1>0
<1>2. A \subseteq Seq(Int)
  BY <1>0
<1>3. IsFiniteSet(A)
  <2> DEFINE names == [i \in 1 .. m |-> Identity(f[i])]
  <2>1. names \in Surjection(1 .. m, A)
    <3>1. names \in [1 .. m -> A]
      BY <1>0
    <3>2. \A a \in A : \E i \in 1 .. m : names[i] = a
      BY <1>0
    <3> HIDE DEF names, A
    <3> QED BY <3>1, <3>2 DEF Surjection
  <2>2. IsFiniteSet(1 .. m)
    <3>1. 1 \in Int /\ m \in Int
      BY <1>0
    <3> QED BY <3>1, FS_Interval
  <2> HIDE DEF names, A
  <2> QED BY <2>1, <2>2, FS_Surjection
<1> HIDE DEF A
<1>4. N \in Nat /\ ids \in [1 .. N -> A]
  BY <1>2, <1>3, IdentitiesOrder, OrderedLists
<1>5. /\ OneOfEach(f) = [k \in DOMAIN ids |-> Best(f, EqF(k))]
      /\ OneOfEach(g) = [k \in DOMAIN ids |-> Best(g, EqG(k))]
  BY <1>1 DEF OneOfEach
<1> HIDE DEF ids
<1>6. ASSUME NEW k \in DOMAIN ids
      PROVE  Kept(Best(f, EqF(k))) = Kept(Best(g, EqG(k)))
  <2>0. ids[k] \in A /\ DOMAIN f = 1 .. m /\ DOMAIN g = 1 .. n
    BY <1>0, <1>4
  <2>1. PICK c \in K : Identity(c) = ids[k]
    BY <2>0 DEF A
  <2>2. /\ EqF(k) # {} /\ EqF(k) \subseteq Int /\ IsFiniteSet(EqF(k))
        /\ EqG(k) # {} /\ EqG(k) \subseteq Int /\ IsFiniteSet(EqG(k))
    <3>1. EqF(k) \subseteq 1 .. m /\ EqG(k) \subseteq 1 .. n
      BY <2>0
    <3>2. EqF(k) # {} /\ EqG(k) # {}
      BY <1>0, <2>0, <2>1
    <3>3. IsFiniteSet(1 .. m) /\ IsFiniteSet(1 .. n)
      <4>1. 1 \in Int /\ m \in Int /\ n \in Int
        BY <1>0
      <4> QED BY <4>1, FS_Interval
    <3> HIDE DEF EqF, EqG
    <3>4. IsFiniteSet(EqF(k)) /\ IsFiniteSet(EqG(k))
      BY <3>1, <3>3, FS_Subset
    <3>5. 1 .. m \subseteq Int /\ 1 .. n \subseteq Int
      BY <1>0
    <3> QED BY <3>1, <3>2, <3>4, <3>5
  <2>3. /\ \A i \in EqF(k) : f[i] \in K /\ Identity(f[i]) = ids[k]
        /\ \A i \in EqG(k) : g[i] \in K /\ Identity(g[i]) = ids[k]
        /\ \A d \in K : Identity(d) = ids[k] =>
             (\E i \in EqF(k) : f[i] = d) /\ (\E i \in EqG(k) : g[i] = d)
    BY <1>0, <2>0
  <2> HIDE DEF EqF, EqG
  <2>4. PICK i \in EqF(k) : /\ Best(f, EqF(k)) = f[i]
                           /\ \A j \in EqF(k) : ~Preferred(f[j], f[i])
    BY <1>0, <2>2, <2>3, BestIsBest
  <2>5. PICK j \in EqG(k) : /\ Best(g, EqG(k)) = g[j]
                           /\ \A l \in EqG(k) : ~Preferred(g[l], g[j])
    BY <1>0, <2>2, <2>3, BestIsBest
  <2>6. ~Preferred(g[j], f[i]) /\ ~Preferred(f[i], g[j])
    BY <2>3, <2>4, <2>5
  <2>7. f[i] \in K /\ g[j] \in K /\ Identity(f[i]) = Identity(g[j])
    BY <2>3
  <2>8. Even(f[i], g[j])
    BY <1>0, <2>6, <2>7, PreferenceOrders
  <2> QED BY <1>0, <2>4, <2>5, <2>7, <2>8
<1>7. \A inventory : Outline(inventory) = [i \in DOMAIN inventory |-> Kept(inventory[i])]
  BY DEF Outline, Kept
<1> HIDE DEF EqF, EqG
<1>8. Outline(OneOfEach(f)) = [k \in DOMAIN ids |-> Kept(Best(f, EqF(k)))]
  BY <1>5, <1>7
<1>9. Outline(OneOfEach(g)) = [k \in DOMAIN ids |-> Kept(Best(g, EqG(k)))]
  BY <1>5, <1>7
<1> QED
  BY <1>6, <1>8, <1>9

\* The functions that are looked at.
LookedAt(hidraw) == {n \in HidNumbers : hidraw[n].uevent \in Range(Roles)}

\* When there are not too many, all of them are found.
LEMMA AllAreFound ==
  ASSUME NEW h, Cardinality(LookedAt(h)) <= MaxCandidates
  PROVE  /\ IsFiniteSet(LookedAt(h)) /\ Cardinality(LookedAt(h)) \in Nat
         /\ \E f, c : /\ collect_hid(h) = OneOfEach(f)
                      /\ ListsAll(f, c, {collect_candidate(h[n]) : n \in LookedAt(h)})
<1> DEFINE all == Ascending(LookedAt(h))
           c == Cardinality(LookedAt(h))
           f == [i \in 1 .. c |-> collect_candidate(h[all[i]])]
<1>1. IsFiniteSet(LookedAt(h)) /\ LookedAt(h) \subseteq Int
  <2>0. HidNumbers \subseteq Int
    BY HidAssumption
  <2>1. LookedAt(h) \in SUBSET HidNumbers /\ LookedAt(h) \subseteq Int
    BY <2>0 DEF LookedAt
  <2> QED BY <2>1, HidAssumption, FS_Subset
<1>2. /\ c \in Nat /\ all \in [1 .. c -> LookedAt(h)] /\ Len(all) = c
      /\ \A n \in LookedAt(h) : \E i \in 1 .. c : all[i] = n
  BY <1>1, AscendingLists
<1>3. MaxCandidates \in Nat
  BY HidAssumption
<1>4. CandidateNumbers(h) = SubSeq(all, 1, IF Len(all) > MaxCandidates THEN MaxCandidates ELSE Len(all))
  BY DEF CandidateNumbers, LookedAt
<1> HIDE DEF all, c
<1>5. CandidateNumbers(h) = all
  <2>1. ~(Len(all) > MaxCandidates)
    BY <1>2, <1>3 DEF c
  <2>2. CandidateNumbers(h) = SubSeq(all, 1, c)
    BY <1>2, <1>4, <2>1
  <2>3. all \in Seq(LookedAt(h))
    BY <1>2
  <2> QED BY <1>2, <2>2, <2>3
<1>6. DOMAIN all = 1 .. c
  BY <1>2
<1>7. collect_hid(h) = OneOfEach(f)
  BY <1>5, <1>6 DEF collect_hid, Inventory
<1>8. f \in [1 .. c -> {collect_candidate(h[n]) : n \in LookedAt(h)}]
  BY <1>2
<1>9. \A n \in LookedAt(h) : \E i \in 1 .. c : f[i] = collect_candidate(h[n])
  BY <1>2
<1> DEFINE K == {collect_candidate(h[n]) : n \in LookedAt(h)}
<1> HIDE DEF f
<1>10. ListsAll(f, c, K)
  <2>1. \A k \in K : \E n \in LookedAt(h) : k = collect_candidate(h[n])
    OBVIOUS
  <2>2. f \in [1 .. c -> K]
    BY <1>8
  <2> HIDE DEF K
  <2> QED BY <1>2, <1>9, <2>1, <2>2 DEF ListsAll
<1> QED
  BY <1>1, <1>2, <1>7, <1>10 DEF c

\* Whatever the numbers are, the inventory is outlined alike.
LEMMA NumbersDoNotMatter ==
  ASSUME NEW h \in HidFiles, Cardinality(LookedAt(h)) <= MaxCandidates,
         NEW p \in [HidNumbers -> HidNumbers], Range(p) = HidNumbers
  PROVE  Outline(collect_hid([n \in HidNumbers |-> h[p[n]]])) = Outline(collect_hid(h))
<1> DEFINE g == [n \in HidNumbers |-> h[p[n]]]
           K == {collect_candidate(h[n]) : n \in LookedAt(h)}
<1>1. /\ h \in [HidNumbers -> HidFunctions]
      /\ \A m, n \in HidNumbers :
           SameHash(h[m], h[n]) => h[m].descriptor.text.items = h[n].descriptor.text.items
  BY DEF HidFiles
<1>2. \A n \in HidNumbers : g[n] = h[p[n]] /\ p[n] \in HidNumbers
  OBVIOUS
<1> HIDE DEF g
<1>3. p \in Injection(HidNumbers, HidNumbers)
  <2>1. p \in Surjection(HidNumbers, HidNumbers)
    BY DEF Surjection, Range
  <2> QED BY <2>1, HidAssumption, FS_SurjSameCardinalityImpliesInj
<1>4. \A n \in HidNumbers : n \in LookedAt(g) <=> p[n] \in LookedAt(h)
  BY <1>2 DEF LookedAt
<1>5. IsFiniteSet(LookedAt(h)) /\ Cardinality(LookedAt(h)) \in Nat
  BY AllAreFound
<1>6. Cardinality(LookedAt(g)) <= MaxCandidates
  <2> DEFINE q == [n \in LookedAt(g) |-> p[n]]
  <2>1. LookedAt(g) \subseteq HidNumbers
    BY DEF LookedAt
  <2>2. q \in [LookedAt(g) -> LookedAt(h)]
    BY <1>4, <2>1
  <2>3. \A x, y \in LookedAt(g) : q[x] = q[y] => x = y
    BY <1>3, <2>1 DEF Injection, IsInjective
  <2> HIDE DEF q
  <2>4. q \in Injection(LookedAt(g), LookedAt(h))
    BY <2>2, <2>3 DEF Injection, IsInjective
  <2>5. IsFiniteSet(LookedAt(g)) /\ Cardinality(LookedAt(g)) <= Cardinality(LookedAt(h))
    BY <1>5, <2>4, FS_Injection
  <2>6. Cardinality(LookedAt(g)) \in Nat /\ MaxCandidates \in Nat
    BY <2>5, FS_CardinalityType, HidAssumption
  <2> QED BY <1>5, <2>5, <2>6
<1>7. {collect_candidate(g[n]) : n \in LookedAt(g)} = K
  <2>1. \A n \in LookedAt(g) : g[n] = h[p[n]] /\ p[n] \in LookedAt(h)
    BY <1>2, <1>4 DEF LookedAt
  <2>2. \A m \in LookedAt(h) : \E n \in LookedAt(g) : g[n] = h[m]
    <3> SUFFICES ASSUME NEW m \in LookedAt(h) PROVE \E n \in LookedAt(g) : g[n] = h[m]
      OBVIOUS
    <3>1. m \in HidNumbers
      BY DEF LookedAt
    <3>2. PICK n \in HidNumbers : p[n] = m
      BY <3>1 DEF Range
    <3> QED BY <1>2, <1>4, <3>2
  <2> HIDE DEF LookedAt
  <2> QED BY <2>1, <2>2
<1>8. \A c \in K : \E n \in LookedAt(h) : c = collect_candidate(h[n])
  OBVIOUS
<1> HIDE DEF K
<1>9. \A n \in LookedAt(h) : n \in HidNumbers /\ Allowed(h[n])
  BY <1>1 DEF LookedAt, Allowed
<1>10. Comparable(K)
  <2>1. \A c \in K : Identity(c) \in Seq(Int) /\ Weighs(c)
    BY <1>8, <1>9, CandidatesWeigh
  <2>2. ASSUME NEW c \in K, NEW d \in K, Identity(c) = Identity(d), Even(c, d)
        PROVE  Kept(c) = Kept(d)
    <3>1. PICK n \in LookedAt(h) : c = collect_candidate(h[n])
      BY <1>8
    <3>2. PICK m \in LookedAt(h) : d = collect_candidate(h[m])
      BY <1>8
    <3> QED BY <1>1, <1>9, <2>2, <3>1, <3>2, EvenIsAlike
  <2> QED BY <2>1, <2>2 DEF Comparable
<1>11. PICK f, m : collect_hid(h) = OneOfEach(f) /\ ListsAll(f, m, K)
  BY AllAreFound DEF K
<1>12. PICK f1, n : collect_hid(g) = OneOfEach(f1) /\ ListsAll(f1, n, K)
  BY <1>6, <1>7, AllAreFound
<1>13. Outline(collect_hid(g)) = Outline(collect_hid(h))
  BY <1>10, <1>11, <1>12, OneOfEachIsTheSame
<1> QED
  BY <1>13 DEF g

\* Until the client has asked, the machine is one of those that a report may find.
FoundMachine == probe.at = "start" => machine \in ReportMachines

\* The numbers of the hidraw functions do not decide what a report names, nor with what
\* evidence, as long as there are no more of them than are looked at (passive_hid.rs,
\* collect_at_with).
THEOREM NumbersAreAnAccident == ReportSpec => []InventoryIsNoAccident
<1>1. ReportInit => FoundMachine
  BY DEF ReportInit, FoundMachine
<1>2. FoundMachine /\ ReportIInv /\ [ReportNext]_reportVars => FoundMachine'
  <2> SUFFICES ASSUME FoundMachine, ReportIInv, [ReportNext]_reportVars, probe'.at = "start"
               PROVE  machine' \in ReportMachines
    BY DEF FoundMachine
  <2>1. CASE probe.at = "start"
    <3>1. Collect \/ Connect \/ Answered \/ Unanswered \/ ReadsMachine \/ ReadsPower
          \/ ReadsDrivers \/ Publish \/ Done \/ UNCHANGED reportVars => machine' = machine
      BY DEF Collect, Connect, Answered, Unanswered, ReadsMachine, ReadsPower, ReadsDrivers,
             ReadsOr, Publish, Done, reportVars
    <3>2. ~MachineChanges
      BY <2>1 DEF MachineChanges
    <3> QED BY <2>1, <3>1, <3>2 DEF FoundMachine, ReportNext
  <2>2. CASE probe.at # "start"
    <3>1. probe = [at |-> probe.at, how |-> probe.how, identity |-> probe.identity,
                   told |-> probe.told, local |-> probe.local, report |-> probe.report]
      BY DEF ReportIInv, ProbeShape
    <3>2. CASE Answered \/ Unanswered
      BY <3>1, <3>2 DEF Answered, Unanswered
    <3>3. CASE ReadsMachine \/ ReadsPower \/ ReadsDrivers
      BY <3>1, <3>3 DEF ReadsMachine, ReadsPower, ReadsDrivers, ReadsOr
    <3>4. CASE Publish
      BY <3>1, <3>4 DEF Publish
    <3>5. ~Connect
      BY <2>2 DEF Connect
    <3>6. Collect \/ MachineChanges \/ Done \/ UNCHANGED reportVars => UNCHANGED probe
      BY DEF Collect, MachineChanges, Done, reportVars
    <3>7. ~UNCHANGED probe
      BY <2>2
    <3> QED BY <3>2, <3>3, <3>4, <3>5, <3>6, <3>7 DEF ReportNext
  <2> QED BY <2>1, <2>2
<1>3. FoundMachine => InventoryIsNoAccident
  <2> SUFFICES ASSUME machine \in ReportMachines,
                      Cardinality(LookedAt(machine.hidraw)) <= MaxCandidates,
                      NEW p \in {p \in [HidNumbers -> HidNumbers] : Range(p) = HidNumbers}
               PROVE  Outline(collect_hid([n \in HidNumbers |-> machine.hidraw[p[n]]]))
                      = Outline(collect_hid(machine.hidraw))
    BY DEF FoundMachine, InventoryIsNoAccident, LookedAt
  <2>1. machine.hidraw \in HidFiles
    BY ReportAssumption DEF MachineFiles
  <2> QED BY <2>1, NumbersDoNotMatter
<1> QED
  BY <1>1, <1>2, <1>3, ReportInvariant, PTL DEF ReportSpec

-------------------------------------------------------------------------------
(* What is read is judged fairly.                                                 *)

\* An observation that a check takes as it is, but for its value.
Fair(read) ==
  /\ read.is \in {"value", "absent", "error"}
  /\ read.is = "error" => validate_error(read.value)

\* A text file gives a fair observation however its reading ends, and a value is its text.
LEMMA TextIsFair ==
  ASSUME NEW file, ReadEnds(file)
  PROVE  /\ Fair(read_text(file))
         /\ read_text(file).is = "value" => file.is = "text" /\ read_text(file).value = file.text
BY DEF ReadEnds, Fair, read_text, Value, Absent, Error, Malformed, validate_error

\* A number is read fairly, and it is never an odd text.
LEMMA NumberIsFair ==
  ASSUME NEW class
  PROVE  /\ Fair(read_number(class))
         /\ read_number(class).is = "value" => read_number(class) = Value(class) /\ class # "odd"
BY DEF read_number, read_value, Decoded, AsFile, NoFile, Unread, Text, Fair, read_text, Value,
       Absent, Error, Malformed, validate_error

\* The report takes an observation as it is, but for the reason why there is none.
LEMMA MappedIsFair ==
  ASSUME NEW read, NEW source, Fair(read)
  PROVE  LET o == map_observation(read, source)
         IN /\ Fair(o) /\ o.is = read.is /\ o.source = source
            /\ read.is = "value" => o.value = read.value
BY DEF map_observation, Fair

\* Naming the source of what the client has read keeps it fair.
LEMMA SourcedIsFair ==
  ASSUME NEW read, NEW source, Fair(read)
  PROVE  LET o == Sourced(source, read)
         IN Fair(o) /\ o.is = read.is /\ o.source = source /\ o.value = read.value
BY DEF Sourced, Fair

-------------------------------------------------------------------------------
(* The lighting.                                                                  *)

LightingFits(lighting) == validate_lighting(lighting) /\ schema_lighting(lighting)

\* Whatever a machine's files hold, its lighting is accepted.
LEMMA LightingIsAccepted ==
  ASSUME NEW m
  PROVE  LightingFits(collect_lighting(m))
<1> DEFINE mask == read_text(m.zone_mask)
           zones == IF mask.is = "value" THEN zoned_wmi_zone_count(mask.value) ELSE 0
<1>1. zones \in 0 .. 4
  BY DEF zoned_wmi_zone_count
<1> HIDE DEF zones
<1>2. PICK readable : readable = \A f \in {m.power, m.effect, m.zones} : f.is = "text" /\ f.text # ""
  OBVIOUS
<1> DEFINE one == [id |-> "zoned-wmi-keyboard", zones |-> zones, state_readable |-> readable]
<1>3. \/ collect_lighting(m) = <<>>
      \/ zones # 0 /\ collect_lighting(m) = <<one>>
  BY <1>2 DEF collect_lighting, zones
<1>4. one.id = "zoned-wmi-keyboard" /\ one.zones = zones
  OBVIOUS
<1> HIDE DEF one
<1>5. LightingFits(<<>>)
  BY DEF LightingFits, validate_lighting, schema_lighting
<1>6. zones # 0 => LightingFits(<<one>>)
  BY <1>1, <1>4 DEF LightingFits, validate_lighting, schema_lighting
<1> QED
  BY <1>3, <1>5, <1>6

-------------------------------------------------------------------------------
(* The HID devices.                                                               *)

\* The reports that are counted are few, none is empty, and they are in the order of their IDs.
LEMMA GeometryFits ==
  ASSUME NEW s, ParserOK(s)
  PROVE  LET g == Judged(s)
         IN Fair(g) /\ (g.is = "value" => validate_geometry(g.value.feature_reports))
<1> DEFINE bits == s.bits
           D == DOMAIN bits
           ids == Ascending(D)
           k == Cardinality(D)
           reports == Reports(bits)
           g == Judged(s)
<1>1. s \in Parsers /\ k <= MaxReports
  BY DEF ParserOK
<1>2. PICK S \in SUBSET (0 .. 255) : bits \in [S -> Nat \ {0}]
  <2>1. bits \in UNION {[S -> Nat \ {0}] : S \in SUBSET (0 .. 255)}
    BY <1>1 DEF Parsers
  <2> HIDE DEF bits
  <2> QED BY <2>1
<1> HIDE DEF bits
<1>3. D \subseteq 0 .. 255 /\ D \subseteq Int /\ \A i \in D : bits[i] \in Nat \ {0}
  <2>1. D = S /\ \A i \in S : bits[i] \in Nat \ {0}
    BY <1>2
  <2>2. S \subseteq 0 .. 255 /\ S \subseteq Int
    OBVIOUS
  <2> HIDE DEF D
  <2> QED BY <2>1, <2>2
<1>4. IsFiniteSet(D)
  BY <1>3, BytesAreFinite, FS_Subset
<1>5. /\ k \in Nat /\ ids \in [1 .. k -> D]
      /\ \A i, j \in 1 .. k : i < j => ids[i] < ids[j]
  <2> HIDE DEF D
  <2> QED BY <1>3, <1>4, AscendingLists
<1>6. reports = [i \in DOMAIN ids |-> [id |-> ids[i], bytes |-> ReportBytes(ids[i], bits[ids[i]])]]
  BY DEF Reports
<1> HIDE DEF ids, reports, k
<1>7. /\ Len(reports) = k /\ DOMAIN reports = 1 .. k
      /\ \A i \in 1 .. k : /\ reports[i].id = ids[i]
                           /\ reports[i].bytes = ReportBytes(ids[i], bits[ids[i]])
  BY <1>5, <1>6
<1>8. \A i \in 1 .. k : reports[i].bytes \in Nat \ {0}
  <2> SUFFICES ASSUME NEW i \in 1 .. k PROVE reports[i].bytes \in Nat \ {0}
    OBVIOUS
  <2>1. bits[ids[i]] \in Nat \ {0}
    BY <1>3, <1>5
  <2>2. \A b \in Nat \ {0} : (b + 7) \div 8 \in Nat /\ (b + 7) \div 8 >= 1
    OBVIOUS
  <2> QED BY <1>7, <2>1, <2>2 DEF ReportBytes
<1>9. s.error \in {"none", "InvalidValue", "Oversize"}
  BY <1>1 DEF Parsers
<1>10. /\ Fair(g) /\ g.is \in {"value", "error"}
       /\ g.is = "value" => /\ g.value.feature_reports = reports
                            /\ ~ \E i \in DOMAIN reports : reports[i].bytes > MaxBytes
  <2>1. g = Geometry(s, reports)
    BY DEF Judged, reports, bits
  <2> HIDE DEF g
  <2> QED BY <2>1 DEF Geometry, Fair, Error, Malformed, Value, validate_error
<1> HIDE DEF g
<1>11. MaxBytes \in Nat /\ MaxReports \in Nat
  BY HidAssumption
<1>12. ASSUME g.is = "value" PROVE validate_geometry(reports)
  <2>1. \A i \in DOMAIN reports : reports[i].bytes \in 1 .. MaxBytes
    BY <1>7, <1>8, <1>10, <1>11, <1>12
  <2>2. ASSUME NEW i \in 1 .. k - 1 PROVE reports[i].id < reports[i + 1].id
    <3>1. i \in 1 .. k /\ i + 1 \in 1 .. k /\ i < i + 1
      BY <1>5
    <3> QED BY <1>5, <1>7, <3>1
  <2>3. k <= MaxReports
    BY <1>1 DEF k
  <2> QED BY <1>7, <2>1, <2>2, <2>3 DEF validate_geometry
<1> QED
  BY <1>10, <1>12 DEF g

\* Whatever a report descriptor holds, what is read of it passes validate_hid's bounds.
LEMMA DescriptorFits ==
  ASSUME NEW d \in HidFunctions
  PROVE  LET r == read_descriptor(d.descriptor)
         IN Fair(r) /\ (r.is = "value" => validate_geometry(r.value.feature_reports))
<1> DEFINE file == d.descriptor
           parser == FoldLeft(ParseItem, EmptyParser, file.text.items)
           whole == parse_report_descriptor(file.text.items)
           r == read_descriptor(file)
<1>1. \/ file \in [is : {"missing", "directory", "denied", "failing", "oversize"}]
      \/ file \in [is : {"text"}, text : [items : Seq(Items), hash : Nat]]
  BY DEF HidFunctions, Files
<1>2. CASE file \in [is : {"missing", "directory", "denied", "failing", "oversize"}]
  <2>1. Fair(read_bounded(file)) /\ read_bounded(file).is = "error"
    BY <1>2 DEF read_bounded, Error, Value, Fair, validate_error
  <2>2. r = read_bounded(file)
    BY <2>1 DEF read_descriptor, Decoded
  <2> QED BY <2>1, <2>2
<1>3. CASE file \in [is : {"text"}, text : [items : Seq(Items), hash : Nat]]
  <2>1. file.text.items \in Seq(Items) /\ read_bounded(file) = Value(file.text)
    BY <1>3 DEF read_bounded
  <2>2. r = IF file.text.items = <<>> THEN Malformed
            ELSE IF whole.is = "value"
                 THEN Value([hash |-> file.text.hash, usage |-> whole.value.usage,
                             feature_reports |-> whole.value.feature_reports])
                 ELSE whole
    BY <2>1 DEF read_descriptor, Decoded, Value
  <2>3. whole = Judged(parser)
    BY DEF parse_report_descriptor
  <2>4. ParserOK(parser)
    BY <2>1, DescriptorsParse
  <2> HIDE DEF parser, whole
  <2>5. Fair(whole) /\ (whole.is = "value" => validate_geometry(whole.value.feature_reports))
    BY <2>3, <2>4, GeometryFits
  <2>6. Fair(Malformed) /\ Malformed.is = "error"
    BY DEF Malformed, Error, Fair, validate_error
  <2>7. \A a, b, c : LET v == Value([hash |-> a, usage |-> b, feature_reports |-> c])
                     IN Fair(v) /\ v.value.feature_reports = c
    BY DEF Value, Fair
  <2> HIDE DEF r
  <2> QED BY <2>2, <2>5, <2>6, <2>7 DEF r
<1> QED
  BY <1>1, <1>2, <1>3

\* The list of targets that is kept is short, in order, and the one in its payload.
A1Fits(a1) ==
  /\ validate_a1(a1) /\ 2 + a1.payload[2] <= Len(a1.payload)
  /\ a1.targets = a1_targets_from_payload(a1.payload)

\* Of a payload that is taken, the report finds the same targets again.
LEMMA PayloadFits ==
  ASSUME NEW requested \in 2 .. MaxPayload, NEW payload \in Seq(Nat)
  PROVE  LET r == parse_a1_payload(requested, payload)
         IN Fair(r) /\ r.is # "none" /\ (r.is = "value" => A1Fits(r.value))
<1> DEFINE listed == SubSeq(payload, 3, 2 + payload[2])
           T == Range(listed)
           given == [requested |-> requested, payload |-> payload, targets |-> Ascending(T)]
           r == parse_a1_payload(requested, payload)
           refused == \/ Len(payload) < 2 \/ Len(payload) > requested
                      \/ payload[1] # ReportTargetList \/ payload[2] > MaxTargets
                      \/ 2 + payload[2] > Len(payload)
<1>1. \/ r.is = "error" /\ Fair(r)
      \/ ~refused /\ r = Value(given)
  BY DEF parse_a1_payload, Malformed, Error, Fair, validate_error
<1>2. ASSUME ~refused
      PROVE  A1Fits(given)
  <2>0. MaxPayload \in Nat /\ MaxTargets \in Nat /\ Len(payload) \in Nat
    BY HidAssumption
  <2>1. Len(payload) \in 2 .. requested /\ payload[1] = ReportTargetList
    BY <1>2, <2>0
  <2>2. payload[2] \in Nat /\ payload[2] <= MaxTargets /\ 2 + payload[2] <= Len(payload)
    BY <1>2, <2>0, <2>1
  <2> DEFINE n == payload[2]
  <2>3. listed \in [1 .. n -> Nat]
    <3>1. \A i \in 3 .. 2 + n : payload[i] \in Nat
      BY <2>0, <2>2
    <3>2. Len(listed) = n
      BY <2>2
    <3>3. listed \in Seq(Nat)
      BY <2>0, <2>1, <2>2
    <3> HIDE DEF listed, n
    <3> QED BY <3>2, <3>3
  <2>4. n \in Nat /\ n <= MaxTargets
    BY <2>2
  <2> HIDE DEF listed, n
  <2>5. IsFiniteSet(T) /\ Cardinality(T) <= n /\ T \subseteq Int
    <3>1. listed \in Surjection(1 .. n, T)
      BY <2>3 DEF Surjection, Range
    <3>2. IsFiniteSet(1 .. n) /\ Cardinality(1 .. n) = n
      <4>1. 1 \in Int /\ n \in Int
        BY <2>4
      <4> QED BY <2>4, <4>1, FS_Interval
    <3>3. T \subseteq Int
      BY <2>3 DEF Range
    <3> HIDE DEF T
    <3> QED BY <3>1, <3>2, <3>3, FS_Surjection
  <2> DEFINE k == Cardinality(T)
  <2> HIDE DEF T
  <2>6. /\ k \in Nat /\ Len(Ascending(T)) = k
        /\ \A i, j \in 1 .. k : i < j => Ascending(T)[i] < Ascending(T)[j]
    BY <2>5, AscendingLists
  <2>7. k <= MaxTargets
    BY <2>0, <2>4, <2>5, <2>6
  <2> HIDE DEF k
  <2>8. validate_channel_order(Ascending(T))
    <3>1. \A i \in 1 .. k - 1 : i \in 1 .. k /\ i + 1 \in 1 .. k /\ i < i + 1
      BY <2>6
    <3> QED BY <2>6, <3>1 DEF validate_channel_order
  <2>9. /\ given.requested = requested /\ given.payload = payload
        /\ given.targets = Ascending(T)
    OBVIOUS
  <2>10. Ascending(T) = a1_targets_from_payload(payload)
    BY DEF T, listed, a1_targets_from_payload
  <2> HIDE DEF given
  <2> QED BY <2>1, <2>2, <2>6, <2>7, <2>8, <2>9, <2>10 DEF A1Fits, validate_a1
<1>3. Fair(Value(given)) /\ Value(given).is = "value" /\ Value(given).value = given
  BY DEF Fair, Value
<1> HIDE DEF given, refused, r
<1> QED
  BY <1>1, <1>2, <1>3 DEF r

\* Whatever a lighting device answers, the daemon and the report accept what is kept of it.
LEMMA AnswerFits ==
  ASSUME NEW role, NEW descriptor,
         descriptor.is = "value" => validate_geometry(descriptor.value.feature_reports),
         NEW node \in Files(Seq(Nat))
  PROVE  LET a1 == TargetList(role, descriptor, node)
         IN /\ a1.is = "none" <=> role # "Enek5130Lighting"
            /\ a1.is # "none" => Fair(a1)
            /\ a1.is = "value" => A1Fits(a1.value)
<1> DEFINE a1 == TargetList(role, descriptor, node)
           lists == {r \in Range(descriptor.value.feature_reports) : r.id = ReportTargetList}
           requested == (CHOOSE r \in lists : TRUE).bytes
           answer == read_a1(node, requested)
<1>1. a1 = IF role # "Enek5130Lighting" THEN NoA1
           ELSE IF descriptor.is # "value" THEN Absent("IncompleteInterface")
           ELSE IF lists = {} THEN Absent("IncompleteInterface")
           ELSE answer
  BY DEF TargetList
<1>2. ASSUME descriptor.is = "value", lists # {}
      PROVE  Fair(answer) /\ answer.is # "none" /\ (answer.is = "value" => A1Fits(answer.value))
  <2>1. requested \in Nat
    <3>1. (CHOOSE r \in lists : TRUE) \in Range(descriptor.value.feature_reports)
      BY <1>2
    <3>2. MaxBytes \in Nat
      BY HidAssumption
    <3> QED BY <1>2, <3>1, <3>2 DEF validate_geometry, Range
  <2>2. MaxPayload \in Nat
    BY HidAssumption
  <2> HIDE DEF requested
  <2>3. \/ Fair(read_bounded(node)) /\ read_bounded(node).is = "error"
        \/ \E p \in Seq(Nat) : read_bounded(node) = Value(p)
    BY DEF Files, read_bounded, Error, Fair, validate_error
  <2>4. \/ Fair(read_feature_report(node, requested))
             /\ read_feature_report(node, requested).is = "error"
        \/ \E p \in Seq(Nat) : read_feature_report(node, requested) = Value(p)
    BY <2>3 DEF read_feature_report, Decoded, Error, Value, Fair, validate_error
  <2>5. \/ Fair(answer) /\ answer.is = "error"
        \/ requested \in 2 .. MaxPayload
             /\ \E p \in Seq(Nat) : answer = parse_a1_payload(requested, p)
    <3>1. CASE requested \notin 2 .. MaxPayload
      <4>1. requested < 2 \/ requested > MaxPayload
        BY <2>1, <2>2, <3>1
      <4>2. answer \in {Malformed, Error("Decode", "Oversize")}
        BY <4>1 DEF read_a1
      <4> HIDE DEF answer
      <4> QED BY <4>2 DEF Malformed, Error, Fair, validate_error
    <3>2. CASE requested \in 2 .. MaxPayload
      <4>1. ~(requested < 2) /\ ~(requested > MaxPayload)
        BY <2>2, <3>2
      <4>2. answer = IF read_feature_report(node, requested).is = "value"
                     THEN parse_a1_payload(requested, read_feature_report(node, requested).value)
                     ELSE read_feature_report(node, requested)
        BY <4>1 DEF read_a1, Decoded
      <4> HIDE DEF answer
      <4> QED BY <2>4, <3>2, <4>2 DEF Value
    <3> QED BY <3>1, <3>2
  <2> HIDE DEF answer
  <2> QED BY <2>5, PayloadFits
<1>3. /\ NoA1.is = "none" /\ Absent("IncompleteInterface").is = "absent"
      /\ Fair(Absent("IncompleteInterface"))
  BY DEF NoA1, Absent, Fair
<1> HIDE DEF answer, requested, lists, a1
<1> QED
  BY <1>1, <1>2, <1>3 DEF a1

-------------------------------------------------------------------------------
(* The profile.                                                                   *)

ProfileFits(profile) == validate_profile(profile) /\ schema_profile(map_profile(profile))

\* What the daemon calls by a name, the report calls by it.
Means(backend, encoding, raw, name) ==
  \/ profile_name_for_raw(encoding, raw) = name
  \/ backend = "Kernel" /\ encoding = "AsciiToken" /\ raw = "performance" /\ name = "Performance"

CurrentIs(read, backend) ==
  /\ Fair(read)
  /\ read.is = "value" =>
       /\ read.value.raw # "odd"
       /\ Means(backend, read.value.encoding, read.value.raw, read.value.profile)

ChoicesAre(read, backend) ==
  /\ Fair(read)
  /\ read.is = "value" =>
       /\ Cardinality(read.value) <= MaxChoices /\ Cardinality(read.value) <= 8
       /\ \A a, b \in read.value : a.command = b.command => a = b
       /\ \A c \in read.value :
            /\ Means(backend, "AsciiToken", c.command, c.profile)
            /\ c.raw # NoRaw => profile_for_gaming_raw(c.raw) = c.profile

\* Only a kernel handler's performance may be less than Turbo.
LEMMA CommandMeans ==
  ASSUME NEW command, NEW turbo \in BOOLEAN, NEW backend, ~turbo => backend = "Kernel"
  PROVE  Means(backend, "AsciiToken", command, profile_for_command(command, turbo))
<1>1. CASE turbo
  BY <1>1 DEF Means, profile_name_for_raw, profile_for_command
<1>2. CASE ~turbo
  BY <1>2 DEF Means, profile_name_for_raw, profile_for_command
<1> QED
  BY <1>1, <1>2

\* The current profile has the name that its text means.
LEMMA CurrentFits ==
  ASSUME NEW file, ReadEnds(file), NEW source, NEW encoding \in {"AsciiToken", "U8Hex"},
         NEW turbo \in BOOLEAN, NEW backend, ~turbo => backend = "Kernel"
  PROVE  CurrentIs(read_profile_current(file, source, encoding, turbo), backend)
<1> DEFINE text == file.text
           name == IF encoding = "U8Hex" THEN profile_for_gaming_raw(text)
                                         ELSE profile_for_command(text, turbo)
           given == [source |-> source, encoding |-> encoding, raw |-> text, profile |-> name]
           r == read_profile_current(file, source, encoding, turbo)
<1>1. Fair(read_text(file))
      /\ (read_text(file).is = "value" => read_text(file).value = text)
  BY TextIsFair
<1>2. r = IF read_text(file).is = "value"
          THEN IF read_text(file).value = "odd" THEN Malformed
               ELSE Value([source |-> source, encoding |-> encoding,
                           raw |-> read_text(file).value,
                           profile |-> IF encoding = "U8Hex"
                                       THEN profile_for_gaming_raw(read_text(file).value)
                                       ELSE profile_for_command(read_text(file).value, turbo)])
          ELSE read_text(file)
  BY DEF read_profile_current, read_value, Decoded
<1>3. Means(backend, encoding, text, name)
  <2>1. CASE encoding = "U8Hex"
    BY <2>1 DEF Means, profile_name_for_raw
  <2>2. CASE encoding = "AsciiToken"
    <3>1. name = profile_for_command(text, turbo)
      BY <2>2
    <3> HIDE DEF name
    <3> QED BY <2>2, <3>1, CommandMeans
  <2> QED BY <2>1, <2>2
<1>4. \/ r = Malformed
      \/ text # "odd" /\ r = Value(given)
      \/ r = read_text(file) /\ r.is # "value"
  BY <1>1, <1>2
<1> HIDE DEF r, text, name
<1>5. CurrentIs(Malformed, backend)
  BY DEF CurrentIs, Malformed, Error, Fair, validate_error
<1>6. text # "odd" => CurrentIs(Value(given), backend)
  BY <1>3 DEF CurrentIs, Value, Fair
<1>7. r = read_text(file) /\ r.is # "value" => CurrentIs(r, backend)
  BY <1>1 DEF CurrentIs
<1>8. CurrentIs(r, backend)
  BY <1>4, <1>5, <1>6, <1>7
<1> QED
  BY <1>8 DEF r

\* The choices are no more than the commands, and each has the name that its command means.
LEMMA ChoicesFit ==
  ASSUME NEW file, ReadEnds(file), file.is = "text" => IsFiniteSet(file.text),
         NEW backend \in {"Kernel", "GamingWmi"}, NEW turbo \in BOOLEAN,
         ~turbo => backend = "Kernel"
  PROVE  ChoicesAre(read_profile_choices(file, backend, turbo), backend)
<1> DEFINE C == file.text
           raw(c) == IF backend = "GamingWmi" THEN GamingRaw[c] ELSE NoRaw
           choice(c) == [command |-> c, profile |-> profile_for_command(c, turbo), raw |-> raw(c)]
           all == {choice(c) : c \in C}
           refused == \/ \E c \in C : profile_for_command(c, turbo) = "none"
                      \/ Cardinality(C) \notin 1 .. MaxChoices
           r == read_profile_choices(file, backend, turbo)
<1>1. /\ Fair(read_text(file))
      /\ read_text(file).is = "value" => file.is = "text" /\ read_text(file).value = C
  BY TextIsFair
<1>2. \/ r = Malformed
      \/ file.is = "text" /\ ~refused /\ r = Value(all)
      \/ r = read_text(file) /\ r.is # "value"
  BY <1>1 DEF read_profile_choices, read_value, Decoded
<1>3. \A c \in C : /\ choice(c).command = c /\ choice(c).raw = raw(c)
                   /\ choice(c).profile = profile_for_command(c, turbo)
  OBVIOUS
<1>4. \A a \in all : \E c \in C : a = choice(c)
  OBVIOUS
<1>5. ASSUME file.is = "text", ~refused
      PROVE  ChoicesAre(Value(all), backend)
  <2>1. IsFiniteSet(C) /\ Cardinality(C) \in 1 .. MaxChoices
    BY <1>5
  <2>2. \A c \in C : profile_for_command(c, turbo) # "none"
    BY <1>5
  <2> DEFINE g == [c \in C |-> choice(c)]
  <2>3. g \in Surjection(C, all)
    <3>1. g \in [C -> all] /\ \A a \in all : \E c \in C : g[c] = a
      OBVIOUS
    <3> HIDE DEF g, all
    <3> QED BY <3>1 DEF Surjection
  <2> HIDE DEF g, all, C
  <2>4. IsFiniteSet(all) /\ Cardinality(all) <= Cardinality(C)
    BY <2>1, <2>3, FS_Surjection
  <2>5. Cardinality(all) <= MaxChoices /\ Cardinality(all) <= 8
    <3>1. Cardinality(all) \in Nat /\ Cardinality(C) \in Nat
      BY <2>1, <2>4, FS_CardinalityType
    <3>2. MaxChoices \in Nat /\ MaxChoices <= 8
      BY DiagnosticsAssumption, ReportAssumption
    <3> HIDE DEF raw
    <3> QED BY <2>1, <2>4, <3>1, <3>2
  <2> HIDE DEF choice
  <2>6. \A a, b \in all : a.command = b.command => a = b
    BY <1>3, <1>4
  <2>7. ASSUME NEW c \in C
        PROVE  /\ Means(backend, "AsciiToken", c, profile_for_command(c, turbo))
               /\ raw(c) # NoRaw => profile_for_gaming_raw(raw(c)) = profile_for_command(c, turbo)
    <3>1. Means(backend, "AsciiToken", c, profile_for_command(c, turbo))
      BY CommandMeans
    <3>2. ASSUME raw(c) # NoRaw
          PROVE  profile_for_gaming_raw(raw(c)) = profile_for_command(c, turbo)
      <4>1. backend = "GamingWmi" /\ turbo /\ raw(c) = GamingRaw[c]
        BY <3>2
      <4>2. c \in KnownProfiles
        BY <2>2 DEF profile_for_command, KnownProfiles
      <4> QED BY <4>1, <4>2 DEF GamingRaw, KnownProfiles, profile_for_gaming_raw,
                                profile_for_command
    <3> QED BY <3>1, <3>2
  <2> HIDE DEF raw
  <2>8. \A a \in all : /\ Means(backend, "AsciiToken", a.command, a.profile)
                       /\ a.raw # NoRaw => profile_for_gaming_raw(a.raw) = a.profile
    <3> SUFFICES ASSUME NEW a \in all
                 PROVE  /\ Means(backend, "AsciiToken", a.command, a.profile)
                        /\ a.raw # NoRaw => profile_for_gaming_raw(a.raw) = a.profile
      OBVIOUS
    <3>1. PICK c \in C : a = choice(c)
      BY <1>4
    <3>2. a.command = c /\ a.raw = raw(c) /\ a.profile = profile_for_command(c, turbo)
      BY <1>3, <3>1
    <3> QED BY <2>7, <3>2
  <2>9. Fair(Value(all)) /\ Value(all).value = all
    BY DEF Value, Fair
  <2> QED BY <2>5, <2>6, <2>8, <2>9 DEF ChoicesAre
<1>6. ChoicesAre(Malformed, backend)
  BY DEF ChoicesAre, Malformed, Error, Fair, validate_error
<1>7. r = read_text(file) /\ r.is # "value" => ChoicesAre(r, backend)
  BY <1>1 DEF ChoicesAre
<1> HIDE DEF r, refused, all, C
<1>8. ChoicesAre(r, backend)
  BY <1>2, <1>5, <1>6, <1>7
<1> QED
  BY <1>8 DEF r

\* A profile whose parts mean what the report takes them for is accepted twice.
LEMMA MeantProfilesFit ==
  ASSUME NEW transport, NEW current, NEW choices,
         Fair(transport), NEW backend,
         transport.is = "value" => transport.value.backend = backend,
         transport.is # "value" => current.is # "value" /\ choices.is # "value",
         CurrentIs(current, backend), ChoicesAre(choices, backend)
  PROVE  ProfileFits([transport |-> transport, current |-> current, choices |-> choices])
<1> DEFINE p == [transport |-> transport, current |-> current, choices |-> choices]
           from == IF transport.is = "value" THEN transport.value.source ELSE "ProfileDiscovery"
           other == IF transport.is = "value" /\ transport.value.backend = "GamingWmi"
                    THEN "KnownGamingWmiCommands" ELSE from
           t == map_observation(transport, from)
           c == map_observation(current, from)
           o == map_observation(choices, other)
           b == Sourced("GamingWmiSupportedProfiles", Absent("NotExposed"))
<1>1. /\ p.transport = transport /\ p.current = current /\ p.choices = choices
      /\ map_profile(p) = [transport |-> t, current |-> c, choices |-> o, bitmap |-> b]
  BY DEF map_profile
<1>2. /\ map_profile(p).transport = t /\ map_profile(p).current = c
      /\ map_profile(p).choices = o /\ map_profile(p).bitmap = b
  BY <1>1
<1>3. Fair(t) /\ t.is = transport.is /\ (t.is = "value" => t.value = transport.value)
  BY MappedIsFair
<1>4. Fair(current) /\ Fair(choices)
  BY DEF CurrentIs, ChoicesAre
<1>5. Fair(c) /\ c.is = current.is /\ (c.is = "value" => c.value = current.value)
  BY <1>4, MappedIsFair
<1>6. Fair(o) /\ o.is = choices.is /\ (o.is = "value" => o.value = choices.value)
  BY <1>4, MappedIsFair
<1>7. Fair(b) /\ b.is # "value"
  BY DEF Sourced, Absent, Fair
<1> HIDE DEF p, t, c, o, b
<1>8. validate_profile(p)
  BY <1>1, <1>4 DEF validate_profile, validate_observation, CurrentIs, ChoicesAre, Fair
<1>9. \A encoding, raw, name :
        Means(backend, encoding, raw, name) /\ t.is = "value"
          => SameMeaning(t, encoding, raw, name)
  BY <1>3 DEF Means, SameMeaning, generic_performance
<1>10. validate_observation(t, Anything) /\ validate_observation(b, Anything)
  BY <1>3, <1>7 DEF validate_observation, Fair, Anything
<1>11. c.is = "value" => /\ t.is = "value" /\ c.value.raw # "odd"
                         /\ SameMeaning(t, c.value.encoding, c.value.raw, c.value.profile)
  BY <1>3, <1>5, <1>9 DEF CurrentIs
<1>12. o.is = "value" =>
         /\ t.is = "value" /\ Cardinality(o.value) <= 8
         /\ \A a \in o.value : /\ SameMeaning(t, "AsciiToken", a.command, a.profile)
                               /\ a.raw # NoRaw => profile_for_gaming_raw(a.raw) = a.profile
  BY <1>3, <1>6, <1>9 DEF ChoicesAre
<1>13. schema_profile(map_profile(p))
  BY <1>2, <1>5, <1>6, <1>10, <1>11, <1>12 DEF schema_profile, validate_observation, Fair
<1> QED
  BY <1>8, <1>13 DEF ProfileFits, p

\* Whatever a machine's files hold, its profile is accepted.
LEMMA ProfileIsAccepted ==
  ASSUME NEW m, DiagnosticFiles(m)
  PROVE  ProfileFits(collect_profile(m))
<1> DEFINE turbo == ~m.unverified /\ performance_is_turbo(discover(m))
           nothing == Absent("NotExposed")
           kernel == [source |-> "KernelPlatformProfile", backend |-> "Kernel"]
           gaming == [source |-> "GamingWmiProfile", backend |-> "GamingWmi"]
           k1 == read_profile_current(m.profile, "KernelPlatformProfile", "AsciiToken", turbo)
           k2 == read_profile_choices(m.offered, "Kernel", turbo)
           g1 == read_profile_current(m.profile_raw, "GamingWmiProfile", "U8Hex", TRUE)
           g2 == read_profile_current(m.profile, "GamingWmiProfile", "AsciiToken", TRUE)
           g3 == read_profile_choices(m.offered, "GamingWmi", TRUE)
<1>1. turbo \in BOOLEAN
  OBVIOUS
<1>2. /\ ReadEnds(m.profile) /\ ReadEnds(m.profile_raw) /\ ReadEnds(m.offered)
      /\ m.offered.is = "text" => IsFiniteSet(m.offered.text)
  BY DEF DiagnosticFiles
<1>3. \/ collect_profile(m) = [transport |-> Value(kernel), current |-> k1, choices |-> k2]
      \/ collect_profile(m) = [transport |-> nothing, current |-> nothing, choices |-> nothing]
      \/ \E x \in {g1, g2}, y \in {g3, nothing} :
           collect_profile(m) = [transport |-> Value(gaming), current |-> x, choices |-> y]
  BY DEF collect_profile
<1> HIDE DEF turbo
<1>4. CurrentIs(k1, "Kernel") /\ ChoicesAre(k2, "Kernel")
  BY <1>1, <1>2, CurrentFits, ChoicesFit
<1>5. CurrentIs(g1, "GamingWmi") /\ CurrentIs(g2, "GamingWmi")
  BY <1>2, CurrentFits
<1>6. ChoicesAre(g3, "GamingWmi")
  BY <1>2, ChoicesFit
<1>7. /\ Fair(nothing) /\ nothing.is # "value"
      /\ \A b : CurrentIs(nothing, b) /\ ChoicesAre(nothing, b)
  BY DEF Absent, Fair, CurrentIs, ChoicesAre
<1>8. /\ Fair(Value(kernel)) /\ Value(kernel).is = "value" /\ Value(kernel).value.backend = "Kernel"
      /\ Fair(Value(gaming)) /\ Value(gaming).is = "value"
      /\ Value(gaming).value.backend = "GamingWmi"
  BY DEF Value, Fair
<1> HIDE DEF k1, k2, g1, g2, g3, nothing, kernel, gaming
<1>9. ProfileFits([transport |-> Value(kernel), current |-> k1, choices |-> k2])
  BY <1>4, <1>8, MeantProfilesFit
<1>10. ProfileFits([transport |-> nothing, current |-> nothing, choices |-> nothing])
  BY <1>7, MeantProfilesFit
<1>11. ASSUME NEW x \in {g1, g2}, NEW y \in {g3, nothing}
       PROVE  ProfileFits([transport |-> Value(gaming), current |-> x, choices |-> y])
  <2>1. CurrentIs(x, "GamingWmi") /\ ChoicesAre(y, "GamingWmi")
    BY <1>5, <1>6, <1>7
  <2> QED BY <1>8, <2>1, MeantProfilesFit
<1> QED
  BY <1>3, <1>9, <1>10, <1>11

-------------------------------------------------------------------------------
(* The fans.                                                                      *)

\* Sensors in the order of their channels, each read fairly.
Sensors(inputs) ==
  \E k \in Nat :
    /\ DOMAIN inputs = 1 .. k
    /\ \A i \in 1 .. k :
         /\ inputs[i] = [channel |-> inputs[i].channel, label |-> inputs[i].label,
                         read |-> inputs[i].read]
         /\ inputs[i].channel \in Int /\ inputs[i].label \notin {"empty", "long"}
         /\ Fair(inputs[i].read)
         /\ inputs[i].read.is = "value" => inputs[i].read = Value(inputs[i].read.value)
    /\ \A i, j \in 1 .. k : i < j => inputs[i].channel < inputs[j].channel

\* What is listed from the least to the greatest is in order.
LEMMA RisingIsInOrder ==
  ASSUME NEW k \in Nat, NEW f, DOMAIN f = 1 .. k, \A i \in 1 .. k : f[i].channel \in Int,
         \A i, j \in 1 .. k : i < j => f[i].channel < f[j].channel
  PROVE  validate_channel_order([i \in DOMAIN f |-> f[i].channel])
<1> DEFINE c == [i \in DOMAIN f |-> f[i].channel]
<1>1. c = [i \in 1 .. k |-> f[i].channel]
  OBVIOUS
<1>2. c \in [1 .. k -> Int]
  BY <1>1
<1>3. Len(c) = k /\ \A i \in 1 .. k : c[i] = f[i].channel
  BY <1>1, <1>2
<1> HIDE DEF c
<1>4. \A i \in 1 .. k - 1 : i \in 1 .. k /\ i + 1 \in 1 .. k /\ i < i + 1
  OBVIOUS
<1>5. validate_channel_order(c)
  BY <1>3, <1>4 DEF validate_channel_order
<1> QED
  BY <1>5 DEF c

\* The sensors of a device are read fairly, and in the order of their channels.
LEMMA InputsFit ==
  ASSUME NEW file, Numbered(file), NEW label
  PROVE  LET inputs == Inputs(file, label)
         IN /\ Sensors(inputs)
            /\ (\A c \in DOMAIN file : label[c] = "none") =>
                 \A i \in DOMAIN inputs : inputs[i].label = "fallback"
<1> DEFINE S == {c \in DOMAIN file : Present(file[c])}
           k == Cardinality(S)
           s == Ascending(S)
           inputs == Inputs(file, label)
<1>1. IsFiniteSet(S) /\ S \subseteq Int
  <2>1. S \in SUBSET DOMAIN file /\ IsFiniteSet(DOMAIN file) /\ S \subseteq Int
    BY DEF Numbered
  <2> HIDE DEF S
  <2> QED BY <2>1, FS_Subset
<1>2. S \subseteq DOMAIN file
  OBVIOUS
<1>3. inputs = [i \in DOMAIN s |-> [channel |-> s[i], label |-> read_label(label[s[i]]),
                                    read |-> read_number(file[s[i]])]]
  BY DEF Inputs
<1> HIDE DEF S, inputs
<1>4. /\ k \in Nat /\ s \in [1 .. k -> S]
      /\ \A i, j \in 1 .. k : i < j => s[i] < s[j]
  BY <1>1, AscendingLists
<1> HIDE DEF s, k
<1>5. DOMAIN inputs = 1 .. k /\ \A i \in 1 .. k : s[i] \in DOMAIN file /\ s[i] \in Int
  BY <1>1, <1>2, <1>3, <1>4
<1>6. \A i \in 1 .. k : inputs[i] = [channel |-> s[i], label |-> read_label(label[s[i]]),
                                     read |-> read_number(file[s[i]])]
  BY <1>3, <1>4
<1>7. \A text : read_label(text) \notin {"empty", "long"}
  BY DEF read_label
<1>8. read_label("none") = "fallback"
  BY DEF read_label
<1>9. \A class : /\ Fair(read_number(class))
                 /\ read_number(class).is = "value" =>
                      read_number(class) = Value(read_number(class).value)
  BY NumberIsFair DEF Value
<1>10. \A i \in 1 .. k :
         /\ inputs[i].channel = s[i] /\ inputs[i].label = read_label(label[s[i]])
         /\ inputs[i].read = read_number(file[s[i]])
         /\ inputs[i] = [channel |-> inputs[i].channel, label |-> inputs[i].label,
                         read |-> inputs[i].read]
  <2> SUFFICES ASSUME NEW i \in 1 .. k
               PROVE  /\ inputs[i].channel = s[i] /\ inputs[i].label = read_label(label[s[i]])
                      /\ inputs[i].read = read_number(file[s[i]])
                      /\ inputs[i] = [channel |-> inputs[i].channel, label |-> inputs[i].label,
                                      read |-> inputs[i].read]
    OBVIOUS
  <2> DEFINE l == read_label(label[s[i]])
             r == read_number(file[s[i]])
  <2>1. inputs[i] = [channel |-> s[i], label |-> l, read |-> r]
    BY <1>6
  <2> HIDE DEF l, r
  <2>2. inputs[i].channel = s[i] /\ inputs[i].label = l /\ inputs[i].read = r
    BY <2>1
  <2> QED BY <2>1, <2>2 DEF l, r
<1>11. Sensors(inputs)
  <2>1. \A i \in 1 .. k :
          inputs[i] = [channel |-> inputs[i].channel, label |-> inputs[i].label,
                       read |-> inputs[i].read]
    BY <1>10
  <2>2. \A i \in 1 .. k :
          /\ inputs[i].channel \in Int /\ inputs[i].label \notin {"empty", "long"}
          /\ Fair(inputs[i].read)
          /\ inputs[i].read.is = "value" => inputs[i].read = Value(inputs[i].read.value)
    BY <1>5, <1>7, <1>9, <1>10
  <2>3. \A i, j \in 1 .. k : i < j => inputs[i].channel < inputs[j].channel
    BY <1>4, <1>10
  <2> QED BY <1>4, <1>5, <2>1, <2>2, <2>3 DEF Sensors
<1>12. (\A c \in DOMAIN file : label[c] = "none") =>
         \A i \in DOMAIN inputs : inputs[i].label = "fallback"
  BY <1>5, <1>8, <1>10
<1> QED
  BY <1>11, <1>12 DEF inputs

\* A device without sensors has such a list as well.
LEMMA NoSensorsFit == Sensors(<<>>)
<1>1. 0 \in Nat /\ DOMAIN <<>> = 1 .. 0 /\ 1 .. 0 = {}
  OBVIOUS
<1> QED
  BY <1>1 DEF Sensors

Mapped(inputs) ==
  [i \in DOMAIN inputs |-> [inputs[i] EXCEPT !.read = map_observation(@, "AcerHwmon")]]

\* The report has the same sensors, with the same labels and channels.
LEMMA InputsAreMapped ==
  ASSUME NEW inputs, Sensors(inputs)
  PROVE  /\ DOMAIN Mapped(inputs) = DOMAIN inputs
         /\ \A i \in DOMAIN inputs :
              /\ Mapped(inputs)[i].channel = inputs[i].channel
              /\ Mapped(inputs)[i].label = inputs[i].label
              /\ Mapped(inputs)[i].read = map_observation(inputs[i].read, "AcerHwmon")
              /\ Fair(Mapped(inputs)[i].read) /\ Mapped(inputs)[i].read.source = "AcerHwmon"
              /\ Mapped(inputs)[i].read.is = inputs[i].read.is
              /\ inputs[i].read.is = "value" =>
                   Mapped(inputs)[i].read.value = inputs[i].read.value
<1>1. DOMAIN Mapped(inputs) = DOMAIN inputs
  BY DEF Mapped
<1>2. \A i \in DOMAIN inputs :
        /\ inputs[i] = [channel |-> inputs[i].channel, label |-> inputs[i].label,
                        read |-> inputs[i].read]
        /\ Fair(inputs[i].read)
  BY DEF Sensors
<1>3. ASSUME NEW i \in DOMAIN inputs
      PROVE  /\ Mapped(inputs)[i].channel = inputs[i].channel
             /\ Mapped(inputs)[i].label = inputs[i].label
             /\ Mapped(inputs)[i].read = map_observation(inputs[i].read, "AcerHwmon")
  <2> DEFINE r == map_observation(inputs[i].read, "AcerHwmon")
  <2>1. Mapped(inputs)[i] = [inputs[i] EXCEPT !.read = r]
    BY DEF Mapped
  <2> HIDE DEF r
  <2>2. [inputs[i] EXCEPT !.read = r]
          = [channel |-> inputs[i].channel, label |-> inputs[i].label, read |-> r]
    BY <1>2
  <2>3. Mapped(inputs)[i].read = r /\ Mapped(inputs)[i].channel = inputs[i].channel
        /\ Mapped(inputs)[i].label = inputs[i].label
    BY <2>1, <2>2
  <2> QED BY <2>3 DEF r
<1> QED
  BY <1>1, <1>2, <1>3, MappedIsFair

\* The daemon refuses sensors only for a label or a temperature, the report only for a label.
LEMMA InputsAreAccepted ==
  ASSUME NEW inputs, Sensors(inputs)
  PROVE  LET good == \A i \in DOMAIN inputs : inputs[i].label # "control"
             cool == \A i \in DOMAIN inputs : inputs[i].read # Value("hot")
             tame == \A i \in DOMAIN inputs : inputs[i].label \notin {"control", "slash"}
         IN /\ good => validate_inputs(inputs, LAMBDA v : TRUE)
            /\ good /\ cool => validate_inputs(inputs, LAMBDA v : v # "hot")
            /\ tame => schema_inputs(Mapped(inputs), Anything)
            /\ validate_inputs(inputs, LAMBDA v : v # "hot") => good /\ cool
            /\ tame /\ cool => schema_inputs(Mapped(inputs), LAMBDA v : v # "hot")
<1> DEFINE o == Mapped(inputs)
           order(x) == validate_channel_order([i \in DOMAIN x |-> x[i].channel])
<1>1. PICK k \in Nat :
        /\ DOMAIN inputs = 1 .. k
        /\ \A i \in 1 .. k :
             /\ inputs[i].channel \in Int /\ inputs[i].label \notin {"empty", "long"}
             /\ Fair(inputs[i].read)
             /\ inputs[i].read.is = "value" => inputs[i].read = Value(inputs[i].read.value)
        /\ \A i, j \in 1 .. k : i < j => inputs[i].channel < inputs[j].channel
  BY DEF Sensors
<1>2. /\ DOMAIN o = DOMAIN inputs
      /\ \A i \in DOMAIN inputs :
           /\ o[i].channel = inputs[i].channel /\ o[i].label = inputs[i].label
           /\ Fair(o[i].read) /\ o[i].read.source = "AcerHwmon"
           /\ o[i].read.is = inputs[i].read.is
           /\ inputs[i].read.is = "value" => o[i].read.value = inputs[i].read.value
  BY InputsAreMapped
<1> HIDE DEF o
<1>3. order(inputs) /\ order(o)
  <2>1. order(inputs)
    BY <1>1, RisingIsInOrder
  <2>2. [i \in DOMAIN o |-> o[i].channel] = [i \in DOMAIN inputs |-> inputs[i].channel]
    BY <1>2
  <2> QED BY <2>1, <2>2
<1> HIDE DEF order
<1>4. \A i \in DOMAIN inputs : inputs[i].read.is = "value" /\ inputs[i].read.value = "hot"
                                 <=> inputs[i].read = Value("hot")
  BY <1>1 DEF Value
<1>5. \A i \in DOMAIN inputs :
        /\ validate_observation(inputs[i].read, LAMBDA v : TRUE)
        /\ validate_observation(inputs[i].read, LAMBDA v : v # "hot")
             <=> inputs[i].read # Value("hot")
  BY <1>1, <1>4 DEF validate_observation, Fair
<1>6. \A i \in DOMAIN inputs :
        /\ validate_observation(o[i].read, Anything)
        /\ inputs[i].read # Value("hot") => validate_observation(o[i].read, LAMBDA v : v # "hot")
  BY <1>2, <1>4 DEF validate_observation, Fair, Anything
<1>7. ASSUME NEW i \in DOMAIN inputs
      PROVE  /\ validate_label(inputs[i].label) <=> inputs[i].label # "control"
             /\ IsText(o[i].label) <=> inputs[i].label \notin {"control", "slash"}
  BY <1>1, <1>2 DEF validate_label, IsText
<1>8. \A i \in DOMAIN inputs : o[i].read.source = "AcerHwmon"
  BY <1>2
<1>9. order(inputs) = validate_channel_order([i \in DOMAIN inputs |-> inputs[i].channel])
      /\ order(o) = validate_channel_order([i \in DOMAIN o |-> o[i].channel])
  BY DEF order
<1>10. /\ (\A i \in DOMAIN inputs : inputs[i].label # "control")
            => validate_inputs(inputs, LAMBDA v : TRUE)
       /\ (\A i \in DOMAIN inputs : inputs[i].label # "control" /\ inputs[i].read # Value("hot"))
            <=> validate_inputs(inputs, LAMBDA v : v # "hot")
  BY <1>3, <1>5, <1>7, <1>9 DEF validate_inputs
<1>11. /\ (\A i \in DOMAIN inputs : inputs[i].label \notin {"control", "slash"})
            => schema_inputs(o, Anything)
       /\ (\A i \in DOMAIN inputs : /\ inputs[i].label \notin {"control", "slash"}
                                    /\ inputs[i].read # Value("hot"))
            => schema_inputs(o, LAMBDA v : v # "hot")
  BY <1>2, <1>3, <1>6, <1>7, <1>8, <1>9 DEF schema_inputs
<1> QED
  BY <1>10, <1>11 DEF o

\* Two channels of one kind, or none.
BothChannels(channels) ==
  \E source \in DOMAIN FanUnit : \E setpoint, modes :
    /\ channels = Channels(source, FanUnit[source], setpoint, modes)
    /\ FanUnit[source] = "Percent" => \A f \in Fan : setpoint[f] # "hot"

\* The channels are those of one device: a kernel device's or the firmware's.
LEMMA ChannelsAreOfOne ==
  ASSUME NEW m, DiagnosticFiles(m)
  PROVE  LET channels == FanChannels(m, discover_acer_hwmon(m))
         IN channels = <<>> \/ BothChannels(channels)
<1> DEFINE n == discover_acer_hwmon(m)
           duty == m.hwmon[n].duty
           kmode == m.hwmon[n].mode
           kernel == Channels("AcerHwmon", "Pwm255", duty, kmode)
           diagnostic == Channels("GamingWmiFan", "Percent", m.diagnostic.speed, m.diagnostic.mode)
           gaming == Channels("GamingWmiFan", "Percent", m.fans.speed, m.fans.mode)
           channels == FanChannels(m, n)
<1>1. channels \in {kernel, diagnostic, <<>>} \/ (channels = gaming /\ m.fans # NoDevice)
  <2> DEFINE complete == n # NoDevice /\ \A f \in Fan : Present(kmode[f])
             modes == \A f \in Fan : Present(m.fans.mode[f])
             partial == n # NoDevice /\ \E f \in Fan : Present(duty[f]) \/ Present(kmode[f])
             plain == m.fans # NoDevice /\ modes
  <2> HIDE DEF n
  <2>1. channels = CASE complete -> kernel
                     [] ~complete /\ plain -> IF m.diagnostics THEN diagnostic ELSE gaming
                     [] ~complete /\ ~plain /\ partial -> kernel
                     [] ~complete /\ ~plain /\ ~partial -> IF m.diagnostics THEN diagnostic ELSE <<>>
    BY DEF FanChannels
  <2> HIDE DEF complete, modes, partial, kernel, diagnostic, gaming, channels
  <2> QED BY <2>1
<1> HIDE DEF channels, n
<1>2. \A f \in Fan : m.diagnostic.speed[f] # "hot" /\ (m.fans # NoDevice => m.fans.speed[f] # "hot")
  BY DEF DiagnosticFiles
<1>3. /\ DOMAIN FanUnit = {"AcerHwmon", "GamingWmiFan"}
      /\ FanUnit["AcerHwmon"] = "Pwm255" /\ FanUnit["GamingWmiFan"] = "Percent"
  BY DEF FanUnit
<1>4. /\ BothChannels(kernel) /\ BothChannels(diagnostic)
      /\ m.fans # NoDevice => BothChannels(gaming)
  <2> HIDE DEF duty, kmode
  <2>1. BothChannels(kernel)
    BY <1>3 DEF BothChannels
  <2>2. BothChannels(diagnostic)
    BY <1>2, <1>3 DEF BothChannels
  <2>3. m.fans # NoDevice => BothChannels(gaming)
    BY <1>2, <1>3 DEF BothChannels
  <2> QED BY <2>1, <2>2, <2>3
<1> HIDE DEF kernel, diagnostic, gaming
<1>5. channels = <<>> \/ BothChannels(channels)
  BY <1>1, <1>4
<1> QED
  BY <1>5 DEF channels, n

MappedChannel(c) ==
  [channel |-> c.channel, unit |-> c.unit, setpoint |-> map_observation(c.setpoint, c.source),
   mode |-> map_observation(c.mode, c.source)]
MappedChannels(channels) == [i \in DOMAIN channels |-> MappedChannel(channels[i])]

\* The daemon and the report accept the channels of one device.
LEMMA ChannelsAreAccepted ==
  ASSUME NEW channels, channels = <<>> \/ BothChannels(channels)
  PROVE  LET pwm == MappedChannels(channels)
         IN /\ validate_channels(channels) /\ validate_channels(pwm)
            /\ \A i \in DOMAIN pwm : /\ pwm[i].mode.source = pwm[i].setpoint.source
                                     /\ pwm[i].setpoint.source \in DOMAIN FanUnit
                                     /\ pwm[i].unit = FanUnit[pwm[i].setpoint.source]
<1> DEFINE pwm == MappedChannels(channels)
<1>1. CASE channels = <<>>
  <2>1. DOMAIN channels = 1 .. 0 /\ DOMAIN pwm = 1 .. 0 /\ 1 .. 0 = {} /\ 0 \in Nat
    BY <1>1 DEF MappedChannels
  <2> HIDE DEF pwm
  <2>2. /\ validate_channel_order([i \in DOMAIN channels |-> channels[i].channel])
        /\ validate_channel_order([i \in DOMAIN pwm |-> pwm[i].channel])
    BY <2>1, RisingIsInOrder
  <2>3. validate_channels(channels) /\ validate_channels(pwm)
    BY <2>1, <2>2 DEF validate_channels
  <2> QED BY <2>1, <2>3 DEF pwm
<1>2. CASE BothChannels(channels)
  <2>1. PICK source \in DOMAIN FanUnit : \E setpoint, modes :
          /\ channels = Channels(source, FanUnit[source], setpoint, modes)
          /\ FanUnit[source] = "Percent" => \A f \in Fan : setpoint[f] # "hot"
    BY <1>2 DEF BothChannels
  <2>15. PICK setpoint, modes :
          /\ channels = Channels(source, FanUnit[source], setpoint, modes)
          /\ FanUnit[source] = "Percent" => \A f \in Fan : setpoint[f] # "hot"
    BY <2>1
  <2> DEFINE unit == FanUnit[source]
             s(f) == read_number(setpoint[f])
             o(f) == read_number(modes[f])
  <2>2. channels = [f \in Fan |-> [channel |-> f, source |-> source, unit |-> unit,
                                   setpoint |-> s(f), mode |-> o(f)]]
    BY <2>15 DEF Channels
  <2>3. \A f \in Fan :
          /\ Fair(s(f)) /\ Fair(o(f))
          /\ s(f).is = "value" => s(f).value = setpoint[f]
    BY NumberIsFair DEF Value
  <2> HIDE DEF unit, s, o, pwm
  <2>4. \A f \in Fan : /\ channels[f].channel = f /\ channels[f].source = source
                       /\ channels[f].unit = unit /\ channels[f].setpoint = s(f)
                       /\ channels[f].mode = o(f)
    BY <2>2
  <2>5. DOMAIN channels = Fan /\ Fan = 1 .. 2 /\ 2 \in Nat /\ \A f \in Fan : f \in Int
    BY <2>2 DEF Fan
  <2> DEFINE ms(f) == map_observation(s(f), source)
             mo(f) == map_observation(o(f), source)
  <2>6. \A f \in Fan : pwm[f] = [channel |-> f, unit |-> unit, setpoint |-> ms(f), mode |-> mo(f)]
    BY <2>4, <2>5 DEF pwm, MappedChannels, MappedChannel
  <2>7. DOMAIN pwm = Fan
    BY <2>5 DEF pwm, MappedChannels
  <2>8. \A f \in Fan :
          /\ Fair(ms(f)) /\ Fair(mo(f)) /\ ms(f).source = source /\ mo(f).source = source
          /\ ms(f).is = s(f).is
          /\ s(f).is = "value" => ms(f).value = s(f).value
    BY <2>3, MappedIsFair
  <2> HIDE DEF ms, mo
  <2>9. \A f \in Fan : /\ pwm[f].channel = f /\ pwm[f].unit = unit
                       /\ pwm[f].setpoint = ms(f) /\ pwm[f].mode = mo(f)
    <3> SUFFICES ASSUME NEW f \in Fan
                 PROVE  /\ pwm[f].channel = f /\ pwm[f].unit = unit
                        /\ pwm[f].setpoint = ms(f) /\ pwm[f].mode = mo(f)
      OBVIOUS
    <3>1. pwm[f] = [channel |-> f, unit |-> unit, setpoint |-> ms(f), mode |-> mo(f)]
      BY <2>6
    <3> QED BY <3>1
  <2>10. /\ validate_channel_order([i \in DOMAIN channels |-> channels[i].channel])
         /\ validate_channel_order([i \in DOMAIN pwm |-> pwm[i].channel])
    <3>1. \A c : /\ DOMAIN c = Fan
                 /\ \A f \in Fan : c[f].channel = f
                 => validate_channel_order([i \in DOMAIN c |-> c[i].channel])
      <4> SUFFICES ASSUME NEW c, DOMAIN c = Fan, \A f \in Fan : c[f].channel = f
                   PROVE  validate_channel_order([i \in DOMAIN c |-> c[i].channel])
        OBVIOUS
      <4>1. /\ DOMAIN c = 1 .. 2 /\ \A i \in 1 .. 2 : c[i].channel \in Int
            /\ \A i, j \in 1 .. 2 : i < j => c[i].channel < c[j].channel
        BY <2>5
      <4> QED BY <2>5, <4>1, RisingIsInOrder
    <3> QED BY <2>4, <2>5, <2>7, <2>9, <3>1
  <2>11. unit = "Percent" => \A f \in Fan : setpoint[f] # "hot"
    BY <2>15 DEF unit
  <2>12. validate_channels(channels)
    <3>1. \A f \in Fan :
            /\ validate_observation(channels[f].setpoint, LAMBDA v :
                 channels[f].unit = "Percent" => v # "hot")
            /\ validate_observation(channels[f].mode, LAMBDA v : TRUE)
      <4> SUFFICES ASSUME NEW f \in Fan
                   PROVE  /\ validate_observation(channels[f].setpoint, LAMBDA v :
                               channels[f].unit = "Percent" => v # "hot")
                          /\ validate_observation(channels[f].mode, LAMBDA v : TRUE)
        OBVIOUS
      <4>1. /\ channels[f].unit = unit /\ Fair(channels[f].setpoint) /\ Fair(channels[f].mode)
            /\ channels[f].setpoint.is = "value" /\ unit = "Percent" =>
                 channels[f].setpoint.value # "hot"
        BY <2>3, <2>4, <2>11
      <4> QED BY <4>1 DEF validate_observation, Fair
    <3> QED BY <2>5, <2>10, <3>1 DEF validate_channels
  <2>13. validate_channels(pwm)
    <3>1. \A f \in Fan :
            /\ validate_observation(pwm[f].setpoint, LAMBDA v :
                 pwm[f].unit = "Percent" => v # "hot")
            /\ validate_observation(pwm[f].mode, LAMBDA v : TRUE)
      <4> SUFFICES ASSUME NEW f \in Fan
                   PROVE  /\ validate_observation(pwm[f].setpoint, LAMBDA v :
                               pwm[f].unit = "Percent" => v # "hot")
                          /\ validate_observation(pwm[f].mode, LAMBDA v : TRUE)
        OBVIOUS
      <4>1. /\ pwm[f].unit = unit /\ Fair(pwm[f].setpoint) /\ Fair(pwm[f].mode)
            /\ pwm[f].setpoint.is = "value" /\ unit = "Percent" => pwm[f].setpoint.value # "hot"
        BY <2>3, <2>8, <2>9, <2>11
      <4> QED BY <4>1 DEF validate_observation, Fair
    <3> QED BY <2>7, <2>10, <3>1 DEF validate_channels
  <2>14. \A i \in DOMAIN pwm : /\ pwm[i].mode.source = pwm[i].setpoint.source
                               /\ pwm[i].setpoint.source \in DOMAIN FanUnit
                               /\ pwm[i].unit = FanUnit[pwm[i].setpoint.source]
    BY <2>1, <2>7, <2>8, <2>9 DEF unit
  <2> QED BY <2>12, <2>13, <2>14 DEF pwm
<1> QED
  BY <1>1, <1>2

\* The device that is found is there and is an Acer one.
LEMMA DeviceIsThere ==
  ASSUME NEW m, discover_acer_hwmon(m) # NoDevice
  PROVE  LET n == discover_acer_hwmon(m)
         IN /\ n \in Numbers /\ m.hwmon[n] # NoDevice
            /\ m.hwmon[n].name = "acer" /\ m.hwmon[n].driver # "foreign"
<1> DEFINE best == {n \in Candidates(m) : \A o \in Candidates(m) : Rank(m, o) <= Rank(m, n)}
<1>1. discover_acer_hwmon(m) \in best
  <2> HIDE DEF best
  <2>1. discover_acer_hwmon(m) = IF \E n \in best : best = {n}
                                 THEN CHOOSE n \in best : TRUE ELSE NoDevice
    BY DEF discover_acer_hwmon, best
  <2> QED BY <2>1
<1> QED
  BY <1>1 DEF Candidates

FansFit(fans) ==
  /\ validate_fans(fans) \/ BadReading(fans)
  /\ validate_fans(fans) => schema_fans(map_fans(fans)) \/ BadLabel(fans)

\* Whatever a machine's files hold, only a temperature or its label is refused.
LEMMA FansAreAccepted ==
  ASSUME NEW m, DiagnosticFiles(m)
  PROVE  FansFit(collect_fans(m))
<1> DEFINE n == discover_acer_hwmon(m)
           control == FanControlRead(m)
           channels == FanChannels(m, n)
           rpm == IF n = NoDevice THEN <<>> ELSE Inputs(m.rpm, [c \in DOMAIN m.rpm |-> "none"])
           temps == IF n = NoDevice THEN <<>> ELSE Inputs(m.hwmon[n].temp, m.hwmon[n].label)
           fans == collect_fans(m)
           mcontrol == map_observation(control, "FanDiscovery")
<1>1. /\ fans.control = control /\ fans.channels = channels
      /\ fans.rpm = rpm /\ fans.temperatures = temps
  BY DEF collect_fans
<1>2. Fair(control)
  BY DEF FanControlRead, Error, Absent, Value, Fair, validate_error
<1>3. Sensors(rpm) /\ \A i \in DOMAIN rpm : rpm[i].label = "fallback"
  <2>1. Numbered(m.rpm)
    BY DEF DiagnosticFiles
  <2>2. \A c \in DOMAIN m.rpm : [x \in DOMAIN m.rpm |-> "none"][c] = "none"
    OBVIOUS
  <2>3. LET inputs == Inputs(m.rpm, [c \in DOMAIN m.rpm |-> "none"])
        IN Sensors(inputs) /\ \A i \in DOMAIN inputs : inputs[i].label = "fallback"
    BY <2>1, <2>2, InputsFit
  <2> HIDE DEF n
  <2> QED BY <2>3, NoSensorsFit
<1>4. Sensors(temps)
  <2>1. CASE n = NoDevice
    BY <2>1, NoSensorsFit
  <2>2. CASE n # NoDevice
    <3>1. n \in Numbers /\ m.hwmon[n] # NoDevice
      BY <2>2, DeviceIsThere
    <3>2. Numbered(m.hwmon[n].temp)
      BY <3>1 DEF DiagnosticFiles
    <3> HIDE DEF n
    <3> QED BY <2>2, <3>2, InputsFit
  <2> QED BY <2>1, <2>2
<1>5. channels = <<>> \/ BothChannels(channels)
  BY ChannelsAreOfOne
<1>6. Fair(mcontrol)
  BY <1>2, MappedIsFair
<1> HIDE DEF control, channels, rpm, temps, n, fans, mcontrol
<1>7. /\ map_fans(fans).control = mcontrol /\ map_fans(fans).pwm = MappedChannels(channels)
      /\ map_fans(fans).rpm = Mapped(rpm) /\ map_fans(fans).temperatures = Mapped(temps)
  <2>1. map_fans(fans).control = mcontrol
    BY <1>1 DEF map_fans, mcontrol
  <2>2. map_fans(fans).pwm = MappedChannels(channels)
    BY <1>1 DEF map_fans, MappedChannels, MappedChannel
  <2>3. map_fans(fans).rpm = Mapped(rpm) /\ map_fans(fans).temperatures = Mapped(temps)
    BY <1>1 DEF map_fans, Mapped
  <2> QED BY <2>1, <2>2, <2>3
<1> DEFINE good == \A i \in DOMAIN temps : temps[i].label # "control"
           cool == \A i \in DOMAIN temps : temps[i].read # Value("hot")
           tame == \A i \in DOMAIN temps : temps[i].label \notin {"control", "slash"}
<1>8. /\ validate_channels(channels)
      /\ validate_channels(MappedChannels(channels))
      /\ \A i \in DOMAIN MappedChannels(channels) :
           LET c == MappedChannels(channels)[i]
           IN /\ c.mode.source = c.setpoint.source
              /\ c.setpoint.source \in DOMAIN FanUnit /\ c.unit = FanUnit[c.setpoint.source]
  BY <1>5, ChannelsAreAccepted
<1>9. validate_inputs(rpm, LAMBDA v : TRUE) /\ schema_inputs(Mapped(rpm), Anything)
  BY <1>3, InputsAreAccepted
<1>10. /\ good /\ cool => validate_inputs(temps, LAMBDA v : v # "hot")
       /\ validate_inputs(temps, LAMBDA v : v # "hot") => good /\ cool
       /\ tame /\ cool => schema_inputs(Mapped(temps), LAMBDA v : v # "hot")
  BY <1>4, InputsAreAccepted
<1>11. /\ validate_observation(control, LAMBDA c : TRUE)
       /\ validate_observation(mcontrol, Anything)
  BY <1>2, <1>6 DEF validate_observation, Fair, Anything
<1>12. (good /\ cool) \/ BadReading(fans)
  BY <1>1 DEF BadReading
<1>13. good => tame \/ BadLabel(fans)
  BY <1>1 DEF BadLabel
<1> HIDE DEF good, cool, tame
<1>14. validate_fans(fans) <=> validate_inputs(temps, LAMBDA v : v # "hot")
  BY <1>1, <1>8, <1>9, <1>11 DEF validate_fans
<1>15. schema_inputs(Mapped(temps), LAMBDA v : v # "hot") => schema_fans(map_fans(fans))
  BY <1>7, <1>8, <1>9, <1>11 DEF schema_fans
<1> QED
  BY <1>10, <1>12, <1>13, <1>14, <1>15 DEF FansFit, fans

-------------------------------------------------------------------------------
(* The platform's settings.                                                       *)

PlatformFits(platform) == validate_platform(platform) /\ schema_platform(map_platform(platform))

\* A setting that is taken as it is.
SettingFits(read) ==
  /\ Fair(read)
  /\ read.is = "value" => validate_setting(read.value)

FieldFits(field, i) ==
  /\ field = [name |-> FieldOrder[i], source |-> FieldSource[i], exposed |-> field.exposed,
              expected |-> field.expected, read |-> field.read]
  /\ SettingFits(field.read)

\* A setting is decoded to one that is taken, or to an error.
LEMMA SettingsFit ==
  /\ SettingFits(Malformed) /\ SettingFits(InvalidRaw)
  /\ \A reason : SettingFits(Absent(reason))
  /\ \A on : SettingFits(Flag(on))
  /\ \A t \in {0, 10, 20, 30} : SettingFits(Threshold(t))
  /\ \A enabled : \A brightness \in Nat :
       brightness <= 100 => SettingFits(Logo(enabled, brightness))
<1>1. SettingFits(Malformed) /\ SettingFits(InvalidRaw)
  BY DEF SettingFits, Malformed, Error, InvalidRaw, Fair, validate_error
<1>2. \A reason : SettingFits(Absent(reason))
  BY DEF SettingFits, Absent, Fair
<1>3. \A on : SettingFits(Flag(on))
  BY DEF SettingFits, Flag, Value, Fair, validate_setting
<1>4. \A t \in {0, 10, 20, 30} : SettingFits(Threshold(t))
  BY DEF SettingFits, Threshold, Value, Fair, validate_setting
<1>5. \A enabled : \A brightness \in Nat :
        brightness <= 100 => SettingFits(Logo(enabled, brightness))
  BY DEF SettingFits, Logo, Value, Fair, validate_setting
<1> QED
  BY <1>1, <1>2, <1>3, <1>4, <1>5

\* Each decoder gives a setting that is taken, or an error; only a brightness must be a number.
LEMMA DecodersFit ==
  ASSUME NEW text
  PROVE  /\ SettingFits(decode_usb_raw(text)) /\ SettingFits(decode_usb_text(text))
         /\ SettingFits(decode_timeout_raw(text)) /\ SettingFits(decode_boot_sound_raw(text))
         /\ SettingFits(decode_lcd_raw(text)) /\ SettingFits(decode_bool_text(text))
         /\ text # <<>> /\ text[1] \in Nat /\ text[2] \in Nat =>
              SettingFits(decode_logo_raw(text)) /\ SettingFits(decode_logo_text(text))
         /\ text = <<>> => SettingFits(decode_logo_raw(text)) /\ SettingFits(decode_logo_text(text))
<1>1. SettingFits(decode_usb_raw(text)) /\ SettingFits(decode_usb_text(text))
  <2>1. decode_usb_raw(text) \in {Malformed, InvalidRaw}
          \/ \E t \in {0, 10, 20, 30} : decode_usb_raw(text) = Threshold(t)
    BY DEF decode_usb_raw, ScalarOrMalformed
  <2>2. decode_usb_text(text) = Malformed
          \/ \E t \in {0, 10, 20, 30} : decode_usb_text(text) = Threshold(t)
    BY DEF decode_usb_text, ScalarOrMalformed
  <2> QED BY <2>1, <2>2, SettingsFit
<1>2. /\ SettingFits(decode_timeout_raw(text)) /\ SettingFits(decode_boot_sound_raw(text))
      /\ SettingFits(decode_lcd_raw(text)) /\ SettingFits(decode_bool_text(text))
  <2>1. SettingFits(decode_timeout_raw(text))
    BY SettingsFit DEF decode_timeout_raw, ScalarOrMalformed
  <2>2. SettingFits(decode_boot_sound_raw(text))
    BY SettingsFit DEF decode_boot_sound_raw, ScalarOrMalformed
  <2>3. SettingFits(decode_lcd_raw(text))
    BY SettingsFit DEF decode_lcd_raw, ScalarOrMalformed
  <2>4. SettingFits(decode_bool_text(text))
    BY SettingsFit DEF decode_bool_text, ScalarOrMalformed
  <2> QED BY <2>1, <2>2, <2>3, <2>4
<1>3. ASSUME text # <<>>, text[1] \in Nat, text[2] \in Nat
      PROVE  SettingFits(decode_logo_raw(text)) /\ SettingFits(decode_logo_text(text))
  <2>1. decode_logo_raw(text) = InvalidRaw
          \/ (text[2] <= 100 /\ decode_logo_raw(text) = Logo(text[3] = 1, text[2]))
    BY <1>3 DEF decode_logo_raw, ScalarOrMalformed
  <2>2. decode_logo_text(text) = Malformed
          \/ (text[1] <= 100 /\ decode_logo_text(text) = Logo(text[2] = 1, text[1]))
    BY <1>3 DEF decode_logo_text, ScalarOrMalformed
  <2> QED BY <1>3, <2>1, <2>2, SettingsFit
<1>4. text = <<>> => SettingFits(decode_logo_raw(text)) /\ SettingFits(decode_logo_text(text))
  BY SettingsFit DEF decode_logo_raw, decode_logo_text, ScalarOrMalformed
<1> QED
  BY <1>1, <1>2, <1>3, <1>4

\* The battery's settings are accepted, whatever the raw or the plain file holds.
LEMMA BatteryFits ==
  ASSUME NEW i \in 1 .. 2, NEW raw, ReadEnds(raw), NEW own, ReadEnds(own)
  PROVE  FieldFits(platform_battery_field(i, read_text(raw), own), i)
<1> DEFINE f == platform_battery_field(i, read_text(raw), own)
           Bit(text) == ScalarOrMalformed(text,
                          IF i \in text[1] THEN Flag(text[i + 1] # 0) ELSE Absent("NotApplicable"))
<1>1. \A text : SettingFits(Bit(text))
  BY SettingsFit DEF ScalarOrMalformed
<1>2. /\ Fair(read_text(raw)) /\ Fair(read_text(own))
  BY TextIsFair
<1>3. FieldSource[i] = "AsenseBattery"
  BY DEF FieldSource
<1>4. /\ f.read = IF read_text(raw).is = "absent" /\ IsFile(own)
                  THEN read_value(own, decode_bool_text)
                  ELSE Decoded(read_text(raw), LAMBDA text : Bit(text))
      /\ f = [name |-> FieldOrder[i], source |-> "AsenseBattery", exposed |-> f.exposed,
              expected |-> f.expected, read |-> f.read]
  BY DEF platform_battery_field
<1> HIDE DEF f, Bit
<1>5. SettingFits(read_value(own, decode_bool_text))
  <2>1. read_value(own, decode_bool_text) = IF read_text(own).is = "value"
                                            THEN decode_bool_text(read_text(own).value)
                                            ELSE read_text(own)
    BY DEF read_value, Decoded
  <2> QED BY <1>2, <2>1, DecodersFit DEF SettingFits
<1>6. SettingFits(Decoded(read_text(raw), LAMBDA text : Bit(text)))
  BY <1>1, <1>2 DEF Decoded, SettingFits
<1>7. SettingFits(f.read)
  BY <1>4, <1>5, <1>6
<1>8. FieldFits(f, i)
  BY <1>3, <1>4, <1>7 DEF FieldFits
<1> QED
  BY <1>8 DEF f

\* The other settings are accepted, whatever the raw or the plain file holds.
LEMMA OtherFits ==
  ASSUME NEW i, NEW raw, NEW own, NEW raw_read, SettingFits(raw_read),
         NEW own_read, SettingFits(own_read)
  PROVE  FieldFits(platform_field(i, raw, own, raw_read, own_read), i)
<1> DEFINE f == platform_field(i, raw, own, raw_read, own_read)
<1>1. /\ f.read \in {raw_read, own_read, Absent("NotExposed")}
      /\ f = [name |-> FieldOrder[i], source |-> FieldSource[i], exposed |-> f.exposed,
              expected |-> f.expected, read |-> f.read]
  BY DEF platform_field
<1> HIDE DEF f
<1>2. SettingFits(f.read)
  BY <1>1, SettingsFit
<1>3. FieldFits(f, i)
  BY <1>1, <1>2 DEF FieldFits
<1> QED
  BY <1>3 DEF f

\* Seven settings in order are accepted twice.
LEMMA FieldsFit ==
  ASSUME NEW platform, Fair(platform.transport),
         Len(platform.fields) = 7, DOMAIN platform.fields = 1 .. 7,
         \A i \in 1 .. 7 : FieldFits(platform.fields[i], i)
  PROVE  PlatformFits(platform)
<1> DEFINE fields == platform.fields
           r(i) == map_observation(fields[i].read, fields[i].source)
           o == map_platform(platform)
           t == map_observation(platform.transport, "PlatformDiscovery")
<1>1. Len(FieldOrder) = 7 /\ DOMAIN FieldOrder = 1 .. 7
  BY DEF FieldOrder
<1>2. /\ o.transport = t
      /\ o.fields = [i \in 1 .. 7 |-> [fields[i] EXCEPT !.read = r(i)]]
  BY DEF map_platform
<1>3. \A i \in 1 .. 7 : /\ fields[i].name = FieldOrder[i] /\ fields[i].source = FieldSource[i]
                        /\ SettingFits(fields[i].read)
  BY DEF FieldFits
<1>4. \A i \in 1 .. 7 : /\ Fair(r(i)) /\ r(i).source = FieldSource[i]
                        /\ r(i).is = fields[i].read.is
                        /\ r(i).is = "value" => r(i).value = fields[i].read.value
  BY <1>3, MappedIsFair DEF SettingFits
<1> HIDE DEF o, r, t
<1>5. ASSUME NEW i \in 1 .. 7
      PROVE  /\ o.fields[i].name = FieldOrder[i] /\ o.fields[i].source = FieldSource[i]
             /\ o.fields[i].read = r(i)
  <2>1. o.fields[i] = [fields[i] EXCEPT !.read = r(i)]
    BY <1>2
  <2>2. fields[i] = [name |-> FieldOrder[i], source |-> FieldSource[i],
                     exposed |-> fields[i].exposed, expected |-> fields[i].expected,
                     read |-> fields[i].read]
    BY DEF FieldFits
  <2> QED BY <2>1, <2>2
<1>6. DOMAIN o.fields = 1 .. 7 /\ Len(o.fields) = 7
  <2> DEFINE S == {[fields[i] EXCEPT !.read = r(i)] : i \in 1 .. 7}
  <2>1. o.fields \in [1 .. 7 -> S]
    BY <1>2
  <2> HIDE DEF S
  <2> QED BY <2>1
<1>7. Fair(t)
  BY MappedIsFair DEF t
<1>8. \A i \in 1 .. 7 : /\ validate_observation(fields[i].read, validate_setting)
                        /\ validate_observation(o.fields[i].read, validate_setting)
  BY <1>3, <1>4, <1>5 DEF validate_observation, SettingFits, Fair
<1>9. /\ validate_observation(platform.transport, LAMBDA x : TRUE)
      /\ validate_observation(o.transport, LAMBDA x : TRUE)
  BY <1>2, <1>7 DEF validate_observation, Fair
<1>10. validate_platform(platform) /\ validate_platform(o)
  BY <1>1, <1>3, <1>5, <1>6, <1>8, <1>9 DEF validate_platform
<1>11. schema_platform(o)
  BY <1>4, <1>5, <1>6, <1>10 DEF schema_platform
<1> QED
  BY <1>10, <1>11 DEF PlatformFits, o

\* Whatever a machine's files hold, its settings are accepted.
LEMMA PlatformIsAccepted ==
  ASSUME NEW m, DiagnosticFiles(m)
  PROVE  PlatformFits(collect_platform(m))
<1> DEFINE Raw(i) == m.settings[i].raw
           Own(i) == m.settings[i].normal
           p == collect_platform(m)
           b(i) == platform_battery_field(i, read_text(Raw(1)), Own(i))
           x3 == platform_field(3, Raw(3), Own(3), read_value(Raw(3), decode_usb_raw),
                                read_value(Own(3), decode_usb_text))
           x4 == platform_field(4, Raw(4), Own(4), read_value(Raw(4), decode_timeout_raw),
                                read_value(Own(4), decode_bool_text))
           x5 == platform_field(5, Raw(5), Own(5), read_value(Raw(5), decode_boot_sound_raw),
                                read_value(Own(5), decode_bool_text))
           x6 == platform_field(6, Raw(6), Own(6), read_value(Raw(6), decode_lcd_raw),
                                read_value(Own(6), decode_bool_text))
           x7 == platform_field(7, Raw(7), Own(7), read_value(Raw(7), decode_logo_raw),
                                read_value(Own(7), decode_logo_text))
           seven(f1, f2, f3, f4, f5, f6, f7) == <<f1, f2, f3, f4, f5, f6, f7>>
<1>1. \A i \in 1 .. 7 : ReadEnds(Raw(i)) /\ ReadEnds(Own(i))
  BY DEF DiagnosticFiles, FieldOrder
<1>2. \A file \in {Raw(7), Own(7)} :
        file.is = "text" /\ file.text # <<>> => file.text[1] \in Nat /\ file.text[2] \in Nat
  BY DEF DiagnosticFiles
<1>3. p.fields = seven(b(1), b(2), x3, x4, x5, x6, x7)
  BY DEF collect_platform
<1>4. Fair(p.transport)
  BY DEF collect_platform, Value, Absent, Fair
<1> HIDE DEF Raw, Own, p, b, x3, x4, x5, x6, x7
<1>5. FieldFits(b(1), 1) /\ FieldFits(b(2), 2)
  BY <1>1, BatteryFits DEF b
<1>6. ASSUME NEW file, ReadEnds(file)
      PROVE  /\ SettingFits(read_value(file, decode_usb_raw))
             /\ SettingFits(read_value(file, decode_usb_text))
             /\ SettingFits(read_value(file, decode_timeout_raw))
             /\ SettingFits(read_value(file, decode_boot_sound_raw))
             /\ SettingFits(read_value(file, decode_lcd_raw))
             /\ SettingFits(read_value(file, decode_bool_text))
             /\ (file.is = "text" /\ file.text # <<>> => file.text[1] \in Nat /\ file.text[2] \in Nat)
                  => /\ SettingFits(read_value(file, decode_logo_raw))
                     /\ SettingFits(read_value(file, decode_logo_text))
  <2> DEFINE t == read_text(file)
  <2>1. /\ Fair(t)
        /\ t.is = "value" => file.is = "text" /\ t.value = file.text
    BY <1>6, TextIsFair
  <2>2. t.is # "value" => SettingFits(t)
    BY <2>1 DEF SettingFits
  <2> HIDE DEF t
  <2>3. SettingFits(read_value(file, decode_usb_raw))
    BY <2>2, DecodersFit DEF read_value, Decoded, t
  <2>4. SettingFits(read_value(file, decode_usb_text))
    BY <2>2, DecodersFit DEF read_value, Decoded, t
  <2>5. SettingFits(read_value(file, decode_timeout_raw))
    BY <2>2, DecodersFit DEF read_value, Decoded, t
  <2>6. SettingFits(read_value(file, decode_boot_sound_raw))
    BY <2>2, DecodersFit DEF read_value, Decoded, t
  <2>7. SettingFits(read_value(file, decode_lcd_raw))
    BY <2>2, DecodersFit DEF read_value, Decoded, t
  <2>8. SettingFits(read_value(file, decode_bool_text))
    BY <2>2, DecodersFit DEF read_value, Decoded, t
  <2>9. ASSUME file.is = "text" /\ file.text # <<>> => file.text[1] \in Nat /\ file.text[2] \in Nat
        PROVE  /\ SettingFits(read_value(file, decode_logo_raw))
               /\ SettingFits(read_value(file, decode_logo_text))
    <3>1. t.is = "value" => /\ SettingFits(decode_logo_raw(t.value))
                            /\ SettingFits(decode_logo_text(t.value))
      BY <2>1, <2>9, DecodersFit
    <3> QED BY <2>2, <3>1 DEF read_value, Decoded, t
  <2> QED BY <2>3, <2>4, <2>5, <2>6, <2>7, <2>8, <2>9
<1>7. FieldFits(x3, 3) /\ FieldFits(x4, 4) /\ FieldFits(x5, 5) /\ FieldFits(x6, 6)
  BY <1>1, <1>6, OtherFits DEF x3, x4, x5, x6
<1>8. FieldFits(x7, 7)
  BY <1>1, <1>2, <1>6, OtherFits DEF x7
<1>9. /\ Len(p.fields) = 7 /\ DOMAIN p.fields = 1 .. 7
      /\ \A i \in 1 .. 7 : FieldFits(p.fields[i], i)
  <2>1. Len(p.fields) = 7 /\ DOMAIN p.fields = 1 .. 7
    BY <1>3
  <2>2. /\ p.fields[1] = b(1) /\ p.fields[2] = b(2) /\ p.fields[3] = x3 /\ p.fields[4] = x4
        /\ p.fields[5] = x5 /\ p.fields[6] = x6 /\ p.fields[7] = x7
    BY <1>3
  <2>3. \A i \in 1 .. 7 : i \in {1, 2, 3, 4, 5, 6, 7}
    OBVIOUS
  <2> QED BY <1>5, <1>7, <1>8, <2>1, <2>2, <2>3
<1>10. PlatformFits(p)
  BY <1>4, <1>9, FieldsFit
<1> QED
  BY <1>10 DEF p

\* A link to a driver is read fairly, and a token is never none.
LEMMA DriverFits ==
  ASSUME NEW d \in HidFunctions
  PROVE  LET r == read_driver(d.driver)
         IN Fair(r) /\ (r.is = "value" => r.value # NoToken)
BY DEF HidFunctions, read_driver, Absent, Malformed, Error, Value, Fair, validate_error

MappedA1(a1) == IF a1.is = "none" THEN a1 ELSE map_observation(a1, "HidFeatureA1")

\* What the report makes of a device, part by part.
LEMMA MappedHidIs ==
  ASSUME NEW role, NEW bus, NEW usage, NEW driver, NEW descriptor, NEW a1
  PROVE  map_hid([role |-> role, bus |-> bus, usage |-> usage, driver |-> driver,
                  descriptor |-> descriptor, a1 |-> a1])
         = [role |-> role, bus |-> bus, usage |-> usage,
            driver |-> map_observation(driver, "HidDriver"),
            descriptor |-> map_observation(descriptor, "HidReportDescriptor"),
            a1 |-> MappedA1(a1)]
<1> DEFINE r == [role |-> role, bus |-> bus, usage |-> usage, driver |-> driver,
                 descriptor |-> descriptor, a1 |-> a1]
           One(x) == [role |-> role, bus |-> bus, usage |-> usage, driver |-> x,
                      descriptor |-> descriptor, a1 |-> a1]
           Two(x, y) == [role |-> role, bus |-> bus, usage |-> usage, driver |-> x,
                         descriptor |-> y, a1 |-> a1]
           Three(x, y, z) == [role |-> role, bus |-> bus, usage |-> usage, driver |-> x,
                              descriptor |-> y, a1 |-> z]
<1>1. r.driver = driver /\ r.descriptor = descriptor /\ r.a1 = a1
  OBVIOUS
<1>2. ASSUME NEW x PROVE [r EXCEPT !.driver = x] = One(x)
  OBVIOUS
<1>3. ASSUME NEW x, NEW y PROVE [One(x) EXCEPT !.descriptor = y] = Two(x, y)
  OBVIOUS
<1>4. ASSUME NEW x, NEW y, NEW z PROVE [Two(x, y) EXCEPT !.a1 = z] = Three(x, y, z)
  OBVIOUS
<1>5. ASSUME NEW x, NEW y, NEW z
      PROVE  [r EXCEPT !.driver = x, !.descriptor = y, !.a1 = z] = Three(x, y, z)
  <2> HIDE DEF r, One, Two, Three
  <2> QED BY <1>2, <1>3, <1>4
<1>6. map_hid(r) = [r EXCEPT !.driver = map_observation(r.driver, "HidDriver"),
                             !.descriptor = map_observation(r.descriptor, "HidReportDescriptor"),
                             !.a1 = MappedA1(r.a1)]
  BY DEF map_hid, MappedA1
<1>7. map_hid(r) = Three(map_observation(driver, "HidDriver"),
                         map_observation(descriptor, "HidReportDescriptor"), MappedA1(a1))
  <2> HIDE DEF r, Three
  <2> QED BY <1>1, <1>5, <1>6
<1> QED
  BY <1>7

\* What the parts of a device are when they are taken.
PartsFair(c) ==
  /\ c.bus = BusOf(c.role)
  /\ Fair(c.driver) /\ (c.driver.is = "value" => c.driver.value # NoToken)
  /\ Fair(c.descriptor)
  /\ c.descriptor.is = "value" => validate_geometry(c.descriptor.value.feature_reports)
  /\ c.a1.is = "none" <=> c.role # "Enek5130Lighting"
  /\ c.a1.is # "none" => Fair(c.a1)
  /\ c.a1.is = "value" => A1Fits(c.a1.value)

\* A device whose parts are fair is accepted by the daemon.
LEMMA PartsFit ==
  ASSUME NEW c, PartsFair(c)
  PROVE  validate_hid(c)
<1>1. validate_observation(c.driver, LAMBDA driver : driver # NoToken)
  BY DEF PartsFair, validate_observation, Fair
<1>2. validate_observation(c.descriptor, LAMBDA d : validate_geometry(d.feature_reports))
  BY DEF PartsFair, validate_observation, Fair
<1>3. c.a1.is # "none" => validate_observation(c.a1, validate_a1)
  BY DEF PartsFair, validate_observation, Fair, A1Fits
<1>4. c.bus = BusOf(c.role) /\ (c.a1.is = "none" <=> c.role # "Enek5130Lighting")
  BY DEF PartsFair
<1> QED
  BY <1>1, <1>2, <1>3, <1>4 DEF validate_hid

HidFits(c) == validate_hid(c) /\ schema_hid(map_hid(c)) /\ Identity(map_hid(c)) = Identity(c)

\* Whatever a function's files hold, it is a device that is accepted twice, as the same one.
LEMMA CandidatesFit ==
  ASSUME NEW d, Allowed(d)
  PROVE  HidFits(collect_candidate(d))
<1> DEFINE c == collect_candidate(d)
           o == map_hid(c)
           dr == map_observation(c.driver, "HidDriver")
           de == map_observation(c.descriptor, "HidReportDescriptor")
           a1 == MappedA1(c.a1)
<1>0. d \in HidFunctions /\ d.node \in Files(Seq(Nat))
  BY DEF Allowed, HidFunctions
<1>1. /\ c = [role |-> d.uevent, bus |-> c.bus, usage |-> c.usage, driver |-> c.driver,
              descriptor |-> c.descriptor, a1 |-> c.a1]
      /\ c.bus = BusOf(d.uevent) /\ c.driver = read_driver(d.driver)
      /\ c.descriptor = read_descriptor(d.descriptor)
      /\ c.a1 = TargetList(d.uevent, c.descriptor, d.node)
  BY CandidatesWeigh
<1> HIDE DEF c
<1>2. c.role = d.uevent
  <2> DEFINE r(b, u, x, y, z) == [role |-> d.uevent, bus |-> b, usage |-> u, driver |-> x,
                                  descriptor |-> y, a1 |-> z]
  <2>1. c = r(c.bus, c.usage, c.driver, c.descriptor, c.a1)
    BY <1>1
  <2>2. \A b, u, x, y, z : r(b, u, x, y, z).role = d.uevent
    OBVIOUS
  <2> HIDE DEF r
  <2>3. r(c.bus, c.usage, c.driver, c.descriptor, c.a1).role = d.uevent
    BY <2>2
  <2> QED BY <2>1, <2>3
<1>3. Fair(c.driver) /\ (c.driver.is = "value" => c.driver.value # NoToken)
  BY <1>0, <1>1, DriverFits
<1>4. Fair(c.descriptor)
      /\ (c.descriptor.is = "value" => validate_geometry(c.descriptor.value.feature_reports))
  BY <1>0, <1>1, DescriptorFits
<1>5. /\ c.a1.is = "none" <=> c.role # "Enek5130Lighting"
      /\ c.a1.is # "none" => Fair(c.a1)
      /\ c.a1.is = "value" => A1Fits(c.a1.value)
  BY <1>0, <1>1, <1>2, <1>4, AnswerFits
<1>6. PartsFair(c)
  BY <1>1, <1>2, <1>3, <1>4, <1>5 DEF PartsFair
<1>7. o = [role |-> c.role, bus |-> c.bus, usage |-> c.usage, driver |-> dr, descriptor |-> de,
           a1 |-> a1]
  <2> DEFINE r(q, b, u, x, y, z) == [role |-> q, bus |-> b, usage |-> u, driver |-> x,
                                     descriptor |-> y, a1 |-> z]
             mapped(q, b, u, x, y, z) ==
               r(q, b, u, map_observation(x, "HidDriver"),
                 map_observation(y, "HidReportDescriptor"), MappedA1(z))
  <2>1. \A q, b, u, x, y, z : map_hid(r(q, b, u, x, y, z)) = mapped(q, b, u, x, y, z)
    BY MappedHidIs
  <2>2. c = r(c.role, c.bus, c.usage, c.driver, c.descriptor, c.a1)
    BY <1>1, <1>2
  <2> HIDE DEF mapped
  <2>3. o = mapped(c.role, c.bus, c.usage, c.driver, c.descriptor, c.a1)
    <3> HIDE DEF r
    <3> QED BY <2>1, <2>2
  <2> QED BY <2>3 DEF mapped
<1>8. Fair(dr) /\ dr.is = c.driver.is /\ dr.source = "HidDriver"
      /\ (dr.is = "value" => dr.value = c.driver.value)
  BY <1>3, MappedIsFair
<1>9. Fair(de) /\ de.is = c.descriptor.is /\ de.source = "HidReportDescriptor"
      /\ (de.is = "value" => de.value = c.descriptor.value)
  BY <1>4, MappedIsFair
<1>10. /\ a1.is = c.a1.is
       /\ a1.is # "none" => Fair(a1) /\ a1.source = "HidFeatureA1"
       /\ a1.is = "value" => a1.value = c.a1.value
  <2>1. CASE c.a1.is = "none"
    BY <2>1 DEF MappedA1
  <2>2. CASE c.a1.is # "none"
    <3>1. a1 = map_observation(c.a1, "HidFeatureA1")
      BY <2>2 DEF MappedA1
    <3> QED BY <1>5, <2>2, <3>1, MappedIsFair
  <2> QED BY <2>1, <2>2
<1> HIDE DEF o, dr, de, a1
<1>11. /\ o.role = c.role /\ o.bus = c.bus /\ o.usage = c.usage /\ o.driver = dr
       /\ o.descriptor = de /\ o.a1 = a1
  BY <1>7
<1>12. PartsFair(o)
  <2>1. c.bus = BusOf(c.role)
    BY <1>6 DEF PartsFair
  <2>2. /\ a1.is = "none" <=> c.role # "Enek5130Lighting"
        /\ a1.is = "value" => A1Fits(a1.value)
    BY <1>5, <1>10
  <2>3. /\ dr.is = "value" => dr.value # NoToken
        /\ de.is = "value" => validate_geometry(de.value.feature_reports)
    BY <1>3, <1>4, <1>8, <1>9
  <2> QED BY <1>8, <1>9, <1>10, <1>11, <2>1, <2>2, <2>3 DEF PartsFair
<1>13. validate_hid(c) /\ validate_hid(o)
  BY <1>6, <1>12, PartsFit
<1>14. o.a1.is # "none" =>
         /\ o.a1.source = "HidFeatureA1"
         /\ validate_observation(o.a1, LAMBDA x :
              2 + x.payload[2] <= Len(x.payload)
                /\ x.targets = a1_targets_from_payload(x.payload))
  <2>1. a1.is = "value" => /\ 2 + a1.value.payload[2] <= Len(a1.value.payload)
                           /\ a1.value.targets = a1_targets_from_payload(a1.value.payload)
    BY <1>5, <1>10 DEF A1Fits
  <2> QED BY <1>10, <1>11, <2>1 DEF validate_observation, Fair
<1>15. schema_hid(o)
  BY <1>8, <1>9, <1>11, <1>13, <1>14 DEF schema_hid
<1>16. Identity(o) = Identity(c)
  <2>1. descriptor_hash(o) = descriptor_hash(c)
    BY <1>9, <1>11 DEF descriptor_hash
  <2> QED BY <1>11, <2>1 DEF Identity
<1> QED
  BY <1>13, <1>15, <1>16 DEF HidFits, o, c

\* Devices in the order of what they are.
InOrder(list) == \A i \in 1 .. Len(list) - 1 : LexLess(Identity(list[i]), Identity(list[i + 1]))

\* One device of each identity: no more than were found, and in order.
LEMMA OneOfEachIsInOrder ==
  ASSUME NEW K, \A c \in K : Identity(c) \in Seq(Int) /\ Weighs(c),
         NEW m \in Nat, NEW f \in [1 .. m -> K]
  PROVE  LET list == OneOfEach(f)
         IN /\ Len(list) \in 0 .. m /\ list \in [1 .. Len(list) -> K]
            /\ InOrder(list)
<1> DEFINE A == {Identity(f[i]) : i \in DOMAIN f}
           R == {p \in A \X A : LexLess(p[1], p[2])}
           ids == Ordered(A, R)
           N == Cardinality(A)
           Eq(k) == {i \in DOMAIN f : Identity(f[i]) = ids[k]}
           list == OneOfEach(f)
<1>0. DOMAIN f = 1 .. m
  OBVIOUS
<1>1. A \subseteq Seq(Int)
  OBVIOUS
<1>2. IsFiniteSet(A) /\ N <= m
  <2> DEFINE names == [i \in 1 .. m |-> Identity(f[i])]
  <2>1. names \in Surjection(1 .. m, A)
    <3>1. names \in [1 .. m -> A] /\ \A a \in A : \E i \in 1 .. m : names[i] = a
      OBVIOUS
    <3> HIDE DEF names, A
    <3> QED BY <3>1 DEF Surjection
  <2>2. IsFiniteSet(1 .. m) /\ Cardinality(1 .. m) = m
    <3>1. 1 \in Int /\ m \in Int
      OBVIOUS
    <3> QED BY <3>1, FS_Interval
  <2> HIDE DEF names, A
  <2> QED BY <2>1, <2>2, FS_Surjection
<1>3. list = [k \in DOMAIN ids |-> Best(f, Eq(k))]
  BY DEF OneOfEach
<1>4. \A a, b : <<a, b>> \in R => LexLess(a, b)
  OBVIOUS
<1>5. \A a \in A : \E i \in 1 .. m : a = Identity(f[i])
  OBVIOUS
<1>6. Orders(R, A)
  <2> HIDE DEF A
  <2> QED BY <1>1, IdentitiesOrder
<1> HIDE DEF A, R
<1>7. /\ N \in Nat /\ ids \in [1 .. N -> A]
      /\ \A i, j \in 1 .. N : i < j => <<ids[i], ids[j]>> \in R
  BY <1>2, <1>6, OrderedLists
<1> HIDE DEF ids, N, list
<1>8. ASSUME NEW k \in 1 .. N
      PROVE  Best(f, Eq(k)) \in K /\ Identity(Best(f, Eq(k))) = ids[k]
  <2>1. ids[k] \in A
    BY <1>7
  <2>2. Eq(k) # {} /\ Eq(k) \subseteq 1 .. m
    BY <1>0, <1>5, <2>1
  <2>3. \A i \in Eq(k) : f[i] \in K /\ Identity(f[i]) = ids[k]
    OBVIOUS
  <2>4. IsFiniteSet(1 .. m) /\ 1 .. m \subseteq Int
    <3>1. 1 \in Int /\ m \in Int
      OBVIOUS
    <3> QED BY <3>1, FS_Interval
  <2> HIDE DEF Eq
  <2>5. IsFiniteSet(Eq(k)) /\ Eq(k) \subseteq Int
    BY <2>2, <2>4, FS_Subset
  <2>6. \E i \in Eq(k) : Best(f, Eq(k)) = f[i]
    BY <2>2, <2>3, <2>5, BestIsBest
  <2> QED BY <2>3, <2>6
<1> HIDE DEF Eq
<1>9. list \in [1 .. N -> K] /\ \A k \in 1 .. N : Identity(list[k]) = ids[k]
  BY <1>3, <1>7, <1>8
<1>10. Len(list) = N
  BY <1>7, <1>9
<1>11. InOrder(list)
  <2> SUFFICES ASSUME NEW i \in 1 .. N - 1
               PROVE  LexLess(Identity(list[i]), Identity(list[i + 1]))
    BY <1>10 DEF InOrder
  <2>1. i \in 1 .. N /\ i + 1 \in 1 .. N /\ i < i + 1
    BY <1>7
  <2> QED BY <1>4, <1>7, <1>9, <2>1
<1>12. N \in 0 .. m
  BY <1>2, <1>7
<1> QED
  BY <1>9, <1>10, <1>11, <1>12 DEF list

MappedHids(hid) == [i \in DOMAIN hid |-> map_hid(hid[i])]
InventoryFits(hid) ==
  /\ validate_inventory(hid) /\ \A i \in DOMAIN MappedHids(hid) : schema_hid(MappedHids(hid)[i])
  /\ InOrder(MappedHids(hid))

\* Whatever the hidraw functions' files hold, the inventory is accepted.
LEMMA HidsAreAccepted ==
  ASSUME NEW h \in HidFiles
  PROVE  InventoryFits(collect_hid(h))
<1> DEFINE S == LookedAt(h)
           all == Ascending(S)
           n == Cardinality(S)
           k == IF n > MaxCandidates THEN MaxCandidates ELSE n
           f == [i \in 1 .. k |-> collect_candidate(h[all[i]])]
           K == {collect_candidate(h[x]) : x \in S}
           list == collect_hid(h)
           o == MappedHids(list)
<1>0. h \in [HidNumbers -> HidFunctions] /\ MaxCandidates \in Nat
  BY HidAssumption DEF HidFiles
<1>1. IsFiniteSet(S) /\ S \subseteq Int
  <2>0. HidNumbers \subseteq Int
    BY HidAssumption
  <2>1. S \in SUBSET HidNumbers /\ S \subseteq Int
    BY <2>0 DEF LookedAt
  <2> QED BY <2>1, HidAssumption, FS_Subset
<1>2. n \in Nat /\ all \in [1 .. n -> S] /\ Len(all) = n
  BY <1>1, AscendingLists
<1>3. CandidateNumbers(h)
        = SubSeq(all, 1, IF Len(all) > MaxCandidates THEN MaxCandidates ELSE Len(all))
  BY DEF CandidateNumbers, LookedAt
<1> HIDE DEF all, n
<1>4. k \in 0 .. n /\ k <= MaxCandidates
  BY <1>0, <1>2
<1>5. CandidateNumbers(h) = [i \in 1 .. k |-> all[i]]
  <2>1. CandidateNumbers(h) = SubSeq(all, 1, k)
    BY <1>2, <1>3
  <2> HIDE DEF k
  <2>2. all \in Seq(S)
    BY <1>2
  <2> QED BY <1>2, <1>4, <2>1, <2>2
<1> HIDE DEF k
<1>6. list = OneOfEach(f)
  <2>1. DOMAIN CandidateNumbers(h) = 1 .. k /\ \A i \in 1 .. k : CandidateNumbers(h)[i] = all[i]
    BY <1>5
  <2> QED BY <2>1 DEF collect_hid, Inventory
<1>7. f \in [1 .. k -> K] /\ k \in Nat
  BY <1>2, <1>4
<1>8. \A c \in K : \E x \in S : c = collect_candidate(h[x])
  OBVIOUS
<1> HIDE DEF f, K, list
<1>9. \A x \in S : Allowed(h[x])
  BY <1>0 DEF LookedAt, Allowed
<1>10. \A c \in K : HidFits(c) /\ Identity(c) \in Seq(Int) /\ Weighs(c)
  BY <1>8, <1>9, CandidatesFit, CandidatesWeigh
<1>11. Len(list) \in 0 .. k /\ list \in [1 .. Len(list) -> K] /\ InOrder(list)
  BY <1>6, <1>7, <1>10, OneOfEachIsInOrder
<1>12. \A i \in 1 .. Len(list) : HidFits(list[i])
  BY <1>10, <1>11
<1>13. validate_inventory(list)
  <2>1. Len(list) <= MaxCandidates /\ DOMAIN list = 1 .. Len(list)
    BY <1>0, <1>4, <1>7, <1>11
  <2> QED BY <1>11, <1>12, <2>1 DEF validate_inventory, InOrder, HidFits
<1>14. DOMAIN o = 1 .. Len(list) /\ \A i \in 1 .. Len(list) : o[i] = map_hid(list[i])
  BY <1>11 DEF MappedHids
<1>15. Len(o) = Len(list)
  <2> DEFINE T == {map_hid(c) : c \in K}
  <2>1. o \in [1 .. Len(list) -> T]
    BY <1>11 DEF MappedHids
  <2>2. Len(list) \in Nat
    BY <1>11
  <2> HIDE DEF T, o
  <2> QED BY <2>1, <2>2
<1> HIDE DEF o
<1>16. \A i \in DOMAIN o : schema_hid(o[i]) /\ Identity(o[i]) = Identity(list[i])
  BY <1>12, <1>14 DEF HidFits
<1>17. InOrder(o)
  <2> SUFFICES ASSUME NEW i \in 1 .. Len(list) - 1
               PROVE  LexLess(Identity(o[i]), Identity(o[i + 1]))
    BY <1>15 DEF InOrder
  <2>1. i \in DOMAIN o /\ i + 1 \in DOMAIN o
    BY <1>11, <1>14
  <2> QED BY <1>11, <1>16, <2>1 DEF InOrder
<1> QED
  BY <1>13, <1>16, <1>17 DEF InventoryFits, o, list

-------------------------------------------------------------------------------
(* What the client reads itself.                                                  *)

\* A text is observed fairly, and it is neither empty nor too long nor unprintable.
LEMMA ObservationIsFair ==
  ASSUME NEW file, ReadEnds(file)
  PROVE  LET r == read_text_observation(file)
         IN Fair(r) /\ (r.is = "value" => r.value \notin {"empty", "long", "control"})
<1> DEFINE r == read_text_observation(file)
           Fits(o) == Fair(o) /\ (o.is = "value" => o.value \notin {"empty", "long", "control"})
<1>1. CASE file.is = "text"
  <2>1. r = decode_observation(file.text)
    BY <1>1 DEF read_text_observation, read_bounded, Decoded, Value
  <2>2. Fits(decode_observation(file.text))
    BY DEF decode_observation, Absent, Error, Malformed, Value, Fair, validate_error
  <2> QED BY <2>1, <2>2
<1>2. CASE file.is \in {"missing", "binary"}
  <2>1. r = Absent("NotExposed") \/ r = Malformed
    BY <1>2 DEF read_text_observation
  <2>2. Fits(Absent("NotExposed")) /\ Fits(Malformed)
    BY DEF Absent, Error, Malformed, Fair, validate_error
  <2>3. Fits(r)
    <3> HIDE DEF r, Fits
    <3> QED BY <2>1, <2>2
  <2> QED BY <2>3
<1>3. CASE file.is \in {"directory", "denied", "failing", "oversize"}
  <2>1. Fits(read_bounded(file)) /\ read_bounded(file).is = "error"
    BY <1>3 DEF read_bounded, Error, Fair, validate_error
  <2>2. r = read_bounded(file)
    BY <1>3, <2>1 DEF read_text_observation, Decoded
  <2> QED BY <2>1, <2>2
<1> QED
  BY <1>1, <1>2, <1>3 DEF ReadEnds

\* A name that no report may hold.
BadNames(names) == \E part \in {"dmi", "kernel", "os"} : names[part].value = "slash"

\* The key of an os-release file is read fairly.
LEMMA ReleaseIsFair ==
  ASSUME NEW m, LocalFiles(m)
  PROVE  LET r == collect_os_release(m.os_release)
         IN Fair(r) /\ (r.is = "value" => r.value \in {"plain", "slash", "spaced"})
<1> DEFINE file == m.os_release
           r == collect_os_release(file)
           Fits(o) == Fair(o) /\ (o.is = "value" => o.value \in {"plain", "slash", "spaced"})
<1>0. /\ ReadEnds(file)
      /\ file.is = "text" => file.text \in {"no key", "empty", "unquoted space", "unfinished",
                                            "control", "long", "plain", "slash", "spaced"}
  BY DEF LocalFiles
<1> HIDE DEF file
<1>1. CASE file.is = "text"
  <2>1. r = os_release_value(file.text)
    BY <1>1 DEF collect_os_release, read_bounded, Decoded, Value
  <2>2. Fits(os_release_value(file.text))
    BY <1>0, <1>1 DEF os_release_value, Absent, Error, Malformed, Value, Fair, validate_error
  <2> QED BY <2>1, <2>2 DEF file
<1>2. CASE file.is \in {"missing", "binary"}
  <2>1. r = Absent("NotExposed") \/ r = Malformed
    BY <1>2 DEF collect_os_release
  <2>2. Fits(Absent("NotExposed")) /\ Fits(Malformed)
    BY DEF Absent, Error, Malformed, Fair, validate_error
  <2>3. Fits(r)
    <3> HIDE DEF r, Fits
    <3> QED BY <2>1, <2>2
  <2> QED BY <2>3 DEF file
<1>3. CASE file.is \in {"directory", "denied", "failing", "oversize"}
  <2>1. Fits(read_bounded(file)) /\ read_bounded(file).is = "error"
    BY <1>3 DEF read_bounded, Error, Fair, validate_error
  <2>2. r = read_bounded(file)
    BY <1>3, <2>1 DEF collect_os_release, Decoded
  <2> QED BY <2>1, <2>2 DEF file
<1> QED
  BY <1>0, <1>1, <1>2, <1>3 DEF ReadEnds

\* The machine's names are accepted, but for one that begins like a path.
LEMMA NamesAreAccepted ==
  ASSUME NEW m, LocalFiles(m)
  PROVE  validate_machine(collect_machine(m)) \/ BadNames(collect_machine(m))
<1> DEFINE names == collect_machine(m)
           dmi == read_text_observation(m.dmi)
           kernel == read_text_observation(m.uname)
           os == collect_os_release(m.os_release)
           Fits(o) == Fair(o) /\ (o.is = "value" => o.value \notin {"empty", "long", "control"})
<1>1. names = [dmi |-> Sourced("Dmi", dmi), kernel |-> Sourced("Uname", kernel),
               os |-> Sourced("OsRelease", os)]
  BY DEF collect_machine
<1>2. Fits(dmi) /\ Fits(kernel)
  BY ObservationIsFair DEF LocalFiles
<1>3. Fits(os)
  BY ReleaseIsFair
<1> HIDE DEF names, dmi, kernel, os
<1>4. \A o, source : Fits(o) => Fits(Sourced(source, o))
  BY SourcedIsFair
<1>5. /\ names["dmi"] = Sourced("Dmi", dmi) /\ names["kernel"] = Sourced("Uname", kernel)
      /\ names["os"] = Sourced("OsRelease", os)
  BY <1>1
<1>6. \A part \in {"dmi", "kernel", "os"} : Fits(names[part])
  <2> HIDE DEF Fits
  <2> QED BY <1>2, <1>3, <1>4, <1>5
<1>7. ASSUME NEW part \in {"dmi", "kernel", "os"}, names[part].value # "slash"
      PROVE  validate_observation(names[part], IsText)
  <2>1. Fits(names[part])
    BY <1>6
  <2> QED BY <1>7, <2>1 DEF validate_observation, IsText, Fair
<1> QED
  BY <1>7 DEF validate_machine, BadNames, names

\* The supplies of a kind are no more than the bound, and all from the list.
LEMMA KindsAreListed ==
  ASSUME NEW supplies, Listed(supplies), NEW kinds
  PROVE  LET list == OfKind(supplies, kinds)
         IN \E k \in Nat : /\ k <= MaxSupplies /\ DOMAIN list = 1 .. k
                           /\ \A i \in 1 .. k : \E j \in DOMAIN supplies : list[i] = supplies[j]
<1> DEFINE KindOf(s) == read_text_observation(s.type)
           S == {i \in DOMAIN supplies : /\ KindOf(supplies[i]).is = "value"
                                         /\ KindOf(supplies[i]).value \in kinds}
           known == Ascending(S)
           n == Cardinality(S)
           k == IF n > MaxSupplies THEN MaxSupplies ELSE n
           list == OfKind(supplies, kinds)
<1>0. MaxSupplies \in Nat
  BY LocalAssumption
<1>1. Len(supplies) \in Nat /\ DOMAIN supplies = 1 .. Len(supplies)
  BY DEF Listed
<1>2. IsFiniteSet(1 .. Len(supplies)) /\ 1 .. Len(supplies) \subseteq Int
  <2>1. 1 \in Int /\ Len(supplies) \in Int
    BY <1>1
  <2> QED BY <2>1, FS_Interval
<1>3. S \in SUBSET (1 .. Len(supplies)) /\ S \subseteq DOMAIN supplies
  BY <1>1
<1>4. list = [i \in {i \in DOMAIN known : i <= MaxSupplies} |-> supplies[known[i]]]
  BY DEF OfKind
<1> HIDE DEF S, list
<1>5. IsFiniteSet(S) /\ S \subseteq Int
  BY <1>2, <1>3, FS_Subset
<1>6. n \in Nat /\ known \in [1 .. n -> S]
  BY <1>5, AscendingLists
<1> HIDE DEF known, n
<1>7. k \in Nat /\ k <= MaxSupplies /\ {i \in 1 .. n : i <= MaxSupplies} = 1 .. k
  BY <1>0, <1>6
<1>8. \A i \in 1 .. k : i \in 1 .. n
  BY <1>0, <1>6
<1> HIDE DEF k
<1>9. DOMAIN list = 1 .. k
  BY <1>4, <1>6, <1>7
<1>10. \A i \in 1 .. k : list[i] = supplies[known[i]] /\ known[i] \in DOMAIN supplies
  BY <1>3, <1>4, <1>6, <1>7, <1>8
<1> QED
  BY <1>7, <1>9, <1>10 DEF list

\* What is read of a power supply is fair, and within the bounds of its kind.
LEMMA SupplyIsFair ==
  ASSUME NEW file, ReadEnds(file)
  PROVE  /\ Fair(read_bool_observation(file)) /\ Fair(read_battery_status(file))
         /\ Fair(read_capacity(file))
         /\ read_capacity(file).is = "value" => read_capacity(file).value = "percent"
<1> DEFINE t == read_text_observation(file)
<1>1. Fair(t)
  BY ObservationIsFair
<1>2. Fair(Malformed) /\ Malformed.is # "value" /\ \A v : Fair(Value(v)) /\ Value(v).value = v
  BY DEF Malformed, Error, Value, Fair, validate_error
<1>3. /\ read_bool_observation(file)
           = IF t.is = "value" THEN IF t.value \in {"0", "1"} THEN Value(t.value) ELSE Malformed
             ELSE t
      /\ \E v : read_battery_status(file) = IF t.is = "value" THEN Value(v) ELSE t
      /\ read_capacity(file)
           = IF t.is = "value" THEN IF t.value = "percent" THEN Value(t.value) ELSE Malformed
             ELSE t
  BY DEF read_bool_observation, read_battery_status, read_capacity, Decoded
<1> HIDE DEF t
<1>4. Fair(read_bool_observation(file)) /\ Fair(read_battery_status(file))
  BY <1>1, <1>2, <1>3
<1>5. /\ Fair(read_capacity(file))
      /\ read_capacity(file).is = "value" => read_capacity(file).value = "percent"
  BY <1>1, <1>2, <1>3
<1> QED
  BY <1>4, <1>5

PowerFits(power) == power.failed \/ validate_power(power.evidence)

\* Whatever a machine's files hold, its power supplies are accepted or cannot be read.
LEMMA PowerIsAccepted ==
  ASSUME NEW m, LocalFiles(m)
  PROVE  PowerFits(collect_power(m))
<1> DEFINE ac == OfKind(m.supplies, Sides)
           batteries == OfKind(m.supplies, {"Battery"})
           side(i) == [ordinal |-> i,
                       online |-> Sourced("PowerSupply", read_bool_observation(ac[i].online))]
           battery(i) ==
             [ordinal |-> i,
              present |-> Sourced("PowerSupply", read_bool_observation(batteries[i].online)),
              status |-> Sourced("PowerSupply", read_battery_status(batteries[i].status)),
              capacity |-> Sourced("PowerSupply", read_capacity(batteries[i].capacity))]
           sides == [i \in DOMAIN ac |-> side(i)]
           all == [i \in DOMAIN batteries |-> battery(i)]
           none == [ac |-> <<>>, batteries |-> <<>>]
           both == [ac |-> sides, batteries |-> all]
           power == collect_power(m)
<1>1. power \in {Failed, Collected(none), Collected(both)}
  BY DEF collect_power
<1>2. /\ Listed(m.supplies)
      /\ \A i \in DOMAIN m.supplies : /\ ReadEnds(m.supplies[i].online)
                                      /\ ReadEnds(m.supplies[i].status)
                                      /\ ReadEnds(m.supplies[i].capacity)
  BY DEF LocalFiles
<1>3. PICK k \in Nat : /\ k <= MaxSupplies /\ DOMAIN ac = 1 .. k
                       /\ \A i \in 1 .. k : \E j \in DOMAIN m.supplies : ac[i] = m.supplies[j]
  BY <1>2, KindsAreListed
<1>4. PICK l \in Nat :
        /\ l <= MaxSupplies /\ DOMAIN batteries = 1 .. l
        /\ \A i \in 1 .. l : \E j \in DOMAIN m.supplies : batteries[i] = m.supplies[j]
  BY <1>2, KindsAreListed
<1>5. MaxSupplies \in Nat
  BY LocalAssumption
<1> HIDE DEF ac, batteries, power
<1>6. \A i \in 1 .. k : ReadEnds(ac[i].online)
  BY <1>2, <1>3
<1>7. \A i \in 1 .. l : /\ ReadEnds(batteries[i].online) /\ ReadEnds(batteries[i].status)
                        /\ ReadEnds(batteries[i].capacity)
  BY <1>2, <1>4
<1>8. \A o : Fair(o) => validate_observation(Sourced("PowerSupply", o), Anything)
  BY DEF Fair, Sourced, validate_observation, Anything
<1>9. \A o : Fair(o) /\ (o.is = "value" => o.value = "percent")
               => validate_observation(Sourced("PowerSupply", o), LAMBDA c : c = "percent")
  BY DEF Fair, Sourced, validate_observation
<1>10. ASSUME NEW i \in 1 .. k
       PROVE  side(i).ordinal = i /\ validate_observation(side(i).online, Anything)
  <2> DEFINE o == read_bool_observation(ac[i].online)
  <2>1. Fair(o)
    BY <1>6, SupplyIsFair
  <2>2. side(i).ordinal = i /\ side(i).online = Sourced("PowerSupply", o)
    OBVIOUS
  <2> HIDE DEF o, side
  <2> QED BY <1>8, <2>1, <2>2
<1>11. ASSUME NEW i \in 1 .. l
       PROVE  /\ battery(i).ordinal = i
              /\ validate_observation(battery(i).present, Anything)
              /\ validate_observation(battery(i).status, Anything)
              /\ validate_observation(battery(i).capacity, LAMBDA c : c = "percent")
  <2> DEFINE o == read_bool_observation(batteries[i].online)
             s == read_battery_status(batteries[i].status)
             c == read_capacity(batteries[i].capacity)
             S(read) == Sourced("PowerSupply", read)
  <2>1. Fair(o) /\ Fair(s) /\ Fair(c) /\ (c.is = "value" => c.value = "percent")
    BY <1>7, SupplyIsFair
  <2>2. battery(i) = [ordinal |-> i, present |-> S(o), status |-> S(s), capacity |-> S(c)]
    OBVIOUS
  <2> HIDE DEF o, s, c, battery
  <2>3. /\ validate_observation(S(o), Anything) /\ validate_observation(S(s), Anything)
        /\ validate_observation(S(c), LAMBDA x : x = "percent")
    BY <1>8, <1>9, <2>1
  <2> HIDE DEF S
  <2>4. /\ battery(i).ordinal = i /\ battery(i).present = S(o) /\ battery(i).status = S(s)
        /\ battery(i).capacity = S(c)
    BY <2>2
  <2> QED BY <2>3, <2>4
<1> HIDE DEF side, battery
<1>12. /\ DOMAIN sides = 1 .. k /\ Len(sides) = k /\ \A i \in 1 .. k : sides[i] = side(i)
  <2> DEFINE T == {side(i) : i \in 1 .. k}
  <2>1. sides \in [1 .. k -> T] /\ \A i \in 1 .. k : sides[i] = side(i)
    BY <1>3
  <2> HIDE DEF sides, T
  <2> QED BY <2>1
<1>13. /\ DOMAIN all = 1 .. l /\ Len(all) = l /\ \A i \in 1 .. l : all[i] = battery(i)
  <2> DEFINE T == {battery(i) : i \in 1 .. l}
  <2>1. all \in [1 .. l -> T] /\ \A i \in 1 .. l : all[i] = battery(i)
    BY <1>4
  <2> HIDE DEF all, T
  <2> QED BY <2>1
<1> HIDE DEF sides, all
<1>14. validate_power(both)
  <2>1. both.ac = sides /\ both.batteries = all
    OBVIOUS
  <2>2. \A i \in DOMAIN sides :
          sides[i].ordinal = i /\ validate_observation(sides[i].online, Anything)
    BY <1>10, <1>12
  <2>3. \A i \in DOMAIN all :
          /\ all[i].ordinal = i
          /\ validate_observation(all[i].present, Anything)
          /\ validate_observation(all[i].status, Anything)
          /\ validate_observation(all[i].capacity, LAMBDA c : c = "percent")
    BY <1>11, <1>13
  <2>4. Len(sides) <= MaxSupplies /\ Len(all) <= MaxSupplies
    BY <1>3, <1>4, <1>12, <1>13
  <2> HIDE DEF both
  <2> QED BY <2>1, <2>2, <2>3, <2>4 DEF validate_power
<1>15. validate_power(none)
  <2>1. Len(<<>>) = 0 /\ DOMAIN <<>> = {}
    OBVIOUS
  <2> QED BY <1>5, <2>1 DEF validate_power
<1> HIDE DEF none, both
<1>16. PowerFits(power)
  BY <1>1, <1>14, <1>15 DEF PowerFits, Failed, Collected
<1> QED
  BY <1>16 DEF power

\* The least of a few numbers is one of them.
LEMMA LeastIsThere ==
  ASSUME NEW S, IsFiniteSet(S), S \subseteq Int, S # {}
  PROVE  Min(S) \in S
<1> DEFINE n == Cardinality(S)
           m == Ascending(S)[1]
<1>1. /\ n \in Nat
      /\ Ascending(S) \in [1 .. n -> S]
      /\ \A i, j \in 1 .. n : i < j => Ascending(S)[i] < Ascending(S)[j]
      /\ \A x \in S : \E i \in 1 .. n : Ascending(S)[i] = x
  BY AscendingLists
<1>2. 1 \in 1 .. n
  BY <1>1, FS_EmptySet
<1> HIDE DEF n
<1>3. m \in S
  BY <1>1, <1>2
<1>4. \A x \in S : m <= x
  <2> SUFFICES ASSUME NEW x \in S PROVE m <= x
    OBVIOUS
  <2>1. PICK i \in 1 .. n : Ascending(S)[i] = x
    BY <1>1
  <2>2. i = 1 \/ 1 < i
    BY <1>1
  <2>3. x \in Int /\ m \in Int
    BY <1>3
  <2> QED BY <1>1, <1>2, <2>1, <2>2, <2>3
<1> QED
  BY <1>3, <1>4 DEF Min

\* An owner is a name that is neither empty nor too long.
OwnerFits(read) == Fair(read) /\ (read.is = "value" => read.value \notin {"empty", "long"})

\* One link gives an owner that is accepted, or that the property names.
LEMMA LinkFits ==
  ASSUME NEW link, link.is \in {"missing", "failing", "binary", "text"}
  PROVE  OwnerFits(read_driver_owner(link))
BY DEF read_driver_owner, OwnerFits, Absent, Error, Malformed, Value, Fair, validate_error

\* So do several links of one GUID together.
LEMMA OwnersCombine ==
  ASSUME NEW n \in Nat, NEW owners, DOMAIN owners = 1 .. n, \A i \in 1 .. n : OwnerFits(owners[i])
  PROVE  OwnerFits(combine_owners(owners))
<1> DEFINE named == {i \in DOMAIN owners : owners[i].is = "value"}
           Differs(i) == \E j \in named : j < i /\ owners[i].value # owners[j].value
           Stops == {i \in DOMAIN owners : \/ owners[i].is = "error"
                                           \/ owners[i].is = "value" /\ Differs(i)}
           r == combine_owners(owners)
<1>1. r = IF Stops # {}
          THEN IF owners[Min(Stops)].is = "error" THEN owners[Min(Stops)]
                                                  ELSE Error("Verify", "InvalidValue")
          ELSE IF named = {} THEN Absent("NotExposed") ELSE owners[Min(named)]
  BY DEF combine_owners
<1>2. named \in SUBSET (1 .. n) /\ Stops \in SUBSET (1 .. n)
  OBVIOUS
<1> HIDE DEF named, Stops, r
<1>3. IsFiniteSet(1 .. n) /\ 1 .. n \subseteq Int
  <2>1. 1 \in Int /\ n \in Int
    OBVIOUS
  <2> QED BY <2>1, FS_Interval
<1>4. \A S \in SUBSET (1 .. n) : S # {} => Min(S) \in 1 .. n
  <2> SUFFICES ASSUME NEW S \in SUBSET (1 .. n), S # {} PROVE Min(S) \in S
    OBVIOUS
  <2>1. IsFiniteSet(S) /\ S \subseteq Int
    BY <1>3, FS_Subset
  <2> QED BY <2>1, LeastIsThere
<1>5. OwnerFits(Absent("NotExposed")) /\ OwnerFits(Error("Verify", "InvalidValue"))
  BY DEF OwnerFits, Absent, Error, Fair, validate_error
<1>6. OwnerFits(r)
  BY <1>1, <1>2, <1>4, <1>5
<1> QED
  BY <1>6 DEF r

\* What is told of one GUID.
WmiEntryFits(e) ==
  /\ e.instances \in 1 .. MaxInstances /\ OwnerFits(e.owner)
  /\ Len(e.groups) <= 7 /\ validate_channel_order(e.groups)

\* Some of seven numbers, in order, are no more than seven.
LEMMA FewInOrder ==
  ASSUME NEW S \in SUBSET (1 .. 7)
  PROVE  Len(Ascending(S)) <= 7 /\ validate_channel_order(Ascending(S))
<1>1. IsFiniteSet(1 .. 7) /\ Cardinality(1 .. 7) = 7
  <2>1. 1 \in Int /\ 7 \in Int /\ ~(1 > 7) /\ 7 - 1 + 1 = 7
    OBVIOUS
  <2> QED BY <2>1, FS_Interval
<1>2. IsFiniteSet(S) /\ Cardinality(S) <= 7 /\ S \subseteq Int
  <2>1. S \subseteq Int
    OBVIOUS
  <2> QED BY <1>1, <2>1, FS_Subset
<1>3. /\ Cardinality(S) \in Nat /\ Len(Ascending(S)) = Cardinality(S)
      /\ \A i, j \in 1 .. Cardinality(S) : i < j => Ascending(S)[i] < Ascending(S)[j]
  BY <1>2, AscendingLists
<1>4. \A i \in 1 .. Cardinality(S) - 1 : /\ i \in 1 .. Cardinality(S)
                                         /\ i + 1 \in 1 .. Cardinality(S) /\ i < i + 1
  BY <1>3
<1> QED
  BY <1>2, <1>3, <1>4 DEF validate_channel_order

\* The evidence of the instances of one GUID, within the bound on them, fits.
LEMMA InstancesFit ==
  ASSUME NEW instances, Listed(instances), Len(instances) \in 1 .. MaxInstances,
         \A i \in DOMAIN instances :
           instances[i].driver.is \in {"missing", "failing", "binary", "text"},
         NEW known \in SUBSET (1 .. 7)
  PROVE  WmiEntryFits(WmiEvidence(instances, known))
<1> DEFINE n == Len(instances)
           owners == [i \in DOMAIN instances |-> read_driver_owner(instances[i].driver)]
           S == {g \in known : \E i \in DOMAIN instances : g \in instances[i].groups}
           e == WmiEvidence(instances, known)
<1>1. n \in Nat /\ DOMAIN instances = 1 .. n
  BY DEF Listed
<1>2. OwnerFits(combine_owners(owners))
  <2>1. DOMAIN owners = 1 .. n /\ \A i \in 1 .. n : OwnerFits(owners[i])
    BY <1>1, LinkFits
  <2> HIDE DEF owners, n
  <2> QED BY <1>1, <2>1, OwnersCombine
<1>3. S \in SUBSET (1 .. 7)
  OBVIOUS
<1>4. /\ e.instances = n /\ e.owner = Sourced("WmiDriver", combine_owners(owners))
      /\ e.groups = Ascending(S)
  BY DEF WmiEvidence
<1> HIDE DEF owners, S, e
<1>5. Len(e.groups) <= 7 /\ validate_channel_order(e.groups)
  BY <1>3, <1>4, FewInOrder
<1>6. OwnerFits(e.owner)
  BY <1>2, <1>4, SourcedIsFair DEF OwnerFits
<1>7. WmiEntryFits(e)
  BY <1>4, <1>5, <1>6 DEF WmiEntryFits
<1> QED
  BY <1>7 DEF e

WmiFits(wmi) ==
  /\ Len(wmi) <= 3 /\ \A i \in DOMAIN wmi : WmiEntryFits(wmi[i])

\* The GUIDs that are there are listed in order, each with an owner that fits.
LEMMA InterfacesFit ==
  ASSUME NEW m, LocalFiles(m)
  PROVE  collect_wmi(m).failed \/ WmiFits(collect_wmi(m).evidence)
<1> DEFINE S == {g \in 1 .. 3 : m.wmi[g] # <<>>}
           guids == Ascending(S)
           n == Cardinality(S)
           e(g) == WmiEvidence(m.wmi[g], KnownGroups[g])
           wmi == [i \in DOMAIN guids |-> e(guids[i])]
           large == \E g \in 1 .. 3 : Len(m.wmi[g]) > MaxInstances
           r == collect_wmi(m)
<1>1. r \in {Failed, Collected(<<>>)} \/ (~large /\ r = Collected(wmi))
  BY DEF collect_wmi
<1>2. WmiFits(<<>>)
  BY DEF WmiFits
<1>3. ASSUME ~large PROVE WmiFits(wmi)
  <2>1. S \in SUBSET (1 .. 3)
    OBVIOUS
  <2>2. ASSUME NEW g \in S PROVE WmiEntryFits(e(g))
    <3>1. g \in 1 .. 3 /\ m.wmi[g] # <<>> /\ ~(Len(m.wmi[g]) > MaxInstances)
      BY <1>3
    <3>2. /\ Listed(m.wmi[g])
          /\ \A i \in DOMAIN m.wmi[g] :
               m.wmi[g][i].driver.is \in {"missing", "failing", "binary", "text"}
      <4>1. DOMAIN KnownGroups = 1 .. 3
        BY DEF KnownGroups
      <4> QED BY <3>1, <4>1 DEF LocalFiles
    <3>3. Len(m.wmi[g]) \in 1 .. MaxInstances
      <4>1. Len(m.wmi[g]) \in Nat /\ (Len(m.wmi[g]) = 0 => m.wmi[g] = <<>>)
        BY <3>2 DEF Listed
      <4>2. MaxInstances \in Nat
        BY LocalAssumption
      <4> QED BY <3>1, <4>1, <4>2
    <3>4. KnownGroups[g] \in SUBSET (1 .. 7)
      BY <3>1 DEF KnownGroups
    <3> QED BY <3>2, <3>3, <3>4, InstancesFit
  <2> HIDE DEF S, e
  <2>3. IsFiniteSet(1 .. 3) /\ Cardinality(1 .. 3) = 3
    <3>1. 1 \in Int /\ 3 \in Int /\ ~(1 > 3) /\ 3 - 1 + 1 = 3
      OBVIOUS
    <3> QED BY <3>1, FS_Interval
  <2>4. IsFiniteSet(S) /\ n <= 3 /\ S \subseteq Int
    <3>1. S \subseteq Int
      BY <2>1
    <3> QED BY <2>1, <2>3, <3>1, FS_Subset
  <2>5. n \in Nat /\ guids \in [1 .. n -> S]
    BY <2>4, AscendingLists
  <2> HIDE DEF guids, n
  <2> DEFINE T == {e(g) : g \in S}
  <2>6. wmi \in [1 .. n -> T] /\ \A i \in 1 .. n : wmi[i] = e(guids[i]) /\ guids[i] \in S
    BY <2>5
  <2> HIDE DEF wmi, T
  <2>7. Len(wmi) = n /\ DOMAIN wmi = 1 .. n
    BY <2>5, <2>6
  <2> QED BY <2>2, <2>4, <2>5, <2>6, <2>7 DEF WmiFits
<1> HIDE DEF large, wmi, r
<1>4. r.failed \/ WmiFits(r.evidence)
  BY <1>1, <1>2, <1>3 DEF Failed, Collected
<1> QED
  BY <1>4 DEF r

\* Names of drivers that no report may hold.
BadOwners(drivers) ==
  \/ \E i \in DOMAIN drivers.modules : drivers.modules[i].version.value \in {"slash", "spaced"}
  \/ \E i \in DOMAIN drivers.wmi : drivers.wmi[i].owner.value \in {"slash", "spaced", "control"}

\* A module is loaded or not, and its version is read fairly.
LEMMA ModulesFit ==
  ASSUME NEW module, module.dir \in {"there", "missing", "failing"}, ReadEnds(module.version)
  PROVE  LET c == collect_module(module)
         IN /\ validate_observation(c.loaded, Anything)
            /\ validate_observation(c.version, IsToken)
                 \/ c.version.value \in {"slash", "spaced"}
<1> DEFINE c == collect_module(module)
           loaded == CASE module.dir = "there" -> Value(TRUE)
                       [] module.dir = "missing" -> Value(FALSE)
                       [] module.dir = "failing" -> Error("Discover", "Io")
           version == IF module.dir = "there" THEN read_text_observation(module.version)
                                              ELSE Absent("NotExposed")
<1>1. c.loaded = Sourced("ModuleSysfs", loaded) /\ c.version = Sourced("ModuleSysfs", version)
  BY DEF collect_module
<1>2. Fair(loaded)
  BY DEF Value, Error, Fair, validate_error
<1>3. /\ Fair(version)
      /\ version.is = "value" => version.value \notin {"empty", "long", "control"}
  <2>1. Fair(Absent("NotExposed")) /\ Absent("NotExposed").is # "value"
    BY DEF Absent, Fair
  <2> QED BY <2>1, ObservationIsFair
<1> HIDE DEF c, loaded, version
<1>4. validate_observation(c.loaded, Anything)
  <2>1. Fair(c.loaded)
    BY <1>1, <1>2, SourcedIsFair
  <2> QED BY <2>1 DEF validate_observation, Fair, Anything
<1>5. validate_observation(c.version, IsToken) \/ c.version.value \in {"slash", "spaced"}
  <2>1. /\ Fair(c.version) /\ c.version.is = version.is /\ c.version.value = version.value
    BY <1>1, <1>3, SourcedIsFair
  <2> QED BY <1>3, <2>1 DEF validate_observation, Fair, IsToken, IsText
<1> QED
  BY <1>4, <1>5 DEF c

\* The owner of the hwmon device is one that is accepted.
LEMMA HwmonOwnerFits ==
  ASSUME NEW m, DiagnosticFiles(m)
  PROVE  validate_observation(collect_hwmon_owner(m), IsToken)
<1> DEFINE n == discover_acer_hwmon(m)
           o == IF n = NoDevice THEN Absent("NotExposed")
                ELSE Value(IF m.hwmon[n].driver = "none" THEN m.hwmon[n].name
                                                         ELSE m.hwmon[n].driver)
<1>1. o = Absent("NotExposed") \/ o = Value("acer")
  <2>1. CASE n = NoDevice
    BY <2>1
  <2>2. CASE n # NoDevice
    <3>1. n \in Numbers /\ m.hwmon[n] # NoDevice /\ m.hwmon[n].name = "acer"
          /\ m.hwmon[n].driver # "foreign"
      BY <2>2, DeviceIsThere
    <3>2. m.hwmon[n].driver \in {"acer", "none", "foreign"}
      BY <3>1 DEF DiagnosticFiles
    <3> HIDE DEF n
    <3> QED BY <2>2, <3>1, <3>2
  <2> QED BY <2>1, <2>2
<1>2. collect_hwmon_owner(m) = Sourced("HwmonDriver", o)
  BY DEF collect_hwmon_owner
<1> HIDE DEF o
<1>3. validate_observation(Sourced("HwmonDriver", Absent("NotExposed")), IsToken)
  BY DEF Sourced, Absent, validate_observation
<1>4. validate_observation(Sourced("HwmonDriver", Value("acer")), IsToken)
  BY DEF Sourced, Value, validate_observation, IsToken, IsText
<1> QED
  BY <1>1, <1>2, <1>3, <1>4

DriversFit(drivers) ==
  drivers.failed \/ validate_drivers(drivers.evidence) \/ BadOwners(drivers.evidence)

\* Whatever a machine's files hold, its drivers are accepted, but for a name, or cannot be read.
LEMMA DriversAreAccepted ==
  ASSUME NEW m, DiagnosticFiles(m), LocalFiles(m)
  PROVE  DriversFit(collect_drivers(m))
<1> DEFINE w == collect_wmi(m)
           mods == [i \in DOMAIN ModuleNames |-> collect_module(m.modules[i])]
           d == [modules |-> mods, wmi |-> w.evidence, hwmon_owner |-> collect_hwmon_owner(m)]
           r == collect_drivers(m)
<1>1. r = IF w.failed THEN Failed ELSE Collected(d)
  BY DEF collect_drivers
<1>2. \A i \in 1 .. 2 : /\ m.modules[i].dir \in {"there", "missing", "failing"}
                        /\ ReadEnds(m.modules[i].version)
  <2>1. DOMAIN ModuleNames = 1 .. 2
    BY DEF ModuleNames
  <2> QED BY <2>1 DEF LocalFiles
<1>3. /\ DOMAIN mods = 1 .. 2 /\ Len(mods) = 2
      /\ \A i \in 1 .. 2 : mods[i] = collect_module(m.modules[i])
  <2> DEFINE T == {collect_module(m.modules[i]) : i \in 1 .. 2}
  <2>1. mods \in [1 .. 2 -> T] /\ \A i \in 1 .. 2 : mods[i] = collect_module(m.modules[i])
    BY DEF ModuleNames
  <2> HIDE DEF mods, T
  <2> QED BY <2>1
<1>4. \A i \in 1 .. 2 : /\ validate_observation(mods[i].loaded, Anything)
                        /\ \/ validate_observation(mods[i].version, IsToken)
                           \/ mods[i].version.value \in {"slash", "spaced"}
  <2> HIDE DEF mods
  <2> QED BY <1>2, <1>3, ModulesFit
<1>5. d.modules = mods /\ d.wmi = w.evidence /\ d.hwmon_owner = collect_hwmon_owner(m)
  OBVIOUS
<1>6. w.failed \/ WmiFits(w.evidence)
  BY InterfacesFit
<1>7. validate_observation(d.hwmon_owner, IsToken)
  BY HwmonOwnerFits
<1>8. Len(GroupOrder) = 7
  BY DEF GroupOrder
<1> HIDE DEF mods, w, d, r
<1>9. ASSUME WmiFits(d.wmi), ~BadOwners(d)
      PROVE  validate_drivers(d)
  <2>1. \A i \in DOMAIN d.modules : /\ validate_observation(d.modules[i].loaded, Anything)
                                    /\ validate_observation(d.modules[i].version, IsToken)
    BY <1>3, <1>4, <1>5, <1>9 DEF BadOwners
  <2>2. \A i \in DOMAIN d.wmi : /\ WmiEntryFits(d.wmi[i])
                                /\ d.wmi[i].owner.value \notin {"slash", "spaced", "control"}
    BY <1>9 DEF BadOwners, WmiFits
  <2>3. \A o : OwnerFits(o) /\ o.value \notin {"slash", "spaced", "control"}
                 => validate_observation(o, IsToken)
    BY DEF OwnerFits, Fair, validate_observation, IsToken, IsText
  <2>4. \A i \in DOMAIN d.wmi : /\ d.wmi[i].instances \in 1 .. MaxInstances
                                /\ validate_observation(d.wmi[i].owner, IsToken)
                                /\ Len(d.wmi[i].groups) <= Len(GroupOrder)
                                /\ validate_channel_order(d.wmi[i].groups)
    BY <1>8, <2>2, <2>3 DEF WmiEntryFits
  <2>5. Len(d.wmi) <= 3 /\ Len(d.modules) = 2
    BY <1>3, <1>5, <1>9 DEF WmiFits
  <2> QED BY <1>7, <2>1, <2>4, <2>5 DEF validate_drivers
<1>10. DriversFit(r)
  <2>1. Failed.failed
    BY DEF Failed
  <2>2. Collected(d).evidence = d
    BY DEF Collected
  <2> QED BY <1>1, <1>5, <1>6, <1>9, <2>1, <2>2 DEF DriversFit
<1> QED
  BY <1>10 DEF r

-------------------------------------------------------------------------------
(* The report.                                                                    *)

\* A report that was given no answer holds nothing that is refused.
LEMMA SilenceIsAccepted ==
  ASSUME NEW told, Fair(told), told.is # "value"
  PROVE  LET parts == WithoutAnswer(told)
         IN /\ schema_profile(parts.profile) /\ schema_fans(parts.fans)
            /\ schema_platform(parts.platform) /\ schema_lighting(parts.lighting)
            /\ parts.hid = <<>>
<1> DEFINE parts == WithoutAnswer(told)
           s(source) == Sourced(source, told)
           field(i) == [name |-> FieldOrder[i], source |-> FieldSource[i], exposed |-> FALSE,
                        expected |-> FALSE, read |-> s(FieldSource[i])]
           fields == [i \in DOMAIN FieldOrder |-> field(i)]
           platform == [transport |-> s("PlatformDiscovery"), fields |-> fields]
           fans == [control |-> s("FanDiscovery"), pwm |-> <<>>, rpm |-> <<>>,
                    temperatures |-> <<>>]
           profile == [transport |-> s("ProfileDiscovery"), current |-> s("ProfileDiscovery"),
                       choices |-> s("ProfileDiscovery"),
                       bitmap |-> s("GamingWmiSupportedProfiles")]
<1>1. /\ parts.profile = profile /\ parts.fans = fans /\ parts.platform = platform
      /\ parts.lighting = <<>> /\ parts.hid = <<>>
  BY DEF WithoutAnswer
<1>2. \A source : Fair(s(source)) /\ s(source).is # "value" /\ s(source).source = source
  BY SourcedIsFair
<1> HIDE DEF s, parts
<1>3. schema_profile(profile)
  BY <1>2 DEF schema_profile, validate_observation, Fair, Anything
<1>4. schema_fans(fans)
  <2>1. DOMAIN <<>> = 1 .. 0 /\ 1 .. 0 = {} /\ 0 \in Nat
    OBVIOUS
  <2>2. validate_channel_order([i \in DOMAIN <<>> |-> <<>>[i].channel])
    BY <2>1, RisingIsInOrder
  <2>3. /\ validate_channels(<<>>) /\ schema_inputs(<<>>, Anything)
        /\ schema_inputs(<<>>, LAMBDA v : v # "hot")
    BY <2>1, <2>2 DEF validate_channels, schema_inputs
  <2>4. validate_observation(s("FanDiscovery"), Anything)
    BY <1>2 DEF validate_observation, Fair
  <2> QED BY <2>1, <2>3, <2>4 DEF schema_fans
<1>5. schema_platform(platform)
  <2>1. Len(FieldOrder) = 7 /\ DOMAIN FieldOrder = 1 .. 7
    BY DEF FieldOrder
  <2> DEFINE T == {field(i) : i \in 1 .. 7}
  <2>2. fields \in [1 .. 7 -> T] /\ \A i \in 1 .. 7 : fields[i] = field(i)
    BY <2>1
  <2>3. \A i \in 1 .. 7 : /\ field(i).name = FieldOrder[i] /\ field(i).source = FieldSource[i]
                          /\ field(i).read = s(FieldSource[i])
    OBVIOUS
  <2> HIDE DEF field, fields, T
  <2>4. Len(fields) = 7 /\ DOMAIN fields = 1 .. 7
    BY <2>2
  <2>5. \A source : /\ validate_observation(s(source), validate_setting)
                    /\ validate_observation(s(source), LAMBDA t : TRUE)
    BY <1>2 DEF validate_observation, Fair
  <2>6. \A i \in 1 .. 7 : /\ fields[i].name = FieldOrder[i] /\ fields[i].source = FieldSource[i]
                          /\ validate_observation(fields[i].read, validate_setting)
                          /\ fields[i].read.source = fields[i].source
    BY <1>2, <2>2, <2>3, <2>5
  <2>7. validate_platform(platform)
    BY <2>1, <2>4, <2>5, <2>6 DEF validate_platform
  <2> QED BY <2>4, <2>6, <2>7 DEF schema_platform
<1>6. schema_lighting(<<>>)
  BY DEF schema_lighting
<1> HIDE DEF profile, fans, platform
<1> QED
  BY <1>1, <1>3, <1>4, <1>5, <1>6 DEF parts

\* A call that failed is a fair error, or the absence of the daemon.
LEMMA FailuresAreFair ==
  /\ \A how \in {"connected", "no socket", "no listener", "timeout", "incompatible"} :
       Fair(daemon_error(how)) /\ (how # "connected" => daemon_error(how).is # "value")
  /\ \A how \in {"broken", "timeout", "refused"} :
       Fair(control_probe_error(how)) /\ control_probe_error(how).is # "value"
BY DEF daemon_error, control_probe_error, Absent, Error, Value, Fair, validate_error

\* Counting a change alters none of the files.
LEMMA FilesKeep ==
  ASSUME NEW m, MachineFiles(m), NEW n
  PROVE  MachineFiles([m EXCEPT !.changes = n])
<1> DEFINE r == [m EXCEPT !.changes = n]
           names == {"profile", "profile_raw", "offered", "diagnostic", "fans", "rpm", "hwmon",
                     "settings", "dmi", "uname", "os_release", "supplies", "modules", "wmi",
                     "hidraw"}
<1>1. DiagnosticFiles(m) /\ LocalFiles(m) /\ m.hidraw \in HidFiles /\ names \subseteq DOMAIN m
  BY DEF MachineFiles
<1>2. DOMAIN r = DOMAIN m /\ \A f \in names : r[f] = m[f]
  BY <1>1
<1> HIDE DEF r
<1>3. /\ r.profile = m.profile /\ r.profile_raw = m.profile_raw /\ r.offered = m.offered
      /\ r.diagnostic = m.diagnostic /\ r.fans = m.fans /\ r.rpm = m.rpm /\ r.hwmon = m.hwmon
      /\ r.settings = m.settings /\ r.dmi = m.dmi /\ r.uname = m.uname
      /\ r.os_release = m.os_release /\ r.supplies = m.supplies /\ r.modules = m.modules
      /\ r.wmi = m.wmi /\ r.hidraw = m.hidraw
  BY <1>2
<1>4. DiagnosticFiles(r)
  BY <1>1, <1>3 DEF DiagnosticFiles
<1>5. LocalFiles(r)
  BY <1>1, <1>3 DEF LocalFiles
<1>6. r.hidraw \in HidFiles /\ names \subseteq DOMAIN r
  BY <1>1, <1>2, <1>3
<1>7. MachineFiles(r)
  BY <1>4, <1>5, <1>6 DEF MachineFiles
<1> QED
  BY <1>7 DEF r

SectionFits(i, evidence) ==
  /\ i = 1 => ProfileFits(evidence)
  /\ i = 2 => FansFit(evidence)
  /\ i = 3 => PlatformFits(evidence)
  /\ i = 4 => LightingFits(evidence)
  /\ i = 5 => InventoryFits(evidence)
SeenFits(seen, next) ==
  Listed(seen) /\ Len(seen) = next - 1 /\ \A i \in 1 .. next - 1 : SectionFits(i, seen[i])

\* Whatever a machine's files hold, what the daemon reads of it fits.
LEMMA SectionsFit ==
  ASSUME NEW m, MachineFiles(m), NEW i \in 1 .. 5
  PROVE  SectionFits(i, collect_section(m, Sections[i]))
<1>1. DiagnosticFiles(m) /\ m.hidraw \in HidFiles
  BY DEF MachineFiles
<1>2. /\ collect_section(m, Sections[1]) = collect_profile(m)
      /\ collect_section(m, Sections[2]) = collect_fans(m)
      /\ collect_section(m, Sections[3]) = collect_platform(m)
      /\ collect_section(m, Sections[4]) = collect_lighting(m)
      /\ collect_section(m, Sections[5]) = collect_hid(m.hidraw)
  BY DEF collect_section, Sections
<1>3. /\ ProfileFits(collect_profile(m)) /\ FansFit(collect_fans(m))
      /\ PlatformFits(collect_platform(m)) /\ LightingFits(collect_lighting(m))
      /\ InventoryFits(collect_hid(m.hidraw))
  BY <1>1, ProfileIsAccepted, FansAreAccepted, PlatformIsAccepted, LightingIsAccepted,
     HidsAreAccepted
<1> QED
  BY <1>2, <1>3 DEF SectionFits

\* A list grows at its end.
LEMMA ListGrows ==
  ASSUME NEW list, Listed(list), NEW e
  PROVE  LET longer == Append(list, e)
         IN /\ Listed(longer) /\ Len(longer) = Len(list) + 1
            /\ \A i \in 1 .. Len(list) : longer[i] = list[i]
            /\ longer[Len(list) + 1] = e
<1> DEFINE n == Len(list)
           S == {list[i] : i \in 1 .. n} \cup {e}
           longer == Append(list, e)
<1>1. n \in Nat /\ list = [i \in 1 .. n |-> list[i]]
  BY DEF Listed
<1>2. list \in Seq(S) /\ e \in S
  <2>1. \A i \in 1 .. n : list[i] \in S
    OBVIOUS
  <2> HIDE DEF S, n
  <2>2. list \in [1 .. n -> S]
    BY <1>1, <2>1
  <2> QED BY <1>1, <2>2 DEF S
<1> HIDE DEF S
<1>3. /\ longer \in Seq(S) /\ Len(longer) = n + 1
      /\ \A i \in 1 .. n : longer[i] = list[i]
      /\ longer[n + 1] = e
  BY <1>1, <1>2
<1> HIDE DEF longer, n
<1>4. Listed(longer)
  <2>1. longer \in [1 .. Len(longer) -> S] /\ Len(longer) \in Nat
    BY <1>3
  <2> QED BY <2>1 DEF Listed
<1> QED
  BY <1>3, <1>4 DEF longer, n

\* The empty list is one.
LEMMA NothingIsListed == Listed(<<>>)
<1>1. Len(<<>>) = 0 /\ 0 \in Nat
  OBVIOUS
<1>2. 1 .. 0 = {}
  OBVIOUS
<1>3. [i \in {} |-> <<>>[i]] = <<>>
  OBVIOUS
<1> QED
  BY <1>1, <1>2, <1>3 DEF Listed

\* The daemon's evidence grows by what fits.
LEMMA SeenGrows ==
  ASSUME NEW seen, NEW next \in 1 .. 5, SeenFits(seen, next), NEW e, SectionFits(next, e)
  PROVE  SeenFits(Append(seen, e), next + 1)
<1> DEFINE longer == Append(seen, e)
<1>1. Listed(seen) /\ Len(seen) = next - 1 /\ \A i \in 1 .. next - 1 : SectionFits(i, seen[i])
  BY DEF SeenFits
<1>2. /\ Listed(longer) /\ Len(longer) = Len(seen) + 1
      /\ \A i \in 1 .. Len(seen) : longer[i] = seen[i]
      /\ longer[Len(seen) + 1] = e
  BY <1>1, ListGrows
<1> HIDE DEF longer
<1>3. Len(longer) = next + 1 - 1 /\ longer[next] = e
      /\ \A i \in 1 .. next - 1 : longer[i] = seen[i]
  BY <1>1, <1>2
<1>4. \A i \in 1 .. next + 1 - 1 : i = next \/ i \in 1 .. next - 1
  OBVIOUS
<1>5. \A i \in 1 .. next + 1 - 1 : SectionFits(i, longer[i])
  BY <1>1, <1>3, <1>4
<1> QED
  BY <1>2, <1>3, <1>5 DEF SeenFits, longer

\* At first the daemon has no evidence, and none is needed.
LEMMA NoneIsSeen == SeenFits(<<>>, 1) /\ 1 \in 0 .. 6
<1>1. Len(<<>>) = 0 /\ 1 - 1 = 0 /\ 1 .. 0 = {}
  OBVIOUS
<1>2. 1 \in 0 .. 6
  OBVIOUS
<1> QED
  BY <1>1, <1>2, NothingIsListed DEF SeenFits

\* An answer that the report takes, but for a label.
ToldFits(told) ==
  /\ Fair(told)
  /\ told.is = "value" =>
       /\ schema_profile(map_profile(told.value.profile))
       /\ schema_fans(map_fans(told.value.fans)) \/ BadLabel(told.value.fans)
       /\ schema_platform(map_platform(told.value.platform))
       /\ schema_lighting(told.value.lighting)
       /\ \A i \in DOMAIN MappedHids(told.value.hid) :
            schema_hid(MappedHids(told.value.hid)[i])
       /\ InOrder(MappedHids(told.value.hid))

\* The daemon's answer is one; it is refused for a temperature or its label only.
LEMMA AnswersFit ==
  ASSUME SeenFits(daemon.seen, 6)
  PROVE  /\ validate(Diagnostics) \/ BadReading(daemon.seen[2])
         /\ validate(Diagnostics) => ToldFits(Value(Diagnostics))
<1> DEFINE d == Diagnostics
<1>1. \A i \in 1 .. 5 : SectionFits(i, daemon.seen[i])
  BY DEF SeenFits
<1>2. /\ d.schema = DiagnosticSchema /\ d.profile = daemon.seen[1] /\ d.fans = daemon.seen[2]
      /\ d.platform = daemon.seen[3] /\ d.lighting = daemon.seen[4] /\ d.hid = daemon.seen[5]
  BY DEF Diagnostics
<1> HIDE DEF d
<1>3. /\ ProfileFits(d.profile) /\ FansFit(d.fans) /\ PlatformFits(d.platform)
      /\ LightingFits(d.lighting) /\ InventoryFits(d.hid)
  BY <1>1, <1>2 DEF SectionFits
<1>4. validate_fans(d.fans) => validate(d)
  BY <1>2, <1>3 DEF validate, DiagnosticSchema, ProfileFits, PlatformFits, LightingFits,
                    InventoryFits
<1>5. validate_fans(d.fans) \/ BadReading(daemon.seen[2])
  BY <1>2, <1>3 DEF FansFit
<1>6. validate(d) => validate_fans(d.fans)
  BY DEF validate
<1>7. Fair(Value(d)) /\ Value(d).value = d
  BY DEF Fair, Value
<1>8. validate_fans(d.fans) => ToldFits(Value(d))
  BY <1>3, <1>7 DEF ToldFits, ProfileFits, FansFit, PlatformFits, LightingFits, InventoryFits
<1> QED
  BY <1>4, <1>5, <1>6, <1>8 DEF d

NamesFit(names) == validate_machine(names) \/ BadNames(names)

\* What the client has read itself, by how far it is.
LocalFits(at, local) ==
  /\ at \in {"power", "drivers", "complete"} => Listed(local) /\ NamesFit(local[1])
  /\ at = "power" => Len(local) = 1
  /\ at = "drivers" => Len(local) = 2 /\ validate_power(local[2])
  /\ at = "complete" => /\ validate_power(local[2])
                        /\ validate_drivers(local[3]) \/ BadOwners(local[3])

DaemonFits(d) == d.next \in 0 .. 6 /\ (d.next # 0 => SeenFits(d.seen, d.next))
ProbeFits(p) ==
  /\ Fair(p.identity)
  /\ p.at \notin {"start", "waiting"} => ToldFits(p.told)
  /\ LocalFits(p.at, p.local)
  /\ p.at = "refused" => \/ BadName(p.local)
                         \/ p.told.is = "value" /\ BadLabel(p.told.value.fans)

\* Whatever has been read so far fits.
EvidenceFits == MachineFiles(machine) /\ DaemonFits(daemon) /\ ProbeFits(probe)

\* A report that is complete is accepted, but for a name or a label.
LEMMA ReportsFit ==
  ASSUME ProbeFits(probe), probe.at = "complete"
  PROVE  \/ validate_report(Compiled) \/ BadName(probe.local)
         \/ probe.told.is = "value" /\ BadLabel(probe.told.value.fans)
<1> DEFINE told == probe.told
           r == Compiled
           parts == map_daemon_diagnostics(told)
<1>1. /\ Fair(probe.identity) /\ ToldFits(told) /\ NamesFit(probe.local[1])
      /\ validate_power(probe.local[2])
      /\ validate_drivers(probe.local[3]) \/ BadOwners(probe.local[3])
  BY DEF ProbeFits, LocalFits
<1>2. /\ r.identity = Sourced("ControlSocket", probe.identity) /\ r.machine = probe.local[1]
      /\ r.power = probe.local[2] /\ r.drivers = probe.local[3] /\ r.told = parts
  BY DEF Compiled
<1> HIDE DEF told, r
<1>3. \/ validate_machine(r.machine) /\ validate_drivers(r.drivers)
      \/ BadName(probe.local)
  BY <1>1, <1>2 DEF NamesFit, BadNames, BadOwners, BadName
<1>4. validate_observation(r.identity, Anything)
  <2>1. Fair(r.identity)
    BY <1>1, <1>2, SourcedIsFair
  <2> QED BY <2>1 DEF validate_observation, Fair, Anything
<1>5. \/ /\ schema_profile(parts.profile) /\ schema_fans(parts.fans)
         /\ schema_platform(parts.platform) /\ schema_lighting(parts.lighting)
         /\ \A i \in DOMAIN parts.hid : schema_hid(parts.hid[i])
         /\ InOrder(parts.hid)
      \/ told.is = "value" /\ BadLabel(told.value.fans)
  <2>1. ASSUME told.is # "value"
        PROVE  /\ schema_profile(parts.profile) /\ schema_fans(parts.fans)
               /\ schema_platform(parts.platform) /\ schema_lighting(parts.lighting)
               /\ parts.hid = <<>>
    <3>1. parts = WithoutAnswer(told) /\ Fair(told)
      BY <1>1, <2>1 DEF map_daemon_diagnostics, ToldFits
    <3> HIDE DEF parts
    <3> QED BY <2>1, <3>1, SilenceIsAccepted
  <2>2. InOrder(<<>>) /\ DOMAIN <<>> = {}
    BY DEF InOrder
  <2>3. ASSUME told.is = "value"
        PROVE  /\ parts.profile = map_profile(told.value.profile)
               /\ parts.fans = map_fans(told.value.fans)
               /\ parts.platform = map_platform(told.value.platform)
               /\ parts.lighting = told.value.lighting
               /\ parts.hid = MappedHids(told.value.hid)
    BY <2>3 DEF map_daemon_diagnostics, MappedHids
  <2> HIDE DEF parts
  <2>4. ASSUME told.is = "value", ~BadLabel(told.value.fans)
        PROVE  /\ schema_profile(parts.profile) /\ schema_fans(parts.fans)
               /\ schema_platform(parts.platform) /\ schema_lighting(parts.lighting)
               /\ \A i \in DOMAIN parts.hid : schema_hid(parts.hid[i])
               /\ InOrder(parts.hid)
    BY <1>1, <2>3, <2>4 DEF ToldFits
  <2>5. ASSUME told.is # "value"
        PROVE  /\ \A i \in DOMAIN parts.hid : schema_hid(parts.hid[i])
               /\ InOrder(parts.hid)
    BY <2>1, <2>2, <2>5
  <2> QED BY <2>1, <2>4, <2>5
<1> HIDE DEF parts
<1>6. \/ validate_report(r) \/ BadName(probe.local)
      \/ told.is = "value" /\ BadLabel(told.value.fans)
  BY <1>1, <1>2, <1>3, <1>4, <1>5 DEF validate_report, InOrder
<1> QED
  BY <1>6 DEF r, told

\* At first nothing has been read.
LEMMA NothingIsRead == ReportInit => EvidenceFits
<1> SUFFICES ASSUME ReportInit PROVE EvidenceFits
  OBVIOUS
<1>1. MachineFiles(machine)
  BY ReportAssumption DEF ReportInit
<1>2. DaemonFits(daemon)
  BY DEF ReportInit, NotCollecting, DaemonFits
<1>3. probe.at = "start" /\ probe.identity = Absent("none")
  BY DEF ReportInit, Unasked
<1>4. Fair(Absent("none"))
  BY DEF Absent, Fair
<1>5. ProbeFits(probe)
  BY <1>3, <1>4 DEF ProbeFits, LocalFits
<1> QED BY <1>1, <1>2, <1>5 DEF EvidenceFits

\* The daemon reads one more section.
LEMMA CollectFits ==
  ASSUME EvidenceFits, Collect
  PROVE  EvidenceFits'
<1> DEFINE n == daemon.next
           e == collect_section(machine, Sections[n])
<1>1. n \in 1 .. 5
  BY DEF Collect, Sections
<1>2. MachineFiles(machine) /\ SeenFits(daemon.seen, n)
  BY <1>1 DEF EvidenceFits, DaemonFits
<1>3. /\ daemon' = [next |-> n + 1, seen |-> Append(daemon.seen, e)]
      /\ machine' = machine /\ probe' = probe
  BY DEF Collect
<1>4. SectionFits(n, e)
  BY <1>1, <1>2, SectionsFit
<1> HIDE DEF e, n
<1>5. SeenFits(Append(daemon.seen, e), n + 1)
  BY <1>1, <1>2, <1>4, SeenGrows
<1>6. DaemonFits(daemon')
  BY <1>1, <1>3, <1>5 DEF DaemonFits
<1>7. MachineFiles(machine') /\ ProbeFits(probe')
  BY <1>3 DEF EvidenceFits
<1> QED BY <1>6, <1>7 DEF EvidenceFits

\* A report takes any fair failure for an answer.
LEMMA FailuresFit == \A told : Fair(told) /\ told.is # "value" => ToldFits(told)
BY DEF ToldFits

\* A connected client waits for evidence of nothing; another is told of a fair failure.
LEMMA ConnectFits ==
  ASSUME EvidenceFits, ProbeShape, Connect
  PROVE  EvidenceFits'
<1> PICK how \in {"connected", "no socket", "no listener", "timeout", "incompatible"} :
      /\ probe' = [probe EXCEPT !.at = IF how = "connected" THEN "waiting" ELSE "machine",
                                !.how = how, !.identity = daemon_error(how),
                                !.told = daemon_error(how)]
      /\ daemon' = IF how = "connected" THEN [NotCollecting EXCEPT !.next = 1] ELSE daemon
  BY DEF Connect
<1> DEFINE said == daemon_error(how)
           at == IF how = "connected" THEN "waiting" ELSE "machine"
<1>1. Fair(said) /\ (how # "connected" => said.is # "value")
  BY FailuresAreFair
<1>2. at \in {"waiting", "machine"} /\ (at = "machine" => how # "connected")
  OBVIOUS
<1> HIDE DEF said
<1>3. probe'.at = at /\ probe'.identity = said /\ probe'.told = said
  BY DEF ProbeShape, said
<1>4. at = "machine" => ToldFits(said)
  BY <1>1, <1>2, FailuresFit
<1> HIDE DEF at
<1>5. ProbeFits(probe')
  BY <1>1, <1>2, <1>3, <1>4 DEF ProbeFits, LocalFits
<1>6. DaemonFits(daemon')
  <2>1. CASE how = "connected"
    <3>1. daemon'.next = 1 /\ daemon'.seen = <<>>
      BY <2>1 DEF NotCollecting
    <3> QED BY <3>1, NoneIsSeen DEF DaemonFits
  <2>2. CASE how # "connected"
    BY <2>2 DEF EvidenceFits
  <2> QED BY <2>1, <2>2
<1>7. MachineFiles(machine')
  BY DEF EvidenceFits, Connect
<1> QED BY <1>5, <1>6, <1>7 DEF EvidenceFits

\* What the client is told fits: the answer, if it is accepted, or a failure.
LEMMA ToldSoFits ==
  ASSUME NEW told, ToldFits(told), ProbeFits(probe), ProbeShape,
         probe' = [probe EXCEPT !.at = "machine", !.told = told]
  PROVE  ProbeFits(probe')
<1>1. probe'.at = "machine" /\ probe'.told = told /\ probe'.identity = probe.identity
  BY DEF ProbeShape
<1>2. Fair(probe.identity)
  BY DEF ProbeFits
<1> QED BY <1>1, <1>2 DEF ProbeFits, LocalFits

\* The daemon's answer, or its refusal of it, fits.
LEMMA AnsweredFits ==
  ASSUME EvidenceFits, ProbeShape, Answered
  PROVE  EvidenceFits'
<1> DEFINE d == Diagnostics
           refused == control_probe_error("refused")
           told == IF validate(d) THEN Value(d) ELSE refused
<1>1. daemon.next = 6
  BY DEF Answered, Sections
<1>2. SeenFits(daemon.seen, 6)
  BY <1>1 DEF EvidenceFits, DaemonFits
<1>3. validate(d) => ToldFits(Value(d))
  BY <1>2, AnswersFit
<1>4. ToldFits(refused)
  BY FailuresAreFair, FailuresFit
<1>5. /\ probe' = [probe EXCEPT !.at = "machine", !.told = told]
      /\ machine' = machine /\ daemon' = daemon
  BY DEF Answered
<1> HIDE DEF d, refused
<1>6. ToldFits(told)
  BY <1>3, <1>4
<1> HIDE DEF told
<1>7. ProbeFits(probe)
  BY DEF EvidenceFits
<1>8. ProbeFits(probe')
  BY <1>5, <1>6, <1>7, ToldSoFits
<1> QED BY <1>5, <1>8 DEF EvidenceFits

\* A daemon that falls silent leaves no evidence and a fair failure.
LEMMA UnansweredFits ==
  ASSUME EvidenceFits, ProbeShape, Unanswered
  PROVE  EvidenceFits'
<1> PICK how \in {"timeout", "broken"} :
      probe' = [probe EXCEPT !.at = "machine", !.told = control_probe_error(how)]
  BY DEF Unanswered
<1>1. ToldFits(control_probe_error(how))
  BY FailuresAreFair, FailuresFit
<1>2. ProbeFits(probe)
  BY DEF EvidenceFits
<1>3. ProbeFits(probe')
  BY <1>1, <1>2, ToldSoFits
<1>4. DaemonFits(daemon') /\ machine' = machine
  BY DEF Unanswered, NotCollecting, DaemonFits
<1> QED BY <1>3, <1>4 DEF EvidenceFits

\* The client reads the machine's names.
LEMMA MachineReadFits ==
  ASSUME EvidenceFits, ProbeShape, ReadsMachine
  PROVE  EvidenceFits'
<1> DEFINE names == collect_machine(machine)
           local == <<names>>
<1>1. /\ probe.at = "machine" /\ probe' = [probe EXCEPT !.at = "power", !.local = local]
      /\ machine' = machine /\ daemon' = daemon
  BY DEF ReadsMachine
<1>2. NamesFit(names)
  <2>1. LocalFiles(machine)
    BY DEF EvidenceFits, MachineFiles
  <2> QED BY <2>1, NamesAreAccepted DEF NamesFit
<1> HIDE DEF names
<1>3. Listed(local) /\ Len(local) = 1 /\ local[1] = names
  <2>1. Len(local) = 1 /\ local[1] = names /\ local \in [1 .. 1 -> {names}]
    OBVIOUS
  <2> HIDE DEF local
  <2> QED BY <2>1 DEF Listed
<1> HIDE DEF local
<1>4. /\ probe'.at = "power" /\ probe'.local = local /\ probe'.told = probe.told
      /\ probe'.identity = probe.identity
  BY <1>1 DEF ProbeShape
<1>5. Fair(probe.identity) /\ ToldFits(probe.told)
  BY <1>1 DEF EvidenceFits, ProbeFits
<1>6. ProbeFits(probe')
  BY <1>2, <1>3, <1>4, <1>5 DEF ProbeFits, LocalFits
<1> QED BY <1>1, <1>6 DEF EvidenceFits

\* The client reads its power supplies or its drivers, or fails to.
LEMMA ReadingFits ==
  ASSUME EvidenceFits, ProbeShape, NEW at \in {"power", "drivers"},
         NEW next, next = IF at = "power" THEN "drivers" ELSE "complete",
         NEW read, ReadsOr(at, next, read),
         at = "power" => PowerFits(read), at = "drivers" => DriversFit(read)
  PROVE  EvidenceFits'
<1> DEFINE local == probe.local
           longer == Append(local, read.evidence)
<1>1. /\ probe.at = at /\ machine' = machine /\ daemon' = daemon
      /\ probe' = IF read.failed THEN [probe EXCEPT !.at = "failed"]
                  ELSE [probe EXCEPT !.at = next, !.local = longer]
  BY DEF ReadsOr
<1>2. Fair(probe.identity) /\ ToldFits(probe.told) /\ LocalFits(at, local)
  BY <1>1 DEF EvidenceFits, ProbeFits
<1>3. /\ Listed(local) /\ NamesFit(local[1]) /\ (at = "power" => Len(local) = 1)
      /\ (at = "drivers" => Len(local) = 2 /\ validate_power(local[2]))
  BY <1>2 DEF LocalFits
<1> HIDE DEF local
<1>4. /\ Listed(longer) /\ Len(longer) = Len(local) + 1
      /\ \A i \in 1 .. Len(local) : longer[i] = local[i]
      /\ longer[Len(local) + 1] = read.evidence
  BY <1>3, ListGrows
<1> HIDE DEF longer
<1>5. CASE read.failed
  <2>1. /\ probe'.at = "failed" /\ probe'.told = probe.told /\ probe'.identity = probe.identity
    BY <1>1, <1>5 DEF ProbeShape
  <2>2. ProbeFits(probe')
    BY <1>2, <2>1 DEF ProbeFits, LocalFits
  <2> QED BY <1>1, <2>2 DEF EvidenceFits
<1>6. CASE ~read.failed
  <2>1. /\ probe'.at = next /\ probe'.told = probe.told /\ probe'.identity = probe.identity
        /\ probe'.local = longer
    BY <1>1, <1>6 DEF ProbeShape
  <2>2. ASSUME at = "power"
        PROVE  LocalFits(next, longer) /\ next = "drivers"
    <3>0. Len(local) = 1 /\ 1 + 1 = 2 /\ 1 \in 1 .. 1
      BY <1>3, <2>2
    <3>1. Len(longer) = 2 /\ longer[1] = local[1] /\ longer[2] = read.evidence
      BY <1>4, <3>0
    <3>2. validate_power(read.evidence)
      BY <1>6, <2>2 DEF PowerFits
    <3>3. LocalFits("drivers", longer)
      BY <1>3, <1>4, <3>1, <3>2 DEF LocalFits
    <3> QED BY <2>2, <3>3
  <2>3. ASSUME at = "drivers"
        PROVE  LocalFits(next, longer) /\ next = "complete"
    <3>0. Len(local) = 2 /\ 2 + 1 = 3 /\ 1 \in 1 .. 2 /\ 2 \in 1 .. 2
      BY <1>3, <2>3
    <3>1. longer[1] = local[1] /\ longer[2] = local[2] /\ longer[3] = read.evidence
      BY <1>4, <3>0
    <3>2. validate_drivers(read.evidence) \/ BadOwners(read.evidence)
      BY <1>6, <2>3 DEF DriversFit
    <3>3. LocalFits("complete", longer)
      BY <1>3, <1>4, <2>3, <3>1, <3>2 DEF LocalFits
    <3> QED BY <2>3, <3>3
  <2>4. LocalFits(next, longer) /\ next \in {"drivers", "complete"}
    BY <2>2, <2>3
  <2>5. ProbeFits(probe')
    BY <1>2, <2>1, <2>4 DEF ProbeFits
  <2> QED BY <1>1, <2>5 DEF EvidenceFits
<1> QED BY <1>5, <1>6

\* The report is published, or refused for a name or a label.
LEMMA PublishFits ==
  ASSUME EvidenceFits, ProbeShape, Publish
  PROVE  EvidenceFits'
<1> DEFINE r == Compiled
           accepted == validate_report(r)
           at == IF accepted THEN "published" ELSE "refused"
<1>1. /\ probe.at = "complete" /\ machine' = machine /\ daemon' = daemon
      /\ probe' = [probe EXCEPT !.at = at, !.report = <<r>>]
  BY DEF Publish
<1>2. ProbeFits(probe)
  BY DEF EvidenceFits
<1>3. \/ accepted \/ BadName(probe.local)
      \/ probe.told.is = "value" /\ BadLabel(probe.told.value.fans)
  BY <1>1, <1>2, ReportsFit
<1> HIDE DEF accepted, r
<1>4. at \in {"published", "refused"} /\ (at = "refused" => ~accepted)
  OBVIOUS
<1>5. /\ probe'.at = at /\ probe'.told = probe.told /\ probe'.identity = probe.identity
      /\ probe'.local = probe.local
  BY <1>1 DEF ProbeShape
<1>6. Fair(probe.identity) /\ ToldFits(probe.told)
  BY <1>1, <1>2 DEF ProbeFits
<1> HIDE DEF at
<1>7. ProbeFits(probe')
  BY <1>3, <1>4, <1>5, <1>6 DEF ProbeFits, LocalFits
<1> QED BY <1>1, <1>7 DEF EvidenceFits

\* Whatever the machine becomes, what has been read of it fits.
LEMMA ChangeFits ==
  ASSUME EvidenceFits, MachineChanges
  PROVE  EvidenceFits'
<1> PICK m \in ChangedMachines : machine' = [m EXCEPT !.changes = machine.changes + 1]
  BY DEF MachineChanges
<1>1. MachineFiles(m)
  BY ReportAssumption
<1>2. MachineFiles(machine')
  BY <1>1, FilesKeep
<1>3. daemon' = daemon /\ probe' = probe
  BY DEF MachineChanges
<1> QED BY <1>2, <1>3 DEF EvidenceFits

\* Every step leaves evidence that fits.
LEMMA EvidenceStaysFit ==
  EvidenceFits /\ ProbeShape /\ [ReportNext]_reportVars => EvidenceFits'
<1> SUFFICES ASSUME EvidenceFits, ProbeShape, [ReportNext]_reportVars
             PROVE  EvidenceFits'
  OBVIOUS
<1>1. LocalFiles(machine) /\ DiagnosticFiles(machine)
  BY DEF EvidenceFits, MachineFiles
<1>2. CASE Collect
  BY <1>2, CollectFits
<1>3. CASE Connect
  BY <1>3, ConnectFits
<1>4. CASE Answered
  BY <1>4, AnsweredFits
<1>5. CASE Unanswered
  BY <1>5, UnansweredFits
<1>6. CASE ReadsMachine
  BY <1>6, MachineReadFits
<1>7. CASE ReadsPower
  <2>1. ReadsOr("power", "drivers", collect_power(machine)) /\ PowerFits(collect_power(machine))
    BY <1>1, <1>7, PowerIsAccepted DEF ReadsPower
  <2> QED BY <2>1, ReadingFits
<1>8. CASE ReadsDrivers
  <2>1. /\ ReadsOr("drivers", "complete", collect_drivers(machine))
        /\ DriversFit(collect_drivers(machine))
    BY <1>1, <1>8, DriversAreAccepted DEF ReadsDrivers
  <2> QED BY <2>1, ReadingFits
<1>9. CASE Publish
  BY <1>9, PublishFits
<1>10. CASE MachineChanges
  BY <1>10, ChangeFits
<1>11. CASE UNCHANGED reportVars
  BY <1>11 DEF reportVars, EvidenceFits
<1> QED
  BY <1>2, <1>3, <1>4, <1>5, <1>6, <1>7, <1>8, <1>9, <1>10, <1>11 DEF ReportNext, Done

\* Whatever a machine's files hold and however its drivers come and go while they are read, the
\* daemon refuses its own answer only for a temperature (passive_diagnostics.rs, validate), and
\* the client a report only for a name or a label (schema.rs, validate; probe.rs, compile_report).
THEOREM OnlyReadingsRefused == ReportSpec => []OnlyReadingsAreRefused
<1>1. EvidenceFits => OnlyReadingsAreRefused
  <2> SUFFICES ASSUME EvidenceFits PROVE OnlyReadingsAreRefused
    OBVIOUS
  <2>1. ASSUME daemon.next = Len(Sections) + 1
        PROVE  validate(Diagnostics) \/ BadReading(daemon.seen[2])
    <3>1. daemon.next = 6
      BY <2>1 DEF Sections
    <3>2. SeenFits(daemon.seen, 6)
      BY <3>1 DEF EvidenceFits, DaemonFits
    <3> QED BY <3>2, AnswersFit
  <2>2. probe.at = "refused" => \/ BadName(probe.local)
                                \/ probe.told.is = "value" /\ BadLabel(probe.told.value.fans)
    BY DEF EvidenceFits, ProbeFits
  <2> QED BY <2>1, <2>2 DEF OnlyReadingsAreRefused
<1>2. ReportIInv => ProbeShape
  BY DEF ReportIInv
<1> QED
  BY <1>1, <1>2, NothingIsRead, EvidenceStaysFit, ReportInvariant, PTL DEF ReportSpec

===============================================================================
