----------------------------- MODULE AspectResize -----------------------------
(* How the window keeps its aspect ratio: every size that the user or the        *)
(* window manager gives it is followed by at most one corrected size, a switch   *)
(* between the compact and the advanced view by the new view's size, and either  *)
(* waits for the window manager's answer, 350 ms at most.                        *)
(* The screen's scale factor is 1. A correction's generation is counted modulo   *)
(* Timers, and never reused while its timeout is outstanding.                    *)
EXTENDS Integers, Sequences

CONSTANTS Dragged,   \* the sizes the pointer may give the window
          Own,       \* the size that the window manager may insist on
          Moves,     \* how often it takes hold of a handle or moves
          Switches,  \* how often the view is switched
          Timers,    \* generations that are told apart
          Backlog,   \* events that may wait
          NoSize, NoDirection,
          DragOver      \* the event that ends a drag

Size == [width : Nat, height : Nat]
Direction == {"East", "South", "SouthEast"}

ASSUME AspectAssumption ==
  /\ Dragged \subseteq Size /\ Own \in Size
  /\ NoSize \notin Size /\ DragOver \notin Size /\ NoDirection \notin Direction
  /\ Timers \in Nat \ {0} /\ Moves \in Nat /\ Switches \in Nat /\ Backlog \in Nat

VARIABLES resize,   \* AspectResizeState
          native,   \* the window's inner size
          asked,    \* the size the window manager is asked for
          events,   \* window events that wait for their handler
          timers,   \* generations whose timeout is outstanding
          hand,     \* the handle that the pointer holds
          moves, switches,
          upset,    \* the window manager refused or delayed an answer, or took the focus
          height    \* the height at the last switch of the view; 0 after a later drag

resizeVars == <<resize, native, asked, events, timers, hand, moves, switches, upset,
                height>>

-------------------------------------------------------------------------------
TitleBar == 48
MinHeight == 690
MaxHeight == 1100
\* The view is designed for these sizes, in units of ten pixels.
DesignHeight == 65
DesignWidth(advanced) == IF advanced THEN 120 ELSE 62

Distance(m, n) == IF m > n THEN m - n ELSE n - m
Between(n, low, high) == IF n < low THEN low ELSE IF n > high THEN high ELSE n
Rounded(numerator, denominator) == (2 * numerator + denominator) \div (2 * denominator)

Close(s, t) == Distance(s.width, t.width) <= 2 /\ Distance(s.height, t.height) <= 2

\* The size of the view for a height that is given in parts of 1 / `of`.
SizeOf(advanced, h, of) ==
  LET bounded == Between(h, MinHeight * of, MaxHeight * of)
  IN [width |-> Rounded((bounded - TitleBar * of) * DesignWidth(advanced),
                        DesignHeight * of),
      height |-> Rounded(bounded, of)]

WidthDriven(requested, accepted, advanced, direction) ==
  \/ direction = "East"
  \/ /\ direction # "South"
     /\ Distance(requested.width, accepted.width) * DesignHeight
          >= Distance(requested.height, accepted.height) * DesignWidth(advanced)

aspect_constrained_size(requested, accepted, advanced, direction) ==
  LET of == DesignWidth(advanced)
  IN IF WidthDriven(requested, accepted, advanced, direction)
     THEN SizeOf(advanced, requested.width * DesignHeight + TitleBar * of, of)
     ELSE SizeOf(advanced, requested.height, 1)

-------------------------------------------------------------------------------
NoCorrection == [target |-> NoSize, generation |-> 0, intermediate |-> FALSE]
Waiting(state) == state.pending # NoCorrection

\* The size is the next one to correct. One idle callback does it.
Scheduled(state, size) == [state EXCEPT !.latest = size, !.scheduled = TRUE]

BugForgetsTheEnd(state, size) ==
  [state EXCEPT !.pending = NoCorrection, !.latest = NoSize, !.accepted = size,
                !.finalize = FALSE]
BugCorrectsAgain(state, size) ==
  Scheduled(BugForgetsTheEnd(state, size), size)

\* The correction in flight is over, and the window has the size it has.
Over(state, size) ==
  LET over == [state EXCEPT !.pending = NoCorrection, !.latest = NoSize,
                            !.accepted = size, !.finalize = FALSE]
  IN IF state.finalize THEN Scheduled(over, size) ELSE over

observe_resize(size) ==
  IF ~Waiting(resize) THEN Scheduled(resize, size)
  ELSE IF Close(resize.pending.target, size)
  THEN Over([resize EXCEPT !.finalize = FALSE], size)
  ELSE IF resize.pending.intermediate THEN resize ELSE Over(resize, size)

expire_pending_correction(generation) ==
  IF Waiting(resize) /\ resize.pending.generation = generation
  THEN Over(resize, native)
  ELSE resize

finish_drag ==
  LET ended == [resize EXCEPT !.direction = NoDirection]
  IN IF resize.direction = NoDirection THEN resize
     ELSE IF Waiting(resize) THEN [ended EXCEPT !.latest = NoSize, !.finalize = TRUE]
     ELSE Scheduled([ended EXCEPT !.finalize = FALSE], native)

Correcting(state, target, intermediate) ==
  LET next == (state.generation + 1) % Timers
  IN [state EXCEPT !.generation = next, !.finalize = FALSE,
                   !.pending = [target |-> target, generation |-> next,
                                intermediate |-> intermediate]]

begin_pending_correction(state, target, intermediate) ==
  /\ resize' = Correcting(state, target, intermediate)
  /\ resize'.generation \notin timers
  /\ timers' = timers \cup {resize'.generation}
  /\ asked' = target

-------------------------------------------------------------------------------
(* The window manager keeps a size within the view's bounds.                     *)

Bounded(size, advanced) ==
  LET low == SizeOf(advanced, MinHeight, 1)
      high == SizeOf(advanced, MaxHeight, 1)
  IN [width |-> Between(size.width, low.width, high.width),
      height |-> Between(size.height, low.height, high.height)]
Fit(size) == Bounded(size, resize.advanced)

Resizes(size) ==
  /\ native' = size
  /\ events' = IF size = native THEN events ELSE Append(events, size)
  /\ Len(events) < Backlog

Along(direction, size) ==
  [width |-> IF direction = "South" THEN native.width ELSE size.width,
   height |-> IF direction = "East" THEN native.height ELSE size.height]

\* The press of the button is handled after the release before it.
DragStarts ==
  /\ hand = NoDirection /\ moves > 0
  /\ \A i \in DOMAIN events : events[i] # DragOver
  /\ \E d \in Direction :
       /\ hand' = d
       /\ resize' = [resize EXCEPT !.accepted = native, !.direction = d]
  /\ moves' = moves - 1 /\ height' = 0
  /\ UNCHANGED <<native, asked, events, timers, switches, upset>>

DragMoves ==
  /\ hand # NoDirection /\ moves > 0
  /\ moves' = moves - 1
  /\ \E s \in Dragged : Resizes(Fit(Along(hand, s)))
  /\ UNCHANGED <<resize, asked, timers, hand, switches, upset, height>>

\* The release of the button, or the loss of the focus, reaches the window.
DragEnds ==
  /\ hand # NoDirection /\ Len(events) < Backlog
  /\ hand' = NoDirection
  /\ events' = Append(events, DragOver)
  /\ UNCHANGED <<resize, native, asked, timers, moves, switches, upset, height>>

\* The focus is lost in the middle of a drag.
LosesFocus ==
  /\ hand # NoDirection /\ Len(events) < Backlog /\ ~upset
  /\ events' = Append(events, DragOver) /\ upset' = TRUE
  /\ UNCHANGED <<resize, native, asked, timers, hand, moves, switches, height>>

Grants ==
  /\ asked # NoSize
  /\ Resizes(Fit(asked)) /\ asked' = NoSize
  /\ UNCHANGED <<resize, timers, hand, moves, switches, upset, height>>

\* It gives the window another size, or leaves it the one the pointer gives it.
Overrules ==
  /\ asked # NoSize /\ asked' = NoSize
  /\ \/ Resizes(native) /\ upset' = (upset \/ hand = NoDirection)
     \/ Resizes(Fit(Own)) /\ upset' = TRUE
  /\ UNCHANGED <<resize, timers, hand, moves, switches, height>>

\* New bounds apply before the size that was asked for.
Constrains ==
  /\ Fit(native) # native
  /\ Resizes(Fit(native))
  /\ UNCHANGED <<resize, asked, timers, hand, moves, switches, upset, height>>

-------------------------------------------------------------------------------
(* The window's handlers.                                                        *)

HandleEvent ==
  /\ events # <<>>
  /\ resize' = IF Head(events) = DragOver THEN finish_drag ELSE observe_resize(Head(events))
  /\ events' = Tail(events)
  /\ UNCHANGED <<native, asked, timers, hand, moves, switches, upset, height>>

Correct ==
  LET idle == [resize EXCEPT !.scheduled = FALSE, !.latest = NoSize]
      target == aspect_constrained_size(resize.latest, resize.accepted,
                                        resize.advanced, resize.direction)
  IN IF resize.latest = NoSize
     THEN resize' = idle /\ UNCHANGED <<asked, timers>>
     ELSE IF Close(target, resize.latest)
     THEN /\ resize' = [idle EXCEPT !.accepted = target, !.pending = NoCorrection,
                                    !.finalize = FALSE]
          /\ UNCHANGED <<asked, timers>>
     ELSE begin_pending_correction(idle, target, FALSE)

IdleCallback ==
  /\ resize.scheduled
  /\ Correct
  /\ UNCHANGED <<native, events, hand, moves, switches, upset, height>>

\* The timeout of a correction whose answer may still come.
Early(g) ==
  /\ Waiting(resize) /\ resize.pending.generation = g
  /\ asked # NoSize \/ events # <<>>

Timeout(g) ==
  /\ g \in timers
  /\ timers' = timers \ {g}
  /\ resize' = expire_pending_correction(g)
  /\ upset' = (upset \/ Early(g))
  /\ UNCHANGED <<native, asked, events, hand, moves, switches, height>>

\* A click comes when the events before it have been handled, but perhaps before
\* the window manager's answer.
set_window_mode ==
  /\ hand = NoDirection /\ switches > 0 /\ events = <<>>
  /\ switches' = switches - 1
  /\ LET view == ~resize.advanced
     IN begin_pending_correction(
          [resize EXCEPT !.advanced = view, !.latest = NoSize, !.direction = NoDirection],
          SizeOf(view, native.height, 1), TRUE)
  /\ height' = native.height
  /\ UNCHANGED <<native, events, hand, moves, upset>>

-------------------------------------------------------------------------------
AspectInit ==
  /\ native = SizeOf(FALSE, 830, 1)
  /\ resize = [advanced |-> FALSE, accepted |-> native, pending |-> NoCorrection,
               generation |-> 0, latest |-> NoSize, scheduled |-> FALSE,
               finalize |-> FALSE, direction |-> NoDirection]
  /\ asked = NoSize /\ events = <<>> /\ timers = {} /\ hand = NoDirection
  /\ moves = Moves /\ switches = Switches /\ upset = FALSE /\ height = 0

User == DragStarts \/ DragMoves \/ LosesFocus \/ set_window_mode
Manager == Grants \/ Overrules \/ Constrains
Window == HandleEvent \/ IdleCallback \/ \E g \in 0 .. Timers - 1 : Timeout(g)

AspectNext == User \/ DragEnds \/ Manager \/ Window

-------------------------------------------------------------------------------
AtRest ==
  /\ hand = NoDirection /\ asked = NoSize /\ events = <<>>
  /\ ~resize.scheduled /\ ~Waiting(resize)

\* How far a size is from the aspect of the view, for each unit of the design.
Off(size, advanced) ==
  Distance(size.width * DesignHeight, (size.height - TitleBar) * DesignWidth(advanced))

\* Either side may be two pixels from a size of the view, which is itself rounded.
OnAspect(size, advanced) ==
  2 * Off(size, advanced) <= 5 * (DesignHeight + DesignWidth(advanced))

(* When everything has been handled, the window has its aspect ratio, and the    *)
(* height from before the last switch of the view, unless the window manager     *)
(* refused or delayed an answer or took the focus in the middle of a drag.       *)
RestsInShape ==
  AtRest /\ ~upset =>
    /\ OnAspect(native, resize.advanced)
    /\ height > 0 => native.height = height

-------------------------------------------------------------------------------
(* What makes it so: the inductive invariant.                                    *)

Heights == MinHeight .. MaxHeight
Corrections == [target : Size, generation : 0 .. Timers - 1, intermediate : BOOLEAN]
ResizeStates ==
  [advanced : BOOLEAN, accepted : Size, pending : Corrections \cup {NoCorrection},
   generation : 0 .. Timers - 1, latest : Size \cup {NoSize}, scheduled : BOOLEAN,
   finalize : BOOLEAN, direction : Direction \cup {NoDirection}]
Events == Seq(Size \cup {DragOver})

AspectTypeOK ==
  /\ resize \in ResizeStates
  /\ native \in Size /\ native.height \in Heights
  /\ asked \in Size \cup {NoSize}
  /\ events \in Events
  /\ timers \subseteq 0 .. Timers - 1
  /\ hand \in Direction \cup {NoDirection}
  /\ moves \in Nat /\ switches \in Nat /\ upset \in BOOLEAN /\ height \in Nat

DragEnding == \E i \in DOMAIN events : events[i] = DragOver

\* A drag that the window knows of ends once, when it handles the release.
DragEndsOnce ==
  ~upset =>
    /\ hand # NoDirection \/ DragEnding => resize.direction # NoDirection
    /\ hand # NoDirection => ~DragEnding
    /\ \A i, j \in DOMAIN events : events[i] = DragOver /\ events[j] = DragOver => i = j

\* The last size that waits is the one the window has.
LastIsNative ==
  \A i \in DOMAIN events :
    /\ events[i] # DragOver
    /\ \A j \in DOMAIN events : j > i => events[j] = DragOver
    => events[i] = native

\* A size of the view, up to rounding.
Exact(size, advanced) ==
  /\ Bounded(size, advanced) = size
  /\ 2 * Off(size, advanced) <= DesignHeight + DesignWidth(advanced)

CorrectionsFit ==
  /\ asked # NoSize => Exact(asked, resize.advanced)
  /\ Waiting(resize) => Exact(resize.pending.target, resize.advanced) /\ resize.latest = NoSize

\* A window that nobody drags and that nothing more is asked of has its shape, or a
\* correction is still to be begun.
ShapeIsKept ==
  hand = NoDirection /\ ~DragEnding /\ asked = NoSize /\ ~upset =>
    \/ OnAspect(native, resize.advanced)
    \/ Waiting(resize) /\ resize.finalize
    \/ ~Waiting(resize) /\ (events # <<>> \/ (resize.scheduled /\ resize.latest = native))

\* From a switch to the next drag the window has its height, and at most one event that
\* is not about the view's own size for that height.
HeightIsKept ==
  LET view == SizeOf(resize.advanced, height, 1)
  IN height > 0 /\ ~upset =>
       /\ hand = NoDirection /\ resize.direction = NoDirection /\ ~resize.finalize
       /\ native.height = height
       /\ asked \in {NoSize, view} /\ (asked = NoSize => native = view)
       /\ Waiting(resize) => resize.pending.target = view /\ resize.pending.intermediate
       /\ ~Waiting(resize) \/ events # <<>> => Fit(native) = native
       /\ \A i \in DOMAIN events :
            events[i] \in Size /\ (i > 1 \/ ~Waiting(resize) => events[i] = view)
       /\ resize.latest \in {NoSize, view}

AspectIInv ==
  /\ AspectTypeOK /\ DragEndsOnce /\ LastIsNative /\ CorrectionsFit /\ ShapeIsKept
  /\ HeightIsKept

-------------------------------------------------------------------------------
TooEarly == \E g \in timers : Early(g) /\ Timeout(g)

(* No correction stays in flight and none calls for the next one for ever,       *)
(* whatever the window manager answers, if it does so in time.                   *)
WindowSettles == []<><<TooEarly>>_resizeVars \/ <>[]AtRest

AspectFairness ==
  /\ WF_resizeVars(DragEnds)
  /\ WF_resizeVars(Grants \/ Overrules)
  /\ WF_resizeVars(Constrains)
  /\ WF_resizeVars(HandleEvent)
  /\ WF_resizeVars(IdleCallback)
  /\ \A g \in 0 .. Timers - 1 : WF_resizeVars(Timeout(g))

AspectSpec == AspectInit /\ [][AspectNext]_resizeVars /\ AspectFairness

===============================================================================
