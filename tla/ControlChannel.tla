--------------------------- MODULE ControlChannel ---------------------------
(* The way of a request through the application: the window (queue_control_ *)
(* request, apply_control_update), the worker thread (ControlWorker,        *)
(* execute_control_action) and its link with the daemon (ControlClient).    *)
EXTENDS Naturals, Sequences

CONSTANT NoRequest

Settings == {"Fan", "Profile", "Lighting", "Platform"}
Actions == Settings \cup {"Initialize", "Refresh"}
Request == [action : Actions, foreground : BOOLEAN]
Initialize == [action |-> "Initialize", foreground |-> FALSE]
Background == [action |-> "Refresh", foreground |-> FALSE]

ASSUME RequestAssumption == NoRequest \notin Request

\* A setting comes from a click; only a refresh comes from both sides.
Asked ==
  [action : Settings \cup {"Refresh"}, foreground : {TRUE}] \cup {Background}

TouchesPlatform(r) == r.action \in {"Initialize", "Platform", "Refresh"}

\* The lines of one action, and those whose rejection is only reported.
Commands == {"HELLO", "PING", "CAPS", "RGB", "HARDWARE", "PLATFORM", "SET"}
Partial == {"RGB", "HARDWARE", "PLATFORM"}
ReadbackLines == <<"CAPS", "RGB", "PLATFORM">>

VARIABLES
  screen,      \* the fields of AppState that requests touch
  channel,   \* the bounded channel: a request or NoRequest
  worker,    \* the worker thread
  link,   \* Option<ControlClient>, with what is under way on its stream
  results,   \* ControlResultSlot
  executed   \* history: how often the daemon has executed the present SET

channelVars == <<screen, channel, worker, link, results, executed>>

------------------------------------------------------------------------------
(* The window.                                                              *)

Boot ==
  [busy |-> TRUE, platformBusy |-> TRUE, health |-> "Applying",
   status |-> "Connecting", known |-> FALSE, enabled |-> FALSE]

Begin(v, r) ==
  [v EXCEPT !.busy = TRUE,
            !.platformBusy = @ \/ TouchesPlatform(r),
            !.health = IF r.foreground THEN "Applying" ELSE @,
            !.status = IF r.foreground /\ r.action = "Platform"
                       THEN "Writing" ELSE @]

Settle(v, r) ==
  [v EXCEPT !.busy = FALSE, !.platformBusy = @ /\ ~TouchesPlatform(r)]

BugRefuse(v, r) ==
  IF r.foreground \/ r.action = "Initialize"
  THEN [Settle(v, r) EXCEPT !.health = "Warning", !.status = "Failure"] ELSE v

\* fail_control_request, and the error path of apply_control_update.
Refuse(v, r) ==
  LET w == Settle(v, r)
      first == r.action = "Initialize"
      e == [w EXCEPT !.enabled = @ /\ (first => v.known)]
  IN IF r.foreground \/ first
     THEN [e EXCEPT !.health = "Warning", !.status = "Failure"] ELSE e

\* The success path: `partial` when diagnostics or failed readbacks come along.
Accept(v, r, partial) ==
  LET w == Settle(v, r)
      s == IF r.action \in {"Initialize", "Refresh"}
           THEN [w EXCEPT !.known = TRUE, !.enabled = TRUE] ELSE w
  IN IF partial THEN [s EXCEPT !.health = "Warning", !.status = "Partial"]
     ELSE [s EXCEPT !.health = "Healthy", !.status = "Confirmed"]

\* apply_control_update, with ControlOutcome::RefreshedThen as its first half.
Shown(v, u) ==
  LET w == IF u.refresh = "none" THEN v
           ELSE Accept(v, Background, u.refresh = "partial")
  IN IF u.result = "failed" THEN Refuse(w, u.request)
     ELSE Accept(w, u.request, u.result = "partial")

------------------------------------------------------------------------------
(* The link. A message is `own` when the exchange under way has sent its *)
(* command; that is for the properties, no guard reads it.               *)

NoSession == [open |-> FALSE, sent |-> <<>>, answers |-> <<>>]

\* The daemon's answers: "degraded" is a platform state with read errors.
Kinds == {"ok", "degraded", "rejected", "malformed"}

Sent == [command : Commands, own : BOOLEAN]
Received == [kind : Kinds, own : BOOLEAN]
Session ==
  [open : BOOLEAN, sent : Seq(Sent), answers : Seq(Received)]

\* ControlError::invalidates_session.
Invalidates(error) == error \in {"Transport", "Timeout", "Protocol"}

Disown(messages) == [i \in DOMAIN messages |-> [messages[i] EXCEPT !.own = FALSE]]

\* What is left of the link after an exchange of `command` that failed.
Left(s, command, error) ==
  IF Invalidates(error) \/ command = "HELLO" THEN NoSession
  ELSE [s EXCEPT !.sent = Disown(@), !.answers = Disown(@)]

------------------------------------------------------------------------------
(* The worker.                                                              *)

\* What execute_control_action sends for an action.
Script(action, connected) ==
  LET hello == IF connected THEN <<>> ELSE <<"HELLO">>
  IN CASE action = "Initialize" -> hello \o <<"CAPS", "RGB", "HARDWARE", "PLATFORM">>
       [] action = "Refresh" ->
            (IF connected THEN <<"PING">> ELSE hello) \o ReadbackLines
       [] OTHER -> IF connected THEN <<"SET">> ELSE (hello \o ReadbackLines) \o <<"SET">>

Worker ==
  [phase : {"absent", "idle", "next", "waiting"},
   request : Request \cup {NoRequest}, todo : Seq(Commands),
   retried : BOOLEAN, refresh : {"none", "ok", "partial"}, partial : BOOLEAN]

Resting ==
  [phase |-> "idle", request |-> NoRequest, todo |-> <<>>, retried |-> FALSE,
   refresh |-> "none", partial |-> FALSE]

Update ==
  [request : Request, refresh : {"none", "ok", "partial"},
   result : {"ok", "partial", "failed"}]

Publish(result) ==
  /\ results' = Append(results, [request |-> worker.request,
                                 refresh |-> worker.refresh, result |-> result])
  /\ worker' = Resting

Verdict(partial) == IF partial THEN "partial" ELSE "ok"

\* The present command is dealt with; `partial` says whether with a diagnostic.
Advance(partial) ==
  LET rest == Tail(worker.todo)
      p == worker.partial \/ partial
  IN IF rest = <<>> THEN Publish(Verdict(p))
     ELSE /\ worker' = [worker EXCEPT
                !.phase = "next", !.todo = rest,
                !.refresh = IF Head(rest) = "SET" THEN Verdict(p) ELSE @,
                !.partial = p /\ Head(rest) # "SET"]
          /\ UNCHANGED results

BugFailed(s, error) ==
  LET command == Head(worker.todo)
  IN /\ link' = Left(s, command, error)
     /\ IF link'.open THEN Publish("failed")
        ELSE /\ worker' = [worker EXCEPT !.phase = "next", !.refresh = "none",
                             !.partial = FALSE,
                             !.todo = Script(worker.request.action, FALSE)]
             /\ UNCHANGED results
     /\ UNCHANGED <<screen, channel, executed>>

\* The present command has failed. A dead link found by PING is replaced, a
\* rejected part is reported with the rest, the first connection is tried twice.
Failed(s, error) ==
  LET command == Head(worker.todo)
  IN /\ link' = Left(s, command, error)
     /\ IF command = "PING" /\ Invalidates(error)
        THEN /\ worker' = [worker EXCEPT !.phase = "next",
                             !.todo = <<"HELLO">> \o Tail(worker.todo)]
             /\ UNCHANGED results
        ELSE IF command \in Partial /\ ~Invalidates(error) THEN Advance(TRUE)
        ELSE IF worker.request.action = "Initialize" /\ ~worker.retried
        THEN /\ worker' = [worker EXCEPT !.phase = "next", !.retried = TRUE,
                             !.partial = FALSE,
                             !.todo = Script("Initialize", link'.open)]
             /\ UNCHANGED results
        ELSE Publish("failed")
     /\ UNCHANGED <<screen, channel, executed>>

Take ==
  /\ worker.phase = "idle" /\ channel # NoRequest
  /\ worker' = [Resting EXCEPT
       !.phase = "next", !.request = channel,
       !.todo = Script(channel.action, link.open)]
  /\ channel' = NoRequest
  /\ UNCHANGED <<screen, link, results, executed>>

\* A command is written to the stream; HELLO follows a successful connect.
Send ==
  /\ worker.phase = "next"
  /\ worker' = [worker EXCEPT !.phase = "waiting"]
  /\ link' = [link EXCEPT
       !.open = TRUE,
       !.sent = Append(@, [command |-> Head(worker.todo), own |-> TRUE])]
  /\ UNCHANGED <<screen, channel, results, executed>>

\* The connect, the write, or the check of a setting's arguments fails.
SendFails ==
  /\ worker.phase = "next"
  /\ \E error \in {"Transport"} \cup
                  (IF Head(worker.todo) = "SET" THEN {"InvalidRequest"} ELSE {}) :
       Failed(link, error)

\* No capability stands behind the lighting or platform part of a snapshot.
Skip ==
  /\ worker.phase = "next" /\ Head(worker.todo) \in {"RGB", "PLATFORM"}
  /\ Advance(FALSE)
  /\ UNCHANGED <<screen, channel, link, executed>>

\* read_response_line and parse_response.
Receive ==
  /\ worker.phase = "waiting" /\ link.answers # <<>>
  /\ LET kind == Head(link.answers).kind
         unread == [link EXCEPT !.answers = Tail(@)]
     IN \/ /\ kind \in {"ok", "degraded"}
           /\ link' = unread
           /\ Advance(kind = "degraded")
           /\ UNCHANGED <<screen, channel, executed>>
        \/ kind = "rejected" /\ Failed(unread, "CommandRejected")
        \/ kind = "malformed" /\ Failed(unread, "Protocol")

\* CONTROL_RESPONSE_DEADLINE passes, or the daemon closes the stream.
GiveUp ==
  /\ worker.phase = "waiting"
  /\ \E error \in {"Timeout", "Transport"} : Failed(link, error)

------------------------------------------------------------------------------
(* The daemon's thread for this link: one command after the other.          *)

Serve ==
  /\ link.sent # <<>>
  /\ \E kind \in Kinds :
       /\ kind = "degraded" =>
            \/ Head(link.sent).command = "PLATFORM"
            \/ /\ Head(link.sent).command = "SET"
               /\ worker.request # NoRequest /\ worker.request.action = "Platform"
       /\ link' = [link EXCEPT
            !.sent = Tail(@),
            !.answers = Append(@, [kind |-> kind, own |-> Head(link.sent).own])]
       /\ executed' = IF /\ Head(link.sent) = [command |-> "SET", own |-> TRUE]
                         /\ kind # "rejected"
                      THEN executed + 1 ELSE executed
  /\ UNCHANGED <<screen, channel, worker, results>>

------------------------------------------------------------------------------

\* queue_control_request: begin_control_request, then ControlWorker::submit.
Queue(r) ==
  /\ ~screen.busy
  /\ r.action \in Settings => screen.enabled /\ screen.health # "Applying"
  /\ executed' = 0
  /\ IF worker.phase = "absent" \/ channel # NoRequest
     THEN screen' = Refuse(Begin(screen, r), r) /\ UNCHANGED channel
     ELSE screen' = Begin(screen, r) /\ channel' = r
  /\ UNCHANGED <<worker, link, results>>

Deliver ==
  /\ results # <<>>
  /\ screen' = Shown(screen, Head(results))
  /\ results' = Tail(results)
  /\ UNCHANGED <<channel, worker, link, executed>>

\* Root submits Initialize, or publishes its failure if there is no worker.
ChannelInit ==
  /\ screen = Boot
  /\ link = NoSession
  /\ executed = 0
  /\ \/ worker = Resting /\ channel = Initialize /\ results = <<>>
     \/ /\ worker = [Resting EXCEPT !.phase = "absent"] /\ channel = NoRequest
        /\ results = <<[request |-> Initialize, refresh |-> "none",
                        result |-> "failed"]>>

ChannelNext ==
  \/ \E r \in Asked : Queue(r)
  \/ Take \/ Send \/ SendFails \/ Skip \/ Receive \/ GiveUp
  \/ Serve
  \/ Deliver

\* The threads run, a wait ends by its deadline and the window's futures are
\* polled; the daemon need not answer and nobody need click.
ChannelFairness ==
  /\ WF_channelVars(Take)
  /\ WF_channelVars(Send \/ SendFails \/ Skip)
  /\ WF_channelVars(Receive \/ GiveUp)
  /\ WF_channelVars(Deliver)

ChannelSpec == ChannelInit /\ [][ChannelNext]_channelVars
FairChannelSpec == ChannelSpec /\ ChannelFairness

------------------------------------------------------------------------------

Screens ==
  [busy : BOOLEAN, platformBusy : BOOLEAN, health : {"Applying", "Healthy", "Warning"},
   status : {"Connecting", "Writing", "Failure", "Partial", "Confirmed"},
   known : BOOLEAN, enabled : BOOLEAN]

ChannelTypeOK ==
  /\ screen \in Screens
  /\ channel \in Request \cup {NoRequest}
  /\ worker \in Worker
  /\ link \in Session
  /\ results \in Seq(Update)
  /\ executed \in Nat

\* An answer that the worker reads belongs to the command it waits for, also
\* after a request that the daemon answered too late (with_control drops the
\* link then).
NoForeignAnswer ==
  \A i \in DOMAIN link.answers : link.answers[i].own

\* The window says that something is being applied, or keeps its controls locked,
\* exactly as long as one request is under way; nothing is ever queued twice.
BusyIsOneRequest ==
  LET underWay == (IF channel = NoRequest THEN 0 ELSE 1)
                    + (IF worker.request = NoRequest THEN 0 ELSE 1) + Len(results)
  IN /\ underWay = IF screen.busy THEN 1 ELSE 0
     /\ ~screen.busy => ~screen.platformBusy /\ screen.health # "Applying"

\* Every request is answered, whatever the daemon does.
EveryRequestEnds == screen.busy ~> ~screen.busy

------------------------------------------------------------------------------
(* ControlChannel implements OneAnswer: the request is wherever it has got to, *)
(* and the answer is decided when the worker publishes it.                     *)

InFlight ==
  IF channel # NoRequest THEN channel
  ELSE IF worker.request # NoRequest THEN worker.request
  ELSE IF results # <<>> THEN Head(results).request
  ELSE NoRequest

Decided ==
  IF results = <<>> THEN "open"
  ELSE IF Head(results).result = "failed" THEN "failed" ELSE "confirmed"

Ask == INSTANCE OneAnswer WITH
  AskRequests <- Asked \cup {Initialize},
  AskSettings <- {r \in Asked : r.action \in Settings},
  NoAsk <- NoRequest,
  asked <- InFlight, carried <- executed, verdict <- Decided

\* Each accepted request is answered once, a setting is executed at most once for
\* it, and only what was executed is confirmed.
ImplementsOneAnswer == Ask!AskSpec

------------------------------------------------------------------------------
(* Why it does: the inductive invariant.                                       *)

\* A request is in one place at a time, and the window knows of it.
OneUnderWay ==
  /\ worker.request # NoRequest => channel = NoRequest
  /\ results # <<>> =>
       channel = NoRequest /\ worker.request = NoRequest /\ Len(results) = 1
  /\ InFlight \in Asked \cup {Initialize, NoRequest}
  /\ screen.busy <=> InFlight # NoRequest
  /\ screen.platformBusy => screen.busy /\ TouchesPlatform(InFlight)
  /\ screen.health = "Applying" =>
       screen.busy /\ (InFlight.foreground \/ InFlight.action = "Initialize")

\* The command of a setting is the last one of its script, and of no other.
InOrder(todo, action) ==
  /\ todo # <<>>
  /\ \A i \in DOMAIN todo : todo[i] = "SET" <=> i = Len(todo) /\ action \in Settings

WorkIsInOrder ==
  /\ worker.phase \in {"next", "waiting"} <=> worker.request # NoRequest
  /\ worker.phase = "absent" => channel = NoRequest
  /\ worker.request # NoRequest => InOrder(worker.todo, worker.request.action)

\* At most the command that the worker waits for is on the link, or its answer.
LinkCarriesOne ==
  IF worker.phase = "waiting"
  THEN \/ /\ link.sent = <<[command |-> Head(worker.todo), own |-> TRUE]>>
          /\ link.answers = <<>>
       \/ /\ link.sent = <<>>
          /\ Len(link.answers) = 1 /\ link.answers[1].own
  ELSE link.sent = <<>> /\ link.answers = <<>>

\* A setting is executed once it was answered, and not before.
ExecutedWhenAnswered ==
  /\ executed \in {0, 1}
  /\ channel # NoRequest \/ worker.request # NoRequest =>
       (executed = 1 <=> /\ worker.phase = "waiting" /\ Head(worker.todo) = "SET"
                         /\ link.answers # <<>>
                         /\ Head(link.answers).kind # "rejected")
  /\ results # <<>> /\ Head(results).request.action \in Settings =>
       (Head(results).result # "failed" => executed = 1)

ChannelIInv ==
  /\ ChannelTypeOK /\ OneUnderWay /\ WorkIsInOrder /\ LinkCarriesOne
  /\ ExecutedWhenAnswered

=============================================================================
