----------------------------- MODULE FanSessions -----------------------------
(* The fan lease of the privileged daemon: one thread per control client      *)
(* (serve_client), the runtime mutex they share, the cross-process mutation   *)
(* lock, and the processes systemd runs beside the daemon (`--resume` after   *)
(* sleep, `--failsafe-auto` after a stop).                                    *)
(*                                                                            *)
(* Definitions named Bug... are mistakes the properties must detect; no action *)
(* uses them.                                                                 *)
(*                                                                            *)
(* Every critical section of serve_client under the runtime mutex is one      *)
(* action; socket reads and writes happen between actions. A daemon step that *)
(* waits for the mutation lock holds the mutex, so nobody can observe the     *)
(* wait: it either starts when the lock is free or gives up on a busy lock.   *)
EXTENDS Naturals, FiniteSets, FanModes

CONSTANTS
  Clients,            \* control clients that may connect
  MaxControlClients,  \* admission bound of the daemon
  GamingWmi,          \* fan backend is AcerGamingWmi (else KernelPwm)
  Events,             \* which of "heat", "reload", "resume", "stop" may happen
  FaultLimit,         \* bound: failed firmware recoveries, killed helpers
  NoClient            \* fan_owner = None

ASSUME ConstantsAssumption ==
  /\ IsFiniteSet(Clients) /\ NoClient \notin Clients
  /\ MaxControlClients \in Nat \ {0}
  /\ GamingWmi \in BOOLEAN
  /\ FaultLimit \in Nat

VARIABLES
  daemon,    \* the service: "up", "stopping" (ExecStopPost pending), "down"
  pc,        \* where each client's thread is
  session,   \* FanSessionState of each thread
  reply,     \* the response about to be written: "ok" or "err"
  snapshot,  \* whether a thread's AcerHardware still names live hwmon paths
  owner,     \* DaemonRuntime.fan_owner
  fans,      \* the machine's fan mode
  hot,       \* a temperature is at its limit or cannot be read
  helper,    \* `--resume` / `--failsafe-auto`: "idle", "waiting", "holding", "tail"
  faults,    \* faults so far
  \* History, read by properties only:
  confirmed, \* client whose acknowledged Maximum is the latest fan request
  revoked,   \* "yes": another client overrode this lease; "profile": and the
             \* client has since claimed again with a PROFILE command
  excused    \* a failsafe itself failed and left the fans off Auto

vars == <<daemon, pc, session, reply, snapshot, owner, fans, hot, helper,
          faults, confirmed, revoked, excused>>

SessionState == {"Automatic", "PendingMutation", "Manual",
                 "MaximumAwaitingResponse", "PersistentMaximum",
                 "EmergencyMaximum"}
BugUnwatchedManual(s) == s = "PendingMutation"
BugUnwatchedPending(s) == s = "Manual"
BugMaximumNotLeased(s) == s \in {"PendingMutation", "Manual", "EmergencyMaximum"}
BugNeverPersistent(s) == s

NeedsWatchdog(s) == s \in {"PendingMutation", "Manual"}
RequiresAuto(s) == s \in {"PendingMutation", "Manual",
                          "MaximumAwaitingResponse", "EmergencyMaximum"}
ResponseDelivered(s) ==
  IF s = "MaximumAwaitingResponse" THEN "PersistentMaximum" ELSE s
BugReleasesPending(s) == s \notin {"Manual", "EmergencyMaximum"}
\* release_unleased_fans gives up the ownership of any other state.
EndsLease(s) == ~RequiresAuto(s)

FanCommand == {"auto", "maximum", "manual"}
SafetyOverride == {"auto", "maximum"}

LockFree == helper \notin {"holding", "tail"}
Live(c) == pc[c] # "gone"
LiveClients == {c \in Clients : Live(c)}
Leased(c) == owner = c /\ RequiresAuto(session[c])
LeaseHeld == \E c \in Clients : Leased(c)

MaySettle(r) == r.fault => faults < FaultLimit
CountFault(r) == faults' = IF r.fault THEN faults + 1 ELSE faults

\* The confirmed Maximum is history once the mode has left Maximum.
FansBecome(mode) ==
  /\ fans' = mode
  /\ confirmed' = IF mode = "Maximum" THEN confirmed ELSE NoClient

\* A thread's local state goes with it.
ForgetLocals(cs) ==
  /\ session' = [c \in Clients |-> IF c \in cs THEN "Automatic" ELSE session[c]]
  /\ reply' = [c \in Clients |-> IF c \in cs THEN "err" ELSE reply[c]]
  /\ snapshot' = [c \in Clients |-> IF c \in cs THEN "fresh" ELSE snapshot[c]]
  /\ revoked' = [c \in Clients |-> IF c \in cs THEN "no" ELSE revoked[c]]

Init ==
  /\ daemon = "up"
  /\ pc = [c \in Clients |-> "gone"]
  /\ session = [c \in Clients |-> "Automatic"]
  /\ reply = [c \in Clients |-> "err"]
  /\ snapshot = [c \in Clients |-> "fresh"]
  /\ owner = NoClient
  /\ fans = "Auto"
  /\ hot = FALSE
  /\ helper = "idle"
  /\ faults = 0
  /\ confirmed = NoClient
  /\ revoked = [c \in Clients |-> "no"]
  /\ excused = FALSE

-----------------------------------------------------------------------------
(* Connection and handshake.                                                  *)

\* ClientPermit: the count of live threads is compared before it is raised.
Admits(active) == active < MaxControlClients

Connect(c) ==
  /\ daemon = "up"
  /\ pc[c] = "gone"
  /\ Admits(Cardinality(LiveClients))
  /\ pc' = [pc EXCEPT ![c] = "hello"]
  /\ UNCHANGED <<daemon, session, reply, snapshot, owner, fans, hot, helper,
                 faults, confirmed, revoked, excused>>

Move(c, from, to) ==
  /\ pc[c] = from
  /\ pc' = [pc EXCEPT ![c] = to]
  /\ UNCHANGED <<daemon, session, reply, snapshot, owner, fans, hot, helper,
                 faults, confirmed, revoked, excused>>

HandshakeAccepted(c) == Move(c, "hello", "top")
\* Rejected version, end of stream, or CLIENT_HANDSHAKE_TIMEOUT.
HandshakeFails(c) == Move(c, "hello", "closing")

-----------------------------------------------------------------------------
(* Top of the loop: watchdog of the lease holder, or notice of a revocation.  *)

PollSafe(c) ==
  /\ owner = c => ~NeedsWatchdog(session[c]) \/ (~hot /\ snapshot[c] = "fresh")
  /\ pc' = [pc EXCEPT ![c] = "reading"]
  /\ session' = [session EXCEPT ![c] =
       IF owner # c /\ RequiresAuto(@) THEN "Automatic" ELSE @]
  /\ UNCHANGED <<fans, faults, confirmed>>

\* enforce_thermal_watchdog: the state changes before the lock is taken, the
\* session's own snapshot is used, and an error ends the session.
PollEmergency(c) ==
  /\ owner = c /\ NeedsWatchdog(session[c])
  /\ hot \/ snapshot[c] = "stale"
  /\ session' = [session EXCEPT ![c] = "EmergencyMaximum"]
  /\ \/ /\ ~LockFree \/ snapshot[c] = "stale"
        /\ pc' = [pc EXCEPT ![c] = "closing"]
        /\ UNCHANGED <<fans, faults, confirmed>>
     \/ /\ LockFree /\ snapshot[c] = "fresh"
        /\ \E r \in ApplyOutcomes("Maximum") :
             /\ MaySettle(r) /\ CountFault(r)
             /\ FansBecome(r.mode)
             /\ pc' = [pc EXCEPT ![c] = IF r.ok THEN "reading" ELSE "closing"]

PollLease(c) ==
  /\ pc[c] = "top"
  /\ PollSafe(c) \/ PollEmergency(c)
  /\ UNCHANGED <<daemon, reply, snapshot, owner, hot, helper, revoked, excused>>

\* The socket read: one second without a byte, or end of stream / bad frame.
ReadTimeout(c) == Move(c, "reading", "top")
Hangup(c) == Move(c, "reading", "closing")

-----------------------------------------------------------------------------
(* One command: claim, then execute_command, under one hold of the mutex.     *)

Respond(c, result) ==
  /\ pc' = [pc EXCEPT ![c] = "writing"]
  /\ reply' = [reply EXCEPT ![c] = result]

MayClaim(c, command) == owner \in {c, NoClient} \/ command \in SafetyOverride

ClaimRefused(c, command) ==
  /\ pc[c] = "reading"
  /\ ~MayClaim(c, command)
  /\ Respond(c, "err")
  /\ UNCHANGED <<daemon, session, snapshot, owner, fans, hot, helper, faults,
                 confirmed, revoked, excused>>

\* PING, CAPS, HARDWARE, LIGHTING, PLATFORM...: no claim, no fan write. CAPS
\* replaces the thread's snapshot by a new discovery.
OtherCommand(c) ==
  /\ pc[c] = "reading"
  /\ \E result \in {"ok", "err"} : Respond(c, result)
  /\ snapshot' \in {snapshot, [snapshot EXCEPT ![c] = "fresh"]}
  /\ UNCHANGED <<daemon, session, owner, fans, hot, helper, faults, confirmed,
                 revoked, excused>>

\* refreshed() runs once the mutation lock is held, and may fail.
Rediscover(c) ==
  snapshot' \in IF LockFree THEN {snapshot, [snapshot EXCEPT ![c] = "fresh"]}
                            ELSE {snapshot}

\* A claim takes the lease from whoever held it.
Claim(c, own) ==
  /\ owner' = c
  /\ revoked' = [d \in Clients |->
       IF d = c THEN own ELSE IF d = owner THEN "yes" ELSE revoked[d]]

Target(command) == CASE command = "auto" -> "Auto"
                     [] command = "maximum" -> "Maximum"
                     [] command = "manual" -> "Manual"
Confirmed(command) == CASE command = "auto" -> "Automatic"
                        [] command = "maximum" -> "MaximumAwaitingResponse"
                        [] command = "manual" -> "Manual"

\* begin_mutation comes first: whatever fails afterwards leaves a leased
\* PendingMutation. Before any write the command may fail on a busy lock, on
\* the new discovery of the hardware, or on its arguments and capabilities.
FanMutation(c, command) ==
  /\ pc[c] = "reading"
  /\ MayClaim(c, command)
  /\ Claim(c, "no")
  /\ confirmed' = NoClient
  /\ excused' = FALSE
  /\ \/ /\ Rediscover(c)
        /\ session' = [session EXCEPT ![c] = "PendingMutation"]
        /\ Respond(c, "err")
        /\ UNCHANGED <<fans, faults>>
     \/ /\ LockFree
        /\ snapshot' = [snapshot EXCEPT ![c] = "fresh"]
        /\ \E r \in ApplyOutcomes(Target(command)) :
             /\ MaySettle(r) /\ CountFault(r)
             /\ fans' = r.mode
             /\ session' = [session EXCEPT ![c] =
                  IF r.ok THEN Confirmed(command) ELSE "PendingMutation"]
             /\ Respond(c, IF r.ok THEN "ok" ELSE "err")
  /\ UNCHANGED <<daemon, hot, helper>>

ProfileClaim(c) ==
  /\ pc[c] = "reading"
  /\ MayClaim(c, "profile")

\* PROFILE that writes no fan mode: the lock is busy, the Gaming-WMI fan state
\* cannot be read or is Auto already, or the backend is KernelPwm. The session
\* state stays as it was, although the claim has made this client the owner.
ProfileKeepsFans(c) ==
  /\ ProfileClaim(c)
  /\ Claim(c, IF revoked[c] = "yes" THEN "profile" ELSE revoked[c])
  /\ Rediscover(c)
  /\ \/ Respond(c, "err")
     \/ /\ LockFree /\ snapshot'[c] = "fresh" /\ (GamingWmi => fans = "Auto")
        /\ Respond(c, "ok")
  /\ UNCHANGED <<daemon, session, fans, hot, helper, faults, confirmed, excused>>

\* PROFILE on Gaming-WMI with the fans off Auto returns them to Auto first.
ProfileResetsFans(c) ==
  /\ ProfileClaim(c)
  /\ GamingWmi /\ LockFree /\ fans # "Auto"
  /\ Claim(c, "no")
  /\ confirmed' = NoClient
  /\ excused' = FALSE
  /\ snapshot' = [snapshot EXCEPT ![c] = "fresh"]
  /\ \E r \in ApplyOutcomes("Auto") :
       /\ MaySettle(r) /\ CountFault(r)
       /\ fans' = r.mode
       /\ session' = [session EXCEPT ![c] =
            IF r.ok THEN "Automatic" ELSE "PendingMutation"]
       /\ \/ Respond(c, "err")
          \/ r.ok /\ Respond(c, "ok")
  /\ UNCHANGED <<daemon, hot, helper>>

-----------------------------------------------------------------------------
(* The response, and the bookkeeping that follows a delivered response.       *)

Deliver(c) ==
  /\ pc[c] = "writing"
  /\ pc' = [pc EXCEPT ![c] = "written"]
  /\ confirmed' = IF /\ reply[c] = "ok" /\ session[c] = "MaximumAwaitingResponse"
                      /\ owner = c /\ fans = "Maximum"
                    THEN c ELSE confirmed
  /\ UNCHANGED <<daemon, session, reply, snapshot, owner, fans, hot, helper,
                 faults, revoked, excused>>

WriteFails(c) == Move(c, "writing", "closing")

Settle(c) ==
  /\ pc[c] = "written"
  /\ pc' = [pc EXCEPT ![c] = "top"]
  /\ LET s == IF owner = c /\ reply[c] = "ok"
                THEN ResponseDelivered(session[c]) ELSE session[c]
     IN /\ session' = [session EXCEPT ![c] = s]
        /\ owner' = IF owner = c /\ EndsLease(s) THEN NoClient ELSE owner
  /\ reply' = [reply EXCEPT ![c] = "err"]
  /\ UNCHANGED <<daemon, snapshot, fans, hot, helper, faults, confirmed,
                 revoked, excused>>

BugCleanupSkipsFans(c) ==
  /\ pc[c] = "closing"
  /\ pc' = [pc EXCEPT ![c] = "gone"]
  /\ owner' = IF owner = c THEN NoClient ELSE owner
  /\ ForgetLocals({c})
  /\ UNCHANGED <<daemon, fans, hot, helper, faults, confirmed, excused>>

\* After the loop: the owner of a leased state returns the fans to Auto; the
\* lease ends whether or not that worked.
Cleanup(c) ==
  /\ pc[c] = "closing"
  /\ pc' = [pc EXCEPT ![c] = "gone"]
  /\ owner' = IF owner = c THEN NoClient ELSE owner
  /\ \/ /\ Leased(c) /\ LockFree
        /\ \E r \in ApplyOutcomes("Auto") :
             /\ MaySettle(r) /\ CountFault(r)
             /\ FansBecome(r.mode)
             /\ excused' = (r.mode # "Auto")
     \/ /\ ~(Leased(c) /\ LockFree)
        /\ UNCHANGED <<fans, faults, confirmed, excused>>
  /\ ForgetLocals({c})
  /\ UNCHANGED <<daemon, hot, helper>>

-----------------------------------------------------------------------------
(* The machine and systemd.                                                   *)

Heat ==
  /\ "heat" \in Events
  /\ hot' = ~hot
  /\ UNCHANGED <<daemon, pc, session, reply, snapshot, owner, fans, helper,
                 faults, confirmed, revoked, excused>>

\* hwmon devices are renumbered: every open snapshot names dead paths.
DriverReload ==
  /\ "reload" \in Events
  /\ snapshot' = [c \in Clients |-> IF Live(c) THEN "stale" ELSE "fresh"]
  /\ UNCHANGED <<daemon, pc, session, reply, owner, fans, hot, helper, faults,
                 confirmed, revoked, excused>>

\* The daemon dies or is stopped, perhaps in the middle of a fan transaction.
DaemonStops ==
  /\ "stop" \in Events
  /\ daemon = "up"
  /\ daemon' = "stopping"
  /\ pc' = [c \in Clients |-> "gone"]
  /\ owner' = NoClient
  /\ confirmed' = NoClient
  /\ fans' \in IF LockFree /\ \E c \in Clients : pc[c] \in {"top", "reading", "closing"}
                 THEN FanMode ELSE {fans}
  /\ ForgetLocals(Clients)
  /\ UNCHANGED <<hot, helper, faults, excused>>

BugStopKeepsFans ==
  /\ daemon = "stopping" /\ helper = "idle"
  /\ daemon' = "down"
  /\ UNCHANGED <<pc, session, reply, snapshot, owner, fans, hot, helper,
                 faults, confirmed, revoked, excused>>

\* ExecStopPost. systemd runs it after the daemon and a pending reload ended,
\* so nobody competes for the lock.
FailsafeAuto ==
  /\ daemon = "stopping" /\ helper = "idle"
  /\ daemon' = "down"
  /\ \E r \in ApplyOutcomes("Auto") :
       /\ MaySettle(r) /\ CountFault(r)
       /\ FansBecome(r.mode)
       /\ excused' = (r.mode # "Auto")
  /\ UNCHANGED <<pc, session, reply, snapshot, owner, hot, helper, revoked>>

DaemonStarts ==
  /\ daemon = "down"
  /\ daemon' = "up"
  /\ UNCHANGED <<pc, session, reply, snapshot, owner, fans, hot, helper,
                 faults, confirmed, revoked, excused>>

HelperMoves(from, to) ==
  /\ helper = from
  /\ helper' = to
  /\ UNCHANGED <<daemon, pc, session, reply, snapshot, owner, fans, hot,
                 faults, confirmed, revoked, excused>>

\* The sleep hook reloads an active service only.
ResumeStarts == "resume" \in Events /\ daemon = "up" /\ HelperMoves("idle", "waiting")
ResumeLocks == HelperMoves("waiting", "holding")
\* A daemon transaction kept the lock for the whole MUTATION_LOCK_TIMEOUT.
ResumeBusy == daemon = "up" /\ HelperMoves("waiting", "idle")
ResumeFinishes == HelperMoves("tail", "idle")

\* The helper leaves the fans off Auto and no watched lease will end that: an
\* EmergencyMaximum lease is not watched, and a lease on an undelivered Maximum
\* ends when its response is delivered.
Unaccounted ==
  /\ fans' # "Auto" /\ confirmed' = NoClient
  /\ \A c \in Clients : Leased(c) => ~NeedsWatchdog(session[c])

ResumeApplies ==
  /\ helper = "holding"
  /\ \E r \in ApplyOutcomes("Auto") :
       /\ MaySettle(r) /\ CountFault(r)
       /\ FansBecome(r.mode)
       /\ helper' = IF r.ok THEN "tail" ELSE "idle"
       /\ excused' = IF r.mode = "Auto" THEN FALSE ELSE excused \/ Unaccounted
  /\ UNCHANGED <<daemon, pc, session, reply, snapshot, owner, hot, revoked>>

ResumeDies ==
  /\ helper # "idle"
  /\ faults < FaultLimit
  /\ faults' = faults + 1
  /\ helper' = "idle"
  /\ UNCHANGED <<daemon, pc, session, reply, snapshot, owner, fans, hot,
                 confirmed, revoked>>
  /\ excused' = (excused \/ Unaccounted)

-----------------------------------------------------------------------------

ClientStep(c) ==
  \/ Connect(c) \/ HandshakeAccepted(c) \/ HandshakeFails(c)
  \/ PollLease(c) \/ ReadTimeout(c) \/ Hangup(c)
  \/ OtherCommand(c)
  \/ \E command \in FanCommand : FanMutation(c, command)
  \/ \E command \in FanCommand \cup {"profile"} : ClaimRefused(c, command)
  \/ ProfileKeepsFans(c) \/ ProfileResetsFans(c)
  \/ Deliver(c) \/ WriteFails(c) \/ Settle(c) \/ Cleanup(c)

HelperStep ==
  \/ ResumeStarts \/ ResumeLocks \/ ResumeBusy \/ ResumeApplies
  \/ ResumeFinishes \/ ResumeDies

ServiceStep == DaemonStops \/ FailsafeAuto \/ DaemonStarts

Next ==
  \/ \E c \in Clients : ClientStep(c)
  \/ HelperStep
  \/ ServiceStep
  \/ Heat \/ DriverReload

Spec == Init /\ [][Next]_vars

(* Threads run, the socket timeouts of one and five seconds fire, the helper  *)
(* makes progress once it holds the lock, and systemd completes a stop.       *)
Fairness ==
  /\ \A c \in Clients :
       /\ WF_vars(HandshakeFails(c))
       /\ WF_vars(PollLease(c))
       /\ WF_vars(ReadTimeout(c))
       /\ WF_vars(Deliver(c) \/ WriteFails(c))
       /\ WF_vars(Settle(c))
       /\ WF_vars(Cleanup(c))
  /\ WF_vars(ResumeLocks) /\ WF_vars(ResumeApplies) /\ WF_vars(ResumeFinishes)
  /\ WF_vars(FailsafeAuto)

FairSpec == Spec /\ Fairness

-----------------------------------------------------------------------------
(* What the daemon promises.                                                  *)

TypeOK ==
  /\ daemon \in {"up", "stopping", "down"}
  /\ pc \in [Clients -> {"gone", "hello", "top", "reading", "writing",
                         "written", "closing"}]
  /\ session \in [Clients -> SessionState]
  /\ reply \in [Clients -> {"ok", "err"}]
  /\ snapshot \in [Clients -> {"fresh", "stale"}]
  /\ owner \in Clients \cup {NoClient}
  /\ fans \in FanMode
  /\ hot \in BOOLEAN
  /\ helper \in {"idle", "waiting", "holding", "tail"}
  /\ faults \in 0..FaultLimit
  /\ confirmed \in Clients \cup {NoClient}
  /\ revoked \in [Clients -> {"no", "yes", "profile"}]
  /\ excused \in BOOLEAN
  /\ Cardinality(LiveClients) <= MaxControlClients

\* Every session that would write Auto when it ends is the one fan_owner, unless
\* another client overrode it (claim_fan_command, release_unleased_fans).
OneLeaseHolder ==
  \A c \in Clients :
    RequiresAuto(session[c]) /\ revoked[c] # "yes" => owner = c

\* Fans off Auto always have somebody who answers for them: a live lease, an
\* acknowledged Maximum, a `--resume` about to write Auto, ExecStopPost, or the
\* failure of one of these failsafes. So nothing but Maximum outlives its client.
FansAccountedFor ==
  fans # "Auto" =>
    \/ LeaseHeld
    \/ fans = "Maximum" /\ confirmed # NoClient
    \/ helper = "holding"
    \/ daemon = "stopping"
    \/ excused

\* A fixed setpoint is either watched (the owner's next poll checks the
\* temperatures) or its session is on the way to its cleanup; the exceptions are
\* those of FansAccountedFor.
ManualIsWatched ==
  fans = "Manual" =>
    \/ \E c \in Clients :
         Leased(c) /\ (NeedsWatchdog(session[c]) \/ pc[c] = "closing")
    \/ helper = "holding"
    \/ daemon = "stopping"
    \/ excused

\* `--resume` still holds the lock when it reconciles NVIDIA and lighting: the
\* fans it has returned to Auto stay there until it is done.
ResumeIsNotInterrupted == helper = "tail" => fans = "Auto"

\* A session whose lease another client overrode, and that has not claimed the
\* fans again, leaves them alone when it ends (serve_client's comment).
RevokedLeaseStaysRevoked ==
  [][\A c \in Clients :
       pc[c] = "closing" /\ pc'[c] = "gone" /\ daemon' = "up" /\ revoked[c] = "yes"
         => fans' = fans /\ owner' = owner]_vars

\* The client whose Maximum was acknowledged may disconnect: the fans keep it
\* (README, "a confirmed Maximum request remains active after the GUI closes").
ConfirmedMaximumOutlivesItsClient ==
  [][\A c \in Clients :
       pc[c] = "closing" /\ pc'[c] = "gone" /\ daemon' = "up" /\ confirmed = c
         => fans' = "Maximum"]_vars

\* The same of every disconnect, also of a client whose lease was overridden and
\* that has asked for nothing but a PROFILE since.
ConfirmedMaximumOutlivesDisconnects ==
  [][\A c \in Clients :
       pc[c] = "closing" /\ pc'[c] = "gone" /\ daemon' = "up" /\ confirmed # NoClient
         => fans' = fans]_vars

-----------------------------------------------------------------------------
(* The inductive invariant: why the promises above hold.                      *)

\* Ownership and sessions agree with the place of each thread.
ThreadsConsistent ==
  \A c \in Clients :
    /\ pc[c] \in {"gone", "hello"} => owner # c /\ session[c] = "Automatic"
    /\ daemon # "up" => pc[c] = "gone"
    /\ revoked[c] = "yes" => owner # c

\* An undelivered Maximum is between its command and its Settle, or the lease is
\* over; until a helper fails, the fans are where the command put them.
UndeliveredMaximum ==
  \A c \in Clients :
    session[c] = "MaximumAwaitingResponse" =>
      /\ pc[c] \in {"writing", "written", "top", "closing"}
      /\ pc[c] = "top" => owner # c
      /\ pc[c] \in {"writing", "written"} => reply[c] = "ok"
      /\ pc[c] \in {"writing", "written"} /\ owner = c =>
           fans = "Auto" \/ fans = "Maximum" \/ excused
      /\ pc[c] = "written" /\ owner = c =>
           fans = "Auto" \/ confirmed # NoClient \/ excused

\* A confirmed Maximum is what the fans do, and its client's lease has ended or
\* is about to end in Settle.
ConfirmedConsistent ==
  confirmed # NoClient =>
    /\ fans = "Maximum"
    /\ revoked[confirmed] # "yes"
    /\ owner = confirmed /\ RequiresAuto(session[confirmed])
         => pc[confirmed] = "written" /\ session[confirmed] = "MaximumAwaitingResponse"

IInv ==
  /\ TypeOK
  /\ ThreadsConsistent
  /\ UndeliveredMaximum
  /\ ConfirmedConsistent
  /\ OneLeaseHolder
  /\ FansAccountedFor
  /\ ManualIsWatched
  /\ ResumeIsNotInterrupted

-----------------------------------------------------------------------------
(* Liveness.                                                                  *)

\* A lease does not keep a hot machine in Manual (or half applied): its watchdog
\* or the cleanup after a failed watchdog ends that, unless another client takes
\* the lease over first, which then is the one to answer.
HotManualEnds ==
  \A c \in Clients :
    (hot /\ fans = "Manual" /\ Leased(c))
      ~> (~hot \/ fans # "Manual" \/ excused \/ owner # c)

\* Losing the client of a lease returns the fans to Auto, also when `--resume`
\* holds the lock at that moment, unless another lease follows, somebody's
\* confirmed Maximum stands, or the firmware does not obey.
LostLeaseReturnsAuto ==
  \A c \in Clients :
    (pc[c] = "closing" /\ Leased(c))
      ~> \/ fans = "Auto" \/ excused \/ confirmed # NoClient
         \/ LeaseHeld /\ ~(pc[c] = "closing" /\ owner = c)

\* A daemon that stopped or died leaves Auto behind (ExecStopPost).
StopReturnsAuto == (daemon = "stopping") ~> (fans = "Auto" \/ excused)

=============================================================================
