------------------------------ MODULE GuiLease ------------------------------
(* Launches of the application on one desktop: the abstract socket whose owner *)
(* shows the only window, the launches that replace it or toggle it, and the   *)
(* owner that closes, obeys SIGTERM late, or has to be killed.                 *)

CONSTANTS
  Launches, \* processes of the application, in no order
  NoLaunch  \* not a process

ASSUME LeaseAssumption == NoLaunch \notin Launches

VARIABLES
  name,   \* the process that has bound the abstract address
  launch  \* each process: what it is doing, for whom it waits

leaseVars == <<name, launch>>

Modes == {"open", "toggle"}

\* "closing": the window and the lease are gone, the process is not.
Alive(p) == launch[p].pc \notin {"unborn", "exited"}

------------------------------------------------------------------------------

Goes(p, pc) == launch' = [launch EXCEPT ![p].pc = pc]

\* The death of a process closes its sockets.
Dies(p, end) ==
  /\ launch' = [launch EXCEPT ![p].pc = "exited", ![p].end = end]
  /\ name' = IF name = p THEN NoLaunch ELSE name

Starts(p) ==
  /\ launch[p].pc = "unborn"
  /\ \E mode \in Modes :
       launch' = [launch EXCEPT ![p] = [@ EXCEPT !.pc = "bind", !.mode = mode,
                                                 !.old = name]]
  /\ UNCHANGED name

\* try_bind before anything else: the window opens.
Binds(p) ==
  /\ launch[p].pc = "bind"
  /\ IF name = NoLaunch THEN name' = p /\ Goes(p, "window")
     ELSE UNCHANGED name /\ Goes(p, "connect")

\* The socket is connected to the owner, or it has disappeared meanwhile.
Connects(p) ==
  /\ launch[p].pc = "connect"
  /\ IF name # NoLaunch
     THEN /\ launch' = [launch EXCEPT ![p].pc = "terminate", ![p].target = name]
          /\ UNCHANGED name
     ELSE IF launch[p].mode = "toggle" THEN Dies(p, "closed")
     ELSE UNCHANGED name /\ Goes(p, "rebind")

\* send_pidfd_signal: the owner may be dead already.
Terminates(p) ==
  /\ launch[p].pc = "terminate"
  /\ launch' = [q \in Launches |->
       IF q = p THEN [launch[q] EXCEPT !.pc = "wait"]
       ELSE IF q = launch[p].target THEN [launch[q] EXCEPT !.signal = TRUE]
       ELSE launch[q]]
  /\ UNCHANGED name

BugExited(p) == TRUE

\* wait_for_exit, on the pidfd of the process that owned the address.
Exited(p) == ~Alive(p)

Waits(p) ==
  /\ launch[p].pc \in {"wait", "killed"}
  /\ Exited(launch[p].target)
  /\ IF launch[p].mode = "toggle" THEN Dies(p, "closed")
     ELSE UNCHANGED name /\ Goes(p, "rebind")

\* TERM_TIMEOUT: SIGKILL. KILL_TIMEOUT: the launch fails.
TimesOut(p) ==
  /\ launch[p].pc \in {"wait", "killed"} /\ Alive(launch[p].target)
  /\ \/ launch[p].pc = "wait" /\ UNCHANGED name /\ Goes(p, "killed")
     \/ launch[p].pc = "killed" /\ Dies(p, "failed")

\* try_bind once more: another launch may have been faster.
Rebinds(p) ==
  /\ launch[p].pc = "rebind"
  /\ IF name = NoLaunch THEN name' = p /\ Goes(p, "window") ELSE Dies(p, "coalesced")

------------------------------------------------------------------------------
(* The owner.                                                               *)

\* The event loop returns, and the lease is dropped.
Closes(p) ==
  /\ launch[p].pc = "window"
  /\ name' = NoLaunch
  /\ Goes(p, "closing")

Exits(p) == launch[p].pc = "closing" /\ Dies(p, "closed")

\* A signal ends the process, in whatever it is doing, sooner or later.
Obeys(p) == Alive(p) /\ launch[p].signal /\ Dies(p, "killed")

------------------------------------------------------------------------------

LeaseInit ==
  /\ name = NoLaunch
  /\ launch = [p \in Launches |->
       [pc |-> "unborn", mode |-> "open", old |-> NoLaunch, target |-> NoLaunch,
        signal |-> FALSE, end |-> "none"]]

LeaseNext ==
  \E p \in Launches :
    \/ Starts(p) \/ Binds(p) \/ Connects(p) \/ Terminates(p) \/ Waits(p) \/ TimesOut(p)
    \/ Rebinds(p) \/ Closes(p) \/ Exits(p) \/ Obeys(p)

LeaseSpec == LeaseInit /\ [][LeaseNext]_leaseVars

------------------------------------------------------------------------------

\* There is one window at most, and an open that ends without a window of its own
\* leaves the user with a window younger than its launch, never with the old one
\* that it has just ended (claim_with).
OpenLeavesFreshWindow ==
  [][\A p \in Launches :
       launch[p].end = "none" /\ launch'[p].end = "coalesced" =>
         /\ launch[p].mode = "open"
         /\ name \notin {NoLaunch, launch[p].old}
         /\ \A q \in Launches : launch[q].pc = "window" <=> q = name]_leaseVars

------------------------------------------------------------------------------
(* The inductive invariant.                                                 *)

LeaseTypeOK ==
  /\ name \in Launches \cup {NoLaunch}
  /\ launch \in [Launches ->
       [pc : {"unborn", "bind", "connect", "terminate", "wait", "killed", "rebind",
              "window", "closing", "exited"},
        mode : Modes, old : Launches \cup {NoLaunch}, target : Launches \cup {NoLaunch},
        signal : BOOLEAN, end : {"none", "closed", "failed", "coalesced", "killed"}]]

\* The owner of the name shows the only window.
OneWindow == \A p \in Launches : launch[p].pc = "window" <=> p = name

Gone(p) == launch[p].pc \in {"closing", "exited"}

\* Who is to be replaced had the window when the launch began; one that is terminated had it
\* no earlier, and binding again comes after it.
ReplacesOld(l) ==
  /\ l.old # NoLaunch => launch[l.old].pc = "window" \/ Gone(l.old)
  /\ l.pc \in {"terminate", "wait", "killed"} =>
       l.target # NoLaunch /\ (l.old \notin {NoLaunch, l.target} => Gone(l.old))
  /\ l.pc = "rebind" => l.mode = "open" /\ (l.old # NoLaunch => Gone(l.old))

OldIsReplaced == \A p \in Launches : ReplacesOld(launch[p])

LeaseIInv == LeaseTypeOK /\ OneWindow /\ OldIsReplaced

==============================================================================
