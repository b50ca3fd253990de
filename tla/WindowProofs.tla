----------------------------- MODULE WindowProofs -----------------------------
(* The application's window, for every value of the constants: one window that    *)
(* is fresh for whoever opens it (GuiLease), one answer to each of its requests   *)
(* (ControlChannel), warnings that are true (GuiTelemetry) and a size in shape    *)
(* (AspectResize).                                                                *)
EXTENDS GuiLease, ControlChannel, GuiTelemetry, AspectResize, SequenceTheorems, TLAPS

------------------------------------------------------------------------------
(* The lease: one window, and a fresh one for whoever opens it, for any number of *)
(* launches.                                                                      *)

Pcs == {"unborn", "bind", "connect", "terminate", "wait", "killed", "rebind",
        "window", "closing", "exited"}
Launch ==
  [pc : Pcs, mode : Modes, old : Launches \cup {NoLaunch}, target : Launches \cup {NoLaunch},
   signal : BOOLEAN, end : {"none", "closed", "failed", "coalesced", "killed"}]

\* What was replaced stays replaced when windows only close.
LEMMA ReplacedStays ==
  ASSUME LeaseIInv, NEW l \in Launch, ReplacesOld(l),
         \A q \in Launches : launch[q].pc = "window" \/ Gone(q) =>
           launch'[q].pc \in {"window", "closing", "exited"},
         \A q \in Launches : Gone(q) => launch'[q].pc \in {"closing", "exited"}
  PROVE  /\ l.old # NoLaunch => launch'[l.old].pc \in {"window", "closing", "exited"}
         /\ l.pc \in {"terminate", "wait", "killed"} =>
              /\ l.target # NoLaunch
              /\ l.old \notin {NoLaunch, l.target} => launch'[l.old].pc \in {"closing", "exited"}
         /\ l.pc = "rebind" =>
              l.mode = "open" /\ (l.old # NoLaunch => launch'[l.old].pc \in {"closing", "exited"})
  <1>1. l.old # NoLaunch => l.old \in Launches
    BY DEF Launch
  <1> QED BY <1>1 DEF ReplacesOld

\* A step of one launch: the others keep what they have replaced.
LEMMA StepKeeps ==
  ASSUME LeaseIInv, NEW p \in Launches, NEW l \in Launch,
         launch' = [launch EXCEPT ![p] = l], ReplacesOld(l),
         launch[p].pc = "window" => l.pc \in {"window", "closing", "exited"},
         Gone(p) => l.pc \in {"closing", "exited"}
  PROVE  /\ launch' \in [Launches -> Launch]
         /\ launch'[p] = l /\ \A q \in Launches \ {p} : launch'[q] = launch[q]
         /\ OldIsReplaced'
  <1>1. launch \in [Launches -> Launch] /\ launch' \in [Launches -> Launch]
    BY DEF LeaseIInv, LeaseTypeOK, Launch, Pcs
  <1>2. launch'[p] = l /\ \A q \in Launches \ {p} : launch'[q] = launch[q]
    BY <1>1
  <1>3. \A q \in Launches : launch[q].pc = "window" \/ Gone(q) =>
           launch'[q].pc \in {"window", "closing", "exited"}
    BY <1>2 DEF Gone
  <1>4. \A q \in Launches : Gone(q) => launch'[q].pc \in {"closing", "exited"}
    BY <1>2 DEF Gone
  <1>5. ASSUME NEW q \in Launches
        PROVE  ReplacesOld(launch[q])'
    <2>1. launch'[q] \in Launch /\ ReplacesOld(launch'[q])
      BY <1>1, <1>2 DEF LeaseIInv, OldIsReplaced
    <2> QED BY <2>1, <1>3, <1>4, ReplacedStays DEF ReplacesOld, Gone
  <1> QED BY <1>1, <1>2, <1>5 DEF OldIsReplaced

\* A launch goes on, and opens or closes no window.
LEMMA GoesKeeps ==
  ASSUME LeaseIInv, NEW p \in Launches, NEW pc \in Pcs \ {"window"},
         Goes(p, pc), name' = name, launch[p].pc # "window",
         Gone(p) => pc \in {"closing", "exited"},
         ReplacesOld([launch[p] EXCEPT !.pc = pc])
  PROVE  LeaseIInv'
  <1> DEFINE l == [launch[p] EXCEPT !.pc = pc]
  <1>1. l \in Launch /\ l.pc = pc
    BY DEF LeaseIInv, LeaseTypeOK, Launch, Pcs
  <1>2. launch' = [launch EXCEPT ![p] = l]
    BY DEF Goes
  <1> HIDE DEF l
  <1>3. ReplacesOld(l)
    BY DEF l
  <1>4. /\ launch' \in [Launches -> Launch] /\ OldIsReplaced'
        /\ launch'[p] = l /\ \A q \in Launches \ {p} : launch'[q] = launch[q]
    BY <1>1, <1>2, <1>3, StepKeeps
  <1>5. LeaseTypeOK' /\ OneWindow'
    BY <1>1, <1>4 DEF LeaseIInv, LeaseTypeOK, OneWindow, Launch, Pcs
  <1> QED BY <1>4, <1>5 DEF LeaseIInv

\* A process dies, and its window and its name with it.
LEMMA DeathKeeps ==
  ASSUME LeaseIInv, NEW p \in Launches, Dies(p, "closed") \/ Dies(p, "failed") \/
           Dies(p, "coalesced") \/ Dies(p, "killed")
  PROVE  LeaseIInv'
  <1>1. PICK end \in {"closed", "failed", "coalesced", "killed"} :
          launch' = [launch EXCEPT ![p] = [launch[p] EXCEPT !.pc = "exited", !.end = end]]
    BY DEF Dies
  <1> DEFINE l == [launch[p] EXCEPT !.pc = "exited", !.end = end]
  <1>2. l \in Launch /\ l.pc = "exited" /\ l.old = launch[p].old
    BY DEF LeaseIInv, LeaseTypeOK, Launch, Pcs
  <1> HIDE DEF l
  <1>3. launch' = [launch EXCEPT ![p] = l]
    BY <1>1 DEF l
  <1>4. ReplacesOld(l)
    BY <1>2 DEF LeaseIInv, OldIsReplaced, ReplacesOld
  <1>5. /\ launch' \in [Launches -> Launch] /\ OldIsReplaced'
        /\ launch'[p] = l /\ \A q \in Launches \ {p} : launch'[q] = launch[q]
    BY <1>2, <1>3, <1>4, StepKeeps
  <1>6. name' = IF name = p THEN NoLaunch ELSE name
    BY DEF Dies
  <1>7. LeaseTypeOK' /\ OneWindow'
    BY <1>2, <1>5, <1>6, LeaseAssumption DEF LeaseIInv, LeaseTypeOK, OneWindow, Launch, Pcs
  <1> QED BY <1>5, <1>7 DEF LeaseIInv

\* Whoever binds the free name shows the only window.
LEMMA WindowOpens ==
  ASSUME LeaseIInv, NEW p \in Launches, launch[p].pc \in {"bind", "rebind"},
         name = NoLaunch, name' = p, Goes(p, "window")
  PROVE  LeaseIInv'
  <1> DEFINE l == [launch[p] EXCEPT !.pc = "window"]
  <1>1. l \in Launch /\ l.pc = "window" /\ l.old = launch[p].old
    BY DEF LeaseIInv, LeaseTypeOK, Launch, Pcs
  <1>2. launch' = [launch EXCEPT ![p] = l]
    BY DEF Goes
  <1> HIDE DEF l
  <1>3. ReplacesOld(l)
    BY <1>1 DEF LeaseIInv, OldIsReplaced, ReplacesOld
  <1>4. /\ launch' \in [Launches -> Launch] /\ OldIsReplaced'
        /\ launch'[p] = l /\ \A q \in Launches \ {p} : launch'[q] = launch[q]
    BY <1>1, <1>2, <1>3, StepKeeps DEF Gone
  <1>5. LeaseTypeOK' /\ OneWindow'
    BY <1>1, <1>4, LeaseAssumption DEF LeaseIInv, LeaseTypeOK, OneWindow, Launch, Pcs
  <1> QED BY <1>4, <1>5 DEF LeaseIInv

\* A window closes, and the name is free.
LEMMA ClosingKeeps ==
  ASSUME LeaseIInv, NEW p \in Launches, Closes(p)
  PROVE  LeaseIInv'
  <1> DEFINE l == [launch[p] EXCEPT !.pc = "closing"]
  <1>1. l \in Launch /\ l.pc = "closing" /\ l.old = launch[p].old
    BY DEF LeaseIInv, LeaseTypeOK, Launch, Pcs
  <1>2. launch' = [launch EXCEPT ![p] = l] /\ launch[p].pc = "window" /\ name' = NoLaunch
    BY DEF Closes, Goes
  <1> HIDE DEF l
  <1>3. ReplacesOld(l)
    BY <1>1 DEF LeaseIInv, OldIsReplaced, ReplacesOld
  <1>4. /\ launch' \in [Launches -> Launch] /\ OldIsReplaced'
        /\ launch'[p] = l /\ \A q \in Launches \ {p} : launch'[q] = launch[q]
    BY <1>1, <1>2, <1>3, StepKeeps
  <1>5. LeaseTypeOK' /\ OneWindow'
    BY <1>1, <1>2, <1>4, LeaseAssumption DEF LeaseIInv, LeaseTypeOK, OneWindow, Launch, Pcs
  <1> QED BY <1>4, <1>5 DEF LeaseIInv

\* A launch remembers whose window it found.
LEMMA StartKeeps ==
  ASSUME LeaseIInv, NEW p \in Launches, Starts(p)
  PROVE  LeaseIInv'
  <1>1. PICK mode \in Modes :
          launch' = [launch EXCEPT ![p] = [launch[p] EXCEPT !.pc = "bind", !.mode = mode,
                                                            !.old = name]]
    BY DEF Starts
  <1> DEFINE l == [launch[p] EXCEPT !.pc = "bind", !.mode = mode, !.old = name]
  <1>2. l \in Launch /\ l.pc = "bind" /\ l.old = name
    BY DEF LeaseIInv, LeaseTypeOK, Launch, Pcs
  <1> HIDE DEF l
  <1>3. launch' = [launch EXCEPT ![p] = l] /\ launch[p].pc = "unborn" /\ name' = name
    BY <1>1 DEF l, Starts
  <1>4. ReplacesOld(l)
    BY <1>2 DEF LeaseIInv, LeaseTypeOK, OneWindow, ReplacesOld
  <1>5. /\ launch' \in [Launches -> Launch] /\ OldIsReplaced'
        /\ launch'[p] = l /\ \A q \in Launches \ {p} : launch'[q] = launch[q]
    BY <1>2, <1>3, <1>4, StepKeeps DEF Gone
  <1>6. LeaseTypeOK' /\ OneWindow'
    BY <1>2, <1>3, <1>5 DEF LeaseIInv, LeaseTypeOK, OneWindow, Launch, Pcs
  <1> QED BY <1>5, <1>6 DEF LeaseIInv

\* The first attempt to bind: the window opens, or there is an owner to connect to.
LEMMA BindKeeps ==
  ASSUME LeaseIInv, NEW p \in Launches, Binds(p)
  PROVE  LeaseIInv'
  <1>1. CASE name = NoLaunch
    BY <1>1, WindowOpens DEF Binds
  <1>2. CASE name # NoLaunch
    <2>1. Goes(p, "connect") /\ name' = name /\ launch[p].pc = "bind" /\ ~Gone(p)
      BY <1>2 DEF Binds, Gone
    <2>2. ReplacesOld([launch[p] EXCEPT !.pc = "connect"])
      BY DEF LeaseIInv, LeaseTypeOK, Launch, OldIsReplaced, ReplacesOld
    <2> QED BY <2>1, <2>2, GoesKeeps DEF Pcs
  <1> QED BY <1>1, <1>2

\* Whoever is connected to is the owner, so an older one has closed its window.
LEMMA ConnectKeeps ==
  ASSUME LeaseIInv, NEW p \in Launches, Connects(p)
  PROVE  LeaseIInv'
  <1>1. launch[p].pc = "connect" /\ ~Gone(p)
    BY DEF Connects, Gone
  <1>2. /\ launch[p] \in Launch
        /\ launch[p].old \notin {NoLaunch, name} => Gone(launch[p].old)
    BY DEF LeaseIInv, LeaseTypeOK, Launch, Pcs, OneWindow, OldIsReplaced, ReplacesOld
  <1>3. CASE name # NoLaunch
    <2> DEFINE l == [launch[p] EXCEPT !.pc = "terminate", !.target = name]
    <2>1. launch' = [launch EXCEPT ![p] = l] /\ name' = name
      BY <1>3 DEF Connects
    <2>2. l \in Launch /\ l.pc = "terminate" /\ l.target = name /\ l.old = launch[p].old
      BY <1>2 DEF LeaseIInv, LeaseTypeOK, Launch, Pcs
    <2> HIDE DEF l
    <2>3. ReplacesOld(l)
      BY <1>2, <1>3, <2>2 DEF LeaseIInv, OldIsReplaced, ReplacesOld
    <2>4. /\ launch' \in [Launches -> Launch] /\ OldIsReplaced'
          /\ launch'[p] = l /\ \A q \in Launches \ {p} : launch'[q] = launch[q]
      BY <1>1, <2>1, <2>2, <2>3, StepKeeps
    <2>5. LeaseTypeOK' /\ OneWindow'
      BY <1>1, <2>1, <2>2, <2>4 DEF LeaseIInv, LeaseTypeOK, OneWindow, Launch, Pcs
    <2> QED BY <2>4, <2>5 DEF LeaseIInv
  <1>4. CASE name = NoLaunch /\ launch[p].mode = "toggle"
    BY <1>4, DeathKeeps DEF Connects
  <1>5. CASE name = NoLaunch /\ launch[p].mode # "toggle"
    <2>1. Goes(p, "rebind") /\ name' = name
      BY <1>5 DEF Connects
    <2>2. ReplacesOld([launch[p] EXCEPT !.pc = "rebind"])
      BY <1>2, <1>5 DEF Launch, Pcs, Modes, ReplacesOld
    <2> QED BY <1>1, <2>1, <2>2, GoesKeeps DEF Pcs
  <1> QED BY <1>3, <1>4, <1>5

\* A signal changes nothing else.
LEMMA TerminateKeeps ==
  ASSUME LeaseIInv, NEW p \in Launches, Terminates(p)
  PROVE  LeaseIInv'
  <1>1. /\ launch[p].pc = "terminate" /\ name' = name
        /\ launch' = [q \in Launches |->
             IF q = p THEN [launch[q] EXCEPT !.pc = "wait"]
             ELSE IF q = launch[p].target THEN [launch[q] EXCEPT !.signal = TRUE]
             ELSE launch[q]]
    BY DEF Terminates
  <1>2. ASSUME NEW q \in Launches
        PROVE  /\ launch'[q] \in Launch /\ launch'[q].old = launch[q].old
               /\ launch'[q].target = launch[q].target /\ launch'[q].mode = launch[q].mode
               /\ launch'[q].pc = IF q = p THEN "wait" ELSE launch[q].pc
    BY <1>1 DEF LeaseIInv, LeaseTypeOK, Launch, Pcs
  <1>3. launch' \in [Launches -> Launch]
    <2>1. launch' = [q \in Launches |-> launch'[q]]
      BY <1>1
    <2> QED BY <1>2, <2>1
  <1>4. LeaseTypeOK' /\ OneWindow'
    BY <1>1, <1>2, <1>3 DEF LeaseIInv, LeaseTypeOK, OneWindow, Launch, Pcs
  <1>5. ASSUME NEW q \in Launches
        PROVE  ReplacesOld(launch[q])'
    <2>1. launch[q] \in Launch /\ ReplacesOld(launch[q])
      BY DEF LeaseIInv, LeaseTypeOK, Launch, Pcs, OldIsReplaced
    <2>2. launch[q].old # NoLaunch => launch[q].old \in Launches
      BY <2>1 DEF Launch
    <2>3. launch[q].old # NoLaunch /\ Gone(launch[q].old) =>
            launch'[launch[q].old].pc \in {"closing", "exited"}
      BY <1>1, <1>2, <2>2 DEF Gone
    <2>4. launch[q].old # NoLaunch /\ launch[launch[q].old].pc = "window" =>
            launch'[launch[q].old].pc = "window"
      BY <1>1, <1>2, <2>2
    <2>5. /\ launch'[q].old = launch[q].old /\ launch'[q].target = launch[q].target
          /\ launch'[q].mode = launch[q].mode
          /\ launch'[q].pc = launch[q].pc \/ (launch[q].pc = "terminate" /\ launch'[q].pc = "wait")
      BY <1>1, <1>2
    <2> DEFINE l == launch[q]
    <2>6. l.old # NoLaunch => launch[l.old].pc = "window" \/ Gone(l.old)
      BY <2>1 DEF ReplacesOld
    <2> QED BY <2>1, <2>3, <2>4, <2>5, <2>6 DEF ReplacesOld, Gone
  <1> QED BY <1>4, <1>5 DEF LeaseIInv, OldIsReplaced

\* An open binds again only once the process that owned the name has exited.
LEMMA WaitKeeps ==
  ASSUME LeaseIInv, NEW p \in Launches, Waits(p)
  PROVE  LeaseIInv'
  <1>1. /\ launch[p].pc \in {"wait", "killed"} /\ ~Gone(p)
        /\ ReplacesOld(launch[p]) /\ launch[p] \in Launch
    BY DEF Waits, Gone, LeaseIInv, LeaseTypeOK, Launch, Pcs, OldIsReplaced
  <1>2. CASE launch[p].mode = "toggle"
    BY <1>2, DeathKeeps DEF Waits
  <1>3. CASE launch[p].mode # "toggle"
    <2>1. Goes(p, "rebind") /\ name' = name
      BY <1>3 DEF Waits
    <2>2. launch[p].target \in Launches /\ launch[launch[p].target].pc \in {"unborn", "exited"}
      BY <1>1 DEF Waits, Exited, Alive, Launch, ReplacesOld
    <2>3. launch[p].old # NoLaunch => Gone(launch[p].old)
      BY <1>1, <2>2 DEF ReplacesOld, Gone
    <2>4. ReplacesOld([launch[p] EXCEPT !.pc = "rebind"])
      BY <1>1, <1>3, <2>3 DEF Launch, Pcs, Modes, ReplacesOld
    <2> QED BY <1>1, <2>1, <2>4, GoesKeeps DEF Pcs
  <1> QED BY <1>2, <1>3

\* A launch that has waited long enough kills, then gives up.
LEMMA TimeoutKeeps ==
  ASSUME LeaseIInv, NEW p \in Launches, TimesOut(p)
  PROVE  LeaseIInv'
  <1>1. CASE Dies(p, "failed")
    BY <1>1, DeathKeeps
  <1>2. CASE launch[p].pc = "wait" /\ UNCHANGED name /\ Goes(p, "killed")
    <2>1. ReplacesOld(launch[p]) /\ launch[p] \in Launch /\ ~Gone(p)
      BY <1>2 DEF Gone, LeaseIInv, LeaseTypeOK, Launch, Pcs, OldIsReplaced
    <2>2. ReplacesOld([launch[p] EXCEPT !.pc = "killed"])
      BY <1>2, <2>1 DEF Launch, ReplacesOld
    <2> QED BY <1>2, <2>1, <2>2, GoesKeeps DEF Pcs
  <1> QED BY <1>1, <1>2 DEF TimesOut

\* LeaseIInv holds in every state: one window at most, its process owns the name, and who
\* binds again has nobody left to replace.
THEOREM LeaseInvariant == LeaseSpec => []LeaseIInv
  <1>1. LeaseInit => LeaseIInv
    BY LeaseAssumption DEF LeaseInit, LeaseIInv, LeaseTypeOK, OneWindow, OldIsReplaced, ReplacesOld,
       Modes
  <1>2. LeaseIInv /\ [LeaseNext]_leaseVars => LeaseIInv'
    <2> SUFFICES ASSUME LeaseIInv, [LeaseNext]_leaseVars PROVE LeaseIInv'
      OBVIOUS
    <2>1. ASSUME NEW p \in Launches, Rebinds(p)
          PROVE  LeaseIInv'
      BY <2>1, WindowOpens, DeathKeeps DEF Rebinds
    <2>2. ASSUME NEW p \in Launches, Exits(p) \/ Obeys(p)
          PROVE  LeaseIInv'
      BY <2>2, DeathKeeps DEF Exits, Obeys
    <2>3. CASE UNCHANGED leaseVars
      BY <2>3 DEF LeaseIInv, LeaseTypeOK, OneWindow, OldIsReplaced, ReplacesOld, Gone, leaseVars
    <2>4. ASSUME NEW p \in Launches,
                 \/ Starts(p) \/ Binds(p) \/ Connects(p) \/ Terminates(p) \/ Waits(p)
                 \/ TimesOut(p) \/ Closes(p)
          PROVE  LeaseIInv'
      BY <2>4, StartKeeps, BindKeeps, ConnectKeeps, TerminateKeeps, WaitKeeps, TimeoutKeeps,
         ClosingKeeps
    <2> QED BY <2>1, <2>2, <2>3, <2>4 DEF LeaseNext
  <1> QED BY <1>1, <1>2, PTL DEF LeaseSpec

\* However many launches there are: an open that ends without a window of its own leaves the
\* user with a window younger than its launch, which is the only one (claim_with).
THEOREM OpensAreFresh == LeaseSpec => OpenLeavesFreshWindow
  <1> DEFINE Fresh(p) ==
        launch[p].end = "none" /\ launch'[p].end = "coalesced" =>
          /\ launch[p].mode = "open"
          /\ name \notin {NoLaunch, launch[p].old}
          /\ \A q \in Launches : launch[q].pc = "window" <=> q = name
  <1>1. LeaseIInv /\ [LeaseNext]_leaseVars => [\A p \in Launches : Fresh(p)]_leaseVars
    <2> SUFFICES ASSUME LeaseIInv, LeaseNext, NEW p \in Launches,
                        launch[p].end = "none", launch'[p].end = "coalesced"
                 PROVE  /\ launch[p].mode = "open"
                        /\ name \notin {NoLaunch, launch[p].old}
                        /\ \A q \in Launches : launch[q].pc = "window" <=> q = name
      OBVIOUS
    <2>1. launch \in [Launches -> Launch]
      BY DEF LeaseIInv, LeaseTypeOK, Launch, Pcs
    <2>2. PICK q \in Launches :
            \/ Starts(q) \/ Binds(q) \/ Connects(q) \/ Terminates(q) \/ Waits(q) \/ TimesOut(q)
            \/ Rebinds(q) \/ Closes(q) \/ Exits(q) \/ Obeys(q)
      BY DEF LeaseNext
    <2>3. Rebinds(q) /\ q = p /\ name # NoLaunch
      <3>1. ASSUME NEW end \in {"closed", "failed", "killed"}
            PROVE  ~Dies(q, end)
        BY <2>1, <3>1 DEF Dies, Launch
      <3>a. ASSUME NEW r, r.end = launch[q].end
            PROVE  launch' # [launch EXCEPT ![q] = r]
        BY <2>1, <3>a
      <3>b. launch[q] \in Launch
        BY <2>1
      <3>2. ASSUME NEW pc
            PROVE  ~Goes(q, pc)
        <4>1. [launch[q] EXCEPT !.pc = pc].end = launch[q].end
          BY <3>b DEF Launch
        <4> QED BY <3>a, <4>1 DEF Goes
      <3>3. ~Starts(q)
        <4>1. ASSUME NEW mode
              PROVE  [launch[q] EXCEPT !.pc = "bind", !.mode = mode, !.old = name].end
                       = launch[q].end
          BY <3>b DEF Launch
        <4> QED BY <3>a, <4>1 DEF Starts
      <3>4. ~Connects(q)
        <4>1. [launch[q] EXCEPT !.pc = "terminate", !.target = name].end = launch[q].end
          BY <3>b DEF Launch
        <4>2. launch' # [launch EXCEPT ![q].pc = "terminate", ![q].target = name]
          BY <2>1, <3>b, <4>1, <3>a
        <4> QED BY <3>1, <3>2, <4>2 DEF Connects
      <3>5. ~Terminates(q)
        <4>1. ASSUME NEW o \in Launches
              PROVE  /\ [launch[o] EXCEPT !.pc = "wait"].end = launch[o].end
                     /\ [launch[o] EXCEPT !.signal = TRUE].end = launch[o].end
          BY <2>1 DEF Launch
        <4> QED BY <4>1 DEF Terminates
      <3>6. ~Binds(q) /\ ~Waits(q) /\ ~TimesOut(q) /\ ~Closes(q) /\ ~Exits(q) /\ ~Obeys(q)
        BY <3>1, <3>2 DEF Binds, Waits, TimesOut, Closes, Exits, Obeys
      <3>7. Rebinds(q)
        BY <2>2, <3>3, <3>4, <3>5, <3>6
      <3>8. name # NoLaunch /\ Dies(q, "coalesced")
        BY <3>2, <3>7 DEF Rebinds
      <3> QED BY <2>1, <3>7, <3>8 DEF Dies, Launch
    <2>4. launch[p].pc = "rebind"
      BY <2>3 DEF Rebinds
    <2>5. launch[p].mode = "open" /\ (launch[p].old # NoLaunch => Gone(launch[p].old))
      BY <2>4 DEF LeaseIInv, OldIsReplaced, ReplacesOld
    <2>6. name \in Launches /\ launch[name].pc = "window"
      BY <2>3 DEF LeaseIInv, LeaseTypeOK, OneWindow
    <2>7. launch[p].old # name
      BY <2>3, <2>5, <2>6 DEF Gone
    <2> QED BY <2>3, <2>5, <2>7 DEF LeaseIInv, OneWindow
  <1>2. LeaseSpec => [][\A p \in Launches : Fresh(p)]_leaseVars
    BY <1>1, LeaseInvariant, PTL DEF LeaseSpec
  <1> QED BY <1>2 DEF OpenLeavesFreshWindow

------------------------------------------------------------------------------
(* The control channel: an answer for each request, of that request.              *)

\* The lines of a request (queue_control_request): HELLO and a readback may surround them,
\* and the command itself stands between them, once.
LEMMA ScriptIsInOrder ==
  ASSUME NEW action \in Actions, NEW connected \in BOOLEAN
  PROVE  /\ Script(action, connected) \in Seq(Commands)
         /\ InOrder(Script(action, connected), action)
  <1> DEFINE todo == Script(action, connected)
             readback == <<"HELLO">> \o ReadbackLines
             first == <<"HELLO">> \o <<"CAPS", "RGB", "HARDWARE", "PLATFORM">>
  <1>1. /\ readback \in Seq(Commands) /\ Len(readback) = 4 /\ readback[1] = "HELLO"
        /\ readback[2] = "CAPS" /\ readback[3] = "RGB" /\ readback[4] = "PLATFORM"
    BY DEF Commands, ReadbackLines
  <1>2. /\ first \in Seq(Commands) /\ Len(first) = 5 /\ first[1] = "HELLO"
        /\ first[2] = "CAPS" /\ first[3] = "RGB" /\ first[4] = "HARDWARE"
        /\ first[5] = "PLATFORM"
    BY DEF Commands
  <1> SUFFICES todo \in Seq(Commands) /\ InOrder(todo, action)
    OBVIOUS
  <1> HIDE DEF readback, first, todo
  <1>3. CASE action = "Initialize" /\ connected
    <2>1. todo = <<>> \o <<"CAPS", "RGB", "HARDWARE", "PLATFORM">>
      BY <1>3 DEF todo, Script
    <2>2. /\ todo \in Seq(Commands) /\ Len(todo) = 4 /\ todo[1] = "CAPS"
          /\ todo[2] = "RGB" /\ todo[3] = "HARDWARE" /\ todo[4] = "PLATFORM"
      BY <2>1 DEF Commands
    <2> QED BY <1>3, <2>2 DEF InOrder, Settings
  <1>4. CASE action = "Initialize" /\ ~connected
    <2>1. todo = first
      BY <1>4 DEF todo, Script, first
    <2> QED BY <1>2, <1>4, <2>1 DEF InOrder, Settings
  <1>5. CASE action = "Refresh" /\ connected
    <2>1. todo = <<"PING">> \o ReadbackLines
      BY <1>5 DEF todo, Script
    <2>2. /\ todo \in Seq(Commands) /\ Len(todo) = 4 /\ todo[1] = "PING"
          /\ todo[2] = "CAPS" /\ todo[3] = "RGB" /\ todo[4] = "PLATFORM"
      BY <2>1 DEF Commands, ReadbackLines
    <2>3. \A i \in DOMAIN todo : todo[i] # "SET"
      <3>1. \A i \in DOMAIN todo : i = 1 \/ i = 2 \/ i = 3 \/ i = 4
        BY <2>2
      <3> QED BY <2>2, <3>1
    <2>4. todo # <<>>
      BY <2>2, EmptySeq
    <2>5. action \notin Settings
      BY <1>5 DEF Settings
    <2> QED BY <2>2, <2>3, <2>4, <2>5 DEF InOrder
  <1>6. CASE action = "Refresh" /\ ~connected
    <2>1. todo = readback
      BY <1>6 DEF todo, Script, readback
    <2> QED BY <1>1, <1>6, <2>1 DEF InOrder, Settings
  <1>7. CASE action \in Settings /\ connected
    <2>1. todo = <<"SET">>
      BY <1>7 DEF todo, Script, Settings
    <2>2. todo \in Seq(Commands) /\ Len(todo) = 1 /\ todo[1] = "SET"
      BY <2>1 DEF Commands
    <2> QED BY <1>7, <2>2 DEF InOrder
  <1>8. CASE action \in Settings /\ ~connected
    <2>1. todo = readback \o <<"SET">>
      BY <1>8 DEF todo, Script, Settings, readback
    <2>2. /\ todo \in Seq(Commands) /\ Len(todo) = 5 /\ todo[1] = "HELLO"
          /\ todo[2] = "CAPS" /\ todo[3] = "RGB" /\ todo[4] = "PLATFORM" /\ todo[5] = "SET"
      <3> DEFINE last == <<"SET">>
      <3>1. last \in Seq(Commands) /\ Len(last) = 1 /\ last[1] = "SET"
        BY DEF Commands
      <3>2. todo = readback \o last
        BY <2>1
      <3> HIDE DEF last
      <3>3. todo \in Seq(Commands) /\ Len(todo) = Len(readback) + Len(last)
        BY <1>1, <3>1, <3>2, ConcatProperties
      <3>4. \A i \in 1..Len(readback) + Len(last) :
              todo[i] = IF i <= Len(readback) THEN readback[i] ELSE last[i - Len(readback)]
        BY <1>1, <3>1, <3>2, ConcatProperties
      <3> QED BY <1>1, <3>1, <3>3, <3>4
    <2> QED BY <1>8, <2>2 DEF InOrder
  <1> QED BY <1>3, <1>4, <1>5, <1>6, <1>7, <1>8 DEF Actions

\* What is left of a request after its next line is in order, too.
LEMMA RestIsInOrder ==
  ASSUME NEW todo \in Seq(Commands), NEW action, InOrder(todo, action)
  PROVE  /\ Head(todo) \in Commands /\ Tail(todo) \in Seq(Commands)
         /\ Tail(todo) # <<>> => Head(todo) # "SET" /\ InOrder(Tail(todo), action)
         /\ Tail(todo) = <<>> => (Head(todo) = "SET" <=> action \in Settings)
  <1>1. Head(todo) \in Commands /\ Head(todo) = todo[1] /\ Tail(todo) \in Seq(Commands)
        /\ Len(todo) \in Nat \ {0} /\ Len(Tail(todo)) = Len(todo) - 1
    BY DEF InOrder
  <1>2. CASE Tail(todo) = <<>>
    BY <1>1, <1>2 DEF InOrder
  <1>3. CASE Tail(todo) # <<>>
    <2>1. Len(todo) > 1
      BY <1>1, <1>3
    <2>2. Head(todo) # "SET"
      BY <1>1, <2>1 DEF InOrder
    <2>3. \A i \in DOMAIN Tail(todo) : Tail(todo)[i] = todo[i + 1] /\ i + 1 \in DOMAIN todo
      BY <1>1
    <2> QED BY <1>1, <1>3, <2>2, <2>3 DEF InOrder
  <1> QED BY <1>1, <1>2, <1>3

\* A first line that needs no earlier one is in order.
LEMMA HelloIsInOrder ==
  ASSUME NEW todo \in Seq(Commands), NEW action, InOrder(todo, action), Head(todo) # "SET"
  PROVE  /\ <<"HELLO">> \o Tail(todo) \in Seq(Commands)
         /\ InOrder(<<"HELLO">> \o Tail(todo), action)
  <1> DEFINE new == <<"HELLO">> \o Tail(todo)
  <1>1. Len(todo) \in Nat \ {0} /\ Tail(todo) \in Seq(Commands)
        /\ Len(Tail(todo)) = Len(todo) - 1
    BY DEF InOrder
  <1>2. new \in Seq(Commands) /\ Len(new) = Len(todo) /\ new[1] = "HELLO"
        /\ \A i \in 2..Len(todo) : new[i] = todo[i]
    BY <1>1 DEF Commands
  <1>3. todo[1] # "SET"
    BY <1>1
  <1> HIDE DEF new
  <1>4. InOrder(new, action)
    BY <1>1, <1>2, <1>3 DEF InOrder
  <1> QED BY <1>2, <1>4 DEF new


\* A link with nothing under way on it.
Quiet(s) == s \in Session /\ s.sent = <<>> /\ s.answers = <<>>

\* A step of OneAnswer, or none.
Promised == Ask!AskNext \/ UNCHANGED Ask!askVars

\* finish_request: the update is put into the slot, the worker is free, and this decides
\* the request.
LEMMA PublishKeeps ==
  ASSUME ChannelIInv, worker.request # NoRequest, Quiet(link'),
         NEW result \in {"ok", "partial", "failed"}, Publish(result),
         UNCHANGED <<screen, channel, executed>>,
         result # "failed" /\ worker.request.action \in Settings => executed = 1
  PROVE  ChannelIInv' /\ Promised
  <1>1. channel = NoRequest /\ results = <<>> /\ worker.request \in Request
        /\ worker.refresh \in {"none", "ok", "partial"}
    BY DEF ChannelIInv, ChannelTypeOK, OneUnderWay, Worker
  <1> DEFINE u == [request |-> worker.request, refresh |-> worker.refresh, result |-> result]
  <1>2. u \in Update /\ u.request = worker.request /\ u.result = result
    BY <1>1 DEF Update
  <1>3. results' = <<u>> /\ worker' = Resting
    BY <1>1 DEF Publish
  <1> HIDE DEF u
  <1>4. results' \in Seq(Update) /\ Len(results') = 1 /\ Head(results') = u /\ results' # <<>>
    BY <1>2, <1>3
  <1>5. /\ worker' \in Worker /\ worker'.phase = "idle" /\ worker'.request = NoRequest
    BY <1>3 DEF Resting, Worker, Commands
  <1>6. InFlight = worker.request /\ InFlight' = worker.request
    BY <1>1, <1>2, <1>4, <1>5 DEF InFlight
  <1>7. ChannelTypeOK'
    BY <1>4, <1>5 DEF ChannelIInv, ChannelTypeOK, Quiet
  <1>8. OneUnderWay'
    BY <1>1, <1>4, <1>5, <1>6 DEF ChannelIInv, OneUnderWay
  <1>9. WorkIsInOrder' /\ LinkCarriesOne'
    BY <1>1, <1>5 DEF WorkIsInOrder, LinkCarriesOne, Quiet
  <1>10. ExecutedWhenAnswered'
    BY <1>1, <1>2, <1>4, <1>5 DEF ChannelIInv, ExecutedWhenAnswered
  <1>11. /\ Decided = "open"
         /\ Decided' = IF result = "failed" THEN "failed" ELSE "confirmed"
    BY <1>1, <1>2, <1>4 DEF Decided
  <1>12. Ask!Decide
    BY <1>6, <1>11 DEF Ask!Decide
  <1> QED BY <1>7, <1>8, <1>9, <1>10, <1>12 DEF ChannelIInv, Promised, Ask!AskNext

\* A step of the worker that only goes on with its request.
LEMMA GoingOnKeeps ==
  ASSUME ChannelIInv, worker.request # NoRequest, Quiet(link'), executed = 0,
         NEW w \in Worker, worker' = w, w.phase = "next", w.request = worker.request,
         InOrder(w.todo, w.request.action),
         UNCHANGED <<screen, channel, results, executed>>
  PROVE  ChannelIInv' /\ Promised
  <1>1. channel = NoRequest /\ results = <<>>
    BY DEF ChannelIInv, OneUnderWay
  <1>2. InFlight = worker.request /\ InFlight' = worker.request
    BY <1>1 DEF InFlight
  <1>3. ChannelTypeOK'
    BY DEF ChannelIInv, ChannelTypeOK, Quiet
  <1>4. OneUnderWay'
    BY <1>1, <1>2 DEF ChannelIInv, OneUnderWay
  <1>5. WorkIsInOrder' /\ LinkCarriesOne'
    BY <1>1 DEF ChannelIInv, WorkIsInOrder, LinkCarriesOne, Quiet
  <1>6. ExecutedWhenAnswered'
    BY <1>1 DEF ChannelIInv, ExecutedWhenAnswered
  <1>7. Promised
    BY <1>2 DEF Promised, Ask!askVars, Decided
  <1> QED BY <1>3, <1>4, <1>5, <1>6, <1>7 DEF ChannelIInv

\* An accepted answer: the next line of the request, or its end.
LEMMA AdvanceKeeps ==
  ASSUME ChannelIInv, worker.request # NoRequest, Quiet(link'),
         NEW partial \in BOOLEAN, Advance(partial),
         UNCHANGED <<screen, channel, executed>>,
         executed = 1 <=> Head(worker.todo) = "SET"
  PROVE  ChannelIInv' /\ Promised
  <1>1. /\ worker \in Worker /\ worker.todo \in Seq(Commands)
        /\ InOrder(worker.todo, worker.request.action) /\ executed \in {0, 1}
    BY DEF ChannelIInv, ChannelTypeOK, WorkIsInOrder, ExecutedWhenAnswered, Worker
  <1> DEFINE p == worker.partial \/ partial
             rest == Tail(worker.todo)
  <1>2. p \in BOOLEAN /\ Verdict(p) \in {"ok", "partial"}
    BY <1>1 DEF Verdict, Worker
  <1>3. CASE rest = <<>>
    <2>1. Publish(Verdict(p))
      BY <1>3 DEF Advance
    <2>2. worker.request.action \in Settings => executed = 1
      BY <1>1, <1>3, RestIsInOrder
    <2> QED BY <1>2, <2>1, <2>2, PublishKeeps
  <1>4. CASE rest # <<>>
    <2> DEFINE w == [worker EXCEPT
                       !.phase = "next", !.todo = rest,
                       !.refresh = IF Head(rest) = "SET" THEN Verdict(p) ELSE @,
                       !.partial = p /\ Head(rest) # "SET"]
    <2>1. worker' = w /\ UNCHANGED results
      BY <1>4 DEF Advance
    <2>2. Head(worker.todo) # "SET" /\ rest \in Seq(Commands)
          /\ InOrder(rest, worker.request.action)
      BY <1>1, <1>4, RestIsInOrder
    <2>3. executed = 0
      BY <1>1, <2>2
    <2>4. /\ w \in Worker /\ w.phase = "next" /\ w.request = worker.request /\ w.todo = rest
      <3>1. (IF Head(rest) = "SET" THEN Verdict(p) ELSE worker.refresh)
              \in {"none", "ok", "partial"}
        BY <1>1, <1>2 DEF Worker
      <3>2. (p /\ Head(rest) # "SET") \in BOOLEAN
        OBVIOUS
      <3> HIDE DEF p, rest
      <3> QED BY <1>1, <2>2, <3>1, <3>2 DEF Worker
    <2> HIDE DEF w
    <2> QED BY <2>1, <2>2, <2>3, <2>4, GoingOnKeeps
  <1> QED BY <1>3, <1>4


Errors == {"Transport", "InvalidRequest", "CommandRejected", "Protocol", "Timeout"}

\* Whatever fails, nothing is left on the link.
LEMMA LeftIsQuiet ==
  ASSUME NEW s \in Session, NEW command, NEW error \in Errors,
         ~Invalidates(error) => Quiet(s)
  PROVE  Quiet(Left(s, command, error))
  <1>1. Quiet(NoSession)
    BY DEF Quiet, NoSession, Session
  <1>2. CASE Quiet(s)
    <2>1. Disown(s.sent) = <<>> /\ Disown(s.answers) = <<>>
      BY <1>2, EmptySeq DEF Disown, Quiet
    <2>2. [s EXCEPT !.sent = <<>>, !.answers = <<>>] = s
      BY <1>2 DEF Quiet, Session
    <2>3. Quiet([s EXCEPT !.sent = Disown(@), !.answers = Disown(@)])
      BY <1>2, <2>1, <2>2
    <2> QED BY <1>1, <2>3 DEF Left
  <1> QED BY <1>1, <1>2 DEF Left

\* A failed line ends its request and, unless the daemon has only rejected it, the
\* connection.
LEMMA FailedKeeps ==
  ASSUME ChannelIInv, worker.request # NoRequest,
         NEW s \in Session, NEW error \in Errors, ~Invalidates(error) => Quiet(s),
         Failed(s, error)
  PROVE  ChannelIInv' /\ Promised
  <1>1. /\ worker \in Worker /\ worker.todo \in Seq(Commands) /\ worker.request \in Request
        /\ InOrder(worker.todo, worker.request.action) /\ executed \in {0, 1}
        /\ executed = 1 => Head(worker.todo) = "SET"
    BY DEF ChannelIInv, ChannelTypeOK, WorkIsInOrder, ExecutedWhenAnswered, Worker
  <1>2. Quiet(link') /\ UNCHANGED <<screen, channel, executed>>
    BY LeftIsQuiet DEF Failed
  <1>3. CASE Head(worker.todo) = "PING" /\ Invalidates(error)
    <2> DEFINE todo == <<"HELLO">> \o Tail(worker.todo)
               w == [worker EXCEPT !.phase = "next", !.todo = todo]
    <2>1. worker' = w /\ UNCHANGED results
      BY <1>3 DEF Failed
    <2>2. todo \in Seq(Commands) /\ InOrder(todo, worker.request.action)
      BY <1>1, <1>3, HelloIsInOrder
    <2>3. executed = 0
      BY <1>1, <1>3
    <2> HIDE DEF todo
    <2>4. w \in Worker /\ w.phase = "next" /\ w.request = worker.request /\ w.todo = todo
      BY <1>1, <2>2 DEF Worker
    <2> HIDE DEF w
    <2> QED BY <1>2, <2>1, <2>2, <2>3, <2>4, GoingOnKeeps
  <1>4. CASE /\ ~(Head(worker.todo) = "PING" /\ Invalidates(error))
             /\ Head(worker.todo) \in Partial /\ ~Invalidates(error)
    <2>1. Advance(TRUE)
      BY <1>4 DEF Failed
    <2>2. Head(worker.todo) # "SET"
      BY <1>4 DEF Partial
    <2> QED BY <1>1, <1>2, <2>1, <2>2, AdvanceKeeps
  <1>5. CASE /\ ~(Head(worker.todo) = "PING" /\ Invalidates(error))
             /\ ~(Head(worker.todo) \in Partial /\ ~Invalidates(error))
             /\ worker.request.action = "Initialize" /\ ~worker.retried
    <2> DEFINE todo == Script("Initialize", link'.open)
               w == [worker EXCEPT !.phase = "next", !.retried = TRUE, !.partial = FALSE,
                                   !.todo = todo]
    <2>1. worker' = w /\ UNCHANGED results
      BY <1>5 DEF Failed
    <2>2. link'.open \in BOOLEAN
      BY <1>2 DEF Quiet, Session
    <2>3. todo \in Seq(Commands) /\ InOrder(todo, worker.request.action)
      BY <1>5, <2>2, ScriptIsInOrder DEF Actions
    <2>4. executed = 0
      <3>1. worker.request.action \notin Settings
        BY <1>5 DEF Settings
      <3>2. Head(worker.todo) # "SET"
        BY <1>1, <3>1, RestIsInOrder
      <3> QED BY <1>1, <3>2
    <2> HIDE DEF todo
    <2>5. w \in Worker /\ w.phase = "next" /\ w.request = worker.request /\ w.todo = todo
      BY <1>1, <2>3 DEF Worker
    <2> HIDE DEF w
    <2> QED BY <1>2, <2>1, <2>3, <2>4, <2>5, GoingOnKeeps
  <1>6. CASE Publish("failed")
    BY <1>2, <1>6, PublishKeeps
  <1> QED BY <1>3, <1>4, <1>5, <1>6 DEF Failed

\* What is under way, in the words of the worker.
LEMMA WorkingFacts ==
  ASSUME ChannelIInv, worker.phase \in {"next", "waiting"}
  PROVE  /\ worker \in Worker /\ link \in Session
         /\ worker.request # NoRequest /\ channel = NoRequest /\ results = <<>>
         /\ worker.todo \in Seq(Commands) /\ InOrder(worker.todo, worker.request.action)
         /\ Head(worker.todo) \in Commands /\ InFlight = worker.request
         /\ worker.phase = "next" => Quiet(link) /\ executed = 0
  <1>1. worker \in Worker /\ link \in Session /\ worker.request # NoRequest
        /\ channel = NoRequest /\ results = <<>>
    BY DEF ChannelIInv, ChannelTypeOK, OneUnderWay, WorkIsInOrder
  <1>2. worker.todo \in Seq(Commands) /\ InOrder(worker.todo, worker.request.action)
    BY <1>1 DEF ChannelIInv, WorkIsInOrder, Worker
  <1>3. worker.phase = "next" => Quiet(link) /\ executed = 0
    BY <1>1 DEF ChannelIInv, LinkCarriesOne, ExecutedWhenAnswered, Quiet
  <1> QED BY <1>1, <1>2, <1>3, RestIsInOrder DEF InFlight

\* The worker takes the request out of the queue.
LEMMA TakeKeeps ==
  ASSUME ChannelIInv, Take
  PROVE  ChannelIInv' /\ Promised
  <1>1. /\ worker \in Worker /\ link \in Session /\ channel \in Request
        /\ worker.request = NoRequest /\ results = <<>> /\ executed = 0
        /\ link.sent = <<>> /\ link.answers = <<>>
    BY DEF Take, ChannelIInv, ChannelTypeOK, OneUnderWay, WorkIsInOrder, LinkCarriesOne,
           ExecutedWhenAnswered
  <1> DEFINE todo == Script(channel.action, link.open)
             w == [Resting EXCEPT !.phase = "next", !.request = channel, !.todo = todo]
  <1>2. worker' = w /\ channel' = NoRequest /\ UNCHANGED <<screen, link, results, executed>>
    BY DEF Take
  <1>3. todo \in Seq(Commands) /\ InOrder(todo, channel.action)
    BY <1>1, ScriptIsInOrder DEF Request, Session
  <1> HIDE DEF todo
  <1>4. w \in Worker /\ w.phase = "next" /\ w.request = channel /\ w.todo = todo
    BY <1>1, <1>3 DEF Worker, Resting
  <1> HIDE DEF w
  <1>5. InFlight = channel /\ InFlight' = channel /\ channel # NoRequest
    BY <1>1, <1>2, <1>4, RequestAssumption DEF InFlight
  <1>6. ChannelTypeOK'
    BY <1>2, <1>4 DEF ChannelIInv, ChannelTypeOK
  <1>7. OneUnderWay'
    BY <1>1, <1>2, <1>5 DEF ChannelIInv, OneUnderWay
  <1>8. WorkIsInOrder' /\ LinkCarriesOne' /\ ExecutedWhenAnswered'
    BY <1>1, <1>2, <1>3, <1>4, <1>5 DEF WorkIsInOrder, LinkCarriesOne, ExecutedWhenAnswered
  <1>9. Promised
    BY <1>2, <1>5 DEF Promised, Ask!askVars, Decided
  <1> QED BY <1>6, <1>7, <1>8, <1>9 DEF ChannelIInv

\* send_line writes the next line, or finds the connection gone.
LEMMA SendKeeps ==
  ASSUME ChannelIInv, Send
  PROVE  ChannelIInv' /\ Promised
  <1>1. /\ worker \in Worker /\ link \in Session /\ worker.phase = "next"
        /\ worker.request # NoRequest /\ channel = NoRequest /\ results = <<>>
        /\ worker.todo \in Seq(Commands) /\ InOrder(worker.todo, worker.request.action)
        /\ Head(worker.todo) \in Commands /\ InFlight = worker.request
        /\ Quiet(link) /\ executed = 0
    BY WorkingFacts DEF Send
  <1> DEFINE m == [command |-> Head(worker.todo), own |-> TRUE]
             s == [link EXCEPT !.open = TRUE, !.sent = Append(@, m)]
             w == [worker EXCEPT !.phase = "waiting"]
  <1>2. worker' = w /\ link' = s /\ UNCHANGED <<screen, channel, results, executed>>
    BY DEF Send
  <1>3. /\ w \in Worker /\ w.phase = "waiting" /\ w.request = worker.request
        /\ w.todo = worker.todo
    BY <1>1 DEF Worker
  <1>4. m \in Sent
    BY <1>1 DEF Sent
  <1>5. Append(link.sent, m) = <<m>> /\ <<m>> \in Seq(Sent)
    <2> HIDE DEF m
    <2> QED BY <1>1, <1>4 DEF Quiet
  <1>6. s \in Session /\ s.sent = <<m>> /\ s.answers = <<>>
    <2> HIDE DEF m
    <2> QED BY <1>1, <1>5 DEF Quiet, Session
  <1> HIDE DEF s, w
  <1>7. InFlight' = worker.request
    BY <1>1, <1>2, <1>3 DEF InFlight
  <1>8. ChannelTypeOK'
    BY <1>2, <1>3, <1>6 DEF ChannelIInv, ChannelTypeOK
  <1>9. OneUnderWay' /\ WorkIsInOrder'
    BY <1>1, <1>2, <1>3, <1>7 DEF ChannelIInv, OneUnderWay, WorkIsInOrder
  <1>10. LinkCarriesOne'
    BY <1>2, <1>3, <1>6 DEF LinkCarriesOne
  <1>11. ExecutedWhenAnswered'
    BY <1>1, <1>2, <1>6 DEF ExecutedWhenAnswered
  <1>12. Promised
    BY <1>1, <1>2, <1>7 DEF Promised, Ask!askVars, Decided
  <1> QED BY <1>8, <1>9, <1>10, <1>11, <1>12 DEF ChannelIInv

\* Connecting, its retry, and the deadline of a read.
LEMMA TrialKeeps ==
  ASSUME ChannelIInv, SendFails \/ Skip \/ GiveUp
  PROVE  ChannelIInv' /\ Promised
  <1>1. CASE SendFails
    <2>1. PICK error \in {"Transport", "InvalidRequest"} : Failed(link, error)
      BY <1>1 DEF SendFails
    <2>2. link \in Session /\ Quiet(link) /\ worker.request # NoRequest
      BY <1>1, WorkingFacts DEF SendFails
    <2> QED BY <2>1, <2>2, FailedKeeps DEF Errors
  <1>2. CASE Skip
    <2>1. /\ Quiet(link) /\ worker.request # NoRequest /\ executed = 0
          /\ Head(worker.todo) # "SET" /\ Advance(FALSE)
          /\ UNCHANGED <<screen, channel, link, executed>>
      BY <1>2, WorkingFacts DEF Skip
    <2>2. Quiet(link') /\ (executed = 1 <=> Head(worker.todo) = "SET") /\ FALSE \in BOOLEAN
      BY <2>1 DEF Quiet
    <2> QED BY <2>1, <2>2, AdvanceKeeps
  <1>3. CASE GiveUp
    <2>1. PICK error \in {"Timeout", "Transport"} : Failed(link, error)
      BY <1>3 DEF GiveUp
    <2>2. link \in Session /\ worker.request # NoRequest
      BY <1>3, WorkingFacts DEF GiveUp
    <2> QED BY <2>1, <2>2, FailedKeeps DEF Errors, Invalidates
  <1> QED BY <1>1, <1>2, <1>3

\* The answer that is read belongs to the line that was sent last.
LEMMA ReceiveKeeps ==
  ASSUME ChannelIInv, Receive
  PROVE  ChannelIInv' /\ Promised
  <1> DEFINE kind == Head(link.answers).kind
             unread == [link EXCEPT !.answers = Tail(@)]
  <1>1. /\ worker \in Worker /\ link \in Session /\ worker.request # NoRequest
        /\ worker.phase = "waiting" /\ link.answers # <<>>
    BY WorkingFacts DEF Receive
  <1>2. link.sent = <<>> /\ Len(link.answers) = 1 /\ link.answers \in Seq(Received)
    BY <1>1 DEF ChannelIInv, LinkCarriesOne, Session
  <1>3. Tail(link.answers) = <<>>
    <2>1. Tail(link.answers) \in Seq(Received) /\ Len(Tail(link.answers)) = 0
      BY <1>2
    <2> QED BY <2>1, EmptySeq
  <1>4. unread \in Session /\ Quiet(unread)
    BY <1>1, <1>2, <1>3, EmptySeq DEF Session, Quiet
  <1> HIDE DEF unread
  <1>5. CASE /\ kind \in {"ok", "degraded"} /\ link' = unread /\ Advance(kind = "degraded")
             /\ UNCHANGED <<screen, channel, executed>>
    <2>1. executed = 1 <=> Head(worker.todo) = "SET"
      BY <1>1, <1>5 DEF ChannelIInv, ExecutedWhenAnswered
    <2>2. (kind = "degraded") \in BOOLEAN
      OBVIOUS
    <2> QED BY <1>1, <1>4, <1>5, <2>1, <2>2, AdvanceKeeps
  <1>6. CASE Failed(unread, "CommandRejected")
    BY <1>1, <1>4, <1>6, FailedKeeps DEF Errors
  <1>7. CASE Failed(unread, "Protocol")
    BY <1>1, <1>4, <1>7, FailedKeeps DEF Errors
  <1> QED BY <1>5, <1>6, <1>7 DEF Receive, unread

\* The daemon reads a line, executes it and answers, or closes the connection.
LEMMA ServeKeeps ==
  ASSUME ChannelIInv, Serve
  PROVE  ChannelIInv' /\ Promised
  <1>1. worker.phase = "waiting" /\ link.sent # <<>>
    BY DEF Serve, ChannelIInv, LinkCarriesOne
  <1>2. /\ worker \in Worker /\ link \in Session /\ worker.request # NoRequest
        /\ channel = NoRequest /\ results = <<>> /\ InFlight = worker.request
        /\ worker.todo \in Seq(Commands) /\ InOrder(worker.todo, worker.request.action)
        /\ Head(worker.todo) \in Commands
    BY <1>1, WorkingFacts
  <1> DEFINE m == [command |-> Head(worker.todo), own |-> TRUE]
  <1>3. link.sent = <<m>> /\ link.answers = <<>>
    BY <1>1 DEF ChannelIInv, LinkCarriesOne
  <1>4. Head(link.sent) = m /\ Tail(link.sent) = <<>> /\ m.own /\ m.command = Head(worker.todo)
    <2>1. Head(link.sent) = m /\ Tail(link.sent) = <<>>
      <3> HIDE DEF m
      <3> QED BY <1>3
    <2> QED BY <2>1
  <1>5. executed = 0
    BY <1>2, <1>3 DEF ChannelIInv, ExecutedWhenAnswered
  <1>6. PICK kind \in Kinds :
          /\ link' = [link EXCEPT !.sent = Tail(@),
                        !.answers = Append(@, [kind |-> kind, own |-> Head(link.sent).own])]
          /\ executed' = IF /\ Head(link.sent) = [command |-> "SET", own |-> TRUE]
                            /\ kind # "rejected"
                         THEN executed + 1 ELSE executed
    BY Zenon DEF Serve
  <1>7. UNCHANGED <<screen, channel, worker, results>>
    BY DEF Serve
  <1> DEFINE a == [kind |-> kind, own |-> TRUE]
  <1>8. a \in Received /\ a.kind = kind /\ a.own
    BY DEF Received
  <1>9. executed' = 1 <=> Head(worker.todo) = "SET" /\ kind # "rejected"
    <2>1. Head(link.sent) = [command |-> "SET", own |-> TRUE] <=> Head(worker.todo) = "SET"
      <3>1. Head(worker.todo) = "SET" => m = [command |-> "SET", own |-> TRUE]
        OBVIOUS
      <3>2. m = [command |-> "SET", own |-> TRUE] => m.command = "SET"
        OBVIOUS
      <3> HIDE DEF m
      <3> QED BY <1>4, <3>1, <3>2
    <2> QED BY <1>5, <1>6, <2>1
  <1>10. executed' \in {0, 1}
    BY <1>5, <1>6
  <1>11. /\ link' \in Session /\ link'.sent = <<>> /\ link'.answers = <<a>>
    <2>1. Append(link.answers, a) = <<a>> /\ <<a>> \in Seq(Received)
      <3> HIDE DEF a
      <3> QED BY <1>3, <1>8
    <2>2. [kind |-> kind, own |-> Head(link.sent).own] = a
      BY <1>4
    <2> HIDE DEF a
    <2>3. link' = [link EXCEPT !.sent = Tail(@), !.answers = Append(@, a)]
      BY <1>6, <2>2
    <2>4. <<>> \in Seq(Sent)
      BY EmptySeq
    <2> QED BY <1>2, <1>4, <2>1, <2>3, <2>4 DEF Session
  <1>12. Len(link'.answers) = 1 /\ link'.answers[1] = a /\ Head(link'.answers) = a
         /\ link'.answers # <<>>
    <2> HIDE DEF a
    <2> QED BY <1>11
  <1>13. InFlight' = worker.request
    BY <1>2, <1>7 DEF InFlight
  <1>14. ChannelTypeOK'
    BY <1>7, <1>10, <1>11 DEF ChannelIInv, ChannelTypeOK
  <1>15. OneUnderWay' /\ WorkIsInOrder'
    BY <1>2, <1>7, <1>13 DEF ChannelIInv, OneUnderWay, WorkIsInOrder
  <1>16. LinkCarriesOne'
    BY <1>1, <1>7, <1>8, <1>11, <1>12 DEF LinkCarriesOne
  <1>17. ExecutedWhenAnswered'
    BY <1>1, <1>2, <1>7, <1>8, <1>9, <1>10, <1>12 DEF ExecutedWhenAnswered
  <1>18. Promised
    <2>1. CASE executed' = 0
      BY <1>2, <1>5, <1>7, <1>13, <2>1 DEF Promised, Ask!askVars, Decided
    <2>2. CASE executed' = 1
      <3>1. worker.request.action \in Settings
        BY <1>2, <1>9, <2>2, RestIsInOrder DEF InOrder
      <3>2. InFlight \in {r \in Asked : r.action \in Settings}
        BY <1>2, <3>1 DEF ChannelIInv, OneUnderWay, Initialize, Settings
      <3>3. Ask!CarryOut
        BY <1>2, <1>5, <1>7, <1>13, <2>2, <3>2 DEF Ask!CarryOut, Decided
      <3> QED BY <3>3 DEF Promised, Ask!AskNext
    <2> QED BY <1>10, <2>1, <2>2
  <1> QED BY <1>14, <1>15, <1>16, <1>17, <1>18 DEF ChannelIInv

\* The screen while a request begins, and when it has ended.
LEMMA BegunScreen ==
  ASSUME NEW v \in Screens, NEW r \in Request
  PROVE  /\ Begin(v, r) \in Screens /\ Begin(v, r).busy
         /\ Begin(v, r).platformBusy = (v.platformBusy \/ TouchesPlatform(r))
         /\ Begin(v, r).health = IF r.foreground THEN "Applying" ELSE v.health
  <1>1. (v.platformBusy \/ TouchesPlatform(r)) \in BOOLEAN
    BY DEF Screens
  <1> HIDE DEF TouchesPlatform
  <1> QED BY <1>1 DEF Begin, Screens

\* Its end leaves a screen.
LEMMA SettledScreen ==
  ASSUME NEW v \in Screens, NEW r \in Request
  PROVE  /\ Settle(v, r) \in Screens /\ ~Settle(v, r).busy
         /\ Settle(v, r).platformBusy = (v.platformBusy /\ ~TouchesPlatform(r))
         /\ Settle(v, r).health = v.health
  <1>1. (v.platformBusy /\ ~TouchesPlatform(r)) \in BOOLEAN
    BY DEF Screens
  <1> QED BY <1>1 DEF Settle, Screens

\* A failed request leaves a screen that is not busy.
LEMMA RefusedScreen ==
  ASSUME NEW v \in Screens, NEW r \in Request
  PROVE  /\ Refuse(v, r) \in Screens /\ ~Refuse(v, r).busy
         /\ Refuse(v, r).platformBusy = (v.platformBusy /\ ~TouchesPlatform(r))
         /\ Refuse(v, r).health =
              IF r.foreground \/ r.action = "Initialize" THEN "Warning" ELSE v.health
  <1> DEFINE w == Settle(v, r)
             enabled == w.enabled /\ (r.action = "Initialize" => v.known)
             e == [w EXCEPT !.enabled = enabled]
  <1>1. /\ w \in Screens /\ ~w.busy /\ w.health = v.health
        /\ w.platformBusy = (v.platformBusy /\ ~TouchesPlatform(r))
    BY SettledScreen
  <1>2. Refuse(v, r) = IF r.foreground \/ r.action = "Initialize"
                       THEN [e EXCEPT !.health = "Warning", !.status = "Failure"] ELSE e
    BY DEF Refuse
  <1>3. enabled \in BOOLEAN
    OBVIOUS
  <1> HIDE DEF w, enabled
  <1>4. /\ e \in Screens /\ ~e.busy /\ e.health = v.health
        /\ e.platformBusy = (v.platformBusy /\ ~TouchesPlatform(r))
    BY <1>1, <1>3 DEF Screens
  <1> HIDE DEF e
  <1> QED BY <1>2, <1>4 DEF Screens

\* A confirmed one leaves a screen that is not busy.
LEMMA AcceptedScreen ==
  ASSUME NEW v \in Screens, NEW r \in Request, NEW partial \in BOOLEAN
  PROVE  /\ Accept(v, r, partial) \in Screens /\ ~Accept(v, r, partial).busy
         /\ Accept(v, r, partial).platformBusy = (v.platformBusy /\ ~TouchesPlatform(r))
         /\ Accept(v, r, partial).health \in {"Warning", "Healthy"}
  <1> DEFINE w == Settle(v, r)
             s == IF r.action \in {"Initialize", "Refresh"}
                  THEN [w EXCEPT !.known = TRUE, !.enabled = TRUE] ELSE w
  <1>1. w \in Screens /\ ~w.busy /\ w.platformBusy = (v.platformBusy /\ ~TouchesPlatform(r))
    BY SettledScreen
  <1>2. Accept(v, r, partial) = IF partial
                                THEN [s EXCEPT !.health = "Warning", !.status = "Partial"]
                                ELSE [s EXCEPT !.health = "Healthy", !.status = "Confirmed"]
    BY DEF Accept
  <1> HIDE DEF w
  <1>3. s \in Screens /\ ~s.busy /\ s.platformBusy = (v.platformBusy /\ ~TouchesPlatform(r))
    BY <1>1 DEF Screens
  <1> HIDE DEF s
  <1> QED BY <1>2, <1>3 DEF Screens

\* apply_control_update: whatever the update, nothing is busy once it is shown.
LEMMA ShownScreen ==
  ASSUME NEW v \in Screens, NEW u \in Update,
         v.platformBusy => TouchesPlatform(u.request),
         v.health = "Applying" => u.request.foreground \/ u.request.action = "Initialize"
  PROVE  /\ Shown(v, u) \in Screens /\ ~Shown(v, u).busy
         /\ ~Shown(v, u).platformBusy /\ Shown(v, u).health # "Applying"
  <1> DEFINE w == IF u.refresh = "none" THEN v
                  ELSE Accept(v, Background, u.refresh = "partial")
  <1>1. u.request \in Request /\ Background \in Request
    BY DEF Update, Background, Request, Actions
  <1>2. /\ w \in Screens /\ (w.platformBusy => TouchesPlatform(u.request))
        /\ w.health = "Applying" => u.request.foreground \/ u.request.action = "Initialize"
    <2>1. (u.refresh = "partial") \in BOOLEAN
      OBVIOUS
    <2>2. TouchesPlatform(Background)
      BY DEF TouchesPlatform, Background
    <2> QED BY <1>1, <2>1, <2>2, AcceptedScreen
  <1>3. Shown(v, u) = IF u.result = "failed" THEN Refuse(w, u.request)
                      ELSE Accept(w, u.request, u.result = "partial")
    BY DEF Shown
  <1>4. (u.result = "partial") \in BOOLEAN
    OBVIOUS
  <1> HIDE DEF w
  <1>5. CASE u.result = "failed"
    <2>1. /\ Refuse(w, u.request) \in Screens /\ ~Refuse(w, u.request).busy
          /\ Refuse(w, u.request).platformBusy
               = (w.platformBusy /\ ~TouchesPlatform(u.request))
          /\ Refuse(w, u.request).health =
               IF u.request.foreground \/ u.request.action = "Initialize"
               THEN "Warning" ELSE w.health
      BY <1>1, <1>2, RefusedScreen
    <2>2. Shown(v, u) = Refuse(w, u.request)
      BY <1>3, <1>5
    <2> QED BY <1>2, <2>1, <2>2
  <1>6. CASE u.result # "failed"
    BY <1>1, <1>2, <1>3, <1>4, <1>6, AcceptedScreen
  <1> QED BY <1>5, <1>6

\* The user queues a request, or the full queue refuses it.
LEMMA QueueKeeps ==
  ASSUME ChannelIInv, NEW r \in Asked, Queue(r)
  PROVE  ChannelIInv' /\ Promised
  <1>1. r \in Request /\ r # NoRequest /\ r.action # "Initialize"
    <2>1. CASE r = Background
      <3>1. Background \in Request /\ Background.action # "Initialize"
        BY DEF Background, Request, Actions
      <3> QED BY <2>1, <3>1, RequestAssumption
    <2>2. CASE r \in [action : Settings \cup {"Refresh"}, foreground : {TRUE}]
      <3>1. r.action \in Settings \cup {"Refresh"} /\ r \in Request
        BY <2>2 DEF Request, Actions
      <3>2. r.action # "Initialize"
        BY <3>1 DEF Settings
      <3> QED BY <3>1, <3>2, RequestAssumption
    <2> QED BY <2>1, <2>2 DEF Asked
  <1>2. /\ screen \in Screens /\ ~screen.busy /\ ~screen.platformBusy
        /\ screen.health # "Applying" /\ InFlight = NoRequest
    BY DEF Queue, ChannelIInv, ChannelTypeOK, OneUnderWay
  <1>3. channel = NoRequest /\ worker.request = NoRequest /\ results = <<>>
    <2>1. channel = NoRequest /\ worker.request = NoRequest
      BY <1>2 DEF InFlight
    <2>2. ASSUME results # <<>>
          PROVE  FALSE
      <3>1. Head(results) \in Update
        BY <2>2 DEF ChannelIInv, ChannelTypeOK
      <3>2. Head(results).request \in Request
        BY <3>1 DEF Update
      <3> QED BY <1>2, <2>1, <2>2, <3>2, RequestAssumption DEF InFlight
    <2> QED BY <2>1, <2>2
  <1>4. executed' = 0 /\ UNCHANGED <<worker, link, results>>
    BY DEF Queue
  <1>5. worker.phase # "waiting" /\ worker.phase \notin {"next", "waiting"}
    BY <1>3 DEF ChannelIInv, WorkIsInOrder
  <1>6. LinkCarriesOne'
    BY <1>4 DEF ChannelIInv, LinkCarriesOne
  <1>7. CASE worker.phase = "absent" /\ screen' = Refuse(Begin(screen, r), r) /\ UNCHANGED channel
    <2>1. /\ screen' \in Screens /\ ~screen'.busy /\ ~screen'.platformBusy
          /\ screen'.health # "Applying"
      <3> DEFINE w == Begin(screen, r)
      <3>1. /\ w \in Screens /\ w.platformBusy = (screen.platformBusy \/ TouchesPlatform(r))
            /\ w.health = IF r.foreground THEN "Applying" ELSE screen.health
        BY <1>1, <1>2, BegunScreen
      <3>2. screen' = Refuse(w, r)
        BY <1>7
      <3> HIDE DEF w
      <3>3. /\ screen' \in Screens /\ ~screen'.busy
            /\ screen'.platformBusy = (w.platformBusy /\ ~TouchesPlatform(r))
            /\ screen'.health = IF r.foreground \/ r.action = "Initialize" THEN "Warning"
                                ELSE w.health
        BY <1>1, <3>1, <3>2, RefusedScreen
      <3> QED BY <1>2, <3>1, <3>3
    <2>2. InFlight' = NoRequest
      BY <1>3, <1>4, <1>7 DEF InFlight
    <2>3. ChannelTypeOK' /\ OneUnderWay' /\ WorkIsInOrder' /\ ExecutedWhenAnswered'
      BY <1>3, <1>4, <1>5, <1>7, <2>1, <2>2 DEF ChannelIInv, ChannelTypeOK, OneUnderWay,
           WorkIsInOrder, ExecutedWhenAnswered
    <2>4. Ask!Ask(r)
      BY <1>2, <1>3, <1>4, <2>2 DEF Ask!Ask, Decided
    <2> QED BY <1>6, <2>3, <2>4 DEF ChannelIInv, Promised, Ask!AskNext
  <1>8. CASE worker.phase # "absent" /\ screen' = Begin(screen, r) /\ channel' = r
    <2>1. /\ screen' \in Screens /\ screen'.busy
          /\ screen'.platformBusy => TouchesPlatform(r)
          /\ screen'.health = "Applying" => r.foreground
      BY <1>1, <1>2, <1>8, BegunScreen
    <2>2. InFlight' = r
      BY <1>1, <1>8 DEF InFlight
    <2>3. ChannelTypeOK' /\ OneUnderWay' /\ WorkIsInOrder'
      BY <1>1, <1>3, <1>4, <1>5, <1>8, <2>1, <2>2 DEF ChannelIInv, ChannelTypeOK,
           OneUnderWay, WorkIsInOrder
    <2>4. ExecutedWhenAnswered'
      BY <1>3, <1>4, <1>5 DEF ExecutedWhenAnswered
    <2>5. Ask!Ask(r)
      BY <1>2, <1>3, <1>4, <2>2 DEF Ask!Ask, Decided
    <2> QED BY <1>6, <2>3, <2>4, <2>5 DEF ChannelIInv, Promised, Ask!AskNext
  <1> QED BY <1>3, <1>7, <1>8 DEF Queue

\* The UI takes the update out of the slot.
LEMMA DeliverKeeps ==
  ASSUME ChannelIInv, Deliver
  PROVE  ChannelIInv' /\ Promised
  <1> DEFINE u == Head(results)
  <1>1. /\ results # <<>> /\ channel = NoRequest /\ worker.request = NoRequest
        /\ Len(results) = 1 /\ results \in Seq(Update) /\ u \in Update
    BY DEF Deliver, ChannelIInv, ChannelTypeOK, OneUnderWay
  <1>2. InFlight = u.request /\ u.request \in Request /\ u.request # NoRequest
    BY <1>1, RequestAssumption DEF InFlight, Update
  <1>3. results' = <<>>
    <2>1. Tail(results) \in Seq(Update) /\ Len(Tail(results)) = 0
      BY <1>1
    <2> QED BY <2>1, EmptySeq DEF Deliver
  <1>4. screen' = Shown(screen, u) /\ UNCHANGED <<channel, worker, link, executed>>
    BY DEF Deliver
  <1>5. /\ screen' \in Screens /\ ~screen'.busy /\ ~screen'.platformBusy
        /\ screen'.health # "Applying"
    BY <1>1, <1>2, <1>4, ShownScreen DEF ChannelIInv, ChannelTypeOK, OneUnderWay
  <1>6. InFlight' = NoRequest
    BY <1>1, <1>3, <1>4 DEF InFlight
  <1>7. ChannelTypeOK'
    BY <1>3, <1>4, <1>5, EmptySeq DEF ChannelIInv, ChannelTypeOK
  <1>8. OneUnderWay' /\ WorkIsInOrder' /\ LinkCarriesOne'
    BY <1>1, <1>3, <1>4, <1>5, <1>6 DEF ChannelIInv, OneUnderWay, WorkIsInOrder, LinkCarriesOne
  <1>9. ExecutedWhenAnswered'
    BY <1>1, <1>3, <1>4 DEF ChannelIInv, ExecutedWhenAnswered
  <1>10. Ask!Answer
    BY <1>1, <1>2, <1>3, <1>4, <1>6 DEF Ask!Answer, Decided
  <1> QED BY <1>7, <1>8, <1>9, <1>10 DEF ChannelIInv, Promised, Ask!AskNext

\* The first request waits for the worker.
LEMMA ChannelStarts ==
  ASSUME ChannelInit
  PROVE  ChannelIInv /\ Ask!AskInit
  <1>1. /\ screen \in Screens /\ screen.busy /\ link = NoSession /\ executed = 0
        /\ NoSession \in Session /\ NoSession.sent = <<>> /\ NoSession.answers = <<>>
    BY DEF ChannelInit, Screens, Boot, NoSession, Session
  <1>2. Initialize \in Request /\ Initialize # NoRequest /\ Initialize.action = "Initialize"
        /\ TouchesPlatform(Initialize)
    <2>1. Initialize \in Request /\ Initialize.action = "Initialize"
      BY DEF Initialize, Request, Actions
    <2> QED BY <2>1, RequestAssumption DEF TouchesPlatform
  <1>3. Resting \in Worker /\ Resting.phase = "idle" /\ Resting.request = NoRequest
    BY DEF Resting, Worker
  <1>4. CASE worker = Resting /\ channel = Initialize /\ results = <<>>
    <2>1. InFlight = Initialize
      BY <1>2, <1>4 DEF InFlight
    <2>2. ChannelTypeOK /\ OneUnderWay
      BY <1>1, <1>2, <1>3, <1>4, <2>1, EmptySeq DEF ChannelTypeOK, OneUnderWay
    <2>3. WorkIsInOrder /\ LinkCarriesOne /\ ExecutedWhenAnswered
      BY <1>1, <1>3, <1>4 DEF WorkIsInOrder, LinkCarriesOne, ExecutedWhenAnswered
    <2> QED BY <1>1, <1>4, <2>1, <2>2, <2>3 DEF ChannelIInv, Ask!AskInit, Decided
  <1>5. ASSUME NEW u, u = [request |-> Initialize, refresh |-> "none", result |-> "failed"],
               worker = [Resting EXCEPT !.phase = "absent"], channel = NoRequest,
               results = <<u>>
        PROVE  ChannelIInv /\ Ask!AskInit
    <2>1. u \in Update /\ u.request = Initialize /\ u.result = "failed"
      BY <1>2, <1>5 DEF Update
    <2>2. results \in Seq(Update) /\ Len(results) = 1 /\ Head(results) = u /\ results # <<>>
      BY <1>5, <2>1
    <2>3. worker \in Worker /\ worker.phase = "absent" /\ worker.request = NoRequest
      BY <1>3, <1>5 DEF Resting, Worker
    <2>4. InFlight = Initialize
      BY <1>5, <2>1, <2>2, <2>3 DEF InFlight
    <2>5. ChannelTypeOK /\ OneUnderWay
      BY <1>1, <1>2, <1>5, <2>2, <2>3, <2>4 DEF ChannelTypeOK, OneUnderWay
    <2>6. WorkIsInOrder /\ LinkCarriesOne /\ ExecutedWhenAnswered
      BY <1>1, <1>5, <2>1, <2>2, <2>3 DEF WorkIsInOrder, LinkCarriesOne, ExecutedWhenAnswered
    <2> QED BY <1>1, <2>1, <2>2, <2>4, <2>5, <2>6 DEF ChannelIInv, Ask!AskInit, Decided
  <1> QED BY <1>4, <1>5 DEF ChannelInit

\* Every step keeps the invariant, and is one of OneAnswer or a stutter.
LEMMA ChannelSteps ==
  ASSUME ChannelIInv, [ChannelNext]_channelVars
  PROVE  ChannelIInv' /\ Promised
  <1>1. CASE UNCHANGED channelVars
    BY <1>1 DEF channelVars, ChannelIInv, ChannelTypeOK, OneUnderWay, WorkIsInOrder, InOrder,
         LinkCarriesOne, ExecutedWhenAnswered, InFlight, Promised, Ask!askVars, Decided
  <1>2. CASE ChannelNext
    BY <1>2, QueueKeeps, TakeKeeps, SendKeeps, TrialKeeps, ReceiveKeeps, ServeKeeps, DeliverKeeps
       DEF ChannelNext
  <1> QED BY <1>1, <1>2

\* The application and its control worker agree on the one request that is under way, and
\* the link holds nothing but its line or its answer.
THEOREM ChannelInvariant == ChannelSpec => []ChannelIInv
  <1>1. ChannelInit => ChannelIInv
    BY ChannelStarts
  <1>2. ChannelIInv /\ [ChannelNext]_channelVars => ChannelIInv'
    BY ChannelSteps
  <1> QED BY <1>1, <1>2, PTL DEF ChannelSpec

\* No line is answered by the reply to an earlier one: a connection that has lost count
\* (a deadline, a malformed answer) is closed before the next line is sent.
THEOREM AnswersAreOwn == ChannelSpec => []NoForeignAnswer
  <1>1. ChannelIInv => NoForeignAnswer
    <2> SUFFICES ASSUME ChannelIInv, NEW i \in DOMAIN link.answers
                 PROVE  link.answers[i].own
      BY DEF NoForeignAnswer
    <2>1. link.answers \in Seq(Received)
      BY DEF ChannelIInv, ChannelTypeOK, Session
    <2> QED BY <2>1, EmptySeq DEF ChannelIInv, LinkCarriesOne
  <1> QED BY <1>1, ChannelInvariant, PTL

\* The window is busy exactly while a request is in the queue, in the worker or in the
\* slot: no answer is lost, and no second request overtakes the first.
THEOREM OneRequestIsBusy == ChannelSpec => []BusyIsOneRequest
  <1>1. ChannelIInv => BusyIsOneRequest
    <2> SUFFICES ASSUME ChannelIInv
                 PROVE  BusyIsOneRequest
      OBVIOUS
    <2>1. OneUnderWay /\ results \in Seq(Update)
      BY DEF ChannelIInv, ChannelTypeOK
    <2>2. results # <<>> => Head(results).request # NoRequest
      <3> SUFFICES ASSUME results # <<>>
                   PROVE  Head(results).request # NoRequest
        OBVIOUS
      <3>1. Head(results) \in Update
        BY <2>1
      <3>2. Head(results).request \in Request
        BY <3>1 DEF Update
      <3> QED BY <3>2, RequestAssumption
    <2>3. ~screen.busy => ~screen.platformBusy /\ screen.health # "Applying"
      BY <2>1 DEF OneUnderWay
    <2> DEFINE a == IF channel = NoRequest THEN 0 ELSE 1
               b == IF worker.request = NoRequest THEN 0 ELSE 1
    <2>4. a + b + Len(results) = IF screen.busy THEN 1 ELSE 0
      <3>1. CASE results # <<>>
        <4>1. channel = NoRequest /\ worker.request = NoRequest /\ Len(results) = 1
          BY <2>1, <3>1 DEF OneUnderWay
        <4>2. screen.busy
          BY <2>1, <2>2, <3>1, <4>1 DEF OneUnderWay, InFlight
        <4> QED BY <4>1, <4>2
      <3>2. CASE results = <<>>
        <4>1. Len(results) = 0
          BY <3>2
        <4>2. screen.busy <=> channel # NoRequest \/ worker.request # NoRequest
          BY <2>1, <3>2 DEF OneUnderWay, InFlight
        <4>3. ~(channel # NoRequest /\ worker.request # NoRequest)
          BY <2>1 DEF OneUnderWay
        <4> QED BY <4>1, <4>2, <4>3
      <3> QED BY <3>1, <3>2
    <2> QED BY <2>3, <2>4 DEF BusyIsOneRequest
  <1> QED BY <1>1, ChannelInvariant, PTL

\* Queue, worker, link and slot together keep the promise of OneAnswer: every request is
\* decided once, and its answer reaches the window before the next one is asked.
THEOREM ChannelImplementsOneAnswer == ChannelSpec => ImplementsOneAnswer
  <1>1. ChannelInit => Ask!AskInit
    BY ChannelStarts
  <1>2. ChannelIInv /\ [ChannelNext]_channelVars => [Ask!AskNext]_(Ask!askVars)
    BY ChannelSteps DEF Promised
  <1> QED
    BY <1>1, <1>2, ChannelInvariant, PTL DEF ChannelSpec, ImplementsOneAnswer, Ask!AskSpec

------------------------------------------------------------------------------
(* The view: a mismatch is shown only when there is one.                          *)

\* What a judged sample leaves of the view, while only an older read can disagree.
LEMMA JudgedIsPatient ==
  ASSUME NEW v \in AppViews, NEW s \in Samples, NEW profile \in ViewProfiles, NEW later \in Nat,
         ~v.warned, v.sync.target \in {"none", profile},
         ~Misfits(s, v.sync) /\ v.sync.target # "none" => later = 0,
         (IF Misfits(s, v.sync) THEN 1 ELSE 0) + later <= Patience(v.sync)
  PROVE  /\ Judged(v, s) \in AppViews /\ ~Judged(v, s).warned
         /\ Judged(v, s).busy = v.busy /\ Judged(v, s).stalls = v.stalls
         /\ Judged(v, s).sync.target \in {"none", profile}
         /\ later <= Patience(Judged(v, s).sync)
  <1> DEFINE waits == v.sync.target # "none" /\ (v.sync.target # s.profile \/ Differs(s))
             expired == [v EXCEPT !.sync = Settled]
             w == Judged(v, s)
  <1>1. Grace \in Nat /\ Debounce \in Nat \ {0}
    BY ViewAssumption
  <1>2. /\ v.sync \in [target : ViewProfiles \cup {"none"}, grace : 0..Grace,
                       mismatch : 0..Debounce]
        /\ v.sync.grace \in Nat /\ v.sync.mismatch \in Nat /\ s.profile \in ViewProfiles
    BY <1>1 DEF AppViews, Samples
  <1>3. /\ Settled \in [target : ViewProfiles \cup {"none"}, grace : 0..Grace,
                        mismatch : 0..Debounce]
        /\ Settled.target = "none" /\ Settled.mismatch = 0 /\ Patience(Settled) = Debounce - 1
    BY <1>1 DEF Settled, Patience
  <1>p. Patience(v.sync) \in Int
    BY <1>1, <1>2 DEF Patience
  <1>4. CASE v.busy
    <2>1. w = v
      BY <1>4 DEF Judged
    <2>2. later <= Patience(v.sync)
      BY <1>p
    <2> HIDE DEF w
    <2> QED BY <2>1, <2>2 DEF w
  <1>5. CASE ~v.busy /\ waits /\ v.sync.grace > 0
    <2> DEFINE sync == [v.sync EXCEPT !.grace = @ - 1]
    <2>1. w = [v EXCEPT !.sync = sync]
      BY <1>5 DEF Judged
    <2>2. /\ sync \in [target : ViewProfiles \cup {"none"}, grace : 0..Grace,
                       mismatch : 0..Debounce]
          /\ sync.target = v.sync.target /\ sync.grace = v.sync.grace - 1
          /\ sync.mismatch = v.sync.mismatch
      BY <1>1, <1>2, <1>5
    <2> HIDE DEF sync
    <2>3. w \in AppViews /\ w.sync = sync /\ w.busy = v.busy /\ w.warned = v.warned
          /\ w.stalls = v.stalls
      BY <2>1, <2>2 DEF AppViews
    <2>4. Misfits(s, v.sync)
      BY <1>2, <1>5 DEF Misfits
    <2>5. Patience(sync) = Patience(v.sync) - 1
      BY <1>1, <1>2, <1>5, <2>2 DEF Patience
    <2> HIDE DEF w
    <2>6. later <= Patience(sync)
      <3> QED BY <1>p, <2>4, <2>5
    <2> QED BY <2>2, <2>3, <2>6 DEF w
  <1>6. CASE ~v.busy /\ ~(waits /\ v.sync.grace > 0) /\ Differs(s)
    <2> DEFINE x == IF waits THEN expired ELSE v
    <2>1. w = Debounced(x, s)
      BY <1>6 DEF Judged
    <2>2. /\ x \in AppViews /\ x.busy = v.busy /\ x.warned = v.warned /\ x.stalls = v.stalls
          /\ x.sync = IF waits THEN Settled ELSE v.sync
      BY <1>3 DEF AppViews
    <2>3. x.sync.target = "none"
      BY <1>3, <1>6, <2>2
    <2>4. 1 + later <= Debounce - 1 - x.sync.mismatch /\ x.sync.mismatch \in Nat
      <3>1. 1 + later <= Patience(v.sync)
        BY <1>6 DEF Misfits
      <3>2. Patience(v.sync) <= Debounce - 1 - v.sync.mismatch
        BY <1>1, <1>2, <1>6 DEF Patience
      <3>3. 1 + later <= Debounce - 1 - v.sync.mismatch
        BY <1>1, <1>2, <1>p, <3>1, <3>2
      <3>4. CASE waits
        BY <1>1, <1>2, <1>3, <2>2, <3>3, <3>4
      <3>5. CASE ~waits
        BY <1>2, <2>2, <3>3, <3>5
      <3> QED BY <3>4, <3>5
    <2> HIDE DEF x
    <2> DEFINE sync == [x.sync EXCEPT !.mismatch = @ + 1]
    <2>5. w = [x EXCEPT !.sync = sync]
      BY <1>1, <2>1, <2>4 DEF Debounced
    <2>6. /\ sync \in [target : ViewProfiles \cup {"none"}, grace : 0..Grace,
                       mismatch : 0..Debounce]
          /\ sync.target = "none" /\ sync.mismatch = x.sync.mismatch + 1
      BY <1>1, <2>2, <2>3, <2>4 DEF AppViews
    <2> HIDE DEF sync
    <2>7. w \in AppViews /\ w.sync = sync /\ w.busy = v.busy /\ w.warned = v.warned
          /\ w.stalls = v.stalls
      BY <2>2, <2>5, <2>6 DEF AppViews
    <2> HIDE DEF w
    <2>8. Patience(sync) = Debounce - 2 - x.sync.mismatch
      BY <1>1, <2>4, <2>6 DEF Patience
    <2> QED BY <1>1, <2>4, <2>6, <2>7, <2>8 DEF w
  <1>7. CASE ~v.busy /\ ~(waits /\ v.sync.grace > 0) /\ ~Differs(s)
    <2>1. w = [v EXCEPT !.profile = s.profile, !.warned = FALSE, !.sync = Settled]
      BY <1>7 DEF Judged
    <2>2. /\ w \in AppViews /\ w.sync = Settled /\ w.busy = v.busy /\ ~w.warned
          /\ w.stalls = v.stalls
      <3> HIDE DEF w
      <3>1. w \in AppViews
        BY <1>2, <1>3, <2>1 DEF AppViews
      <3>2. /\ w.sync = Settled /\ w.busy = v.busy /\ ~w.warned
            /\ w.stalls = v.stalls
        BY <2>1 DEF AppViews
      <3> QED BY <3>1, <3>2
    <2>3. later <= Debounce - 1
      <3>1. CASE v.sync.target = "none"
        BY <1>1, <1>2, <1>7, <3>1 DEF Patience, Misfits
      <3>2. CASE v.sync.target # "none" /\ v.sync.target = s.profile
        BY <1>1, <1>7, <3>2 DEF Misfits
      <3>3. CASE v.sync.target # "none" /\ v.sync.target # s.profile
        BY <1>1, <1>2, <1>7, <3>3 DEF Misfits, Patience
      <3> QED BY <3>1, <3>2, <3>3
    <2> QED BY <1>3, <2>2, <2>3
  <1> QED BY <1>4, <1>5, <1>6, <1>7

\* The fields that the steps use, out of the type invariant.
LEMMA ViewFacts ==
  ASSUME ViewTypeOK
  PROVE  /\ OffsetRefresh \in Nat /\ Grace \in Nat /\ Debounce \in Nat \ {0}
         /\ view \in AppViews /\ view.sync.target \in ViewProfiles \cup {"none"}
         /\ view.sync.grace \in Nat /\ view.sync.mismatch \in Nat
         /\ Patience(view.sync) \in Int
         /\ sampler.slow \in 0..OffsetRefresh /\ sampler.phase \in {"rest", "sample"}
         /\ laptop.disturbed \in Nat /\ laptop.profile \in ViewProfiles
         /\ slot.kind \in {"none", "error", "sample"}
         /\ slot.kind = "sample" => slot \in Samples
         /\ slot.kind = "none" <=> slot = NoUpdate
         /\ LaterMisfits \in 0..OffsetRefresh + 1
  <1>1. OffsetRefresh \in Nat /\ Grace \in Nat /\ Debounce \in Nat \ {0}
    BY ViewAssumption
  <1>2. /\ view \in AppViews /\ view.sync.target \in ViewProfiles \cup {"none"}
        /\ view.sync.grace \in 0..Grace /\ view.sync.mismatch \in 0..Debounce
    BY DEF ViewTypeOK, AppViews
  <1>3. Patience(view.sync) \in Int
    BY <1>1, <1>2 DEF Patience
  <1>4. /\ sampler.slow \in 0..OffsetRefresh /\ sampler.phase \in {"rest", "sample"}
        /\ laptop.disturbed \in Nat /\ laptop.profile \in ViewProfiles
    BY DEF ViewTypeOK
  <1>5. /\ slot.kind \in {"none", "error", "sample"}
        /\ slot.kind = "sample" => slot \in Samples
        /\ slot.kind = "none" <=> slot = NoUpdate
    <2>1. CASE slot \in Samples
      <3>1. slot.kind = "sample" /\ NoUpdate.kind = "none"
        BY <2>1 DEF Samples, NoUpdate
      <3> QED BY <2>1, <3>1
    <2>2. CASE slot = NoUpdate
      BY <2>2 DEF NoUpdate
    <2>3. CASE slot = [kind |-> "error", refresh |-> FALSE]
      <3>1. slot.kind = "error" /\ NoUpdate.kind = "none"
        BY <2>3 DEF NoUpdate
      <3> QED BY <3>1
    <2> QED BY <2>1, <2>2, <2>3 DEF ViewTypeOK
  <1>6. LaterMisfits \in 0..OffsetRefresh + 1
    BY <1>1, <1>4 DEF LaterMisfits
  <1> QED BY <1>1, <1>2, <1>3, <1>4, <1>5, <1>6

\* The worker's side.
LEMMA JobFacts ==
  ASSUME ViewTypeOK
  PROVE  /\ inWorker # NoJob => inWorker \in Jobs
         /\ inWorker = NoJob => inWorker.kind # "profile"
         /\ inWorker # NoJob => /\ inWorker.end \in {"none", "ok", "failed"}
                                /\ inWorker.kind \in {"profile", "refresh"}
         /\ inWorker.kind = "profile" => inWorker.profile \in ViewProfiles
  <1>1. NoJob.kind = "none"
    BY DEF NoJob
  <1>2. inWorker \in Jobs \cup {NoJob}
    BY DEF ViewTypeOK
  <1>3. CASE inWorker = NoJob
    BY <1>1, <1>3
  <1>4. CASE inWorker \in Jobs
    BY <1>1, <1>4 DEF Jobs
  <1> QED BY <1>2, <1>3, <1>4

\* The user selects a profile.
LEMMA SelectionKeeps ==
  ASSUME ViewIInv, NEW p \in ViewProfiles, UserSelects(p)
  PROVE  ViewIInv'
  <1>1. ViewTypeOK /\ inWorker = NoJob /\ ~view.busy
    BY DEF ViewIInv, UserSelects, Queued
  <1>2. /\ view' = [view EXCEPT !.busy = TRUE]
        /\ inWorker' = [kind |-> "profile", profile |-> p, end |-> "none"]
        /\ turns' = [turns EXCEPT !.selections = @ + 1]
        /\ UNCHANGED <<laptop, sampler, slot>>
    BY DEF UserSelects, Queued
  <1>3. /\ view' \in AppViews /\ view'.busy /\ view'.warned = view.warned
        /\ view'.stalls = view.stalls
    BY <1>1, <1>2, ViewFacts DEF AppViews
  <1>4. inWorker' \in Jobs /\ inWorker'.kind = "profile" /\ inWorker'.end = "none"
        /\ inWorker' # NoJob
    <2>1. inWorker' \in Jobs /\ inWorker'.kind = "profile" /\ inWorker'.end = "none"
      BY <1>2 DEF Jobs
    <2> QED BY <2>1 DEF NoJob
  <1>5. turns' \in [selections : Nat, wakes : Nat]
    BY <1>1, <1>2 DEF ViewTypeOK
  <1>6. ViewTypeOK'
    BY <1>1, <1>2, <1>3, <1>4, <1>5 DEF ViewTypeOK
  <1>7. Calm' => ~view'.warned /\ OneSample' /\ PatienceSuffices'
    BY <1>2, <1>3, <1>4 DEF ViewIInv, Calm, OneSample, PatienceSuffices
  <1> QED BY <1>3, <1>4, <1>6, <1>7 DEF ViewIInv

\* The next step of the command in the worker.
LEMMA WorkKeeps ==
  ASSUME ViewIInv, Works
  PROVE  ViewIInv'
  <1>1. ViewTypeOK /\ inWorker \in Jobs /\ inWorker # NoJob /\ view.busy
        /\ inWorker.end = "none" /\ UNCHANGED <<sampler, slot, view, turns>>
    BY JobFacts DEF ViewIInv, Works
  <1>2. CASE inWorker.kind = "profile" /\ ~Done(laptop, inWorker.profile)
    <2>1. laptop' = Planes(laptop, inWorker.profile) /\ inWorker' = inWorker
      BY <1>2 DEF Works
    <2>2. inWorker.profile \in ViewProfiles
      BY <1>1, <1>2, JobFacts
    <2>3. /\ laptop' \in [profile : ViewProfiles, offsets : Cached \ {"unknown"}, disturbed : Nat]
          /\ laptop'.disturbed = laptop.disturbed
      BY <1>1, <2>1, <2>2 DEF ViewTypeOK, Planes, Expected, Cached
    <2>4. ViewTypeOK'
      BY <1>1, <2>1, <2>3 DEF ViewTypeOK
    <2>5. Calm' => ~view'.warned /\ OneSample' /\ PatienceSuffices'
      BY <1>1, <1>2, <2>1, <2>3 DEF ViewIInv, Calm, OneSample, PatienceSuffices
    <2> QED BY <1>1, <2>1, <2>4, <2>5 DEF ViewIInv
  <1>3. CASE ~(inWorker.kind = "profile" /\ ~Done(laptop, inWorker.profile))
    <2>1. inWorker' = [inWorker EXCEPT !.end = "ok"] /\ UNCHANGED laptop
      BY <1>3 DEF Works
    <2>2. /\ inWorker' \in Jobs /\ inWorker'.kind = inWorker.kind /\ inWorker'.end = "ok"
          /\ inWorker'.profile = inWorker.profile
      BY <1>1, <2>1 DEF Jobs
    <2>3. inWorker' # NoJob
      BY <1>1, <2>2, JobFacts DEF NoJob
    <2>4. ViewTypeOK'
      BY <1>1, <2>1, <2>2 DEF ViewTypeOK
    <2>5. Calm' => ~view'.warned /\ OneSample'
      BY <1>1, <2>1 DEF ViewIInv, Calm, OneSample
    <2>6. Calm' => PatienceSuffices'
      BY <1>1, <1>3, <2>1, <2>2 DEF ViewIInv, Calm, PatienceSuffices, MisfitsAhead, LaterMisfits,
           Stale, Done
    <2> QED BY <1>1, <2>3, <2>4, <2>5, <2>6 DEF ViewIInv
  <1> QED BY <1>2, <1>3

\* A failed PROFILE, the profile key or another tool ends the calm.
LEMMA DisturbanceKeeps ==
  ASSUME ViewIInv, WorkFails \/ Disturbed
  PROVE  ViewIInv'
  <1>1. ViewTypeOK /\ UNCHANGED <<sampler, slot, view, turns>>
    BY DEF ViewIInv, WorkFails, Disturbed
  <1>2. PICK p \in ViewProfiles, o \in {"zero", "half", "raised"} :
          laptop' = [profile |-> p, offsets |-> o, disturbed |-> laptop.disturbed + 1]
    BY DEF WorkFails, Disturbed
  <1>3. /\ laptop' \in [profile : ViewProfiles, offsets : Cached \ {"unknown"}, disturbed : Nat]
        /\ laptop'.disturbed = laptop.disturbed + 1
    BY <1>1, <1>2, ViewFacts DEF Cached
  <1>4. /\ inWorker' \in Jobs \cup {NoJob} /\ (inWorker' = NoJob <=> inWorker = NoJob)
    <2>1. CASE Disturbed
      BY <1>1, <2>1 DEF Disturbed, ViewTypeOK
    <2>2. CASE WorkFails
      <3>1. inWorker # NoJob /\ inWorker' = [inWorker EXCEPT !.end = "failed"]
        BY <2>2 DEF WorkFails
      <3>2. inWorker \in Jobs
        BY <1>1, <3>1, JobFacts
      <3>3. inWorker' \in Jobs /\ inWorker'.kind = inWorker.kind
        BY <3>1, <3>2 DEF Jobs
      <3> QED BY <1>1, <3>1, <3>3, JobFacts DEF NoJob
    <2> QED BY <2>1, <2>2
  <1>5. ViewTypeOK'
    BY <1>1, <1>3, <1>4 DEF ViewTypeOK
  <1>6. ~Calm'
    BY <1>1, <1>3, ViewFacts DEF Calm
  <1> QED BY <1>1, <1>4, <1>5, <1>6 DEF ViewIInv

\* A step that puts no sample into the slot and none before a cached offset disturbs
\* nothing that the view waits for.
LEMMA NoneAdded ==
  ASSUME ViewTypeOK, LaterMisfits' \in Int, LaterMisfits' <= LaterMisfits,
         slot'.kind # "sample"
  PROVE  MisfitsAhead' \in Int /\ MisfitsAhead \in Int /\ MisfitsAhead' <= MisfitsAhead
  <1> DEFINE later == LaterMisfits
             first == IF slot.kind = "sample" /\ Misfits(slot, view.sync) THEN 1 ELSE 0
  <1>1. later \in Int
    BY ViewFacts
  <1>2. MisfitsAhead = first + later /\ first \in {0, 1}
    BY DEF MisfitsAhead
  <1>3. MisfitsAhead' = LaterMisfits'
    <2> DEFINE after == LaterMisfits'
    <2>1. MisfitsAhead' = 0 + after
      BY DEF MisfitsAhead
    <2>2. after \in Int
      OBVIOUS
    <2> HIDE DEF after
    <2>3. 0 + after = after
      BY <2>2
    <2> QED BY <2>1, <2>3 DEF after
  <1> DEFINE after == LaterMisfits'
  <1>4. after \in Int /\ after <= later /\ MisfitsAhead' = after
    BY <1>3
  <1> HIDE DEF later, first, after
  <1> QED BY <1>1, <1>2, <1>4

\* What is enough stays enough.
LEMMA PatienceLasts ==
  ASSUME ViewTypeOK, PatienceSuffices, UNCHANGED <<laptop, inWorker, view>>,
         inWorker.kind # "profile" =>
           MisfitsAhead' \in Int /\ MisfitsAhead \in Int /\ MisfitsAhead' <= MisfitsAhead
  PROVE  PatienceSuffices'
  <1>1. laptop' = laptop /\ inWorker' = inWorker /\ view' = view
    OBVIOUS
  <1>2. CASE inWorker.kind = "profile"
    BY <1>1, <1>2 DEF PatienceSuffices, Done
  <1>3. CASE inWorker.kind # "profile"
    <2>1. /\ laptop.offsets = Expected(laptop.profile)
          /\ view.sync.target \in {"none", laptop.profile}
          /\ MisfitsAhead <= Patience(view.sync)
      BY <1>3 DEF PatienceSuffices
    <2> DEFINE ahead == MisfitsAhead'
               before == MisfitsAhead
               patience == Patience(view.sync)
    <2>2. ahead \in Int /\ before \in Int /\ ahead <= before
      BY <1>3
    <2>3. patience \in Int /\ before <= patience
      BY <2>1, ViewFacts
    <2> HIDE DEF ahead, before, patience
    <2>4. ahead <= patience
      BY <2>2, <2>3
    <2>5. Patience(view.sync)' = patience
      BY <1>1 DEF Patience, patience
    <2>6. MisfitsAhead' <= Patience(view.sync)'
      BY <2>4, <2>5 DEF ahead
    <2> QED BY <1>1, <1>3, <2>1, <2>6 DEF PatienceSuffices, Expected
  <1> QED BY <1>2, <1>3

\* apply_control_update: a confirmed profile sets a grace that outlasts the cache.
LEMMA AnswerKeeps ==
  ASSUME ViewIInv, Answers
  PROVE  ViewIInv'
  <1>1. ViewTypeOK /\ inWorker \in Jobs /\ inWorker # NoJob /\ inWorker.end # "none"
        /\ inWorker' = NoJob /\ UNCHANGED <<laptop, sampler, slot, turns>>
    BY JobFacts DEF ViewIInv, Answers
  <1> DEFINE waited == [target |-> inWorker.profile, grace |-> Grace, mismatch |-> 0]
             profile == IF inWorker.kind = "profile" /\ inWorker.end = "ok"
                        THEN inWorker.profile ELSE view.profile
             sync == IF inWorker.kind # "profile" THEN view.sync
                     ELSE IF inWorker.end = "failed" THEN Settled ELSE waited
  <1>2. view' = [view EXCEPT !.busy = FALSE, !.warned = FALSE, !.profile = profile, !.sync = sync]
    BY DEF Answers
  <1>3. profile \in ViewProfiles
    BY <1>1, JobFacts DEF ViewTypeOK, AppViews
  <1>4. sync \in [target : ViewProfiles \cup {"none"}, grace : 0..Grace, mismatch : 0..Debounce]
    <2>1. Settled \in [target : ViewProfiles \cup {"none"}, grace : 0..Grace,
                       mismatch : 0..Debounce]
      BY ViewAssumption DEF Settled
    <2>2. inWorker.kind = "profile"
            => waited \in [target : ViewProfiles \cup {"none"}, grace : 0..Grace,
                           mismatch : 0..Debounce]
      BY <1>1, JobFacts, ViewAssumption
    <2> QED BY <1>1, <2>1, <2>2 DEF ViewTypeOK, AppViews
  <1> HIDE DEF sync, profile
  <1>5. /\ view' \in AppViews /\ ~view'.busy /\ ~view'.warned /\ view'.stalls = view.stalls
        /\ view'.sync = sync
    BY <1>1, <1>2, <1>3, <1>4 DEF ViewTypeOK, AppViews
  <1>6. ViewTypeOK'
    BY <1>1, <1>5 DEF ViewTypeOK
  <1>7. ASSUME Calm'
        PROVE  ~view'.warned /\ OneSample' /\ PatienceSuffices'
    <2>1. Calm /\ OneSample /\ PatienceSuffices
      BY <1>1, <1>5, <1>7 DEF Calm, ViewIInv
    <2>2. OneSample' /\ LaterMisfits' = LaterMisfits /\ inWorker'.kind # "profile"
      BY <1>1, <2>1 DEF OneSample, LaterMisfits, Stale, NoJob
    <2>3. CASE inWorker.kind = "profile"
      <3>1. inWorker.end = "ok" /\ Done(laptop, inWorker.profile)
        BY <1>1, <2>1, <2>3 DEF PatienceSuffices
      <3>2. sync = waited /\ inWorker.profile \in ViewProfiles
        BY <1>1, <2>3, <3>1, JobFacts DEF sync
      <3>3. sync.target = inWorker.profile /\ sync.grace = Grace /\ sync.mismatch = 0
            /\ sync.target # "none"
        BY <3>2 DEF ViewProfiles
      <3>4. Patience(sync) = Grace + Debounce - 1
        BY <3>3, ViewAssumption DEF Patience
      <3>5. MisfitsAhead' <= OffsetRefresh + 1
        <4>1. CASE slot.kind = "sample"
          <5>1. LaterMisfits <= OffsetRefresh
            BY <1>1, <2>1, <4>1, ViewFacts DEF OneSample, LaterMisfits
          <5> QED BY <1>1, <2>2, <5>1, ViewFacts DEF MisfitsAhead
        <4>2. CASE slot.kind # "sample"
          BY <1>1, <2>2, <4>2, ViewFacts DEF MisfitsAhead
        <4> QED BY <4>1, <4>2
      <3>6. MisfitsAhead' <= Patience(sync)
        <4>1. MisfitsAhead' \in Int
          BY <1>1, <2>2, ViewFacts DEF MisfitsAhead
        <4> QED BY <3>4, <3>5, <4>1, ViewAssumption, PatienceAssumption
      <3> QED
        BY <1>1, <1>5, <2>2, <3>1, <3>3, <3>6 DEF PatienceSuffices, Done
    <2>4. CASE inWorker.kind # "profile"
      <3>1. sync = view.sync
        BY <2>4 DEF sync
      <3>2. MisfitsAhead' = MisfitsAhead
        BY <1>1, <1>5, <2>2, <3>1 DEF MisfitsAhead, Misfits, Differs
      <3> QED
        BY <1>1, <1>5, <2>1, <2>2, <2>4, <3>1, <3>2 DEF PatienceSuffices
    <2> QED BY <1>5, <2>2, <2>3, <2>4
  <1> QED BY <1>1, <1>5, <1>6, <1>7 DEF ViewIInv

\* A resume only sets the flag of the telemetry thread.
LEMMA ResumeKeeps ==
  ASSUME ViewIInv, Resumed
  PROVE  ViewIInv'
  <1>1. /\ ViewTypeOK /\ turns' = [turns EXCEPT !.wakes = @ + 1]
        /\ sampler' = [sampler EXCEPT !.woken = TRUE]
        /\ UNCHANGED <<laptop, inWorker, slot, view>>
    BY DEF ViewIInv, Resumed
  <1>2. /\ sampler'.phase = sampler.phase /\ sampler'.cache = sampler.cache
        /\ sampler'.slow = sampler.slow
    BY <1>1 DEF ViewTypeOK
  <1>3. ViewTypeOK'
    <2>1. sampler' \in [phase : {"rest", "sample"}, cache : Cached, slow : 0..OffsetRefresh,
                        woken : BOOLEAN, refresh : BOOLEAN]
      BY <1>1 DEF ViewTypeOK
    <2>2. turns' \in [selections : Nat, wakes : Nat]
      BY <1>1 DEF ViewTypeOK
    <2> QED BY <1>1, <2>1, <2>2 DEF ViewTypeOK
  <1>4. (Calm' <=> Calm) /\ (OneSample' <=> OneSample) /\ MisfitsAhead' = MisfitsAhead
    BY <1>1, <1>2 DEF Calm, OneSample, MisfitsAhead, LaterMisfits, Stale, Misfits, Differs
  <1>5. PatienceSuffices => PatienceSuffices'
    <2>1. MisfitsAhead \in Int
      BY <1>1, ViewFacts DEF MisfitsAhead
    <2>2. MisfitsAhead' \in Int /\ MisfitsAhead' <= MisfitsAhead
      BY <1>4, <2>1
    <2> QED BY <1>1, <2>1, <2>2, PatienceLasts
  <1> QED BY <1>1, <1>3, <1>4, <1>5 DEF ViewIInv

\* A pass of the telemetry thread leaves no more that can disagree than there was.
LEMMA PassKeeps ==
  ASSUME ViewIInv, PassBegins,
         sampler' \in [phase : {"rest", "sample"}, cache : Cached, slow : 0..OffsetRefresh,
                       woken : BOOLEAN, refresh : BOOLEAN],
         \/ sampler'.cache = "unknown"
         \/ sampler'.cache \in Readback(laptop.offsets)
         \/ sampler'.cache = sampler.cache /\ sampler'.phase = "rest" /\ sampler'.slow = sampler.slow
         \/ sampler'.cache = sampler.cache /\ sampler'.slow + 1 = sampler.slow,
         \/ slot' = slot
         \/ sampler'.phase = "rest" /\ slot' = [kind |-> "error", refresh |-> FALSE],
         UNCHANGED <<laptop, inWorker, view, turns>>
  PROVE  ViewIInv'
  <1>1. ViewTypeOK /\ sampler.phase = "rest"
    BY DEF ViewIInv, PassBegins
  <1>2. ViewTypeOK'
    BY <1>1 DEF ViewTypeOK
  <1>3. ASSUME Calm'
        PROVE  ~view'.warned /\ OneSample' /\ PatienceSuffices'
    <2>1. Calm /\ ~view.warned /\ OneSample /\ PatienceSuffices /\ slot = NoUpdate
      BY <1>3 DEF Calm, ViewIInv, PassBegins
    <2>2. slot.kind # "sample" /\ slot'.kind # "sample"
      BY <2>1 DEF NoUpdate
    <2>3. OneSample'
      BY <2>1, <2>2 DEF OneSample
    <2>4. ASSUME inWorker.kind # "profile"
          PROVE  MisfitsAhead' \in Int /\ MisfitsAhead \in Int /\ MisfitsAhead' <= MisfitsAhead
      <3>1. laptop.offsets = Expected(laptop.profile) /\ laptop.offsets \in {"zero", "raised"}
        BY <2>1, <2>4 DEF PatienceSuffices, Expected
      <3>2. sampler.slow \in Nat /\ sampler'.slow \in Nat
        BY <1>1, <1>2, ViewAssumption DEF ViewTypeOK
      <3>3. LaterMisfits = IF Stale THEN sampler.slow ELSE 0
        BY <1>1, <3>2 DEF LaterMisfits
      <3>4. Stale' => Stale /\ sampler'.cache = sampler.cache
        BY <3>1 DEF Stale, Readback
      <3>5. Stale' => \/ sampler'.phase = "rest" /\ sampler'.slow = sampler.slow
                      \/ sampler'.slow + 1 = sampler.slow
        BY <3>1 DEF Stale, Readback
      <3>6. LaterMisfits' \in Int /\ LaterMisfits' <= LaterMisfits
        <4>1. CASE Stale'
          <5>1. LaterMisfits = sampler.slow
            BY <3>3, <3>4, <4>1
          <5>2. LaterMisfits' = sampler'.slow + (IF sampler'.phase = "sample" THEN 1 ELSE 0)
            BY <4>1 DEF LaterMisfits
          <5> QED BY <3>2, <3>5, <4>1, <5>1, <5>2
        <4>2. CASE ~Stale'
          <5>1. LaterMisfits' = 0
            BY <4>2 DEF LaterMisfits
          <5> QED BY <3>2, <3>3, <5>1
        <4> QED BY <4>1, <4>2
      <3> QED BY <1>1, <2>2, <3>6, NoneAdded
    <2>5. PatienceSuffices'
      BY <1>1, <2>1, <2>4, PatienceLasts
    <2> QED BY <2>1, <2>3, <2>5
  <1> QED BY <1>2, <1>3 DEF ViewIInv

\* A pass after a resume begins without a cache.
LEMMA AwakeIsTyped ==
  ASSUME ViewTypeOK
  PROVE  /\ Awake(sampler) \in [phase : {"rest", "sample"}, cache : Cached,
                                slow : 0..OffsetRefresh, woken : BOOLEAN, refresh : BOOLEAN]
         /\ Awake(sampler).phase = sampler.phase
         /\ \/ Awake(sampler).cache = "unknown" /\ Awake(sampler).slow = 0
            \/ Awake(sampler).cache = sampler.cache /\ Awake(sampler).slow = sampler.slow
  <1>1. OffsetRefresh \in Nat
    BY ViewAssumption
  <1>2. CASE sampler.woken
    <2> DEFINE w == Awake(sampler)
    <2>1. w = [sampler EXCEPT !.woken = FALSE, !.refresh = TRUE, !.cache = "unknown",
                              !.slow = 0]
      BY <1>2 DEF Awake
    <2> HIDE DEF w
    <2>2. "unknown" \in Cached /\ 0 \in 0..OffsetRefresh
      BY <1>1 DEF Cached
    <2>3. w \in [phase : {"rest", "sample"}, cache : Cached, slow : 0..OffsetRefresh,
                 woken : BOOLEAN, refresh : BOOLEAN]
      BY <2>1, <2>2 DEF ViewTypeOK
    <2>4. w.phase = sampler.phase /\ w.cache = "unknown" /\ w.slow = 0
      BY <2>1 DEF ViewTypeOK
    <2> QED BY <2>3, <2>4 DEF w
  <1>3. CASE ~sampler.woken
    BY <1>3 DEF Awake, ViewTypeOK
  <1> QED BY <1>2, <1>3

\* The slow offsets are read, kept or dropped; a pass may fail.
LEMMA SamplingKeeps ==
  ASSUME ViewIInv, RefreshCache \/ SampleFails
  PROVE  ViewIInv'
  <1> DEFINE Typed == [phase : {"rest", "sample"}, cache : Cached, slow : 0..OffsetRefresh,
                       woken : BOOLEAN, refresh : BOOLEAN]
             w == Awake(sampler)
             s == [w EXCEPT !.phase = "sample"]
  <1>1. ViewTypeOK /\ OffsetRefresh \in Nat
    BY ViewAssumption DEF ViewIInv
  <1>2. /\ w \in Typed /\ w.phase = sampler.phase
        /\ \/ w.cache = "unknown" /\ w.slow = 0
           \/ w.cache = sampler.cache /\ w.slow = sampler.slow
    BY <1>1, AwakeIsTyped
  <1> HIDE DEF w
  <1>3. s \in Typed /\ s.phase = "sample" /\ s.cache = w.cache /\ s.slow = w.slow
    BY <1>2
  <1>4. CASE RefreshCache
    <2>1. PassBegins /\ UNCHANGED <<laptop, inWorker, slot, view, turns>>
      BY <1>4 DEF RefreshCache
    <2>2. \/ sampler' = [s EXCEPT !.cache = "unknown", !.slow = 0]
          \/ s.slow > 0 /\ sampler' = [s EXCEPT !.slow = @ - 1]
          \/ \E read \in Readback(laptop.offsets) :
               sampler' = [s EXCEPT !.cache = read, !.slow = OffsetRefresh]
      BY <1>4 DEF RefreshCache, w
    <2> HIDE DEF s
    <2>3. CASE sampler' = [s EXCEPT !.cache = "unknown", !.slow = 0]
      <3>1. "unknown" \in Cached /\ 0 \in 0..OffsetRefresh
        BY <1>1 DEF Cached
      <3>2. sampler' \in Typed
        BY <1>3, <2>3, <3>1
      <3>3. sampler'.cache = "unknown"
        BY <1>3, <2>3
      <3> QED BY <2>1, <3>2, <3>3, PassKeeps
    <2>4. CASE s.slow > 0 /\ sampler' = [s EXCEPT !.slow = @ - 1]
      <3>1. sampler' \in Typed /\ sampler'.cache = w.cache /\ sampler'.slow + 1 = w.slow
        BY <1>1, <1>3, <2>4
      <3>2. w.cache = sampler.cache /\ w.slow = sampler.slow
        BY <1>2, <1>3, <2>4
      <3> QED BY <2>1, <3>1, <3>2, PassKeeps
    <2>5. ASSUME NEW read \in Readback(laptop.offsets),
                 sampler' = [s EXCEPT !.cache = read, !.slow = OffsetRefresh]
          PROVE  ViewIInv'
      <3>1. read \in Cached
        BY <1>1 DEF Readback, Cached, ViewTypeOK
      <3>2. OffsetRefresh \in 0..OffsetRefresh
        BY <1>1
      <3>3. sampler' \in Typed
        BY <1>3, <2>5, <3>1, <3>2
      <3>4. sampler'.cache = read
        BY <1>3, <2>5
      <3> QED BY <2>1, <2>5, <3>3, <3>4, PassKeeps
    <2> QED BY <2>2, <2>3, <2>4, <2>5
  <1>5. CASE SampleFails
    <2>1. slot' = [kind |-> "error", refresh |-> FALSE] /\ UNCHANGED <<laptop, inWorker, view, turns>>
      BY <1>5 DEF SampleFails, Published
    <2>2. CASE PassBegins /\ sampler' = w
      <3>1. sampler' \in Typed /\ sampler'.phase = "rest"
        BY <1>2, <2>2 DEF PassBegins
      <3> QED BY <1>2, <2>1, <2>2, <3>1, PassKeeps
    <2>3. CASE sampler.phase = "sample" /\ sampler' = [sampler EXCEPT !.phase = "rest"]
      <3>1. /\ sampler' \in Typed /\ sampler'.phase = "rest" /\ sampler'.cache = sampler.cache
            /\ sampler'.slow = sampler.slow
        BY <1>1, <2>3 DEF ViewTypeOK
      <3>2. ViewTypeOK'
        BY <1>1, <2>1, <3>1 DEF ViewTypeOK
      <3>3. ASSUME Calm'
            PROVE  ~view'.warned /\ OneSample' /\ PatienceSuffices'
        <4>1. Calm /\ ~view.warned /\ PatienceSuffices
          BY <2>1, <3>3 DEF Calm, ViewIInv
        <4>2. OneSample' /\ slot'.kind # "sample"
          BY <2>1, <3>1 DEF OneSample
        <4>3. LaterMisfits' <= LaterMisfits /\ LaterMisfits' \in Int
          <5>1. sampler.slow \in Nat /\ (Stale' <=> Stale)
            BY <1>1, <2>1, <3>1, ViewAssumption DEF ViewTypeOK, Stale
          <5>2. LaterMisfits = IF Stale THEN sampler.slow + 1 ELSE 0
            BY <2>3 DEF LaterMisfits
          <5>3. LaterMisfits' = IF Stale THEN sampler.slow + 0 ELSE 0
            BY <3>1, <5>1 DEF LaterMisfits
          <5> QED BY <5>1, <5>2, <5>3
        <4>4. MisfitsAhead' <= MisfitsAhead /\ MisfitsAhead \in Int /\ MisfitsAhead' \in Int
          BY <1>1, <4>2, <4>3, NoneAdded
        <4>5. PatienceSuffices'
          BY <1>1, <2>1, <4>1, <4>4, PatienceLasts
        <4> QED BY <2>1, <4>1, <4>2, <4>5
      <3> QED BY <2>1, <3>2, <3>3 DEF ViewIInv
    <2> QED BY <1>5, <2>2, <2>3 DEF SampleFails, w
  <1> QED BY <1>4, <1>5

\* The sample that is published was counted while it was being taken.
LEMMA TakingKeeps ==
  ASSUME ViewIInv, TakeSample
  PROVE  ViewIInv'
  <1> DEFINE s == [kind |-> "sample", profile |-> laptop.profile, offsets |-> sampler.cache,
                   refresh |-> sampler.refresh]
  <1>1. /\ ViewTypeOK /\ sampler.phase = "sample" /\ slot' = s
        /\ sampler' = [sampler EXCEPT !.phase = "rest", !.refresh = FALSE]
        /\ UNCHANGED <<laptop, inWorker, view, turns>>
    BY DEF ViewIInv, TakeSample, Published
  <1>2. /\ s \in Samples /\ s.kind = "sample" /\ s.profile = laptop.profile
        /\ s.offsets = sampler.cache
    BY <1>1 DEF ViewTypeOK, Samples
  <1> HIDE DEF s
  <1>3. /\ sampler' \in [phase : {"rest", "sample"}, cache : Cached, slow : 0..OffsetRefresh,
                         woken : BOOLEAN, refresh : BOOLEAN]
        /\ sampler'.phase = "rest" /\ sampler'.cache = sampler.cache
        /\ sampler'.slow = sampler.slow
    BY <1>1 DEF ViewTypeOK
  <1>4. ViewTypeOK'
    BY <1>1, <1>2, <1>3 DEF ViewTypeOK
  <1>5. ASSUME Calm'
        PROVE  ~view'.warned /\ OneSample' /\ PatienceSuffices'
    <2>1. Calm /\ ~view.warned /\ OneSample /\ PatienceSuffices
      BY <1>1, <1>5 DEF Calm, ViewIInv
    <2>2. OneSample'
      BY <1>1, <1>2, <1>3 DEF OneSample
    <2>3. ASSUME inWorker.kind # "profile"
          PROVE  MisfitsAhead' \in Int /\ MisfitsAhead \in Int /\ MisfitsAhead' <= MisfitsAhead
      <3>1. /\ laptop.offsets = Expected(laptop.profile)
            /\ view.sync.target \in {"none", laptop.profile}
        BY <2>1, <2>3 DEF PatienceSuffices
      <3>2. Misfits(s, view.sync) => Stale
        BY <1>2, <3>1 DEF Misfits, Differs, Stale
      <3>3. MisfitsAhead = LaterMisfits
        BY <1>1, <2>1, ViewFacts DEF OneSample, MisfitsAhead
      <3>4. /\ LaterMisfits = IF Stale THEN sampler.slow + 1 ELSE 0
            /\ LaterMisfits' = IF Stale THEN sampler.slow ELSE 0
        BY <1>1, <1>3, ViewFacts DEF LaterMisfits, Stale
      <3>5. MisfitsAhead' = (IF Misfits(s, view.sync) THEN 1 ELSE 0) + LaterMisfits'
        BY <1>1, <1>2 DEF MisfitsAhead, Misfits, Differs
      <3>6. sampler.slow \in Nat
        BY <1>1, ViewAssumption DEF ViewTypeOK
      <3> QED BY <3>2, <3>3, <3>4, <3>5, <3>6
    <2>4. PatienceSuffices'
      BY <1>1, <2>1, <2>3, PatienceLasts
    <2> QED BY <1>1, <2>1, <2>2, <2>4
  <1> QED BY <1>1, <1>4, <1>5 DEF ViewIInv

\* Whatever the update, the view that has seen it is as patient as it has to be.
LEMMA SeenIsTyped ==
  ASSUME ViewTypeOK
  PROVE  /\ Seen \in AppViews /\ Seen.stalls = view.stalls /\ Seen.busy = view.busy
         /\ view.busy => Seen = view
  <1> DEFINE Syncs == [target : ViewProfiles \cup {"none"}, grace : 0..Grace,
                       mismatch : 0..Debounce]
             Alike(v) == v \in AppViews /\ v.stalls = view.stalls /\ v.busy = view.busy
             w == Judged(view, slot)
             expired == [view EXCEPT !.sync = Settled]
  <1>1. Grace \in Nat /\ Debounce \in Nat \ {0} /\ Settled \in Syncs
    BY ViewAssumption DEF Settled
  <1>2. Alike(view) /\ view.sync \in Syncs
    BY DEF ViewTypeOK, AppViews
  <1>3. CASE slot.kind # "sample"
    BY <1>2, <1>3 DEF Seen
  <1>4. CASE slot.kind = "sample" /\ view.busy
    <2>1. Seen = view
      BY <1>4 DEF Seen, Judged
    <2> QED BY <1>2, <2>1
  <1>5. CASE slot.kind = "sample" /\ ~view.busy
    <2>1. Seen = w /\ slot.profile \in ViewProfiles
      BY <1>5, ViewFacts DEF Seen, Samples
    <2>2. CASE w = [view EXCEPT !.sync.grace = @ - 1] /\ view.sync.grace > 0
      <3> DEFINE sync == [view.sync EXCEPT !.grace = @ - 1]
      <3>1. sync \in Syncs
        BY <1>1, <1>2, <2>2
      <3>2. w = [view EXCEPT !.sync = sync]
        BY <2>2
      <3> HIDE DEF sync, w
      <3>3. Alike(w)
        BY <1>2, <3>1, <3>2 DEF AppViews
      <3> QED BY <1>5, <2>1, <3>3
    <2>3. ASSUME NEW x \in {view, expired}, w = Debounced(x, slot)
          PROVE  Alike(w)
      <3>1. Alike(x) /\ x.sync \in Syncs
        BY <1>1, <1>2 DEF AppViews
      <3> HIDE DEF expired
      <3>2. CASE x.sync.mismatch + 1 < Debounce
        <4> DEFINE sync == [x.sync EXCEPT !.mismatch = @ + 1]
        <4>1. sync \in Syncs
          BY <1>1, <3>1, <3>2
        <4>2. w = [x EXCEPT !.sync = sync]
          BY <2>3, <3>2 DEF Debounced
        <4> HIDE DEF sync, w
        <4> QED BY <3>1, <4>1, <4>2 DEF AppViews
      <3>3. CASE ~(x.sync.mismatch + 1 < Debounce)
        <4> DEFINE sync == [x.sync EXCEPT !.mismatch = Debounce]
        <4>1. sync \in Syncs
          BY <1>1, <3>1
        <4>2. w = [x EXCEPT !.sync = sync, !.warned = TRUE, !.profile = slot.profile]
          BY <2>3, <3>3 DEF Debounced
        <4> HIDE DEF sync, w
        <4> QED BY <2>1, <3>1, <4>1, <4>2 DEF AppViews
      <3> QED BY <3>2, <3>3
    <2>4. CASE w = [view EXCEPT !.profile = slot.profile, !.warned = FALSE, !.sync = Settled]
      <3> HIDE DEF w
      <3>1. Alike(w)
        BY <1>1, <1>2, <2>1, <2>4 DEF AppViews
      <3> QED BY <1>5, <2>1, <3>1
    <2>5. \/ w = [view EXCEPT !.sync.grace = @ - 1] /\ view.sync.grace > 0
          \/ \E x \in {view, expired} : w = Debounced(x, slot)
          \/ w = [view EXCEPT !.profile = slot.profile, !.warned = FALSE, !.sync = Settled]
      BY <1>5 DEF Judged
    <2> QED BY <1>5, <2>1, <2>2, <2>3, <2>4, <2>5
  <1> QED BY <1>3, <1>4, <1>5

\* A sample uses up the patience that it was counted for, and no more.
LEMMA SeenIsPatient ==
  ASSUME ViewIInv, Calm, inWorker.kind # "profile"
  PROVE  /\ ~Seen.warned /\ Seen.sync.target \in {"none", laptop.profile}
         /\ LaterMisfits <= Patience(Seen.sync)
  <1>1. ViewTypeOK /\ ~view.warned /\ OneSample /\ PatienceSuffices
    BY DEF ViewIInv
  <1>2. /\ laptop.offsets = Expected(laptop.profile)
        /\ view.sync.target \in {"none", laptop.profile}
        /\ MisfitsAhead <= Patience(view.sync)
    BY <1>1 DEF PatienceSuffices
  <1>3. LaterMisfits \in Nat /\ Patience(view.sync) \in Int
    BY <1>1, ViewFacts
  <1> DEFINE later == LaterMisfits
             first == IF slot.kind = "sample" /\ Misfits(slot, view.sync) THEN 1 ELSE 0
             patience == Patience(view.sync)
  <1>4. later \in Nat /\ patience \in Int /\ first \in {0, 1} /\ first + later <= patience
    BY <1>2, <1>3 DEF MisfitsAhead
  <1>5. CASE slot.kind # "sample"
    <2>1. Seen = view /\ first = 0
      BY <1>5 DEF Seen
    <2> HIDE DEF later, patience
    <2>2. later <= patience
      <3> HIDE DEF first
      <3> QED BY <1>4, <2>1
    <2> QED BY <1>1, <1>2, <2>1, <2>2 DEF later, patience
  <1>6. CASE slot.kind = "sample"
    <2>1. slot \in Samples /\ view \in AppViews /\ laptop.profile \in ViewProfiles
      BY <1>1, <1>6, ViewFacts
    <2>2. sampler.phase = "rest" /\ slot.offsets = sampler.cache
      BY <1>1, <1>6 DEF OneSample
    <2>3. ~Misfits(slot, view.sync) /\ view.sync.target # "none" => later = 0
      <3>1. ASSUME ~Misfits(slot, view.sync), view.sync.target # "none"
            PROVE  ~Stale
        <4>1. slot.profile = laptop.profile
          BY <1>2, <3>1 DEF Misfits
        <4> QED BY <1>2, <2>2, <3>1, <4>1 DEF Misfits, Differs, Stale
      <3> QED BY <3>1 DEF LaterMisfits
    <2>4. (IF Misfits(slot, view.sync) THEN 1 ELSE 0) + later <= Patience(view.sync)
      BY <1>4, <1>6
    <2> HIDE DEF later
    <2>5. /\ ~Judged(view, slot).warned
          /\ Judged(view, slot).sync.target \in {"none", laptop.profile}
          /\ later <= Patience(Judged(view, slot).sync)
      BY <1>1, <1>2, <1>4, <2>1, <2>3, <2>4, JudgedIsPatient
    <2> QED BY <1>6, <2>5 DEF Seen, later
  <1> QED BY <1>5, <1>6

\* Receiving an update, with or without a refresh that is queued at once.
LEMMA SeeingKeeps ==
  ASSUME ViewIInv,
         slot' = NoUpdate, UNCHANGED <<laptop, sampler, turns>>,
         inWorker' = inWorker \/ (inWorker' \in Jobs /\ inWorker'.kind = "refresh"),
         inWorker' # inWorker => inWorker = NoJob,
         view' \in AppViews, view'.busy <=> inWorker' # NoJob,
         view'.sync = Seen.sync, view'.warned = Seen.warned, view'.stalls = Seen.stalls
  PROVE  ViewIInv'
  <1>1. ViewTypeOK /\ NoJob.kind = "none" /\ slot'.kind = "none"
    BY DEF ViewIInv, NoJob, NoUpdate
  <1>2. ViewTypeOK'
    BY <1>1 DEF ViewTypeOK
  <1>3. inWorker.kind = "profile" <=> inWorker'.kind = "profile"
    BY <1>1
  <1>4. ASSUME Calm'
        PROVE  ~view'.warned /\ OneSample' /\ PatienceSuffices'
    <2>1. Calm /\ ~view.warned /\ OneSample /\ PatienceSuffices
      BY <1>1, <1>4, SeenIsTyped DEF Calm, ViewIInv
    <2>2. OneSample'
      BY <1>1 DEF OneSample
    <2>3. CASE inWorker.kind = "profile"
      <3>1. Seen = view /\ inWorker' = inWorker
        BY <1>1, <2>3, SeenIsTyped DEF ViewIInv
      <3>2. PatienceSuffices'
        BY <2>1, <2>3, <3>1 DEF PatienceSuffices, Done
      <3> QED BY <2>1, <2>2, <3>1, <3>2
    <2>4. CASE inWorker.kind # "profile"
      <3>1. /\ ~Seen.warned /\ Seen.sync.target \in {"none", laptop.profile}
            /\ LaterMisfits <= Patience(Seen.sync)
        BY <2>1, <2>4, SeenIsPatient
      <3>2. laptop.offsets = Expected(laptop.profile)
        BY <2>1, <2>4 DEF PatienceSuffices
      <3>3. LaterMisfits' = LaterMisfits /\ LaterMisfits \in Int
        BY <1>1, ViewFacts DEF LaterMisfits, Stale
      <3> DEFINE after == LaterMisfits'
      <3>4. MisfitsAhead' = 0 + after
        BY <1>1 DEF MisfitsAhead
      <3>5. MisfitsAhead' = LaterMisfits
        <4>1. after \in Int /\ after = LaterMisfits
          BY <3>3
        <4> HIDE DEF after
        <4>2. 0 + after = after
          BY <4>1
        <4> QED BY <3>4, <4>1, <4>2
      <3>6. MisfitsAhead' <= Patience(view.sync)'
        BY <3>1, <3>5 DEF Patience
      <3>7. PatienceSuffices'
        BY <1>3, <2>4, <3>1, <3>2, <3>6 DEF PatienceSuffices, Expected
      <3> QED BY <2>2, <3>1, <3>7
    <2> QED BY <2>3, <2>4
  <1> QED BY <1>2, <1>4 DEF ViewIInv

\* The UI takes an update and may queue a refresh.
LEMMA ReceivingKeeps ==
  ASSUME ViewIInv, Receives \/ ReceivesAndRefreshes
  PROVE  ViewIInv'
  <1>1. ViewTypeOK /\ (view.busy <=> inWorker # NoJob)
    BY DEF ViewIInv
  <1>2. Seen \in AppViews /\ Seen.stalls = view.stalls /\ Seen.busy = view.busy
    BY <1>1, SeenIsTyped
  <1>3. CASE Receives
    <2>1. /\ view' = [Seen EXCEPT !.pending = Pending(slot)] /\ slot' = NoUpdate
          /\ UNCHANGED <<laptop, inWorker, sampler, turns>>
      BY <1>3 DEF Receives
    <2> DEFINE pending == Pending(slot)
    <2>2. pending \in BOOLEAN
      <3>1. CASE slot \in Samples
        BY <1>1, <3>1 DEF Pending, Samples, ViewTypeOK, AppViews
      <3>2. CASE slot \notin Samples
        BY <1>1, <3>2, <1>3 DEF Pending, ViewTypeOK, AppViews, Receives
      <3> QED BY <3>1, <3>2
    <2> HIDE DEF pending
    <2>3. view' = [Seen EXCEPT !.pending = pending]
      BY <2>1 DEF pending
    <2>4. /\ view' \in AppViews /\ view'.busy = Seen.busy /\ view'.sync = Seen.sync
          /\ view'.warned = Seen.warned /\ view'.stalls = Seen.stalls
      BY <1>2, <2>2, <2>3 DEF AppViews
    <2> QED BY <1>1, <1>2, <2>1, <2>4, SeeingKeeps
  <1>4. CASE ReceivesAndRefreshes
    <2>1. /\ view' = [Seen EXCEPT !.pending = FALSE, !.busy = TRUE] /\ slot' = NoUpdate
          /\ inWorker' = [kind |-> "refresh", profile |-> "none", end |-> "none"]
          /\ ~view.busy /\ UNCHANGED <<laptop, sampler, turns>>
      BY <1>4 DEF ReceivesAndRefreshes, Queued
    <2>2. /\ view' \in AppViews /\ view'.busy /\ view'.sync = Seen.sync
          /\ view'.warned = Seen.warned /\ view'.stalls = Seen.stalls
      BY <1>2, <2>1 DEF AppViews
    <2>3. inWorker' \in Jobs /\ inWorker'.kind = "refresh" /\ inWorker' # NoJob
      <3>1. inWorker' \in Jobs /\ inWorker'.kind = "refresh"
        BY <2>1 DEF Jobs
      <3> QED BY <3>1 DEF NoJob
    <2> QED BY <1>1, <2>1, <2>2, <2>3, SeeingKeeps
  <1> QED BY <1>3, <1>4

\* No offsets are cached at the start.
LEMMA ViewStarts ==
  ASSUME ViewInit
  PROVE  ViewIInv
  <1>1. OffsetRefresh \in Nat /\ Grace \in Nat /\ Debounce \in Nat \ {0}
        /\ UiStalls \subseteq BOOLEAN
    BY ViewAssumption
  <1>2. /\ NoJob.kind = "none" /\ NoUpdate.kind = "none" /\ view.sync = Settled
        /\ view.busy = FALSE /\ view.warned = FALSE /\ inWorker = NoJob /\ slot = NoUpdate
    BY DEF ViewInit, NoJob, NoUpdate
  <1>3. Settled \in [target : ViewProfiles \cup {"none"}, grace : 0..Grace,
                     mismatch : 0..Debounce]
    BY <1>1 DEF Settled
  <1>4. view \in AppViews
    BY <1>1, <1>3 DEF ViewInit, AppViews, ViewProfiles
  <1>5. /\ sampler \in [phase : {"rest", "sample"}, cache : Cached, slow : 0..OffsetRefresh,
                         woken : BOOLEAN, refresh : BOOLEAN]
        /\ sampler.phase = "rest" /\ sampler.cache = "unknown"
    BY <1>1 DEF ViewInit, Cached
  <1>6. /\ laptop \in [profile : ViewProfiles, offsets : Cached \ {"unknown"},
                        disturbed : Nat]
        /\ laptop.offsets = Expected(laptop.profile)
    BY DEF ViewInit, Cached, ViewProfiles, Expected
  <1>7. ViewTypeOK
    BY <1>2, <1>4, <1>5, <1>6 DEF ViewTypeOK, ViewInit
  <1>8. MisfitsAhead <= Patience(view.sync)
    <2>1. MisfitsAhead = 0 + 0
      BY <1>2, <1>5 DEF MisfitsAhead, LaterMisfits, Stale
    <2>2. Patience(view.sync) = 0 + (Debounce - 1 - 0)
      BY <1>2 DEF Patience, Settled
    <2> QED BY <1>1, <2>1, <2>2
  <1>9. OneSample /\ PatienceSuffices
    BY <1>2, <1>5, <1>6, <1>8 DEF OneSample, PatienceSuffices, Settled
  <1> QED BY <1>2, <1>7, <1>9 DEF ViewIInv

\* Every step keeps the invariant.
LEMMA ViewSteps ==
  ASSUME ViewIInv, [ViewNext]_viewVars
  PROVE  ViewIInv'
  <1>1. ASSUME NEW p \in ViewProfiles, UserSelects(p)
        PROVE  ViewIInv'
    BY <1>1, SelectionKeeps
  <1>2. CASE Works
    BY <1>2, WorkKeeps
  <1>3. CASE WorkFails \/ Disturbed
    BY <1>3, DisturbanceKeeps
  <1>4. CASE Answers
    BY <1>4, AnswerKeeps
  <1>5. CASE RefreshCache \/ SampleFails
    BY <1>5, SamplingKeeps
  <1>6. CASE TakeSample
    BY <1>6, TakingKeeps
  <1>7. CASE Receives \/ ReceivesAndRefreshes
    BY <1>7, ReceivingKeeps
  <1>8. CASE Resumed
    BY <1>8, ResumeKeeps
  <1>9. CASE UNCHANGED viewVars
    <2>1. /\ laptop' = laptop /\ inWorker' = inWorker /\ sampler' = sampler
          /\ slot' = slot /\ view' = view /\ turns' = turns
      BY <1>9 DEF viewVars
    <2>2. ViewTypeOK' /\ (view'.busy <=> inWorker' # NoJob)
      BY <2>1 DEF ViewIInv, ViewTypeOK
    <2>3. ASSUME Calm
          PROVE  OneSample' /\ PatienceSuffices'
      <3>1. ViewTypeOK /\ OneSample /\ PatienceSuffices
        BY <2>3 DEF ViewIInv
      <3>2. OneSample' /\ MisfitsAhead' = MisfitsAhead
        BY <2>1, <3>1 DEF OneSample, MisfitsAhead, LaterMisfits, Stale, Misfits, Differs
      <3>3. MisfitsAhead \in Int
        BY <3>1, ViewFacts DEF MisfitsAhead
      <3>4. MisfitsAhead' \in Int /\ MisfitsAhead' <= MisfitsAhead
        BY <3>2, <3>3
      <3> QED BY <2>1, <3>1, <3>2, <3>3, <3>4, PatienceLasts
    <2> QED BY <2>1, <2>2, <2>3 DEF ViewIInv, Calm
  <1> QED
    BY <1>1, <1>2, <1>3, <1>4, <1>5, <1>6, <1>7, <1>8, <1>9 DEF ViewNext

\* On a laptop that nobody else has changed, the samples that may still disagree with the
\* view are never more than it lets pass, whatever the number of samples between two reads
\* of the offsets, as long as grace and debounce cover it.
THEOREM ViewInvariant == ViewSpec => []ViewIInv
  <1>1. ViewInit => ViewIInv
    BY ViewStarts
  <1>2. ViewIInv /\ [ViewNext]_viewVars => ViewIInv'
    BY ViewSteps
  <1> QED BY <1>1, <1>2, PTL DEF ViewSpec

\* No mismatch of profile and offsets is shown unless others have changed them: neither
\* the cached offsets nor a PROFILE command on its way are mistaken for one.
THEOREM WarningsAreTrue == ViewSpec => []NoFalseMismatch
  <1>1. ViewIInv => NoFalseMismatch
    BY ViewFacts DEF ViewIInv, Calm, NoFalseMismatch
  <1> QED BY <1>1, ViewInvariant, PTL

------------------------------------------------------------------------------
(* The window's size: the aspect and the height that it comes to rest in, for      *)
(* every size that the pointer may give it and any number of moves.               *)

Lies(n, low, high) == n \in Int /\ low <= n /\ n <= high

\* A view is designed for one of two widths.
LEMMA TwoWidths ==
  ASSUME NEW advanced
  PROVE  DesignWidth(advanced) \in {62, 120}
  BY DEF DesignWidth

\* The bounds of a view, in numbers.
LEMMA BoundsOfViews ==
  ASSUME NEW advanced, NEW s \in Size
  PROVE  /\ DesignWidth(advanced) = 120 =>
              Bounded(s, advanced) = [width |-> Between(s.width, 1185, 1942),
                                      height |-> Between(s.height, 690, 1100)]
         /\ DesignWidth(advanced) = 62 =>
              Bounded(s, advanced) = [width |-> Between(s.width, 612, 1003),
                                      height |-> Between(s.height, 690, 1100)]
  BY SMT DEF Bounded, SizeOf, Between, Rounded, MinHeight, MaxHeight, TitleBar,
     DesignHeight, Size

\* What a view makes of a height, in numbers.
LEMMA HeightInNumbers ==
  ASSUME NEW advanced, NEW h \in Nat
  PROVE  /\ DesignWidth(advanced) = 120 =>
              SizeOf(advanced, h, 1) =
                [width |-> (240 * (Between(h, 690, 1100) - 48) + 65) \div 130,
                 height |-> Between(h, 690, 1100)]
         /\ DesignWidth(advanced) = 62 =>
              SizeOf(advanced, h, 1) =
                [width |-> (124 * (Between(h, 690, 1100) - 48) + 65) \div 130,
                 height |-> Between(h, 690, 1100)]
  <1> DEFINE b == Between(h, 690, 1100)
  <1>1. b \in 690 .. 1100
    BY DEF Between
  <1>2. SizeOf(advanced, h, 1) =
          [width |-> Rounded((b - 48) * DesignWidth(advanced), 65), height |-> Rounded(b, 1)]
    BY SMT DEF SizeOf, Between, MinHeight, MaxHeight, TitleBar, DesignHeight
  <1>3. Rounded(b, 1) = b
    BY <1>1, SMT DEF Rounded
  <1>4. /\ Rounded((b - 48) * 120, 65) = (240 * (b - 48) + 65) \div 130
        /\ Rounded((b - 48) * 62, 65) = (124 * (b - 48) + 65) \div 130
    BY <1>1, SMT DEF Rounded
  <1> QED
    BY <1>2, <1>3, <1>4

\* Exactness in numbers.
LEMMA ExactInNumbers ==
  ASSUME NEW advanced, NEW s \in Size, s.height \in 690 .. 1100
  PROVE  /\ DesignWidth(advanced) = 120 =>
              (Exact(s, advanced) <=>
                 /\ s.width \in 1185 .. 1942
                 /\ 2 * Distance(s.width * 65, (s.height - 48) * 120) <= 185)
         /\ DesignWidth(advanced) = 62 =>
              (Exact(s, advanced) <=>
                 /\ s.width \in 612 .. 1003
                 /\ 2 * Distance(s.width * 65, (s.height - 48) * 62) <= 127)
  <1>1. /\ DesignWidth(advanced) = 120 => (Bounded(s, advanced) = s <=> s.width \in 1185 .. 1942)
        /\ DesignWidth(advanced) = 62 => (Bounded(s, advanced) = s <=> s.width \in 612 .. 1003)
    BY BoundsOfViews, SMT DEF Between, Size
  <1> QED
    BY <1>1, SMT DEF Exact, Off, TitleBar, DesignHeight

\* A size that is made for a height is one of the view.
LEMMA HeightGivesExact ==
  ASSUME NEW advanced, NEW h \in Nat
  PROVE  LET shape == SizeOf(advanced, h, 1)
         IN /\ shape \in Size /\ shape.height \in Heights /\ Exact(shape, advanced)
            /\ h \in Heights => shape.height = h
  <1> DEFINE b == Between(h, 690, 1100)
             shape == SizeOf(advanced, h, 1)
             wide == (240 * (b - 48) + 65) \div 130
             narrow == (124 * (b - 48) + 65) \div 130
  <1>1. b \in 690 .. 1100 /\ (h \in 690 .. 1100 => b = h)
    BY DEF Between
  <1>2. /\ DesignWidth(advanced) = 120 => shape = [width |-> wide, height |-> b]
        /\ DesignWidth(advanced) = 62 => shape = [width |-> narrow, height |-> b]
    BY HeightInNumbers
  <1>3. /\ wide \in 1185 .. 1942 /\ 2 * Distance(wide * 65, (b - 48) * 120) <= 185
        /\ narrow \in 612 .. 1003 /\ 2 * Distance(narrow * 65, (b - 48) * 62) <= 127
    <2> HIDE DEF b
    <2> QED BY <1>1, SMT DEF Distance
  <1> HIDE DEF b, shape, wide, narrow
  <1>4. shape \in Size /\ shape.height = b
    BY <1>1, <1>2, <1>3, TwoWidths, SMT DEF Size
  <1>5. Exact(shape, advanced)
    BY <1>1, <1>2, <1>3, <1>4, TwoWidths, ExactInNumbers, SMT
  <1> QED
    BY <1>1, <1>4, <1>5 DEF Heights, MinHeight, MaxHeight, shape

\* What a view makes of a width, in numbers.
OfWidth(advanced, w) ==
  SizeOf(advanced, w * DesignHeight + TitleBar * DesignWidth(advanced), DesignWidth(advanced))
WideParts(w) == Between(w * 65 + 5760, 82800, 132000)
NarrowParts(w) == Between(w * 65 + 2976, 42780, 68200)

LEMMA WidthInNumbers ==
  ASSUME NEW advanced, NEW w \in Nat
  PROVE  /\ Lies(WideParts(w), 82800, 132000) /\ Lies(NarrowParts(w), 42780, 68200)
         /\ DesignWidth(advanced) = 120 =>
              OfWidth(advanced, w) = [width |-> (2 * (WideParts(w) - 5760) + 65) \div 130,
                                      height |-> (WideParts(w) + 60) \div 120]
         /\ DesignWidth(advanced) = 62 =>
              OfWidth(advanced, w) = [width |-> (2 * (NarrowParts(w) - 2976) + 65) \div 130,
                                      height |-> (NarrowParts(w) + 31) \div 62]
  <1> DEFINE d == DesignWidth(advanced)
             shape == SizeOf(advanced, w * 65 + 48 * d, d)
             b == Between(w * 65 + 5760, 82800, 132000)
             c == Between(w * 65 + 2976, 42780, 68200)
  <1>1. Lies(b, 82800, 132000)
    BY DEF Between, Lies
  <1>2. Lies(c, 42780, 68200)
    BY DEF Between, Lies
  <1>3. /\ d = 120 => shape = [width |-> Rounded((b - 5760) * 120, 7800), height |-> Rounded(b, 120)]
        /\ d = 62 => shape = [width |-> Rounded((c - 2976) * 62, 4030), height |-> Rounded(c, 62)]
    BY SMT DEF SizeOf, Between, MinHeight, MaxHeight, TitleBar, DesignHeight
  <1> HIDE DEF b, c
  <1>4. /\ Rounded((b - 5760) * 120, 7800) = (2 * (b - 5760) + 65) \div 130
        /\ Rounded((c - 2976) * 62, 4030) = (2 * (c - 2976) + 65) \div 130
    BY <1>1, <1>2, SMT DEF Rounded, Lies
  <1>5. Rounded(b, 120) = (b + 60) \div 120 /\ Rounded(c, 62) = (c + 31) \div 62
    BY <1>1, <1>2, SMT DEF Rounded, Lies
  <1> QED
    BY <1>1, <1>2, <1>3, <1>4, <1>5 DEF b, c, OfWidth, WideParts, NarrowParts, DesignHeight, TitleBar

\* So is a size that is made for a width.
LEMMA WidthGivesExact ==
  ASSUME NEW advanced, NEW w \in Nat
  PROVE  LET shape == OfWidth(advanced, w)
         IN shape \in Size /\ shape.height \in Heights /\ Exact(shape, advanced)
  <1> DEFINE d == DesignWidth(advanced)
             shape == OfWidth(advanced, w)
  <1>1. CASE d = 120
    <2> DEFINE b == WideParts(w)
               width == (2 * (b - 5760) + 65) \div 130
               tall == (b + 60) \div 120
    <2>1. Lies(b, 82800, 132000) /\ shape = [width |-> width, height |-> tall]
      BY <1>1, WidthInNumbers
    <2> HIDE DEF b, d, shape
    <2>2. Lies(width, 1185, 1942) /\ Lies(tall, 690, 1100)
      BY <2>1, SMT DEF Lies
    <2>3. 2 * Distance(width * 65, (tall - 48) * 120) <= 185
      BY <2>1, SMT DEF Lies, Distance
    <2> HIDE DEF width, tall
    <2>4. width \in 1185 .. 1942 /\ width \in Nat /\ tall \in 690 .. 1100 /\ tall \in Nat
      BY <2>2, SMT DEF Lies
    <2>5. shape \in Size /\ shape.width = width /\ shape.height = tall
      BY <2>1, <2>4 DEF Size
    <2>6. Exact(shape, advanced)
      BY <1>1, <2>3, <2>4, <2>5, ExactInNumbers DEF d
    <2> QED
      BY <2>4, <2>5, <2>6 DEF Heights, MinHeight, MaxHeight, shape
  <1>2. CASE d = 62
    <2> DEFINE c == NarrowParts(w)
               width == (2 * (c - 2976) + 65) \div 130
               tall == (c + 31) \div 62
    <2>1. Lies(c, 42780, 68200) /\ shape = [width |-> width, height |-> tall]
      BY <1>2, WidthInNumbers
    <2> HIDE DEF c, d, shape
    <2>2. Lies(width, 612, 1003) /\ Lies(tall, 690, 1100)
      BY <2>1, SMT DEF Lies
    <2>3. 2 * Distance(width * 65, (tall - 48) * 62) <= 127
      BY <2>1, SMT DEF Lies, Distance
    <2> HIDE DEF width, tall
    <2>4. width \in 612 .. 1003 /\ width \in Nat /\ tall \in 690 .. 1100 /\ tall \in Nat
      BY <2>2, SMT DEF Lies
    <2>5. shape \in Size /\ shape.width = width /\ shape.height = tall
      BY <2>1, <2>4 DEF Size
    <2>6. Exact(shape, advanced)
      BY <1>2, <2>3, <2>4, <2>5, ExactInNumbers DEF d
    <2> QED
      BY <2>4, <2>5, <2>6 DEF Heights, MinHeight, MaxHeight, shape
  <1> QED BY <1>1, <1>2, TwoWidths

\* Every correction is to a size of the view (aspect_constrained_size).
LEMMA TargetIsExact ==
  ASSUME NEW advanced, NEW requested \in Size, NEW accepted, NEW direction
  PROVE  LET target == aspect_constrained_size(requested, accepted, advanced, direction)
         IN target \in Size /\ target.height \in Heights /\ Exact(target, advanced)
  <1>1. requested.width \in Nat /\ requested.height \in Nat
    BY DEF Size
  <1> QED
    BY <1>1, HeightGivesExact, WidthGivesExact, Zenon DEF aspect_constrained_size, OfWidth

\* A size of the view that is given to it once more is left as it is.
LEMMA ViewStands ==
  ASSUME NEW advanced, NEW h \in Heights, NEW accepted, NEW direction
  PROVE  LET shape == SizeOf(advanced, h, 1)
         IN Close(aspect_constrained_size(shape, accepted, advanced, direction), shape)
  <1> DEFINE d == DesignWidth(advanced)
             shape == SizeOf(advanced, h, 1)
             w == shape.width
             other == OfWidth(advanced, w)
  <1>1. h \in Nat /\ h \in 690 .. 1100
    BY SMT DEF Heights, MinHeight, MaxHeight
  <1>2. shape \in Size /\ shape.height = h
    BY <1>1, HeightGivesExact
  <1>3. SizeOf(advanced, shape.height, 1) = shape
    BY <1>2
  <1>4. Close(shape, shape)
    BY <1>2, SMT DEF Close, Distance, Size
  <1>5. w \in Nat /\ (d = 120 => w = (240 * (h - 48) + 65) \div 130)
                  /\ (d = 62 => w = (124 * (h - 48) + 65) \div 130)
    <2>1. Between(h, 690, 1100) = h
      BY <1>1 DEF Between
    <2> QED
      BY <1>1, <1>2, <2>1, HeightInNumbers, SMT DEF Size
  <1>6. Close(other, shape)
    <2> PICK n \in Nat : n = w
      BY <1>5
    <2>1. CASE d = 120
      <3> DEFINE b == WideParts(n)
      <3>1. /\ Lies(b, 82800, 132000)
            /\ other = [width |-> (2 * (b - 5760) + 65) \div 130, height |-> (b + 60) \div 120]
        BY <2>1, WidthInNumbers
      <3>2. n = (240 * (h - 48) + 65) \div 130
        BY <2>1, <1>5
      <3>3. Distance(b, n * 65 + 5760) <= 60
        BY <3>2, <1>1, SMT DEF Between, Distance, WideParts, NarrowParts
      <3> HIDE DEF b
      <3>4. Distance((2 * (b - 5760) + 65) \div 130, n) <= 2 /\ Distance((b + 60) \div 120, h) <= 2
        BY <1>1, <3>1, <3>2, <3>3, SMT DEF Distance, Lies
      <3> QED
        BY <3>1, <3>4, <1>2 DEF Close
    <2>2. CASE d = 62
      <3> DEFINE c == NarrowParts(n)
      <3>1. /\ Lies(c, 42780, 68200)
            /\ other = [width |-> (2 * (c - 2976) + 65) \div 130, height |-> (c + 31) \div 62]
        BY <2>2, WidthInNumbers
      <3>2. n = (124 * (h - 48) + 65) \div 130
        BY <2>2, <1>5
      <3>3. Distance(c, n * 65 + 2976) <= 60
        BY <3>2, <1>1, SMT DEF Between, Distance, WideParts, NarrowParts
      <3> HIDE DEF c
      <3>4. Distance((2 * (c - 2976) + 65) \div 130, n) <= 2 /\ Distance((c + 31) \div 62, h) <= 2
        BY <1>1, <3>1, <3>2, <3>3, SMT DEF Distance, Lies
      <3> QED
        BY <3>1, <3>4, <1>2 DEF Close
    <2> QED BY <2>1, <2>2, TwoWidths
  <1> QED
    BY <1>3, <1>4, <1>6, Zenon DEF aspect_constrained_size, OfWidth

\* What is close to a size of the view has its aspect.
LEMMA CloseIsOnAspect ==
  ASSUME NEW advanced, NEW s \in Size, NEW t \in Size, Exact(t, advanced), Close(t, s)
  PROVE  OnAspect(s, advanced)
  <1> DEFINE d == DesignWidth(advanced)
  <1>1. /\ s.width \in Nat /\ t.width \in Nat
        /\ s.height \in Nat /\ t.height \in Nat
    BY DEF Size
  <1>2. 2 * Distance(t.width * 65, (t.height - 48) * d) <= 65 + d
    BY DEF Exact, Off, DesignHeight, TitleBar
  <1>3. Distance(t.width, s.width) <= 2 /\ Distance(t.height, s.height) <= 2
    BY DEF Close
  <1>4. d = 120 \/ d = 62
    BY TwoWidths
  <1> HIDE DEF d
  <1>5. 2 * Distance(s.width * 65, (s.height - 48) * d) <= 5 * (65 + d)
    BY <1>1, <1>2, <1>3, <1>4, SMT DEF Distance
  <1> QED
    BY <1>5 DEF OnAspect, Off, DesignHeight, TitleBar, d

\* So is a size of the view itself.
LEMMA ExactIsOnAspect ==
  ASSUME NEW advanced, NEW s \in Size, Exact(s, advanced)
  PROVE  OnAspect(s, advanced)
  <1>1. Close(s, s)
    <2>1. s.width \in Nat /\ s.height \in Nat
      BY DEF Size
    <2> QED BY <2>1, SMT DEF Close, Distance
  <1> QED BY <1>1, CloseIsOnAspect

\* The window manager's bounds keep the aspect and the height, and what they made stays.
LEMMA BoundsKeepAspect ==
  ASSUME NEW advanced, NEW s \in Size
  PROVE  LET size == Bounded(s, advanced)
         IN /\ size \in Size /\ size.height \in Heights
            /\ Bounded(size, advanced) = size
            /\ s.height \in Heights => size.height = s.height
            /\ s.height \in Heights /\ OnAspect(s, advanced) => OnAspect(size, advanced)
  <1> DEFINE d == DesignWidth(advanced)
             size == Bounded(s, advanced)
             tall == Between(s.height, 690, 1100)
  <1>1. PICK width \in Nat, h \in Nat : s.width = width /\ s.height = h
    BY DEF Size
  <1>2. tall \in 690 .. 1100 /\ (h \in 690 .. 1100 => tall = h)
    BY <1>1 DEF Between
  <1>3. CASE d = 120
    <2> DEFINE wide == Between(width, 1185, 1942)
    <2>1. wide \in 1185 .. 1942 /\ (width \in 1185 .. 1942 => wide = width)
      BY <1>1 DEF Between
    <2>2. size = [width |-> wide, height |-> tall]
      BY <1>1, <1>3, BoundsOfViews
    <2>3. ASSUME h \in 690 .. 1100, 2 * Distance(width * 65, (h - 48) * 120) <= 925
          PROVE  2 * Distance(wide * 65, (h - 48) * 120) <= 925
      BY <2>3, SMT DEF Between, Distance
    <2> HIDE DEF wide, tall, size
    <2>4. size \in Size /\ size.width = wide /\ size.height = tall
      BY <1>2, <2>1, <2>2, SMT DEF Size
    <2>5. Bounded(size, advanced) = size
      BY <1>2, <1>3, <2>1, <2>2, <2>4, BoundsOfViews, SMT DEF Between
    <2>6. ASSUME h \in 690 .. 1100, OnAspect(s, advanced)
          PROVE  OnAspect(size, advanced)
      BY <1>1, <1>2, <1>3, <2>3, <2>4, <2>6 DEF OnAspect, Off, DesignHeight, TitleBar
    <2> QED
      BY <1>1, <1>2, <2>4, <2>5, <2>6 DEF Heights, MinHeight, MaxHeight, size
  <1>4. CASE d = 62
    <2> DEFINE narrow == Between(width, 612, 1003)
    <2>1. narrow \in 612 .. 1003 /\ (width \in 612 .. 1003 => narrow = width)
      BY <1>1 DEF Between
    <2>2. size = [width |-> narrow, height |-> tall]
      BY <1>1, <1>4, BoundsOfViews
    <2>3. ASSUME h \in 690 .. 1100, 2 * Distance(width * 65, (h - 48) * 62) <= 635
          PROVE  2 * Distance(narrow * 65, (h - 48) * 62) <= 635
      BY <2>3, SMT DEF Between, Distance
    <2> HIDE DEF narrow, tall, size
    <2>4. size \in Size /\ size.width = narrow /\ size.height = tall
      BY <1>2, <2>1, <2>2, SMT DEF Size
    <2>5. Bounded(size, advanced) = size
      BY <1>2, <1>4, <2>1, <2>2, <2>4, BoundsOfViews, SMT DEF Between
    <2>6. ASSUME h \in 690 .. 1100, OnAspect(s, advanced)
          PROVE  OnAspect(size, advanced)
      BY <1>1, <1>2, <1>4, <2>3, <2>4, <2>6 DEF OnAspect, Off, DesignHeight, TitleBar
    <2> QED
      BY <1>1, <1>2, <2>4, <2>5, <2>6 DEF Heights, MinHeight, MaxHeight, size
  <1> QED BY <1>3, <1>4, TwoWidths

-------------------------------------------------------------------------------
(* The steps.                                                                    *)

\* A correction is not no correction.
LEMMA WaitingIsForASize ==
  ASSUME NEW state \in ResizeStates
  PROVE  /\ Waiting(state) <=> state.pending \in Corrections
         /\ Waiting(state) => state.pending.target \in Size
         /\ ~Waiting(state) => state.pending = NoCorrection
  BY AspectAssumption DEF Waiting, ResizeStates, Corrections, NoCorrection

\* The window manager gives the window a size (Resizes).
LEMMA ResizesFacts ==
  ASSUME events \in Events, LastIsNative, NEW size \in Size, Resizes(size)
  PROVE  /\ events' \in Events /\ LastIsNative' /\ native' = size
         /\ DragEnding' = DragEnding
         /\ IF size = native THEN events' = events
            ELSE /\ Len(events') = Len(events) + 1 /\ events'[Len(events) + 1] = size
                 /\ \A i \in 1 .. Len(events) : events'[i] = events[i]
  <1>1. size # DragOver
    BY AspectAssumption
  <1>2. CASE size = native
    BY <1>2 DEF Resizes, LastIsNative, DragEnding
  <1>3. CASE size # native
    <2>1. events' = Append(events, size) /\ native' = size
      BY <1>3 DEF Resizes
    <2>2. /\ events' \in Events /\ Len(events') = Len(events) + 1
          /\ events'[Len(events) + 1] = size
          /\ \A i \in 1 .. Len(events) : events'[i] = events[i]
      BY <2>1 DEF Events
    <2>3. DOMAIN events' = 1 .. Len(events) + 1 /\ DOMAIN events = 1 .. Len(events)
          /\ Len(events) \in Nat
      BY <2>2 DEF Events
    <2>4. LastIsNative'
      BY <1>1, <2>1, <2>2, <2>3, SMT DEF LastIsNative
    <2>5. DragEnding' = DragEnding
      BY <1>1, <2>2, <2>3, SMT DEF DragEnding
    <2> QED
      BY <1>3, <2>1, <2>2, <2>4, <2>5
  <1> QED BY <1>2, <1>3

\* The end of a drag waits behind the other events (DragEnds, LosesFocus).
LEMMA DragOverFacts ==
  ASSUME events \in Events, LastIsNative, events' = Append(events, DragOver), native' = native
  PROVE  /\ events' \in Events /\ LastIsNative' /\ DragEnding'
         /\ Len(events') = Len(events) + 1 /\ events'[Len(events) + 1] = DragOver
         /\ \A i \in 1 .. Len(events) : events'[i] = events[i]
  <1>1. /\ events' \in Events /\ Len(events') = Len(events) + 1
        /\ events'[Len(events) + 1] = DragOver
        /\ \A i \in 1 .. Len(events) : events'[i] = events[i]
    BY DEF Events
  <1>2. DOMAIN events' = 1 .. Len(events) + 1 /\ DOMAIN events = 1 .. Len(events)
        /\ Len(events) \in Nat
    BY <1>1 DEF Events
  <1>3. LastIsNative'
    BY <1>1, <1>2, SMT DEF LastIsNative
  <1> QED
    BY <1>1, <1>2, <1>3, SMT DEF DragEnding

\* The first event is handled (HandleEvent).
LEMMA HandledFacts ==
  ASSUME events \in Events, LastIsNative, events # <<>>, events' = Tail(events), native' = native
  PROVE  /\ events' \in Events /\ LastIsNative'
         /\ Head(events) = events[1] /\ Head(events) \in Size \cup {DragOver}
         /\ Len(events') = Len(events) - 1 /\ 1 \in DOMAIN events
         /\ \A i \in 1 .. Len(events') : i + 1 \in DOMAIN events /\ events'[i] = events[i + 1]
         /\ events' = <<>> /\ Head(events) # DragOver => Head(events) = native
         /\ DragEnding => Head(events) = DragOver \/ DragEnding'
         /\ DragEnding' => DragEnding
  <1>1. /\ events' \in Events /\ Len(events') = Len(events) - 1 /\ Len(events) \in Nat
        /\ Len(events) > 0
        /\ Head(events) = events[1] /\ Head(events) \in Size \cup {DragOver}
        /\ \A i \in 1 .. Len(events') : events'[i] = events[i + 1]
        /\ DOMAIN events = 1 .. Len(events) /\ DOMAIN events' = 1 .. Len(events')
    BY DEF Events
  <1>2. LastIsNative'
    <2> SUFFICES ASSUME NEW i \in DOMAIN events', events'[i] # DragOver,
                        \A j \in DOMAIN events' : j > i => events'[j] = DragOver
                 PROVE  events'[i] = native
      BY DEF LastIsNative
    <2>1. i + 1 \in DOMAIN events /\ events[i + 1] = events'[i]
      BY <1>1
    <2>2. ASSUME NEW j \in DOMAIN events, j > i + 1
          PROVE  events[j] = DragOver
      <3>1. j - 1 \in DOMAIN events' /\ j - 1 > i /\ (j - 1) + 1 = j
        BY <1>1, <2>2
      <3> QED BY <1>1, <3>1
    <2> QED BY <2>1, <2>2 DEF LastIsNative
  <1>3. events' = <<>> /\ Head(events) # DragOver => Head(events) = native
    <2>1. events' = <<>> => Len(events) = 1
      BY <1>1
    <2> QED BY <1>1, <2>1, SMT DEF LastIsNative
  <1>4. DragEnding => Head(events) = DragOver \/ DragEnding'
    <2> SUFFICES ASSUME NEW i \in DOMAIN events, events[i] = DragOver, i # 1
                 PROVE  DragEnding'
      BY <1>1 DEF DragEnding
    <2>1. i - 1 \in DOMAIN events' /\ events'[i - 1] = events[(i - 1) + 1]
      BY <1>1, SMT
    <2> QED BY <1>1, <2>1, SMT DEF DragEnding
  <1>5. DragEnding' => DragEnding
    BY <1>1, SMT DEF DragEnding
  <1> QED BY <1>1, <1>2, <1>3, <1>4, <1>5, SMT

\* The start.
LEMMA AspectStarts == AspectInit => AspectIInv
  <1> SUFFICES ASSUME AspectInit PROVE AspectIInv
    OBVIOUS
  <1>1. resize = [advanced |-> FALSE, accepted |-> native, pending |-> NoCorrection,
                  generation |-> 0, latest |-> NoSize, scheduled |-> FALSE,
                  finalize |-> FALSE, direction |-> NoDirection]
    BY DEF AspectInit
  <1>2. native = SizeOf(resize.advanced, 830, 1)
    <2>1. resize.advanced = FALSE
      BY <1>1
    <2> QED BY <2>1, Zenon DEF AspectInit
  <1>3. native \in Size /\ native.height \in Heights /\ Exact(native, resize.advanced)
    BY <1>2, HeightGivesExact
  <1>4. resize \in ResizeStates
    BY <1>1, <1>3, AspectAssumption DEF ResizeStates
  <1>5. /\ asked = NoSize /\ events = <<>> /\ timers = {} /\ hand = NoDirection
        /\ moves = Moves /\ switches = Switches /\ upset = FALSE /\ height = 0
    BY DEF AspectInit
  <1>6. AspectTypeOK
    <2>1. events \in Events
      BY <1>5 DEF Events
    <2>2. moves \in Nat /\ switches \in Nat /\ upset \in BOOLEAN /\ height \in Nat
      BY <1>5, AspectAssumption
    <2> QED BY <1>3, <1>4, <1>5, <2>1, <2>2 DEF AspectTypeOK
  <1>7. OnAspect(native, resize.advanced)
    BY <1>3, ExactIsOnAspect
  <1>8. DOMAIN events = {}
    BY <1>5
  <1>9. DragEndsOnce /\ LastIsNative
    BY <1>5, <1>8 DEF DragEndsOnce, DragEnding, LastIsNative
  <1>10. CorrectionsFit /\ ShapeIsKept
    BY <1>1, <1>5, <1>7 DEF CorrectionsFit, Waiting, ShapeIsKept
  <1>11. HeightIsKept
    BY <1>5 DEF HeightIsKept
  <1> QED
    BY <1>6, <1>9, <1>10, <1>11 DEF AspectIInv

\* The end of a correction (Over).
LEMMA OverFacts ==
  ASSUME NEW state \in ResizeStates, NEW size \in Size
  PROVE  LET r == Over(state, size)
         IN /\ r \in ResizeStates /\ ~Waiting(r) /\ ~r.finalize
            /\ r.advanced = state.advanced /\ r.direction = state.direction
            /\ IF state.finalize THEN r.latest = size /\ r.scheduled ELSE r.latest = NoSize
  <1> DEFINE over == [state EXCEPT !.pending = NoCorrection, !.latest = NoSize,
                                   !.accepted = size, !.finalize = FALSE]
             r == Over(state, size)
  <1>1. /\ over \in ResizeStates /\ over.pending = NoCorrection /\ ~over.finalize
        /\ over.advanced = state.advanced /\ over.direction = state.direction
        /\ over.latest = NoSize
    BY DEF ResizeStates
  <1>2. r = IF state.finalize THEN [over EXCEPT !.latest = size, !.scheduled = TRUE] ELSE over
    BY DEF Over, Scheduled
  <1> HIDE DEF over, r
  <1>3. CASE state.finalize
    <2>1. r = [over EXCEPT !.latest = size, !.scheduled = TRUE]
      BY <1>2, <1>3
    <2> QED BY <1>1, <1>3, <2>1 DEF ResizeStates, Waiting, r
  <1>4. CASE ~state.finalize
    BY <1>1, <1>2, <1>4 DEF Waiting, r
  <1> QED BY <1>3, <1>4

\* What the window makes of a new size (observe_resize).
LEMMA ObserveFacts ==
  ASSUME resize \in ResizeStates, NEW e \in Size
  PROVE  LET r == observe_resize(e)
             close == Close(resize.pending.target, e)
         IN /\ r \in ResizeStates
            /\ r.advanced = resize.advanced /\ r.direction = resize.direction
            /\ ~Waiting(resize) =>
                 r.latest = e /\ r.scheduled /\ ~Waiting(r) /\ r.finalize = resize.finalize
            /\ Waiting(resize) /\ close => ~Waiting(r) /\ r.latest = NoSize /\ ~r.finalize
            /\ Waiting(resize) /\ ~close /\ resize.pending.intermediate => r = resize
            /\ Waiting(resize) /\ ~close /\ ~resize.pending.intermediate =>
                 /\ ~Waiting(r) /\ ~r.finalize
                 /\ IF resize.finalize THEN r.latest = e /\ r.scheduled ELSE r.latest = NoSize
  <1> DEFINE r == observe_resize(e)
             close == Close(resize.pending.target, e)
             firm == [resize EXCEPT !.finalize = FALSE]
  <1>1. CASE ~Waiting(resize)
    <2>1. r = [resize EXCEPT !.latest = e, !.scheduled = TRUE]
      BY <1>1 DEF observe_resize, Scheduled
    <2> QED BY <1>1, <2>1 DEF ResizeStates, Waiting
  <1>2. CASE Waiting(resize) /\ close
    <2>1. r = Over(firm, e)
      BY <1>2 DEF observe_resize
    <2>2. /\ firm \in ResizeStates /\ ~firm.finalize
          /\ firm.advanced = resize.advanced /\ firm.direction = resize.direction
      BY DEF ResizeStates
    <2> HIDE DEF r, firm, close
    <2> QED BY <1>2, <2>1, <2>2, OverFacts DEF r, close
  <1>3. CASE Waiting(resize) /\ ~close /\ resize.pending.intermediate
    BY <1>3 DEF observe_resize
  <1>4. CASE Waiting(resize) /\ ~close /\ ~resize.pending.intermediate
    <2>1. r = Over(resize, e)
      BY <1>4 DEF observe_resize
    <2> HIDE DEF r, close
    <2> QED BY <1>4, <2>1, OverFacts DEF r, close
  <1> QED BY <1>1, <1>2, <1>3, <1>4

\* What it makes of the end of a drag (finish_drag).
LEMMA FinishFacts ==
  ASSUME resize \in ResizeStates, native \in Size
  PROVE  LET r == finish_drag
         IN /\ r \in ResizeStates /\ r.advanced = resize.advanced
            /\ r.direction = NoDirection /\ r.pending = resize.pending
            /\ resize.direction = NoDirection => r = resize
            /\ resize.direction # NoDirection /\ Waiting(resize) => r.latest = NoSize /\ r.finalize
            /\ resize.direction # NoDirection /\ ~Waiting(resize) =>
                 r.latest = native /\ r.scheduled /\ ~r.finalize
  <1> DEFINE r == finish_drag
  <1>1. CASE resize.direction = NoDirection
    BY <1>1 DEF finish_drag
  <1>2. CASE resize.direction # NoDirection /\ Waiting(resize)
    <2>1. r = [resize EXCEPT !.direction = NoDirection, !.latest = NoSize, !.finalize = TRUE]
      BY <1>2 DEF finish_drag, ResizeStates
    <2> QED BY <1>2, <2>1 DEF ResizeStates
  <1>3. CASE resize.direction # NoDirection /\ ~Waiting(resize)
    <2>1. r = [resize EXCEPT !.direction = NoDirection, !.finalize = FALSE, !.latest = native,
                             !.scheduled = TRUE]
      BY <1>3 DEF finish_drag, Scheduled, ResizeStates
    <2> QED BY <1>3, <2>1 DEF ResizeStates
  <1> QED BY <1>1, <1>2, <1>3

\* A correction is begun (begin_pending_correction).
LEMMA BeginFacts ==
  ASSUME NEW state \in ResizeStates, NEW target \in Size, NEW intermediate \in BOOLEAN,
         timers \subseteq 0 .. Timers - 1,
         begin_pending_correction(state, target, intermediate)
  PROVE  /\ resize' \in ResizeStates /\ timers' \subseteq 0 .. Timers - 1 /\ asked' = target
         /\ Waiting(resize') /\ resize'.pending.target = target
         /\ resize'.pending.intermediate = intermediate
         /\ ~resize'.finalize /\ resize'.advanced = state.advanced
         /\ resize'.direction = state.direction /\ resize'.latest = state.latest
  <1> DEFINE next == (state.generation + 1) % Timers
             correction == [target |-> target, generation |-> next, intermediate |-> intermediate]
  <1>1. next \in 0 .. Timers - 1
    BY AspectAssumption, SMT DEF ResizeStates
  <1>2. /\ resize' = [state EXCEPT !.generation = next, !.finalize = FALSE, !.pending = correction]
        /\ timers' = timers \cup {resize'.generation} /\ asked' = target
    BY DEF begin_pending_correction, Correcting
  <1> HIDE DEF next
  <1>3. correction \in Corrections /\ correction # NoCorrection
    BY <1>1, AspectAssumption DEF Corrections, NoCorrection
  <1>4. correction.target = target /\ correction.intermediate = intermediate
    OBVIOUS
  <1> HIDE DEF correction
  <1>5. /\ resize' \in ResizeStates /\ resize'.generation = next /\ resize'.pending = correction
        /\ ~resize'.finalize /\ resize'.advanced = state.advanced
        /\ resize'.direction = state.direction /\ resize'.latest = state.latest
    BY <1>1, <1>2, <1>3 DEF ResizeStates
  <1> QED
    BY <1>1, <1>2, <1>3, <1>4, <1>5 DEF Waiting

\* The pointer takes hold of a handle.
LEMMA DragStartsKeeps ==
  ASSUME AspectIInv, DragStarts
  PROVE  AspectIInv'
  <1> PICK d \in Direction : /\ hand' = d
                             /\ resize' = [resize EXCEPT !.accepted = native, !.direction = d]
    BY DEF DragStarts
  <1>1. d # NoDirection
    BY AspectAssumption
  <1>2. /\ moves' = moves - 1 /\ moves > 0 /\ height' = 0
        /\ UNCHANGED <<native, asked, events, timers, switches, upset>>
        /\ ~DragEnding
    BY DEF DragStarts, DragEnding
  <1>3. /\ resize \in ResizeStates /\ native \in Size /\ moves \in Nat
    BY DEF AspectIInv, AspectTypeOK
  <1>4. /\ resize' \in ResizeStates /\ resize'.direction = d /\ resize'.pending = resize.pending
        /\ resize'.latest = resize.latest /\ resize'.advanced = resize.advanced
    BY <1>3 DEF ResizeStates
  <1>5. AspectTypeOK'
    <2>1. moves' \in Nat
      BY <1>2, <1>3
    <2> QED BY <1>2, <1>3, <1>4, <2>1 DEF AspectIInv, AspectTypeOK
  <1>6. DragEndsOnce' /\ LastIsNative'
    BY <1>1, <1>2, <1>4 DEF AspectIInv, DragEndsOnce, LastIsNative, DragEnding
  <1>7. CorrectionsFit' /\ ShapeIsKept' /\ HeightIsKept'
    BY <1>1, <1>2, <1>4 DEF AspectIInv, CorrectionsFit, ShapeIsKept, HeightIsKept, Waiting
  <1> QED BY <1>5, <1>6, <1>7 DEF AspectIInv

\* Whatever the pointer or the window manager does to the size leaves what is known of a drag
\* as it was.
LEMMA SizesKeepDrags ==
  ASSUME AspectTypeOK, DragEndsOnce, LastIsNative, NEW size \in Size, Resizes(size),
         UNCHANGED <<resize, hand>>, ~upset' => ~upset
  PROVE  events' \in Events /\ DragEndsOnce' /\ LastIsNative' /\ native' = size
  <1>1. /\ events' \in Events /\ LastIsNative' /\ native' = size
        /\ DragEnding' = DragEnding
        /\ IF size = native THEN events' = events
           ELSE /\ Len(events') = Len(events) + 1 /\ events'[Len(events) + 1] = size
                /\ \A i \in 1 .. Len(events) : events'[i] = events[i]
    BY ResizesFacts DEF AspectTypeOK
  <1>2. size # DragOver
    BY AspectAssumption
  <1>3. ASSUME NEW i \in DOMAIN events', events'[i] = DragOver
        PROVE  i \in DOMAIN events /\ events[i] = DragOver
    <2>1. DOMAIN events' = 1 .. Len(events') /\ DOMAIN events = 1 .. Len(events)
          /\ Len(events) \in Nat
      BY <1>1 DEF Events, AspectTypeOK
    <2>2. i \in 1 .. Len(events)
      <3>1. CASE size = native
        BY <1>1, <1>3, <2>1, <3>1
      <3>2. CASE size # native
        BY <1>1, <1>2, <1>3, <2>1, <3>2, SMT
      <3> QED BY <3>1, <3>2
    <2>3. events[i] = events'[i]
      BY <1>1, <2>2
    <2> QED BY <1>3, <2>1, <2>2, <2>3
  <1>4. DragEndsOnce'
    BY <1>1, <1>3 DEF DragEndsOnce
  <1> QED BY <1>1, <1>4

\* The pointer moves a handle.
LEMMA DragMovesKeeps ==
  ASSUME AspectIInv, DragMoves
  PROVE  AspectIInv'
  <1> PICK s \in Dragged : Resizes(Fit(Along(hand, s)))
    BY DEF DragMoves
  <1> DEFINE size == Fit(Along(hand, s))
  <1>1. /\ hand # NoDirection /\ moves' = moves - 1 /\ moves > 0
        /\ UNCHANGED <<resize, asked, timers, hand, switches, upset, height>>
    BY DEF DragMoves
  <1>2. AspectTypeOK /\ DragEndsOnce /\ LastIsNative /\ CorrectionsFit /\ ShapeIsKept /\ HeightIsKept
    BY DEF AspectIInv
  <1>3. size \in Size /\ size.height \in Heights
    <2>1. Along(hand, s) \in Size
      BY <1>2, AspectAssumption DEF Along, Size, AspectTypeOK
    <2> QED BY <2>1, BoundsKeepAspect DEF Fit
  <1> HIDE DEF size
  <1>4. events' \in Events /\ DragEndsOnce' /\ LastIsNative' /\ native' = size
    BY <1>1, <1>2, <1>3, SizesKeepDrags DEF size
  <1>5. AspectTypeOK'
    <2>1. moves' \in Nat
      BY <1>1, <1>2 DEF AspectTypeOK
    <2> QED BY <1>1, <1>2, <1>3, <1>4, <2>1 DEF AspectTypeOK
  <1>6. CorrectionsFit' /\ ShapeIsKept'
    BY <1>1, <1>2 DEF CorrectionsFit, ShapeIsKept
  <1>7. HeightIsKept'
    BY <1>1, <1>2 DEF HeightIsKept
  <1> QED BY <1>4, <1>5, <1>6, <1>7 DEF AspectIInv

\* The button is released.
LEMMA DragEndsKeeps ==
  ASSUME AspectIInv, DragEnds
  PROVE  AspectIInv'
  <1>1. /\ hand # NoDirection /\ hand' = NoDirection /\ events' = Append(events, DragOver)
        /\ UNCHANGED <<resize, native, asked, timers, moves, switches, upset, height>>
    BY DEF DragEnds
  <1>2. AspectTypeOK /\ DragEndsOnce /\ LastIsNative /\ CorrectionsFit /\ ShapeIsKept /\ HeightIsKept
    BY DEF AspectIInv
  <1>3. /\ events' \in Events /\ LastIsNative' /\ DragEnding'
        /\ Len(events') = Len(events) + 1 /\ events'[Len(events) + 1] = DragOver
        /\ \A i \in 1 .. Len(events) : events'[i] = events[i]
    BY <1>1, <1>2, DragOverFacts DEF AspectTypeOK
  <1>4. AspectTypeOK'
    BY <1>1, <1>2, <1>3 DEF AspectTypeOK
  <1>5. DragEndsOnce'
    <2> SUFFICES ASSUME ~upset PROVE DragEndsOnce'
      BY <1>1 DEF DragEndsOnce
    <2>1. resize.direction # NoDirection /\ ~DragEnding
      BY <1>1, <1>2 DEF DragEndsOnce
    <2>2. DOMAIN events' = 1 .. Len(events) + 1 /\ DOMAIN events = 1 .. Len(events)
          /\ Len(events) \in Nat
      BY <1>2, <1>3 DEF Events, AspectTypeOK
    <2>3. \A i \in DOMAIN events' : events'[i] = DragOver => i = Len(events) + 1
      BY <1>3, <2>1, <2>2, SMT DEF DragEnding
    <2> QED BY <1>1, <2>1, <2>3 DEF DragEndsOnce
  <1>6. CorrectionsFit' /\ ShapeIsKept'
    BY <1>1, <1>2, <1>3 DEF CorrectionsFit, ShapeIsKept
  <1>7. HeightIsKept'
    BY <1>1, <1>2 DEF HeightIsKept
  <1> QED BY <1>3, <1>4, <1>5, <1>6, <1>7 DEF AspectIInv

\* The focus is lost in a drag: nothing is claimed from then on but types.
LEMMA LosesFocusKeeps ==
  ASSUME AspectIInv, LosesFocus
  PROVE  AspectIInv'
  <1>1. /\ events' = Append(events, DragOver) /\ upset' = TRUE
        /\ UNCHANGED <<resize, native, asked, timers, hand, moves, switches, height>>
    BY DEF LosesFocus
  <1>2. AspectTypeOK /\ LastIsNative /\ CorrectionsFit
    BY DEF AspectIInv
  <1>3. events' \in Events /\ LastIsNative'
    BY <1>1, <1>2, DragOverFacts DEF AspectTypeOK
  <1>4. AspectTypeOK' /\ CorrectionsFit'
    BY <1>1, <1>2, <1>3 DEF AspectTypeOK, CorrectionsFit
  <1>5. DragEndsOnce' /\ ShapeIsKept' /\ HeightIsKept'
    BY <1>1 DEF DragEndsOnce, ShapeIsKept, HeightIsKept
  <1> QED BY <1>3, <1>4, <1>5 DEF AspectIInv

\* What HeightIsKept says of the view's own size.
LEMMA HeightFacts ==
  ASSUME AspectTypeOK, HeightIsKept, height > 0, ~upset
  PROVE  LET shape == SizeOf(resize.advanced, height, 1)
         IN /\ height \in Heights /\ shape \in Size /\ shape.height = height
            /\ Exact(shape, resize.advanced) /\ Fit(shape) = shape
  <1>1. native.height = height /\ native.height \in Heights /\ height \in Nat
    BY DEF HeightIsKept, AspectTypeOK
  <1> QED BY <1>1, HeightGivesExact DEF Exact, Fit

\* The window manager gives the window what it asked for.
LEMMA GrantsKeeps ==
  ASSUME AspectIInv, Grants
  PROVE  AspectIInv'
  <1> DEFINE shape == SizeOf(resize.advanced, height, 1)
  <1>1. /\ asked # NoSize /\ Resizes(Fit(asked)) /\ asked' = NoSize
        /\ UNCHANGED <<resize, timers, hand, moves, switches, upset, height>>
    BY DEF Grants
  <1>2. AspectTypeOK /\ DragEndsOnce /\ LastIsNative /\ CorrectionsFit /\ ShapeIsKept /\ HeightIsKept
    BY DEF AspectIInv
  <1>3. /\ asked \in Size /\ Exact(asked, resize.advanced) /\ Fit(asked) = asked
        /\ asked.height \in Heights
    <2>1. asked \in Size /\ Exact(asked, resize.advanced) /\ Fit(asked) = asked
      BY <1>1, <1>2 DEF AspectTypeOK, CorrectionsFit, Exact, Fit
    <2> QED BY <2>1, BoundsKeepAspect DEF Fit
  <1>4. events' \in Events /\ DragEndsOnce' /\ LastIsNative' /\ native' = asked
    BY <1>1, <1>2, <1>3, SizesKeepDrags
  <1>5. AspectTypeOK'
    BY <1>1, <1>2, <1>3, <1>4 DEF AspectTypeOK
  <1>6. CorrectionsFit' /\ ShapeIsKept'
    <2>1. OnAspect(asked, resize.advanced)
      BY <1>3, ExactIsOnAspect
    <2> QED BY <1>1, <1>2, <1>4, <2>1 DEF CorrectionsFit, ShapeIsKept
  <1>7. HeightIsKept'
    <2> SUFFICES ASSUME height > 0, ~upset PROVE HeightIsKept'
      BY <1>1 DEF HeightIsKept
    <2>1. shape \in Size /\ shape.height = height /\ Fit(shape) = shape
      BY <1>2, HeightFacts
    <2>2. /\ hand = NoDirection /\ resize.direction = NoDirection /\ ~resize.finalize
          /\ asked = shape
          /\ Waiting(resize) => resize.pending.target = shape /\ resize.pending.intermediate
          /\ \A i \in DOMAIN events :
               events[i] \in Size /\ (i > 1 \/ ~Waiting(resize) => events[i] = shape)
          /\ resize.latest \in {NoSize, shape}
      BY <1>1, <1>2 DEF HeightIsKept
    <2>3. \A i \in DOMAIN events' :
            events'[i] \in Size /\ (i > 1 \/ ~Waiting(resize) => events'[i] = shape)
      <3>1. /\ Len(events) \in Nat /\ DOMAIN events = 1 .. Len(events)
            /\ DOMAIN events' = 1 .. Len(events')
        BY <1>2, <1>4 DEF AspectTypeOK, Events
      <3>2. IF shape = native THEN events' = events
            ELSE /\ Len(events') = Len(events) + 1 /\ events'[Len(events) + 1] = shape
                 /\ \A i \in 1 .. Len(events) : events'[i] = events[i]
        BY <1>1, <1>2, <1>3, <2>2, ResizesFacts DEF AspectTypeOK
      <3> HIDE DEF shape
      <3>3. CASE shape = native
        BY <2>1, <2>2, <3>2, <3>3
      <3>4. CASE shape # native
        <4> SUFFICES ASSUME NEW i \in DOMAIN events'
                     PROVE  events'[i] \in Size /\ (i > 1 \/ ~Waiting(resize) => events'[i] = shape)
          OBVIOUS
        <4>1. i \in 1 .. Len(events) \/ i = Len(events) + 1
          BY <3>1, <3>2, <3>4
        <4> QED BY <2>1, <2>2, <3>1, <3>2, <3>4, <4>1
      <3> QED BY <3>3, <3>4
    <2>4. Fit(native)' = Fit(shape)
      BY <1>1, <1>4, <2>2 DEF Fit
    <2> HIDE DEF shape
    <2>5. shape' = shape /\ native' = shape
      BY <1>1, <1>4, <2>2 DEF shape
    <2> QED BY <1>1, <2>1, <2>2, <2>3, <2>4, <2>5 DEF HeightIsKept, shape
  <1> QED BY <1>4, <1>5, <1>6, <1>7 DEF AspectIInv

\* It gives the window another size, or leaves it the one the pointer gives it.
LEMMA OverrulesKeeps ==
  ASSUME AspectIInv, Overrules
  PROVE  AspectIInv'
  <1>1. /\ asked # NoSize /\ asked' = NoSize
        /\ UNCHANGED <<resize, timers, hand, moves, switches, height>>
    BY DEF Overrules
  <1>2. AspectTypeOK /\ DragEndsOnce /\ LastIsNative /\ CorrectionsFit /\ ShapeIsKept /\ HeightIsKept
    BY DEF AspectIInv
  <1>3. CorrectionsFit'
    BY <1>1, <1>2 DEF CorrectionsFit
  <1>4. CASE Resizes(native) /\ upset' = (upset \/ hand = NoDirection)
    <2>1. events' \in Events /\ DragEndsOnce' /\ LastIsNative' /\ native' = native
      <3>1. native \in Size /\ upset \in BOOLEAN
        BY <1>2 DEF AspectTypeOK
      <3> QED BY <1>1, <1>2, <1>4, <3>1, SizesKeepDrags
    <2>2. AspectTypeOK'
      BY <1>1, <1>2, <1>4, <2>1 DEF AspectTypeOK
    <2>3. ShapeIsKept' /\ HeightIsKept'
      BY <1>1, <1>2, <1>4 DEF ShapeIsKept, HeightIsKept
    <2> QED BY <1>3, <2>1, <2>2, <2>3 DEF AspectIInv
  <1>5. CASE Resizes(Fit(Own)) /\ upset' = TRUE
    <2>1. Fit(Own) \in Size /\ Fit(Own).height \in Heights
      BY AspectAssumption, BoundsKeepAspect DEF Fit
    <2>2. events' \in Events /\ LastIsNative' /\ native' = Fit(Own)
      BY <1>2, <1>5, <2>1, ResizesFacts DEF AspectTypeOK
    <2>3. AspectTypeOK'
      BY <1>1, <1>2, <1>5, <2>1, <2>2 DEF AspectTypeOK
    <2>4. DragEndsOnce' /\ ShapeIsKept' /\ HeightIsKept'
      BY <1>5 DEF DragEndsOnce, ShapeIsKept, HeightIsKept
    <2> QED BY <1>3, <2>2, <2>3, <2>4 DEF AspectIInv
  <1> QED BY <1>4, <1>5 DEF Overrules

\* New bounds apply before the size that was asked for.
LEMMA ConstrainsKeeps ==
  ASSUME AspectIInv, Constrains
  PROVE  AspectIInv'
  <1> DEFINE size == Fit(native)
  <1>1. /\ size # native /\ Resizes(size)
        /\ UNCHANGED <<resize, asked, timers, hand, moves, switches, upset, height>>
    BY DEF Constrains
  <1>2. AspectTypeOK /\ DragEndsOnce /\ LastIsNative /\ CorrectionsFit /\ ShapeIsKept /\ HeightIsKept
    BY DEF AspectIInv
  <1>3. /\ size \in Size /\ size.height = native.height /\ native.height \in Heights
        /\ Bounded(size, resize.advanced) = size
        /\ OnAspect(native, resize.advanced) => OnAspect(size, resize.advanced)
    BY <1>2, BoundsKeepAspect DEF Fit, AspectTypeOK
  <1>4. Fit(native)' = Bounded(native', resize.advanced)
    BY <1>1 DEF Fit
  <1>5. size = Fit(native)
    OBVIOUS
  <1> HIDE DEF size
  <1>6. events' \in Events /\ DragEndsOnce' /\ LastIsNative' /\ native' = size
    BY <1>1, <1>2, <1>3, SizesKeepDrags
  <1>7. /\ DragEnding' = DragEnding
        /\ Len(events') = Len(events) + 1 /\ events'[Len(events) + 1] = size
        /\ Len(events) \in Nat /\ DOMAIN events' = 1 .. Len(events')
    BY <1>1, <1>2, <1>3, <1>6, ResizesFacts DEF AspectTypeOK, Events
  <1>8. events' # <<>>
    BY <1>7
  <1>9. AspectTypeOK'
    BY <1>1, <1>2, <1>3, <1>6 DEF AspectTypeOK
  <1>10. CorrectionsFit' /\ ShapeIsKept'
    BY <1>1, <1>2, <1>3, <1>6, <1>7, <1>8 DEF CorrectionsFit, ShapeIsKept
  <1>11. HeightIsKept'
    <2> DEFINE shape == SizeOf(resize.advanced, height, 1)
    <2> SUFFICES ASSUME height > 0, ~upset PROVE HeightIsKept'
      BY <1>1 DEF HeightIsKept
    <2>1. shape \in Size /\ Fit(shape) = shape
      BY <1>2, HeightFacts
    <2>2. /\ hand = NoDirection /\ resize.direction = NoDirection /\ ~resize.finalize
          /\ native.height = height
          /\ asked \in {NoSize, shape} /\ (asked = NoSize => native = shape)
          /\ Waiting(resize) => resize.pending.target = shape /\ resize.pending.intermediate
          /\ ~Waiting(resize) \/ events # <<>> => Fit(native) = native
          /\ resize.latest \in {NoSize, shape}
      BY <1>2 DEF HeightIsKept
    <2>3. Waiting(resize) /\ events = <<>> /\ asked = shape /\ asked # NoSize
      BY <1>1, <1>5, <2>1, <2>2, AspectAssumption
    <2>4. Len(events) = 0
      BY <2>3
    <2>5. \A i \in DOMAIN events' : events'[i] \in Size /\ ~(i > 1)
      BY <1>3, <1>7, <2>4
    <2>6. shape' = shape
      BY <1>1
    <2> HIDE DEF shape
    <2> QED BY <1>1, <1>3, <1>4, <1>6, <2>2, <2>3, <2>5, <2>6 DEF HeightIsKept, shape
  <1> QED BY <1>6, <1>9, <1>10, <1>11 DEF AspectIInv

\* A window event is handled (observe_resize, finish_drag).
LEMMA HandleEventKeeps ==
  ASSUME AspectIInv, HandleEvent
  PROVE  AspectIInv'
  <1> DEFINE e == Head(events)
             close == Close(resize.pending.target, e)
  <1>1. /\ events # <<>> /\ events' = Tail(events)
        /\ resize' = IF e = DragOver THEN finish_drag ELSE observe_resize(e)
        /\ UNCHANGED <<native, asked, timers, hand, moves, switches, upset, height>>
    BY DEF HandleEvent
  <1>2. AspectTypeOK /\ DragEndsOnce /\ LastIsNative /\ CorrectionsFit /\ ShapeIsKept /\ HeightIsKept
    BY DEF AspectIInv
  <1>3. /\ events' \in Events /\ LastIsNative'
        /\ e = events[1] /\ e \in Size \cup {DragOver} /\ 1 \in DOMAIN events
        /\ \A i \in 1 .. Len(events') : i + 1 \in DOMAIN events /\ events'[i] = events[i + 1]
        /\ events' = <<>> /\ e # DragOver => e = native
        /\ DragEnding => e = DragOver \/ DragEnding'
        /\ DragEnding' => DragEnding
    BY <1>1, <1>2, HandledFacts DEF AspectTypeOK
  <1>4. DOMAIN events' = 1 .. Len(events') /\ Len(events') \in Nat
    BY <1>3 DEF Events
  <1>5. resize \in ResizeStates /\ native \in Size
    BY <1>2 DEF AspectTypeOK
  <1>6. \A i, j \in DOMAIN events : events[i] = DragOver /\ events[j] = DragOver /\ ~upset => i = j
    BY <1>2 DEF DragEndsOnce
  <1>7. \A i, j \in DOMAIN events' :
          events'[i] = DragOver /\ events'[j] = DragOver /\ ~upset => i = j
    BY <1>3, <1>4, <1>6
  <1> HIDE DEF e, close
  <1>8. CASE e = DragOver
    <2>1. resize' = finish_drag
      BY <1>1, <1>8
    <2>2. /\ resize' \in ResizeStates /\ resize'.advanced = resize.advanced
          /\ resize'.direction = NoDirection /\ resize'.pending = resize.pending
          /\ resize.direction = NoDirection => resize' = resize
          /\ resize.direction # NoDirection /\ Waiting(resize) =>
               resize'.latest = NoSize /\ resize'.finalize
          /\ resize.direction # NoDirection /\ ~Waiting(resize) =>
               resize'.latest = native /\ resize'.scheduled /\ ~resize'.finalize
      BY <1>5, <2>1, FinishFacts
    <2>3. DragEnding
      BY <1>3, <1>8 DEF DragEnding
    <2>4. ~upset => ~DragEnding' /\ hand = NoDirection /\ resize.direction # NoDirection
      <3>1. ASSUME ~upset, NEW i \in DOMAIN events', events'[i] = DragOver
            PROVE  FALSE
        <4>1. i + 1 \in DOMAIN events /\ events[i + 1] = DragOver /\ i + 1 # 1
          BY <1>3, <1>4, <3>1
        <4> QED BY <1>3, <1>6, <1>8, <3>1, <4>1
      <3> QED BY <1>2, <2>3, <3>1 DEF DragEndsOnce, DragEnding
    <2>5. AspectTypeOK'
      BY <1>1, <1>2, <1>3, <2>2 DEF AspectTypeOK
    <2>6. DragEndsOnce'
      BY <1>1, <1>7, <2>4 DEF DragEndsOnce
    <2>7. CorrectionsFit' /\ ShapeIsKept'
      BY <1>1, <1>2, <2>2, <2>4 DEF CorrectionsFit, ShapeIsKept, Waiting
    <2>8. HeightIsKept'
      <3>1. height > 0 /\ ~upset => e \in Size
        BY <1>2, <1>3 DEF HeightIsKept
      <3> QED BY <1>1, <1>8, <3>1, AspectAssumption DEF HeightIsKept
    <2> QED BY <1>3, <2>5, <2>6, <2>7, <2>8 DEF AspectIInv
  <1>9. CASE e # DragOver
    <2>1. resize' = observe_resize(e) /\ e \in Size
      BY <1>1, <1>3, <1>9
    <2>2. /\ resize' \in ResizeStates
          /\ resize'.advanced = resize.advanced /\ resize'.direction = resize.direction
          /\ ~Waiting(resize) =>
               /\ resize'.latest = e /\ resize'.scheduled /\ ~Waiting(resize')
               /\ resize'.finalize = resize.finalize
          /\ Waiting(resize) /\ close =>
               ~Waiting(resize') /\ resize'.latest = NoSize /\ ~resize'.finalize
          /\ Waiting(resize) /\ ~close /\ resize.pending.intermediate => resize' = resize
          /\ Waiting(resize) /\ ~close /\ ~resize.pending.intermediate =>
               /\ ~Waiting(resize') /\ ~resize'.finalize
               /\ IF resize.finalize THEN resize'.latest = e /\ resize'.scheduled
                                     ELSE resize'.latest = NoSize
      BY <1>5, <2>1, ObserveFacts DEF close
    <2>3. Waiting(resize') => Waiting(resize) /\ resize' = resize
      BY <2>2
    <2>4. AspectTypeOK'
      BY <1>1, <1>2, <1>3, <2>2 DEF AspectTypeOK
    <2>5. DragEndsOnce'
      BY <1>1, <1>2, <1>3, <1>7, <2>2 DEF DragEndsOnce
    <2>6. CorrectionsFit'
      BY <1>1, <1>2, <2>2, <2>3 DEF CorrectionsFit
    <2>7. ShapeIsKept'
      <3> SUFFICES ASSUME hand = NoDirection, ~DragEnding', asked = NoSize, ~upset
                   PROVE  ShapeIsKept'
        BY <1>1 DEF ShapeIsKept
      <3>1. \/ OnAspect(native, resize.advanced)
            \/ Waiting(resize) /\ resize.finalize
            \/ ~Waiting(resize)
        BY <1>2, <1>3, <1>9 DEF ShapeIsKept
      <3>2. CASE Waiting(resize')
        BY <1>1, <2>3, <3>1, <3>2 DEF ShapeIsKept
      <3>3. CASE ~Waiting(resize') /\ events' # <<>>
        BY <3>3 DEF ShapeIsKept
      <3>4. CASE ~Waiting(resize') /\ events' = <<>>
        <4>1. e = native
          BY <1>3, <1>9, <3>4
        <4>2. CASE ~Waiting(resize)
          BY <1>1, <2>2, <3>4, <4>1, <4>2 DEF ShapeIsKept
        <4>3. CASE Waiting(resize) /\ close
          <5>1. /\ resize.pending.target \in Size
                /\ Exact(resize.pending.target, resize.advanced)
            BY <1>2, <1>5, <4>3, WaitingIsForASize DEF CorrectionsFit
          <5>2. OnAspect(native, resize.advanced)
            BY <1>5, <4>1, <4>3, <5>1, CloseIsOnAspect DEF close
          <5> QED BY <1>1, <2>2, <5>2 DEF ShapeIsKept
        <4>4. CASE Waiting(resize) /\ ~close
          BY <1>1, <2>2, <3>1, <3>4, <4>1, <4>4 DEF ShapeIsKept
        <4> QED BY <4>2, <4>3, <4>4
      <3> QED BY <3>2, <3>3, <3>4
    <2>8. HeightIsKept'
      <3> DEFINE shape == SizeOf(resize.advanced, height, 1)
      <3> SUFFICES ASSUME height > 0, ~upset PROVE HeightIsKept'
        BY <1>1 DEF HeightIsKept
      <3>1. /\ hand = NoDirection /\ resize.direction = NoDirection /\ ~resize.finalize
            /\ native.height = height
            /\ asked \in {NoSize, shape} /\ (asked = NoSize => native = shape)
            /\ Waiting(resize) => resize.pending.target = shape /\ resize.pending.intermediate
            /\ Fit(native) = native
            /\ \A i \in DOMAIN events :
                 events[i] \in Size /\ (i > 1 \/ ~Waiting(resize) => events[i] = shape)
            /\ resize.latest \in {NoSize, shape}
        BY <1>1, <1>2 DEF HeightIsKept
      <3>2. shape' = shape /\ Fit(native)' = Fit(native)
        BY <1>1, <2>2 DEF Fit
      <3> HIDE DEF shape
      <3>3. \A i \in DOMAIN events' : events'[i] \in Size /\ events'[i] = shape
        <4> SUFFICES ASSUME NEW i \in DOMAIN events'
                     PROVE  events'[i] \in Size /\ events'[i] = shape
          OBVIOUS
        <4>1. i + 1 \in DOMAIN events /\ events'[i] = events[i + 1] /\ i + 1 > 1
          BY <1>3, <1>4
        <4> QED BY <3>1, <4>1
      <3>4. resize'.latest \in {NoSize, shape} /\ ~resize'.finalize
        BY <1>3, <2>2, <3>1
      <3>5. Waiting(resize') => resize'.pending.target = shape /\ resize'.pending.intermediate
        BY <2>3, <3>1
      <3> QED BY <1>1, <2>2, <3>1, <3>2, <3>3, <3>4, <3>5 DEF HeightIsKept, shape
    <2> QED BY <1>3, <2>4, <2>5, <2>6, <2>7, <2>8 DEF AspectIInv
  <1> QED BY <1>8, <1>9

\* The idle callback corrects the last size, if it is not one of the view.
LEMMA IdleCallbackKeeps ==
  ASSUME AspectIInv, IdleCallback
  PROVE  AspectIInv'
  <1> DEFINE idle == [resize EXCEPT !.scheduled = FALSE, !.latest = NoSize]
             target == aspect_constrained_size(resize.latest, resize.accepted,
                                               resize.advanced, resize.direction)
             settled == [idle EXCEPT !.accepted = target, !.pending = NoCorrection,
                                     !.finalize = FALSE]
  <1>1. resize.scheduled /\ UNCHANGED <<native, events, hand, moves, switches, upset, height>>
    BY DEF IdleCallback
  <1>2. AspectTypeOK /\ DragEndsOnce /\ LastIsNative /\ CorrectionsFit /\ ShapeIsKept /\ HeightIsKept
    BY DEF AspectIInv
  <1>3. resize \in ResizeStates /\ native \in Size /\ timers \subseteq 0 .. Timers - 1
    BY <1>2 DEF AspectTypeOK
  <1>4. /\ idle \in ResizeStates /\ idle.latest = NoSize /\ ~idle.scheduled
        /\ idle.advanced = resize.advanced /\ idle.direction = resize.direction
        /\ idle.pending = resize.pending /\ idle.finalize = resize.finalize
    BY <1>3 DEF ResizeStates
  <1>5. resize.latest # NoSize =>
          resize.latest \in Size /\ target \in Size /\ Exact(target, resize.advanced)
    BY <1>3, TargetIsExact DEF ResizeStates
  <1>6. \/ resize.latest = NoSize /\ resize' = idle /\ UNCHANGED <<asked, timers>>
        \/ /\ resize.latest # NoSize /\ Close(target, resize.latest)
           /\ resize' = settled /\ UNCHANGED <<asked, timers>>
        \/ /\ resize.latest # NoSize /\ ~Close(target, resize.latest)
           /\ begin_pending_correction(idle, target, FALSE)
    BY DEF IdleCallback, Correct
  <1>7. target \in Size =>
          /\ settled \in ResizeStates /\ settled.latest = NoSize
          /\ settled.advanced = resize.advanced /\ settled.direction = resize.direction
          /\ settled.pending = NoCorrection /\ ~settled.finalize
    <2> HIDE DEF target, idle
    <2> QED BY <1>4 DEF ResizeStates
  <1>8. DragEnding' = DragEnding /\ LastIsNative'
    BY <1>1, <1>2 DEF DragEnding, LastIsNative
  <1>9. HeightIsKept /\ height > 0 /\ ~upset /\ resize.latest # NoSize => Close(target, resize.latest)
    <2> SUFFICES ASSUME height > 0, ~upset, resize.latest # NoSize
                 PROVE  Close(target, resize.latest)
      OBVIOUS
    <2>1. resize.latest = SizeOf(resize.advanced, height, 1) /\ height \in Heights
      BY <1>2, HeightFacts DEF HeightIsKept
    <2> QED BY <2>1, ViewStands
  <1> HIDE DEF idle, settled, target
  <1>10. CASE resize.latest = NoSize /\ resize' = idle /\ UNCHANGED <<asked, timers>>
    <2>1. AspectTypeOK' /\ DragEndsOnce' /\ CorrectionsFit'
      BY <1>1, <1>2, <1>4, <1>8, <1>10
         DEF AspectTypeOK, DragEndsOnce, CorrectionsFit, Waiting
    <2>2. ShapeIsKept'
      BY <1>1, <1>2, <1>3, <1>4, <1>8, <1>10, AspectAssumption DEF ShapeIsKept, Waiting
    <2>3. HeightIsKept'
      <3>1. Waiting(resize') = Waiting(resize) /\ Fit(native)' = Fit(native)
        BY <1>1, <1>4, <1>10 DEF Waiting, Fit
      <3>2. SizeOf(resize.advanced, height, 1)' = SizeOf(resize.advanced, height, 1)
        BY <1>1, <1>4, <1>10
      <3> QED BY <1>1, <1>2, <1>4, <1>10, <3>1, <3>2 DEF HeightIsKept
    <2> QED BY <1>8, <2>1, <2>2, <2>3 DEF AspectIInv
  <1>11. CASE /\ resize.latest # NoSize /\ Close(target, resize.latest)
              /\ resize' = settled /\ UNCHANGED <<asked, timers>>
    <2>1. ~Waiting(resize) /\ ~Waiting(resize')
      BY <1>2, <1>5, <1>7, <1>11 DEF CorrectionsFit, Waiting
    <2>2. AspectTypeOK' /\ DragEndsOnce' /\ CorrectionsFit'
      BY <1>1, <1>2, <1>5, <1>7, <1>8, <1>11, <2>1
         DEF AspectTypeOK, DragEndsOnce, CorrectionsFit
    <2>3. resize.latest = native => OnAspect(native, resize.advanced)
      BY <1>3, <1>5, <1>11, CloseIsOnAspect
    <2>4. ShapeIsKept'
      BY <1>1, <1>2, <1>5, <1>7, <1>8, <1>11, <2>1, <2>3 DEF ShapeIsKept
    <2>5. HeightIsKept'
      <3>1. Fit(native)' = Fit(native)
        BY <1>1, <1>5, <1>7, <1>11 DEF Fit
      <3>2. SizeOf(resize.advanced, height, 1)' = SizeOf(resize.advanced, height, 1)
        BY <1>1, <1>5, <1>7, <1>11
      <3> QED BY <1>1, <1>2, <1>5, <1>7, <1>11, <2>1, <3>1, <3>2 DEF HeightIsKept
    <2> QED BY <1>8, <2>2, <2>4, <2>5 DEF AspectIInv
  <1>12. CASE /\ resize.latest # NoSize /\ ~Close(target, resize.latest)
              /\ begin_pending_correction(idle, target, FALSE)
    <2>1. /\ resize' \in ResizeStates /\ timers' \subseteq 0 .. Timers - 1 /\ asked' = target
          /\ resize'.pending.target = target /\ ~resize'.finalize
          /\ resize'.advanced = resize.advanced /\ resize'.direction = resize.direction
          /\ resize'.latest = NoSize
      BY <1>3, <1>4, <1>5, <1>12, BeginFacts
    <2>2. asked' # NoSize /\ asked' \in Size
      BY <1>5, <1>12, <2>1, AspectAssumption
    <2>3. AspectTypeOK' /\ DragEndsOnce' /\ CorrectionsFit'
      BY <1>1, <1>2, <1>5, <1>8, <1>12, <2>1, <2>2
         DEF AspectTypeOK, DragEndsOnce, CorrectionsFit
    <2>4. ShapeIsKept'
      BY <2>2 DEF ShapeIsKept
    <2>5. HeightIsKept'
      BY <1>1, <1>2, <1>9, <1>12 DEF HeightIsKept
    <2> QED BY <1>8, <2>3, <2>4, <2>5 DEF AspectIInv
  <1> QED BY <1>6, <1>10, <1>11, <1>12

\* The timeout of a correction (expire_pending_correction).
LEMMA ExpiryKeeps ==
  ASSUME AspectIInv, NEW g, Timeout(g)
  PROVE  AspectIInv'
  <1>1. /\ timers' = timers \ {g} /\ resize' = expire_pending_correction(g)
        /\ upset' = (upset \/ Early(g))
        /\ UNCHANGED <<native, asked, events, hand, moves, switches, height>>
    BY DEF Timeout
  <1>2. AspectTypeOK /\ DragEndsOnce /\ LastIsNative /\ CorrectionsFit /\ ShapeIsKept /\ HeightIsKept
    BY DEF AspectIInv
  <1>3. /\ resize \in ResizeStates /\ native \in Size /\ upset \in BOOLEAN
        /\ timers' \subseteq 0 .. Timers - 1
    BY <1>1, <1>2 DEF AspectTypeOK
  <1>4. DragEnding' = DragEnding /\ LastIsNative'
    BY <1>1, <1>2 DEF DragEnding, LastIsNative
  <1>5. Early(g) \in BOOLEAN
    BY DEF Early
  <1>6. CASE Waiting(resize) /\ resize.pending.generation = g
    <2>1. /\ resize' \in ResizeStates /\ ~Waiting(resize') /\ ~resize'.finalize
          /\ resize'.advanced = resize.advanced /\ resize'.direction = resize.direction
          /\ IF resize.finalize THEN resize'.latest = native /\ resize'.scheduled
                                ELSE resize'.latest = NoSize
      BY <1>1, <1>3, <1>6, OverFacts DEF expire_pending_correction
    <2>2. ~upset' => ~upset /\ asked = NoSize /\ events = <<>>
      BY <1>1, <1>6 DEF Early
    <2>3. AspectTypeOK'
      BY <1>1, <1>2, <1>3, <1>5, <2>1 DEF AspectTypeOK
    <2>4. DragEndsOnce' /\ CorrectionsFit'
      BY <1>1, <1>2, <1>4, <2>1, <2>2 DEF DragEndsOnce, CorrectionsFit
    <2>5. ShapeIsKept'
      BY <1>1, <1>2, <1>4, <1>6, <2>1, <2>2 DEF ShapeIsKept
    <2>6. HeightIsKept'
      <3> DEFINE shape == SizeOf(resize.advanced, height, 1)
      <3> SUFFICES ASSUME height > 0, ~upset' PROVE HeightIsKept'
        BY <1>1 DEF HeightIsKept
      <3>1. ~upset /\ asked = NoSize /\ events = <<>>
        BY <2>2
      <3>2. /\ hand = NoDirection /\ resize.direction = NoDirection /\ ~resize.finalize
            /\ native.height = height /\ native = shape /\ Fit(shape) = shape
        BY <1>2, <3>1, HeightFacts DEF HeightIsKept
      <3>3. shape' = shape /\ Fit(native)' = Fit(native) /\ DOMAIN events' = {}
        BY <1>1, <2>1, <3>1 DEF Fit
      <3> HIDE DEF shape
      <3> QED BY <1>1, <2>1, <3>1, <3>2, <3>3 DEF HeightIsKept, shape
    <2> QED BY <1>4, <2>3, <2>4, <2>5, <2>6 DEF AspectIInv
  <1>7. CASE ~(Waiting(resize) /\ resize.pending.generation = g)
    <2>1. resize' = resize /\ upset' = upset
      BY <1>1, <1>3, <1>7 DEF expire_pending_correction, Early
    <2>2. AspectTypeOK' /\ DragEndsOnce' /\ CorrectionsFit'
      BY <1>1, <1>2, <1>3, <1>4, <2>1 DEF AspectTypeOK, DragEndsOnce, CorrectionsFit
    <2>3. ShapeIsKept' /\ HeightIsKept'
      BY <1>1, <1>2, <1>4, <2>1 DEF ShapeIsKept, HeightIsKept, Fit
    <2> QED BY <1>4, <2>2, <2>3 DEF AspectIInv
  <1> QED BY <1>6, <1>7

\* The view is switched (set_window_mode).
LEMMA SwitchKeeps ==
  ASSUME AspectIInv, set_window_mode
  PROVE  AspectIInv'
  <1> DEFINE shape == ~resize.advanced
             state == [resize EXCEPT !.advanced = shape, !.latest = NoSize,
                                     !.direction = NoDirection]
             target == SizeOf(shape, native.height, 1)
  <1>1. /\ hand = NoDirection /\ switches > 0 /\ events = <<>> /\ switches' = switches - 1
        /\ begin_pending_correction(state, target, TRUE)
        /\ height' = native.height
        /\ UNCHANGED <<native, events, hand, moves, upset>>
    BY DEF set_window_mode
  <1>2. AspectTypeOK /\ LastIsNative
    BY DEF AspectIInv
  <1>3. /\ resize \in ResizeStates /\ native \in Size /\ timers \subseteq 0 .. Timers - 1
        /\ native.height \in Heights /\ native.height \in Nat /\ switches' \in Nat
    BY <1>1, <1>2 DEF AspectTypeOK, Size
  <1>4. /\ state \in ResizeStates /\ state.advanced = shape /\ state.latest = NoSize
        /\ state.direction = NoDirection
    BY <1>3 DEF ResizeStates
  <1>5. target \in Size /\ Exact(target, shape)
    BY <1>3, HeightGivesExact
  <1> HIDE DEF state
  <1>6. /\ resize' \in ResizeStates /\ timers' \subseteq 0 .. Timers - 1 /\ asked' = target
        /\ Waiting(resize') /\ resize'.pending.target = target /\ resize'.pending.intermediate
        /\ ~resize'.finalize /\ resize'.advanced = shape
        /\ resize'.direction = NoDirection /\ resize'.latest = NoSize
    <2> HIDE DEF target, shape
    <2> QED BY <1>1, <1>3, <1>4, <1>5, BeginFacts
  <1>7. SizeOf(resize'.advanced, height', 1) = target
    BY <1>1, <1>6
  <1> HIDE DEF target, shape
  <1>8. asked' # NoSize /\ DOMAIN events' = {} /\ events' = <<>>
    BY <1>1, <1>5, <1>6, AspectAssumption
  <1>9. AspectTypeOK'
    BY <1>1, <1>2, <1>3, <1>5, <1>6 DEF AspectTypeOK
  <1>10. DragEndsOnce' /\ LastIsNative'
    BY <1>1, <1>8 DEF DragEndsOnce, DragEnding, LastIsNative
  <1>11. CorrectionsFit' /\ ShapeIsKept'
    BY <1>5, <1>6, <1>8 DEF CorrectionsFit, ShapeIsKept
  <1>12. HeightIsKept'
    BY <1>1, <1>6, <1>7, <1>8 DEF HeightIsKept
  <1> QED BY <1>9, <1>10, <1>11, <1>12 DEF AspectIInv

\* A stutter changes nothing.
LEMMA AspectStutters ==
  ASSUME AspectIInv, UNCHANGED resizeVars
  PROVE  AspectIInv'
  <1>1. UNCHANGED <<resize, native, asked, events, timers, hand, moves, switches, upset, height>>
    BY DEF resizeVars
  <1>2. AspectTypeOK' /\ DragEndsOnce' /\ LastIsNative'
    BY <1>1 DEF AspectIInv, AspectTypeOK, DragEndsOnce, DragEnding, LastIsNative
  <1>3. CorrectionsFit' /\ ShapeIsKept' /\ HeightIsKept'
    BY <1>1 DEF AspectIInv, CorrectionsFit, ShapeIsKept, DragEnding, HeightIsKept, Fit
  <1> QED BY <1>2, <1>3 DEF AspectIInv

\* Corrections are to sizes of the view, and only what is still to be handled may be out of
\* shape, whatever the pointer and the window manager do (AspectResizeState).
THEOREM AspectInvariant == AspectSpec => []AspectIInv
  <1>1. ASSUME AspectIInv, [AspectNext]_resizeVars
        PROVE  AspectIInv'
    <2>1. CASE User
      BY <1>1, <2>1, DragStartsKeeps, DragMovesKeeps, LosesFocusKeeps, SwitchKeeps DEF User
    <2>2. CASE DragEnds
      BY <1>1, <2>2, DragEndsKeeps
    <2>3. CASE Manager
      BY <1>1, <2>3, GrantsKeeps, OverrulesKeeps, ConstrainsKeeps DEF Manager
    <2>4. CASE Window
      BY <1>1, <2>4, HandleEventKeeps, IdleCallbackKeeps, ExpiryKeeps DEF Window
    <2>5. CASE UNCHANGED resizeVars
      BY <1>1, <2>5, AspectStutters
    <2> QED BY <1>1, <2>1, <2>2, <2>3, <2>4, <2>5 DEF AspectNext
  <1> QED BY <1>1, AspectStarts, PTL DEF AspectSpec

\* When everything has been handled, the window has its aspect ratio and the height from before
\* the last switch of the view, for every size that the pointer may give it.
THEOREM WindowRestsInShape == AspectSpec => []RestsInShape
  <1>1. ASSUME AspectIInv PROVE RestsInShape
    <2> SUFFICES ASSUME AtRest, ~upset
                 PROVE  /\ OnAspect(native, resize.advanced)
                        /\ height > 0 => native.height = height
      BY DEF RestsInShape
    <2>1. ~DragEnding
      BY DEF AtRest, DragEnding
    <2>2. OnAspect(native, resize.advanced)
      BY <1>1, <2>1 DEF AspectIInv, ShapeIsKept, AtRest
    <2>3. height > 0 => native.height = height
      BY <1>1 DEF AspectIInv, HeightIsKept
    <2> QED BY <2>2, <2>3
  <1> QED BY <1>1, AspectInvariant, PTL

==============================================================================
