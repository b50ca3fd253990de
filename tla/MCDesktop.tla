------------------------------ MODULE MCDesktop ------------------------------
(* The reconciliation, a write of GPU offsets and the loops of the window, side  *)
(* by side: each behaviour follows one, the others stay as they are. Only the    *)
(* window's start is in every behaviour: elsewhere its connection has failed,    *)
(* and it says so first.                                                         *)
EXTENDS NvidiaReconcile, OffsetTransaction, ControlChannel, GuiTelemetry, GuiLease

VARIABLE focus

Loops == {"reconcile", "offsets", "channel", "view", "lease"}
At(loop) == focus = loop /\ (loop # "channel" => ~screen.busy)

DesktopInit ==
  /\ focus \in Loops
  /\ Init /\ (focus # "reconcile" =>
                gpu = "awake" /\ nvml = "available" /\ custom = FALSE)
  /\ OffsetInit /\ (focus # "offsets" =>
                      device = "healthy" /\ \A e \in Entries : offset[e] = 0 /\ goal[e] = 0)
  /\ ChannelInit /\ (focus # "channel" => worker.phase = "absent")
  /\ ViewInit
  /\ LeaseInit

\* Every process has exited, and the desktop stays as it is.
Deserted == (\A p \in Launches : launch[p].pc = "exited") /\ UNCHANGED leaseVars

Desktop == <<focus, vars, offsetVars, channelVars, viewVars, leaseVars>>

DesktopNext ==
  /\ UNCHANGED focus
  /\ \/ /\ At("reconcile") /\ Next
        /\ UNCHANGED <<offsetVars, channelVars, viewVars, leaseVars>>
     \/ /\ At("offsets") /\ OffsetNext
        /\ UNCHANGED <<vars, channelVars, viewVars, leaseVars>>
     \/ /\ (At("channel") /\ ChannelNext) \/ (focus # "channel" /\ Deliver)
        /\ UNCHANGED <<vars, offsetVars, viewVars, leaseVars>>
     \/ /\ At("view") /\ ViewNext
        /\ UNCHANGED <<vars, offsetVars, channelVars, leaseVars>>
     \/ /\ At("lease") /\ (LeaseNext \/ Deserted)
        /\ UNCHANGED <<vars, offsetVars, channelVars, viewVars>>

\* The fairness of each loop, while a behaviour follows it.
DesktopFairness ==
  /\ WF_vars(At("reconcile") /\ WorkStep)
  /\ WF_vars(At("reconcile") /\ RetryTime)
  /\ WF_vars(At("reconcile") /\ DaemonStarts)
  /\ WF_vars(At("reconcile") /\ ResumeStep)
  /\ SF_vars(At("reconcile") /\ MainPoll)
  /\ WF_channelVars(At("channel") /\ Take)
  /\ WF_channelVars(At("channel") /\ (Send \/ SendFails \/ Skip))
  /\ WF_channelVars(At("channel") /\ (Receive \/ GiveUp))
  /\ WF_channelVars(Deliver)
  /\ WF_viewVars(At("view") /\ Works)
  /\ WF_viewVars(At("view") /\ Answers)
  /\ SF_viewVars(At("view") /\ RefreshCache)
  /\ SF_viewVars(At("view") /\ TakeSample)
  /\ WF_viewVars(At("view") /\ Receives)
  /\ SF_viewVars(At("view") /\ ReceivesAndRefreshes)

DesktopSpec == DesktopInit /\ [][DesktopNext]_Desktop /\ DesktopFairness

===============================================================================
