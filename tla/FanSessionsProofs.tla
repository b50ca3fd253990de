------------------------- MODULE FanSessionsProofs -------------------------
(* Proofs about FanSessions: the inductive invariant IInv, the safety          *)
(* properties it implies, and the two action properties on disconnects.        *)
EXTENDS FanSessions, FiniteSetTheorems, TLAPS

-----------------------------------------------------------------------------
(* Facts about the operators the actions are built from.                      *)

\* What any outcome of apply_fan_setting is: a mode, and the requested one when
\* the call reports success.
LEMMA OutcomeFacts ==
  ASSUME NEW target \in FanMode, NEW r \in ApplyOutcomes(target)
  PROVE  /\ r.mode \in FanMode /\ r.ok \in BOOLEAN /\ r.fault \in BOOLEAN
         /\ r.ok => r.mode = target
<1>1. CASE r \in [mode : FanMode, ok : {FALSE}, fault : {TRUE}]
  <2>1. r.mode \in FanMode /\ r.ok = FALSE /\ r.fault = TRUE
    BY <1>1
  <2> QED
    BY <2>1
<1>2. CASE r = [mode |-> target, ok |-> TRUE, fault |-> FALSE]
  BY <1>2
<1>3. CASE \/ r = [mode |-> "Auto", ok |-> FALSE, fault |-> FALSE]
           \/ r = [mode |-> "Maximum", ok |-> FALSE, fault |-> FALSE]
  <2>1. r.mode \in FanMode /\ r.ok = FALSE /\ r.fault = FALSE
    BY <1>3 DEF FanMode
  <2> QED
    BY <2>1
<1> QED
  BY <1>1, <1>2, <1>3 DEF ApplyOutcomes

\* Counting a fault that the bound admits keeps the count in its range.
LEMMA FaultsBounded ==
  ASSUME faults \in 0..FaultLimit, NEW r, MaySettle(r), CountFault(r)
  PROVE  faults' \in 0..FaultLimit
  BY ConstantsAssumption DEF MaySettle, CountFault

\* No action but Connect raises the number of live threads.
LEMMA LiveThreadsBounded ==
  ASSUME NEW S \in SUBSET Clients, NEW T \in SUBSET S,
         Cardinality(S) <= MaxControlClients
  PROVE  Cardinality(T) <= MaxControlClients
<1>1. IsFiniteSet(S)
  BY ConstantsAssumption, FS_Subset
<1>2. IsFiniteSet(T) /\ Cardinality(T) <= Cardinality(S)
  BY <1>1, FS_Subset
<1>3. Cardinality(S) \in Nat /\ Cardinality(T) \in Nat
  BY <1>1, <1>2, FS_CardinalityType
<1> QED
  BY <1>2, <1>3, ConstantsAssumption

\* Threads that end leave the admission bound intact.
LEMMA NoNewThread ==
  ASSUME TypeOK, LiveClients' \subseteq LiveClients
  PROVE  Cardinality(LiveClients') <= MaxControlClients
<1>1. LiveClients \in SUBSET Clients
  BY DEF LiveClients
<1> QED
  BY <1>1, LiveThreadsBounded DEF TypeOK

\* The initial state satisfies the invariant.
LEMMA InitEstablishesIInv == Init => IInv
<1> SUFFICES ASSUME Init PROVE IInv
  OBVIOUS
<1>1. Cardinality(LiveClients) <= MaxControlClients
  <2>1. LiveClients = {}
    BY DEF Init, LiveClients, Live
  <2> QED
    BY <2>1, FS_EmptySet, ConstantsAssumption
<1>2. TypeOK
  <2>1. hot \in BOOLEAN /\ excused \in BOOLEAN
    BY DEF Init
  <2>2. faults \in 0..FaultLimit
    BY ConstantsAssumption DEF Init
  <2> QED
    BY <1>1, <2>1, <2>2 DEF Init, TypeOK, SessionState, FanMode
<1> QED
  BY <1>2, ConstantsAssumption
     DEF Init, IInv, ThreadsConsistent, UndeliveredMaximum, ConfirmedConsistent,
         OneLeaseHolder, FansAccountedFor, ManualIsWatched,
         ResumeIsNotInterrupted, RequiresAuto

\* A thread that only moves keeps the invariant.
LEMMA MoveKeepsIInv ==
  ASSUME IInv, NEW c \in Clients, NEW from \in {"hello", "reading", "writing"},
         NEW to \in {"top", "closing"}, from = "writing" => to = "closing",
         Move(c, from, to)
  PROVE  IInv'
<1> USE DEF IInv
<1>1. TypeOK'
  <2>1. LiveClients' \subseteq LiveClients
    BY DEF Move, LiveClients, Live, TypeOK
  <2>2. Cardinality(LiveClients') <= MaxControlClients
    BY <2>1, NoNewThread
  <2> QED
    BY <2>2 DEF Move, TypeOK
<1>2. ThreadsConsistent'
  BY DEF Move, TypeOK, ThreadsConsistent
<1>3. UndeliveredMaximum'
  BY DEF Move, TypeOK, UndeliveredMaximum, ThreadsConsistent
<1>4. ConfirmedConsistent'
  BY DEF Move, TypeOK, ConfirmedConsistent
<1>5. OneLeaseHolder' /\ ResumeIsNotInterrupted'
  BY DEF Move, OneLeaseHolder, ResumeIsNotInterrupted
<1>6. FansAccountedFor' /\ ManualIsWatched'
  BY DEF Move, TypeOK, FansAccountedFor, ManualIsWatched, LeaseHeld, Leased
<1> QED
  BY <1>1, <1>2, <1>3, <1>4, <1>5, <1>6

-----------------------------------------------------------------------------
(* One lemma per action: it keeps the invariant.                              *)

\* A new thread owns nothing.
LEMMA ConnectKeepsIInv ==
  ASSUME IInv, NEW c \in Clients, Connect(c)
  PROVE  IInv'
<1> USE DEF IInv
<1>1. TypeOK'
  <2>1. LiveClients' = LiveClients \cup {c} /\ LiveClients \subseteq Clients
    BY DEF Connect, LiveClients, Live, TypeOK
  <2>2. IsFiniteSet(LiveClients)
    BY <2>1, FS_Subset, ConstantsAssumption
  <2>3. c \notin LiveClients
    BY DEF Connect, LiveClients, Live
  <2>4. Cardinality(LiveClients') = Cardinality(LiveClients) + 1
    BY <2>1, <2>2, <2>3, FS_AddElement
  <2>5. Cardinality(LiveClients) \in Nat
    BY <2>2, FS_CardinalityType
  <2>6. Cardinality(LiveClients') <= MaxControlClients
    BY <2>4, <2>5, ConstantsAssumption DEF Connect, Admits
  <2> QED
    BY <2>6 DEF Connect, TypeOK
<1>2. ThreadsConsistent'
  BY DEF Connect, TypeOK, ThreadsConsistent
<1>3. UndeliveredMaximum'
  BY DEF Connect, TypeOK, UndeliveredMaximum
<1>4. ConfirmedConsistent'
  BY DEF Connect, TypeOK, ConfirmedConsistent
<1>5. OneLeaseHolder' /\ ResumeIsNotInterrupted'
  BY DEF Connect, OneLeaseHolder, ResumeIsNotInterrupted
<1>6. FansAccountedFor' /\ ManualIsWatched'
  BY DEF Connect, TypeOK, FansAccountedFor, ManualIsWatched, LeaseHeld, Leased
<1> QED
  BY <1>1, <1>2, <1>3, <1>4, <1>5, <1>6

\* The watchdog finds nothing to do, or its thread's lease was overridden.
LEMMA PollSafeKeepsIInv ==
  ASSUME IInv, NEW c \in Clients, pc[c] = "top", PollSafe(c),
         UNCHANGED <<daemon, reply, snapshot, owner, hot, helper, revoked, excused>>
  PROVE  IInv'
<1> USE DEF IInv
<1>1. TypeOK'
  <2>1. LiveClients' \subseteq LiveClients
    BY DEF PollSafe, LiveClients, Live, TypeOK
  <2>2. Cardinality(LiveClients') <= MaxControlClients
    BY <2>1, NoNewThread
  <2> QED
    BY <2>2 DEF PollSafe, TypeOK, SessionState
<1>2. ThreadsConsistent'
  BY DEF PollSafe, TypeOK, ThreadsConsistent
<1>3. UndeliveredMaximum'
  BY DEF PollSafe, TypeOK, UndeliveredMaximum, RequiresAuto
<1>4. ConfirmedConsistent'
  BY DEF PollSafe, TypeOK, ConfirmedConsistent, RequiresAuto
<1>5. OneLeaseHolder' /\ ResumeIsNotInterrupted'
  BY DEF PollSafe, TypeOK, OneLeaseHolder, ResumeIsNotInterrupted, RequiresAuto
<1>6. FansAccountedFor' /\ ManualIsWatched'
  BY DEF PollSafe, TypeOK, FansAccountedFor, ManualIsWatched, LeaseHeld, Leased,
         NeedsWatchdog
<1> QED
  BY <1>1, <1>2, <1>3, <1>4, <1>5, <1>6

\* The watchdog raises the fans, or fails to and stays responsible.
LEMMA PollEmergencyKeepsIInv ==
  ASSUME IInv, NEW c \in Clients, pc[c] = "top", PollEmergency(c),
         UNCHANGED <<daemon, reply, snapshot, owner, hot, helper, revoked, excused>>
  PROVE  IInv'
<1> USE DEF IInv
<1>1. /\ session' = [session EXCEPT ![c] = "EmergencyMaximum"]
      /\ pc' \in {[pc EXCEPT ![c] = "reading"], [pc EXCEPT ![c] = "closing"]}
      /\ fans' \in FanMode /\ faults' \in 0..FaultLimit
      /\ fans' # fans => LockFree
      /\ pc'[c] = "reading" => fans' = "Maximum"
      /\ \/ confirmed' = confirmed /\ fans' = fans
         \/ confirmed' = IF fans' = "Maximum" THEN confirmed ELSE NoClient
  BY OutcomeFacts, FaultsBounded DEF PollEmergency, FansBecome, FanMode, TypeOK
<1>2. TypeOK'
  <2>1. LiveClients' \subseteq LiveClients
    BY <1>1 DEF LiveClients, Live, TypeOK
  <2>2. Cardinality(LiveClients') <= MaxControlClients
    BY <2>1, NoNewThread
  <2> QED
    BY <1>1, <2>2 DEF TypeOK, SessionState
<1>3. owner = c /\ NeedsWatchdog(session[c])
  BY DEF PollEmergency
<1>4. ThreadsConsistent' /\ OneLeaseHolder'
  BY <1>1, <1>3 DEF TypeOK, ThreadsConsistent, OneLeaseHolder, RequiresAuto
<1>5. UndeliveredMaximum' /\ ResumeIsNotInterrupted'
  BY <1>1, <1>3 DEF TypeOK, UndeliveredMaximum, ResumeIsNotInterrupted, LockFree
<1>6. ConfirmedConsistent'
  BY <1>1, <1>3 DEF TypeOK, ConfirmedConsistent, RequiresAuto, NeedsWatchdog
<1>7. FansAccountedFor' /\ ManualIsWatched'
  BY <1>1, <1>3 DEF TypeOK, FansAccountedFor, ManualIsWatched, LeaseHeld, Leased,
                    RequiresAuto
<1> QED
  BY <1>2, <1>4, <1>5, <1>6, <1>7

\* ClaimRefused and OtherCommand.
LEMMA RespondKeepsIInv ==
  ASSUME IInv, NEW c \in Clients, pc[c] = "reading",
         NEW result \in {"ok", "err"}, Respond(c, result),
         snapshot' \in {snapshot, [snapshot EXCEPT ![c] = "fresh"]},
         UNCHANGED <<daemon, session, owner, fans, hot, helper, faults,
                     confirmed, revoked, excused>>
  PROVE  IInv'
<1> USE DEF IInv
<1>1. TypeOK'
  <2>1. LiveClients' \subseteq LiveClients
    BY DEF Respond, LiveClients, Live, TypeOK
  <2>2. Cardinality(LiveClients') <= MaxControlClients
    BY <2>1, NoNewThread
  <2> QED
    BY <2>2 DEF Respond, TypeOK
<1>2. ThreadsConsistent'
  BY DEF Respond, TypeOK, ThreadsConsistent
<1>3. UndeliveredMaximum'
  BY DEF Respond, TypeOK, UndeliveredMaximum
<1>4. ConfirmedConsistent'
  BY DEF Respond, TypeOK, ConfirmedConsistent
<1>5. OneLeaseHolder' /\ ResumeIsNotInterrupted'
  BY DEF OneLeaseHolder, ResumeIsNotInterrupted
<1>6. FansAccountedFor' /\ ManualIsWatched'
  BY DEF Respond, TypeOK, FansAccountedFor, ManualIsWatched, LeaseHeld, Leased
<1> QED
  BY <1>1, <1>2, <1>3, <1>4, <1>5, <1>6

\* FAN: the claim, what the session gives up, and the write.
LEMMA FanMutationKeepsIInv ==
  ASSUME IInv, NEW c \in Clients, NEW command \in FanCommand,
         FanMutation(c, command)
  PROVE  IInv'
<1> USE DEF IInv
<1>1. /\ pc[c] = "reading" /\ pc' = [pc EXCEPT ![c] = "writing"]
      /\ Claim(c, "no")
      /\ confirmed' = NoClient /\ excused' = FALSE
      /\ UNCHANGED <<daemon, hot, helper>>
      /\ snapshot' \in {snapshot, [snapshot EXCEPT ![c] = "fresh"]}
      /\ reply' \in {[reply EXCEPT ![c] = "ok"], [reply EXCEPT ![c] = "err"]}
  BY DEF FanMutation, Respond, Rediscover
\* A failed command stays leased; a confirmed one has put its mode in force.
<1> DEFINE Settled ==
      /\ fans' \in FanMode /\ faults' \in 0..FaultLimit
      /\ fans' # fans => LockFree
      /\ \/ session' = [session EXCEPT ![c] = "PendingMutation"]
         \/ session' = [session EXCEPT ![c] = "Automatic"] /\ fans' = "Auto"
         \/ session' = [session EXCEPT ![c] = "Manual"]
         \/ /\ session' = [session EXCEPT ![c] = "MaximumAwaitingResponse"]
            /\ fans' = "Maximum" /\ reply' = [reply EXCEPT ![c] = "ok"]
<1>2. Settled
  <2>1. Target(command) \in FanMode
    BY DEF Target, FanCommand, FanMode
  <2>2. CASE UNCHANGED <<fans, faults>>
             /\ session' = [session EXCEPT ![c] = "PendingMutation"]
    BY <2>2 DEF TypeOK
  <2>3. ASSUME LockFree, NEW r \in ApplyOutcomes(Target(command)),
               MaySettle(r), CountFault(r), fans' = r.mode,
               session' = [session EXCEPT ![c] =
                  IF r.ok THEN Confirmed(command) ELSE "PendingMutation"],
               Respond(c, IF r.ok THEN "ok" ELSE "err")
        PROVE  Settled
    BY <2>1, <2>3, OutcomeFacts, FaultsBounded
       DEF Respond, Target, Confirmed, FanCommand, TypeOK
  <2> QED
    BY <2>2, <2>3 DEF FanMutation
<1>3. TypeOK'
  <2>1. LiveClients' \subseteq LiveClients
    BY <1>1 DEF LiveClients, Live, TypeOK
  <2>2. Cardinality(LiveClients') <= MaxControlClients
    BY <2>1, NoNewThread
  <2>3. revoked' \in [Clients -> {"no", "yes", "profile"}]
    BY <1>1 DEF Claim, TypeOK
  <2>4. excused' \in BOOLEAN
    BY <1>1
  <2> QED
    BY <1>1, <1>2, <2>2, <2>3, <2>4 DEF TypeOK, SessionState, Claim
<1>4. ThreadsConsistent'
  BY <1>1, <1>2 DEF TypeOK, ThreadsConsistent, Claim
<1>5. UndeliveredMaximum'
  BY <1>1, <1>2 DEF TypeOK, UndeliveredMaximum, Claim
<1>6. OneLeaseHolder'
  BY <1>1, <1>2 DEF TypeOK, OneLeaseHolder, Claim, RequiresAuto
<1>7. FansAccountedFor' /\ ManualIsWatched'
  BY <1>1, <1>2 DEF TypeOK, FansAccountedFor, ManualIsWatched, Claim, LeaseHeld,
                    Leased, RequiresAuto, NeedsWatchdog
<1>8. ConfirmedConsistent' /\ ResumeIsNotInterrupted'
  BY <1>1, <1>2 DEF ConfirmedConsistent, ResumeIsNotInterrupted, LockFree
<1> QED
  BY <1>3, <1>4, <1>5, <1>6, <1>7, <1>8

\* PROFILE where it does not touch the fans: only the lease moves.
LEMMA ProfileKeepsFansKeepsIInv ==
  ASSUME IInv, NEW c \in Clients, ProfileKeepsFans(c)
  PROVE  IInv'
<1> USE DEF IInv
<1>1. /\ pc[c] = "reading" /\ pc' = [pc EXCEPT ![c] = "writing"]
      /\ owner \in {c, NoClient} /\ owner' = c
      /\ UNCHANGED <<daemon, session, fans, hot, helper, faults, confirmed, excused>>
      /\ snapshot' \in {snapshot, [snapshot EXCEPT ![c] = "fresh"]}
      /\ reply' \in {[reply EXCEPT ![c] = "ok"], [reply EXCEPT ![c] = "err"]}
  BY DEF ProfileKeepsFans, ProfileClaim, MayClaim, SafetyOverride, Respond,
         Rediscover, Claim
\* The claim revokes nobody: the lease was this client's or free.
<1>2. /\ revoked' \in [Clients -> {"no", "yes", "profile"}]
      /\ revoked'[c] # "yes"
      /\ \A d \in Clients \ {c} : revoked'[d] = revoked[d]
  BY <1>1, ConstantsAssumption DEF ProfileKeepsFans, Claim, TypeOK
<1>3. TypeOK'
  <2>1. LiveClients' \subseteq LiveClients
    BY <1>1 DEF LiveClients, Live, TypeOK
  <2>2. Cardinality(LiveClients') <= MaxControlClients
    BY <2>1, NoNewThread
  <2> QED
    BY <1>1, <1>2, <2>2 DEF TypeOK
<1>4. ThreadsConsistent'
  BY <1>1, <1>2 DEF TypeOK, ThreadsConsistent
<1>5. UndeliveredMaximum'
  BY <1>1 DEF TypeOK, UndeliveredMaximum
<1>6. OneLeaseHolder'
  BY <1>1, <1>2, ConstantsAssumption DEF TypeOK, OneLeaseHolder
<1>7. FansAccountedFor' /\ ManualIsWatched'
  BY <1>1, ConstantsAssumption
     DEF TypeOK, FansAccountedFor, ManualIsWatched, LeaseHeld, Leased
<1>8. ConfirmedConsistent' /\ ResumeIsNotInterrupted'
  BY <1>1, <1>2 DEF TypeOK, ConfirmedConsistent, OneLeaseHolder, UndeliveredMaximum,
                    ResumeIsNotInterrupted
<1> QED
  BY <1>3, <1>4, <1>5, <1>6, <1>7, <1>8

\* PROFILE where the firmware returns the fans to Auto.
LEMMA ProfileResetsFansKeepsIInv ==
  ASSUME IInv, NEW c \in Clients, ProfileResetsFans(c)
  PROVE  IInv'
<1> USE DEF IInv
<1>1. /\ pc[c] = "reading" /\ pc' = [pc EXCEPT ![c] = "writing"]
      /\ Claim(c, "no") /\ LockFree
      /\ confirmed' = NoClient /\ excused' = FALSE
      /\ UNCHANGED <<daemon, hot, helper>>
      /\ snapshot' = [snapshot EXCEPT ![c] = "fresh"]
      /\ reply' \in {[reply EXCEPT ![c] = "ok"], [reply EXCEPT ![c] = "err"]}
  BY DEF ProfileResetsFans, ProfileClaim, Respond
<1>2. /\ fans' \in FanMode /\ faults' \in 0..FaultLimit
      /\ \/ session' = [session EXCEPT ![c] = "PendingMutation"]
         \/ session' = [session EXCEPT ![c] = "Automatic"] /\ fans' = "Auto"
  BY OutcomeFacts, FaultsBounded DEF ProfileResetsFans, FanMode, TypeOK
<1>3. TypeOK'
  <2>1. LiveClients' \subseteq LiveClients
    BY <1>1 DEF LiveClients, Live, TypeOK
  <2>2. Cardinality(LiveClients') <= MaxControlClients
    BY <2>1, NoNewThread
  <2>3. revoked' \in [Clients -> {"no", "yes", "profile"}]
    BY <1>1 DEF Claim, TypeOK
  <2>4. excused' \in BOOLEAN
    BY <1>1
  <2> QED
    BY <1>1, <1>2, <2>2, <2>3, <2>4 DEF TypeOK, SessionState, Claim
<1>4. ThreadsConsistent'
  BY <1>1, <1>2 DEF TypeOK, ThreadsConsistent, Claim
<1>5. UndeliveredMaximum'
  BY <1>1, <1>2 DEF TypeOK, UndeliveredMaximum, Claim
<1>6. OneLeaseHolder'
  BY <1>1, <1>2 DEF TypeOK, OneLeaseHolder, Claim, RequiresAuto
<1>7. FansAccountedFor' /\ ManualIsWatched'
  BY <1>1, <1>2 DEF TypeOK, FansAccountedFor, ManualIsWatched, Claim, LeaseHeld,
                    Leased, RequiresAuto, NeedsWatchdog
<1>8. ConfirmedConsistent' /\ ResumeIsNotInterrupted'
  BY <1>1 DEF ConfirmedConsistent, ResumeIsNotInterrupted, LockFree
<1> QED
  BY <1>3, <1>4, <1>5, <1>6, <1>7, <1>8

\* A response that arrives confirms a Maximum.
LEMMA DeliverKeepsIInv ==
  ASSUME IInv, NEW c \in Clients, Deliver(c)
  PROVE  IInv'
<1> USE DEF IInv
<1>1. TypeOK'
  <2>1. LiveClients' \subseteq LiveClients
    BY DEF Deliver, LiveClients, Live, TypeOK
  <2>2. Cardinality(LiveClients') <= MaxControlClients
    BY <2>1, NoNewThread
  <2> QED
    BY <2>2 DEF Deliver, TypeOK
<1>2. ThreadsConsistent'
  BY DEF Deliver, TypeOK, ThreadsConsistent
\* The answer to a Maximum confirms it, unless the fans have left Maximum.
<1>3. UndeliveredMaximum'
  BY ConstantsAssumption DEF Deliver, TypeOK, UndeliveredMaximum
<1>4. ConfirmedConsistent'
  BY DEF Deliver, TypeOK, ConfirmedConsistent, ThreadsConsistent
<1>5. OneLeaseHolder' /\ ResumeIsNotInterrupted'
  BY DEF Deliver, OneLeaseHolder, ResumeIsNotInterrupted
<1>6. FansAccountedFor' /\ ManualIsWatched'
  BY ConstantsAssumption
     DEF Deliver, TypeOK, FansAccountedFor, ManualIsWatched, LeaseHeld, Leased
<1> QED
  BY <1>1, <1>2, <1>3, <1>4, <1>5, <1>6

\* The bookkeeping after the response, if the lease is still this thread's.
LEMMA SettleKeepsIInv ==
  ASSUME IInv, NEW c \in Clients, Settle(c)
  PROVE  IInv'
<1> USE DEF IInv
<1> DEFINE s == IF owner = c /\ reply[c] = "ok"
                  THEN ResponseDelivered(session[c]) ELSE session[c]
<1>1. /\ pc[c] = "written" /\ pc' = [pc EXCEPT ![c] = "top"]
      /\ session' = [session EXCEPT ![c] = s]
      /\ owner' = IF owner = c /\ EndsLease(s) THEN NoClient ELSE owner
      /\ reply' = [reply EXCEPT ![c] = "err"]
      /\ UNCHANGED <<daemon, snapshot, fans, hot, helper, faults, confirmed,
                     revoked, excused>>
  BY DEF Settle
\* Only an undelivered Maximum of the lease holder changes state here.
<1>2. \/ s = session[c]
      \/ /\ s = "PersistentMaximum" /\ session[c] = "MaximumAwaitingResponse"
         /\ owner = c
  BY DEF ResponseDelivered
<1>3. session[c] = "MaximumAwaitingResponse" /\ owner = c => s = "PersistentMaximum"
  BY <1>1 DEF UndeliveredMaximum, ResponseDelivered
<1> HIDE DEF s
<1>4. TypeOK'
  <2>1. LiveClients' \subseteq LiveClients
    BY <1>1 DEF LiveClients, Live, TypeOK
  <2>2. Cardinality(LiveClients') <= MaxControlClients
    BY <2>1, NoNewThread
  <2> QED
    BY <1>1, <1>2, <2>2 DEF TypeOK, SessionState
<1>5. ThreadsConsistent'
  BY <1>1, <1>2, ConstantsAssumption DEF TypeOK, ThreadsConsistent
<1>6. UndeliveredMaximum'
  BY <1>1, <1>2, <1>3, ConstantsAssumption DEF TypeOK, UndeliveredMaximum
<1>7. OneLeaseHolder'
  BY <1>1, <1>2 DEF TypeOK, OneLeaseHolder, EndsLease, RequiresAuto
<1>8. FansAccountedFor'
  BY <1>1, <1>2, <1>3, ConstantsAssumption
     DEF TypeOK, FansAccountedFor, LeaseHeld, Leased, EndsLease, RequiresAuto,
         UndeliveredMaximum, ConfirmedConsistent
<1>9. ManualIsWatched'
  BY <1>1, <1>2, ConstantsAssumption
     DEF TypeOK, ManualIsWatched, Leased, EndsLease, RequiresAuto, NeedsWatchdog
<1>10. ConfirmedConsistent' /\ ResumeIsNotInterrupted'
  BY <1>1, <1>2, <1>3 DEF TypeOK, ConfirmedConsistent, ResumeIsNotInterrupted,
                          EndsLease, RequiresAuto
<1> QED
  BY <1>4, <1>5, <1>6, <1>7, <1>8, <1>9, <1>10

\* The end of a session, with the Auto it owes.
LEMMA CleanupKeepsIInv ==
  ASSUME IInv, NEW c \in Clients, Cleanup(c)
  PROVE  IInv'
<1> USE DEF IInv
<1>1. /\ pc[c] = "closing" /\ pc' = [pc EXCEPT ![c] = "gone"]
      /\ owner' = IF owner = c THEN NoClient ELSE owner
      /\ ForgetLocals({c})
      /\ UNCHANGED <<daemon, hot, helper>>
  BY DEF Cleanup
\* The owner of a leased state returns to Auto, or a resume is about to.
<1>2. /\ fans' \in FanMode /\ faults' \in 0..FaultLimit /\ excused' \in BOOLEAN
      /\ \/ /\ Leased(c) /\ LockFree
            /\ confirmed' = IF fans' = "Maximum" THEN confirmed ELSE NoClient
            /\ excused' = (fans' # "Auto")
         \/ ~(Leased(c) /\ LockFree) /\ UNCHANGED <<fans, confirmed, excused>>
  <2>1. CASE ~(Leased(c) /\ LockFree) /\ UNCHANGED <<fans, faults, confirmed, excused>>
    BY <2>1 DEF TypeOK
  <2>2. ASSUME Leased(c), LockFree, NEW r \in ApplyOutcomes("Auto"),
               MaySettle(r), CountFault(r), FansBecome(r.mode),
               excused' = (r.mode # "Auto")
        PROVE  <1>2
    <3>1. r.mode \in FanMode
      BY OutcomeFacts DEF FanMode
    <3>2. excused' \in BOOLEAN /\ excused' = (fans' # "Auto")
      BY <2>2 DEF FansBecome
    <3> QED
      BY <2>2, <3>1, <3>2, FaultsBounded DEF FansBecome, TypeOK
  <2> QED
    BY <2>1, <2>2 DEF Cleanup
<1>3. TypeOK'
  <2>1. LiveClients' \subseteq LiveClients
    BY <1>1 DEF LiveClients, Live, TypeOK
  <2>2. Cardinality(LiveClients') <= MaxControlClients
    BY <2>1, NoNewThread
  <2> QED
    BY <1>1, <1>2, <2>2 DEF TypeOK, SessionState, ForgetLocals
<1>4. ThreadsConsistent'
  BY <1>1, ConstantsAssumption DEF TypeOK, ThreadsConsistent, ForgetLocals
<1>5. UndeliveredMaximum'
  BY <1>1, <1>2, ConstantsAssumption
     DEF TypeOK, UndeliveredMaximum, ForgetLocals, Leased
<1>6. OneLeaseHolder' /\ ResumeIsNotInterrupted'
  BY <1>1, <1>2 DEF TypeOK, OneLeaseHolder, ForgetLocals, RequiresAuto,
                    ResumeIsNotInterrupted, LockFree
<1>7. FansAccountedFor' /\ ManualIsWatched'
  BY <1>1, <1>2, ConstantsAssumption
     DEF TypeOK, FansAccountedFor, ManualIsWatched, LeaseHeld, Leased, LockFree,
         ForgetLocals, ResumeIsNotInterrupted, ConfirmedConsistent
<1>8. ConfirmedConsistent'
  BY <1>1, <1>2, ConstantsAssumption
     DEF TypeOK, ConfirmedConsistent, ForgetLocals, Leased, RequiresAuto
<1> QED
  BY <1>3, <1>4, <1>5, <1>6, <1>7, <1>8

\* Heat and DriverReload.
LEMMA MachineKeepsIInv ==
  ASSUME IInv, Heat \/ DriverReload
  PROVE  IInv'
<1> USE DEF IInv
<1>1. /\ hot' \in BOOLEAN /\ snapshot' \in [Clients -> {"fresh", "stale"}]
      /\ UNCHANGED <<daemon, pc, session, reply, owner, fans, helper, faults,
                     confirmed, revoked, excused>>
  <2>1. CASE Heat
    BY <2>1 DEF Heat, TypeOK
  <2>2. CASE DriverReload
    BY <2>2 DEF DriverReload, TypeOK
  <2> QED
    BY <2>1, <2>2
<1>2. LiveClients' = LiveClients
  BY <1>1 DEF LiveClients, Live
<1>3. TypeOK'
  BY <1>1, <1>2 DEF TypeOK
<1> QED
  BY <1>1, <1>3
     DEF ThreadsConsistent, UndeliveredMaximum, ConfirmedConsistent,
         OneLeaseHolder, FansAccountedFor, ManualIsWatched,
         ResumeIsNotInterrupted, LeaseHeld, Leased

\* All threads end at once and leave the fans to the failsafe.
LEMMA DaemonStopsKeepsIInv ==
  ASSUME IInv, DaemonStops
  PROVE  IInv'
<1> USE DEF IInv
<1>1. /\ daemon' = "stopping" /\ pc' = [c \in Clients |-> "gone"]
      /\ owner' = NoClient /\ confirmed' = NoClient
      /\ ForgetLocals(Clients) /\ UNCHANGED <<hot, helper, faults, excused>>
      /\ fans' \in FanMode
      /\ fans' # fans => LockFree
  BY DEF DaemonStops, TypeOK
<1>2. TypeOK'
  <2>1. LiveClients' \subseteq LiveClients
    BY <1>1 DEF LiveClients, Live
  <2>2. Cardinality(LiveClients') <= MaxControlClients
    BY <2>1, NoNewThread
  <2> QED
    BY <1>1, <2>2 DEF TypeOK, SessionState, ForgetLocals
<1>3. ThreadsConsistent' /\ UndeliveredMaximum' /\ OneLeaseHolder'
  BY <1>1, ConstantsAssumption
     DEF ThreadsConsistent, UndeliveredMaximum, OneLeaseHolder, ForgetLocals,
         RequiresAuto
<1>4. ConfirmedConsistent' /\ FansAccountedFor' /\ ManualIsWatched'
      /\ ResumeIsNotInterrupted'
  BY <1>1 DEF ConfirmedConsistent, FansAccountedFor, ManualIsWatched,
              ResumeIsNotInterrupted, LockFree
<1> QED
  BY <1>2, <1>3, <1>4

\* The failsafe returns Auto, or is excused.
LEMMA FailsafeAutoKeepsIInv ==
  ASSUME IInv, FailsafeAuto
  PROVE  IInv'
<1> USE DEF IInv
<1>1. /\ daemon = "stopping" /\ daemon' = "down" /\ helper = "idle"
      /\ UNCHANGED <<pc, session, reply, snapshot, owner, hot, helper, revoked>>
      /\ fans' \in FanMode /\ faults' \in 0..FaultLimit
      /\ confirmed' = IF fans' = "Maximum" THEN confirmed ELSE NoClient
      /\ excused' = (fans' # "Auto") /\ excused' \in BOOLEAN
  <2> SUFFICES ASSUME NEW r \in ApplyOutcomes("Auto"), MaySettle(r), CountFault(r),
                      FansBecome(r.mode), excused' = (r.mode # "Auto")
               PROVE  <1>1
    BY DEF FailsafeAuto
  <2>1. r.mode \in FanMode
    BY OutcomeFacts DEF FanMode
  <2>2. excused' = (fans' # "Auto") /\ excused' \in BOOLEAN
    BY DEF FansBecome
  <2>3. faults' \in 0..FaultLimit
    BY FaultsBounded DEF TypeOK
  <2> QED
    BY <2>1, <2>2, <2>3 DEF FailsafeAuto, FansBecome
<1>2. LiveClients' = LiveClients
  BY <1>1 DEF LiveClients, Live
<1>3. TypeOK'
  BY <1>1, <1>2 DEF TypeOK
<1>4. ThreadsConsistent' /\ OneLeaseHolder' /\ ResumeIsNotInterrupted'
  BY <1>1 DEF ThreadsConsistent, OneLeaseHolder, ResumeIsNotInterrupted
<1>5. UndeliveredMaximum'
  BY <1>1 DEF UndeliveredMaximum, ThreadsConsistent
<1>6. ConfirmedConsistent' /\ FansAccountedFor' /\ ManualIsWatched'
  BY <1>1 DEF ConfirmedConsistent, FansAccountedFor, ManualIsWatched
<1> QED
  BY <1>3, <1>4, <1>5, <1>6

\* A restarted daemon has no owner.
LEMMA DaemonStartsKeepsIInv ==
  ASSUME IInv, DaemonStarts
  PROVE  IInv'
<1> USE DEF IInv, DaemonStarts
<1>1. LiveClients' = LiveClients
  BY DEF LiveClients, Live
<1>2. TypeOK'
  BY <1>1 DEF TypeOK
<1> QED
  BY <1>2
     DEF ThreadsConsistent, UndeliveredMaximum, ConfirmedConsistent,
         OneLeaseHolder, FansAccountedFor, ManualIsWatched,
         ResumeIsNotInterrupted, LeaseHeld, Leased

\* ResumeStarts, ResumeLocks, ResumeBusy and ResumeFinishes.
LEMMA HelperMovesKeepsIInv ==
  ASSUME IInv, NEW from \in {"idle", "waiting", "tail"},
         NEW to \in {"idle", "waiting", "holding"}, HelperMoves(from, to)
  PROVE  IInv'
<1> USE DEF IInv, HelperMoves
<1>1. LiveClients' = LiveClients
  BY DEF LiveClients, Live
<1>2. TypeOK'
  BY <1>1 DEF TypeOK
<1> QED
  BY <1>2
     DEF ThreadsConsistent, UndeliveredMaximum, ConfirmedConsistent,
         OneLeaseHolder, FansAccountedFor, ManualIsWatched,
         ResumeIsNotInterrupted, LeaseHeld, Leased

\* The helper of a resume writes Auto, or is killed: with the fans off Auto
\* afterwards, either a watched lease answers for them or the step is excused.
LEMMA ResumeWritesKeepsIInv ==
  ASSUME IInv, ResumeApplies \/ ResumeDies
  PROVE  IInv'
<1> USE DEF IInv
<1>1. /\ UNCHANGED <<daemon, pc, session, reply, snapshot, owner, hot, revoked>>
      /\ fans' \in FanMode /\ faults' \in 0..FaultLimit
      /\ helper' \in {"idle", "tail"}
      /\ helper' = "tail" => fans' = "Auto"
      /\ \/ fans' = fans /\ confirmed' = confirmed
         \/ confirmed' = IF fans' = "Maximum" THEN confirmed ELSE NoClient
      /\ excused' \in BOOLEAN
      /\ excused /\ fans' # "Auto" => excused'
      /\ Unaccounted => excused'
  <2>1. ASSUME NEW r \in ApplyOutcomes("Auto"), MaySettle(r), CountFault(r),
               FansBecome(r.mode), helper' = IF r.ok THEN "tail" ELSE "idle",
               excused' = IF r.mode = "Auto" THEN FALSE ELSE excused \/ Unaccounted,
               UNCHANGED <<daemon, pc, session, reply, snapshot, owner, hot, revoked>>
        PROVE  <1>1
    <3>1. r.mode \in FanMode /\ (r.ok => r.mode = "Auto")
      BY OutcomeFacts DEF FanMode
    <3>2. faults' \in 0..FaultLimit
      BY <2>1, FaultsBounded DEF TypeOK
    <3>3. Unaccounted => fans' # "Auto"
      BY DEF Unaccounted
    <3>4. excused' \in BOOLEAN
      BY <2>1 DEF TypeOK
    <3>5. (excused /\ fans' # "Auto" => excused') /\ (Unaccounted => excused')
      BY <2>1, <3>3 DEF FansBecome
    <3> QED
      BY <2>1, <3>1, <3>2, <3>4, <3>5 DEF FansBecome
  <2>2. CASE ResumeDies
    <3>1. faults' \in 0..FaultLimit
      BY <2>2, ConstantsAssumption DEF ResumeDies, TypeOK
    <3>2. excused' \in BOOLEAN /\ (excused => excused') /\ (Unaccounted => excused')
      BY <2>2 DEF ResumeDies, TypeOK
    <3> QED
      BY <2>2, <3>1, <3>2 DEF ResumeDies, TypeOK
  <2> QED
    BY <2>1, <2>2 DEF ResumeApplies
<1>2. LiveClients' = LiveClients
  BY <1>1 DEF LiveClients, Live
<1>3. TypeOK'
  BY <1>1, <1>2 DEF TypeOK
<1>4. ThreadsConsistent' /\ OneLeaseHolder' /\ ResumeIsNotInterrupted'
  BY <1>1 DEF ThreadsConsistent, OneLeaseHolder, ResumeIsNotInterrupted
<1>5. ConfirmedConsistent'
  BY <1>1 DEF ConfirmedConsistent
<1>6. UndeliveredMaximum'
  BY <1>1 DEF TypeOK, UndeliveredMaximum, Unaccounted, FanMode, NeedsWatchdog, Leased
<1>7. FansAccountedFor' /\ ManualIsWatched'
  BY <1>1 DEF TypeOK, FansAccountedFor, ManualIsWatched, LeaseHeld, Leased,
              Unaccounted, ConfirmedConsistent, RequiresAuto, NeedsWatchdog
<1> QED
  BY <1>3, <1>4, <1>5, <1>6, <1>7

-----------------------------------------------------------------------------
(* The invariant and what follows from it.                                    *)

\* One pass of the loop of serve_client.
LEMMA PollLeaseKeepsIInv ==
  ASSUME IInv, NEW c \in Clients, PollLease(c)
  PROVE  IInv'
<1>1. /\ pc[c] = "top"
      /\ UNCHANGED <<daemon, reply, snapshot, owner, hot, helper, revoked, excused>>
  BY DEF PollLease
<1>2. CASE PollSafe(c)
  BY <1>1, <1>2, PollSafeKeepsIInv
<1>3. CASE PollEmergency(c)
  BY <1>1, <1>3, PollEmergencyKeepsIInv
<1> QED
  BY <1>2, <1>3 DEF PollLease

\* Every step of one client's thread.
LEMMA ClientStepKeepsIInv ==
  ASSUME IInv, NEW c \in Clients, ClientStep(c)
  PROVE  IInv'
<1>1. CASE Connect(c)
  BY <1>1, ConnectKeepsIInv
<1>2. CASE HandshakeAccepted(c) \/ ReadTimeout(c)
  BY <1>2, MoveKeepsIInv DEF HandshakeAccepted, ReadTimeout
<1>3. CASE HandshakeFails(c) \/ Hangup(c) \/ WriteFails(c)
  BY <1>3, MoveKeepsIInv DEF HandshakeFails, Hangup, WriteFails
<1>4. CASE PollLease(c)
  BY <1>4, PollLeaseKeepsIInv
<1>5. CASE OtherCommand(c)
  BY <1>5, RespondKeepsIInv DEF OtherCommand
<1>6. CASE \E command \in FanCommand : FanMutation(c, command)
  BY <1>6, FanMutationKeepsIInv
<1>7. CASE \E command \in FanCommand \cup {"profile"} : ClaimRefused(c, command)
  BY <1>7, RespondKeepsIInv DEF ClaimRefused
<1>8. CASE ProfileKeepsFans(c) \/ ProfileResetsFans(c)
  BY <1>8, ProfileKeepsFansKeepsIInv, ProfileResetsFansKeepsIInv
<1>9. CASE Deliver(c) \/ Settle(c) \/ Cleanup(c)
  BY <1>9, DeliverKeepsIInv, SettleKeepsIInv, CleanupKeepsIInv
<1> QED
  BY <1>1, <1>2, <1>3, <1>4, <1>5, <1>6, <1>7, <1>8, <1>9 DEF ClientStep

\* Every step of --resume.
LEMMA HelperStepKeepsIInv ==
  ASSUME IInv, HelperStep
  PROVE  IInv'
<1>1. CASE ResumeStarts \/ ResumeLocks \/ ResumeBusy \/ ResumeFinishes
  BY <1>1, HelperMovesKeepsIInv
     DEF ResumeStarts, ResumeLocks, ResumeBusy, ResumeFinishes
<1>2. CASE ResumeApplies \/ ResumeDies
  BY <1>2, ResumeWritesKeepsIInv
<1> QED
  BY <1>1, <1>2 DEF HelperStep

\* Nothing happens.
LEMMA StutterKeepsIInv ==
  ASSUME IInv, UNCHANGED vars
  PROVE  IInv'
<1> USE DEF IInv, vars
<1>1. LiveClients' = LiveClients
  BY DEF LiveClients, Live
<1>2. TypeOK'
  BY <1>1 DEF TypeOK
<1> QED
  BY <1>2
     DEF ThreadsConsistent, UndeliveredMaximum, ConfirmedConsistent,
         OneLeaseHolder, FansAccountedFor, ManualIsWatched,
         ResumeIsNotInterrupted, LeaseHeld, Leased

\* The inductive invariant: IInv holds in every state of the fan sessions.
THEOREM InductiveInvariant == Spec => []IInv
<1>1. Init => IInv
  BY InitEstablishesIInv
<1>2. IInv /\ [Next]_vars => IInv'
  <2> SUFFICES ASSUME IInv, [Next]_vars PROVE IInv'
    OBVIOUS
  <2>1. CASE \E c \in Clients : ClientStep(c)
    BY <2>1, ClientStepKeepsIInv
  <2>2. CASE HelperStep
    BY <2>2, HelperStepKeepsIInv
  <2>3. CASE ServiceStep
    BY <2>3, DaemonStopsKeepsIInv, FailsafeAutoKeepsIInv, DaemonStartsKeepsIInv
       DEF ServiceStep
  <2>4. CASE Heat \/ DriverReload
    BY <2>4, MachineKeepsIInv
  <2>5. CASE UNCHANGED vars
    BY <2>5, StutterKeepsIInv
  <2> QED
    BY <2>1, <2>2, <2>3, <2>4, <2>5 DEF Next
<1> QED
  BY <1>1, <1>2, PTL DEF Spec

\* At most MaxControlClients threads, and every variable keeps its type
\* (ClientPermit, FanSessionState, DaemonRuntime).
THEOREM TypesAreKept == Spec => []TypeOK
<1>1. IInv => TypeOK
  BY DEF IInv
<1> QED
  BY <1>1, InductiveInvariant, PTL

\* However many clients race for the fans, at most one un-overridden session
\* answers for them, and it is fan_owner (claim_fan_command).
THEOREM LeaseIsExclusive == Spec => []OneLeaseHolder
<1>1. IInv => OneLeaseHolder
  BY DEF IInv
<1> QED
  BY <1>1, InductiveInvariant, PTL

\* Fans off Auto are answered for by a lease, a confirmed Maximum or a failsafe
\* in progress (serve_client, resume_after_sleep, failsafe_auto).
THEOREM FansAreAccountedFor == Spec => []FansAccountedFor
<1>1. IInv => FansAccountedFor
  BY DEF IInv
<1> QED
  BY <1>1, InductiveInvariant, PTL

\* A fixed setpoint never runs without a watchdog or a cleanup on its way
\* (enforce_thermal_watchdog).
THEOREM ManualFansAreWatched == Spec => []ManualIsWatched
<1>1. IInv => ManualIsWatched
  BY DEF IInv
<1> QED
  BY <1>1, InductiveInvariant, PTL

\* The mutation lock keeps every fan write out of the rest of a resume.
THEOREM ResumeIsExclusive == Spec => []ResumeIsNotInterrupted
<1>1. IInv => ResumeIsNotInterrupted
  BY DEF IInv
<1> QED
  BY <1>1, InductiveInvariant, PTL

-----------------------------------------------------------------------------
(* Disconnects.                                                               *)

\* Only its own Cleanup takes a client from "closing" to "gone" while the
\* daemon stays up.
LEMMA DisconnectIsCleanup ==
  ASSUME IInv, [Next]_vars, NEW c \in Clients,
         pc[c] = "closing", pc'[c] = "gone", daemon' = "up"
  PROVE  Cleanup(c)
<1> USE DEF IInv
<1>1. CASE \E d \in Clients : ClientStep(d)
  <2> PICK d \in Clients : ClientStep(d)
    BY <1>1
  <2>1. d = c
    BY DEF ClientStep, Connect, HandshakeAccepted, HandshakeFails, PollLease,
           PollSafe, PollEmergency, ReadTimeout, Hangup, OtherCommand, FanMutation,
           ClaimRefused, ProfileKeepsFans, ProfileResetsFans, ProfileClaim,
           Deliver, WriteFails, Settle, Cleanup, Move, Respond, TypeOK
  <2> QED
    BY <2>1
       DEF ClientStep, Connect, HandshakeAccepted, HandshakeFails, PollLease,
           ReadTimeout, Hangup, OtherCommand, FanMutation, ClaimRefused,
           ProfileKeepsFans, ProfileResetsFans, ProfileClaim, Deliver,
           WriteFails, Settle, Move
<1>2. CASE HelperStep
  BY <1>2 DEF HelperStep, ResumeStarts, ResumeLocks, ResumeBusy, ResumeApplies,
              ResumeFinishes, ResumeDies, HelperMoves
<1>3. CASE ServiceStep
  BY <1>3 DEF ServiceStep, DaemonStops, FailsafeAuto, DaemonStarts
<1>4. CASE Heat \/ DriverReload \/ UNCHANGED vars
  BY <1>4 DEF Heat, DriverReload, vars
<1> QED
  BY <1>1, <1>2, <1>3, <1>4 DEF Next

\* A client whose lease was overridden leaves the fans and the lease alone when
\* it disconnects ("Its disconnect must not undo that").
THEOREM OverriddenClientsLeaveQuietly == Spec => RevokedLeaseStaysRevoked
<1>1. ASSUME IInv, [Next]_vars, NEW c \in Clients,
             pc[c] = "closing", pc'[c] = "gone", daemon' = "up", revoked[c] = "yes"
      PROVE  fans' = fans /\ owner' = owner
  <2>1. Cleanup(c)
    BY <1>1, DisconnectIsCleanup
  <2>2. owner # c
    BY <1>1 DEF IInv, ThreadsConsistent
  <2> QED
    BY <2>1, <2>2 DEF Cleanup, Leased
<1>2. IInv /\ [Next]_vars =>
        [\A c \in Clients :
           pc[c] = "closing" /\ pc'[c] = "gone" /\ daemon' = "up" /\ revoked[c] = "yes"
             => fans' = fans /\ owner' = owner]_vars
  BY <1>1
<1> QED
  BY <1>2, InductiveInvariant, PTL DEF RevokedLeaseStaysRevoked, Spec

\* The disconnect of the client whose Maximum was acknowledged keeps Maximum
\* (persist_maximum, response_delivered).
THEOREM ConfirmedMaximumPersists == Spec => ConfirmedMaximumOutlivesItsClient
<1>1. ASSUME IInv, [Next]_vars, NEW c \in Clients,
             pc[c] = "closing", pc'[c] = "gone", daemon' = "up", confirmed = c
      PROVE  fans' = "Maximum"
  <2>1. Cleanup(c)
    BY <1>1, DisconnectIsCleanup
  <2>2. fans = "Maximum" /\ ~Leased(c)
    BY <1>1, ConstantsAssumption DEF IInv, ConfirmedConsistent, Leased
  <2> QED
    BY <2>1, <2>2 DEF Cleanup
<1>2. IInv /\ [Next]_vars =>
        [\A c \in Clients :
           pc[c] = "closing" /\ pc'[c] = "gone" /\ daemon' = "up" /\ confirmed = c
             => fans' = "Maximum"]_vars
  BY <1>1
<1> QED
  BY <1>2, InductiveInvariant, PTL DEF ConfirmedMaximumOutlivesItsClient, Spec

=============================================================================
