----------------------- MODULE ConnectionManagerProofs -----------------------
(***************************************************************************)
(* What holds of ConnectionManager however many calls overlap, and then    *)
(* what a patient user may count on besides, for any endpoints and any     *)
(* number of launches.                                                     *)
(***************************************************************************)
EXTENDS ConnectionManager, TLAPS

(* A call on its way to a status knows the target it goes to. *)
CallsHaveTargets ==
  \A c \in Runners :
    Activating(c) \/ (call[c].pc = "stopping" /\ call[c].op \in {"configure", "reconnect"})
      => call[c].target \in AllTargets

(* A process that has exited does nothing any more. *)
ExitedIsStill ==
  quitting.exited => quitting.started /\ \A c \in Runners : ~InFlight(c)

(* While the process lives, the reconnect that others join really runs. *)
PromiseIsKept ==
  ~quitting.exited /\ manager.reconnectPromise # NoCall
    => Reconnecting(manager.reconnectPromise)

Public(t) == t # NoTarget => (t.tls => t.mode = "engine")

(* Certificates are dropped before a target is kept or goes to be saved. *)
TargetsArePublic ==
  /\ Public(manager.target)
  /\ Public(stored)
  /\ \A c \in Runners :
       call[c].pc \in {"saving", "resaving", "deleting"} => Public(call[c].target)

(* The inductive invariant. *)
IInv ==
  /\ TypeOK
  /\ CallsHaveTargets
  /\ ExitedIsStill
  /\ TargetsArePublic
  /\ DetectionIsLive
  /\ ReconnectsCoalesce
  /\ PromiseIsKept

-----------------------------------------------------------------------------
(* The pieces of the manager's methods. *)

(* A status other than detecting, and a target without stray certificates. *)
Settled(m) ==
  /\ m \in ManagerType
  /\ m.reconnectPromise = manager.reconnectPromise
  /\ m.status.mode # "detecting"
  /\ Public(m.target)

(* c goes on to its next await, and may show that it is detecting. *)
Advance(c) ==
  \E m \in ManagerType, t \in AllTargets, pc \in {"probing", "starting", "closingOffline"} :
    /\ Await(c, m, t, pc)
    /\ m.reconnectPromise = manager.reconnectPromise
    /\ Public(m.target)

(* c leaves the manager in a status that stands. *)
Conclude(c) ==
  \E m \in ManagerType, t \in Targets, pc \in {"saving", "deleting", "answered"} :
    /\ Leave(c, m, pc, t)
    /\ Settled(m)
    /\ Public(t)

(* publicTarget() yields a target that may be kept. *)
LEMMA PublicTargetIs ==
  ASSUME NEW t \in AllTargets
  PROVE  publicTarget(t) \in AllTargets /\ Public(publicTarget(t))
BY DEF publicTarget, AllTargets, Public, Modes

(* No target of the code is the absence of one. *)
LEMMA NoTargetIsNone == \A t \in AllTargets : t # NoTarget
BY NoTargetAssumption

(* The three ways to a status settle it. *)
LEMMA PiecesSettle ==
  ASSUME NEW m \in ManagerType, m.reconnectPromise = manager.reconnectPromise,
         NEW t \in AllTargets, NEW c \in Runners
  PROVE  /\ Settled(setUnavailable(m, t))
         /\ Settled(activateExternalGateway(m, t))
         /\ Settled(engineActivated(m, t, c))
<1>1. /\ t.endpoint \in Endpoints
      /\ [t EXCEPT !.mode = "gateway"] \in AllTargets
      /\ [t EXCEPT !.mode = "engine"] \in AllTargets
  BY DEF AllTargets, Modes
<1>2. Settled(setUnavailable(m, t))
  BY <1>1, PublicTargetIs DEF Settled, setUnavailable, ManagerType, Targets
<1>3. Settled(activateExternalGateway(m, t))
  BY <1>1, PublicTargetIs DEF Settled, activateExternalGateway, ManagerType, Targets
<1>4. Settled(engineActivated(m, t, c))
  BY <1>1, PublicTargetIs DEF Settled, engineActivated, ManagerType, Targets
<1> QED
  BY <1>2, <1>3, <1>4

(* A method that returns with a settled status concludes its call. *)
LEMMA ReturnConcludes ==
  ASSUME NEW c \in Runners, NEW m, Settled(m), Return(c, m)
  PROVE  Conclude(c)
<1>1. m \in ManagerType /\ m.target \in Targets /\ Public(m.target)
  BY DEF Settled, ManagerType
<1>2. NoTarget \in Targets /\ Public(NoTarget)
  BY DEF Targets, Public
<1>3. CASE call[c].op = "configure"
  BY <1>1, <1>3 DEF Return, Conclude
<1>4. CASE call[c].op # "configure"
  BY <1>1, <1>2, <1>4 DEF Return, Conclude
<1> QED
  BY <1>3, <1>4

LEMMA ActivateEngineGoesOn ==
  ASSUME NEW c \in Runners, NEW m \in ManagerType, Public(m.target),
         m.reconnectPromise = manager.reconnectPromise, NEW t \in AllTargets,
         ActivateEngine(c, m, t)
  PROVE  Advance(c) \/ Conclude(c)
<1>1. CASE EngineTransport(t)
  BY <1>1 DEF ActivateEngine, Advance
<1>2. CASE ~EngineTransport(t)
  BY <1>2, PiecesSettle, ReturnConcludes DEF ActivateEngine
<1> QED
  BY <1>1, <1>2

LEMMA ConnectGoesOn ==
  ASSUME NEW c \in Runners, NEW m \in ManagerType, Public(m.target),
         m.reconnectPromise = manager.reconnectPromise, NEW t \in AllTargets,
         Connect(c, m, t)
  PROVE  Advance(c) \/ Conclude(c)
<1>1. CASE Probes(t)
  BY <1>1 DEF Connect, Advance
<1>2. CASE ~Probes(t)
  BY <1>2, ActivateEngineGoesOn DEF Connect
<1> QED
  BY <1>1, <1>2

-----------------------------------------------------------------------------
(* What each step is for the calls: it advances one, concludes one, or is    *)
(* one of the few others.                                                    *)

(* c runs a method of the manager. *)
InManager(c) ==
  c = Boot \/ call[c].pc \in {"stopping", "probing", "starting", "closingOffline"}

LEMMA StoppedGoesOn ==
  ASSUME TypeOK, CallsHaveTargets, TargetsArePublic, NEW c \in Runners, Stopped(c)
  PROVE  Advance(c) \/ Conclude(c)
<1> DEFINE t == call[c].target
<1>1. CASE call[c].op = "reconnect"
  <2> DEFINE m == [manager EXCEPT !.status = Detecting(t)]
  <2>1. t \in AllTargets /\ t.endpoint \in Endpoints
    BY <1>1 DEF Stopped, CallsHaveTargets, AllTargets
  <2>2. m \in ManagerType /\ m.reconnectPromise = manager.reconnectPromise /\ Public(m.target)
    BY <2>1 DEF TypeOK, ManagerType, Detecting, TargetsArePublic
  <2>3. Connect(c, m, t)
    BY <1>1 DEF Stopped
  <2> QED
    BY <2>1, <2>2, <2>3, ConnectGoesOn
<1>2. CASE call[c].op = "configure"
  <2> DEFINE m == [manager EXCEPT !.status = Detecting(t), !.target = NoTarget]
  <2>1. t \in AllTargets /\ t.endpoint \in Endpoints
    BY <1>2 DEF Stopped, CallsHaveTargets, AllTargets
  <2>2. m \in ManagerType /\ m.reconnectPromise = manager.reconnectPromise /\ Public(m.target)
    BY <2>1 DEF TypeOK, ManagerType, Detecting, Targets, Public
  <2>3. Connect(c, m, t)
    BY <1>2 DEF Stopped
  <2> QED
    BY <2>1, <2>2, <2>3, ConnectGoesOn
<1>3. CASE call[c].op \notin {"reconnect", "configure"}
  <2> DEFINE m == [manager EXCEPT !.status = Unconfigured, !.target = NoTarget]
  <2>1. Settled(m) /\ Public(NoTarget) /\ NoTarget \in Targets
    BY DEF TypeOK, ManagerType, Settled, Unconfigured, Targets, Public
  <2>2. Leave(c, m, "deleting", NoTarget)
    BY <1>3 DEF Stopped
  <2> QED
    BY <2>1, <2>2 DEF Conclude, Settled
<1> QED
  BY <1>1, <1>2, <1>3

LEMMA ProbeGoesOn ==
  ASSUME TypeOK, CallsHaveTargets, TargetsArePublic, NEW c \in Runners,
         NEW isGateway \in BOOLEAN, ProbeAnswers(c, isGateway)
  PROVE  Advance(c) \/ Conclude(c)
<1>1. call[c].target \in AllTargets /\ manager \in ManagerType /\ Public(manager.target)
  BY DEF ProbeAnswers, CallsHaveTargets, Activating, TypeOK, TargetsArePublic
<1> QED
  BY <1>1, PiecesSettle, ReturnConcludes, ActivateEngineGoesOn DEF ProbeAnswers

LEMMA StartGoesOn ==
  ASSUME TypeOK, CallsHaveTargets, TargetsArePublic, NEW c \in Runners,
         NEW engineOnline \in BOOLEAN, StartAnswers(c, engineOnline)
  PROVE  Advance(c) \/ Conclude(c)
<1>1. call[c].target \in AllTargets /\ manager \in ManagerType /\ Public(manager.target)
  BY DEF StartAnswers, CallsHaveTargets, Activating, TypeOK, TargetsArePublic
<1>2. CASE engineOnline
  BY <1>1, <1>2, PiecesSettle, ReturnConcludes DEF StartAnswers
<1>3. CASE ~engineOnline
  BY <1>1, <1>3 DEF StartAnswers, Advance
<1> QED
  BY <1>2, <1>3

LEMMA FailedStartConcludes ==
  ASSUME TypeOK, CallsHaveTargets, NEW c \in Runners, StartFails(c) \/ OfflineClosed(c)
  PROVE  Conclude(c)
<1>1. call[c].target \in AllTargets /\ manager \in ManagerType
  BY DEF StartFails, OfflineClosed, CallsHaveTargets, Activating, TypeOK
<1> QED
  BY <1>1, PiecesSettle, ReturnConcludes DEF StartFails, OfflineClosed

LEMMA InitializeGoesOn ==
  ASSUME TypeOK, TargetsArePublic, Initialize
  PROVE  Advance(Boot) \/ Conclude(Boot) \/
         (manager' = manager /\ call' = [call EXCEPT ![Boot].pc = "answered"])
<1> DEFINE t == IF manager.target # NoTarget THEN manager.target ELSE Seed
<1>1. CASE t = NoTarget
  BY <1>1 DEF Initialize
<1>2. CASE t # NoTarget
  <2>1. t \in AllTargets /\ manager \in ManagerType /\ Public(manager.target)
    BY <1>2, SeedAssumption DEF TypeOK, ManagerType, Targets, TargetsArePublic
  <2>2. Connect(Boot, manager, t) /\ Boot \in Runners
    BY <1>2 DEF Initialize, Runners
  <2> QED
    BY <2>1, <2>2, ConnectGoesOn
<1> QED
  BY <1>1, <1>2

-----------------------------------------------------------------------------
(* What advancing, concluding and leaving do to each part of the invariant.  *)

LEMMA AdvanceTypes ==
  ASSUME TypeOK, NEW c \in Runners, Advance(c)
  PROVE  manager' \in ManagerType /\ call' \in [Runners -> CallType]
<1> PICK m \in ManagerType, t \in AllTargets,
         pc \in {"probing", "starting", "closingOffline"} : Await(c, m, t, pc)
  BY DEF Advance
<1> DEFINE next == [call[c] EXCEPT !.pc = pc, !.target = t, !.closing = NoCall]
<1>1. next \in CallType
  <2>1. call[c] \in CallType /\ t \in Targets
    BY DEF TypeOK, Targets
  <2> QED
    BY ONLY <2>1, pc \in {"probing", "starting", "closingOffline"} DEF CallType
<1>2. manager' = m /\ call' = [call EXCEPT ![c] = next]
  BY DEF Await
<1> QED
  BY <1>1, <1>2 DEF TypeOK

LEMMA LeaveTypes ==
  ASSUME TypeOK, NEW c \in Runners, NEW m \in ManagerType, NEW t \in Targets,
         NEW pc \in {"saving", "resaving", "deleting", "answered", "rejected"},
         Leave(c, m, pc, t)
  PROVE  manager' \in ManagerType /\ call' \in [Runners -> CallType]
<1>1. manager' \in ManagerType
  BY DEF Leave, ManagerType
<1>2. [At(pc) EXCEPT !.target = t] \in CallType /\ At(pc) \in CallType
  BY DEF At, CallType, Targets
<1> QED
  BY <1>1, <1>2 DEF Leave, TypeOK

LEMMA ConcludeTypes ==
  ASSUME TypeOK, NEW c \in Runners, Conclude(c)
  PROVE  manager' \in ManagerType /\ call' \in [Runners -> CallType]
BY LeaveTypes DEF Conclude

LEMMA StopTypes ==
  ASSUME TypeOK, NEW c \in Calls, NEW op \in {"configure", "clear", "reconnect"},
         NEW t \in Targets, Stop(c, op, t)
  PROVE  /\ manager' \in ManagerType
         /\ call' \in [Runners -> CallType]
         /\ wrapper' \in [Runners -> {"none", "running", "closing", "broken"}]
<1>1. c \in Runners
  BY DEF Runners
<1>2. manager' \in ManagerType
  BY DEF Stop, TypeOK, ManagerType
<1>3. call' \in [Runners -> CallType]
  BY <1>1 DEF Stop, TypeOK, ManagerType, CallType
<1>4. wrapper' \in [Runners -> {"none", "running", "closing", "broken"}]
  BY DEF Stop, TypeOK
<1> QED
  BY <1>2, <1>3, <1>4

(* A call is submitted that stops the wrapper first. *)
Begin(c) ==
  /\ MayCall(c)
  /\ UNCHANGED <<stored, quitting>>
  /\ \E t \in Targets :
       \/ Stop(c, "clear", t)
       \/ t \in AllTargets /\ Stop(c, "configure", t)
       \/ t \in AllTargets /\ Stop(c, "reconnect", t) /\ manager.reconnectPromise = NoCall

(* A reconnect joins another one or finds nothing to do. *)
JoinOrSkip(c) ==
  /\ MayCall(c)
  /\ UNCHANGED <<manager, stored, quitting>>
  /\ \/ /\ manager.reconnectPromise # NoCall
        /\ call' = [call EXCEPT ![c].pc = "joined", ![c].op = "reconnect"]
     \/ call' = [call EXCEPT ![c] = At("answered")]

(* The kinds of steps, apart from wrappers and launches. *)
LEMMA Steps ==
  ASSUME IInv, [Next]_vars
  PROVE  \/ \E c \in Runners : /\ InManager(c)
                               /\ Advance(c) \/ Conclude(c)
                               /\ UNCHANGED <<stored, quitting>>
         \/ /\ Initialize
            /\ call' = [call EXCEPT ![Boot].pc = "answered"]
            /\ UNCHANGED <<manager, stored, quitting>>
         \/ \E c \in Calls : Begin(c) \/ ConfigureInvalid(c) \/ JoinOrSkip(c) \/ StopFails(c)
         \/ \E c \in Runners : ~quitting.exited /\ (Saved(c) \/ SaveFails(c))
         \/ Quit \/ ProcessEnds \/ Launch
         \/ UNCHANGED <<manager, call, stored, quitting>>
<1> USE DEF IInv
<1>1. CASE Initialize
  <2>1. Boot \in Runners /\ InManager(Boot)
    BY DEF Runners, InManager
  <2> QED
    BY <1>1, <2>1, InitializeGoesOn DEF Initialize
<1>2. ASSUME NEW c \in Calls, Configure(c) PROVE Begin(c)
  <2>1. Inputs \subseteq AllTargets /\ AllTargets \subseteq Targets
    BY DEF Inputs, Targets
  <2> QED
    BY <1>2, <2>1 DEF Configure, Begin
<1>3. ASSUME NEW c \in Calls, Clear(c) PROVE Begin(c)
  BY <1>3 DEF Clear, Begin, Targets
<1>4. ASSUME NEW c \in Calls, Reconnect(c) PROVE Begin(c) \/ JoinOrSkip(c)
  <2>1. CASE manager.reconnectPromise # NoCall
    BY <1>4, <2>1 DEF Reconnect, JoinOrSkip
  <2>2. CASE manager.reconnectPromise = NoCall /\ manager.target = NoTarget
    BY <1>4, <2>2 DEF Reconnect, JoinOrSkip
  <2>3. CASE manager.reconnectPromise = NoCall /\ manager.target # NoTarget
    <3>1. manager.target \in AllTargets
      BY <2>3 DEF TypeOK, ManagerType, Targets
    <3> QED
      BY <1>4, <2>3, <3>1 DEF Reconnect, Begin, Targets
  <2> QED
    BY <2>1, <2>2, <2>3
<1>5. ASSUME NEW c \in Runners, CallStep(c), ~quitting.exited
      PROVE  \/ /\ InManager(c)
                /\ Advance(c) \/ Conclude(c)
                /\ UNCHANGED <<stored, quitting>>
             \/ Saved(c) \/ SaveFails(c)
  <2>1. CASE Stopped(c)
    BY <2>1, StoppedGoesOn DEF Stopped, InManager
  <2>2. ASSUME NEW isGateway \in BOOLEAN, ProbeAnswers(c, isGateway)
        PROVE  InManager(c) /\ (Advance(c) \/ Conclude(c)) /\ UNCHANGED <<stored, quitting>>
    BY <2>2, ProbeGoesOn DEF ProbeAnswers, InManager
  <2>3. ASSUME NEW engineOnline \in BOOLEAN, StartAnswers(c, engineOnline)
        PROVE  InManager(c) /\ (Advance(c) \/ Conclude(c)) /\ UNCHANGED <<stored, quitting>>
    BY <2>3, StartGoesOn DEF StartAnswers, InManager
  <2>4. CASE StartFails(c) \/ OfflineClosed(c)
    BY <2>4, FailedStartConcludes DEF StartFails, OfflineClosed, InManager
  <2> QED
    BY <1>5, <2>1, <2>2, <2>3, <2>4 DEF CallStep
<1>6. CASE UNCHANGED vars
  BY <1>6 DEF vars
<1> QED
  BY <1>1, <1>2, <1>3, <1>4, <1>5, <1>6 DEF Next, QuitCloses, Crash

-----------------------------------------------------------------------------
(* Types are preserved, one step per action. *)
LEMMA TypeOKStep ==
  ASSUME IInv, [Next]_vars
  PROVE  TypeOK'
<1> USE DEF IInv
<1>0. Boot \in Runners /\ Calls \subseteq Runners /\ Inputs \subseteq Targets
  BY DEF Runners, Inputs, Targets
<1>1. CASE Initialize
  <2>1. [call EXCEPT ![Boot].pc = "answered"] \in [Runners -> CallType]
    BY <1>0 DEF TypeOK, CallType
  <2>2. manager' \in ManagerType /\ call' \in [Runners -> CallType]
    BY <1>0, <1>1, <2>1, InitializeGoesOn, AdvanceTypes, ConcludeTypes DEF TypeOK
  <2> QED
    BY <1>1, <2>2 DEF Initialize, TypeOK
<1>2. ASSUME NEW c \in Calls, Configure(c) PROVE TypeOK'
  BY <1>0, <1>2, StopTypes DEF Configure, TypeOK
<1>3. ASSUME NEW c \in Calls, Clear(c) PROVE TypeOK'
  BY <1>3, StopTypes DEF Clear, TypeOK, Targets
<1>4. ASSUME NEW c \in Calls, Reconnect(c) PROVE TypeOK'
  <2>1. [call EXCEPT ![c].pc = "joined", ![c].op = "reconnect"] \in [Runners -> CallType]
    BY <1>0 DEF TypeOK, CallType
  <2>2. [call EXCEPT ![c] = At("answered")] \in [Runners -> CallType]
    BY <1>0 DEF TypeOK, CallType, At, Targets
  <2>3. manager.target \in Targets
    BY DEF TypeOK, ManagerType
  <2> QED
    BY <1>4, <2>1, <2>2, <2>3, StopTypes DEF Reconnect, TypeOK
<1>5. ASSUME NEW c \in Calls, ConfigureInvalid(c) PROVE TypeOK'
  <2>1. [At("resaving") EXCEPT !.target = manager.target] \in CallType
    BY DEF At, CallType, TypeOK, ManagerType
  <2> QED
    BY <1>5, <2>1 DEF ConfigureInvalid, TypeOK
<1>6. ASSUME NEW c \in Calls, StopFails(c) PROVE TypeOK'
  <2>1. manager \in ManagerType /\ manager.target \in Targets /\ NoTarget \in Targets
    BY DEF TypeOK, ManagerType, Targets
  <2>2. manager' \in ManagerType /\ call' \in [Runners -> CallType]
    BY <1>0, <1>6, <2>1, LeaveTypes DEF StopFails
  <2> QED
    BY <1>6, <2>2 DEF StopFails, TypeOK
<1>7. ASSUME NEW c \in Runners, Stopped(c) PROVE TypeOK'
  BY <1>7, StoppedGoesOn, AdvanceTypes, ConcludeTypes DEF Stopped, TypeOK
<1>8. ASSUME NEW c \in Runners, NEW isGateway \in BOOLEAN, ProbeAnswers(c, isGateway)
      PROVE  TypeOK'
  BY <1>8, ProbeGoesOn, AdvanceTypes, ConcludeTypes DEF ProbeAnswers, TypeOK
<1>9. ASSUME NEW c \in Runners, NEW engineOnline \in BOOLEAN, StartAnswers(c, engineOnline)
      PROVE  TypeOK'
  <2>1. manager' \in ManagerType /\ call' \in [Runners -> CallType]
    BY <1>9, StartGoesOn, AdvanceTypes, ConcludeTypes
  <2> QED
    BY <1>9, <2>1 DEF StartAnswers, TypeOK
<1>10. ASSUME NEW c \in Runners, StartFails(c) \/ OfflineClosed(c) PROVE TypeOK'
  <2>1. manager' \in ManagerType /\ call' \in [Runners -> CallType]
    BY <1>10, FailedStartConcludes, ConcludeTypes
  <2> QED
    BY <1>10, <2>1 DEF StartFails, OfflineClosed, TypeOK
<1>11. ASSUME NEW c \in Runners, Saved(c) \/ SaveFails(c) PROVE TypeOK'
  <2>1. /\ At("rejected") \in CallType /\ At("answered") \in CallType
        /\ [At("resaving") EXCEPT !.target = manager.target] \in CallType
        /\ call[c].target \in Targets
    BY DEF At, CallType, TypeOK, ManagerType, Targets
  <2>2. call' \in [Runners -> CallType] /\ stored' \in Targets
    BY <1>11, <2>1 DEF Saved, SaveFails, TypeOK
  <2> QED
    BY <1>11, <2>2 DEF Saved, SaveFails, TypeOK
<1>12. CASE Quit
  BY <1>12 DEF Quit, TypeOK, ManagerType
<1>13. CASE ProcessEnds
  <2>1. At("lost") \in CallType
    BY DEF At, CallType, Targets
  <2> QED
    BY <1>13, <2>1 DEF ProcessEnds, TypeOK
<1>14. CASE Launch
  <2>1. NewManager(stored) \in ManagerType
    BY DEF NewManager, ManagerType, TypeOK, Unconfigured, Targets
  <2>2. Idle \in CallType
    BY DEF Idle, At, CallType, Targets
  <2>3. launches' \in 1 .. MaxLaunches
    BY <1>14, LaunchAssumption DEF Launch, TypeOK
  <2> QED
    BY <1>0, <1>14, <2>1, <2>2, <2>3 DEF Launch, Launched, TypeOK
<1>15. CASE UNCHANGED vars
  BY <1>15 DEF vars, TypeOK
<1> QED
  BY <1>1, <1>2, <1>3, <1>4, <1>5, <1>6, <1>7, <1>8, <1>9, <1>10, <1>11, <1>12, <1>13,
     <1>14, <1>15
  DEF Next, CallStep, QuitCloses, Crash

-----------------------------------------------------------------------------
(* What advancing, leaving and beginning do to the calls and the manager. *)

LEMMA AdvanceCalls ==
  ASSUME TypeOK, NEW c \in Runners, Advance(c)
  PROVE  /\ call'[c].pc \in {"probing", "starting", "closingOffline"}
         /\ call'[c].target \in AllTargets
         /\ call'[c].op = call[c].op
         /\ \A d \in Runners : d # c => call'[d] = call[d]
         /\ manager'.reconnectPromise = manager.reconnectPromise
         /\ Public(manager'.target)
<1> PICK m \in ManagerType, t \in AllTargets,
         pc \in {"probing", "starting", "closingOffline"} :
           /\ Await(c, m, t, pc)
           /\ m.reconnectPromise = manager.reconnectPromise
           /\ Public(m.target)
  BY DEF Advance
<1>1. call[c] \in CallType /\ c \in DOMAIN call
  BY DEF TypeOK
<1>2. call' = [call EXCEPT ![c].pc = pc, ![c].target = t, ![c].closing = NoCall]
  BY DEF Await
<1>3. call'[c].pc = pc /\ call'[c].target = t /\ call'[c].op = call[c].op
  BY <1>1, <1>2 DEF CallType
<1> QED
  BY <1>2, <1>3 DEF Await, TypeOK

LEMMA LeaveCalls ==
  ASSUME NEW c \in Runners, NEW m \in ManagerType, NEW pc, NEW t, Leave(c, m, pc, t)
  PROVE  /\ call'[c].pc = pc /\ call'[c].target = t /\ call'[c].op = "none"
         /\ \A d \in Runners :
              d # c /\ (call[d].pc # "joined" \/ m.reconnectPromise # c)
                => call'[d] = call[d]
         /\ \A d \in Runners :
              d # c /\ call[d].pc = "joined" /\ m.reconnectPromise = c => call'[d].pc = pc
         /\ \A d \in Runners :
              call'[d] # call[d] => call'[d].pc = pc /\ call'[d].target \in {t, NoTarget}
         /\ manager'.reconnectPromise = IF m.reconnectPromise = c THEN NoCall
                                        ELSE m.reconnectPromise
         /\ manager'.target = m.target
         /\ manager'.status = m.status
<1>1. call'[c] = [At(pc) EXCEPT !.target = t]
  BY DEF Leave
<1>2. call'[c].pc = pc /\ call'[c].target = t /\ call'[c].op = "none"
  BY <1>1 DEF At
<1>3. \A d \in Runners : d # c =>
        call'[d] = IF m.reconnectPromise = c /\ call[d].pc = "joined" THEN At(pc) ELSE call[d]
  BY DEF Leave
<1>4. At(pc).pc = pc /\ At(pc).target = NoTarget
  BY DEF At
<1>5. \A d \in Runners :
              call'[d] # call[d] => call'[d].pc = pc /\ call'[d].target \in {t, NoTarget}
  BY <1>2, <1>3, <1>4
<1>6. \A d \in Runners :
        /\ d # c /\ (call[d].pc # "joined" \/ m.reconnectPromise # c)
             => call'[d] = call[d]
        /\ d # c /\ call[d].pc = "joined" /\ m.reconnectPromise = c => call'[d].pc = pc
  BY <1>3, <1>4
<1>7. /\ manager'.reconnectPromise = IF m.reconnectPromise = c THEN NoCall
                                     ELSE m.reconnectPromise
      /\ manager'.target = m.target
      /\ manager'.status = m.status
  BY DEF Leave, ManagerType
<1> QED
  BY <1>2, <1>5, <1>6, <1>7

LEMMA StopCalls ==
  ASSUME TypeOK, NEW c \in Calls, NEW op, NEW t, Stop(c, op, t)
  PROVE  /\ call'[c].pc = "stopping" /\ call'[c].target = t /\ call'[c].op = op
         /\ \A d \in Runners : d # c => call'[d] = call[d]
         /\ manager'.reconnectPromise = IF op = "reconnect" THEN c
                                        ELSE manager.reconnectPromise
         /\ manager'.target = manager.target
         /\ manager'.status = manager.status
BY DEF Stop, TypeOK, ManagerType, Runners

-----------------------------------------------------------------------------
(* Every call that goes to a status keeps its target. *)
LEMMA CallsHaveTargetsStep ==
  ASSUME IInv, [Next]_vars
  PROVE  CallsHaveTargets'
<1> USE DEF IInv, CallsHaveTargets, Activating
<1>0. Boot \in Runners /\ Calls \subseteq Runners
  BY DEF Runners
<1>1. ASSUME NEW c \in Runners, Advance(c) PROVE CallsHaveTargets'
  BY <1>1, AdvanceCalls
<1>2. ASSUME NEW c \in Runners, NEW m \in ManagerType, NEW t,
             NEW pc \in {"saving", "resaving", "deleting", "answered", "rejected"},
             Leave(c, m, pc, t)
      PROVE  CallsHaveTargets'
  <2>1. \A d \in Runners : call'[d] = call[d] \/ call'[d].pc = pc
    BY <1>2, LeaveCalls
  <2> QED
    BY <2>1
<1>3. ASSUME NEW c \in Runners, Conclude(c) PROVE CallsHaveTargets'
  BY <1>2, <1>3 DEF Conclude
<1>4. CASE call' = [call EXCEPT ![Boot].pc = "answered"]
  BY <1>0, <1>4 DEF TypeOK, CallType
<1>5. ASSUME NEW c \in Calls, Begin(c) PROVE CallsHaveTargets'
  BY <1>5, StopCalls DEF Begin
<1>6. ASSUME NEW c \in Calls, ConfigureInvalid(c) PROVE CallsHaveTargets'
  BY <1>0, <1>6 DEF ConfigureInvalid, At, TypeOK
<1>7. ASSUME NEW c \in Calls, JoinOrSkip(c) PROVE CallsHaveTargets'
  BY <1>0, <1>7 DEF JoinOrSkip, At, TypeOK, CallType
<1>8. ASSUME NEW c \in Calls, StopFails(c) PROVE CallsHaveTargets'
  BY <1>0, <1>2, <1>8 DEF StopFails, TypeOK
<1>9. ASSUME NEW c \in Runners, Saved(c) \/ SaveFails(c) PROVE CallsHaveTargets'
  BY <1>9 DEF Saved, SaveFails, At, TypeOK
<1>10. CASE Quit
  BY <1>10 DEF Quit
<1>11. CASE ProcessEnds
  BY <1>11 DEF ProcessEnds, At
<1>12. CASE Launch
  BY <1>0, <1>12 DEF Launch, Idle, At, TypeOK
<1>13. CASE UNCHANGED <<manager, call, stored, quitting>>
  BY <1>13
<1> QED
  BY <1>1, <1>3, <1>4, <1>5, <1>6, <1>7, <1>8, <1>9, <1>10, <1>11, <1>12, <1>13, Steps

(* Nothing stirs once the process has exited. *)
LEMMA ExitedIsStillStep ==
  ASSUME IInv, [Next]_vars
  PROVE  ExitedIsStill'
<1> USE DEF IInv, ExitedIsStill, InFlight
<1>0. Boot \in Runners /\ Calls \subseteq Runners
  BY DEF Runners
<1>1. CASE quitting' = quitting /\ ~quitting.exited
  BY <1>1
<1>2. CASE quitting' = quitting /\ quitting.exited
  <2>1. \A c \in Runners : call'[c].pc \in {"idle", "answered", "rejected", "lost"}
    <3>1. \A c \in Runners : call[c].pc \in {"idle", "answered", "rejected", "lost"}
      BY <1>2
    <3>2. CASE call' = call
      BY <3>1, <3>2
    <3>3. CASE Initialize
      BY <1>2, <3>3 DEF Initialize
    <3>4. ASSUME NEW c \in Calls,
                 Configure(c) \/ ConfigureInvalid(c) \/ Clear(c) \/ Reconnect(c)
          PROVE  FALSE
      BY <1>2, <3>4 DEF Configure, ConfigureInvalid, Clear, Reconnect, MayCall
    <3>5. ASSUME NEW c \in Calls, StopFails(c) PROVE FALSE
      BY <1>0, <3>1, <3>5 DEF StopFails
    <3>6. CASE Quit \/ ProcessEnds \/ Launch
      BY <1>2, <3>6 DEF Quit, ProcessEnds, Launch, Launched
    <3>7. CASE UNCHANGED vars
      BY <3>1, <3>7 DEF vars
    <3> QED
      BY <1>2, <3>2, <3>3, <3>4, <3>5, <3>6, <3>7 DEF Next, QuitCloses, Crash
  <2> QED
    BY <1>2, <2>1
<1>3. CASE Quit
  BY <1>3 DEF Quit
<1>4. CASE ProcessEnds
  BY <1>4 DEF ProcessEnds, At
<1>5. CASE Launch
  BY <1>5 DEF Launch, Launched
<1>6. quitting' = quitting \/ Quit \/ ProcessEnds \/ Launch
  BY Steps DEF Begin, ConfigureInvalid, JoinOrSkip, StopFails, Saved, SaveFails
<1> QED
  BY <1>1, <1>2, <1>3, <1>4, <1>5, <1>6

(* No step keeps certificates for anything but an Engine. *)
LEMMA TargetsArePublicStep ==
  ASSUME IInv, [Next]_vars
  PROVE  TargetsArePublic'
<1> USE DEF IInv, TargetsArePublic
<1>0. /\ Boot \in Runners /\ Calls \subseteq Runners
      /\ Public(NoTarget)
  BY DEF Runners, Public
<1>a. ASSUME Public(manager'.target), Public(stored'),
             \A d \in Runners : call'[d].pc \in {"saving", "resaving", "deleting"}
                                => Public(call'[d].target)
      PROVE  TargetsArePublic'
  BY <1>a DEF Public
<1>1. ASSUME NEW c \in Runners, Advance(c), stored' = stored PROVE TargetsArePublic'
  BY <1>a, <1>1, AdvanceCalls
<1>2. ASSUME NEW c \in Runners, NEW m \in ManagerType, NEW t, NEW pc,
             Leave(c, m, pc, t), Public(m.target), Public(t), stored' = stored
      PROVE  TargetsArePublic'
  <2>1. \A d \in Runners : call'[d] = call[d] \/ Public(call'[d].target)
    BY <1>0, <1>2, LeaveCalls
  <2> QED
    BY <1>a, <1>2, <2>1, LeaveCalls
<1>3. ASSUME NEW c \in Runners, Conclude(c), stored' = stored PROVE TargetsArePublic'
  BY <1>2, <1>3 DEF Conclude, Settled
<1>4. CASE call' = [call EXCEPT ![Boot].pc = "answered"] /\ UNCHANGED <<manager, stored>>
  BY <1>a, <1>0, <1>4 DEF TypeOK, CallType
<1>5. ASSUME NEW c \in Calls, Begin(c) PROVE TargetsArePublic'
  <2>1. \A d \in Runners : call'[d] = call[d] \/ call'[d].pc = "stopping"
    BY <1>5, StopCalls DEF Begin
  <2>2. manager'.target = manager.target /\ stored' = stored
    BY <1>5, StopCalls DEF Begin
  <2> QED
    BY <1>a, <2>1, <2>2
<1>6. ASSUME NEW c \in Calls, ConfigureInvalid(c) PROVE TargetsArePublic'
  BY <1>a, <1>0, <1>6 DEF ConfigureInvalid, At, TypeOK
<1>7. ASSUME NEW c \in Calls, JoinOrSkip(c) PROVE TargetsArePublic'
  BY <1>a, <1>0, <1>7 DEF JoinOrSkip, At, TypeOK, CallType
<1>8. ASSUME NEW c \in Calls, StopFails(c) PROVE TargetsArePublic'
  BY <1>0, <1>2, <1>8 DEF StopFails, TypeOK
<1>9. ASSUME NEW c \in Runners, Saved(c) \/ SaveFails(c) PROVE TargetsArePublic'
  <2>1. \A d \in Runners : call'[d] = call[d] \/ Public(call'[d].target)
    BY <1>0, <1>9 DEF Saved, SaveFails, At, TypeOK
  <2>2. Public(manager'.target) /\ Public(stored')
    BY <1>9 DEF Saved, SaveFails
  <2> QED
    BY <1>a, <2>1, <2>2
<1>10. CASE Quit
  BY <1>a, <1>10 DEF Quit, TypeOK, ManagerType
<1>11. CASE ProcessEnds
  BY <1>a, <1>11 DEF ProcessEnds, At
<1>12. CASE Launch
  BY <1>a, <1>0, <1>12 DEF Launch, NewManager, Idle, At, TypeOK
<1>13. CASE UNCHANGED <<manager, call, stored, quitting>>
  BY <1>a, <1>13
<1> QED
  BY <1>1, <1>3, <1>4, <1>5, <1>6, <1>7, <1>8, <1>9, <1>10, <1>11, <1>12, <1>13, Steps

(* A step that shows "detecting" leaves a call on its way, and no call drops *)
(* out without a status of its own.                                          *)
LEMMA DetectionIsLiveStep ==
  ASSUME IInv, [Next]_vars
  PROVE  DetectionIsLive'
<1> USE DEF IInv, DetectionIsLive, Activating
<1>0. /\ Boot \in Runners /\ Calls \subseteq Runners
  BY DEF Runners
<1>a. ASSUME manager'.status = manager.status, quitting'.exited = quitting.exited,
             \A d \in Runners : Activating(d) => call'[d].pc = call[d].pc
      PROVE  DetectionIsLive'
  BY <1>a
<1>1. ASSUME NEW c \in Runners, Advance(c) PROVE DetectionIsLive'
  BY <1>1, AdvanceCalls
<1>2. ASSUME NEW c \in Runners, Conclude(c) PROVE DetectionIsLive'
  BY <1>2, LeaveCalls DEF Conclude, Settled
<1>4. CASE Initialize /\ call' = [call EXCEPT ![Boot].pc = "answered"] /\ UNCHANGED manager
  BY <1>a, <1>0, <1>4 DEF Initialize, TypeOK, CallType
<1>5. ASSUME NEW c \in Calls, Begin(c) PROVE DetectionIsLive'
  <2>1. call[c].pc = "idle" /\ quitting' = quitting
    BY <1>5 DEF Begin, MayCall
  <2>2. manager'.status = manager.status /\ \A d \in Runners : d # c => call'[d] = call[d]
    BY <1>5, StopCalls DEF Begin
  <2> QED
    BY <1>a, <2>1, <2>2
<1>6. ASSUME NEW c \in Calls, ConfigureInvalid(c) PROVE DetectionIsLive'
  BY <1>a, <1>6 DEF ConfigureInvalid, MayCall, TypeOK
<1>7. ASSUME NEW c \in Calls, JoinOrSkip(c) PROVE DetectionIsLive'
  BY <1>a, <1>7 DEF JoinOrSkip, MayCall, TypeOK
<1>8. ASSUME NEW c \in Calls, StopFails(c) PROVE DetectionIsLive'
  <2>1. PICK pc, t : Leave(c, manager, pc, t)
    BY <1>8 DEF StopFails
  <2>2. \A d \in Runners : d # c /\ call[d].pc # "joined" => call'[d] = call[d]
    BY <1>0, <2>1, LeaveCalls DEF TypeOK
  <2>3. manager'.status = manager.status
    BY <1>0, <2>1, LeaveCalls DEF TypeOK
  <2> QED
    BY <1>a, <1>8, <2>2, <2>3 DEF StopFails
<1>9. ASSUME NEW c \in Runners, Saved(c) \/ SaveFails(c) PROVE DetectionIsLive'
  BY <1>a, <1>9 DEF Saved, SaveFails, TypeOK
<1>10. CASE Quit
  <2>1. manager'.status = manager.status
    BY <1>10 DEF Quit, TypeOK, ManagerType
  <2> QED
    BY <1>10, <2>1 DEF Quit, ExitedIsStill
<1>11. CASE ProcessEnds
  BY <1>11 DEF ProcessEnds
<1>12. CASE Launch
  BY <1>12 DEF Launch, NewManager, Unconfigured
<1>13. CASE UNCHANGED <<manager, call, stored, quitting>>
  BY <1>a, <1>13
<1> QED
  BY <1>1, <1>2, <1>4, <1>5, <1>6, <1>7, <1>8, <1>9, <1>10, <1>11, <1>12, <1>13, Steps

(* A reconnect is joined only while it runs, and whoever ends it releases    *)
(* those that joined it.                                                     *)
LEMMA ReconnectsStep ==
  ASSUME IInv, [Next]_vars
  PROVE  (ReconnectsCoalesce /\ PromiseIsKept)'
<1> USE DEF IInv
<1> DEFINE Busy == {"stopping", "probing", "starting", "closingOffline"}
<1>0. /\ Boot \in Runners /\ Calls \subseteq Runners /\ Boot \notin Calls
      /\ NoCall \notin Calls
      /\ manager.reconnectPromise \in Calls \cup {NoCall}
  BY BootAssumption DEF Runners, TypeOK, ManagerType
(* Steps that change no reconnect. *)
<1>a. ASSUME manager'.reconnectPromise = manager.reconnectPromise,
             quitting'.exited = quitting.exited,
             \A d \in Calls : Reconnecting(d)' <=> Reconnecting(d),
             \A d \in Calls : call'[d].pc = "joined" => call[d].pc = "joined"
      PROVE  (ReconnectsCoalesce /\ PromiseIsKept)'
  BY <1>0, <1>a DEF ReconnectsCoalesce, PromiseIsKept
(* A call leaves the manager. *)
<1>b. ASSUME NEW c \in Runners, InManager(c), NEW m \in ManagerType, NEW t,
             m.reconnectPromise = manager.reconnectPromise, quitting' = quitting,
             NEW pc \in {"saving", "resaving", "deleting", "answered", "rejected"},
             Leave(c, m, pc, t)
      PROVE  (ReconnectsCoalesce /\ PromiseIsKept)'
  <2>1. \A d \in Runners : d # c /\ (call[d].pc # "joined" \/ manager.reconnectPromise # c)
                           => call'[d] = call[d]
    BY <1>b, LeaveCalls
  <2>2. \A d \in Runners : d # c /\ call[d].pc = "joined" /\ manager.reconnectPromise = c
                           => call'[d].pc = pc
    BY <1>b, LeaveCalls
  <2>3. call'[c].pc = pc
    BY <1>b, LeaveCalls
  <2>4. manager'.reconnectPromise = IF manager.reconnectPromise = c THEN NoCall
                                    ELSE manager.reconnectPromise
    BY <1>b, LeaveCalls
  <2>5. ASSUME NEW d \in Calls, Reconnecting(d)' PROVE d # c /\ Reconnecting(d)
    BY <1>0, <2>1, <2>2, <2>3, <2>5 DEF Reconnecting
  <2>6. ASSUME NEW d \in Calls, Reconnecting(d), d # c PROVE Reconnecting(d)'
    BY <1>0, <2>1, <2>6 DEF Reconnecting
  <2>7. ASSUME NEW d \in Calls, call'[d].pc = "joined"
        PROVE  call[d].pc = "joined" /\ manager.reconnectPromise # c
    BY <1>0, <2>1, <2>2, <2>3, <2>7
  <2>8. ReconnectsCoalesce'
    BY <2>4, <2>5, <2>6, <2>7 DEF ReconnectsCoalesce
  <2>9. PromiseIsKept'
    BY <1>0, <1>b, <2>4, <2>6 DEF PromiseIsKept
  <2> QED
    BY <2>8, <2>9
<1>1. ASSUME NEW c \in Runners, InManager(c), Advance(c), quitting' = quitting
      PROVE  (ReconnectsCoalesce /\ PromiseIsKept)'
  <2>1. \A d \in Calls : Reconnecting(d)' <=> Reconnecting(d)
    BY <1>0, <1>1, AdvanceCalls DEF InManager, Reconnecting
  <2>2. \A d \in Calls : call'[d].pc = "joined" => call[d].pc = "joined"
    BY <1>0, <1>1, AdvanceCalls
  <2> QED
    BY <1>a, <1>1, <2>1, <2>2, AdvanceCalls
<1>2. ASSUME NEW c \in Runners, InManager(c), Conclude(c), quitting' = quitting
      PROVE  (ReconnectsCoalesce /\ PromiseIsKept)'
  BY <1>b, <1>2 DEF Conclude, Settled
<1>4. CASE call' = [call EXCEPT ![Boot].pc = "answered"] /\ UNCHANGED <<manager, quitting>>
  BY <1>a, <1>0, <1>4 DEF Reconnecting, TypeOK
<1>5. ASSUME NEW c \in Calls, Begin(c) PROVE (ReconnectsCoalesce /\ PromiseIsKept)'
  <2>1. /\ call[c].pc = "idle" /\ ~Reconnecting(c) /\ quitting' = quitting
        /\ ~quitting.started /\ ~quitting.exited
    BY <1>5 DEF Begin, MayCall, Reconnecting, ExitedIsStill
  <2>a. PICK t \in Targets :
          \/ Stop(c, "clear", t)
          \/ Stop(c, "configure", t)
          \/ Stop(c, "reconnect", t) /\ manager.reconnectPromise = NoCall
    BY <1>5 DEF Begin
  <2>2. PICK op \in {"clear", "configure", "reconnect"} :
          Stop(c, op, t) /\ (op = "reconnect" => manager.reconnectPromise = NoCall)
    BY <2>a
  <2>3. \A d \in Calls : d # c => call'[d] = call[d]
    BY <1>0, <2>2, StopCalls
  <2>4. call'[c].pc = "stopping" /\ call'[c].op = op
    BY <2>2, StopCalls
  <2>5. manager'.reconnectPromise = IF op = "reconnect" THEN c ELSE manager.reconnectPromise
    BY <2>2, StopCalls
  <2>6. CASE op = "reconnect"
    <3>1. \A d \in Calls : ~Reconnecting(d)
      BY <1>0, <2>2, <2>6 DEF ReconnectsCoalesce
    <3> QED
      BY <2>3, <2>4, <2>5, <2>6, <3>1 DEF ReconnectsCoalesce, PromiseIsKept, Reconnecting
  <2>7. CASE op # "reconnect"
    BY <1>a, <2>1, <2>3, <2>4, <2>5, <2>7 DEF Reconnecting
  <2> QED
    BY <2>6, <2>7
<1>6. ASSUME NEW c \in Calls, ConfigureInvalid(c)
      PROVE  (ReconnectsCoalesce /\ PromiseIsKept)'
  <2>1. call[c].pc = "idle" /\ call'[c].pc = "resaving"
    BY <1>0, <1>6 DEF ConfigureInvalid, MayCall, At, TypeOK
  <2>2. \A d \in Calls : d # c => call'[d] = call[d]
    BY <1>0, <1>6 DEF ConfigureInvalid, TypeOK
  <2> QED
    BY <1>a, <1>6, <2>1, <2>2 DEF ConfigureInvalid, Reconnecting
<1>7. ASSUME NEW c \in Calls, JoinOrSkip(c) PROVE (ReconnectsCoalesce /\ PromiseIsKept)'
  <2>1. call[c].pc = "idle" /\ call'[c].pc \in {"joined", "answered"} /\ ~quitting.exited
    BY <1>0, <1>7 DEF JoinOrSkip, MayCall, At, TypeOK, CallType, ExitedIsStill
  <2>2. \A d \in Calls : d # c => call'[d] = call[d]
    BY <1>0, <1>7 DEF JoinOrSkip, TypeOK
  <2>3. \A d \in Calls : Reconnecting(d)' <=> Reconnecting(d)
    BY <2>1, <2>2 DEF Reconnecting
  <2>4. manager' = manager /\ quitting' = quitting
    BY <1>7 DEF JoinOrSkip
  <2>5. CASE call'[c].pc = "answered"
    BY <1>a, <2>2, <2>3, <2>4, <2>5
  <2>6. CASE call'[c].pc = "joined"
    <3>1. manager.reconnectPromise \in Calls /\ Reconnecting(manager.reconnectPromise)
      BY <1>0, <1>7, <2>1, <2>6 DEF JoinOrSkip, PromiseIsKept, At, TypeOK
    <3> QED
      BY <2>2, <2>3, <2>4, <3>1 DEF ReconnectsCoalesce, PromiseIsKept
  <2> QED
    BY <2>1, <2>5, <2>6
<1>8. ASSUME NEW c \in Calls, StopFails(c) PROVE (ReconnectsCoalesce /\ PromiseIsKept)'
  BY <1>0, <1>b, <1>8 DEF StopFails, InManager, TypeOK
<1>9. ASSUME NEW c \in Runners, Saved(c) \/ SaveFails(c)
      PROVE  (ReconnectsCoalesce /\ PromiseIsKept)'
  <2>1. /\ call[c].pc \in {"saving", "resaving", "deleting"}
        /\ call'[c].pc \in {"resaving", "answered", "rejected"}
    BY <1>9 DEF Saved, SaveFails, At, TypeOK
  <2>2. \A d \in Calls : d # c => call'[d] = call[d]
    BY <1>0, <1>9 DEF Saved, SaveFails, TypeOK
  <2> QED
    BY <1>a, <1>9, <2>1, <2>2 DEF Saved, SaveFails, Reconnecting
<1>10. CASE Quit
  <2>1. manager'.reconnectPromise = manager.reconnectPromise /\ quitting'.exited = FALSE
    BY <1>10 DEF Quit, TypeOK, ManagerType
  <2>2. call' = call /\ ~quitting.exited
    BY <1>10 DEF Quit, ExitedIsStill
  <2> QED
    BY <1>a, <2>1, <2>2 DEF Reconnecting, TypeOK
<1>11. CASE ProcessEnds
  <2>1. \A d \in Calls : call'[d].pc \notin Busy \cup {"joined"}
    BY <1>0, <1>11 DEF ProcessEnds, InFlight, At
  <2> QED
    BY <1>11, <2>1 DEF ProcessEnds, ReconnectsCoalesce, PromiseIsKept, Reconnecting
<1>12. CASE Launch
  <2>1. \A d \in Calls : call'[d].pc \notin Busy \cup {"joined"}
    BY <1>0, <1>12 DEF Launch, ExitedIsStill, InFlight, TypeOK
  <2>2. manager'.reconnectPromise = NoCall
    BY <1>12 DEF Launch, NewManager
  <2> QED
    BY <2>1, <2>2 DEF ReconnectsCoalesce, PromiseIsKept, Reconnecting
<1>13. CASE UNCHANGED <<manager, call, stored, quitting>>
  BY <1>a, <1>13 DEF Reconnecting
<1> QED
  BY <1>1, <1>2, <1>4, <1>5, <1>6, <1>7, <1>8, <1>9, <1>10, <1>11, <1>12, <1>13, Steps

-----------------------------------------------------------------------------
(* The invariant holds initially and is preserved. *)
LEMMA IInvInit == Init => IInv
<1> SUFFICES ASSUME Init PROVE IInv
  OBVIOUS
<1>1. stored \in Targets /\ Public(stored)
  BY PublicTargetIs DEF Init, PublicTargets, Targets, Public
<1>2. Idle \in CallType /\ Idle.pc = "idle"
  BY DEF Idle, At, CallType, Targets
<1>3. TypeOK
  <2>1. manager \in ManagerType
    BY <1>1 DEF Init, NewManager, ManagerType, Unconfigured, Targets
  <2>2. launches \in 1 .. MaxLaunches
    BY LaunchAssumption DEF Init
  <2> QED
    BY <1>1, <1>2, <2>1, <2>2 DEF Init, Launched, TypeOK
<1>4. CallsHaveTargets /\ ExitedIsStill
  BY <1>2 DEF Init, CallsHaveTargets, Activating, ExitedIsStill, Launched
<1>5. TargetsArePublic
  BY <1>1, <1>2 DEF Init, NewManager, TargetsArePublic
<1>6. DetectionIsLive
  BY DEF Init, NewManager, Unconfigured, DetectionIsLive
<1>7. ReconnectsCoalesce /\ PromiseIsKept
  BY <1>2 DEF Init, NewManager, ReconnectsCoalesce, PromiseIsKept, Reconnecting, Runners
<1> QED
  BY <1>3, <1>4, <1>5, <1>6, <1>7 DEF IInv

LEMMA IInvStep == IInv /\ [Next]_vars => IInv'
BY TypeOKStep, CallsHaveTargetsStep, ExitedIsStillStep, TargetsArePublicStep,
   DetectionIsLiveStep, ReconnectsStep
DEF IInv

LEMMA IInvInvariant == Spec => []IInv
BY IInvInit, IInvStep, PTL DEF Spec

(* The manager, the calls and the store always have their types. *)
THEOREM TypeCorrect == Spec => []TypeOK
BY IInvInvariant, PTL DEF IInv

(* The status shows "detecting" only while a call is on its way to another  *)
(* status, however many calls overlap (configure, reconnectInternal).        *)
THEOREM DetectionAlwaysLive == Spec => []DetectionIsLive
BY IInvInvariant, PTL DEF IInv

(* One reconnect runs at a time, and those that joined it wait for one that  *)
(* runs (reconnect, releaseReconnect).                                       *)
THEOREM ReconnectsAlwaysCoalesce == Spec => []ReconnectsCoalesce
BY IInvInvariant, PTL DEF IInv

(* Certificates are kept in memory and in the secure store for Engines only  *)
(* (publicTarget).                                                           *)
THEOREM CertificatesForEnginesOnly == Spec => []TlsOnlyForEngines
<1>1. IInv => TlsOnlyForEngines
  BY DEF IInv, TargetsArePublic, Public, TlsOnlyForEngines
<1> QED
  BY <1>1, IInvInvariant, PTL

(* Overlapping calls never leave the status at "detecting" nor a caller      *)
(* waiting for a reconnect that has ended.                                   *)
THEOREM OverlapsStaySafe == Spec => []OverlapsAreSafe
<1>1. DetectionIsLive /\ ReconnectsCoalesce => OverlapsAreSafe
  BY DEF OverlapsAreSafe
<1> QED
  BY <1>1, DetectionAlwaysLive, ReconnectsAlwaysCoalesce, PTL

-----------------------------------------------------------------------------
(* A patient user.  One call at a time is in flight; a launch initializes    *)
(* before it takes calls; nobody joins a reconnect.                          *)
OneCall ==
  /\ \A c, d \in Runners : InFlight(c) /\ InFlight(d) => c = d
  /\ call[Boot].pc = "idle" =>
       /\ \A c \in Runners : ~InFlight(c)
       /\ manager.localGateway = NoCall /\ manager.status.wrapper = NoCall
  /\ \A c \in Runners : call[c].pc # "joined"
  /\ call[Boot].op = "none" /\ call[Boot].pc # "stopping"

AtWork(c) == call[c].pc = "stopping" \/ Activating(c)

(* The close of a wrapper failed: it is offered, but no longer works. *)
Broken(w) == w \in Runners /\ wrapper[w] = "broken"

(* While a call is at work the manager holds no wrapper, and what it offers  *)
(* is the wrapper being closed, a broken one or, past its stop, none.        *)
Wrappers ==
  /\ \A w \in Runners : wrapper[w] = "running" => manager.localGateway = w
  /\ \A c \in Runners : AtWork(c) => manager.localGateway = NoCall
  /\ ~quitting.started =>
       /\ \A c \in Runners : Activating(c) => manager.status.wrapper = NoCall
       /\ \A c \in Runners : call[c].pc = "stopping" =>
            manager.status.wrapper = call[c].closing \/ Broken(manager.status.wrapper)
       /\ (\A c \in Runners : ~AtWork(c)) =>
            manager.status.wrapper = manager.localGateway \/ Broken(manager.status.wrapper)

(* A call at work goes to the target in use or, when it configures one, to   *)
(* its own while none is in use.                                             *)
Course(c) ==
  /\ call[c].pc = "stopping" /\ call[c].op = "reconnect" => call[c].target = manager.target
  /\ Activating(c) =>
       \/ manager.target = NoTarget /\ (call[c].op = "configure" \/ Seed # NoTarget)
       \/ manager.target = call[c].target /\ call[c].op # "configure"
  /\ call[c].pc \in {"starting", "closingOffline"} => call[c].target.mode # "gateway"
  /\ AtWork(c) /\ call[c].op = "configure" => call[c].target.mode = "none"

(* On its way to a choice of its own. *)
Choosing(c) ==
  \/ call[c].pc \in {"saving", "deleting"}
  \/ Activating(c) /\ call[c].op = "configure"

(* No seed decides, and no call said or will say that it failed. *)
Unspoiled ==
  /\ Seed = NoTarget /\ ~quitting.exited
  /\ \A c \in Runners : call[c].pc \notin {"rejected", "resaving"}

(* The secure store names the endpoint in use, or a call is on its way to    *)
(* make it so.                                                               *)
Choice ==
  Unspoiled =>
    /\ \A c \in Runners : call[c].pc \in {"saving", "deleting"} =>
         Endpoint(call[c].target) = Endpoint(manager.target)
    /\ (\A c \in Runners : ~Choosing(c)) => Endpoint(stored) = Endpoint(manager.target)

(* The inductive invariant of a patient user. *)
Patience == OneCall /\ Wrappers /\ (\A c \in Runners : Course(c)) /\ Choice

PInv == patient => Patience

(* The only call in flight. *)
Alone(c) == \A d \in Runners \ {c} : ~InFlight(d) /\ call[d].pc # "joined"

LEMMA InFlightIsAlone ==
  ASSUME OneCall, NEW c \in Runners, InFlight(c) \/ (c = Boot /\ call[Boot].pc = "idle")
  PROVE  Alone(c)
BY DEF OneCall, Alone

(* Where an endpoint comes from. *)
LEMMA EndpointOf ==
  ASSUME NEW t \in AllTargets
  PROVE  /\ Endpoint(t) = t.endpoint /\ Endpoint(publicTarget(t)) = t.endpoint
         /\ Endpoint(publicTarget([t EXCEPT !.mode = "gateway"])) = t.endpoint
         /\ Endpoint(publicTarget([t EXCEPT !.mode = "engine"])) = t.endpoint
         /\ publicTarget(t).mode = t.mode
<1>1. /\ [t EXCEPT !.mode = "gateway"] \in AllTargets
      /\ [t EXCEPT !.mode = "engine"] \in AllTargets
      /\ [t EXCEPT !.mode = "gateway"].endpoint = t.endpoint
      /\ [t EXCEPT !.mode = "engine"].endpoint = t.endpoint
  BY DEF AllTargets, Modes
<1>2. \A u \in AllTargets : /\ publicTarget(u) \in AllTargets
                            /\ publicTarget(u).endpoint = u.endpoint
                            /\ publicTarget(u).mode = u.mode
  BY PublicTargetIs DEF publicTarget, AllTargets
<1> QED
  BY <1>1, <1>2, NoTargetIsNone DEF Endpoint

LEMMA BootIsReady ==
  ASSUME OneCall, NEW c \in Runners, InFlight(c), c # Boot
  PROVE  call[Boot].pc # "idle"
BY DEF OneCall

(* A call that was alone awaits its next answer. *)
LEMMA AwaitKeeps ==
  ASSUME TypeOK, Patience, NEW c \in Runners, Alone(c),
         call[c].pc \notin {"rejected", "resaving"}, c = Boot \/ InFlight(c),
         NEW m \in ManagerType, NEW t \in AllTargets,
         NEW pc \in {"probing", "starting", "closingOffline"}, Await(c, m, t, pc),
         m.localGateway = NoCall, ~quitting.started => m.status.wrapper = NoCall,
         \A w \in Runners : wrapper'[w] # "running",
         \/ m.target = NoTarget /\ (call[c].op = "configure" \/ Seed # NoTarget)
         \/ m.target = t /\ call[c].op # "configure",
         pc # "probing" => t.mode # "gateway",
         call[c].op = "configure" => t.mode = "none",
         Unspoiled /\ call[c].op # "configure" => Endpoint(stored) = Endpoint(m.target),
         UNCHANGED <<stored, quitting>>
  PROVE  Patience'
<1>1. /\ call'[c].pc = pc /\ call'[c].target = t /\ call'[c].op = call[c].op
      /\ \A d \in Runners \ {c} : call'[d] = call[d] /\ ~InFlight(d)'
      /\ manager' = m
  BY DEF Await, TypeOK, CallType, Alone, InFlight
<1>2. \A d \in Runners \ {c} : ~AtWork(d)' /\ ~Activating(d)' /\ ~Choosing(d)'
                               /\ call'[d].pc \notin {"stopping", "starting", "closingOffline"}
  BY <1>1 DEF InFlight, AtWork, Activating, Choosing
<1>3. OneCall'
  <2>1. call'[Boot].pc # "idle"
    BY <1>1, BootIsReady DEF Patience, Runners
  <2>2. \A d, e \in Runners : InFlight(d)' /\ InFlight(e)' => d = e
    BY <1>1
  <2> QED
    BY <1>1, <2>1, <2>2 DEF Patience, OneCall, Runners
<1>4. Wrappers'
  BY <1>1, <1>2 DEF Wrappers, AtWork, Activating
<1>5. \A d \in Runners : Course(d)'
  BY <1>1, <1>2 DEF Course
<1>6. Choice'
  <2>1. CASE ~Unspoiled'
    BY <2>1 DEF Choice
  <2>2. CASE Unspoiled' /\ call[c].op = "configure"
    BY <1>1, <1>2, <2>2 DEF Choice, Choosing, Activating, InFlight
  <2>3. CASE Unspoiled' /\ call[c].op # "configure"
    <3>1. Unspoiled
      BY <1>1, <2>3 DEF Unspoiled
    <3> QED
      BY <1>1, <1>2, <2>3, <3>1 DEF Choice, Choosing, InFlight
  <2> QED
    BY <2>1, <2>2, <2>3
<1> QED
  BY <1>3, <1>4, <1>5, <1>6 DEF Patience

(* A call that was alone leaves the manager. *)
LEMMA LeaveKeeps ==
  ASSUME TypeOK, Patience, NEW c \in Runners, Alone(c), call[c].pc \notin {"rejected", "resaving"},
         c = Boot \/ InFlight(c),
         NEW m \in ManagerType, NEW t \in Targets,
         NEW pc \in {"saving", "resaving", "deleting", "answered", "rejected"},
         Leave(c, m, pc, t),
         \A w \in Runners : wrapper'[w] = "running" => m.localGateway = w,
         ~quitting.started => m.status.wrapper = m.localGateway \/ Broken(m.status.wrapper)',
         pc \in {"saving", "deleting"} => Endpoint(t) = Endpoint(m.target),
         Unspoiled /\ pc = "answered" => Endpoint(stored) = Endpoint(m.target),
         UNCHANGED <<stored, quitting>>
  PROVE  Patience'
<1>1. /\ call'[c].pc = pc /\ call'[c].target = t /\ call'[c].op = "none"
      /\ \A d \in Runners \ {c} : call'[d] = call[d]
      /\ manager'.target = m.target /\ manager'.status = m.status
      /\ manager'.localGateway = m.localGateway
  <2>1. manager'.localGateway = m.localGateway
    BY DEF Leave, ManagerType
  <2>2. \A d \in Runners \ {c} : call'[d] = call[d]
    BY LeaveCalls DEF Alone
  <2> QED
    BY <2>1, <2>2, LeaveCalls
<1>2. \A d \in Runners \ {c} : ~InFlight(d)'
  BY <1>1 DEF Alone, InFlight
<1>3. \A d \in Runners : /\ ~AtWork(d)' /\ ~Activating(d)'
                         /\ call'[d].pc \notin {"stopping", "starting", "closingOffline"}
  BY <1>1, <1>2 DEF InFlight, AtWork, Activating
<1>4. OneCall'
  <2>1. call'[Boot].pc # "idle"
    BY <1>1, BootIsReady DEF Patience, Runners
  <2>2. \A d, e \in Runners : InFlight(d)' /\ InFlight(e)' => d = e
    BY <1>2
  <2> QED
    BY <1>1, <1>3, <2>1, <2>2 DEF Patience, OneCall, Alone, Runners
<1>5. Wrappers'
  BY <1>1, <1>3 DEF Wrappers
<1>6. \A d \in Runners : Course(d)'
  BY <1>3 DEF Course
<1>7. Choice'
  <2>1. CASE ~Unspoiled'
    BY <2>1 DEF Choice
  <2>2. CASE Unspoiled'
    <3>1. Unspoiled /\ pc \notin {"resaving", "rejected"}
      BY <1>1, <2>2 DEF Unspoiled
    <3>2. \A d \in Runners \ {c} : call'[d].pc \notin {"saving", "deleting"}
      BY <1>2 DEF InFlight
    <3> QED
      BY <1>1, <3>1, <3>2 DEF Choice, Choosing
  <2> QED
    BY <2>1, <2>2
<1> QED
  BY <1>4, <1>5, <1>6, <1>7 DEF Patience

(* It returns with a target in use. *)
LEMMA ReturnKeeps ==
  ASSUME TypeOK, Patience, NEW c \in Runners, Alone(c), call[c].pc \notin {"rejected", "resaving"},
         c = Boot \/ InFlight(c),
         NEW m \in ManagerType, Return(c, m),
         \A w \in Runners : wrapper'[w] = "running" => m.localGateway = w,
         ~quitting.started => m.status.wrapper = m.localGateway,
         Unspoiled /\ call[c].op # "configure" => Endpoint(stored) = Endpoint(m.target),
         UNCHANGED <<stored, quitting>>
  PROVE  Patience'
<1>1. m.target \in Targets /\ NoTarget \in Targets
  BY DEF ManagerType, Targets
<1>2. CASE call[c].op = "configure"
  BY <1>1, <1>2, LeaveKeeps DEF Return
<1>3. CASE call[c].op # "configure"
  BY <1>1, <1>3, LeaveKeeps DEF Return
<1> QED
  BY <1>2, <1>3

LEMMA UnavailableKeeps ==
  ASSUME TypeOK, Patience, NEW c \in Runners, Alone(c), call[c].pc \notin {"rejected", "resaving"},
         c = Boot \/ InFlight(c),
         NEW m \in ManagerType, NEW t \in AllTargets, Return(c, setUnavailable(m, t)),
         \A w \in Runners : wrapper'[w] = "running" => m.localGateway = w,
         Unspoiled /\ call[c].op # "configure" => Endpoint(stored) = Endpoint(t),
         UNCHANGED <<stored, quitting>>
  PROVE  Patience'
<1>1. PICK u : u = setUnavailable(m, t)
  OBVIOUS
<1>2. publicTarget(t) \in Targets /\ t.endpoint \in Endpoints
  BY PublicTargetIs DEF Targets, AllTargets
<1>3. /\ u \in ManagerType /\ u.localGateway = m.localGateway /\ u.status.wrapper = m.localGateway
      /\ u.target = publicTarget(t)
  BY <1>1, <1>2 DEF setUnavailable, ManagerType
<1>4. Endpoint(u.target) = Endpoint(t)
  BY <1>3, EndpointOf
<1> QED
  BY <1>1, <1>3, <1>4, ReturnKeeps

(* activateEngine() and connecting, of a call that was alone. *)
LEMMA ActivateKeeps ==
  ASSUME TypeOK, Patience, NEW c \in Runners, Alone(c), call[c].pc \notin {"rejected", "resaving"},
         c = Boot \/ InFlight(c),
         NEW m \in ManagerType, NEW t \in AllTargets, ActivateEngine(c, m, t),
         m.localGateway = NoCall, ~quitting.started => m.status.wrapper = NoCall,
         \A w \in Runners : wrapper'[w] # "running",
         \/ m.target = NoTarget /\ (call[c].op = "configure" \/ Seed # NoTarget)
         \/ m.target = t /\ call[c].op # "configure",
         t.mode # "gateway", call[c].op = "configure" => t.mode = "none",
         Unspoiled /\ call[c].op # "configure" => Endpoint(stored) = Endpoint(m.target),
         UNCHANGED <<stored, quitting>>
  PROVE  Patience'
<1>1. CASE EngineTransport(t)
  BY <1>1, AwaitKeeps DEF ActivateEngine
<1>2. CASE ~EngineTransport(t)
  <2>1. Return(c, setUnavailable(m, t))
    BY <1>2 DEF ActivateEngine
  <2>2. Unspoiled /\ call[c].op # "configure" => Endpoint(stored) = Endpoint(t)
    BY DEF Unspoiled
  <2> QED
    BY <2>1, <2>2, UnavailableKeeps
<1> QED
  BY <1>1, <1>2

LEMMA ConnectKeeps ==
  ASSUME TypeOK, Patience, NEW c \in Runners, Alone(c), call[c].pc \notin {"rejected", "resaving"},
         c = Boot \/ InFlight(c),
         NEW m \in ManagerType, NEW t \in AllTargets, Connect(c, m, t),
         m.localGateway = NoCall, ~quitting.started => m.status.wrapper = NoCall,
         \A w \in Runners : wrapper'[w] # "running",
         \/ m.target = NoTarget /\ (call[c].op = "configure" \/ Seed # NoTarget)
         \/ m.target = t /\ call[c].op # "configure",
         call[c].op = "configure" => t.mode = "none",
         Unspoiled /\ call[c].op # "configure" => Endpoint(stored) = Endpoint(m.target),
         UNCHANGED <<stored, quitting>>
  PROVE  Patience'
<1>1. CASE Probes(t)
  BY <1>1, AwaitKeeps DEF Connect
<1>2. CASE ~Probes(t)
  <2>1. t.mode # "gateway" /\ ActivateEngine(c, m, t)
    BY <1>2 DEF Connect, Probes
  <2> QED
    BY <2>1, ActivateKeeps
<1> QED
  BY <1>1, <1>2

(* What the invariant says of a call at work: it is alone, no wrapper runs   *)
(* and none is held.                                                         *)
LEMMA AtWorkIsAlone ==
  ASSUME TypeOK, Patience, NEW c \in Runners, AtWork(c)
  PROVE  /\ Alone(c) /\ InFlight(c) /\ call[c].pc \notin {"rejected", "resaving"}
         /\ manager.localGateway = NoCall
         /\ \A w \in Runners : wrapper[w] # "running"
         /\ ~quitting.started /\ Activating(c) => manager.status.wrapper = NoCall
         /\ Unspoiled /\ ~Choosing(c) => Endpoint(stored) = Endpoint(manager.target)
<1>1. InFlight(c) /\ call[c].pc \notin {"rejected", "resaving"}
  BY DEF AtWork, Activating, InFlight
<1>2. Alone(c)
  BY <1>1, InFlightIsAlone DEF Patience
<1>3. manager.localGateway = NoCall /\ NoCall \notin Runners
  BY BootAssumption DEF Patience, Wrappers, Runners
<1>4. ASSUME NEW w \in Runners PROVE wrapper[w] # "running"
  BY <1>3 DEF Patience, Wrappers
<1>5. ~quitting.started /\ Activating(c) => manager.status.wrapper = NoCall
  BY DEF Patience, Wrappers
<1>6. \A d \in Runners \ {c} : ~Choosing(d)
  BY <1>2 DEF Alone, InFlight, Choosing, Activating
<1>7. Unspoiled /\ ~Choosing(c) => Endpoint(stored) = Endpoint(manager.target)
  BY <1>6 DEF Patience, Choice
<1> QED
  BY <1>1, <1>2, <1>3, <1>4, <1>5, <1>7

LEMMA InitializeKeeps ==
  ASSUME IInv, Patience, Initialize PROVE Patience'
<1> DEFINE t == IF manager.target # NoTarget THEN manager.target ELSE Seed
<1>1. /\ TypeOK /\ manager \in ManagerType /\ Boot \in Runners /\ call[Boot].pc = "idle"
      /\ ~quitting.started /\ UNCHANGED <<stored, quitting, wrapper>>
  BY DEF IInv, TypeOK, Initialize, Runners
<1>2. /\ Alone(Boot) /\ \A c \in Runners : ~InFlight(c)
      /\ manager.localGateway = NoCall /\ manager.status.wrapper = NoCall
      /\ call[Boot].op = "none"
  BY <1>1, InFlightIsAlone DEF Patience, OneCall
<1>3. \A w \in Runners : wrapper'[w] # "running"
  BY <1>1, <1>2, BootAssumption DEF Patience, Wrappers, Runners
<1>4. Unspoiled => Endpoint(stored) = Endpoint(manager.target)
  BY <1>2 DEF Patience, Choice, Choosing, Activating, InFlight
<1>5. CASE t # NoTarget
  <2>1. t \in AllTargets /\ Connect(Boot, manager, t)
    BY <1>1, <1>5, SeedAssumption DEF Initialize, ManagerType, Targets
  <2>2. (manager.target = NoTarget /\ Seed # NoTarget) \/ manager.target = t
    BY <1>5
  <2> QED
    BY <1>1, <1>2, <1>3, <1>4, <2>1, <2>2, ConnectKeeps
<1>6. CASE t = NoTarget
  <2>1. manager' = manager /\ call' = [call EXCEPT ![Boot].pc = "answered"]
    BY <1>6 DEF Initialize
  <2>2. /\ call'[Boot].pc = "answered" /\ call'[Boot].op = "none"
        /\ \A c \in Runners \ {Boot} : call'[c] = call[c]
    BY <1>1, <1>2, <2>1 DEF TypeOK, CallType
  <2>3. \A c \in Runners : ~InFlight(c)'
    BY <1>2, <2>2 DEF InFlight
  <2>4. \A c \in Runners : ~AtWork(c)' /\ ~Activating(c)' /\ ~Choosing(c)' /\ ~AtWork(c)
                           /\ call'[c].pc \notin {"stopping", "saving", "deleting", "starting",
                                                  "closingOffline"}
    BY <1>2, <2>3 DEF InFlight, AtWork, Activating, Choosing
  <2>5. OneCall'
    BY <2>2, <2>3 DEF Patience, OneCall
  <2>6. Wrappers'
    BY <1>1, <2>1, <2>4 DEF Patience, Wrappers, Broken
  <2>7. \A c \in Runners : Course(c)'
    BY <2>4 DEF Course
  <2>8. Choice'
    <3>1. Unspoiled' => Unspoiled
      BY <1>1, <2>2 DEF Unspoiled
    <3> QED
      BY <1>1, <1>4, <2>1, <2>4, <3>1 DEF Choice
  <2> QED
    BY <2>5, <2>6, <2>7, <2>8 DEF Patience
<1> QED
  BY <1>5, <1>6

LEMMA StoppedKeeps ==
  ASSUME IInv, Patience, NEW c \in Runners, Stopped(c) PROVE Patience'
<1> PICK t : t = call[c].target
  OBVIOUS
<1>1. /\ TypeOK /\ manager \in ManagerType /\ AtWork(c) /\ call[c].pc = "stopping"
      /\ ~Choosing(c) /\ UNCHANGED <<stored, quitting>>
  BY DEF IInv, TypeOK, Stopped, AtWork, Choosing, Activating
<1>2. /\ Alone(c) /\ InFlight(c) /\ call[c].pc \notin {"rejected", "resaving"}
      /\ manager.localGateway = NoCall
      /\ \A w \in Runners : wrapper'[w] # "running"
      /\ Unspoiled => Endpoint(stored) = Endpoint(manager.target)
  BY <1>1, AtWorkIsAlone DEF Stopped
<1>3. ASSUME call[c].op \in {"configure", "reconnect"}
      PROVE  t \in AllTargets /\ t.endpoint \in Endpoints /\ Detecting(t).wrapper = NoCall
  BY <1>1, <1>3 DEF IInv, CallsHaveTargets, AllTargets, Detecting
<1>4. Course(c)
  BY DEF Patience
<1>5. CASE call[c].op = "reconnect"
  <2> PICK m : m = [manager EXCEPT !.status = Detecting(t)]
    OBVIOUS
  <2>1. /\ m \in ManagerType /\ m.localGateway = NoCall /\ m.status.wrapper = NoCall
        /\ m.target = manager.target
    BY <1>1, <1>2, <1>3, <1>5 DEF ManagerType, Detecting
  <2>2. m.target = t
    BY <1>1, <1>4, <1>5, <2>1 DEF Course
  <2>3. Connect(c, m, t)
    BY <1>5 DEF Stopped
  <2> QED
    BY <1>1, <1>2, <1>3, <1>5, <2>1, <2>2, <2>3, ConnectKeeps
<1>6. CASE call[c].op = "configure"
  <2> PICK m : m = [manager EXCEPT !.status = Detecting(t), !.target = NoTarget]
    OBVIOUS
  <2>1. /\ m \in ManagerType /\ m.localGateway = NoCall /\ m.status.wrapper = NoCall
        /\ m.target = NoTarget
    BY <1>1, <1>2, <1>3, <1>6 DEF ManagerType, Detecting, Targets
  <2>2. t.mode = "none"
    BY <1>1, <1>4, <1>6 DEF Course
  <2>3. Connect(c, m, t)
    BY <1>6 DEF Stopped
  <2> QED
    BY <1>1, <1>2, <1>3, <1>6, <2>1, <2>2, <2>3, ConnectKeeps
<1>7. CASE call[c].op \notin {"configure", "reconnect"}
  <2> PICK m : m = [manager EXCEPT !.status = Unconfigured, !.target = NoTarget]
    OBVIOUS
  <2>1. /\ m \in ManagerType /\ m.localGateway = NoCall /\ m.status.wrapper = NoCall
        /\ m.target = NoTarget /\ NoTarget \in Targets
    BY <1>1, <1>2 DEF ManagerType, Unconfigured, Targets
  <2>2. Leave(c, m, "deleting", NoTarget)
    BY <1>7 DEF Stopped
  <2> QED
    BY <1>1, <1>2, <2>1, <2>2, LeaveKeeps
<1> QED
  BY <1>5, <1>6, <1>7

LEMMA StopFailsKeeps ==
  ASSUME IInv, Patience, NEW c \in Runners, StopFails(c) PROVE Patience'
<1>1. /\ TypeOK /\ manager \in ManagerType /\ AtWork(c) /\ call[c].pc = "stopping"
      /\ call[c].closing \in Runners /\ UNCHANGED <<stored, quitting>>
      /\ manager.target \in Targets /\ NoTarget \in Targets
      /\ wrapper' = [wrapper EXCEPT ![call[c].closing] = "broken"]
  BY DEF IInv, TypeOK, CallType, ManagerType, Targets, StopFails, AtWork
<1>2. /\ Alone(c) /\ InFlight(c) /\ call[c].pc \notin {"rejected", "resaving"}
      /\ \A w \in Runners : wrapper[w] # "running"
  BY <1>1, AtWorkIsAlone
<1>3. \A w \in Runners : wrapper'[w] # "running"
  BY <1>1, <1>2 DEF TypeOK
<1>4. ~quitting.started =>
        manager.status.wrapper = call[c].closing \/ Broken(manager.status.wrapper)
  BY <1>1 DEF Patience, Wrappers
<1>5. \A w : w = call[c].closing \/ Broken(w) => w \in Runners /\ wrapper'[w] = "broken"
  BY <1>1 DEF TypeOK, Broken
<1>7. PICK m : m = manager
  OBVIOUS
<1>8. PICK pc \in {"resaving", "rejected"}, t \in Targets : Leave(c, m, pc, t)
  BY <1>1, <1>7 DEF StopFails
<1>9. ~quitting.started => Broken(m.status.wrapper)'
  BY <1>4, <1>5, <1>7 DEF Broken
<1> QED
  BY <1>1, <1>2, <1>3, <1>7, <1>8, <1>9, LeaveKeeps

(* The target a call at work goes to, and what it does to the choice.        *)
LEMMA Going ==
  ASSUME IInv, Patience, NEW c \in Runners, Activating(c)
  PROVE  /\ call[c].target \in AllTargets
         /\ Unspoiled /\ call[c].op # "configure" =>
              Endpoint(stored) = Endpoint(call[c].target)
         /\ Unspoiled /\ call[c].op # "configure" =>
              Endpoint(stored) = Endpoint(manager.target)
         /\ \/ manager.target = NoTarget /\ (call[c].op = "configure" \/ Seed # NoTarget)
            \/ manager.target = call[c].target /\ call[c].op # "configure"
         /\ call[c].op = "configure" => call[c].target.mode = "none"
<1>1. TypeOK /\ Course(c) /\ AtWork(c) /\ (call[c].op # "configure" => ~Choosing(c))
  BY DEF IInv, Patience, AtWork, Choosing, Activating
<1>2. Unspoiled /\ call[c].op # "configure" => Endpoint(stored) = Endpoint(manager.target)
  BY <1>1, AtWorkIsAlone
<1>3. call[c].target \in AllTargets
  BY DEF IInv, CallsHaveTargets
<1>4. Unspoiled => Seed = NoTarget
  BY DEF Unspoiled
<1> QED
  BY <1>1, <1>2, <1>3, <1>4 DEF Course

LEMMA ProbeKeeps ==
  ASSUME IInv, Patience, NEW c \in Runners, NEW isGateway \in BOOLEAN, ProbeAnswers(c, isGateway)
  PROVE  Patience'
<1> PICK t : t = call[c].target
  OBVIOUS
<1>1. /\ TypeOK /\ manager \in ManagerType /\ AtWork(c) /\ Activating(c)
      /\ UNCHANGED <<stored, quitting, wrapper>>
  BY DEF IInv, TypeOK, ProbeAnswers, AtWork, Activating
<1>2. /\ Alone(c) /\ InFlight(c) /\ call[c].pc \notin {"rejected", "resaving"}
      /\ manager.localGateway = NoCall
      /\ \A w \in Runners : wrapper'[w] # "running"
      /\ ~quitting.started => manager.status.wrapper = NoCall
  BY <1>1, AtWorkIsAlone
<1>3. /\ t \in AllTargets
      /\ Unspoiled /\ call[c].op # "configure" => Endpoint(stored) = Endpoint(t)
      /\ Unspoiled /\ call[c].op # "configure" => Endpoint(stored) = Endpoint(manager.target)
      /\ \/ manager.target = NoTarget /\ (call[c].op = "configure" \/ Seed # NoTarget)
         \/ manager.target = t /\ call[c].op # "configure"
      /\ call[c].op = "configure" => t.mode = "none"
  BY <1>1, Going
<1>4. CASE isGateway
  <2> PICK m : m = activateExternalGateway(manager, t)
    OBVIOUS
  <2>1. /\ [t EXCEPT !.mode = "gateway"] \in AllTargets /\ t.endpoint \in Endpoints
    BY <1>3 DEF AllTargets, Modes
  <2>2. publicTarget([t EXCEPT !.mode = "gateway"]) \in Targets
    BY <2>1, PublicTargetIs DEF Targets
  <2>3. /\ m \in ManagerType /\ m.localGateway = NoCall /\ m.status.wrapper = NoCall
        /\ m.target = publicTarget([t EXCEPT !.mode = "gateway"])
    BY <1>1, <1>2, <2>1, <2>2 DEF activateExternalGateway, ManagerType
  <2>4. Endpoint(m.target) = Endpoint(t)
    BY <1>3, <2>3, EndpointOf
  <2>5. Return(c, m)
    BY <1>4 DEF ProbeAnswers
  <2> QED
    BY <1>1, <1>2, <1>3, <2>3, <2>4, <2>5, ReturnKeeps
<1>5. CASE ~isGateway /\ t.mode = "gateway"
  <2>1. Return(c, setUnavailable(manager, t))
    BY <1>5 DEF ProbeAnswers
  <2> QED
    BY <1>1, <1>2, <1>3, <2>1, UnavailableKeeps
<1>6. CASE ~isGateway /\ t.mode # "gateway"
  <2>1. ActivateEngine(c, manager, t)
    BY <1>6 DEF ProbeAnswers
  <2> QED
    BY <1>1, <1>2, <1>3, <1>6, <2>1, ActivateKeeps
<1> QED
  BY <1>4, <1>5, <1>6

LEMMA StartKeeps ==
  ASSUME IInv, Patience, NEW c \in Runners, NEW engineOnline \in BOOLEAN,
         StartAnswers(c, engineOnline)
  PROVE  Patience'
<1> PICK t : t = call[c].target
  OBVIOUS
<1>1. /\ TypeOK /\ manager \in ManagerType /\ AtWork(c) /\ Activating(c)
      /\ UNCHANGED <<stored, quitting>>
  BY DEF IInv, TypeOK, StartAnswers, AtWork, Activating
<1>2. /\ Alone(c) /\ InFlight(c) /\ call[c].pc \notin {"rejected", "resaving"}
      /\ manager.localGateway = NoCall
      /\ \A w \in Runners : wrapper[w] # "running"
      /\ ~quitting.started => manager.status.wrapper = NoCall
  BY <1>1, AtWorkIsAlone
<1>3. /\ t \in AllTargets
      /\ Unspoiled /\ call[c].op # "configure" => Endpoint(stored) = Endpoint(t)
      /\ Unspoiled /\ call[c].op # "configure" => Endpoint(stored) = Endpoint(manager.target)
      /\ \/ manager.target = NoTarget /\ (call[c].op = "configure" \/ Seed # NoTarget)
         \/ manager.target = t /\ call[c].op # "configure"
      /\ call[c].op = "configure" => t.mode = "none"
  BY <1>1, Going
<1>4. CASE engineOnline
  <2> PICK m : m = engineActivated(manager, t, c)
    OBVIOUS
  <2>1. /\ [t EXCEPT !.mode = "engine"] \in AllTargets /\ t.endpoint \in Endpoints
    BY <1>3 DEF AllTargets, Modes
  <2>2. publicTarget([t EXCEPT !.mode = "engine"]) \in Targets
    BY <2>1, PublicTargetIs DEF Targets
  <2>3. /\ m \in ManagerType /\ m.localGateway = c /\ m.status.wrapper = c
        /\ m.target = publicTarget([t EXCEPT !.mode = "engine"])
    BY <1>1, <2>1, <2>2 DEF engineActivated, ManagerType
  <2>4. Endpoint(m.target) = Endpoint(t)
    BY <1>3, <2>3, EndpointOf
  <2>5. Return(c, m) /\ wrapper' = [wrapper EXCEPT ![c] = "running"]
    BY <1>4 DEF StartAnswers
  <2>6. \A w \in Runners : wrapper'[w] = "running" => m.localGateway = w
    BY <1>1, <1>2, <2>3, <2>5 DEF TypeOK
  <2> QED
    BY <1>1, <1>2, <1>3, <2>3, <2>4, <2>5, <2>6, ReturnKeeps
<1>5. CASE ~engineOnline
  <2>1. Await(c, manager, t, "closingOffline") /\ wrapper' = [wrapper EXCEPT ![c] = "closing"]
    BY <1>5 DEF StartAnswers
  <2>2. \A w \in Runners : wrapper'[w] # "running"
    BY <1>1, <1>2, <2>1 DEF TypeOK
  <2>3. t.mode # "gateway"
    BY DEF Patience, Course, StartAnswers
  <2> QED
    BY <1>1, <1>2, <1>3, <2>1, <2>2, <2>3, AwaitKeeps
<1> QED
  BY <1>4, <1>5

LEMMA FailedStartKeeps ==
  ASSUME IInv, Patience, NEW c \in Runners, StartFails(c) \/ OfflineClosed(c)
  PROVE  Patience'
<1>1. /\ TypeOK /\ manager \in ManagerType /\ AtWork(c) /\ Activating(c)
      /\ UNCHANGED <<stored, quitting>>
      /\ Return(c, setUnavailable(manager, call[c].target))
  BY DEF IInv, TypeOK, StartFails, OfflineClosed, AtWork, Activating
<1>2. /\ Alone(c) /\ InFlight(c) /\ call[c].pc \notin {"rejected", "resaving"}
      /\ \A w \in Runners : wrapper[w] # "running"
  BY <1>1, AtWorkIsAlone
<1>3. \A w \in Runners : wrapper'[w] # "running"
  BY <1>1, <1>2 DEF StartFails, OfflineClosed, TypeOK
<1>4. /\ call[c].target \in AllTargets
      /\ Unspoiled /\ call[c].op # "configure" => Endpoint(stored) = Endpoint(call[c].target)
  BY <1>1, Going
<1> QED
  BY <1>1, <1>2, <1>3, <1>4, UnavailableKeeps

(* A step outside the manager: it touches one call, which was alone, is not  *)
(* at work and does not go to work.                                          *)
LEMMA OutsideKeeps ==
  ASSUME Patience, NEW c \in Runners, Alone(c), ~AtWork(c), call[Boot].pc # "idle",
         \A d \in Runners \ {c} : call'[d] = call[d],
         call'[c].pc \in {"answered", "rejected", "resaving"}, call'[c].op = "none",
         UNCHANGED <<manager, wrapper, quitting>>, Choice'
  PROVE  Patience'
<1>1. \A d \in Runners \ {c} : ~InFlight(d)' /\ ~InFlight(d)
  BY DEF Alone, InFlight
<1>2. \A d \in Runners : /\ ~AtWork(d)' /\ ~Activating(d)' /\ ~AtWork(d)
                         /\ call'[d].pc \notin {"stopping", "starting", "closingOffline"}
  BY <1>1 DEF InFlight, AtWork, Activating
<1>3. OneCall'
  <2>1. \A d, e \in Runners : InFlight(d)' /\ InFlight(e)' => d = e
    BY <1>1
  <2>2. call'[Boot].pc # "idle" /\ call'[Boot].op = "none" /\ call'[Boot].pc # "stopping"
    BY DEF Patience, OneCall, Runners
  <2>3. \A d \in Runners : call'[d].pc # "joined"
    BY DEF Patience, OneCall
  <2> QED
    BY <2>1, <2>2, <2>3 DEF OneCall
<1>4. Wrappers'
  BY <1>2 DEF Patience, Wrappers, Broken
<1>5. \A d \in Runners : Course(d)'
  BY <1>2 DEF Course
<1> QED
  BY <1>3, <1>4, <1>5 DEF Patience

LEMMA SavedKeeps ==
  ASSUME IInv, Patience, NEW c \in Runners, Saved(c) \/ SaveFails(c) PROVE Patience'
<1>1. /\ TypeOK /\ InFlight(c) /\ ~AtWork(c)
      /\ c # Boot => call[Boot].pc # "idle"
      /\ call[c].pc \in {"saving", "resaving", "deleting"}
      /\ UNCHANGED <<manager, wrapper, quitting>>
  BY BootIsReady DEF IInv, Patience, Saved, SaveFails, InFlight, AtWork, Activating
<1>2. Alone(c) /\ call[Boot].pc # "idle"
  BY <1>1, InFlightIsAlone DEF Patience
<1>3. /\ \A d \in Runners \ {c} : call'[d] = call[d]
      /\ call'[c].pc \in {"answered", "rejected", "resaving"} /\ call'[c].op = "none"
      /\ call'[c].pc = "answered" => stored' = call[c].target /\ call[c].pc # "resaving"
  BY <1>1 DEF Saved, SaveFails, TypeOK, At
<1>4. Choice'
  <2>1. CASE ~Unspoiled'
    BY <2>1 DEF Choice
  <2>2. CASE Unspoiled'
    <3>1. call'[c].pc = "answered" /\ call[c].pc \in {"saving", "deleting"}
      BY <1>1, <1>3, <2>2 DEF Unspoiled
    <3>2. Unspoiled
      BY <1>1, <1>3, <2>2, <3>1 DEF Unspoiled
    <3>3. Endpoint(stored') = Endpoint(manager'.target)
      BY <1>1, <1>3, <3>1, <3>2 DEF Patience, Choice
    <3>4. \A d \in Runners : call'[d].pc \notin {"saving", "deleting"}
      BY <1>2, <1>3, <3>1 DEF Alone, InFlight
    <3> QED
      BY <3>3, <3>4 DEF Choice, Endpoint
  <2> QED
    BY <2>1, <2>2
<1> QED
  BY <1>1, <1>2, <1>3, <1>4, OutsideKeeps

(* A call that a patient user may make meets no other and no reconnect.      *)
LEMMA PatientCalls ==
  ASSUME IInv, Patience, patient, NEW c \in Calls, MayCall(c)
  PROVE  /\ c \in Runners /\ c # Boot /\ Alone(c) /\ call[c].pc = "idle"
         /\ call[Boot].pc = "answered" /\ \A d \in Runners : ~InFlight(d)
         /\ manager.reconnectPromise = NoCall
<1>1. /\ c \in Runners /\ c # Boot /\ call[c].pc = "idle" /\ call[Boot].pc = "answered"
      /\ ~quitting.started /\ \A d \in Calls : ~InFlight(d)
  BY BootAssumption DEF MayCall, Runners
<1>2. \A d \in Runners : ~InFlight(d)
  BY <1>1 DEF Runners, InFlight
<1>3. \A d \in Runners : call[d].pc # "joined"
  BY DEF Patience, OneCall
<1>4. manager.reconnectPromise = NoCall
  BY <1>1 DEF IInv, TypeOK, ManagerType, ExitedIsStill, PromiseIsKept, Reconnecting, InFlight
<1> QED
  BY <1>1, <1>2, <1>3, <1>4 DEF Alone

LEMMA BeginKeeps ==
  ASSUME IInv, Patience, patient, NEW c \in Calls, MayCall(c), NEW op, NEW t, Stop(c, op, t),
         op = "reconnect" => t = manager.target, op = "configure" => t.mode = "none",
         UNCHANGED <<stored, quitting>>
  PROVE  Patience'
<1>1. /\ c \in Runners /\ c # Boot /\ Alone(c) /\ call[c].pc = "idle"
      /\ call[Boot].pc = "answered" /\ \A d \in Runners : ~InFlight(d)
      /\ TypeOK /\ manager \in ManagerType
  BY PatientCalls DEF IInv, TypeOK
<1>2. /\ call'[c].pc = "stopping" /\ call'[c].target = t /\ call'[c].op = op
      /\ \A d \in Runners \ {c} : call'[d] = call[d]
      /\ manager'.target = manager.target /\ manager'.status = manager.status
  BY <1>1, StopCalls
<1>3. call'[c].closing = manager.localGateway /\ manager'.localGateway = NoCall
  BY <1>1 DEF Stop, TypeOK, ManagerType
<1>4. \A d \in Runners \ {c} :
        ~InFlight(d)' /\ ~AtWork(d)' /\ ~Activating(d)'
        /\ call'[d].pc \notin {"stopping", "starting", "closingOffline", "saving", "deleting"}
  BY <1>1, <1>2 DEF InFlight, AtWork, Activating
<1>5. \A d \in Runners : ~AtWork(d) /\ ~Choosing(d)
  BY <1>1 DEF InFlight, AtWork, Activating, Choosing
<1>6. OneCall'
  <2>1. \A d, e \in Runners : InFlight(d)' /\ InFlight(e)' => d = e
    BY <1>4
  <2>2. call'[Boot] = call[Boot]
    BY <1>1, <1>2 DEF Runners
  <2>3. \A d \in Runners : call'[d].pc # "joined"
    BY <1>2 DEF Patience, OneCall
  <2> QED
    BY <1>1, <2>1, <2>2, <2>3 DEF Patience, OneCall
<1>7. Wrappers'
  <2>1. \A w \in Runners : /\ wrapper'[w] # "running"
                           /\ w # manager.localGateway => wrapper'[w] = wrapper[w]
    BY DEF Stop, Patience, Wrappers
  <2>2. ~quitting.started =>
          manager.status.wrapper = manager.localGateway \/ Broken(manager.status.wrapper)
    BY <1>5 DEF Patience, Wrappers
  <2>3. PICK u : u = manager.status.wrapper
    OBVIOUS
  <2>4. ~quitting.started => u = manager.localGateway \/ Broken(u)'
    BY <2>1, <2>2, <2>3 DEF Broken
  <2>5. ~quitting'.started /\ manager'.status.wrapper = u =>
          manager'.status.wrapper = call'[c].closing \/ Broken(manager.status.wrapper)'
    BY <1>3, <2>4 DEF Broken
  <2>6. AtWork(c)' /\ ~Activating(c)'
    BY <1>2 DEF AtWork, Activating
  <2> QED
    BY <1>1, <1>2, <1>3, <1>4, <2>1, <2>3, <2>5, <2>6 DEF Wrappers
<1>8. \A d \in Runners : Course(d)'
  BY <1>2, <1>4 DEF Course, AtWork, Activating
<1>9. Choice'
  <2>1. Unspoiled' => Unspoiled
    BY <1>1, <1>2 DEF Unspoiled
  <2>2. Unspoiled => Endpoint(stored) = Endpoint(manager.target)
    BY <1>5 DEF Patience, Choice
  <2> QED
    BY <1>2, <1>4, <2>1, <2>2 DEF Choice, Endpoint
<1> QED
  BY <1>6, <1>7, <1>8, <1>9 DEF Patience

LEMMA CallsKeep ==
  ASSUME IInv, Patience, patient, NEW c \in Calls,
         Configure(c) \/ ConfigureInvalid(c) \/ Clear(c) \/ Reconnect(c)
  PROVE  Patience'
<1>1. /\ MayCall(c) /\ c \in Runners /\ c # Boot /\ Alone(c) /\ call[c].pc = "idle"
      /\ call[Boot].pc = "answered" /\ \A d \in Runners : ~InFlight(d)
      /\ manager.reconnectPromise = NoCall /\ TypeOK
  BY PatientCalls DEF IInv, Configure, ConfigureInvalid, Clear, Reconnect
<1>2. \A d \in Runners : ~AtWork(d) /\ ~Choosing(d)
  BY <1>1 DEF InFlight, AtWork, Activating, Choosing
<1>3. CASE Configure(c)
  BY <1>1, <1>3, BeginKeeps DEF Configure, Inputs
<1>4. CASE Clear(c)
  BY <1>1, <1>4, BeginKeeps DEF Clear
<1>5. CASE ConfigureInvalid(c)
  <2>1. /\ call'[c].pc = "resaving" /\ call'[c].op = "none"
        /\ \A d \in Runners \ {c} : call'[d] = call[d]
        /\ UNCHANGED <<manager, wrapper, quitting>>
    BY <1>1, <1>5 DEF ConfigureInvalid, TypeOK, At
  <2>2. Choice'
    BY <1>1, <2>1 DEF Choice, Unspoiled
  <2> QED
    BY <1>1, <1>2, <2>1, <2>2, OutsideKeeps
<1>6. CASE Reconnect(c) /\ manager.target # NoTarget
  <2>1. Stop(c, "reconnect", manager.target) /\ UNCHANGED <<stored, quitting>>
    BY <1>1, <1>6 DEF Reconnect
  <2> QED
    BY <1>1, <2>1, BeginKeeps
<1>7. CASE Reconnect(c) /\ manager.target = NoTarget
  <2>1. /\ call'[c].pc = "answered" /\ call'[c].op = "none"
        /\ \A d \in Runners \ {c} : call'[d] = call[d]
        /\ UNCHANGED <<manager, wrapper, quitting, stored>>
    BY <1>1, <1>7 DEF Reconnect, TypeOK, At
  <2>2. Choice'
    <3>1. Unspoiled' => Unspoiled
      BY <1>1, <2>1 DEF Unspoiled
    <3>2. Unspoiled => Endpoint(stored) = Endpoint(manager.target)
      BY <1>2 DEF Patience, Choice
    <3>3. \A d \in Runners : call'[d].pc \notin {"saving", "deleting"}
      BY <1>1, <2>1 DEF InFlight
    <3> QED
      BY <2>1, <3>1, <3>2, <3>3 DEF Choice, Endpoint
  <2> QED
    BY <1>1, <1>2, <2>1, <2>2, OutsideKeeps
<1> QED
  BY <1>3, <1>4, <1>5, <1>6, <1>7

-----------------------------------------------------------------------------
(* The process. *)

(* A process that has exited runs no wrapper. *)
ExitedRunsNothing == quitting.exited => \A w \in Runners : wrapper[w] = "none"

LEMMA ExitedRunsNothingStep ==
  ASSUME IInv, ExitedRunsNothing, [Next]_vars
  PROVE  ExitedRunsNothing'
<1>1. CASE quitting.exited /\ ~Launch
  <2>1. /\ quitting.started /\ \A c \in Runners : ~InFlight(c)
        /\ \A w \in Runners : wrapper[w] = "none"
    BY <1>1 DEF IInv, ExitedIsStill, ExitedRunsNothing
  <2>2. \A c \in Calls : ~Configure(c) /\ ~ConfigureInvalid(c) /\ ~Clear(c) /\ ~Reconnect(c)
    BY <2>1 DEF Configure, ConfigureInvalid, Clear, Reconnect, MayCall
  <2>3. \A c \in Calls : ~StopFails(c)
    BY <2>1 DEF StopFails, InFlight, Runners
  <2>4. ~Initialize /\ ~Quit /\ ~QuitCloses /\ ~Crash
    BY <1>1, <2>1 DEF Initialize, Quit, QuitCloses, Crash
  <2>5. UNCHANGED vars
    BY <1>1, <2>2, <2>3, <2>4 DEF Next
  <2> QED
    BY <2>1, <2>5 DEF vars, ExitedRunsNothing
<1>2. CASE Launch
  BY <1>2 DEF Launch, Launched, ExitedRunsNothing
<1>3. CASE ~quitting.exited /\ (Quit \/ ProcessEnds)
  BY <1>3 DEF Quit, ProcessEnds, ExitedRunsNothing
<1>4. CASE ~quitting.exited /\ quitting' = quitting
  BY <1>4 DEF ExitedRunsNothing
<1>5. quitting' = quitting \/ Quit \/ ProcessEnds \/ Launch
  BY Steps DEF Begin, ConfigureInvalid, JoinOrSkip, StopFails, Saved, SaveFails
<1> QED
  BY <1>1, <1>2, <1>3, <1>4, <1>5

LEMMA QuitKeeps ==
  ASSUME IInv, Patience, Quit PROVE Patience'
<1>1. /\ manager'.target = manager.target /\ manager'.localGateway = NoCall
      /\ call' = call /\ stored' = stored /\ call[Boot].pc # "idle"
      /\ quitting'.started /\ ~quitting.exited
  BY DEF IInv, TypeOK, ManagerType, ExitedIsStill, Quit
<1>2. OneCall'
  BY <1>1 DEF Patience, OneCall, InFlight
<1>3. Wrappers'
  <2>1. \A w \in Runners : wrapper'[w] # "running"
    BY DEF Quit, Patience, Wrappers
  <2> QED
    BY <1>1, <2>1 DEF Wrappers
<1>4. \A c \in Runners : Course(c)'
  BY <1>1 DEF Patience, Course, AtWork, Activating
<1>5. Choice'
  BY <1>1 DEF Patience, Choice, Unspoiled, Choosing, Activating, Endpoint
<1> QED
  BY <1>2, <1>3, <1>4, <1>5 DEF Patience

LEMMA EndKeeps ==
  ASSUME IInv, Patience, ProcessEnds PROVE Patience'
<1>1. /\ manager' = manager /\ quitting'.started /\ quitting'.exited
      /\ \A w \in Runners : wrapper'[w] = "none"
      /\ \A c \in Runners : call'[c] = call[c] \/ (call'[c].pc = "lost" /\ call'[c].op = "none")
      /\ \A c \in Runners : ~InFlight(c)' /\ ~AtWork(c)' /\ ~Activating(c)'
                            /\ call'[c].pc \notin {"stopping", "starting", "closingOffline"}
  BY DEF ProcessEnds, InFlight, AtWork, Activating, At
<1>2. OneCall'
  BY <1>1 DEF Patience, OneCall, Runners
<1>3. Wrappers'
  BY <1>1 DEF Wrappers
<1>4. \A c \in Runners : Course(c)'
  BY <1>1 DEF Course
<1>5. Choice'
  BY <1>1 DEF Choice, Unspoiled
<1> QED
  BY <1>2, <1>3, <1>4, <1>5 DEF Patience

LEMMA LaunchKeeps ==
  ASSUME IInv, Patience, ExitedRunsNothing, Launch PROVE Patience'
<1>1. /\ manager'.target = stored /\ stored' = stored
      /\ manager'.localGateway = NoCall /\ manager'.status.wrapper = NoCall
      /\ \A w \in Runners : wrapper'[w] = "none"
      /\ call'[Boot].pc = "idle" /\ call'[Boot].op = "none"
      /\ \A c \in Runners \ {Boot} : call'[c] = call[c]
      /\ \A c \in Runners : ~InFlight(c)
  BY DEF IInv, TypeOK, ExitedIsStill, ExitedRunsNothing, Launch, NewManager, Unconfigured,
         Idle, At, Runners
<1>2. \A c \in Runners : /\ ~InFlight(c)' /\ ~AtWork(c)' /\ ~Activating(c)'
                         /\ call'[c].pc \notin {"stopping", "starting", "closingOffline",
                                                "saving", "deleting"}
  BY <1>1 DEF InFlight, AtWork, Activating
<1>3. OneCall'
  BY <1>1, <1>2 DEF Patience, OneCall
<1>4. Wrappers'
  BY <1>1, <1>2 DEF Wrappers
<1>5. \A c \in Runners : Course(c)'
  BY <1>2 DEF Course
<1>6. Choice'
  BY <1>1, <1>2 DEF Choice, Endpoint
<1> QED
  BY <1>3, <1>4, <1>5, <1>6 DEF Patience

LEMMA PatienceStep ==
  ASSUME IInv, Patience, patient, ExitedRunsNothing, Next PROVE Patience'
<1>1. ASSUME NEW c \in Runners, CallStep(c) PROVE Patience'
  BY <1>1, StoppedKeeps, ProbeKeeps, StartKeeps, FailedStartKeeps, SavedKeeps DEF CallStep
<1>2. ASSUME NEW c \in Calls, StopFails(c) PROVE Patience'
  BY <1>2, StopFailsKeeps DEF Runners
<1> QED
  BY <1>1, <1>2, InitializeKeeps, CallsKeep, QuitKeeps, EndKeeps, LaunchKeeps
     DEF Next, QuitCloses, Crash

LEMMA PatientInvariant == Spec => [](ExitedRunsNothing /\ PInv)
<1>1. ASSUME Init PROVE ExitedRunsNothing /\ PInv
  <2>1. /\ \A c \in Runners : call[c].pc = "idle" /\ call[c].op = "none"
        /\ \A w \in Runners : wrapper[w] = "none"
        /\ manager.localGateway = NoCall /\ manager.status.wrapper = NoCall
        /\ manager.target = stored /\ ~quitting.exited /\ Boot \in Runners
    BY <1>1 DEF Init, Idle, At, NewManager, Unconfigured, Launched, Runners
  <2>2. OneCall
    BY <2>1 DEF OneCall, InFlight
  <2>3. Wrappers
    BY <2>1 DEF Wrappers, AtWork, Activating
  <2>4. \A c \in Runners : Course(c)
    BY <2>1 DEF Course, AtWork, Activating
  <2>5. Choice
    BY <2>1 DEF Choice
  <2> QED
    BY <2>1, <2>2, <2>3, <2>4, <2>5 DEF ExitedRunsNothing, PInv, Patience
<1>2. ASSUME IInv, ExitedRunsNothing, PInv, [Next]_vars PROVE PInv'
  <2>1. patient' = patient
    BY <1>2 DEF Next, Initialize, Configure, ConfigureInvalid, Clear, Reconnect, StopFails,
       CallStep, Stopped, ProbeAnswers, StartAnswers, StartFails, OfflineClosed, Saved,
       SaveFails, Quit, QuitCloses, Crash, ProcessEnds, Launch, vars
  <2>2. CASE UNCHANGED vars
    BY <1>2, <2>2 DEF vars, PInv, Patience, OneCall, Wrappers, Course, Choice, Unspoiled,
       Choosing, AtWork, Activating, Broken, InFlight, Endpoint
  <2>3. CASE ~patient
    BY <2>1, <2>3 DEF PInv
  <2>4. CASE Next /\ patient
    BY <1>2, <2>1, <2>4, PatienceStep DEF PInv
  <2> QED
    BY <1>2, <2>2, <2>3, <2>4
<1> QED
  BY <1>1, <1>2, ExitedRunsNothingStep, IInvInvariant, PTL DEF Spec

(* For a patient user the running wrapper, the one the manager holds and the *)
(* one whose URL the status offers are the same.                             *)
THEOREM OfferedWrapperAlwaysHeld == Spec => []WrapperIsTheOneOffered
<1>1. ASSUME IInv, PInv PROVE OneWrapper
  BY <1>1 DEF PInv, Patience, Wrappers, OneWrapper
<1>2. ASSUME IInv, PInv PROVE OfferedWrapperIsHeld
  <2> SUFFICES ASSUME patient, ~quitting.started, \A c \in Calls : call[c].pc # "stopping"
               PROVE  \/ manager.status.wrapper = manager.localGateway
                      \/ Broken(manager.status.wrapper)
    BY DEF OfferedWrapperIsHeld, Broken
  <2>1. Wrappers /\ \A c \in Runners : call[c].pc # "stopping"
    BY <1>2 DEF PInv, Patience, OneCall, Runners
  <2>2. CASE \E c \in Runners : Activating(c)
    BY <2>1, <2>2 DEF Wrappers, AtWork
  <2>3. CASE \A c \in Runners : ~Activating(c)
    BY <2>1, <2>3 DEF Wrappers, AtWork
  <2> QED
    BY <2>2, <2>3
<1> QED
  BY <1>1, <1>2, IInvInvariant, PatientInvariant, PTL DEF WrapperIsTheOneOffered

(* For a patient user with nothing in flight the secure store names the      *)
(* endpoint in use, unless a call said that it failed.                       *)
THEOREM ChoiceAlwaysDurable == Spec => []ChoiceIsDurable
<1>1. ASSUME PInv PROVE ChoiceIsDurable
  <2> SUFFICES ASSUME patient, Seed = NoTarget, ~quitting.exited,
                      \A c \in Runners : ~InFlight(c) /\ call[c].pc # "rejected"
               PROVE  Endpoint(stored) = Endpoint(manager.target)
    BY DEF ChoiceIsDurable
  <2>1. Unspoiled /\ \A c \in Runners : ~Choosing(c)
    BY DEF Unspoiled, Choosing, Activating, InFlight
  <2> QED
    BY <1>1, <2>1 DEF PInv, Patience, Choice
<1> QED
  BY <1>1, PatientInvariant, PTL

(* What a patient user's step does to a target found to be a Gateway.        *)
StaysGateway ==
  manager.target # NoTarget /\ manager'.target # NoTarget /\ manager.target.mode = "gateway"
    => manager'.target.mode = "gateway"

(* The call at work, if it is not one that configures, goes to that target,  *)
(* and a Gateway's target is probed and never started.                       *)
LEMMA ConnectStays ==
  ASSUME NEW c \in Runners, NEW m \in ManagerType, NEW t \in AllTargets, Connect(c, m, t),
         \/ m.target = NoTarget /\ t.mode = "none"
         \/ m.target = t
  PROVE  manager'.target # NoTarget /\ t.mode = "gateway" => manager'.target.mode = "gateway"
<1>1. CASE Probes(t)
  BY <1>1 DEF Connect, Await
<1>2. CASE ~Probes(t)
  BY <1>2 DEF Probes
<1> QED
  BY <1>1, <1>2

LEMMA StoppedStays ==
  ASSUME IInv, Patience, NEW c \in Runners, Stopped(c) PROVE StaysGateway
<1> PICK t : t = call[c].target
  OBVIOUS
<1>1. manager \in ManagerType /\ Course(c) /\ AtWork(c) /\ call[c].pc = "stopping"
  BY DEF IInv, TypeOK, Patience, AtWork, Stopped
<1>2. ASSUME call[c].op \in {"configure", "reconnect"}
      PROVE  t \in AllTargets /\ Detecting(t).endpoint = t.endpoint /\ t.endpoint \in Endpoints
  BY <1>1, <1>2 DEF IInv, CallsHaveTargets, AllTargets, Detecting
<1>3. CASE call[c].op = "reconnect"
  <2> PICK m : m = [manager EXCEPT !.status = Detecting(t)]
    OBVIOUS
  <2>1. m \in ManagerType /\ m.target = t /\ t = manager.target
    BY <1>1, <1>2, <1>3 DEF ManagerType, Detecting, Course
  <2>2. Connect(c, m, t)
    BY <1>3 DEF Stopped
  <2> QED
    BY <1>2, <1>3, <2>1, <2>2, ConnectStays DEF StaysGateway
<1>4. CASE call[c].op = "configure"
  <2> PICK m : m = [manager EXCEPT !.status = Detecting(t), !.target = NoTarget]
    OBVIOUS
  <2>1. m.target = NoTarget /\ t.mode = "none"
    BY <1>1, <1>4 DEF ManagerType, Course
  <2>2. Connect(c, m, t)
    BY <1>4 DEF Stopped
  (* What is not probed has no http scheme and needs no certificates. *)
  <2>3. ~Probes(t) => EngineTransport(t)
    BY <1>2, <1>4, <2>1, SchemeAssumption DEF Probes, EngineTransport
  <2>4. manager'.target = NoTarget
    BY <2>1, <2>2, <2>3 DEF Connect, ActivateEngine, Await
  <2> QED
    BY <2>4 DEF StaysGateway
<1>5. CASE call[c].op \notin {"configure", "reconnect"}
  <2>1. manager'.target = NoTarget
    BY <1>1, <1>5 DEF Stopped, Leave, ManagerType
  <2> QED
    BY <2>1 DEF StaysGateway
<1> QED
  BY <1>3, <1>4, <1>5

LEMMA InitializeStays ==
  ASSUME IInv, Patience, Initialize PROVE StaysGateway
<1> SUFFICES ASSUME manager.target # NoTarget PROVE StaysGateway
  BY DEF StaysGateway
<1>1. manager \in ManagerType /\ manager.target \in AllTargets /\ Boot \in Runners
  BY DEF IInv, TypeOK, ManagerType, Targets, Runners
<1>2. Connect(Boot, manager, manager.target)
  BY DEF Initialize
<1> QED
  BY <1>1, <1>2, ConnectStays DEF StaysGateway

(* A method that returns sets the target of its piece. *)
LEMMA ReturnTarget ==
  ASSUME NEW c \in Runners, NEW m \in ManagerType, Return(c, m)
  PROVE  manager'.target = m.target
BY LeaveCalls DEF Return

LEMMA ActivatingStays ==
  ASSUME IInv, Patience, NEW c \in Runners,
         \/ \E isGateway \in BOOLEAN : ProbeAnswers(c, isGateway)
         \/ \E engineOnline \in BOOLEAN : StartAnswers(c, engineOnline)
         \/ StartFails(c) \/ OfflineClosed(c)
  PROVE  StaysGateway
<1> SUFFICES ASSUME manager.target # NoTarget, manager.target.mode = "gateway"
             PROVE  StaysGateway
  BY DEF StaysGateway
<1> PICK t : t = call[c].target
  OBVIOUS
<1>1. manager \in ManagerType /\ Activating(c) /\ Course(c) /\ AtWork(c)
  BY DEF IInv, TypeOK, Patience, AtWork, Activating, ProbeAnswers, StartAnswers, StartFails,
         OfflineClosed
<1>2. t \in AllTargets /\ t = manager.target
  BY <1>1, Going
<1>3. call[c].pc = "probing"
  BY <1>1, <1>2 DEF Course, Activating
<1>4. PICK isGateway \in BOOLEAN : ProbeAnswers(c, isGateway)
  BY <1>3 DEF StartAnswers, StartFails, OfflineClosed
<1>5. publicTarget(t).mode = "gateway" /\ publicTarget(t) \in Targets
  BY <1>2, EndpointOf, PublicTargetIs DEF Targets
<1>6. t.endpoint \in Endpoints /\ [t EXCEPT !.mode = "gateway"] = t
  BY <1>2 DEF AllTargets
<1>7. PICK m \in {activateExternalGateway(manager, t), setUnavailable(manager, t)} :
        Return(c, m)
  BY <1>2, <1>4 DEF ProbeAnswers
<1>8. m \in ManagerType /\ m.target = publicTarget(t)
  <2>1. CASE m = activateExternalGateway(manager, t)
    BY <1>1, <1>5, <1>6, <2>1 DEF activateExternalGateway, ManagerType
  <2>2. CASE m = setUnavailable(manager, t)
    BY <1>1, <1>5, <1>6, <2>2 DEF setUnavailable, ManagerType
  <2> QED
    BY <1>7, <2>1, <2>2
<1> QED
  BY <1>5, <1>7, <1>8, ReturnTarget DEF StaysGateway

(* A target found to be a Gateway is never reinterpreted as an Engine by a   *)
(* patient user's calls, whatever its probes say later.                      *)
THEOREM GatewaysStay == Spec => GatewayStaysGateway
<1>1. ASSUME IInv, PInv, patient, Next, launches' = launches PROVE StaysGateway
  <2>1. Patience
    BY <1>1 DEF PInv
  <2>2. ASSUME NEW c \in Runners, CallStep(c) PROVE StaysGateway
    BY <1>1, <2>1, <2>2, StoppedStays, ActivatingStays
       DEF CallStep, Saved, SaveFails, StaysGateway
  <2>3. ASSUME NEW c \in Calls,
               \/ Configure(c) \/ ConfigureInvalid(c) \/ Clear(c) \/ Reconnect(c)
               \/ StopFails(c)
        PROVE  StaysGateway
    <3>1. manager \in ManagerType /\ c \in Runners
      BY <1>1 DEF IInv, TypeOK, Runners
    <3>2. CASE StopFails(c)
      BY <3>1, <3>2, LeaveCalls DEF StopFails, StaysGateway
    <3>3. ASSUME NEW op, NEW t, Stop(c, op, t) PROVE manager'.target = manager.target
      BY <3>1, <3>3 DEF Stop, ManagerType
    <3>4. CASE Configure(c) \/ ConfigureInvalid(c) \/ Clear(c) \/ Reconnect(c)
      BY <3>3, <3>4 DEF Configure, ConfigureInvalid, Clear, Reconnect, StaysGateway
    <3> QED
      BY <2>3, <3>2, <3>4
  <2>4. CASE Quit
    BY <1>1, <2>4 DEF Quit, IInv, TypeOK, ManagerType, StaysGateway
  <2>5. CASE QuitCloses \/ Crash
    BY <2>5 DEF QuitCloses, Crash, ProcessEnds, StaysGateway
  <2>6. ~Launch
    <3>1. launches \in Nat
      BY <1>1, LaunchAssumption DEF IInv, TypeOK
    <3>2. launches + 1 # launches
      BY <3>1
    <3> QED
      BY <1>1, <3>2 DEF Launch
  <2> QED
    BY <1>1, <2>1, <2>2, <2>3, <2>4, <2>5, <2>6, InitializeStays DEF Next
<1>2. ASSUME UNCHANGED vars PROVE StaysGateway
  BY <1>2 DEF vars, StaysGateway
<1>3. ASSUME IInv, PInv, [Next]_vars
      PROVE  [/\ patient /\ launches' = launches
              /\ manager.target # NoTarget /\ manager'.target # NoTarget
              /\ manager.target.mode = "gateway"
              => manager'.target.mode = "gateway"]_vars
  BY <1>1, <1>2, <1>3 DEF StaysGateway
<1> QED
  BY <1>3, IInvInvariant, PatientInvariant, PTL DEF Spec, GatewayStaysGateway

=============================================================================
