-------------------------- MODULE ConnectionManager --------------------------
(***************************************************************************)
(* The desktop's ConnectionManager                                         *)
(* (apps/desktop/src/main/connection-manager.ts), the IPC handlers and the *)
(* launch and quit hooks that drive it (main.ts), and the in-process       *)
(* Gateway wrappers it starts for raw Docker Engines (managed-gateway.ts). *)
(*                                                                         *)
(* Nothing serialises configure, clear, reconnect and quit against each    *)
(* other: each is a sequence of steps cut at its awaits (closing a         *)
(* wrapper, probing an endpoint, starting a wrapper, writing the secure    *)
(* store).  Nothing makes a user wait for an answer; what only holds for   *)
(* one who does says so (patient).  What endpoints answer is free: a       *)
(* Gateway may appear, an Engine may be down, a start may throw.           *)
(***************************************************************************)
EXTENDS Integers

CONSTANTS
  Endpoints,     \* connection URLs
  Http,          \* those with an http(s) scheme, which are probed
  NeedsTls,      \* remote https endpoints: Engines there need certificates
  PlainRemote,   \* remote http endpoints: never accepted for an Engine
  Calls,         \* IPC calls of connection:configure, :clear, :reconnect
  Boot,          \* initialize(), called once by each launch
  NoCall, NoTarget,
  Seed,          \* HARBOR_GATEWAY_URL as a target, or NoTarget
  MaxLaunches    \* bound: how often the app is launched

Modes     == {"none", "gateway", "engine"}     \* detectedMode
AllTargets == [endpoint : Endpoints, tls : BOOLEAN, mode : Modes]

ASSUME BootAssumption     == Boot \notin Calls /\ NoCall \notin Calls \cup {Boot}
ASSUME NoTargetAssumption == NoTarget \notin AllTargets
ASSUME SeedAssumption     == Seed \in {NoTarget} \cup
                               {t \in AllTargets : ~t.tls /\ t.mode = "none"}
ASSUME SchemeAssumption   == NeedsTls \cup PlainRemote \subseteq Http
ASSUME LaunchAssumption   == MaxLaunches \in Nat \ {0}

VARIABLES
  manager,       \* the ConnectionManager's target, localGateway (named by the call
                 \* that started it), reconnectPromise (the call running it), status
  wrapper,       \* wrapper[c]: the Gateway wrapper call c started
  call,          \* call[c]: where c stands
  stored,        \* the secure value "connection-target"
  quitting,      \* will-quit: started, the wrapper it closes, the process exited
  launches,      \* how often the app was launched
  patient        \* the user never has two calls in flight

vars == <<manager, wrapper, call, stored, quitting, launches, patient>>

Runners == Calls \cup {Boot}
Targets == AllTargets \cup {NoTarget}

(* What a user submits: no detected mode; certificates or none. *)
Inputs == {t \in AllTargets : t.mode = "none"}

publicTarget(t) == [t EXCEPT !.tls = t.tls /\ t.mode = "engine"]

PublicTargets == {publicTarget(t) : t \in AllTargets}

(* assertEngineTransport() *)
EngineTransport(t) ==
  t.endpoint \notin PlainRemote /\ (t.endpoint \in NeedsTls => t.tls)

(* Whether the endpoint is asked first if it is a Gateway. *)
Probes(t) == t.mode = "gateway" \/ (t.mode = "none" /\ t.endpoint \in Http)

Unconfigured == [mode |-> "unconfigured", endpoint |-> NoTarget, wrapper |-> NoCall]

Detecting(t) == [mode |-> "detecting", endpoint |-> t.endpoint, wrapper |-> NoCall]

At(pc) == [pc |-> pc, op |-> "none", target |-> NoTarget, closing |-> NoCall]
Idle     == At("idle")
Launched == [started |-> FALSE, closing |-> NoCall, exited |-> FALSE]

NewManager(t) == [target |-> t, localGateway |-> NoCall, reconnectPromise |-> NoCall,
                  status |-> Unconfigured]

(* A call that has begun and is neither answered nor lost with its process. *)
InFlight(c) == call[c].pc \notin {"idle", "answered", "rejected", "lost"}

(* Past its stop, on the way to a status of its own. *)
Activating(c) == call[c].pc \in {"probing", "starting", "closingOffline"}

Init ==
  /\ stored \in PublicTargets \cup {NoTarget}
  /\ manager  = NewManager(stored)
  /\ wrapper  = [c \in Runners |-> "none"]
  /\ call     = [c \in Runners |-> Idle]
  /\ quitting = Launched
  /\ launches = 1
  /\ patient \in BOOLEAN

-----------------------------------------------------------------------------
(* Pieces of the manager's methods: m is the manager as the step leaves it. *)

(* Fault: the target is kept as it was submitted. *)
setUnavailable_Submitted(m, t) ==
  [m EXCEPT !.target = t,
            !.status = [mode |-> "unavailable", endpoint |-> t.endpoint,
                        wrapper |-> m.localGateway]]

(* Fault: a target that does not answer has to be identified again. *)
setUnavailable_Forgotten(m, t) ==
  [m EXCEPT !.target = [publicTarget(t) EXCEPT !.mode = "none"],
            !.status = [mode |-> "unavailable", endpoint |-> t.endpoint,
                        wrapper |-> m.localGateway]]

setUnavailable(m, t) ==
  [m EXCEPT !.target = publicTarget(t),
            !.status = [mode |-> "unavailable", endpoint |-> t.endpoint,
                        wrapper |-> m.localGateway]]

activateExternalGateway(m, t) ==
  [m EXCEPT !.target = publicTarget([t EXCEPT !.mode = "gateway"]),
            !.status = [mode |-> "gateway", endpoint |-> t.endpoint, wrapper |-> NoCall]]

engineActivated(m, t, c) ==
  [m EXCEPT !.localGateway = c,
            !.target = publicTarget([t EXCEPT !.mode = "engine"]),
            !.status = [mode |-> "engine", endpoint |-> t.endpoint, wrapper |-> c]]

(* c awaits pc. *)
Await(c, m, t, pc) ==
  /\ manager' = m
  /\ call' = [call EXCEPT ![c].pc = pc, ![c].target = t, ![c].closing = NoCall]

(* Fault: only the call itself learns that the reconnect is over. *)
Leave_Alone(c, m, pc, t) ==
  /\ manager' = [m EXCEPT !.reconnectPromise = IF @ = c THEN NoCall ELSE @]
  /\ call' = [call EXCEPT ![c] = [At(pc) EXCEPT !.target = t]]

(* c leaves the manager, and with it every reconnect that was coalesced into *)
(* it; t is the target a configure goes on to save.                          *)
Leave(c, m, pc, t) ==
  /\ manager' = [m EXCEPT !.reconnectPromise = IF @ = c THEN NoCall ELSE @]
  /\ call' = [d \in Runners |->
       IF d = c THEN [At(pc) EXCEPT !.target = t]
       ELSE IF m.reconnectPromise = c /\ call[d].pc = "joined"
       THEN At(pc) ELSE call[d]]

(* The method returns: configure goes on to save the target it finds. *)
Return(c, m) ==
  IF call[c].op = "configure" THEN Leave(c, m, "saving", m.target)
  ELSE Leave(c, m, "answered", NoTarget)

(* activateEngine() up to its first await. *)
ActivateEngine(c, m, t) ==
  IF EngineTransport(t) THEN Await(c, m, t, "starting")
  ELSE Return(c, setUnavailable(m, t))

(* Towards a status for t: what initialize, reconnect and configure share. *)
Connect(c, m, t) ==
  IF Probes(t) THEN Await(c, m, t, "probing") ELSE ActivateEngine(c, m, t)

-----------------------------------------------------------------------------
(* Calls. *)

(* stopLocalGateway() up to its await: the reference goes first. *)
Stop(c, op, t) ==
  LET local == manager.localGateway
  IN  /\ manager' = [manager EXCEPT !.localGateway = NoCall,
                       !.reconnectPromise = IF op = "reconnect" THEN c ELSE @]
      /\ wrapper' = [w \in Runners |-> IF w = local THEN "closing" ELSE wrapper[w]]
      /\ call' = [call EXCEPT ![c] = [pc |-> "stopping", op |-> op, target |-> t,
                                      closing |-> local]]

(* Launch: initialize() with the saved target, else with the seed. *)
Initialize ==
  LET t == IF manager.target # NoTarget THEN manager.target ELSE Seed
  IN  /\ call[Boot].pc = "idle"
      /\ ~quitting.started
      /\ IF t = NoTarget
         THEN /\ call' = [call EXCEPT ![Boot].pc = "answered"]
              /\ UNCHANGED manager
         ELSE Connect(Boot, manager, t)
      /\ UNCHANGED <<wrapper, stored, quitting, launches, patient>>

(* IPC handlers are registered once initialize() has returned; will-quit    *)
(* comes when every window, and so every caller, is gone.                    *)
MayCall(c) ==
  /\ call[c].pc = "idle"
  /\ call[Boot].pc = "answered"
  /\ ~quitting.started
  /\ patient => \A d \in Calls : ~InFlight(d)

Configure(c) ==
  /\ MayCall(c)
  /\ \E t \in Inputs : Stop(c, "configure", t)
  /\ UNCHANGED <<stored, quitting, launches, patient>>

(* normalizeTarget() throws: nothing of the manager changes, but the handler *)
(* still saves the target it has.                                            *)
ConfigureInvalid(c) ==
  /\ MayCall(c)
  /\ call' = [call EXCEPT ![c] = [At("resaving") EXCEPT !.target = manager.target]]
  /\ UNCHANGED <<manager, wrapper, stored, quitting, launches, patient>>

Clear(c) ==
  /\ MayCall(c)
  /\ Stop(c, "clear", NoTarget)
  /\ UNCHANGED <<stored, quitting, launches, patient>>

(* Fault: every reconnect runs on its own. *)
Reconnect_Alone(c) ==
  /\ MayCall(c)
  /\ IF manager.target = NoTarget
     THEN /\ call' = [call EXCEPT ![c] = At("answered")]
          /\ UNCHANGED <<manager, wrapper>>
     ELSE Stop(c, "reconnect", manager.target)
  /\ UNCHANGED <<stored, quitting, launches, patient>>

Reconnect(c) ==
  /\ MayCall(c)
  /\ CASE manager.reconnectPromise # NoCall ->
           /\ call' = [call EXCEPT ![c].pc = "joined", ![c].op = "reconnect"]
           /\ UNCHANGED <<manager, wrapper>>
       [] manager.reconnectPromise = NoCall /\ manager.target = NoTarget ->
           /\ call' = [call EXCEPT ![c] = At("answered")]
           /\ UNCHANGED <<manager, wrapper>>
       [] OTHER -> Stop(c, "reconnect", manager.target)
  /\ UNCHANGED <<stored, quitting, launches, patient>>

-----------------------------------------------------------------------------
(* Steps of a call. *)

(* The wrapper is closed, or there was none. *)
Stopped(c) ==
  LET t == call[c].target
  IN  /\ call[c].pc = "stopping"
      /\ wrapper' = [w \in Runners |-> IF w = call[c].closing THEN "none" ELSE wrapper[w]]
      /\ CASE call[c].op = "reconnect" ->
               Connect(c, [manager EXCEPT !.status = Detecting(t)], t)
           [] call[c].op = "configure" ->
               Connect(c, [manager EXCEPT !.status = Detecting(t), !.target = NoTarget], t)
           [] OTHER ->
               Leave(c, [manager EXCEPT !.status = Unconfigured, !.target = NoTarget],
                     "deleting", NoTarget)
      /\ UNCHANGED <<stored, quitting, launches, patient>>

(* close() rejects.  Only configure's handler catches it. *)
StopFails(c) ==
  /\ call[c].pc = "stopping"
  /\ call[c].closing # NoCall
  /\ wrapper' = [wrapper EXCEPT ![call[c].closing] = "broken"]
  /\ IF call[c].op = "configure" THEN Leave(c, manager, "resaving", manager.target)
     ELSE Leave(c, manager, "rejected", NoTarget)
  /\ UNCHANGED <<stored, quitting, launches, patient>>

(* probeHarborGateway() resolves. *)
ProbeAnswers(c, isGateway) ==
  LET t == call[c].target
  IN  /\ call[c].pc = "probing"
      /\ IF isGateway THEN Return(c, activateExternalGateway(manager, t))
         ELSE IF t.mode = "gateway" THEN Return(c, setUnavailable(manager, t))
         ELSE ActivateEngine(c, manager, t)
      /\ UNCHANGED <<wrapper, stored, quitting, launches, patient>>

(* Fault: an Engine that is offline keeps its wrapper. *)
StartAnswers_KeepOffline(c, engineOnline) ==
  /\ call[c].pc = "starting"
  /\ wrapper' = [wrapper EXCEPT ![c] = "running"]
  /\ IF engineOnline
     THEN Return(c, engineActivated(manager, call[c].target, c))
     ELSE Return(c, setUnavailable(manager, call[c].target))
  /\ UNCHANGED <<stored, quitting, launches, patient>>

(* The wrapper listens and knows whether the Engine answered it. *)
StartAnswers(c, engineOnline) ==
  /\ call[c].pc = "starting"
  /\ IF engineOnline
     THEN /\ wrapper' = [wrapper EXCEPT ![c] = "running"]
          /\ Return(c, engineActivated(manager, call[c].target, c))
     ELSE /\ wrapper' = [wrapper EXCEPT ![c] = "closing"]
          /\ Await(c, manager, call[c].target, "closingOffline")
  /\ UNCHANGED <<stored, quitting, launches, patient>>

(* startLocalEngineGateway() throws, having closed what it had built. *)
StartFails(c) ==
  /\ call[c].pc = "starting"
  /\ Return(c, setUnavailable(manager, call[c].target))
  /\ UNCHANGED <<wrapper, stored, quitting, launches, patient>>

OfflineClosed(c) ==
  /\ call[c].pc = "closingOffline"
  /\ \E end \in {"none", "broken"} : wrapper' = [wrapper EXCEPT ![c] = end]
  /\ Return(c, setUnavailable(manager, call[c].target))
  /\ UNCHANGED <<stored, quitting, launches, patient>>

(* Fault: a target is saved only when it was identified. *)
Saved_Identified(c) ==
  /\ call[c].pc \in {"saving", "resaving", "deleting"}
  /\ stored' = IF call[c].target # NoTarget /\ call[c].target.mode = "none"
               THEN stored ELSE call[c].target
  /\ call' = [call EXCEPT ![c] = At(IF @.pc = "resaving" THEN "rejected" ELSE "answered")]
  /\ UNCHANGED <<manager, wrapper, quitting, launches, patient>>

(* persistConnectionTarget() and deleteSecureValue(): the file is written,   *)
(* or the write fails and configure's handler tries once more, with the      *)
(* target of that moment.                                                    *)
Saved(c) ==
  /\ call[c].pc \in {"saving", "resaving", "deleting"}
  /\ stored' = call[c].target
  /\ call' = [call EXCEPT ![c] = At(IF @.pc = "resaving" THEN "rejected" ELSE "answered")]
  /\ UNCHANGED <<manager, wrapper, quitting, launches, patient>>

SaveFails(c) ==
  /\ call[c].pc \in {"saving", "resaving", "deleting"}
  /\ call' = [call EXCEPT ![c] = IF @.pc = "saving"
                                 THEN [At("resaving") EXCEPT !.target = manager.target]
                                 ELSE At("rejected")]
  /\ UNCHANGED <<manager, wrapper, stored, quitting, launches, patient>>

-----------------------------------------------------------------------------
(* The process. *)

(* will-quit: close the wrapper, then quit for good. *)
Quit ==
  LET local == manager.localGateway
  IN  /\ ~quitting.started
      /\ call[Boot].pc # "idle"
      /\ quitting' = [started |-> TRUE, closing |-> local, exited |-> FALSE]
      /\ manager' = [manager EXCEPT !.localGateway = NoCall]
      /\ wrapper' = [w \in Runners |-> IF w = local THEN "closing" ELSE wrapper[w]]
      /\ UNCHANGED <<call, stored, launches, patient>>

(* The process ends, by Quit or a crash, and everything in it with it. *)
ProcessEnds ==
  /\ quitting' = [started |-> TRUE, closing |-> NoCall, exited |-> TRUE]
  /\ wrapper' = [w \in Runners |-> "none"]
  /\ call' = [c \in Runners |-> IF InFlight(c) THEN At("lost") ELSE call[c]]
  /\ UNCHANGED <<manager, stored, launches, patient>>

QuitCloses == quitting.started /\ ~quitting.exited /\ ProcessEnds
Crash      == ~quitting.exited /\ launches < MaxLaunches /\ ProcessEnds

(* The next launch reads the target back. *)
Launch ==
  /\ quitting.exited
  /\ launches < MaxLaunches
  /\ launches' = launches + 1
  /\ quitting' = Launched
  /\ manager' = NewManager(stored)
  /\ call' = [call EXCEPT ![Boot] = Idle]
  /\ UNCHANGED <<wrapper, stored, patient>>
-----------------------------------------------------------------------------
CallStep(c) ==
  \/ Stopped(c)
  \/ \E isGateway \in BOOLEAN : ProbeAnswers(c, isGateway)
  \/ \E engineOnline \in BOOLEAN : StartAnswers(c, engineOnline)
  \/ StartFails(c)
  \/ OfflineClosed(c)
  \/ Saved(c)
  \/ SaveFails(c)

Next ==
  \/ Initialize
  \/ \E c \in Calls : Configure(c) \/ ConfigureInvalid(c) \/ Clear(c) \/ Reconnect(c)
                       \/ StopFails(c)
  \/ \E c \in Runners : ~quitting.exited /\ CallStep(c)
  \/ Quit
  \/ QuitCloses
  \/ Crash
  \/ Launch

Spec == Init /\ [][Next]_vars

(* Probes, the start's own Engine test, closes and file writes all carry a   *)
(* timeout or end by themselves: a call in flight is never left alone.       *)
FairSpec == Spec /\ \A c \in Runners : WF_vars(~quitting.exited /\ CallStep(c))

-----------------------------------------------------------------------------
ManagerType ==
  [target : Targets, localGateway : Runners \cup {NoCall},
   reconnectPromise : Calls \cup {NoCall},
   status : [mode : {"unconfigured", "detecting", "gateway", "engine", "unavailable"},
             endpoint : Endpoints \cup {NoTarget},
             wrapper : Runners \cup {NoCall}]]

CallType ==
  [pc : {"idle", "stopping", "joined", "probing", "starting", "closingOffline", "saving",
         "resaving", "deleting", "answered", "rejected", "lost"},
   op : {"none", "configure", "clear", "reconnect"},
   target : Targets, closing : Runners \cup {NoCall}]

TypeOK ==
  /\ manager \in ManagerType
  /\ wrapper \in [Runners -> {"none", "running", "closing", "broken"}]
  /\ call \in [Runners -> CallType]
  /\ stored \in Targets
  /\ quitting \in [started : BOOLEAN, closing : Runners \cup {NoCall}, exited : BOOLEAN]
  /\ launches \in 1 .. MaxLaunches
  /\ patient \in BOOLEAN

(* "Detecting" is shown only while some call is on its way to another       *)
(* status, however calls overlap (setStatus of reconnectInternal and         *)
(* configure, and every return after it).                                    *)
DetectionIsLive ==
  manager.status.mode = "detecting" /\ ~quitting.exited => \E c \in Runners : Activating(c)

(* At most one reconnectInternal() runs, and who joined it waits for a       *)
(* reconnect that is really running (reconnect, releaseReconnect).           *)
Reconnecting(c) == call[c].op = "reconnect" /\ call[c].pc \in
                     {"stopping", "probing", "starting", "closingOffline"}

ReconnectsCoalesce ==
  /\ \A c \in Calls : Reconnecting(c) => manager.reconnectPromise = c
  /\ \A c \in Calls : call[c].pc = "joined" => \E d \in Calls : Reconnecting(d)

(* Calls may overlap in any order without leaving the window at "detecting"  *)
(* or a caller waiting for nobody.                                           *)
OverlapsAreSafe == DetectionIsLive /\ ReconnectsCoalesce

(* Certificates and keys stay in memory and in the secure store only for a   *)
(* target that was found to be an Engine (publicTarget on every way in).     *)
TlsOnlyForEngines ==
  \A t \in {manager.target, stored} \ {NoTarget} : t.tls => t.mode = "engine"

(* Liveness: every call of a process that goes on is answered, those that    *)
(* joined a reconnect included.                                              *)
CallsAreAnswered ==
  \A c \in Runners : InFlight(c) ~> ~InFlight(c)

(* For a patient user no wrapper runs that the manager does not hold: the    *)
(* old one is closed before another starts, an offline one is not kept.      *)
OneWrapper ==
  patient => \A w \in Runners : wrapper[w] = "running" => manager.localGateway = w

(* For a patient user the wrapper whose URL the status offers is the one     *)
(* whose session token is handed out, except while it is being closed or     *)
(* after its close failed.                                                   *)
OfferedWrapperIsHeld ==
  \/ ~patient
  \/ manager.status.wrapper = manager.localGateway
  \/ quitting.started
  \/ \E c \in Calls : call[c].pc = "stopping"
  \/ \E w \in Runners : manager.status.wrapper = w /\ wrapper[w] = "broken"

(* For a patient user the running wrapper, the one the manager holds and the *)
(* one it offers are the same.                                               *)
WrapperIsTheOneOffered == OneWrapper /\ OfferedWrapperIsHeld

Endpoint(t) == IF t = NoTarget THEN NoTarget ELSE t.endpoint

(* For a patient user with nothing in flight the secure store names the      *)
(* endpoint in use, so the next launch returns to it (persistConnectionTarget,*)
(* connection:clear), unless a call said it failed.                          *)
ChoiceIsDurable ==
  (/\ patient /\ Seed = NoTarget
   /\ \A c \in Runners : ~InFlight(c) /\ call[c].pc # "rejected")
  => Endpoint(stored) = Endpoint(manager.target) \/ quitting.exited

(* A patient user's target that was found to be a Gateway is never            *)
(* reinterpreted as a raw Engine, whatever its probes say later: only another *)
(* configure makes it something else (architecture.md:126-129).               *)
GatewayStaysGateway ==
  [][/\ patient /\ launches' = launches
     /\ manager.target # NoTarget /\ manager'.target # NoTarget
     /\ manager.target.mode = "gateway"
     => manager'.target.mode = "gateway"]_vars

=============================================================================
