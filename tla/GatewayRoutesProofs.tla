------------------------- MODULE GatewayRoutesProofs -------------------------
(***************************************************************************)
(* The safety properties of GatewayRoutes for any number of requests,      *)
(* users, hosts and clusters.                                              *)
(***************************************************************************)
EXTENDS GatewayRoutes, TLAPS

(* What a handler has been admitted for its user may do.                     *)
Entitled(q) ==
  q.pc \in {"working", "starting"} \/ q.effect # "none" =>
    /\ Rank(q.user.role) >= Rank(q.route.role)
    /\ q.route.scope = "host" => q.user.role = "admin" \/ q.target \in q.user.hosts

(* A handler that has not done its work has recorded nothing, the hub search *)
(* apart, and a denied request has nothing to show.                          *)
Trail(r) ==
  LET q == req[r] IN
  /\ q.pc \in {"idle", "verifying"} =>
       audit[r] = <<>> /\ q.effect = "none" /\ operation[r] = "none" /\ q.joined = NoTarget
  /\ q.pc \in {"working", "starting"} =>
       /\ q.joined = NoTarget
       /\ (q.route.work = "search" /\ audit[r] = <<"success">>) \/ audit[r] = <<>>
       /\ q.route.work \in {"removeHost", "removeCluster", "install", "uninstall"}
            => q.effect = "all"
  /\ q.pc # "idle" /\ q.route.work = "cancel" => q.target \in Requests
  /\ audit[r] = <<"denied">> =>
       q.pc = "done" /\ q.effect = "none" /\ q.reply = "forbidden"
  /\ q.joined # NoTarget => q.effect = "none" /\ q.pc = "done"

(* An operation belongs to the handler that started it, and its status tells *)
(* what was done and what was recorded.                                      *)
Operations(r) ==
  LET q == req[r] IN
  /\ operation[r] # "none" => IsOperation(q.route) /\ q.joined = NoTarget
  /\ operation[r] = "running" => q.pc \in {"working", "starting"}
  /\ operation[r] = "succeeded" =>
       q.effect = "all" /\ ("success" \in q.route.audit => audit[r] = <<"success">>)
  /\ q.pc \in {"working", "starting"} /\ IsOperation(q.route) => operation[r] = "running"

(* A repeat that was audited as a success met an operation that succeeded,   *)
(* and it met the one of its host and kind or the one that it named.         *)
Repeats(r) ==
  req[r].joined # NoTarget =>
    /\ req[r].joined \in Requests
    /\ operation[req[r].joined] # "none"
    /\ StandsFor(req[req[r].joined], req[r])
    /\ audit[r] = <<"success">> => operation[req[r].joined] = "succeeded"

(* The first request of an operation, and every other handler that has       *)
(* ended, recorded a success only for the whole of its work.                 *)
Complete(r) ==
  LET q == req[r] IN
  q.joined = NoTarget /\ Mutating(q.route) /\ audit[r] = <<"success">> => q.effect = "all"

(* The inductive invariant. *)
IInv ==
  /\ TypeOK
  /\ \A r \in Requests : Entitled(req[r])
  /\ \A r \in Requests : Trail(r)
  /\ \A r \in Requests : Operations(r)
  /\ \A r \in Requests : Repeats(r) /\ Complete(r)
  /\ ChangesAreAudited

-----------------------------------------------------------------------------
(* What the handlers rely on: a route records nothing, successes, or both    *)
(* results, and the work goes with what the path names.                      *)
RouteFits(rt) ==
  /\ rt.audit \in {{}, {"success"}, {"success", "failure"}}
  /\ rt.scope \in {"gateway", "host", "registry", "cluster", "operation"}
  /\ rt.work = "addCluster" => rt.scope # "host"
  /\ rt.work = "cancel" => rt.scope = "operation"
  /\ rt.work = "search" => rt.audit = {}
  /\ rt.work \in {"addCluster", "removeCluster"} => "failure" \in rt.audit

LEMMA RoutesFit == \A rt \in Routes : RouteFits(rt)
<1>1. \A rt \in {Open, HostOperation, Administration} : RouteFits(rt)
  BY DEF RouteFits, Open, HostOperation, Administration
<1>2. \A rt \in {Me, Permissions, HostList, ClusterList, ExtensionList,
              ExtensionGet, ExtensionWeb, AuditRead, HubSearch, HostRead,
              OperationGet} : RouteFits(rt)
  BY DEF RouteFits, Me, Permissions, HostList, ClusterList, ExtensionList, ExtensionGet,
     ExtensionWeb, AuditRead, HubSearch, HostRead, OperationGet, Open
<1>3. \A rt \in {HostCapabilities, HostDashboard, ContainerList,
              ContainerInspect, ContainerLogs, ContainerStats, ImageList,
              ImageInspect, ScanReport, VolumeList, VolumeInspect,
              NetworkList, NetworkInspect, AssistantAnalyze, VolumeBrowse} : RouteFits(rt)
  BY DEF RouteFits, HostCapabilities, HostDashboard, ContainerList, ContainerInspect,
     ContainerLogs, ContainerStats, ImageList, ImageInspect, ScanReport,
     VolumeList, VolumeInspect, NetworkList, NetworkInspect,
     AssistantAnalyze, VolumeBrowse, HostRead, Open
<1>4. \A rt \in {ContainerCreate, ContainerAction, ContainerDelete, ImageDelete, VolumeCreate,
              VolumeDelete, NetworkCreate, NetworkDelete, NetworkConnect,
              NetworkDisconnect, ContainerExec} : RouteFits(rt)
  BY DEF RouteFits, ContainerCreate, ContainerAction, ContainerDelete, ImageDelete,
     VolumeCreate, VolumeDelete, NetworkCreate, NetworkDelete, NetworkConnect,
     NetworkDisconnect, ContainerExec, HostOperation
<1>15. \A rt \in {ImagePull, ImageScan, Prune, BuildContext} : RouteFits(rt)
  BY DEF RouteFits, ImagePull, ImageScan, Prune, BuildContext, NamedOperation, HostOperation
<1>5. \A rt \in {AssistantApply} : RouteFits(rt)
  BY DEF RouteFits, AssistantApply, ContainerExec, HostOperation
<1>6. \A rt \in {OperationCancel} : RouteFits(rt)
  BY DEF RouteFits, OperationCancel, OperationGet, Open
<1>7. \A rt \in {HostAdd} : RouteFits(rt)
  BY DEF RouteFits, HostAdd, Administration
<1>8. \A rt \in {HostRemove} : RouteFits(rt)
  BY DEF RouteFits, HostRemove, Administration
<1>9. \A rt \in {ClusterAdd, ClusterRemove} : RouteFits(rt)
  BY DEF RouteFits, ClusterAdd, ClusterRemove, Administration
<1>10. \A rt \in {ExtensionInstall} : RouteFits(rt)
  BY DEF RouteFits, ExtensionInstall, Administration
<1>11. \A rt \in {HostTest} : RouteFits(rt)
  BY DEF RouteFits, HostTest, HostRemove, Administration
<1>12. \A rt \in {ClusterTest} : RouteFits(rt)
  BY DEF RouteFits, ClusterTest, ClusterRemove, Administration
<1>13. \A rt \in {ClusterRead} : RouteFits(rt)
  BY DEF RouteFits, ClusterRead, ClusterTest, ClusterRemove, Administration
<1>14. \A rt \in {ExtensionUninstall} : RouteFits(rt)
  BY DEF RouteFits, ExtensionUninstall, ExtensionInstall, Administration
<1> QED
  BY <1>1, <1>2, <1>3, <1>4, <1>5, <1>6, <1>7, <1>8, <1>9, <1>10, <1>11, <1>12, <1>13, <1>14, <1>15
     DEF Routes

LEMMA ResultsRecorded ==
  ASSUME NEW rt \in Routes, NEW outcome
  PROVE  /\ Outcome(rt, outcome) \in {<<>>, <<"success">>, <<"failure">>}
         /\ Outcome(rt, outcome) = <<"success">> => outcome = "succeeded"
         /\ "success" \in rt.audit => Outcome(rt, "succeeded") = <<"success">>
         /\ "failure" \in rt.audit => Outcome(rt, outcome) # <<>>
BY RoutesFit DEF RouteFits, Outcome

Results == {<<>>, <<"success">>, <<"failure">>, <<"denied">>}

LEMMA Written ==
  ASSUME TypeOK, NEW r \in Requests, audit[r] = <<>>, NEW s \in Results, Write(r, s)
  PROVE  audit' = [audit EXCEPT ![r] = s]
<1>1. <<>> \o s = s
  BY DEF Results
<1> QED
  BY <1>1 DEF Write

LEMMA HandlerTyped ==
  ASSUME TypeOK, NEW r \in Requests
  PROVE  req[r] \in Handlers /\ req[r].route \in Routes /\ req[r].user \in Users
BY DEF TypeOK, Handlers

-----------------------------------------------------------------------------
(* The shapes of a step.  The work goes on ... *)
WorkGoesOn(r) ==
  \E p \in {"working", "starting"}, e \in {"none", "part", "all"},
     t \in Hosts \cup Clusters \cup Requests \cup {NoTarget} :
    /\ req[r].pc \in {"working", "starting"}
    /\ req[r].effect = "all" => e = "all"
    /\ t = req[r].target \/ (req[r].route.work = "addCluster" /\ req[r].route.scope # "host")
    /\ req' = [req EXCEPT ![r].pc = p, ![r].effect = e, ![r].target = t]
    /\ UNCHANGED <<operation, aborted, audit>>

(* ... or ends, which is recorded. *)
WorkEnds(r) ==
  \E s \in {<<>>, <<"success">>, <<"failure">>}, x \in Replies :
    /\ req[r].pc = "working" /\ ~IsOperation(req[r].route)
    /\ s = <<"success">> /\ Mutating(req[r].route) => req[r].effect = "all"
    /\ "failure" \in req[r].route.audit => s # <<>>
    /\ req' = [req EXCEPT ![r].pc = "done", ![r].reply = x]
    /\ audit' = [audit EXCEPT ![r] = s]
    /\ UNCHANGED <<operation, aborted>>

(* A request is refused before any work. *)
Refused(r) ==
  \E s \in {<<>>, <<"failure">>, <<"denied">>}, x \in Replies :
    /\ req[r].pc = "verifying"
    /\ s = <<"denied">> => x = "forbidden"
    /\ req' = [req EXCEPT ![r].pc = "done", ![r].reply = x]
    /\ audit' = [audit EXCEPT ![r] = s]
    /\ UNCHANGED <<registries, operation, aborted>>

LEMMA RefusalShape ==
  ASSUME IInv, NEW r \in Requests,
         Reject(r) \/ OperationMissing(r) \/ Deny(r) \/ BadRequest(r) \/ Missing(r)
  PROVE  Refused(r)
<1>1. TypeOK /\ req[r].pc = "verifying" /\ audit[r] = <<>>
  BY DEF IInv, Reject, OperationMissing, Deny, BadRequest, Missing, Admitted, Trail
<1>2. audit = [audit EXCEPT ![r] = <<>>]
  BY <1>1 DEF TypeOK
<1>3. CASE Reject(r) \/ OperationMissing(r) \/ BadRequest(r)
  BY <1>1, <1>2, <1>3
     DEF Reject, OperationMissing, BadRequest, Answer, Refused, Replies
<1>4. CASE Deny(r)
  <2>1. audit' = [audit EXCEPT ![r] = <<"denied">>]
    BY <1>1, <1>4, Written DEF Deny, Results
  <2> QED
    BY <1>1, <1>4, <2>1 DEF Deny, Answer, Refused, Replies
<1>5. CASE Missing(r)
  <2> DEFINE s == Outcome(req[r].route, "failed")
  <2>1. s \in {<<>>, <<"failure">>}
    BY <1>1, HandlerTyped, ResultsRecorded
  <2> HIDE DEF s
  <2>2. audit' = [audit EXCEPT ![r] = s]
    BY <1>1, <1>5, <2>1, Written DEF Missing, Results, s
  <2> QED
    BY <1>1, <1>5, <2>1, <2>2 DEF Missing, Answer, Refused, Replies
<1> QED
  BY <1>3, <1>4, <1>5

LEMMA FinishShape ==
  ASSUME IInv, NEW r \in Requests, NEW ok \in BOOLEAN, Finish(r, ok),
         req[r].pc = "working", req[r].route.work # "search",
         ~IsOperation(req[r].route), UNCHANGED <<operation, aborted>>,
         ok /\ Mutating(req[r].route) => req[r].effect = "all"
  PROVE  WorkEnds(r)
<1> DEFINE outcome == IF ok THEN "succeeded" ELSE "failed"
           s == Outcome(req[r].route, outcome)
<1>1. TypeOK /\ audit[r] = <<>>
  BY DEF IInv, Trail
<1>2. /\ s \in {<<>>, <<"success">>, <<"failure">>}
      /\ s = <<"success">> => ok
      /\ "failure" \in req[r].route.audit => s # <<>>
  BY <1>1, HandlerTyped, ResultsRecorded
<1> HIDE DEF s
<1>3. audit' = [audit EXCEPT ![r] = s]
  BY <1>1, <1>2, Written DEF Finish, Results, s
<1>4. req' = [req EXCEPT ![r].pc = "done", ![r].reply = IF ok THEN "ok" ELSE "error"]
  BY DEF Finish, Answer
<1>5. (IF ok THEN "ok" ELSE "error") \in Replies
  BY DEF Replies
<1> QED
  BY <1>2, <1>3, <1>4, <1>5 DEF WorkEnds

LEMMA EndShape ==
  ASSUME IInv, NEW r \in Requests,
         \/ Returned(r) \/ Searched(r) \/ HostRemoved(r) \/ ClusterAdded(r)
         \/ ClusterRemoved(r) \/ ClusterProbed(r) \/ ExtensionChanged(r) \/ CancelAnswered(r)
  PROVE  WorkEnds(r)
<1>1. TypeOK /\ Trail(r)
  BY DEF IInv
<1>2. CASE Returned(r)
  BY <1>2, FinishShape DEF Returned, Working, IsOperation, Mutating
<1>3. CASE Searched(r)
  <2>1. PICK x \in {"ok", "error"} : req' = [req EXCEPT ![r].pc = "done", ![r].reply = x]
    BY <1>3 DEF Searched, Answer
  <2>2. /\ req[r].pc = "working" /\ req[r].route.work = "search"
        /\ UNCHANGED <<operation, aborted, audit>>
    BY <1>3 DEF Searched, Working
  <2>3. audit[r] \in {<<>>, <<"success">>} /\ audit = [audit EXCEPT ![r] = audit[r]]
    BY <1>1, <2>2 DEF Trail, TypeOK
  <2>4. /\ ~IsOperation(req[r].route) /\ ~Mutating(req[r].route)
        /\ "failure" \notin req[r].route.audit
    BY <1>1, <2>2, HandlerTyped, RoutesFit DEF RouteFits, IsOperation, Mutating
  <2>5. x \in Replies
    BY DEF Replies
  <2> QED
    BY <2>1, <2>2, <2>3, <2>4, <2>5 DEF WorkEnds
<1>4. CASE HostRemoved(r)
  BY <1>1, <1>4, FinishShape DEF HostRemoved, Working, IsOperation, Mutating, Trail
<1>5. CASE ClusterAdded(r)
  BY <1>5, FinishShape DEF ClusterAdded, Working, IsOperation, Mutating
<1>6. CASE ClusterRemoved(r)
  BY <1>1, <1>6, FinishShape DEF ClusterRemoved, Working, IsOperation, Mutating, Trail
<1>7. CASE ClusterProbed(r)
  <2>1. PICK ok \in BOOLEAN : Finish(r, ok)
    BY <1>7 DEF ClusterProbed
  <2> QED
    BY <1>7, <2>1, FinishShape DEF ClusterProbed, Working, IsOperation, Mutating
<1>8. CASE ExtensionChanged(r)
  BY <1>1, <1>8, FinishShape DEF ExtensionChanged, Working, IsOperation, Mutating, Trail
<1>9. CASE CancelAnswered(r)
  <2>1. PICK s \in {<<"success">>, <<"failure">>} : Write(r, s)
    BY <1>9 DEF CancelAnswered
  <2>2. req[r].pc = "working" /\ req[r].route.work = "cancel"
    BY <1>9 DEF CancelAnswered, Working
  <2>3. audit' = [audit EXCEPT ![r] = s]
    BY <1>1, <2>1, <2>2, Written DEF Trail, Results
  <2>4. ~IsOperation(req[r].route) /\ ~Mutating(req[r].route)
    BY <2>2 DEF IsOperation, Mutating
  <2> QED
    BY <1>9, <2>1, <2>2, <2>3, <2>4 DEF CancelAnswered, Answer, WorkEnds, Replies
<1> QED
  BY <1>2, <1>3, <1>4, <1>5, <1>6, <1>7, <1>8, <1>9

LEMMA WorkShape ==
  ASSUME IInv, NEW r \in Requests,
         \/ EngineActs(r) \/ ContainerCreated(r) \/ ContainerStart(r) \/ ContainerStarted(r)
         \/ HostRegistered(r) \/ ClusterSecretStored(r) \/ ClusterRecorded(r)
  PROVE  WorkGoesOn(r)
<1> DEFINE q == req[r]
<1>1. TypeOK /\ q \in Handlers
  BY HandlerTyped DEF IInv
<1>2. q.target \in Hosts \cup Clusters \cup Requests \cup {NoTarget}
  BY <1>1 DEF Handlers
<1>3. ASSUME NEW p \in {"working", "starting"}, NEW e \in {"none", "part", "all"},
             q.pc \in {"working", "starting"}, q.effect = "all" => e = "all",
             req' = [req EXCEPT ![r].pc = p, ![r].effect = e],
             UNCHANGED <<operation, aborted, audit>>
      PROVE  WorkGoesOn(r)
  <2>1. req' = [req EXCEPT ![r].pc = p, ![r].effect = e, ![r].target = q.target]
    BY <1>1, <1>3 DEF TypeOK, Handlers
  <2>2. PICK t \in Hosts \cup Clusters \cup Requests \cup {NoTarget} : t = q.target
    BY <1>2
  <2>3. req' = [req EXCEPT ![r].pc = p, ![r].effect = e, ![r].target = t]
    BY <2>1, <2>2
  <2>4. /\ q.effect = "all" => e = "all"
        /\ t = q.target \/ (q.route.work = "addCluster" /\ q.route.scope # "host")
        /\ q.pc \in {"working", "starting"} /\ UNCHANGED <<operation, aborted, audit>>
    BY <1>3, <2>2
  <2> HIDE DEF q
  <2> QED
    BY <2>3, <2>4, Zenon DEF WorkGoesOn, q
<1>4. CASE EngineActs(r) \/ HostRegistered(r) \/ ClusterRecorded(r) \/ ContainerCreated(r)
  <2>1. PICK e \in {"part", "all"} : req' = [req EXCEPT ![r].effect = e]
    BY <1>4 DEF EngineActs, HostRegistered, ClusterRecorded, ContainerCreated
  <2>2. q.pc = "working" /\ q.effect = "none" /\ UNCHANGED <<operation, aborted, audit>>
    BY <1>4 DEF EngineActs, HostRegistered, ClusterRecorded, ContainerCreated, Working
  <2>3. req' = [req EXCEPT ![r].pc = "working", ![r].effect = e]
    BY <1>1, <2>1, <2>2 DEF TypeOK, Handlers
  <2> QED
    BY <1>3, <2>2, <2>3
<1>5. CASE ContainerStart(r)
  <2>1. /\ req' = [req EXCEPT ![r].pc = "starting"] /\ q.pc = "working" /\ q.effect = "part"
        /\ UNCHANGED <<operation, aborted, audit>>
    BY <1>5 DEF ContainerStart, Working
  <2>2. req' = [req EXCEPT ![r].pc = "starting", ![r].effect = "part"]
    BY <1>1, <2>1 DEF TypeOK, Handlers
  <2> QED
    BY <1>3, <2>1, <2>2
<1>6. CASE ContainerStarted(r)
  <2>1. /\ req' = [req EXCEPT ![r].effect = "all"] /\ q.pc = "starting"
        /\ UNCHANGED <<operation, aborted, audit>>
    BY <1>6 DEF ContainerStarted
  <2>2. req' = [req EXCEPT ![r].pc = "starting", ![r].effect = "all"]
    BY <1>1, <2>1 DEF TypeOK, Handlers
  <2> QED
    BY <1>3, <2>1, <2>2
<1>7. CASE ClusterSecretStored(r)
  <2>1. PICK c \in Clusters : req' = [req EXCEPT ![r].target = c]
    BY <1>7 DEF ClusterSecretStored
  <2>2. q.pc = "working" /\ q.effect = "none" /\ UNCHANGED <<operation, aborted, audit>>
    BY <1>7 DEF ClusterSecretStored, Working
  <2>3. q.route.work = "addCluster" /\ q.route.scope # "host"
    BY <1>1, <1>7, HandlerTyped, RoutesFit DEF RouteFits, ClusterSecretStored, Working
  <2>4. req' = [req EXCEPT ![r].pc = "working", ![r].effect = "none", ![r].target = c]
    BY <1>1, <2>1, <2>2 DEF TypeOK, Handlers
  <2> QED
    BY <2>2, <2>3, <2>4 DEF WorkGoesOn
<1> QED
  BY <1>4, <1>5, <1>6, <1>7

(* A repeat is answered with an operation that was started before. *)
Joined(r) ==
  \E s \in Requests, o \in {<<>>, <<"success">>, <<"failure">>} :
    /\ req[r].pc = "verifying" /\ operation[s] # "none" /\ StandsFor(req[s], req[r])
    /\ o = <<"success">> => operation[s] = "succeeded"
    /\ req' = [req EXCEPT ![r].pc = "done", ![r].joined = s, ![r].reply = "accepted"]
    /\ audit' = [audit EXCEPT ![r] = o]
    /\ UNCHANGED <<registries, operation, aborted>>

LEMMA JoinShape == ASSUME IInv, NEW r \in Requests, Join(r) PROVE Joined(r)
<1>1. TypeOK /\ req[r].pc = "verifying" /\ audit[r] = <<>>
  BY DEF IInv, Join, Admitted, Trail
<1>2. PICK s \in Requests :
        /\ operation[s] # "none" /\ StandsFor(req[s], req[r])
        /\ req' = [req EXCEPT ![r].pc = "done", ![r].joined = s, ![r].reply = "accepted"]
        /\ Write(r, Outcome(req[r].route, operation[s]))
  BY DEF Join, Recorded, Keyed, NamedBy, StandsFor
<1> DEFINE o == Outcome(req[r].route, operation[s])
<1>3. /\ o \in {<<>>, <<"success">>, <<"failure">>}
      /\ o = <<"success">> => operation[s] = "succeeded"
  BY <1>1, HandlerTyped, ResultsRecorded
<1> HIDE DEF o
<1>4. audit' = [audit EXCEPT ![r] = o]
  BY <1>1, <1>2, <1>3, Written DEF Results, o
<1> QED
  BY <1>1, <1>2, <1>3, <1>4 DEF Join, Joined

(* A user who may is admitted to the work of a handler. *)
MayWork(q) ==
  /\ Rank(q.user.role) >= Rank(q.route.role)
  /\ q.route.scope = "host" => q.user.role = "admin" \/ q.target \in q.user.hosts

LEMMA AdmittedMayWork ==
  ASSUME NEW r \in Requests, Admitted(r) PROVE req[r].pc = "verifying" /\ MayWork(req[r])
BY DEF Admitted, Allowed, HostOf, Visible, MayWork

Called(r) ==
  \E e \in {"none", "all"}, s \in {<<>>, <<"success">>} :
    /\ req[r].pc = "verifying" /\ MayWork(req[r]) /\ ~IsOperation(req[r].route)
    /\ s = <<>> \/ req[r].route.work = "search"
    /\ req[r].route.work \in {"removeHost", "removeCluster", "install", "uninstall"}
         => e = "all"
    /\ req' = [req EXCEPT ![r].pc = "working", ![r].effect = e]
    /\ audit' = [audit EXCEPT ![r] = s]
    /\ UNCHANGED operation

LEMMA CallShape == ASSUME IInv, NEW r \in Requests, Call(r) PROVE Called(r)
<1> DEFINE work == req[r].route.work
           e == IF work \in {"removeHost", "removeCluster", "install", "uninstall"}
                THEN "all" ELSE "none"
           s == IF work = "search" THEN <<"success">> ELSE <<>>
<1>1. TypeOK /\ req[r].pc = "verifying" /\ audit[r] = <<>> /\ MayWork(req[r])
  BY AdmittedMayWork DEF IInv, Call, Trail
<1>2. /\ req' = [req EXCEPT ![r].pc = "working", ![r].effect = e]
      /\ Write(r, s) /\ ~IsOperation(req[r].route) /\ UNCHANGED operation
  BY DEF Call
<1>3. s \in {<<>>, <<"success">>} /\ (s = <<>> \/ work = "search")
  OBVIOUS
<1> HIDE DEF s
<1>4. audit' = [audit EXCEPT ![r] = s]
  BY <1>1, <1>2, <1>3, Written DEF Results
<1> QED
  BY <1>1, <1>2, <1>3, <1>4 DEF Called

Settled(r) ==
  \E end \in Ended, s \in {<<>>, <<"success">>, <<"failure">>} :
    /\ req[r].pc \in {"working", "starting"} /\ IsOperation(req[r].route)
    /\ end = "succeeded" => req[r].effect = "all"
    /\ s = <<"success">> => end = "succeeded"
    /\ end = "succeeded" /\ "success" \in req[r].route.audit => s = <<"success">>
    /\ "failure" \in req[r].route.audit => s # <<>>
    /\ operation' = [operation EXCEPT ![r] = end]
    /\ req' = [req EXCEPT ![r].pc = "done", ![r].reply = "accepted"]
    /\ audit' = [audit EXCEPT ![r] = s]
    /\ UNCHANGED <<registries, aborted>>

LEMMA SettleShape == ASSUME IInv, NEW r \in Requests, Settle(r) PROVE Settled(r)
<1>1. TypeOK /\ req[r].pc \in {"working", "starting"} /\ IsOperation(req[r].route)
      /\ audit[r] = <<>>
  BY DEF IInv, Settle, Trail, IsOperation
<1>2. PICK end \in Ended :
        /\ end = "succeeded" => req[r].effect = "all"
        /\ operation' = [operation EXCEPT ![r] = end]
        /\ Write(r, Outcome(req[r].route, end))
  BY DEF Settle
<1> DEFINE s == Outcome(req[r].route, end)
<1>3. /\ s \in {<<>>, <<"success">>, <<"failure">>}
      /\ s = <<"success">> => end = "succeeded"
      /\ end = "succeeded" /\ "success" \in req[r].route.audit => s = <<"success">>
      /\ "failure" \in req[r].route.audit => s # <<>>
  BY <1>1, HandlerTyped, ResultsRecorded
<1> HIDE DEF s
<1>4. audit' = [audit EXCEPT ![r] = s]
  BY <1>1, <1>2, <1>3, Written DEF Results, s
<1> QED
  BY <1>1, <1>2, <1>3, <1>4 DEF Settle, Answer, Settled

Started(r) ==
  /\ req[r].pc = "verifying" /\ MayWork(req[r]) /\ IsOperation(req[r].route)
  /\ operation' = [operation EXCEPT ![r] = "running"]
  /\ req' = [req EXCEPT ![r].pc = "working"]
  /\ UNCHANGED <<registries, aborted, audit>>

Received(r) ==
  \E q \in Handlers :
    /\ req[r].pc = "idle"
    /\ q.pc = "verifying" /\ q.joined = NoTarget /\ q.effect = "none"
    /\ q.route.work = "cancel" => q.target \in Requests
    /\ req' = [req EXCEPT ![r] = q]
    /\ UNCHANGED <<registries, operation, aborted, audit>>

LEMMA ReceiveShape == ASSUME IInv, NEW r \in Requests, Receive(r) PROVE Received(r)
<1>1. PICK rt \in Routes, u \in Users :
        \E t \in Targets(rt), k \in IF IsOperation(rt) THEN {NoKey, SomeKey} ELSE {NoKey},
           id \in IF rt.named THEN {r} \cup KnownIds ELSE {r} :
          /\ t # r
          /\ req' = [req EXCEPT ![r] = [Idle EXCEPT !.pc = "verifying", !.route = rt, !.user = u,
                                                    !.target = t, !.key = k, !.id = id]]
  BY DEF Receive
<1>5. PICK t \in Targets(rt), k \in {NoKey, SomeKey}, id \in {r} \cup KnownIds :
        req' = [req EXCEPT ![r] = [Idle EXCEPT !.pc = "verifying", !.route = rt, !.user = u,
                                               !.target = t, !.key = k, !.id = id]]
  <2>1. \A k : k \in (IF IsOperation(rt) THEN {NoKey, SomeKey} ELSE {NoKey})
               => k \in {NoKey, SomeKey}
    OBVIOUS
  <2>2. \A id : id \in (IF rt.named THEN {r} \cup KnownIds ELSE {r}) => id \in {r} \cup KnownIds
    OBVIOUS
  <2> QED
    BY <1>1, <2>1, <2>2, Zenon
<1> DEFINE q == [Idle EXCEPT !.pc = "verifying", !.route = rt, !.user = u, !.target = t,
                             !.key = k, !.id = id]
<1>6. id \in Requests \cup {NoTarget}
  BY HandlerTyped DEF IInv, KnownIds, Handlers
<1>2. /\ t \in Hosts \cup Clusters \cup Requests \cup {NoTarget}
      /\ rt.work = "cancel" => t \in Requests
  BY RoutesFit DEF RouteFits, Targets
<1>3. q \in Handlers /\ q.pc = "verifying" /\ q.joined = NoTarget /\ q.effect = "none"
  BY <1>2, <1>6 DEF Idle, Handlers, Replies
<1>4. q.route = rt /\ q.target = t
  BY DEF Idle
<1> QED
  BY <1>5, <1>2, <1>3, <1>4 DEF Receive, Received

(* Every step is the step of a handler, in one of these shapes. *)
Shaped(r) ==
  \/ Received(r) \/ Refused(r) \/ Joined(r) \/ Started(r) \/ Called(r)
  \/ WorkGoesOn(r) \/ WorkEnds(r) \/ Settled(r)

HandlerStep(r) ==
  \/ Receive(r) \/ Reject(r) \/ OperationMissing(r) \/ Deny(r) \/ BadRequest(r)
  \/ Join(r) \/ Run(r) \/ Missing(r) \/ Call(r)
  \/ EngineActs(r) \/ ContainerCreated(r) \/ ContainerStart(r) \/ ContainerStarted(r)
  \/ HostRegistered(r) \/ ClusterSecretStored(r) \/ ClusterRecorded(r)
  \/ Settle(r) \/ Returned(r) \/ Searched(r) \/ HostRemoved(r)
  \/ ClusterAdded(r) \/ ClusterRemoved(r) \/ ClusterProbed(r) \/ ExtensionChanged(r)
  \/ CancelAnswered(r)

LEMMA HandlerSteps == Next <=> \E r \in Requests : HandlerStep(r)
BY DEF Next, HandlerStep

LEMMA StepShape ==
  ASSUME IInv, NEW r \in Requests, HandlerStep(r) PROVE Shaped(r)
<1>1. ASSUME Run(r) PROVE Started(r)
  BY <1>1, AdmittedMayWork DEF Run, Started
<1> QED
  BY <1>1, ReceiveShape, RefusalShape, JoinShape, CallShape, WorkShape, EndShape, SettleShape
     DEF HandlerStep, Shaped

-----------------------------------------------------------------------------
LEMMA RegistriesTyped ==
  ASSUME IInv, Next
  PROVE  /\ host'      \in [Hosts -> {"absent", "registered", "removed"}]
         /\ cluster'   \in [Clusters -> {"absent", "unknown", "online", "offline", "removed"}]
         /\ secrets'   \subseteq Clusters
         /\ installed' \in BOOLEAN
         /\ aborted'   \subseteq Requests
<1> DEFINE Typed == /\ host'      \in [Hosts -> {"absent", "registered", "removed"}]
                    /\ cluster'   \in [Clusters -> {"absent", "unknown", "online", "offline",
                                                    "removed"}]
                    /\ secrets'   \subseteq Clusters
                    /\ installed' \in BOOLEAN
                    /\ aborted'   \subseteq Requests
<1>1. ASSUME NEW r \in Requests, Call(r) PROVE Typed
  <2>1. TypeOK /\ (req[r].route.work = "cancel" => req[r].target \in Requests)
    BY <1>1 DEF IInv, Trail, Call, Admitted
  <2>2. aborted' \subseteq Requests
    BY <1>1, <2>1 DEF Call, TypeOK
  <2>3. installed' \in BOOLEAN
    BY <1>1, <2>1 DEF Call, TypeOK
  <2> QED
    BY <1>1, <2>1, <2>2, <2>3 DEF Call, TypeOK
<1>2. ASSUME NEW r \in Requests,
             HostRegistered(r) \/ ClusterSecretStored(r) \/ ClusterRecorded(r)
      PROVE  Typed
  BY <1>2 DEF HostRegistered, ClusterSecretStored, ClusterRecorded, IInv, TypeOK
<1>3. ASSUME NEW r \in Requests, ClusterAdded(r) \/ ClusterRemoved(r) \/ ClusterProbed(r)
      PROVE  Typed
  BY <1>3 DEF ClusterAdded, ClusterRemoved, ClusterProbed, Mark, IInv, TypeOK
<1>4. ASSUME NEW r \in Requests,
             \/ Receive(r) \/ Reject(r) \/ OperationMissing(r) \/ Deny(r) \/ BadRequest(r)
             \/ Join(r) \/ Run(r) \/ Missing(r) \/ EngineActs(r) \/ ContainerCreated(r)
             \/ ContainerStart(r) \/ ContainerStarted(r) \/ Settle(r) \/ Returned(r)
             \/ Searched(r) \/ HostRemoved(r) \/ ExtensionChanged(r) \/ CancelAnswered(r)
      PROVE  Typed
  <2>1. UNCHANGED <<registries, aborted>>
    BY <1>4 DEF Receive, Reject, OperationMissing, Deny, BadRequest, Join, Run, Missing,
       EngineActs, ContainerCreated, ContainerStart, ContainerStarted, Settle, Returned,
       Searched, HostRemoved, ExtensionChanged, CancelAnswered
  <2> QED
    BY <2>1 DEF registries, IInv, TypeOK
<1> QED
  BY <1>1, <1>2, <1>3, <1>4 DEF Next

(* What holds of one handler, and of the others while it takes a step. *)
Own(r) ==
  /\ Entitled(req[r]) /\ Trail(r) /\ Operations(r) /\ Repeats(r) /\ Complete(r)
  /\ req[r].pc = "done" /\ req[r].effect # "none" /\ "failure" \in req[r].route.audit
       => audit[r] # <<>>

Statuses == {"none", "running"} \cup Ended

(* Handler r moves to q, its trail to s and its operation to o. *)
Moves(r, q, s, o) ==
  /\ q \in Handlers /\ req' = [req EXCEPT ![r] = q]
  /\ s \in Results /\ audit' = [audit EXCEPT ![r] = s]
  /\ o \in Statuses /\ operation' = [operation EXCEPT ![r] = o]
  /\ operation[r] = "succeeded" => o = "succeeded"
  /\ operation[r] # "none" =>
       o # "none" /\ q.route = req[r].route /\ q.target = req[r].target /\ q.id = req[r].id

LEMMA OwnIsAll == IInv <=> TypeOK /\ \A r \in Requests : Own(r)
BY DEF IInv, Own, ChangesAreAudited

LEMMA MovesFrame ==
  ASSUME IInv, NEW r \in Requests, NEW q, NEW s, NEW o, Moves(r, q, s, o)
  PROVE  /\ req'   \in [Requests -> Handlers]
         /\ audit' \in [Requests -> {<<>>} \cup {<<x>> : x \in {"denied", "success", "failure"}}]
         /\ operation' \in [Requests -> {"none", "running"} \cup Ended]
         /\ req'[r] = q /\ audit'[r] = s /\ operation'[r] = o
         /\ \A x \in Requests \ {r} : Own(x)'
<1>1. TypeOK /\ \A x \in Requests : Own(x)
  BY OwnIsAll
<1>2. s \in {<<>>} \cup {<<x>> : x \in {"denied", "success", "failure"}}
  BY DEF Moves, Results
<1>3. /\ req'   \in [Requests -> Handlers]
      /\ operation' \in [Requests -> {"none", "running"} \cup Ended]
      /\ req'[r] = q /\ audit'[r] = s /\ operation'[r] = o
  BY <1>1 DEF Moves, Statuses, TypeOK
<1>4. audit' \in [Requests -> {<<>>} \cup {<<x>> : x \in {"denied", "success", "failure"}}]
  BY <1>1, <1>2 DEF Moves, TypeOK
<1>5. \A x \in Requests : operation[x] = "succeeded" => operation'[x] = "succeeded"
  BY <1>1 DEF Moves, TypeOK
<1>6. ASSUME NEW x \in Requests \ {r} PROVE Own(x)'
  <2>1. req'[x] = req[x] /\ audit'[x] = audit[x] /\ operation'[x] = operation[x]
    BY <1>1 DEF Moves, TypeOK
  <2>2. Repeats(x)'
    <3>1. SUFFICES ASSUME req[x].joined # NoTarget
                   PROVE  Repeats(x)'
      BY <2>1 DEF Repeats
    <3>2. PICK y \in Requests : y = req[x].joined
      BY <1>1, <3>1 DEF Own, Repeats
    <3>3. /\ operation[y] # "none" /\ StandsFor(req[y], req[x])
          /\ audit[x] = <<"success">> => operation[y] = "succeeded"
      BY <1>1, <3>1, <3>2 DEF Own, Repeats
    <3>4. /\ operation'[y] # "none" /\ req'[y].route = req[y].route
          /\ req'[y].target = req[y].target /\ req'[y].id = req[y].id
      BY <1>1, <1>3, <3>3 DEF Moves, TypeOK
    <3> QED
      BY <1>5, <2>1, <3>2, <3>3, <3>4 DEF Repeats, StandsFor
  <2>3. Entitled(req'[x]) /\ Trail(x)' /\ Operations(x)' /\ Complete(x)'
    BY <1>1, <2>1 DEF Own, Trail, Operations, Complete
  <2> QED
    BY <1>1, <2>1, <2>2, <2>3 DEF Own
<1> QED
  BY <1>3, <1>4, <1>6

-----------------------------------------------------------------------------
(* Each shape is a move, after which the invariant holds of the handler.     *)
LEMMA RefusedKeeps ==
  ASSUME IInv, NEW r \in Requests, Refused(r)
  PROVE  \E q, s, o : Moves(r, q, s, o) /\ Own(r)'
<1>1. TypeOK /\ Own(r) /\ req[r] \in Handlers
  BY OwnIsAll, HandlerTyped
<1>2. PICK u \in {<<>>, <<"failure">>, <<"denied">>}, x \in Replies :
        /\ req[r].pc = "verifying"
        /\ u = <<"denied">> => x = "forbidden"
        /\ req' = [req EXCEPT ![r].pc = "done", ![r].reply = x]
        /\ audit' = [audit EXCEPT ![r] = u] /\ operation' = operation
  BY DEF Refused
<1> DEFINE q == [req[r] EXCEPT !.pc = "done", !.reply = x]
           s == u
           o == operation[r]
<1>3. /\ q \in Handlers /\ q.pc = "done" /\ q.route = req[r].route /\ q.user = req[r].user
      /\ q.id = req[r].id /\ q.target = req[r].target
      /\ q.joined = req[r].joined /\ q.effect = req[r].effect /\ q.reply = x
      /\ TypeOK /\ Own(r)
  BY <1>1, <1>2 DEF Handlers, Replies
<1>4. /\ req' = [req EXCEPT ![r] = q] /\ audit' = [audit EXCEPT ![r] = s]
      /\ operation' = [operation EXCEPT ![r] = o] /\ o \in Statuses
  BY <1>1, <1>2 DEF TypeOK, Statuses, Ended
<1>5. /\ s \in Results /\ (operation[r] = "succeeded" => o = "succeeded")
      /\ operation[r] # "none" => o # "none" /\ q.target = req[r].target
  BY <1>1, <1>2, <1>3 DEF Own, Trail, Operations, IsOperation, TypeOK, Results, Ended
<1> HIDE DEF q
<1>6. Moves(r, q, s, o)
  BY <1>3, <1>4, <1>5 DEF Moves
<1>7. req'[r] = q /\ audit'[r] = s /\ operation'[r] = o
  BY <1>6, MovesFrame
<1>8. Entitled(req'[r]) /\ Repeats(r)' /\ Complete(r)'
  BY <1>1, <1>2, <1>3, <1>4, <1>7, TargetAssumption
     DEF Own, Entitled, Trail, Operations, Repeats, Complete, Mutating, MayWork, TypeOK
<1>9. Trail(r)'
  BY <1>1, <1>2, <1>3, <1>7 DEF Own, Trail, IsOperation
<1>10. Operations(r)'
  BY <1>1, <1>2, <1>3, <1>7 DEF Own, Trail, Operations, IsOperation
<1>11. Own(r)'
  BY <1>1, <1>2, <1>3, <1>7, <1>8, <1>9, <1>10 DEF Own, Trail
<1> QED
  BY <1>6, <1>11

LEMMA WorkEndsKeeps ==
  ASSUME IInv, NEW r \in Requests, WorkEnds(r)
  PROVE  \E q, s, o : Moves(r, q, s, o) /\ Own(r)'
<1>1. TypeOK /\ Own(r) /\ req[r] \in Handlers
  BY OwnIsAll, HandlerTyped
<1>2. PICK u \in {<<>>, <<"success">>, <<"failure">>}, x \in Replies :
        /\ req[r].pc = "working" /\ ~IsOperation(req[r].route)
        /\ u = <<"success">> /\ Mutating(req[r].route) => req[r].effect = "all"
        /\ "failure" \in req[r].route.audit => u # <<>>
        /\ req' = [req EXCEPT ![r].pc = "done", ![r].reply = x]
        /\ audit' = [audit EXCEPT ![r] = u] /\ operation' = operation
  BY DEF WorkEnds
<1> DEFINE q == [req[r] EXCEPT !.pc = "done", !.reply = x]
           s == u
           o == operation[r]
<1>3. /\ q \in Handlers /\ q.pc = "done" /\ q.route = req[r].route /\ q.user = req[r].user
      /\ q.id = req[r].id /\ q.target = req[r].target
      /\ q.joined = req[r].joined /\ q.effect = req[r].effect /\ q.reply = x
      /\ TypeOK /\ Own(r)
  BY <1>1, <1>2 DEF Handlers, Replies
<1>4. /\ req' = [req EXCEPT ![r] = q] /\ audit' = [audit EXCEPT ![r] = s]
      /\ operation' = [operation EXCEPT ![r] = o] /\ o \in Statuses
  BY <1>1, <1>2 DEF TypeOK, Statuses, Ended
<1>5. /\ s \in Results /\ (operation[r] = "succeeded" => o = "succeeded")
      /\ operation[r] # "none" => o # "none" /\ q.target = req[r].target
  BY <1>1, <1>2, <1>3 DEF Own, Trail, Operations, IsOperation, TypeOK, Results, Ended
<1> HIDE DEF q
<1>6. Moves(r, q, s, o)
  BY <1>3, <1>4, <1>5 DEF Moves
<1>7. req'[r] = q /\ audit'[r] = s /\ operation'[r] = o
  BY <1>6, MovesFrame
<1>8. Entitled(req'[r]) /\ Repeats(r)' /\ Complete(r)'
  BY <1>1, <1>2, <1>3, <1>4, <1>7, TargetAssumption
     DEF Own, Entitled, Trail, Operations, Repeats, Complete, Mutating, MayWork, TypeOK
<1>9. Trail(r)'
  BY <1>1, <1>2, <1>3, <1>7 DEF Own, Trail, IsOperation
<1>10. Operations(r)'
  BY <1>1, <1>2, <1>3, <1>7 DEF Own, Trail, Operations, IsOperation
<1>11. Own(r)'
  BY <1>1, <1>2, <1>3, <1>7, <1>8, <1>9, <1>10 DEF Own, Trail
<1> QED
  BY <1>6, <1>11

LEMMA WorkGoesOnKeeps ==
  ASSUME IInv, NEW r \in Requests, WorkGoesOn(r)
  PROVE  \E q, s, o : Moves(r, q, s, o) /\ Own(r)'
<1>1. TypeOK /\ Own(r) /\ req[r] \in Handlers
  BY OwnIsAll, HandlerTyped
<1>2. PICK p \in {"working", "starting"}, e \in {"none", "part", "all"},
           t \in Hosts \cup Clusters \cup Requests \cup {NoTarget} :
        /\ req[r].pc \in {"working", "starting"}
        /\ req[r].effect = "all" => e = "all"
        /\ t = req[r].target \/ (req[r].route.work = "addCluster" /\ req[r].route.scope # "host")
        /\ req' = [req EXCEPT ![r].pc = p, ![r].effect = e, ![r].target = t]
        /\ audit' = audit /\ operation' = operation
  BY DEF WorkGoesOn
<1> DEFINE q == [req[r] EXCEPT !.pc = p, !.effect = e, !.target = t]
           s == audit[r]
           o == operation[r]
<1>3. /\ q \in Handlers /\ q.pc = p /\ q.route = req[r].route /\ q.user = req[r].user
      /\ q.id = req[r].id /\ q.target = t
      /\ q.joined = req[r].joined /\ q.effect = e /\ q.reply = req[r].reply
      /\ TypeOK /\ Own(r)
  BY <1>1, <1>2 DEF Handlers, Replies
<1>4. /\ req' = [req EXCEPT ![r] = q] /\ audit' = [audit EXCEPT ![r] = s]
      /\ operation' = [operation EXCEPT ![r] = o] /\ o \in Statuses
  BY <1>1, <1>2 DEF TypeOK, Statuses, Ended
<1>5. /\ s \in Results /\ (operation[r] = "succeeded" => o = "succeeded")
      /\ operation[r] # "none" => o # "none" /\ q.target = req[r].target
  BY <1>1, <1>2, <1>3 DEF Own, Trail, Operations, IsOperation, TypeOK, Results, Ended
<1> HIDE DEF q
<1>6. Moves(r, q, s, o)
  BY <1>3, <1>4, <1>5 DEF Moves
<1>7. req'[r] = q /\ audit'[r] = s /\ operation'[r] = o
  BY <1>6, MovesFrame
<1>8. Entitled(req'[r]) /\ Repeats(r)' /\ Complete(r)'
  BY <1>1, <1>2, <1>3, <1>4, <1>7, TargetAssumption
     DEF Own, Entitled, Trail, Operations, Repeats, Complete, Mutating, MayWork, TypeOK
<1>9. Trail(r)'
  BY <1>1, <1>2, <1>3, <1>7 DEF Own, Trail, IsOperation
<1>10. Operations(r)'
  BY <1>1, <1>2, <1>3, <1>7 DEF Own, Trail, Operations, IsOperation
<1>11. Own(r)'
  BY <1>1, <1>2, <1>3, <1>7, <1>8, <1>9, <1>10 DEF Own, Trail
<1> QED
  BY <1>6, <1>11

LEMMA JoinedKeeps ==
  ASSUME IInv, NEW r \in Requests, Joined(r)
  PROVE  \E q, s, o : Moves(r, q, s, o) /\ Own(r)'
<1>1. TypeOK /\ Own(r) /\ req[r] \in Handlers
  BY OwnIsAll, HandlerTyped
<1>2. PICK t \in Requests, u \in {<<>>, <<"success">>, <<"failure">>} :
        /\ req[r].pc = "verifying" /\ operation[t] # "none" /\ StandsFor(req[t], req[r])
        /\ u = <<"success">> => operation[t] = "succeeded"
        /\ req' = [req EXCEPT ![r].pc = "done", ![r].joined = t, ![r].reply = "accepted"]
        /\ audit' = [audit EXCEPT ![r] = u] /\ operation' = operation
  BY DEF Joined
<1> DEFINE q == [req[r] EXCEPT !.pc = "done", !.joined = t, !.reply = "accepted"]
           s == u
           o == operation[r]
<1>3. /\ q \in Handlers /\ q.pc = "done" /\ q.route = req[r].route /\ q.user = req[r].user
      /\ q.id = req[r].id /\ q.target = req[r].target
      /\ q.joined = t /\ q.effect = req[r].effect /\ q.reply = "accepted"
      /\ TypeOK /\ Own(r)
  BY <1>1, <1>2 DEF Handlers, Replies
<1>4. /\ req' = [req EXCEPT ![r] = q] /\ audit' = [audit EXCEPT ![r] = s]
      /\ operation' = [operation EXCEPT ![r] = o] /\ o \in Statuses
  BY <1>1, <1>2 DEF TypeOK, Statuses, Ended
<1>5. /\ s \in Results /\ (operation[r] = "succeeded" => o = "succeeded")
      /\ operation[r] # "none" => o # "none" /\ q.target = req[r].target
  BY <1>1, <1>2, <1>3 DEF Own, Trail, Operations, IsOperation, TypeOK, Results, Ended
<1> HIDE DEF q
<1>6. Moves(r, q, s, o)
  BY <1>3, <1>4, <1>5 DEF Moves
<1>7. req'[r] = q /\ audit'[r] = s /\ operation'[r] = o
  BY <1>6, MovesFrame
<1>8. Entitled(req'[r]) /\ Repeats(r)' /\ Complete(r)'
  <2>1. operation[r] = "none" /\ t # r
    BY <1>1, <1>2 DEF Own, Trail
  <2>2. req'[t] = req[t] /\ operation'[t] = operation[t]
    BY <1>1, <1>2, <2>1 DEF TypeOK
  <2>3. StandsFor(req'[t], req'[r])
    BY <1>2, <1>3, <1>7, <2>2 DEF StandsFor
  <2>4. Repeats(r)'
    BY <1>2, <1>3, <1>7, <2>2, <2>3 DEF Repeats
  <2> QED
    BY <1>1, <1>2, <1>3, <1>7, <2>4, TargetAssumption DEF Own, Entitled, Trail, Complete
<1>9. Trail(r)'
  BY <1>1, <1>2, <1>3, <1>7 DEF Own, Trail, IsOperation
<1>10. Operations(r)'
  BY <1>1, <1>2, <1>3, <1>7 DEF Own, Trail, Operations, IsOperation
<1>11. Own(r)'
  BY <1>1, <1>2, <1>3, <1>7, <1>8, <1>9, <1>10 DEF Own, Trail
<1> QED
  BY <1>6, <1>11

LEMMA StartedKeeps ==
  ASSUME IInv, NEW r \in Requests, Started(r)
  PROVE  \E q, s, o : Moves(r, q, s, o) /\ Own(r)'
<1>1. TypeOK /\ Own(r) /\ req[r] \in Handlers
  BY OwnIsAll, HandlerTyped
<1>2. /\ req[r].pc = "verifying" /\ MayWork(req[r]) /\ IsOperation(req[r].route)
      /\ operation' = [operation EXCEPT ![r] = "running"]
      /\ req' = [req EXCEPT ![r].pc = "working"] /\ audit' = audit
  BY DEF Started
<1> DEFINE q == [req[r] EXCEPT !.pc = "working"]
           s == audit[r]
           o == "running"
<1>3. /\ q \in Handlers /\ q.pc = "working" /\ q.route = req[r].route /\ q.user = req[r].user
      /\ q.id = req[r].id /\ q.target = req[r].target
      /\ q.joined = req[r].joined /\ q.effect = req[r].effect /\ q.reply = req[r].reply
      /\ TypeOK /\ Own(r)
  BY <1>1, <1>2 DEF Handlers, Replies
<1>4. /\ req' = [req EXCEPT ![r] = q] /\ audit' = [audit EXCEPT ![r] = s]
      /\ operation' = [operation EXCEPT ![r] = o] /\ o \in Statuses
  BY <1>1, <1>2 DEF TypeOK, Statuses, Ended
<1>5. /\ s \in Results /\ (operation[r] = "succeeded" => o = "succeeded")
      /\ operation[r] # "none" => o # "none" /\ q.target = req[r].target
  BY <1>1, <1>2, <1>3 DEF Own, Trail, Operations, IsOperation, TypeOK, Results, Ended
<1> HIDE DEF q
<1>6. Moves(r, q, s, o)
  BY <1>3, <1>4, <1>5 DEF Moves
<1>7. req'[r] = q /\ audit'[r] = s /\ operation'[r] = o
  BY <1>6, MovesFrame
<1>8. Entitled(req'[r]) /\ Repeats(r)' /\ Complete(r)'
  BY <1>1, <1>2, <1>3, <1>4, <1>7, TargetAssumption
     DEF Own, Entitled, Trail, Operations, Repeats, Complete, Mutating, MayWork, TypeOK
<1>9. Trail(r)'
  BY <1>1, <1>2, <1>3, <1>7 DEF Own, Trail, IsOperation
<1>10. Operations(r)'
  BY <1>1, <1>2, <1>3, <1>7 DEF Own, Trail, Operations, IsOperation
<1>11. Own(r)'
  BY <1>1, <1>2, <1>3, <1>7, <1>8, <1>9, <1>10 DEF Own, Trail
<1> QED
  BY <1>6, <1>11

LEMMA CalledKeeps ==
  ASSUME IInv, NEW r \in Requests, Called(r)
  PROVE  \E q, s, o : Moves(r, q, s, o) /\ Own(r)'
<1>1. TypeOK /\ Own(r) /\ req[r] \in Handlers
  BY OwnIsAll, HandlerTyped
<1>2. PICK e \in {"none", "all"}, u \in {<<>>, <<"success">>} :
        /\ req[r].pc = "verifying" /\ MayWork(req[r]) /\ ~IsOperation(req[r].route)
        /\ u = <<>> \/ req[r].route.work = "search"
        /\ req[r].route.work \in {"removeHost", "removeCluster", "install", "uninstall"}
             => e = "all"
        /\ req' = [req EXCEPT ![r].pc = "working", ![r].effect = e]
        /\ audit' = [audit EXCEPT ![r] = u] /\ operation' = operation
  BY DEF Called
<1> DEFINE q == [req[r] EXCEPT !.pc = "working", !.effect = e]
           s == u
           o == operation[r]
<1>3. /\ q \in Handlers /\ q.pc = "working" /\ q.route = req[r].route /\ q.user = req[r].user
      /\ q.id = req[r].id /\ q.target = req[r].target
      /\ q.joined = req[r].joined /\ q.effect = e /\ q.reply = req[r].reply
      /\ TypeOK /\ Own(r)
  BY <1>1, <1>2 DEF Handlers, Replies
<1>4. /\ req' = [req EXCEPT ![r] = q] /\ audit' = [audit EXCEPT ![r] = s]
      /\ operation' = [operation EXCEPT ![r] = o] /\ o \in Statuses
  BY <1>1, <1>2 DEF TypeOK, Statuses, Ended
<1>5. /\ s \in Results /\ (operation[r] = "succeeded" => o = "succeeded")
      /\ operation[r] # "none" => o # "none" /\ q.target = req[r].target
  BY <1>1, <1>2, <1>3 DEF Own, Trail, Operations, IsOperation, TypeOK, Results, Ended
<1> HIDE DEF q
<1>6. Moves(r, q, s, o)
  BY <1>3, <1>4, <1>5 DEF Moves
<1>7. req'[r] = q /\ audit'[r] = s /\ operation'[r] = o
  BY <1>6, MovesFrame
<1>8. Entitled(req'[r]) /\ Repeats(r)' /\ Complete(r)'
  BY <1>1, <1>2, <1>3, <1>4, <1>7, TargetAssumption
     DEF Own, Entitled, Trail, Operations, Repeats, Complete, Mutating, MayWork, TypeOK
<1>9. Trail(r)'
  BY <1>1, <1>2, <1>3, <1>7 DEF Own, Trail, IsOperation
<1>10. Operations(r)'
  BY <1>1, <1>2, <1>3, <1>7 DEF Own, Trail, Operations, IsOperation
<1>11. Own(r)'
  BY <1>1, <1>2, <1>3, <1>7, <1>8, <1>9, <1>10 DEF Own, Trail
<1> QED
  BY <1>6, <1>11

LEMMA SettledKeeps ==
  ASSUME IInv, NEW r \in Requests, Settled(r)
  PROVE  \E q, s, o : Moves(r, q, s, o) /\ Own(r)'
<1>1. TypeOK /\ Own(r) /\ req[r] \in Handlers
  BY OwnIsAll, HandlerTyped
<1>2. PICK end \in Ended, u \in {<<>>, <<"success">>, <<"failure">>} :
        /\ req[r].pc \in {"working", "starting"} /\ IsOperation(req[r].route)
        /\ end = "succeeded" => req[r].effect = "all"
        /\ u = <<"success">> => end = "succeeded"
        /\ end = "succeeded" /\ "success" \in req[r].route.audit => u = <<"success">>
        /\ "failure" \in req[r].route.audit => u # <<>>
        /\ operation' = [operation EXCEPT ![r] = end]
        /\ req' = [req EXCEPT ![r].pc = "done", ![r].reply = "accepted"]
        /\ audit' = [audit EXCEPT ![r] = u]
  BY DEF Settled
<1> DEFINE q == [req[r] EXCEPT !.pc = "done", !.reply = "accepted"]
           s == u
           o == end
<1>3. /\ q \in Handlers /\ q.pc = "done" /\ q.route = req[r].route /\ q.user = req[r].user
      /\ q.id = req[r].id /\ q.target = req[r].target
      /\ q.joined = req[r].joined /\ q.effect = req[r].effect /\ q.reply = "accepted"
      /\ TypeOK /\ Own(r)
  BY <1>1, <1>2 DEF Handlers, Replies
<1>4. /\ req' = [req EXCEPT ![r] = q] /\ audit' = [audit EXCEPT ![r] = s]
      /\ operation' = [operation EXCEPT ![r] = o] /\ o \in Statuses
  BY <1>1, <1>2 DEF TypeOK, Statuses, Ended
<1>5. /\ s \in Results /\ (operation[r] = "succeeded" => o = "succeeded")
      /\ operation[r] # "none" => o # "none" /\ q.target = req[r].target
  BY <1>1, <1>2, <1>3 DEF Own, Trail, Operations, IsOperation, TypeOK, Results, Ended
<1> HIDE DEF q
<1>6. Moves(r, q, s, o)
  BY <1>3, <1>4, <1>5 DEF Moves
<1>7. req'[r] = q /\ audit'[r] = s /\ operation'[r] = o
  BY <1>6, MovesFrame
<1>8. Entitled(req'[r]) /\ Repeats(r)' /\ Complete(r)'
  BY <1>1, <1>2, <1>3, <1>4, <1>7, TargetAssumption
     DEF Own, Entitled, Trail, Operations, Repeats, Complete, Mutating, MayWork, TypeOK
<1>9. Trail(r)'
  BY <1>1, <1>2, <1>3, <1>7 DEF Own, Trail, IsOperation
<1>10. Operations(r)'
  BY <1>1, <1>2, <1>3, <1>7 DEF Own, Trail, Operations, IsOperation, Ended
<1>11. Own(r)'
  BY <1>1, <1>2, <1>3, <1>7, <1>8, <1>9, <1>10 DEF Own, Trail
<1> QED
  BY <1>6, <1>11

LEMMA ReceivedKeeps ==
  ASSUME IInv, NEW r \in Requests, Received(r)
  PROVE  \E q, s, o : Moves(r, q, s, o) /\ Own(r)'
<1>1. TypeOK /\ Own(r) /\ req[r] \in Handlers
  BY OwnIsAll, HandlerTyped
<1>2. PICK h \in Handlers :
        /\ req[r].pc = "idle"
        /\ h.pc = "verifying" /\ h.joined = NoTarget /\ h.effect = "none"
        /\ h.route.work = "cancel" => h.target \in Requests
        /\ req' = [req EXCEPT ![r] = h] /\ audit' = audit /\ operation' = operation
  BY DEF Received
<1> DEFINE q == h
           s == audit[r]
           o == operation[r]
<1>3. /\ q \in Handlers /\ q = h
      /\ TypeOK /\ Own(r)
  BY <1>1, <1>2 DEF Handlers, Replies
<1>4. /\ req' = [req EXCEPT ![r] = q] /\ audit' = [audit EXCEPT ![r] = s]
      /\ operation' = [operation EXCEPT ![r] = o] /\ o \in Statuses
  BY <1>1, <1>2 DEF TypeOK, Statuses, Ended
<1>5. /\ s \in Results /\ (operation[r] = "succeeded" => o = "succeeded")
      /\ operation[r] = "none"
  BY <1>1, <1>2, <1>3 DEF Own, Trail, Operations, IsOperation, TypeOK, Results, Ended
<1> HIDE DEF q
<1>6. Moves(r, q, s, o)
  BY <1>3, <1>4, <1>5 DEF Moves
<1>7. req'[r] = q /\ audit'[r] = s /\ operation'[r] = o
  BY <1>6, MovesFrame
<1>8. Entitled(req'[r]) /\ Repeats(r)' /\ Complete(r)'
  BY <1>1, <1>2, <1>3, <1>4, <1>7, TargetAssumption
     DEF Own, Entitled, Trail, Operations, Repeats, Complete, Mutating, MayWork, TypeOK
<1>9. Trail(r)'
  BY <1>1, <1>2, <1>3, <1>7 DEF Own, Trail, IsOperation
<1>10. Operations(r)'
  BY <1>1, <1>2, <1>3, <1>7 DEF Own, Trail, Operations, IsOperation
<1>11. Own(r)'
  BY <1>1, <1>2, <1>3, <1>7, <1>8, <1>9, <1>10 DEF Own, Trail
<1> QED
  BY <1>6, <1>11

LEMMA IInvStep == ASSUME IInv, Next PROVE IInv'
<1>1. PICK r \in Requests : Shaped(r)
  BY HandlerSteps, StepShape
<1>2. \E q, s, o : Moves(r, q, s, o) /\ Own(r)'
  BY <1>1, ReceivedKeeps, RefusedKeeps, JoinedKeeps, StartedKeeps, CalledKeeps,
     WorkGoesOnKeeps, WorkEndsKeeps, SettledKeeps DEF Shaped
<1>3. PICK q, s, o : Moves(r, q, s, o)
  BY <1>2
<1>4. TypeOK'
  BY <1>3, MovesFrame, RegistriesTyped DEF TypeOK
<1>5. \A x \in Requests : Own(x)'
  BY <1>2, <1>3, MovesFrame
<1> QED
  BY <1>4, <1>5 DEF IInv, Own, ChangesAreAudited

LEMMA IInvStutter == ASSUME IInv, UNCHANGED vars PROVE IInv'
<1>1. TypeOK'
  BY DEF IInv, vars, TypeOK
<1>2. \A x \in Requests : Own(x)'
  BY OwnIsAll DEF vars, Own, Trail, Operations, Repeats, Complete
<1> QED
  BY <1>1, <1>2 DEF IInv, Own, ChangesAreAudited

LEMMA IInvInit == ASSUME Init PROVE IInv
<1>1. Idle \in Handlers /\ Idle.pc = "idle" /\ Idle.joined = NoTarget /\ Idle.effect = "none"
  <2>1. (CHOOSE u \in Users : TRUE) \in Users
    BY UsersAssumption
  <2>2. Open \in Routes
    BY DEF Routes, Me
  <2> QED
    BY <2>1, <2>2 DEF Idle, Handlers, Replies
<1>2. TypeOK
  BY <1>1 DEF Init, TypeOK
<1>3. ASSUME NEW r \in Requests PROVE Own(r)
  <2>1. req[r] = Idle /\ audit[r] = <<>> /\ operation[r] = "none"
    BY DEF Init
  <2> QED
    BY <1>1, <2>1 DEF Own, Entitled, Trail, Operations, Repeats, Complete
<1> QED
  BY <1>2, <1>3, OwnIsAll

LEMMA IInvInvariant == Spec => []IInv
<1>1. IInv /\ [Next]_vars => IInv'
  BY IInvStep, IInvStutter
<1> QED
  BY <1>1, IInvInit, PTL DEF Spec

-----------------------------------------------------------------------------
(* The credentials.  A handler accounts for those of a cluster while it adds *)
(* or removes it, until the cluster is recorded, or by a recorded failure.   *)
Accounts(r, c) ==
  /\ req[r].target = c /\ req[r].route.work \in {"addCluster", "removeCluster"}
  /\ \/ /\ req[r].pc = "working"
        /\ req[r].route.work = "addCluster" => req[r].effect = "none"
     \/ audit[r] = <<"failure">>

AccountsHeld == \A c \in secrets \ Known : \E r \in Requests : Accounts(r, c)

(* A handler at work on a cluster it adds or removes. *)
Keeper(r) == req[r].pc = "working" /\ req[r].route.work \in {"addCluster", "removeCluster"}

(* A step of r leaves every other handler and its trail alone. *)
OthersStay(r) == \A s \in Requests \ {r} : req'[s] = req[s] /\ audit'[s] = audit[s]

LEMMA StepIsLocal ==
  ASSUME IInv, NEW r \in Requests, Shaped(r)
  PROVE  OthersStay(r) /\ req[r].pc # "done"
BY DEF IInv, TypeOK, Shaped, Received, Refused, Joined, Started, Called, WorkGoesOn, WorkEnds,
   Settled, OthersStay

(* Only a keeper, and a handler that has ended, account for anything. *)
LEMMA OnlyKeepersAccount ==
  ASSUME IInv, NEW r \in Requests, req[r].pc # "done", NEW c, Accounts(r, c)
  PROVE  Keeper(r) /\ audit[r] = <<>>
<1>1. Trail(r) /\ req[r].pc \in {"idle", "verifying", "working", "starting"}
  BY HandlerTyped DEF IInv, Handlers
<1>2. audit[r] # <<"failure">>
  BY <1>1 DEF Trail
<1>3. Keeper(r)
  BY <1>2 DEF Accounts, Keeper
<1> QED
  BY <1>1, <1>3 DEF Trail, Accounts, Keeper

(* What the others account for they still do after a step of r. *)
LEMMA OthersAccount ==
  ASSUME AccountsHeld, NEW r \in Requests, OthersStay(r),
         NEW c \in secrets \ Known, ~Accounts(r, c)
  PROVE  \E s \in Requests : Accounts(s, c)'
<1>1. PICK s \in Requests : Accounts(s, c)
  BY DEF AccountsHeld
<1>2. s \in Requests \ {r}
  BY <1>1
<1>3. Accounts(s, c)'
  BY <1>1, <1>2 DEF Accounts, OthersStay
<1> QED
  BY <1>3

(* So a step that leaves no more credentials to account for, of a handler    *)
(* that accounted for none of them, is harmless.                             *)
LEMMA HarmlessStep ==
  ASSUME AccountsHeld, NEW r \in Requests, OthersStay(r),
         \A c \in secrets' \ Known' : c \in secrets \ Known /\ ~Accounts(r, c)
  PROVE  AccountsHeld'
BY OthersAccount DEF AccountsHeld

LEMMA MarkKeepsKnown ==
  ASSUME TypeOK, NEW c, NEW status \in {"online", "offline"}, Mark(c, status)
  PROVE  Known' = Known
BY DEF TypeOK, Mark, Known

(* The failure of a handler that adds or removes a cluster is recorded. *)
LEMMA KeeperFails ==
  ASSUME IInv, NEW r \in Requests, Keeper(r), Finish(r, FALSE)
  PROVE  audit'[r] = <<"failure">> /\ req'[r].target = req[r].target
                                   /\ req'[r].route = req[r].route
<1>1. TypeOK /\ audit[r] = <<>> /\ req[r].route \in Routes
  BY HandlerTyped DEF IInv, Trail, Keeper
<1>2. "failure" \in req[r].route.audit
  BY <1>1, RoutesFit DEF RouteFits, Keeper
<1>3. Outcome(req[r].route, "failed") = <<"failure">>
  BY <1>2 DEF Outcome
<1>4. audit' = [audit EXCEPT ![r] = <<"failure">>]
  BY <1>1, <1>3, Written DEF Finish, Results
<1> QED
  BY <1>1, <1>4 DEF Finish, Answer, TypeOK

LEMMA CallAccounts ==
  ASSUME IInv, AccountsHeld, NEW r \in Requests, OthersStay(r), Call(r)
  PROVE  AccountsHeld'
<1>1. TypeOK /\ ~Keeper(r) /\ req[r].pc # "done"
  BY DEF IInv, Call, Admitted, Keeper
<1>2. \A c : ~Accounts(r, c)
  BY <1>1, OnlyKeepersAccount
<1>3. CASE req[r].route.work # "removeCluster"
  <2>1. secrets' = secrets /\ Known' = Known
    BY <1>3 DEF Call, Known
  <2> QED
    BY <1>2, <2>1, HarmlessStep
<1>4. CASE req[r].route.work = "removeCluster"
  <2>1. PICK t : t = req[r].target
    OBVIOUS
  <2>2. secrets' = secrets /\ cluster' = [cluster EXCEPT ![t] = "removed"]
    BY <1>4, <2>1 DEF Call
  <2>3. Accounts(r, t)'
    BY <1>1, <1>4, <2>1 DEF Call, TypeOK, Accounts
  <2>4. \A c \in secrets' \ Known' : c \in secrets \ Known \/ c = t
    BY <1>1, <2>2 DEF TypeOK, Known
  <2>5. \A c \in secrets \ Known : \E s \in Requests : Accounts(s, c)'
    BY <1>2, OthersAccount
  <2> QED
    BY <2>3, <2>4, <2>5 DEF AccountsHeld
<1> QED
  BY <1>3, <1>4

LEMMA AddAccounts ==
  ASSUME IInv, AccountsHeld, NEW r \in Requests, OthersStay(r),
         ClusterSecretStored(r) \/ ClusterRecorded(r) \/ ClusterAdded(r)
  PROVE  AccountsHeld'
<1>1. TypeOK /\ Keeper(r) /\ audit[r] = <<>> /\ req[r].route.work = "addCluster"
  BY DEF IInv, Trail, ClusterSecretStored, ClusterRecorded, ClusterAdded, Working, Keeper
<1>2. CASE ClusterSecretStored(r)
  <2>1. PICK c \in Clusters : /\ req' = [req EXCEPT ![r].target = c]
                              /\ secrets' \in {secrets, secrets \cup {c}}
    BY <1>2 DEF ClusterSecretStored
  <2>2. cluster' = cluster /\ req[r].effect = "none" /\ req[r].target = NoTarget
    BY <1>2 DEF ClusterSecretStored
  <2>3. Accounts(r, c)'
    BY <1>1, <2>1, <2>2 DEF TypeOK, Accounts, Keeper
  <2>4. \A d \in secrets : ~Accounts(r, d)
    BY <1>1, <2>2, TargetAssumption DEF TypeOK, Accounts
  <2>5. \A d \in secrets' \ Known' : d \in secrets \ Known \/ d = c
    BY <2>1, <2>2 DEF Known
  <2> QED
    BY <2>3, <2>4, <2>5, OthersAccount DEF AccountsHeld
<1>3. CASE ClusterRecorded(r)
  <2>1. /\ secrets' = secrets /\ cluster' = [cluster EXCEPT ![req[r].target] = "unknown"]
    BY <1>3 DEF ClusterRecorded
  <2>2. \A c \in secrets' \ Known' : c \in secrets \ Known /\ c # req[r].target
    BY <1>1, <2>1 DEF TypeOK, Known
  <2>3. \A c \in secrets' \ Known' : c \in secrets \ Known /\ ~Accounts(r, c)
    BY <2>2 DEF Accounts
  <2> QED
    BY <2>3, HarmlessStep
<1>4. CASE ClusterAdded(r) /\ req[r].effect = "all"
  <2>1. PICK status \in {"online", "offline"} : Mark(req[r].target, status)
    BY <1>4 DEF ClusterAdded
  <2>2. secrets' = secrets /\ Known' = Known
    BY <1>1, <1>4, <2>1, MarkKeepsKnown DEF ClusterAdded
  <2>3. \A c : ~Accounts(r, c)
    BY <1>1, <1>4 DEF Accounts
  <2> QED
    BY <2>2, <2>3, HarmlessStep
<1>5. CASE ClusterAdded(r) /\ req[r].effect # "all"
  <2>1. secrets' = secrets /\ cluster' = cluster /\ Finish(r, FALSE)
    BY <1>5 DEF ClusterAdded
  <2>2. \A c : Accounts(r, c) => Accounts(r, c)'
    BY <1>1, <2>1, KeeperFails DEF Accounts
  <2>3. secrets' \ Known' = secrets \ Known
    BY <2>1 DEF Known
  <2> QED
    BY <2>2, <2>3, OthersAccount DEF AccountsHeld
<1> QED
  BY <1>2, <1>3, <1>4, <1>5

LEMMA RemoveAccounts ==
  ASSUME IInv, AccountsHeld, NEW r \in Requests, OthersStay(r), ClusterRemoved(r)
  PROVE  AccountsHeld'
<1>1. TypeOK /\ Keeper(r) /\ Known' = Known
  BY DEF IInv, ClusterRemoved, Working, Keeper, Known
<1>2. CASE secrets' = secrets \ {req[r].target}
  <2>1. \A c \in secrets' \ Known' : c \in secrets \ Known /\ ~Accounts(r, c)
    BY <1>1, <1>2 DEF Accounts
  <2> QED
    BY <2>1, HarmlessStep
<1>3. CASE secrets' = secrets /\ Finish(r, FALSE)
  <2>1. \A c : Accounts(r, c) => Accounts(r, c)'
    BY <1>1, <1>3, KeeperFails DEF Accounts
  <2> QED
    BY <1>1, <1>3, <2>1, OthersAccount DEF AccountsHeld
<1> QED
  BY <1>2, <1>3 DEF ClusterRemoved

LEMMA ProbeAccounts ==
  ASSUME IInv, AccountsHeld, NEW r \in Requests, OthersStay(r), ClusterProbed(r)
  PROVE  AccountsHeld'
<1>1. PICK status \in {"online", "offline"} : Mark(req[r].target, status)
  BY DEF ClusterProbed
<1>2. secrets' = secrets /\ Known' = Known
  BY <1>1, MarkKeepsKnown DEF IInv, ClusterProbed
<1>3. \A c : ~Accounts(r, c)
  BY OnlyKeepersAccount DEF ClusterProbed, Working, Keeper
<1> QED
  BY <1>2, <1>3, HarmlessStep

(* Every other step leaves the clusters and their credentials alone, and is  *)
(* not one of a keeper.                                                      *)
LEMMA OtherStepsAccount ==
  ASSUME IInv, AccountsHeld, NEW r \in Requests, OthersStay(r), req[r].pc # "done",
         \/ Receive(r) \/ Reject(r) \/ OperationMissing(r) \/ Deny(r) \/ BadRequest(r)
         \/ Join(r) \/ Run(r) \/ Missing(r)
         \/ EngineActs(r) \/ ContainerCreated(r) \/ ContainerStart(r) \/ ContainerStarted(r)
         \/ HostRegistered(r) \/ Settle(r) \/ Returned(r) \/ Searched(r) \/ HostRemoved(r)
         \/ ExtensionChanged(r) \/ CancelAnswered(r)
  PROVE  AccountsHeld'
<1>1. secrets' = secrets /\ cluster' = cluster
  BY DEF Receive, Reject, OperationMissing, Deny, BadRequest, Join, Run, Missing, EngineActs,
     ContainerCreated, ContainerStart, ContainerStarted, HostRegistered, Settle, Returned,
     Searched, HostRemoved, ExtensionChanged, CancelAnswered, registries
<1>2. ~Keeper(r)
  BY DEF Receive, Reject, OperationMissing, Deny, BadRequest, Join, Run, Missing, EngineActs,
     ContainerCreated, ContainerStart, ContainerStarted, HostRegistered, Settle, Returned,
     Searched, HostRemoved, ExtensionChanged, CancelAnswered, Admitted, Working, IsOperation,
     Keeper
<1>3. \A c : ~Accounts(r, c)
  BY <1>2, OnlyKeepersAccount
<1> QED
  BY <1>1, <1>3, HarmlessStep DEF Known

LEMMA AccountsInvariant == Spec => []AccountsHeld
<1>1. ASSUME Init PROVE AccountsHeld
  BY <1>1 DEF Init, AccountsHeld, Known
<1>2. ASSUME IInv, AccountsHeld, [Next]_vars PROVE AccountsHeld'
  <2>1. CASE UNCHANGED vars
    BY <1>2, <2>1 DEF AccountsHeld, Accounts, Known, vars
  <2>2. CASE Next
    <3>1. PICK r \in Requests : HandlerStep(r)
      BY <2>2, HandlerSteps
    <3>2. OthersStay(r) /\ req[r].pc # "done"
      BY <1>2, <3>1, StepShape, StepIsLocal
    <3> QED
      BY <1>2, <3>1, <3>2, CallAccounts, AddAccounts, RemoveAccounts, ProbeAccounts,
         OtherStepsAccount DEF HandlerStep
  <2> QED
    BY <1>2, <2>1, <2>2
<1> QED
  BY <1>1, <1>2, IInvInvariant, PTL DEF Spec

-----------------------------------------------------------------------------
(* Handlers, operations, registries and trails keep their types.             *)
THEOREM TypeCorrect == Spec => []TypeOK
BY IInvInvariant, PTL DEF IInv

(* Whatever a request changed, its user had the role for it and, on a host,  *)
(* the grant, and a denied request changed nothing.                          *)
THEOREM TheEntitledAct == Spec => []OnlyTheEntitledAct
<1>1. ASSUME IInv PROVE OnlyTheEntitledAct
  <2>1. ASSUME NEW r \in Requests, NEW i \in 1..Len(audit[r]), audit[r][i] = "denied"
        PROVE  audit[r] = <<"denied">>
    BY <1>1, <2>1 DEF IInv, TypeOK
  <2> QED
    BY <1>1, <2>1 DEF IInv, Entitled, Trail, OnlyTheEntitledAct
<1> QED
  BY <1>1, IInvInvariant, PTL

(* An operation that succeeded is audited as a success and only such a one,  *)
(* whichever of its requests was answered first.                             *)
THEOREM SuccessAuditHolds == Spec => []SuccessAuditIsExact
<1>1. ASSUME IInv PROVE SuccessIsReal
  <2>1. ASSUME NEW r \in Requests, Mutating(req[r].route), audit[r] = <<"success">>,
               req[r].joined = NoTarget
        PROVE  req[r].effect = "all"
    BY <1>1, <2>1 DEF IInv, Complete
  <2>2. ASSUME NEW r \in Requests, audit[r] = <<"success">>, req[r].joined # NoTarget
        PROVE  /\ req[req[r].joined].effect = "all"
               /\ StandsFor(req[req[r].joined], req[r])
    BY <1>1, <2>2 DEF IInv, Repeats, Operations
  <2> QED
    BY <2>1, <2>2 DEF SuccessIsReal, OperationOf, StandsFor
<1>2. ASSUME IInv PROVE SuccessIsAudited
  BY <1>2 DEF IInv, Operations, SuccessIsAudited
<1> QED
  BY <1>1, <1>2, IInvInvariant, PTL DEF SuccessAuditIsExact

(* What a handler changed before it ended is in the audit.                   *)
THEOREM NoChangeUnaudited == Spec => []ChangesAreAudited
BY IInvInvariant, PTL DEF IInv

(* Credentials outlive their cluster only while its handler is at work or    *)
(* after a failure that the audit shows.                                     *)
THEOREM SecretsAreAccounted == Spec => []ClusterSecretsAccounted
<1>1. ASSUME AccountsHeld PROVE ClusterSecretsAccounted
  BY <1>1 DEF AccountsHeld, Accounts, ClusterSecretsAccounted
<1> QED
  BY <1>1, AccountsInvariant, PTL

=============================================================================
