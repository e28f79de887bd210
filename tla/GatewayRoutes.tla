---------------------------- MODULE GatewayRoutes ----------------------------
(***************************************************************************)
(* The HTTP routes of the gateway (apps/gateway/src/app.ts) over the       *)
(* Kubernetes registry, the extension catalog and the assistant.           *)
(*                                                                         *)
(* Every handler has one form: authenticate (an await), check the host     *)
(* grant and the role, call a service (awaits), write audit records,       *)
(* reply.  A route is a record that says which of these it has, so routes  *)
(* that differ only in the names they pass on are one record.  Handlers    *)
(* interleave at their awaits; an Engine, a cluster or the secret store    *)
(* may do what it is asked and then fail to answer.  Operation states are  *)
(* refined in OperationStore, the hosts' watchers in HostRegistry.         *)
(***************************************************************************)
EXTENDS Naturals, FiniteSets, Sequences

CONSTANTS
  Requests,  \* HTTP requests, each handled once
  Hosts,     \* host ids: UUIDs, so never used again after a removal
  Clusters,  \* Kubernetes cluster ids, likewise
  Users,     \* what tokens say of their users: records [role, hosts]
  NoKey, SomeKey, \* the Idempotency-Key header: none, or one the clients share
  NoTarget   \* the path names no host, cluster or operation

Roles == {"viewer", "operator", "admin"}
Rank(role) == CASE role = "viewer" -> 1 [] role = "operator" -> 2 [] role = "admin" -> 3

ASSUME UsersAssumption == Users # {} /\ Users \subseteq [role : Roles, hosts : SUBSET Hosts]
ASSUME TargetAssumption ==
  NoTarget \notin Hosts \cup Clusters \cup Requests /\ NoKey # SomeKey

-----------------------------------------------------------------------------
(* Routes.  scope: what the path names, and with "host" that the user must *)
(* be granted that host.  work: what the handler calls.  audit: the        *)
(* outcomes it writes once the work has ended.  named: the operation takes *)
(* the id that the client sends as Operation-Id.                           *)

Open ==
  [scope |-> "gateway", role |-> "viewer", work |-> "read", audit |-> {}, named |-> FALSE]

Me             == Open
Permissions    == Open
HostList       == Open
ClusterList    == Open
ExtensionList  == Open
ExtensionGet   == Open
ExtensionWeb   == Open
AuditRead      == [Open EXCEPT !.role = "admin"]
HubSearch      == [Open EXCEPT !.work = "search"]

HostRead == [Open EXCEPT !.scope = "host"]

HostCapabilities == HostRead
HostDashboard    == HostRead
ContainerList    == HostRead
ContainerInspect == HostRead
ContainerLogs    == HostRead
ContainerStats   == HostRead
ImageList        == HostRead
ImageInspect     == HostRead
ScanReport       == HostRead
VolumeList       == HostRead
VolumeInspect    == HostRead
NetworkList      == HostRead
NetworkInspect   == HostRead
AssistantAnalyze == HostRead
VolumeBrowse     == [HostRead EXCEPT !.audit = {"success"}]

(* A mutation of a host that runs as an operation. *)
HostOperation ==
  [scope |-> "host", role |-> "operator", work |-> "operation",
   audit |-> {"success", "failure"}, named |-> FALSE]

(* One whose handler reads the Operation-Id header as well. *)
NamedOperation == [HostOperation EXCEPT !.named = TRUE]

ContainerCreate   == [HostOperation EXCEPT !.work = "create"]
ContainerAction   == HostOperation
ContainerDelete   == HostOperation
ImagePull         == NamedOperation
ImageScan         == NamedOperation
ImageDelete       == HostOperation
Prune             == NamedOperation
VolumeCreate      == HostOperation
VolumeDelete      == [HostOperation EXCEPT !.role = "admin"]
NetworkCreate     == HostOperation
NetworkDelete     == HostOperation
NetworkConnect    == HostOperation
NetworkDisconnect == HostOperation
BuildContext      == [NamedOperation EXCEPT !.audit = {}]

(* A mutation of a host that the handler awaits itself. *)
ContainerExec  == [HostOperation EXCEPT !.work = "call"]
AssistantApply == [ContainerExec EXCEPT !.audit = {"success"}]

OperationGet    == [Open EXCEPT !.scope = "operation"]
OperationCancel == [OperationGet EXCEPT !.role = "operator", !.work = "cancel"]

Administration ==
  [scope |-> "gateway", role |-> "admin", work |-> "addHost",
   audit |-> {"success", "failure"}, named |-> FALSE]

HostAdd       == Administration
HostRemove    == [Administration EXCEPT !.scope = "registry", !.work = "removeHost"]
HostTest      == [HostRemove EXCEPT !.work = "testHost"]
ClusterAdd    == [Administration EXCEPT !.work = "addCluster"]
ClusterRemove == [Administration EXCEPT !.scope = "cluster", !.work = "removeCluster"]
ClusterTest   == [ClusterRemove EXCEPT !.work = "probe", !.audit = {"success"}]
ClusterRead   == [ClusterTest EXCEPT !.role = "viewer", !.work = "list", !.audit = {}]
ExtensionInstall   == [Administration EXCEPT !.work = "install", !.audit = {"success"}]
ExtensionUninstall == [ExtensionInstall EXCEPT !.work = "uninstall"]

Routes ==
  {Me, Permissions, HostList, ClusterList, ExtensionList, ExtensionGet, ExtensionWeb,
   AuditRead, HubSearch, HostCapabilities, HostDashboard, ContainerList, ContainerInspect,
   ContainerLogs, ContainerStats, ImageList, ImageInspect, ScanReport, VolumeList,
   VolumeInspect, NetworkList, NetworkInspect, AssistantAnalyze, VolumeBrowse,
   ContainerCreate, ContainerAction, ContainerDelete, ImagePull, ImageScan, ImageDelete,
   Prune, VolumeCreate, VolumeDelete, NetworkCreate, NetworkDelete, NetworkConnect,
   NetworkDisconnect, BuildContext, ContainerExec, AssistantApply, OperationGet,
   OperationCancel, HostAdd, HostRemove, HostTest, ClusterAdd, ClusterRemove, ClusterTest,
   ClusterRead, ExtensionInstall, ExtensionUninstall}

IsOperation(rt) == rt.work \in {"operation", "create"}

Targets(rt) ==
  CASE rt.scope = "gateway"             -> {NoTarget}
    [] rt.scope \in {"host", "registry"} -> Hosts
    [] rt.scope = "cluster"             -> Clusters
    [] rt.scope = "operation"           -> Requests

VARIABLES
  host,       \* host[h]: "absent", "registered" or "removed"
  cluster,    \* cluster[c]: "absent", its status while registered, or "removed"
  secrets,    \* the clusters whose credentials are in the secret store
  installed,  \* the extension is installed
  operation,  \* operation[r]: status of the operation request r started
  aborted,    \* the operations whose signal has fired
  req,        \* req[r]: where the handler of r stands
  audit       \* audit[r]: results recorded for r, in order

vars == <<host, cluster, secrets, installed, operation, aborted, req, audit>>
registries == <<host, cluster, secrets, installed>>

Idle == [pc |-> "idle", route |-> Open, user |-> CHOOSE u \in Users : TRUE,
         target |-> NoTarget, key |-> NoKey, id |-> NoTarget, joined |-> NoTarget,
         effect |-> "none", reply |-> "none"]

(* The gateway as earlier requests may have left it. *)
Init ==
  /\ host      \in [Hosts -> {"absent", "registered"}]
  /\ cluster   \in [Clusters -> {"absent", "online"}]
  /\ secrets   \in SUBSET {c \in Clusters : cluster[c] = "online"}
  /\ installed = FALSE
  /\ operation = [r \in Requests |-> "none"]
  /\ aborted   = {}
  /\ req       = [r \in Requests |-> Idle]
  /\ audit     = [r \in Requests |-> <<>>]

Registered == {h \in Hosts : host[h] = "registered"}
Known      == {c \in Clusters : cluster[c] \in {"unknown", "online", "offline"}}
Ended      == {"succeeded", "failed", "cancelled"}

-----------------------------------------------------------------------------
(* Admission. *)

(* permissions(): an administrator sees every registered host, any other   *)
(* user those of them its token names.                                     *)
Visible(user) ==
  IF user.role = "admin" THEN Registered ELSE Registered \cap user.hosts

(* The host a request is checked against: an operation names its own.      *)
HostOf(q) == IF q.route.scope = "operation" THEN req[q.target].target ELSE q.target

(* Fault: the host grant is not looked at. *)
Allowed_RoleOnly(q) == Rank(q.user.role) >= Rank(q.route.role)

(* requireHostAccess() and requireRole(). *)
Allowed(q) ==
  /\ q.route.scope \in {"host", "operation"} => HostOf(q) \in Visible(q.user)
  /\ Rank(q.user.role) >= Rank(q.route.role)

(* The service finds what the path names; otherwise it throws 404.         *)
Found(q) ==
  CASE q.route.scope = "registry"  -> q.target \in Registered
    [] q.route.scope = "cluster"   -> q.target \in Known
    [] q.route.scope = "operation" -> operation[q.target] # "none"
    [] OTHER                       -> TRUE

(* The operation recorded under this host, kind and idempotency key ...    *)
Keyed(q) ==
  {s \in Requests : /\ operation[s] # "none"
                    /\ q.key # NoKey /\ req[s].key = q.key
                    /\ req[s].route = q.route /\ req[s].target = q.target}

(* ... and, if there is none, the one of any host, kind and user that has  *)
(* the id the request carries.                                             *)
NamedBy(q) == {s \in Requests : q.route.named /\ operation[s] # "none" /\ req[s].id = q.id}

Recorded(q) == IF Keyed(q) # {} THEN Keyed(q) ELSE NamedBy(q)

(* Operation ids: each is the request it was first used for.  A client may *)
(* send one again that it sent before, or that of any operation; the UUIDs *)
(* that the gateway draws for the others are in nobody's hands before.     *)
KnownIds == {req[s].id : s \in {s \in Requests : operation[s] # "none" \/ req[s].route.named}}

Answer(r, reply) == req' = [req EXCEPT ![r].pc = "done", ![r].reply = reply]
Write(r, results) == audit' = [audit EXCEPT ![r] = @ \o results]

(* Fault: only what succeeded is recorded. *)
Outcome_SuccessOnly(rt, outcome) ==
  IF outcome = "succeeded" /\ "success" \in rt.audit THEN <<"success">> ELSE <<>>

(* What a handler records when its work has ended. *)
Outcome(rt, outcome) ==
  LET result == IF outcome = "succeeded" THEN "success" ELSE "failure"
  IN IF result \in rt.audit THEN <<result>> ELSE <<>>

(* A request arrives and its token is being verified.  Two requests of one *)
(* route record that carry the same key are requests of one kind.          *)
Receive(r) ==
  /\ req[r].pc = "idle"
  /\ \E rt \in Routes, u \in Users :
       \E t \in Targets(rt), k \in IF IsOperation(rt) THEN {NoKey, SomeKey} ELSE {NoKey},
          id \in IF rt.named THEN {r} \cup KnownIds ELSE {r} :
         /\ t # r
         /\ req' = [req EXCEPT ![r] = [Idle EXCEPT !.pc = "verifying", !.route = rt, !.user = u,
                                                   !.target = t, !.key = k, !.id = id]]
  /\ UNCHANGED <<registries, operation, aborted, audit>>

(* requireUser(): no issuer accepts the token. *)
Reject(r) ==
  /\ req[r].pc = "verifying"
  /\ Answer(r, "unauthorized")
  /\ UNCHANGED <<registries, operation, aborted, audit>>

(* operations.get(): an operation that does not exist is reported before   *)
(* any check.                                                              *)
OperationMissing(r) ==
  /\ req[r].pc = "verifying"
  /\ req[r].route.scope = "operation" /\ ~Found(req[r])
  /\ Answer(r, "not_found")
  /\ UNCHANGED <<registries, operation, aborted, audit>>

Deny(r) ==
  /\ req[r].pc = "verifying"
  /\ req[r].route.scope = "operation" => Found(req[r])
  /\ ~Allowed(req[r])
  /\ Write(r, <<"denied">>)
  /\ Answer(r, "forbidden")
  /\ UNCHANGED <<registries, operation, aborted>>

Admitted(r) ==
  /\ req[r].pc = "verifying"
  /\ req[r].route.scope = "operation" => Found(req[r])
  /\ Allowed(req[r])

(* An empty build context or an invalid Idempotency-Key, refused unaudited. *)
BadRequest(r) ==
  /\ Admitted(r)
  /\ IsOperation(req[r].route)
  /\ Answer(r, "invalid")
  /\ UNCHANGED <<registries, operation, aborted, audit>>

(* operations.run() finds the key or the id: that operation, as it is now, *)
(* is the answer.                                                          *)
Join(r) ==
  /\ Admitted(r)
  /\ IsOperation(req[r].route)
  /\ \E s \in Recorded(req[r]) :
       /\ req' = [req EXCEPT ![r].pc = "done", ![r].joined = s, ![r].reply = "accepted"]
       /\ Write(r, Outcome(req[r].route, operation[s]))
  /\ UNCHANGED <<registries, operation, aborted>>

(* operations.run() starts an operation, and its task its first request.   *)
Run(r) ==
  /\ Admitted(r)
  /\ IsOperation(req[r].route)
  /\ Recorded(req[r]) = {}
  /\ operation' = [operation EXCEPT ![r] = "running"]
  /\ req' = [req EXCEPT ![r].pc = "working"]
  /\ UNCHANGED <<registries, aborted, audit>>

(* A service that the handler calls throws at once: the registry has no    *)
(* such record, or the catalog no such extension.                          *)
Missing(r) ==
  /\ Admitted(r)
  /\ ~Found(req[r]) \/ req[r].route.work \in {"install", "uninstall"}
  /\ Write(r, Outcome(req[r].route, "failed"))
  /\ Answer(r, "not_found")
  /\ UNCHANGED <<registries, operation, aborted>>

(* The call is made.  The hub search is recorded before it is sent; the    *)
(* registries forget a record before they delete its credentials; cancel() *)
(* aborts a running operation.                                             *)
Call(r) ==
  LET work == req[r].route.work
      t    == req[r].target
      now  == work \in {"removeHost", "removeCluster", "install", "uninstall"}
  IN /\ Admitted(r)
     /\ Found(req[r]) /\ ~IsOperation(req[r].route)
     /\ req' = [req EXCEPT ![r].pc = "working", ![r].effect = IF now THEN "all" ELSE "none"]
     /\ Write(r, IF work = "search" THEN <<"success">> ELSE <<>>)
     /\ host' = IF work = "removeHost" THEN [host EXCEPT ![t] = "removed"] ELSE host
     /\ cluster' = IF work = "removeCluster" THEN [cluster EXCEPT ![t] = "removed"] ELSE cluster
     /\ installed' = (work = "install" \/ (installed /\ work # "uninstall"))
     /\ aborted' = IF work = "cancel" /\ operation[t] = "running" THEN aborted \cup {t}
                   ELSE aborted
     /\ UNCHANGED <<secrets, operation>>

-----------------------------------------------------------------------------
(* The work. *)

Working(r, works) == req[r].pc = "working" /\ req[r].route.work \in works

(* The Engine does what it was asked, whether or not its answer arrives.   *)
EngineActs(r) ==
  /\ Working(r, {"operation", "call"}) /\ req[r].effect = "none"
  /\ req' = [req EXCEPT ![r].effect = "all"]
  /\ UNCHANGED <<registries, operation, aborted, audit>>

(* container.create: the container exists; if the host is still registered *)
(* it is started.                                                          *)
ContainerCreated(r) ==
  /\ Working(r, {"create"}) /\ req[r].effect = "none"
  /\ req' = [req EXCEPT ![r].effect = "part"]
  /\ UNCHANGED <<registries, operation, aborted, audit>>

ContainerStart(r) ==
  /\ Working(r, {"create"}) /\ req[r].effect = "part"
  /\ req[r].target \in Registered
  /\ req' = [req EXCEPT ![r].pc = "starting"]
  /\ UNCHANGED <<registries, operation, aborted, audit>>

ContainerStarted(r) ==
  /\ req[r].pc = "starting" /\ req[r].effect = "part"
  /\ req' = [req EXCEPT ![r].effect = "all"]
  /\ UNCHANGED <<registries, operation, aborted, audit>>

(* registry.add() has a valid endpoint and, if needed, a stored secret.    *)
(* The new id is random: no request can have named it before.              *)
HostRegistered(r) ==
  /\ Working(r, {"addHost"}) /\ req[r].effect = "none"
  /\ \E h \in Hosts :
       /\ host[h] = "absent" /\ \A s \in Requests : req[s].target # h
       /\ host' = [host EXCEPT ![h] = "registered"]
  /\ req' = [req EXCEPT ![r].effect = "all"]
  /\ UNCHANGED <<cluster, secrets, installed, operation, aborted, audit>>

(* k8s.add(): the secret store keeps the credentials ... *)
ClusterSecretStored(r) ==
  /\ Working(r, {"addCluster"}) /\ req[r].effect = "none" /\ req[r].target = NoTarget
  /\ \E c \in Clusters :
       /\ cluster[c] = "absent" /\ \A s \in Requests : req[s].target # c
       /\ req' = [req EXCEPT ![r].target = c]
       /\ secrets' \in {secrets, secrets \cup {c}}
  /\ UNCHANGED <<host, cluster, installed, operation, aborted, audit>>

(* ... and the cluster is recorded and probed. *)
ClusterRecorded(r) ==
  /\ Working(r, {"addCluster"}) /\ req[r].effect = "none" /\ req[r].target # NoTarget
  /\ cluster' = [cluster EXCEPT ![req[r].target] = "unknown"]
  /\ req' = [req EXCEPT ![r].effect = "all"]
  /\ UNCHANGED <<host, secrets, installed, operation, aborted, audit>>

(* A probe or a list of a cluster that is no longer registered changes a   *)
(* record nobody reads.                                                    *)
Mark(c, status) ==
  IF c \in Known THEN cluster' = [cluster EXCEPT ![c] = status] ELSE UNCHANGED cluster

-----------------------------------------------------------------------------
(* The end of the work. *)

Finish(r, ok) ==
  /\ Write(r, Outcome(req[r].route, IF ok THEN "succeeded" ELSE "failed"))
  /\ Answer(r, IF ok THEN "ok" ELSE "error")

(* Fault: the record is written from the status read before the wait. *)
Settle_Stale(r) ==
  /\ req[r].pc \in {"working", "starting"} /\ IsOperation(req[r].route)
  /\ \E end \in Ended :
       /\ end = "succeeded" => req[r].effect = "all"
       /\ end = "cancelled" => r \in aborted
       /\ operation' = [operation EXCEPT ![r] = end]
  /\ Write(r, Outcome(req[r].route, operation[r]))
  /\ Answer(r, "accepted")
  /\ UNCHANGED <<registries, aborted>>

(* The task settles: it returns when the Engine has answered every request *)
(* of it, it throws when one fails, and once aborted it may be cancelled.  *)
Settle(r) ==
  /\ req[r].pc \in {"working", "starting"} /\ IsOperation(req[r].route)
  /\ \E end \in Ended :
       /\ end = "succeeded" => req[r].effect = "all"
       /\ end = "cancelled" => r \in aborted
       /\ operation' = [operation EXCEPT ![r] = end]
       /\ Write(r, Outcome(req[r].route, end))
  /\ Answer(r, "accepted")
  /\ UNCHANGED <<registries, aborted>>

(* Reads, the exec and the assistant's actions: the Engine's answer or error. *)
Returned(r) ==
  /\ Working(r, {"read", "call", "testHost", "addHost"})
  /\ \E ok \in BOOLEAN :
       /\ ok /\ req[r].route.work \in {"call", "addHost"} => req[r].effect = "all"
       /\ ~ok => /\ req[r].route.work # "testHost"
                 /\ ~(req[r].route.work = "addHost" /\ req[r].effect = "all")
       /\ Finish(r, ok)
  /\ UNCHANGED <<registries, operation, aborted>>

Searched(r) ==
  /\ Working(r, {"search"})
  /\ \E ok \in BOOLEAN : Answer(r, IF ok THEN "ok" ELSE "error")
  /\ UNCHANGED <<registries, operation, aborted, audit>>

(* registry.remove(): the deletion of the host's credentials may fail.     *)
HostRemoved(r) ==
  /\ Working(r, {"removeHost"})
  /\ \E ok \in BOOLEAN : Finish(r, ok)
  /\ UNCHANGED <<registries, operation, aborted>>

(* k8s.add() fails while it stores the credentials, or ends with a probe.  *)
ClusterAdded(r) ==
  /\ Working(r, {"addCluster"})
  /\ IF req[r].effect = "all"
     THEN /\ \E status \in {"online", "offline"} : Mark(req[r].target, status)
          /\ Finish(r, TRUE)
     ELSE Finish(r, FALSE) /\ UNCHANGED cluster
  /\ UNCHANGED <<host, secrets, installed, operation, aborted>>

(* Fault: the credentials of a removed cluster are kept. *)
ClusterRemoved_Keep(r) ==
  /\ Working(r, {"removeCluster"})
  /\ Finish(r, TRUE)
  /\ UNCHANGED <<registries, operation, aborted>>

(* k8s.remove(): the credentials are deleted, unless the store fails.      *)
ClusterRemoved(r) ==
  /\ Working(r, {"removeCluster"})
  /\ \/ secrets' = secrets \ {req[r].target} /\ Finish(r, TRUE)
     \/ req[r].target \in secrets /\ UNCHANGED secrets /\ Finish(r, FALSE)
  /\ UNCHANGED <<host, cluster, installed, operation, aborted>>

(* k8s.test() always returns; a list fails when the cluster does.          *)
ClusterProbed(r) ==
  /\ Working(r, {"probe", "list"})
  /\ \E status \in {"online", "offline"} :
       /\ Mark(req[r].target, status)
       /\ Finish(r, status = "online" \/ req[r].route.work = "probe")
  /\ UNCHANGED <<host, secrets, installed, operation, aborted>>

ExtensionChanged(r) ==
  /\ Working(r, {"install", "uninstall"})
  /\ Finish(r, TRUE)
  /\ UNCHANGED <<registries, operation, aborted>>

(* cancel() returns when the operation settles, or after five seconds with *)
(* the operation as it then is; only "cancelled" is a success.             *)
CancelAnswered(r) ==
  LET end == operation[req[r].target]
  IN /\ Working(r, {"cancel"})
     /\ Write(r, <<IF end = "cancelled" THEN "success" ELSE "failure">>)
     /\ Answer(r, "ok")
     /\ UNCHANGED <<registries, operation, aborted>>

Next ==
  \E r \in Requests :
    \/ Receive(r) \/ Reject(r) \/ OperationMissing(r) \/ Deny(r) \/ BadRequest(r)
    \/ Join(r) \/ Run(r) \/ Missing(r) \/ Call(r)
    \/ EngineActs(r) \/ ContainerCreated(r) \/ ContainerStart(r) \/ ContainerStarted(r)
    \/ HostRegistered(r) \/ ClusterSecretStored(r) \/ ClusterRecorded(r)
    \/ Settle(r) \/ Returned(r) \/ Searched(r) \/ HostRemoved(r)
    \/ ClusterAdded(r) \/ ClusterRemoved(r) \/ ClusterProbed(r) \/ ExtensionChanged(r)
    \/ CancelAnswered(r)

Spec == Init /\ [][Next]_vars

-----------------------------------------------------------------------------
Replies == {"none", "unauthorized", "forbidden", "invalid", "not_found", "accepted",
            "ok", "error"}

Handlers ==
  [pc : {"idle", "verifying", "working", "starting", "done"}, route : Routes, user : Users,
   target : Hosts \cup Clusters \cup Requests \cup {NoTarget}, key : {NoKey, SomeKey},
   id : Requests \cup {NoTarget}, joined : Requests \cup {NoTarget},
   effect : {"none", "part", "all"}, reply : Replies]

TypeOK ==
  /\ host      \in [Hosts -> {"absent", "registered", "removed"}]
  /\ cluster   \in [Clusters -> {"absent", "unknown", "online", "offline", "removed"}]
  /\ secrets   \subseteq Clusters
  /\ installed \in BOOLEAN
  /\ operation \in [Requests -> {"none", "running"} \cup Ended]
  /\ aborted   \subseteq Requests
  /\ audit     \in [Requests -> {<<>>} \cup {<<x>> : x \in {"denied", "success", "failure"}}]
  /\ req       \in [Requests -> Handlers]

(* Whatever a request changed, its user had the role for it and, on a      *)
(* host, the grant; a request that was denied changed nothing and is in    *)
(* the audit as that alone (requireRole, requireHostAccess, app.ts:302).   *)
OnlyTheEntitledAct ==
  \A r \in Requests :
    LET q == req[r] IN
    /\ q.effect # "none" =>
         /\ Rank(q.user.role) >= Rank(q.route.role)
         /\ q.route.scope = "host" => q.user.role = "admin" \/ q.target \in q.user.hosts
    /\ \A i \in 1..Len(audit[r]) : audit[r][i] = "denied" =>
         audit[r] = <<"denied">> /\ q.effect = "none" /\ q.reply = "forbidden"

(* The routes that change a host or what the gateway itself keeps. *)
Mutating(rt) ==
  rt.work \in {"operation", "create", "call", "addHost", "removeHost", "addCluster",
               "removeCluster", "install", "uninstall"}

(* The operation a request was answered with. *)
OperationOf(r) == IF req[r].joined = NoTarget THEN r ELSE req[r].joined

(* p stands for q: it is of the same host and kind, or q asked for it by   *)
(* its Operation-Id, whatever it is.                                       *)
StandsFor(p, q) ==
  \/ p.route = q.route /\ p.target = q.target
  \/ q.route.named /\ p.id = q.id

(* An audited success of a mutation is real: the whole of it was done.  A  *)
(* request that was answered with another's operation is audited for that  *)
(* operation's work, which is its own unless it named it by Operation-Id.  *)
SuccessIsReal ==
  \A r \in Requests :
    Mutating(req[r].route) /\ audit[r] = <<"success">> =>
      LET o == req[OperationOf(r)] IN o.effect = "all" /\ StandsFor(o, req[r])

(* Once a handler has ended, what it changed is in the audit, by whatever  *)
(* result it ended with: a partly created container and a change whose     *)
(* answer was lost too.  Builds, which no handler records, and failures of *)
(* the assistant's actions, which only records successes, are left out.    *)
ChangesAreAudited ==
  \A r \in Requests :
    req[r].pc = "done" /\ req[r].effect # "none" /\ "failure" \in req[r].route.audit
      => audit[r] # <<>>

(* However often its request is repeated, an operation that succeeded has  *)
(* an audited success: a repeat that met it running and was recorded as a  *)
(* failure is never the last word on it.                                   *)
SuccessIsAudited ==
  \A r \in Requests :
    operation[r] = "succeeded" /\ "success" \in req[r].route.audit => audit[r] = <<"success">>

(* An operation that succeeded is audited as a success, and only such a    *)
(* one is, whichever of its requests was answered first.                   *)
SuccessAuditIsExact == SuccessIsReal /\ SuccessIsAudited

(* Credentials outlive their cluster only while its handler is at work or  *)
(* after a failure that the audit shows.                                   *)
ClusterSecretsAccounted ==
  \A c \in secrets \ Known : \E r \in Requests :
    /\ req[r].target = c /\ req[r].route.work \in {"addCluster", "removeCluster"}
    /\ req[r].pc = "working" \/ audit[r] = <<"failure">>
=============================================================================
