------------------------------ MODULE Screens ------------------------------
(***************************************************************************)
(* The screens of the renderer (apps/desktop/src/renderer): which host     *)
(* they act on, the dialogs that ask for a confirmation, the mutations     *)
(* they send (state/queries.ts over TanStack Query) and the operations     *)
(* whose progress they follow.                                             *)
(*                                                                         *)
(* Every control that changes something is a command: a record of the      *)
(* screen it is on, the hook it calls and the way its dialog behaves.  The *)
(* actions below are the same for all of them.  The gateway is reduced to  *)
(* what a request can come to; what it does meanwhile is OperationStore's  *)
(* and GatewayRoutes' concern.  Forms, filters and layout are left out.    *)
(***************************************************************************)
EXTENDS FiniteSetsExt, Integers

CONSTANTS
  Hosts,      \* host ids, in the order in which the gateway lists them
  None,       \* no host, no dialog, no request
  Role,       \* the role of the signed-in user
  Slots       \* bound: requests and operations in flight at once

ASSUME HostsAssumption == Hosts \subseteq Nat /\ IsFiniteSet(Hosts) /\ None \notin Hosts
ASSUME RoleAssumption  == Role \in {"viewer", "operator", "admin"}
ASSUME SlotsAssumption == IsFiniteSet(Slots)

-----------------------------------------------------------------------------
(* The hooks of queries.ts: the lists a hook invalidates when its request  *)
(* succeeds, and whether the gateway answers with an operation, which may  *)
(* itself have failed, or with a resource.                                 *)
Hook(name, lists)  == [name |-> name, lists |-> lists, operation |-> TRUE]
Plain(name, lists) == [name |-> name, lists |-> lists, operation |-> FALSE]

useCreateContainer   == Hook("createContainer", {"containers", "dashboard"})
useContainerAction   == Hook("containerAction", {"containers", "dashboard"})
useDeleteContainer   == Hook("deleteContainer", {"containers", "dashboard"})
usePullImage         == Hook("pullImage", {"images", "dashboard"})
useBuildImage        == Hook("buildImage", {"images", "dashboard"})
useScanImage         == Hook("scanImage", {"images", "dashboard"})
useDeleteImage       == Hook("deleteImage", {"images", "dashboard"})
useCreateVolume      == Hook("createVolume", {"volumes", "dashboard"})
(* Fault: the volume list is not invalidated. *)
useDeleteVolume_KeepList == Hook("deleteVolume", {"dashboard"})
useDeleteVolume      == Hook("deleteVolume", {"volumes", "dashboard"})
useCreateNetwork     == Hook("createNetwork", {"networks", "dashboard"})
useDeleteNetwork     == Hook("deleteNetwork", {"networks", "dashboard"})
useNetworkConnect    == Hook("connectNetwork", {"networks", "network-inspect", "dashboard"})
useNetworkDisconnect == Hook("disconnectNetwork", {"networks", "network-inspect", "dashboard"})
usePruneResources    ==
  Hook("prune", {"images", "volumes", "networks", "containers", "dashboard"})
useAssistantApply    ==
  Plain("assistantApply", {"assistant-analyze", "containers", "images", "volumes", "networks"})
useAddHost           == Plain("addHost", {"hosts"})
useTestHost          == Plain("testHost", {"hosts"})
useRemoveHost        == Plain("removeHost", {"hosts"})
useRegisterK8sCluster == Plain("registerCluster", {"k8s-clusters"})
useRemoveK8sCluster  == Plain("removeCluster", {"k8s-clusters"})
useTestK8sCluster    == Plain("testCluster", {"k8s-clusters"})
useInstallExtension  == Plain("installExtension", {"extensions"})
useUninstallExtension == Plain("uninstallExtension", {"extensions"})

(* configure(), clear() and reconnect() of the desktop bridge: no request  *)
(* to the gateway, so no time limit; useConnectionStatus() invalidates     *)
(* every other query when they have changed the connection.                *)
bridgeConnection     == Plain("connection", {})

-----------------------------------------------------------------------------
(* A command, with the defaults of a form that creates something:          *)
(*   dialog  "none": sent at once; "locked": a dialog that stays open      *)
(*           while the request is pending; "open": one that can be closed  *)
(*   ends    what closes the dialog: "success" of the request, "both" its  *)
(*           success and its failure, "submit", or "user" only             *)
(*   needs   what enables the control that opens it                        *)
(*   guarded the button that sends it is disabled while it is active       *)
(*   acts    on the "selected" host, on the host of the "row", or "never"  *)
(*           on a host                                                     *)
(*   target  it acts on a row picked from a list of that host              *)
(*   follow  the operation id it chose: "none", "pending" for as long as   *)
(*           the request lasts, "failed" also after the request has        *)
(*           failed, "always"                                              *)
(*   changes the lists that no longer hold once it has succeeded           *)
Form(hook, changes) ==
  [hook |-> hook, dialog |-> "locked", ends |-> "success", needs |-> {"online"},
   guarded |-> TRUE, acts |-> "selected", target |-> FALSE, follow |-> "none",
   changes |-> changes]
Deletion(hook, changes) == [Form(hook, changes) EXCEPT !.target = TRUE]

(* A pull: the operation is followed for as long as it runs, also after    *)
(* the request has timed out.                                              *)
Pull == [Form(usePullImage, {"images"}) EXCEPT !.follow = "failed"]

(* PruneDialog: its cancel button is disabled while the prune is active;   *)
(* Escape and a click beside the dialog do cancel.  When the request fails *)
(* the dialog closes and the operation is forgotten.                       *)
Prune(changes) ==
  [Form(usePruneResources, changes) EXCEPT !.ends = "both", !.follow = "pending",
                                           !.needs = {"online", "operator"}]

(* ContainersScreen.tsx *)
RunContainer    == Form(useCreateContainer, {"containers"})
ContainerAction ==
  [Deletion(useContainerAction, {"containers"}) EXCEPT !.dialog = "none"]
ContainerMenu   ==
  [Deletion(useContainerAction, {"containers"}) EXCEPT !.dialog = "open", !.ends = "submit",
                                                       !.guarded = FALSE]
DeleteContainer == Deletion(useDeleteContainer, {"containers"})
PruneContainers == Prune({"containers"})

(* ResourceScreen.tsx *)
PullImage     == Pull
DeleteImage   == Deletion(useDeleteImage, {"images"})
PruneImages   == Prune({"images"})
CreateVolume  == Form(useCreateVolume, {"volumes"})
DeleteVolume  == [Deletion(useDeleteVolume, {"volumes"}) EXCEPT !.needs = {"online", "admin"}]
PruneVolumes  == Prune({"volumes"})
CreateNetwork == Form(useCreateNetwork, {"networks"})
DeleteNetwork == Deletion(useDeleteNetwork, {"networks"})
AttachNetwork == Deletion(useNetworkConnect, {"networks"})
DetachNetwork ==
  [Deletion(useNetworkDisconnect, {"networks"}) EXCEPT !.dialog = "open", !.ends = "user",
                                                       !.needs = {}]
PruneNetworks == Prune({"networks"})

(* BuildsScreen.tsx, HubScreen.tsx, SecurityScreen.tsx, AssistantScreen.tsx *)
BuildImage == [Form(useBuildImage, {"images"}) EXCEPT !.ends = "user", !.follow = "always",
                                                      !.needs = {"online", "operator"}]
HubPull    == Pull
ScanImage  == [Deletion(useScanImage, {}) EXCEPT !.dialog = "open", !.ends = "user",
                                                 !.needs = {"online", "operator"},
                                                 !.follow = "always"]
Assistant  == [Deletion(useAssistantApply, {"containers", "images", "volumes", "networks"})
                 EXCEPT !.needs = {}]
ApplyLowRisk   == [Assistant EXCEPT !.dialog = "none"]
ConfirmedApply == [Assistant EXCEPT !.dialog = "open", !.ends = "submit"]

(* HostsScreen.tsx *)
AddHost    == [Form(useAddHost, {}) EXCEPT !.needs = {}, !.acts = "never"]
TestHost   == [Deletion(useTestHost, {}) EXCEPT !.dialog = "none", !.needs = {}, !.acts = "row"]
RemoveHost == [Deletion(useRemoveHost, {}) EXCEPT !.needs = {}, !.acts = "row"]

(* KubernetesScreen.tsx, ExtensionsScreen.tsx: no host, and the dialogs of *)
(* removals can be closed, and opened for another row, while one is under  *)
(* way.                                                                    *)
Registration(hook) == [Form(hook, {}) EXCEPT !.dialog = "open", !.needs = {}, !.acts = "never"]
RegisterCluster    == Registration(useRegisterK8sCluster)
RemoveCluster      == [Registration(useRemoveK8sCluster) EXCEPT !.target = TRUE]
TestCluster        == [Registration(useTestK8sCluster) EXCEPT !.dialog = "none"]
InstallExtension   == [Registration(useInstallExtension) EXCEPT !.dialog = "none"]
UninstallExtension == [Registration(useUninstallExtension) EXCEPT !.target = TRUE]

(* ConnectionTargetDialog.tsx, SettingsScreen.tsx, TroubleshootScreen.tsx:  *)
(* the saving and reconnecting flags play the part of a pending mutation.  *)
ConnectDialog    == [Form(bridgeConnection, {}) EXCEPT !.needs = {}, !.acts = "never"]
ConfigureOrClear == [ConnectDialog EXCEPT !.dialog = "none"]
Reconnect        == [ConnectDialog EXCEPT !.dialog = "none"]

Command ==
  [RunContainer |-> RunContainer, ContainerAction |-> ContainerAction,
   ContainerMenu |-> ContainerMenu, DeleteContainer |-> DeleteContainer,
   PruneContainers |-> PruneContainers, PullImage |-> PullImage,
   DeleteImage |-> DeleteImage, PruneImages |-> PruneImages,
   CreateVolume |-> CreateVolume, DeleteVolume |-> DeleteVolume,
   PruneVolumes |-> PruneVolumes, CreateNetwork |-> CreateNetwork,
   DeleteNetwork |-> DeleteNetwork, AttachNetwork |-> AttachNetwork,
   DetachNetwork |-> DetachNetwork, PruneNetworks |-> PruneNetworks,
   BuildImage |-> BuildImage, HubPull |-> HubPull, ScanImage |-> ScanImage,
   ApplyLowRisk |-> ApplyLowRisk, ConfirmedApply |-> ConfirmedApply,
   AddHost |-> AddHost, TestHost |-> TestHost, RemoveHost |-> RemoveHost,
   RegisterCluster |-> RegisterCluster, RemoveCluster |-> RemoveCluster,
   TestCluster |-> TestCluster, InstallExtension |-> InstallExtension,
   UninstallExtension |-> UninstallExtension, ConnectDialog |-> ConnectDialog,
   ConfigureOrClear |-> ConfigureOrClear, Reconnect |-> Reconnect]
Commands == DOMAIN Command

(* The screens: the commands a screen offers, and what it does when there  *)
(* is no host: it is "shown" as ever, it "hides" its content and keeps its *)
(* state, or it "drops" the view with all its state.                       *)
Screen(offers, hostless) == [offers |-> offers, hostless |-> hostless]

ContainersScreen == Screen({"RunContainer", "ContainerAction", "ContainerMenu",
                            "DeleteContainer", "PruneContainers"}, "hides")
ImagesView       == Screen({"PullImage", "DeleteImage", "PruneImages"}, "drops")
VolumesView      == Screen({"CreateVolume", "DeleteVolume", "PruneVolumes"}, "drops")
NetworksView     == Screen({"CreateNetwork", "DeleteNetwork", "AttachNetwork",
                            "DetachNetwork", "PruneNetworks"}, "drops")
BuildsScreen     == Screen({"BuildImage"}, "hides")
HubScreen        == Screen({"HubPull"}, "shown")
SecurityScreen   == Screen({"ScanImage"}, "hides")
AssistantScreen  == Screen({"ApplyLowRisk", "ConfirmedApply"}, "shown")
HostsScreen      == Screen({"AddHost", "TestHost", "RemoveHost", "ConnectDialog"}, "shown")
KubernetesScreen == Screen({"RegisterCluster", "RemoveCluster", "TestCluster"}, "shown")
ExtensionsScreen == Screen({"InstallExtension", "UninstallExtension"}, "shown")
SettingsScreen   == Screen({"ConfigureOrClear"}, "shown")
TroubleshootScreen == Screen({"Reconnect"}, "shown")
DashboardScreen    == Screen({}, "shown")

(* The routes of App.tsx behind the sign-in; the audit log and the about   *)
(* screen only read, as the dashboard does.  The shell's reconnect button  *)
(* is the troubleshoot screen's.                                           *)
Routes ==
  [dashboard |-> DashboardScreen, containers |-> ContainersScreen, images |-> ImagesView, volumes |-> VolumesView,
   networks |-> NetworksView, builds |-> BuildsScreen, hub |-> HubScreen,
   security |-> SecurityScreen, assistant |-> AssistantScreen, hosts |-> HostsScreen,
   kubernetes |-> KubernetesScreen, extensions |-> ExtensionsScreen,
   settings |-> SettingsScreen, troubleshoot |-> TroubleshootScreen]

-----------------------------------------------------------------------------
VARIABLES
  seen,     \* the host list of the window: [Hosts -> HostStatus]
  selected, \* selectedHostId of the UI store, or None
  route,    \* the screen that is mounted
  dialog,   \* the modal dialog it shows, with the host its row was picked from, or None
  flights,  \* requests under way and operations followed: [Slots -> Flight or None]
  stale     \* <<list, host>> changed from here, answered, and not invalidated

window == <<seen, selected, route, dialog, flights, stale>>

Dialog     == [cmd : Commands, origin : Hosts \cup {None}]
HostStatus == {"new", "online", "offline", "gone"}
Ended      == {"succeeded", "failed", "cancelled", "refused"}

(* One execution of a mutation:                                            *)
(*   host     the host in the request's path; origin, that of the row      *)
(*   op       what the gateway has made of it                              *)
(*   waiting  the request is not answered yet                              *)
(*   current  the mounted component still observes it: a later mutation of *)
(*            the hook, or leaving the screen, drops its callbacks         *)
(*   followed useOperation() polls its operation; polled, the last answer  *)
Flight == [cmd : Commands, host : Hosts \cup {None}, origin : Hosts \cup {None},
           op : {"sent", "running", "lost"} \cup Ended, waiting : BOOLEAN,
           current : BOOLEAN, followed : BOOLEAN, polled : {"nothing", "active", "final"}]

ASSUME NoneAssumption == None \notin Dialog \cup Flight

Visible(list) == {h \in Hosts : list[h] \in {"online", "offline"}}

Flying(i) == flights[i] # None
Busy == {i \in Slots : Flying(i)}

(* isPending of a hook on the mounted screen, and the active flag of the   *)
(* dialogs that follow an operation.                                       *)
Active(c) ==
  \E i \in Busy :
    /\ flights[i].current
    /\ Command[flights[i].cmd].hook = Command[c].hook
    /\ \/ flights[i].waiting
       \/ flights[i].followed /\ flights[i].polled = "active"

(* The screen shows its controls. *)
Shown == Visible(seen) # {} \/ Routes[route].hostless = "shown"

Enabled(need) ==
  CASE need = "online"   -> selected # None /\ seen[selected] = "online"
    [] need = "operator" -> Role # "viewer"
    [] need = "admin"    -> Role = "admin"

ScreensInit ==
  /\ seen \in [Hosts -> {"new", "online", "offline"}]
  /\ selected \in IF Visible(seen) = {} THEN {None} ELSE Visible(seen)
  /\ route = "containers"
  /\ dialog = None
  /\ flights = [i \in Slots |-> None]
  /\ stale = {}

-----------------------------------------------------------------------------
(* A slot is free again when nobody waits for the request, the operation   *)
(* is over and the window follows it no longer, or has seen its end.       *)
Kept(f) ==
  IF /\ f # None
     /\ ~f.waiting
     /\ f.op \in Ended \cup {"lost"}
     /\ \/ ~f.followed \/ f.polled = "final"
        \/ f.polled = "nothing" /\ f.op \in {"lost", "refused"}
  THEN None ELSE f

Update(i, f) == flights' = [flights EXCEPT ![i] = Kept(f)]

(* The component is unmounted: its dialogs are gone and its observers no   *)
(* longer call back, while the requests go on.                             *)
Unobserved(f) == IF f = None THEN None ELSE Kept([f EXCEPT !.current = FALSE, !.followed = FALSE])
Leave ==
  /\ dialog' = None
  /\ flights' = [i \in Slots |-> Unobserved(flights[i])]

(* A modal dialog keeps the rest of the window out of reach; the pull      *)
(* dialog has a link to the Docker Hub screen.                             *)
Navigate(r) ==
  /\ r # route
  /\ dialog # None /\ Shown => r = "hub" /\ dialog.cmd = "PullImage" /\ ~Active("PullImage")
  /\ route' = r
  /\ Leave
  /\ UNCHANGED <<seen, selected, stale>>

(* Fault: a list whose first host is another one moves the selection. *)
Selection_First(list) == IF Visible(list) = {} THEN None ELSE Min(Visible(list))

(* AppShell: the selection stays on its host while that is listed and      *)
(* falls back to the first host otherwise.                                 *)
Selection(list) ==
  IF selected \in Visible(list) THEN selected
  ELSE IF Visible(list) = {} THEN None ELSE Min(Visible(list))

(* The window has a new host list: the selection follows it, and a view    *)
(* that needs a host is dropped when there is none.                        *)
Listed(list) ==
  /\ seen' = list
  /\ selected' = Selection(list)

HostListChanges ==
  \E h \in Hosts, s \in HostStatus :
    LET list == [seen EXCEPT ![h] = s]
    IN /\ <<seen[h], s>> \in {<<"new", "online">>, <<"online", "offline">>,
                              <<"offline", "online">>, <<"online", "gone">>,
                              <<"offline", "gone">>}
       /\ Listed(list)
       /\ IF Visible(list) = {} /\ Routes[route].hostless = "drops"
          THEN Leave ELSE UNCHANGED <<dialog, flights>>
       /\ UNCHANGED <<route, stale>>

(* The host selectors of the builds and the security screen. *)
SelectHost(h) ==
  /\ route \in {"builds", "security"} /\ dialog = None
  /\ h \in Visible(seen) \ {selected}
  /\ selected' = h
  /\ UNCHANGED <<seen, route, dialog, flights, stale>>

-----------------------------------------------------------------------------
(* The rows a command can be picked from. *)
Rows(c) == CASE Command[c].acts = "selected" -> {selected}
             [] Command[c].acts = "row"      -> Visible(seen)
             [] Command[c].acts = "never"    -> {None}

Offered(c) ==
  /\ c \in Routes[route].offers /\ Shown /\ dialog = None
  /\ \A need \in Command[c].needs : Enabled(need)
  /\ Command[c].acts = "selected" => selected # None

OpenDialog(c) ==
  /\ Offered(c) /\ Command[c].dialog # "none"
  /\ Command[c].follow # "none" => ~Active(c)
  /\ \E h \in Rows(c) : dialog' = [cmd |-> c, origin |-> h]
  /\ UNCHANGED <<seen, selected, route, flights, stale>>

(* Fault: any dialog can be closed at any time. *)
CloseDialog_Pending ==
  /\ dialog # None /\ Shown
  /\ dialog' = None /\ UNCHANGED flights
  /\ UNCHANGED <<seen, selected, route, stale>>

(* Closing the image dialog of the security screen unmounts the scan       *)
(* section with its observers.                                             *)
CloseDialog ==
  /\ dialog # None /\ Shown
  /\ Command[dialog.cmd].dialog = "locked" => ~Active(dialog.cmd)
  /\ IF dialog.cmd = "ScanImage" THEN Leave ELSE dialog' = None /\ UNCHANGED flights
  /\ UNCHANGED <<seen, selected, route, stale>>

(* mutate(): the request goes to the host selected now, or to the host of  *)
(* the row, and takes the place of an earlier execution of the hook.       *)
Request(c, origin) ==
  [cmd |-> c, host |-> IF Command[c].acts = "selected" THEN selected ELSE origin,
   origin |-> origin, op |-> "sent", waiting |-> TRUE, current |-> TRUE,
   followed |-> Command[c].follow # "none", polled |-> "nothing"]

Send(c, origin) ==
  /\ Command[c].guarded => ~Active(c)
  /\ \E i \in Slots \ Busy :
       flights' = [j \in Slots |->
         IF j = i THEN Request(c, origin)
         ELSE IF /\ flights[j] # None
                 /\ Command[flights[j].cmd].hook = Command[c].hook
              THEN Unobserved(flights[j]) ELSE flights[j]]

(* A button or a menu item that acts at once; testing a host selects it.   *)
Direct(c) ==
  /\ Offered(c) /\ Command[c].dialog = "none"
  /\ \E h \in Rows(c) :
       /\ Send(c, h)
       /\ selected' = IF c = "TestHost" THEN h ELSE selected
  /\ UNCHANGED <<seen, route, dialog, stale>>

(* The confirmation of a dialog, which looks neither at the host list nor  *)
(* at the host the row came from; the detach buttons of a network's        *)
(* details do ask for a host that is online.                               *)
Confirm ==
  /\ dialog # None /\ Shown
  /\ dialog.cmd = "DetachNetwork" => Enabled("online")
  /\ Send(dialog.cmd, dialog.origin)
  /\ dialog' = IF Command[dialog.cmd].ends = "submit" THEN None ELSE dialog
  /\ UNCHANGED <<seen, selected, route, stale>>

(* "Cancel pull" and its like, and the Escape key on a prune dialog.       *)
CancelOperation(i) ==
  /\ Flying(i) /\ dialog # None /\ Shown
  /\ flights[i].current /\ flights[i].followed /\ dialog.cmd = flights[i].cmd
  /\ flights[i].op = "running"
  /\ Update(i, [flights[i] EXCEPT !.op = "cancelled"])
  /\ UNCHANGED <<seen, selected, route, dialog, stale>>

-----------------------------------------------------------------------------
(* The gateway: a request is refused or carried out; a restart, at any     *)
(* time, forgets every operation.                                          *)
OnGateway(i) == Flying(i) /\ Command[flights[i].cmd].hook # bridgeConnection

GatewayTakes(i) ==
  /\ Flying(i) /\ flights[i].op = "sent"
  /\ \E o \in {"running", "refused"} :
       /\ flights[i].host = None /\ Command[flights[i].cmd].acts # "never" => o = "refused"
       /\ Update(i, [flights[i] EXCEPT !.op = o])
  /\ UNCHANGED <<seen, selected, route, dialog, stale>>

GatewayEnds(i) ==
  /\ Flying(i) /\ flights[i].op = "running"
  /\ \E o \in {"succeeded",
               IF Command[flights[i].cmd].hook.operation THEN "failed" ELSE "refused"} :
       Update(i, [flights[i] EXCEPT !.op = o])
  /\ UNCHANGED <<seen, selected, route, dialog, stale>>

GatewayRestarts ==
  /\ flights' = [i \in Slots |-> IF OnGateway(i) /\ flights[i].op # "sent"
                                 THEN Kept([flights[i] EXCEPT !.op = "lost"]) ELSE flights[i]]
  /\ UNCHANGED <<seen, selected, route, dialog, stale>>

-----------------------------------------------------------------------------
(* The dialog of a command is closed by setting its state to undefined,    *)
(* whatever row it shows by then.                                          *)
Closed(f, ends) ==
  dialog' = IF f.current /\ dialog # None /\ dialog.cmd = f.cmd /\ Command[f.cmd].ends \in ends
            THEN None ELSE dialog

(* onSuccess: the hook invalidates its lists for the host of the latest    *)
(* render, or of the last one before the screen was left.                  *)
Refreshed(f) ==
  LET at == IF f.current /\ Command[f.cmd].acts = "selected" THEN selected ELSE f.host
  IN Command[f.cmd].hook.lists \X {at}
Changed(f) == IF f.op = "succeeded" THEN Command[f.cmd].changes \X {f.host} ELSE {}

(* What success does to the host list: a host is added and selected, or    *)
(* removed; another connection may list other hosts.                       *)
HostsAfter(f) ==
  CASE f.cmd = "AddHost" -> {[seen EXCEPT ![h] = s] : h \in {x \in Hosts : seen[x] = "new"},
                                                      s \in {"online", "offline"}} \cup {seen}
    [] f.cmd = "RemoveHost" -> {[seen EXCEPT ![f.origin] = "gone"]}
    [] Command[f.cmd].hook = bridgeConnection ->
         {[h \in Hosts |-> IF h \in lost THEN "gone" ELSE seen[h]] : lost \in SUBSET Visible(seen)}
    [] OTHER -> {seen}

Answered(i) ==
  /\ Flying(i) /\ flights[i].waiting /\ flights[i].op \in Ended \ {"refused"}
  /\ LET f == flights[i]
     IN /\ Closed(f, {"success", "both"})
        /\ \E list \in HostsAfter(f) :
             /\ seen' = list
             /\ selected' = IF f.cmd = "AddHost" /\ f.current /\ list # seen
                            THEN CHOOSE h \in Hosts : list[h] # seen[h] ELSE Selection(list)
        /\ stale' = (stale \cup Changed(f)) \ Refreshed(f)
        /\ Update(i, [f EXCEPT !.waiting = FALSE,
                               !.followed = f.followed /\ Command[f.cmd].follow = "always"])
  /\ UNCHANGED route

(* Fault: a request has no time limit. *)
RequestFails_NoTimeout(i) ==
  /\ Flying(i) /\ flights[i].waiting /\ flights[i].op = "refused"
  /\ LET f == flights[i]
     IN /\ Closed(f, {"both"})
        /\ Update(i, [f EXCEPT !.waiting = FALSE,
                               !.followed = f.followed /\ Command[f.cmd].follow # "pending"])
  /\ UNCHANGED <<seen, selected, route, stale>>

(* onError: the gateway has refused, cannot be reached, or has not         *)
(* answered within gatewayRequestTimeoutMs; a call of the desktop bridge   *)
(* has no such limit.                                                      *)
RequestFails(i) ==
  /\ Flying(i) /\ flights[i].waiting
  /\ OnGateway(i) \/ flights[i].op = "refused"
  /\ LET f == flights[i]
     IN /\ Closed(f, {"both"})
        /\ Update(i, [f EXCEPT !.waiting = FALSE,
                               !.followed = f.followed /\ Command[f.cmd].follow # "pending"])
  /\ UNCHANGED <<seen, selected, route, stale>>

(* useOperation() polls until the status is final.  An operation the       *)
(* gateway does not know, not yet or no longer, is an error that leaves    *)
(* the last status in place.                                               *)
Poll(i) ==
  /\ Flying(i) /\ flights[i].followed
  /\ flights[i].op \in {"running"} \cup (Ended \ {"refused"})
  /\ Update(i, [flights[i] EXCEPT !.polled = IF flights[i].op = "running" THEN "active" ELSE "final"])
  /\ UNCHANGED <<seen, selected, route, dialog, stale>>

-----------------------------------------------------------------------------
(* What moves a request on without the user, and without the gateway: the  *)
(* window's own steps and those of the desktop bridge.                     *)
BridgeGoesOn(i) == ~OnGateway(i) /\ (GatewayTakes(i) \/ GatewayEnds(i))
Progress(i) == RequestFails(i) \/ Answered(i) \/ Poll(i) \/ BridgeGoesOn(i)

ScreensNext ==
  \/ HostListChanges \/ CloseDialog \/ Confirm \/ GatewayRestarts
  \/ \E r \in DOMAIN Routes : Navigate(r)
  \/ \E h \in Hosts : SelectHost(h)
  \/ \E c \in Commands : OpenDialog(c) \/ Direct(c)
  \/ \E i \in Slots : CancelOperation(i) \/ Progress(i) \/ GatewayTakes(i) \/ GatewayEnds(i)

ScreensSpec == ScreensInit /\ [][ScreensNext]_window

(* What is under way in the window goes on: the timer of a request fires,  *)
(* an answer that has arrived is handled, a poll comes round every two     *)
(* seconds and the desktop bridge answers (CallsAreAnswered of             *)
(* ConnectionManager).  Every such step leaves less to do for the request, *)
(* so fairness of them together is enough.  Nothing is assumed of the      *)
(* gateway: it may never take a request up, and an operation it runs may   *)
(* hang, the stream of a pull or of a build for ever.                      *)
RequestsGoOn == \A i \in Slots : WF_window(Progress(i))
FairScreens == ScreensSpec /\ RequestsGoOn

-----------------------------------------------------------------------------
ScreensTypeOK ==
  /\ seen \in [Hosts -> HostStatus]
  /\ selected \in Hosts \cup {None}
  /\ route \in DOMAIN Routes
  /\ dialog \in Dialog \cup {None}
  /\ flights \in [Slots -> Flight \cup {None}]
  /\ \A x \in stale : x[2] \in Hosts \cup {None}

(* A request that acts on a row reaches the host the row was listed for.   *)
(* Only when that host has left the list while the dialog was open does    *)
(* the confirmation go to the host the selection has fallen back to, where *)
(* a volume or an image of the same name may be meant by nobody            *)
(* (AppShell's selectedHost, ResourceScreen's deleteTarget).               *)
RowsReachTheirHost ==
  \A i \in Busy : LET f == flights[i]
                  IN Command[f.cmd].target /\ f.host # f.origin => seen[f.origin] = "gone"

(* While a request that a locked dialog has sent is pending, the dialog    *)
(* stays on the row it was opened for: the answer, which closes whatever   *)
(* dialog is open, finds its own (the isPending guards of the onClose      *)
(* handlers).                                                              *)
AnswersFindTheirDialog ==
  \A i \in Busy :
    LET f == flights[i]
    IN f.current /\ f.waiting /\ Command[f.cmd].dialog = "locked"
         => dialog = [cmd |-> f.cmd, origin |-> f.origin]

(* A list that a command has changed is refetched once the window has been *)
(* told of the change, however the user has moved about meanwhile; only    *)
(* lists of hosts that are no longer there are left as they were           *)
(* (queries.ts, onSuccess).                                                *)
ListsFollowMutations == \A x \in stale : x[2] = None \/ seen[x[2]] = "gone"

(* A dialog that cannot be closed becomes closable again, whatever the     *)
(* gateway does or fails to do: its request is answered or times out, and  *)
(* an operation that has ended is seen to have.  There are two exceptions, *)
(* and only dialogs that follow their operation past the request have      *)
(* them.  A pull or a build whose Engine stream hangs runs for ever, and   *)
(* keeps its dialog until the user cancels it; an operation that a         *)
(* restarted gateway has forgotten is polled in vain (queries.ts           *)
(* useOperation, ResourceScreen pullActive, BuildsScreen).                 *)
Stuck == dialog # None /\ Command[dialog.cmd].dialog = "locked" /\ Active(dialog.cmd)
Follows(i) == /\ Flying(i) /\ flights[i].followed
              /\ Command[flights[i].cmd].hook \in {usePullImage, useBuildImage}
Forgotten == \E i \in Slots : Follows(i) /\ flights[i].op = "lost"
HangsFromNowOn == \E i \in Slots : [](Follows(i) /\ flights[i].op = "running")
DialogsRecover == Stuck ~> (~Stuck \/ Forgotten \/ HangsFromNowOn)
=============================================================================
