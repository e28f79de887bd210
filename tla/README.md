# Harbor Desk: formal specifications

TLA+ specifications of [Harbor Desk](../src), checked with TLC and, for eight
of the ten components modelled, proved with TLAPS. They are written from the source.
Where a document, comment or test of the repository says something else than the
code does, the section "Divergences" says so, and for two of them a run shows it.

    tlc -config OperationStore.cfg MCOperationStore.tla     # model-check
    tlapm OperationStoreProofs.tla                          # check the proofs

## The system

Harbor Desk manages remote Docker Engines. A desktop application (Electron)
talks to a gateway (Fastify, Node.js) over HTTP and WebSockets; the gateway talks
to Engines. If the user points the desktop straight at an Engine, the desktop
starts a gateway of its own in its main process.

    renderer --IPC--> main process --owns--> ConnectionManager --starts--> Local Gateway
        |                                                                    (wrapper)
        +--HTTP, WebSocket--> gateway: routes --> OperationStore, AuditStore
                                        |  \---> EventHub --stream route--> renderer
                                        v
                                  HostRegistry --> DockerEngineClient --> Engine
                                        ^ ScanRunner

Everything runs in event loops: a handler runs undisturbed to its next `await`, and
anything may happen between there and its continuation. Nothing but HTTP
sockets has timeouts by default. The gateway keeps its state in memory: a restart loses
operations, idempotency keys, hosts and events. Only the desktop persists
something, in its secure store.

| Component | State | Operations | Hard behaviour |
|---|---|---|---|
| Operation store, mutation routes (`operations.ts`, `app.ts`) | operations, idempotency keys, abort controllers, settle promises; audit | run, get, setProgress, cancel | retries while the first request runs, cancel against completion, 5 s timer |
| Gateway routes (`app.ts`) over registries, extensions, assistant | hosts, clusters and their credentials, audit log | some fifty handlers of one form | removal between check and call, lost answers, partial creation, what the audit claims |
| Connection manager (`connection-manager.ts`, `managed-gateway.ts`, IPC in `main.ts`) | target, wrapper, reconnect promise, status; secure store | initialize, configure, clear, reconnect, close | calls overlap at every await, relaunch after a crash, failing closes and writes |
| Desktop session (`main.ts`, `client.ts`, token exchange in `auth.ts`) | access token, pending login, refresh token | login, callback, refresh, logout | answers after logout, rotation, a file torn by a crash |
| Scan runner (`scan-runner.ts`) | a scan container on the Engine | run | abort at any await, cleanup on every path, deadline |
| Event path (`events.ts`, stream route, `state/events.ts`, `ui-store.ts`) | history, cursor, socket, notifications | publish, since, connect, receive, reconnect | lost frames, evicted cursors, gateway restarts, host switches |
| Host registry (`host-registry.ts`) | hosts, status, certificates, watchers | add, remove, test, ~30 resource calls, watchEvents, close | overlapping requests mark the status, removal against a watcher |
| Engine connector (`packages/connectors`) | none of its own | requests, streams, volume browser | timeouts, aborts, retries |
| Terminal (`TerminalDrawer.tsx`, exec, ticket and terminal routes, `host-registry.ts`) | runs, sessions, tickets, sockets | run, ticket, connect, stream, close | frames in flight when a socket ends, tickets that expire |
| Screens (`renderer/`) | selected host, dialog, pending mutations, followed operations | 32 commands on 14 screens | answers after navigation, hosts that vanish under a dialog, client timeouts |
| Installer (`bin/`) | files, ports and Compose projects of a host | install, with or without the wizard | check and write apart, two installers, ambient environment |
| Update checker, configuration, worker, build context, contracts, infrastructure | see `PROJECT.json` | | little or none |

`PROJECT.json` lists every component with its sources, what is modelled of it and why
the rest is not, and all hazards with their lines.

## Modules

| Module | Models |
|---|---|
| `OperationContract` | what a client may rely on: an operation begins once, ends once, and answers are true |
| `OperationStore` | the store and the routes that call it; implements `OperationContract` |
| `GatewayRoutes` | every handler of the gateway, from the token's verdict to the audit record |
| `ConnectionManager` | the desktop's connection, its wrapper processes and the secure store |
| `DesktopSession` | sign-in, refresh and sign-out across main process, renderer and identity provider |
| `ScanRunner` | image scans, the host's online flag and the Engine carrying out requests |
| `EventStream` | event hub, stream route, renderer hook and notifications |
| `HostRegistry` | hosts, requests that mark them, certificates and watchers |
| `Terminal` | a command from the drawer over its socket to the Engine and back |
| `Screens` | the renderer's commands, dialogs, mutations and operation polling |
| `Installer` | installers that race on one host |
| `*Proofs` | TLAPS proofs about the module of that name; `RendererProofs` about `Terminal`, `Screens` and `EventStream` |
| `MC*` | the instances TLC checks |

They meet where one component promises what another relies on. `GatewayRoutes` reduces
an operation to its status, which `OperationStore` refines, and a host to being
registered, which `HostRegistry` refines. `ScanRunner` is one task of `OperationStore`.
`Screens` takes from `OperationStore` that what it is told of an operation is true
(`ImplementsContract`), but not that an operation ends, and from `ConnectionManager` that
a call of the desktop bridge returns (`CallsAreAnswered`). `Terminal` and `DesktopSession`
contain the handlers of the gateway they need.

An action is the code between two awaits, or an environment step (an Engine answers,
a socket breaks, a process ends). An operator named `X_Something`, commented
"Fault:", is `X` with a plausible mistake. It is used by no specification;
it records the mistake that makes a property fail, so that each property is known to
be able to fail.

### OperationStore

`status`, `progress`, `idempotency` and `signal` are the maps of
`OperationStore`; `origin` remembers the idempotency scope an operation was
created under, `trail` the events published about it. `call` and `cancel` are the
route handlers that await. `RunCreated` is `run()` up to `await settle`: lookup,
creation, both events and the start of the task are one step, because there is no
await between them. `RunRepeated` and `RunKnownId` are its early returns. A task
settles in `TaskSucceeds` or `TaskFails`; after an abort it may reject with
`operation_cancelled`, with an `AbortError`, with another error, or succeed.
`CancelRunning` aborts and waits; `CancelSettles` and `CancelTimesOut` are the
two ends of `Promise.race`. Routes that write no audit record are `SilentKinds`,
routes that honour an `Operation-Id` header `TrackedKinds`.

Abstracted: timestamps, messages, problem details, and the host access and role checks
in front of the handlers. No entry of the store is ever removed, in the code or here.

### ConnectionManager

`manager` holds the fields of the class; a wrapper is named after the call that
started it. `call[c]` says at which await call `c` stands: stopping a wrapper,
joined to a reconnect, probing, starting, closing an offline wrapper, saving.
`Stop`, `Connect`, `ActivateEngine`, `Return` and `Leave` are the pieces the methods share.
`Saved` and `SaveFails` are the writes of the IPC handlers, `Quit` is `will-quit`,
`Crash` ends the process anywhere and `Launch` reads the target back.

Endpoints fall into those that are probed (`Http`), those whose Engine needs
certificates (`NeedsTls`) and those never accepted for an Engine (`PlainRemote`).
`patient`, chosen initially, is a user who never has two calls in flight. Some
properties hold only for such a user, and they say so: nothing in the code makes a
user wait.

### ScanRunner

`pc[s]` is the request scan `s` awaits. Requests in `Signalled` carry the
operation's abort signal and are rejected once it fires (`Interrupted`); the others
run to their answer. `CleanUp` is the `finally` block. The Engine
(`EngineActs`) carries out what it received, also after the gateway gave up.
`online` is the flag `HostRegistry` keeps, which `assertOnline()` consults
and other requests move (`HostMarked`). `reliable`, chosen initially, is an Engine
that answers everything, for what can only be promised then.

### EventStream

`history` and `sequence` are the hub; `epoch` is the process, whose clock
tells its cursors from those of others. `phase` and `cursor` are the hook,
`frames` what the socket holds. `Connect` is the stream route: replay and subscribe
with no await between them. `fetched[k]` says how many events had been published
when the query of kind `k` last ran, so a stale list can be told from a fresh one; the
refetch that `invalidateQueries` starts is taken to be immediate. `log` and `received`
are for the properties only. A socket delivers in order or breaks.

### HostRegistry

A request is cut at the secret store and at the Engine. `EngineAnswers` decides the
answer and `Answered` handles it, later and in any order; that is how a late
failure overrides a newer success. `Marked` is which answers mark a host
online or offline: any failure of a list, the dashboard or a probe does, a mutation or
inspection only if it is not a 4xx. `Loop`, `StreamOpens`, `StreamEvent`,
`StreamFails`, `StreamCloses` and `Wake` are `watchEvents()`. `refused` remembers
the hosts whose certificates the secret store refused to delete.

### GatewayRoutes

A route is a record: its scope (what the path names), the role it asks for, the work it
calls and the results it audits; `Targets`, `Allowed` and `Found` say what follows from
them. Routes that differ only in names are equal records. A handler goes
through `Receive`, one of the refusals (`Reject`, `OperationMissing`, `Deny`,
`BadRequest`, `Missing`), `Join` or `Run` for operations and `Call` for the rest, the
steps of its work, and one of the ends (`Settle`, `Returned`, `ClusterRemoved`, ...),
which write the audit record and the answer in one step as the code does.
`effect` is what the outside world has come to, whether or not the answer arrives.
Users are `[role, hosts]`; that an idempotency key is shared is all that matters of it.
The four routes that read an `Operation-Id` are `named`; `id` is the request an operation
id was first used for, and a request may send any of `KnownIds`. `Recorded` is the lookup
of `operations.run()`: the key first, then the id, whatever host, kind or user it has.

### DesktopSession

`accessToken`, `pendingLogin` and `stored` are the main process's; `job[j]` is a
call into it or a renderer request with the calls it makes. A refresh token is
`[gw, login, era, serial]`; `honoured` is the serial the identity provider still takes.
`Torn` is the file while `writeFile()` is at work. `era` counts the clears, so that a
token of a session that was ended can be told. `straddled` and `steady` remember the
overlaps two properties except.

### Terminal

`at[k]` is how far `runCommand()` of run `k` has come, `exec[k]` the terminal handler,
`link[k]` the socket as its two ends left it and `wire[k]` what is on it. Each end
learns of a closed or broken socket in an event of its own.

### Screens

A hook is its name, the lists it invalidates and whether it is answered by an operation.
A command is the hook it calls and how its dialog behaves: when it may be closed, what
closes it, whether it follows an operation. The actions (`OpenDialog`, `Confirm`,
`CloseDialog`, `Answered`, `RequestFails`, `Poll`, ...) are the same for all 32.
`current` is whether the mounted component still observes a mutation, which is what
decides whether TanStack Query calls the callbacks given to `mutate()`.

### Installer

An installer takes its options from the command line (`Arguments`) or the wizard,
is refused or has a plan, and then checks, copies, writes and starts Compose, each
in a step of its own. `ambient` is the shell's environment, one of
`Shells`, which Compose prefers to an `--env-file`; only `installer` varies it. `asked`
remembers what the wizard was told. `listening` and `gateway` are shared with every other
installer and with services nobody announced.

## Runs

States are distinct states; times are for two workers.

| Run | Instance | Shows |
|---|---|---|
| `operation_store` | 2 requests, 2 cancels, 2 operations, 1 key, a tracked and an untracked kind | The maps, events, audit and answers agree (`BooksAgree`), the contract is implemented, every cancel is answered though a task hangs, an aborted operation's request is answered if aborted tasks end. |
| `gateway_routes` | 2 requests of any route, 3 users, 2 hosts, a cluster; 1 910 000 states, 40 s | Only the entitled change anything; what changed is audited; audited successes are exact, up to an operation that the request itself named; cluster credentials do not outlive their cluster unnoticed. |
| `connection_manager` | 2 calls, 2 launches, a socket and a remote https endpoint | Detection goes somewhere and reconnects coalesce, however calls overlap; certificates stay with Engines; for a patient user the wrapper that runs is the one offered, a relaunch returns to the endpoint in use and a Gateway stays a Gateway; every call is answered. |
| `desktop_session` | the restore and 2 jobs, 2 gateways, 2 logins, 2 launches; 290 000 states | A code is exchanged once, a cleared session stays cleared, a session nobody ends survives. |
| `scan_runner` | 2 scans, 2 polls; 93 000 states | Success is earned and cancellation asked for, nothing runs on, every scan ends unless one of its two streams hangs. |
| `event_stream` | 2 hosts, 2 kinds, 3 events, history of 2, 2 breaks, a restart, 2 switches; 560 000 states | Order, no duplicates, nothing kept is missed, the host's log while nothing is forgotten, fresh lists, eventual catching up. |
| `host_registry` | 1 host, 2 requests, 2 outages; 100 000 states | Certificates go with their host, hosts are watched, a removed host is silent, status heals, watchers end. |
| `terminal` | 3 runs, 1 piece of output each; 380 000 states, 30 s | Runs end with their outcome told, closed sessions stay closed, the drawer recovers. |
| `installer` | 2 installers, a directory, a port, 2 projects; 165 000 states, 45 s | One install per directory, no exposed development login, the wizard is refused for the origin `null` in public and nothing else. |
| `screens` | 2 hosts, every screen and command, 1 request at a time; 510 000 states, 80 s | Rows reach their host, answers find their dialog, lists follow mutations, locked dialogs recover unless their operation hangs or is forgotten. |
| `event_stream_gap` | as `event_stream` | Violation: after its cursor was evicted, a client goes on with stale lists. |
| `installer_replaces` | 2 installers, 2 directories, 2 ports, 1 project, a clean shell; under 1 min | Violation: a second installation recreates the gateway of the first. |

The type invariants are proved of all ten components and are in no run; adding
`INVARIANT TypeOK` (`ScreensTypeOK`, `StreamTypeOK`) to a cfg has TLC check it too.

### What the properties except

These properties state where the code keeps its promise, and name in the formula where
it does not. `ClearedStaysCleared` excepts a clear that meets an exchange or the end of
its process, after which a late refresh does bring the session back (`main.ts:340`).
`SessionSurvives` excepts jobs that overlap: two requests that refresh at once use one
rotating token twice. `DialogsRecover` excepts an operation that a restarted gateway has
forgotten after the dialog saw it run, which is polled in vain, and a pull or build that
hangs from some time on: its Engine stream carries no timeout (connectors
`index.ts:427`, `:477`, `:1181`), so its dialog stays busy until the user cancels.
`ScanEnds` excepts a scan that waits for ever in its pull or its log read, streams too, and
`AbortedScanEnds` the log read alone, which is not given the signal. `WizardIsAccepted`
excepts the allowed origin `null` of a public gateway. `SuccessAuditIsExact` excepts a
request that named the operation it was answered with by its `Operation-Id`.
`SecretsHaveHosts` and `ClusterSecretsAccounted` except a secret store that refuses a
deletion, and only that.

### Divergences

Two have a run and a finding in `PROJECT.json` with the quotation (`event_stream_gap`,
`installer_replaces`). These were met while modelling and show in the actions named:

- A cancelled scan's container is not removed: `CleanUp` sends its delete with the
  fired signal (`scan-runner.ts:277`; `CHANGELOG.md:30-31`). `ScanCleansUp` is
  therefore stated for scans nobody cancelled.
- A scan cancelled between two polls ends as failed, since the timer's `AbortError` is
  not the `operation_cancelled` that `operations.ts` looks for (`scan-runner.ts:234`;
  `README.md:58-61`): `Interrupted`.
- A cancelled scan whose log stream hangs never ends: `containerLogs()` gets neither the
  signal nor a timeout (`scan-runner.ts:241`, connectors `index.ts:1000`, `:1181`):
  `LogsRead` has no fairness.
- The wizard offers a free text for the allowed origins, whose check lets `null` pass
  (`server-installer.mjs:143`, `:1567`), and the plan of a public gateway then refuses it
  (`:309-313`), after all other questions: `NullOriginInPublic`.
- A pull, scan, prune or build that carries the `Operation-Id` of another operation, of
  whatever host, kind or user, is answered with that operation, does nothing, and is
  audited on its own host by that operation's status (`operations.ts:48-49`,
  `app.ts:1068-1118`, `:1148-1179`, `:1295-1316`; a build writes no record): `NamedBy`.
- The cancel route's 200 may carry a running operation after five seconds:
  `CancelTimesOut`.
- A start that finishes during another configure leaves a Local Gateway behind a Server
  Gateway (`connection-manager.ts:381`; the test at `:422` expects none). Hence
  `WrapperIsTheOneOffered` for a patient user only.
- A prune dialog closes when its request hits the 15 s client timeout, while the prune
  goes on, and its Cancel button is disabled as long as it could cancel something
  (`ResourceScreen.tsx:539-548`, `ContainersScreen.tsx:797-801`; `CHANGELOG.md:88-89`):
  `Prune` in `Screens`.
- Image builds are not audited (`app.ts:988-1047`; `CHANGELOG.md:58`): `BuildContext` in
  `GatewayRoutes` has no audit results.
- The dialogs that remove a cluster or an extension can be closed, and opened for another
  row, while a removal is pending, whose answer then closes the wrong one; and
  `useAssistantApply` does not invalidate the dashboard. No text of the repository says
  otherwise.

### Why the bounds suffice

Operations, calls, scans, requests, jobs and installers interact only through the maps
they share, in pairs: two of each, and a third where a pair may already be joined, give
every overlap. The other two calls of `connection_manager` are the launch itself and the
quit. `MaxPolls`, `HistoryLimit` and `NotificationLimit` stand for 300, 500 and 50:
nothing depends on the number, only on the limit being reached and passed, and it is.
Hosts share nothing in `HostRegistry` but requests, so one suffices there; the
hub's history is shared, so the stream has two; a grant needs a host that is granted and
one that is not. Three runs of the drawer let one end late while another is under way and
a third is to come. `Slots = {1}` of `Screens` gives every command alone with every
navigation, timeout and restart. Two requests at once, which share the mutation observer
of a hook, are in the module (`Send` drops the earlier one's callbacks) but do not fit a
run; the safety properties are proved for them.
`MaxEvents`, `MaxDrops`, `MaxRestarts`, `MaxSwitches`, `MaxOutages`, `MaxLogins`,
`MaxLaunches`, `MaxRuns` and `MaxChunks` bound what users and environment do; nothing in
the code counts them. Symmetry is used only in runs without liveness. Deadlock is not
checked: every system here may come to rest, when all calls are answered or the
process has ended.

### Fairness

`OperationStore`: continuations run and timers expire; nothing is assumed of tasks,
and `AbortReleasesCaller` names its assumption, that an aborted task ends (the
signal reaches the request; requests without it time out after 60 s, the log read of a
scan excepted, of which it is assumed that it does not hang).
`ConnectionManager`: probes, starts, closes and writes end one way or another; each
carries a timeout or is local. `ScanRunner`: timers fire, aborts are delivered, and
requests other than the pull and log streams are answered or time out. `EventStream`:
timers fire, a gateway that is up accepts, an open socket delivers; nothing is assumed of
the number of breaks but that it is finite. `HostRegistry`: requests end, except that
logs, pulls and builds may hang for good (`StreamHangs`), broken event streams fail,
timers fire, the desktop polls the dashboard every 30 seconds (`state/queries.ts:88`), and
an Engine that is up serves a request that is repeated for ever. The last two matter to
`StatusHeals` only. `Terminal`: requests time out after 15 seconds, sockets open or fail,
frames arrive, and a command starts and ends in the end, which is an assumption about the
Engine and the command (an exec stream carries no timeout). `Screens`: a request is
answered or times out, a followed operation is polled, and a call of the desktop bridge
returns; nothing is assumed of what the gateway does with an operation. Each step leaves
less to do, so no stronger fairness is needed.
`GatewayRoutes`, `DesktopSession` and `Installer` check safety only and assume none.

## Proofs

`OperationStoreProofs` proves, for any sets of operations, hosts, kinds, keys, requests
and cancels, every safety property `operation_store` checks (`BooksAgree` conjoins
the invariants below `TypeOK`):

    Spec => []TypeOK, []OneOperationPerKey, []RetriesAgree, []AbortHandleWhileRunning,
            []TrailMatchesStatus, []CancelledOnDemand, []AuditedSuccessIsReal
    Spec => FinishedIsFinal, ExecutorSeesOutcome
    Spec => Contract!ContractSpec

They assume what the constants' ASSUMEs say: `NoOp`, `NoKey` and `NoScope` are not
real values, requests and cancels are different calls, tracked and silent kinds are
kinds, and progress is an integer.

None of the properties is inductive alone. The inductive invariant conjoins with them
`KeysPointBack` (idempotency and origin are inverse, and an absent operation has no
origin: else a new operation could take a scope that another one has),
`CallsPointToOperations` and `CancelsPointToOperations` (handlers only name
operations that exist, and a terminal answer is still the operation's status, which
is what makes an audited success last), and `AbortedOnDemand` (an aborted signal
was asked for by a cancel, which is what makes a cancelled status so). There is
one lemma per conjunct and in it one step per action. The action properties follow
from the invariant. For the refinement, each step of the store is matched: `RunCreated`
is `Begin`, a settling task `Finish`, an answered request `Tell`, and everything else
leaves the contract's variables alone.

`ConnectionManagerProofs` proves, for any endpoints, calls and launches,

    Spec => []TypeOK, []DetectionIsLive, []ReconnectsCoalesce, []TlsOnlyForEngines,
            []WrapperIsTheOneOffered, []ChoiceIsDurable
    Spec => GatewayStaysGateway

and so `OverlapsAreSafe`, which conjoins `DetectionIsLive` and `ReconnectsCoalesce`,
from the assumptions that `Boot`, `NoCall` and `NoTarget` are not calls or targets, that
a seed has neither certificates nor a detected mode, and that endpoints that need TLS or
are remote and plain are HTTP ones (`SchemeAssumption`). The invariant adds
`CallsHaveTargets` (a call on its way to a status has a target), `PromiseIsKept` (a
promise a later reconnect may join belongs to one that runs: else the second half of
`ReconnectsCoalesce` is lost by the next join), `TargetsArePublic` (what waits to be
saved has been through `publicTarget()` too, which is why the store stays clean
however long a save takes) and `ExitedIsStill`. The lemma `Steps` sorts every
step of every method into a few shapes: a call advances to its next await, concludes with
a settled status, begins, joins, or is saved. Each conjunct is then proved over
the shapes.

The last three speak of a patient user, who waits for one call before the next. They
need an invariant of their own, `patient => Patience`: at most one call is in flight
(`OneCall`); a wrapper that runs is the manager's, which holds none while a call is at
work (`Wrappers`); a call at work goes to the target in use or, when it configures one, to
its own while none is in use (`Course`, which is why a gateway stays one); and the store
names the endpoint in use, or a call is on its way to make it so (`Choice`). A launch
starts from what the last process left, so `ExitedRunsNothing` is needed besides.

`HostRegistryProofs` proves, for any hosts, requests and bounds,

    Spec => []TypeOK, []SecretsHaveHosts, []HostsAreWatched
    Spec => RemovedHostIsQuiet

from `NoHost` being no host. The invariant adds `RequestsFit`: an add that still stores
its certificates is the only request for its id, so that a refused certificate cannot
leave a registered host without a watcher.

`InstallerProofs` proves, for any installers, directories, ports and projects,

    Spec => []TypeOK, []OneInstallPerDirectory, []NoExposedDevelopmentLogin,
            []WizardIsAccepted

from `Nobody` being neither an installer nor a service and there being a project. The
last says that what the wizard makes of its answers is refused exactly for `null` in
public. The invariant adds `PlansFit`: an installer past its options has a plan, and one that opens
the port to the network asks for an identity provider, which the later steps rely on
without checking again.

`RendererProofs` holds the proofs of three modules of the renderer that share no state:
`Terminal`, `Screens` and `EventStream`. It extends all of them, which is why the last two
name their specifications `ScreensSpec` and `StreamSpec`, and so on, and why hosts are
`HostIds` in `EventStream`. Of `Terminal` it proves, for any number of runs and any amount
of output,

    Spec => []TypeOK, []RunsEndTold
    Spec => ClosedStaysClosed

The invariant adds `InOrder` (a socket belongs to a run that came as far as opening it,
a ticket admits once) and `NothingIsLost`: every run that was admitted is streaming,
ending or told, and what is shown and what is on the wire make up what was written,
with the last frame the one that ends it.

Of `Screens` it proves, for any hosts, any role and any number of requests at once,

    ScreensSpec => []ScreensTypeOK, []RowsReachTheirHost, []AnswersFindTheirDialog,
                   []ListsFollowMutations

from `None` being neither a dialog nor a request (`NoneAssumption`). The runs have one
request at a time; the theorems are how two at once are covered. The invariant
`WindowInv` adds `SelectionListed` (the selection is on a host that is listed),
`DialogInPlace` and `FlightsInPlace` (a dialog and the requests the window still observes
belong to the screen it shows and, if they act on the selected host, to that host), and
`OneObserved` (of the requests of one hook at most the latest is observed, so that a
second request cannot answer the dialog of the first). `CommandsShaped` and
`ScreensOffer` look at all commands and routes once; the other proofs name only the
commands that add, remove or test hosts and the scan, which the model treats apart.

Of `EventStream` it proves, for any hosts, kinds, limits and bounds,

    StreamSpec => []StreamTypeOK, []NothingLostOrRepeated, []StreamIsTheLog, []ListsAreFresh

from the limits being positive, the bounds numbers and `NoCursor` no cursor. The three
properties are not inductive: they look at the hook alone, and a reconnect depends on what
the hub kept. The invariant has two parts. `HubInv`: the log holds each cursor once, none
is newer than the hub's counter, and the history is the latest part of the log, all of it
while nothing was forgotten. `StreamInv`: what was handled and what is on its way are
events of the host in the order of the log, the cursor is that of the last one handled
(`Located`, `Ordered`, `CursorIsLast`), a closed socket carries nothing, every kept event
of the host is among them on an open stream and, on any, up to the cursor (`Covered`), and
a handled event was followed by a fetch (`Fetched`). `ConnectReplays` is the heart of it:
a connection replays exactly the host's events after some place in the log that lies
behind everything handled and leaves out nothing that is kept. `CursorDivides` is why a
break loses nothing: what was under way was newer than the cursor.

`ForHost` filters by a recursive function. The library's induction theorems take an
operator as a parameter and cannot be used here; `LeastNumber`, from the well-foundedness
of < on the naturals, stands in for them, with the least counterexample where an induction
would have its step. `OfHostIs` shows so that the function satisfies its equation,
`OfHostEnumerates` and `OfHostUnique` that its result is the one sequence that lists the
host's events in order, and `OfHostGrows` that a part of the log gives a prefix.

`ScanRunnerProofs` proves, for any number of scans and polls,

    Spec => []TypeOK, []OutcomeIsEarned, []NothingRunsOn

The invariant adds `HostAnswers` (with an Engine that answers no request marks the host
offline, so the cleanup is not refused), `Placed` (where a scan stands tells how far its
container came and why) and `Cleaned` (what is left of `NothingRunsOn` to do).

`GatewayRoutesProofs` proves, for any requests, users, hosts and clusters,

    Spec => []TypeOK, []OnlyTheEntitledAct, []SuccessAuditIsExact, []ChangesAreAudited,
            []ClusterSecretsAccounted

from users having a role and a set of hosts, and `NoTarget` being none. The invariant
adds `Entitled` (a handler at work was entitled to it: hosts are never registered again,
so the check stays good), `Trail` and `Operations` (a handler that has not ended has
recorded nothing but the hub search, and its operation runs exactly as long as it works)
and `Repeats` (a request answered with another's operation is of its host and kind or
named it, and if it was audited as a success that operation had succeeded; an operation's
handler keeps its host, kind and id, so this lasts). `RoutesFit` looks at every route once; `StepShape` sorts the 25 actions into
eight shapes, each a move of one handler, its trail and its operation (`Moves`), and each
shape is shown to keep what the invariant says of its handler (`Own`). For the
credentials, `AccountsHeld` says which handler accounts for a secret without a cluster: an
add that has not yet taken effect, a removal at work, or either after its audited failure.

`DesktopSessionProofs` proves, for any jobs, gateways, logins and launches,

    Spec => []TypeOK, []CodesAreExchangedOnce, []ClearedStaysCleared
    Spec => SessionSurvives

from `None`, `Torn` and the sessions being apart (`NoneAssumption`). The invariant adds
`Pending`: the login in progress began after the last clear and its code was not
exchanged, which holds because every path takes `pendingLogin` before its first await.
For `ClearedStaysCleared` it adds `OneEra`: while no clear met an exchange, the session in
memory and every exchange under way are of the present era, and a stored one of an earlier
era is about to be unlinked by the one job that clears. For `SessionSurvives` it adds
`SteadyInv`: in a steady history at most one job is at work, for the one gateway, the
stored session is the one the identity provider honours next, and no job has come to a
place from which it signs out.

### What is left to TLC

Every safety property that a passing run checks is proved. Liveness is not, as it needs
fairness and ENABLED: `CancelAnswers`, `AbortReleasesCaller`, `CallsAreAnswered`,
`ScanEnds`, `AbortedScanEnds`, `CatchesUp`, `StatusHeals`, `UnwantedWatchersEnd`,
`DrawerRecovers` and `DialogsRecover` are shown on the instances of the runs only. So are
the two violations. `ImplementsContract` is safety, and proved.

## Not modelled

Besides what `PROJECT.json` says of each component: request and response bodies, wording,
layout, cryptography, the parsing of Docker streams, and everything below a WebSocket or
an HTTP request. The gateway restart is modelled where something outlives it (the
client's cursor in `EventStream`, the dialog that follows an operation in `Screens`);
operations do not. The update checker's state is a promise and a cool-down, and the
volume browser repeats the life cycle of `ScanRunner`; both have a hazard listed without a
property. The build context packer, the configuration parser, the theme and the release
scripts compute values and keep no state.

## Plan

1. `BrowseVolume`: the connector's retry loop with its cleanup; with `ScanRunner` an
   instance of one abstract "container is borrowed and returned" contract.
2. `UpdateCheck`: single flight across channels.
3. Two requests at once in `Screens`, over a part of its commands.
4. Algorithms as functions checked against reference definitions: the Docker
   stream decoder, the build context packer's limits, version precedence.
5. Proofs: the algorithms of 4, by `LeastNumber`; `BrowseVolume` as a refinement.
