--------------------------- MODULE OperationStore ---------------------------
(***************************************************************************)
(* The gateway's OperationStore (apps/gateway/src/services/operations.ts)  *)
(* and the mutation routes that call it (apps/gateway/src/app.ts).         *)
(*                                                                         *)
(* Node runs a handler without interruption up to its next await, so an    *)
(* action of this module is the code between two awaits: run() creates,    *)
(* announces and starts the operation in one step, the task settles in     *)
(* another, and the caller and every canceller resume in steps of their    *)
(* own.  What an Engine request does in between is left to the task: it    *)
(* may succeed, fail, or, once aborted, reject with operation_cancelled or *)
(* with another error, or still succeed because the answer was on its way. *)
(***************************************************************************)
EXTENDS Integers, Sequences, FiniteSets

CONSTANTS
  Ops,           \* operation identifiers: UUIDs and client Operation-Ids
  Hosts,         \* registered hosts
  Kinds,         \* operation kinds: container.create, image.pull, ...
  TrackedKinds,  \* the kinds whose route honours an Operation-Id header
  SilentKinds,   \* the kinds whose route writes no audit record
  Keys,          \* Idempotency-Key header values, trimmed
  Requests,      \* calls of a mutation route
  Cancels,       \* calls of the cancel route
  Reported,      \* progress percentages tasks report
  NoOp, NoKey, NoScope  \* no operation, no key, no idempotency scope

ASSUME KindsAssumption    == TrackedKinds \subseteq Kinds /\ SilentKinds \subseteq Kinds
ASSUME ReportedAssumption == Reported \subseteq Int
ASSUME NoOpAssumption     == NoOp \notin Ops
ASSUME NoKeyAssumption    == NoKey \notin Keys
ASSUME NoScopeAssumption  == NoScope \notin Hosts \X Kinds \X Keys
ASSUME CallersAssumption  == Requests \cap Cancels = {}

VARIABLES
  status,       \* status[o]: the operation's status, "absent" before run()
  origin,       \* origin[o]: the idempotency scope run() created it under
  progress,     \* progress[o]: percentage, 0 while none is reported
  idempotency,  \* idempotency[s]: the operation recorded for scope s
  signal,       \* signal[o]: its AbortController and settle promise
  trail,        \* trail[o]: the operation events published, in order
  call,         \* call[r]: where the mutation request r stands
  cancel,       \* cancel[c]: where the cancel request c stands
  audit         \* audit[x]: the audit result recorded for call x

vars == <<status, origin, progress, idempotency, signal, trail, call, cancel, audit>>

Terminal == {"succeeded", "failed", "cancelled"}
Statuses == {"queued", "running"} \cup Terminal
Scopes   == Hosts \X Kinds \X Keys

(* A request of a mutation route, as the route reads it. *)
Queries ==
  {q \in [host : Hosts, kind : Kinds, key : Keys \cup {NoKey}, id : Ops \cup {NoOp}] :
     q.id # NoOp => q.kind \in TrackedKinds}

idempotencyKey(q) ==
  IF q.key = NoKey THEN NoScope ELSE <<q.host, q.kind, q.key>>

(* Fault: a client operation id bypasses the idempotency lookup. *)
recorded_IdFirst(q) ==
  IF q.key = NoKey \/ q.id # NoOp THEN NoOp ELSE idempotency[idempotencyKey(q)]

recorded(q) ==
  IF q.key = NoKey THEN NoOp ELSE idempotency[idempotencyKey(q)]

TaskErrors == {"operation_cancelled", "abort_error", "engine_error"}

isOperationCancelledError(error) == error = "operation_cancelled"

clamp(p) == IF p < 0 THEN 0 ELSE IF p > 100 THEN 100 ELSE p

NoQuery    == <<>>
IdleCall   == [pc |-> "idle", query |-> NoQuery, op |-> NoOp, reply |-> "none"]
IdleCancel == [pc |-> "idle", op |-> NoOp, reply |-> "none"]

Init ==
  /\ status      = [o \in Ops |-> "absent"]
  /\ origin      = [o \in Ops |-> NoScope]
  /\ progress    = [o \in Ops |-> 0]
  /\ idempotency = [s \in Scopes |-> NoOp]
  /\ signal      = [o \in Ops |-> "none"]
  /\ trail       = [o \in Ops |-> <<>>]
  /\ call        = [r \in Requests |-> IdleCall]
  /\ cancel      = [c \in Cancels |-> IdleCancel]
  /\ audit       = [x \in Requests \cup Cancels |-> "none"]

-----------------------------------------------------------------------------
(* Mutation routes. *)

auditResult(q, s) ==
  IF q.kind \in SilentKinds THEN "none"
  ELSE IF s = "succeeded" THEN "success" ELSE "failure"

(* Fault: a repeated request is told the work is done. *)
Answer_Optimistic(r, q, o) ==
  /\ call'  = [call EXCEPT ![r] = [pc |-> "answered", query |-> q, op |-> o,
                                   reply |-> "succeeded"]]
  /\ audit' = [audit EXCEPT ![r] = auditResult(q, status[o])]

Answer(r, q, o) ==
  /\ call'  = [call EXCEPT ![r] = [pc |-> "answered", query |-> q, op |-> o,
                                   reply |-> status[o]]]
  /\ audit' = [audit EXCEPT ![r] = auditResult(q, status[o])]

(* run() finds the idempotency key: the recorded operation is the answer. *)
RunRepeated(r, q) ==
  /\ call[r].pc = "idle"
  /\ recorded(q) # NoOp
  /\ Answer(r, q, recorded(q))
  /\ UNCHANGED <<status, origin, progress, idempotency, signal, trail, cancel>>

(* run() finds the operation id in use: that operation is the answer, and  *)
(* the idempotency key of this request is not recorded.                    *)
RunKnownId(r, q) ==
  /\ call[r].pc = "idle"
  /\ recorded(q) = NoOp
  /\ q.id # NoOp
  /\ status[q.id] # "absent"
  /\ Answer(r, q, q.id)
  /\ UNCHANGED <<status, origin, progress, idempotency, signal, trail, cancel>>

(* run() creates the operation, under the client's id or a fresh UUID,     *)
(* publishes it as queued and as running, and starts the task.             *)
RunCreated(r, q, o) ==
  /\ call[r].pc = "idle"
  /\ recorded(q) = NoOp
  /\ q.id \in {NoOp, o}
  /\ status[o] = "absent"
  /\ status'      = [status EXCEPT ![o] = "running"]
  /\ origin'      = [origin EXCEPT ![o] = idempotencyKey(q)]
  /\ idempotency' = [s \in Scopes |-> IF s = idempotencyKey(q) THEN o ELSE idempotency[s]]
  /\ trail'       = [trail EXCEPT ![o] = <<"queued", "running">>]
  /\ signal'      = [signal EXCEPT ![o] = "live"]
  /\ call'        = [call EXCEPT ![r] = [pc |-> "running", query |-> q, op |-> o,
                                         reply |-> "none"]]
  /\ UNCHANGED <<progress, cancel, audit>>

(* Fault: the settle promise is only resolved by success. *)
RunReturns_OnSuccess(r) ==
  /\ call[r].pc = "running"
  /\ status[call[r].op] = "succeeded"
  /\ Answer(r, call[r].query, call[r].op)
  /\ UNCHANGED <<status, origin, progress, idempotency, signal, trail, cancel>>

(* The route resumes after "await settle" and answers with the operation. *)
RunReturns(r) ==
  /\ call[r].pc = "running"
  /\ signal[call[r].op] = "none"
  /\ Answer(r, call[r].query, call[r].op)
  /\ UNCHANGED <<status, origin, progress, idempotency, signal, trail, cancel>>

-----------------------------------------------------------------------------
(* The task of a running operation. *)

(* The status changes, its event is published, and the finally block drops *)
(* the controller and the settle promise, all in one step.                 *)
Settle(o, outcome) ==
  /\ status' = [status EXCEPT ![o] = outcome]
  /\ trail'  = [trail EXCEPT ![o] = Append(@, outcome)]
  /\ signal' = [signal EXCEPT ![o] = "none"]
  /\ UNCHANGED <<origin, idempotency, call, cancel, audit>>

setProgress(o, p) ==
  /\ signal[o] # "none"
  /\ progress' = [progress EXCEPT ![o] = clamp(p)]
  /\ UNCHANGED <<status, origin, idempotency, signal, trail, call, cancel, audit>>

TaskSucceeds(o) ==
  /\ signal[o] # "none"
  /\ Settle(o, "succeeded")
  /\ progress' = [progress EXCEPT ![o] = 100]

(* The Engine client rejects with operation_cancelled, and a timer with an *)
(* AbortError, only on an aborted signal.                                  *)
TaskFails(o, error) ==
  /\ signal[o] # "none"
  /\ error # "engine_error" => signal[o] = "aborted"
  /\ Settle(o, IF isOperationCancelledError(error) THEN "cancelled" ELSE "failed")
  /\ UNCHANGED progress

-----------------------------------------------------------------------------
(* The cancel route. *)

cancelAudit(s) == IF s = "cancelled" THEN "success" ELSE "failure"

CancelReply(c, o) ==
  /\ cancel' = [cancel EXCEPT ![c] = [pc |-> "answered", op |-> o, reply |-> status[o]]]
  /\ audit'  = [audit EXCEPT ![c] = cancelAudit(status[o])]
  /\ UNCHANGED <<status, origin, progress, idempotency, trail, call>>

(* No such operation: 404, no audit record. *)
CancelUnknown(c, o) ==
  /\ cancel[c].pc = "idle"
  /\ status[o] = "absent"
  /\ cancel' = [cancel EXCEPT ![c] = [pc |-> "answered", op |-> o, reply |-> "not_found"]]
  /\ UNCHANGED <<status, origin, progress, idempotency, signal, trail, call, audit>>

(* A finished operation is returned unchanged. *)
CancelFinished(c, o) ==
  /\ cancel[c].pc = "idle"
  /\ status[o] \in Terminal
  /\ CancelReply(c, o)
  /\ UNCHANGED signal

(* A running operation is aborted and the route waits for it to settle; an *)
(* operation without controller is refused with 409.                       *)
CancelRunning(c, o) ==
  /\ cancel[c].pc = "idle"
  /\ status[o] = "running"
  /\ IF signal[o] # "none"
     THEN /\ signal' = [signal EXCEPT ![o] = "aborted"]
          /\ cancel' = [cancel EXCEPT ![c] = [pc |-> "waiting", op |-> o, reply |-> "none"]]
     ELSE /\ cancel' = [cancel EXCEPT ![c] =
                          [pc |-> "answered", op |-> o, reply |-> "not_cancellable"]]
          /\ UNCHANGED signal
  /\ UNCHANGED <<status, origin, progress, idempotency, trail, call, audit>>

(* Promise.race: the settle promise resolves ... *)
CancelSettles(c) ==
  /\ cancel[c].pc = "waiting"
  /\ signal[cancel[c].op] = "none"
  /\ CancelReply(c, cancel[c].op)
  /\ UNCHANGED signal

(* Fault: no timer in the race. *)
CancelTimesOut_NoTimer(c) == FALSE

(* ... or five seconds pass, and the operation is reported as it stands. *)
CancelTimesOut(c) ==
  /\ cancel[c].pc = "waiting"
  /\ CancelReply(c, cancel[c].op)
  /\ UNCHANGED signal

-----------------------------------------------------------------------------
Next ==
  \/ \E r \in Requests, q \in Queries : RunRepeated(r, q) \/ RunKnownId(r, q)
  \/ \E r \in Requests, q \in Queries, o \in Ops : RunCreated(r, q, o)
  \/ \E r \in Requests : RunReturns(r)
  \/ \E o \in Ops, p \in Reported : setProgress(o, p)
  \/ \E o \in Ops : TaskSucceeds(o)
  \/ \E o \in Ops, error \in TaskErrors : TaskFails(o, error)
  \/ \E c \in Cancels, o \in Ops :
       CancelUnknown(c, o) \/ CancelFinished(c, o) \/ CancelRunning(c, o)
  \/ \E c \in Cancels : CancelSettles(c) \/ CancelTimesOut(c)

Spec == Init /\ [][Next]_vars

(* The event loop runs every continuation and every expired timer.  It     *)
(* says nothing of tasks: an Engine stream has no timeout.                 *)
GatewayFairness ==
  /\ \A r \in Requests : WF_vars(RunReturns(r))
  /\ \A c \in Cancels  : WF_vars(CancelSettles(c)) /\ WF_vars(CancelTimesOut(c))

(* An aborted task ends: the signal reaches the Engine request, and those  *)
(* that ignore it have a 60 s socket timeout.  Only the log read of a scan *)
(* has neither (ScanRunner); that it does not hang is assumed here.        *)
AbortedTaskSettles(o) ==
  /\ signal[o] = "aborted"
  /\ TaskSucceeds(o) \/ \E error \in TaskErrors : TaskFails(o, error)

AbortFairness == \A o \in Ops : WF_vars(AbortedTaskSettles(o))

FairSpec == Spec /\ GatewayFairness

-----------------------------------------------------------------------------
(* Properties. *)

(* The state variables have the types of the store's maps and of the       *)
(* records the routes keep (Operation in packages/contracts).              *)
TypeOK ==
  /\ status      \in [Ops -> Statuses \cup {"absent"}]
  /\ origin      \in [Ops -> Scopes \cup {NoScope}]
  /\ progress    \in [Ops -> 0..100]
  /\ idempotency \in [Scopes -> Ops \cup {NoOp}]
  /\ signal      \in [Ops -> {"none", "live", "aborted"}]
  /\ trail       \in [Ops -> Seq(Statuses)]
  /\ call        \in [Requests -> [pc : {"idle", "running", "answered"},
                                   query : Queries \cup {NoQuery},
                                   op : Ops \cup {NoOp},
                                   reply : Statuses \cup {"none"}]]
  /\ cancel      \in [Cancels -> [pc : {"idle", "waiting", "answered"},
                                  op : Ops \cup {NoOp},
                                  reply : Statuses \cup {"none", "not_found", "not_cancellable"}]]
  /\ audit       \in [Requests \cup Cancels -> {"none", "success", "failure"}]

(* However requests, retries, cancels and settling tasks interleave, no    *)
(* two operations were ever started under one idempotency key (run()).     *)
OneOperationPerKey ==
  \A o1, o2 \in Ops : origin[o1] # NoScope /\ origin[o1] = origin[o2] => o1 = o2

(* A request that carries an idempotency key and no operation id is tied   *)
(* to the operation its key stands for, whether it started that operation  *)
(* or repeated it, and so are all its retries.                             *)
RetriesAgree ==
  \A r \in Requests :
    call[r].pc # "idle" /\ call[r].query.key # NoKey /\ call[r].query.id = NoOp
      => call[r].op = idempotency[idempotencyKey(call[r].query)]

(* An abort handle exists exactly while its operation runs, and no handler *)
(* ever meets a queued operation: a running operation can always be        *)
(* cancelled (the 409 and the queued branch of cancel() are unreachable)   *)
(* and no controller or settle promise outlives its operation.             *)
AbortHandleWhileRunning ==
  /\ \A o \in Ops : signal[o] # "none" <=> status[o] = "running"
  /\ \A o \in Ops : status[o] # "queued"
  /\ \A c \in Cancels : cancel[c].reply # "not_cancellable"

(* The events published of an operation are its life so far, each stage    *)
(* once and in order, and the last one is its status (publish()).          *)
TrailMatchesStatus ==
  \A o \in Ops :
    trail[o] = CASE status[o] = "absent"  -> <<>>
                 [] status[o] = "running" -> <<"queued", "running">>
                 [] OTHER                 -> <<"queued", "running", status[o]>>

(* An operation is only reported as cancelled if somebody asked for it:    *)
(* a lost Engine connection or a timeout never ends as "cancelled".        *)
CancelledOnDemand ==
  \A o \in Ops : status[o] = "cancelled" => \E c \in Cancels : cancel[c].op = o

(* A success in the audit log is never contradicted by the operation, now  *)
(* or later: the mutation succeeded, or the cancel did cancel it.          *)
AuditedSuccessIsReal ==
  /\ \A r \in Requests : audit[r] = "success" => status[call[r].op] = "succeeded"
  /\ \A c \in Cancels  : audit[c] = "success" => status[cancel[c].op] = "cancelled"

(* The maps of the store, its events, the audit log and what its callers   *)
(* are told say the same of every operation, whoever came first.           *)
BooksAgree ==
  /\ OneOperationPerKey /\ RetriesAgree
  /\ AbortHandleWhileRunning /\ TrailMatchesStatus
  /\ CancelledOnDemand /\ AuditedSuccessIsReal

(* A finished operation keeps its status and the event trail it ended      *)
(* with, whatever late cancels, retries or tasks still do.                 *)
FinishedIsFinal ==
  [][\A o \in Ops : status[o] \in Terminal
       => status'[o] = status[o] /\ trail'[o] = trail[o]]_vars

(* The request that ran the operation is only ever answered with its final *)
(* status; only repeated requests and timed-out cancels may see "running". *)
ExecutorSeesOutcome ==
  [][\A r \in Requests : call[r].pc = "running" /\ call'[r].pc = "answered"
       => call'[r].reply \in Terminal]_vars

(* Every cancel is answered even if the task never reacts to the abort:    *)
(* the five-second timer bounds the wait (cancel()).                       *)
CancelAnswers == \A c \in Cancels : cancel[c].pc = "waiting" ~> cancel[c].pc = "answered"

(* Once an operation is aborted, the route that runs it gets to answer,    *)
(* provided that aborted tasks end.                                        *)
AbortReleasesCaller ==
  AbortFairness => \A r \in Requests :
    call[r].pc = "running" /\ signal[call[r].op] = "aborted" ~> call[r].pc = "answered"

(* The inductive invariant behind the safety properties: idempotency and   *)
(* origin are inverse to each other, nothing points to an operation that   *)
(* was never created, and a terminal reply is the operation's status for   *)
(* ever.                                                                   *)
KeysPointBack ==
  /\ \A s \in Scopes : idempotency[s] # NoOp => origin[idempotency[s]] = s
  /\ \A o \in Ops : origin[o] # NoScope => idempotency[origin[o]] = o
  /\ \A o \in Ops : status[o] = "absent" => origin[o] = NoScope

CallsPointToOperations ==
  \A r \in Requests :
    /\ call[r].pc # "idle" => /\ call[r].query \in Queries
                              /\ call[r].op \in Ops
                              /\ status[call[r].op] # "absent"
    /\ call[r].pc = "idle" => call[r].op = NoOp
    /\ call[r].pc = "answered" => call[r].reply \in Statuses
    /\ call[r].reply \in Terminal => status[call[r].op] = call[r].reply
    /\ audit[r] = "success" => call[r].pc = "answered" /\ call[r].reply = "succeeded"

CancelsPointToOperations ==
  \A c \in Cancels :
    /\ cancel[c].pc = "idle" => cancel[c].op = NoOp /\ cancel[c].reply = "none"
    /\ cancel[c].pc = "waiting" => cancel[c].op \in Ops /\ status[cancel[c].op] # "absent"
    /\ cancel[c].reply \in Terminal => status[cancel[c].op] = cancel[c].reply
    /\ audit[c] = "success" => cancel[c].reply = "cancelled"

AbortedOnDemand ==
  \A o \in Ops : signal[o] = "aborted" => \E c \in Cancels : cancel[c].op = o

-----------------------------------------------------------------------------
(* The store implements the contract clients rely on. *)

Contract == INSTANCE OperationContract WITH
  phase <- status,
  owner <- idempotency,
  told  <- [r \in Requests |->
              IF call[r].pc = "answered"
              THEN [op |-> call[r].op, phase |-> call[r].reply]
              ELSE [op |-> NoOp, phase |-> "absent"]]

(* Every step of the store begins, ends or truthfully reports an operation *)
(* or is invisible to its clients.                                         *)
ImplementsContract == Contract!ContractSpec
=============================================================================
