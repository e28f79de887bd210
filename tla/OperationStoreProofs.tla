------------------------ MODULE OperationStoreProofs ------------------------
(***************************************************************************)
(* The safety properties of OperationStore for any number of operations,   *)
(* hosts, kinds, keys, requests and cancels.                               *)
(***************************************************************************)
EXTENDS OperationStore, SequenceTheorems, TLAPS

(* The inductive invariant. *)
IInv ==
  /\ TypeOK
  /\ AbortHandleWhileRunning
  /\ KeysPointBack
  /\ CallsPointToOperations
  /\ CancelsPointToOperations
  /\ AbortedOnDemand
  /\ CancelledOnDemand
  /\ TrailMatchesStatus
  /\ RetriesAgree

-----------------------------------------------------------------------------
(* An idempotency scope is never the mark of a request without key. *)
LEMMA ScopesAreNotNoScope == NoScope \notin Scopes
BY NoScopeAssumption DEF Scopes

(* What idempotencyKey() returns for a query. *)
LEMMA KeyType ==
  ASSUME NEW q \in Queries
  PROVE  /\ idempotencyKey(q) \in Scopes \cup {NoScope}
         /\ q.key # NoKey => idempotencyKey(q) \in Scopes
         /\ q.key = NoKey => idempotencyKey(q) = NoScope
BY NoKeyAssumption DEF Queries, idempotencyKey, Scopes

(* The idempotency lookup of run() yields an operation or none. *)
LEMMA RecordedType ==
  ASSUME TypeOK, NEW q \in Queries
  PROVE  recorded(q) \in Ops \cup {NoOp}
BY KeyType DEF recorded, TypeOK

(* Types are preserved, one step per action of the store. *)
LEMMA TypeOKInit == Init => TypeOK
BY DEF Init, TypeOK, IdleCall, IdleCancel, NoQuery

LEMMA AnswerTypeOK ==
  ASSUME TypeOK, NEW r \in Requests, NEW q \in Queries,
         NEW o \in Ops, status[o] # "absent", Answer(r, q, o),
         UNCHANGED <<status, origin, progress, idempotency, signal, trail, cancel>>
  PROVE  TypeOK'
<1>1. [pc |-> "answered", query |-> q, op |-> o, reply |-> status[o]]
        \in [pc : {"idle", "running", "answered"}, query : Queries \cup {NoQuery},
             op : Ops \cup {NoOp}, reply : Statuses \cup {"none"}]
  BY DEF TypeOK
<1>2. auditResult(q, status[o]) \in {"none", "success", "failure"}
  BY DEF auditResult
<1> QED
  BY <1>1, <1>2 DEF Answer, TypeOK

LEMMA SettleTypeOK ==
  ASSUME TypeOK, NEW o \in Ops, NEW outcome \in Terminal, Settle(o, outcome),
         progress' \in [Ops -> 0..100]
  PROVE  TypeOK'
<1>1. outcome \in Statuses
  BY DEF Statuses
<1>2. trail' \in [Ops -> Seq(Statuses)]
  BY <1>1, AppendProperties DEF Settle, TypeOK
<1> QED
  BY <1>1, <1>2 DEF Settle, TypeOK

LEMMA CancelReplyTypeOK ==
  ASSUME TypeOK, NEW c \in Cancels, NEW o \in Ops, status[o] # "absent",
         CancelReply(c, o), signal' = signal
  PROVE  TypeOK'
<1>1. [pc |-> "answered", op |-> o, reply |-> status[o]]
        \in [pc : {"idle", "waiting", "answered"}, op : Ops \cup {NoOp},
             reply : Statuses \cup {"none", "not_found", "not_cancellable"}]
  BY DEF TypeOK
<1>2. cancelAudit(status[o]) \in {"none", "success", "failure"}
  BY DEF cancelAudit
<1> QED
  BY <1>1, <1>2 DEF CancelReply, TypeOK

LEMMA TypeOKStep ==
  TypeOK /\ CallsPointToOperations /\ CancelsPointToOperations /\ KeysPointBack /\ [Next]_vars
    => TypeOK'
<1> SUFFICES ASSUME TypeOK, CallsPointToOperations, CancelsPointToOperations,
                    KeysPointBack, [Next]_vars
             PROVE  TypeOK'
  OBVIOUS
<1>1. ASSUME NEW r \in Requests, NEW q \in Queries, RunRepeated(r, q) PROVE TypeOK'
  <2>1. recorded(q) \in Ops /\ status[recorded(q)] # "absent"
    BY <1>1, RecordedType, KeyType, ScopesAreNotNoScope
       DEF RunRepeated, recorded, KeysPointBack, TypeOK
  <2> QED
    BY <1>1, <2>1, AnswerTypeOK DEF RunRepeated
<1>2. ASSUME NEW r \in Requests, NEW q \in Queries, RunKnownId(r, q) PROVE TypeOK'
  <2>1. q.id \in Ops
    BY <1>2 DEF RunKnownId, Queries
  <2> QED
    BY <1>2, <2>1, AnswerTypeOK DEF RunKnownId
<1>3. ASSUME NEW r \in Requests, NEW q \in Queries, NEW o \in Ops, RunCreated(r, q, o)
      PROVE  TypeOK'
  <2>1. status' \in [Ops -> Statuses \cup {"absent"}]
    BY <1>3 DEF RunCreated, TypeOK, Statuses
  <2>2. origin' \in [Ops -> Scopes \cup {NoScope}]
    BY <1>3, KeyType DEF RunCreated, TypeOK
  <2>3. idempotency' \in [Scopes -> Ops \cup {NoOp}]
    BY <1>3 DEF RunCreated, TypeOK
  <2>4. trail' \in [Ops -> Seq(Statuses)]
    <3>1. <<"queued", "running">> \in Seq(Statuses)
      BY DEF Statuses
    <3> QED
      BY <1>3, <3>1 DEF RunCreated, TypeOK
  <2>5. signal' \in [Ops -> {"none", "live", "aborted"}]
    BY <1>3 DEF RunCreated, TypeOK
  <2>6. call' \in [Requests -> [pc : {"idle", "running", "answered"},
                                query : Queries \cup {NoQuery},
                                op : Ops \cup {NoOp},
                                reply : Statuses \cup {"none"}]]
    BY <1>3 DEF RunCreated, TypeOK
  <2> QED
    BY <1>3, <2>1, <2>2, <2>3, <2>4, <2>5, <2>6 DEF RunCreated, TypeOK
<1>4. ASSUME NEW r \in Requests, RunReturns(r) PROVE TypeOK'
  <2>1. /\ call[r].query \in Queries
        /\ call[r].op \in Ops
        /\ status[call[r].op] # "absent"
    BY <1>4 DEF RunReturns, CallsPointToOperations
  <2> QED
    BY <1>4, <2>1, AnswerTypeOK DEF RunReturns
<1>5. ASSUME NEW o \in Ops, NEW p \in Reported, setProgress(o, p) PROVE TypeOK'
  <2>1. clamp(p) \in 0..100
    BY ReportedAssumption DEF clamp
  <2> QED
    BY <1>5, <2>1 DEF setProgress, TypeOK
<1>6. ASSUME NEW o \in Ops, TaskSucceeds(o) PROVE TypeOK'
  <2>1. progress' \in [Ops -> 0..100] /\ "succeeded" \in Terminal
    BY <1>6 DEF TaskSucceeds, TypeOK, Terminal
  <2> QED
    BY <1>6, <2>1, SettleTypeOK DEF TaskSucceeds
<1>7. ASSUME NEW o \in Ops, NEW error \in TaskErrors, TaskFails(o, error) PROVE TypeOK'
  <2>1. (IF isOperationCancelledError(error) THEN "cancelled" ELSE "failed") \in Terminal
    BY DEF Terminal
  <2>2. progress' \in [Ops -> 0..100]
    BY <1>7 DEF TaskFails, TypeOK
  <2> QED
    BY <1>7, <2>1, <2>2, SettleTypeOK DEF TaskFails
<1>8. ASSUME NEW c \in Cancels, NEW o \in Ops,
             CancelUnknown(c, o) \/ CancelFinished(c, o) \/ CancelRunning(c, o)
      PROVE  TypeOK'
  <2>1. CASE CancelUnknown(c, o)
    BY <2>1 DEF CancelUnknown, TypeOK
  <2>2. CASE CancelFinished(c, o)
    <3>1. status[o] # "absent"
      BY <2>2 DEF CancelFinished, Terminal
    <3> QED
      BY <2>2, <3>1, CancelReplyTypeOK DEF CancelFinished
  <2>3. CASE CancelRunning(c, o)
    <3>1. signal' \in [Ops -> {"none", "live", "aborted"}]
      BY <2>3 DEF CancelRunning, TypeOK
    <3>2. cancel' \in [Cancels -> [pc : {"idle", "waiting", "answered"},
                                   op : Ops \cup {NoOp},
                                   reply : Statuses \cup {"none", "not_found", "not_cancellable"}]]
      BY <2>3 DEF CancelRunning, TypeOK
    <3> QED
      BY <2>3, <3>1, <3>2 DEF CancelRunning, TypeOK
  <2> QED
    BY <1>8, <2>1, <2>2, <2>3
<1>9. ASSUME NEW c \in Cancels, CancelSettles(c) \/ CancelTimesOut(c) PROVE TypeOK'
  <2>1. cancel[c].op \in Ops /\ status[cancel[c].op] # "absent"
    BY <1>9 DEF CancelSettles, CancelTimesOut, CancelsPointToOperations
  <2> QED
    BY <1>9, <2>1, CancelReplyTypeOK DEF CancelSettles, CancelTimesOut
<1>10. CASE UNCHANGED vars
  BY <1>10 DEF vars, TypeOK
<1> QED
  BY <1>1, <1>2, <1>3, <1>4, <1>5, <1>6, <1>7, <1>8, <1>9, <1>10 DEF Next

(* A running operation has its abort handle, so cancel() always waits.     *)
LEMMA CancelRunningEffect ==
  ASSUME TypeOK, AbortHandleWhileRunning,
         NEW c \in Cancels, NEW o \in Ops, CancelRunning(c, o)
  PROVE  /\ cancel[c].pc = "idle" /\ status[o] = "running"
         /\ signal' = [signal EXCEPT ![o] = "aborted"]
         /\ cancel' = [cancel EXCEPT ![c] = [pc |-> "waiting", op |-> o, reply |-> "none"]]
         /\ UNCHANGED <<status, origin, progress, idempotency, trail, call, audit>>
<1>1. signal[o] # "none"
  BY DEF CancelRunning, AbortHandleWhileRunning
<1> QED
  BY <1>1 DEF CancelRunning

(* The lookup only ever finds operations that were created.                *)
LEMMA RecordedExists ==
  ASSUME TypeOK, KeysPointBack, NEW q \in Queries, recorded(q) # NoOp
  PROVE  recorded(q) \in Ops /\ status[recorded(q)] # "absent"
BY RecordedType, KeyType, ScopesAreNotNoScope DEF recorded, KeysPointBack, TypeOK

(* Only run() records keys, for an operation and a scope that were free. *)
LEMMA KeysPointBackStep ==
  TypeOK /\ KeysPointBack /\ [Next]_vars => KeysPointBack'
<1> SUFFICES ASSUME TypeOK, KeysPointBack, [Next]_vars PROVE KeysPointBack'
  OBVIOUS
<1>1. ASSUME NEW r \in Requests, NEW q \in Queries, RunRepeated(r, q) PROVE KeysPointBack'
  BY <1>1 DEF RunRepeated, Answer, KeysPointBack, TypeOK
<1>2. ASSUME NEW r \in Requests, NEW q \in Queries, RunKnownId(r, q) PROVE KeysPointBack'
  BY <1>2 DEF RunKnownId, Answer, KeysPointBack, TypeOK
<1>3. ASSUME NEW r \in Requests, NEW q \in Queries, NEW o \in Ops, RunCreated(r, q, o) PROVE KeysPointBack'
  <2>1. CASE q.key = NoKey
    BY <1>3, <2>1, KeyType, ScopesAreNotNoScope DEF RunCreated, KeysPointBack, TypeOK
  <2>2. CASE q.key # NoKey
    <3> DEFINE s == idempotencyKey(q)
    <3>1. s \in Scopes /\ idempotency[s] = NoOp
      BY <1>3, <2>2, KeyType DEF RunCreated, recorded
    <3>2. \A x \in Ops : origin[x] # s
      BY <3>1, ScopesAreNotNoScope, NoOpAssumption DEF KeysPointBack
    <3>3. /\ idempotency'[s] = o /\ origin'[o] = s /\ status'[o] = "running"
          /\ \A t \in Scopes \ {s} : idempotency'[t] = idempotency[t]
          /\ \A x \in Ops \ {o} : origin'[x] = origin[x] /\ status'[x] = status[x]
      BY <1>3, <3>1 DEF RunCreated, TypeOK
    <3>4. origin[o] = NoScope /\ \A t \in Scopes : idempotency[t] # o
      BY <1>3, NoOpAssumption, ScopesAreNotNoScope DEF RunCreated, KeysPointBack, TypeOK
    <3> HIDE DEF s
    <3>5. \A t \in Scopes : idempotency'[t] # NoOp => origin'[idempotency'[t]] = t
      BY <3>1, <3>3, <3>4 DEF KeysPointBack, TypeOK
    <3>6. \A x \in Ops : origin'[x] # NoScope => idempotency'[origin'[x]] = x
      BY <3>1, <3>2, <3>3 DEF KeysPointBack, TypeOK
    <3> QED
      BY <3>3, <3>5, <3>6 DEF KeysPointBack
  <2> QED
    BY <2>1, <2>2
<1>4. ASSUME NEW r \in Requests, RunReturns(r) PROVE KeysPointBack'
  BY <1>4 DEF RunReturns, Answer, KeysPointBack, TypeOK
<1>5. ASSUME NEW o \in Ops, NEW p \in Reported, setProgress(o, p) PROVE KeysPointBack'
  BY <1>5 DEF setProgress, KeysPointBack, TypeOK
<1>6. ASSUME NEW o \in Ops, TaskSucceeds(o) PROVE KeysPointBack'
  BY <1>6 DEF TaskSucceeds, Settle, Terminal, KeysPointBack, TypeOK
<1>7. ASSUME NEW o \in Ops, NEW error \in TaskErrors, TaskFails(o, error) PROVE KeysPointBack'
  BY <1>7 DEF TaskFails, Settle, Terminal, KeysPointBack, TypeOK
<1>8. ASSUME NEW c \in Cancels, NEW o \in Ops, CancelUnknown(c, o) PROVE KeysPointBack'
  BY <1>8 DEF CancelUnknown, KeysPointBack, TypeOK
<1>9. ASSUME NEW c \in Cancels, NEW o \in Ops, CancelFinished(c, o) PROVE KeysPointBack'
  BY <1>9 DEF CancelFinished, CancelReply, KeysPointBack, TypeOK
<1>10. ASSUME NEW c \in Cancels, NEW o \in Ops, CancelRunning(c, o) PROVE KeysPointBack'
  BY <1>10 DEF CancelRunning, KeysPointBack, TypeOK
<1>11. ASSUME NEW c \in Cancels, CancelSettles(c) PROVE KeysPointBack'
  BY <1>11 DEF CancelSettles, CancelReply, KeysPointBack, TypeOK
<1>12. ASSUME NEW c \in Cancels, CancelTimesOut(c) PROVE KeysPointBack'
  BY <1>12 DEF CancelTimesOut, CancelReply, KeysPointBack, TypeOK
<1>13. ASSUME UNCHANGED vars PROVE KeysPointBack'
  BY <1>13 DEF vars, KeysPointBack, TypeOK
<1> QED
  BY <1>1, <1>2, <1>3, <1>4, <1>5, <1>6, <1>7, <1>8, <1>9, <1>10, <1>11, <1>12, <1>13 DEF Next

(* Controllers come with run() and go with the finally block. *)
LEMMA AbortHandleStep ==
  TypeOK /\ CancelsPointToOperations /\ AbortHandleWhileRunning /\ [Next]_vars => AbortHandleWhileRunning'
<1> SUFFICES ASSUME TypeOK, CancelsPointToOperations, AbortHandleWhileRunning, [Next]_vars PROVE AbortHandleWhileRunning'
  OBVIOUS
<1>1. ASSUME NEW r \in Requests, NEW q \in Queries, RunRepeated(r, q) PROVE AbortHandleWhileRunning'
  BY <1>1 DEF RunRepeated, Answer, AbortHandleWhileRunning, TypeOK, Statuses, Terminal
<1>2. ASSUME NEW r \in Requests, NEW q \in Queries, RunKnownId(r, q) PROVE AbortHandleWhileRunning'
  BY <1>2 DEF RunKnownId, Answer, AbortHandleWhileRunning, TypeOK, Statuses, Terminal
<1>3. ASSUME NEW r \in Requests, NEW q \in Queries, NEW o \in Ops, RunCreated(r, q, o) PROVE AbortHandleWhileRunning'
  BY <1>3 DEF RunCreated, AbortHandleWhileRunning, TypeOK, Statuses, Terminal
<1>4. ASSUME NEW r \in Requests, RunReturns(r) PROVE AbortHandleWhileRunning'
  BY <1>4 DEF RunReturns, Answer, AbortHandleWhileRunning, TypeOK, Statuses, Terminal
<1>5. ASSUME NEW o \in Ops, NEW p \in Reported, setProgress(o, p) PROVE AbortHandleWhileRunning'
  BY <1>5 DEF setProgress, AbortHandleWhileRunning, TypeOK, Statuses, Terminal
<1>6. ASSUME NEW o \in Ops, TaskSucceeds(o) PROVE AbortHandleWhileRunning'
  BY <1>6 DEF TaskSucceeds, Settle, Terminal, AbortHandleWhileRunning, TypeOK, Statuses, Terminal
<1>7. ASSUME NEW o \in Ops, NEW error \in TaskErrors, TaskFails(o, error) PROVE AbortHandleWhileRunning'
  BY <1>7 DEF TaskFails, Settle, Terminal, AbortHandleWhileRunning, TypeOK, Statuses, Terminal
<1>8. ASSUME NEW c \in Cancels, NEW o \in Ops, CancelUnknown(c, o) PROVE AbortHandleWhileRunning'
  BY <1>8 DEF CancelUnknown, AbortHandleWhileRunning, TypeOK, Statuses, Terminal
<1>9. ASSUME NEW c \in Cancels, NEW o \in Ops, CancelFinished(c, o) PROVE AbortHandleWhileRunning'
  BY <1>9 DEF CancelFinished, CancelReply, AbortHandleWhileRunning, TypeOK, Statuses, Terminal
<1>10. ASSUME NEW c \in Cancels, NEW o \in Ops, CancelRunning(c, o) PROVE AbortHandleWhileRunning'
  <2>1. /\ signal' = [signal EXCEPT ![o] = "aborted"]
        /\ cancel' = [cancel EXCEPT ![c] = [pc |-> "waiting", op |-> o, reply |-> "none"]]
        /\ status' = status /\ status[o] = "running"
    BY <1>10, CancelRunningEffect
  <2>2. \A x \in Ops : signal'[x] # "none" <=> status'[x] = "running"
    BY <2>1 DEF AbortHandleWhileRunning, TypeOK
  <2>3. \A d \in Cancels : cancel'[d].reply # "not_cancellable"
    BY <2>1 DEF AbortHandleWhileRunning, TypeOK
  <2> QED
    BY <2>1, <2>2, <2>3 DEF AbortHandleWhileRunning
<1>11. ASSUME NEW c \in Cancels, CancelSettles(c) PROVE AbortHandleWhileRunning'
  <2>1. cancel' = [cancel EXCEPT ![c] = [pc |-> "answered", op |-> cancel[c].op,
                                        reply |-> status[cancel[c].op]]]
    BY <1>11 DEF CancelSettles, CancelReply
  <2>2. cancel[c].op \in Ops => status[cancel[c].op] # "not_cancellable"
    BY DEF TypeOK, Statuses, Terminal
  <2>3. cancel[c].op \in Ops
    BY <1>11 DEF CancelSettles, CancelsPointToOperations
  <2> QED
    BY <1>11, <2>1, <2>2, <2>3 DEF CancelSettles, CancelReply, AbortHandleWhileRunning, TypeOK
<1>12. ASSUME NEW c \in Cancels, CancelTimesOut(c) PROVE AbortHandleWhileRunning'
  <2>1. cancel' = [cancel EXCEPT ![c] = [pc |-> "answered", op |-> cancel[c].op,
                                        reply |-> status[cancel[c].op]]]
    BY <1>12 DEF CancelTimesOut, CancelReply
  <2>2. cancel[c].op \in Ops => status[cancel[c].op] # "not_cancellable"
    BY DEF TypeOK, Statuses, Terminal
  <2>3. cancel[c].op \in Ops
    BY <1>12 DEF CancelTimesOut, CancelsPointToOperations
  <2> QED
    BY <1>12, <2>1, <2>2, <2>3 DEF CancelTimesOut, CancelReply, AbortHandleWhileRunning, TypeOK
<1>13. ASSUME UNCHANGED vars PROVE AbortHandleWhileRunning'
  BY <1>13 DEF vars, AbortHandleWhileRunning, TypeOK, Statuses, Terminal
<1> QED
  BY <1>1, <1>2, <1>3, <1>4, <1>5, <1>6, <1>7, <1>8, <1>9, <1>10, <1>11, <1>12, <1>13 DEF Next

(* Only a cancel aborts a signal, and it remembers whose. *)
LEMMA AbortedOnDemandStep ==
  TypeOK /\ AbortHandleWhileRunning /\ CancelsPointToOperations /\ AbortedOnDemand /\ [Next]_vars => AbortedOnDemand'
<1> SUFFICES ASSUME TypeOK, AbortHandleWhileRunning, CancelsPointToOperations, AbortedOnDemand, [Next]_vars PROVE AbortedOnDemand'
  OBVIOUS
<1>1. ASSUME NEW r \in Requests, NEW q \in Queries, RunRepeated(r, q) PROVE AbortedOnDemand'
  BY <1>1 DEF RunRepeated, Answer, AbortedOnDemand, TypeOK
<1>2. ASSUME NEW r \in Requests, NEW q \in Queries, RunKnownId(r, q) PROVE AbortedOnDemand'
  BY <1>2 DEF RunKnownId, Answer, AbortedOnDemand, TypeOK
<1>3. ASSUME NEW r \in Requests, NEW q \in Queries, NEW o \in Ops, RunCreated(r, q, o) PROVE AbortedOnDemand'
  BY <1>3 DEF RunCreated, AbortedOnDemand, TypeOK
<1>4. ASSUME NEW r \in Requests, RunReturns(r) PROVE AbortedOnDemand'
  BY <1>4 DEF RunReturns, Answer, AbortedOnDemand, TypeOK
<1>5. ASSUME NEW o \in Ops, NEW p \in Reported, setProgress(o, p) PROVE AbortedOnDemand'
  BY <1>5 DEF setProgress, AbortedOnDemand, TypeOK
<1>6. ASSUME NEW o \in Ops, TaskSucceeds(o) PROVE AbortedOnDemand'
  BY <1>6 DEF TaskSucceeds, Settle, Terminal, AbortedOnDemand, TypeOK
<1>7. ASSUME NEW o \in Ops, NEW error \in TaskErrors, TaskFails(o, error) PROVE AbortedOnDemand'
  BY <1>7 DEF TaskFails, Settle, Terminal, AbortedOnDemand, TypeOK
<1>8. ASSUME NEW c \in Cancels, NEW o \in Ops, CancelUnknown(c, o) PROVE AbortedOnDemand'
  <2>1. /\ cancel'[c].op = o /\ cancel[c].op = NoOp
        /\ \A d \in Cancels \ {c} : cancel'[d] = cancel[d]
    BY <1>8 DEF CancelsPointToOperations, CancelUnknown, TypeOK
  <2>2. \A x \in Ops : (\E d \in Cancels : cancel[d].op = x) => \E d \in Cancels : cancel'[d].op = x
    BY <2>1, NoOpAssumption
  <2> QED
    BY <1>8, <2>1, <2>2 DEF AbortedOnDemand, CancelUnknown, TypeOK
<1>9. ASSUME NEW c \in Cancels, NEW o \in Ops, CancelFinished(c, o) PROVE AbortedOnDemand'
  <2>1. /\ cancel'[c].op = o /\ cancel[c].op = NoOp
        /\ \A d \in Cancels \ {c} : cancel'[d] = cancel[d]
    BY <1>9 DEF CancelsPointToOperations, CancelFinished, CancelReply, TypeOK
  <2>2. \A x \in Ops : (\E d \in Cancels : cancel[d].op = x) => \E d \in Cancels : cancel'[d].op = x
    BY <2>1, NoOpAssumption
  <2> QED
    BY <1>9, <2>1, <2>2 DEF AbortedOnDemand, CancelFinished, CancelReply, TypeOK
<1>10. ASSUME NEW c \in Cancels, NEW o \in Ops, CancelRunning(c, o) PROVE AbortedOnDemand'
  <2>1. /\ cancel'[c].op = o /\ cancel[c].op = NoOp
        /\ \A d \in Cancels \ {c} : cancel'[d] = cancel[d]
    BY <1>10, CancelRunningEffect DEF CancelsPointToOperations, TypeOK
  <2>2. \A x \in Ops : (\E d \in Cancels : cancel[d].op = x) => \E d \in Cancels : cancel'[d].op = x
    BY <2>1, NoOpAssumption
  <2> QED
    <3>1. signal' = [signal EXCEPT ![o] = "aborted"]
      BY <1>10, CancelRunningEffect
    <3>2. \A x \in Ops : signal'[x] = "aborted" => x = o \/ signal[x] = "aborted"
      BY <3>1 DEF TypeOK
    <3> QED
      BY <2>1, <2>2, <3>2 DEF AbortedOnDemand
<1>11. ASSUME NEW c \in Cancels, CancelSettles(c) PROVE AbortedOnDemand'
  BY <1>11 DEF CancelSettles, CancelReply, AbortedOnDemand, TypeOK
<1>12. ASSUME NEW c \in Cancels, CancelTimesOut(c) PROVE AbortedOnDemand'
  BY <1>12 DEF CancelTimesOut, CancelReply, AbortedOnDemand, TypeOK
<1>13. ASSUME UNCHANGED vars PROVE AbortedOnDemand'
  BY <1>13 DEF vars, AbortedOnDemand, TypeOK
<1> QED
  BY <1>1, <1>2, <1>3, <1>4, <1>5, <1>6, <1>7, <1>8, <1>9, <1>10, <1>11, <1>12, <1>13 DEF Next

(* The task rejects with operation_cancelled only on an aborted signal. *)
LEMMA CancelledOnDemandStep ==
  TypeOK /\ AbortHandleWhileRunning /\ CancelsPointToOperations /\ AbortedOnDemand
    /\ CancelledOnDemand /\ [Next]_vars => CancelledOnDemand'
<1> SUFFICES ASSUME TypeOK, AbortHandleWhileRunning, CancelsPointToOperations,
                    AbortedOnDemand, CancelledOnDemand, [Next]_vars PROVE CancelledOnDemand'
  OBVIOUS
<1>1. ASSUME NEW r \in Requests, NEW q \in Queries, RunRepeated(r, q) PROVE CancelledOnDemand'
  BY <1>1 DEF RunRepeated, Answer, CancelledOnDemand, AbortedOnDemand, isOperationCancelledError, TaskErrors, TypeOK
<1>2. ASSUME NEW r \in Requests, NEW q \in Queries, RunKnownId(r, q) PROVE CancelledOnDemand'
  BY <1>2 DEF RunKnownId, Answer, CancelledOnDemand, AbortedOnDemand, isOperationCancelledError, TaskErrors, TypeOK
<1>3. ASSUME NEW r \in Requests, NEW q \in Queries, NEW o \in Ops, RunCreated(r, q, o) PROVE CancelledOnDemand'
  BY <1>3 DEF RunCreated, CancelledOnDemand, AbortedOnDemand, isOperationCancelledError, TaskErrors, TypeOK
<1>4. ASSUME NEW r \in Requests, RunReturns(r) PROVE CancelledOnDemand'
  BY <1>4 DEF RunReturns, Answer, CancelledOnDemand, AbortedOnDemand, isOperationCancelledError, TaskErrors, TypeOK
<1>5. ASSUME NEW o \in Ops, NEW p \in Reported, setProgress(o, p) PROVE CancelledOnDemand'
  BY <1>5 DEF setProgress, CancelledOnDemand, AbortedOnDemand, isOperationCancelledError, TaskErrors, TypeOK
<1>6. ASSUME NEW o \in Ops, TaskSucceeds(o) PROVE CancelledOnDemand'
  BY <1>6 DEF TaskSucceeds, Settle, Terminal, CancelledOnDemand, AbortedOnDemand, isOperationCancelledError, TaskErrors, TypeOK
<1>7. ASSUME NEW o \in Ops, NEW error \in TaskErrors, TaskFails(o, error) PROVE CancelledOnDemand'
  BY <1>7 DEF TaskFails, Settle, Terminal, CancelledOnDemand, AbortedOnDemand, isOperationCancelledError, TaskErrors, TypeOK
<1>8. ASSUME NEW c \in Cancels, NEW o \in Ops, CancelUnknown(c, o) PROVE CancelledOnDemand'
  <2>1. /\ cancel'[c].op = o /\ cancel[c].op = NoOp
        /\ \A d \in Cancels \ {c} : cancel'[d] = cancel[d]
    BY <1>8 DEF CancelsPointToOperations, CancelUnknown, TypeOK
  <2>2. \A x \in Ops : (\E d \in Cancels : cancel[d].op = x) => \E d \in Cancels : cancel'[d].op = x
    BY <2>1, NoOpAssumption
  <2> QED
    BY <1>8, <2>1, <2>2 DEF CancelledOnDemand, CancelUnknown, TypeOK
<1>9. ASSUME NEW c \in Cancels, NEW o \in Ops, CancelFinished(c, o) PROVE CancelledOnDemand'
  <2>1. /\ cancel'[c].op = o /\ cancel[c].op = NoOp
        /\ \A d \in Cancels \ {c} : cancel'[d] = cancel[d]
    BY <1>9 DEF CancelsPointToOperations, CancelFinished, CancelReply, TypeOK
  <2>2. \A x \in Ops : (\E d \in Cancels : cancel[d].op = x) => \E d \in Cancels : cancel'[d].op = x
    BY <2>1, NoOpAssumption
  <2> QED
    BY <1>9, <2>1, <2>2 DEF CancelledOnDemand, CancelFinished, CancelReply, TypeOK
<1>10. ASSUME NEW c \in Cancels, NEW o \in Ops, CancelRunning(c, o) PROVE CancelledOnDemand'
  <2>1. /\ cancel'[c].op = o /\ cancel[c].op = NoOp
        /\ \A d \in Cancels \ {c} : cancel'[d] = cancel[d]
    BY <1>10, CancelRunningEffect DEF CancelsPointToOperations, TypeOK
  <2>2. \A x \in Ops : (\E d \in Cancels : cancel[d].op = x) => \E d \in Cancels : cancel'[d].op = x
    BY <2>1, NoOpAssumption
  <2> QED
    BY <1>10, CancelRunningEffect, <2>1, <2>2 DEF CancelledOnDemand, TypeOK
<1>11. ASSUME NEW c \in Cancels, CancelSettles(c) PROVE CancelledOnDemand'
  BY <1>11 DEF CancelSettles, CancelReply, CancelledOnDemand, AbortedOnDemand, isOperationCancelledError, TaskErrors, TypeOK
<1>12. ASSUME NEW c \in Cancels, CancelTimesOut(c) PROVE CancelledOnDemand'
  BY <1>12 DEF CancelTimesOut, CancelReply, CancelledOnDemand, AbortedOnDemand, isOperationCancelledError, TaskErrors, TypeOK
<1>13. ASSUME UNCHANGED vars PROVE CancelledOnDemand'
  BY <1>13 DEF vars, CancelledOnDemand, AbortedOnDemand, isOperationCancelledError, TaskErrors, TypeOK
<1> QED
  BY <1>1, <1>2, <1>3, <1>4, <1>5, <1>6, <1>7, <1>8, <1>9, <1>10, <1>11, <1>12, <1>13 DEF Next

(* Settling a running operation appends the third and last event.          *)
LEMMA SettleTrail ==
  ASSUME TypeOK, AbortHandleWhileRunning, TrailMatchesStatus,
         NEW o \in Ops, NEW outcome \in Terminal, signal[o] # "none", Settle(o, outcome)
  PROVE  TrailMatchesStatus'
<1>1. trail[o] = <<"queued", "running">>
  BY DEF TrailMatchesStatus, AbortHandleWhileRunning
<1>2. Append(<<"queued", "running">>, outcome) = <<"queued", "running", outcome>>
  <2> DEFINE s == <<"queued", "running">>
             t == Append(s, outcome)
             u == <<"queued", "running", outcome>>
             S == {"queued", "running", outcome}
  <2>1. s \in Seq(S) /\ u \in Seq(S) /\ Len(u) = 3 /\ Len(s) = 2
    OBVIOUS
  <2>2. t \in Seq(S) /\ Len(t) = 3
    BY <2>1, AppendProperties
  <2>3. \A i \in 1..3 : t[i] = u[i]
    <3>1. t[1] = "queued" /\ t[2] = "running" /\ t[3] = outcome
      BY <2>1, AppendProperties
    <3> QED
      BY <3>1
  <2> QED
    BY <2>1, <2>2, <2>3, SeqEqual
<1>3. status'[o] = outcome /\ trail'[o] = <<"queued", "running", outcome>>
  BY <1>1, <1>2 DEF Settle, TypeOK
<1>4. \A x \in Ops \ {o} : status'[x] = status[x] /\ trail'[x] = trail[x]
  BY DEF Settle, TypeOK
<1> QED
  BY <1>3, <1>4 DEF TrailMatchesStatus, Terminal

(* run() publishes two events, settling publishes the third. *)
LEMMA TrailStep ==
  TypeOK /\ AbortHandleWhileRunning /\ TrailMatchesStatus /\ [Next]_vars => TrailMatchesStatus'
<1> SUFFICES ASSUME TypeOK, AbortHandleWhileRunning, TrailMatchesStatus, [Next]_vars PROVE TrailMatchesStatus'
  OBVIOUS
<1>1. ASSUME NEW r \in Requests, NEW q \in Queries, RunRepeated(r, q) PROVE TrailMatchesStatus'
  BY <1>1 DEF RunRepeated, Answer, TrailMatchesStatus, AbortHandleWhileRunning, TypeOK, Statuses
<1>2. ASSUME NEW r \in Requests, NEW q \in Queries, RunKnownId(r, q) PROVE TrailMatchesStatus'
  BY <1>2 DEF RunKnownId, Answer, TrailMatchesStatus, AbortHandleWhileRunning, TypeOK, Statuses
<1>3. ASSUME NEW r \in Requests, NEW q \in Queries, NEW o \in Ops, RunCreated(r, q, o) PROVE TrailMatchesStatus'
  BY <1>3 DEF RunCreated, TrailMatchesStatus, AbortHandleWhileRunning, TypeOK, Statuses
<1>4. ASSUME NEW r \in Requests, RunReturns(r) PROVE TrailMatchesStatus'
  BY <1>4 DEF RunReturns, Answer, TrailMatchesStatus, AbortHandleWhileRunning, TypeOK, Statuses
<1>5. ASSUME NEW o \in Ops, NEW p \in Reported, setProgress(o, p) PROVE TrailMatchesStatus'
  BY <1>5 DEF setProgress, TrailMatchesStatus, AbortHandleWhileRunning, TypeOK, Statuses
<1>6. ASSUME NEW o \in Ops, TaskSucceeds(o) PROVE TrailMatchesStatus'
  BY <1>6, SettleTrail DEF TaskSucceeds, Terminal
<1>7. ASSUME NEW o \in Ops, NEW error \in TaskErrors, TaskFails(o, error) PROVE TrailMatchesStatus'
  BY <1>7, SettleTrail DEF TaskFails, Terminal
<1>8. ASSUME NEW c \in Cancels, NEW o \in Ops, CancelUnknown(c, o) PROVE TrailMatchesStatus'
  BY <1>8 DEF CancelUnknown, TrailMatchesStatus, AbortHandleWhileRunning, TypeOK, Statuses
<1>9. ASSUME NEW c \in Cancels, NEW o \in Ops, CancelFinished(c, o) PROVE TrailMatchesStatus'
  BY <1>9 DEF CancelFinished, CancelReply, TrailMatchesStatus, AbortHandleWhileRunning, TypeOK, Statuses
<1>10. ASSUME NEW c \in Cancels, NEW o \in Ops, CancelRunning(c, o) PROVE TrailMatchesStatus'
  BY <1>10 DEF CancelRunning, TrailMatchesStatus, AbortHandleWhileRunning, TypeOK, Statuses
<1>11. ASSUME NEW c \in Cancels, CancelSettles(c) PROVE TrailMatchesStatus'
  BY <1>11 DEF CancelSettles, CancelReply, TrailMatchesStatus, AbortHandleWhileRunning, TypeOK, Statuses
<1>12. ASSUME NEW c \in Cancels, CancelTimesOut(c) PROVE TrailMatchesStatus'
  BY <1>12 DEF CancelTimesOut, CancelReply, TrailMatchesStatus, AbortHandleWhileRunning, TypeOK, Statuses
<1>13. ASSUME UNCHANGED vars PROVE TrailMatchesStatus'
  BY <1>13 DEF vars, TrailMatchesStatus, AbortHandleWhileRunning, TypeOK, Statuses
<1> QED
  BY <1>1, <1>2, <1>3, <1>4, <1>5, <1>6, <1>7, <1>8, <1>9, <1>10, <1>11, <1>12, <1>13 DEF Next

(* What Answer() makes of a caller: an answer about an existing operation. *)
LEMMA AnswerCalls ==
  ASSUME TypeOK, CallsPointToOperations, NEW r \in Requests, NEW q \in Queries,
         NEW o \in Ops, status[o] # "absent", Answer(r, q, o), status' = status
  PROVE  CallsPointToOperations'
<1>1. call'[r] = [pc |-> "answered", query |-> q, op |-> o, reply |-> status[o]]
  BY DEF Answer, TypeOK
<1>2. audit'[r] = auditResult(q, status[o])
  BY DEF Answer, TypeOK
<1>3. audit'[r] = "success" => status[o] = "succeeded"
  BY <1>2 DEF auditResult
<1>4. \A x \in Requests \ {r} : call'[x] = call[x] /\ audit'[x] = audit[x]
  BY DEF Answer, TypeOK
<1>5. status[o] \in Statuses
  BY DEF TypeOK
<1> QED
  BY <1>1, <1>3, <1>4, <1>5 DEF CallsPointToOperations

(* Answers name operations that exist; terminal answers stay true. *)
LEMMA CallsStep ==
  TypeOK /\ AbortHandleWhileRunning /\ KeysPointBack /\ CallsPointToOperations /\ [Next]_vars => CallsPointToOperations'
<1> SUFFICES ASSUME TypeOK, AbortHandleWhileRunning, KeysPointBack, CallsPointToOperations, [Next]_vars PROVE CallsPointToOperations'
  OBVIOUS
<1>1. ASSUME NEW r \in Requests, NEW q \in Queries, RunRepeated(r, q) PROVE CallsPointToOperations'
  BY <1>1, RecordedExists, AnswerCalls DEF RunRepeated
<1>2. ASSUME NEW r \in Requests, NEW q \in Queries, RunKnownId(r, q) PROVE CallsPointToOperations'
  <2>1. q.id \in Ops
    BY <1>2 DEF RunKnownId, Queries
  <2> QED
    BY <1>2, <2>1, AnswerCalls DEF RunKnownId
<1>3. ASSUME NEW r \in Requests, NEW q \in Queries, NEW o \in Ops, RunCreated(r, q, o) PROVE CallsPointToOperations'
  BY <1>3 DEF RunCreated, CallsPointToOperations, AbortHandleWhileRunning, auditResult, TypeOK, Statuses, Terminal
<1>4. ASSUME NEW r \in Requests, RunReturns(r) PROVE CallsPointToOperations'
  BY <1>4 DEF RunReturns, Answer, CallsPointToOperations, AbortHandleWhileRunning, auditResult, TypeOK, Statuses, Terminal
<1>5. ASSUME NEW o \in Ops, NEW p \in Reported, setProgress(o, p) PROVE CallsPointToOperations'
  BY <1>5 DEF setProgress, CallsPointToOperations, AbortHandleWhileRunning, auditResult, TypeOK, Statuses, Terminal
<1>6. ASSUME NEW o \in Ops, TaskSucceeds(o) PROVE CallsPointToOperations'
  BY <1>6 DEF TaskSucceeds, Settle, Terminal, CallsPointToOperations, AbortHandleWhileRunning, auditResult, TypeOK, Statuses, Terminal
<1>7. ASSUME NEW o \in Ops, NEW error \in TaskErrors, TaskFails(o, error) PROVE CallsPointToOperations'
  BY <1>7 DEF TaskFails, Settle, Terminal, CallsPointToOperations, AbortHandleWhileRunning, auditResult, TypeOK, Statuses, Terminal
<1>8. ASSUME NEW c \in Cancels, NEW o \in Ops, CancelUnknown(c, o) PROVE CallsPointToOperations'
  BY <1>8 DEF CancelUnknown, CallsPointToOperations, AbortHandleWhileRunning, auditResult, TypeOK, Statuses, Terminal
<1>9. ASSUME NEW c \in Cancels, NEW o \in Ops, CancelFinished(c, o) PROVE CallsPointToOperations'
  <2>1. \A r \in Requests : audit'[r] = audit[r]
    BY <1>9, CallersAssumption DEF CancelFinished, CancelReply, TypeOK
  <2>2. call' = call /\ status' = status
    BY <1>9 DEF CancelFinished, CancelReply
  <2> QED
    BY <2>1, <2>2 DEF CallsPointToOperations
<1>10. ASSUME NEW c \in Cancels, NEW o \in Ops, CancelRunning(c, o) PROVE CallsPointToOperations'
  BY <1>10 DEF CancelRunning, CallsPointToOperations, AbortHandleWhileRunning, auditResult, TypeOK, Statuses, Terminal
<1>11. ASSUME NEW c \in Cancels, CancelSettles(c) PROVE CallsPointToOperations'
  <2>1. \A r \in Requests : audit'[r] = audit[r]
    BY <1>11, CallersAssumption DEF CancelSettles, CancelReply, TypeOK
  <2>2. call' = call /\ status' = status
    BY <1>11 DEF CancelSettles, CancelReply
  <2> QED
    BY <2>1, <2>2 DEF CallsPointToOperations
<1>12. ASSUME NEW c \in Cancels, CancelTimesOut(c) PROVE CallsPointToOperations'
  <2>1. \A r \in Requests : audit'[r] = audit[r]
    BY <1>12, CallersAssumption DEF CancelTimesOut, CancelReply, TypeOK
  <2>2. call' = call /\ status' = status
    BY <1>12 DEF CancelTimesOut, CancelReply
  <2> QED
    BY <2>1, <2>2 DEF CallsPointToOperations
<1>13. ASSUME UNCHANGED vars PROVE CallsPointToOperations'
  BY <1>13 DEF vars, CallsPointToOperations, AbortHandleWhileRunning, auditResult, TypeOK, Statuses, Terminal
<1> QED
  BY <1>1, <1>2, <1>3, <1>4, <1>5, <1>6, <1>7, <1>8, <1>9, <1>10, <1>11, <1>12, <1>13 DEF Next

(* So do the answers of the cancel route. *)
LEMMA CancelsStep ==
  TypeOK /\ AbortHandleWhileRunning /\ CancelsPointToOperations /\ [Next]_vars => CancelsPointToOperations'
<1> SUFFICES ASSUME TypeOK, AbortHandleWhileRunning, CancelsPointToOperations, [Next]_vars PROVE CancelsPointToOperations'
  OBVIOUS
<1>1. ASSUME NEW r \in Requests, NEW q \in Queries, RunRepeated(r, q) PROVE CancelsPointToOperations'
  <2>1. \A c \in Cancels : audit'[c] = audit[c]
    BY <1>1, CallersAssumption DEF RunRepeated, Answer, TypeOK
  <2>2. cancel' = cancel /\ status' = status
    BY <1>1 DEF RunRepeated
  <2> QED
    BY <2>1, <2>2 DEF CancelsPointToOperations
<1>2. ASSUME NEW r \in Requests, NEW q \in Queries, RunKnownId(r, q) PROVE CancelsPointToOperations'
  <2>1. \A c \in Cancels : audit'[c] = audit[c]
    BY <1>2, CallersAssumption DEF RunKnownId, Answer, TypeOK
  <2>2. cancel' = cancel /\ status' = status
    BY <1>2 DEF RunKnownId
  <2> QED
    BY <2>1, <2>2 DEF CancelsPointToOperations
<1>3. ASSUME NEW r \in Requests, NEW q \in Queries, NEW o \in Ops, RunCreated(r, q, o) PROVE CancelsPointToOperations'
  BY <1>3 DEF RunCreated, CancelsPointToOperations, AbortHandleWhileRunning, cancelAudit, TypeOK, Statuses, Terminal
<1>4. ASSUME NEW r \in Requests, RunReturns(r) PROVE CancelsPointToOperations'
  <2>1. \A c \in Cancels : audit'[c] = audit[c]
    BY <1>4, CallersAssumption DEF RunReturns, Answer, TypeOK
  <2>2. cancel' = cancel /\ status' = status
    BY <1>4 DEF RunReturns
  <2> QED
    BY <2>1, <2>2 DEF CancelsPointToOperations
<1>5. ASSUME NEW o \in Ops, NEW p \in Reported, setProgress(o, p) PROVE CancelsPointToOperations'
  BY <1>5 DEF setProgress, CancelsPointToOperations, AbortHandleWhileRunning, cancelAudit, TypeOK, Statuses, Terminal
<1>6. ASSUME NEW o \in Ops, TaskSucceeds(o) PROVE CancelsPointToOperations'
  BY <1>6 DEF TaskSucceeds, Settle, Terminal, CancelsPointToOperations, AbortHandleWhileRunning, cancelAudit, TypeOK, Statuses, Terminal
<1>7. ASSUME NEW o \in Ops, NEW error \in TaskErrors, TaskFails(o, error) PROVE CancelsPointToOperations'
  BY <1>7 DEF TaskFails, Settle, Terminal, CancelsPointToOperations, AbortHandleWhileRunning, cancelAudit, TypeOK, Statuses, Terminal
<1>8. ASSUME NEW c \in Cancels, NEW o \in Ops, CancelUnknown(c, o) PROVE CancelsPointToOperations'
  <2>1. cancel'[c] = [pc |-> "answered", op |-> o, reply |-> "not_found"]
    BY <1>8 DEF CancelUnknown, TypeOK
  <2>2. audit'[c] # "success"
    BY <1>8 DEF CancelUnknown, CancelsPointToOperations
  <2>3. \A d \in Cancels \ {c} : cancel'[d] = cancel[d] /\ audit'[d] = audit[d]
    BY <1>8 DEF CancelUnknown, TypeOK
  <2>4. status' = status
    BY <1>8 DEF CancelUnknown
  <2> QED
    BY <2>1, <2>2, <2>3, <2>4 DEF CancelsPointToOperations, Terminal
<1>9. ASSUME NEW c \in Cancels, NEW o \in Ops, CancelFinished(c, o) PROVE CancelsPointToOperations'
  BY <1>9 DEF CancelFinished, CancelReply, CancelsPointToOperations, AbortHandleWhileRunning, cancelAudit, TypeOK, Statuses, Terminal
<1>10. ASSUME NEW c \in Cancels, NEW o \in Ops, CancelRunning(c, o) PROVE CancelsPointToOperations'
  <2>1. cancel'[c] = [pc |-> "waiting", op |-> o, reply |-> "none"]
    BY <1>10, CancelRunningEffect DEF TypeOK
  <2>2. audit'[c] # "success"
    BY <1>10, CancelRunningEffect DEF CancelsPointToOperations
  <2>3. \A d \in Cancels \ {c} : cancel'[d] = cancel[d] /\ audit'[d] = audit[d]
    BY <1>10, CancelRunningEffect DEF TypeOK
  <2>4. status' = status /\ status[o] = "running"
    BY <1>10, CancelRunningEffect
  <2> QED
    BY <2>1, <2>2, <2>3, <2>4 DEF CancelsPointToOperations, Terminal
<1>11. ASSUME NEW c \in Cancels, CancelSettles(c) PROVE CancelsPointToOperations'
  BY <1>11 DEF CancelSettles, CancelReply, CancelsPointToOperations, AbortHandleWhileRunning, cancelAudit, TypeOK, Statuses, Terminal
<1>12. ASSUME NEW c \in Cancels, CancelTimesOut(c) PROVE CancelsPointToOperations'
  BY <1>12 DEF CancelTimesOut, CancelReply, CancelsPointToOperations, AbortHandleWhileRunning, cancelAudit, TypeOK, Statuses, Terminal
<1>13. ASSUME UNCHANGED vars PROVE CancelsPointToOperations'
  BY <1>13 DEF vars, CancelsPointToOperations, AbortHandleWhileRunning, cancelAudit, TypeOK, Statuses, Terminal
<1> QED
  BY <1>1, <1>2, <1>3, <1>4, <1>5, <1>6, <1>7, <1>8, <1>9, <1>10, <1>11, <1>12, <1>13 DEF Next

(* A keyed request is answered from the key, and keys are never reassigned. *)
LEMMA RetriesStep ==
  TypeOK /\ KeysPointBack /\ CallsPointToOperations /\ RetriesAgree /\ [Next]_vars => RetriesAgree'
<1> SUFFICES ASSUME TypeOK, KeysPointBack, CallsPointToOperations, RetriesAgree, [Next]_vars PROVE RetriesAgree'
  OBVIOUS
<1>1. ASSUME NEW r \in Requests, NEW q \in Queries, RunRepeated(r, q) PROVE RetriesAgree'
  <2>1. call'[r].query = q /\ call'[r].op = recorded(q) /\ idempotency' = idempotency
    BY <1>1 DEF RunRepeated, Answer, TypeOK
  <2>2. \A x \in Requests \ {r} : call'[x] = call[x]
    BY <1>1 DEF RunRepeated, Answer, TypeOK
  <2> QED
    BY <2>1, <2>2 DEF RetriesAgree, recorded
<1>2. ASSUME NEW r \in Requests, NEW q \in Queries, RunKnownId(r, q) PROVE RetriesAgree'
  BY <1>2 DEF RunKnownId, Answer, RetriesAgree, CallsPointToOperations, TypeOK
<1>3. ASSUME NEW r \in Requests, NEW q \in Queries, NEW o \in Ops, RunCreated(r, q, o) PROVE RetriesAgree'
  <2>1. call'[r].query = q /\ call'[r].op = o
    BY <1>3 DEF RunCreated, TypeOK
  <2>2. \A x \in Requests \ {r} : call'[x] = call[x]
    BY <1>3 DEF RunCreated, TypeOK
  <2>3. q.key # NoKey => idempotency'[idempotencyKey(q)] = o
    BY <1>3, KeyType DEF RunCreated
  <2>4. ASSUME NEW x \in Requests \ {r}, call[x].pc # "idle",
               call[x].query.key # NoKey, call[x].query.id = NoOp
        PROVE  idempotency'[idempotencyKey(call[x].query)] = call[x].op
    <3>1. call[x].query \in Queries /\ call[x].op \in Ops
      BY <2>4 DEF CallsPointToOperations
    <3>2. idempotency[idempotencyKey(call[x].query)] = call[x].op
      BY <2>4 DEF RetriesAgree
    <3>3. idempotencyKey(call[x].query) \in Scopes
      BY <2>4, <3>1, KeyType
    <3>4. idempotencyKey(call[x].query) # idempotencyKey(q)
      BY <1>3, <3>1, <3>2, <3>3, KeyType, ScopesAreNotNoScope, NoOpAssumption
         DEF RunCreated, recorded
    <3> QED
      BY <1>3, <3>2, <3>3, <3>4 DEF RunCreated
  <2> QED
    BY <2>1, <2>2, <2>3, <2>4 DEF RetriesAgree
<1>4. ASSUME NEW r \in Requests, RunReturns(r) PROVE RetriesAgree'
  BY <1>4 DEF RunReturns, Answer, RetriesAgree, CallsPointToOperations, TypeOK
<1>5. ASSUME NEW o \in Ops, NEW p \in Reported, setProgress(o, p) PROVE RetriesAgree'
  BY <1>5 DEF setProgress, RetriesAgree, CallsPointToOperations, TypeOK
<1>6. ASSUME NEW o \in Ops, TaskSucceeds(o) PROVE RetriesAgree'
  BY <1>6 DEF TaskSucceeds, Settle, Terminal, RetriesAgree, CallsPointToOperations, TypeOK
<1>7. ASSUME NEW o \in Ops, NEW error \in TaskErrors, TaskFails(o, error) PROVE RetriesAgree'
  BY <1>7 DEF TaskFails, Settle, Terminal, RetriesAgree, CallsPointToOperations, TypeOK
<1>8. ASSUME NEW c \in Cancels, NEW o \in Ops, CancelUnknown(c, o) PROVE RetriesAgree'
  BY <1>8 DEF CancelUnknown, RetriesAgree, CallsPointToOperations, TypeOK
<1>9. ASSUME NEW c \in Cancels, NEW o \in Ops, CancelFinished(c, o) PROVE RetriesAgree'
  BY <1>9 DEF CancelFinished, CancelReply, RetriesAgree, CallsPointToOperations, TypeOK
<1>10. ASSUME NEW c \in Cancels, NEW o \in Ops, CancelRunning(c, o) PROVE RetriesAgree'
  BY <1>10 DEF CancelRunning, RetriesAgree, CallsPointToOperations, TypeOK
<1>11. ASSUME NEW c \in Cancels, CancelSettles(c) PROVE RetriesAgree'
  BY <1>11 DEF CancelSettles, CancelReply, RetriesAgree, CallsPointToOperations, TypeOK
<1>12. ASSUME NEW c \in Cancels, CancelTimesOut(c) PROVE RetriesAgree'
  BY <1>12 DEF CancelTimesOut, CancelReply, RetriesAgree, CallsPointToOperations, TypeOK
<1>13. ASSUME UNCHANGED vars PROVE RetriesAgree'
  BY <1>13 DEF vars, RetriesAgree, CallsPointToOperations, TypeOK
<1> QED
  BY <1>1, <1>2, <1>3, <1>4, <1>5, <1>6, <1>7, <1>8, <1>9, <1>10, <1>11, <1>12, <1>13 DEF Next

-----------------------------------------------------------------------------
(* The parts together: the invariant is inductive.                         *)
LEMMA IInvInit == Init => IInv
<1> SUFFICES ASSUME Init PROVE IInv
  OBVIOUS
<1>1. TypeOK
  BY TypeOKInit
<1>2. KeysPointBack
  BY DEF Init, KeysPointBack
<1>3. CallsPointToOperations /\ CancelsPointToOperations
  BY DEF Init, CallsPointToOperations, CancelsPointToOperations, IdleCall, IdleCancel, Terminal
<1>4. AbortHandleWhileRunning /\ AbortedOnDemand /\ CancelledOnDemand
  BY DEF Init, AbortHandleWhileRunning, AbortedOnDemand, CancelledOnDemand, IdleCancel
<1>5. TrailMatchesStatus /\ RetriesAgree
  BY DEF Init, TrailMatchesStatus, RetriesAgree, IdleCall
<1> QED
  BY <1>1, <1>2, <1>3, <1>4, <1>5 DEF IInv

LEMMA IInvStep == IInv /\ [Next]_vars => IInv'
<1> SUFFICES ASSUME IInv, [Next]_vars PROVE IInv'
  OBVIOUS
<1> QED
  BY TypeOKStep, KeysPointBackStep, AbortHandleStep, AbortedOnDemandStep, CancelledOnDemandStep,
     TrailStep, CallsStep, CancelsStep, RetriesStep DEF IInv

LEMMA IInvAlways == Spec => []IInv
BY IInvInit, IInvStep, PTL DEF Spec

(* The state of the store always has its type.                             *)
THEOREM TypeCorrect == Spec => []TypeOK
BY IInvAlways, PTL DEF IInv

(* An idempotency key never starts a second operation.                     *)
THEOREM IdempotencyKeysStartOnce == Spec => []OneOperationPerKey
<1>1. IInv => OneOperationPerKey
  BY DEF IInv, KeysPointBack, OneOperationPerKey
<1> QED
  BY <1>1, IInvAlways, PTL

(* All retries under a key are tied to the operation of that key.          *)
THEOREM RetriesGetOneOperation == Spec => []RetriesAgree
BY IInvAlways, PTL DEF IInv

(* Every running operation can be aborted and nothing else holds a handle: *)
(* the 409 of the cancel route is unreachable.                             *)
THEOREM RunningIsCancellable == Spec => []AbortHandleWhileRunning
BY IInvAlways, PTL DEF IInv

(* The published events tell each operation's life exactly.                *)
THEOREM EventsTellTheStatus == Spec => []TrailMatchesStatus
BY IInvAlways, PTL DEF IInv

(* No operation ends as cancelled unless a cancel asked for it.            *)
THEOREM NothingCancelsItself == Spec => []CancelledOnDemand
BY IInvAlways, PTL DEF IInv

(* The audit log never records a success that did not happen.              *)
THEOREM AuditNeverOverclaims == Spec => []AuditedSuccessIsReal
<1>1. IInv => AuditedSuccessIsReal
  BY DEF IInv, CallsPointToOperations, CancelsPointToOperations, AuditedSuccessIsReal, Terminal
<1> QED
  BY <1>1, IInvAlways, PTL

(* Maps, events, audit log and replies agree, for any number of requests   *)
(* and cancels that overlap in any order.                                  *)
THEOREM BooksAlwaysAgree == Spec => []BooksAgree
<1>1. OneOperationPerKey /\ RetriesAgree /\ AbortHandleWhileRunning /\ TrailMatchesStatus
      /\ CancelledOnDemand /\ AuditedSuccessIsReal => BooksAgree
  BY DEF BooksAgree
<1> QED
  BY <1>1, IdempotencyKeysStartOnce, RetriesGetOneOperation, RunningIsCancellable,
     EventsTellTheStatus, NothingCancelsItself, AuditNeverOverclaims, PTL

-----------------------------------------------------------------------------
(* A finished operation stays as it finished: settling needs a live abort  *)
(* handle, and creating needs an unused id.                                *)
THEOREM FinishedStaysFinal == Spec => FinishedIsFinal
<1> DEFINE Kept == \A o \in Ops : status[o] \in Terminal
                     => status'[o] = status[o] /\ trail'[o] = trail[o]
<1>1. ASSUME IInv, Next PROVE Kept
  <2> SUFFICES ASSUME NEW x \in Ops, status[x] \in Terminal
               PROVE  status'[x] = status[x] /\ trail'[x] = trail[x]
    OBVIOUS
  <2>0. signal[x] = "none" /\ status[x] # "absent"
    BY <1>1 DEF IInv, AbortHandleWhileRunning, Terminal
  <2>1. ASSUME NEW r \in Requests, NEW q \in Queries, NEW o \in Ops, RunCreated(r, q, o)
        PROVE  status'[x] = status[x] /\ trail'[x] = trail[x]
    BY <1>1, <2>0, <2>1 DEF RunCreated, IInv, TypeOK
  <2>2. ASSUME NEW o \in Ops, TaskSucceeds(o)
        PROVE  status'[x] = status[x] /\ trail'[x] = trail[x]
    BY <1>1, <2>0, <2>2 DEF TaskSucceeds, Settle, IInv, TypeOK
  <2>3. ASSUME NEW o \in Ops, NEW error \in TaskErrors, TaskFails(o, error)
        PROVE  status'[x] = status[x] /\ trail'[x] = trail[x]
    BY <1>1, <2>0, <2>3 DEF TaskFails, Settle, IInv, TypeOK
  <2> QED
    BY <1>1, <2>1, <2>2, <2>3
       DEF Next, RunRepeated, RunKnownId, RunReturns, setProgress, CancelUnknown, CancelFinished,
           CancelRunning, CancelSettles, CancelTimesOut, CancelReply
<1>2. IInv /\ [Next]_vars => [Kept]_vars
  BY <1>1
<1> QED
  BY <1>2, IInvAlways, PTL DEF Spec, FinishedIsFinal

(* The request that ran an operation is answered with its outcome.         *)
THEOREM ExecutorIsToldTheOutcome == Spec => ExecutorSeesOutcome
<1> DEFINE Told == \A r \in Requests : call[r].pc = "running" /\ call'[r].pc = "answered"
                     => call'[r].reply \in Terminal
<1>1. ASSUME IInv, Next PROVE Told
  <2> SUFFICES ASSUME NEW x \in Requests, call[x].pc = "running", call'[x].pc = "answered"
               PROVE  call'[x].reply \in Terminal
    OBVIOUS
  <2>1. ASSUME NEW r \in Requests, RunReturns(r) PROVE call'[x].reply \in Terminal
    <3>1. call'[r].reply = status[call[r].op]
      BY <1>1, <2>1 DEF RunReturns, Answer, IInv, TypeOK
    <3>2. status[call[r].op] \in Terminal
      BY <1>1, <2>1 DEF RunReturns, IInv, TypeOK, AbortHandleWhileRunning,
                        CallsPointToOperations, Statuses
    <3>3. x = r
      BY <1>1, <2>1 DEF RunReturns, Answer, IInv, TypeOK
    <3> QED
      BY <3>1, <3>2, <3>3
  <2>2. ASSUME NEW r \in Requests, NEW q \in Queries, RunRepeated(r, q) \/ RunKnownId(r, q)
        PROVE  FALSE
    BY <1>1, <2>2 DEF RunRepeated, RunKnownId, Answer, IInv, TypeOK
  <2>3. ASSUME NEW r \in Requests, NEW q \in Queries, NEW o \in Ops, RunCreated(r, q, o)
        PROVE  FALSE
    BY <1>1, <2>3 DEF RunCreated, IInv, TypeOK
  <2>4. call' # call
    OBVIOUS
  <2> QED
    BY <1>1, <2>1, <2>2, <2>3, <2>4
       DEF Next, setProgress, TaskSucceeds, TaskFails, Settle, CancelUnknown, CancelFinished,
           CancelRunning, CancelSettles, CancelTimesOut, CancelReply
<1>2. IInv /\ [Next]_vars => [Told]_vars
  BY <1>1
<1> QED
  BY <1>2, IInvAlways, PTL DEF Spec, ExecutorSeesOutcome

-----------------------------------------------------------------------------
(* The store implements OperationContract: run() begins an operation,      *)
(* settling finishes it, an answer tells it, all else is a stutter.        *)
LEMMA ContractInitially == Init => Contract!ContractInit
BY DEF Init, IdleCall, Contract!ContractInit, Contract!Untold

LEMMA AnswerTells ==
  ASSUME IInv, NEW r \in Requests, NEW q \in Queries, NEW o \in Ops, status[o] # "absent",
         call[r].pc # "answered", Answer(r, q, o),
         UNCHANGED <<status, idempotency>>
  PROVE  Contract!ContractNext
<1>1. call' = [call EXCEPT ![r] = [pc |-> "answered", query |-> q, op |-> o, reply |-> status[o]]]
  BY DEF Answer
<1>2. Contract!Tell(r, o)
  BY <1>1 DEF Contract!Tell, Contract!Untold, IInv, TypeOK
<1> QED
  BY <1>2 DEF Contract!ContractNext

LEMMA SettleFinishes ==
  ASSUME IInv, NEW o \in Ops, NEW outcome \in Terminal, signal[o] # "none", Settle(o, outcome)
  PROVE  Contract!Finish(o, outcome)
BY DEF Settle, Contract!Finish, IInv, AbortHandleWhileRunning

LEMMA ContractStep == IInv /\ [Next]_vars => [Contract!ContractNext]_Contract!contractVars
<1> SUFFICES ASSUME IInv, [Next]_vars PROVE [Contract!ContractNext]_Contract!contractVars
  OBVIOUS
<1>1. ASSUME NEW r \in Requests, NEW q \in Queries, RunRepeated(r, q) PROVE Contract!ContractNext
  <2>1. recorded(q) \in Ops /\ status[recorded(q)] # "absent"
    BY <1>1, RecordedExists DEF RunRepeated, IInv
  <2>2. /\ call[r].pc # "answered"
        /\ Answer(r, q, recorded(q))
        /\ UNCHANGED <<status, idempotency>>
    BY <1>1 DEF RunRepeated
  <2> QED
    BY <2>1, <2>2, AnswerTells
<1>2. ASSUME NEW r \in Requests, NEW q \in Queries, RunKnownId(r, q) PROVE Contract!ContractNext
  <2>1. q.id \in Ops
    BY <1>2 DEF RunKnownId, Queries
  <2>2. /\ call[r].pc # "answered"
        /\ Answer(r, q, q.id)
        /\ status[q.id] # "absent"
        /\ UNCHANGED <<status, idempotency>>
    BY <1>2 DEF RunKnownId
  <2> QED
    BY <2>1, <2>2, AnswerTells
<1>3. ASSUME NEW r \in Requests, NEW q \in Queries, NEW o \in Ops, RunCreated(r, q, o)
      PROVE  Contract!ContractNext
  <2>1. [x \in Requests |-> IF call'[x].pc = "answered"
                            THEN [op |-> call'[x].op, phase |-> call'[x].reply]
                            ELSE [op |-> NoOp, phase |-> "absent"]]
        = [x \in Requests |-> IF call[x].pc = "answered"
                            THEN [op |-> call[x].op, phase |-> call[x].reply]
                            ELSE [op |-> NoOp, phase |-> "absent"]]
    BY <1>3 DEF RunCreated, IInv, TypeOK
  <2>2. idempotencyKey(q) \in Scopes \cup {NoScope}
    BY KeyType
  <2>3. Contract!Begin(o, idempotencyKey(q))
    <3>1. CASE q.key = NoKey
      <4>1. idempotencyKey(q) = NoScope /\ idempotency' = idempotency
        BY <1>3, <3>1, KeyType, ScopesAreNotNoScope DEF RunCreated, IInv, TypeOK
      <4> QED
        BY <1>3, <2>1, <4>1 DEF Contract!Begin, RunCreated
    <3>2. CASE q.key # NoKey
      <4>1. idempotencyKey(q) \in Scopes /\ idempotency[idempotencyKey(q)] = NoOp
        BY <1>3, <3>2, KeyType DEF RunCreated, recorded
      <4>2. idempotency' = [idempotency EXCEPT ![idempotencyKey(q)] = o]
        BY <1>3, <4>1 DEF RunCreated, IInv, TypeOK
      <4> QED
        BY <1>3, <2>1, <4>1, <4>2 DEF Contract!Begin, RunCreated
    <3> QED
      BY <3>1, <3>2
  <2> QED
    BY <2>2, <2>3 DEF Contract!ContractNext
<1>4. ASSUME NEW r \in Requests, RunReturns(r) PROVE Contract!ContractNext
  <2>1. /\ call[r].query \in Queries
        /\ call[r].op \in Ops
        /\ status[call[r].op] # "absent"
    BY <1>4 DEF RunReturns, IInv, CallsPointToOperations
  <2>2. /\ call[r].pc # "answered"
        /\ Answer(r, call[r].query, call[r].op)
        /\ UNCHANGED <<status, idempotency>>
    BY <1>4 DEF RunReturns
  <2> QED
    BY <2>1, <2>2, AnswerTells
<1>5. ASSUME NEW o \in Ops, TaskSucceeds(o) PROVE Contract!ContractNext
  BY <1>5, SettleFinishes DEF TaskSucceeds, Terminal, Contract!ContractNext, Contract!Outcomes
<1>6. ASSUME NEW o \in Ops, NEW error \in TaskErrors, TaskFails(o, error)
      PROVE  Contract!ContractNext
  BY <1>6, SettleFinishes DEF TaskFails, Terminal, Contract!ContractNext, Contract!Outcomes
<1>7. CASE UNCHANGED <<status, idempotency, call>>
  BY <1>7 DEF Contract!contractVars
<1> QED
  BY <1>1, <1>2, <1>3, <1>4, <1>5, <1>6, <1>7
     DEF Next, vars, setProgress, CancelUnknown, CancelFinished, CancelRunning, CancelSettles,
         CancelTimesOut, CancelReply

(* The operation store keeps the promises of OperationContract.            *)
THEOREM StoreImplementsContract == Spec => ImplementsContract
BY ContractInitially, ContractStep, IInvAlways, PTL DEF Spec, ImplementsContract, Contract!ContractSpec
=============================================================================
