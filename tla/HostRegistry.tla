---------------------------- MODULE HostRegistry ----------------------------
(***************************************************************************)
(* The gateway's HostRegistry (apps/gateway/src/services/host-registry.ts):*)
(* hosts come and go, requests to their Engines overlap and mark them      *)
(* online or offline as each completes, and one watcher per host follows   *)
(* its Engine's event stream.                                              *)
(*                                                                         *)
(* A request is cut where it awaits the secret store or the Engine.  The   *)
(* Engine decides an answer before the gateway handles it, so answers are  *)
(* applied in any order and may be out of date.  Host ids are UUIDs: an id *)
(* is registered once.  The development Engine of start() is a host added  *)
(* without certificates.                                                   *)
(***************************************************************************)
EXTENDS Integers, FiniteSets

CONSTANTS
  Hosts,      \* host ids
  Requests,   \* requests the gateway serves at once
  NoHost,
  MaxEvents,  \* bound: Engine events per host
  MaxOutages  \* bound: how often the Engines go down

ASSUME NoHostAssumption == NoHost \notin Hosts
ASSUME BoundsAssumption == MaxEvents \in Nat /\ MaxOutages \in Nat

VARIABLES
  records,     \* records[h]: "absent", "registered" or "removed"
  status,      \* status[h]: its record's publicHost.status
  secrets,     \* the hosts whose certificates the secret store holds
  watcher,     \* watcher[h]: where watchEvents(h) stands
  eventAbort,  \* eventAbort[h]: the signal of its latest stream has fired
  events,      \* events[h]: Engine events published for h
  stopping,    \* HostRegistry.stopping
  request,     \* request[r]: what request r does
  refused,     \* the hosts whose certificates the secret store refused to delete
  up, outages  \* the Engines answer; how often they went down

vars == <<records, status, secrets, watcher, eventAbort, events, stopping, request,
          refused, up, outages>>

Idle == [pc |-> "idle", op |-> "none", host |-> NoHost, answer |-> "none"]

registered(h) == records[h] = "registered"

(* Awaiting the Engine. *)
Asking(r) == request[r].pc \in {"probing", "requesting"}

Init ==
  /\ records    = [h \in Hosts |-> "absent"]
  /\ status     = [h \in Hosts |-> "unknown"]
  /\ secrets    = {}
  /\ watcher    = [h \in Hosts |-> "none"]
  /\ eventAbort = [h \in Hosts |-> FALSE]
  /\ events     = [h \in Hosts |-> 0]
  /\ stopping   = FALSE
  /\ request    = [r \in Requests |-> Idle]
  /\ refused    = {}
  /\ up = TRUE /\ outages = 0

To(r, pc, op, h) ==
  request' = [request EXCEPT ![r] = [pc |-> pc, op |-> op, host |-> h, answer |-> "none"]]

Finish(r) == request' = [request EXCEPT ![r] = Idle]

-----------------------------------------------------------------------------
(* The watcher's loop. *)

(* The loop's condition. *)
watching(h) == ~stopping /\ registered(h)

(* The loop comes round: a new stream with a signal of its own, or the end. *)
Loop(h) ==
  /\ watcher'    = [watcher EXCEPT ![h] = IF watching(h) THEN "opening" ELSE "stopped"]
  /\ eventAbort' = [eventAbort EXCEPT ![h] = IF watching(h) THEN FALSE ELSE @]

-----------------------------------------------------------------------------
(* Requests. *)

(* add(): certificates are stored before the host is known. *)
AddWithTls(r, h) ==
  /\ request[r] = Idle /\ ~stopping
  /\ records[h] = "absent" /\ \A q \in Requests : request[q].host # h
  /\ To(r, "putting", "add", h)
  /\ UNCHANGED <<refused, records, status, secrets, watcher, eventAbort, events,
                 stopping, up, outages>>

Add(r, h) ==
  /\ request[r] = Idle /\ ~stopping
  /\ records[h] = "absent" /\ \A q \in Requests : request[q].host # h
  /\ records' = [records EXCEPT ![h] = "registered"]
  /\ To(r, "probing", "add", h)
  /\ UNCHANGED <<refused, status, secrets, watcher, eventAbort, events, stopping, up,
                 outages>>

(* secrets.put() resolves, or rejects and with it add(). *)
SecretPut(r, stored) ==
  LET h == request[r].host
  IN  /\ request[r].pc = "putting"
      /\ IF stored
         THEN /\ secrets' = secrets \cup {h}
              /\ records' = [records EXCEPT ![h] = "registered"]
              /\ To(r, "probing", "add", h)
         ELSE Finish(r) /\ UNCHANGED <<secrets, records>>
      /\ UNCHANGED <<refused, status, watcher, eventAbort, events, stopping, up,
                     outages>>

(* Fault: the host's event stream is left open. *)
Remove_KeepStream(r, h) ==
  /\ request[r] = Idle
  /\ registered(h)
  /\ records' = [records EXCEPT ![h] = "removed"]
  /\ IF h \in secrets THEN To(r, "deleting", "remove", h) ELSE UNCHANGED request
  /\ UNCHANGED <<refused, status, secrets, watcher, eventAbort, events, stopping, up,
                 outages>>

(* Fault: the certificates are left where they are. *)
Remove_KeepSecret(r, h) ==
  /\ request[r] = Idle
  /\ registered(h)
  /\ records' = [records EXCEPT ![h] = "removed"]
  /\ eventAbort' = [eventAbort EXCEPT ![h] = TRUE]
  /\ UNCHANGED <<refused, status, secrets, watcher, events, stopping, request, up,
                 outages>>

(* remove(): forget the host, end its stream, delete its certificates. *)
Remove(r, h) ==
  /\ request[r] = Idle
  /\ registered(h)
  /\ records' = [records EXCEPT ![h] = "removed"]
  /\ eventAbort' = [eventAbort EXCEPT ![h] = TRUE]
  /\ IF h \in secrets THEN To(r, "deleting", "remove", h) ELSE UNCHANGED request
  /\ UNCHANGED <<refused, status, secrets, watcher, events, stopping, up, outages>>

(* secrets.delete() resolves, or rejects: the host is gone all the same. *)
SecretDeleted(r, deleted) ==
  LET h == request[r].host
  IN  /\ request[r].pc = "deleting"
      /\ IF deleted THEN secrets' = secrets \ {h} /\ UNCHANGED refused
         ELSE refused' = refused \cup {h} /\ UNCHANGED secrets
      /\ Finish(r)
      /\ UNCHANGED <<records, status, watcher, eventAbort, events, stopping, up,
                     outages>>

(* test(): a probe on demand. *)
Test(r, h) ==
  /\ request[r] = Idle
  /\ registered(h)
  /\ To(r, "probing", "test", h)
  /\ UNCHANGED <<refused, records, status, secrets, watcher, eventAbort, events,
                 stopping, up, outages>>

(* The dashboard and the lists are served whatever the status ...           *)
List(r, h) ==
  /\ request[r] = Idle
  /\ registered(h)
  /\ To(r, "requesting", "list", h)
  /\ UNCHANGED <<refused, records, status, secrets, watcher, eventAbort, events,
                 stopping, up, outages>>

(* ... and so are inspections, logs and statistics.                         *)
Inspect(r, h) ==
  /\ request[r] = Idle
  /\ registered(h)
  /\ To(r, "requesting", "inspect", h)
  /\ UNCHANGED <<refused, records, status, secrets, watcher, eventAbort, events,
                 stopping, up, outages>>

(* assertOnline() *)
Mutate(r, h) ==
  /\ request[r] = Idle
  /\ registered(h)
  /\ status[h] = "online"
  /\ To(r, "requesting", "mutate", h)
  /\ UNCHANGED <<refused, records, status, secrets, watcher, eventAbort, events,
                 stopping, up, outages>>

EngineAnswers(r, answer) ==
  /\ Asking(r)
  /\ request[r].answer = "none"
  /\ answer \in IF up THEN {"ok", "rejected"} ELSE {"failed"}
  /\ request' = [request EXCEPT ![r].answer = answer]
  /\ UNCHANGED <<refused, records, status, secrets, watcher, eventAbort, events,
                 stopping, up, outages>>

(* Logs, pulls and builds are streams and carry no timeout: one may hang for *)
(* good, and then it does nothing more here.                                 *)
StreamHangs(r) ==
  /\ request[r].pc = "requesting" /\ request[r].op \in {"inspect", "mutate"}
  /\ request[r].answer = "none"
  /\ Finish(r)
  /\ UNCHANGED <<refused, records, status, secrets, watcher, eventAbort, events,
                 stopping, up, outages>>

(* Fault: only a probe brings a host back. *)
Marked_ProbeOnly(r) ==
  CASE request[r].answer = "ok" ->
         IF request[r].pc = "probing" THEN "online" ELSE status[request[r].host]
    [] request[r].answer = "rejected" /\ request[r].op \in {"inspect", "mutate"} ->
         status[request[r].host]
    [] OTHER -> "offline"

(* markOnline(); markOffline() of probes, lists and the dashboard; and       *)
(* markOfflineIfConnectionError() of everything else, which leaves the       *)
(* status alone for a 4xx answer (and, like it, a cancelled mutation).       *)
Marked(r) ==
  CASE request[r].answer = "ok" -> "online"
    [] request[r].answer = "rejected" /\ request[r].op \in {"inspect", "mutate"} ->
         status[request[r].host]
    [] OTHER -> "offline"

(* Fault: a host whose first probe failed is not watched. *)
Answered_WatchOnline(r) ==
  LET h == request[r].host
  IN  /\ Asking(r)
      /\ request[r].answer # "none"
      /\ status' = [status EXCEPT ![h] = Marked(r)]
      /\ IF request[r].op = "add" /\ Marked(r) = "online"
         THEN Loop(h) ELSE UNCHANGED <<watcher, eventAbort>>
      /\ Finish(r)
      /\ UNCHANGED <<refused, records, secrets, events, stopping, up, outages>>

(* The answer is handled; add() then starts the watcher. *)
Answered(r) ==
  LET h == request[r].host
  IN  /\ Asking(r)
      /\ request[r].answer # "none"
      /\ status' = [status EXCEPT ![h] = Marked(r)]
      /\ IF request[r].op = "add" THEN Loop(h) ELSE UNCHANGED <<watcher, eventAbort>>
      /\ Finish(r)
      /\ UNCHANGED <<refused, records, secrets, events, stopping, up, outages>>

-----------------------------------------------------------------------------
(* Watchers. *)

(* The stream broke off or could not be opened (failed), or ended: sleep    *)
(* three seconds unless the gateway stops.                                   *)
Pause(h, failed) ==
  IF stopping THEN Loop(h) /\ UNCHANGED status
  ELSE /\ watcher' = [watcher EXCEPT ![h] = "sleeping"]
       /\ status' = [status EXCEPT ![h] = IF failed THEN "offline" ELSE @]
       /\ UNCHANGED eventAbort

StreamOpens(h) ==
  /\ watcher[h] = "opening"
  /\ up /\ ~eventAbort[h]
  /\ watcher' = [watcher EXCEPT ![h] = "streaming"]
  /\ UNCHANGED <<refused, records, status, secrets, eventAbort, events, stopping,
                 request, up, outages>>

StreamEvent(h) ==
  /\ watcher[h] = "streaming"
  /\ up /\ ~eventAbort[h]
  /\ events[h] < MaxEvents
  /\ events' = [events EXCEPT ![h] = @ + 1]
  /\ status' = [status EXCEPT ![h] = "online"]
  /\ UNCHANGED <<refused, records, secrets, watcher, eventAbort, stopping, request, up,
                 outages>>

(* It is aborted, the Engine is down, or the Engine refuses or closes it.   *)
StreamFails(h) ==
  /\ watcher[h] \in {"opening", "streaming"}
  /\ eventAbort[h] \/ ~up
  /\ Pause(h, TRUE)
  /\ UNCHANGED <<refused, records, secrets, events, stopping, request, up, outages>>

StreamCloses(h) ==
  /\ watcher[h] \in {"opening", "streaming"}
  /\ Pause(h, FALSE)
  /\ UNCHANGED <<refused, records, secrets, events, stopping, request, up, outages>>

Wake(h) ==
  /\ watcher[h] = "sleeping"
  /\ Loop(h)
  /\ UNCHANGED <<refused, records, status, secrets, events, stopping, request, up,
                 outages>>

-----------------------------------------------------------------------------
(* Fault: close() leaves the streams open. *)
Close_KeepStreams ==
  /\ ~stopping
  /\ stopping' = TRUE
  /\ UNCHANGED <<refused, records, status, secrets, watcher, eventAbort, events,
                 request, up, outages>>

(* close(): the gateway shuts down. *)
Close ==
  /\ ~stopping
  /\ stopping' = TRUE
  /\ eventAbort' = [h \in Hosts |-> eventAbort[h] \/ registered(h)]
  /\ UNCHANGED <<refused, records, status, secrets, watcher, events, request, up,
                 outages>>

EnginesFail ==
  /\ up /\ outages < MaxOutages
  /\ up' = FALSE /\ outages' = outages + 1
  /\ UNCHANGED <<refused, records, status, secrets, watcher, eventAbort, events,
                 stopping, request>>

EnginesRecover ==
  /\ ~up
  /\ up' = TRUE
  /\ UNCHANGED <<refused, records, status, secrets, watcher, eventAbort, events,
                 stopping, request, outages>>

Next ==
  \/ \E r \in Requests, h \in Hosts :
       \/ AddWithTls(r, h) \/ Add(r, h) \/ Remove(r, h) \/ Test(r, h)
       \/ List(r, h) \/ Inspect(r, h) \/ Mutate(r, h)
  \/ \E r \in Requests :
       \/ \E stored \in BOOLEAN : SecretPut(r, stored)
       \/ \E deleted \in BOOLEAN : SecretDeleted(r, deleted)
       \/ \E answer \in {"ok", "rejected", "failed"} : EngineAnswers(r, answer)
       \/ StreamHangs(r) \/ Answered(r)
  \/ \E h \in Hosts : StreamOpens(h) \/ StreamEvent(h) \/ StreamFails(h) \/ StreamCloses(h)
                      \/ Wake(h)
  \/ Close
  \/ EnginesFail
  \/ EnginesRecover

Spec == Init /\ [][Next]_vars

(* The Engine's part of a request ends, or it hangs if it may. *)
AnswerOrHang(r) ==
  StreamHangs(r) \/ \E answer \in {"ok", "rejected", "failed"} : EngineAnswers(r, answer)

(* Answers come or time out, except those of streams, aborted and broken     *)
(* event streams fail, timers fire.                                          *)
FairSpec ==
  /\ Spec
  /\ \A r \in Requests :
       /\ WF_vars(AnswerOrHang(r))
       /\ WF_vars(Answered(r))
  /\ \A h \in Hosts : WF_vars(StreamFails(h)) /\ WF_vars(Wake(h))

(* The desktop asks for its host's dashboard every 30 seconds, and an Engine *)
(* that is up serves it sooner or later.                                     *)
PolledSpec ==
  /\ FairSpec
  /\ \A h \in Hosts : SF_vars(\E r \in Requests : List(r, h))
  /\ \A r \in Requests : SF_vars(EngineAnswers(r, "ok"))

-----------------------------------------------------------------------------
TypeOK ==
  /\ records \in [Hosts -> {"absent", "registered", "removed"}]
  /\ status \in [Hosts -> {"unknown", "online", "offline"}]
  /\ secrets \subseteq Hosts
  /\ watcher \in [Hosts -> {"none", "opening", "streaming", "sleeping", "stopped"}]
  /\ eventAbort \in [Hosts -> BOOLEAN]
  /\ events \in [Hosts -> 0 .. MaxEvents]
  /\ stopping \in BOOLEAN
  /\ request \in [Requests -> [pc : {"idle", "putting", "probing", "requesting", "deleting"},
                               op : {"none", "add", "remove", "test", "list", "inspect",
                                     "mutate"},
                               host : Hosts \cup {NoHost},
                               answer : {"none", "ok", "rejected", "failed"}]]
  /\ refused \subseteq Hosts
  /\ up \in BOOLEAN /\ outages \in 0 .. MaxOutages

(* Certificates are kept only for registered hosts, except while a removal  *)
(* deletes them or after the secret store refused to (add, remove).          *)
SecretsHaveHosts ==
  \A h \in secrets \ refused : registered(h) \/ \E r \in Requests :
    request[r].host = h /\ request[r].pc = "deleting"

(* Every host that add() has returned is watched, online or not, until it   *)
(* is removed or the gateway stops; the stream of any other host is aborted. *)
HostsAreWatched ==
  \A h \in Hosts :
    /\ registered(h) /\ ~stopping =>
         \/ watcher[h] \in {"opening", "streaming", "sleeping"}
         \/ \E r \in Requests : request[r].op = "add" /\ request[r].host = h
    /\ watcher[h] \in {"opening", "streaming"} /\ ~registered(h) => eventAbort[h]

(* Once remove() has let go of a host no event of it is published any more, *)
(* not even by a stream that was open (watchEvents, eventAbort).             *)
RemovedHostIsQuiet ==
  [][\A h \in Hosts : events'[h] # events[h] => registered(h)]_vars

(* Liveness: a host whose Engine is back returns to online through the       *)
(* requests it serves, without a test() and whatever late failures say.      *)
StatusHeals ==
  \A h \in Hosts : <>[](registered(h) /\ up) => []<>(status[h] = "online")

(* Liveness: a watcher ends once its host is removed or the gateway closes,  *)
(* whether it streams, sleeps between two streams or is reopening one.       *)
UnwantedWatchersEnd ==
  \A h \in Hosts : records[h] = "removed" \/ stopping
                   ~> watcher[h] \in {"none", "stopped"}
=============================================================================
