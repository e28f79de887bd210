----------------------------- MODULE ScanRunner -----------------------------
(***************************************************************************)
(* The gateway's image scan (apps/gateway/src/services/scan-runner.ts): a  *)
(* Trivy container is created, polled and removed through Engine requests. *)
(*                                                                         *)
(* An action is the code between two awaits.  Requests that carry the      *)
(* operation's abort signal are rejected with operation_cancelled once it  *)
(* fires, and not even sent afterwards; the others run to their answer.    *)
(* The Engine works on its own: a request it has received takes effect     *)
(* sooner or later, also after the gateway gave up on it.  Scans share the *)
(* host's online flag, which HostRegistry keeps and every other request to *)
(* the host moves too.                                                     *)
(***************************************************************************)
EXTENDS Integers

CONSTANTS
  Scans,     \* scan operations on one host
  Faults,    \* answers of a troubled Engine: "rejected" (4xx) and
             \* "failed" (5xx, connection lost, timeout)
  MaxPolls   \* SCAN_TIMEOUT_MS / SCAN_POLL_INTERVAL_MS

ASSUME FaultsAssumption == Faults \subseteq {"rejected", "failed"}
ASSUME PollsAssumption  == MaxPolls \in Nat \ {0}

VARIABLES
  pc,         \* pc[s]: what scan s awaits
  abortedAt,  \* abortedAt[s]: what it awaited when its signal fired, or "never"
  thrown,     \* thrown[s]: the error run() is rejecting with, or "none"
  polls,      \* polls[s]: polls of the container so far
  container,  \* container[s]: the scan container, as the Engine has it
  online,     \* the host's status is "online"
  reliable    \* the Engine answers whatever it is asked, as it should

vars == <<pc, abortedAt, thrown, polls, container, online, reliable>>

Signalled == {"pulling", "creating", "starting", "deleting"}
Unsignalled == {"inspectingImage", "listing", "inspecting", "reading", "killing"}

aborted(s) == abortedAt[s] # "never"
Over(s)    == pc[s] = "done"

Init ==
  /\ pc        = [s \in Scans |-> "idle"]
  /\ abortedAt = [s \in Scans |-> "never"]
  /\ thrown    = [s \in Scans |-> "none"]
  /\ polls     = [s \in Scans |-> 0]
  /\ container = [s \in Scans |-> "none"]
  /\ online    = TRUE
  /\ reliable \in BOOLEAN

(* How the operation of a finished scan is recorded: OperationStore asks     *)
(* isOperationCancelledError() of what run() rejected with.                  *)
Outcome(s) ==
  IF thrown[s] = "none" THEN "succeeded"
  ELSE IF thrown[s] = "operation_cancelled" THEN "cancelled" ELSE "failed"

(* markOnline, markOffline and markOfflineIfConnectionError. *)
Marked(answer) ==
  CASE answer = "failed"   -> FALSE
    [] answer = "rejected" -> online
    [] OTHER               -> TRUE

Goto(s, to)    == pc' = [pc EXCEPT ![s] = to] /\ UNCHANGED thrown
Reject(s, err) == /\ pc' = [pc EXCEPT ![s] = "done"]
                  /\ thrown' = [thrown EXCEPT ![s] = err]

-----------------------------------------------------------------------------
(* The finally block, entered with err ("none": a report is returned) while  *)
(* the host's online flag is up: kill without the signal, then delete with   *)
(* it.  Neither is tried on a host that is offline, and the aborted delete   *)
(* is never sent.                                                            *)

(* Fault: clean up only when the scan threw. *)
CleanUp_OnThrow(s, err, up) ==
  /\ thrown' = [thrown EXCEPT ![s] = err]
  /\ pc' = [pc EXCEPT ![s] =
       IF ~up \/ err = "none" THEN "done"
       ELSE IF aborted(s) THEN "killing" ELSE "deleting"]

CleanUp(s, err, up) ==
  /\ thrown' = [thrown EXCEPT ![s] = err]
  /\ pc' = [pc EXCEPT ![s] =
       IF ~up THEN "done" ELSE IF aborted(s) THEN "killing" ELSE "deleting"]

-----------------------------------------------------------------------------
Begin(s) ==
  /\ pc[s] = "idle"
  /\ Goto(s, "inspectingImage")
  /\ UNCHANGED <<abortedAt, polls, container, online, reliable>>

(* Is the scanner image there?  If not, pull it. *)
ImageInspected(s, answer) ==
  /\ pc[s] = "inspectingImage"
  /\ online' = Marked(IF answer = "missing" THEN "rejected" ELSE answer)
  /\ CASE answer = "ok" -> Goto(s, "listing")
       [] answer # "ok" /\ aborted(s) -> Reject(s, "operation_cancelled")
       [] answer \in Faults /\ ~aborted(s) -> Reject(s, "engine_error")
       [] OTHER -> IF online THEN Goto(s, "pulling") ELSE Reject(s, "host_unavailable")
  /\ UNCHANGED <<abortedAt, polls, container, reliable>>

Pulled(s, answer) ==
  /\ pc[s] = "pulling"
  /\ ~aborted(s)
  /\ online' = Marked(answer)
  /\ IF answer = "ok" THEN Goto(s, "listing") ELSE Reject(s, "engine_error")
  /\ UNCHANGED <<abortedAt, polls, container, reliable>>

(* The list only finds the image id: its failure is swallowed, but any of   *)
(* them marks the host offline.  Then createContainer().                     *)
ImagesListed(s, answer) ==
  /\ pc[s] = "listing"
  /\ online' = (answer = "ok")
  /\ CASE answer # "ok" -> Reject(s, "host_unavailable") /\ UNCHANGED container
       [] answer = "ok" /\ aborted(s) ->
            Reject(s, "operation_cancelled") /\ UNCHANGED container
       [] OTHER -> /\ Goto(s, "creating")
                   /\ container' = [container EXCEPT ![s] = "requested"]
  /\ UNCHANGED <<abortedAt, polls, reliable>>

Created(s, answer) ==
  /\ pc[s] = "creating"
  /\ ~aborted(s)
  /\ online' = Marked(answer)
  /\ IF answer = "ok"
     THEN /\ container[s] = "created"
          /\ container' = [container EXCEPT ![s] = "starting"]
          /\ Goto(s, "starting")
     ELSE Reject(s, "engine_error") /\ UNCHANGED container
  /\ UNCHANGED <<abortedAt, polls, reliable>>

(* The top of the poll loop: stop if aborted or past the deadline, which     *)
(* slow answers may bring before MaxPolls polls.                             *)
Poll(s, up) ==
  IF aborted(s) THEN CleanUp(s, "operation_cancelled", up)
  ELSE \/ polls[s] > 0 /\ CleanUp(s, "scan_timeout", up)
       \/ polls[s] < MaxPolls /\ Goto(s, "sleeping")

Started(s, answer) ==
  /\ pc[s] = "starting"
  /\ ~aborted(s)
  /\ online' = Marked(answer)
  /\ IF answer = "ok"
     THEN container[s] \in {"running", "exited"} /\ Poll(s, online')
     ELSE CleanUp(s, "engine_error", online')
  /\ UNCHANGED <<abortedAt, polls, container, reliable>>

(* Fault: the deadline is set anew after every poll. *)
Woken_NewDeadline(s) ==
  /\ pc[s] = "sleeping"
  /\ IF aborted(s) THEN CleanUp(s, "abort_error", online) ELSE Goto(s, "inspecting")
  /\ polls' = [polls EXCEPT ![s] = 1]
  /\ UNCHANGED <<abortedAt, container, online, reliable>>

(* delay() resolves, or rejects with an AbortError of its own. *)
Woken(s) ==
  /\ pc[s] = "sleeping"
  /\ IF aborted(s) THEN CleanUp(s, "abort_error", online) ELSE Goto(s, "inspecting")
  /\ polls' = [polls EXCEPT ![s] = @ + 1]
  /\ UNCHANGED <<abortedAt, container, online, reliable>>

(* Fault: the log is read whatever the container's status. *)
ContainerInspected_AnyStatus(s, answer) ==
  /\ pc[s] = "inspecting"
  /\ online' = Marked(answer)
  /\ IF answer = "ok" THEN Goto(s, "reading") ELSE CleanUp(s, "engine_error", online')
  /\ UNCHANGED <<abortedAt, polls, container, reliable>>

ContainerInspected(s, answer) ==
  /\ pc[s] = "inspecting"
  /\ online' = Marked(answer)
  /\ CASE answer = "ok" /\ container[s] = "exited" -> Goto(s, "reading")
       [] answer = "ok" /\ container[s] # "exited" -> Poll(s, online')
       [] OTHER -> CleanUp(s, "engine_error", online')
  /\ UNCHANGED <<abortedAt, polls, container, reliable>>

(* The logs hold a report, or the scanner failed before writing one.  The    *)
(* read is a stream, without a timeout and without the signal.               *)
LogsRead(s, answer) ==
  /\ pc[s] = "reading"
  /\ online' = Marked(answer)
  /\ \E err \in IF answer = "ok" THEN {"none", "scan_failed"} ELSE {"engine_error"} :
       CleanUp(s, err, online')
  /\ UNCHANGED <<abortedAt, polls, container, reliable>>

(* The kill is answered; the delete that follows carries the aborted signal. *)
Killed(s, answer) ==
  /\ pc[s] = "killing"
  /\ online' = Marked(answer)
  /\ container' = [container EXCEPT ![s] =
       IF answer = "ok" /\ @ = "running" THEN "exited" ELSE @]
  /\ Goto(s, "done")
  /\ UNCHANGED <<abortedAt, polls, reliable>>

Deleted(s, answer) ==
  /\ pc[s] = "deleting"
  /\ ~aborted(s)
  /\ online' = Marked(answer)
  /\ container' = [container EXCEPT ![s] = IF answer = "ok" THEN "none" ELSE @]
  /\ Goto(s, "done")
  /\ UNCHANGED <<abortedAt, polls, reliable>>

(* Fault: a pull reads its stream to the end, aborted or not. *)
Interrupted_NotPulls(s) ==
  /\ pc[s] \in Signalled \ {"pulling"}
  /\ aborted(s)
  /\ CASE pc[s] = "starting" -> CleanUp(s, "operation_cancelled", online)
       [] pc[s] = "deleting" -> Goto(s, "done")
       [] OTHER -> Reject(s, "operation_cancelled")
  /\ UNCHANGED <<abortedAt, polls, container, online, reliable>>

(* A request with the signal is rejected once it fires. *)
Interrupted(s) ==
  /\ pc[s] \in Signalled
  /\ aborted(s)
  /\ CASE pc[s] = "starting" -> CleanUp(s, "operation_cancelled", online)
       [] pc[s] = "deleting" -> Goto(s, "done")
       [] OTHER -> Reject(s, "operation_cancelled")
  /\ UNCHANGED <<abortedAt, polls, container, online, reliable>>

-----------------------------------------------------------------------------
(* The others. *)

(* OperationStore.cancel() fires the signal of a running operation. *)
Abort(s) ==
  /\ pc[s] \notin {"idle", "done"}
  /\ ~aborted(s)
  /\ abortedAt' = [abortedAt EXCEPT ![s] = pc[s]]
  /\ UNCHANGED <<pc, thrown, polls, container, online, reliable>>

(* What the Engine has received it carries out; a delete may be carried out *)
(* before its answer, or after nobody waits for it.                          *)
EngineActs(s) ==
  /\ \/ container[s] = "requested" /\ container' = [container EXCEPT ![s] = "created"]
     \/ container[s] = "starting"  /\ container' = [container EXCEPT ![s] = "running"]
     \/ container[s] = "running"   /\ container' = [container EXCEPT ![s] = "exited"]
     \/ pc[s] = "deleting" /\ container[s] # "none"
                           /\ container' = [container EXCEPT ![s] = "none"]
  /\ UNCHANGED <<pc, abortedAt, thrown, polls, online, reliable>>

(* Other requests to the host see it come and go. *)
HostMarked ==
  /\ ~reliable /\ "failed" \in Faults
  /\ online' = ~online
  /\ UNCHANGED <<pc, abortedAt, thrown, polls, container, reliable>>

Answers == {"ok"} \cup IF reliable THEN {} ELSE Faults

(* The requests that carry a timeout: all but the two streams, the pull and  *)
(* the log.                                                                  *)
Answered(s) ==
  \/ \E answer \in Answers \cup {"missing"} : ImageInspected(s, answer)
  \/ \E answer \in Answers :
       \/ ImagesListed(s, answer)
       \/ Created(s, answer)
       \/ Started(s, answer)
       \/ ContainerInspected(s, answer)
       \/ Killed(s, answer)
       \/ Deleted(s, answer)

Next ==
  \/ \E s \in Scans :
       \/ Begin(s)
       \/ Answered(s)
       \/ \E answer \in Answers : Pulled(s, answer) \/ LogsRead(s, answer)
       \/ Woken(s)
       \/ Interrupted(s)
       \/ Abort(s)
       \/ EngineActs(s)
  \/ HostMarked

Spec == Init /\ [][Next]_vars

(* Timers fire and aborts are delivered, and a request with a timeout is     *)
(* answered or runs into it after 60 s.  Nothing is assumed of the streams:  *)
(* requestStream() sets no timeout, so a pull or a log read may hang for     *)
(* ever; nor is a scanner obliged to exit.                                   *)
FairSpec ==
  /\ Spec
  /\ \A s \in Scans : /\ WF_vars(Woken(s))
                      /\ WF_vars(Interrupted(s))
                      /\ WF_vars(Answered(s))
                      /\ WF_vars(container[s] \in {"requested", "starting"} /\ EngineActs(s))

-----------------------------------------------------------------------------
TypeOK ==
  /\ pc \in [Scans -> {"idle", "sleeping", "done"} \cup Signalled \cup Unsignalled]
  /\ abortedAt \in [Scans -> {"never", "sleeping"} \cup Signalled \cup Unsignalled]
  /\ thrown \in [Scans -> {"none", "operation_cancelled", "abort_error", "engine_error",
                           "host_unavailable", "scan_timeout", "scan_failed"}]
  /\ polls \in [Scans -> 0 .. MaxPolls]
  /\ container \in [Scans -> {"none", "requested", "created", "starting", "running",
                              "exited"}]
  /\ online \in BOOLEAN /\ reliable \in BOOLEAN

(* With an Engine that answers, a scan nobody cancels leaves no container   *)
(* behind, whether it reports, fails or runs into the deadline (the finally  *)
(* block of run()).                                                          *)
ScanCleansUp ==
  reliable => \A s \in Scans : Over(s) /\ ~aborted(s) => container[s] = "none"

(* With an Engine that answers, the scanner of a scan cancelled while it was *)
(* polled no longer runs when the operation ends: the kill goes out without  *)
(* the signal.                                                               *)
CancelledScannerStops ==
  reliable => \A s \in Scans :
    Over(s) /\ abortedAt[s] \in {"sleeping", "inspecting"} => container[s] # "running"

(* What a scan leaves behind when it is over.                                *)
NothingRunsOn == ScanCleansUp /\ CancelledScannerStops

(* A scan reports success only after its container has exited, and never     *)
(* ends as cancelled without having been asked to.                           *)
OutcomeIsEarned ==
  \A s \in Scans : Over(s) =>
    /\ Outcome(s) = "succeeded" => container[s] \in {"exited", "none"}
    /\ Outcome(s) = "cancelled" => aborted(s)

(* Liveness: a scan that has begun ends, or waits for ever in one of its two *)
(* streams; no number of polls and no slow answer keeps it going, because    *)
(* the deadline is computed once (the loop of run()).                        *)
ScanEnds ==
  \A s \in Scans :
    pc[s] # "idle" ~> Over(s) \/ [](pc[s] = "pulling") \/ [](pc[s] = "reading")

(* Liveness: an aborted scan ends, even one whose pull stream hangs.  The    *)
(* one exception is a scan whose log read hangs, which was not given the     *)
(* signal (containerLogs()).                                                 *)
AbortedScanEnds ==
  \A s \in Scans : aborted(s) ~> Over(s) \/ [](pc[s] = "reading")
=============================================================================
