--------------------------- MODULE ScanRunnerProofs ---------------------------
(***************************************************************************)
(* The safety properties of ScanRunner for any number of scans and polls.  *)
(***************************************************************************)
EXTENDS ScanRunner, TLAPS

(* An Engine that answers keeps its host online.                             *)
HostAnswers == reliable => online

(* Where a scan stands tells how far its container has come, and why.        *)
Placed(s) ==
  /\ pc[s] = "idle" => ~aborted(s)
  /\ pc[s] = "sleeping" => polls[s] < MaxPolls
  /\ pc[s] = "killing" => aborted(s)
  /\ thrown[s] = "operation_cancelled" => aborted(s)
  /\ pc[s] \in {"idle", "inspectingImage", "pulling", "listing"} => container[s] = "none"
  /\ pc[s] = "creating" => container[s] \in {"requested", "created"}
  /\ pc[s] = "starting" => container[s] \in {"starting", "running", "exited"}
  /\ pc[s] \in {"sleeping", "inspecting"} => container[s] \in {"running", "exited"}
  /\ pc[s] = "reading" => container[s] = "exited"
  /\ pc[s] \in {"killing", "deleting", "done"} /\ thrown[s] = "none"
       => container[s] \in {"exited", "none"}

(* What the cleanup of a scan has come to with an Engine that answers.       *)
Cleaned(s) ==
  reliable =>
    /\ pc[s] = "done" /\ ~aborted(s) => container[s] = "none"
    /\ abortedAt[s] \in {"sleeping", "inspecting"} =>
         /\ pc[s] \in {"sleeping", "inspecting", "reading", "killing", "done"}
         /\ pc[s] = "killing" => container[s] \in {"running", "exited"}
         /\ pc[s] = "done" => container[s] = "exited"

(* The inductive invariant. *)
IInv ==
  /\ TypeOK /\ HostAnswers
  /\ \A s \in Scans : Placed(s)
  /\ \A s \in Scans : Cleaned(s)

-----------------------------------------------------------------------------
(* Types are preserved: a scan sleeps only while it has polls left.          *)
LEMMA TypeOKStep == IInv /\ [Next]_vars => TypeOK'
<1> SUFFICES ASSUME TypeOK, \A s \in Scans : Placed(s), [Next]_vars PROVE TypeOK'
  BY DEF IInv
<1>1. ASSUME NEW s \in Scans, Begin(s) PROVE TypeOK'
  BY <1>1, PollsAssumption, FaultsAssumption
     DEF Begin, Goto, Placed, TypeOK, Signalled, Unsignalled
<1>2. ASSUME NEW s \in Scans, NEW answer \in Answers \cup {"missing"},
             ImageInspected(s, answer)
      PROVE  TypeOK'
  BY <1>2, PollsAssumption, FaultsAssumption
     DEF ImageInspected, Goto, Reject, Marked, Answers, Placed, TypeOK, Signalled, Unsignalled
<1>3. ASSUME NEW s \in Scans, NEW answer \in Answers,
             Pulled(s, answer)
      PROVE  TypeOK'
  BY <1>3, PollsAssumption, FaultsAssumption
     DEF Pulled, Goto, Reject, Marked, Answers, Placed, TypeOK, Signalled, Unsignalled
<1>4. ASSUME NEW s \in Scans, NEW answer \in Answers,
             ImagesListed(s, answer)
      PROVE  TypeOK'
  BY <1>4, PollsAssumption, FaultsAssumption
     DEF ImagesListed, Goto, Reject, Answers, Placed, TypeOK, Signalled, Unsignalled
<1>5. ASSUME NEW s \in Scans, NEW answer \in Answers,
             Created(s, answer)
      PROVE  TypeOK'
  BY <1>5, PollsAssumption, FaultsAssumption
     DEF Created, Goto, Reject, Marked, Answers, Placed, TypeOK, Signalled, Unsignalled
<1>6. ASSUME NEW s \in Scans, NEW answer \in Answers,
             Started(s, answer)
      PROVE  TypeOK'
  BY <1>6, PollsAssumption, FaultsAssumption
     DEF Started, Goto, Poll, CleanUp, Marked, Answers, Placed, TypeOK, Signalled, Unsignalled
<1>7. ASSUME NEW s \in Scans, Woken(s) PROVE TypeOK'
  BY <1>7, PollsAssumption, FaultsAssumption
     DEF Woken, Goto, CleanUp, Placed, TypeOK, Signalled, Unsignalled
<1>8. ASSUME NEW s \in Scans, NEW answer \in Answers,
             ContainerInspected(s, answer)
      PROVE  TypeOK'
  BY <1>8, PollsAssumption, FaultsAssumption
     DEF ContainerInspected, Goto, Poll, CleanUp, Marked, Answers, Placed, TypeOK, Signalled, Unsignalled
<1>9. ASSUME NEW s \in Scans, NEW answer \in Answers,
             LogsRead(s, answer)
      PROVE  TypeOK'
  <2>1. PICK to \in {"done", "killing", "deleting"},
             err \in {"none", "scan_failed", "engine_error"} :
          pc' = [pc EXCEPT ![s] = to] /\ thrown' = [thrown EXCEPT ![s] = err]
    BY <1>9 DEF LogsRead, CleanUp
  <2>2. online' \in BOOLEAN /\ UNCHANGED <<abortedAt, polls, container, reliable>>
    BY <1>9 DEF LogsRead, Marked, TypeOK
  <2> QED
    BY <2>1, <2>2 DEF TypeOK, Signalled, Unsignalled
<1>10. ASSUME NEW s \in Scans, NEW answer \in Answers,
             Killed(s, answer)
      PROVE  TypeOK'
  BY <1>10, PollsAssumption, FaultsAssumption
     DEF Killed, Goto, Marked, Answers, Placed, TypeOK, Signalled, Unsignalled
<1>11. ASSUME NEW s \in Scans, NEW answer \in Answers,
             Deleted(s, answer)
      PROVE  TypeOK'
  BY <1>11, PollsAssumption, FaultsAssumption
     DEF Deleted, Goto, Marked, Answers, Placed, TypeOK, Signalled, Unsignalled
<1>12. ASSUME NEW s \in Scans, Interrupted(s) PROVE TypeOK'
  BY <1>12, PollsAssumption, FaultsAssumption
     DEF Interrupted, Goto, CleanUp, Reject, Placed, TypeOK, Signalled, Unsignalled
<1>13. ASSUME NEW s \in Scans, Abort(s) PROVE TypeOK'
  BY <1>13, PollsAssumption, FaultsAssumption
     DEF Abort, Placed, TypeOK, Signalled, Unsignalled
<1>14. ASSUME NEW s \in Scans, EngineActs(s) PROVE TypeOK'
  BY <1>14, PollsAssumption, FaultsAssumption
     DEF EngineActs, Placed, TypeOK, Signalled, Unsignalled
<1>15. ASSUME HostMarked PROVE TypeOK'
  BY <1>15 DEF HostMarked, Placed, TypeOK, Signalled, Unsignalled
<1>16. ASSUME UNCHANGED vars PROVE TypeOK'
  BY <1>16 DEF vars, Placed, TypeOK, Signalled, Unsignalled
<1> QED
  BY <1>1, <1>2, <1>3, <1>4, <1>5, <1>6, <1>7, <1>8, <1>9, <1>10, <1>11, <1>12, <1>13, <1>14, <1>15, <1>16
     DEF Next, Answered

(* Only an Engine in trouble takes its host offline.                         *)
LEMMA HostAnswersStep == IInv /\ [Next]_vars => HostAnswers'
<1> SUFFICES ASSUME TypeOK, HostAnswers, \A s \in Scans : Placed(s), [Next]_vars
             PROVE  HostAnswers'
  BY DEF IInv
<1>1. ASSUME NEW s \in Scans, Begin(s) PROVE HostAnswers'
  BY <1>1
     DEF Begin, Goto, HostAnswers
<1>2. ASSUME NEW s \in Scans, NEW answer \in Answers \cup {"missing"},
             ImageInspected(s, answer)
      PROVE  HostAnswers'
  BY <1>2
     DEF ImageInspected, Goto, Reject, Marked, Answers, HostAnswers
<1>3. ASSUME NEW s \in Scans, NEW answer \in Answers,
             Pulled(s, answer)
      PROVE  HostAnswers'
  BY <1>3
     DEF Pulled, Goto, Reject, Marked, Answers, HostAnswers
<1>4. ASSUME NEW s \in Scans, NEW answer \in Answers,
             ImagesListed(s, answer)
      PROVE  HostAnswers'
  BY <1>4
     DEF ImagesListed, Goto, Reject, Answers, HostAnswers
<1>5. ASSUME NEW s \in Scans, NEW answer \in Answers,
             Created(s, answer)
      PROVE  HostAnswers'
  BY <1>5
     DEF Created, Goto, Reject, Marked, Answers, HostAnswers
<1>6. ASSUME NEW s \in Scans, NEW answer \in Answers,
             Started(s, answer)
      PROVE  HostAnswers'
  BY <1>6
     DEF Started, Goto, Poll, CleanUp, Marked, Answers, HostAnswers
<1>7. ASSUME NEW s \in Scans, Woken(s) PROVE HostAnswers'
  BY <1>7
     DEF Woken, Goto, CleanUp, HostAnswers
<1>8. ASSUME NEW s \in Scans, NEW answer \in Answers,
             ContainerInspected(s, answer)
      PROVE  HostAnswers'
  BY <1>8
     DEF ContainerInspected, Goto, Poll, CleanUp, Marked, Answers, HostAnswers
<1>9. ASSUME NEW s \in Scans, NEW answer \in Answers,
             LogsRead(s, answer)
      PROVE  HostAnswers'
  BY <1>9
     DEF LogsRead, Goto, CleanUp, Marked, Answers, HostAnswers
<1>10. ASSUME NEW s \in Scans, NEW answer \in Answers,
             Killed(s, answer)
      PROVE  HostAnswers'
  BY <1>10
     DEF Killed, Goto, Marked, Answers, HostAnswers
<1>11. ASSUME NEW s \in Scans, NEW answer \in Answers,
             Deleted(s, answer)
      PROVE  HostAnswers'
  BY <1>11
     DEF Deleted, Goto, Marked, Answers, HostAnswers
<1>12. ASSUME NEW s \in Scans, Interrupted(s) PROVE HostAnswers'
  BY <1>12
     DEF Interrupted, Goto, CleanUp, Reject, HostAnswers
<1>13. ASSUME NEW s \in Scans, Abort(s) PROVE HostAnswers'
  BY <1>13
     DEF Abort, HostAnswers
<1>14. ASSUME NEW s \in Scans, EngineActs(s) PROVE HostAnswers'
  BY <1>14
     DEF EngineActs, HostAnswers
<1>15. ASSUME HostMarked PROVE HostAnswers'
  BY <1>15 DEF HostMarked, HostAnswers
<1>16. ASSUME UNCHANGED vars PROVE HostAnswers'
  BY <1>16 DEF vars, HostAnswers
<1> QED
  BY <1>1, <1>2, <1>3, <1>4, <1>5, <1>6, <1>7, <1>8, <1>9, <1>10, <1>11, <1>12, <1>13, <1>14, <1>15, <1>16
     DEF Next, Answered

LEMMA PlacedStep == IInv /\ [Next]_vars => \A t \in Scans : Placed(t)'
<1> SUFFICES ASSUME TypeOK, HostAnswers, \A s \in Scans : Placed(s), [Next]_vars
             PROVE  \A t \in Scans : Placed(t)'
  BY DEF IInv
<1>1. ASSUME NEW s \in Scans, Begin(s) PROVE \A t \in Scans : Placed(t)'
  BY <1>1, PollsAssumption
     DEF Begin, Goto, Placed, aborted, TypeOK, Signalled, Unsignalled
<1>2. ASSUME NEW s \in Scans, NEW answer \in Answers \cup {"missing"},
             ImageInspected(s, answer)
      PROVE  \A t \in Scans : Placed(t)'
  BY <1>2, PollsAssumption
     DEF ImageInspected, Goto, Reject, Marked, Answers, Placed, aborted, TypeOK, Signalled, Unsignalled
<1>3. ASSUME NEW s \in Scans, NEW answer \in Answers,
             Pulled(s, answer)
      PROVE  \A t \in Scans : Placed(t)'
  BY <1>3, PollsAssumption
     DEF Pulled, Goto, Reject, Marked, Answers, Placed, aborted, TypeOK, Signalled, Unsignalled
<1>4. ASSUME NEW s \in Scans, NEW answer \in Answers,
             ImagesListed(s, answer)
      PROVE  \A t \in Scans : Placed(t)'
  BY <1>4, PollsAssumption
     DEF ImagesListed, Goto, Reject, Answers, Placed, aborted, TypeOK, Signalled, Unsignalled
<1>5. ASSUME NEW s \in Scans, NEW answer \in Answers,
             Created(s, answer)
      PROVE  \A t \in Scans : Placed(t)'
  BY <1>5, PollsAssumption
     DEF Created, Goto, Reject, Marked, Answers, Placed, aborted, TypeOK, Signalled, Unsignalled
<1>6. ASSUME NEW s \in Scans, NEW answer \in Answers,
             Started(s, answer)
      PROVE  \A t \in Scans : Placed(t)'
  BY <1>6, PollsAssumption
     DEF Started, Goto, Poll, CleanUp, Marked, Answers, Placed, aborted, TypeOK, Signalled, Unsignalled
<1>7. ASSUME NEW s \in Scans, Woken(s) PROVE \A t \in Scans : Placed(t)'
  BY <1>7, PollsAssumption
     DEF Woken, Goto, CleanUp, Placed, aborted, TypeOK, Signalled, Unsignalled
<1>8. ASSUME NEW s \in Scans, NEW answer \in Answers,
             ContainerInspected(s, answer)
      PROVE  \A t \in Scans : Placed(t)'
  BY <1>8, PollsAssumption
     DEF ContainerInspected, Goto, Poll, CleanUp, Marked, Answers, Placed, aborted, TypeOK, Signalled, Unsignalled
<1>9. ASSUME NEW s \in Scans, NEW answer \in Answers,
             LogsRead(s, answer)
      PROVE  \A t \in Scans : Placed(t)'
  BY <1>9, PollsAssumption
     DEF LogsRead, Goto, CleanUp, Marked, Answers, Placed, aborted, TypeOK, Signalled, Unsignalled
<1>10. ASSUME NEW s \in Scans, NEW answer \in Answers,
             Killed(s, answer)
      PROVE  \A t \in Scans : Placed(t)'
  BY <1>10, PollsAssumption
     DEF Killed, Goto, Marked, Answers, Placed, aborted, TypeOK, Signalled, Unsignalled
<1>11. ASSUME NEW s \in Scans, NEW answer \in Answers,
             Deleted(s, answer)
      PROVE  \A t \in Scans : Placed(t)'
  BY <1>11, PollsAssumption
     DEF Deleted, Goto, Marked, Answers, Placed, aborted, TypeOK, Signalled, Unsignalled
<1>12. ASSUME NEW s \in Scans, Interrupted(s) PROVE \A t \in Scans : Placed(t)'
  BY <1>12, PollsAssumption
     DEF Interrupted, Goto, CleanUp, Reject, Placed, aborted, TypeOK, Signalled, Unsignalled
<1>13. ASSUME NEW s \in Scans, Abort(s) PROVE \A t \in Scans : Placed(t)'
  BY <1>13, PollsAssumption
     DEF Abort, Placed, aborted, TypeOK, Signalled, Unsignalled
<1>14. ASSUME NEW s \in Scans, EngineActs(s) PROVE \A t \in Scans : Placed(t)'
  BY <1>14, PollsAssumption
     DEF EngineActs, Placed, aborted, TypeOK, Signalled, Unsignalled
<1>15. ASSUME HostMarked PROVE \A t \in Scans : Placed(t)'
  BY <1>15 DEF HostMarked, Placed, aborted, TypeOK, Signalled, Unsignalled
<1>16. ASSUME UNCHANGED vars PROVE \A t \in Scans : Placed(t)'
  BY <1>16 DEF vars, Placed, aborted, TypeOK, Signalled, Unsignalled
<1> QED
  BY <1>1, <1>2, <1>3, <1>4, <1>5, <1>6, <1>7, <1>8, <1>9, <1>10, <1>11, <1>12, <1>13, <1>14, <1>15, <1>16
     DEF Next, Answered

LEMMA CleanedStep == IInv /\ [Next]_vars => \A t \in Scans : Cleaned(t)'
<1> SUFFICES ASSUME TypeOK, HostAnswers, \A s \in Scans : Placed(s),
                    \A s \in Scans : Cleaned(s), [Next]_vars
             PROVE  \A t \in Scans : Cleaned(t)'
  BY DEF IInv
<1>1. ASSUME NEW s \in Scans, Begin(s) PROVE \A t \in Scans : Cleaned(t)'
  BY <1>1
     DEF Begin, Goto, Cleaned, Placed, HostAnswers, aborted, TypeOK, Signalled, Unsignalled
<1>2. ASSUME NEW s \in Scans, NEW answer \in Answers \cup {"missing"},
             ImageInspected(s, answer)
      PROVE  \A t \in Scans : Cleaned(t)'
  BY <1>2
     DEF ImageInspected, Goto, Reject, Marked, Answers, Cleaned, Placed, HostAnswers, aborted, TypeOK, Signalled, Unsignalled
<1>3. ASSUME NEW s \in Scans, NEW answer \in Answers,
             Pulled(s, answer)
      PROVE  \A t \in Scans : Cleaned(t)'
  BY <1>3
     DEF Pulled, Goto, Reject, Marked, Answers, Cleaned, Placed, HostAnswers, aborted, TypeOK, Signalled, Unsignalled
<1>4. ASSUME NEW s \in Scans, NEW answer \in Answers,
             ImagesListed(s, answer)
      PROVE  \A t \in Scans : Cleaned(t)'
  BY <1>4
     DEF ImagesListed, Goto, Reject, Answers, Cleaned, Placed, HostAnswers, aborted, TypeOK, Signalled, Unsignalled
<1>5. ASSUME NEW s \in Scans, NEW answer \in Answers,
             Created(s, answer)
      PROVE  \A t \in Scans : Cleaned(t)'
  BY <1>5
     DEF Created, Goto, Reject, Marked, Answers, Cleaned, Placed, HostAnswers, aborted, TypeOK, Signalled, Unsignalled
<1>6. ASSUME NEW s \in Scans, NEW answer \in Answers,
             Started(s, answer)
      PROVE  \A t \in Scans : Cleaned(t)'
  BY <1>6
     DEF Started, Goto, Poll, CleanUp, Marked, Answers, Cleaned, Placed, HostAnswers, aborted, TypeOK, Signalled, Unsignalled
<1>7. ASSUME NEW s \in Scans, Woken(s) PROVE \A t \in Scans : Cleaned(t)'
  BY <1>7
     DEF Woken, Goto, CleanUp, Cleaned, Placed, HostAnswers, aborted, TypeOK, Signalled, Unsignalled
<1>8. ASSUME NEW s \in Scans, NEW answer \in Answers,
             ContainerInspected(s, answer)
      PROVE  \A t \in Scans : Cleaned(t)'
  BY <1>8
     DEF ContainerInspected, Goto, Poll, CleanUp, Marked, Answers, Cleaned, Placed, HostAnswers, aborted, TypeOK, Signalled, Unsignalled
<1>9. ASSUME NEW s \in Scans, NEW answer \in Answers,
             LogsRead(s, answer)
      PROVE  \A t \in Scans : Cleaned(t)'
  BY <1>9
     DEF LogsRead, Goto, CleanUp, Marked, Answers, Cleaned, Placed, HostAnswers, aborted, TypeOK, Signalled, Unsignalled
<1>10. ASSUME NEW s \in Scans, NEW answer \in Answers,
             Killed(s, answer)
      PROVE  \A t \in Scans : Cleaned(t)'
  BY <1>10
     DEF Killed, Goto, Marked, Answers, Cleaned, Placed, HostAnswers, aborted, TypeOK, Signalled, Unsignalled
<1>11. ASSUME NEW s \in Scans, NEW answer \in Answers,
             Deleted(s, answer)
      PROVE  \A t \in Scans : Cleaned(t)'
  BY <1>11
     DEF Deleted, Goto, Marked, Answers, Cleaned, Placed, HostAnswers, aborted, TypeOK, Signalled, Unsignalled
<1>12. ASSUME NEW s \in Scans, Interrupted(s) PROVE \A t \in Scans : Cleaned(t)'
  BY <1>12
     DEF Interrupted, Goto, CleanUp, Reject, Cleaned, Placed, HostAnswers, aborted, TypeOK, Signalled, Unsignalled
<1>13. ASSUME NEW s \in Scans, Abort(s) PROVE \A t \in Scans : Cleaned(t)'
  BY <1>13
     DEF Abort, Cleaned, Placed, HostAnswers, aborted, TypeOK, Signalled, Unsignalled
<1>14. ASSUME NEW s \in Scans, EngineActs(s) PROVE \A t \in Scans : Cleaned(t)'
  BY <1>14
     DEF EngineActs, Cleaned, Placed, HostAnswers, aborted, TypeOK, Signalled, Unsignalled
<1>15. ASSUME HostMarked PROVE \A t \in Scans : Cleaned(t)'
  BY <1>15 DEF HostMarked, Cleaned, Placed, HostAnswers, aborted, TypeOK, Signalled, Unsignalled
<1>16. ASSUME UNCHANGED vars PROVE \A t \in Scans : Cleaned(t)'
  BY <1>16 DEF vars, Cleaned, Placed, HostAnswers, aborted, TypeOK, Signalled, Unsignalled
<1> QED
  BY <1>1, <1>2, <1>3, <1>4, <1>5, <1>6, <1>7, <1>8, <1>9, <1>10, <1>11, <1>12, <1>13, <1>14, <1>15, <1>16
     DEF Next, Answered

LEMMA IInvInit == Init => IInv
BY PollsAssumption
   DEF Init, IInv, TypeOK, HostAnswers, Placed, Cleaned, aborted, Signalled, Unsignalled

LEMMA IInvInvariant == Spec => []IInv
<1>1. IInv /\ [Next]_vars => IInv'
  BY TypeOKStep, HostAnswersStep, PlacedStep, CleanedStep DEF IInv
<1> QED
  BY <1>1, IInvInit, PTL DEF Spec

(* The scan's variables always have their types.                             *)
THEOREM TypeCorrect == Spec => []TypeOK
BY IInvInvariant, PTL DEF IInv

(* A scan succeeds only after its container has exited, and is cancelled     *)
(* only if it was asked to be (run(), isOperationCancelledError()).          *)
THEOREM OutcomesAreEarned == Spec => []OutcomeIsEarned
<1>1. IInv => OutcomeIsEarned
  BY DEF IInv, Placed, OutcomeIsEarned, Outcome, Over, TypeOK
<1> QED
  BY <1>1, IInvInvariant, PTL

(* With an Engine that answers, a scan nobody cancels leaves no container,   *)
(* and one cancelled while it polls no running one (the finally block).      *)
THEOREM NoScannerRunsOn == Spec => []NothingRunsOn
<1>1. IInv => NothingRunsOn
  BY DEF IInv, Cleaned, NothingRunsOn, ScanCleansUp, CancelledScannerStops, Over
<1> QED
  BY <1>1, IInvInvariant, PTL
=============================================================================
